----------------------------- MODULE MCService -----------------------------
(* Three processes, the last with a pool of one connection, which the      *)
(* configuration accepts; two migrations; two kinds of worker.             *)
EXTENDS Service, TLC

p1 == "p1"
p2 == "p2"
p3 == "p3"
MCProc == {p1, p2, p3}
MCTask == {"t1", "t2"}
MCKindOf == "t1" :> 1 @@ "t2" :> 2
MCMaxConns == p1 :> 2 @@ p2 :> 2 @@ p3 :> 1

=============================================================================
