----------------------------- MODULE MCWorkspace -----------------------------
(* Three requests at once over two connections, two sessions with a turn each. *)
EXTENDS Workspace, TLC, Sequences

ItsSession == "m1" :> "s1" @@ "m2" :> "s2"

Op(kind, on) == [kind |-> kind, on |-> on]

Listing  == Op("list", "s1")
Accounts == <<Op("register", "ann"), Op("login", "ann"), Op("password", "ann"), Op("saveKey", "ann"),
              Op("resolveKey", "ann"), Listing>>
Library  == <<Op("createBase", "law"), Op("createBase", "tax"), Op("rename", "tax"),
              Op("drop", "base"), Op("createSession", "s1"), Listing>>
Talks    == <<Op("createSession", "s1"), Op("deleteSession", "s1"), Op("saveTurn", "m1"),
              Op("retitle", "s1"),
              Op("saveTurn", "m2"), Op("drop", "base"), Listing>>

\* Every three of them, in the one order that is enough: requests differ in nothing else.
ThreeOf(ops) ==
  {"r1" :> ops[at[1]] @@ "r2" :> ops[at[2]] @@ "r3" :> ops[at[3]] :
     at \in {n \in [1 .. 3 -> DOMAIN ops] : n[1] <= n[2] /\ n[2] <= n[3]}}

Mixes == ThreeOf(Accounts) \cup ThreeOf(Library) \cup ThreeOf(Talks)
=============================================================================
