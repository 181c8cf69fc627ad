------------------------------ MODULE MCUpload ------------------------------
EXTENDS Upload, TLC

\* Requests and names are interchangeable.
Symmetry == Permutations(Request) \cup Permutations(Filename)
=============================================================================
