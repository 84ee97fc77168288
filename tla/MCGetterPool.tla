----------------------------- MODULE MCGetterPool -----------------------------
(* Instances of GetterPool for TLC.                                        *)
EXTENDS GetterPool, TLC

CONSTANTS r1, r2, s1

\* Getters are interchangeable, and so are blobs.
Interchangeable == Permutations(Worker) \cup Permutations(Blob)

MCScanOf == r1 :> s1 @@ r2 :> s1

===============================================================================
