------------------------------ MODULE MCDbStore ------------------------------
(* Constants for model-checking DbStore. *)
EXTENDS DbStoreRefines, TLC

AnyRequest == [t \in Threads |-> Ops]

\* Nobody deletes.
NoDeletes == [t \in Threads |-> Ops \ {"delete"}]

\* Workers that serve the same requests may change places.
Workers == Permutations(Threads)
=============================================================================
