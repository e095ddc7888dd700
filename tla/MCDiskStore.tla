----------------------------- MODULE MCDiskStore -----------------------------
(* Constants for model-checking DiskStore. *)
EXTENDS DiskStoreRefines, TLC

\* Every image hashes to the same two directories: the race to make them is on.
Buckets == [k \in Keys |-> 7]

\* Every worker serves every request.
AnyRequest == [t \in Threads |-> Ops]

CONSTANTS t1, t2

\* t1 receives all uploads; nobody deletes.
OneUploader ==
  [t \in Threads |-> IF t = t1 THEN {"upload"} ELSE {"get", "info"}]

\* Both workers change the store, one of them reads it too.
Racing == [t \in Threads |-> IF t = t1 THEN {"upload", "delete"} ELSE Ops]

\* Nobody deletes; everybody uploads and gets.
NoDeletes == [t \in Threads |-> {"upload", "get"}]

UploadsOnly == [t \in Threads |-> {"upload"}]
=============================================================================
