-------------------------- MODULE DiskStoreRefines --------------------------
(***************************************************************************)
(* Disk mode implements the image store, in two readings of what it means  *)
(* for an image to be stored:                                              *)
(*   ByDirectory  the image's directory exists, which is the test every    *)
(*                handler begins with;                                     *)
(*   ByContent    the file 0*0 holds the uploaded bytes, which is what a   *)
(*                client means.                                            *)
(* The first holds for any threads and faults; the second only while one   *)
(* thread at a time is at work and no system call fails.                   *)
(***************************************************************************)
EXTENDS DiskStore

job == [t \in Threads |-> IF pc[t] = "idle" THEN "idle" ELSE op[t]]
answer == [t \in Threads |-> IF pc[t] = "reply" THEN ret[t] ELSE "none"]

\* Labels a request reaches only after it has seen the image's directory.
PastIsDir == {"exists", "ucache", "iread"} \union NewImgLabels
               \union (GetLabels \ {"gdir"})

ByDirectory == INSTANCE ImageStore WITH
  stored <- {k \in Keys : ImageDir(k) \in dirs},
  job <- job,
  key <- key,
  seen <- [t \in Threads |-> IF pc[t] \in PastIsDir THEN "present" ELSE "none"],
  answer <- answer

ByContent == INSTANCE ImageStore WITH
  stored <- {k \in Keys : Complete(k)},
  job <- job,
  key <- key,
  seen <- [t \in Threads |->
             CASE pc[t] \in PastIsDir /\ Complete(key[t])                   -> "present"
               [] pc[t] \in {"next", "remove", "rmdir"} /\ ~Complete(key[t]) -> "removed"
               [] OTHER                                                     -> "none"],
  answer <- answer

\* Whatever order is_dir, mkdir and rmdir of different requests come in, an
\* image whose directory was deleted is served to no request that starts
\* later (the cached blobs survive the delete, but are asked after is_dir),
\* and a delete says "ok" to the one request whose rmdir succeeded.
ImplementsByDirectory == ByDirectory!Spec

\* With one worker and no failing system call the store is exact: an upload
\* that says "ok" has stored all bytes, and a delete has removed them.
ImplementsByContent == ByContent!Spec
=============================================================================
