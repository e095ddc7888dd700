---------------------------- MODULE DbStoreRefines ----------------------------
(***************************************************************************)
(* While no call fails, the database modes implement the image store: an   *)
(* image is stored when the database has its md5.                          *)
(***************************************************************************)
EXTENDS DbStore

\* Labels a get reaches only after exist_db has found the image.
PastExist == {"gcache", "gdb", "gset", "gcacheorig", "gdborig", "gsetorig",
              "gconvert", "gsetconv", "gsetconvsave", "gsave"}

Store == INSTANCE ImageStore WITH
  stored <- {k \in Keys : db[<<k, "orig">>] # "none"},
  job <- [t \in Threads |-> IF pc[t] = "idle" THEN "idle" ELSE op[t]],
  key <- key,
  seen <- [t \in Threads |-> IF pc[t] \in PastExist THEN "present" ELSE "none"],
  answer <- [t \in Threads |-> IF pc[t] = "reply" THEN ret[t] ELSE "none"]

\* Whatever order the calls of different requests reach the database in, an
\* upload that says "ok" found or stored the image, a delete that says "ok"
\* left no image behind, and an image that was deleted is served to no request
\* that starts later, although the cache and the database keep its copies and
\* conversions.
ImplementsStore == Store!Spec
=============================================================================
