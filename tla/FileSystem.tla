----------------------------- MODULE FileSystem -----------------------------
(***************************************************************************)
(* The part of a POSIX file system that zimg's disk mode relies on: the    *)
(* three directory levels of an image, the files of an image directory,    *)
(* inodes that outlive their names while a descriptor is open on them, and *)
(* the advisory lock of flock(2).  Every operator below is one system      *)
(* call, as the C code uses it.                                            *)
(***************************************************************************)
EXTENDS Naturals

CONSTANTS Threads,    \* the worker threads of the server
          NoThread,   \* nobody holds the lock
          Keys,       \* images, named by the md5 of their bytes
          Variants,   \* names of derived images inside an image's directory
          Inodes,     \* inode numbers; 0 is no inode
          Lvl1, Lvl2  \* str_hash of the key's characters 1-3 and 4-6

ASSUME ThreadsAssumption == NoThread \notin Threads
ASSUME VariantsAssumption == "orig" \notin Variants
ASSUME InodesAssumption == Inodes \subseteq Nat \ {0}
ASSUME LevelsAssumption == Lvl1 \in [Keys -> Nat] /\ Lvl2 \in [Keys -> Nat]

VARIABLES dirs,     \* the directories that exist
          entry,    \* entry[f]: the inode that file f names, or NoInode
          content,  \* content[i]: what the bytes of inode i amount to
          lock,     \* lock[i]: the thread that holds i's flock, or NoThread
          fd,       \* fd[t]: the inode t has a descriptor on, or NoInode
          streams   \* the images on whose directory a stream was left open

fsVars == <<dirs, entry, content, lock, fd, streams>>

NoInode == 0

\* "0*0" is the original's file name, called "orig" here.
Names == {"orig"} \union Variants
Files == Keys \X Names

\* Bytes of a file, as far as the properties tell them apart.
\*   empty  no bytes                    part  a proper prefix of an image
\*   orig   the bytes that were uploaded
\*   reenc  the original image, decoded and encoded again by ImageMagick
\*   conv   the image some request asked for, converted from the original
\*   bad    complete, but decoded from a prefix or mixed from two writes
Contents == {"empty", "part", "orig", "reenc", "conv", "bad"}

\* The i-th directory on the way to the files of image k:
\* img_path/lvl1, img_path/lvl1/lvl2, img_path/lvl1/lvl2/md5.
Dir(k, i) == CASE i = 1 -> <<Lvl1[k]>>
               [] i = 2 -> <<Lvl1[k], Lvl2[k]>>
               [] OTHER -> <<Lvl1[k], Lvl2[k], k>>
ImageDir(k) == Dir(k, 3)
Dirs == {Dir(k, i) : k \in Keys, i \in 1..3}

Exists(f) == entry[f] # NoInode
EntriesOf(k) == {n \in Names : Exists(<<k, n>>)}
Unused(i) == (\A f \in Files : entry[f] # i) /\ (\A t \in Threads : fd[t] # i)

FsTypeOK ==
  /\ dirs \subseteq Dirs
  /\ entry \in [Files -> Inodes \union {NoInode}]
  /\ content \in [Inodes -> Contents]
  /\ lock \in [Inodes -> Threads \union {NoThread}]
  /\ fd \in [Threads -> Inodes \union {NoInode}]
  /\ streams \subseteq Keys

FsInit ==
  /\ dirs = {}
  /\ entry = [f \in Files |-> NoInode]
  /\ content = [i \in Inodes |-> "empty"]
  /\ lock = [i \in Inodes |-> NoThread]
  /\ fd = [t \in Threads |-> NoInode]
  /\ streams = {}

(***************************************************************************)
(* System calls that succeed.  A call that fails changes nothing.          *)
(***************************************************************************)

\* mkdir(2) needs the parent and fails with EEXIST on an existing directory.
CanMkdir(k, i) == /\ Dir(k, i) \notin dirs
                  /\ i > 1 => Dir(k, i - 1) \in dirs

Mkdir(k, i) == /\ dirs' = dirs \union {Dir(k, i)}
               /\ UNCHANGED <<entry, content, lock, fd, streams>>

CanRmdir(k) == ImageDir(k) \in dirs /\ EntriesOf(k) = {}

Rmdir(k) == /\ dirs' = dirs \ {ImageDir(k)}
            /\ UNCHANGED <<entry, content, lock, fd, streams>>

\* opendir(3) without a closedir: a set stands for the streams, which are as
\* many as there were calls.
Opendir(k) == /\ streams' = streams \union {k}
              /\ UNCHANGED <<dirs, entry, content, lock, fd>>

\* open(f, O_RDONLY)
OpenRead(t, f) == /\ fd' = [fd EXCEPT ![t] = entry[f]]
                  /\ UNCHANGED <<dirs, entry, content, lock, streams>>

\* open(f, O_WRONLY | O_TRUNC | O_CREAT): an existing file loses its bytes at
\* once, whoever holds its flock.
OpenTrunc(t, f) ==
  /\ \/ /\ Exists(f)
        /\ fd' = [fd EXCEPT ![t] = entry[f]]
        /\ content' = [content EXCEPT ![entry[f]] = "empty"]
        /\ UNCHANGED entry
     \/ /\ ~Exists(f)
        /\ \E i \in Inodes : Unused(i)
        /\ LET i == CHOOSE j \in Inodes : Unused(j)
           IN  /\ entry' = [entry EXCEPT ![f] = i]
               /\ fd' = [fd EXCEPT ![t] = i]
               /\ content' = [content EXCEPT ![i] = "empty"]
  /\ UNCHANGED <<dirs, lock, streams>>

\* flock(fd, LOCK_EX | LOCK_NB) and flock(fd, LOCK_UN)
CanFlock(t) == lock[fd[t]] = NoThread

Flock(t) == /\ lock' = [lock EXCEPT ![fd[t]] = t]
            /\ UNCHANGED <<dirs, entry, content, fd, streams>>

Funlock(t) == /\ lock' = [lock EXCEPT ![fd[t]] = NoThread]
              /\ UNCHANGED <<dirs, entry, content, fd, streams>>

\* write(2) copies the bytes over the old ones from the start of the file, so
\* that the same bytes written again never show.
WriteSome(t, bytes) ==
  LET old == content[fd[t]]
      mid == IF old = bytes THEN bytes
             ELSE IF old \in {"empty", "part"} THEN "part" ELSE "bad"
  IN /\ content' = [content EXCEPT ![fd[t]] = mid]
     /\ UNCHANGED <<dirs, entry, lock, fd, streams>>

\* The rest of the bytes arrive; a longer image that was there keeps its tail.
WriteRest(t, bytes) ==
  /\ \E end \in {bytes} \union ({content[fd[t]]} \intersect {"bad"}) :
        content' = [content EXCEPT ![fd[t]] = end]
  /\ UNCHANGED <<dirs, entry, lock, fd, streams>>

\* The kernel frees an inode with its last name and its last descriptor.
Reclaim ==
  content' = [i \in Inodes |-> IF \/ \E f \in Files : entry'[f] = i
                                  \/ \E t \in Threads : fd'[t] = i
                               THEN content[i] ELSE "empty"]

\* remove(f) of a file; the result is ignored by the caller.
Remove(f) == /\ entry' = [entry EXCEPT ![f] = NoInode]
             /\ fd' = fd
             /\ Reclaim
             /\ UNCHANGED <<dirs, lock, streams>>

\* close(2) gives the flock back.
Close(t) == /\ fd' = [fd EXCEPT ![t] = NoInode]
            /\ lock' = [i \in Inodes |-> IF lock[i] = t THEN NoThread ELSE lock[i]]
            /\ entry' = entry
            /\ Reclaim
            /\ UNCHANGED <<dirs, streams>>

\* The death of the process closes every descriptor and stream; the files stay.
CloseAll == /\ fd' = [t \in Threads |-> NoInode]
            /\ lock' = [i \in Inodes |-> NoThread]
            /\ streams' = {}
            /\ entry' = entry
            /\ Reclaim
            /\ UNCHANGED dirs

(***************************************************************************)
(* read(fd, buff, len) after an fstat(fd) that saw the bytes "seen": what  *)
(* the buffer may hold, or "fail" for a short read.                        *)
(***************************************************************************)
ReadAfter(seen, now) ==
  IF now = "empty" THEN {"fail"}
  ELSE CASE now = seen /\ now # "part"    -> {now}
         [] seen = "part" /\ now # "part" -> {"part"}
         [] seen # "part" /\ now = "part" -> {"fail"}
         [] seen = "part" /\ now = "part" -> {"part", "fail"}
         [] OTHER                         -> {now, "part", "fail"}
=============================================================================
