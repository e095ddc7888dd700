----------------------- MODULE DiskStoreRefinesProofs -----------------------
(***************************************************************************)
(* Disk mode implements the image store: every step of a worker is a step  *)
(* of ImageStore or leaves its state alone, with either reading of what it *)
(* means for an image to be stored.                                        *)
(*   ImplementsStore    by directory, for any threads, faults and crashes  *)
(*   ImplementsContent  by content, with one worker, until a call fails    *)
(* The second rests on what one worker is sure of while no system call     *)
(* fails and the process lives: requests that follow one another leave     *)
(* whole files and a sound cache behind, and fail only for a reason.       *)
(***************************************************************************)
EXTENDS DiskStoreRefines, DiskStoreProofs

USE DEF At, Goto, Hold, Return, local

OneWorker == \A s, t \in Threads : s = t

-----------------------------------------------------------------------------
(* The inductive invariant *)

\* What the file of a name holds when it is finished, and what the cache may
\* hold under its key.
Whole(n) == IF n = "orig" THEN "orig" ELSE "conv"
Kept(n) == IF n = "orig" THEN {"orig", "reenc"} ELSE {"conv", "reenc"}

\* A file is in the directory of its image, and it is whole unless the worker
\* is writing it.
WholeFiles(t) ==
  \A k \in Keys, n \in Names : Exists(<<k, n>>) =>
    /\ ImageDir(k) \in dirs
    /\ \/ content[entry[<<k, n>>]] = Whole(n)
       \/ pc[t] \in HasFile /\ Target(t) = <<k, n>>

\* The worker is between the making of a directory and that of the original in
\* it, or between the first remove of a delete and its rmdir.
Halfway(t) == /\ op[t] \in {"upload", "delete"}
              /\ pc[t] \in {"exists", "open", "next", "remove", "rmdir"}

\* A directory has its original, but for the one the worker is halfway with.
HaveOriginals(t) ==
  \A k \in Keys : ImageDir(k) \in dirs =>
    Exists(<<k, "orig">>) \/ (key[t] = k /\ Halfway(t))

\* Behind the test for the image's directory the directory stays.
InDirectory == {"exists", "ucache", "iread", "opendir", "next", "remove", "rmdir"}
                 \union NewImgLabels \union (GetLabels \ {"gdir"})
Inside(t) == pc[t] \in InDirectory => ImageDir(key[t]) \in dirs

\* mk_dirs has the parent when it comes to a level.
Climbing(t) ==
  /\ pc[t] = "access" /\ lvl[t] > 1 => Dir(key[t], lvl[t] - 1) \in dirs
  /\ pc[t] = "mkdir" => CanMkdir(key[t], lvl[t])

\* new_img has its file under the name that it opened, and writes what belongs
\* into it: a get never writes the original.
Writing(t) ==
  /\ pc[t] \in HasFile => fd[t] = entry[Target(t)]
  /\ pc[t] \in NewImgLabels => /\ buf[t] = Whole(name[t])
                               /\ op[t] = "get" => name[t] # "orig"

\* get_img reads the file of its request, which only a variant may lack.
Reading(t) ==
  /\ pc[t] \in {"gfstat", "gfread"} => fd[t] = entry[Target(t)] /\ Exists(Target(t))
  /\ pc[t] = "gfread" => buf[t] = content[fd[t]]
  /\ pc[t] \in {"gorig", "gdel", "gread", "gsetorig", "gconvert"} => name[t] # "orig"
  /\ pc[t] \in {"gsetorig", "gconvert"} => buf[t] = "reenc"
  /\ pc[t] = "gset" => buf[t] \in Kept(name[t])

\* delete_file still has to remove exactly what is there.
Deleting(t) ==
  /\ pc[t] = "next" => todo[t] = EntriesOf(key[t])
  /\ pc[t] = "remove" => /\ Exists(Target(t))
                         /\ todo[t] = EntriesOf(key[t]) \ {name[t]}
  /\ pc[t] = "rmdir" => EntriesOf(key[t]) = {}

\* The answers that NoSpuriousFailure speaks of.
Answering(t) ==
  /\ pc[t] = "reply"
  /\ \/ op[t] \in {"upload", "delete"}
     \/ op[t] = "info" /\ key[t] \in Pictures
     \/ op[t] = "get" /\ name[t] = "orig" /\ ImageDir(key[t]) \in dirs
  => ret[t] # "fail"

Stage(t) == Inside(t) /\ Climbing(t) /\ Writing(t) /\ Reading(t) /\ Deleting(t)
              /\ Answering(t)

SequentialInv ==
  faults = 0 => /\ CacheSound
                /\ \A t \in Threads : WholeFiles(t) /\ HaveOriginals(t) /\ Stage(t)

LEMMA InitSequentialInv == Init => SequentialInv
  <1> SUFFICES ASSUME Init PROVE SequentialInv
    OBVIOUS
  <1>1. CacheSound
    BY DEF Init, CacheSound, Files
  <1>2. ASSUME NEW t \in Threads PROVE WholeFiles(t) /\ HaveOriginals(t)
    BY DEF Init, FsInit, WholeFiles, HaveOriginals, Files, Exists
  <1>3. ASSUME NEW t \in Threads PROVE Stage(t)
    <2>1. pc[t] = "idle"
      BY DEF Init
    <2>2. QED
      BY <2>1 DEF Stage, Inside, InDirectory, NewImgLabels, GetLabels, Climbing, Writing,
                  HasFile, Reading, Deleting, Answering
  <1>4. QED
    BY <1>1, <1>2, <1>3 DEF SequentialInv

-----------------------------------------------------------------------------
(* Steps that leave the files alone *)

\* Files and directories stay as they are, and so does what is said of them.
LEMMA FilesStay ==
  ASSUME NEW t \in Threads, UNCHANGED <<dirs, entry, content>>,
         WholeFiles(t), HaveOriginals(t),
         pc[t] \in HasFile => pc'[t] \in HasFile /\ Target(t)' = Target(t),
         Halfway(t) => Halfway(t)' /\ key'[t] = key[t]
  PROVE  WholeFiles(t)' /\ HaveOriginals(t)'
  BY DEF WholeFiles, HaveOriginals, Exists

\* A blob that belongs under its key may be put there.
LEMMA SetCacheSound ==
  ASSUME TypeInv, CacheSound, NEW k \in Keys, NEW n \in Names, NEW b \in Kept(n),
         SetCache(<<k, n>>, b)
  PROVE  CacheSound'
  <1>1. cache \in [Files -> Blobs] /\ <<k, n>> \in Files
    BY DEF TypeInv, TypeOK, Files
  <1>2. cache' = cache \/ cache' = [cache EXCEPT ![<<k, n>>] = b]
    BY DEF SetCache
  <1>3. \A j \in Keys, m \in Names : cache'[<<j, m>>] \in {"none"} \union Kept(m)
    BY <1>1, <1>2 DEF CacheSound, Kept, Files
  <1>4. QED
    BY <1>3 DEF CacheSound, Kept

\* The original of an image whose directory is there can be read, if the image
\* can be decoded at all.
LEMMA OriginalReadable ==
  ASSUME NEW t \in Threads, WholeFiles(t), HaveOriginals(t), NEW k \in Keys,
         ImageDir(k) \in dirs, pc[t] \notin HasFile, ~Halfway(t)
  PROVE  /\ Exists(<<k, "orig">>) /\ content[entry[<<k, "orig">>]] = "orig"
         /\ DecodedFile(k) = IF k \in Pictures THEN {"reenc"} ELSE {"fail"}
  <1>1. Exists(<<k, "orig">>) /\ content[entry[<<k, "orig">>]] = "orig"
    BY DEF WholeFiles, HaveOriginals, Whole, Names
  <1>2. DecodedFile(k) = Decoded(k, "orig")
    BY <1>1 DEF DecodedFile
  <1>3. k \in Pictures => Decoded(k, "orig") = {"reenc"}
    BY DEF Decoded
  <1>4. k \notin Pictures => Decoded(k, "orig") = {"fail"}
    BY DEF Decoded
  <1>5. QED
    BY <1>1, <1>2, <1>3, <1>4

\* Requests begin and end with everything in its place.
LEMMA RequestSequential ==
  ASSUME TypeInv, NEW t \in Threads, WholeFiles(t), HaveOriginals(t), Stage(t),
         Start(t) \/ Reply(t)
  PROVE  WholeFiles(t)' /\ HaveOriginals(t)' /\ Stage(t)'
  <1>1. LocalTypeOK /\ FsTypeOK
    BY DEF TypeInv, TypeOK, LocalTypeOK
  <1>2. /\ pc[t] \in {"idle", "reply"}
        /\ pc'[t] \in {"idle", "udir", "gdir", "adir", "idir"}
    BY <1>1, FirstLabelIs DEF Start, Reply, LocalTypeOK
  <1>3. Stage(t)'
    BY <1>2 DEF Stage, Inside, InDirectory, NewImgLabels, GetLabels, Climbing, Writing,
                HasFile, Reading, Deleting, Answering
  <1>4. dirs' = dirs /\ entry' = entry
    BY DEF Start, Reply, Close, fsVars
  <1>5. \A f \in Files : Exists(f) => content'[entry[f]] = content[entry[f]]
    BY <1>1, <1>4 DEF Start, Reply, Close, Reclaim, fsVars, Exists, FsTypeOK
  <1>6. WholeFiles(t)' /\ HaveOriginals(t)'
    BY <1>2, <1>4, <1>5 DEF WholeFiles, HaveOriginals, Exists, Halfway, HasFile, Files
  <1>7. QED
    BY <1>3, <1>6

-----------------------------------------------------------------------------
(* save_img and info_img *)

LEMMA MkdirSequential ==
  ASSUME TypeInv, NEW t \in Threads, WholeFiles(t), HaveOriginals(t), Stage(t),
         MkdirStep(t), faults' = 0
  PROVE  WholeFiles(t)' /\ HaveOriginals(t)' /\ Stage(t)'
  <1>1. /\ LocalTypeOK /\ FsTypeOK /\ ~Fault
        /\ pc[t] = "mkdir" /\ op[t] = "upload" /\ key[t] \in Keys /\ lvl[t] \in 1..3
    BY MaxFaultsAssumption
    DEF TypeInv, TypeOK, LocalTypeOK, RequestOf, MkdirStep, UploadLabels, Fault
  <1>2. /\ Mkdir(key[t], lvl[t]) /\ NextLevel(t)
        /\ op' = op /\ key' = key /\ name' = name
    BY <1>1 DEF MkdirStep, Stage, Climbing
  <1>3. /\ dirs' = dirs \union {Dir(key[t], lvl[t])}
        /\ entry' = entry /\ content' = content
    BY <1>2 DEF Mkdir
  <1>4. CASE lvl[t] < 3
    <2>1. pc'[t] = "access" /\ lvl'[t] = lvl[t] + 1
      BY <1>1, <1>2, <1>4 DEF NextLevel, LocalTypeOK
    <2>2. Stage(t)'
      BY <1>1, <1>2, <1>3, <2>1
      DEF Stage, Inside, InDirectory, NewImgLabels, GetLabels, Climbing, Writing,
          HasFile, Reading, Deleting, Answering
    <2>3. \A k \in Keys : ImageDir(k) \in dirs' <=> ImageDir(k) \in dirs
      BY <1>1, <1>3, <1>4, DirsDiffer
    <2>4. WholeFiles(t)' /\ HaveOriginals(t)'
      BY <1>1, <1>3, <2>3 DEF WholeFiles, HaveOriginals, Exists, Halfway, HasFile
    <2>5. QED
      BY <2>2, <2>4
  <1>5. CASE lvl[t] = 3
    <2>1. pc'[t] = "exists" /\ ImageDir(key[t]) \in dirs'
      BY <1>1, <1>2, <1>3, <1>5 DEF NextLevel, LocalTypeOK, ImageDir
    <2>2. Stage(t)'
      BY <1>1, <1>2, <1>3, <2>1
      DEF Stage, Inside, InDirectory, NewImgLabels, GetLabels, Climbing, Writing,
          HasFile, Reading, Deleting, Answering
    <2>3. \A k \in Keys : ImageDir(k) \in dirs' => ImageDir(k) \in dirs \/ key[t] = k
      BY <1>1, <1>3, <1>5, DirsDiffer
    <2>4. Halfway(t)' /\ ~Halfway(t)
      BY <1>1, <1>2, <2>1 DEF Halfway
    <2>5. WholeFiles(t)' /\ HaveOriginals(t)'
      BY <1>1, <1>2, <1>3, <2>3, <2>4 DEF WholeFiles, HaveOriginals, Exists, HasFile
    <2>6. QED
      BY <2>2, <2>5
  <1>6. QED
    BY <1>1, <1>4, <1>5

LEMMA SaveImgSequential ==
  ASSUME TypeInv, CacheSound, NEW t \in Threads,
         WholeFiles(t), HaveOriginals(t), Stage(t), SaveImg(t), faults' = 0
  PROVE  CacheSound' /\ WholeFiles(t)' /\ HaveOriginals(t)' /\ Stage(t)'
  <1>1. LocalTypeOK /\ RequestOf(t)
    BY DEF TypeInv, TypeOK, LocalTypeOK
  <1> USE DEF LocalTypeOK, UploadLabels
  <1>2. CASE UploadIsDir(t)
    <2>1. /\ pc[t] = "udir"
          /\ IF ImageDir(key[t]) \in dirs THEN pc'[t] = "exists"
                                          ELSE pc'[t] = "access" /\ lvl'[t] = 1
          /\ UNCHANGED <<dirs, entry, content, cache, op, key, name>>
      BY <1>1, <1>2 DEF UploadIsDir, fsVars
    <2>2. WholeFiles(t)' /\ HaveOriginals(t)'
      BY <2>1, FilesStay DEF HasFile, Halfway
    <2>3. Stage(t)'
      BY <2>1
      DEF Stage, Inside, InDirectory, NewImgLabels, GetLabels, Climbing, Writing,
          HasFile, Reading, Deleting, Answering
    <2>4. QED
      BY <2>1, <2>2, <2>3 DEF CacheSound
  <1>3. CASE Access(t)
    <2>1. /\ pc[t] = "access"
          /\ UNCHANGED <<dirs, entry, content, cache, op, key, name>>
      BY <1>3 DEF Access, fsVars
    <2>2. \/ pc'[t] = "mkdir" /\ lvl'[t] = lvl[t] /\ Dir(key[t], lvl[t]) \notin dirs
          \/ /\ pc'[t] = "access" /\ lvl'[t] = lvl[t] + 1
             /\ Dir(key[t], lvl[t]) \in dirs
          \/ pc'[t] = "exists" /\ ImageDir(key[t]) \in dirs
      BY <1>1, <1>3 DEF Access, NextLevel, ImageDir
    <2>3. WholeFiles(t)' /\ HaveOriginals(t)'
      BY <2>1, FilesStay DEF HasFile, Halfway
    <2>4. Stage(t)'
      <3>1. Inside(t)'
        BY <2>1, <2>2 DEF Inside, InDirectory, NewImgLabels, GetLabels, ImageDir
      <3>2. Climbing(t)'
        BY <1>1, <2>1, <2>2 DEF Climbing, Stage, CanMkdir, Dir
      <3>3. QED
        BY <2>2, <3>1, <3>2
        DEF Stage, Writing, NewImgLabels, HasFile, Reading, Deleting, Answering
    <2>5. QED
      BY <2>1, <2>3, <2>4 DEF CacheSound
  <1>4. CASE MkdirStep(t)
    BY <1>4, MkdirSequential DEF MkdirStep, CacheSound
  <1>5. CASE UploadIsFile(t)
    <2>1. /\ pc[t] = "exists" /\ op[t] = "upload" /\ name[t] = "orig" /\ buf[t] = "orig"
          /\ pc'[t] = IF Exists(<<key[t], "orig">>) THEN "ucache" ELSE "open"
          /\ UNCHANGED <<dirs, entry, content, cache, op, key, name, buf>>
      BY <1>1, <1>5 DEF UploadIsFile, RequestOf, Original, fsVars
    <2>2. WholeFiles(t)' /\ HaveOriginals(t)'
      BY <2>1 DEF WholeFiles, HaveOriginals, Exists, Halfway, HasFile
    <2>3. Stage(t)'
      BY <2>1
      DEF Stage, Inside, InDirectory, NewImgLabels, GetLabels, Climbing, Writing,
          HasFile, Whole, Reading, Deleting, Answering
    <2>4. QED
      BY <2>1, <2>2, <2>3 DEF CacheSound
  <1>6. CASE UploadCache(t)
    <2>1. /\ pc[t] = "ucache" /\ buf[t] = "orig"
          /\ pc'[t] = "reply" /\ ret'[t] = "ok"
          /\ UNCHANGED <<dirs, entry, content, op, key, name>>
          /\ SetCache(<<key[t], "orig">>, "orig")
      BY <1>1, <1>6 DEF UploadCache, RequestOf, Original, fsVars
    <2>2. WholeFiles(t)' /\ HaveOriginals(t)'
      BY <2>1, FilesStay DEF HasFile, Halfway
    <2>3. Stage(t)'
      BY <2>1
      DEF Stage, Inside, InDirectory, NewImgLabels, GetLabels, Climbing, Writing,
          HasFile, Reading, Deleting, Answering
    <2>4. CacheSound'
      BY <1>1, <2>1, SetCacheSound DEF Kept, Names
    <2>5. QED
      BY <2>2, <2>3, <2>4
  <1>7. QED
    BY <1>2, <1>3, <1>4, <1>5, <1>6 DEF SaveImg

LEMMA InfoImgSequential ==
  ASSUME TypeInv, NEW t \in Threads,
         WholeFiles(t), HaveOriginals(t), Stage(t), InfoImg(t)
  PROVE  WholeFiles(t)' /\ HaveOriginals(t)' /\ Stage(t)'
  <1>1. LocalTypeOK /\ RequestOf(t) /\ key[t] \in Keys
    BY DEF TypeInv, TypeOK, LocalTypeOK
  <1> USE DEF LocalTypeOK
  <1>2. /\ pc[t] \in {"idir", "iread"} /\ op[t] = "info"
        /\ UNCHANGED <<dirs, entry, content, op, key, name>>
    BY <1>1 DEF InfoImg, InfoIsDir, InfoRead, RequestOf, InfoLabels, fsVars
  <1>3. WholeFiles(t)' /\ HaveOriginals(t)'
    BY <1>2, FilesStay DEF HasFile, Halfway
  <1>4. \/ pc'[t] = "iread" /\ ImageDir(key[t]) \in dirs
        \/ pc'[t] = "reply" /\ (key[t] \in Pictures => ret'[t] # "fail")
    <2>1. CASE InfoIsDir(t)
      BY <1>1, <2>1 DEF InfoIsDir
    <2>2. CASE InfoRead(t)
      <3>1. pc[t] = "iread" /\ ImageDir(key[t]) \in dirs
        BY <2>2 DEF InfoRead, Stage, Inside, InDirectory
      <3>2. key[t] \in Pictures => DecodedFile(key[t]) = {"reenc"}
        BY <1>1, <3>1, OriginalReadable DEF HasFile, Halfway
      <3>3. QED
        BY <1>1, <2>2, <3>2 DEF InfoRead
    <2>3. QED
      BY <2>1, <2>2 DEF InfoImg
  <1>5. Stage(t)'
    BY <1>2, <1>4
    DEF Stage, Inside, InDirectory, NewImgLabels, GetLabels, Climbing, Writing,
        HasFile, Reading, Deleting, Answering
  <1>6. QED
    BY <1>3, <1>5

-----------------------------------------------------------------------------
(* new_img *)

\* Behind the end of new_img a get has its conversion and an upload its blob.
LEMMA NewImgEnds ==
  ASSUME TypeInv, NEW t \in Threads, pc[t] \in NewImgLabels, Stage(t),
         AfterNewImg(t, "ok"), UNCHANGED <<dirs, op, key, name, buf>>
  PROVE  Stage(t)'
  <1>1. pc'[t] = IF op[t] = "get" THEN "gset" ELSE "ucache"
    BY DEF AfterNewImg, TypeInv, TypeOK
  <1>2. pc'[t] = "gset" => buf[t] \in Kept(name[t])
    BY DEF Stage, Writing, Whole, Kept
  <1>3. Inside(t)'
    BY DEF Stage, Inside, InDirectory
  <1>4. QED
    BY <1>1, <1>2, <1>3
    DEF Stage, Climbing, Writing, HasFile, NewImgLabels, Reading, Deleting, Answering

\* new_img leaves every file but its own as it is.
LEMMA NewImgOtherFiles ==
  ASSUME TypeInv, LinkInv, NEW t \in Threads, Writing(t), NewImg(t),
         NEW f \in Files \ {Target(t)}
  PROVE  /\ entry'[f] = entry[f]
         /\ Exists(f) => content'[entry[f]] = content[entry[f]]
  <1>1. FsTypeOK /\ Target(t) \in Files
    BY DEF TypeInv, TypeOK, Target, Files
  <1>2. CASE OpenTrunc(t, Target(t))
    <2>1. CASE Exists(Target(t))
      <3>1. Exists(f) => entry[f] # entry[Target(t)]
        BY <1>1, <2>1 DEF LinkInv
      <3>2. QED
        BY <1>1, <1>2, <2>1, <3>1 DEF OpenTrunc, Exists, FsTypeOK
    <2>2. CASE ~Exists(Target(t))
      <3> DEFINE j == CHOOSE i \in Inodes : Unused(i)
      <3>1. /\ entry' = [entry EXCEPT ![Target(t)] = j]
            /\ content' = [content EXCEPT ![j] = "empty"]
            /\ Unused(j)
        BY <1>2, <2>2, FreshInode DEF OpenTrunc
      <3> HIDE DEF j
      <3>2. QED
        BY <1>1, <3>1 DEF Unused, Exists, FsTypeOK
    <2>3. QED
      BY <2>1, <2>2
  <1>3. CASE pc[t] \in HasFile /\ (WriteSome(t, buf[t]) \/ WriteRest(t, buf[t]))
    <2>1. Exists(f) => entry[f] \in Inodes /\ entry[f] # fd[t]
      BY <1>1, <1>3 DEF LinkInv, Writing, Exists, FsTypeOK
    <2>2. QED
      BY <1>1, <1>3, <2>1 DEF WriteSome, WriteRest, FsTypeOK
  <1>4. CASE Close(t)
    BY <1>1, <1>4 DEF Close, Reclaim, Exists, FsTypeOK
  <1>5. CASE UNCHANGED <<entry, content>>
    BY <1>5
  <1>6. QED
    BY <1>2, <1>3, <1>4, <1>5
    DEF NewImg, NewImgOpen, NewImgFlock, NewImgWrite, NewImgWritten, NewImgUnlock,
        NewImgClose, Flock, Funlock, fsVars, HasFile

LEMMA OpenSequential ==
  ASSUME TypeInv, LinkInv, NEW t \in Threads,
         WholeFiles(t), HaveOriginals(t), Stage(t), NewImgOpen(t), faults' = 0
  PROVE  WholeFiles(t)' /\ HaveOriginals(t)' /\ Stage(t)'
  <1>1. /\ LocalTypeOK /\ FsTypeOK /\ ~Fault /\ RequestOf(t)
        /\ pc[t] = "open" /\ Target(t) \in Files /\ ImageDir(key[t]) \in dirs
    BY MaxFaultsAssumption
    DEF TypeInv, TypeOK, LocalTypeOK, NewImgOpen, Fault, Target, Files, Stage, Inside,
        InDirectory, NewImgLabels
  <1>2. /\ OpenTrunc(t, Target(t)) /\ pc'[t] = "flock"
        /\ UNCHANGED <<dirs, op, key, name, buf>>
    BY <1>1 DEF NewImgOpen, OpenTrunc, LocalTypeOK
  <1>3. PICK i \in Inodes : fd' = [fd EXCEPT ![t] = i] /\ entry'[Target(t)] = i
    BY <1>1, <1>2, OpenTruncFd
  <1>4. fd'[t] = entry'[Target(t)] /\ entry'[Target(t)] # NoInode
    BY <1>1, <1>3, NoInodeIsNone DEF FsTypeOK
  <1>5. \A f \in Files \ {Target(t)} :
          /\ entry'[f] = entry[f]
          /\ Exists(f) => content'[entry[f]] = content[entry[f]]
    BY NewImgOtherFiles DEF Stage, NewImg
  <1>6. WholeFiles(t)'
    <2> SUFFICES ASSUME NEW k \in Keys, NEW n \in Names, Exists(<<k, n>>)',
                        <<k, n>> # Target(t)
                 PROVE  /\ ImageDir(k) \in dirs
                        /\ content'[entry'[<<k, n>>]] = Whole(n)
      BY <1>1, <1>2 DEF WholeFiles, Target, HasFile
    <2>1. entry'[<<k, n>>] = entry[<<k, n>>] /\ Exists(<<k, n>>)
      BY <1>5 DEF Files, Exists
    <2>2. content'[entry[<<k, n>>]] = content[entry[<<k, n>>]]
      BY <1>5, <2>1 DEF Files
    <2>3. QED
      BY <1>1, <2>1, <2>2 DEF WholeFiles, HasFile
  <1>7. HaveOriginals(t)'
    <2> SUFFICES ASSUME NEW k \in Keys, ImageDir(k) \in dirs
                 PROVE  Exists(<<k, "orig">>)'
      BY <1>2 DEF HaveOriginals
    <2>1. Exists(<<k, "orig">>) \/ Target(t) = <<k, "orig">>
      BY <1>1 DEF HaveOriginals, Halfway, RequestOf, NewImgLabels, Target
    <2>2. <<k, "orig">> \in Files
      BY DEF Files, Names
    <2>3. QED
      BY <1>4, <1>5, <2>1, <2>2 DEF Exists
  <1>8. Stage(t)'
    <2>1. Inside(t)'
      BY <1>1, <1>2 DEF Inside
    <2>2. Writing(t)'
      BY <1>1, <1>2, <1>4 DEF Writing, Target, Stage, NewImgLabels
    <2>3. QED
      BY <1>2, <2>1, <2>2 DEF Stage, Climbing, Reading, Deleting, Answering
  <1>9. QED
    BY <1>6, <1>7, <1>8

\* The calls between open and close touch only the bytes of the open file.
LEMMA WriteSequential ==
  ASSUME TypeInv, LinkInv, NEW t \in Threads,
         WholeFiles(t), HaveOriginals(t), Stage(t),
         NewImgFlock(t) \/ NewImgWrite(t) \/ NewImgWritten(t) \/ NewImgUnlock(t)
  PROVE  WholeFiles(t)' /\ HaveOriginals(t)' /\ Stage(t)'
  <1>1. LocalTypeOK /\ pc[t] \in HasFile
    BY DEF TypeInv, TypeOK, LocalTypeOK, NewImgFlock, NewImgWrite, NewImgWritten,
           NewImgUnlock, HasFile
  <1>2. pc'[t] \in HasFile /\ UNCHANGED <<dirs, entry, fd, op, key, name, buf>>
    BY <1>1 DEF NewImgFlock, NewImgWrite, NewImgWritten, NewImgUnlock, LocalTypeOK,
                HasFile, Flock, WriteSome, WriteRest, Funlock, fsVars
  <1>3. \A f \in Files \ {Target(t)} :
          Exists(f) => content'[entry[f]] = content[entry[f]]
    BY NewImgOtherFiles DEF Stage, NewImg
  <1>4. WholeFiles(t)'
    <2> SUFFICES ASSUME NEW k \in Keys, NEW n \in Names, Exists(<<k, n>>),
                        Target(t) # <<k, n>>
                 PROVE  /\ ImageDir(k) \in dirs
                        /\ content'[entry[<<k, n>>]] = Whole(n)
      BY <1>2 DEF WholeFiles, Target, Exists
    <2>1. content[entry[<<k, n>>]] = Whole(n) /\ ImageDir(k) \in dirs
      BY DEF WholeFiles
    <2>2. QED
      BY <1>3, <2>1 DEF Files
  <1>5. HaveOriginals(t)'
    BY <1>1, <1>2 DEF HaveOriginals, Exists, Halfway, HasFile
  <1>6. Stage(t)'
    <2>1. Inside(t)' /\ Writing(t)'
      BY <1>1, <1>2 DEF Stage, Inside, Writing, Target, InDirectory, NewImgLabels, HasFile
    <2>2. QED
      BY <1>2, <2>1 DEF Stage, Climbing, Reading, Deleting, Answering, HasFile
  <1>7. QED
    BY <1>4, <1>5, <1>6

LEMMA CloseSequential ==
  ASSUME TypeInv, NEW t \in Threads, WholeFiles(t), HaveOriginals(t), Stage(t),
         Arrived(t), NewImgSucceeds(t), faults = 0, NewImgClose(t)
  PROVE  WholeFiles(t)' /\ HaveOriginals(t)' /\ Stage(t)'
  <1>1. /\ LocalTypeOK /\ FsTypeOK
        /\ pc[t] = "close" /\ ret[t] = "ok"
        /\ AfterNewImg(t, "ok") /\ Close(t)
        /\ UNCHANGED <<op, key, name, buf>>
    BY DEF TypeInv, TypeOK, LocalTypeOK, NewImgClose, NewImgSucceeds
  <1>2. /\ dirs' = dirs /\ entry' = entry
        /\ \A f \in Files : Exists(f) => content'[entry[f]] = content[entry[f]]
    BY <1>1 DEF Close, Reclaim, Exists, FsTypeOK
  <1>3. \A k \in Keys, n \in Names : Exists(<<k, n>>) =>
          ImageDir(k) \in dirs /\ content[entry[<<k, n>>]] = Whole(n)
    <2> SUFFICES ASSUME NEW k \in Keys, NEW n \in Names, Exists(<<k, n>>),
                        Target(t) = <<k, n>>
                 PROVE  content[entry[<<k, n>>]] = Whole(n)
      BY DEF WholeFiles
    <2>1. content[fd[t]] = buf[t] /\ fd[t] = entry[<<k, n>>] /\ buf[t] = Whole(name[t])
      BY <1>1 DEF Arrived, Stage, Writing, HasFile, NewImgLabels
    <2>2. name[t] = n
      BY DEF Target
    <2>3. QED
      BY <2>1, <2>2
  <1>4. WholeFiles(t)'
    BY <1>2, <1>3 DEF WholeFiles, Exists, Files
  <1>5. HaveOriginals(t)'
    BY <1>1, <1>2 DEF HaveOriginals, Exists, Halfway
  <1>6. Stage(t)'
    BY <1>1, <1>2, NewImgEnds DEF NewImgLabels
  <1>7. QED
    BY <1>4, <1>5, <1>6

LEMMA NewImgSequential ==
  ASSUME TypeInv, LinkInv, NEW t \in Threads, Arrived(t), NewImgSucceeds(t), CacheSound,
         WholeFiles(t), HaveOriginals(t), Stage(t), NewImg(t), faults = 0, faults' = 0
  PROVE  CacheSound' /\ WholeFiles(t)' /\ HaveOriginals(t)' /\ Stage(t)'
  <1>1. cache' = cache
    BY DEF NewImg, NewImgOpen, NewImgFlock, NewImgWrite, NewImgWritten, NewImgUnlock,
           NewImgClose
  <1>2. QED
    BY <1>1, OpenSequential, WriteSequential, CloseSequential DEF NewImg, CacheSound

-----------------------------------------------------------------------------
(* get_img *)

\* What get_img does to the files is to open one.
LEMMA GetKeepsFiles ==
  ASSUME TypeInv, NEW t \in Threads, WholeFiles(t), HaveOriginals(t), Stage(t), GetImg(t)
  PROVE  /\ WholeFiles(t)' /\ HaveOriginals(t)' /\ Inside(t)'
         /\ pc[t] \in GetLabels /\ pc'[t] \in {"open", "reply"} \union GetLabels
         /\ op[t] = "get" /\ UNCHANGED <<dirs, entry, content, op, key, name>>
  <1>1. LocalTypeOK
    BY DEF TypeInv, TypeOK, LocalTypeOK
  <1>2. UNCHANGED <<dirs, entry, content, op, key, name>>
    BY DEF GetImg, GetIsDir, GetFindCache, GetOpen, GetFstat, GetRead, GetFindOriginal,
           GetDelCache, GetReadOriginal, GetSetOriginal, GetConvert, GetSetCache,
           fsVars, OpenRead
  <1>3. /\ pc[t] \in GetLabels
        /\ pc'[t] \in {"open", "reply"} \union (GetLabels \ {"gdir"})
        /\ pc[t] = "gdir" => pc'[t] = "reply" \/ ImageDir(key[t]) \in dirs
    BY <1>1 DEF GetImg, GetIsDir, GetFindCache, GetOpen, GetFstat, GetRead,
                GetFindOriginal, GetDelCache, GetReadOriginal, GetSetOriginal,
                GetConvert, GetSetCache, Finish, GetLabels, LocalTypeOK
  <1>4. op[t] = "get"
    BY <1>3 DEF TypeInv, RequestOf
  <1>5. WholeFiles(t)' /\ HaveOriginals(t)'
    BY <1>2, <1>3, <1>4, FilesStay DEF HasFile, Halfway, GetLabels
  <1>6. Inside(t)'
    BY <1>2, <1>3 DEF Stage, Inside, InDirectory, NewImgLabels, GetLabels
  <1>7. QED
    BY <1>2, <1>3, <1>4, <1>5, <1>6

\* What get_img has read is what belongs under the name it read it from.
LEMMA GetFromFile ==
  ASSUME TypeInv, NEW t \in Threads, WholeFiles(t), HaveOriginals(t), Stage(t),
         GetOpen(t) \/ GetFstat(t) \/ GetRead(t)
  PROVE  Reading(t)' /\ pc'[t] \notin {"open", "reply"} /\ cache' = cache
  <1>1. /\ LocalTypeOK /\ FsTypeOK /\ RequestOf(t)
        /\ key[t] \in Keys /\ name[t] \in Names /\ ImageDir(key[t]) \in dirs
    BY DEF TypeInv, TypeOK, LocalTypeOK, GetOpen, GetFstat, GetRead, Stage, Inside,
           InDirectory, GetLabels
  <1>2. UNCHANGED <<entry, content, cache, key, name>>
    BY DEF GetOpen, GetFstat, GetRead, OpenRead, fsVars
  <1>3. pc[t] \notin HasFile /\ ~Halfway(t)
    BY DEF GetOpen, GetFstat, GetRead, HasFile, Halfway
  <1>4. Exists(Target(t)) => content[entry[Target(t)]] = Whole(name[t])
    BY <1>1, <1>3 DEF WholeFiles, Target
  <1>5. CASE GetOpen(t)
    <2>1. name[t] = "orig" => Exists(Target(t))
      BY <1>1, <1>3, OriginalReadable DEF Target
    <2>2. CASE Exists(Target(t))
      <3>1. pc'[t] = "gfstat" /\ fd'[t] = entry[Target(t)]
        BY <1>1, <1>5, <2>2 DEF GetOpen, OpenRead, LocalTypeOK, FsTypeOK
      <3>2. QED
        BY <1>2, <2>2, <3>1 DEF Reading, Target, Exists
    <2>3. CASE ~Exists(Target(t))
      <3>1. pc'[t] = "gorig" /\ name[t] # "orig"
        BY <1>1, <1>5, <2>1, <2>3 DEF GetOpen, LocalTypeOK
      <3>2. QED
        BY <1>2, <3>1 DEF Reading
    <2>4. QED
      BY <2>2, <2>3
  <1>6. CASE GetFstat(t)
    <2>1. pc[t] = "gfstat" /\ fd[t] = entry[Target(t)] /\ Exists(Target(t)) /\ fd' = fd
      BY <1>6 DEF GetFstat, Stage, Reading, fsVars
    <2>2. content[fd[t]] # "empty"
      BY <1>4, <2>1 DEF Whole
    <2>3. pc'[t] = "gfread" /\ buf'[t] = content[fd[t]]
      BY <1>1, <1>6, <2>2 DEF GetFstat, LocalTypeOK
    <2>4. QED
      BY <1>2, <2>1, <2>3 DEF Reading, Target, Exists
  <1>7. CASE GetRead(t)
    <2>1. /\ pc[t] = "gfread" /\ buf[t] = content[fd[t]]
          /\ content[fd[t]] = Whole(name[t])
      BY <1>4, <1>7 DEF GetRead, Stage, Reading
    <2>2. ReadAfter(buf[t], content[fd[t]]) = {Whole(name[t])}
      <3>1. Whole(name[t]) \in {"orig", "conv"}
        BY DEF Whole
      <3>2. \A b \in {"orig", "conv"} : ReadAfter(b, b) = {b}
        BY DEF ReadAfter
      <3>3. QED
        BY <2>1, <3>1, <3>2
    <2>3. pc'[t] = "gset" /\ buf'[t] = Whole(name[t])
      <3>1. Whole(name[t]) # "fail"
        BY DEF Whole
      <3>2. QED
        BY <1>1, <1>7, <2>2, <3>1 DEF GetRead, LocalTypeOK
    <2>4. QED
      BY <1>2, <2>3 DEF Reading, Whole, Kept
  <1>8. QED
    BY <1>5, <1>6, <1>7

\* A request that has to convert starts from the image itself.
LEMMA GetOriginal ==
  ASSUME TypeInv, CacheSound, NEW t \in Threads,
         WholeFiles(t), HaveOriginals(t), Stage(t),
         \/ GetFindOriginal(t) \/ GetDelCache(t) \/ GetReadOriginal(t)
         \/ GetSetOriginal(t)
  PROVE  CacheSound' /\ Reading(t)' /\ pc'[t] # "open" /\ Answering(t)'
  <1>1. /\ LocalTypeOK /\ key[t] \in Keys /\ ImageDir(key[t]) \in dirs
        /\ name[t] # "orig" /\ op[t] = "get" /\ UNCHANGED <<op, key, name>>
    BY DEF TypeInv, TypeOK, LocalTypeOK, RequestOf, GetFindOriginal, GetDelCache,
           GetReadOriginal, GetSetOriginal, Stage, Reading, Inside, InDirectory,
           GetLabels
  <1>2. Answering(t)'
    BY <1>1 DEF Answering
  <1>3. CASE GetFindOriginal(t)
    <2>1. cache[Original(t)] \in {"none", "orig", "reenc"}
      BY <1>1 DEF CacheSound, Original, Names
    <2>2. cache[Original(t)] # "none" =>
            Decoded(key[t], cache[Original(t)]) \subseteq {"reenc", "fail"}
      BY <2>1 DEF Decoded
    <2>3. pc'[t] \in {"gdel", "gread"} \/ (pc'[t] = "gconvert" /\ buf'[t] = "reenc")
      BY <1>1, <1>3, <2>2 DEF GetFindOriginal, LocalTypeOK
    <2>4. QED
      BY <1>1, <1>2, <1>3, <2>3 DEF GetFindOriginal, Reading, CacheSound
  <1>4. CASE GetDelCache(t)
    <2>1. pc'[t] = "gread"
      BY <1>1, <1>4 DEF GetDelCache, LocalTypeOK
    <2>2. \A f \in Files : cache'[f] \in {cache[f], "none"}
      BY <1>1, <1>4 DEF GetDelCache, LocalTypeOK
    <2>3. CacheSound'
      BY <2>2 DEF CacheSound, Files
    <2>4. QED
      BY <1>1, <1>2, <2>1, <2>3 DEF Reading
  <1>5. CASE GetReadOriginal(t)
    <2>1. \/ DecodedFile(key[t]) = {"reenc"}
          \/ DecodedFile(key[t]) = {"fail"}
      BY <1>1, <1>5, OriginalReadable DEF GetReadOriginal, HasFile, Halfway
    <2>2. pc'[t] = "reply" \/ (pc'[t] = "gsetorig" /\ buf'[t] = "reenc")
      BY <1>1, <1>5, <2>1 DEF GetReadOriginal, LocalTypeOK
    <2>3. QED
      BY <1>1, <1>2, <1>5, <2>2 DEF GetReadOriginal, Reading, CacheSound
  <1>6. CASE GetSetOriginal(t)
    <2>1. /\ pc'[t] = "gconvert" /\ buf'[t] = "reenc"
          /\ SetCache(<<key[t], "orig">>, "reenc")
      BY <1>1, <1>6 DEF GetSetOriginal, Stage, Reading, Original, LocalTypeOK
    <2>2. CacheSound'
      BY <1>1, <2>1, SetCacheSound DEF Names, Kept
    <2>3. QED
      BY <1>1, <1>2, <2>1, <2>2 DEF Reading
  <1>7. QED
    BY <1>3, <1>4, <1>5, <1>6

LEMMA GetConverts ==
  ASSUME TypeInv, NEW t \in Threads, Stage(t), GetConvert(t)
  PROVE  /\ Reading(t)' /\ Answering(t)' /\ cache' = cache
         /\ pc'[t] = "open" => buf'[t] = Whole(name[t]) /\ name[t] # "orig"
  <1>1. /\ LocalTypeOK /\ name[t] # "orig" /\ buf[t] = "reenc" /\ op[t] = "get"
        /\ UNCHANGED <<cache, op, key, name>>
    BY DEF TypeInv, TypeOK, LocalTypeOK, RequestOf, GetConvert, Stage, Reading,
           GetLabels
  <1>2. \/ pc'[t] = "reply"
        \/ pc'[t] = "gset" /\ buf'[t] \in {"reenc", "conv"}
        \/ pc'[t] = "open" /\ buf'[t] = "conv"
    BY <1>1 DEF GetConvert, LocalTypeOK
  <1>3. QED
    BY <1>1, <1>2 DEF Reading, Answering, Whole, Kept

LEMMA GetFinishes ==
  ASSUME TypeInv, CacheSound, NEW t \in Threads, Stage(t),
         GetFindCache(t) \/ GetSetCache(t), faults' = 0
  PROVE  CacheSound' /\ Reading(t)' /\ pc'[t] # "open" /\ Answering(t)'
  <1>1. /\ LocalTypeOK /\ key[t] \in Keys /\ name[t] \in Names /\ ~Fault
    BY MaxFaultsAssumption DEF TypeInv, TypeOK, LocalTypeOK, Fault
  <1>2. pc'[t] = "gopen" \/ (pc'[t] = "reply" /\ ret'[t] # "fail")
    BY <1>1 DEF GetFindCache, GetSetCache, Finish, LocalTypeOK
  <1>3. CASE GetFindCache(t)
    BY <1>2, <1>3 DEF GetFindCache, Reading, Answering, CacheSound
  <1>4. CASE GetSetCache(t)
    <2>1. buf[t] \in Kept(name[t]) /\ SetCache(<<key[t], name[t]>>, buf[t])
      BY <1>4 DEF GetSetCache, Stage, Reading, Target
    <2>2. CacheSound'
      BY <1>1, <2>1, SetCacheSound
    <2>3. QED
      BY <1>2, <2>2 DEF Reading, Answering
  <1>5. QED
    BY <1>3, <1>4

LEMMA GetImgSequential ==
  ASSUME TypeInv, CacheSound, NEW t \in Threads,
         WholeFiles(t), HaveOriginals(t), Stage(t), GetImg(t), faults' = 0
  PROVE  CacheSound' /\ WholeFiles(t)' /\ HaveOriginals(t)' /\ Stage(t)'
  <1>1. /\ WholeFiles(t)' /\ HaveOriginals(t)' /\ Inside(t)'
        /\ pc'[t] \in {"open", "reply"} \union GetLabels
        /\ UNCHANGED <<dirs, key, name>>
    BY GetKeepsFiles
  <1>2. /\ CacheSound' /\ Reading(t)' /\ Answering(t)'
        /\ pc'[t] = "open" => buf'[t] = Whole(name[t]) /\ name[t] # "orig"
    <2>1. CASE GetIsDir(t)
      <3>1. /\ pc'[t] = "gcache" \/ (pc'[t] = "reply" /\ ImageDir(key[t]) \notin dirs)
            /\ op[t] = "get" /\ op' = op /\ cache' = cache
        BY <2>1 DEF GetIsDir, TypeInv, TypeOK, RequestOf, GetLabels
      <3>2. QED
        BY <1>1, <3>1 DEF Reading, Answering, CacheSound
    <2>2. CASE GetOpen(t) \/ GetFstat(t) \/ GetRead(t)
      BY <2>2, GetFromFile DEF Answering, CacheSound
    <2>3. CASE GetConvert(t)
      BY <2>3, GetConverts DEF CacheSound
    <2>4. QED
      BY <2>1, <2>2, <2>3, GetOriginal, GetFinishes DEF GetImg
  <1>3. Climbing(t)' /\ Deleting(t)'
    BY <1>1 DEF Climbing, Deleting, GetLabels
  <1>4. Writing(t)'
    BY <1>1, <1>2 DEF Writing, HasFile, NewImgLabels, GetLabels
  <1>5. QED
    BY <1>1, <1>2, <1>3, <1>4 DEF Stage

-----------------------------------------------------------------------------
(* admin_img *)

\* A delete that nobody disturbs finds every name that readdir returned, and
\* the directory empty in the end.
LEMMA AdminImgSequential ==
  ASSUME TypeInv, NEW t \in Threads,
         WholeFiles(t), HaveOriginals(t), Stage(t), AdminImg(t), faults' = 0
  PROVE  WholeFiles(t)' /\ HaveOriginals(t)' /\ Stage(t)'
  <1>1. /\ LocalTypeOK /\ FsTypeOK /\ RequestOf(t) /\ ~Fault
        /\ key[t] \in Keys /\ Target(t) \in Files
    BY MaxFaultsAssumption
    DEF TypeInv, TypeOK, LocalTypeOK, Fault, Target, Files
  <1>2. pc[t] \in AdminLabels /\ UNCHANGED <<op, key>>
    BY DEF AdminImg, AdminIsDir, DeleteOpendir, DeleteNext, DeleteRemove, DeleteRmdir,
           AdminLabels
  <1>3. pc[t] \in AdminLabels \ {"adir"} => ImageDir(key[t]) \in dirs /\ op[t] = "delete"
    BY <1>1 DEF RequestOf, Stage, Inside, InDirectory, AdminLabels
  <1>4. CASE AdminIsDir(t)
    <2>1. /\ pc[t] = "adir" /\ UNCHANGED <<dirs, entry, content>>
          /\ \/ pc'[t] = "opendir" /\ ImageDir(key[t]) \in dirs
             \/ pc'[t] = "reply" /\ ret'[t] = "notfound"
             \/ pc'[t] = "reply" /\ op[t] = "command"
      BY <1>1, <1>4 DEF AdminIsDir, LocalTypeOK, RequestOf, AdminLabels, fsVars
    <2>2. WholeFiles(t)' /\ HaveOriginals(t)'
      BY <2>1, FilesStay DEF HasFile, Halfway
    <2>3. Stage(t)'
      BY <1>2, <2>1
      DEF Stage, Inside, InDirectory, NewImgLabels, GetLabels, Climbing, Writing,
          HasFile, Reading, Deleting, Answering
    <2>4. QED
      BY <2>2, <2>3
  <1>5. CASE DeleteOpendir(t)
    <2>1. /\ pc[t] = "opendir" /\ UNCHANGED <<dirs, entry, content>>
          /\ pc'[t] = "next" /\ todo'[t] = EntriesOf(key[t])
      BY <1>1, <1>3, <1>5 DEF DeleteOpendir, Opendir, LocalTypeOK, fsVars, AdminLabels
    <2>2. WholeFiles(t)' /\ HaveOriginals(t)'
      BY <2>1, FilesStay DEF HasFile, Halfway
    <2>3. Deleting(t)'
      BY <1>2, <2>1 DEF Deleting, EntriesOf, Exists
    <2>4. QED
      BY <1>2, <1>3, <2>1, <2>2, <2>3
      DEF Stage, Inside, Climbing, Writing, HasFile, NewImgLabels, Reading, Answering,
          AdminLabels
  <1>6. CASE DeleteNext(t)
    <2>1. /\ pc[t] = "next" /\ todo[t] = EntriesOf(key[t])
          /\ UNCHANGED <<dirs, entry, content>>
      BY <1>6 DEF DeleteNext, Stage, Deleting, fsVars
    <2>2. \/ pc'[t] = "rmdir" /\ EntriesOf(key[t]) = {}
          \/ /\ pc'[t] = "remove" /\ name'[t] \in EntriesOf(key[t])
             /\ todo'[t] = EntriesOf(key[t]) \ {name'[t]}
      <3>1. \A n \in todo[t] : Exists(<<key[t], n>>)
        BY <2>1 DEF EntriesOf
      <3>2. CASE todo[t] = {} /\ Goto(t, "rmdir")
        BY <1>1, <2>1, <3>2 DEF LocalTypeOK
      <3>3. CASE \E n \in todo[t] : /\ name' = [name EXCEPT ![t] = n]
                                    /\ todo' = [todo EXCEPT ![t] = @ \ {n}]
                                    /\ Goto(t, "remove")
        BY <1>1, <2>1, <3>3 DEF LocalTypeOK
      <3>4. QED
        BY <1>6, <3>1, <3>2, <3>3 DEF DeleteNext
    <2>3. Halfway(t) /\ Halfway(t)'
      BY <1>2, <1>3, <2>1, <2>2 DEF Halfway, AdminLabels
    <2>4. WholeFiles(t)' /\ HaveOriginals(t)'
      BY <1>2, <2>1, <2>3, FilesStay DEF HasFile
    <2>5. Deleting(t)'
      BY <1>2, <2>1, <2>2 DEF Deleting, EntriesOf, Exists, Target
    <2>6. QED
      BY <1>2, <1>3, <2>1, <2>2, <2>4, <2>5
      DEF Stage, Inside, Climbing, Writing, HasFile, NewImgLabels, Reading, Answering,
          AdminLabels
  <1>7. CASE DeleteRemove(t)
    <2>1. /\ pc[t] = "remove" /\ pc'[t] = "next"
          /\ todo[t] = EntriesOf(key[t]) \ {name[t]} /\ todo' = todo
          /\ dirs' = dirs /\ fd' = fd /\ Reclaim
          /\ entry' = [entry EXCEPT ![Target(t)] = NoInode]
      BY <1>1, <1>7 DEF DeleteRemove, Remove, LocalTypeOK, Stage, Deleting
    <2>2. \A f \in Files : Exists(f)' => /\ Exists(f) /\ entry'[f] = entry[f]
                                         /\ content'[entry'[f]] = content[entry[f]]
      BY <1>1, <2>1 DEF Exists, Reclaim, FsTypeOK
    <2>3. \A f \in Files : Exists(f)' <=> Exists(f) /\ f # Target(t)
      BY <1>1, <2>1 DEF Exists, FsTypeOK
    <2>4. WholeFiles(t)'
      <3> SUFFICES ASSUME NEW k \in Keys, NEW n \in Names, Exists(<<k, n>>)'
                   PROVE  /\ ImageDir(k) \in dirs'
                          /\ content'[entry'[<<k, n>>]] = Whole(n)
        BY DEF WholeFiles
      <3>1. /\ Exists(<<k, n>>)
            /\ content'[entry'[<<k, n>>]] = content[entry[<<k, n>>]]
        BY <2>2 DEF Files
      <3>2. QED
        BY <2>1, <3>1 DEF WholeFiles, HasFile
    <2>5. HaveOriginals(t)'
      <3> SUFFICES ASSUME NEW k \in Keys, ImageDir(k) \in dirs, k # key[t]
                   PROVE  Exists(<<k, "orig">>)'
        BY <1>2, <1>3, <2>1 DEF HaveOriginals, Halfway, AdminLabels
      <3>1. Exists(<<k, "orig">>) /\ <<k, "orig">> \in Files /\ <<k, "orig">> # Target(t)
        BY DEF HaveOriginals, Files, Names, Target
      <3>2. QED
        BY <2>3, <3>1
    <2>6. Deleting(t)'
      <3>1. ASSUME NEW n \in Names
            PROVE  Exists(<<key[t], n>>)' <=> Exists(<<key[t], n>>) /\ n # name[t]
        <4>1. <<key[t], n>> \in Files /\ (<<key[t], n>> = Target(t) <=> n = name[t])
          BY <1>1 DEF Files, Target
        <4>2. QED
          BY <1>2, <2>3, <4>1 DEF Exists
      <3>2. EntriesOf(key[t])' = EntriesOf(key[t]) \ {name[t]}
        BY <1>2, <3>1 DEF EntriesOf
      <3>3. QED
        BY <1>2, <2>1, <3>2 DEF Deleting, EntriesOf
    <2>7. QED
      BY <1>2, <1>3, <2>1, <2>4, <2>5, <2>6
      DEF Stage, Inside, Climbing, Writing, HasFile, NewImgLabels, Reading, Answering,
          AdminLabels
  <1>8. CASE DeleteRmdir(t)
    <2>1. /\ pc[t] = "rmdir" /\ EntriesOf(key[t]) = {}
          /\ pc'[t] = "reply" /\ ret'[t] = "ok" /\ Rmdir(key[t])
      BY <1>1, <1>3, <1>8 DEF DeleteRmdir, LocalTypeOK, Stage, Deleting, CanRmdir, AdminLabels
    <2>2. dirs' = dirs \ {ImageDir(key[t])} /\ entry' = entry /\ content' = content
      BY <2>1 DEF Rmdir
    <2>3. \A k \in Keys : ImageDir(k) \in dirs' <=> ImageDir(k) \in dirs /\ k # key[t]
      <3>1. \A k \in Keys : ImageDir(k) = ImageDir(key[t]) <=> k = key[t]
        BY <1>1, DirsDiffer DEF ImageDir
      <3>2. QED
        BY <2>2, <3>1
    <2>4. \A k \in Keys, n \in Names : Exists(<<k, n>>) => k # key[t]
      BY <2>1 DEF EntriesOf
    <2>5. WholeFiles(t)'
      BY <2>1, <2>2, <2>3, <2>4 DEF WholeFiles, Exists, HasFile
    <2>6. HaveOriginals(t)'
      BY <2>2, <2>3 DEF HaveOriginals, Exists
    <2>7. Stage(t)'
      BY <2>1
      DEF Stage, Inside, InDirectory, NewImgLabels, GetLabels, Climbing, Writing,
          HasFile, Reading, Deleting, Answering
    <2>8. QED
      BY <2>5, <2>6, <2>7
  <1>9. QED
    BY <1>4, <1>5, <1>6, <1>7, <1>8 DEF AdminImg

-----------------------------------------------------------------------------
(* The invariant and what follows from it *)

LEMMA StepSequential ==
  ASSUME TypeInv, LockInv, LinkInv, WriterInv, OneWorker, SequentialInv,
         NEW t \in Threads, Step(t)
  PROVE  SequentialInv'
  <1> SUFFICES ASSUME faults' = 0
               PROVE  CacheSound' /\ WholeFiles(t)' /\ HaveOriginals(t)' /\ Stage(t)'
    BY DEF SequentialInv, OneWorker
  <1>1. faults = 0
    BY StepFaults
  <1>2. CacheSound /\ WholeFiles(t) /\ HaveOriginals(t) /\ Stage(t)
    BY <1>1 DEF SequentialInv
  <1>3. Arrived(t) /\ NewImgSucceeds(t)
    BY DEF WriterInv, Alone, OneWorker
  <1>4. CASE Start(t) \/ Reply(t)
    <2>1. cache' = cache
      BY <1>4 DEF Start, Reply
    <2>2. QED
      BY <1>2, <1>4, <2>1, RequestSequential DEF CacheSound
  <1>5. CASE AdminImg(t) \/ InfoImg(t)
    <2>1. cache' = cache
      BY <1>5 DEF AdminImg, AdminIsDir, DeleteOpendir, DeleteNext, DeleteRemove,
                  DeleteRmdir, InfoImg, InfoIsDir, InfoRead
    <2>2. QED
      BY <1>2, <1>5, <2>1, AdminImgSequential, InfoImgSequential DEF CacheSound
  <1>6. QED
    BY <1>1, <1>2, <1>3, <1>4, <1>5, SaveImgSequential, NewImgSequential,
       GetImgSequential DEF Step, Work

\* One worker is alone with every kind of request, whatever save_new says.
LEMMA OneWorkerInv ==
  ASSUME OneWorker, TypeInv, LockInv, WriterInv, [Next]_vars
  PROVE  WriterInv'
  <1>1. CASE Crash
    BY <1>1 DEF Crash, WriterInv, ServesRole, OneHolder, Arrived, OpensNew,
                NewImgSucceeds, HasFile
  <1>2. ASSUME NEW t \in Threads, Step(t) PROVE WriterInv'
    <2>1. ServesRole'
      BY <1>2, StepServesRole DEF WriterInv
    <2>2. OneHolder'
      BY DEF OneHolder, OneWorker
    <2>3. Alone(op'[t])
      BY DEF Alone, OneWorker
    <2>4. Arrived(t)' /\ OpensNew(t)' /\ NewImgSucceeds(t)'
      BY <1>2, <2>3, OwnArrived, OwnOpensNew, OwnNewImgSucceeds
    <2>5. QED
      BY <2>1, <2>2, <2>4 DEF WriterInv, OneWorker
  <1>3. CASE UNCHANGED vars
    BY <1>3 DEF vars, fsVars, WriterInv, ServesRole, OneHolder, Arrived, OpensNew,
                NewImgSucceeds, Exists, Original, Alone
  <1>4. QED
    BY <1>1, <1>2, <1>3 DEF Next, Step

LEMMA NextSequential ==
  ASSUME TypeInv, LockInv, LinkInv, WriterInv, OneWorker, SequentialInv, [Next]_vars
  PROVE  SequentialInv'
  <1>1. CASE Crash
    <2>1. faults' # 0
      BY <1>1, MaxFaultsAssumption DEF Crash, Fault, TypeInv, TypeOK
    <2>2. QED
      BY <2>1 DEF SequentialInv
  <1>2. ASSUME NEW t \in Threads, Step(t) PROVE SequentialInv'
    BY <1>2, StepSequential
  <1>3. CASE UNCHANGED vars
    BY <1>3 DEF vars, fsVars, SequentialInv, CacheSound, WholeFiles, HaveOriginals,
                Halfway, Exists, Target, Stage, Inside, Climbing, CanMkdir, Writing,
                Reading, Deleting, EntriesOf, Answering
  <1>4. QED
    BY <1>1, <1>2, <1>3 DEF Next, Step

\* With one worker every step of a request leaves what the next one relies on,
\* until a call fails or the process dies.
THEOREM OneAtATime ==
  ASSUME OneWorker
  PROVE  Spec => []SequentialInv
  <1>1. TypeInv /\ LockInv /\ WriterInv /\ [Next]_vars => WriterInv'
    BY OneWorkerInv
  <1>2. TypeInv /\ LockInv /\ LinkInv /\ WriterInv /\ SequentialInv /\ [Next]_vars
          => SequentialInv'
    BY NextSequential
  <1>3. QED
    BY <1>1, <1>2, InitLinkInv, NextLinkInv, InitWriterInv, InitSequentialInv,
       TypeCorrect, LocksHeld, PTL DEF Spec

\* Requests that follow one another never find in the cache what does not
\* belong there: no part of a file, no conversion under the image's own key.
THEOREM CacheStaysSound ==
  ASSUME OneWorker
  PROVE  Spec => [](faults = 0 => CacheSound)
  <1>1. SequentialInv => (faults = 0 => CacheSound)
    BY DEF SequentialInv
  <1>2. QED
    BY <1>1, OneAtATime, PTL

\* Requests that follow one another fail only for a reason: mk_dirs always has
\* the parent, flock is always free, readdir names only what is there, rmdir
\* finds the directory empty, and the original of an image can be read.
THEOREM FailsForAReason ==
  ASSUME OneWorker
  PROVE  Spec => []NoSpuriousFailure
  <1>1. SequentialInv => NoSpuriousFailure
    BY DEF SequentialInv, Stage, Answering, NoSpuriousFailure
  <1>2. QED
    BY <1>1, OneAtATime, PTL

-----------------------------------------------------------------------------
(* By directory *)

\* The mapped variables of ByDirectory.
present == {k \in Keys : ImageDir(k) \in dirs}
found == [t \in Threads |-> IF pc[t] \in PastIsDir THEN "present" ELSE "none"]

LEMMA StoreDir ==
  ASSUME NEW k \in Keys, dirs' = dirs \union {ImageDir(k)}
  PROVE  present' = present \union {k}
  <1>1. \A j \in Keys : ImageDir(j) = ImageDir(k) <=> j = k
    BY DirsDiffer DEF ImageDir
  <1>2. QED
    BY <1>1 DEF present

LEMMA RemoveDir ==
  ASSUME NEW k \in Keys, Rmdir(k)
  PROVE  present' = present \ {k}
  <1>1. \A j \in Keys : ImageDir(j) = ImageDir(k) <=> j = k
    BY DirsDiffer DEF ImageDir
  <1>2. QED
    BY <1>1 DEF present, Rmdir

\* Which steps change the set of images that have a directory.
LEMMA PresentSteps ==
  ASSUME TypeInv, NEW t \in Threads, Step(t)
  PROVE  \/ present' = present
         \/ /\ pc[t] = "mkdir" /\ lvl[t] = 3 /\ Mkdir(key[t], 3)
            /\ present' = present \union {key[t]}
         \/ /\ pc[t] = "rmdir" /\ Rmdir(key[t]) /\ key[t] \in present
            /\ present' = present \ {key[t]}
  <1>1. FsCall(t) /\ key[t] \in Keys /\ lvl[t] \in 1..3
    BY OneCall DEF TypeInv, TypeOK
  <1>2. CASE pc[t] = "mkdir" /\ Mkdir(key[t], lvl[t])
    <2>1. dirs' = dirs \union {Dir(key[t], lvl[t])}
      BY <1>2 DEF Mkdir
    <2>2. CASE lvl[t] = 3
      BY <1>1, <1>2, <2>1, <2>2, StoreDir DEF ImageDir
    <2>3. CASE lvl[t] # 3
      <3>1. \A k \in Keys : ImageDir(k) \in dirs' <=> ImageDir(k) \in dirs
        BY <1>1, <2>1, <2>3, DirsDiffer
      <3>2. QED
        BY <3>1 DEF present
    <2>4. QED
      BY <2>2, <2>3
  <1>3. CASE pc[t] = "rmdir" /\ CanRmdir(key[t]) /\ Rmdir(key[t])
    BY <1>1, <1>3, RemoveDir DEF present, CanRmdir
  <1>4. CASE dirs' = dirs
    BY <1>4 DEF present
  <1>5. QED
    BY <1>1, <1>2, <1>3, <1>4
    DEF FsCall, fsVars, OpenTrunc, Flock, WriteSome, WriteRest, Funlock, Close,
        OpenRead, Opendir, Remove

\* A step of a thread changes the mapped state of that thread only.
LEMMA MappedStep ==
  ASSUME TypeInv, NEW t \in Threads, Step(t)
  PROVE  /\ job' = [job EXCEPT ![t] = IF pc'[t] = "idle" THEN "idle" ELSE op'[t]]
         /\ key' = [key EXCEPT ![t] = key'[t]]
         /\ found' = [found EXCEPT ![t] = IF pc'[t] \in PastIsDir THEN "present" ELSE "none"]
         /\ answer' = [answer EXCEPT ![t] = IF pc'[t] = "reply" THEN ret'[t] ELSE "none"]
  <1>1. \A s \in Threads \ {t} : /\ pc'[s] = pc[s] /\ op'[s] = op[s]
                                 /\ key'[s] = key[s] /\ ret'[s] = ret[s]
    BY OthersKeepTheirs
  <1>2. key \in [Threads -> Keys] /\ key' \in [Threads -> Keys]
    BY StepLocalType DEF TypeInv, TypeOK, LocalTypeOK
  <1>3. job' = [job EXCEPT ![t] = IF pc'[t] = "idle" THEN "idle" ELSE op'[t]]
    BY <1>1 DEF job
  <1>4. key' = [key EXCEPT ![t] = key'[t]]
    BY <1>1, <1>2
  <1>5. found' = [found EXCEPT ![t] = IF pc'[t] \in PastIsDir THEN "present" ELSE "none"]
    BY <1>1 DEF found
  <1>6. answer' = [answer EXCEPT ![t] = IF pc'[t] = "reply" THEN ret'[t] ELSE "none"]
    BY <1>1 DEF answer
  <1>7. QED
    BY <1>3, <1>4, <1>5, <1>6

\* What a thread may do next, as far as the abstract store can tell.
Begins(t) ==
  /\ pc[t] = "idle" /\ pc'[t] \in {"udir", "gdir", "adir", "idir"}
  /\ op'[t] \in Ops /\ key'[t] \in Keys
  /\ UNCHANGED dirs

Ends(t) ==
  /\ pc[t] = "reply" /\ pc'[t] = "idle"
  /\ key'[t] = key[t]
  /\ UNCHANGED dirs

Busy(t) == pc[t] \notin {"idle", "reply"} /\ op'[t] = op[t] /\ key'[t] = key[t]

Continues(t) ==
  /\ Busy(t)
  /\ pc'[t] \notin {"idle", "reply"}
  /\ pc[t] \in PastIsDir => pc'[t] \in PastIsDir
  /\ pc[t] \notin PastIsDir /\ pc'[t] \in PastIsDir =>
       \/ ImageDir(key[t]) \in dirs /\ UNCHANGED dirs
       \/ pc[t] = "mkdir" /\ lvl[t] = 3 /\ op[t] = "upload"
          /\ dirs' = dirs \union {ImageDir(key[t])}
  /\ pc[t] = "mkdir" /\ lvl[t] = 3 => pc'[t] = "exists"
  /\ pc[t] # "rmdir"

Backing(t, r) ==
  CASE r = "ok"          -> pc[t] \in PastIsDir /\ op[t] # "delete"
    [] r = "notmodified" -> pc[t] \in PastIsDir /\ op[t] = "get"
    [] r = "notfound"    -> ImageDir(key[t]) \notin dirs /\ op[t] # "upload"
    [] r = "fail"        -> TRUE
    [] OTHER             -> FALSE

Decides(t) ==
  /\ Busy(t)
  /\ pc'[t] = "reply"
  /\ \/ Backing(t, ret'[t]) /\ UNCHANGED dirs
     \/ /\ pc[t] = "rmdir" /\ op[t] = "delete" /\ ret'[t] = "ok"
        /\ CanRmdir(key[t]) /\ Rmdir(key[t])

LEMMA StepControl ==
  ASSUME TypeInv, NEW t \in Threads, Step(t)
  PROVE  Begins(t) \/ Ends(t) \/ Continues(t) \/ Decides(t)
  <1>1. /\ LocalTypeOK
        /\ RequestOf(t)
        /\ LocalTypeOK'
    BY StepLocalType DEF TypeInv, TypeOK, LocalTypeOK
  <1> USE DEF LocalTypeOK, RequestOf, PastIsDir, UploadLabels, NewImgLabels,
              GetLabels, AdminLabels, InfoLabels
  <1>2. CASE Start(t)
    <2>1. pc'[t] \in {"udir", "gdir", "adir", "idir"} /\ pc[t] = "idle" /\ UNCHANGED dirs
      BY <1>1, <1>2, FirstLabelIs DEF Start, fsVars
    <2>2. QED
      BY <1>1, <2>1 DEF Begins
  <1>3. CASE Reply(t)
    BY <1>1, <1>3 DEF Reply, Close, Ends, fsVars
  <1>4. CASE SaveImg(t)
    <2>1. CASE UploadIsDir(t)
      BY <1>1, <2>1 DEF UploadIsDir, Continues, Busy, fsVars
    <2>2. CASE Access(t)
      BY <1>1, <2>2 DEF Access, NextLevel, Continues, Busy, fsVars, ImageDir
    <2>3. CASE MkdirStep(t)
      BY <1>1, <2>3 DEF MkdirStep, Mkdir, NextLevel, Continues, Decides, Backing, Busy, fsVars, ImageDir
    <2>4. CASE UploadIsFile(t) \/ UploadCache(t)
      BY <1>1, <2>4 DEF UploadIsFile, UploadCache, Continues, Decides, Backing, Busy, fsVars
    <2>5. QED
      BY <1>4, <2>1, <2>2, <2>3, <2>4 DEF SaveImg
  <1>5. CASE NewImg(t)
    <2>1. UNCHANGED dirs
      BY <1>5 DEF NewImg, NewImgOpen, NewImgFlock, NewImgWrite, NewImgWritten,
                  NewImgUnlock, NewImgClose, fsVars, OpenTrunc, Flock, WriteSome,
                  WriteRest, Funlock, Close
    <2>2. pc[t] \in NewImgLabels /\ op'[t] = op[t] /\ key'[t] = key[t]
      BY <1>5 DEF NewImg, NewImgOpen, NewImgFlock, NewImgWrite, NewImgWritten,
                  NewImgUnlock, NewImgClose
    <2>3. \/ pc'[t] \in PastIsDir
          \/ pc'[t] = "reply" /\ ret'[t] = "fail"
      BY <1>1, <1>5, <2>2 DEF NewImg, NewImgOpen, NewImgFlock, NewImgWrite, NewImgWritten,
                  NewImgUnlock, NewImgClose, AfterNewImg
    <2>4. QED
      BY <2>1, <2>2, <2>3 DEF Continues, Decides, Backing, Busy
  <1>6. CASE GetImg(t)
    <2>1. UNCHANGED dirs
      BY <1>6 DEF GetImg, GetIsDir, GetFindCache, GetOpen, GetFstat, GetRead,
                  GetFindOriginal, GetDelCache, GetReadOriginal,
                  GetSetOriginal, GetConvert, GetSetCache, fsVars, OpenRead
    <2>2. pc[t] \in GetLabels /\ op'[t] = op[t] /\ key'[t] = key[t]
      BY <1>6 DEF GetImg, GetIsDir, GetFindCache, GetOpen, GetFstat, GetRead,
                  GetFindOriginal, GetDelCache, GetReadOriginal,
                  GetSetOriginal, GetConvert, GetSetCache
    <2>3. CASE GetIsDir(t)
      BY <1>1, <2>1, <2>2, <2>3 DEF GetIsDir, Continues, Decides, Backing, Busy
    <2>4. CASE ~GetIsDir(t)
      <3>1. /\ pc[t] # "gdir"
            /\ \/ pc'[t] \in PastIsDir
               \/ pc'[t] = "reply" /\ ret'[t] \in {"fail", "ok", "notmodified"}
        BY <1>1, <1>6, <2>4
        DEF GetImg, GetFindCache, GetOpen, GetFstat, GetRead, GetFindOriginal,
            GetDelCache, GetReadOriginal, GetSetOriginal, GetConvert,
            GetSetCache, Finish
      <3>2. QED
        BY <1>1, <2>1, <2>2, <3>1 DEF Continues, Decides, Backing, Busy
    <2>5. QED
      BY <2>3, <2>4
  <1>7. CASE AdminImg(t)
    <2>1. CASE AdminIsDir(t)
      BY <1>1, <2>1 DEF AdminIsDir, Continues, Decides, Backing, Busy, fsVars
    <2>2. CASE DeleteOpendir(t)
      BY <1>1, <2>2 DEF DeleteOpendir, Continues, Decides, Backing, Busy, fsVars
    <2>3. CASE DeleteNext(t)
      <3>1. op'[t] = op[t] /\ key'[t] = key[t] /\ pc[t] = "next" /\ UNCHANGED dirs
        BY <2>3 DEF DeleteNext, fsVars
      <3>2. \/ pc' = [pc EXCEPT ![t] = "rmdir"]
            \/ pc' = [pc EXCEPT ![t] = "remove"]
            \/ pc' = [pc EXCEPT ![t] = "reply"] /\ ret' = [ret EXCEPT ![t] = "fail"]
        BY <2>3 DEF DeleteNext
      <3>3. \/ pc'[t] \in {"rmdir", "remove"}
            \/ pc'[t] = "reply" /\ ret'[t] = "fail"
        BY <1>1, <3>2
      <3>4. QED
        BY <3>1, <3>3 DEF Continues, Decides, Backing, Busy
    <2>4. CASE DeleteRemove(t)
      BY <1>1, <2>4 DEF DeleteRemove, Remove, Continues, Busy
    <2>5. CASE DeleteRmdir(t)
      BY <1>1, <2>5 DEF DeleteRmdir, Decides, Backing, Busy, fsVars
    <2>6. QED
      BY <1>7, <2>1, <2>2, <2>3, <2>4, <2>5 DEF AdminImg
  <1>8. CASE InfoImg(t)
    BY <1>1, <1>8 DEF InfoImg, InfoIsDir, InfoRead, Continues, Decides, Backing, Busy, fsVars
  <1>9. QED
    BY <1>2, <1>3, <1>4, <1>5, <1>6, <1>7, <1>8 DEF Step, Work

\* A thread that is about to answer has an answer.
Decided == \A t \in Threads : pc[t] = "reply" => ret[t] # "none"

LEMMA StepAnswering ==
  ASSUME TypeInv, Decided, NEW t \in Threads, Step(t)
  PROVE  Decided'
  <1> SUFFICES ASSUME NEW s \in Threads, pc'[s] = "reply" PROVE ret'[s] # "none"
    BY DEF Decided
  <1>1. CASE s # t
    BY <1>1, OthersKeepTheirs DEF Decided
  <1>2. CASE s = t
    BY <1>2, StepControl DEF Begins, Ends, Continues, Decides, Backing
  <1>3. QED
    BY <1>1, <1>2

LEMMA StepMaps ==
  ASSUME TypeInv, Decided, NEW t \in Threads, Step(t)
  PROVE  ByDirectory!Next \/ UNCHANGED <<present, job, key, found, answer>>
  <1> DEFINE jobNow == IF pc'[t] = "idle" THEN "idle" ELSE op'[t]
             foundNow == IF pc'[t] \in PastIsDir THEN "present" ELSE "none"
             answerNow == IF pc'[t] = "reply" THEN ret'[t] ELSE "none"
  <1>1. /\ LocalTypeOK /\ LocalTypeOK'
        /\ RequestOf(t)
    BY StepLocalType DEF TypeInv, TypeOK, LocalTypeOK
  <1>2. /\ job' = [job EXCEPT ![t] = jobNow]
        /\ key' = [key EXCEPT ![t] = key'[t]]
        /\ found' = [found EXCEPT ![t] = foundNow]
        /\ answer' = [answer EXCEPT ![t] = answerNow]
    BY MappedStep
  <1>3. /\ job[t] = IF pc[t] = "idle" THEN "idle" ELSE op[t]
        /\ found[t] = IF pc[t] \in PastIsDir THEN "present" ELSE "none"
        /\ answer[t] = IF pc[t] = "reply" THEN ret[t] ELSE "none"
        /\ \A s \in Threads : /\ s = t => /\ job[s] = job[t] /\ key[s] = key[t]
                                          /\ found[s] = found[t] /\ answer[s] = answer[t]
    BY DEF job, found, answer
  <1>4. /\ op[t] \in Ops /\ op'[t] \in Ops /\ ret[t] \in Results
        /\ key[t] \in Keys /\ pc[t] \in Labels
    BY <1>1 DEF LocalTypeOK
  <1>5. UNCHANGED dirs => UNCHANGED present
    BY DEF present
  <1>6. ImageDir(key[t]) \in dirs <=> key[t] \in present
    BY <1>4 DEF present
  <1>7. /\ job \in [Threads -> Ops \union {"idle"}] /\ key \in [Threads -> Keys]
        /\ found = [s \in Threads |-> found[s]] /\ answer = [s \in Threads |-> answer[s]]
    BY <1>1 DEF LocalTypeOK, job, found, answer
  <1> HIDE DEF jobNow, foundNow, answerNow
  <1>8. CASE Begins(t)
    <2>1. /\ job[t] = "idle" /\ jobNow \in Ops /\ key'[t] \in Keys
          /\ foundNow = found[t] /\ answerNow = answer[t]
          /\ UNCHANGED present
      BY <1>3, <1>5, <1>8 DEF Begins, PastIsDir, NewImgLabels, GetLabels, jobNow, foundNow, answerNow
    <2>2. ByDirectory!Ask(t)
      BY <1>2, <1>7, <2>1 DEF ByDirectory!Ask, ByDirectory!Jobs, Ops, present, found
    <2>3. QED
      BY <2>2 DEF ByDirectory!Next
  <1>9. CASE Ends(t)
    <2>1. /\ jobNow = "idle" /\ foundNow = found[t] /\ answerNow = "none"
          /\ key'[t] = key[t]
          /\ UNCHANGED present
      BY <1>3, <1>5, <1>9 DEF Ends, PastIsDir, NewImgLabels, GetLabels, jobNow, foundNow, answerNow
    <2>2. answer[t] # "none"
      BY <1>3, <1>9 DEF Ends, Decided
    <2>3. found' = found /\ key' = key
      BY <1>2, <1>7, <2>1
    <2>4. ByDirectory!Answer(t)
      BY <1>2, <2>1, <2>2, <2>3 DEF ByDirectory!Answer, present, found
    <2>5. QED
      BY <2>4 DEF ByDirectory!Next
  <1>10. CASE Continues(t)
    <2>1. /\ pc[t] \notin {"idle", "reply"} /\ pc'[t] \notin {"idle", "reply"}
          /\ op'[t] = op[t] /\ key'[t] = key[t]
          /\ pc[t] \in PastIsDir => pc'[t] \in PastIsDir
      BY <1>10 DEF Continues, Busy
    <2>2. /\ job' = job /\ key' = key /\ answer' = answer
          /\ answer[t] = "none" /\ job[t] = op[t]
      BY <1>2, <1>3, <1>7, <2>1 DEF jobNow, answerNow
    <2>3. ByDirectory!Serving(t)
      BY <1>4, <2>2 DEF ByDirectory!Serving, Ops
    <2>4. CASE pc[t] = "mkdir" /\ lvl[t] = 3
      <3>1. /\ pc'[t] = "exists" /\ op[t] = "upload"
            /\ foundNow = "present"
        BY <1>1, <1>10, <2>4 DEF Continues, RequestOf, UploadLabels, PastIsDir, foundNow
      <3>2. present' = present \union {key[t]}
        BY <1>4, <1>10, <2>4, <3>1, StoreDir DEF Continues, PastIsDir, NewImgLabels, GetLabels
      <3>3. ByDirectory!Store(t)
        BY <1>2, <2>2, <2>3, <3>1, <3>2 DEF ByDirectory!Store, ByDirectory!Establish, present, found
      <3>4. QED
        BY <3>3 DEF ByDirectory!Next
    <2>5. CASE ~(pc[t] = "mkdir" /\ lvl[t] = 3)
      <3>1. UNCHANGED present
        BY <1>10, <2>5, PresentSteps DEF Continues
      <3>2. CASE pc'[t] \in PastIsDir /\ pc[t] \notin PastIsDir
        <4>1. key[t] \in present /\ foundNow = "present"
          BY <1>6, <1>10, <2>5, <3>2 DEF Continues, foundNow
        <4>2. ByDirectory!Find(t)
          BY <1>2, <2>2, <2>3, <3>1, <4>1 DEF ByDirectory!Find, present, found
        <4>3. QED
          BY <4>2 DEF ByDirectory!Next
      <3>3. CASE ~(pc'[t] \in PastIsDir /\ pc[t] \notin PastIsDir)
        <4>1. foundNow = found[t]
          BY <1>3, <2>1, <3>3 DEF foundNow
        <4>2. found' = found
          BY <1>2, <1>7, <4>1
        <4>3. QED
          BY <2>2, <3>1, <4>2
      <3>4. QED
        BY <3>2, <3>3
    <2>6. QED
      BY <2>4, <2>5
  <1>11. CASE Decides(t)
    <2>1. /\ pc[t] \notin {"idle", "reply"} /\ pc'[t] = "reply"
          /\ op'[t] = op[t] /\ key'[t] = key[t]
      BY <1>11 DEF Decides, Busy
    <2>2. /\ job' = job /\ key' = key /\ answer[t] = "none" /\ job[t] = op[t]
          /\ foundNow = "none" /\ answerNow = ret'[t]
      BY <1>2, <1>3, <1>7, <2>1 DEF jobNow, answerNow, foundNow, PastIsDir, NewImgLabels, GetLabels
    <2>3. ByDirectory!Serving(t)
      BY <1>4, <2>2 DEF ByDirectory!Serving, Ops
    <2>4. CASE Backing(t, ret'[t]) /\ UNCHANGED dirs
      <3>1. ret'[t] \in ByDirectory!Answers
        BY <1>1 DEF LocalTypeOK, Results, ByDirectory!Answers
      <3>2. ByDirectory!Backed(t, ret'[t])
        BY <1>3, <1>6, <2>2, <2>4 DEF ByDirectory!Backed, Backing, present, found
      <3>3. UNCHANGED present
        BY <1>5, <2>4
      <3>4. ByDirectory!Decide(t)
        BY <1>2, <2>2, <2>3, <3>1, <3>2, <3>3 DEF ByDirectory!Decide, present, found
      <3>5. QED
        BY <3>4 DEF ByDirectory!Next
    <2>5. CASE /\ pc[t] = "rmdir" /\ op[t] = "delete" /\ ret'[t] = "ok"
               /\ CanRmdir(key[t]) /\ Rmdir(key[t])
      <3>1. key[t] \in present /\ present' = present \ {key[t]}
        BY <1>4, <1>6, <2>5, RemoveDir DEF CanRmdir
      <3>2. foundNow = found[t]
        BY <1>3, <2>2, <2>5 DEF PastIsDir, NewImgLabels, GetLabels
      <3>3. found' = found
        BY <1>2, <1>7, <3>2
      <3>4. ByDirectory!Remove(t)
        BY <1>2, <2>2, <2>3, <2>5, <3>1, <3>3 DEF ByDirectory!Remove, ByDirectory!Establish, present, found
      <3>5. QED
        BY <3>4 DEF ByDirectory!Next
    <2>6. QED
      BY <1>11, <2>4, <2>5 DEF Decides
  <1>12. QED
    BY <1>8, <1>9, <1>10, <1>11, StepControl

LEMMA CrashMaps ==
  ASSUME Crash
  PROVE  ByDirectory!Restart /\ Decided'
  <1>1. dirs' = dirs /\ key' = key /\ pc' = [t \in Threads |-> "idle"]
    BY DEF Crash, CloseAll
  <1>2. /\ job' = [t \in Threads |-> "idle"]
        /\ found' = [t \in Threads |-> "none"]
        /\ answer' = [t \in Threads |-> "none"]
        /\ present' = present
    BY <1>1 DEF job, found, answer, present, PastIsDir, NewImgLabels, GetLabels
  <1>3. ByDirectory!Restart
    BY <1>1, <1>2 DEF ByDirectory!Restart, present, found
  <1>4. QED
    BY <1>1, <1>3 DEF Decided

LEMMA InitMaps == Init => ByDirectory!Init /\ Decided
  <1> SUFFICES ASSUME Init PROVE ByDirectory!Init /\ Decided
    OBVIOUS
  <1>1. dirs = {} /\ key \in [Threads -> Keys] /\ pc = [t \in Threads |-> "idle"]
    BY DEF Init, FsInit
  <1>2. /\ job = [t \in Threads |-> "idle"]
        /\ found = [t \in Threads |-> "none"]
        /\ answer = [t \in Threads |-> "none"]
        /\ present = {}
    BY <1>1 DEF job, found, answer, present, PastIsDir, NewImgLabels, GetLabels
  <1>3. QED
    BY <1>1, <1>2 DEF ByDirectory!Init, present, found, Decided

LEMMA StutterMaps ==
  ASSUME UNCHANGED vars
  PROVE  UNCHANGED <<present, job, key, found, answer>> /\ (Decided => Decided')
  BY DEF vars, fsVars, present, job, found, answer, Decided

\* Disk mode implements the image store: with "the directory of the image
\* exists" for "the image is stored", no answer "ok", "notfound" or
\* "notmodified" of save_img, get_img, admin_img and info_img is without
\* ground, whatever other threads do, whatever fails and wherever the process
\* dies.
THEOREM ImplementsStore == Spec => ImplementsByDirectory
  <1>1. Init => ByDirectory!Init /\ Decided
    BY InitMaps
  <1>2. TypeInv /\ Decided /\ [Next]_vars => [ByDirectory!Next]_(ByDirectory!vars) /\ Decided'
    <2> SUFFICES ASSUME TypeInv, Decided, [Next]_vars
                 PROVE  [ByDirectory!Next]_(ByDirectory!vars) /\ Decided'
      OBVIOUS
    <2>1. UNCHANGED <<present, job, key, found, answer>> => UNCHANGED ByDirectory!vars
      BY DEF ByDirectory!vars, present, found
    <2>2. CASE Crash
      BY <2>2, CrashMaps DEF ByDirectory!Next
    <2>3. CASE \E t \in Threads : Step(t)
      BY <2>1, <2>3, StepMaps, StepAnswering
    <2>4. CASE UNCHANGED vars
      BY <2>1, <2>4, StutterMaps
    <2>5. QED
      BY <2>2, <2>3, <2>4 DEF Next, Step
  <1>3. QED
    BY <1>1, <1>2, TypeCorrect, PTL DEF Spec, ImplementsByDirectory, ByDirectory!Spec

-----------------------------------------------------------------------------
(* By content, with one worker and no failing system call *)

\* The mapped variables of ByContent.
held == {k \in Keys : Complete(k)}
Standing(t) ==
  CASE pc[t] \in PastIsDir /\ Complete(key[t])                   -> "present"
    [] pc[t] \in {"next", "remove", "rmdir"} /\ ~Complete(key[t]) -> "removed"
    [] OTHER                                                     -> "none"

\* What is known before a step of the only worker.
InOrder(t) ==
  /\ TypeInv /\ LinkInv
  /\ CacheSound /\ WholeFiles(t) /\ HaveOriginals(t) /\ Stage(t)
  /\ Arrived(t) /\ OpensNew(t) /\ NewImgSucceeds(t)
  /\ faults = 0 /\ faults' = 0

\* Between the uploads and the deletes an image is complete exactly if it has
\* its directory.
LEMMA CompleteInDir ==
  ASSUME NEW t \in Threads, WholeFiles(t), HaveOriginals(t),
         pc[t] \notin HasFile, ~Halfway(t), NEW k \in Keys
  PROVE  Complete(k) <=> ImageDir(k) \in dirs
  <1>1. ImageDir(k) \in dirs => Complete(k)
    BY OriginalReadable DEF Complete
  <1>2. Complete(k) => ImageDir(k) \in dirs
    BY DEF WholeFiles, Complete, Names
  <1>3. QED
    BY <1>1, <1>2

LEMMA HeldStays ==
  ASSUME UNCHANGED <<entry, content>>
  PROVE  held' = held /\ \A k \in Keys : Complete(k)' <=> Complete(k)
  BY DEF held, Complete, Exists

\* What the only worker may do next, as far as the abstract store can tell.
Keeps(t) == held' = held /\ Standing(t)' = Standing(t)
Finds(t) == held' = held /\ key[t] \in held /\ Standing(t)' = "present"
Stores(t) == /\ op[t] = "upload" /\ held' = held \union {key[t]}
             /\ Standing(t)' = "present"
Removes(t) == /\ op[t] = "delete" /\ key[t] \in held /\ held' = held \ {key[t]}
              /\ Standing(t)' = "removed"
GoesOn(t) == /\ Busy(t) /\ pc'[t] \notin {"idle", "reply"}
             /\ Keeps(t) \/ Finds(t) \/ Stores(t) \/ Removes(t)

Grounds(t, r) ==
  CASE r = "ok"          -> IF op[t] = "delete" THEN Standing(t) = "removed"
                                                ELSE key[t] \in held
    [] r = "notmodified" -> op[t] = "get" /\ Standing(t) = "present"
    [] r = "notfound"    -> op[t] # "upload" /\ key[t] \notin held
    [] r = "fail"        -> TRUE
    [] OTHER             -> FALSE

Answers(t) == /\ Busy(t) /\ pc'[t] = "reply" /\ held' = held
              /\ Grounds(t, ret'[t])

Opens(t) == /\ pc[t] = "idle" /\ pc'[t] \in {"udir", "gdir", "adir", "idir"}
            /\ op'[t] \in Ops /\ key'[t] \in Keys /\ held' = held

Shuts(t) == /\ pc[t] = "reply" /\ pc'[t] = "idle" /\ key'[t] = key[t] /\ held' = held

LEMMA RequestByContent ==
  ASSUME NEW t \in Threads, InOrder(t), Start(t) \/ Reply(t)
  PROVE  Opens(t) \/ Shuts(t)
  <1>1. LocalTypeOK /\ FsTypeOK /\ LocalTypeOK'
    BY StepLocalType DEF InOrder, TypeInv, TypeOK, LocalTypeOK, Step, Work
  <1>2. /\ entry' = entry
        /\ \A f \in Files : Exists(f) => content'[entry[f]] = content[entry[f]]
    BY <1>1 DEF Start, Reply, Close, Reclaim, fsVars, Exists, FsTypeOK
  <1>3. held' = held
    BY <1>2 DEF held, Complete, Exists, Files, Names
  <1>4. CASE Start(t)
    <2>1. pc'[t] \in {"udir", "gdir", "adir", "idir"} /\ pc[t] = "idle"
      BY <1>1, <1>4, FirstLabelIs DEF Start, LocalTypeOK
    <2>2. QED
      BY <1>1, <1>3, <2>1 DEF Opens, LocalTypeOK
  <1>5. CASE Reply(t)
    BY <1>1, <1>3, <1>5 DEF Reply, Shuts, LocalTypeOK
  <1>6. QED
    BY <1>4, <1>5

LEMMA SaveImgByContent ==
  ASSUME NEW t \in Threads, InOrder(t), SaveImg(t)
  PROVE  GoesOn(t) \/ Answers(t)
  <1>1. /\ LocalTypeOK /\ RequestOf(t) /\ key[t] \in Keys /\ lvl[t] \in 1..3 /\ ~Fault
    BY MaxFaultsAssumption DEF InOrder, TypeInv, TypeOK, LocalTypeOK, Fault
  <1>2. /\ pc[t] \in UploadLabels /\ op[t] = "upload" /\ UNCHANGED <<op, key>>
        /\ UNCHANGED <<entry, content>>
    BY <1>1 DEF SaveImg, UploadIsDir, Access, MkdirStep, UploadIsFile, UploadCache,
                UploadLabels, RequestOf, Mkdir, fsVars
  <1>3. held' = held /\ (Complete(key[t])' <=> Complete(key[t]))
    BY <1>1, <1>2, HeldStays
  <1>4. CASE pc'[t] = "reply"
    <2>1. pc[t] = "ucache" /\ ret'[t] = "ok"
      BY <1>1, <1>4 DEF SaveImg, UploadIsDir, Access, NextLevel, MkdirStep, UploadIsFile,
                        UploadCache, LocalTypeOK, InOrder, Stage, Climbing
    <2>2. ImageDir(key[t]) \in dirs
      BY <2>1 DEF InOrder, Stage, Inside, InDirectory
    <2>3. key[t] \in held
      BY <1>1, <2>1, <2>2, CompleteInDir DEF InOrder, HasFile, Halfway, held
    <2>4. QED
      BY <1>2, <1>3, <1>4, <2>1, <2>3 DEF Answers, Busy, Grounds
  <1>5. CASE pc'[t] # "reply"
    <2>1. pc'[t] \notin {"idle", "reply", "next", "remove", "rmdir"}
      BY <1>1, <1>2, <1>5 DEF SaveImg, UploadIsDir, Access, NextLevel, MkdirStep,
           UploadIsFile, UploadCache, LocalTypeOK
    <2>2. Standing(t)' \in {"none", "present"} /\ (Standing(t)' = "present" => key[t] \in held)
      BY <1>1, <1>2, <1>3, <2>1 DEF Standing, held
    <2>3. pc[t] \in PastIsDir => pc'[t] \in PastIsDir
      BY <1>1, <1>2, <1>5 DEF SaveImg, UploadIsDir, Access, NextLevel, MkdirStep,
           UploadIsFile, UploadCache, LocalTypeOK, PastIsDir, NewImgLabels, GetLabels
    <2>4. Standing(t)' = "none" => Standing(t) = "none"
      BY <1>2, <1>3, <2>1, <2>3 DEF Standing, UploadLabels
    <2>5. QED
      BY <1>2, <1>3, <2>1, <2>2, <2>4 DEF GoesOn, Busy, Keeps, Finds, UploadLabels
  <1>6. QED
    BY <1>4, <1>5

LEMMA NewImgByContent ==
  ASSUME NEW t \in Threads, InOrder(t), NewImg(t)
  PROVE  GoesOn(t)
  <1>1. /\ LocalTypeOK /\ FsTypeOK /\ RequestOf(t) /\ ~Fault
        /\ key[t] \in Keys /\ Target(t) \in Files
    BY MaxFaultsAssumption
    DEF InOrder, TypeInv, TypeOK, LocalTypeOK, Fault, Target, Files
  <1>2. pc[t] \in NewImgLabels /\ UNCHANGED <<op, key, name, buf>>
    BY DEF NewImg, NewImgOpen, NewImgFlock, NewImgWrite, NewImgWritten, NewImgUnlock,
           NewImgClose, NewImgLabels
  <1>3. pc'[t] \in NewImgLabels \union {"gset", "ucache"}
    <2>1. pc[t] = "open" => ImageDir(key[t]) \in dirs
      BY DEF InOrder, Stage, Inside, InDirectory, NewImgLabels
    <2>2. pc[t] = "close" => ret[t] = "ok"
      BY DEF InOrder, NewImgSucceeds
    <2>3. QED
      BY <1>1, <1>2, <2>1, <2>2
      DEF NewImg, NewImgOpen, NewImgFlock, NewImgWrite, NewImgWritten, NewImgUnlock,
          NewImgClose, AfterNewImg, NewImgLabels, LocalTypeOK
  <1>4. /\ pc[t] \in PastIsDir /\ pc'[t] \in PastIsDir
        /\ pc'[t] \notin {"idle", "reply", "next", "remove", "rmdir"}
        /\ pc[t] \notin {"next", "remove", "rmdir", "idle", "reply"}
    BY <1>2, <1>3 DEF PastIsDir, NewImgLabels, GetLabels
  <1>5. \A k \in Keys : <<k, "orig">> # Target(t) => (Complete(k)' <=> Complete(k))
    <2> SUFFICES ASSUME NEW k \in Keys, <<k, "orig">> # Target(t)
                 PROVE  Complete(k)' <=> Complete(k)
      OBVIOUS
    <2>1. <<k, "orig">> \in Files
      BY DEF Files, Names
    <2>2. /\ entry'[<<k, "orig">>] = entry[<<k, "orig">>]
          /\ Exists(<<k, "orig">>) =>
               content'[entry[<<k, "orig">>]] = content[entry[<<k, "orig">>]]
      BY <2>1, NewImgOtherFiles DEF InOrder, Stage
    <2>3. QED
      BY <2>2 DEF Complete, Exists
  <1>6. Target(t) # <<key[t], "orig">> => op[t] # "upload"
    BY <1>1, <1>2 DEF RequestOf, Target
  <1>7. Target(t) = <<key[t], "orig">> => op[t] = "upload"
    BY <1>1, <1>2 DEF RequestOf, Target, InOrder, Stage, Writing
  <1>8. op[t] = "upload" /\ Complete(key[t]) => Complete(key[t])'
    <2> SUFFICES ASSUME op[t] = "upload", Complete(key[t])
                 PROVE  Complete(key[t])'
      OBVIOUS
    <2>1. Target(t) = <<key[t], "orig">> /\ Target(t) = Original(t) /\ buf[t] = "orig"
      BY <1>1, <1>2, <1>6 DEF Original, RequestOf
    <2>2. pc[t] \in {"writing", "unlock", "close"} /\ fd[t] = entry[Target(t)]
          /\ content[fd[t]] = "orig"
      BY <1>2, <2>1 DEF InOrder, OpensNew, Arrived, Stage, Writing, HasFile, NewImgLabels,
                        Complete
    <2>3. entry' = entry /\ content'[fd[t]] = "orig"
      BY <1>1, <2>1, <2>2
      DEF NewImg, NewImgOpen, NewImgFlock, NewImgWrite, NewImgWritten, NewImgUnlock,
          NewImgClose, WriteRest, Funlock, Close, Reclaim, FsTypeOK, Complete, Exists, fsVars
    <2>4. QED
      BY <1>2, <2>1, <2>2, <2>3 DEF Complete, Exists
  <1>9. CASE Complete(key[t])' <=> Complete(key[t])
    <2>1. \A k \in Keys : Complete(k)' <=> Complete(k)
      BY <1>2, <1>5, <1>9 DEF Target
    <2>2. held' = held
      BY <2>1 DEF held
    <2>3. Standing(t)' = Standing(t)
      BY <1>2, <1>4, <1>9 DEF Standing
    <2>4. QED
      BY <1>2, <1>4, <2>2, <2>3 DEF GoesOn, Busy, Keeps
  <1>10. CASE ~(Complete(key[t])' <=> Complete(key[t]))
    <2>1. Target(t) = <<key[t], "orig">>
      BY <1>1, <1>2, <1>5, <1>10 DEF Complete, Exists
    <2>2. op[t] = "upload" /\ Complete(key[t])'
      BY <1>7, <1>8, <1>10, <2>1
    <2>3. \A k \in Keys : Complete(k)' <=> Complete(k) \/ k = key[t]
      BY <1>2, <1>5, <2>2 DEF Target
    <2>4. held' = held \union {key[t]}
      BY <1>1, <2>3 DEF held
    <2>5. Standing(t)' = "present"
      BY <1>2, <1>4, <2>2 DEF Standing
    <2>6. QED
      BY <1>2, <1>4, <2>2, <2>4, <2>5 DEF GoesOn, Busy, Stores
  <1>11. QED
    BY <1>9, <1>10

LEMMA GetImgByContent ==
  ASSUME NEW t \in Threads, InOrder(t), GetImg(t)
  PROVE  GoesOn(t) \/ Answers(t)
  <1>1. /\ LocalTypeOK /\ key[t] \in Keys
        /\ TypeInv /\ WholeFiles(t) /\ HaveOriginals(t) /\ Stage(t)
    BY DEF InOrder, TypeInv, TypeOK, LocalTypeOK
  <1>2. /\ Inside(t)' /\ pc[t] \in GetLabels /\ op[t] = "get"
        /\ UNCHANGED <<dirs, entry, content, op, key>>
    BY <1>1, GetKeepsFiles
  <1>3. held' = held /\ (Complete(key[t])' <=> Complete(key[t]))
    BY <1>1, <1>2, HeldStays
  <1>4. ImageDir(key[t]) \in dirs <=> Complete(key[t])
    BY <1>1, <1>2, CompleteInDir DEF HasFile, Halfway, GetLabels
  <1>5. pc[t] \notin {"idle", "reply"}
    BY <1>2 DEF GetLabels
  <1>6. CASE pc'[t] = "reply"
    <2>1. CASE GetIsDir(t)
      <3>1. ret'[t] = "fail"
        BY <1>1, <1>6, <2>1 DEF GetIsDir, LocalTypeOK
      <3>2. Grounds(t, ret'[t])
        BY <3>1 DEF Grounds
      <3>3. QED
        BY <1>2, <1>3, <1>5, <1>6, <3>2 DEF Answers, Busy
    <2>2. CASE ~GetIsDir(t)
      <3>1. pc[t] # "gdir"
        BY <2>2, <1>1, <1>6
        DEF GetImg, GetFindCache, GetOpen, GetFstat, GetRead, GetFindOriginal,
            GetDelCache, GetReadOriginal, GetSetOriginal, GetConvert, GetSetCache
      <3>2. Complete(key[t]) /\ pc[t] \in PastIsDir
        BY <1>1, <1>2, <1>4, <3>1 DEF Stage, Inside, InDirectory, PastIsDir
      <3>3. Standing(t) = "present" /\ key[t] \in held
        BY <1>1, <3>2 DEF Standing, held
      <3>4. ret'[t] \in {"ok", "notmodified", "fail"}
        BY <1>1, <1>6, <2>2
        DEF GetImg, GetFindCache, GetOpen, GetFstat, GetRead, GetFindOriginal,
            GetDelCache, GetReadOriginal, GetSetOriginal, GetConvert, GetSetCache,
            Finish, LocalTypeOK
      <3>5. Grounds(t, ret'[t])
        BY <1>2, <3>3, <3>4 DEF Grounds
      <3>6. QED
        BY <1>2, <1>3, <1>5, <1>6, <3>5 DEF Answers, Busy
    <2>3. QED
      BY <2>1, <2>2
  <1>7. CASE pc'[t] # "reply"
    <2>1. pc'[t] \in {"open"} \union (GetLabels \ {"gdir"})
      BY <1>1, <1>7
      DEF GetImg, GetIsDir, GetFindCache, GetOpen, GetFstat, GetRead, GetFindOriginal,
          GetDelCache, GetReadOriginal, GetSetOriginal, GetConvert, GetSetCache,
          Finish, GetLabels, LocalTypeOK
    <2>2. /\ pc'[t] \in PastIsDir /\ pc'[t] \in InDirectory
          /\ pc'[t] \notin {"idle", "reply"}
      BY <2>1 DEF PastIsDir, InDirectory, NewImgLabels, GetLabels
    <2>3. Complete(key[t])
      BY <1>2, <1>4, <2>2 DEF Inside, InDirectory
    <2>4. Standing(t)' = "present" /\ key[t] \in held
      BY <1>1, <1>2, <1>3, <2>2, <2>3 DEF Standing, held
    <2>5. QED
      BY <1>2, <1>3, <1>5, <2>2, <2>4 DEF GoesOn, Busy, Finds
  <1>8. QED
    BY <1>6, <1>7

LEMMA InfoImgByContent ==
  ASSUME NEW t \in Threads, InOrder(t), InfoImg(t)
  PROVE  GoesOn(t) \/ Answers(t)
  <1>1. /\ LocalTypeOK /\ key[t] \in Keys /\ RequestOf(t)
        /\ WholeFiles(t) /\ HaveOriginals(t) /\ Stage(t)
    BY DEF InOrder, TypeInv, TypeOK, LocalTypeOK
  <1>2. /\ pc[t] \in {"idir", "iread"} /\ op[t] = "info"
        /\ UNCHANGED <<dirs, entry, content, op, key>>
    BY <1>1 DEF InfoImg, InfoIsDir, InfoRead, RequestOf, InfoLabels, fsVars
  <1>3. held' = held /\ (Complete(key[t])' <=> Complete(key[t]))
    BY <1>1, <1>2, HeldStays
  <1>4. ImageDir(key[t]) \in dirs <=> key[t] \in held
    BY <1>1, <1>2, CompleteInDir DEF HasFile, Halfway, held
  <1>5. CASE InfoIsDir(t)
    <2>1. \/ pc'[t] = "iread" /\ key[t] \in held
          \/ pc'[t] = "reply" /\ ret'[t] = "notfound" /\ key[t] \notin held
      BY <1>1, <1>4, <1>5 DEF InfoIsDir, LocalTypeOK
    <2>2. pc'[t] = "iread" /\ key[t] \in held => Standing(t)' = "present"
      BY <1>2, <1>3 DEF Standing, PastIsDir, held
    <2>3. ret'[t] = "notfound" /\ key[t] \notin held => Grounds(t, ret'[t])
      BY <1>2 DEF Grounds
    <2>4. QED
      BY <1>2, <1>3, <2>1, <2>2, <2>3 DEF GoesOn, Answers, Busy, Finds
  <1>6. CASE InfoRead(t)
    <2>1. pc[t] = "iread" /\ pc'[t] = "reply" /\ ret'[t] \in {"ok", "fail"}
      BY <1>1, <1>6 DEF InfoRead, LocalTypeOK
    <2>2. key[t] \in held
      BY <1>1, <1>4, <2>1 DEF Stage, Inside, InDirectory
    <2>3. Grounds(t, ret'[t])
      BY <1>2, <2>1, <2>2 DEF Grounds
    <2>4. QED
      BY <1>2, <1>3, <2>1, <2>3 DEF Answers, Busy
  <1>7. QED
    BY <1>5, <1>6 DEF InfoImg

\* remove() takes the image away with its original and with no other name.
LEMMA RemoveByContent ==
  ASSUME NEW t \in Threads, InOrder(t), DeleteRemove(t)
  PROVE  GoesOn(t)
  <1>1. /\ LocalTypeOK /\ FsTypeOK /\ RequestOf(t) /\ WholeFiles(t) /\ Stage(t)
        /\ key[t] \in Keys /\ name[t] \in Names /\ Target(t) \in Files
    BY DEF InOrder, TypeInv, TypeOK, LocalTypeOK, Target, Files
  <1>2. /\ pc[t] = "remove" /\ pc'[t] = "next" /\ op[t] = "delete"
        /\ Exists(Target(t)) /\ UNCHANGED <<op, key>>
        /\ fd' = fd /\ Reclaim
        /\ entry' = [entry EXCEPT ![Target(t)] = NoInode]
    <2>1. ~Fault
      BY MaxFaultsAssumption DEF InOrder, Fault
    <2>2. QED
      BY <1>1, <2>1 DEF DeleteRemove, Remove, LocalTypeOK, RequestOf, AdminLabels, Stage,
                        Deleting
  <1>3. \A f \in Files : f # Target(t) => /\ entry'[f] = entry[f]
                                          /\ Exists(f) => content'[entry[f]] = content[entry[f]]
    BY <1>1, <1>2 DEF Reclaim, Exists, FsTypeOK
  <1>4. \A k \in Keys : <<k, "orig">> # Target(t) => (Complete(k)' <=> Complete(k))
    <2> SUFFICES ASSUME NEW k \in Keys, <<k, "orig">> # Target(t)
                 PROVE  Complete(k)' <=> Complete(k)
      OBVIOUS
    <2>1. <<k, "orig">> \in Files
      BY DEF Files, Names
    <2>2. QED
      BY <1>3, <2>1 DEF Complete, Exists
  <1>5. CASE name[t] = "orig"
    <2>1. Complete(key[t])
      BY <1>1, <1>2, <1>5 DEF WholeFiles, Complete, Target, Whole, HasFile
    <2>2. ~Complete(key[t])'
      BY <1>1, <1>2, <1>5 DEF Complete, Exists, Target, FsTypeOK
    <2>3. \A k \in Keys : Complete(k)' <=> Complete(k) /\ k # key[t]
      BY <1>2, <1>4, <2>1, <2>2 DEF Target, Complete, Exists
    <2>4. held' = held \ {key[t]} /\ key[t] \in held
      BY <1>1, <2>1, <2>3 DEF held
    <2>5. Standing(t)' = "removed"
      BY <1>2, <2>2 DEF Standing, PastIsDir, NewImgLabels, GetLabels
    <2>6. QED
      BY <1>2, <2>4, <2>5 DEF GoesOn, Busy, Removes
  <1>6. CASE name[t] # "orig"
    <2>1. \A k \in Keys : Complete(k)' <=> Complete(k)
      BY <1>4, <1>6 DEF Target
    <2>2. Complete(key[t])' <=> Complete(key[t])
      BY <1>1, <1>2, <2>1 DEF Complete, Exists
    <2>3. held' = held
      BY <2>1 DEF held
    <2>4. Standing(t)' = Standing(t)
      BY <1>2, <2>2 DEF Standing, PastIsDir, NewImgLabels, GetLabels
    <2>5. QED
      BY <1>2, <2>3, <2>4 DEF GoesOn, Busy, Keeps
  <1>7. QED
    BY <1>5, <1>6

LEMMA AdminImgByContent ==
  ASSUME NEW t \in Threads, InOrder(t), AdminImg(t)
  PROVE  GoesOn(t) \/ Answers(t)
  <1>1. /\ LocalTypeOK /\ RequestOf(t) /\ ~Fault /\ key[t] \in Keys
        /\ WholeFiles(t) /\ HaveOriginals(t) /\ Stage(t)
    BY MaxFaultsAssumption DEF InOrder, TypeInv, TypeOK, LocalTypeOK, Fault
  <1>2. /\ pc[t] \in AdminLabels /\ UNCHANGED <<op, key>>
        /\ op[t] # "upload" /\ (pc[t] # "adir" => op[t] = "delete")
    BY <1>1 DEF AdminImg, AdminIsDir, DeleteOpendir, DeleteNext, DeleteRemove,
                DeleteRmdir, RequestOf, AdminLabels
  <1>3. CASE ~DeleteRemove(t)
    <2>1. UNCHANGED <<entry, content>>
      BY <1>3 DEF AdminImg, AdminIsDir, DeleteOpendir, DeleteNext, DeleteRmdir, Opendir,
          Rmdir, fsVars
    <2>2. held' = held /\ (Complete(key[t])' <=> Complete(key[t]))
      BY <1>1, <1>2, <2>1, HeldStays
    <2>3. CASE AdminIsDir(t)
      <3>1. ImageDir(key[t]) \in dirs <=> key[t] \in held
        BY <1>1, <2>3, CompleteInDir DEF AdminIsDir, HasFile, Halfway, held
      <3>2. /\ pc[t] = "adir"
            /\ \/ pc'[t] = "opendir"
               \/ pc'[t] = "reply" /\ ret'[t] = "notfound" /\ key[t] \notin held
               \/ pc'[t] = "reply" /\ ret'[t] = "fail"
        BY <1>1, <2>3, <3>1 DEF AdminIsDir, LocalTypeOK
      <3>3. pc'[t] = "opendir" => Standing(t)' = Standing(t)
        BY <3>2 DEF Standing, PastIsDir, NewImgLabels, GetLabels
      <3>4. /\ ret'[t] = "notfound" /\ key[t] \notin held => Grounds(t, ret'[t])
            /\ ret'[t] = "fail" => Grounds(t, ret'[t])
        BY <1>2 DEF Grounds
      <3>5. QED
        BY <1>2, <2>2, <3>2, <3>3, <3>4 DEF GoesOn, Answers, Busy, Keeps
    <2>4. CASE DeleteOpendir(t)
      <3>1. /\ pc[t] = "opendir" /\ ImageDir(key[t]) \in dirs
        BY <2>4, <1>1 DEF DeleteOpendir, Stage, Inside, InDirectory
      <3>2. pc'[t] = "next"
        BY <1>1, <2>4, <3>1 DEF DeleteOpendir, LocalTypeOK
      <3>3. Complete(key[t])
        BY <1>1, <3>1, CompleteInDir DEF HasFile, Halfway
      <3>4. Standing(t)' = Standing(t)
        BY <2>2, <3>1, <3>2, <3>3 DEF Standing, PastIsDir, NewImgLabels, GetLabels
      <3>5. QED
        BY <1>2, <2>2, <3>1, <3>2, <3>4 DEF GoesOn, Busy, Keeps
    <2>5. CASE DeleteNext(t)
      <3>1. \/ pc' = [pc EXCEPT ![t] = "rmdir"]
            \/ pc' = [pc EXCEPT ![t] = "remove"]
            \/ pc' = [pc EXCEPT ![t] = "reply"] /\ ret' = [ret EXCEPT ![t] = "fail"]
        BY <2>5 DEF DeleteNext
      <3>2. /\ pc[t] = "next"
            /\ \/ pc'[t] \in {"rmdir", "remove"}
               \/ pc'[t] = "reply" /\ ret'[t] = "fail"
        BY <1>1, <2>5, <3>1 DEF DeleteNext, LocalTypeOK
      <3>3. pc'[t] \in {"rmdir", "remove"} => Standing(t)' = Standing(t)
        BY <2>2, <3>2 DEF Standing, PastIsDir, NewImgLabels, GetLabels
      <3>4. ret'[t] = "fail" => Grounds(t, ret'[t])
        BY DEF Grounds
      <3>5. QED
        BY <1>2, <2>2, <3>2, <3>3, <3>4 DEF GoesOn, Answers, Busy, Keeps
    <2>6. CASE DeleteRmdir(t)
      <3>1. /\ pc[t] = "rmdir" /\ pc'[t] = "reply" /\ ret'[t] \in {"ok", "fail"}
            /\ EntriesOf(key[t]) = {}
        BY <1>1, <2>6 DEF DeleteRmdir, LocalTypeOK, Stage, Deleting
      <3>2. ~Complete(key[t])
        BY <3>1 DEF EntriesOf, Complete, Names
      <3>3. Standing(t) = "removed"
        BY <3>1, <3>2 DEF Standing, PastIsDir, NewImgLabels, GetLabels
      <3>4. Grounds(t, ret'[t])
        BY <1>2, <3>1, <3>3 DEF Grounds
      <3>5. QED
        BY <1>2, <2>2, <3>1, <3>4 DEF Answers, Busy
    <2>7. QED
      BY <1>3, <2>3, <2>4, <2>5, <2>6 DEF AdminImg
  <1>4. QED
    BY <1>3, RemoveByContent
LEMMA WorkByContent ==
  ASSUME NEW t \in Threads, InOrder(t), Step(t)
  PROVE  Opens(t) \/ Shuts(t) \/ GoesOn(t) \/ Answers(t)
  BY RequestByContent, SaveImgByContent, NewImgByContent, GetImgByContent,
     AdminImgByContent, InfoImgByContent DEF Step, Work

-----------------------------------------------------------------------------
(* Every step of the only worker is a step of the store, by content *)

standing == [t \in Threads |-> Standing(t)]

LEMMA StepByContent ==
  ASSUME OneWorker, Decided, NEW t \in Threads, InOrder(t), Step(t)
  PROVE  ByContent!Next \/ UNCHANGED <<held, job, key, standing, answer>>
  <1> DEFINE jobNow == IF pc'[t] = "idle" THEN "idle" ELSE op'[t]
             answerNow == IF pc'[t] = "reply" THEN ret'[t] ELSE "none"
             standsNow == Standing(t)'
  <1>1. /\ LocalTypeOK /\ LocalTypeOK'
        /\ op[t] \in Ops /\ op'[t] \in Ops /\ ret[t] \in Results /\ key[t] \in Keys
    BY StepLocalType DEF InOrder, TypeInv, TypeOK, LocalTypeOK
  <1>2. /\ job' = [job EXCEPT ![t] = jobNow]
        /\ key' = [key EXCEPT ![t] = key'[t]]
        /\ answer' = [answer EXCEPT ![t] = answerNow]
    BY MappedStep DEF InOrder
  <1>3. standing' = [standing EXCEPT ![t] = standsNow]
    BY DEF OneWorker, standing
  <1>4. /\ job[t] = IF pc[t] = "idle" THEN "idle" ELSE op[t]
        /\ answer[t] = IF pc[t] = "reply" THEN ret[t] ELSE "none"
        /\ standing[t] = Standing(t)
    BY DEF job, answer, standing
  <1>5. /\ job \in [Threads -> Ops \union {"idle"}] /\ key \in [Threads -> Keys]
        /\ standing = [s \in Threads |-> standing[s]]
        /\ answer = [s \in Threads |-> answer[s]]
    BY <1>1 DEF LocalTypeOK, job, standing, answer
  <1>6. pc[t] \in {"idle", "reply", "udir", "gdir", "adir", "idir"} => Standing(t) = "none"
    BY DEF Standing, PastIsDir, NewImgLabels, GetLabels
  <1>7. pc'[t] \in {"idle", "reply", "udir", "gdir", "adir", "idir"} => standsNow = "none"
    BY DEF Standing, PastIsDir, NewImgLabels, GetLabels
  <1> HIDE DEF jobNow, answerNow, standsNow
  <1>8. CASE Opens(t)
    <2>1. /\ job[t] = "idle" /\ jobNow \in Ops /\ key'[t] \in Keys
          /\ standsNow = standing[t] /\ answerNow = answer[t] /\ held' = held
      BY <1>4, <1>6, <1>7, <1>8 DEF Opens, jobNow, answerNow
    <2>2. standing' = standing /\ answer' = answer
      BY <1>2, <1>3, <1>5, <2>1
    <2>3. ByContent!Ask(t)
      BY <1>2, <2>1, <2>2 DEF ByContent!Ask, ByContent!Jobs, Ops, held, standing, Standing
    <2>4. QED
      BY <2>3 DEF ByContent!Next
  <1>9. CASE Shuts(t)
    <2>1. /\ jobNow = "idle" /\ standsNow = standing[t] /\ answerNow = "none"
          /\ key'[t] = key[t] /\ held' = held
      BY <1>4, <1>6, <1>7, <1>9 DEF Shuts, jobNow, answerNow
    <2>2. answer[t] # "none"
      BY <1>4, <1>9 DEF Shuts, Decided
    <2>3. standing' = standing /\ key' = key
      BY <1>2, <1>3, <1>5, <2>1
    <2>4. ByContent!Answer(t)
      BY <1>2, <2>1, <2>2, <2>3 DEF ByContent!Answer, held, standing, Standing
    <2>5. QED
      BY <2>4 DEF ByContent!Next
  <1>10. CASE GoesOn(t)
    <2>1. /\ pc[t] \notin {"idle", "reply"} /\ pc'[t] \notin {"idle", "reply"}
          /\ op'[t] = op[t] /\ key'[t] = key[t]
      BY <1>10 DEF GoesOn, Busy
    <2>2. /\ job' = job /\ key' = key /\ answer' = answer
          /\ answer[t] = "none" /\ job[t] = op[t]
      BY <1>2, <1>4, <1>5, <2>1 DEF jobNow, answerNow
    <2>3. ByContent!Serving(t)
      BY <1>1, <2>2 DEF ByContent!Serving, Ops
    <2>4. CASE Keeps(t)
      <3>1. standing' = standing /\ held' = held
        BY <1>3, <1>4, <1>5, <2>4 DEF Keeps, standsNow
      <3>2. QED
        BY <2>2, <3>1
    <2>5. CASE Finds(t)
      <3>1. standsNow = "present" /\ key[t] \in held /\ held' = held
        BY <2>5 DEF Finds, standsNow
      <3>2. ByContent!Find(t)
        BY <1>3, <2>2, <2>3, <3>1 DEF ByContent!Find, held, standing, Standing
      <3>3. QED
        BY <3>2 DEF ByContent!Next
    <2>6. CASE Stores(t)
      <3>1. standsNow = "present" /\ op[t] = "upload" /\ held' = held \union {key[t]}
        BY <2>6 DEF Stores, standsNow
      <3>2. ByContent!Store(t)
        BY <1>3, <2>2, <2>3, <3>1
        DEF ByContent!Store, ByContent!Establish, held, standing, Standing
      <3>3. QED
        BY <3>2 DEF ByContent!Next
    <2>7. CASE Removes(t)
      <3>1. /\ standsNow = "removed" /\ op[t] = "delete"
            /\ key[t] \in held /\ held' = held \ {key[t]}
        BY <2>7 DEF Removes, standsNow
      <3>2. ByContent!Remove(t)
        BY <1>3, <2>2, <2>3, <3>1
        DEF ByContent!Remove, ByContent!Establish, held, standing, Standing
      <3>3. QED
        BY <3>2 DEF ByContent!Next
    <2>8. QED
      BY <1>10, <2>4, <2>5, <2>6, <2>7 DEF GoesOn
  <1>11. CASE Answers(t)
    <2>1. /\ pc[t] \notin {"idle", "reply"} /\ pc'[t] = "reply" /\ held' = held
          /\ op'[t] = op[t] /\ key'[t] = key[t]
      BY <1>11 DEF Answers, Busy
    <2>2. /\ job' = job /\ key' = key /\ answer[t] = "none" /\ job[t] = op[t]
          /\ standsNow = "none" /\ answerNow = ret'[t]
      BY <1>2, <1>4, <1>5, <1>7, <2>1 DEF jobNow, answerNow
    <2>3. ByContent!Serving(t)
      BY <1>1, <2>2 DEF ByContent!Serving, Ops
    <2>4. ret'[t] \in ByContent!Answers
      BY <1>1 DEF LocalTypeOK, Results, ByContent!Answers
    <2>5. Grounds(t, ret'[t]) /\ standing[t] = Standing(t)
      BY <1>4, <1>11 DEF Answers
    <2>6. ByContent!Backed(t, ret'[t])
      <3>1. /\ ret'[t] = "ok" =>
                 IF op[t] = "delete" THEN standing[t] = "removed" ELSE key[t] \in held
            /\ ret'[t] = "notmodified" => op[t] = "get" /\ standing[t] = "present"
            /\ ret'[t] = "notfound" => op[t] # "upload" /\ key[t] \notin held
            /\ ret'[t] \in {"ok", "fail", "notmodified", "notfound"}
        BY <2>5 DEF Grounds
      <3>2. QED
        BY <2>2, <3>1 DEF ByContent!Backed, held, standing, Standing
    <2>7. ByContent!Decide(t)
      BY <1>2, <1>3, <2>1, <2>2, <2>3, <2>4, <2>6
      DEF ByContent!Decide, held, standing, Standing
    <2>8. QED
      BY <2>7 DEF ByContent!Next
  <1>12. QED
    BY <1>8, <1>9, <1>10, <1>11, WorkByContent

LEMMA InitByContent == Init => ByContent!Init
  <1> SUFFICES ASSUME Init PROVE ByContent!Init
    OBVIOUS
  <1>1. /\ entry = [f \in Files |-> NoInode] /\ key \in [Threads -> Keys]
        /\ pc = [t \in Threads |-> "idle"]
    BY DEF Init, FsInit
  <1>2. /\ job = [t \in Threads |-> "idle"]
        /\ answer = [t \in Threads |-> "none"]
    BY <1>1 DEF job, answer
  <1>3. \A t \in Threads : Standing(t) = "none"
    BY <1>1 DEF Standing, PastIsDir, NewImgLabels, GetLabels
  <1>4. standing = [t \in Threads |-> "none"]
    BY <1>3 DEF standing
  <1>5. held = {}
    BY <1>1 DEF held, Complete, Exists, Files, Names
  <1>6. QED
    BY <1>1, <1>2, <1>4, <1>5 DEF ByContent!Init, held, standing, Standing

\* With one worker, and for as long as no call fails and the process lives, an
\* upload that says "ok" has stored every byte, a delete that says "ok" has
\* taken the image away, and nothing else changes what the store holds: disk
\* mode implements the image store with "0*0 is complete" for "stored".
THEOREM ImplementsContent ==
  ASSUME OneWorker
  PROVE  Spec /\ [](faults = 0) => ImplementsByContent
  <1>1. Init => ByContent!Init /\ Decided
    BY InitByContent, InitMaps
  <1>2. TypeInv /\ Decided /\ [Next]_vars => Decided'
    <2>1. ASSUME TypeInv, Decided, NEW t \in Threads, Step(t) PROVE Decided'
      BY <2>1, StepAnswering
    <2>2. QED
      BY <2>1, CrashMaps, StutterMaps DEF Next, Step
  <1>3. /\ TypeInv /\ LinkInv /\ WriterInv /\ SequentialInv /\ Decided /\ [Next]_vars
        /\ faults = 0 /\ (faults = 0)'
        => [ByContent!Next]_(ByContent!vars)
    <2> SUFFICES ASSUME TypeInv, LinkInv, WriterInv, SequentialInv, Decided, [Next]_vars,
                        faults = 0, (faults = 0)'
                 PROVE  [ByContent!Next]_(ByContent!vars)
      OBVIOUS
    <2>1. UNCHANGED <<held, job, key, standing, answer>> => UNCHANGED ByContent!vars
      BY DEF ByContent!vars, held, standing, Standing
    <2>2. ~Crash
      BY MaxFaultsAssumption DEF Crash, Fault, TypeInv, TypeOK
    <2>3. ASSUME NEW t \in Threads, Step(t)
          PROVE  [ByContent!Next]_(ByContent!vars)
      <3>1. InOrder(t)
        BY DEF InOrder, SequentialInv, WriterInv, Alone, OneWorker
      <3>2. QED
        BY <2>1, <2>3, <3>1, StepByContent
    <2>4. CASE UNCHANGED vars
      BY <2>1, <2>4
      DEF vars, fsVars, held, job, standing, answer, Standing, Complete, Exists
    <2>5. QED
      BY <2>2, <2>3, <2>4 DEF Next, Step
  <1>4. TypeInv /\ LockInv /\ WriterInv /\ [Next]_vars => WriterInv'
    BY OneWorkerInv
  <1>5. Spec => [](TypeInv /\ LockInv /\ LinkInv /\ WriterInv)
    BY <1>4, InitLinkInv, NextLinkInv, InitWriterInv, TypeCorrect, LocksHeld, PTL DEF Spec
  <1>6. QED
    BY <1>1, <1>2, <1>3, <1>5, OneAtATime, PTL DEF Spec, ImplementsByContent, ByContent!Spec

=============================================================================
