--------------------------- MODULE DiskStoreProofs ---------------------------
(***************************************************************************)
(* Proofs about DiskStore, for any threads, images, variants, settings and *)
(* number of faults: the types of the file system and of the store,        *)
(* exclusion by flock, the absence of leaks, who may touch an original,    *)
(* and what an uploader that is alone with uploads has stored.             *)
(***************************************************************************)
EXTENDS DiskStore, TLAPS

-----------------------------------------------------------------------------
(* The system calls keep their types *)

LEMMA NoInodeIsNone == NoInode \notin Inodes
  BY InodesAssumption DEF NoInode

LEMMA FsInitType == FsInit => FsTypeOK
  BY DEF FsInit, FsTypeOK, Contents

LEMMA DirsDiffer ==
  ASSUME NEW k \in Keys, NEW j \in Keys, NEW i \in 1..3
  PROVE  ImageDir(k) = Dir(j, i) <=> i = 3 /\ j = k
  BY DEF ImageDir, Dir

LEMMA MkdirType ==
  ASSUME FsTypeOK, NEW k \in Keys, NEW i \in 1..3, Mkdir(k, i)
  PROVE  FsTypeOK'
  <1>1. Dir(k, i) \in Dirs
    BY DEF Dirs
  <1>2. QED
    BY <1>1 DEF FsTypeOK, Mkdir

LEMMA RmdirType ==
  ASSUME FsTypeOK, NEW k \in Keys, Rmdir(k)
  PROVE  FsTypeOK'
  BY DEF FsTypeOK, Rmdir

LEMMA OpenReadType ==
  ASSUME FsTypeOK, NEW t \in Threads, NEW f \in Files, OpenRead(t, f)
  PROVE  FsTypeOK'
  BY DEF FsTypeOK, OpenRead

\* The inode that open creates is one that nothing refers to.
LEMMA FreshInode ==
  ASSUME \E i \in Inodes : Unused(i)
  PROVE  /\ (CHOOSE j \in Inodes : Unused(j)) \in Inodes
         /\ Unused(CHOOSE j \in Inodes : Unused(j))
  OBVIOUS

LEMMA OpenTruncType ==
  ASSUME FsTypeOK, NEW t \in Threads, NEW f \in Files, OpenTrunc(t, f)
  PROVE  FsTypeOK'
  <1>1. CASE Exists(f)
    <2>1. entry[f] \in Inodes
      BY <1>1 DEF FsTypeOK, Exists
    <2>2. QED
      BY <1>1, <2>1 DEF FsTypeOK, OpenTrunc, Contents
  <1>2. CASE ~Exists(f)
    <2> DEFINE i == CHOOSE j \in Inodes : Unused(j)
    <2>1. i \in Inodes
      BY <1>2, FreshInode DEF OpenTrunc
    <2>2. /\ entry' = [entry EXCEPT ![f] = i]
          /\ fd' = [fd EXCEPT ![t] = i]
          /\ content' = [content EXCEPT ![i] = "empty"]
          /\ UNCHANGED <<dirs, lock, streams>>
      BY <1>2 DEF OpenTrunc
    <2> HIDE DEF i
    <2>3. QED
      BY <2>1, <2>2 DEF FsTypeOK, Contents
  <1>3. QED
    BY <1>1, <1>2

LEMMA FlockType ==
  ASSUME FsTypeOK, NEW t \in Threads, Flock(t) \/ Funlock(t)
  PROVE  FsTypeOK'
  BY DEF FsTypeOK, Flock, Funlock

LEMMA WriteType ==
  ASSUME FsTypeOK, NEW t \in Threads, NEW b \in Contents,
         WriteSome(t, b) \/ WriteRest(t, b), fd[t] \in Inodes
  PROVE  FsTypeOK'
  <1>1. CASE WriteSome(t, b)
    BY <1>1 DEF FsTypeOK, WriteSome, Contents
  <1>2. CASE WriteRest(t, b)
    BY <1>2 DEF FsTypeOK, WriteRest, Contents
  <1>3. QED
    BY <1>1, <1>2

LEMMA ReclaimType ==
  ASSUME content \in [Inodes -> Contents], Reclaim
  PROVE  content' \in [Inodes -> Contents]
  BY DEF Reclaim, Contents

LEMMA RemoveType ==
  ASSUME FsTypeOK, NEW f \in Files, Remove(f)
  PROVE  FsTypeOK'
  BY ReclaimType DEF FsTypeOK, Remove

LEMMA CloseType ==
  ASSUME FsTypeOK, NEW t \in Threads, Close(t)
  PROVE  FsTypeOK'
  BY ReclaimType DEF FsTypeOK, Close

LEMMA CloseAllType ==
  ASSUME FsTypeOK, CloseAll
  PROVE  FsTypeOK'
  BY ReclaimType DEF FsTypeOK, CloseAll

LEMMA FsUnchangedType ==
  ASSUME FsTypeOK, UNCHANGED fsVars
  PROVE  FsTypeOK'
  BY DEF FsTypeOK, fsVars

-----------------------------------------------------------------------------
(* What a thread's label says of its request and its descriptor *)

\* The labels at which a thread has a descriptor that it is going to use.
Opened == {"flock", "write", "writing", "unlock", "close", "gfstat", "gfread"}

\* What a thread's label says about its request: save_img writes the bytes of
\* the upload to 0*0, get_img writes an image to a variant under settings that
\* keep originals (save_new = 0, or 2 with the script on).
RequestOf(t) ==
  /\ pc[t] \in UploadLabels =>
       op[t] = "upload" /\ name[t] = "orig" /\ buf[t] = "orig"
  /\ pc[t] \in GetLabels => op[t] = "get"
  /\ pc[t] \in AdminLabels => op[t] \in {"delete", "command"}
  /\ pc[t] \in AdminLabels \ {"adir"} => op[t] = "delete"
  /\ pc[t] \in InfoLabels => op[t] = "info"
  /\ pc[t] \in NewImgLabels =>
       \/ op[t] = "upload" /\ name[t] = "orig" /\ buf[t] = "orig"
       \/ /\ op[t] = "get" /\ buf[t] \in Contents
          /\ name[t] = "orig" => ~KeepsOriginals

\* Descriptors are open where they are used, and nowhere else.
DescriptorOf(t) ==
  /\ pc[t] \in Opened => fd[t] \in Inodes
  /\ pc[t] \notin Opened \union {"gset", "reply"} => fd[t] = NoInode
  /\ pc[t] = "reply" /\ op[t] # "get" => fd[t] = NoInode

\* The system call of a step, if it makes one that succeeds.
FsCall(t) ==
  \/ UNCHANGED fsVars
  \/ pc[t] = "mkdir" /\ Mkdir(key[t], lvl[t])
  \/ pc[t] = "open" /\ pc'[t] = "flock" /\ OpenTrunc(t, Target(t))
  \/ pc[t] = "flock" /\ pc'[t] = "write" /\ CanFlock(t) /\ Flock(t)
  \/ pc[t] = "write" /\ WriteSome(t, buf[t])
  \/ pc[t] = "writing" /\ WriteRest(t, buf[t])
  \/ pc[t] = "unlock" /\ Funlock(t)
  \/ pc[t] \in {"close", "reply"} /\ Close(t)
  \/ pc[t] = "gopen" /\ Exists(Target(t)) /\ OpenRead(t, Target(t))
  \/ pc[t] = "opendir" /\ Opendir(key[t])
  \/ pc[t] = "remove" /\ Remove(Target(t))
  \/ pc[t] = "rmdir" /\ CanRmdir(key[t]) /\ Rmdir(key[t])

TypeInv == /\ TypeOK
           /\ \A t \in Threads : RequestOf(t) /\ DescriptorOf(t)

-----------------------------------------------------------------------------

LEMMA InitTypeInv == Init => TypeInv
  <1> SUFFICES ASSUME Init PROVE TypeInv
    OBVIOUS
  <1>1. FsTypeOK
    BY FsInitType DEF Init
  <1>2. TypeOK
    BY <1>1, MaxFaultsAssumption
    DEF Init, TypeOK, Blobs, Contents, Labels, Ops, Names, Results
  <1>3. ASSUME NEW t \in Threads PROVE RequestOf(t) /\ DescriptorOf(t)
    BY DEF Init, FsInit, RequestOf, DescriptorOf, UploadLabels, GetLabels,
           NewImgLabels, AdminLabels, InfoLabels, Opened
  <1>4. QED
    BY <1>2, <1>3 DEF TypeInv

-----------------------------------------------------------------------------
(* Steps *)

Step(t) == Start(t) \/ Work(t)

USE DEF At, Goto, Hold, Return, local

LEMMA FirstLabelIs == \A o : FirstLabel(o) \in {"udir", "gdir", "adir", "idir"}
  BY DEF FirstLabel

LEMMA OneCall ==
  ASSUME TypeInv, NEW t \in Threads, Step(t)
  PROVE  FsCall(t)
  <1>1. CASE Start(t)
    BY <1>1 DEF FsCall, Start
  <1>2. CASE Reply(t)
    BY <1>2 DEF FsCall, Reply
  <1>3. CASE SaveImg(t)
    BY <1>3 DEF FsCall, SaveImg, UploadIsDir, Access, MkdirStep, UploadIsFile,
                UploadCache
  <1>4. CASE NewImg(t)
    BY <1>4 DEF TypeInv, TypeOK, FsCall, NewImg, NewImgOpen, NewImgFlock, NewImgWrite,
                NewImgWritten, NewImgUnlock, NewImgClose, NewImgLabels
  <1>5. CASE GetImg(t)
    BY <1>5 DEF FsCall, GetImg, GetIsDir, GetFindCache, GetOpen, GetFstat,
                GetRead, GetFindOriginal, GetDelCache, GetReadOriginal,
                GetSetOriginal, GetConvert, GetSetCache
  <1>6. CASE AdminImg(t)
    BY <1>6 DEF FsCall, AdminImg, AdminIsDir, DeleteOpendir, DeleteNext,
                DeleteRemove, DeleteRmdir
  <1>7. CASE InfoImg(t)
    BY <1>7 DEF FsCall, InfoImg, InfoIsDir, InfoRead
  <1>8. QED
    BY <1>1, <1>2, <1>3, <1>4, <1>5, <1>6, <1>7 DEF Step, Work

LEMMA StepFsType ==
  ASSUME TypeInv, NEW t \in Threads, FsCall(t)
  PROVE  FsTypeOK'
  <1>1. FsTypeOK /\ key[t] \in Keys /\ lvl[t] \in 1..3 /\ Target(t) \in Files
    BY DEF TypeInv, TypeOK, Target, Files
  <1>2. pc[t] \in {"write", "writing"} => fd[t] \in Inodes /\ buf[t] \in Contents
    BY DEF TypeInv, DescriptorOf, RequestOf, Opened, NewImgLabels, Contents
  <1>3. CASE UNCHANGED fsVars
    BY <1>1, <1>3, FsUnchangedType
  <1>4. CASE Mkdir(key[t], lvl[t])
    BY <1>1, <1>4, MkdirType
  <1>5. CASE OpenTrunc(t, Target(t))
    BY <1>1, <1>5, OpenTruncType
  <1>6. CASE Flock(t) \/ Funlock(t)
    BY <1>1, <1>6, FlockType
  <1>7. CASE pc[t] = "write" /\ WriteSome(t, buf[t])
    BY <1>1, <1>2, <1>7, WriteType
  <1>8. CASE pc[t] = "writing" /\ WriteRest(t, buf[t])
    BY <1>1, <1>2, <1>8, WriteType
  <1>9. CASE Close(t)
    BY <1>1, <1>9, CloseType
  <1>10. CASE OpenRead(t, Target(t))
    BY <1>1, <1>10, OpenReadType
  <1>11. CASE Remove(Target(t))
    BY <1>1, <1>11, RemoveType
  <1>12. CASE Rmdir(key[t])
    BY <1>1, <1>12, RmdirType
  <1>13. CASE Opendir(key[t])
    BY <1>1, <1>13 DEF Opendir, FsTypeOK
  <1>14. QED
    BY <1>3, <1>4, <1>5, <1>6, <1>7, <1>8, <1>9, <1>10, <1>11, <1>12, <1>13 DEF FsCall

\* The variables of the requests themselves.
LocalTypeOK ==
  /\ cache \in [Files -> Blobs]
  /\ pc \in [Threads -> Labels]
  /\ op \in [Threads -> Ops]
  /\ key \in [Threads -> Keys]
  /\ name \in [Threads -> Names]
  /\ lvl \in [Threads -> 1..3]
  /\ todo \in [Threads -> SUBSET Names]
  /\ buf \in [Threads -> Blobs]
  /\ ret \in [Threads -> Results]
  /\ faults \in 0..MaxFaults

LEMMA SetCacheType ==
  ASSUME cache \in [Files -> Blobs], NEW f \in Files, NEW b \in Blobs, SetCache(f, b)
  PROVE  cache' \in [Files -> Blobs]
  BY DEF SetCache

LEMMA FaultType ==
  ASSUME faults \in 0..MaxFaults, Fault \/ NoFault \/ UNCHANGED faults
  PROVE  faults' \in 0..MaxFaults
  BY MaxFaultsAssumption DEF Fault, NoFault

LEMMA StepLocalType ==
  ASSUME TypeInv, NEW t \in Threads, Step(t)
  PROVE  LocalTypeOK'
  <1> USE DEF LocalTypeOK
  <1>1. /\ LocalTypeOK
        /\ FsTypeOK
        /\ Target(t) \in Files /\ Original(t) \in Files
        /\ buf[t] \in Blobs
    BY DEF TypeInv, TypeOK, Target, Original, Files, Names
  <1>2. pc[t] \in Opened => content[fd[t]] \in Contents
    BY <1>1 DEF TypeInv, DescriptorOf, FsTypeOK
  <1>3. ASSUME NEW k \in Keys PROVE DecodedFile(k) \subseteq Contents \union {"fail"}
    BY DEF DecodedFile, Decoded, Contents
  <1>4. CASE Start(t)
    <2>1. PICK o \in Role[t], k \in Keys, n \in Names :
            /\ op' = [op EXCEPT ![t] = o]
            /\ key' = [key EXCEPT ![t] = k]
            /\ name' = [name EXCEPT ![t] = n]
            /\ buf' = [buf EXCEPT ![t] = IF o = "upload" THEN "orig" ELSE "none"]
            /\ pc' = [pc EXCEPT ![t] = FirstLabel(o)]
      BY <1>4 DEF Start, Hold
    <2>2. o \in Ops
      BY <2>1, RoleAssumption
    <2>3. pc' \in [Threads -> Labels]
      BY <1>1, <2>1, FirstLabelIs DEF Labels, UploadLabels, GetLabels, AdminLabels, InfoLabels
    <2>4. buf' \in [Threads -> Blobs]
      BY <1>1, <2>1 DEF Blobs, Contents
    <2>5. QED
      BY <1>1, <1>4, <2>1, <2>2, <2>3, <2>4 DEF Start
  <1>5. CASE Reply(t)
    BY <1>1, <1>5 DEF Reply, Hold, Labels, Blobs, Ops, Names, Results
  <1>6. CASE SaveImg(t)
    <2> USE DEF Labels, UploadLabels, NewImgLabels, Results
    <2>1. CASE UploadIsDir(t)
      BY <1>1, <2>1 DEF UploadIsDir
    <2>2. CASE Access(t)
      BY <1>1, <2>2 DEF Access, NextLevel
    <2>3. CASE MkdirStep(t)
      BY <1>1, <2>3, FaultType DEF MkdirStep, NextLevel
    <2>4. CASE UploadIsFile(t)
      BY <1>1, <2>4 DEF UploadIsFile
    <2>5. CASE UploadCache(t)
      BY <1>1, <2>5, SetCacheType DEF UploadCache
    <2>6. QED
      BY <1>6, <2>1, <2>2, <2>3, <2>4, <2>5 DEF SaveImg
  <1>7. CASE NewImg(t)
    <2> USE DEF Labels, UploadLabels, GetLabels, NewImgLabels, Results, AfterNewImg
    <2>1. CASE NewImgOpen(t)
      BY <1>1, <2>1, FaultType DEF NewImgOpen
    <2>2. CASE NewImgFlock(t)
      BY <1>1, <2>2 DEF NewImgFlock
    <2>3. CASE NewImgWrite(t)
      BY <1>1, <2>3, FaultType DEF NewImgWrite
    <2>4. CASE NewImgWritten(t)
      BY <1>1, <2>4, FaultType DEF NewImgWritten
    <2>5. CASE NewImgUnlock(t)
      BY <1>1, <2>5 DEF NewImgUnlock
    <2>6. CASE NewImgClose(t)
      BY <1>1, <2>6 DEF NewImgClose
    <2>7. QED
      BY <1>7, <2>1, <2>2, <2>3, <2>4, <2>5, <2>6 DEF NewImg
  <1>8. CASE GetImg(t)
    <2> USE DEF Labels, GetLabels, NewImgLabels, Results, Hold
    <2>1. CASE GetIsDir(t)
      BY <1>1, <2>1 DEF GetIsDir
    <2>2. CASE GetFindCache(t)
      BY <1>1, <2>2, FaultType DEF GetFindCache, Finish
    <2>3. CASE GetOpen(t)
      BY <1>1, <2>3 DEF GetOpen
    <2>4. CASE GetFstat(t)
      BY <1>1, <1>2, <2>4 DEF GetFstat, Opened, Blobs
    <2>5. CASE GetRead(t)
      <3>1. ReadAfter(buf[t], content[fd[t]]) \subseteq Contents \union {"fail"}
        BY <1>2, <2>5 DEF GetRead, Opened, ReadAfter, Contents
      <3>2. QED
        BY <1>1, <2>5, <3>1 DEF GetRead, Blobs
    <2>6. CASE GetFindOriginal(t)
      <3>1. Decoded(key[t], cache[Original(t)]) \subseteq Contents \union {"fail"}
        BY DEF Decoded, Contents
      <3>2. QED
        BY <1>1, <2>6, <3>1 DEF GetFindOriginal, Blobs
    <2>7. CASE GetDelCache(t)
      BY <1>1, <2>7 DEF GetDelCache, Blobs
    <2>8. CASE GetReadOriginal(t)
      BY <1>1, <1>3, <2>8 DEF GetReadOriginal, Blobs
    <2>9. CASE GetSetOriginal(t)
      BY <1>1, <2>9, SetCacheType DEF GetSetOriginal
    <2>10. CASE GetConvert(t)
      BY <1>1, <2>10 DEF GetConvert, Blobs, Contents
    <2>11. CASE GetSetCache(t)
      BY <1>1, <2>11, SetCacheType, FaultType DEF GetSetCache, Finish
    <2>12. QED
      BY <1>8, <2>1, <2>2, <2>3, <2>4, <2>5, <2>6, <2>7, <2>8, <2>9, <2>10, <2>11
      DEF GetImg
  <1>9. CASE AdminImg(t)
    <2> USE DEF Labels, AdminLabels, Results
    <2>1. CASE AdminIsDir(t)
      BY <1>1, <2>1 DEF AdminIsDir
    <2>2. CASE DeleteOpendir(t)
      BY <1>1, <2>2, FaultType DEF DeleteOpendir, EntriesOf
    <2>3. CASE DeleteNext(t)
      <3>1. CASE todo[t] = {} /\ Goto(t, "rmdir") /\ UNCHANGED <<name, todo, ret>>
        BY <1>1, <2>3, <3>1 DEF DeleteNext
      <3>2. ASSUME NEW n \in todo[t],
                   name' = [name EXCEPT ![t] = n],
                   todo' = [todo EXCEPT ![t] = @ \ {n}],
                   Goto(t, "remove"), UNCHANGED ret
            PROVE  LocalTypeOK'
        <4>1. todo[t] \subseteq Names /\ n \in Names
          BY <1>1
        <4>2. name' \in [Threads -> Names] /\ todo' \in [Threads -> SUBSET Names]
          BY <1>1, <3>2, <4>1
        <4>3. QED
          BY <1>1, <2>3, <3>2, <4>2 DEF DeleteNext
      <3>3. CASE /\ todo' = [todo EXCEPT ![t] = {}]
                 /\ Goto(t, "reply") /\ ret' = [ret EXCEPT ![t] = "fail"]
                 /\ UNCHANGED name
        <4>1. todo' \in [Threads -> SUBSET Names]
          BY <1>1, <3>3
        <4>2. QED
          BY <1>1, <2>3, <3>3, <4>1 DEF DeleteNext
      <3>4. QED
        BY <2>3, <3>1, <3>2, <3>3 DEF DeleteNext
    <2>4. CASE DeleteRemove(t)
      BY <1>1, <2>4, FaultType DEF DeleteRemove
    <2>5. CASE DeleteRmdir(t)
      BY <1>1, <2>5, FaultType DEF DeleteRmdir
    <2>6. QED
      BY <1>9, <2>1, <2>2, <2>3, <2>4, <2>5 DEF AdminImg
  <1>10. CASE InfoImg(t)
    BY <1>1, <1>10 DEF InfoImg, InfoIsDir, InfoRead, Labels, InfoLabels, Results
  <1>11. QED
    BY <1>4, <1>5, <1>6, <1>7, <1>8, <1>9, <1>10 DEF Step, Work

\* A step moves its own thread along the code, and touches the request of no
\* other thread.
LEMMA OthersKeepTheirs ==
  ASSUME TypeInv, NEW t \in Threads, Step(t), NEW s \in Threads, s # t
  PROVE  /\ pc'[s] = pc[s] /\ op'[s] = op[s] /\ key'[s] = key[s]
         /\ name'[s] = name[s] /\ buf'[s] = buf[s] /\ ret'[s] = ret[s]
  <1>1. LocalTypeOK
    BY DEF TypeInv, TypeOK, LocalTypeOK
  <1> USE DEF LocalTypeOK
  <1>2. CASE Start(t)
    BY <1>1, <1>2 DEF Start, Hold
  <1>3. CASE Reply(t)
    BY <1>1, <1>3 DEF Reply, Hold
  <1>4. CASE SaveImg(t)
    BY <1>1, <1>4 DEF SaveImg, UploadIsDir, Access, NextLevel, MkdirStep,
                      UploadIsFile, UploadCache
  <1>5. CASE NewImg(t)
    BY <1>1, <1>5 DEF NewImg, NewImgOpen, NewImgFlock, NewImgWrite, NewImgWritten,
                      NewImgUnlock, NewImgClose, AfterNewImg
  <1>6. CASE GetImg(t)
    BY <1>1, <1>6 DEF GetImg, GetIsDir, GetFindCache, GetOpen, GetFstat, GetRead,
                      GetFindOriginal, GetDelCache, GetReadOriginal,
                      GetSetOriginal, GetConvert, GetSetCache, Finish, Hold
  <1>7. CASE AdminImg(t)
    BY <1>1, <1>7 DEF AdminImg, AdminIsDir, DeleteOpendir, DeleteNext,
                      DeleteRemove, DeleteRmdir
  <1>8. CASE InfoImg(t)
    BY <1>1, <1>8 DEF InfoImg, InfoIsDir, InfoRead
  <1>9. QED
    BY <1>2, <1>3, <1>4, <1>5, <1>6, <1>7, <1>8 DEF Step, Work

LEMMA StepRequest ==
  ASSUME TypeInv, NEW t \in Threads, Step(t), NEW s \in Threads
  PROVE  RequestOf(s)'
  <1>1. LocalTypeOK /\ RequestOf(t) /\ RequestOf(s)
    BY DEF TypeInv, TypeOK, LocalTypeOK
  <1>2. CASE s # t
    BY <1>1, <1>2, OthersKeepTheirs DEF RequestOf
  <1> SUFFICES ASSUME s = t PROVE RequestOf(t)'
    BY <1>2
  <1> USE DEF LocalTypeOK, RequestOf, UploadLabels, GetLabels, NewImgLabels,
              AdminLabels, InfoLabels
  <1>3. CASE Start(t)
    <2>1. PICK o \in Role[t] :
            /\ op'[t] = o
            /\ o # "get" => name'[t] = "orig"
            /\ buf'[t] = IF o = "upload" THEN "orig" ELSE "none"
            /\ pc'[t] = FirstLabel(o)
      BY <1>1, <1>3 DEF Start, Hold
    <2>2. o \in {"upload", "get", "delete", "command", "info"}
      BY <2>1, RoleAssumption DEF Ops
    <2>3. QED
      BY <2>1, <2>2 DEF FirstLabel
  <1>4. CASE Reply(t)
    BY <1>1, <1>4 DEF Reply, Hold
  <1>5. CASE SaveImg(t)
    BY <1>1, <1>5 DEF SaveImg, UploadIsDir, Access, NextLevel, MkdirStep,
                      UploadIsFile, UploadCache
  <1>6. CASE NewImg(t)
    BY <1>1, <1>6 DEF NewImg, NewImgOpen, NewImgFlock, NewImgWrite, NewImgWritten,
                      NewImgUnlock, NewImgClose, AfterNewImg
  <1>7. CASE GetImg(t)
    <2>1. CASE GetConvert(t)
      <3>1. name[t] = "orig" => name[t] # Default /\ name[t] \notin Typed
        BY VariantsAssumption, DefaultAssumption, TypedAssumption
      <3>2. CASE pc'[t] = "open"
        <4>1. ASSUME name[t] = "orig", KeepsOriginals,
                     NEW type \in HasType(name[t])
              PROVE  ~Saved(type)
          BY <3>1, <4>1 DEF Saved, HasType, KeepsOriginals
        <4>2. PICK sv \in {FALSE, name[t] = Default}, type \in HasType(name[t]) :
                sv \/ Saved(type)
          BY <1>1, <2>1, <3>2 DEF GetConvert
        <4>3. name[t] = "orig" => ~KeepsOriginals
          BY <3>1, <4>1, <4>2
        <4>4. /\ op'[t] = "get" /\ name'[t] = name[t]
              /\ buf'[t] \in {"bad", "conv"}
          BY <1>1, <2>1, <3>2 DEF GetConvert, Hold
        <4>5. QED
          BY <3>2, <4>3, <4>4 DEF Contents
      <3>3. CASE pc'[t] # "open"
        BY <1>1, <2>1, <3>3 DEF GetConvert, Hold
      <3>4. QED
        BY <3>2, <3>3
    <2>2. CASE ~GetConvert(t)
      BY <1>1, <1>7, <2>2
      DEF GetImg, GetIsDir, GetFindCache, GetOpen, GetFstat, GetRead,
          GetFindOriginal, GetDelCache, GetReadOriginal, GetSetOriginal,
          GetSetCache, Finish, Hold
    <2>3. QED
      BY <2>1, <2>2
  <1>8. CASE AdminImg(t)
    <2>1. CASE AdminIsDir(t)
      BY <1>1, <2>1 DEF AdminIsDir
    <2>2. CASE DeleteNext(t)
      <3>1. op'[t] = op[t] /\ pc[t] = "next" /\ pc'[t] \in {"rmdir", "remove", "reply"}
        BY <1>1, <2>2 DEF DeleteNext
      <3>2. QED
        BY <1>1, <3>1
    <2>3. CASE DeleteOpendir(t) \/ DeleteRemove(t) \/ DeleteRmdir(t)
      BY <1>1, <2>3 DEF DeleteOpendir, DeleteRemove, DeleteRmdir
    <2>4. QED
      BY <1>8, <2>1, <2>2, <2>3 DEF AdminImg
  <1>9. CASE InfoImg(t)
    BY <1>1, <1>9 DEF InfoImg, InfoIsDir, InfoRead
  <1>10. QED
    BY <1>3, <1>4, <1>5, <1>6, <1>7, <1>8, <1>9 DEF Step, Work

LEMMA OpenTruncFd ==
  ASSUME FsTypeOK, NEW t \in Threads, NEW f \in Files, OpenTrunc(t, f)
  PROVE  \E i \in Inodes : fd' = [fd EXCEPT ![t] = i] /\ entry'[f] = i
  <1>1. CASE Exists(f)
    BY <1>1 DEF OpenTrunc, Exists, FsTypeOK
  <1>2. CASE ~Exists(f)
    BY <1>2, FreshInode DEF OpenTrunc, FsTypeOK
  <1>3. QED
    BY <1>1, <1>2

LEMMA OthersKeepFd ==
  ASSUME TypeInv, NEW t \in Threads, Step(t), NEW s \in Threads, s # t
  PROVE  fd'[s] = fd[s]
  <1>1. FsTypeOK /\ FsCall(t) /\ Target(t) \in Files
    BY OneCall DEF TypeInv, TypeOK, Target, Files
  <1>2. CASE OpenTrunc(t, Target(t))
    BY <1>1, <1>2, OpenTruncFd DEF FsTypeOK
  <1>3. CASE ~OpenTrunc(t, Target(t))
    BY <1>1, <1>3
    DEF FsCall, FsTypeOK, fsVars, Mkdir, Flock, WriteSome, WriteRest, Funlock,
        Close, OpenRead, Remove, Opendir, Rmdir
  <1>4. QED
    BY <1>2, <1>3

LEMMA StepDescriptor ==
  ASSUME TypeInv, NEW t \in Threads, Step(t), NEW s \in Threads
  PROVE  DescriptorOf(s)'
  <1>1. /\ LocalTypeOK /\ FsTypeOK /\ FsCall(t) /\ Target(t) \in Files
        /\ DescriptorOf(t) /\ DescriptorOf(s) /\ RequestOf(t)
    BY OneCall DEF TypeInv, TypeOK, LocalTypeOK, Target, Files
  <1>2. CASE s # t
    <2>1. fd'[s] = fd[s]
      BY <1>2, OthersKeepFd
    <2>2. QED
      BY <1>1, <1>2, <2>1, OthersKeepTheirs DEF DescriptorOf
  <1> SUFFICES ASSUME s = t PROVE DescriptorOf(t)'
    BY <1>2
  <1> USE DEF LocalTypeOK, DescriptorOf, Opened, RequestOf,
              UploadLabels, NewImgLabels, GetLabels, AdminLabels, InfoLabels, local
  <1>3. CASE Start(t)
    BY <1>1, <1>3, FirstLabelIs DEF Start, fsVars
  <1>4. CASE Reply(t)
    BY <1>1, <1>4 DEF Reply, Close, FsTypeOK, fsVars
  <1>5. CASE SaveImg(t)
    BY <1>1, <1>5 DEF SaveImg, UploadIsDir, Access, NextLevel, MkdirStep, Mkdir,
                      UploadIsFile, UploadCache, fsVars
  <1>6. CASE NewImg(t)
    <2>1. CASE NewImgOpen(t)
      <3>1. CASE OpenTrunc(t, Target(t)) /\ pc'[t] = "flock"
        BY <1>1, <3>1, OpenTruncFd DEF FsTypeOK
      <3>2. CASE UNCHANGED fsVars /\ pc'[t] \in {"gset", "ucache", "reply"}
        BY <1>1, <2>1, <3>2 DEF NewImgOpen, fsVars
      <3>3. QED
        BY <1>1, <2>1, <3>1, <3>2 DEF NewImgOpen, AfterNewImg
    <2>2. CASE NewImgClose(t)
      BY <1>1, <2>2 DEF NewImgClose, AfterNewImg, Close, FsTypeOK
    <2>3. CASE ~NewImgOpen(t) /\ ~NewImgClose(t)
      BY <1>1, <1>6, <2>3
      DEF NewImg, NewImgFlock, NewImgWrite, NewImgWritten, NewImgUnlock,
          Flock, WriteSome, WriteRest, Funlock, fsVars
    <2>4. QED
      BY <2>1, <2>2, <2>3
  <1>7. CASE GetImg(t)
    <2>1. CASE GetOpen(t)
      BY <1>1, <2>1 DEF GetOpen, OpenRead, Exists, fsVars, FsTypeOK
    <2>2. CASE ~GetOpen(t)
      <3>1. fd' = fd /\ op'[t] = op[t] /\ op[t] = "get"
        BY <1>1, <1>7, <2>2
        DEF GetImg, GetIsDir, GetFindCache, GetFstat, GetRead, GetFindOriginal,
            GetDelCache, GetReadOriginal, GetSetOriginal, GetConvert,
            GetSetCache, fsVars
      <3>2. /\ pc[t] \in {"gfstat", "gfread"} =>
                 pc'[t] \in {"gfread", "gset", "reply"}
            /\ pc'[t] \in Opened => pc'[t] = "gfread" /\ pc[t] = "gfstat"
            /\ pc[t] = "gset" => pc'[t] = "reply"
        BY <1>1, <1>7, <2>2
        DEF GetImg, GetIsDir, GetFindCache, GetFstat, GetRead, GetFindOriginal,
            GetDelCache, GetReadOriginal, GetSetOriginal, GetConvert,
            GetSetCache, Finish
      <3>3. pc[t] \in GetLabels
        BY <1>7 DEF GetImg, GetIsDir, GetFindCache, GetOpen, GetFstat, GetRead,
                    GetFindOriginal, GetDelCache, GetReadOriginal, GetSetOriginal,
                    GetConvert, GetSetCache
      <3>4. QED
        BY <1>1, <3>1, <3>2, <3>3
    <2>3. QED
      BY <2>1, <2>2
  <1>8. CASE AdminImg(t)
    <2>1. fd' = fd
      BY <1>8 DEF AdminImg, AdminIsDir, DeleteOpendir, DeleteNext,
                  DeleteRemove, DeleteRmdir, Remove, Opendir, Rmdir, fsVars
    <2>2. pc[t] \in AdminLabels /\ UNCHANGED <<op, key>>
      BY <1>8 DEF AdminImg, AdminIsDir, DeleteOpendir, DeleteNext,
                  DeleteRemove, DeleteRmdir
    <2>3. pc'[t] \in AdminLabels \union {"reply"}
      BY <1>1, <1>8 DEF AdminImg, AdminIsDir, DeleteOpendir, DeleteNext,
                        DeleteRemove, DeleteRmdir
    <2>4. QED
      BY <1>1, <2>1, <2>2, <2>3
  <1>9. CASE InfoImg(t)
    BY <1>1, <1>9 DEF InfoImg, InfoIsDir, InfoRead, fsVars
  <1>10. QED
    BY <1>3, <1>4, <1>5, <1>6, <1>7, <1>8, <1>9 DEF Step, Work

LEMMA CrashTypeInv ==
  ASSUME TypeInv, Crash
  PROVE  TypeInv'
  <1>1. TypeOK'
    <2>1. FsTypeOK'
      BY CloseAllType DEF TypeInv, TypeOK, Crash
    <2>2. LocalTypeOK'
      BY FaultType DEF TypeInv, TypeOK, LocalTypeOK, Crash, Labels, Ops, Names,
                       Blobs, Results
    <2>3. QED
      BY <2>1, <2>2 DEF TypeOK, LocalTypeOK
  <1>2. ASSUME NEW s \in Threads PROVE RequestOf(s)' /\ DescriptorOf(s)'
    BY DEF Crash, CloseAll, RequestOf, DescriptorOf, UploadLabels, GetLabels,
           NewImgLabels, AdminLabels, InfoLabels, Opened
  <1>3. QED
    BY <1>1, <1>2 DEF TypeInv

LEMMA StutterTypeInv ==
  ASSUME TypeInv, UNCHANGED vars
  PROVE  TypeInv'
  <1>1. TypeOK'
    BY DEF TypeInv, TypeOK, FsTypeOK, vars, fsVars
  <1>2. ASSUME NEW s \in Threads PROVE RequestOf(s)' /\ DescriptorOf(s)'
    BY DEF TypeInv, RequestOf, DescriptorOf, vars, fsVars
  <1>3. QED
    BY <1>1, <1>2 DEF TypeInv

LEMMA NextTypeInv == TypeInv /\ [Next]_vars => TypeInv'
  <1> SUFFICES ASSUME TypeInv, [Next]_vars PROVE TypeInv'
    OBVIOUS
  <1>1. CASE Crash
    BY <1>1, CrashTypeInv
  <1>2. ASSUME NEW t \in Threads, Step(t) PROVE TypeInv'
    <2>1. FsTypeOK'
      BY <1>2, OneCall, StepFsType
    <2>2. LocalTypeOK'
      BY <1>2, StepLocalType
    <2>3. TypeOK'
      BY <2>1, <2>2 DEF TypeOK, LocalTypeOK
    <2>4. \A s \in Threads : RequestOf(s)' /\ DescriptorOf(s)'
      BY <1>2, StepRequest, StepDescriptor
    <2>5. QED
      BY <2>3, <2>4 DEF TypeInv
  <1>3. CASE UNCHANGED vars
    BY <1>3, StutterTypeInv
  <1>4. QED
    BY <1>1, <1>2, <1>3 DEF Next, Step

-----------------------------------------------------------------------------
\* Every variable keeps its type, at every label the request of a thread is
\* the one its code works for, and descriptors are open where they are used.
THEOREM TypeCorrect == Spec => []TypeInv
  <1>1. QED
    BY InitTypeInv, NextTypeInv, PTL DEF Spec

\* The type invariant that the runs check.
THEOREM TypeSafe == Spec => []TypeOK
  <1>1. TypeInv => TypeOK
    BY DEF TypeInv
  <1>2. QED
    BY <1>1, TypeCorrect, PTL

-----------------------------------------------------------------------------
(* The flock protocol of new_img *)

\* The labels of new_img at which the thread has its file open.
HasFile == {"flock", "write", "writing", "unlock", "close"}

\* The labels of new_img are left by its own steps, and those at which it has
\* its file open are entered by them.
LEMMA OnlyNewImg ==
  ASSUME TypeInv, NEW t \in Threads, Step(t), ~NewImg(t)
  PROVE  pc[t] \notin NewImgLabels /\ pc'[t] \notin HasFile
  <1>1. LocalTypeOK
    BY DEF TypeInv, TypeOK, LocalTypeOK
  <1> USE DEF LocalTypeOK, HasFile, NewImgLabels
  <1>2. CASE Start(t) \/ Reply(t)
    BY <1>1, <1>2, FirstLabelIs DEF Start, Reply
  <1>3. CASE SaveImg(t)
    BY <1>1, <1>3 DEF SaveImg, UploadIsDir, Access, NextLevel, MkdirStep,
                      UploadIsFile, UploadCache
  <1>4. CASE GetImg(t)
    BY <1>1, <1>4 DEF GetImg, GetIsDir, GetFindCache, GetOpen, GetFstat, GetRead,
                      GetFindOriginal, GetDelCache, GetReadOriginal,
                      GetSetOriginal, GetConvert, GetSetCache, Finish
  <1>5. CASE AdminImg(t) \/ InfoImg(t)
    BY <1>1, <1>5 DEF AdminImg, AdminIsDir, DeleteOpendir, DeleteNext,
                      DeleteRemove, DeleteRmdir, InfoImg, InfoIsDir, InfoRead
  <1>6. QED
    BY <1>2, <1>3, <1>4, <1>5 DEF Step, Work

\* The threads past flock hold the lock of the inode they write, and a lock
\* that is held is held by such a thread or by one that is about to close.
LockInv ==
  /\ \A t \in Threads : pc[t] \in Locked => lock[fd[t]] = t
  /\ \A i \in Inodes : lock[i] # NoThread =>
       pc[lock[i]] \in Locked \union {"close"} /\ fd[lock[i]] = i

LEMMA InitLockInv == Init => LockInv
  BY DEF Init, FsInit, LockInv, Locked

LEMMA StepLockInv ==
  ASSUME TypeInv, LockInv, NEW t \in Threads, Step(t)
  PROVE  LockInv'
  <1>1. /\ FsTypeOK /\ LocalTypeOK /\ FsCall(t) /\ Target(t) \in Files
        /\ DescriptorOf(t)
    BY OneCall DEF TypeInv, TypeOK, LocalTypeOK, Target, Files
  <1>2. \A s \in Threads \ {t} : pc'[s] = pc[s] /\ fd'[s] = fd[s]
    BY OthersKeepFd, OthersKeepTheirs
  <1>3. \A s \in Threads : pc[s] \in Locked => fd[s] \in Inodes
    BY DEF TypeInv, DescriptorOf, Locked, Opened
  <1>4. NoThread \notin Threads
    BY ThreadsAssumption
  <1> USE DEF LockInv, Locked, FsTypeOK, LocalTypeOK
  <1>5. CASE NewImg(t)
    <2>1. CASE NewImgOpen(t)
      <3>1. lock' = lock /\ pc'[t] \notin Locked /\ pc[t] = "open"
        BY <1>1, <2>1 DEF NewImgOpen, OpenTrunc, AfterNewImg, fsVars
      <3>2. QED
        BY <1>1, <1>2, <3>1
    <2>2. CASE NewImgFlock(t)
      <3>1. CASE CanFlock(t) /\ Flock(t) /\ pc' = [pc EXCEPT ![t] = "write"]
        <4>1. fd[t] \in Inodes /\ lock[fd[t]] = NoThread /\ fd' = fd
              /\ lock' = [lock EXCEPT ![fd[t]] = t]
          BY <1>1, <2>2, <3>1 DEF NewImgFlock, CanFlock, Flock, DescriptorOf, Opened
        <4>2. QED
          BY <1>1, <1>2, <1>3, <1>4, <3>1, <4>1
      <3>2. CASE UNCHANGED fsVars /\ pc' = [pc EXCEPT ![t] = "close"]
        BY <1>1, <1>2, <2>2, <3>2 DEF NewImgFlock, fsVars
      <3>3. QED
        BY <2>2, <3>1, <3>2 DEF NewImgFlock
    <2>3. CASE NewImgWrite(t) \/ NewImgWritten(t)
      <3>1. /\ lock' = lock /\ fd' = fd
            /\ pc[t] \in {"write", "writing"}
            /\ pc'[t] \in Locked \union {"close"}
        BY <1>1, <2>3 DEF NewImgWrite, NewImgWritten, WriteSome, WriteRest, fsVars
      <3>2. QED
        BY <1>1, <1>2, <3>1
    <2>4. CASE NewImgUnlock(t)
      <3>1. /\ fd[t] \in Inodes /\ lock[fd[t]] = t /\ fd' = fd
            /\ lock' = [lock EXCEPT ![fd[t]] = NoThread]
            /\ pc' = [pc EXCEPT ![t] = "close"]
        BY <1>1, <1>3, <2>4 DEF NewImgUnlock, Funlock
      <3>2. QED
        BY <1>1, <1>2, <1>3, <3>1
    <2>5. CASE NewImgClose(t)
      <3>1. /\ lock' = [i \in Inodes |-> IF lock[i] = t THEN NoThread ELSE lock[i]]
            /\ pc'[t] \notin Locked
        BY <1>1, <2>5 DEF NewImgClose, Close, AfterNewImg
      <3>2. ASSUME NEW i \in Inodes, lock'[i] # NoThread
            PROVE  lock'[i] = lock[i] /\ lock[i] # t /\ lock[i] \in Threads
        BY <1>1, <3>1, <3>2
      <3>3. QED
        BY <1>2, <1>3, <3>1, <3>2
    <2>6. QED
      BY <1>5, <2>1, <2>2, <2>3, <2>4, <2>5 DEF NewImg
  <1>6. CASE ~NewImg(t)
    <2>1. pc[t] \notin Locked \union {"close"} /\ pc'[t] \notin Locked
      BY <1>6, OnlyNewImg DEF Locked, NewImgLabels, HasFile
    <2>2. \A i \in Inodes : lock[i] # t
      BY <1>1, <1>4, <2>1
    <2>3. lock' = lock
      <3>1. CASE Close(t)
        BY <1>1, <2>2, <3>1 DEF Close
      <3>2. CASE ~Close(t)
        BY <1>1, <2>1, <2>2, <3>2 DEF FsCall, fsVars, Mkdir, OpenTrunc, OpenRead, Remove, Opendir, Rmdir
      <3>3. QED
        BY <3>1, <3>2
    <2>4. QED
      BY <1>1, <1>2, <2>1, <2>2, <2>3
  <1>7. QED
    BY <1>5, <1>6

LEMMA NextLockInv == TypeInv /\ LockInv /\ [Next]_vars => LockInv'
  <1> SUFFICES ASSUME TypeInv, LockInv, [Next]_vars PROVE LockInv'
    OBVIOUS
  <1>1. CASE Crash
    BY <1>1 DEF Crash, CloseAll, LockInv, Locked
  <1>2. ASSUME NEW t \in Threads, Step(t) PROVE LockInv'
    BY <1>2, StepLockInv
  <1>3. CASE UNCHANGED vars
    BY <1>3 DEF vars, fsVars, LockInv
  <1>4. QED
    BY <1>1, <1>2, <1>3 DEF Next, Step

\* Whoever is inside the locked part of new_img holds the lock of the inode that it
\* has open, and every lock has its holder there.
THEOREM LocksHeld == Spec => []LockInv
  <1>1. QED
    BY InitLockInv, NextLockInv, TypeCorrect, PTL DEF Spec

\* Two threads are never inside the locked part of new_img with the same file.
THEOREM FlockExcludes == Spec => []FlockExclusive
  <1>1. TypeInv /\ LockInv => FlockExclusive
    BY DEF LockInv, FlockExclusive
  <1>2. QED
    BY <1>1, TypeCorrect, LocksHeld, PTL

\* No handler leaves the file of an image open behind its answer, and no lock is
\* left behind by new_img, crashes and failing calls included.  The directory
\* streams that delete_file leaves open are not among these files.
THEOREM FilesGetClosed == Spec => []FilesClosed
  <1>1. TypeInv /\ LockInv => FilesClosed
    BY DEF TypeInv, DescriptorOf, LockInv, FilesClosed, Locked, NewImgLabels, Opened
  <1>2. QED
    BY <1>1, TypeCorrect, LocksHeld, PTL

-----------------------------------------------------------------------------
(* What the file 0*0 may hold *)

\* No two names share an inode, and a thread in new_img writes the file it was
\* asked to write or one that has no name any more.
LinkInv ==
  /\ \A f, g \in Files : Exists(f) /\ entry[f] = entry[g] => f = g
  /\ \A t \in Threads, f \in Files :
       pc[t] \in HasFile /\ Exists(f) /\ entry[f] = fd[t] => f = Target(t)

LEMMA InitLinkInv == Init => LinkInv /\ OriginalNeverConverted
  BY DEF Init, FsInit, LinkInv, OriginalNeverConverted, Exists, HasFile, Files, Names

\* A thread gets into new_img's use of a file by opening it, and stays with it.
LEMMA EntersByOpen ==
  ASSUME TypeInv, NEW t \in Threads, Step(t), pc'[t] \in HasFile
  PROVE  /\ Target(t)' = Target(t)
         /\ \/ pc[t] = "open" /\ OpenTrunc(t, Target(t))
            \/ pc[t] \in HasFile /\ fd'[t] = fd[t]
  <1>1. LocalTypeOK /\ FsTypeOK
    BY DEF TypeInv, TypeOK, LocalTypeOK
  <1> USE DEF LocalTypeOK, HasFile
  <1>2. CASE NewImg(t)
    <2>1. Target(t)' = Target(t)
      BY <1>2 DEF NewImg, NewImgOpen, NewImgFlock, NewImgWrite, NewImgWritten,
                  NewImgUnlock, NewImgClose, Target
    <2>2. \/ pc[t] = "open" /\ OpenTrunc(t, Target(t))
          \/ pc[t] \in HasFile /\ fd'[t] = fd[t]
      BY <1>1, <1>2
      DEF NewImg, NewImgOpen, NewImgFlock, NewImgWrite, NewImgWritten, NewImgUnlock,
          NewImgClose, AfterNewImg, Flock, WriteSome, WriteRest, Funlock, fsVars
    <2>3. QED
      BY <2>1, <2>2
  <1>3. CASE ~NewImg(t)
    BY <1>3, OnlyNewImg
  <1>4. QED
    BY <1>2, <1>3

LEMMA StepLinkInv ==
  ASSUME TypeInv, LinkInv, NEW t \in Threads, Step(t)
  PROVE  LinkInv'
  <1>1. FsTypeOK /\ LocalTypeOK /\ FsCall(t) /\ Target(t) \in Files
    BY OneCall DEF TypeInv, TypeOK, LocalTypeOK, Target, Files
  <1>2. \A s \in Threads \ {t} : /\ pc'[s] = pc[s] /\ fd'[s] = fd[s]
                                 /\ Target(s)' = Target(s)
    BY OthersKeepFd, OthersKeepTheirs DEF Target
  <1>3. pc'[t] \in HasFile =>
          /\ Target(t)' = Target(t)
          /\ \/ pc[t] = "open" /\ OpenTrunc(t, Target(t))
             \/ pc[t] \in HasFile /\ fd'[t] = fd[t]
    BY EntersByOpen
  <1>4. \A s \in Threads : pc[s] \in HasFile => fd[s] \in Inodes
    BY DEF TypeInv, DescriptorOf, HasFile, Opened
  <1>5. CASE entry' = entry
    <2>1. \A s \in Threads, f \in Files :
            pc'[s] \in HasFile /\ Exists(f)' /\ entry'[f] = fd'[s] => f = Target(s)'
      <3>1. CASE pc[t] = "open" /\ OpenTrunc(t, Target(t))
        <4>1. Exists(Target(t)) /\ fd' = [fd EXCEPT ![t] = entry[Target(t)]]
          BY <1>1, <1>5, <3>1, OpenTruncFd, NoInodeIsNone DEF OpenTrunc, Exists
        <4>2. QED
          BY <1>1, <1>2, <1>3, <1>5, <4>1 DEF LinkInv, Exists, FsTypeOK
      <3>2. CASE ~(pc[t] = "open" /\ OpenTrunc(t, Target(t)))
        BY <1>2, <1>3, <1>5, <3>2 DEF LinkInv, Exists
      <3>3. QED
        BY <3>1, <3>2
    <2>2. QED
      BY <1>5, <2>1 DEF LinkInv, Exists
  <1>6. CASE entry' # entry
    <2>1. CASE OpenTrunc(t, Target(t)) /\ pc[t] = "open"
      <3> DEFINE i == CHOOSE j \in Inodes : Unused(j)
      <3>1. /\ entry' = [entry EXCEPT ![Target(t)] = i]
            /\ fd' = [fd EXCEPT ![t] = i]
            /\ i \in Inodes /\ Unused(i)
        BY <1>6, <2>1, FreshInode DEF OpenTrunc
      <3> HIDE DEF i
      <3>2. ASSUME NEW f \in Files, NEW g \in Files, Exists(f)', entry'[f] = entry'[g]
            PROVE  f = g
        BY <1>1, <3>1, <3>2 DEF LinkInv, Exists, Unused, FsTypeOK
      <3>3. ASSUME NEW s \in Threads, NEW f \in Files,
                   pc'[s] \in HasFile, Exists(f)', entry'[f] = fd'[s]
            PROVE  f = Target(s)'
        <4>1. CASE s = t
          BY <1>1, <1>3, <3>1, <3>3, <4>1 DEF Unused, FsTypeOK
        <4>2. CASE s # t
          BY <1>1, <1>2, <3>1, <3>3, <4>2 DEF LinkInv, Exists, Unused, FsTypeOK
        <4>3. QED
          BY <4>1, <4>2
      <3>4. QED
        BY <3>2, <3>3 DEF LinkInv
    <2>2. CASE Remove(Target(t)) /\ pc[t] = "remove"
      <3>1. entry' = [entry EXCEPT ![Target(t)] = NoInode] /\ fd' = fd
        BY <2>2 DEF Remove
      <3>2. pc'[t] \notin HasFile
        BY <1>3, <2>2 DEF HasFile
      <3>3. QED
        BY <1>1, <1>2, <3>1, <3>2 DEF LinkInv, Exists, FsTypeOK
    <2>3. QED
      BY <1>1, <1>6, <2>1, <2>2
      DEF FsCall, fsVars, Mkdir, Flock, WriteSome, WriteRest, Funlock, Close,
          OpenRead, Opendir, Rmdir
  <1>7. QED
    BY <1>5, <1>6

\* The contents that OriginalNeverConverted allows.
Plain == {"empty", "part", "orig"}

LEMMA StepOriginal ==
  ASSUME TypeInv, LinkInv, OriginalNeverConverted, NEW t \in Threads, Step(t)
  PROVE  OriginalNeverConverted'
  <1> SUFFICES ASSUME KeepsOriginals, NEW k \in Keys, Exists(<<k, "orig">>)'
               PROVE  content'[entry'[<<k, "orig">>]] \in Plain
    BY DEF OriginalNeverConverted, Plain
  <1> DEFINE f == <<k, "orig">>
  <1>1. /\ FsTypeOK /\ LocalTypeOK /\ FsCall(t) /\ Target(t) \in Files /\ f \in Files
        /\ FsTypeOK'
    BY OneCall, StepFsType DEF TypeInv, TypeOK, LocalTypeOK, Target, Files, Names
  <1>2. Exists(f) => content[entry[f]] \in Plain
    BY DEF OriginalNeverConverted, Plain
  <1>3. Exists(f) => entry[f] \in Inodes
    BY <1>1 DEF FsTypeOK, Exists
  <1> HIDE DEF f
  <1>4. CASE OpenTrunc(t, Target(t))
    <2>1. CASE Exists(Target(t))
      BY <1>1, <1>2, <1>3, <1>4, <2>1 DEF OpenTrunc, FsTypeOK, Exists, Plain, f
    <2>2. CASE ~Exists(Target(t))
      <3> DEFINE i == CHOOSE j \in Inodes : Unused(j)
      <3>1. /\ entry' = [entry EXCEPT ![Target(t)] = i]
            /\ content' = [content EXCEPT ![i] = "empty"]
            /\ i \in Inodes
        BY <1>4, <2>2, FreshInode DEF OpenTrunc
      <3> HIDE DEF i
      <3>2. QED
        BY <1>1, <1>2, <1>3, <3>1 DEF FsTypeOK, Exists, Plain, f
    <2>3. QED
      BY <2>1, <2>2
  <1>5. CASE pc[t] \in {"write", "writing"} /\ (WriteSome(t, buf[t]) \/ WriteRest(t, buf[t]))
    <2>1. Exists(f) /\ entry' = entry /\ fd[t] \in Inodes
      BY <1>5 DEF WriteSome, WriteRest, Exists, TypeInv, DescriptorOf, Opened, f
    <2>2. CASE entry[f] = fd[t]
      <3>1. Target(t) = f
        BY <1>1, <1>5, <2>1, <2>2 DEF LinkInv, HasFile
      <3>2. buf[t] = "orig"
        BY <1>5, <3>1 DEF TypeInv, RequestOf, NewImgLabels, Target, f
      <3>3. content[fd[t]] \in Plain
        BY <1>2, <2>1, <2>2
      <3>4. content'[fd[t]] \in Plain
        <4>1. CASE WriteSome(t, buf[t])
          BY <1>1, <2>1, <3>2, <3>3, <4>1 DEF WriteSome, FsTypeOK, Plain
        <4>2. CASE WriteRest(t, buf[t])
          BY <1>1, <2>1, <3>2, <3>3, <4>2 DEF WriteRest, FsTypeOK, Plain
        <4>3. QED
          BY <1>5, <4>1, <4>2
      <3>5. QED
        BY <2>1, <2>2, <3>4 DEF f
    <2>3. CASE entry[f] # fd[t]
      <3>1. content'[entry[f]] = content[entry[f]]
        BY <1>1, <1>3, <1>5, <2>1, <2>3 DEF WriteSome, WriteRest, FsTypeOK
      <3>2. QED
        BY <1>2, <2>1, <3>1 DEF f
    <2>4. QED
      BY <2>2, <2>3
  <1>6. CASE Close(t) \/ Remove(Target(t))
    <2>1. Exists(f) /\ entry'[f] = entry[f]
      BY <1>1, <1>6 DEF Close, Remove, Exists, FsTypeOK, f
    <2>2. content'[entry[f]] \in {content[entry[f]], "empty"}
      BY <1>3, <1>6, <2>1 DEF Close, Remove, Reclaim
    <2>3. QED
      BY <1>2, <2>1, <2>2 DEF Plain, f
  <1>7. CASE entry' = entry /\ content' = content
    BY <1>2, <1>7 DEF Exists, f
  <1>8. QED
    BY <1>1, <1>4, <1>5, <1>6, <1>7
    DEF FsCall, fsVars, Mkdir, Flock, Funlock, OpenRead, Opendir, Rmdir

LEMMA NextLinkInv ==
  TypeInv /\ LinkInv /\ OriginalNeverConverted /\ [Next]_vars
    => LinkInv' /\ OriginalNeverConverted'
  <1> SUFFICES ASSUME TypeInv, LinkInv, OriginalNeverConverted, [Next]_vars
               PROVE  LinkInv' /\ OriginalNeverConverted'
    OBVIOUS
  <1>1. CASE Crash
    <2>1. entry' = entry /\ Reclaim /\ \A t \in Threads : pc'[t] = "idle"
      BY <1>1 DEF Crash, CloseAll
    <2>2. LinkInv'
      BY <2>1 DEF LinkInv, Exists, HasFile
    <2>3. ASSUME KeepsOriginals, NEW k \in Keys, Exists(<<k, "orig">>)'
          PROVE  content'[entry'[<<k, "orig">>]] \in {"empty", "part", "orig"}
      <3>1. entry[<<k, "orig">>] \in Inodes
        BY <2>1, <2>3 DEF TypeInv, TypeOK, FsTypeOK, Exists, Files, Names
      <3>2. content[entry[<<k, "orig">>]] \in {"empty", "part", "orig"}
        BY <2>1, <2>3 DEF OriginalNeverConverted, Exists
      <3>3. QED
        BY <2>1, <3>1, <3>2 DEF Reclaim
    <2>4. QED
      BY <2>2, <2>3 DEF OriginalNeverConverted
  <1>2. ASSUME NEW t \in Threads, Step(t)
        PROVE  LinkInv' /\ OriginalNeverConverted'
    BY <1>2, StepLinkInv, StepOriginal
  <1>3. CASE UNCHANGED vars
    BY <1>3 DEF vars, fsVars, LinkInv, OriginalNeverConverted, Exists, Target
  <1>4. QED
    BY <1>1, <1>2, <1>3 DEF Next, Step

\* Under settings that keep originals (save_new = 0, or 2 with the script on) the
\* file of an original never holds a conversion: the only thread that writes to
\* 0*0 is one in save_img, with the uploaded bytes.
THEOREM OriginalsStay == Spec => []OriginalNeverConverted
  <1>1. Spec => [](LinkInv /\ OriginalNeverConverted)
    BY InitLinkInv, NextLinkInv, TypeCorrect, PTL DEF Spec
  <1>2. QED
    BY <1>1, PTL
-----------------------------------------------------------------------------
(* What new_img has written *)

\* No two workers receive requests of kind o.  new_img empties the file before
\* it asks for the lock, so that what follows holds for such writers only; the
\* run disk_upload_race shows two uploaders that break it.
Alone(o) == \A s, t \in Threads : o \in Role[s] /\ o \in Role[t] => s = t

\* How far the bytes of a thread in new_img have come.
Arrived(t) ==
  /\ pc[t] \in {"flock", "write"} => content[fd[t]] = "empty"
  /\ pc[t] = "writing" => content[fd[t]] \in {"part", buf[t]}
  /\ pc[t] = "unlock" \/ (pc[t] = "close" /\ ret[t] = "ok") => content[fd[t]] = buf[t]

\* A worker serves the kind of request it receives, and one that is the only
\* one of its kind shares the file it writes with nobody.
ServesRole == \A t \in Threads : pc[t] # "idle" => op[t] \in Role[t]
OneHolder ==
  \A s, t \in Threads :
    pc[s] \in HasFile /\ pc[t] \in HasFile /\ fd[s] = fd[t] /\ Alone(op[t]) => s = t

\* An uploader opens a file that is not there yet, and new_img fails only when
\* a call has failed.
OpensNew(t) == op[t] = "upload" /\ pc[t] = "open" => ~Exists(Original(t))
NewImgSucceeds(t) == faults = 0 /\ pc[t] = "close" => ret[t] = "ok"

WriterInv ==
  /\ ServesRole
  /\ OneHolder
  /\ \A t \in Threads : Alone(op[t]) => Arrived(t) /\ OpensNew(t) /\ NewImgSucceeds(t)

LEMMA InitWriterInv == Init => WriterInv
  BY DEF Init, WriterInv, ServesRole, OneHolder, Arrived, OpensNew, NewImgSucceeds,
         HasFile

\* Between its arrival and its answer the request of a thread stays the same.
LEMMA KeepsRequest ==
  ASSUME TypeInv, NEW t \in Threads, Step(t), ~Start(t), ~Reply(t)
  PROVE  /\ pc[t] # "idle" /\ pc'[t] # "idle"
         /\ op' = op /\ key' = key
  <1>1. LocalTypeOK
    BY DEF TypeInv, TypeOK, LocalTypeOK
  <1> USE DEF LocalTypeOK
  <1>2. CASE SaveImg(t)
    BY <1>1, <1>2 DEF SaveImg, UploadIsDir, Access, NextLevel, MkdirStep,
                      UploadIsFile, UploadCache
  <1>3. CASE NewImg(t)
    BY <1>1, <1>3 DEF NewImg, NewImgOpen, NewImgFlock, NewImgWrite, NewImgWritten,
                      NewImgUnlock, NewImgClose, AfterNewImg
  <1>4. CASE GetImg(t)
    BY <1>1, <1>4 DEF GetImg, GetIsDir, GetFindCache, GetOpen, GetFstat, GetRead,
                      GetFindOriginal, GetDelCache, GetReadOriginal,
                      GetSetOriginal, GetConvert, GetSetCache, Finish
  <1>5. CASE AdminImg(t)
    BY <1>1, <1>5 DEF AdminImg, AdminIsDir, DeleteOpendir, DeleteNext,
                      DeleteRemove, DeleteRmdir
  <1>6. CASE InfoImg(t)
    BY <1>1, <1>6 DEF InfoImg, InfoIsDir, InfoRead
  <1>7. QED
    BY <1>2, <1>3, <1>4, <1>5, <1>6 DEF Step, Work

LEMMA StepServesRole ==
  ASSUME TypeInv, ServesRole, NEW t \in Threads, Step(t)
  PROVE  ServesRole'
  <1>1. \A s \in Threads \ {t} : pc'[s] = pc[s] /\ op'[s] = op[s]
    BY OthersKeepTheirs
  <1>2. pc'[t] # "idle" => op'[t] \in Role[t]
    <2>1. CASE Start(t)
      BY <2>1 DEF TypeInv, TypeOK, Start
    <2>2. CASE Reply(t)
      BY <2>2 DEF TypeInv, TypeOK, Reply
    <2>3. CASE ~Start(t) /\ ~Reply(t)
      BY <2>3, KeepsRequest DEF ServesRole
    <2>4. QED
      BY <2>1, <2>2, <2>3
  <1>3. QED
    BY <1>1, <1>2 DEF ServesRole

\* Two threads in new_img at the same name are there for the same kind of
\* request: 0*0 is written by uploads, the other names by gets.
LEMMA SameFileSameKind ==
  ASSUME TypeInv, ServesRole, KeepsOriginals, NEW s \in Threads, NEW t \in Threads,
         pc[s] \in NewImgLabels, pc[t] \in NewImgLabels, Target(s) = Target(t),
         Alone(op[t])
  PROVE  s = t
  <1>1. name[s] = name[t]
    BY DEF Target
  <1>2. op[s] = op[t]
    BY <1>1, VariantsAssumption DEF TypeInv, RequestOf
  <1>3. op[s] \in Role[s] /\ op[t] \in Role[t]
    BY DEF ServesRole, NewImgLabels
  <1>4. QED
    BY <1>2, <1>3 DEF Alone

\* The inode that open gives belongs to a thread that has it open already only
\* if that thread opened the same name.
LEMMA OpenShares ==
  ASSUME TypeInv, LinkInv, NEW s \in Threads, NEW t \in Threads,
         pc[s] \in HasFile, OpenTrunc(t, Target(t)), fd'[t] = fd[s]
  PROVE  Target(t) = Target(s)
  <1>1. FsTypeOK /\ Target(t) \in Files /\ fd[s] \in Inodes
    BY DEF TypeInv, TypeOK, Target, Files, DescriptorOf, HasFile, Opened
  <1>2. CASE Exists(Target(t))
    BY <1>1, <1>2 DEF OpenTrunc, LinkInv, FsTypeOK, Exists
  <1>3. CASE ~Exists(Target(t))
    <2> DEFINE i == CHOOSE j \in Inodes : Unused(j)
    <2>1. fd' = [fd EXCEPT ![t] = i] /\ Unused(i)
      BY <1>3, FreshInode DEF OpenTrunc
    <2>2. fd[s] # i
      BY <2>1 DEF Unused
    <2> HIDE DEF i
    <2>3. QED
      BY <1>1, <2>1, <2>2 DEF FsTypeOK
  <1>4. QED
    BY <1>2, <1>3

LEMMA StepOneHolder ==
  ASSUME TypeInv, LinkInv, WriterInv, KeepsOriginals, NEW t \in Threads, Step(t)
  PROVE  OneHolder'
  <1>1. \A s \in Threads \ {t} : /\ pc'[s] = pc[s] /\ fd'[s] = fd[s]
                                 /\ op'[s] = op[s]
    BY OthersKeepFd, OthersKeepTheirs
  <1>2. pc'[t] \in HasFile =>
          /\ op'[t] = op[t] /\ pc[t] \in NewImgLabels
          /\ \/ pc[t] = "open" /\ OpenTrunc(t, Target(t))
             \/ pc[t] \in HasFile /\ fd'[t] = fd[t]
    <2>1. pc'[t] \in HasFile => ~Start(t) /\ ~Reply(t)
      BY FirstLabelIs DEF TypeInv, TypeOK, Start, Reply, HasFile
    <2>2. QED
      BY <2>1, EntersByOpen, KeepsRequest DEF HasFile, NewImgLabels
  <1>3. ASSUME NEW s \in Threads \ {t}, pc[s] \in HasFile, pc'[t] \in HasFile,
               fd'[t] = fd[s], Alone(op[s]) \/ Alone(op[t])
        PROVE  FALSE
    <2>1. CASE pc[t] \in HasFile /\ fd'[t] = fd[t]
      BY <1>3, <2>1 DEF WriterInv, OneHolder
    <2>2. CASE pc[t] = "open" /\ OpenTrunc(t, Target(t))
      <3>1. Target(t) = Target(s)
        BY <1>3, <2>2, OpenShares
      <3>2. pc[t] \in NewImgLabels /\ pc[s] \in NewImgLabels
        BY <1>3, <2>2 DEF HasFile, NewImgLabels
      <3>3. QED
        BY <1>3, <3>1, <3>2, SameFileSameKind DEF WriterInv
    <2>3. QED
      BY <1>2, <1>3, <2>1, <2>2
  <1>4. SUFFICES ASSUME NEW r \in Threads, NEW s \in Threads, r # s,
                        pc'[r] \in HasFile, pc'[s] \in HasFile, fd'[r] = fd'[s],
                        Alone(op'[s])
                 PROVE  FALSE
    BY DEF OneHolder, Alone
  <1>5. CASE r = t
    BY <1>1, <1>3, <1>4, <1>5
  <1>6. CASE s = t
    BY <1>1, <1>2, <1>3, <1>4, <1>6
  <1>7. CASE r # t /\ s # t
    BY <1>1, <1>4, <1>7 DEF WriterInv, OneHolder
  <1>8. QED
    BY <1>5, <1>6, <1>7

\* The bytes of a file that a thread has to itself are changed by nobody else.
LEMMA OthersKeepBytes ==
  ASSUME TypeInv, LinkInv, WriterInv, KeepsOriginals, NEW t \in Threads, Step(t),
         NEW s \in Threads \ {t}, pc[s] \in HasFile, Alone(op[s])
  PROVE  content'[fd[s]] = content[fd[s]]
  <1>1. /\ FsTypeOK /\ FsCall(t) /\ Target(t) \in Files /\ fd[s] \in Inodes
        /\ fd'[s] = fd[s]
    BY OneCall, OthersKeepFd DEF TypeInv, TypeOK, Target, Files, DescriptorOf, HasFile, Opened
  <1>2. pc[t] \in HasFile => fd[t] # fd[s]
    BY DEF WriterInv, OneHolder
  <1>3. CASE pc[t] = "open" /\ OpenTrunc(t, Target(t))
    <2>1. Target(t) # Target(s)
      BY <1>3, SameFileSameKind DEF WriterInv, NewImgLabels, HasFile
    <2>2. fd'[t] # fd[s]
      BY <1>3, <2>1, OpenShares
    <2>3. content' = [content EXCEPT ![fd'[t]] = "empty"]
      BY <1>1, <1>3 DEF OpenTrunc, FsTypeOK
    <2>4. QED
      BY <1>1, <2>2, <2>3 DEF FsTypeOK
  <1>4. CASE pc[t] \in {"write", "writing"} /\ (WriteSome(t, buf[t]) \/ WriteRest(t, buf[t]))
    BY <1>1, <1>2, <1>4 DEF WriteSome, WriteRest, FsTypeOK, HasFile
  <1>5. CASE Close(t) \/ Remove(Target(t))
    BY <1>1, <1>5 DEF Close, Remove, Reclaim
  <1>6. CASE content' = content
    BY <1>6
  <1>7. QED
    BY <1>1, <1>3, <1>4, <1>5, <1>6
    DEF FsCall, fsVars, Mkdir, Flock, Funlock, OpenRead, Opendir, Rmdir

\* A thread goes through new_img in the order of its code.
LEMMA OwnArrived ==
  ASSUME TypeInv, WriterInv, NEW t \in Threads, Step(t), Alone(op'[t])
  PROVE  Arrived(t)'
  <1>1. FsTypeOK /\ LocalTypeOK /\ Target(t) \in Files
    BY DEF TypeInv, TypeOK, LocalTypeOK, Target, Files
  <1>2. pc[t] \in HasFile => fd[t] \in Inodes /\ buf[t] \in Contents
    BY DEF TypeInv, DescriptorOf, RequestOf, NewImgLabels, HasFile, Opened, Contents
  <1> USE DEF Arrived, LocalTypeOK, HasFile
  <1>3. CASE NewImg(t)
    <2>1. op'[t] = op[t] /\ buf' = buf
      BY <1>3 DEF NewImg, NewImgOpen, NewImgFlock, NewImgWrite, NewImgWritten,
                  NewImgUnlock, NewImgClose
    <2>2. Arrived(t)
      BY <2>1 DEF WriterInv
    <2>3. CASE NewImgOpen(t)
      <3>1. CASE OpenTrunc(t, Target(t)) /\ pc'[t] = "flock"
        <4>1. PICK i \in Inodes : fd' = [fd EXCEPT ![t] = i]
          BY <1>1, <3>1, OpenTruncFd
        <4>2. content' = [content EXCEPT ![i] = "empty"]
          BY <1>1, <3>1, <4>1 DEF OpenTrunc, FsTypeOK
        <4>3. QED
          BY <1>1, <3>1, <4>1, <4>2 DEF FsTypeOK
      <3>2. CASE pc'[t] \in {"gset", "ucache", "reply"}
        BY <3>2
      <3>3. QED
        BY <1>1, <2>3, <3>1, <3>2 DEF NewImgOpen, AfterNewImg
    <2>4. CASE NewImgFlock(t)
      BY <1>1, <2>2, <2>4 DEF NewImgFlock, Flock, fsVars
    <2>5. CASE NewImgWrite(t)
      <3>1. CASE WriteSome(t, buf[t]) /\ pc'[t] = "writing"
        <4>1. content[fd[t]] = "empty"
          BY <2>2, <2>5 DEF NewImgWrite
        <4>2. \E b \in {"part", buf[t]} :
                content' = [content EXCEPT ![fd[t]] = b] /\ fd' = fd
          BY <3>1, <4>1 DEF WriteSome
        <4>3. QED
          BY <1>1, <1>2, <2>1, <2>5, <3>1, <4>2 DEF NewImgWrite, FsTypeOK
      <3>2. CASE pc'[t] = "close" /\ ret'[t] = "fail"
        BY <3>2
      <3>3. QED
        BY <1>1, <2>5, <3>1, <3>2 DEF NewImgWrite
    <2>6. CASE NewImgWritten(t)
      <3>1. CASE WriteRest(t, buf[t]) /\ pc'[t] = "unlock"
        BY <1>1, <1>2, <2>1, <2>2, <2>6, <3>1 DEF NewImgWritten, WriteRest, FsTypeOK
      <3>2. CASE pc'[t] = "close" /\ ret'[t] = "fail"
        BY <3>2
      <3>3. QED
        BY <1>1, <2>6, <3>1, <3>2 DEF NewImgWritten
    <2>7. CASE NewImgUnlock(t)
      BY <1>1, <2>1, <2>2, <2>7 DEF NewImgUnlock, Funlock
    <2>8. CASE NewImgClose(t)
      BY <1>1, <2>8 DEF NewImgClose, AfterNewImg
    <2>9. QED
      BY <1>3, <2>3, <2>4, <2>5, <2>6, <2>7, <2>8 DEF NewImg
  <1>4. CASE ~NewImg(t)
    BY <1>4, OnlyNewImg
  <1>5. QED
    BY <1>3, <1>4

\* The only uploader finds its file missing and is the one to make it.
LEMMA OwnOpensNew ==
  ASSUME TypeInv, NEW t \in Threads, Step(t)
  PROVE  OpensNew(t)'
  <1>1. FsTypeOK /\ LocalTypeOK
    BY DEF TypeInv, TypeOK, LocalTypeOK
  <1> USE DEF OpensNew, LocalTypeOK
  <1>2. CASE Start(t) \/ Reply(t)
    BY <1>1, <1>2, FirstLabelIs DEF Start, Reply
  <1>3. CASE SaveImg(t)
    BY <1>1, <1>3 DEF SaveImg, UploadIsDir, Access, NextLevel, MkdirStep, UploadIsFile,
                      UploadCache, fsVars, Original, Exists
  <1>4. CASE NewImg(t)
    BY <1>1, <1>4 DEF NewImg, NewImgOpen, NewImgFlock, NewImgWrite, NewImgWritten,
                      NewImgUnlock, NewImgClose, AfterNewImg
  <1>5. CASE GetImg(t)
    <2>1. op'[t] = op[t] /\ pc[t] \in GetLabels
      BY <1>5 DEF GetImg, GetIsDir, GetFindCache, GetOpen, GetFstat, GetRead,
                  GetFindOriginal, GetDelCache, GetReadOriginal, GetSetOriginal,
                  GetConvert, GetSetCache, GetLabels
    <2>2. QED
      BY <2>1 DEF TypeInv, RequestOf
  <1>6. CASE AdminImg(t) \/ InfoImg(t)
    BY <1>1, <1>6 DEF AdminImg, AdminIsDir, DeleteOpendir, DeleteNext, DeleteRemove,
                      DeleteRmdir, InfoImg, InfoIsDir, InfoRead
  <1>7. QED
    BY <1>2, <1>3, <1>4, <1>5, <1>6 DEF Step, Work

LEMMA OwnNewImgSucceeds ==
  ASSUME TypeInv, LockInv, WriterInv, NEW t \in Threads, Step(t), Alone(op'[t])
  PROVE  NewImgSucceeds(t)'
  <1>1. FsTypeOK /\ LocalTypeOK
    BY DEF TypeInv, TypeOK, LocalTypeOK
  <1>2. SUFFICES ASSUME faults' = 0, pc'[t] = "close" PROVE ret'[t] = "ok"
    BY DEF NewImgSucceeds
  <1>3. NewImg(t)
    BY <1>2, OnlyNewImg DEF HasFile
  <1>4. op' = op
    BY <1>3 DEF NewImg, NewImgOpen, NewImgFlock, NewImgWrite, NewImgWritten,
                NewImgUnlock, NewImgClose
  <1>5. ~Fault
    BY <1>1, <1>2, MaxFaultsAssumption DEF Fault, LocalTypeOK
  <1>6. CASE NewImgFlock(t)
    <2>1. CanFlock(t)
      <3>1. SUFFICES ASSUME lock[fd[t]] # NoThread PROVE FALSE
        BY DEF CanFlock
      <3>2. fd[t] \in Inodes /\ pc[t] = "flock"
        BY <1>6 DEF NewImgFlock, TypeInv, DescriptorOf, Opened
      <3>3. PICK s \in Threads :
              pc[s] \in Locked \union {"close"} /\ fd[s] = fd[t]
        BY <1>1, <3>1, <3>2 DEF LockInv, FsTypeOK
      <3>4. s = t
        BY <1>4, <3>2, <3>3 DEF WriterInv, OneHolder, HasFile, Locked
      <3>5. QED
        BY <3>2, <3>3, <3>4 DEF Locked
    <2>2. QED
      BY <1>1, <1>2, <1>6, <2>1 DEF NewImgFlock, LocalTypeOK
  <1>7. CASE ~NewImgFlock(t)
    BY <1>1, <1>2, <1>3, <1>5, <1>7
    DEF NewImg, NewImgOpen, NewImgWrite, NewImgWritten, NewImgUnlock, NewImgClose,
        AfterNewImg, LocalTypeOK
  <1>8. QED
    BY <1>6, <1>7

\* Nobody else makes the original of the image that the only uploader is about
\* to make.
LEMMA OthersKeepMissing ==
  ASSUME TypeInv, WriterInv, KeepsOriginals, NEW t \in Threads, Step(t),
         NEW s \in Threads \ {t}, Alone("upload"), op[s] = "upload", pc[s] = "open",
         ~Exists(Original(s))
  PROVE  ~Exists(Original(s))'
  <1>1. FsTypeOK /\ FsCall(t) /\ Target(t) \in Files /\ key'[s] = key[s]
    BY OneCall, OthersKeepTheirs DEF TypeInv, TypeOK, Target, Files
  <1>2. CASE pc[t] = "open" /\ OpenTrunc(t, Target(t))
    <2>1. Target(t) # Target(s)
      BY <1>2, SameFileSameKind DEF WriterInv, NewImgLabels
    <2>2. Original(s) = Target(s) /\ Original(s) \in Files
      BY DEF TypeInv, TypeOK, RequestOf, NewImgLabels, Original, Target, Files, Names
    <2>3. entry'[Original(s)] = entry[Original(s)]
      BY <1>1, <1>2, <2>1, <2>2 DEF OpenTrunc, FsTypeOK
    <2>4. QED
      BY <1>1, <2>3 DEF Exists, Original
  <1>3. CASE Remove(Target(t))
    BY <1>1, <1>3 DEF Remove, Exists, Original, FsTypeOK, Files, Names, TypeInv, TypeOK
  <1>4. CASE entry' = entry
    BY <1>1, <1>4 DEF Exists, Original
  <1>5. QED
    BY <1>1, <1>2, <1>3, <1>4
    DEF FsCall, fsVars, Mkdir, Flock, WriteSome, WriteRest, Funlock, Close, OpenRead,
        Opendir, Rmdir

LEMMA StepFaults ==
  ASSUME TypeInv, NEW t \in Threads, Step(t), faults' = 0
  PROVE  faults = 0
  <1>1. LocalTypeOK
    BY DEF TypeInv, TypeOK, LocalTypeOK
  <1>2. ~Fault
    BY <1>1, MaxFaultsAssumption DEF Fault, LocalTypeOK
  <1>3. CASE Start(t) \/ Reply(t) \/ SaveImg(t)
    BY <1>2, <1>3 DEF Start, Reply, SaveImg, UploadIsDir, Access, MkdirStep,
                      UploadIsFile, UploadCache, NoFault
  <1>4. CASE NewImg(t)
    BY <1>2, <1>4 DEF NewImg, NewImgOpen, NewImgFlock, NewImgWrite, NewImgWritten,
                      NewImgUnlock, NewImgClose, NoFault
  <1>5. CASE GetImg(t)
    BY <1>2, <1>5 DEF GetImg, GetIsDir, GetFindCache, GetOpen, GetFstat, GetRead,
                      GetFindOriginal, GetDelCache, GetReadOriginal, GetSetOriginal,
                      GetConvert, GetSetCache, Finish, NoFault
  <1>6. CASE AdminImg(t) \/ InfoImg(t)
    BY <1>2, <1>6 DEF AdminImg, AdminIsDir, DeleteOpendir, DeleteNext, DeleteRemove,
                      DeleteRmdir, InfoImg, InfoIsDir, InfoRead, NoFault
  <1>7. QED
    BY <1>3, <1>4, <1>5, <1>6, <1>2 DEF Step, Work

LEMMA StepWriterInv ==
  ASSUME TypeInv, LockInv, LinkInv, WriterInv, KeepsOriginals, NEW t \in Threads, Step(t)
  PROVE  WriterInv'
  <1>1. \A s \in Threads \ {t} : /\ pc'[s] = pc[s] /\ fd'[s] = fd[s]
                                 /\ op'[s] = op[s] /\ buf'[s] = buf[s]
                                 /\ ret'[s] = ret[s]
    BY OthersKeepFd, OthersKeepTheirs
  <1>2. ASSUME NEW s \in Threads, Alone(op'[s])
        PROVE  Arrived(s)' /\ OpensNew(s)' /\ NewImgSucceeds(s)'
    <2>1. CASE s = t
      BY <1>2, <2>1, OwnArrived, OwnOpensNew, OwnNewImgSucceeds
    <2>2. CASE s # t
      <3>1. Alone(op[s]) /\ Arrived(s) /\ OpensNew(s) /\ NewImgSucceeds(s)
        BY <1>1, <1>2, <2>2 DEF WriterInv
      <3>2. pc[s] \in HasFile => content'[fd[s]] = content[fd[s]]
        BY <2>2, <3>1, OthersKeepBytes
      <3>3. Arrived(s)'
        BY <1>1, <2>2, <3>1, <3>2 DEF Arrived, HasFile
      <3>4. OpensNew(s)'
        BY <1>1, <2>2, <3>1, OthersKeepMissing DEF OpensNew
      <3>5. NewImgSucceeds(s)'
        BY <1>1, <2>2, <3>1, StepFaults DEF NewImgSucceeds
      <3>6. QED
        BY <3>3, <3>4, <3>5
    <2>3. QED
      BY <2>1, <2>2
  <1>3. ServesRole' /\ OneHolder'
    BY StepServesRole, StepOneHolder DEF WriterInv
  <1>4. QED
    BY <1>2, <1>3 DEF WriterInv, Alone

LEMMA NextWriterInv ==
  ASSUME TypeInv, LockInv, LinkInv, WriterInv, KeepsOriginals, [Next]_vars
  PROVE  WriterInv'
  <1>1. CASE Crash
    BY <1>1 DEF Crash, WriterInv, ServesRole, OneHolder, Arrived, OpensNew,
                NewImgSucceeds, HasFile
  <1>2. ASSUME NEW t \in Threads, Step(t) PROVE WriterInv'
    BY <1>2, StepWriterInv
  <1>3. CASE UNCHANGED vars
    BY <1>3 DEF vars, fsVars, WriterInv, ServesRole, OneHolder, Arrived, OpensNew,
                NewImgSucceeds, Exists, Original, Alone
  <1>4. QED
    BY <1>1, <1>2, <1>3 DEF Next, Step

\* Under settings that keep originals, the threads inside new_img keep to their
\* own files: what one has written is in the inode that it has open.
THEOREM WritersAlone ==
  ASSUME KeepsOriginals
  PROVE  Spec => [](LinkInv /\ WriterInv)
  <1>1. TypeInv /\ LockInv /\ LinkInv /\ WriterInv /\ [Next]_vars => WriterInv'
    BY NextWriterInv
  <1>2. QED
    BY <1>1, InitLinkInv, NextLinkInv, InitWriterInv, TypeCorrect, LocksHeld, PTL DEF Spec

\* Where one worker receives the uploads and one the gets, new_img returns
\* success only when every byte is in its file, whatever fails and whoever
\* deletes the file meanwhile: its bytes are still in the inode that it has open.
THEOREM NewImgWrites ==
  ASSUME KeepsOriginals, Alone("upload"), Alone("get")
  PROVE  Spec => []NewImgWrote
  <1>1. TypeInv /\ WriterInv => NewImgWrote
    <2> SUFFICES ASSUME TypeInv, WriterInv, NEW t \in Threads,
                        pc[t] = "close", ret[t] = "ok"
                 PROVE  content[fd[t]] = buf[t]
      BY DEF NewImgWrote
    <2>1. op[t] \in {"upload", "get"}
      BY DEF TypeInv, RequestOf, NewImgLabels
    <2>2. QED
      BY <2>1 DEF WriterInv, Arrived
  <1>2. QED
    BY <1>1, TypeCorrect, WritersAlone, PTL

-----------------------------------------------------------------------------
(* What happens to an original *)

\* The inode of a complete original keeps its bytes, and its name, in every step
\* but the one that removes the name.
LEMMA CompleteStays ==
  ASSUME TypeInv, LinkInv, WriterInv, KeepsOriginals, Alone("upload"),
         NEW t \in Threads, Step(t), NEW k \in Keys, Complete(k),
         ~(pc[t] = "remove" /\ Target(t) = <<k, "orig">>)
  PROVE  Complete(k)'
  <1> DEFINE f == <<k, "orig">>
  <1>1. /\ FsTypeOK /\ FsCall(t) /\ Target(t) \in Files /\ f \in Files
        /\ Exists(f) /\ entry[f] \in Inodes /\ content[entry[f]] = "orig"
    BY OneCall
    DEF TypeInv, TypeOK, Target, Files, Names, Complete, FsTypeOK, Exists
  <1>2. SUFFICES entry'[f] = entry[f] /\ content'[entry[f]] = "orig"
    BY <1>1 DEF Complete, Exists
  <1> HIDE DEF f
  <1>3. CASE pc[t] = "open" /\ OpenTrunc(t, Target(t))
    <2>1. Target(t) # f
      <3>1. SUFFICES ASSUME Target(t) = f PROVE FALSE
        OBVIOUS
      <3>2. name[t] = "orig" /\ Original(t) = f
        BY <3>1 DEF Target, Original, f
      <3>3. op[t] = "upload"
        BY <1>3, <3>2 DEF TypeInv, RequestOf, NewImgLabels
      <3>4. ~Exists(f)
        BY <1>3, <3>2, <3>3 DEF WriterInv, OpensNew
      <3>5. QED
        BY <1>1, <3>4
    <2>2. CASE Exists(Target(t))
      BY <1>1, <1>3, <2>1, <2>2 DEF OpenTrunc, FsTypeOK, LinkInv, Exists
    <2>3. CASE ~Exists(Target(t))
      <3> DEFINE i == CHOOSE j \in Inodes : Unused(j)
      <3>1. /\ entry' = [entry EXCEPT ![Target(t)] = i]
            /\ content' = [content EXCEPT ![i] = "empty"]
            /\ Unused(i)
        BY <1>3, <2>3, FreshInode DEF OpenTrunc
      <3>2. entry[f] # i
        BY <1>1, <3>1 DEF Unused
      <3> HIDE DEF i
      <3>3. QED
        BY <1>1, <2>1, <3>1, <3>2 DEF FsTypeOK
    <2>4. QED
      BY <2>2, <2>3
  <1>4. CASE pc[t] \in {"write", "writing"} /\ (WriteSome(t, buf[t]) \/ WriteRest(t, buf[t]))
    <2>1. entry' = entry /\ fd[t] \in Inodes
      BY <1>4 DEF WriteSome, WriteRest, TypeInv, DescriptorOf, Opened
    <2>2. CASE entry[f] = fd[t]
      <3>1. Target(t) = f
        BY <1>1, <1>4, <2>2 DEF LinkInv, HasFile
      <3>2. buf[t] = "orig"
        BY <1>4, <3>1 DEF TypeInv, RequestOf, NewImgLabels, Target, f
      <3>3. content' = [content EXCEPT ![fd[t]] = "orig"]
        BY <1>1, <1>4, <2>2, <3>2 DEF WriteSome, WriteRest
      <3>4. QED
        BY <1>1, <2>1, <2>2, <3>3 DEF FsTypeOK
    <2>3. CASE entry[f] # fd[t]
      BY <1>1, <1>4, <2>1, <2>3 DEF WriteSome, WriteRest, FsTypeOK
    <2>4. QED
      BY <2>2, <2>3
  <1>5. CASE pc[t] = "remove" /\ Remove(Target(t))
    <2>1. entry'[f] = entry[f]
      BY <1>1, <1>5 DEF Remove, FsTypeOK, f
    <2>2. QED
      BY <1>1, <1>5, <2>1 DEF Remove, Reclaim
  <1>6. CASE Close(t)
    BY <1>1, <1>6 DEF Close, Reclaim
  <1>7. CASE entry' = entry /\ content' = content
    BY <1>1, <1>7
  <1>8. QED
    BY <1>1, <1>3, <1>4, <1>5, <1>6, <1>7
    DEF FsCall, fsVars, Mkdir, Flock, Funlock, OpenRead, Opendir, Rmdir

LEMMA CompleteSurvivesCrash ==
  ASSUME TypeInv, Crash, NEW k \in Keys, Complete(k)
  PROVE  Complete(k)'
  BY DEF Crash, CloseAll, Reclaim, Complete, Exists, TypeInv, TypeOK, FsTypeOK, Files,
         Names

\* Where one worker receives the uploads, and the settings keep originals, an
\* original that is complete stays so until a delete removes it: no upload of
\* it again, no conversion, no failed call and no restart touches its bytes.
THEOREM OriginalsSurvive ==
  ASSUME KeepsOriginals, Alone("upload")
  PROVE  Spec => StoredUntilDeleted
  <1> DEFINE Lost == \A k \in Keys : Complete(k) /\ ~Complete(k)' =>
                       \E t \in Threads : pc[t] = "remove" /\ key[t] = k
  <1>1. TypeInv /\ LinkInv /\ WriterInv /\ [Next]_vars => [Lost]_vars
    <2> SUFFICES ASSUME TypeInv, LinkInv, WriterInv, Next, NEW k \in Keys,
                        Complete(k), ~Complete(k)'
                 PROVE  \E t \in Threads : pc[t] = "remove" /\ key[t] = k
      OBVIOUS
    <2>1. PICK t \in Threads : Step(t)
      BY CompleteSurvivesCrash DEF Next, Step
    <2>2. pc[t] = "remove" /\ Target(t) = <<k, "orig">>
      BY <2>1, CompleteStays
    <2>3. QED
      BY <2>2 DEF Target
  <1>2. QED
    BY <1>1, TypeCorrect, WritersAlone, PTL DEF Spec, StoredUntilDeleted

LEMMA RemoveRemoves ==
  ASSUME TypeInv, NEW t \in Threads, Step(t), pc[t] = "remove"
  PROVE  Remove(Target(t)) \/ UNCHANGED fsVars
  <1>1. CASE Start(t) \/ Reply(t) \/ SaveImg(t) \/ NewImg(t)
    BY <1>1 DEF Start, Reply, SaveImg, UploadIsDir, Access, MkdirStep, UploadIsFile,
                UploadCache, NewImg, NewImgOpen, NewImgFlock, NewImgWrite,
                NewImgWritten, NewImgUnlock, NewImgClose
  <1>2. CASE GetImg(t) \/ InfoImg(t)
    BY <1>2 DEF GetImg, GetIsDir, GetFindCache, GetOpen, GetFstat, GetRead,
                GetFindOriginal, GetDelCache, GetReadOriginal, GetSetOriginal,
                GetConvert, GetSetCache, InfoImg, InfoIsDir, InfoRead
  <1>3. CASE AdminImg(t)
    BY <1>3 DEF AdminImg, AdminIsDir, DeleteOpendir, DeleteNext, DeleteRemove,
                DeleteRmdir
  <1>4. QED
    BY <1>1, <1>2, <1>3 DEF Step, Work

\* Until a call fails, an original that is not complete has a thread in new_img
\* that is at work on it, if one worker receives the uploads.
LEMMA StepHasWriter ==
  ASSUME TypeInv, LinkInv, WriterInv, KeepsOriginals, Alone("upload"),
         IncompleteHasWriter, NEW t \in Threads, Step(t)
  PROVE  IncompleteHasWriter'
  <1>1. SUFFICES ASSUME faults' = 0, NEW k \in Keys, Exists(<<k, "orig">>)', ~Complete(k)'
                 PROVE  \E w \in Threads :
                          pc'[w] \in HasFile /\ fd'[w] = entry'[<<k, "orig">>]
    BY DEF IncompleteHasWriter, HasFile, NewImgLabels
  <1> DEFINE f == <<k, "orig">>
  <1>2. FsTypeOK /\ LocalTypeOK /\ FsCall(t) /\ Target(t) \in Files /\ f \in Files
    BY OneCall DEF TypeInv, TypeOK, LocalTypeOK, Target, Files, Names
  <1>3. faults = 0
    BY <1>1, StepFaults
  <1>4. CASE Exists(f)
    <2>1. ~(pc[t] = "remove" /\ Target(t) = f /\ Remove(Target(t)))
      BY <1>1, <1>2 DEF Remove, Exists, FsTypeOK
    <2>2. entry'[f] = entry[f]
      <3>1. CASE OpenTrunc(t, Target(t))
        BY <1>2, <1>4, <3>1 DEF OpenTrunc, FsTypeOK
      <3>2. CASE Remove(Target(t)) /\ pc[t] = "remove"
        BY <1>2, <2>1, <3>2 DEF Remove, FsTypeOK
      <3>3. CASE entry' = entry
        BY <3>3
      <3>4. QED
        BY <1>2, <3>1, <3>2, <3>3
        DEF FsCall, fsVars, Mkdir, Flock, WriteSome, WriteRest, Funlock, Close, OpenRead,
            Opendir, Rmdir
    <2>3. ~Complete(k)
      <3>1. CASE UNCHANGED fsVars
        BY <1>1, <3>1 DEF fsVars, Complete, Exists
      <3>2. CASE ~UNCHANGED fsVars
        <4>1. ~(pc[t] = "remove" /\ Target(t) = f)
          BY <2>1, <3>2, RemoveRemoves
        <4>2. QED
          BY <1>1, <4>1, CompleteStays
      <3>3. QED
        BY <3>1, <3>2
    <2>4. PICK w \in Threads : pc[w] \in NewImgLabels /\ fd[w] = entry[f]
      BY <1>3, <1>4, <2>3 DEF IncompleteHasWriter
    <2>5. pc[w] \in HasFile
      BY <1>2, <1>4, <2>4, NoInodeIsNone
      DEF TypeInv, DescriptorOf, Opened, NewImgLabels, HasFile, Exists, FsTypeOK
    <2>6. CASE w # t
      BY <2>2, <2>4, <2>5, <2>6, OthersKeepFd, OthersKeepTheirs
    <2>7. CASE w = t
      <3>1. Target(t) = f
        BY <1>2, <1>4, <2>4, <2>5, <2>7 DEF LinkInv
      <3>2. op[t] = "upload" /\ buf[t] = "orig"
        BY <2>4, <2>7, <3>1 DEF TypeInv, RequestOf, Target
      <3>3. ~(pc[t] = "close" /\ ret[t] = "ok")
        <4>1. Arrived(t)
          BY <3>2 DEF WriterInv
        <4>2. QED
          BY <1>4, <2>3, <2>4, <2>7, <3>2, <4>1 DEF Arrived, Complete
      <3>4. pc[t] # "close"
        BY <1>3, <3>2, <3>3 DEF WriterInv, NewImgSucceeds
      <3>5. pc'[t] \in HasFile
        <4>1. NewImg(t)
          BY <2>4, <2>7, OnlyNewImg
        <4>2. QED
          BY <1>2, <2>5, <2>7, <3>4, <4>1
          DEF NewImg, NewImgOpen, NewImgFlock, NewImgWrite, NewImgWritten, NewImgUnlock,
              NewImgClose, HasFile, LocalTypeOK
      <3>6. fd'[t] = fd[t]
        BY <2>5, <2>7, <3>5, EntersByOpen DEF HasFile
      <3>7. QED
        BY <2>2, <2>4, <2>7, <3>5, <3>6
    <2>8. QED
      BY <2>6, <2>7
  <1>5. CASE ~Exists(f)
    <2>1. pc[t] = "open" /\ pc'[t] = "flock" /\ OpenTrunc(t, Target(t))
      BY <1>1, <1>2, <1>5
      DEF FsCall, Exists, fsVars, Mkdir, Flock, WriteSome, WriteRest, Funlock, Close,
          OpenRead, Remove, Opendir, Rmdir, FsTypeOK
    <2>2. Target(t) = f
      BY <1>1, <1>2, <1>5, <2>1 DEF OpenTrunc, Exists, FsTypeOK
    <2>3. fd'[t] = entry'[f]
      BY <1>2, <2>1, <2>2, OpenTruncFd DEF FsTypeOK
    <2>4. QED
      BY <2>1, <2>3 DEF HasFile
  <1>6. QED
    BY <1>4, <1>5

LEMMA NextHasWriter ==
  ASSUME TypeInv, LinkInv, WriterInv, KeepsOriginals, Alone("upload"),
         IncompleteHasWriter, [Next]_vars
  PROVE  IncompleteHasWriter'
  <1>1. CASE Crash
    <2>1. faults' # 0
      BY <1>1 DEF Crash, Fault, TypeInv, TypeOK
    <2>2. QED
      BY <2>1 DEF IncompleteHasWriter
  <1>2. ASSUME NEW t \in Threads, Step(t) PROVE IncompleteHasWriter'
    BY <1>2, StepHasWriter
  <1>3. CASE UNCHANGED vars
    BY <1>3 DEF vars, fsVars, IncompleteHasWriter, Exists, Complete
  <1>4. QED
    BY <1>1, <1>2, <1>3 DEF Next, Step

\* While no system call failed and no process died, an original that is only in
\* part there has its uploader at work on it, deletes or not.
THEOREM IncompleteIsTransient ==
  ASSUME KeepsOriginals, Alone("upload")
  PROVE  Spec => []IncompleteHasWriter
  <1>1. Init => IncompleteHasWriter
    BY DEF Init, FsInit, IncompleteHasWriter, Exists, Files, Names
  <1>2. TypeInv /\ LinkInv /\ WriterInv /\ IncompleteHasWriter /\ [Next]_vars
          => IncompleteHasWriter'
    BY NextHasWriter
  <1>3. QED
    BY <1>1, <1>2, TypeCorrect, WritersAlone, PTL DEF Spec

-----------------------------------------------------------------------------
(* What an acknowledged upload has stored *)

NobodyDeletes == \A t \in Threads : "delete" \notin Role[t]

\* Without deletes the file that a thread has open keeps its name; and from the
\* point where save_img knows its file to be there, until the answer is sent,
\* the image is complete.
StoredInv ==
  /\ \A t \in Threads : pc[t] \in HasFile => entry[Target(t)] = fd[t]
  /\ faults = 0 => \A t \in Threads :
       \/ pc[t] = "ucache"  /\ op[t] = "upload"
       \/ pc[t] = "reply" /\ op[t] = "upload" /\ ret[t] = "ok"
       => Complete(key[t])

LEMMA NobodyRemoves ==
  ASSUME TypeInv, ServesRole, NobodyDeletes, NEW t \in Threads
  PROVE  pc[t] # "remove"
  BY DEF TypeInv, RequestOf, AdminLabels, ServesRole, NobodyDeletes

\* How an upload comes to have its image on disk.
LEMMA UploadAcknowledged ==
  ASSUME TypeInv, NEW t \in Threads, Step(t), op'[t] = "upload",
         pc'[t] = "ucache" \/ (pc'[t] = "reply" /\ ret'[t] = "ok")
  PROVE  /\ op[t] = "upload" /\ key'[t] = key[t]
         /\ \/ pc[t] = "exists" /\ Exists(Original(t))
            \/ pc[t] \in {"close", "ucache"}
  <1>1. LocalTypeOK
    BY DEF TypeInv, TypeOK, LocalTypeOK
  <1> USE DEF LocalTypeOK
  <1>2. ~Start(t) /\ ~Reply(t)
    BY <1>1, FirstLabelIs DEF Start, Reply
  <1>3. op[t] = "upload" /\ key'[t] = key[t]
    BY <1>2, KeepsRequest
  <1>4. pc[t] \notin GetLabels \union AdminLabels \union InfoLabels
    BY <1>3 DEF TypeInv, RequestOf
  <1>5. CASE SaveImg(t)
    BY <1>1, <1>3, <1>5 DEF SaveImg, UploadIsDir, Access, NextLevel, MkdirStep,
                            UploadIsFile, UploadCache
  <1>6. CASE NewImg(t)
    BY <1>1, <1>3, <1>6 DEF NewImg, NewImgOpen, NewImgFlock, NewImgWrite, NewImgWritten,
                            NewImgUnlock, NewImgClose, AfterNewImg
  <1>7. CASE GetImg(t) \/ AdminImg(t) \/ InfoImg(t)
    BY <1>4, <1>7
    DEF GetImg, GetIsDir, GetFindCache, GetOpen, GetFstat, GetRead, GetFindOriginal,
        GetDelCache, GetReadOriginal, GetSetOriginal, GetConvert, GetSetCache,
        AdminImg, AdminIsDir, DeleteOpendir, DeleteNext, DeleteRemove, DeleteRmdir,
        InfoImg, InfoIsDir, InfoRead, GetLabels, AdminLabels, InfoLabels
  <1>8. QED
    BY <1>2, <1>3, <1>5, <1>6, <1>7 DEF Step, Work

LEMMA StepStored ==
  ASSUME TypeInv, LinkInv, WriterInv, IncompleteHasWriter, StoredInv, KeepsOriginals,
         Alone("upload"), NobodyDeletes, NEW t \in Threads, Step(t)
  PROVE  StoredInv'
  <1>1. FsTypeOK /\ FsCall(t) /\ \A s \in Threads : Target(s) \in Files /\ pc[s] # "remove"
    BY OneCall, NobodyRemoves DEF TypeInv, TypeOK, Target, Files, WriterInv
  <1>2. \A s \in Threads \ {t} : /\ pc'[s] = pc[s] /\ fd'[s] = fd[s] /\ op'[s] = op[s]
                                 /\ ret'[s] = ret[s] /\ key'[s] = key[s]
                                 /\ Target(s)' = Target(s)
    BY OthersKeepFd, OthersKeepTheirs DEF Target
  <1>3. ASSUME NEW s \in Threads, pc'[s] \in HasFile
        PROVE  entry'[Target(s)'] = fd'[s]
    <2>1. CASE OpenTrunc(t, Target(t)) /\ pc[t] = "open"
      <3>1. CASE s = t
        BY <1>1, <1>3, <2>1, <3>1, OpenTruncFd, EntersByOpen DEF FsTypeOK
      <3>2. CASE s # t
        <4>1. pc[s] \in HasFile /\ entry[Target(s)] = fd[s] /\ fd[s] \in Inodes
          BY <1>2, <1>3, <3>2 DEF StoredInv, TypeInv, DescriptorOf, HasFile, Opened
        <4>2. Exists(Target(s))
          BY <4>1, NoInodeIsNone DEF Exists
        <4>3. entry'[Target(s)] = entry[Target(s)]
          BY <1>1, <2>1, <4>2 DEF OpenTrunc, FsTypeOK
        <4>4. QED
          BY <1>2, <3>2, <4>1, <4>3
      <3>3. QED
        BY <3>1, <3>2
    <2>2. CASE ~(OpenTrunc(t, Target(t)) /\ pc[t] = "open")
      <3>1. entry' = entry
        BY <1>1, <2>2
        DEF FsCall, fsVars, Mkdir, Flock, WriteSome, WriteRest, Funlock, Close,
            OpenRead, Opendir, Rmdir
      <3>2. pc[s] \in HasFile /\ Target(s)' = Target(s) /\ fd'[s] = fd[s]
        BY <1>2, <1>3, <2>2, EntersByOpen
      <3>3. QED
        BY <3>1, <3>2 DEF StoredInv
    <2>3. QED
      BY <2>1, <2>2
  <1>4. ASSUME faults' = 0, NEW s \in Threads, op'[s] = "upload",
               pc'[s] = "ucache" \/ (pc'[s] = "reply" /\ ret'[s] = "ok")
        PROVE  Complete(key[s]) /\ key'[s] = key[s]
    <2>1. faults = 0
      BY <1>4, StepFaults
    <2>2. CASE s # t
      BY <1>2, <1>4, <2>1, <2>2 DEF StoredInv
    <2>3. CASE s = t
      <3>1. /\ op[t] = "upload" /\ key'[t] = key[t] /\ key[t] \in Keys
            /\ \/ pc[t] = "exists" /\ Exists(Original(t))
               \/ pc[t] \in {"close", "ucache"}
        BY <1>4, <2>3, UploadAcknowledged DEF TypeInv, TypeOK
      <3>2. CASE pc[t] = "exists" /\ Exists(Original(t))
        <4>1. SUFFICES ASSUME ~Complete(key[t]) PROVE FALSE
          BY <2>3, <3>1
        <4>2. PICK w \in Threads : pc[w] \in NewImgLabels /\ fd[w] = entry[Original(t)]
          BY <2>1, <3>1, <3>2, <4>1 DEF IncompleteHasWriter, Original
        <4>3. pc[w] \in HasFile
          BY <1>1, <3>2, <4>2, NoInodeIsNone
          DEF TypeInv, DescriptorOf, Opened, NewImgLabels, HasFile, Exists
        <4>4. Target(w) = Original(t)
          BY <3>1, <3>2, <4>2, <4>3 DEF LinkInv, Original, Files, Names
        <4>5. op[w] = "upload"
          BY <4>2, <4>4 DEF TypeInv, RequestOf, Target, Original
        <4>6. w = t
          BY <3>1, <3>2, <4>2, <4>5 DEF WriterInv, ServesRole, Alone, NewImgLabels
        <4>7. QED
          BY <3>2, <4>2, <4>6 DEF NewImgLabels
      <3>3. CASE pc[t] = "close"
        <4>1. name[t] = "orig" /\ buf[t] = "orig" /\ fd[t] \in Inodes
          BY <3>1, <3>3 DEF TypeInv, RequestOf, DescriptorOf, NewImgLabels, Opened
        <4>2. content[fd[t]] = "orig"
          BY <2>1, <3>1, <3>3, <4>1 DEF WriterInv, NewImgSucceeds, Arrived
        <4>3. entry[<<key[t], "orig">>] = fd[t]
          BY <3>3, <4>1 DEF StoredInv, HasFile, Target
        <4>4. QED
          BY <2>3, <3>1, <4>1, <4>2, <4>3, NoInodeIsNone DEF Complete, Exists
      <3>4. CASE pc[t] = "ucache"
        BY <2>1, <2>3, <3>1, <3>4 DEF StoredInv
      <3>5. QED
        BY <3>1, <3>2, <3>3, <3>4
    <2>4. QED
      BY <2>2, <2>3
  <1>5. \A k \in Keys : Complete(k) => Complete(k)'
    BY <1>1, CompleteStays
  <1>6. \A s \in Threads : key[s] \in Keys
    BY DEF TypeInv, TypeOK
  <1>7. ASSUME faults' = 0, NEW s \in Threads, op'[s] = "upload",
               pc'[s] = "ucache" \/ (pc'[s] = "reply" /\ ret'[s] = "ok")
        PROVE  Complete(key[s])'
    <2>1. Complete(key[s]) /\ key'[s] = key[s]
      BY <1>4, <1>7
    <2>2. QED
      BY <1>5, <1>6, <2>1 DEF Complete, Exists
  <1>8. QED
    BY <1>3, <1>7 DEF StoredInv, Target

LEMMA NextStored ==
  ASSUME TypeInv, LinkInv, WriterInv, IncompleteHasWriter, StoredInv, KeepsOriginals,
         Alone("upload"), NobodyDeletes, [Next]_vars
  PROVE  StoredInv'
  <1>1. CASE Crash
    BY <1>1 DEF Crash, StoredInv, HasFile
  <1>2. ASSUME NEW t \in Threads, Step(t) PROVE StoredInv'
    BY <1>2, StepStored
  <1>3. CASE UNCHANGED vars
    BY <1>3 DEF vars, fsVars, StoredInv, Exists, Complete, Target
  <1>4. QED
    BY <1>1, <1>2, <1>3 DEF Next, Step

\* Where one worker receives the uploads, nobody deletes and not everything is
\* saved, an upload that was answered with success has its whole image on disk,
\* until a call fails or the process dies.
THEOREM UploadsStored ==
  ASSUME KeepsOriginals, Alone("upload"), NobodyDeletes
  PROVE  Spec => []UploadStored
  <1>1. Init => StoredInv
    BY DEF Init, StoredInv, HasFile
  <1>2. TypeInv /\ LinkInv /\ WriterInv /\ IncompleteHasWriter /\ StoredInv /\ [Next]_vars
          => StoredInv'
    BY NextStored
  <1>3. StoredInv => UploadStored
    BY DEF StoredInv, UploadStored
  <1>4. QED
    BY <1>1, <1>2, <1>3, TypeCorrect, WritersAlone, IncompleteIsTransient, PTL DEF Spec
=============================================================================
