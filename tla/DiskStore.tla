------------------------------ MODULE DiskStore ------------------------------
(***************************************************************************)
(* zimg in disk mode (settings.mode = 1): the worker threads of zimg.c     *)
(* save, get, delete and describe images over one file system and one      *)
(* memcached server.  A step of a thread is one system call or one cache   *)
(* call together with the local computation that follows it, so threads    *)
(* interleave wherever the C code lets them.                               *)
(***************************************************************************)
EXTENDS FileSystem

CONSTANTS Default,    \* the variant of a request without parameters
          Typed,      \* the variants made by a lua script (t=type)
          ScriptOn,   \* settings.script_on = 1
          SaveNew,    \* settings.save_new: 0, 1 or 2
          CacheOn,    \* settings.cache_on
          Etag,       \* settings.etag = 1
          Pictures,   \* the keys whose bytes ImageMagick can decode
          Role,       \* Role[t]: the requests that thread t may receive
          MaxFaults   \* bound on failed system calls and process deaths

ASSUME DefaultAssumption == Default \in Variants
ASSUME TypedAssumption == Typed \subseteq Variants \ {Default}
ASSUME ScriptAssumption == /\ ScriptOn \in BOOLEAN
                           /\ ~ScriptOn => Typed = {}
ASSUME SaveNewAssumption == SaveNew \in 0..2
ASSUME SettingsAssumption == CacheOn \in BOOLEAN /\ Etag \in BOOLEAN
ASSUME PicturesAssumption == Pictures \subseteq Keys
ASSUME MaxFaultsAssumption == MaxFaults \in Nat

Ops == {"upload", "get", "delete", "command", "info"}
ASSUME RoleAssumption == Role \in [Threads -> SUBSET Ops]

VARIABLES cache,    \* cache[f]: the blob memcached keeps under f's key
          pc,       \* pc[t]: the call that thread t makes next
          op, key, name,  \* the request of thread t
          lvl,      \* lvl[t]: the directory level mk_dirs is at
          todo,     \* todo[t]: names that readdir has still to return
          buf,      \* buf[t]: the bytes thread t holds
          ret,      \* ret[t]: result of the last function that returned
          faults    \* failed system calls and process deaths so far

local == <<op, key, name>>
vars == <<fsVars, cache, pc, local, lvl, todo, buf, ret, faults>>

Blobs == Contents \union {"none"}
Results == {"none", "ok", "fail", "notfound", "notmodified"}
Target(t) == <<key[t], name[t]>>
Original(t) == <<key[t], "orig">>

UploadLabels == {"udir", "access", "mkdir", "exists", "ucache"}
NewImgLabels == {"open", "flock", "write", "writing", "unlock", "close"}
GetLabels == {"gdir", "gcache", "gopen", "gorig", "gdel", "gread", "gsetorig",
              "gconvert", "gfstat", "gfread", "gset"}
AdminLabels == {"adir", "opendir", "next", "remove", "rmdir"}
InfoLabels == {"idir", "iread"}
Labels == {"idle", "reply"} \union UploadLabels \union NewImgLabels
            \union GetLabels \union AdminLabels \union InfoLabels

\* The file system is well formed, the cache holds blobs, a thread is at a call of
\* the request that it serves, and no more calls fail than the bound allows.
TypeOK ==
  /\ FsTypeOK
  /\ cache \in [Files -> Blobs]
  /\ pc \in [Threads -> Labels]
  /\ op \in [Threads -> Ops]
  /\ key \in [Threads -> Keys]
  /\ name \in [Threads -> Names]
  /\ lvl \in [Threads -> 1..3]
  /\ todo \in [Threads -> SUBSET Names]
  /\ buf \in [Threads -> Blobs]
  /\ ret \in [Threads -> Results]
  /\ faults \in 0..MaxFaults

Init ==
  /\ FsInit
  /\ cache = [f \in Files |-> "none"]
  /\ pc = [t \in Threads |-> "idle"]
  /\ op = [t \in Threads |-> "info"]
  /\ key \in [Threads -> Keys]
  /\ name = [t \in Threads |-> "orig"]
  /\ lvl = [t \in Threads |-> 1]
  /\ todo = [t \in Threads |-> {}]
  /\ buf = [t \in Threads |-> "none"]
  /\ ret = [t \in Threads |-> "none"]
  /\ faults = 0

-----------------------------------------------------------------------------
(* Control *)

At(t, label) == pc[t] = label
Goto(t, label) == pc' = [pc EXCEPT ![t] = label]
Hold(t, bytes) == buf' = [buf EXCEPT ![t] = bytes]

\* The function that serves the request returns r to the HTTP callback.
Return(t, r) == /\ Goto(t, "reply")
                /\ ret' = [ret EXCEPT ![t] = r]

\* A system call fails for a reason of its own: no space, no descriptor.
Fault == faults < MaxFaults /\ faults' = faults + 1
NoFault == faults' = faults

\* memcached_set without a reply.  Any lookup may miss (below), so a blob that
\* got lost or was evicted is one that every lookup misses; what remains to be
\* told apart is whether an older blob survives.
SetCache(f, bytes) ==
  IF ~CacheOn
  THEN UNCHANGED cache
  ELSE \/ cache' = [cache EXCEPT ![f] = bytes]
       \/ cache[f] # "none" /\ UNCHANGED cache

\* What ImageMagick makes of the bytes of image k: an image, named by what it
\* would be written out as, or a failure.  A prefix may or may not decode.
Decoded(k, bytes) ==
  IF k \notin Pictures THEN {"fail"}
  ELSE CASE bytes \in {"orig", "reenc"} -> {"reenc"}
         [] bytes = "conv"              -> {"conv"}
         [] bytes \in {"part", "bad"}   -> {"bad", "fail"}
         [] OTHER                       -> {"fail"}

\* MagickReadImage(orig_path)
DecodedFile(k) ==
  IF Exists(<<k, "orig">>) THEN Decoded(k, content[entry[<<k, "orig">>]])
                           ELSE {"fail"}

-----------------------------------------------------------------------------
(* Requests *)

\* Where the function that serves a request of kind o begins.
FirstLabel(o) == CASE o = "upload" -> "udir"
                   [] o = "get"    -> "gdir"
                   [] o = "info"   -> "idir"
                   [] OTHER        -> "adir"

\* A request reaches an idle worker.
Start(t) ==
  /\ At(t, "idle")
  /\ \E o \in Role[t], k \in Keys, n \in Names :
       /\ o # "get" => n = "orig"
       /\ op' = [op EXCEPT ![t] = o]
       /\ key' = [key EXCEPT ![t] = k]
       /\ name' = [name EXCEPT ![t] = n]
       /\ Hold(t, IF o = "upload" THEN "orig" ELSE "none")
       /\ Goto(t, FirstLabel(o))
  /\ UNCHANGED <<fsVars, cache, lvl, todo, ret, faults>>

\* The callback sends the answer and the worker is free again; get_img closes
\* its descriptor on the way out.
Reply(t) ==
  /\ At(t, "reply")
  /\ IF op[t] = "get" THEN Close(t) ELSE UNCHANGED fsVars
  /\ Goto(t, "idle")
  /\ Hold(t, "none")
  /\ ret' = [ret EXCEPT ![t] = "none"]
  /\ op' = [op EXCEPT ![t] = "info"]
  /\ name' = [name EXCEPT ![t] = "orig"]
  /\ UNCHANGED <<cache, key, lvl, todo, faults>>

-----------------------------------------------------------------------------
(* save_img *)

\* is_dir(save_path)
UploadIsDir(t) ==
  /\ At(t, "udir")
  /\ IF ImageDir(key[t]) \in dirs
     THEN Goto(t, "exists") /\ UNCHANGED lvl
     ELSE Goto(t, "access") /\ lvl' = [lvl EXCEPT ![t] = 1]
  /\ UNCHANGED <<fsVars, cache, local, todo, buf, ret, faults>>

\* Mutant: the loop over the path runs one level too far.
NextLevelPastEnd(t) ==
  \/ /\ lvl[t] < 4
     /\ lvl' = [lvl EXCEPT ![t] = @ + 1]
     /\ Goto(t, "access")
  \/ /\ lvl[t] = 4
     /\ lvl' = [lvl EXCEPT ![t] = 1]
     /\ Goto(t, "exists")

\* mk_dirs goes on to the next level.
NextLevel(t) ==
  \/ /\ lvl[t] < 3
     /\ lvl' = [lvl EXCEPT ![t] = @ + 1]
     /\ Goto(t, "access")
  \/ /\ lvl[t] = 3
     /\ lvl' = [lvl EXCEPT ![t] = 1]
     /\ Goto(t, "exists")

\* Mutant: mkdir without looking first.
AccessUnchecked(t) ==
  /\ At(t, "access")
  /\ Goto(t, "mkdir")
  /\ UNCHANGED <<fsVars, cache, local, lvl, todo, buf, ret, faults>>

\* access(tmp, 0) in mk_dirs
Access(t) ==
  /\ At(t, "access")
  /\ IF Dir(key[t], lvl[t]) \in dirs
     THEN NextLevel(t)
     ELSE Goto(t, "mkdir") /\ UNCHANGED lvl
  /\ UNCHANGED <<fsVars, cache, local, todo, buf, ret, faults>>

\* mkdir(tmp, 0755) in mk_dirs: a directory another thread made since the
\* access makes it fail, and save_img with it.
MkdirStep(t) ==
  /\ At(t, "mkdir")
  /\ \/ /\ CanMkdir(key[t], lvl[t]) /\ NoFault
        /\ Mkdir(key[t], lvl[t])
        /\ NextLevel(t)
        /\ UNCHANGED ret
     \/ /\ \/ ~CanMkdir(key[t], lvl[t]) /\ NoFault
           \/ Fault
        /\ Return(t, "fail")
        /\ UNCHANGED <<fsVars, lvl>>
  /\ UNCHANGED <<cache, local, todo, buf>>

\* Mutant: with the cache on, the cached copy is taken for the stored one.
UploadIsFileOrCached(t) ==
  /\ At(t, "exists")
  /\ Goto(t, IF CacheOn \/ Exists(Original(t)) THEN "ucache" ELSE "open")
  /\ UNCHANGED <<fsVars, cache, local, lvl, todo, buf, ret, faults>>

\* Mutant: the file is written again although it exists.
UploadAlwaysWrites(t) ==
  /\ At(t, "exists")
  /\ Goto(t, "open")
  /\ UNCHANGED <<fsVars, cache, local, lvl, todo, buf, ret, faults>>

\* is_file(save_name): any file of that name will do.
UploadIsFile(t) ==
  /\ At(t, "exists")
  /\ Goto(t, IF Exists(Original(t)) THEN "ucache" ELSE "open")
  /\ UNCHANGED <<fsVars, cache, local, lvl, todo, buf, ret, faults>>

\* cache: set_cache_bin(md5, buff); result = 1
UploadCache(t) ==
  /\ At(t, "ucache")
  /\ SetCache(Original(t), buf[t])
  /\ Return(t, "ok")
  /\ UNCHANGED <<fsVars, local, lvl, todo, buf, faults>>

-----------------------------------------------------------------------------
(* new_img, called by save_img and by get_img *)

\* save_img gives up when new_img fails; get_img logs it and goes on.
AfterNewImg(t, r) ==
  IF op[t] = "upload" /\ r = "fail"
  THEN Return(t, "fail")
  ELSE /\ Goto(t, IF op[t] = "get" THEN "gset" ELSE "ucache")
       /\ ret' = [ret EXCEPT ![t] = "none"]

\* A write(2) under way keeps truncation of its inode waiting.
BeingWritten(i) == \E s \in Threads : pc[s] = "writing" /\ fd[s] = i

\* open(save_name, O_WRONLY | O_TRUNC | O_CREAT)
NewImgOpen(t) ==
  /\ At(t, "open")
  /\ \/ /\ ImageDir(key[t]) \in dirs
        /\ Exists(Target(t)) => ~BeingWritten(entry[Target(t)])
        /\ OpenTrunc(t, Target(t))
        /\ Goto(t, "flock") /\ NoFault /\ UNCHANGED ret
     \/ /\ \/ ImageDir(key[t]) \notin dirs /\ NoFault
           \/ Fault
        /\ AfterNewImg(t, "fail")
        /\ UNCHANGED fsVars
  /\ UNCHANGED <<cache, local, lvl, todo, buf>>

\* flock(fd, LOCK_EX | LOCK_NB)
NewImgFlock(t) ==
  /\ At(t, "flock")
  /\ \/ CanFlock(t) /\ Flock(t) /\ Goto(t, "write") /\ UNCHANGED ret
     \/ /\ ~CanFlock(t)
        /\ Goto(t, "close")
        /\ ret' = [ret EXCEPT ![t] = "fail"]
        /\ UNCHANGED fsVars
  /\ UNCHANGED <<cache, local, lvl, todo, buf, faults>>

\* Mutant: a write that is refused counts as done.
NewImgWriteLost(t) ==
  /\ At(t, "write")
  /\ \/ WriteSome(t, buf[t]) /\ Goto(t, "writing")
     \/ Goto(t, "unlock") /\ UNCHANGED fsVars
  /\ UNCHANGED <<cache, local, lvl, todo, buf, ret, faults>>

\* write(fd, buff, len) fails at once, or its first bytes arrive.
NewImgWrite(t) ==
  /\ At(t, "write")
  /\ \/ WriteSome(t, buf[t]) /\ Goto(t, "writing") /\ NoFault /\ UNCHANGED ret
     \/ /\ Fault
        /\ Goto(t, "close")
        /\ ret' = [ret EXCEPT ![t] = "fail"]
        /\ UNCHANGED fsVars
  /\ UNCHANGED <<cache, local, lvl, todo, buf>>

\* Mutant: a short write is not noticed.
NewImgShortWrite(t) ==
  /\ At(t, "writing")
  /\ \/ WriteRest(t, buf[t]) /\ NoFault
     \/ Fault /\ UNCHANGED fsVars
  /\ Goto(t, "unlock")
  /\ UNCHANGED <<cache, local, lvl, todo, buf, ret>>

\* write returns: all bytes, or fewer than len.  Nobody removes what is there.
NewImgWritten(t) ==
  /\ At(t, "writing")
  /\ \/ WriteRest(t, buf[t]) /\ Goto(t, "unlock") /\ NoFault /\ UNCHANGED ret
     \/ /\ Fault
        /\ Goto(t, "close")
        /\ ret' = [ret EXCEPT ![t] = "fail"]
        /\ UNCHANGED fsVars
  /\ UNCHANGED <<cache, local, lvl, todo, buf>>

\* flock(fd, LOCK_UN | LOCK_NB); result = 1
NewImgUnlock(t) ==
  /\ At(t, "unlock")
  /\ Funlock(t)
  /\ Goto(t, "close")
  /\ ret' = [ret EXCEPT ![t] = "ok"]
  /\ UNCHANGED <<cache, local, lvl, todo, buf, faults>>

\* Mutant: a failed write returns without closing.
NewImgNoClose(t) ==
  /\ At(t, "close")
  /\ IF ret[t] = "ok" THEN Close(t) ELSE UNCHANGED fsVars
  /\ AfterNewImg(t, ret[t])
  /\ UNCHANGED <<cache, local, lvl, todo, buf, faults>>

\* done: close(fd)
NewImgClose(t) ==
  /\ At(t, "close")
  /\ Close(t)
  /\ AfterNewImg(t, ret[t])
  /\ UNCHANGED <<cache, local, lvl, todo, buf, faults>>

NewImg(t) == \/ NewImgOpen(t) \/ NewImgFlock(t) \/ NewImgWrite(t)
             \/ NewImgWritten(t) \/ NewImgUnlock(t) \/ NewImgClose(t)

SaveImg(t) == \/ UploadIsDir(t) \/ Access(t) \/ MkdirStep(t)
              \/ UploadIsFile(t) \/ UploadCache(t)

-----------------------------------------------------------------------------
(* get_img *)

\* done: the etag of the bytes may match the client's (304), and the bytes
\* are added to the output buffer.
Finish(t) == \/ Return(t, "ok") /\ NoFault
             \/ Etag /\ Return(t, "notmodified") /\ NoFault
             \/ Fault /\ Return(t, "fail")

\* is_dir(whole_path)
GetIsDir(t) ==
  /\ At(t, "gdir")
  /\ IF ImageDir(key[t]) \in dirs
     THEN Goto(t, "gcache") /\ UNCHANGED ret
     ELSE Return(t, "fail")
  /\ UNCHANGED <<fsVars, cache, local, lvl, todo, buf, faults>>

\* find_cache_bin(rsp_cache_key); any lookup may miss.
GetFindCache(t) ==
  /\ At(t, "gcache")
  /\ \/ /\ cache[Target(t)] # "none"
        /\ Hold(t, cache[Target(t)])
        /\ Finish(t)
     \/ Goto(t, "gopen") /\ UNCHANGED <<buf, ret, faults>>
  /\ UNCHANGED <<fsVars, cache, local, lvl, todo>>

\* open(rsp_path, O_RDONLY)
GetOpen(t) ==
  /\ At(t, "gopen")
  /\ IF Exists(Target(t))
     THEN OpenRead(t, Target(t)) /\ Goto(t, "gfstat")
     ELSE Goto(t, "gorig") /\ UNCHANGED fsVars
  /\ UNCHANGED <<cache, local, lvl, todo, buf, ret, faults>>

\* fstat(fd): a file without bytes fails the request.
GetFstat(t) ==
  /\ At(t, "gfstat")
  /\ IF content[fd[t]] = "empty"
     THEN Return(t, "fail") /\ UNCHANGED buf
     ELSE Hold(t, content[fd[t]]) /\ Goto(t, "gfread") /\ UNCHANGED ret
  /\ UNCHANGED <<fsVars, cache, local, lvl, todo, faults>>

\* read(fd, buff, len) of as many bytes as fstat saw
GetRead(t) ==
  /\ At(t, "gfread")
  /\ \E b \in ReadAfter(buf[t], content[fd[t]]) :
       IF b = "fail"
       THEN Return(t, "fail") /\ UNCHANGED buf
       ELSE Hold(t, b) /\ Goto(t, "gset") /\ UNCHANGED ret
  /\ UNCHANGED <<fsVars, cache, local, lvl, todo, faults>>

\* find_cache_bin(md5) and MagickReadImageBlob of what it found
GetFindOriginal(t) ==
  /\ At(t, "gorig")
  /\ \/ /\ cache[Original(t)] # "none"
        /\ \E b \in Decoded(key[t], cache[Original(t)]) :
             IF b = "fail" THEN Goto(t, "gdel") /\ UNCHANGED buf
                           ELSE Hold(t, b) /\ Goto(t, "gconvert")
     \/ Goto(t, "gread") /\ UNCHANGED buf
  /\ UNCHANGED <<fsVars, cache, local, lvl, todo, ret, faults>>

\* del_cache(md5) of a blob that is no image; the delete may be lost.
GetDelCache(t) ==
  /\ At(t, "gdel")
  /\ cache' \in {cache, [cache EXCEPT ![Original(t)] = "none"]}
  /\ Goto(t, "gread")
  /\ UNCHANGED <<fsVars, local, lvl, todo, buf, ret, faults>>

\* MagickReadImage(orig_path), and MagickGetImageBlob of the image as it is
GetReadOriginal(t) ==
  /\ At(t, "gread")
  /\ \E b \in DecodedFile(key[t]) :
       IF b = "fail" THEN Return(t, "fail") /\ UNCHANGED buf
                     ELSE Hold(t, b) /\ Goto(t, "gsetorig") /\ UNCHANGED ret
  /\ UNCHANGED <<fsVars, cache, local, lvl, todo, faults>>

\* set_cache_bin(md5, new_buff) of the encoded-again original
GetSetOriginal(t) ==
  /\ At(t, "gsetorig")
  /\ SetCache(Original(t), buf[t])
  /\ Goto(t, "gconvert")
  /\ UNCHANGED <<fsVars, local, lvl, todo, buf, ret, faults>>

\* Whether the request for n has a type (t=).  With the script on the type is
\* what names the variant; with it off the type is read all the same, and
\* names nothing, so that a request for any variant may have one.
HasType(n) == IF ScriptOn THEN {n \in Typed} ELSE BOOLEAN

\* Mutant: what was converted is saved, whatever the setting.
SavedAlways(type) == type \in BOOLEAN

\* settings.save_new asks for the type, and not for the script: sv is 1 for a
\* request without parameters.
Saved(type) == \/ SaveNew = 1
               \/ SaveNew = 2 /\ type

\* convert or lua_convert, and the decision whether to save the outcome; a
\* script may leave the image as it is, and then it is not saved.
GetConvert(t) ==
  /\ At(t, "gconvert")
  /\ \/ Return(t, "fail") /\ UNCHANGED buf
     \/ name[t] \in Typed /\ Goto(t, "gset") /\ UNCHANGED <<buf, ret>>
     \/ /\ Hold(t, IF buf[t] = "bad" THEN "bad" ELSE "conv")
        /\ \E sv \in {FALSE, name[t] = Default}, type \in HasType(name[t]) :
              Goto(t, IF sv \/ Saved(type) THEN "open" ELSE "gset")
        /\ UNCHANGED ret
  /\ UNCHANGED <<fsVars, cache, local, lvl, todo, faults>>

\* Mutant: the conversion is cached under the image's own key.
GetSetCacheByMd5(t) ==
  /\ At(t, "gset")
  /\ SetCache(Original(t), buf[t])
  /\ Finish(t)
  /\ UNCHANGED <<fsVars, local, lvl, todo, buf>>

\* set_cache_bin(rsp_cache_key, buff)
GetSetCache(t) ==
  /\ At(t, "gset")
  /\ SetCache(Target(t), buf[t])
  /\ Finish(t)
  /\ UNCHANGED <<fsVars, local, lvl, todo, buf>>

GetImg(t) == \/ GetIsDir(t) \/ GetFindCache(t) \/ GetOpen(t) \/ GetFstat(t)
             \/ GetRead(t) \/ GetFindOriginal(t) \/ GetDelCache(t)
             \/ GetReadOriginal(t) \/ GetSetOriginal(t) \/ GetConvert(t)
             \/ GetSetCache(t)

-----------------------------------------------------------------------------
(* admin_img and delete_file *)

\* is_dir(whole_path); only command type 1 does anything.
AdminIsDir(t) ==
  /\ At(t, "adir")
  /\ IF ImageDir(key[t]) \notin dirs THEN Return(t, "notfound")
     ELSE IF op[t] = "delete" THEN Goto(t, "opendir") /\ UNCHANGED ret
     ELSE Return(t, "fail")
  /\ UNCHANGED <<fsVars, cache, local, lvl, todo, buf, faults>>

\* is_dir(path) and opendir(path): readdir returns the names present now, and
\* no way out of delete_file closes the stream.
DeleteOpendir(t) ==
  /\ At(t, "opendir")
  /\ \/ /\ ImageDir(key[t]) \in dirs /\ NoFault
        /\ Opendir(key[t])
        /\ todo' = [todo EXCEPT ![t] = EntriesOf(key[t])]
        /\ Goto(t, "next") /\ UNCHANGED ret
     \/ /\ \/ ImageDir(key[t]) \notin dirs /\ NoFault
           \/ Fault
        /\ Return(t, "fail") /\ UNCHANGED <<fsVars, todo>>
  /\ UNCHANGED <<cache, local, lvl, buf>>

\* readdir and is_file(child): a child that is gone ends the delete with -1.
DeleteNext(t) ==
  /\ At(t, "next")
  /\ \/ todo[t] = {} /\ Goto(t, "rmdir") /\ UNCHANGED <<name, todo, ret>>
     \/ \E n \in todo[t] :
          IF Exists(<<key[t], n>>)
          THEN /\ name' = [name EXCEPT ![t] = n]
               /\ todo' = [todo EXCEPT ![t] = @ \ {n}]
               /\ Goto(t, "remove") /\ UNCHANGED ret
          ELSE /\ todo' = [todo EXCEPT ![t] = {}]
               /\ Return(t, "fail") /\ UNCHANGED name
  /\ UNCHANGED <<fsVars, cache, op, key, lvl, buf, faults>>

\* remove(child), whose failure is not looked at
DeleteRemove(t) ==
  /\ At(t, "remove")
  /\ \/ Remove(Target(t)) /\ NoFault
     \/ Fault /\ UNCHANGED fsVars
  /\ Goto(t, "next")
  /\ UNCHANGED <<cache, local, lvl, todo, buf, ret>>

\* Mutant: the result of rmdir is ignored.
DeleteRmdirIgnored(t) ==
  /\ At(t, "rmdir")
  /\ IF CanRmdir(key[t]) THEN Rmdir(key[t]) ELSE UNCHANGED fsVars
  /\ Return(t, "ok")
  /\ UNCHANGED <<cache, local, lvl, todo, buf, faults>>

\* Mutant: a directory that is not empty is emptied again.
DeleteRmdirRetried(t) ==
  /\ At(t, "rmdir")
  /\ \/ CanRmdir(key[t]) /\ Rmdir(key[t]) /\ Return(t, "ok")
     \/ ~CanRmdir(key[t]) /\ Goto(t, "opendir") /\ UNCHANGED <<fsVars, ret>>
  /\ UNCHANGED <<cache, local, lvl, todo, buf, faults>>

\* rmdir(path) fails on a directory that got or kept a file, or is gone.
DeleteRmdir(t) ==
  /\ At(t, "rmdir")
  /\ \/ CanRmdir(key[t]) /\ NoFault /\ Rmdir(key[t]) /\ Return(t, "ok")
     \/ /\ \/ ~CanRmdir(key[t]) /\ NoFault
           \/ Fault
        /\ Return(t, "fail") /\ UNCHANGED fsVars
  /\ UNCHANGED <<cache, local, lvl, todo, buf>>

AdminImg(t) == \/ AdminIsDir(t) \/ DeleteOpendir(t) \/ DeleteNext(t)
               \/ DeleteRemove(t) \/ DeleteRmdir(t)

-----------------------------------------------------------------------------
(* info_img *)

\* is_dir(whole_path)
InfoIsDir(t) ==
  /\ At(t, "idir")
  /\ IF ImageDir(key[t]) \in dirs
     THEN Goto(t, "iread") /\ UNCHANGED ret
     ELSE Return(t, "notfound")
  /\ UNCHANGED <<fsVars, cache, local, lvl, todo, buf, faults>>

\* MagickReadImage(orig_path)
InfoRead(t) ==
  /\ At(t, "iread")
  /\ \E b \in DecodedFile(key[t]) :
       Return(t, IF b = "fail" THEN "fail" ELSE "ok")
  /\ UNCHANGED <<fsVars, cache, local, lvl, todo, buf, faults>>

InfoImg(t) == InfoIsDir(t) \/ InfoRead(t)

-----------------------------------------------------------------------------
\* The signal handler stops the event loop and the process exits under its
\* worker threads, or it dies; files and memcached survive it.
Crash ==
  /\ Fault
  /\ CloseAll
  /\ pc' = [t \in Threads |-> "idle"]
  /\ op' = [t \in Threads |-> "info"]
  /\ name' = [t \in Threads |-> "orig"]
  /\ lvl' = [t \in Threads |-> 1]
  /\ todo' = [t \in Threads |-> {}]
  /\ buf' = [t \in Threads |-> "none"]
  /\ ret' = [t \in Threads |-> "none"]
  /\ UNCHANGED <<cache, key>>

\* A worker goes on with the request it has.
Work(t) == \/ SaveImg(t) \/ NewImg(t) \/ GetImg(t) \/ AdminImg(t)
           \/ InfoImg(t) \/ Reply(t)

Next == Crash \/ \E t \in Threads : Start(t) \/ Work(t)

Spec == Init /\ [][Next]_vars

\* The operating system keeps running every thread that can run, and a thread
\* that waits for an inode to be truncated gets its turn among the writers.
FairSpec == /\ Spec
            /\ \A t \in Threads : WF_vars(Work(t)) /\ SF_vars(NewImgOpen(t))

-----------------------------------------------------------------------------
(* Properties *)

\* The bytes of f are those of a complete upload.
Complete(k) == Exists(<<k, "orig">>) /\ content[entry[<<k, "orig">>]] = "orig"

\* The labels between flock and its release in new_img.
Locked == {"write", "writing", "unlock"}

\* Between flock(LOCK_EX) and flock(LOCK_UN) in new_img a thread has the file
\* to itself: it holds the lock of the inode it writes, and no other thread
\* is past flock on that inode.
FlockExclusive ==
  /\ \A t \in Threads : pc[t] \in Locked => lock[fd[t]] = t
  /\ \A s, t \in Threads : /\ s # t
                           /\ pc[s] \in Locked
                           /\ pc[t] \in Locked
                           => fd[s] # fd[t]

\* The settings under which get_img has no reason to save what it made of a
\* request for the original: save_new = 2 saves every request that has a
\* type, and only with the script on is the file then named by the type.
KeepsOriginals == SaveNew = 0 \/ (SaveNew = 2 /\ ScriptOn)

\* Under those settings the file 0*0 never holds anything but the uploaded
\* bytes or a beginning of them, although get_img writes conversions into the
\* same directory with the same new_img, under names it makes from the request.
OriginalNeverConverted ==
  KeepsOriginals =>
    \A k \in Keys : Exists(<<k, "orig">>) =>
      content[entry[<<k, "orig">>]] \in {"empty", "part", "orig"}

\* No path through the handlers keeps a file open after the answer, and no
\* flock outlives the new_img that took it.  (The directory streams are
\* another matter: each delete_file leaves one in "streams".)
FilesClosed ==
  /\ \A t \in Threads : pc[t] = "idle" => fd[t] = NoInode
  /\ \A i \in Inodes : lock[i] # NoThread =>
        pc[lock[i]] \in NewImgLabels /\ fd[lock[i]] = i

\* When save_img returns success the whole image is on disk (in a system that
\* deletes nothing, and while no call has failed).
UploadStored ==
  faults = 0 => \A t \in Threads :
    pc[t] = "reply" /\ op[t] = "upload" /\ ret[t] = "ok" => Complete(key[t])

\* When new_img is about to return success, every byte of the image is in the
\* file that it wrote, although write(2) may stop short.
NewImgWrote ==
  \A t \in Threads : pc[t] = "close" /\ ret[t] = "ok" => content[fd[t]] = buf[t]

\* Only a delete's remove() takes a complete original away; no upload, no
\* saved conversion and no restart of the server does.
StoredUntilDeleted ==
  [][\A k \in Keys : Complete(k) /\ ~Complete(k)' =>
       \E t \in Threads : pc[t] = "remove" /\ key[t] = k]_vars

\* While no system call failed and no process died, an original that is not
\* complete has a thread inside new_img at work on it.
IncompleteHasWriter ==
  faults = 0 =>
    \A k \in Keys : Exists(<<k, "orig">>) /\ ~Complete(k) =>
      \E t \in Threads : pc[t] \in NewImgLabels /\ fd[t] = entry[<<k, "orig">>]

\* Requests that follow one another find in the cache what the store would
\* have given them: under the image's own key the image, under a request's
\* key the conversion that was asked for, and never a part of a file.
CacheSound ==
  \A k \in Keys, n \in Names : cache[<<k, n>>] \in
    {"none"} \union (IF n = "orig" THEN {"orig", "reenc"} ELSE {"conv", "reenc"})

\* Requests that follow one another fail only for a reason: every upload
\* succeeds, every delete of an image that is there succeeds, and an image
\* whose directory exists can be got back and described.
NoSpuriousFailure ==
  faults = 0 =>
    \A t \in Threads : /\ pc[t] = "reply"
                       /\ \/ op[t] \in {"upload", "delete"}
                          \/ op[t] = "info" /\ key[t] \in Pictures
                          \/ /\ op[t] = "get" /\ name[t] = "orig"
                             /\ ImageDir(key[t]) \in dirs
                       => ret[t] # "fail"

\* Every request is answered, whatever the other threads do: LOCK_NB never
\* waits and every loop of the code ends.
Answered == \A t \in Threads : pc[t] # "idle" ~> pc[t] = "idle"
=============================================================================
