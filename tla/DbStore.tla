------------------------------- MODULE DbStore -------------------------------
(***************************************************************************)
(* zimg over a database (settings.mode = 2, beansdb, or 3, ssdb): the      *)
(* worker threads of zdb.c save, get, delete and describe images through   *)
(* one connection each.  A step of a thread is one database or cache call  *)
(* together with the local computation that follows it.                    *)
(***************************************************************************)
EXTENDS Naturals

CONSTANTS Threads,    \* the worker threads of the server
          Keys,       \* images, named by the md5 of their bytes
          Variants,   \* what distinguishes the database keys of conversions
          Default,    \* the variant of a request without parameters
          Typed,      \* the variants made by a lua script (t=type)
          Mode,       \* settings.mode: 2 or 3
          ScriptOn,   \* settings.script_on = 1
          SaveNew,    \* settings.save_new: 0, 1 or 2
          CacheOn,    \* settings.cache_on
          Etag,       \* settings.etag = 1
          Pictures,   \* the keys whose bytes ImageMagick can decode
          Role,       \* Role[t]: the requests that thread t may receive
          MaxFaults   \* bound on failed calls and process deaths

Ops == {"upload", "get", "delete", "command", "info"}

ASSUME VariantsAssumption == "orig" \notin Variants
ASSUME DefaultAssumption == Default \in Variants
ASSUME TypedAssumption == Typed \subseteq Variants \ {Default}
ASSUME ScriptAssumption == /\ ScriptOn \in BOOLEAN
                           /\ ~ScriptOn => Typed = {}
ASSUME SettingsAssumption == /\ Mode \in {2, 3} /\ SaveNew \in 0..2
                             /\ CacheOn \in BOOLEAN /\ Etag \in BOOLEAN
ASSUME PicturesAssumption == Pictures \subseteq Keys
ASSUME RoleAssumption == Role \in [Threads -> SUBSET Ops]
ASSUME MaxFaultsAssumption == MaxFaults \in Nat

VARIABLES db,       \* db[f]: the blob the database keeps under f's key
          cache,    \* cache[f]: the blob memcached keeps under f's key
          conn,     \* conn[t]: the state of thread t's database connection
          alive,    \* the process is running
          pc,       \* pc[t]: the call that thread t makes next
          op, key, name,  \* the request of thread t
          buf,      \* buf[t]: the bytes thread t holds
          ret,      \* ret[t]: result of the function that serves the request
          faults    \* failed calls and process deaths so far

local == <<op, key, name>>
vars == <<db, cache, conn, alive, pc, local, buf, ret, faults>>

\* The original's key is the md5 itself, called "orig" here.
Names == {"orig"} \union Variants
Files == Keys \X Names

\* Uploaded bytes, or what ImageMagick made of them.
Blobs == {"none", "orig", "conv"}
Results == {"none", "ok", "fail", "notfound", "notmodified"}
Target(t) == <<key[t], name[t]>>
Original(t) == <<key[t], "orig">>

\* A redisContext that saw an error fails every later command; one that could
\* not connect is NULL.  libmemcached reconnects by itself.
Conns == {"up"} \union (IF Mode = 3 THEN {"broken", "null"} ELSE {})

Labels == {"idle", "reply", "uexist", "uset", "gexist", "gcache", "gdb", "gset",
           "gcacheorig", "gdborig", "gsetorig", "gconvert", "gsetconv",
           "gsetconvsave", "gsave", "aexist", "adel", "iget"}

\* Keys and the cache hold whole blobs, a thread is at a call of the request that
\* it serves, and no more calls fail than the bound allows.
TypeOK ==
  /\ db \in [Files -> Blobs]
  /\ cache \in [Files -> Blobs]
  /\ conn \in [Threads -> Conns]
  /\ alive \in BOOLEAN
  /\ pc \in [Threads -> Labels]
  /\ op \in [Threads -> Ops]
  /\ key \in [Threads -> Keys]
  /\ name \in [Threads -> Names]
  /\ buf \in [Threads -> Blobs]
  /\ ret \in [Threads -> Results]
  /\ faults \in 0..MaxFaults

\* init_thread: a connection to ssdb may fail, and then stays NULL.
Connected(c) ==
  /\ c \in [Threads -> Conns \ {"broken"}]
  /\ MaxFaults = 0 => \A t \in Threads : c[t] = "up"

Init ==
  /\ db = [f \in Files |-> "none"]
  /\ cache = [f \in Files |-> "none"]
  /\ conn \in [Threads -> Conns] /\ Connected(conn)
  /\ alive = TRUE
  /\ pc = [t \in Threads |-> "idle"]
  /\ op = [t \in Threads |-> "info"]
  /\ key \in [Threads -> Keys]
  /\ name = [t \in Threads |-> "orig"]
  /\ buf = [t \in Threads |-> "none"]
  /\ ret = [t \in Threads |-> "none"]
  /\ faults = 0

-----------------------------------------------------------------------------
(* Control *)

At(t, label) == pc[t] = label
Goto(t, label) == pc' = [pc EXCEPT ![t] = label]
Hold(t, bytes) == buf' = [buf EXCEPT ![t] = bytes]
Return(t, r) == /\ Goto(t, "reply")
                /\ ret' = [ret EXCEPT ![t] = r]

Fault == faults < MaxFaults /\ faults' = faults + 1
NoFault == faults' = faults

\* memcached_set without a reply, in the NOREPLY mode of the cache; any lookup
\* may miss, so a lost or evicted blob is one that every lookup misses.
SetCache(f, bytes) ==
  IF ~CacheOn
  THEN UNCHANGED cache
  ELSE \/ cache' = [cache EXCEPT ![f] = bytes]
       \/ cache[f] # "none" /\ UNCHANGED cache

-----------------------------------------------------------------------------
(* Calls to the database *)

\* The server answers.
Answers(t) == conn[t] = "up" /\ NoFault /\ UNCHANGED conn

\* The call returns -1 at once or with an error from the server.
Refused(t) == /\ \/ conn[t] = "null" /\ NoFault
                 \/ conn[t] = "up" /\ Fault
              /\ UNCHANGED conn

\* redisCommand returns NULL.
NoReply(t) == /\ Mode = 3
              /\ \/ conn[t] = "broken" /\ NoFault /\ UNCHANGED conn
                 \/ conn[t] = "up" /\ Fault /\ conn' = [conn EXCEPT ![t] = "broken"]

Failed(t) == Refused(t) \/ NoReply(t)

\* A command whose answer got lost may have been carried out.
MayHaveSet(t, f, bytes) ==
  db' \in {db} \union (IF conn[t] = "up" THEN {[db EXCEPT ![f] = bytes]} ELSE {})

\* exist_ssdb and del_ssdb free the reply they did not get: freeReplyObject of
\* this hiredis reads its type, and the process dies.
Dies(t) ==
  /\ NoReply(t)
  /\ alive' = FALSE
  /\ pc' = [s \in Threads |-> "idle"]
  /\ op' = [s \in Threads |-> "info"]
  /\ name' = [s \in Threads |-> "orig"]
  /\ buf' = [s \in Threads |-> "none"]
  /\ ret' = [s \in Threads |-> "none"]
  /\ UNCHANGED <<cache, key>>

-----------------------------------------------------------------------------
(* Requests *)

\* The first call that a request makes.
FirstCall(o) == CASE o = "upload" -> "uexist"
                  [] o = "get"    -> "gexist"
                  [] o = "info"   -> "iget"
                  [] OTHER        -> "aexist"

\* A request reaches an idle worker.
Start(t) ==
  /\ At(t, "idle")
  /\ \E o \in Role[t], k \in Keys, n \in Names :
       /\ o # "get" => n = "orig"
       /\ op' = [op EXCEPT ![t] = o]
       /\ key' = [key EXCEPT ![t] = k]
       /\ name' = [name EXCEPT ![t] = n]
       /\ Hold(t, IF o = "upload" THEN "orig" ELSE "none")
       /\ Goto(t, FirstCall(o))
  /\ UNCHANGED <<db, cache, conn, alive, ret, faults>>

\* The callback sends the answer.
Reply(t) ==
  /\ At(t, "reply")
  /\ Goto(t, "idle")
  /\ Hold(t, "none")
  /\ ret' = [ret EXCEPT ![t] = "none"]
  /\ op' = [op EXCEPT ![t] = "info"]
  /\ name' = [name EXCEPT ![t] = "orig"]
  /\ UNCHANGED <<db, cache, conn, alive, key, faults>>

-----------------------------------------------------------------------------
(* save_img *)

\* Mutant: an answer that did not come counts as "exists".
UploadExistTrusting(t) ==
  /\ At(t, "uexist")
  /\ \/ Answers(t) /\ db[Original(t)] = "none" /\ Goto(t, "uset") /\ UNCHANGED ret
     \/ Answers(t) /\ db[Original(t)] # "none" /\ Return(t, "ok")
     \/ Refused(t) /\ Return(t, "ok")
  /\ UNCHANGED <<db, cache, alive, local, buf>>

\* exist_db(md5sum): whatever is not a clear yes makes the image be saved.
UploadExist(t) ==
  /\ At(t, "uexist")
  /\ \/ /\ \/ Answers(t) /\ db[Original(t)] = "none"
           \/ Refused(t)
        /\ Goto(t, "uset")
        /\ UNCHANGED <<db, cache, alive, local, buf, ret>>
     \/ /\ Answers(t) /\ db[Original(t)] # "none"
        /\ Return(t, "ok")
        /\ UNCHANGED <<db, cache, alive, local, buf>>
     \/ Dies(t) /\ UNCHANGED db

\* save_img_db(md5sum, buff)
UploadSet(t) ==
  /\ At(t, "uset")
  /\ \/ Answers(t) /\ db' = [db EXCEPT ![Original(t)] = buf[t]] /\ Return(t, "ok")
     \/ Failed(t) /\ MayHaveSet(t, Original(t), buf[t]) /\ Return(t, "fail")
  /\ UNCHANGED <<cache, alive, local, buf>>

-----------------------------------------------------------------------------
(* get_img_mode_db *)

\* done: the etag of the bytes may match the client's (304), and the bytes
\* are added to the output buffer, which may fail.
Finish(t) == \/ Return(t, "ok") /\ NoFault
             \/ Etag /\ Return(t, "notmodified") /\ NoFault
             \/ Fault /\ Return(t, "fail")

\* Mutant: the cache is asked before the database.
GetExistSkipped(t) ==
  /\ At(t, "gexist")
  /\ Goto(t, "gcache")
  /\ UNCHANGED <<db, cache, conn, alive, local, buf, ret, faults>>

\* exist_db(md5)
GetExist(t) ==
  /\ At(t, "gexist")
  /\ \/ /\ Answers(t) /\ db[Original(t)] # "none"
        /\ Goto(t, "gcache")
        /\ UNCHANGED <<db, cache, alive, local, buf, ret>>
     \/ /\ \/ Answers(t) /\ db[Original(t)] = "none"
           \/ Refused(t)
        /\ Return(t, "fail")
        /\ UNCHANGED <<db, cache, alive, local, buf>>
     \/ Dies(t) /\ UNCHANGED db

\* find_cache_bin(rsp_cache_key); any lookup may miss.
GetFindCache(t) ==
  /\ At(t, "gcache")
  /\ \/ /\ cache[Target(t)] # "none"
        /\ Hold(t, cache[Target(t)])
        /\ Finish(t)
     \/ Goto(t, "gdb") /\ UNCHANGED <<buf, ret, faults>>
  /\ UNCHANGED <<db, cache, conn, alive, local>>

\* get_img_db(rsp_cache_key)
GetFindDb(t) ==
  /\ At(t, "gdb")
  /\ \/ Answers(t) /\ db[Target(t)] # "none" /\ Hold(t, db[Target(t)]) /\ Goto(t, "gset")
     \/ /\ \/ Answers(t) /\ db[Target(t)] = "none"
           \/ Failed(t)
        /\ Goto(t, "gcacheorig") /\ UNCHANGED buf
  /\ UNCHANGED <<db, cache, alive, local, ret>>

\* set_cache_bin(rsp_cache_key, buff)
GetSetCache(t) ==
  /\ At(t, "gset")
  /\ SetCache(Target(t), buf[t])
  /\ Finish(t)
  /\ UNCHANGED <<db, conn, alive, local, buf>>

\* find_cache_bin(md5)
GetFindOriginal(t) ==
  /\ At(t, "gcacheorig")
  /\ \/ /\ cache[Original(t)] # "none"
        /\ Hold(t, cache[Original(t)])
        /\ Goto(t, "gconvert")
     \/ Goto(t, "gdborig") /\ UNCHANGED buf
  /\ UNCHANGED <<db, cache, conn, alive, local, ret, faults>>

\* get_img_db(md5)
GetFindOriginalDb(t) ==
  /\ At(t, "gdborig")
  /\ \/ /\ Answers(t) /\ db[Original(t)] # "none"
        /\ Hold(t, db[Original(t)])
        /\ Goto(t, "gsetorig") /\ UNCHANGED ret
     \/ /\ \/ Answers(t) /\ db[Original(t)] = "none"
           \/ Failed(t)
        /\ Return(t, "fail") /\ UNCHANGED buf
  /\ UNCHANGED <<db, cache, alive, local>>

\* set_cache_bin(md5, orig_buff)
GetSetOriginal(t) ==
  /\ At(t, "gsetorig")
  /\ SetCache(Original(t), buf[t])
  /\ Goto(t, "gconvert")
  /\ UNCHANGED <<db, conn, alive, local, buf, ret, faults>>

\* Whether the request for n has a type (t=).  With the script on the type is
\* what names the variant; with it off the type is read all the same, and
\* names nothing, so that a request for any variant may have one.
HasType(n) == IF ScriptOn THEN {n \in Typed} ELSE BOOLEAN

\* Mutant: what was converted is saved, whatever the setting.
SavedAlways(type) == type \in BOOLEAN

\* settings.save_new asks for the type, and not for the script: sv is 1 for a
\* request without parameters.
Saved(type) == \/ SaveNew = 1
               \/ SaveNew = 2 /\ type

\* MagickReadImageBlob, convert or lua_convert, and MagickGetImageBlob.  When
\* the first or the last of them fails, result is 0 or 1 and not -1: the
\* request is answered like a success, without an image.
GetConvert(t) ==
  /\ At(t, "gconvert")
  /\ \/ Return(t, "ok") /\ Hold(t, "none")
     \/ key[t] \in Pictures /\ Return(t, "fail") /\ UNCHANGED buf
     \/ /\ key[t] \in Pictures
        /\ Hold(t, "conv")
        /\ \/ name[t] \in Typed /\ Goto(t, "gsetconv")
           \/ \E sv \in {FALSE, name[t] = Default}, type \in HasType(name[t]) :
                Goto(t, IF sv \/ Saved(type) THEN "gsetconvsave" ELSE "gsetconv")
        /\ UNCHANGED ret
  /\ UNCHANGED <<db, cache, conn, alive, local, faults>>

\* set_cache_bin(rsp_cache_key, buff) of an image that is not to be saved
GetCacheConverted(t) ==
  /\ At(t, "gsetconv")
  /\ SetCache(Target(t), buf[t])
  /\ Finish(t)
  /\ UNCHANGED <<db, conn, alive, local, buf>>

\* Mutant: the conversion is cached under the image's own key.
GetCacheByMd5(t) ==
  /\ At(t, "gsetconvsave")
  /\ SetCache(Original(t), buf[t])
  /\ Goto(t, "gsave") /\ NoFault /\ UNCHANGED ret
  /\ UNCHANGED <<db, conn, alive, local, buf>>

\* set_cache_bin(rsp_cache_key, buff) of an image that is: a 304 or a failure
\* of evbuffer_add comes before the save.
GetCacheToSave(t) ==
  /\ At(t, "gsetconvsave")
  /\ SetCache(Target(t), buf[t])
  /\ \/ Goto(t, "gsave") /\ NoFault /\ UNCHANGED ret
     \/ Etag /\ Return(t, "notmodified") /\ NoFault
     \/ Fault /\ Return(t, "fail")
  /\ UNCHANGED <<db, conn, alive, local, buf>>

\* save_img_db(rsp_cache_key, buff); its result is ignored.
GetSave(t) ==
  /\ At(t, "gsave")
  /\ \/ Answers(t) /\ db' = [db EXCEPT ![Target(t)] = buf[t]]
     \/ Failed(t) /\ MayHaveSet(t, Target(t), buf[t])
  /\ Return(t, "ok")
  /\ UNCHANGED <<cache, alive, local, buf>>

GetImg(t) == \/ GetExist(t) \/ GetFindCache(t) \/ GetFindDb(t) \/ GetSetCache(t)
             \/ GetFindOriginal(t) \/ GetFindOriginalDb(t) \/ GetSetOriginal(t)
             \/ GetConvert(t) \/ GetCacheConverted(t) \/ GetCacheToSave(t)
             \/ GetSave(t)

-----------------------------------------------------------------------------
(* admin_img_mode_db *)

\* exist_db(md5) sets result to 1; only command type 1 does anything.
AdminExist(t) ==
  /\ At(t, "aexist")
  /\ \/ /\ Answers(t) /\ db[Original(t)] # "none"
        /\ IF op[t] = "delete" THEN Goto(t, "adel") /\ UNCHANGED ret
                               ELSE Return(t, "ok")
        /\ UNCHANGED <<db, cache, alive, local, buf>>
     \/ /\ \/ Answers(t) /\ db[Original(t)] = "none"
           \/ Refused(t)
        /\ Return(t, "notfound")
        /\ UNCHANGED <<db, cache, alive, local, buf>>
     \/ Dies(t) /\ UNCHANGED db

\* del_db(md5): when it fails, result is still exist_db's 1.
AdminDel(t) ==
  /\ At(t, "adel")
  /\ \/ /\ \/ Answers(t) /\ db' = [db EXCEPT ![Original(t)] = "none"]
           \/ Refused(t) /\ MayHaveSet(t, Original(t), "none")
        /\ Return(t, "ok")
        /\ UNCHANGED <<cache, alive, local, buf>>
     \/ Dies(t) /\ MayHaveSet(t, Original(t), "none")

-----------------------------------------------------------------------------
(* info_img_mode_db *)

\* Mutant: what get_img_db returned is passed on as it is.
InfoGetUnmapped(t) ==
  /\ At(t, "iget")
  /\ \/ Answers(t) /\ Return(t, "ok")
     \/ Failed(t) /\ Return(t, "error")
  /\ UNCHANGED <<db, cache, alive, local, buf>>

\* get_img_db(md5) and MagickReadImageBlob
InfoGet(t) ==
  /\ At(t, "iget")
  /\ \/ /\ Answers(t) /\ db[Original(t)] # "none"
        /\ Return(t, IF key[t] \in Pictures THEN "ok" ELSE "fail")
     \/ /\ \/ Answers(t) /\ db[Original(t)] = "none"
           \/ Failed(t)
        /\ Return(t, "notfound")
  /\ UNCHANGED <<db, cache, alive, local, buf>>

-----------------------------------------------------------------------------
\* The process is stopped or dies, and is started again.
Restart ==
  /\ IF alive THEN Fault ELSE NoFault
  /\ alive' = TRUE
  /\ conn' \in [Threads -> Conns] /\ Connected(conn')
  /\ pc' = [t \in Threads |-> "idle"]
  /\ op' = [t \in Threads |-> "info"]
  /\ name' = [t \in Threads |-> "orig"]
  /\ buf' = [t \in Threads |-> "none"]
  /\ ret' = [t \in Threads |-> "none"]
  /\ UNCHANGED <<db, cache, key>>

Work(t) == \/ UploadExist(t) \/ UploadSet(t) \/ GetImg(t)
           \/ AdminExist(t) \/ AdminDel(t) \/ InfoGet(t) \/ Reply(t)

Next == Restart \/ \E t \in Threads : alive /\ (Start(t) \/ Work(t))

Spec == Init /\ [][Next]_vars

-----------------------------------------------------------------------------
(* Properties *)

\* The settings under which get_img_mode_db has no reason to save what it made
\* of a request for the original: save_new = 2 saves every request that has a
\* type, and only with the script on does the type make the key.
KeepsOriginals == SaveNew = 0 \/ (SaveNew = 2 /\ ScriptOn)

\* Under those settings what is saved under the md5 of an image is what was
\* uploaded, whatever call fails and whoever deletes the image meanwhile: a
\* conversion has a key of its own.
OriginalNeverConverted ==
  KeepsOriginals => \A k \in Keys : db[<<k, "orig">>] # "conv"

\* When save_img returns success the image is in the database (in a system
\* that deletes nothing), whatever exist_db made of an answer it did not get.
UploadStored ==
  \A t \in Threads :
    pc[t] = "reply" /\ op[t] = "upload" /\ ret[t] = "ok" => db[Original(t)] = "orig"

\* A request for the original is answered with the bytes that were uploaded
\* (in a system that deletes nothing, and while no call has failed), although
\* the cache keeps conversions beside it and any lookup may miss.
OriginalVerbatim ==
  faults = 0 => \A t \in Threads :
    pc[t] = "reply" /\ op[t] = "get" /\ name[t] = "orig" /\ ret[t] = "ok"
      => buf[t] = "orig"

\* "1 for OK and -1 for fail": a failed database call is one more result.
SurvivesFailedCalls == alive
=============================================================================
