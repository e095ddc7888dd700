---------------------------- MODULE DbStoreProofs ----------------------------
(***************************************************************************)
(* Proofs about DbStore, for any threads, images, variants, settings and   *)
(* number of failed calls: type correctness, and that the md5 of an image  *)
(* never names a conversion.                                               *)
(***************************************************************************)
EXTENDS DbStoreRefines, TLAPS

Step(t) == alive /\ (Start(t) \/ Work(t))

USE DEF At, Goto, Hold, Return, local

LEMMA FilesType ==
  ASSUME TypeOK, NEW t \in Threads
  PROVE  /\ Target(t) \in Files /\ Original(t) \in Files
         /\ buf[t] \in Blobs
  BY DEF TypeOK, Target, Original, Files, Names

LEMMA FirstCallOf ==
  ASSUME NEW o \in Ops
  PROVE  \/ o = "upload" /\ FirstCall(o) = "uexist"
         \/ o = "get" /\ FirstCall(o) = "gexist"
         \/ o = "info" /\ FirstCall(o) = "iget"
         \/ o \in {"delete", "command"} /\ FirstCall(o) = "aexist"
  BY DEF FirstCall, Ops

LEMMA InitType == Init => TypeOK
  BY MaxFaultsAssumption DEF Init, TypeOK, Blobs, Labels, Ops, Names, Results

LEMMA FaultType ==
  ASSUME faults \in 0..MaxFaults, Fault \/ NoFault \/ UNCHANGED faults
  PROVE  faults' \in 0..MaxFaults
  BY MaxFaultsAssumption DEF Fault, NoFault

LEMMA SetCacheType ==
  ASSUME cache \in [Files -> Blobs], NEW f \in Files, NEW b \in Blobs, SetCache(f, b)
  PROVE  cache' \in [Files -> Blobs]
  BY DEF SetCache

LEMMA CallType ==
  ASSUME TypeOK, NEW t \in Threads, Answers(t) \/ Failed(t)
  PROVE  conn' \in [Threads -> Conns] /\ faults' \in 0..MaxFaults
  <1>1. conn' \in [Threads -> Conns]
    BY DEF TypeOK, Answers, Failed, Refused, NoReply, Conns
  <1>2. Fault \/ NoFault
    BY DEF Answers, Failed, Refused, NoReply
  <1>3. QED
    BY <1>1, <1>2, FaultType DEF TypeOK

LEMMA MayHaveSetType ==
  ASSUME db \in [Files -> Blobs], NEW t \in Threads, NEW f \in Files,
         NEW b \in Blobs, MayHaveSet(t, f, b)
  PROVE  db' \in [Files -> Blobs]
  BY DEF MayHaveSet

LEMMA DiesType ==
  ASSUME TypeOK, NEW t \in Threads, Dies(t), db' \in [Files -> Blobs]
  PROVE  TypeOK'
  <1>1. conn' \in [Threads -> Conns] /\ faults' \in 0..MaxFaults
    BY CallType DEF Dies, Failed
  <1>2. QED
    BY <1>1 DEF TypeOK, Dies, Labels, Ops, Names, Blobs, Results

LEMMA StepType ==
  ASSUME TypeOK, NEW t \in Threads, Step(t)
  PROVE  TypeOK'
  <1>1. /\ Target(t) \in Files /\ Original(t) \in Files /\ buf[t] \in Blobs
        /\ "none" \in Blobs /\ "conv" \in Blobs
    BY FilesType DEF Blobs
  <1>2. CASE Start(t)
    <2>1. PICK o \in Role[t], k \in Keys, n \in Names :
            /\ op' = [op EXCEPT ![t] = o]
            /\ key' = [key EXCEPT ![t] = k]
            /\ name' = [name EXCEPT ![t] = n]
            /\ buf' = [buf EXCEPT ![t] = IF o = "upload" THEN "orig" ELSE "none"]
            /\ pc' = [pc EXCEPT ![t] = FirstCall(o)]
      BY <1>2 DEF Start
    <2>2. o \in Ops
      BY <2>1, RoleAssumption
    <2>3. FirstCall(o) \in Labels
      BY <2>2, FirstCallOf DEF Labels
    <2>4. QED
      BY <1>2, <2>1, <2>2, <2>3 DEF Start, TypeOK, Blobs
  <1>3. CASE Reply(t)
    BY <1>3 DEF Reply, TypeOK, Labels, Ops, Names, Blobs, Results
  <1>4. CASE UploadExist(t)
    <2>1. CASE Dies(t) /\ UNCHANGED db
      BY <2>1, DiesType DEF TypeOK
    <2>2. CASE ~Dies(t)
      BY <1>4, <2>2, CallType DEF UploadExist, Failed, TypeOK, Labels, Results
    <2>3. QED
      BY <1>4, <2>1, <2>2 DEF UploadExist
  <1>5. CASE UploadSet(t)
    <2>1. db' \in [Files -> Blobs]
      BY <1>1, <1>5, MayHaveSetType DEF UploadSet, TypeOK
    <2>2. QED
      BY <1>5, <2>1, CallType DEF UploadSet, TypeOK, Labels, Results
  <1>6. CASE GetImg(t)
    <2> USE DEF TypeOK, Labels, Results
    <2>1. CASE GetExist(t)
      <3>1. CASE Dies(t) /\ UNCHANGED db
        BY <3>1, DiesType
      <3>2. CASE ~Dies(t)
        BY <2>1, <3>2, CallType DEF GetExist, Failed
      <3>3. QED
        BY <2>1, <3>1, <3>2 DEF GetExist
    <2>2. CASE GetFindCache(t)
      BY <1>1, <2>2, FaultType DEF GetFindCache, Finish
    <2>3. CASE GetFindDb(t)
      BY <1>1, <2>3, CallType DEF GetFindDb
    <2>4. CASE GetSetCache(t)
      BY <1>1, <2>4, FaultType, SetCacheType DEF GetSetCache, Finish
    <2>5. CASE GetFindOriginal(t)
      BY <1>1, <2>5 DEF GetFindOriginal
    <2>6. CASE GetFindOriginalDb(t)
      BY <1>1, <2>6, CallType DEF GetFindOriginalDb
    <2>7. CASE GetSetOriginal(t)
      BY <1>1, <2>7, SetCacheType DEF GetSetOriginal
    <2>8. CASE GetConvert(t)
      BY <1>1, <2>8 DEF GetConvert
    <2>9. CASE GetCacheConverted(t)
      BY <1>1, <2>9, FaultType, SetCacheType DEF GetCacheConverted, Finish
    <2>10. CASE GetCacheToSave(t)
      BY <1>1, <2>10, FaultType, SetCacheType DEF GetCacheToSave
    <2>11. CASE GetSave(t)
      <3>1. db' \in [Files -> Blobs]
        BY <1>1, <2>11, MayHaveSetType DEF GetSave
      <3>2. QED
        BY <2>11, <3>1, CallType DEF GetSave
    <2>12. QED
      BY <1>6, <2>1, <2>2, <2>3, <2>4, <2>5, <2>6, <2>7, <2>8, <2>9, <2>10, <2>11
      DEF GetImg
  <1>7. CASE AdminExist(t)
    <2>1. CASE Dies(t) /\ UNCHANGED db
      BY <2>1, DiesType DEF TypeOK
    <2>2. CASE ~Dies(t)
      BY <1>7, <2>2, CallType DEF AdminExist, Failed, TypeOK, Labels, Results
    <2>3. QED
      BY <1>7, <2>1, <2>2 DEF AdminExist
  <1>8. CASE AdminDel(t)
    <2>1. db' \in [Files -> Blobs]
      BY <1>1, <1>8, MayHaveSetType DEF AdminDel, TypeOK
    <2>2. CASE Dies(t)
      BY <2>1, <2>2, DiesType
    <2>3. CASE ~Dies(t)
      BY <1>8, <2>1, <2>3, CallType DEF AdminDel, Failed, TypeOK, Labels, Results
    <2>4. QED
      BY <2>2, <2>3
  <1>9. CASE InfoGet(t)
    BY <1>9, CallType DEF InfoGet, TypeOK, Labels, Results
  <1>10. QED
    BY <1>2, <1>3, <1>4, <1>5, <1>6, <1>7, <1>8, <1>9 DEF Step, Work

LEMMA RestartType ==
  ASSUME TypeOK, Restart
  PROVE  TypeOK'
  BY FaultType DEF Restart, TypeOK, Labels, Ops, Names, Blobs, Results, NoFault

LEMMA NextType == TypeOK /\ [Next]_vars => TypeOK'
  <1>1. TypeOK /\ UNCHANGED vars => TypeOK'
    BY DEF TypeOK, vars
  <1>2. QED
    BY <1>1, StepType, RestartType DEF Next, Step

\* Every variable keeps its type, however many calls fail and however often
\* the process dies and starts again.
THEOREM TypeCorrect == Spec => []TypeOK
  BY InitType, NextType, PTL DEF Spec

-----------------------------------------------------------------------------
(* Conversions *)

\* What the threads that are going to write to the database hold: an upload
\* the bytes it received, a get a conversion, under a key that may be saved.
WriterOf(t) ==
  /\ pc[t] \in {"uexist", "uset"} => buf[t] = "orig"
  /\ pc[t] \in {"gsetconvsave", "gsave"} => ~KeepsOriginals \/ name[t] # "orig"

ConversionInv == OriginalNeverConverted /\ \A t \in Threads : WriterOf(t)

LEMMA InitConversionInv == Init => ConversionInv
  BY DEF Init, ConversionInv, OriginalNeverConverted, WriterOf, Files, Names

\* No thread but the one that moves changes what it holds, unless all die.
LEMMA StepWriter ==
  ASSUME TypeOK, \A r \in Threads : WriterOf(r), NEW t \in Threads, Step(t)
  PROVE  \A s \in Threads : WriterOf(s)'
  <1> SUFFICES ASSUME NEW s \in Threads PROVE WriterOf(s)'
    OBVIOUS
  <1>1. CASE \E r \in Threads : Dies(r)
    BY <1>1 DEF Dies, WriterOf
  <1> SUFFICES ASSUME ~Dies(t) PROVE WriterOf(s)'
    BY <1>1
  <1>2. WriterOf(s) /\ WriterOf(t)
    OBVIOUS
  <1> USE DEF WriterOf, TypeOK
  <1>3. CASE Start(t)
    <2>1. PICK o \in Role[t] :
            /\ buf' = [buf EXCEPT ![t] = IF o = "upload" THEN "orig" ELSE "none"]
            /\ pc' = [pc EXCEPT ![t] = FirstCall(o)]
      BY <1>3 DEF Start
    <2>2. o \in Ops
      BY <2>1, RoleAssumption
    <2>3. CASE s = t
      BY <2>1, <2>2, <2>3, FirstCallOf
    <2>4. CASE s # t
      BY <1>2, <1>3, <2>1, <2>4 DEF Start
    <2>5. QED
      BY <2>3, <2>4
  <1>4. CASE Reply(t)
    BY <1>2, <1>4 DEF Reply
  <1>5. CASE UploadExist(t) \/ UploadSet(t)
    BY <1>2, <1>5 DEF UploadExist, UploadSet
  <1>6. CASE GetConvert(t)
    <2>1. name[t] = "orig" => name[t] # Default /\ name[t] \notin Typed
      BY VariantsAssumption, DefaultAssumption, TypedAssumption
    <2>2. ASSUME name[t] = "orig", KeepsOriginals, NEW type \in HasType(name[t])
          PROVE  ~Saved(type)
      BY <2>1, <2>2 DEF Saved, HasType, KeepsOriginals
    <2>3. QED
      BY <1>2, <1>6, <2>1, <2>2 DEF GetConvert
  <1>7. CASE GetImg(t) /\ ~GetConvert(t)
    BY <1>2, <1>7
    DEF GetImg, GetExist, GetFindCache, GetFindDb, GetSetCache, GetFindOriginal,
        GetFindOriginalDb, GetSetOriginal, GetCacheConverted, GetCacheToSave,
        GetSave, Finish
  <1>8. CASE AdminExist(t) \/ AdminDel(t)
    BY <1>2, <1>8 DEF AdminExist, AdminDel
  <1>9. CASE InfoGet(t)
    BY <1>2, <1>9 DEF InfoGet
  <1>10. QED
    BY <1>3, <1>4, <1>5, <1>6, <1>7, <1>8, <1>9 DEF Step, Work

LEMMA StepOriginal ==
  ASSUME TypeOK, ConversionInv, NEW t \in Threads, Step(t)
  PROVE  OriginalNeverConverted'
  <1> SUFFICES ASSUME KeepsOriginals, NEW k \in Keys PROVE db'[<<k, "orig">>] # "conv"
    BY DEF OriginalNeverConverted
  <1>1. db[<<k, "orig">>] # "conv" /\ <<k, "orig">> \in Files /\ WriterOf(t)
    BY DEF ConversionInv, OriginalNeverConverted, Files, Names
  <1>2. db \in [Files -> Blobs]
    BY DEF TypeOK
  <1>3. CASE UploadSet(t)
    BY <1>1, <1>2, <1>3 DEF UploadSet, MayHaveSet, WriterOf
  <1>4. CASE GetSave(t)
    BY <1>1, <1>2, <1>4 DEF GetSave, MayHaveSet, WriterOf, Target
  <1>5. CASE AdminDel(t)
    BY <1>1, <1>2, <1>5 DEF AdminDel, MayHaveSet
  <1>6. CASE UNCHANGED db
    BY <1>1, <1>6
  <1>7. UploadSet(t) \/ GetSave(t) \/ AdminDel(t) \/ UNCHANGED db
    BY DEF Step, Work, Start, Reply, UploadExist, AdminExist, InfoGet, GetImg,
           GetExist, GetFindCache, GetFindDb, GetSetCache, GetFindOriginal,
           GetFindOriginalDb, GetSetOriginal, GetConvert, GetCacheConverted,
           GetCacheToSave
  <1>8. QED
    BY <1>3, <1>4, <1>5, <1>6, <1>7

LEMMA NextConversionInv == TypeOK /\ ConversionInv /\ [Next]_vars => ConversionInv'
  <1> SUFFICES ASSUME TypeOK, ConversionInv, [Next]_vars PROVE ConversionInv'
    OBVIOUS
  <1>1. ASSUME NEW t \in Threads, Step(t) PROVE ConversionInv'
    BY <1>1, StepWriter, StepOriginal DEF ConversionInv
  <1>2. CASE Restart
    BY <1>2 DEF Restart, ConversionInv, OriginalNeverConverted, WriterOf
  <1>3. CASE UNCHANGED vars
    BY <1>3 DEF vars, ConversionInv, OriginalNeverConverted, WriterOf
  <1>4. QED
    BY <1>1, <1>2, <1>3 DEF Next, Step

\* Under settings that keep originals, no failed call, lost answer, deletion or restart makes
\* get_img_mode_db save a conversion under the md5 of the image.
THEOREM OriginalsStay == Spec => []OriginalNeverConverted
  <1>1. ConversionInv => OriginalNeverConverted
    BY DEF ConversionInv
  <1>2. QED
    BY <1>1, InitConversionInv, NextConversionInv, TypeCorrect, PTL DEF Spec

-----------------------------------------------------------------------------
(* Requests *)

NobodyDeletes == \A t \in Threads : "delete" \notin Role[t]

\* A step of a thread leaves the requests of the others alone, unless it ends
\* the process.
LEMMA OthersKeepTheirs ==
  ASSUME TypeOK, NEW t \in Threads, Step(t), ~Dies(t), NEW s \in Threads, s # t
  PROVE  /\ pc'[s] = pc[s] /\ op'[s] = op[s] /\ ret'[s] = ret[s]
         /\ key'[s] = key[s] /\ name'[s] = name[s] /\ buf'[s] = buf[s]
  <1>1. /\ pc \in [Threads -> Labels] /\ op \in [Threads -> Ops]
        /\ ret \in [Threads -> Results] /\ key \in [Threads -> Keys]
        /\ name \in [Threads -> Names] /\ buf \in [Threads -> Blobs]
    BY DEF TypeOK
  <1>2. CASE Start(t) \/ Reply(t)
    BY <1>1, <1>2 DEF Start, Reply
  <1>3. CASE UploadExist(t) \/ UploadSet(t)
    BY <1>1, <1>3 DEF UploadExist, UploadSet
  <1>4. CASE GetImg(t)
    BY <1>1, <1>4
    DEF GetImg, GetExist, GetFindCache, GetFindDb, GetSetCache, GetFindOriginal,
        GetFindOriginalDb, GetSetOriginal, GetConvert, GetCacheConverted,
        GetCacheToSave, GetSave, Finish
  <1>5. CASE AdminExist(t) \/ AdminDel(t) \/ InfoGet(t)
    BY <1>1, <1>5 DEF AdminExist, AdminDel, InfoGet
  <1>6. QED
    BY <1>2, <1>3, <1>4, <1>5 DEF Step, Work

\* The request that a thread serves, at every label; none deletes where none may.
ServedBy(t) ==
  /\ pc[t] \in {"uexist", "uset"} => op[t] = "upload"
  /\ pc[t] \in {"gexist", "gcache", "gdb", "gset", "gcacheorig", "gdborig",
                "gsetorig", "gconvert", "gsetconv", "gsetconvsave", "gsave"}
       => op[t] = "get"
  /\ pc[t] = "aexist" => op[t] \in {"command", "delete"}
  /\ pc[t] = "adel" => op[t] = "delete"
  /\ pc[t] = "iget" => op[t] = "info"
  /\ NobodyDeletes => op[t] # "delete"

Serving == \A t \in Threads : ServedBy(t)

LEMMA InitServing == Init => Serving
  <1>1. ASSUME Init, NEW t \in Threads PROVE pc[t] = "idle" /\ op[t] = "info"
    BY <1>1 DEF Init
  <1>2. QED
    BY <1>1 DEF Serving, ServedBy

LEMMA StepServing ==
  ASSUME TypeOK, Serving, NEW t \in Threads, Step(t)
  PROVE  Serving'
  <1> SUFFICES ASSUME NEW s \in Threads PROVE ServedBy(s)'
    BY DEF Serving
  <1>1. CASE \E r \in Threads : Dies(r)
    BY <1>1 DEF Dies, ServedBy
  <1> SUFFICES ASSUME ~Dies(t) PROVE ServedBy(s)'
    BY <1>1
  <1>2. ServedBy(s) /\ ServedBy(t)
    BY DEF Serving
  <1> USE DEF ServedBy, TypeOK
  <1>3. CASE Start(t)
    <2>1. PICK o \in Role[t], n \in Names :
            /\ op' = [op EXCEPT ![t] = o]
            /\ pc' = [pc EXCEPT ![t] = FirstCall(o)]
      BY <1>3 DEF Start
    <2>2. o \in Ops /\ (NobodyDeletes => o # "delete")
      BY RoleAssumption DEF NobodyDeletes
    <2>3. /\ o \in {"upload", "get", "delete", "command", "info"}
          /\ NobodyDeletes => o # "delete"
      BY <2>2 DEF Ops
    <2>4. CASE s = t
      BY <2>1, <2>2, <2>3, <2>4, FirstCallOf
    <2>5. CASE s # t
      BY <1>2, <2>1, <2>5
    <2>6. QED
      BY <2>4, <2>5
  <1>4. CASE Reply(t)
    BY <1>2, <1>4 DEF Reply
  <1>5. CASE UploadExist(t) \/ UploadSet(t)
    BY <1>2, <1>5 DEF UploadExist, UploadSet
  <1>6. CASE GetImg(t)
    BY <1>2, <1>6
    DEF GetImg, GetExist, GetFindCache, GetFindDb, GetSetCache, GetFindOriginal,
        GetFindOriginalDb, GetSetOriginal, GetConvert, GetCacheConverted,
        GetCacheToSave, GetSave, Finish
  <1>7. CASE AdminExist(t) \/ AdminDel(t)
    BY <1>2, <1>7 DEF AdminExist, AdminDel
  <1>8. CASE InfoGet(t)
    BY <1>2, <1>8 DEF InfoGet
  <1>9. QED
    BY <1>3, <1>4, <1>5, <1>6, <1>7, <1>8 DEF Step, Work

LEMMA NextServing ==
  ASSUME TypeOK, Serving, [Next]_vars
  PROVE  Serving'
  <1>1. CASE Restart
    BY <1>1 DEF Restart, Serving, ServedBy
  <1>2. CASE UNCHANGED vars
    BY <1>2 DEF vars, Serving, ServedBy
  <1>3. QED
    BY <1>1, <1>2, StepServing DEF Next, Step

-----------------------------------------------------------------------------
(* Uploads *)

\* The bytes that were uploaded stay under their md5.
LEMMA StepKeeps ==
  ASSUME NobodyDeletes, KeepsOriginals, TypeOK, ConversionInv, Serving,
         NEW t \in Threads, Step(t),
         NEW k \in Keys, db[<<k, "orig">>] = "orig"
  PROVE  db'[<<k, "orig">>] = "orig"
  <1>1. <<k, "orig">> \in Files /\ WriterOf(t) /\ ServedBy(t)
    BY DEF ConversionInv, Serving, Files, Names
  <1>2. db \in [Files -> Blobs]
    BY DEF TypeOK
  <1>3. CASE UploadSet(t)
    BY <1>1, <1>2, <1>3 DEF UploadSet, MayHaveSet, WriterOf
  <1>4. CASE GetSave(t)
    BY <1>1, <1>2, <1>4 DEF GetSave, MayHaveSet, WriterOf, Target
  <1>5. ~AdminDel(t)
    BY <1>1 DEF AdminDel, ServedBy
  <1>6. UploadSet(t) \/ GetSave(t) \/ UNCHANGED db
    BY <1>5
    DEF Step, Work, Start, Reply, UploadExist, AdminExist, InfoGet, GetImg,
        GetExist, GetFindCache, GetFindDb, GetSetCache, GetFindOriginal,
        GetFindOriginalDb, GetSetOriginal, GetConvert, GetCacheConverted,
        GetCacheToSave
  <1>7. QED
    BY <1>3, <1>4, <1>6

\* An upload that gets its answer has found the image or written it.
LEMMA StepUploadStored ==
  ASSUME NobodyDeletes, KeepsOriginals, TypeOK, ConversionInv, Serving, UploadStored,
         NEW t \in Threads, Step(t)
  PROVE  UploadStored'
  <1> SUFFICES ASSUME NEW s \in Threads,
                      pc'[s] = "reply", op'[s] = "upload", ret'[s] = "ok"
               PROVE  db'[<<key'[s], "orig">>] = "orig"
    BY DEF UploadStored, Original
  <1>1. /\ ServedBy(t) /\ WriterOf(t) /\ ServedBy(s)
        /\ key[s] \in Keys /\ Original(s) \in Files
    BY DEF Serving, ConversionInv, TypeOK, Original, Files, Names
  <1>2. /\ pc \in [Threads -> Labels] /\ op \in [Threads -> Ops]
        /\ ret \in [Threads -> Results] /\ key \in [Threads -> Keys]
        /\ db \in [Files -> Blobs]
    BY DEF TypeOK
  <1>3. ~Dies(t)
    BY DEF Dies
  <1>4. CASE pc'[s] = pc[s] /\ op'[s] = op[s] /\ ret'[s] = ret[s] /\ key'[s] = key[s]
    BY <1>1, <1>4, StepKeeps DEF UploadStored, Original
  <1>5. CASE s = t /\ UploadExist(t)
    <2>1. Answers(t) /\ db[Original(t)] # "none" /\ UNCHANGED <<db, local>>
      BY <1>2, <1>3, <1>5 DEF UploadExist
    <2>2. db[Original(t)] # "conv"
      BY <1>1, <1>5 DEF ConversionInv, OriginalNeverConverted, Original
    <2>3. QED
      BY <1>1, <1>2, <1>5, <2>1, <2>2 DEF Original, Blobs
  <1>6. CASE s = t /\ UploadSet(t)
    BY <1>1, <1>2, <1>6 DEF UploadSet, WriterOf, Original
  <1>7. CASE s # t \/ ~(UploadExist(t) \/ UploadSet(t))
    <2>1. CASE s # t
      <3>1. pc'[s] = pc[s] /\ op'[s] = op[s] /\ ret'[s] = ret[s] /\ key'[s] = key[s]
        BY <1>3, <2>1, OthersKeepTheirs
      <3>2. QED
        BY <1>4, <3>1
    <2>2. CASE s = t /\ ~(UploadExist(t) \/ UploadSet(t))
      <3>1. ~Start(t)
        <4>1. ASSUME NEW o \in Role[t], pc' = [pc EXCEPT ![t] = FirstCall(o)]
              PROVE  FALSE
          BY <1>2, <2>2, <4>1, RoleAssumption, FirstCallOf
        <4>2. QED
          BY <4>1 DEF Start
      <3>2. ~Reply(t)
        BY <1>2, <2>2 DEF Reply
      <3>3. op'[t] = op[t]
        BY <1>3, <2>2, <3>1, <3>2
        DEF Step, Work, AdminExist, AdminDel, InfoGet, GetImg, GetExist,
            GetFindCache, GetFindDb, GetSetCache, GetFindOriginal,
            GetFindOriginalDb, GetSetOriginal, GetConvert, GetCacheConverted,
            GetCacheToSave, GetSave
      <3>4. ~GetImg(t)
        BY <1>1, <2>2, <3>3
        DEF ServedBy, GetImg, GetExist, GetFindCache, GetFindDb, GetSetCache,
            GetFindOriginal, GetFindOriginalDb, GetSetOriginal, GetConvert,
            GetCacheConverted, GetCacheToSave, GetSave
      <3>5. ~(AdminExist(t) \/ AdminDel(t) \/ InfoGet(t))
        BY <1>1, <2>2, <3>3 DEF ServedBy, AdminExist, AdminDel, InfoGet
      <3>6. QED
        BY <2>2, <3>1, <3>2, <3>4, <3>5 DEF Step, Work
    <2>3. QED
      BY <1>7, <2>1, <2>2
  <1>8. QED
    BY <1>5, <1>6, <1>7

LEMMA NextUploadStored ==
  ASSUME NobodyDeletes, KeepsOriginals, TypeOK, ConversionInv, Serving, UploadStored,
         [Next]_vars
  PROVE  UploadStored'
  <1>1. CASE Restart
    BY <1>1 DEF Restart, UploadStored
  <1>2. CASE UNCHANGED vars
    BY <1>2 DEF vars, UploadStored, Original
  <1>3. QED
    BY <1>1, <1>2, StepUploadStored DEF Next, Step

\* Where nobody deletes and the settings keep originals (save_new = 0, or 2 with
\* the script on), save_img's success means that the uploaded bytes are in the
\* database under their md5: whichever of exist_db and save_img_db fails,
\* whichever answer gets lost and whoever uploads or converts the same image
\* meanwhile.
THEOREM UploadsStored ==
  ASSUME NobodyDeletes, KeepsOriginals
  PROVE  Spec => []UploadStored
  <1>1. Init => Serving /\ ConversionInv /\ UploadStored
    BY InitServing, InitConversionInv DEF Init, UploadStored
  <1>2. TypeOK /\ Serving /\ ConversionInv /\ UploadStored /\ [Next]_vars
          => Serving' /\ ConversionInv' /\ UploadStored'
    BY NextServing, NextConversionInv, NextUploadStored
  <1>3. QED
    BY <1>1, <1>2, TypeCorrect, PTL DEF Spec

-----------------------------------------------------------------------------
(* Requests for the original *)

\* A get that passed exist_db has a connection and the image in the database; a
\* get of the original finds it there, and so does not come to convert it.
GetterOf(t) ==
  /\ conn[t] # "broken"
  /\ pc[t] \in {"gcache", "gdb"} => conn[t] = "up" /\ db[Original(t)] = "orig"
  /\ pc[t] = "gset" /\ name[t] = "orig" => buf[t] = "orig"
  /\ pc[t] = "gsetorig" => buf[t] = "orig"
  /\ pc[t] \in {"gcacheorig", "gdborig", "gsetorig", "gconvert", "gsetconv",
                "gsetconvsave", "gsave"} => name[t] # "orig"
  /\ pc[t] \in {"uexist", "uset"} => buf[t] = "orig"
  /\ pc[t] = "reply" /\ op[t] = "get" /\ name[t] = "orig" /\ ret[t] = "ok"
       => buf[t] = "orig"

\* The md5 of an image names its own bytes, in the database and in the cache.
OwnBytes == \A k \in Keys : /\ db[<<k, "orig">>] # "conv"
                            /\ cache[<<k, "orig">>] # "conv"

Faultless == faults = 0 => alive /\ OwnBytes /\ \A t \in Threads : GetterOf(t)

LEMMA InitFaultless == Init => Faultless
  <1>1. Init => OwnBytes
    BY DEF Init, OwnBytes, Files, Names
  <1>2. ASSUME Init, NEW t \in Threads PROVE GetterOf(t)
    <2>1. pc[t] = "idle" /\ conn \in [Threads -> Conns \ {"broken"}]
      BY <1>2 DEF Init, Connected
    <2>2. conn[t] # "broken"
      BY <2>1
    <2>3. QED
      BY <2>1, <2>2 DEF GetterOf
  <1>3. QED
    BY <1>1, <1>2 DEF Init, Faultless

\* A step that is not a fault comes from a state without one.
LEMMA NoFaultBefore ==
  ASSUME TypeOK, [Next]_vars, faults' = 0
  PROVE  faults = 0
  <1>1. faults \in Nat
    BY MaxFaultsAssumption DEF TypeOK
  <1>2. Fault \/ NoFault \/ UNCHANGED faults
    <2>1. ASSUME NEW t \in Threads, Answers(t) \/ Failed(t) \/ Refused(t) \/ Dies(t)
          PROVE  Fault \/ NoFault
      BY <2>1 DEF Answers, Failed, Refused, NoReply, Dies
    <2>2. ASSUME NEW t \in Threads, GetImg(t)
          PROVE  Fault \/ NoFault \/ UNCHANGED faults
      BY <2>1, <2>2
      DEF GetImg, GetExist, GetFindCache, GetFindDb, GetSetCache, GetFindOriginal,
          GetFindOriginalDb, GetSetOriginal, GetConvert, GetCacheConverted,
          GetCacheToSave, GetSave, Finish
    <2>3. ASSUME NEW t \in Threads, Start(t) \/ Work(t), ~GetImg(t)
          PROVE  Fault \/ NoFault \/ UNCHANGED faults
      BY <2>1, <2>3
      DEF Work, Start, Reply, UploadExist, UploadSet, AdminExist, AdminDel, InfoGet
    <2>4. CASE Restart \/ UNCHANGED vars
      BY <2>4 DEF Restart, vars
    <2>5. QED
      BY <2>2, <2>3, <2>4 DEF Next
  <1>3. QED
    BY <1>1, <1>2 DEF Fault, NoFault

\* Without a fault, a call is answered or its connection was never there.
LEMMA CallWithoutFault ==
  ASSUME TypeOK, Faultless, faults = 0, faults' = 0, NEW t \in Threads
  PROVE  /\ ~NoReply(t) /\ ~Dies(t)
         /\ Refused(t) => conn[t] = "null" /\ UNCHANGED conn
         /\ Answers(t) => conn[t] = "up" /\ UNCHANGED conn
         /\ Failed(t) => conn[t] = "null" /\ UNCHANGED conn
  <1>1. ~Fault
    BY DEF Fault
  <1>2. conn[t] # "broken"
    BY DEF Faultless, GetterOf
  <1>3. QED
    BY <1>1, <1>2 DEF NoReply, Dies, Refused, Answers, Failed

LEMMA StepOwnBytes ==
  ASSUME NobodyDeletes, TypeOK, Faultless, Serving, faults = 0, faults' = 0,
         NEW t \in Threads, Step(t), NEW k \in Keys
  PROVE  /\ db'[<<k, "orig">>] # "conv" /\ cache'[<<k, "orig">>] # "conv"
         /\ db[<<k, "orig">>] = "orig" => db'[<<k, "orig">>] = "orig"
  <1>1. /\ <<k, "orig">> \in Files /\ GetterOf(t) /\ ServedBy(t)
        /\ db[<<k, "orig">>] # "conv" /\ cache[<<k, "orig">>] # "conv"
    BY DEF Faultless, OwnBytes, Serving, Files, Names
  <1>2. db \in [Files -> Blobs] /\ cache \in [Files -> Blobs]
    BY DEF TypeOK
  <1>3. /\ db'[<<k, "orig">>] # "conv"
        /\ db[<<k, "orig">>] = "orig" => db'[<<k, "orig">>] = "orig"
    <2>1. CASE UploadSet(t)
      BY <1>1, <1>2, <2>1 DEF UploadSet, MayHaveSet, GetterOf
    <2>2. CASE GetSave(t)
      BY <1>1, <1>2, <2>2 DEF GetSave, MayHaveSet, GetterOf, Target
    <2>3. ~AdminDel(t)
      BY <1>1 DEF AdminDel, ServedBy
    <2>4. UploadSet(t) \/ GetSave(t) \/ UNCHANGED db
      BY <2>3
      DEF Step, Work, Start, Reply, UploadExist, AdminExist, InfoGet, GetImg,
          GetExist, GetFindCache, GetFindDb, GetSetCache, GetFindOriginal,
          GetFindOriginalDb, GetSetOriginal, GetConvert, GetCacheConverted,
          GetCacheToSave
    <2>5. QED
      BY <1>1, <2>1, <2>2, <2>4
  <1>4. cache'[<<k, "orig">>] # "conv"
    <2>1. CASE GetSetCache(t)
      BY <1>1, <1>2, <2>1 DEF GetSetCache, SetCache, GetterOf, Target
    <2>2. CASE GetSetOriginal(t)
      BY <1>1, <1>2, <2>2 DEF GetSetOriginal, SetCache, GetterOf, Original
    <2>3. CASE GetCacheConverted(t) \/ GetCacheToSave(t)
      BY <1>1, <1>2, <2>3
      DEF GetCacheConverted, GetCacheToSave, SetCache, GetterOf, Target
    <2>4. \/ GetSetCache(t) \/ GetSetOriginal(t) \/ GetCacheConverted(t)
          \/ GetCacheToSave(t) \/ UNCHANGED cache
      BY DEF Step, Work, Start, Reply, UploadExist, UploadSet, AdminExist,
             AdminDel, InfoGet, GetImg, GetExist, GetFindCache, GetFindDb,
             GetFindOriginal, GetFindOriginalDb, GetConvert, GetSave, Dies
    <2>5. QED
      BY <1>1, <2>1, <2>2, <2>3, <2>4
  <1>5. QED
    BY <1>3, <1>4

\* Another thread's steps leave a thread's request alone.
LEMMA StepOthersGetter ==
  ASSUME NobodyDeletes, TypeOK, Faultless, Serving, faults = 0, faults' = 0,
         NEW t \in Threads, Step(t), NEW s \in Threads, s # t
  PROVE  GetterOf(s)'
  <1>1. GetterOf(s) /\ key[s] \in Keys
    BY DEF Faultless, TypeOK
  <1>2. ~Dies(t) /\ ~NoReply(t)
    BY CallWithoutFault
  <1>4. /\ pc'[s] = pc[s] /\ op'[s] = op[s] /\ ret'[s] = ret[s]
        /\ key'[s] = key[s] /\ name'[s] = name[s] /\ buf'[s] = buf[s]
    BY <1>2, OthersKeepTheirs
  <1>5. conn' = conn
    BY <1>2
    DEF Step, Work, Start, Reply, UploadExist, UploadSet, AdminExist, AdminDel,
        InfoGet, GetImg, GetExist, GetFindCache, GetFindDb, GetSetCache,
        GetFindOriginal, GetFindOriginalDb, GetSetOriginal, GetConvert,
        GetCacheConverted, GetCacheToSave, GetSave, Answers, Failed, Refused
  <1>6. db[Original(s)] = "orig" => db'[Original(s)] = "orig"
    BY <1>1, StepOwnBytes DEF Original
  <1>7. QED
    BY <1>1, <1>4, <1>5, <1>6 DEF GetterOf, Original

\* A thread's own step takes it where the bytes it holds are the right ones.
LEMMA StepOwnGetter ==
  ASSUME NobodyDeletes, TypeOK, Faultless, Serving, faults = 0, faults' = 0,
         NEW t \in Threads, Step(t)
  PROVE  GetterOf(t)'
  <1>1. /\ GetterOf(t) /\ ServedBy(t) /\ key[t] \in Keys
        /\ db[Original(t)] # "conv" /\ cache[Original(t)] # "conv"
        /\ Original(t) \in Files /\ (name[t] = "orig" => Target(t) = Original(t))
    BY DEF Faultless, Serving, OwnBytes, TypeOK, Original, Target, Files, Names
  <1>2. /\ ~Dies(t) /\ ~NoReply(t) /\ ~Fault
        /\ Refused(t) => conn[t] = "null" /\ UNCHANGED conn
        /\ Answers(t) => conn[t] = "up" /\ UNCHANGED conn
        /\ Failed(t) => conn[t] = "null" /\ UNCHANGED conn
    BY CallWithoutFault DEF Fault
  <1>3. /\ pc \in [Threads -> Labels] /\ op \in [Threads -> Ops]
        /\ ret \in [Threads -> Results] /\ key \in [Threads -> Keys]
        /\ name \in [Threads -> Names] /\ buf \in [Threads -> Blobs]
        /\ db \in [Files -> Blobs] /\ cache \in [Files -> Blobs]
    BY DEF TypeOK
  <1> USE DEF GetterOf
  <1>4. CASE Start(t)
    <2>1. PICK o \in Role[t], k \in Keys, n \in Names :
            /\ op' = [op EXCEPT ![t] = o]
            /\ key' = [key EXCEPT ![t] = k]
            /\ name' = [name EXCEPT ![t] = n]
            /\ buf' = [buf EXCEPT ![t] = IF o = "upload" THEN "orig" ELSE "none"]
            /\ pc' = [pc EXCEPT ![t] = FirstCall(o)]
      BY <1>4 DEF Start
    <2>2. \/ pc'[t] \in {"gexist", "iget", "aexist"}
          \/ pc'[t] = "uexist" /\ buf'[t] = "orig"
      BY <1>3, <2>1, RoleAssumption, FirstCallOf
    <2>3. conn' = conn
      BY <1>4 DEF Start
    <2>4. QED
      BY <1>1, <2>2, <2>3
  <1>5. CASE Reply(t)
    BY <1>1, <1>3, <1>5 DEF Reply
  <1>6. CASE UploadExist(t)
    BY <1>1, <1>2, <1>3, <1>6 DEF UploadExist, ServedBy
  <1>7. CASE UploadSet(t)
    BY <1>1, <1>2, <1>3, <1>7 DEF UploadSet, ServedBy
  <1>8. CASE GetExist(t)
    BY <1>1, <1>2, <1>3, <1>8 DEF GetExist, Blobs, Original
  <1>9. CASE GetFindCache(t)
    BY <1>1, <1>2, <1>3, <1>9 DEF GetFindCache, Finish, Blobs, Original
  <1>10. CASE GetFindDb(t)
    BY <1>1, <1>2, <1>3, <1>10 DEF GetFindDb, Blobs
  <1>11. CASE GetSetCache(t)
    BY <1>1, <1>2, <1>3, <1>11 DEF GetSetCache, Finish
  <1>12. CASE GetFindOriginal(t)
    BY <1>1, <1>3, <1>12 DEF GetFindOriginal
  <1>13. CASE GetFindOriginalDb(t)
    BY <1>1, <1>2, <1>3, <1>13 DEF GetFindOriginalDb, Blobs
  <1>14. CASE GetSetOriginal(t)
    BY <1>1, <1>3, <1>14 DEF GetSetOriginal
  <1>15. CASE GetConvert(t)
    BY <1>1, <1>3, <1>15 DEF GetConvert
  <1>16. CASE GetCacheConverted(t) \/ GetCacheToSave(t)
    BY <1>1, <1>2, <1>3, <1>16 DEF GetCacheConverted, GetCacheToSave, Finish
  <1>17. CASE GetSave(t)
    BY <1>1, <1>2, <1>3, <1>17 DEF GetSave
  <1>18. CASE AdminExist(t) \/ AdminDel(t)
    BY <1>1, <1>2, <1>3, <1>18 DEF AdminExist, AdminDel, ServedBy
  <1>19. CASE InfoGet(t)
    BY <1>1, <1>2, <1>3, <1>19 DEF InfoGet, ServedBy
  <1>20. QED
    BY <1>4, <1>5, <1>6, <1>7, <1>8, <1>9, <1>10, <1>11, <1>12, <1>13, <1>14,
       <1>15, <1>16, <1>17, <1>18, <1>19
    DEF Step, Work, GetImg

LEMMA NextFaultless ==
  ASSUME NobodyDeletes, TypeOK, Faultless, Serving, [Next]_vars
  PROVE  Faultless'
  <1> SUFFICES ASSUME faults' = 0
               PROVE  alive' /\ OwnBytes' /\ \A s \in Threads : GetterOf(s)'
    BY DEF Faultless
  <1>1. faults = 0
    BY NoFaultBefore
  <1>2. ASSUME NEW t \in Threads, Step(t)
        PROVE  alive' /\ OwnBytes' /\ \A s \in Threads : GetterOf(s)'
    <2>1. OwnBytes'
      BY <1>1, <1>2, StepOwnBytes DEF OwnBytes
    <2>2. \A s \in Threads : GetterOf(s)'
      BY <1>1, <1>2, StepOwnGetter, StepOthersGetter
    <2>3. alive'
      BY <1>1, <1>2, CallWithoutFault
      DEF Step, Work, Start, Reply, UploadExist, UploadSet, AdminExist, AdminDel,
          InfoGet, GetImg, GetExist, GetFindCache, GetFindDb, GetSetCache,
          GetFindOriginal, GetFindOriginalDb, GetSetOriginal, GetConvert,
          GetCacheConverted, GetCacheToSave, GetSave
    <2>4. QED
      BY <2>1, <2>2, <2>3
  <1>3. ~Restart
    BY <1>1 DEF Restart, Faultless, Fault
  <1>4. CASE UNCHANGED vars
    BY <1>1, <1>4 DEF vars, Faultless, OwnBytes, GetterOf, Original
  <1>5. QED
    BY <1>2, <1>3, <1>4 DEF Next, Step

\* Where nobody deletes, and while no call has failed, a request for the original
\* is answered with the bytes that were uploaded, whatever the settings and
\* whatever memcached loses: the conversions that other threads cache and save
\* have keys of their own, and a get that passed exist_db finds its image.
THEOREM OriginalsVerbatim ==
  ASSUME NobodyDeletes
  PROVE  Spec => []OriginalVerbatim
  <1>1. Init => Serving /\ Faultless
    BY InitServing, InitFaultless
  <1>2. TypeOK /\ Serving /\ Faultless /\ [Next]_vars => Serving' /\ Faultless'
    BY NextServing, NextFaultless
  <1>3. Faultless => OriginalVerbatim
    BY DEF Faultless, GetterOf, OriginalVerbatim
  <1>4. QED
    BY <1>1, <1>2, <1>3, TypeCorrect, PTL DEF Spec

-----------------------------------------------------------------------------
(* The image store *)

\* The mapped variables of Store.
present == {k \in Keys : db[<<k, "orig">>] # "none"}
job == [t \in Threads |-> IF pc[t] = "idle" THEN "idle" ELSE op[t]]
found == [t \in Threads |-> IF pc[t] \in PastExist THEN "present" ELSE "none"]
answer == [t \in Threads |-> IF pc[t] = "reply" THEN ret[t] ELSE "none"]

\* Where no call fails, all connections stay up and the process stays alive; a
\* thread that is about to answer has an answer.
Undisturbed == alive /\ \A t \in Threads : conn[t] = "up"
Answering == \A t \in Threads : pc[t] = "reply" => ret[t] # "none"

RefineInv == TypeOK /\ Serving /\ ConversionInv /\ Undisturbed /\ Answering

\* What a step without faults may do, as far as the abstract store can tell.
Begins(t) ==
  /\ pc[t] = "idle" /\ pc'[t] \in {"uexist", "gexist", "aexist", "iget"}
  /\ op'[t] \in Ops /\ key'[t] \in Keys
  /\ UNCHANGED db

Ends(t) ==
  /\ pc[t] = "reply" /\ pc'[t] = "idle"
  /\ UNCHANGED <<db, key>>

Busy(t) == pc[t] \notin {"idle", "reply"} /\ UNCHANGED <<op, key>>

Continues(t) ==
  /\ Busy(t)
  /\ pc'[t] \notin {"idle", "reply"}
  /\ pc[t] \in PastExist <=> pc'[t] \in PastExist
  /\ UNCHANGED db

Finds(t) ==
  /\ Busy(t)
  /\ pc[t] \notin PastExist /\ pc'[t] \in PastExist
  /\ db[Original(t)] # "none"
  /\ UNCHANGED db

Stores(t) ==
  /\ Busy(t)
  /\ pc[t] = "uset" /\ pc'[t] = "reply" /\ op[t] = "upload" /\ ret'[t] = "ok"
  /\ db' = [db EXCEPT ![Original(t)] = "orig"]

Removes(t) ==
  /\ Busy(t)
  /\ pc[t] = "adel" /\ pc'[t] = "reply" /\ op[t] = "delete" /\ ret'[t] = "ok"
  /\ db' = [db EXCEPT ![Original(t)] = "none"]

Backing(t, r) ==
  CASE r = "ok"          -> /\ op[t] # "delete"
                            /\ pc[t] \in PastExist \/ db[Original(t)] # "none"
    [] r = "notmodified" -> pc[t] \in PastExist /\ op[t] = "get"
    [] r = "notfound"    -> db[Original(t)] = "none" /\ op[t] # "upload"
    [] r = "fail"        -> TRUE
    [] OTHER             -> FALSE

\* The conversion that a get may save is not the image.
Decides(t) ==
  /\ Busy(t)
  /\ pc'[t] = "reply" /\ Backing(t, ret'[t])
  /\ \/ UNCHANGED db
     \/ name[t] # "orig" /\ db' = [db EXCEPT ![Target(t)] = buf[t]]

LEMMA InitRefineInv == MaxFaults = 0 /\ Init => RefineInv
  <1> SUFFICES ASSUME MaxFaults = 0, Init PROVE RefineInv
    OBVIOUS
  <1>1. Undisturbed /\ Answering
    BY DEF Init, Undisturbed, Answering, Connected
  <1>2. QED
    BY <1>1, InitType, InitServing, InitConversionInv DEF RefineInv

LEMMA NoFaults ==
  ASSUME MaxFaults = 0, TypeOK, Undisturbed, NEW t \in Threads
  PROVE  /\ ~Fault /\ ~Dies(t) /\ ~Failed(t) /\ ~Refused(t)
         /\ Answers(t) => UNCHANGED conn
  BY DEF TypeOK, Undisturbed, Fault, Dies, Failed, Refused, NoReply, Answers

LEMMA StepControl ==
  ASSUME MaxFaults = 0, KeepsOriginals, RefineInv, NEW t \in Threads, Step(t)
  PROVE  /\ \/ Begins(t) \/ Ends(t) \/ Continues(t) \/ Finds(t) \/ Stores(t)
            \/ Removes(t) \/ Decides(t)
         /\ UNCHANGED conn /\ alive'
  <1>1. /\ ServedBy(t) /\ WriterOf(t) /\ alive
        /\ pc \in [Threads -> Labels] /\ op \in [Threads -> Ops]
        /\ ret \in [Threads -> Results] /\ key \in [Threads -> Keys]
    BY DEF RefineInv, Serving, ConversionInv, Undisturbed, TypeOK
  <1>2. /\ ~Fault /\ ~Dies(t) /\ ~Failed(t) /\ ~Refused(t)
        /\ Answers(t) => UNCHANGED conn
    BY NoFaults DEF RefineInv
  <1> USE DEF ServedBy, PastExist
  <1>3. CASE Start(t)
    <2>1. PICK o \in Role[t], k \in Keys :
            /\ op' = [op EXCEPT ![t] = o]
            /\ key' = [key EXCEPT ![t] = k]
            /\ pc' = [pc EXCEPT ![t] = FirstCall(o)]
      BY <1>3 DEF Start
    <2>2. o \in Ops
      BY <2>1, RoleAssumption
    <2>3. pc'[t] \in {"uexist", "gexist", "aexist", "iget"}
      BY <1>1, <2>1, <2>2, FirstCallOf
    <2>4. pc[t] = "idle" /\ UNCHANGED <<db, conn, alive>>
      BY <1>3 DEF Start
    <2>5. QED
      BY <1>1, <2>1, <2>2, <2>3, <2>4 DEF Begins
  <1>4. CASE Reply(t)
    BY <1>1, <1>4 DEF Reply, Ends
  <1>5. CASE UploadExist(t)
    BY <1>1, <1>2, <1>5 DEF UploadExist, Continues, Decides, Backing, Busy
  <1>6. CASE UploadSet(t)
    BY <1>1, <1>2, <1>6 DEF UploadSet, Stores, Busy, WriterOf
  <1>7. CASE GetExist(t)
    BY <1>1, <1>2, <1>7 DEF GetExist, Finds, Decides, Backing, Busy
  <1>8. CASE GetSave(t)
    <2>1. /\ pc[t] = "gsave" /\ name[t] # "orig"
          /\ db' = [db EXCEPT ![Target(t)] = buf[t]]
          /\ pc' = [pc EXCEPT ![t] = "reply"] /\ ret' = [ret EXCEPT ![t] = "ok"]
          /\ UNCHANGED <<op, key, conn, alive>>
      BY <1>1, <1>2, <1>8 DEF GetSave, WriterOf
    <2>2. pc'[t] = "reply" /\ ret'[t] = "ok" /\ op[t] = "get"
      BY <1>1, <2>1
    <2>3. Decides(t)
      BY <2>1, <2>2 DEF Decides, Backing, Busy
    <2>4. QED
      BY <1>1, <2>1, <2>3
  <1>9. CASE GetImg(t) /\ ~GetExist(t) /\ ~GetSave(t)
    <2>1. /\ pc[t] \in PastExist
          /\ UNCHANGED <<db, op, key, conn, alive>>
          /\ \/ pc'[t] \in PastExist
             \/ pc'[t] = "reply" /\ ret'[t] \in {"ok", "notmodified", "fail"}
      BY <1>1, <1>2, <1>9
      DEF GetImg, GetFindCache, GetFindDb, GetSetCache, GetFindOriginal,
          GetFindOriginalDb, GetSetOriginal, GetConvert, GetCacheConverted,
          GetCacheToSave, Finish
    <2>2. op[t] = "get" /\ pc[t] \notin {"idle", "reply"}
      BY <1>1, <2>1
    <2>3. Continues(t) \/ Decides(t)
      BY <2>1, <2>2 DEF Continues, Decides, Backing, Busy
    <2>4. QED
      BY <1>1, <2>1, <2>3
  <1>10. CASE AdminExist(t)
    BY <1>1, <1>2, <1>10 DEF AdminExist, Continues, Decides, Backing, Busy
  <1>11. CASE AdminDel(t)
    BY <1>1, <1>2, <1>11 DEF AdminDel, Removes, Busy
  <1>12. CASE InfoGet(t)
    BY <1>1, <1>2, <1>12 DEF InfoGet, Decides, Backing, Busy
  <1>13. QED
    BY <1>3, <1>4, <1>5, <1>6, <1>7, <1>8, <1>9, <1>10, <1>11, <1>12 DEF Step, Work

\* A step changes the mapped state of its own thread only.
LEMMA MappedStep ==
  ASSUME MaxFaults = 0, RefineInv, NEW t \in Threads, Step(t)
  PROVE  /\ job' = [job EXCEPT ![t] = IF pc'[t] = "idle" THEN "idle" ELSE op'[t]]
         /\ key' = [key EXCEPT ![t] = key'[t]]
         /\ found' = [found EXCEPT ![t] = IF pc'[t] \in PastExist THEN "present" ELSE "none"]
         /\ answer' = [answer EXCEPT ![t] = IF pc'[t] = "reply" THEN ret'[t] ELSE "none"]
  <1>1. TypeOK /\ TypeOK' /\ ~Dies(t)
    BY StepType, NoFaults DEF RefineInv
  <1>2. \A s \in Threads \ {t} : /\ pc'[s] = pc[s] /\ op'[s] = op[s]
                                 /\ key'[s] = key[s] /\ ret'[s] = ret[s]
    BY <1>1, OthersKeepTheirs
  <1>3. key \in [Threads -> Keys] /\ key' \in [Threads -> Keys]
    BY <1>1 DEF TypeOK
  <1>4. job' = [job EXCEPT ![t] = IF pc'[t] = "idle" THEN "idle" ELSE op'[t]]
    BY <1>2 DEF job
  <1>5. key' = [key EXCEPT ![t] = key'[t]]
    BY <1>2, <1>3
  <1>6. found' = [found EXCEPT ![t] = IF pc'[t] \in PastExist THEN "present" ELSE "none"]
    BY <1>2 DEF found
  <1>7. answer' = [answer EXCEPT ![t] = IF pc'[t] = "reply" THEN ret'[t] ELSE "none"]
    BY <1>2 DEF answer
  <1>8. QED
    BY <1>4, <1>5, <1>6, <1>7

LEMMA StepMaps ==
  ASSUME MaxFaults = 0, KeepsOriginals, RefineInv, NEW t \in Threads, Step(t)
  PROVE  Store!Next \/ UNCHANGED <<present, job, key, found, answer>>
  <1> DEFINE jobNow == IF pc'[t] = "idle" THEN "idle" ELSE op'[t]
             foundNow == IF pc'[t] \in PastExist THEN "present" ELSE "none"
             answerNow == IF pc'[t] = "reply" THEN ret'[t] ELSE "none"
  <1> USE DEF present, job, found, answer
  <1>1. /\ TypeOK /\ TypeOK' /\ Answering /\ ServedBy(t)
        /\ key[t] \in Keys /\ Original(t) \in Files /\ Target(t) \in Files
        /\ op[t] \in Ops /\ ret'[t] \in Results /\ db \in [Files -> Blobs]
    BY StepType, FilesType DEF RefineInv, Serving, TypeOK
  <1>2. /\ job' = [job EXCEPT ![t] = jobNow]
        /\ key' = [key EXCEPT ![t] = key'[t]]
        /\ found' = [found EXCEPT ![t] = foundNow]
        /\ answer' = [answer EXCEPT ![t] = answerNow]
    BY MappedStep
  <1>3. /\ job[t] = (IF pc[t] = "idle" THEN "idle" ELSE op[t])
        /\ found[t] = (IF pc[t] \in PastExist THEN "present" ELSE "none")
        /\ answer[t] = (IF pc[t] = "reply" THEN ret[t] ELSE "none")
    OBVIOUS
  <1>4. /\ job = [s \in Threads |-> job[s]] /\ key = [s \in Threads |-> key[s]]
        /\ found = [s \in Threads |-> found[s]] /\ answer = [s \in Threads |-> answer[s]]
    BY <1>1 DEF TypeOK
  <1>5. UNCHANGED db => UNCHANGED present
    OBVIOUS
  <1>6. db[Original(t)] # "none" <=> key[t] \in present
    BY <1>1 DEF Original
  <1> HIDE DEF present, job, found, answer, jobNow, foundNow, answerNow
  <1>7. CASE Begins(t)
    <2>1. /\ job[t] = "idle" /\ jobNow \in Ops /\ key'[t] \in Keys
          /\ foundNow = found[t] /\ answerNow = answer[t]
          /\ UNCHANGED present
      BY <1>3, <1>5, <1>7 DEF Begins, PastExist, jobNow, foundNow, answerNow
    <2>2. found' = found /\ answer' = answer
      BY <1>2, <1>4, <2>1
    <2>3. Store!Ask(t)
      BY <1>2, <2>1, <2>2
      DEF Store!Ask, Store!Jobs, Ops, present, job, found, answer
    <2>4. QED
      BY <2>3 DEF Store!Next
  <1>8. CASE Ends(t)
    <2>1. /\ jobNow = "idle" /\ foundNow = found[t] /\ answerNow = "none"
          /\ key' = key /\ UNCHANGED present /\ answer[t] # "none"
      BY <1>1, <1>3, <1>5, <1>8
      DEF Ends, PastExist, jobNow, foundNow, answerNow, Answering
    <2>2. found' = found
      BY <1>2, <1>4, <2>1
    <2>3. Store!Answer(t)
      BY <1>2, <2>1, <2>2 DEF Store!Answer, present, job, found, answer
    <2>4. QED
      BY <2>3 DEF Store!Next
  <1>9. ASSUME Busy(t), pc'[t] # "idle"
        PROVE  /\ UNCHANGED <<job, key>>
               /\ answer[t] = "none" /\ job[t] = op[t] /\ Store!Serving(t)
    <2>1. /\ UNCHANGED key /\ answer[t] = "none" /\ job[t] = op[t]
          /\ jobNow = job[t]
      BY <1>3, <1>9 DEF Busy, jobNow
    <2>2. UNCHANGED job
      BY <1>2, <1>4, <2>1
    <2>3. Store!Serving(t)
      BY <1>1, <2>1 DEF Store!Serving, Ops, job, answer
    <2>4. QED
      BY <2>1, <2>2, <2>3
  <1>10. CASE Continues(t)
    <2>1. /\ foundNow = found[t] /\ answerNow = answer[t] /\ UNCHANGED present
      BY <1>3, <1>5, <1>10 DEF Continues, Busy, foundNow, answerNow
    <2>2. UNCHANGED <<found, answer>>
      BY <1>2, <1>4, <2>1
    <2>3. QED
      BY <1>9, <1>10, <2>1, <2>2 DEF Continues
  <1>11. CASE Finds(t)
    <2>1. /\ foundNow = "present" /\ answerNow = answer[t]
          /\ UNCHANGED present /\ key[t] \in present
      BY <1>3, <1>5, <1>6, <1>11 DEF Finds, Busy, PastExist, foundNow, answerNow
    <2>2. UNCHANGED <<job, key, answer>> /\ Store!Serving(t)
      BY <1>2, <1>4, <1>9, <1>11, <2>1 DEF Finds, PastExist
    <2>3. Store!Find(t)
      BY <1>2, <2>1, <2>2 DEF Store!Find, present, job, found, answer
    <2>4. QED
      BY <2>3 DEF Store!Next
  <1>12. CASE Stores(t)
    <2>1. foundNow = found[t] /\ answerNow = "ok" /\ op[t] = "upload"
      BY <1>3, <1>12 DEF Stores, PastExist, foundNow, answerNow
    <2>2. UNCHANGED <<job, key, found>> /\ Store!Serving(t) /\ job[t] = "upload"
      BY <1>2, <1>4, <1>9, <1>12, <2>1 DEF Stores
    <2>3. present' = present \union {key[t]}
      BY <1>1, <1>12, <2>2 DEF Stores, Original, Files, Names, present
    <2>4. Store!Store(t)
      BY <1>2, <2>1, <2>2, <2>3
      DEF Store!Store, Store!Establish, present, job, found, answer
    <2>5. QED
      BY <2>4 DEF Store!Next
  <1>13. CASE Removes(t)
    <2>1. foundNow = found[t] /\ answerNow = "ok" /\ op[t] = "delete"
      BY <1>3, <1>13 DEF Removes, PastExist, foundNow, answerNow
    <2>2. /\ UNCHANGED <<job, key, found>> /\ Store!Serving(t) /\ job[t] = "delete"
          /\ found[t] = "none"
      BY <1>2, <1>3, <1>4, <1>9, <1>13, <2>1 DEF Removes, PastExist
    <2>3. present' = present \ {key[t]}
      BY <1>1, <1>13, <2>2 DEF Removes, Original, Files, Names, present
    <2>4. CASE key[t] \in present
      <3>1. Store!Remove(t)
        BY <1>2, <2>1, <2>2, <2>3, <2>4
        DEF Store!Remove, Store!Establish, present, job, found, answer
      <3>2. QED
        BY <3>1 DEF Store!Next
    <2>5. CASE key[t] \notin present
      <3>1. present' = present /\ found' = [found EXCEPT ![t] = "none"]
        BY <1>4, <2>2, <2>3, <2>5
      <3>2. Store!Backed(t, "ok")
        BY <2>2, <2>5 DEF Store!Backed, present, job, found
      <3>3. Store!Decide(t)
        BY <1>2, <2>1, <2>2, <3>1, <3>2
        DEF Store!Decide, Store!Answers, present, job, found, answer
      <3>4. QED
        BY <3>3 DEF Store!Next
    <2>6. QED
      BY <2>4, <2>5
  <1>14. CASE Decides(t)
    <2>1. foundNow = "none" /\ answerNow = ret'[t]
      BY <1>14 DEF Decides, PastExist, foundNow, answerNow
    <2>2. UNCHANGED <<job, key>> /\ Store!Serving(t) /\ job[t] = op[t]
      BY <1>9, <1>14 DEF Decides
    <2>3. UNCHANGED present
      <3>1. CASE name[t] # "orig" /\ db' = [db EXCEPT ![Target(t)] = buf[t]]
        <4>1. \A k \in Keys : <<k, "orig">> \in Files /\ <<k, "orig">> # Target(t)
          BY <3>1 DEF Target, Files, Names
        <4>2. QED
          BY <1>1, <3>1, <4>1 DEF present
      <3>2. QED
        BY <1>5, <1>14, <3>1 DEF Decides
    <2>4. Store!Backed(t, ret'[t]) /\ ret'[t] \in Store!Answers
      BY <1>1, <1>3, <1>6, <1>14, <2>2
      DEF Decides, Backing, Results, Store!Backed, Store!Answers, present, job, found
    <2>5. Store!Decide(t)
      BY <1>2, <2>1, <2>2, <2>3, <2>4
      DEF Store!Decide, present, job, found, answer
    <2>6. QED
      BY <2>5 DEF Store!Next
  <1>15. QED
    BY <1>7, <1>8, <1>10, <1>11, <1>12, <1>13, <1>14, StepControl

LEMMA NextRefineInv ==
  ASSUME MaxFaults = 0, KeepsOriginals, RefineInv, [Next]_vars
  PROVE  RefineInv'
  <1>1. TypeOK' /\ Serving' /\ ConversionInv'
    BY NextType, NextServing, NextConversionInv DEF RefineInv
  <1>2. ASSUME NEW t \in Threads, Step(t)
        PROVE  Undisturbed' /\ Answering'
    <2>1. Undisturbed'
      BY <1>2, StepControl DEF RefineInv, Undisturbed
    <2>2. ASSUME NEW s \in Threads, pc'[s] = "reply" PROVE ret'[s] # "none"
      <3>1. CASE s # t
        BY <1>2, <2>2, <3>1, NoFaults, OthersKeepTheirs DEF RefineInv, Answering
      <3>2. CASE s = t
        BY <1>2, <2>2, <3>2, StepControl
        DEF Begins, Ends, Continues, Finds, Stores, Removes, Decides, Backing, PastExist
      <3>3. QED
        BY <3>1, <3>2
    <2>3. QED
      BY <2>1, <2>2 DEF Answering
  <1>3. ~Restart
    BY DEF Restart, RefineInv, TypeOK, Undisturbed, Fault
  <1>4. ASSUME UNCHANGED vars PROVE Undisturbed' /\ Answering'
    <2>1. alive' = alive /\ conn' = conn /\ pc' = pc /\ ret' = ret
      BY <1>4 DEF vars
    <2>2. QED
      BY <2>1 DEF RefineInv, Undisturbed, Answering
  <1>5. QED
    BY <1>1, <1>2, <1>3, <1>4 DEF Next, Step, RefineInv

\* While no call fails, and under settings that keep originals, the database
\* modes implement the image store: no answer of save_img, get_img, admin_img
\* and info_img is without ground in the database, in whatever order the calls of
\* different requests reach it, and no conversion that is saved late brings a
\* deleted image back.
THEOREM StoreImplemented ==
  ASSUME MaxFaults = 0, KeepsOriginals
  PROVE  Spec => ImplementsStore
  <1>1. Init => Store!Init /\ RefineInv
    <2> SUFFICES ASSUME Init PROVE Store!Init
      BY InitRefineInv
    <2>1. /\ present = {} /\ key \in [Threads -> Keys]
          /\ job = [t \in Threads |-> "idle"]
          /\ found = [t \in Threads |-> "none"]
          /\ answer = [t \in Threads |-> "none"]
      BY DEF Init, present, job, found, answer, PastExist, Files, Names
    <2>2. QED
      BY <2>1 DEF Store!Init, present, job, found, answer
  <1>2. RefineInv /\ [Next]_vars => [Store!Next]_(Store!vars) /\ RefineInv'
    <2> SUFFICES ASSUME RefineInv, [Next]_vars
                 PROVE  [Store!Next]_(Store!vars) /\ RefineInv'
      OBVIOUS
    <2>1. UNCHANGED <<present, job, key, found, answer>> => UNCHANGED Store!vars
      BY DEF Store!vars, present, job, found, answer
    <2>2. ~Restart
      BY DEF Restart, RefineInv, TypeOK, Undisturbed, Fault
    <2>3. CASE \E t \in Threads : Step(t)
      BY <2>1, <2>3, StepMaps, NextRefineInv
    <2>4. CASE UNCHANGED vars
      BY <2>1, <2>4, NextRefineInv DEF vars, present, job, found, answer
    <2>5. QED
      BY <2>2, <2>3, <2>4 DEF Next, Step
  <1>3. QED
    BY <1>1, <1>2, PTL DEF Spec, ImplementsStore, Store!Spec
=============================================================================
