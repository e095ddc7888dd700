----------------------------- MODULE ZLogProofs -----------------------------
(***************************************************************************)
(* Proofs about ZLog, for any number of threads and slots: the spin locks  *)
(* exclude, a slot belongs to the thread that opened it, no line is        *)
(* dropped, and no more threads than slots never run out of slots.         *)
(***************************************************************************)
EXTENDS ZLog, FiniteSetTheorems, TLAPS

LabelInv ==
  \A t \in Threads :
    /\ pc[t] # "stdout" => pc[t] = "idle" \/ slot[t] \in Slots
    /\ pc[t] = "stdout" => slot[t] = LOG_INVALID
    /\ pc[t] = "ofopen" => file[slot[t]] = NoThread

LineInv == /\ LinesArrive
           /\ \A t \in Threads : pc[t] = "punlock" => out[t] = "file"

LogInv == TypeOK /\ LabelInv /\ SpinExclusive /\ SlotOwned /\ LineInv

USE DEF Move, LOG_USER, LOG_INVALID, Slots

LEMMA InitLogInv == Init => LogInv
  <1> SUFFICES ASSUME Init PROVE LogInv
    OBVIOUS
  <1>1. failed \in BOOLEAN
    BY DEF Init
  <1>2. TypeOK
    BY <1>1, MaxLogsAssumption, ThreadsAssumption DEF Init, TypeOK, Labels
  <1>3. QED
    BY <1>2, MaxLogsAssumption, ThreadsAssumption
    DEF Init, LogInv, LabelInv, SpinExclusive, SlotOwned, LineInv, LinesArrive,
        Inside, Owning

Step(t) == LogPrint(t) \/ Work(t)

LEMMA StepType ==
  ASSUME TypeOK, LabelInv, NEW t \in Threads, Step(t)
  PROVE  TypeOK'
  <1> USE MaxLogsAssumption DEF TypeOK, Labels, Inside, Owning, SpinLock, SpinUnlock
  <1>1. CASE LogPrint(t)
    BY <1>1 DEF LogPrint
  <1>2. CASE OpenLock(t) \/ OpenLook(t) \/ OpenReturn(t)
    BY <1>2 DEF OpenLock, OpenLook, OpenReturn
  <1>3. CASE OpenFopen(t)
    <2>1. failed' \in BOOLEAN
      BY <1>3 DEF OpenFopen
    <2>2. QED
      BY <1>3, <2>1 DEF OpenFopen
  <1>4. CASE OpenNext(t)
    <2>1. slot[t] \in Slots
      BY <1>4 DEF OpenNext, LabelInv
    <2>2. slot' \in [Threads -> Slots \union {LOG_INVALID}]
      <3>1. slot[t] # MaxLogs => slot[t] + 1 \in Slots
        BY <2>1
      <3>2. QED
        BY <1>4, <2>1, <3>1 DEF OpenNext
    <2>3. QED
      BY <1>4, <2>2 DEF OpenNext
  <1>5. CASE LogPrintf(t)
    BY <1>5 DEF LogPrintf, PrintStdout, PrintLock, PrintLook, PrintLine, PrintUnlock
  <1>6. CASE LogClose(t)
    BY <1>6 DEF LogClose, CloseLock, CloseFclose, CloseNull, CloseUnlock
  <1>7. QED
    BY <1>1, <1>2, <1>3, <1>4, <1>5, <1>6 DEF Step, Work, LogOpen

\* A step of t leaves the other threads alone, and all slots but its own.
LEMMA OthersKeep ==
  ASSUME TypeOK, NEW t \in Threads, Step(t)
  PROVE  /\ \A s \in Threads \ {t} : pc'[s] = pc[s] /\ slot'[s] = slot[s] /\ out'[s] = out[s]
         /\ \A i \in Slots : i # slot[t] => spin'[i] = spin[i] /\ file'[i] = file[i]
  <1> USE DEF TypeOK, SpinLock, SpinUnlock
  <1>1. CASE LogPrint(t)
    BY <1>1 DEF LogPrint
  <1>2. CASE LogOpen(t)
    BY <1>2 DEF LogOpen, OpenLock, OpenLook, OpenFopen, OpenNext, OpenReturn
  <1>3. CASE LogPrintf(t)
    BY <1>3 DEF LogPrintf, PrintStdout, PrintLock, PrintLook, PrintLine, PrintUnlock
  <1>4. CASE LogClose(t)
    BY <1>4 DEF LogClose, CloseLock, CloseFclose, CloseNull, CloseUnlock
  <1>5. QED
    BY <1>1, <1>2, <1>3, <1>4 DEF Step, Work

\* What a step does to the lock of its slot, and to the file in it.
Outside(t) == /\ pc[t] \notin Inside /\ pc'[t] \notin Inside
              /\ spin' = spin

Locks(t) == /\ pc[t] \notin Inside /\ pc'[t] \in Inside
            /\ ~spin[slot[t]] /\ spin'[slot[t]] /\ slot'[t] = slot[t]

Works(t) == /\ pc[t] \in Inside /\ pc'[t] \in Inside
            /\ spin' = spin /\ slot'[t] = slot[t]

Unlocks(t) == /\ pc[t] \in Inside /\ pc'[t] \notin Inside
              /\ ~spin'[slot[t]]

Opens(t) == /\ pc[t] = "ofopen" /\ pc'[t] = "ofound" /\ slot'[t] = slot[t]
            /\ file'[slot[t]] = t

Empties(t) == /\ pc[t] = "cnull" /\ pc'[t] = "cunlock" /\ slot'[t] = slot[t]
              /\ file'[slot[t]] = NoThread

Keeps(t) == /\ file' = file
            /\ pc[t] \in Owning <=> pc'[t] \in Owning
            /\ pc[t] \in Owning => slot'[t] = slot[t]

LEMMA StepEffect ==
  ASSUME LogInv, NEW t \in Threads, Step(t)
  PROVE  /\ Outside(t) \/ Locks(t) \/ Works(t) \/ Unlocks(t)
         /\ Opens(t) \/ Empties(t) \/ Keeps(t)
  <1>1. /\ TypeOK /\ LabelInv
        /\ pc[t] \in Owning => file[slot[t]] # NoThread
        /\ pc[t] \in Inside => slot[t] \in Slots
        /\ pc[t] \in Owning \union {"olock"} => slot[t] \in Slots
    BY ThreadsAssumption DEF LogInv, SlotOwned, LabelInv, Inside, Owning
  <1> USE DEF TypeOK, Inside, Owning, SpinLock, SpinUnlock, Outside, Locks, Works,
              Unlocks, Opens, Empties, Keeps
  <1>2. CASE LogPrint(t)
    BY <1>1, <1>2 DEF LogPrint
  <1>3. CASE OpenLock(t) \/ PrintLock(t) \/ CloseLock(t)
    BY <1>1, <1>3 DEF OpenLock, PrintLock, CloseLock
  <1>4. CASE OpenLook(t) \/ PrintLine(t) \/ CloseFclose(t)
    BY <1>1, <1>4 DEF OpenLook, PrintLine, CloseFclose
  <1>5. CASE OpenFopen(t) \/ CloseNull(t)
    BY <1>1, <1>5 DEF OpenFopen, CloseNull
  <1>6. CASE OpenNext(t)
    BY <1>1, <1>6 DEF OpenNext
  <1>7. CASE OpenReturn(t) \/ PrintUnlock(t) \/ CloseUnlock(t)
    BY <1>1, <1>7 DEF OpenReturn, PrintUnlock, CloseUnlock
  <1>8. CASE PrintLook(t)
    BY <1>1, <1>8 DEF PrintLook
  <1>9. CASE PrintStdout(t)
    BY <1>1, <1>9 DEF PrintStdout
  <1>10. QED
    BY <1>2, <1>3, <1>4, <1>5, <1>6, <1>7, <1>8, <1>9
    DEF Step, Work, LogOpen, LogPrintf, LogClose

LEMMA StepSpin ==
  ASSUME LogInv, NEW t \in Threads, Step(t)
  PROVE  SpinExclusive'
  <1>1. /\ \A s \in Threads : pc[s] \in Inside => slot[s] \in Slots /\ spin[slot[s]]
        /\ \A r, s \in Threads : /\ r # s
                                 /\ pc[r] \in Inside /\ pc[s] \in Inside
                                 => slot[r] # slot[s]
    BY DEF LogInv, LabelInv, SpinExclusive, Inside
  <1>2. /\ \A s \in Threads \ {t} : pc'[s] = pc[s] /\ slot'[s] = slot[s]
        /\ \A i \in Slots : i # slot[t] => spin'[i] = spin[i]
    BY OthersKeep DEF LogInv
  <1>3. Outside(t) \/ Locks(t) \/ Works(t) \/ Unlocks(t)
    BY StepEffect
  <1>4. ASSUME NEW s \in Threads \ {t}, pc[s] \in Inside PROVE spin'[slot[s]]
    BY <1>1, <1>2, <1>3, <1>4 DEF Outside, Locks, Works, Unlocks
  <1>5. ASSUME NEW s \in Threads \ {t}, pc[s] \in Inside, pc'[t] \in Inside
        PROVE  slot[s] # slot'[t]
    BY <1>1, <1>3, <1>5 DEF Outside, Locks, Works, Unlocks
  <1>6. pc'[t] \in Inside => spin'[slot'[t]]
    BY <1>1, <1>3 DEF Outside, Locks, Works, Unlocks
  <1>7. QED
    BY <1>1, <1>2, <1>4, <1>5, <1>6 DEF SpinExclusive

LEMMA StepOwned ==
  ASSUME LogInv, NEW t \in Threads, Step(t)
  PROVE  SlotOwned'
  <1>1. /\ \A s \in Threads : pc[s] \in Owning => slot[s] \in Slots /\ file[slot[s]] = s
        /\ \A i \in Slots, s \in Threads : file[i] = s => pc[s] \in Owning /\ slot[s] = i
        /\ pc[t] = "ofopen" => slot[t] \in Slots /\ file[slot[t]] = NoThread
    BY DEF LogInv, LabelInv, SlotOwned, Owning
  <1>2. /\ \A s \in Threads \ {t} : pc'[s] = pc[s] /\ slot'[s] = slot[s]
        /\ \A i \in Slots : i # slot[t] => file'[i] = file[i]
    BY OthersKeep DEF LogInv
  <1>3. Opens(t) \/ Empties(t) \/ Keeps(t)
    BY StepEffect
  <1>4. CASE Opens(t)
    <2>1. "ofopen" \notin Owning /\ "ofound" \in Owning
      BY DEF Owning
    <2>2. \A s \in Threads \ {t} : pc[s] \in Owning => slot[s] # slot[t]
      BY <1>1, <1>4, ThreadsAssumption DEF Opens
    <2>3. \A i \in Slots : file[i] # t
      BY <1>1, <1>4, <2>1 DEF Opens
    <2>4. QED
      BY <1>1, <1>2, <1>4, <2>1, <2>2, <2>3 DEF Opens, SlotOwned
  <1>5. CASE Empties(t)
    <2>1. "cnull" \in Owning /\ "cunlock" \notin Owning
      BY DEF Owning
    <2>2. \A s \in Threads \ {t} : pc[s] \in Owning => slot[s] # slot[t]
      BY <1>1, <1>5, <2>1 DEF Empties
    <2>3. \A i \in Slots : file'[i] # t
      BY <1>1, <1>2, <1>5, <2>1, ThreadsAssumption DEF Empties
    <2>4. QED
      BY <1>1, <1>2, <1>5, <2>1, <2>2, <2>3, ThreadsAssumption DEF Empties, SlotOwned
  <1>6. CASE Keeps(t)
    BY <1>1, <1>2, <1>6 DEF Keeps, SlotOwned
  <1>7. QED
    BY <1>3, <1>4, <1>5, <1>6

LEMMA StepLabel ==
  ASSUME LogInv, NEW t \in Threads, Step(t)
  PROVE  LabelInv'
  <1> USE MaxLogsAssumption
      DEF LogInv, TypeOK, LabelInv, SpinLock, SpinUnlock
  <1>1. CASE LogPrint(t)
    BY <1>1 DEF LogPrint
  <1>2. CASE OpenLock(t) \/ PrintLock(t) \/ CloseLock(t)
    BY <1>2 DEF OpenLock, PrintLock, CloseLock
  <1>3. CASE OpenLook(t) \/ PrintLine(t) \/ CloseFclose(t)
    BY <1>3 DEF OpenLook, PrintLine, CloseFclose
  <1>4. CASE OpenFopen(t) \/ CloseNull(t)
    BY <1>4 DEF OpenFopen, CloseNull, SpinExclusive, Inside
  <1>5. CASE OpenNext(t)
    <2>1. slot[t] \in Slots /\ (slot[t] < MaxLogs => slot[t] + 1 \in Slots)
      BY <1>5 DEF OpenNext
    <2>2. QED
      BY <1>5, <2>1 DEF OpenNext
  <1>6. CASE OpenReturn(t) \/ PrintUnlock(t) \/ CloseUnlock(t)
    BY <1>6 DEF OpenReturn, PrintUnlock, CloseUnlock
  <1>7. CASE PrintLook(t)
    BY <1>7 DEF PrintLook
  <1>8. CASE PrintStdout(t)
    BY <1>8 DEF PrintStdout
  <1>9. QED
    BY <1>1, <1>2, <1>3, <1>4, <1>5, <1>6, <1>7, <1>8 DEF Step, Work, LogOpen, LogPrintf, LogClose

LEMMA StepLine ==
  ASSUME LogInv, NEW t \in Threads, Step(t)
  PROVE  LineInv'
  <1> USE ThreadsAssumption DEF LogInv, TypeOK, LineInv, LinesArrive, SlotOwned, Owning
  <1>1. CASE LogPrint(t)
    BY <1>1 DEF LogPrint
  <1>2. CASE LogOpen(t)
    BY <1>2 DEF LogOpen, OpenLock, OpenLook, OpenFopen, OpenNext, OpenReturn
  <1>3. CASE LogPrintf(t)
    BY <1>3 DEF LogPrintf, PrintStdout, PrintLock, PrintLook, PrintLine, PrintUnlock
  <1>4. CASE LogClose(t)
    BY <1>4 DEF LogClose, CloseLock, CloseFclose, CloseNull, CloseUnlock
  <1>5. QED
    BY <1>1, <1>2, <1>3, <1>4 DEF Step, Work

LEMMA NextLogInv == LogInv /\ [Next]_vars => LogInv'
  <1> SUFFICES ASSUME LogInv, [Next]_vars PROVE LogInv'
    OBVIOUS
  <1>1. ASSUME NEW t \in Threads, Step(t) PROVE LogInv'
    BY <1>1, StepType, StepSpin, StepOwned, StepLabel, StepLine DEF LogInv
  <1>2. CASE UNCHANGED vars
    BY <1>2 DEF vars, LogInv, TypeOK, LabelInv, SpinExclusive, SlotOwned, LineInv, LinesArrive
  <1>3. QED
    BY <1>1, <1>2 DEF Next, Step

LEMMA LogCorrect == Spec => []LogInv
  BY InitLogInv, NextLogInv, PTL DEF Spec

\* TypeOK holds in every reachable state: no slot beyond the table is used.
THEOREM TypeCorrect == Spec => []TypeOK
  <1>1. LogInv => TypeOK
    BY DEF LogInv
  <1>2. QED
    BY <1>1, LogCorrect, PTL

\* A slot's lock is taken exactly while one thread is at work in the slot.
THEOREM LocksExclude == Spec => []SpinExclusive
  <1>1. LogInv => SpinExclusive
    BY DEF LogInv
  <1>2. QED
    BY <1>1, LogCorrect, PTL

\* From log_open to log_close a slot belongs to the thread that got it.
THEOREM SlotsOwned == Spec => []SlotOwned
  <1>1. LogInv => SlotOwned
    BY DEF LogInv
  <1>2. QED
    BY <1>1, LogCorrect, PTL

\* log_printf0 never drops a line.
THEOREM NoLineDropped == Spec => []LinesArrive
  <1>1. LogInv => LinesArrive
    BY DEF LogInv, LineInv
  <1>2. QED
    BY <1>1, LogCorrect, PTL

-----------------------------------------------------------------------------
(***************************************************************************)
(* Slots suffice.  A thread in LOG_PRINT has a rank, the slot it is at or  *)
(* the next one once it has passed over it.  To pass over slot i a thread  *)
(* must find its owner there, whose rank is i, so that of the n threads at *)
(* most n - i have a rank beyond i.                                        *)
(***************************************************************************)
Rank(t) == CASE pc[t] = "stdout" -> MaxLogs + 1
             [] pc[t] = "onext"  -> slot[t] + 1
             [] OTHER            -> slot[t]

Beyond(i) == {t \in Threads : pc[t] # "idle" /\ Rank(t) > i}

AtMost(i) == Beyond(i) = {} \/ Cardinality(Beyond(i)) <= Cardinality(Threads) - i

RankInv ==
  ~failed => \A i \in 0..MaxLogs : AtMost(i)

SlotInv == EnoughSlots /\ RankInv

LEMMA BeyondFinite ==
  ASSUME NEW i
  PROVE  /\ IsFiniteSet(Beyond(i)) /\ Cardinality(Beyond(i)) \in Nat
         /\ Cardinality(Beyond(i)) <= Cardinality(Threads)
         /\ Cardinality(Threads) \in Nat
  <1>1. Beyond(i) \subseteq Threads
    BY DEF Beyond
  <1>2. QED
    BY <1>1, ThreadsAssumption, FS_Subset, FS_CardinalityType

LEMMA BeyondFinitePrime ==
  ASSUME NEW i
  PROVE  Cardinality(Beyond(i)') \in Nat /\ Cardinality(Beyond(i)') <= Cardinality(Threads)
  <1>1. Beyond(i)' \subseteq Threads
    BY DEF Beyond
  <1>2. QED
    BY <1>1, ThreadsAssumption, FS_Subset, FS_CardinalityType

LEMMA FailedStays ==
  ASSUME NEW t \in Threads, Step(t), ~failed'
  PROVE  ~failed
  BY DEF Step, LogPrint, Work, LogOpen, OpenLock, OpenLook, OpenFopen, OpenNext, OpenReturn,
         LogPrintf, PrintStdout, PrintLock, PrintLook, PrintLine, PrintUnlock,
         LogClose, CloseLock, CloseFclose, CloseNull, CloseUnlock

\* Whoever passes over a slot leaves its owner there.
Passes(t) == OpenLook(t) /\ file[slot[t]] # NoThread

\* No other step takes a thread to a higher rank, except out of "idle".
LEMMA RankKept ==
  ASSUME LogInv, ~failed', NEW t \in Threads, Step(t), ~Passes(t),
         NEW i \in 1..MaxLogs
  PROVE  Beyond(i)' \subseteq Beyond(i)
  <1>1. \A s \in Threads \ {t} : pc'[s] = pc[s] /\ slot'[s] = slot[s]
    BY OthersKeep DEF LogInv
  <1>2. \A s \in Threads \ {t} : s \in Beyond(i)' => s \in Beyond(i)
    BY <1>1 DEF Beyond, Rank
  <1>3. t \in Beyond(i)' => t \in Beyond(i)
    <2> USE MaxLogsAssumption DEF LogInv, TypeOK, LabelInv, Beyond, Rank, Passes
    <2>1. CASE LogPrint(t)
      BY <2>1 DEF LogPrint
    <2>2. CASE OpenLock(t) \/ OpenLook(t) \/ OpenFopen(t) \/ OpenReturn(t)
      BY <2>2 DEF OpenLock, OpenLook, OpenFopen, OpenReturn
    <2>3. CASE OpenNext(t)
      BY <2>3 DEF OpenNext
    <2>4. CASE LogPrintf(t)
      BY <2>4 DEF LogPrintf, PrintStdout, PrintLock, PrintLook, PrintLine, PrintUnlock
    <2>5. CASE LogClose(t)
      BY <2>5 DEF LogClose, CloseLock, CloseFclose, CloseNull, CloseUnlock
    <2>6. QED
      BY <2>1, <2>2, <2>3, <2>4, <2>5 DEF Step, Work, LogOpen
  <1>4. QED
    BY <1>2, <1>3 DEF Beyond

LEMMA PassRank ==
  ASSUME LogInv, ~failed', RankInv, NEW t \in Threads, Step(t), Passes(t),
         NEW i \in 1..MaxLogs
  PROVE  AtMost(i)'
  <1> DEFINE k == slot[t]
             q == file[k]
  <1>1. /\ k \in 1..MaxLogs /\ q \in Threads /\ q # t
        /\ pc[q] \in Owning /\ slot[q] = k
    BY MaxLogsAssumption DEF LogInv, TypeOK, LabelInv, SlotOwned, Passes, OpenLook, Owning
  <1>2. \A s \in Threads \ {t} : pc'[s] = pc[s] /\ slot'[s] = slot[s]
    BY OthersKeep DEF LogInv
  <1>3. /\ pc[t] = "olook" /\ pc'[t] = "onext" /\ slot'[t] = k
    BY DEF LogInv, TypeOK, Passes, OpenLook
  <1>4. AtMost(i)
    BY FailedStays DEF RankInv
  <1>5. CASE i # k
    <2>1. Beyond(i)' = Beyond(i)
      BY <1>1, <1>2, <1>3, <1>5 DEF Beyond, Rank
    <2>2. QED
      BY <2>1, <1>4 DEF AtMost
  <1>6. CASE i = k
    <2>1. /\ Beyond(i)' = Beyond(i) \union {t}
          /\ q \notin Beyond(i) \union {t}
          /\ Beyond(i)' \union {q} \subseteq Beyond(i - 1)
      <3>1. Rank(t) = k /\ Rank(t)' = k + 1 /\ Rank(q) = k
        BY <1>1, <1>3 DEF Rank, Owning
      <3>2. \A s \in Threads \ {t} : Rank(s)' = Rank(s)
        BY <1>2 DEF Rank
      <3>3. pc[q] # "idle"
        BY <1>1 DEF Owning
      <3>4. \A s \in Threads : pc[s] # "idle" => Rank(s) \in Int
        BY MaxLogsAssumption DEF Rank, LogInv, TypeOK
      <3>5. QED
        BY <1>1, <1>2, <1>3, <1>6, <3>1, <3>2, <3>3, <3>4 DEF Beyond
    <2>2. Cardinality(Beyond(i - 1)) <= Cardinality(Threads) - (i - 1)
      BY <1>6, <2>1, MaxLogsAssumption, FailedStays DEF RankInv, AtMost
    <2>3. IsFiniteSet(Beyond(i)') /\ IsFiniteSet(Beyond(i - 1))
      BY <2>1, BeyondFinite, FS_AddElement
    <2>4. Cardinality(Beyond(i)' \union {q}) = Cardinality(Beyond(i)') + 1
      BY <2>1, <2>3, FS_AddElement
    <2>5. Cardinality(Beyond(i)' \union {q}) <= Cardinality(Beyond(i - 1))
      BY <2>1, <2>3, FS_Subset
    <2>6. QED
      BY <2>2, <2>4, <2>5, BeyondFinite, BeyondFinitePrime DEF AtMost
  <1>7. QED
    BY <1>5, <1>6

LEMMA StepRank ==
  ASSUME LogInv, RankInv, NEW t \in Threads, Step(t)
  PROVE  RankInv'
  <1> SUFFICES ASSUME ~failed', NEW i \in 0..MaxLogs
               PROVE  AtMost(i)'
    BY DEF RankInv
  <1>1. CASE i = 0
    BY <1>1, BeyondFinitePrime, BeyondFinite DEF AtMost
  <1>2. CASE i # 0 /\ Passes(t)
    BY <1>2, PassRank
  <1>3. CASE i # 0 /\ ~Passes(t)
    <2>1. Beyond(i)' \subseteq Beyond(i)
      BY <1>3, RankKept
    <2>2. Cardinality(Beyond(i)') <= Cardinality(Beyond(i))
      BY <2>1, BeyondFinite, FS_Subset
    <2>3. AtMost(i)
      BY FailedStays DEF RankInv
    <2>4. QED
      BY <2>1, <2>2, <2>3, BeyondFinite, BeyondFinitePrime DEF AtMost
  <1>4. QED
    BY <1>1, <1>2, <1>3

LEMMA StepSlots ==
  ASSUME LogInv, SlotInv, NEW t \in Threads, Step(t)
  PROVE  EnoughSlots'
  <1> SUFFICES ASSUME Cardinality(Threads) <= MaxLogs, ~failed'
               PROVE  \A s \in Threads : slot'[s] # LOG_INVALID
    BY DEF EnoughSlots
  <1>1. \A s \in Threads : slot[s] # LOG_INVALID
    BY FailedStays DEF SlotInv, EnoughSlots
  <1>2. \A s \in Threads \ {t} : slot'[s] = slot[s]
    BY OthersKeep DEF LogInv
  <1>3. ~(pc[t] = "onext" /\ slot[t] = MaxLogs)
    <2>1. AtMost(MaxLogs)
      BY MaxLogsAssumption, FailedStays DEF SlotInv, RankInv
    <2>2. Beyond(MaxLogs) = {}
      BY <2>1, MaxLogsAssumption, BeyondFinite, FS_EmptySet DEF AtMost
    <2>3. QED
      BY <2>2, MaxLogsAssumption DEF Beyond, Rank
  <1>4. slot'[t] # LOG_INVALID
    <2> USE <1>1, MaxLogsAssumption DEF LogInv, TypeOK
    <2>1. CASE LogPrint(t)
      BY <2>1 DEF LogPrint
    <2>2. CASE OpenNext(t)
      BY <2>2, <1>3 DEF OpenNext, LabelInv
    <2>3. CASE OpenLock(t) \/ OpenLook(t) \/ OpenFopen(t) \/ OpenReturn(t)
      BY <2>3 DEF OpenLock, OpenLook, OpenFopen, OpenReturn
    <2>4. CASE LogPrintf(t)
      BY <2>4 DEF LogPrintf, PrintStdout, PrintLock, PrintLook, PrintLine, PrintUnlock
    <2>5. CASE LogClose(t)
      BY <2>5 DEF LogClose, CloseLock, CloseFclose, CloseNull, CloseUnlock
    <2>6. QED
      BY <2>1, <2>2, <2>3, <2>4, <2>5 DEF Step, Work, LogOpen
  <1>5. QED
    BY <1>2, <1>4, <1>1

LEMMA SlotCorrect == Spec => [](LogInv /\ SlotInv)
  <1>1. Init => SlotInv
    BY DEF Init, SlotInv, EnoughSlots, RankInv, AtMost, Beyond
  <1>2. LogInv /\ SlotInv /\ [Next]_vars => SlotInv'
    <2> SUFFICES ASSUME LogInv, SlotInv, [Next]_vars PROVE SlotInv'
      OBVIOUS
    <2>1. ASSUME NEW t \in Threads, Step(t) PROVE SlotInv'
      BY <2>1, StepRank, StepSlots DEF SlotInv
    <2>2. CASE UNCHANGED vars
      BY <2>2 DEF vars, SlotInv, EnoughSlots, RankInv, AtMost, Beyond, Rank
    <2>3. QED
      BY <2>1, <2>2 DEF Next, Step
  <1>3. QED
    BY <1>1, <1>2, InitLogInv, NextLogInv, PTL DEF Spec

\* With no more threads than slots, and while no fopen has failed, log_open
\* finds a slot.
THEOREM SlotsSuffice == Spec => []EnoughSlots
  <1>1. SlotInv => EnoughSlots
    BY DEF SlotInv
  <1>2. QED
    BY <1>1, SlotCorrect, PTL
=============================================================================
