-------------------------------- MODULE ZLog --------------------------------
(***************************************************************************)
(* The log of zimg: every LOG_PRINT opens the log file in a slot of a      *)
(* fixed table (log_open), prints one line through it (log_printf0) and    *)
(* closes it (log_close).  All threads share the table; each slot has a    *)
(* spin lock of its own.                                                   *)
(***************************************************************************)
EXTENDS Integers, FiniteSets

CONSTANTS Threads,   \* the threads that print
          NoThread,  \* no file is open in the slot
          MaxLogs    \* MAX_LOGS

ASSUME ThreadsAssumption == IsFiniteSet(Threads) /\ NoThread \notin Threads
ASSUME MaxLogsAssumption == MaxLogs \in Nat \ {0}

LOG_USER == 1       \* slot 0 is given to nobody
LOG_INVALID == -1
Slots == LOG_USER..MaxLogs

VARIABLES spin,   \* spin[i]: the spin lock of slot i is taken
          file,   \* file[i]: the thread that opened log_files[i], or NoThread
          pc,     \* pc[t]: where thread t is in LOG_PRINT
          slot,   \* slot[t]: i of log_open, then log_id
          out,    \* out[t]: where the line of thread t went
          failed  \* history: an fopen has failed

vars == <<spin, file, pc, slot, out, failed>>

\* Labels between spin_lock and spin_unlock.
Inside == {"olook", "ofopen", "onext", "ofound", "pheld", "pline", "punlock",
           "cheld", "cnull", "cunlock"}
\* Labels at which log_id is the number of a slot that log_open returned, or is
\* about to return, and that log_close has not emptied.
Owning == {"ofound", "plock", "pheld", "pline", "punlock", "clock", "cheld", "cnull"}
Labels == {"idle", "olock", "stdout"} \union Inside \union Owning

\* A slot has the file of one thread or none, and a thread has one slot or none.
TypeOK ==
  /\ spin \in [Slots -> BOOLEAN]
  /\ file \in [Slots -> Threads \union {NoThread}]
  /\ pc \in [Threads -> Labels]
  /\ slot \in [Threads -> Slots \union {LOG_INVALID}]
  /\ out \in [Threads -> {"none", "file", "stdout"}]
  /\ failed \in BOOLEAN

Init ==
  /\ spin = [i \in Slots |-> FALSE]
  /\ file = [i \in Slots |-> NoThread]
  /\ pc = [t \in Threads |-> "idle"]
  /\ slot = [t \in Threads |-> LOG_USER]
  /\ out = [t \in Threads |-> "none"]
  /\ failed = FALSE

-----------------------------------------------------------------------------

\* Thread t goes from one label to another.
Move(t, from, to) == pc[t] = from /\ pc' = [pc EXCEPT ![t] = to]

\* spin_lock: fetch_and_or until the word was 0
SpinLock(t) == /\ ~spin[slot[t]]
               /\ spin' = [spin EXCEPT ![slot[t]] = TRUE]

SpinUnlock(t) == spin' = [spin EXCEPT ![slot[t]] = FALSE]

\* LOG_PRINT
LogPrint(t) == /\ Move(t, "idle", "olock")
               /\ slot' = [slot EXCEPT ![t] = LOG_USER]
               /\ out' = [out EXCEPT ![t] = "none"]
               /\ UNCHANGED <<spin, file, failed>>

(* log_open *)

OpenLock(t) == /\ Move(t, "olock", "olook")
               /\ SpinLock(t)
               /\ UNCHANGED <<file, slot, out, failed>>

\* Mutant: a slot in use is taken over.
OpenLookBlind(t) == Move(t, "olook", "ofopen") /\ UNCHANGED <<spin, file, slot, out, failed>>

\* log_files[i] == NULL
OpenLook(t) ==
  /\ \/ Move(t, "olook", "ofopen") /\ file[slot[t]] = NoThread
     \/ Move(t, "olook", "onext") /\ file[slot[t]] # NoThread
  /\ UNCHANGED <<spin, file, slot, out, failed>>

\* log_files[i] = fopen(path, mode)
OpenFopen(t) ==
  /\ \/ /\ Move(t, "ofopen", "ofound")
        /\ file' = [file EXCEPT ![slot[t]] = t]
        /\ UNCHANGED failed
     \/ /\ Move(t, "ofopen", "onext")
        /\ failed' = TRUE
        /\ UNCHANGED file
  /\ UNCHANGED <<spin, slot, out>>

\* Mutant: the lock is kept when a slot is passed over.
OpenNextLocked(t) ==
  /\ \/ slot[t] < MaxLogs /\ Move(t, "onext", "olock")
        /\ slot' = [slot EXCEPT ![t] = @ + 1]
     \/ slot[t] = MaxLogs /\ Move(t, "onext", "stdout")
        /\ slot' = [slot EXCEPT ![t] = LOG_INVALID]
  /\ UNCHANGED <<spin, file, out, failed>>

\* Mutant: the loop runs one slot too far.
OpenNextPastEnd(t) ==
  /\ Move(t, "onext", "olock")
  /\ slot' = [slot EXCEPT ![t] = @ + 1]
  /\ SpinUnlock(t)
  /\ UNCHANGED <<file, out, failed>>

\* Mutant: the last slot is never tried.
OpenNextShort(t) ==
  /\ \/ slot[t] < MaxLogs - 1 /\ Move(t, "onext", "olock")
        /\ slot' = [slot EXCEPT ![t] = @ + 1]
     \/ slot[t] >= MaxLogs - 1 /\ Move(t, "onext", "stdout")
        /\ slot' = [slot EXCEPT ![t] = LOG_INVALID]
  /\ SpinUnlock(t)
  /\ UNCHANGED <<file, out, failed>>

\* The loop unlocks the slot and goes on to the next, or returns LOG_INVALID.
OpenNext(t) ==
  /\ \/ slot[t] < MaxLogs /\ Move(t, "onext", "olock")
        /\ slot' = [slot EXCEPT ![t] = @ + 1]
     \/ slot[t] = MaxLogs /\ Move(t, "onext", "stdout")
        /\ slot' = [slot EXCEPT ![t] = LOG_INVALID]
  /\ SpinUnlock(t)
  /\ UNCHANGED <<file, out, failed>>

OpenReturn(t) == /\ Move(t, "ofound", "plock")
                 /\ SpinUnlock(t)
                 /\ UNCHANGED <<file, slot, out, failed>>

(* log_printf0 *)

\* No slot: the line goes to stdout, and log_close returns at once.
PrintStdout(t) == /\ Move(t, "stdout", "idle")
                  /\ out' = [out EXCEPT ![t] = "stdout"]
                  /\ UNCHANGED <<spin, file, slot, failed>>

PrintLock(t) == /\ Move(t, "plock", "pheld")
                /\ SpinLock(t)
                /\ UNCHANGED <<file, slot, out, failed>>

\* fp = log_files[log_id]; without a file the line is dropped.
PrintLook(t) ==
  /\ pc[t] = "pheld"
  /\ IF file[slot[t]] # NoThread
     THEN Move(t, "pheld", "pline") /\ UNCHANGED spin
     ELSE Move(t, "pheld", "clock") /\ SpinUnlock(t)
  /\ UNCHANGED <<file, slot, out, failed>>

\* The calls of fprintf, vfprintf and fputc, and fflush(fp)
PrintLine(t) == /\ Move(t, "pline", "punlock")
                /\ out' = [out EXCEPT ![t] = "file"]
                /\ UNCHANGED <<spin, file, slot, failed>>

PrintUnlock(t) == /\ Move(t, "punlock", "clock")
                  /\ SpinUnlock(t)
                  /\ UNCHANGED <<file, slot, out, failed>>

(* log_close *)

CloseLock(t) == /\ Move(t, "clock", "cheld")
                /\ SpinLock(t)
                /\ UNCHANGED <<file, slot, out, failed>>

\* fclose(log_files[log_id]), if there is one
CloseFclose(t) ==
  /\ Move(t, "cheld", IF file[slot[t]] # NoThread THEN "cnull" ELSE "cunlock")
  /\ UNCHANGED <<spin, file, slot, out, failed>>

\* log_files[log_id] = NULL
CloseNull(t) == /\ Move(t, "cnull", "cunlock")
                /\ file' = [file EXCEPT ![slot[t]] = NoThread]
                /\ UNCHANGED <<spin, slot, out, failed>>

CloseUnlock(t) == /\ Move(t, "cunlock", "idle")
                  /\ SpinUnlock(t)
                  /\ UNCHANGED <<file, slot, out, failed>>

LogOpen(t) == OpenLock(t) \/ OpenLook(t) \/ OpenFopen(t) \/ OpenNext(t) \/ OpenReturn(t)
LogPrintf(t) == \/ PrintStdout(t) \/ PrintLock(t) \/ PrintLook(t)
                \/ PrintLine(t) \/ PrintUnlock(t)
LogClose(t) == CloseLock(t) \/ CloseFclose(t) \/ CloseNull(t) \/ CloseUnlock(t)

Work(t) == LogOpen(t) \/ LogPrintf(t) \/ LogClose(t)

Next == \E t \in Threads : LogPrint(t) \/ Work(t)

Spec == Init /\ [][Next]_vars

\* A thread that can take its next step is scheduled again and again; a spin
\* lock that is free now and then promises nothing to one thread.
FairSpec == Spec /\ \A t \in Threads : WF_vars(Work(t))

-----------------------------------------------------------------------------
(* Properties *)

\* A slot's lock is taken exactly while one thread is at work in the slot.
SpinExclusive ==
  /\ \A t \in Threads : pc[t] \in Inside => spin[slot[t]]
  /\ \A s, t \in Threads : /\ s # t
                           /\ pc[s] \in Inside /\ pc[t] \in Inside
                           => slot[s] # slot[t]

\* From log_open to log_close a slot belongs to the thread that got it: the
\* file in it is the one that thread opened, so nobody prints through or
\* closes the file of another, and no file stays open after log_close.
SlotOwned ==
  /\ \A t \in Threads : pc[t] \in Owning => file[slot[t]] = t
  /\ \A i \in Slots, t \in Threads : file[i] = t => pc[t] \in Owning /\ slot[t] = i

\* No line is dropped: a slot that log_open returned has a file when
\* log_printf0 looks, although the lock was free in between.
LinesArrive ==
  \A t \in Threads : pc[t] \in {"clock", "cheld", "cnull", "cunlock"} => out[t] = "file"

\* With no more threads than slots, and while no fopen has failed, log_open
\* finds a slot, although each slot is looked at only once and slots that were
\* passed over become free while others are taken.
EnoughSlots ==
  Cardinality(Threads) <= MaxLogs /\ ~failed => \A t \in Threads : slot[t] # LOG_INVALID

\* No spin lock is kept: whoever takes one gives it back, and log_printf0
\* does so on its early return as well.
LocksReleased == \A i \in Slots : spin[i] ~> ~spin[i]
=============================================================================
