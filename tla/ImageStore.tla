----------------------------- MODULE ImageStore -----------------------------
(***************************************************************************)
(* What an image store promises its clients, whatever it is built from: an *)
(* answer "ok" or "notfound" is backed by what the store was at some       *)
(* instant between the request and the answer, only uploads add images and *)
(* only deletes take them away.                                            *)
(***************************************************************************)
CONSTANTS Threads, Keys

VARIABLES stored,   \* the images in the store
          job,      \* job[t]: the kind of request t serves, or "idle"
          key,      \* key[t]: the image it is about
          seen,     \* seen[t]: what serving it has established
          answer    \* answer[t]: the answer decided on, or "none"

vars == <<stored, job, key, seen, answer>>

Jobs == {"upload", "get", "delete", "command", "info"}
Seen == {"none", "present", "removed"}
Answers == {"none", "ok", "fail", "notfound", "notmodified"}

\* A request is one of the jobs, and its answer one of the store's.
TypeOK ==
  /\ stored \subseteq Keys
  /\ job \in [Threads -> Jobs \union {"idle"}]
  /\ key \in [Threads -> Keys]
  /\ seen \in [Threads -> Seen]
  /\ answer \in [Threads -> Answers]

Init ==
  /\ stored = {}
  /\ job = [t \in Threads |-> "idle"]
  /\ key \in [Threads -> Keys]
  /\ seen = [t \in Threads |-> "none"]
  /\ answer = [t \in Threads |-> "none"]

Serving(t) == job[t] # "idle" /\ answer[t] = "none"

Ask(t) ==
  /\ job[t] = "idle"
  /\ \E j \in Jobs : job' = [job EXCEPT ![t] = j]
  /\ \E k \in Keys : key' = [key EXCEPT ![t] = k]
  /\ UNCHANGED <<stored, seen, answer>>

\* The image is there at this instant.
Find(t) ==
  /\ Serving(t)
  /\ key[t] \in stored
  /\ seen' = [seen EXCEPT ![t] = "present"]
  /\ UNCHANGED <<stored, job, key, answer>>

\* What a step has established is kept, or answered at once.
Establish(t, what) ==
  \/ seen' = [seen EXCEPT ![t] = what] /\ UNCHANGED answer
  \/ answer' = [answer EXCEPT ![t] = "ok"] /\ UNCHANGED seen

\* An upload puts the image into the store.
Store(t) ==
  /\ Serving(t)
  /\ job[t] = "upload"
  /\ stored' = stored \union {key[t]}
  /\ Establish(t, "present")
  /\ UNCHANGED <<job, key>>

\* A delete takes the image out of the store.
Remove(t) ==
  /\ Serving(t)
  /\ job[t] = "delete"
  /\ key[t] \in stored
  /\ stored' = stored \ {key[t]}
  /\ Establish(t, "removed")
  /\ UNCHANGED <<job, key>>

\* Which answers are backed by what: a delete may find its work done.
Backed(t, r) ==
  CASE r = "ok"          -> IF job[t] = "delete"
                            THEN seen[t] = "removed" \/ key[t] \notin stored
                            ELSE seen[t] = "present" \/ key[t] \in stored
    [] r = "notmodified" -> job[t] = "get" /\ seen[t] = "present"
    [] r = "notfound"    -> job[t] # "upload" /\ key[t] \notin stored
    [] r = "fail"        -> TRUE
    [] OTHER             -> FALSE

Decide(t) ==
  /\ Serving(t)
  /\ \E r \in Answers : Backed(t, r) /\ answer' = [answer EXCEPT ![t] = r]
  /\ seen' = [seen EXCEPT ![t] = "none"]
  /\ UNCHANGED <<stored, job, key>>

Answer(t) ==
  /\ answer[t] # "none"
  /\ job' = [job EXCEPT ![t] = "idle"]
  /\ answer' = [answer EXCEPT ![t] = "none"]
  /\ UNCHANGED <<stored, key, seen>>

\* A restart forgets the requests, never the images.
Restart ==
  /\ job' = [t \in Threads |-> "idle"]
  /\ seen' = [t \in Threads |-> "none"]
  /\ answer' = [t \in Threads |-> "none"]
  /\ UNCHANGED <<stored, key>>

Next == \/ Restart
        \/ \E t \in Threads : \/ Ask(t) \/ Find(t) \/ Store(t) \/ Remove(t)
                              \/ Decide(t) \/ Answer(t)

Spec == Init /\ [][Next]_vars
=============================================================================
