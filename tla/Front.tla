------------------------------- MODULE Front -------------------------------
(***************************************************************************)
(* The front of zimg: load_conf reads the access rules and the headers of  *)
(* answers (main.c); then workers serve the requests of connections: find  *)
(* the address, ask the rules, look at the path, ask the store (zhttpd.c); *)
(* when a signal has ended the main loop, main frees rules and headers     *)
(* while the workers still run.                                            *)
(*                                                                         *)
(* A worker serves one request of a connection after the other, so that a  *)
(* connection is a process.  What the store answers is any of its results: *)
(* DiskStore and DbStore say which and when.                               *)
(***************************************************************************)
EXTENDS Access, FiniteSets

CONSTANTS
  Conns,        \* connections
  Peers,        \* addresses that connections come from
  Headers,      \* headers the configuration may name, "Key:value"
  Confs,        \* configurations
  Requests,     \* requests clients may send
  NoRequest

RuleOptions == {"upload_rule", "download_rule", "admin_rule"}
Options == {"headers"} \union RuleOptions

\* The order in which load_conf reads the options, and main frees them.
Order == <<"headers", "upload_rule", "download_rule", "admin_rule">>

\* A section of the option headers: whether it has a colon, and the header.
HeaderSections == [colon : BOOLEAN, header : Headers]

Services == {"get", "admin", "info", "upload"}
Methods == {"GET", "POST", "PUT"}

\* What a request is for.  get: the path is "/", names favicon.ico, has a
\* "..", is another, or is an md5.  admin and info: there is no query, or its
\* md5 is missing or none ("other"), or it is one.
Targets == {"root", "icon", "up", "other", "md5"}

\* X-Forwarded-For: not there, not an address, or an address.
IsRequest(r) ==
  /\ DOMAIN r = {"service", "method", "named", "address", "target"}
  /\ r.service \in Services /\ r.method \in Methods /\ r.target \in Targets
  /\ r.named \in BOOLEAN /\ r.address \in Addresses

ASSUME PeersAssumption == Peers \subseteq Addresses
ASSUME RequestsAssumption ==
  NoRequest \notin Requests /\ \A r \in Requests : IsRequest(r)
ASSUME ConfsAssumption ==
  \A conf \in Confs : /\ DOMAIN conf = Options
                      /\ conf["headers"] \in Seq(HeaderSections)
                      /\ \A o \in RuleOptions : conf[o] \in Texts

Kinds == {"none", "page", "icon", "image", "notmodified", "command",
          "description", "upload", "forbidden", "notfound", "error"}

VARIABLES
  phase,    \* of the process: "load", "serve", "stop", "down"
  conf,     \* the configuration
  turn,     \* which option of Order is read, or freed, next
  seen,     \* per option: its sections read so far, as they were read
  rules,    \* per rule option: its list (settings.up_access, ...)
  headers,  \* the list settings.headers
  saddr,    \* per connection: ev_conn->saddr
  pc,       \* per connection: the step of the request under way
  req,      \* per connection: the latest request
  answer,   \* per connection: the answer to it
  sent      \* per connection: the headers that came with the answer

settings == <<conf, seen, rules, headers>>
perConn == <<saddr, pc, req, answer, sent>>
vars == <<phase, turn, settings, perConn>>

\* What is read so far is a beginning of the configuration's texts, rules and
\* headers are lists of theirs, and a connection with a step to do has a request.
TypeOK ==
  /\ phase \in {"load", "serve", "stop", "down"}
  /\ conf \in Confs
  /\ turn \in 1..5
  /\ DOMAIN seen = Options /\ seen["headers"] \in Seq(HeaderSections)
  /\ \A o \in RuleOptions : seen[o] \in Texts
  /\ rules \in [RuleOptions -> Seq(Rules)]
  /\ headers \in Seq(Headers)
  /\ saddr \in [Conns -> Addresses]
  /\ pc \in [Conns -> {"idle", "judge", "handle"}]
  /\ req \in [Conns -> Requests \union {NoRequest}]
  /\ \A c \in Conns : pc[c] # "idle" => req[c] # NoRequest
  /\ answer \in [Conns -> Kinds]
  /\ sent \in [Conns -> Seq(Headers)]

Init ==
  /\ phase = "load" /\ turn = 1
  /\ conf \in Confs
  /\ seen = [o \in Options |-> <<>>]
  /\ rules = [o \in RuleOptions |-> <<>>]
  /\ headers = <<>>
  /\ saddr \in [Conns -> Peers]
  /\ pc = [c \in Conns |-> "idle"]
  /\ req = [c \in Conns |-> NoRequest]
  /\ answer = [c \in Conns |-> "none"]
  /\ sent = [c \in Conns |-> <<>>]

-----------------------------------------------------------------------------
(* main and load_conf *)

Current == Order[turn]
Text == conf[Current]
\* The section that is read next.
Pos == Len(seen[Current]) + 1

Loading == phase = "load" /\ turn <= 4 /\ UNCHANGED <<conf, perConn>>
See(s) == seen' = [seen EXCEPT ![Current] = Append(@, s)]

\* conf_get_rules: one turn of its loop.
LoadRule ==
  /\ Loading /\ Current \in RuleOptions /\ Pos <= Len(Text)
  /\ \E s \in ReadAs(Text, Pos) :
       /\ See(s)
       /\ rules' = [rules EXCEPT ![Current] = AddRule(@, s)]
  /\ UNCHANGED <<phase, turn, headers>>

\* Mutant: a new node does not point to the nodes before it.
AddHeaderForgets(list, s) == IF s.colon THEN <<s.header>> ELSE list

\* conf_get_headers: the header of a section is put at the head of the list.
AddHeader(list, s) == IF s.colon THEN <<s.header>> \o list ELSE list

\* A colon in a later section.
ColonBehind == \E j \in Pos..Len(Text) : Text[j].colon

\* conf_get_headers: one turn of its loop.  The last section ends at a stale
\* semicolon, or has a stale colon, when the bytes behind the copy have them.
LoadHeader ==
  /\ Loading /\ Current = "headers" /\ Pos <= Len(Text)
  /\ Text[Pos].colon \/ ~ColonBehind
  /\ \E s \in {Text[Pos]} \union (IF Pos = Len(Text)
                                  THEN {h \in HeaderSections : h.colon} ELSE {}) :
       /\ See(s)
       /\ headers' = AddHeader(headers, s)
  /\ UNCHANGED <<phase, turn, rules>>

\* conf_get_headers: a section without a colon takes the colon of a later
\* section, or of stale bytes, for its own; its value has a length below 0, with
\* which strncpy writes over the end of memory.
DieOfHeader ==
  /\ Loading /\ Current = "headers" /\ Pos <= Len(Text)
  /\ ~Text[Pos].colon
  /\ phase' = "down"
  /\ UNCHANGED <<turn, seen, rules, headers>>

\* load_conf goes on to the next option, main to the event loop.
NextOption ==
  /\ Loading /\ Pos > Len(Text)
  /\ turn' = IF turn = 4 THEN 1 ELSE turn + 1
  /\ phase' = IF turn = 4 THEN "serve" ELSE "load"
  /\ UNCHANGED <<seen, rules, headers>>

\* sighandler, event_base_loopexit: the main thread leaves its loop.  It frees
\* headers and rules, one option after the other.
StopLoop ==
  /\ phase = "serve"
  /\ phase' = "stop"
  /\ UNCHANGED <<turn, settings, perConn>>

FreeOption ==
  /\ phase = "stop" /\ turn <= 4
  /\ turn' = turn + 1
  /\ UNCHANGED <<phase, settings, perConn>>

\* The process ends, and with it its workers and their connections.
End ==
  /\ phase' = "down"
  /\ pc' = [c \in Conns |-> "idle"]
  /\ req' = [c \in Conns |-> NoRequest]
  /\ answer' = [c \in Conns |-> "none"]
  /\ sent' = [c \in Conns |-> <<>>]
  /\ UNCHANGED <<turn, settings, saddr>>

\* main returns.
Exit == phase = "stop" /\ turn = 5 /\ End

Freed(o) == phase = "stop" /\ \E k \in 1..(turn - 1) : Order[k] = o

-----------------------------------------------------------------------------
(* Connections and requests *)

Running == phase \in {"serve", "stop"}

\* Mutant: a connection is replaced while its request is under way.
ConnectAnyTime(c) ==
  /\ phase = "serve"
  /\ \E a \in Peers : saddr' = [saddr EXCEPT ![c] = a]
  /\ req' = [req EXCEPT ![c] = NoRequest]
  /\ answer' = [answer EXCEPT ![c] = "none"]
  /\ sent' = [sent EXCEPT ![c] = <<>>]
  /\ UNCHANGED <<phase, turn, settings, pc>>

\* A client comes with a new connection in place of an old one.
Connect(c) ==
  /\ phase = "serve" /\ pc[c] = "idle"
  /\ \E a \in Peers : saddr' = [saddr EXCEPT ![c] = a]
  /\ req' = [req EXCEPT ![c] = NoRequest]
  /\ answer' = [answer EXCEPT ![c] = "none"]
  /\ sent' = [sent EXCEPT ![c] = <<>>]
  /\ UNCHANGED <<phase, turn, settings, pc>>

Answer(c, kind, hs) ==
  /\ answer' = [answer EXCEPT ![c] = kind]
  /\ sent' = [sent EXCEPT ![c] = hs]
  /\ pc' = [pc EXCEPT ![c] = "idle"]

\* Mutant: every GET is judged by the rules for downloads.
OptionOfGet(r) ==
  IF r.method = "POST" THEN "upload_rule" ELSE "download_rule"

\* The rules a request is judged by; info_request_cb asks none.
Option(r) ==
  IF r.method = "POST" THEN "upload_rule"
  ELSE IF r.service = "admin" THEN "admin_rule" ELSE "download_rule"

\* The methods that the callbacks take; get_request_cb and admin_request_cb
\* hand a POST to post_request_cb.
Takes(r) == CASE r.service = "info"   -> r.method = "GET"
              [] r.service = "upload" -> r.method = "POST"
              [] OTHER                -> r.method \in {"GET", "POST"}

\* The beginning of the four callbacks.  inet_aton writes an address that the
\* proxy named into the connection, for its later requests too.
Receive(c) ==
  /\ Running /\ pc[c] = "idle"
  /\ \E r \in Requests :
       /\ req' = [req EXCEPT ![c] = r]
       /\ saddr' = [saddr EXCEPT ![c] = IF r.named THEN r.address ELSE @]
       /\ IF Takes(r)
          THEN /\ pc' = [pc EXCEPT ![c] = IF r.service = "info" THEN "handle"
                                          ELSE "judge"]
               /\ answer' = [answer EXCEPT ![c] = "none"]
               /\ sent' = [sent EXCEPT ![c] = <<>>]
          ELSE Answer(c, IF r.service \in {"info", "upload"} THEN "error"
                         ELSE "notfound", <<>>)
  /\ UNCHANGED <<phase, turn, settings>>

\* The decision on a request; anything where the list has been freed.
Decisions(c) ==
  IF Freed(Option(req[c])) THEN {"ok", "forbidden"}
  ELSE {zimg_access_inet(rules[Option(req[c])], saddr[c])}

Judge(c) ==
  /\ Running /\ pc[c] = "judge"
  /\ \E d \in Decisions(c) :
       IF d = "ok"
       THEN pc' = [pc EXCEPT ![c] = "handle"] /\ UNCHANGED <<answer, sent>>
       ELSE Answer(c, "forbidden", <<>>)
  /\ UNCHANGED <<phase, turn, settings, saddr, req>>

\* zimg_headers_add, with a list that may have been freed.
HeadersAdded == IF Freed("headers") THEN {<<>>, headers} ELSE {headers}

\* get_request_cb behind the access check.
HandleGet(c) ==
  LET r == req[c] IN
  /\ pc[c] = "handle" /\ r.service = "get" /\ r.method = "GET"
  /\ \/ r.target = "root"  /\ Answer(c, "page", <<>>)
     \/ r.target = "icon"  /\ \E hs \in HeadersAdded : Answer(c, "icon", hs)
     \/ r.target = "up"    /\ Answer(c, "forbidden", <<>>)
     \/ r.target = "other" /\ Answer(c, "notfound", <<>>)
     \/ r.target = "md5"   /\ \/ Answer(c, "notfound", <<>>)
                              \/ Answer(c, "notmodified", <<>>)
                              \/ \E hs \in HeadersAdded : Answer(c, "image", hs)

\* admin_request_cb behind the access check.  A failed command is told in a
\* page, with the status 200.
HandleAdmin(c) ==
  LET r == req[c] IN
  /\ pc[c] = "handle" /\ r.service = "admin" /\ r.method = "GET"
  /\ \/ r.target = "icon" /\ \E hs \in HeadersAdded : Answer(c, "icon", hs)
     \/ r.target = "root" /\ Answer(c, "page", <<>>)
     \/ r.target \in {"up", "other"} /\ Answer(c, "notfound", <<>>)
     \/ r.target = "md5"  /\ Answer(c, "command", <<>>)

\* info_request_cb: no query or no md5, image unknown or unreadable, or known.
HandleInfo(c) ==
  LET r == req[c] IN
  /\ pc[c] = "handle" /\ r.service = "info"
  /\ \/ Answer(c, "error", <<>>)
     \/ r.target = "md5" /\ Answer(c, "description", <<>>)

\* post_request_cb behind the access check: Multipart says what follows.
HandleUpload(c) ==
  /\ pc[c] = "handle" /\ req[c].method = "POST"
  /\ Answer(c, "upload", <<>>)

Handle(c) ==
  /\ Running
  /\ HandleGet(c) \/ HandleAdmin(c) \/ HandleInfo(c) \/ HandleUpload(c)
  /\ UNCHANGED <<phase, turn, settings, saddr, req>>

\* A worker that reads a list that has been freed may also end the process.
DieOfFreed(c) ==
  /\ \/ pc[c] = "judge" /\ Freed(Option(req[c]))
     \/ pc[c] = "handle" /\ Freed("headers")
  /\ End

-----------------------------------------------------------------------------
Load == LoadRule \/ LoadHeader \/ DieOfHeader \/ NextOption
Stop == StopLoop \/ FreeOption \/ Exit
Serve(c) == Judge(c) \/ Handle(c) \/ DieOfFreed(c)

Next == Load \/ Stop \/ \E c \in Conns : Connect(c) \/ Receive(c) \/ Serve(c)

Spec == Init /\ [][Next]_vars

-----------------------------------------------------------------------------
(* Properties *)

\* What was read of a text: all sections as they are written, but for the last.
AsWritten(o) ==
  \A i \in DOMAIN seen[o] : \/ seen[o][i] = conf[o][i]
                            \/ i = Len(conf[o]) /\ seen[o][i] \in Misread(conf[o][i])

\* The option that must allow an address before it gets an answer of a kind.
Needs == [image |-> "download_rule", notmodified |-> "download_rule",
          command |-> "admin_rule", upload |-> "upload_rule"]

\* While the process serves, an image, a command or an upload is granted only to
\* an address that the text of the option for it allows, and a request that
\* rules apply to is refused only to one that the text denies: the last section
\* written that covers the address decides, sections that say nothing count for
\* nothing.  (A ".." in a path is refused besides.)  Of the text only the end of
\* the last section may be misread.
AnswersFollowRules ==
  /\ \A o \in RuleOptions : AsWritten(o)
  /\ phase = "serve" =>
       \A c \in Conns :
         /\ answer[c] \in DOMAIN Needs =>
              Verdict(seen[Needs[answer[c]]], saddr[c]) = "ok"
         /\ answer[c] = "forbidden" /\ req[c].target # "up" =>
              Verdict(seen[Option(req[c])], saddr[c]) = "forbidden"

\* The place that the header of section i of a text has among the headers of an
\* answer: behind those of the later sections with a colon.
Place(text, i) ==
  Cardinality({j \in DOMAIN text : text[j].colon /\ i <= j})

\* A list has the header of every section of a text that has a colon, the last
\* one first, and no other.
Carries(list, text) ==
  /\ Len(list) = Cardinality({i \in DOMAIN text : text[i].colon})
  /\ \A i \in DOMAIN text : text[i].colon => list[Place(text, i)] = text[i].header

\* While the process serves, the text of the option headers has been read to its
\* end, and as it is written but for its last section, and an image comes with
\* every header that it names, the last one first, and with no other.
HeadersAsWritten ==
  phase = "serve" =>
    LET text == conf["headers"] IN
    /\ Len(seen["headers"]) = Len(text)
    /\ \A i \in DOMAIN text : i < Len(text) => seen["headers"][i] = text[i]
    /\ \A c \in Conns :
         answer[c] \in {"image", "icon"} => Carries(sent[c], seen["headers"])
=============================================================================
