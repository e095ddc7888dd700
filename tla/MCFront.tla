------------------------------ MODULE MCFront ------------------------------
(* Constants for model-checking Front: addresses of three bits. *)
EXTENDS Front

MCHosts == [n \in 0..Bits |-> 2 ^ (Bits - n)]

Ranges ==
  {[blank |-> FALSE, all |-> FALSE, addr |-> 7, slash |-> FALSE, shift |-> -1],
   [blank |-> TRUE, all |-> TRUE, addr |-> 7, slash |-> FALSE, shift |-> -1],
   [blank |-> TRUE, all |-> FALSE, addr |-> 5, slash |-> FALSE, shift |-> -1]}
  \union {[blank |-> TRUE, all |-> FALSE, addr |-> n[1], slash |-> TRUE, shift |-> n[2]] :
            n \in {<<5, 2>>, <<2, 0>>, <<5, 4>>}}

Section(mode, r) ==
  [mode |-> mode, blank |-> r.blank, all |-> r.all, addr |-> r.addr,
   slash |-> r.slash, shift |-> r.shift]

MCSections == {Section(m, r) : m \in {"allow", "deny"}, r \in Ranges}
              \union {Section("", r) : r \in {s \in Ranges : ~s.blank}}

Empty == Section("", [blank |-> FALSE, all |-> FALSE, addr |-> 7,
                      slash |-> FALSE, shift |-> -1])

\* A net, and all, which covers it.
Nested == {s \in MCSections : s.blank /\ (s.all \/ s.shift = 2)}

\* No section, each by itself, each before one of the other mode, three that
\* contradict each other, and an empty one at the end.
RuleTexts ==
  {<<>>} \union {<<s>> : s \in MCSections}
  \union {<<s, t>> \in MCSections \X Nested :
            s.blank /\ s.mode # t.mode /\ (t.all <=> t.mode = "deny")}
  \union {<<s, t, u>> \in Nested \X Nested \X Nested :
            s.all /\ s.mode = "allow" /\ ~t.all /\ u.mode # t.mode}
  \union {<<s, Empty>> : s \in {t \in Nested : ~t.all /\ t.mode = "deny"}}

Header(c, h) == [colon |-> c, header |-> h]
HeaderTexts == {<<>>, <<Header(TRUE, "a")>>, <<Header(TRUE, "b"), Header(TRUE, "a")>>,
                <<Header(TRUE, "a"), Header(FALSE, "a")>>,
                <<Header(FALSE, "a"), Header(TRUE, "b")>>}

Conf(h, u, d, a) ==
  [o \in Options |-> CASE o = "headers"       -> h
                       [] o = "upload_rule"   -> u
                       [] o = "download_rule" -> d
                       [] OTHER               -> a]

AllowFive == <<Section("allow", [blank |-> TRUE, all |-> FALSE, addr |-> 5,
                                 slash |-> FALSE, shift |-> -1])>>

MCConfs == {Conf(<<>>, <<>>, d, <<>>) : d \in RuleTexts}
           \union {Conf(<<>>, <<>>, <<s>>, AllowFive) : s \in Nested}
           \union {Conf(h, AllowFive, <<>>, <<>>) : h \in HeaderTexts}

Request(service, method, address, target) ==
  [service |-> service, method |-> method, named |-> address # 7,
   address |-> address, target |-> target]

MCRequests ==
  {Request("get", "GET", a, "md5") : a \in {4, 5, 7}}
  \union {Request("get", "GET", 7, t) : t \in Targets \ {"md5"}}
  \union {Request("admin", "GET", a, "md5") : a \in {5, 7}}
  \union {Request("admin", "GET", 7, t) : t \in {"root", "icon", "other"}}
  \union {Request("info", "GET", 7, t) : t \in {"root", "md5"}}
  \union {Request(s, "POST", 7, "root") : s \in {"get", "info", "upload"}}
  \union {Request("admin", "PUT", 7, "root")}
=============================================================================
