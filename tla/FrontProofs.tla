---------------------------- MODULE FrontProofs ----------------------------
(***************************************************************************)
(* Proofs about Front, for any rules, headers, requests and connections:   *)
(* while the process serves, access is granted and refused as the texts of *)
(* the rule options say, and images carry the headers that are written.    *)
(*                                                                         *)
(* The code asks a list that it has built from head to tail; the promise   *)
(* is about the text.  ListsAgree relates the two while the list is built, *)
(* and HeadersListed does for the list of headers.                         *)
(***************************************************************************)
EXTENDS Front, FiniteSetTheorems, TLAPS

-----------------------------------------------------------------------------
(* Addresses and masks *)

\* Two numbers are equal without their remainders iff their quotients are.
LEMMA SameQuotient ==
  ASSUME NEW a \in Nat, NEW b \in Nat, NEW h \in Nat \ {0}
  PROVE  a - (a % h) = b - (b % h) <=> a \div h = b \div h
  <1> DEFINE qa == a \div h
             qb == b \div h
  <1>1. /\ qa \in Nat /\ qb \in Nat
        /\ a - (a % h) = h * qa
        /\ b - (b % h) = h * qb
    OBVIOUS
  <1>2. qa < qb => h * qa < h * qb
    BY <1>1
  <1>3. qb < qa => h * qb < h * qa
    BY <1>1
  <1>4. h * qa = h * qb <=> qa = qb
    <2> HIDE DEF qa, qb
    <2>1. h * qa \in Nat /\ h * qb \in Nat
      BY <1>1
    <2>2. QED
      BY <1>1, <1>2, <1>3, <2>1
  <1>5. QED
    BY <1>1, <1>4

LEMMA MaskedType ==
  ASSUME NEW a \in Nat, NEW h \in Nat \ {0}
  PROVE  a - (a % h) \in Nat
  <1>1. a \div h \in Nat /\ a - (a % h) = h * (a \div h)
    OBVIOUS
  <1>2. h * (a \div h) \in Nat
    BY <1>1
  <1>3. QED
    BY <1>1, <1>2

LEMMA HostsType == \A n \in 0..Bits : Hosts[n] \in Nat \ {0}
  BY HostsAssumption

LEMMA DenyField ==
  ASSUME NEW d \in BOOLEAN, NEW m, NEW a
  PROVE  [deny |-> d, mask |-> m, addr |-> a].deny = d
  OBVIOUS

\* stor's rule of a section matches the addresses that the section covers.
LEMMA RuleCovers ==
  ASSUME NEW s \in Sections, MakesRule(s), NEW a \in Addresses
  PROVE  /\ Rule(s) \in Rules
         /\ Rule(s).deny <=> s.mode = "deny"
         /\ Matches(Rule(s), a) <=> Covers(s, a)
  <1> DEFINE deny == s.mode = "deny"
  <1>1. /\ a \in Nat /\ a < Hosts[0]
        /\ s.addr \in Nat /\ s.all \in BOOLEAN /\ s.slash \in BOOLEAN
    <2>1. Hosts[0] \in Nat
      BY HostsType, BitsAssumption
    <2>2. s.addr \in Addresses /\ s.all \in BOOLEAN /\ s.slash \in BOOLEAN
      BY SectionsAssumption
    <2>3. QED
      BY <2>1, <2>2 DEF Addresses
  <1>2. CASE s.all
    <2>1. Rule(s) = [deny |-> s.mode = "deny", mask |-> 0, addr |-> 0]
      BY <1>2 DEF Rule
    <2>2. Masked(a, 0) = 0
      <3>1. Hosts[0] \in Nat /\ 0 < Hosts[0]
        BY HostsType, BitsAssumption
      <3>2. a % Hosts[0] = a
        BY <1>1, <3>1
      <3>3. QED
        BY <1>1, <3>2 DEF Masked
    <2>3. Rule(s) \in Rules
      BY <2>1, BitsAssumption DEF Rules
    <2>4. Matches(Rule(s), a) /\ Covers(s, a)
      BY <1>2, <2>1, <2>2 DEF Matches, Covers
    <2>5. Rule(s).deny = deny
      BY <2>1, DenyField, deny \in BOOLEAN
    <2>6. QED
      BY <2>3, <2>4, <2>5
  <1>3. CASE ~s.all
    <2> DEFINE n == MaskLength(s)
    <2>1. n \in 0..Bits /\ Hosts[n] \in Nat \ {0}
      BY <1>1, <1>3, HostsType, BitsAssumption DEF MakesRule, StorSucceeds, MaskLength
    <2>2. Rule(s) = [deny |-> s.mode = "deny", mask |-> n, addr |-> Masked(s.addr, n)]
      BY <1>3 DEF Rule
    <2>3. Masked(s.addr, n) \in Nat
      BY <1>1, <2>1, MaskedType DEF Masked
    <2>4. Matches(Rule(s), a) <=> Masked(a, n) = Masked(s.addr, n)
      BY <2>2 DEF Matches
    <2>5. Masked(a, n) = Masked(s.addr, n)
          <=> a \div Hosts[n] = s.addr \div Hosts[n]
      BY <1>1, <2>1, SameQuotient DEF Masked
    <2>6. Covers(s, a) <=> a \div Hosts[n] = s.addr \div Hosts[n]
      BY <1>3 DEF Covers
    <2>7. Rule(s) \in Rules
      BY <2>1, <2>2, <2>3 DEF Rules
    <2>8. Rule(s).deny = deny
      BY <2>2, DenyField, deny \in BOOLEAN
    <2>9. QED
      BY <2>4, <2>5, <2>6, <2>7, <2>8
  <1>4. QED
    BY <1>1, <1>2, <1>3

-----------------------------------------------------------------------------
(* Lists and texts *)

\* The first rule that matches, and the last section that covers, allows.
ListGrants(list, a) ==
  \E j \in DOMAIN list :
    /\ Matches(list[j], a) /\ ~list[j].deny
    /\ \A k \in DOMAIN list : Matches(list[k], a) => j <= k

TextGrants(text, a) ==
  \E i \in DOMAIN text :
    /\ Valid(text[i]) /\ Covers(text[i], a) /\ text[i].mode # "deny"
    /\ \A k \in DOMAIN text : Valid(text[k]) /\ Covers(text[k], a) => k <= i

SaysNothing(text) == \A i \in DOMAIN text : ~Valid(text[i])

\* What both sides decide, without their sets of hits.
LEMMA Decision ==
  ASSUME NEW list, NEW text, NEW a
  PROVE  /\ zimg_access_inet(list, a) =
              IF list = <<>> \/ ListGrants(list, a) THEN "ok" ELSE "forbidden"
         /\ Verdict(text, a) =
              IF SaysNothing(text) \/ TextGrants(text, a) THEN "ok" ELSE "forbidden"
  <1>1. zimg_access_inet(list, a) =
              IF list = <<>> \/ ListGrants(list, a) THEN "ok" ELSE "forbidden"
    BY DEF zimg_access_inet, ListGrants
  <1>2. Verdict(text, a) =
              IF SaysNothing(text) \/ TextGrants(text, a) THEN "ok" ELSE "forbidden"
    BY DEF Verdict, SaysNothing, TextGrants
  <1>3. QED
    BY <1>1, <1>2

\* A rule at the head decides where it matches.
LEMMA HeadDecides ==
  ASSUME NEW list \in Seq(Rules), NEW r \in Rules, NEW a \in Addresses
  PROVE  ListGrants(<<r>> \o list, a) <=>
           IF Matches(r, a) THEN ~r.deny ELSE ListGrants(list, a)
  <1> DEFINE new == <<r>> \o list
  <1>1. /\ DOMAIN list = 1..Len(list) /\ Len(list) \in Nat
        /\ new \in Seq(Rules) /\ DOMAIN new = 1..(Len(list) + 1)
        /\ new[1] = r
        /\ \A j \in 1..Len(list) : new[j + 1] = list[j]
    OBVIOUS
  <1> HIDE DEF new
  <1>2. CASE Matches(r, a)
    <2>1. ASSUME ListGrants(new, a) PROVE ~r.deny
      <3>1. PICK j \in DOMAIN new :
               /\ Matches(new[j], a) /\ ~new[j].deny
               /\ \A k \in DOMAIN new : Matches(new[k], a) => j <= k
        BY <2>1 DEF ListGrants
      <3>2. j = 1
        BY <1>1, <1>2, <3>1
      <3>3. QED
        BY <1>1, <3>1, <3>2
    <2>2. ASSUME ~r.deny PROVE ListGrants(new, a)
      BY <1>1, <1>2, <2>2 DEF ListGrants
    <2>3. QED
      BY <1>2, <2>1, <2>2 DEF new
  <1>3. CASE ~Matches(r, a)
    <2>1. ASSUME ListGrants(new, a) PROVE ListGrants(list, a)
      <3>1. PICK j \in DOMAIN new :
               /\ Matches(new[j], a) /\ ~new[j].deny
               /\ \A k \in DOMAIN new : Matches(new[k], a) => j <= k
        BY <2>1 DEF ListGrants
      <3>2. j - 1 \in 1..Len(list) /\ new[j] = list[j - 1]
        <4>1. j # 1
          BY <1>1, <1>3, <3>1
        <4>2. j - 1 \in 1..Len(list)
          BY <1>1, <4>1
        <4>3. new[(j - 1) + 1] = list[j - 1]
          BY <1>1, <4>2
        <4>4. QED
          BY <1>1, <4>2, <4>3
      <3>3. ASSUME NEW k \in 1..Len(list), Matches(list[k], a) PROVE j - 1 <= k
        <4>1. k + 1 \in DOMAIN new /\ new[k + 1] = list[k]
          BY <1>1
        <4>2. j <= k + 1
          BY <3>1, <3>3, <4>1
        <4>3. QED
          BY <1>1, <4>2
      <3>4. QED
        BY <1>1, <3>1, <3>2, <3>3 DEF ListGrants
    <2>2. ASSUME ListGrants(list, a) PROVE ListGrants(new, a)
      <3>1. PICK j \in 1..Len(list) :
               /\ Matches(list[j], a) /\ ~list[j].deny
               /\ \A k \in 1..Len(list) : Matches(list[k], a) => j <= k
        BY <1>1, <2>2 DEF ListGrants
      <3>2. j + 1 \in DOMAIN new /\ new[j + 1] = list[j]
        BY <1>1
      <3>3. ASSUME NEW k \in DOMAIN new, Matches(new[k], a) PROVE j + 1 <= k
        <4>1. k # 1
          BY <1>1, <1>3, <3>3
        <4>2. k - 1 \in 1..Len(list)
          BY <1>1, <4>1
        <4>3. new[(k - 1) + 1] = list[k - 1]
          BY <1>1, <4>2
        <4>4. QED
          BY <1>1, <3>1, <3>3, <4>2, <4>3
      <3>4. QED
        BY <3>1, <3>2, <3>3 DEF ListGrants
    <2>3. QED
      BY <1>3, <2>1, <2>2 DEF new
  <1>4. QED
    BY <1>2, <1>3

\* A section at the end of a text decides where it covers.
LEMMA LastDecides ==
  ASSUME NEW text \in Seq(Sections), NEW s \in Sections, NEW a \in Addresses
  PROVE  /\ TextGrants(Append(text, s), a) <=>
              IF Valid(s) /\ Covers(s, a) THEN s.mode # "deny" ELSE TextGrants(text, a)
         /\ SaysNothing(Append(text, s)) <=> SaysNothing(text) /\ ~Valid(s)
  <1> DEFINE new == Append(text, s)
             n == Len(text)
  <1>1. /\ DOMAIN text = 1..n /\ n \in Nat
        /\ new \in Seq(Sections) /\ DOMAIN new = 1..(n + 1)
        /\ new[n + 1] = s
        /\ \A j \in 1..n : new[j] = text[j]
    OBVIOUS
  <1> HIDE DEF new, n
  <1>2. ASSUME Valid(s), Covers(s, a) PROVE TextGrants(new, a) <=> s.mode # "deny"
    <2>1. ASSUME TextGrants(new, a) PROVE s.mode # "deny"
      <3>1. PICK i \in DOMAIN new :
               /\ Valid(new[i]) /\ Covers(new[i], a) /\ new[i].mode # "deny"
               /\ \A k \in DOMAIN new : Valid(new[k]) /\ Covers(new[k], a) => k <= i
        BY <2>1 DEF TextGrants
      <3>2. i = n + 1
        BY <1>1, <1>2, <3>1
      <3>3. QED
        BY <1>1, <3>1, <3>2
    <2>2. ASSUME s.mode # "deny" PROVE TextGrants(new, a)
      BY <1>1, <1>2, <2>2 DEF TextGrants
    <2>3. QED
      BY <2>1, <2>2
  <1>3. ASSUME ~(Valid(s) /\ Covers(s, a))
        PROVE  TextGrants(new, a) <=> TextGrants(text, a)
    <2>1. \A i \in DOMAIN new : Valid(new[i]) /\ Covers(new[i], a) =>
             i \in 1..n /\ new[i] = text[i]
      BY <1>1, <1>3
    <2>2. TextGrants(new, a) => TextGrants(text, a)
      BY <1>1, <2>1 DEF TextGrants
    <2>3. TextGrants(text, a) => TextGrants(new, a)
      <3>1. SUFFICES ASSUME TextGrants(text, a) PROVE TextGrants(new, a)
        OBVIOUS
      <3>2. PICK i \in 1..n :
               /\ Valid(text[i]) /\ Covers(text[i], a) /\ text[i].mode # "deny"
               /\ \A k \in 1..n : Valid(text[k]) /\ Covers(text[k], a) => k <= i
        BY <1>1, <3>1 DEF TextGrants
      <3>3. i \in DOMAIN new /\ new[i] = text[i]
        BY <1>1
      <3>4. \A k \in DOMAIN new : Valid(new[k]) /\ Covers(new[k], a) => k <= i
        BY <1>1, <2>1, <3>2
      <3>5. QED
        BY <3>2, <3>3, <3>4 DEF TextGrants
    <2>4. QED
      BY <2>2, <2>3
  <1>4. SaysNothing(new) <=> SaysNothing(text) /\ ~Valid(s)
    <2>1. SaysNothing(new) => SaysNothing(text) /\ ~Valid(s)
      <3>1. SUFFICES ASSUME SaysNothing(new) PROVE SaysNothing(text) /\ ~Valid(s)
        OBVIOUS
      <3>2. ~Valid(s)
        BY <1>1, <3>1 DEF SaysNothing
      <3>3. ASSUME NEW i \in DOMAIN text PROVE ~Valid(text[i])
        <4>1. i \in DOMAIN new /\ new[i] = text[i]
          BY <1>1
        <4>2. QED
          BY <3>1, <4>1 DEF SaysNothing
      <3>4. QED
        BY <3>2, <3>3 DEF SaysNothing
    <2>2. SaysNothing(text) /\ ~Valid(s) => SaysNothing(new)
      BY <1>1 DEF SaysNothing
    <2>3. QED
      BY <2>1, <2>2
  <1>5. QED
    BY <1>2, <1>3, <1>4 DEF new

\* A list and the text it was built from say the same.
Agree(list, text) ==
  /\ list = <<>> <=> SaysNothing(text)
  /\ \A a \in Addresses : ListGrants(list, a) <=> TextGrants(text, a)

LEMMA AddRuleAgrees ==
  ASSUME NEW list \in Seq(Rules), NEW text \in Seq(Sections), NEW s \in Sections,
         Agree(list, text)
  PROVE  AddRule(list, s) \in Seq(Rules) /\ Agree(AddRule(list, s), Append(text, s))
  <1>1. CASE MakesRule(s)
    <2>1. Rule(s) \in Rules
      <3>1. 0 \in Addresses
        BY HostsType, BitsAssumption DEF Addresses
      <3>2. QED
        BY <1>1, <3>1, RuleCovers
    <2>2. AddRule(list, s) = <<Rule(s)>> \o list
      BY <1>1 DEF AddRule
    <2>3. AddRule(list, s) \in Seq(Rules) /\ AddRule(list, s) # <<>>
      BY <2>1, <2>2
    <2>4. ~SaysNothing(Append(text, s))
      <3>1. 0 \in Addresses
        BY HostsType, BitsAssumption DEF Addresses
      <3>2. QED
        BY <1>1, <3>1, LastDecides DEF Valid
    <2>5. ASSUME NEW a \in Addresses
          PROVE  ListGrants(<<Rule(s)>> \o list, a) <=> TextGrants(Append(text, s), a)
      <3>1. /\ Rule(s).deny <=> s.mode = "deny"
            /\ Matches(Rule(s), a) <=> Covers(s, a)
        BY <1>1, RuleCovers
      <3>2. ListGrants(<<Rule(s)>> \o list, a) <=>
              IF Covers(s, a) THEN s.mode # "deny" ELSE ListGrants(list, a)
        BY <2>1, <3>1, HeadDecides
      <3>3. TextGrants(Append(text, s), a) <=>
              IF Covers(s, a) THEN s.mode # "deny" ELSE TextGrants(text, a)
        BY <1>1, LastDecides DEF Valid
      <3>4. QED
        BY <3>2, <3>3 DEF Agree
    <2>6. QED
      BY <2>2, <2>3, <2>4, <2>5 DEF Agree
  <1>2. CASE ~MakesRule(s)
    <2>1. AddRule(list, s) = list
      BY <1>2 DEF AddRule
    <2>2. \A a \in Addresses : TextGrants(Append(text, s), a) <=> TextGrants(text, a)
      BY <1>2, LastDecides DEF Valid
    <2>3. SaysNothing(Append(text, s)) <=> SaysNothing(text)
      <3>1. 0 \in Addresses
        BY HostsType, BitsAssumption DEF Addresses
      <3>2. QED
        BY <1>2, <3>1, LastDecides DEF Valid
    <2>4. QED
      BY <2>1, <2>2, <2>3 DEF Agree
  <1>3. QED
    BY <1>1, <1>2

-----------------------------------------------------------------------------
(* Types *)

LEMMA OptionsFacts ==
  /\ \A k \in 1..4 : Order[k] \in Options
  /\ \A conf_ \in Confs : /\ conf_["headers"] \in Seq(HeaderSections)
                          /\ \A o \in RuleOptions : conf_[o] \in Seq(Sections)
  /\ RuleOptions \subseteq Options /\ "headers" \notin RuleOptions
  BY ConfsAssumption DEF Order, Options, RuleOptions, Texts

LEMMA MisreadType == \A s : Misread(s) \subseteq Sections
  BY DEF Misread

LEMMA InitType == Init => TypeOK
  <1>1. \A o \in RuleOptions : <<>> \in Seq(Sections) /\ <<>> \in Seq(Rules)
    OBVIOUS
  <1>2. QED
    BY <1>1, PeersAssumption, OptionsFacts DEF Init, TypeOK, Options, Texts, Kinds

LEMMA LoadRuleType ==
  ASSUME TypeOK, LoadRule
  PROVE  TypeOK'
  <1>1. PICK s \in ReadAs(Text, Pos) :
           See(s) /\ rules' = [rules EXCEPT ![Current] = AddRule(@, s)]
    BY DEF LoadRule
  <1>2. /\ Current \in RuleOptions /\ Current # "headers"
        /\ Text \in Seq(Sections) /\ Pos \in 1..Len(Text)
    <2>1. Current \in RuleOptions /\ Pos <= Len(Text)
      BY DEF LoadRule
    <2>2. Text \in Seq(Sections) /\ Len(seen[Current]) \in Nat
      BY <2>1, OptionsFacts DEF TypeOK, Text, Texts
    <2>3. QED
      BY <2>1, <2>2, OptionsFacts DEF Pos
  <1>3. s \in Sections
    BY <1>1, <1>2, MisreadType DEF ReadAs
  <1>4. seen' = [seen EXCEPT ![Current] = Append(seen[Current], s)]
    BY <1>1 DEF See
  <1>5. rules' \in [RuleOptions -> Seq(Rules)]
    <2>1. AddRule(rules[Current], s) \in Seq(Rules)
      <3>1. 0 \in Addresses
        BY HostsType, BitsAssumption DEF Addresses
      <3>2. MakesRule(s) => Rule(s) \in Rules
        BY <1>3, <3>1, RuleCovers
      <3>3. rules[Current] \in Seq(Rules)
        BY <1>2 DEF TypeOK
      <3>4. QED
        BY <3>2, <3>3 DEF AddRule
    <2>2. QED
      BY <1>1, <1>2, <2>1 DEF TypeOK
  <1>6. /\ DOMAIN seen' = Options /\ seen'["headers"] \in Seq(HeaderSections)
        /\ \A o \in RuleOptions : seen'[o] \in Seq(Sections)
    <2>1. Append(seen[Current], s) \in Seq(Sections)
      BY <1>2, <1>3 DEF TypeOK, Texts
    <2>2. QED
      BY <1>2, <1>4, <2>1, OptionsFacts DEF TypeOK, Texts
  <1>7. QED
    BY <1>5, <1>6 DEF TypeOK, Texts, LoadRule, Loading, perConn

LEMMA LoadHeaderType ==
  ASSUME TypeOK, LoadHeader
  PROVE  TypeOK'
  <1>1. PICK s \in {Text[Pos]} \union (IF Pos = Len(Text)
                                      THEN {h \in HeaderSections : h.colon} ELSE {}) :
           See(s) /\ headers' = AddHeader(headers, s)
    BY DEF LoadHeader
  <1>2. /\ Current = "headers" /\ Pos \in 1..Len(Text)
        /\ Text \in Seq(HeaderSections)
    <2>1. Current = "headers" /\ Pos <= Len(Text)
      BY DEF LoadHeader
    <2>2. Text \in Seq(HeaderSections) /\ Len(seen[Current]) \in Nat
      BY <2>1, OptionsFacts DEF TypeOK, Text
    <2>3. QED
      BY <2>1, <2>2 DEF Pos
  <1>3. s \in HeaderSections
    BY <1>1, <1>2
  <1>4. seen' = [seen EXCEPT ![Current] = Append(seen[Current], s)]
    BY <1>1 DEF See
  <1>5. headers' \in Seq(Headers)
    BY <1>1, <1>3 DEF AddHeader, HeaderSections, TypeOK
  <1>6. Append(seen["headers"], s) \in Seq(HeaderSections)
    BY <1>3 DEF TypeOK
  <1>7. /\ DOMAIN seen' = Options /\ seen'["headers"] \in Seq(HeaderSections)
        /\ \A o \in RuleOptions : seen'[o] \in Seq(Sections)
    BY <1>2, <1>4, <1>6, OptionsFacts DEF TypeOK, Options, Texts
  <1>8. QED
    BY <1>5, <1>7 DEF TypeOK, Texts, LoadHeader, Loading, perConn

\* Steps of the main thread that leave connections and lists alone, or end.
Quiet == DieOfHeader \/ NextOption \/ StopLoop \/ FreeOption

LEMMA QuietType ==
  ASSUME TypeOK, Quiet
  PROVE  TypeOK'
  BY DEF TypeOK, Quiet, DieOfHeader, NextOption, StopLoop, FreeOption, Loading,
         settings, perConn

LEMMA EndType ==
  ASSUME TypeOK, End
  PROVE  TypeOK'
  BY DEF TypeOK, End, settings, Kinds

\* What an answer changes.
LEMMA AnswerType ==
  ASSUME TypeOK, NEW c \in Conns, NEW kind \in Kinds, NEW hs \in Seq(Headers),
         Answer(c, kind, hs)
  PROVE  /\ answer' \in [Conns -> Kinds] /\ sent' \in [Conns -> Seq(Headers)]
         /\ pc' \in [Conns -> {"idle", "judge", "handle"}]
         /\ pc'[c] = "idle" /\ answer'[c] = kind
         /\ \A d \in Conns \ {c} : pc'[d] = pc[d] /\ answer'[d] = answer[d]
  BY DEF TypeOK, Answer

\* Behind the access check every handler answers, with an image, a command or an
\* upload only if it is what its rules are for.
LEMMA HandleAnswers ==
  ASSUME TypeOK, NEW c \in Conns, Handle(c)
  PROVE  \E kind \in Kinds, hs \in Seq(Headers) :
           /\ Answer(c, kind, hs)
           /\ kind \in DOMAIN Needs =>
                Needs[kind] = Option(req[c]) /\ (Takes(req[c]) => req[c].service # "info")
           /\ kind = "forbidden" => req[c].target = "up"
  <1> DEFINE r == req[c]
             Good(kind) ==
               /\ kind \in Kinds
               /\ kind \in DOMAIN Needs =>
                    Needs[kind] = Option(r) /\ (Takes(r) => r.service # "info")
               /\ kind = "forbidden" => r.target = "up"
  <1>1. <<>> \in Seq(Headers) /\ \A hs \in HeadersAdded : hs \in Seq(Headers)
    <2>1. <<>> \in Seq(Headers) /\ headers \in Seq(Headers)
      BY DEF TypeOK
    <2>2. QED
      BY <2>1 DEF HeadersAdded
  <1>2. \A kind \in {"page", "icon", "notfound", "error", "description"} : Good(kind)
    BY DEF Kinds, Needs
  <1>3. CASE HandleGet(c)
    <2>1. Good("image") /\ Good("notmodified")
      BY <1>3 DEF HandleGet, Needs, Kinds, Option, Takes
    <2>2. r.target = "up" => Good("forbidden")
      BY DEF Needs, Kinds
    <2>3. QED
      BY <1>1, <1>2, <1>3, <2>1, <2>2 DEF HandleGet
  <1>4. CASE HandleAdmin(c)
    <2>1. Good("command")
      BY <1>4 DEF HandleAdmin, Needs, Kinds, Option, Takes
    <2>2. QED
      BY <1>1, <1>2, <1>4, <2>1 DEF HandleAdmin
  <1>5. CASE HandleInfo(c)
    BY <1>1, <1>2, <1>5 DEF HandleInfo
  <1>6. CASE HandleUpload(c)
    <2>1. Good("upload")
      BY <1>6 DEF HandleUpload, Needs, Kinds, Option, Takes
    <2>2. QED
      BY <1>1, <1>6, <2>1 DEF HandleUpload
  <1>7. QED
    BY <1>3, <1>4, <1>5, <1>6 DEF Handle

LEMMA ConnType ==
  ASSUME TypeOK, NEW c \in Conns, Connect(c) \/ Receive(c) \/ Judge(c) \/ Handle(c)
  PROVE  TypeOK'
  <1> USE DEF settings
  <1>1. <<>> \in Seq(Headers)
    OBVIOUS
  <1>2. CASE Connect(c)
    BY <1>1, <1>2, PeersAssumption DEF TypeOK, Connect, Kinds
  <1>3. CASE Receive(c)
    <2>1. PICK r \in Requests :
            /\ req' = [req EXCEPT ![c] = r]
            /\ saddr' = [saddr EXCEPT ![c] = IF r.named THEN r.address ELSE @]
            /\ IF Takes(r)
               THEN /\ pc' = [pc EXCEPT ![c] = IF r.service = "info" THEN "handle"
                                               ELSE "judge"]
                    /\ answer' = [answer EXCEPT ![c] = "none"]
                    /\ sent' = [sent EXCEPT ![c] = <<>>]
               ELSE Answer(c, IF r.service \in {"info", "upload"} THEN "error"
                              ELSE "notfound", <<>>)
      BY <1>3 DEF Receive
    <2>2. r.address \in Addresses /\ r # NoRequest
      BY RequestsAssumption DEF IsRequest
    <2>3. /\ answer' \in [Conns -> Kinds] /\ sent' \in [Conns -> Seq(Headers)]
          /\ pc' \in [Conns -> {"idle", "judge", "handle"}]
          /\ \A d \in Conns \ {c} : pc'[d] = pc[d]
      <3>1. CASE Takes(r)
        BY <1>1, <2>1, <3>1 DEF TypeOK, Kinds
      <3>2. CASE ~Takes(r)
        <4>1. PICK kind \in Kinds : Answer(c, kind, <<>>)
          BY <2>1, <3>2 DEF Kinds
        <4>2. QED
          BY <1>1, <4>1, AnswerType
      <3>3. QED
        BY <3>1, <3>2
    <2>4. saddr' \in [Conns -> Addresses] /\ req' \in [Conns -> Requests \union {NoRequest}]
      BY <2>1, <2>2 DEF TypeOK
    <2>5. \A d \in Conns : pc'[d] # "idle" => req'[d] # NoRequest
      BY <2>1, <2>2, <2>3 DEF TypeOK
    <2>6. QED
      BY <1>3, <2>3, <2>4, <2>5 DEF TypeOK, Receive
  <1>4. CASE Judge(c)
    <2>1. CASE pc' = [pc EXCEPT ![c] = "handle"] /\ UNCHANGED <<answer, sent>>
      BY <1>4, <2>1 DEF TypeOK, Judge
    <2>2. CASE Answer(c, "forbidden", <<>>)
      <3>1. /\ answer' \in [Conns -> Kinds] /\ sent' \in [Conns -> Seq(Headers)]
            /\ pc' \in [Conns -> {"idle", "judge", "handle"}]
            /\ pc'[c] = "idle" /\ \A d \in Conns \ {c} : pc'[d] = pc[d]
        BY <1>1, <2>2, AnswerType DEF Kinds
      <3>2. QED
        BY <1>4, <3>1 DEF TypeOK, Judge
    <2>3. QED
      BY <1>4, <2>1, <2>2 DEF Judge
  <1>5. CASE Handle(c)
    <2>1. PICK kind \in Kinds, hs \in Seq(Headers) : Answer(c, kind, hs)
      BY <1>5, HandleAnswers
    <2>2. /\ answer' \in [Conns -> Kinds] /\ sent' \in [Conns -> Seq(Headers)]
          /\ pc' \in [Conns -> {"idle", "judge", "handle"}]
          /\ pc'[c] = "idle" /\ \A d \in Conns \ {c} : pc'[d] = pc[d]
      BY <2>1, AnswerType
    <2>3. QED
      BY <1>5, <2>2 DEF TypeOK, Handle
  <1>6. QED
    BY <1>2, <1>3, <1>4, <1>5

-----------------------------------------------------------------------------
(* The inductive invariant *)

\* Each list says what has been read of its text.
ListsAgree == \A o \in RuleOptions : Agree(rules[o], seen[o])

ReadAsWritten == \A o \in RuleOptions : AsWritten(o)

\* Nobody is served before everything is read.
NotServed == phase = "load" => \A c \in Conns : pc[c] = "idle" /\ answer[c] = "none"

\* A request under way is one its callback takes; info_request_cb has no check.
UnderWay ==
  \A c \in Conns :
    /\ pc[c] # "idle" => Takes(req[c])
    /\ pc[c] = "judge" => req[c].service # "info"

\* Who is past the check has passed it.
PastCheck ==
  phase = "serve" =>
    \A c \in Conns :
      pc[c] = "handle" /\ req[c].service # "info" =>
        Verdict(seen[Option(req[c])], saddr[c]) = "ok"

GrantsRight ==
  phase = "serve" =>
    \A c \in Conns :
      answer[c] \in DOMAIN Needs => Verdict(seen[Needs[answer[c]]], saddr[c]) = "ok"

RefusalsRight ==
  phase = "serve" =>
    \A c \in Conns :
      answer[c] = "forbidden" /\ req[c].target # "up" =>
        Verdict(seen[Option(req[c])], saddr[c]) = "forbidden"

AnswersRight == GrantsRight /\ RefusalsRight

FrontInv == /\ TypeOK /\ ListsAgree /\ ReadAsWritten
            /\ NotServed /\ UnderWay /\ PastCheck /\ AnswersRight

LEMMA InitFront == Init => FrontInv
  <1> SUFFICES ASSUME Init PROVE FrontInv
    OBVIOUS
  <1>1. TypeOK
    BY InitType
  <1>2. \A a : ~ListGrants(<<>>, a) /\ ~TextGrants(<<>>, a)
    BY DEF ListGrants, TextGrants
  <1>3. ListsAgree
    BY <1>2, OptionsFacts DEF Init, ListsAgree, Agree, SaysNothing
  <1>4. ReadAsWritten
    BY OptionsFacts DEF Init, ReadAsWritten, AsWritten
  <1>5. NotServed /\ UnderWay /\ PastCheck /\ AnswersRight
    BY DEF Init, NotServed, UnderWay, PastCheck, AnswersRight, GrantsRight, RefusalsRight
  <1>6. QED
    BY <1>1, <1>3, <1>4, <1>5 DEF FrontInv

\* A rule is read into its list.
LEMMA LoadRuleFront ==
  ASSUME FrontInv, LoadRule
  PROVE  FrontInv'
  <1>1. TypeOK /\ TypeOK'
    BY LoadRuleType DEF FrontInv
  <1>2. PICK s \in ReadAs(Text, Pos) :
           See(s) /\ rules' = [rules EXCEPT ![Current] = AddRule(@, s)]
    BY DEF LoadRule
  <1>3. /\ Current \in RuleOptions /\ Text \in Seq(Sections) /\ Pos \in 1..Len(Text)
        /\ seen[Current] \in Seq(Sections) /\ rules[Current] \in Seq(Rules)
    <2>1. Current \in RuleOptions /\ Pos <= Len(Text)
      BY DEF LoadRule
    <2>2. Text \in Seq(Sections) /\ Len(seen[Current]) \in Nat
      BY <1>1, <2>1, OptionsFacts DEF TypeOK, Text, Texts
    <2>3. QED
      BY <1>1, <2>1, <2>2 DEF Pos, TypeOK, Texts
  <1>4. s \in Sections
    BY <1>2, <1>3, MisreadType DEF ReadAs
  <1>5. /\ seen' = [seen EXCEPT ![Current] = Append(seen[Current], s)]
        /\ DOMAIN seen = Options /\ conf' = conf /\ phase = "load" /\ phase' = "load"
        /\ UNCHANGED <<saddr, pc, req, answer, sent>>
    BY <1>1, <1>2 DEF See, TypeOK, LoadRule, Loading, perConn
  <1>6. ListsAgree'
    <2>1. Agree(AddRule(rules[Current], s), Append(seen[Current], s))
      BY <1>3, <1>4, AddRuleAgrees DEF FrontInv, ListsAgree
    <2>2. ASSUME NEW o \in RuleOptions PROVE Agree(rules'[o], seen'[o])
      <3>1. CASE o = Current
        BY <1>1, <1>2, <1>3, <1>5, <2>1, <3>1, OptionsFacts DEF TypeOK
      <3>2. CASE o # Current
        BY <1>1, <1>2, <1>5, <3>2, OptionsFacts DEF TypeOK, FrontInv, ListsAgree
      <3>3. QED
        BY <3>1, <3>2
    <2>3. QED
      BY <2>2 DEF ListsAgree, Agree, ListGrants, TextGrants, SaysNothing
  <1>7. ReadAsWritten'
    <2>1. ASSUME NEW o \in RuleOptions, NEW i \in DOMAIN seen'[o]
          PROVE  \/ seen'[o][i] = conf[o][i]
                 \/ i = Len(conf[o]) /\ seen'[o][i] \in Misread(conf[o][i])
      <3>1. CASE o # Current
        BY <1>5, <2>1, <3>1, OptionsFacts DEF FrontInv, ReadAsWritten, AsWritten
      <3>2. CASE o = Current /\ i = Len(seen[Current]) + 1
        <4>1. seen'[o][i] = s
          BY <1>3, <1>5, <3>2, OptionsFacts
        <4>2. QED
          BY <1>2, <3>2, <4>1 DEF ReadAs, Text, Pos
      <3>3. CASE o = Current /\ i # Len(seen[Current]) + 1
        <4>1. i \in DOMAIN seen[o] /\ seen'[o][i] = seen[o][i]
          BY <1>3, <1>5, <2>1, <3>3, OptionsFacts
        <4>2. QED
          BY <4>1 DEF FrontInv, ReadAsWritten, AsWritten
      <3>4. QED
        BY <3>1, <3>2, <3>3
    <2>2. QED
      BY <1>5, <2>1 DEF ReadAsWritten, AsWritten
  <1>8. NotServed' /\ UnderWay' /\ PastCheck' /\ AnswersRight'
    BY <1>5 DEF FrontInv, NotServed, UnderWay, PastCheck, AnswersRight, GrantsRight,
                RefusalsRight, Takes
  <1>9. QED
    BY <1>1, <1>6, <1>7, <1>8 DEF FrontInv

\* Steps that leave the texts and lists of rules alone.
LEMMA ListsKept ==
  ASSUME FrontInv, conf' = conf, rules' = rules,
         \A o \in RuleOptions : seen'[o] = seen[o]
  PROVE  ListsAgree' /\ ReadAsWritten'
  <1>1. ASSUME NEW o \in RuleOptions PROVE Agree(rules[o], seen[o])'
    BY DEF FrontInv, ListsAgree, Agree, ListGrants, TextGrants, SaysNothing
  <1>2. ASSUME NEW o \in RuleOptions PROVE AsWritten(o)'
    BY DEF FrontInv, ReadAsWritten, AsWritten
  <1>3. QED
    BY <1>1, <1>2 DEF ListsAgree, ReadAsWritten

\* The main thread's other steps.
LEMMA MainFront ==
  ASSUME FrontInv, LoadHeader \/ Quiet \/ End
  PROVE  FrontInv'
  <1>1. TypeOK'
    BY LoadHeaderType, QuietType, EndType DEF FrontInv
  <1>2. /\ conf' = conf /\ rules' = rules
        /\ \A o \in RuleOptions : seen'[o] = seen[o]
    <2>1. CASE LoadHeader
      <3>1. PICK s : seen' = [seen EXCEPT !["headers"] = Append(@, s)]
        BY <2>1 DEF LoadHeader, See
      <3>2. QED
        BY <2>1, <3>1, OptionsFacts DEF LoadHeader, Loading, FrontInv, TypeOK
    <2>2. CASE Quiet
      BY <2>2 DEF Quiet, DieOfHeader, NextOption, StopLoop, FreeOption, Loading, settings
    <2>3. CASE End
      BY <2>3 DEF End, settings
    <2>4. QED
      BY <2>1, <2>2, <2>3
  <1>3. NotServed' /\ UnderWay' /\ PastCheck' /\ AnswersRight'
    <2>1. CASE LoadHeader
      BY <2>1 DEF LoadHeader, Loading, perConn, FrontInv, NotServed, UnderWay,
                  PastCheck, AnswersRight, GrantsRight, RefusalsRight
    <2>2. CASE DieOfHeader
      BY <2>2 DEF DieOfHeader, Loading, perConn, FrontInv, NotServed, UnderWay,
                  PastCheck, AnswersRight, GrantsRight, RefusalsRight
    <2>3. CASE NextOption
      <3>1. \A c \in Conns : pc'[c] = "idle" /\ answer'[c] = "none"
        BY <2>3 DEF NextOption, Loading, perConn, FrontInv, NotServed
      <3>2. QED
        BY <3>1 DEF NotServed, UnderWay, PastCheck, AnswersRight, GrantsRight, RefusalsRight, Needs
    <2>4. CASE StopLoop \/ FreeOption
      <3>1. phase' = "stop" /\ pc' = pc /\ req' = req
        BY <2>4 DEF StopLoop, FreeOption, perConn
      <3>2. QED
        BY <3>1 DEF FrontInv, NotServed, UnderWay, PastCheck, AnswersRight, GrantsRight, RefusalsRight
    <2>5. CASE End
      BY <2>5 DEF End, NotServed, UnderWay, PastCheck, AnswersRight, GrantsRight, RefusalsRight
    <2>6. QED
      BY <2>1, <2>2, <2>3, <2>4, <2>5 DEF Quiet
  <1>4. QED
    BY <1>1, <1>2, <1>3, ListsKept DEF FrontInv

LEMMA NeedsFacts ==
  /\ "none" \notin DOMAIN Needs /\ "error" \notin DOMAIN Needs
  /\ "notfound" \notin DOMAIN Needs /\ "forbidden" \notin DOMAIN Needs
  BY DEF Needs

\* What a step of one connection must show.
LEMMA ConnFront ==
  ASSUME FrontInv, NEW c \in Conns, TypeOK',
         UNCHANGED <<phase, conf, seen, rules>>, phase \in {"serve", "stop"},
         \A d \in Conns \ {c} : /\ saddr'[d] = saddr[d] /\ pc'[d] = pc[d]
                                /\ req'[d] = req[d] /\ answer'[d] = answer[d],
         pc'[c] # "idle" => Takes(req'[c]),
         pc'[c] = "judge" => req'[c].service # "info",
         phase = "serve" /\ pc'[c] = "handle" /\ req'[c].service # "info" =>
           Verdict(seen[Option(req'[c])], saddr'[c]) = "ok",
         phase = "serve" /\ answer'[c] \in DOMAIN Needs =>
           Verdict(seen[Needs[answer'[c]]], saddr'[c]) = "ok",
         phase = "serve" /\ answer'[c] = "forbidden" /\ req'[c].target # "up" =>
           Verdict(seen[Option(req'[c])], saddr'[c]) = "forbidden"
  PROVE  FrontInv'
  <1>1. ListsAgree' /\ ReadAsWritten'
    BY ListsKept
  <1>2. NotServed'
    BY DEF NotServed
  <1>3. ASSUME NEW d \in Conns
        PROVE  /\ pc'[d] # "idle" => Takes(req'[d])
               /\ pc'[d] = "judge" => req'[d].service # "info"
    BY DEF FrontInv, UnderWay
  <1>4. ASSUME NEW d \in Conns, phase = "serve", pc'[d] = "handle", req'[d].service # "info"
        PROVE  Verdict(seen[Option(req'[d])], saddr'[d]) = "ok"
    BY <1>4 DEF FrontInv, PastCheck
  <1>5. ASSUME NEW d \in Conns, phase = "serve"
        PROVE  /\ answer'[d] \in DOMAIN Needs =>
                    Verdict(seen[Needs[answer'[d]]], saddr'[d]) = "ok"
               /\ answer'[d] = "forbidden" /\ req'[d].target # "up" =>
                    Verdict(seen[Option(req'[d])], saddr'[d]) = "forbidden"
    BY <1>5 DEF FrontInv, AnswersRight, GrantsRight, RefusalsRight
  <1>6. UnderWay'
    BY <1>3 DEF UnderWay, Takes
  <1>7. PastCheck'
    <2>1. SUFFICES ASSUME phase = "serve", NEW d \in Conns,
                          pc'[d] = "handle", req'[d].service # "info"
                   PROVE  (Verdict(seen[Option(req[d])], saddr[d]) = "ok")'
      BY DEF PastCheck
    <2>2. Verdict(seen[Option(req'[d])], saddr'[d]) = "ok"
      BY <1>4, <2>1
    <2>3. QED
      BY <2>2 DEF Option, Verdict
  <1>8. AnswersRight'
    <2>1. GrantsRight'
      <3>1. SUFFICES ASSUME phase = "serve", NEW d \in Conns, answer'[d] \in DOMAIN Needs
                     PROVE  (Verdict(seen[Needs[answer[d]]], saddr[d]) = "ok")'
        BY DEF GrantsRight, Needs
      <3>2. Verdict(seen[Needs[answer'[d]]], saddr'[d]) = "ok"
        BY <1>5, <3>1
      <3>3. QED
        BY <3>2 DEF Needs, Verdict
    <2>2. RefusalsRight'
      <3>1. SUFFICES ASSUME phase = "serve", NEW d \in Conns, answer'[d] = "forbidden",
                            req'[d].target # "up"
                     PROVE  (Verdict(seen[Option(req[d])], saddr[d]) = "forbidden")'
        BY DEF RefusalsRight
      <3>2. Verdict(seen[Option(req'[d])], saddr'[d]) = "forbidden"
        BY <1>5, <3>1
      <3>3. QED
        BY <3>2 DEF Option, Verdict
    <2>3. QED
      BY <2>1, <2>2 DEF AnswersRight
  <1>9. QED
    BY <1>1, <1>2, <1>6, <1>7, <1>8 DEF FrontInv

LEMMA ConnectReceiveFront ==
  ASSUME FrontInv, NEW c \in Conns, Connect(c) \/ Receive(c)
  PROVE  FrontInv'
  <1>1. TypeOK /\ TypeOK'
    BY ConnType DEF FrontInv
  <1>2. CASE Connect(c)
    <2>1. /\ UNCHANGED <<phase, conf, seen, rules>> /\ phase = "serve"
          /\ pc'[c] = "idle" /\ answer'[c] = "none"
      BY <1>1, <1>2 DEF Connect, settings, TypeOK
    <2>2. \A d \in Conns \ {c} : /\ saddr'[d] = saddr[d] /\ pc'[d] = pc[d]
                                 /\ req'[d] = req[d] /\ answer'[d] = answer[d]
      BY <1>1, <1>2 DEF Connect, TypeOK
    <2>3. QED
      BY <1>1, <2>1, <2>2, NeedsFacts, ConnFront
  <1>3. CASE Receive(c)
    <2>1. /\ UNCHANGED <<phase, conf, seen, rules>> /\ phase \in {"serve", "stop"}
      BY <1>3 DEF Receive, settings, Running
    <2>2. PICK r \in Requests :
            /\ req' = [req EXCEPT ![c] = r]
            /\ saddr' = [saddr EXCEPT ![c] = IF r.named THEN r.address ELSE @]
            /\ IF Takes(r)
               THEN /\ pc' = [pc EXCEPT ![c] = IF r.service = "info" THEN "handle"
                                               ELSE "judge"]
                    /\ answer' = [answer EXCEPT ![c] = "none"]
                    /\ sent' = [sent EXCEPT ![c] = <<>>]
               ELSE Answer(c, IF r.service \in {"info", "upload"} THEN "error"
                              ELSE "notfound", <<>>)
      BY <1>3 DEF Receive
    <2>3. /\ req'[c] = r
          /\ \A d \in Conns \ {c} : /\ saddr'[d] = saddr[d] /\ pc'[d] = pc[d]
                                    /\ req'[d] = req[d] /\ answer'[d] = answer[d]
      BY <1>1, <2>2 DEF TypeOK, Answer
    <2>4. /\ pc'[c] # "idle" => Takes(r)
          /\ pc'[c] = "judge" => r.service # "info"
          /\ pc'[c] = "handle" => r.service = "info"
          /\ answer'[c] \in {"none", "error", "notfound"}
      <3>1. CASE Takes(r)
        BY <1>1, <2>2, <3>1 DEF TypeOK
      <3>2. CASE ~Takes(r)
        BY <1>1, <2>2, <3>2 DEF TypeOK, Answer
      <3>3. QED
        BY <3>1, <3>2
    <2>5. QED
      BY <1>1, <2>1, <2>3, <2>4, NeedsFacts, ConnFront
  <1>4. QED
    BY <1>2, <1>3

\* The check: a list that has not been freed decides as its text does.
LEMMA JudgeFront ==
  ASSUME FrontInv, NEW c \in Conns, Judge(c)
  PROVE  FrontInv'
  <1> DEFINE o == Option(req[c])
  <1>1. TypeOK /\ TypeOK'
    BY ConnType DEF FrontInv
  <1>2. /\ UNCHANGED <<phase, conf, seen, rules, saddr, req>> /\ phase \in {"serve", "stop"}
        /\ pc[c] = "judge" /\ Takes(req[c]) /\ req[c].service # "info"
    BY DEF Judge, settings, Running, FrontInv, UnderWay
  <1>3. o \in RuleOptions /\ saddr[c] \in Addresses
    BY <1>1 DEF Option, RuleOptions, TypeOK
  <1>4. phase = "serve" => Decisions(c) = {Verdict(seen[o], saddr[c])}
    <2>1. zimg_access_inet(rules[o], saddr[c]) = Verdict(seen[o], saddr[c])
      BY <1>3, Decision DEF FrontInv, ListsAgree, Agree
    <2>2. QED
      BY <2>1 DEF Decisions, Freed
  <1>5. PICK d \in Decisions(c) :
          IF d = "ok"
          THEN pc' = [pc EXCEPT ![c] = "handle"] /\ UNCHANGED <<answer, sent>>
          ELSE Answer(c, "forbidden", <<>>)
    BY DEF Judge
  <1>6. d \in {"ok", "forbidden"}
    BY <1>5, Decision DEF Decisions
  <1>7. CASE d = "ok"
    <2>1. /\ pc' = [pc EXCEPT ![c] = "handle"] /\ answer' = answer
      BY <1>5, <1>7
    <2>2. /\ pc'[c] = "handle"
          /\ \A e \in Conns \ {c} : pc'[e] = pc[e]
      BY <1>1, <2>1 DEF TypeOK
    <2>3. phase = "serve" => Verdict(seen[o], saddr[c]) = "ok"
      BY <1>4, <1>7
    <2>4. /\ phase = "serve" /\ answer[c] \in DOMAIN Needs =>
               Verdict(seen[Needs[answer[c]]], saddr[c]) = "ok"
          /\ phase = "serve" /\ answer[c] = "forbidden" /\ req[c].target # "up" =>
               Verdict(seen[Option(req[c])], saddr[c]) = "forbidden"
      BY DEF FrontInv, AnswersRight, GrantsRight, RefusalsRight
    <2>5. QED
      BY <1>1, <1>2, <2>1, <2>2, <2>3, <2>4, ConnFront
  <1>8. CASE d = "forbidden"
    <2>1. Answer(c, "forbidden", <<>>)
      BY <1>5, <1>8
    <2>2. /\ pc'[c] = "idle" /\ answer'[c] = "forbidden"
          /\ \A e \in Conns \ {c} : pc'[e] = pc[e] /\ answer'[e] = answer[e]
      BY <1>1, <2>1 DEF TypeOK, Answer
    <2>3. phase = "serve" => Verdict(seen[o], saddr[c]) = "forbidden"
      BY <1>4, <1>8
    <2>4. QED
      BY <1>1, <1>2, <2>2, <2>3, NeedsFacts, ConnFront
  <1>9. QED
    BY <1>6, <1>7, <1>8

LEMMA HandleFront ==
  ASSUME FrontInv, NEW c \in Conns, Handle(c)
  PROVE  FrontInv'
  <1>1. TypeOK /\ TypeOK'
    BY ConnType DEF FrontInv
  <1>2. /\ UNCHANGED <<phase, conf, seen, rules, saddr, req>> /\ phase \in {"serve", "stop"}
    BY DEF Handle, settings, Running
  <1>3. pc[c] = "handle" /\ Takes(req[c])
    <2>1. pc[c] = "handle"
      BY DEF Handle, HandleGet, HandleAdmin, HandleInfo, HandleUpload
    <2>2. QED
      BY <2>1 DEF FrontInv, UnderWay
  <1>4. PICK kind \in Kinds, hs \in Seq(Headers) :
           /\ Answer(c, kind, hs)
           /\ kind \in DOMAIN Needs =>
                Needs[kind] = Option(req[c]) /\ (Takes(req[c]) => req[c].service # "info")
           /\ kind = "forbidden" => req[c].target = "up"
    BY <1>1, HandleAnswers
  <1>5. /\ pc'[c] = "idle" /\ answer'[c] = kind
        /\ \A d \in Conns \ {c} : pc'[d] = pc[d] /\ answer'[d] = answer[d]
    BY <1>1, <1>4, AnswerType
  <1>6. phase = "serve" /\ kind \in DOMAIN Needs =>
           Verdict(seen[Needs[kind]], saddr[c]) = "ok"
    BY <1>3, <1>4 DEF FrontInv, PastCheck
  <1>7. QED
    BY <1>1, <1>2, <1>4, <1>5, <1>6, ConnFront

LEMMA NextFront == FrontInv /\ [Next]_vars => FrontInv'
  <1> SUFFICES ASSUME FrontInv, [Next]_vars PROVE FrontInv'
    OBVIOUS
  <1>1. CASE Load
    BY <1>1, LoadRuleFront, MainFront DEF Load, Quiet
  <1>2. CASE Stop
    BY <1>2, MainFront DEF Stop, Quiet, Exit
  <1>3. ASSUME NEW c \in Conns, Connect(c) \/ Receive(c) \/ Serve(c) PROVE FrontInv'
    BY <1>3, ConnectReceiveFront, JudgeFront, HandleFront, MainFront DEF Serve, DieOfFreed
  <1>4. CASE UNCHANGED vars
    <2>1. UNCHANGED <<phase, turn, conf, seen, rules, headers, saddr, pc, req, answer, sent>>
      BY <1>4 DEF vars, settings, perConn
    <2>2. ListsAgree' /\ ReadAsWritten'
      BY <2>1, ListsKept
    <2>3. TypeOK' /\ NotServed' /\ UnderWay'
      BY <2>1 DEF FrontInv, TypeOK, NotServed, UnderWay, Takes
    <2>4. PastCheck'
      BY <2>1 DEF FrontInv, PastCheck, Option, Verdict
    <2>5. GrantsRight'
      BY <2>1 DEF FrontInv, AnswersRight, GrantsRight, Verdict, Needs
    <2>6. RefusalsRight'
      BY <2>1 DEF FrontInv, AnswersRight, RefusalsRight, Option, Verdict
    <2>7. QED
      BY <2>2, <2>3, <2>4, <2>5, <2>6 DEF FrontInv, AnswersRight
  <1>5. QED
    BY <1>1, <1>2, <1>3, <1>4 DEF Next

LEMMA FrontCorrect == Spec => []FrontInv
  BY InitFront, NextFront, PTL DEF Spec

\* TypeOK holds in every reachable state; among the rest, that a connection has
\* a request whenever a worker is at work for it.
THEOREM TypeCorrect == Spec => []TypeOK
  <1>1. FrontInv => TypeOK
    BY DEF FrontInv
  <1>2. QED
    BY <1>1, FrontCorrect, PTL

\* Whatever the rules, the addresses and the requests are: while the process
\* serves, the list that load_conf has built and zimg_access_inet asks from its
\* head grants and refuses what the text of the option says, read to its end.
THEOREM RulesFollowed == Spec => []AnswersFollowRules
  <1>1. FrontInv => AnswersFollowRules
    BY DEF FrontInv, ReadAsWritten, AnswersRight, GrantsRight, RefusalsRight,
           AnswersFollowRules
  <1>2. QED
    BY <1>1, FrontCorrect, PTL

-----------------------------------------------------------------------------
(* Headers.  load_conf builds the list of headers section by section, and    *)
(* a request that finds it whole sends all of it.                            *)

\* The sections that have a place not in front of i's.
Later(text, i) == {j \in DOMAIN text : text[j].colon /\ i <= j}
Named(text) == {j \in DOMAIN text : text[j].colon}

\* Places are places of the list.
LEMMA PlaceInList ==
  ASSUME NEW text \in Seq(HeaderSections), NEW i \in DOMAIN text, text[i].colon
  PROVE  Place(text, i) \in 1..Cardinality(Named(text))
  <1>1. IsFiniteSet(DOMAIN text)
    BY FS_Interval
  <1>2. IsFiniteSet(Named(text))
    <2>1. Named(text) \in SUBSET DOMAIN text
      BY DEF Named
    <2>2. QED
      BY <1>1, <2>1, FS_Subset
  <1>3. /\ IsFiniteSet(Later(text, i))
        /\ Cardinality(Later(text, i)) <= Cardinality(Named(text))
    <2>1. Later(text, i) \in SUBSET Named(text)
      BY DEF Named, Later
    <2>2. QED
      BY <1>2, <2>1, FS_Subset
  <1>4. Cardinality(Later(text, i)) # 0
    <2>1. i \in Later(text, i)
      BY DEF Later
    <2>2. QED
      BY <1>3, <2>1, FS_EmptySet
  <1>5. /\ Cardinality(Later(text, i)) \in Nat
        /\ Cardinality(Named(text)) \in Nat
    BY <1>2, <1>3, FS_CardinalityType
  <1>6. Place(text, i) = Cardinality(Later(text, i))
    BY DEF Place, Later
  <1>7. QED
    BY <1>3, <1>4, <1>5, <1>6

\* conf_get_headers keeps the list in step with the text.
LEMMA AddHeaderCarries ==
  ASSUME NEW text \in Seq(HeaderSections), NEW list \in Seq(Headers),
         NEW s \in HeaderSections, Carries(list, text)
  PROVE  Carries(AddHeader(list, s), Append(text, s))
  <1> DEFINE more == Append(text, s)
             n == Len(text)
  <1>1. /\ n \in Nat /\ more \in Seq(HeaderSections)
        /\ DOMAIN text = 1..n /\ DOMAIN more = 1..(n + 1)
        /\ more[n + 1] = s /\ \A i \in 1..n : more[i] = text[i]
    OBVIOUS
  <1>2. IsFiniteSet(Named(text)) /\ \A i \in 1..n : IsFiniteSet(Later(text, i))
    <2>1. IsFiniteSet(1..n)
      BY <1>1, FS_Interval
    <2>2. Named(text) \in SUBSET (1..n) /\ \A i \in 1..n : Later(text, i) \in SUBSET (1..n)
      BY <1>1 DEF Named, Later
    <2>3. QED
      BY <2>1, <2>2, FS_Subset
  <1>3. /\ Len(list) = Cardinality(Named(text))
        /\ \A i \in 1..n : text[i].colon => list[Place(text, i)] = text[i].header
    BY <1>1 DEF Carries, Named
  <1>4. n + 1 \notin Named(text) /\ \A i \in 1..n : n + 1 \notin Later(text, i)
    BY <1>1 DEF Named, Later
  <1> HIDE DEF more, n
  <1>5. CASE ~s.colon
    <2>1. Named(more) = Named(text)
      BY <1>1, <1>5 DEF Named
    <2>2. ASSUME NEW i \in 1..(n + 1), more[i].colon
          PROVE  list[Place(more, i)] = more[i].header
      <3>1. i \in 1..n /\ more[i] = text[i]
        BY <1>1, <1>5, <2>2
      <3>2. Later(more, i) = Later(text, i)
        BY <1>1, <1>5 DEF Later
      <3>3. Place(more, i) = Place(text, i)
        BY <3>2 DEF Place, Later
      <3>4. QED
        BY <1>3, <2>2, <3>1, <3>3
    <2>3. AddHeader(list, s) = list
      BY <1>5 DEF AddHeader
    <2>4. Carries(list, more)
      BY <1>1, <1>3, <2>1, <2>2 DEF Carries, Named
    <2>5. QED
      BY <2>3, <2>4 DEF more
  <1>6. CASE s.colon
    <2> DEFINE longer == <<s.header>> \o list
    <2>1. s.header \in Headers
      BY DEF HeaderSections
    <2>2. /\ Len(longer) = Len(list) + 1 /\ longer[1] = s.header
          /\ \A k \in 1..Len(list) : longer[k + 1] = list[k]
      BY <2>1
    <2> HIDE DEF longer
    <2>3. Len(longer) = Cardinality(Named(more))
      <3>1. Named(more) = Named(text) \union {n + 1}
        BY <1>1, <1>6 DEF Named
      <3>2. QED
        BY <1>2, <1>3, <1>4, <2>2, <3>1, FS_AddElement
    <2>4. ASSUME NEW i \in 1..n, text[i].colon
          PROVE  longer[Place(more, i)] = text[i].header
      <3>1. Later(more, i) = Later(text, i) \union {n + 1}
        BY <1>1, <1>6, SMTT(20) DEF Later
      <3>2. Cardinality(Later(more, i)) = Cardinality(Later(text, i)) + 1
        BY <1>2, <1>4, <3>1, FS_AddElement
      <3>3. Place(more, i) = Place(text, i) + 1
        BY <3>2 DEF Place, Later
      <3>4. Place(text, i) \in 1..Len(list)
        BY <1>1, <1>3, <2>4, PlaceInList
      <3>5. QED
        BY <1>3, <2>2, <2>4, <3>3, <3>4
    <2>5. longer[Place(more, n + 1)] = s.header
      <3>1. Later(more, n + 1) = {n + 1}
        BY <1>1, <1>6 DEF Later
      <3>2. Place(more, n + 1) = 1
        BY <3>1, FS_Singleton DEF Place, Later
      <3>3. QED
        BY <2>2, <3>2
    <2>6. \A i \in 1..(n + 1) : more[i].colon => longer[Place(more, i)] = more[i].header
      <3>1. SUFFICES ASSUME NEW i \in 1..(n + 1), more[i].colon
                     PROVE  longer[Place(more, i)] = more[i].header
        OBVIOUS
      <3>2. CASE i = n + 1
        BY <1>1, <2>5, <3>2
      <3>3. CASE i # n + 1
        <4>1. i \in 1..n
          BY <1>1, <3>3
        <4>2. QED
          BY <1>1, <2>4, <3>1, <4>1
      <3>4. QED
        BY <3>2, <3>3
    <2>7. AddHeader(list, s) = longer
      BY <1>6 DEF AddHeader, longer
    <2>8. Carries(longer, more)
      BY <1>1, <2>3, <2>6 DEF Carries, Named
    <2>9. QED
      BY <2>7, <2>8 DEF more
  <1>7. QED
    BY <1>5, <1>6

\* The text is read in its order, and to its end before the next option.
HeadersRead ==
  /\ Len(seen["headers"]) <= Len(conf["headers"])
  /\ phase = "serve" \/ (phase = "load" /\ turn # 1) =>
       Len(seen["headers"]) = Len(conf["headers"])
  /\ \A i \in DOMAIN seen["headers"] :
       i < Len(conf["headers"]) => seen["headers"][i] = conf["headers"][i]

HeadersListed == Carries(headers, seen["headers"])

\* Nothing is freed while the process serves.
HeadersSent ==
  phase = "serve" =>
    \A c \in Conns : answer[c] \in {"image", "icon"} => sent[c] = headers

HeaderInv == HeadersRead /\ HeadersListed /\ HeadersSent

LEMMA HeaderOptions ==
  /\ Order[1] = "headers" /\ \A k \in 2..4 : Order[k] \in RuleOptions
  /\ "headers" \in Options /\ "headers" \notin RuleOptions
  BY DEF Order, Options, RuleOptions

LEMMA InitHeaders == Init => HeaderInv
  <1> SUFFICES ASSUME Init PROVE HeaderInv
    OBVIOUS
  <1>1. seen["headers"] = <<>> /\ headers = <<>> /\ conf["headers"] \in Seq(HeaderSections)
    BY HeaderOptions, ConfsAssumption DEF Init
  <1>2. HeadersRead
    BY <1>1 DEF Init, HeadersRead
  <1>3. HeadersListed
    <2>1. {i \in DOMAIN seen["headers"] : seen["headers"][i].colon} = {}
      BY <1>1
    <2>2. QED
      BY <1>1, <2>1, FS_EmptySet DEF HeadersListed, Carries
  <1>4. HeadersSent
    BY DEF Init, HeadersSent
  <1>5. QED
    BY <1>2, <1>3, <1>4 DEF HeaderInv

\* Steps that leave the text and the list of headers alone.
LEMMA TextKept ==
  ASSUME HeaderInv, headers' = headers, conf' = conf, seen'["headers"] = seen["headers"]
  PROVE  /\ HeadersListed'
         /\ Len(seen'["headers"]) <= Len(conf'["headers"])
         /\ \A i \in DOMAIN seen'["headers"] :
              i < Len(conf'["headers"]) => seen'["headers"][i] = conf'["headers"][i]
  BY DEF HeaderInv, HeadersRead, HeadersListed, Carries, Place

LEMMA LoadHeaders ==
  ASSUME FrontInv, HeaderInv, Load
  PROVE  HeaderInv'
  <1> TypeOK
    BY DEF FrontInv
  <1>1. conf' = conf /\ turn \in 1..4
    BY DEF Load, LoadRule, LoadHeader, DieOfHeader, NextOption, Loading, TypeOK
  <1>2. CASE LoadHeader
    <2>1. PICK s \in {Text[Pos]} \union (IF Pos = Len(Text)
                                        THEN {h \in HeaderSections : h.colon} ELSE {}) :
             See(s) /\ headers' = AddHeader(headers, s)
      BY <1>2 DEF LoadHeader
    <2>2. Current = "headers" /\ Text = conf["headers"] /\ Pos <= Len(Text)
      BY <1>2 DEF LoadHeader, Text
    <2>3. /\ conf["headers"] \in Seq(HeaderSections) /\ seen["headers"] \in Seq(HeaderSections)
          /\ headers \in Seq(Headers) /\ DOMAIN seen = Options
      BY ConfsAssumption DEF TypeOK
    <2>4. Pos = Len(seen["headers"]) + 1 /\ Pos \in 1..Len(Text)
      BY <2>2, <2>3 DEF Pos
    <2>5. s \in HeaderSections /\ (Pos < Len(Text) => s = Text[Pos])
      BY <2>1, <2>2, <2>3, <2>4
    <2>6. seen'["headers"] = Append(seen["headers"], s)
      BY <2>1, <2>2, <2>3, HeaderOptions DEF See
    <2>7. HeadersListed'
      <3>1. Carries(headers', seen'["headers"])
        BY <2>1, <2>3, <2>5, <2>6, AddHeaderCarries DEF HeaderInv, HeadersListed
      <3>2. QED
        BY <3>1 DEF HeadersListed, Carries, Place
    <2>8. phase' = "load" /\ turn' = 1
      <3>1. turn = 1
        BY <1>1, <2>2, HeaderOptions DEF Current
      <3>2. QED
        BY <1>2, <3>1 DEF LoadHeader, Loading
    <2>9. HeadersRead'
      <3>1. Len(seen'["headers"]) <= Len(conf'["headers"])
        BY <1>1, <2>2, <2>3, <2>4, <2>5, <2>6
      <3>2. ASSUME NEW i \in DOMAIN seen'["headers"], i < Len(conf'["headers"])
            PROVE  seen'["headers"][i] = conf'["headers"][i]
        <4>1. CASE i = Pos
          BY <1>1, <2>2, <2>3, <2>4, <2>5, <2>6, <3>2, <4>1
        <4>2. CASE i # Pos
          <5>1. i \in DOMAIN seen["headers"] /\ seen'["headers"][i] = seen["headers"][i]
            BY <2>3, <2>4, <2>5, <2>6, <4>2
          <5>2. QED
            BY <1>1, <3>2, <5>1 DEF HeaderInv, HeadersRead
        <4>3. QED
          BY <4>1, <4>2
      <3>3. QED
        BY <2>8, <3>1, <3>2 DEF HeadersRead
    <2>10. QED
      BY <2>7, <2>8, <2>9 DEF HeaderInv, HeadersSent
  <1>3. CASE LoadRule
    <2>1. Current # "headers" /\ seen'["headers"] = seen["headers"] /\ headers' = headers
      <3>1. Current # "headers"
        BY <1>3, HeaderOptions DEF LoadRule
      <3>2. PICK s : See(s)
        BY <1>3 DEF LoadRule
      <3>3. QED
        BY <1>3, <3>1, <3>2, HeaderOptions DEF LoadRule, See, TypeOK
    <2>2. phase' = phase /\ phase = "load" /\ turn' = turn
      BY <1>3 DEF LoadRule, Loading
    <2>3. QED
      BY <1>1, <2>1, <2>2, TextKept DEF HeaderInv, HeadersRead, HeadersSent
  <1>4. CASE DieOfHeader
    BY <1>1, <1>4, TextKept DEF DieOfHeader, HeaderInv, HeadersRead, HeadersSent
  <1>5. CASE NextOption
    <2>1. seen' = seen /\ headers' = headers /\ phase = "load" /\ Pos > Len(Text)
      BY <1>5 DEF NextOption, Loading
    <2>2. Len(seen["headers"]) = Len(conf["headers"])
      <3>1. Len(seen["headers"]) \in Nat /\ Len(conf["headers"]) \in Nat
        BY ConfsAssumption DEF TypeOK
      <3>2. CASE turn = 1
        <4>1. Len(seen["headers"]) + 1 > Len(conf["headers"])
          BY <2>1, <3>2, HeaderOptions DEF Pos, Text, Current
        <4>2. Len(seen["headers"]) <= Len(conf["headers"])
          BY DEF HeaderInv, HeadersRead
        <4>3. QED
          BY <3>1, <4>1, <4>2
      <3>3. CASE turn # 1
        BY <2>1, <3>3 DEF HeaderInv, HeadersRead
      <3>4. QED
        BY <3>2, <3>3
    <2>3. HeadersRead'
      BY <1>1, <2>1, <2>2, TextKept DEF HeadersRead
    <2>4. \A c \in Conns : answer'[c] = "none"
      BY <1>5, <2>1 DEF NextOption, Loading, perConn, FrontInv, NotServed
    <2>5. QED
      BY <1>1, <2>1, <2>3, <2>4, TextKept DEF HeaderInv, HeadersSent
  <1>6. QED
    BY <1>2, <1>3, <1>4, <1>5 DEF Load

LEMMA StopHeaders ==
  ASSUME HeaderInv, StopLoop \/ FreeOption \/ End
  PROVE  HeaderInv'
  <1>1. /\ UNCHANGED <<conf, seen, headers>> /\ phase' \in {"stop", "down"}
    BY DEF StopLoop, FreeOption, End, settings
  <1>2. QED
    BY <1>1, TextKept DEF HeaderInv, HeadersRead, HeadersSent

\* What a step of one connection must show.
LEMMA ConnHeaders ==
  ASSUME HeaderInv, NEW c \in Conns,
         UNCHANGED <<phase, turn, conf, seen, headers>>,
         \A d \in Conns \ {c} : answer'[d] = answer[d] /\ sent'[d] = sent[d],
         phase = "serve" /\ answer'[c] \in {"image", "icon"} => sent'[c] = headers
  PROVE  HeaderInv'
  <1>1. HeadersSent'
    BY DEF HeaderInv, HeadersSent
  <1>2. QED
    BY <1>1, TextKept DEF HeaderInv, HeadersRead

LEMMA ServeHeaders ==
  ASSUME TypeOK, HeaderInv, NEW c \in Conns,
         Connect(c) \/ Receive(c) \/ Judge(c) \/ Handle(c)
  PROVE  HeaderInv'
  <1>1. UNCHANGED <<phase, turn, conf, seen, headers>>
    BY DEF Connect, Receive, Judge, Handle, settings
  <1>2. ASSUME NEW kind, NEW hs, Answer(c, kind, hs),
               phase = "serve" /\ kind \in {"image", "icon"} => hs = headers
        PROVE  HeaderInv'
    <2>1. /\ \A d \in Conns \ {c} : answer'[d] = answer[d] /\ sent'[d] = sent[d]
          /\ answer'[c] = kind /\ sent'[c] = hs
      BY <1>2 DEF Answer, TypeOK
    <2>2. QED
      BY <1>1, <1>2, <2>1, ConnHeaders
  <1>3. ASSUME \/ /\ answer' = [answer EXCEPT ![c] = "none"]
                  /\ sent' = [sent EXCEPT ![c] = <<>>]
               \/ UNCHANGED <<answer, sent>>
        PROVE  HeaderInv'
    <2>1. CASE UNCHANGED <<answer, sent>>
      <3>1. phase = "serve" /\ answer'[c] \in {"image", "icon"} => sent'[c] = headers
        BY <2>1 DEF HeaderInv, HeadersSent
      <3>2. QED
        BY <1>1, <2>1, <3>1, ConnHeaders
    <2>2. CASE answer' = [answer EXCEPT ![c] = "none"] /\ sent' = [sent EXCEPT ![c] = <<>>]
      <3>1. /\ \A d \in Conns \ {c} : answer'[d] = answer[d] /\ sent'[d] = sent[d]
            /\ answer'[c] = "none"
        BY <2>2 DEF TypeOK
      <3>2. QED
        BY <1>1, <3>1, ConnHeaders
    <2>3. QED
      BY <1>3, <2>1, <2>2
  <1>4. CASE Connect(c)
    BY <1>3, <1>4 DEF Connect
  <1>5. CASE Receive(c)
    <2>1. PICK r \in Requests :
            IF Takes(r)
            THEN /\ answer' = [answer EXCEPT ![c] = "none"]
                 /\ sent' = [sent EXCEPT ![c] = <<>>]
            ELSE Answer(c, IF r.service \in {"info", "upload"} THEN "error"
                           ELSE "notfound", <<>>)
      BY <1>5 DEF Receive
    <2>2. CASE Takes(r)
      BY <1>3, <2>1, <2>2
    <2>3. CASE ~Takes(r)
      <3>1. Answer(c, "error", <<>>) \/ Answer(c, "notfound", <<>>)
        BY <2>1, <2>3
      <3>2. QED
        BY <1>2, <3>1
    <2>4. QED
      BY <2>2, <2>3
  <1>6. CASE Judge(c)
    <2>1. UNCHANGED <<answer, sent>> \/ Answer(c, "forbidden", <<>>)
      BY <1>6 DEF Judge
    <2>2. QED
      BY <1>2, <1>3, <2>1
  <1>7. CASE Handle(c)
    <2>1. \/ \E kind \in {"page", "forbidden", "notfound", "notmodified", "command",
                          "error", "description", "upload"} : Answer(c, kind, <<>>)
          \/ \E kind \in {"image", "icon"}, hs \in HeadersAdded : Answer(c, kind, hs)
      BY <1>7 DEF Handle, HandleGet, HandleAdmin, HandleInfo, HandleUpload
    <2>2. \A hs \in HeadersAdded : phase = "serve" => hs = headers
      BY DEF HeadersAdded, Freed
    <2>3. QED
      BY <1>2, <2>1, <2>2
  <1>8. QED
    BY <1>4, <1>5, <1>6, <1>7

LEMMA NextHeaders == FrontInv /\ HeaderInv /\ [Next]_vars => HeaderInv'
  <1> SUFFICES ASSUME FrontInv, HeaderInv, [Next]_vars PROVE HeaderInv'
    OBVIOUS
  <1>1. CASE Load
    BY <1>1, LoadHeaders
  <1>2. CASE Stop
    BY <1>2, StopHeaders DEF Stop, Exit
  <1>3. ASSUME NEW c \in Conns, Connect(c) \/ Receive(c) \/ Serve(c) PROVE HeaderInv'
    <2>1. TypeOK
      BY DEF FrontInv
    <2>2. QED
      BY <1>3, <2>1, ServeHeaders, StopHeaders DEF Serve, DieOfFreed
  <1>4. CASE UNCHANGED vars
    <2>1. UNCHANGED <<phase, turn, conf, seen, headers, answer, sent>>
      BY <1>4 DEF vars, settings, perConn
    <2>2. QED
      BY <2>1, TextKept DEF HeaderInv, HeadersRead, HeadersSent
  <1>5. QED
    BY <1>1, <1>2, <1>3, <1>4 DEF Next

\* However many headers the configuration names, and whatever the last section
\* of its text is misread as: an image or an icon that a process which serves
\* answers with carries all of them, the last one first, and no other.
THEOREM HeadersComplete == Spec => []HeadersAsWritten
  <1>1. FrontInv /\ HeaderInv => HeadersAsWritten
    <2> SUFFICES ASSUME TypeOK, HeaderInv, phase = "serve" PROVE HeadersAsWritten
      BY DEF FrontInv, HeadersAsWritten
    <2>1. /\ Len(seen["headers"]) = Len(conf["headers"])
          /\ DOMAIN seen["headers"] = DOMAIN conf["headers"]
      BY ConfsAssumption DEF TypeOK, HeaderInv, HeadersRead
    <2>2. \A c \in Conns : answer[c] \in {"image", "icon"} => Carries(sent[c], seen["headers"])
      <3>1. Carries(headers, seen["headers"])
        BY DEF HeaderInv, HeadersListed
      <3>2. \A c \in Conns : answer[c] \in {"image", "icon"} => sent[c] = headers
        BY DEF HeaderInv, HeadersSent
      <3>3. QED
        BY <3>1, <3>2
    <2>3. QED
      BY <2>1, <2>2 DEF HeadersAsWritten, HeaderInv, HeadersRead
  <1>2. QED
    BY <1>1, InitFront, NextFront, InitHeaders, NextHeaders, PTL DEF Spec
=============================================================================
