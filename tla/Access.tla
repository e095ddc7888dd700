------------------------------- MODULE Access -------------------------------
(***************************************************************************)
(* Access rules (zaccess.c).  The text of a rule option, as in             *)
(*     upload_rule = 'allow 10.1.121.138/24;deny all'                      *)
(* is a sequence of sections, cut at the semicolons.  What the functions   *)
(* read out of the letters of a section is a record:                       *)
(*   mode    the word it begins with; "" for an empty section              *)
(*   blank   it has a blank, behind which the range begins                 *)
(*   all     the range is the word "all"                                   *)
(*   addr    what zimg_inet_addr makes of the range up to a slash          *)
(*   slash   there is a slash                                              *)
(*   shift   what zimg_atoi makes of the rest; ZIMG_ERROR for no number    *)
(***************************************************************************)
EXTENDS Integers, Sequences

CONSTANTS
  Bits,     \* bits of an address: 32 in the code
  Hosts,    \* Hosts[n]: how many addresses share their first n bits
  Sections  \* the sections a rule option may have

ASSUME BitsAssumption == Bits \in Nat \ {0}
ASSUME HostsAssumption == Hosts \in [0..Bits -> Nat \ {0}]

Addresses == 0..(Hosts[0] - 1)
INADDR_NONE == Hosts[0] - 1
ZIMG_ERROR == -1

ASSUME SectionsAssumption ==
  Sections \subseteq [mode : {"allow", "deny", ""}, blank : BOOLEAN,
                      all : BOOLEAN, addr : Addresses, slash : BOOLEAN,
                      shift : Nat \union {ZIMG_ERROR}]

Texts == Seq(Sections)

\* A rule: the number of 1s its mask begins with, and its masked address.
Rules == [deny : BOOLEAN, mask : 0..Bits, addr : Nat]

\* addr & mask, with n 1s at the beginning of the mask.
Masked(addr, n) == addr - (addr % Hosts[n])

\* stor does not return ZIMG_ERROR.
StorSucceeds(s) ==
  /\ s.addr # INADDR_NONE
  /\ s.slash => s.shift \in 0..Bits

\* stor: the mask of an accepted range; all bits without a slash.
MaskLength(s) == IF s.slash THEN s.shift ELSE Bits

\* Mutant: an address is kept as it is written, with the bits behind its mask.
RuleUnmasked(s) ==
  IF s.all
  THEN [deny |-> s.mode = "deny", mask |-> 0, addr |-> 0]
  ELSE [deny |-> s.mode = "deny", mask |-> MaskLength(s), addr |-> s.addr]

\* stor: the rule of an accepted section.  The rule of "all" keeps memset's 0s.
Rule(s) ==
  IF s.all
  THEN [deny |-> s.mode = "deny", mask |-> 0, addr |-> 0]
  ELSE [deny |-> s.mode = "deny", mask |-> MaskLength(s),
        addr |-> Masked(s.addr, MaskLength(s))]

\* conf_get_rules makes a node for the section.  In a section without a blank
\* the strchr for the range finds the blank of a later section or none: the
\* range has a length below 0 or there is none, and no node is made.
MakesRule(s) == s.blank /\ (s.all \/ StorSucceeds(s))

\* conf_get_rules reads its copy of the text, which lacks the final 0.  When
\* stale bytes behind it have a semicolon, the last section ends there: its
\* range is longer than written, and an empty section may become any.
Misread(s) ==
  {r \in Sections : /\ s.mode # "" => r.mode = s.mode
                    /\ s.blank => r.blank /\ ~r.all
                    /\ s.blank /\ s.slash => r.addr = s.addr /\ r.slash}

\* What the i-th section of a text may be read as.
ReadAs(text, i) ==
  {text[i]} \union (IF i = Len(text) THEN Misread(text[i]) ELSE {})

\* Mutant: a new node is put at the tail.
AddRuleAtTail(list, s) == IF MakesRule(s) THEN Append(list, Rule(s)) ELSE list

\* A new node becomes the head of the list.
AddRule(list, s) == IF MakesRule(s) THEN <<Rule(s)>> \o list ELSE list

Matches(rule, addr) == Masked(addr, rule.mask) = rule.addr

\* zimg_access_inet: the first rule of the list that matches decides.  An
\* option that is not set (a NULL list, which callers do not ask) is the
\* empty list here: both allow.
zimg_access_inet(list, addr) ==
  LET hits == {j \in DOMAIN list : Matches(list[j], addr)} IN
  IF \/ list = <<>>
     \/ \E j \in hits : ~list[j].deny /\ \A k \in hits : j <= k
  THEN "ok"
  ELSE "forbidden"

-----------------------------------------------------------------------------
(* What the option promises, said about the text *)

\* A section that says something about access.
Valid(s) == MakesRule(s)

\* The address lies in the range that the section names.
Covers(s, addr) ==
  s.all \/ addr \div Hosts[MaskLength(s)] = s.addr \div Hosts[MaskLength(s)]

\* Of the valid sections that cover the address the last one written decides;
\* where none does nobody is allowed, unless no section is valid at all.
Verdict(text, addr) ==
  LET valid == {i \in DOMAIN text : Valid(text[i])}
      hits == {i \in valid : Covers(text[i], addr)}
  IN  IF \/ valid = {}
         \/ \E i \in hits : text[i].mode # "deny" /\ \A k \in hits : k <= i
      THEN "ok"
      ELSE "forbidden"
=============================================================================
