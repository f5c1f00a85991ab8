----------------------------- MODULE FilterRules -----------------------------
(***************************************************************************)
(* The filter rules of mdns-sieve (config.rs): how they are read from the  *)
(* configuration file, and which packets, and in rewrite mode which        *)
(* questions and records, go from one interface to another.                *)
(*                                                                         *)
(* A rule of the file is a record                                          *)
(*   action   : "forward", or anything else, which means drop              *)
(*   patterns : its services and hosts, which are treated alike: strings   *)
(*   src      : a set of interfaces, with "*" in it for any                *)
(*   dst      : the same                                                   *)
(*   section  : "questions", "answers" or "any"                            *)
(* and an item of a packet a record                                        *)
(*   kind     : "question" or "record"                                     *)
(*   names    : its name and, for a record that has one, its target name   *)
(***************************************************************************)
EXTENDS DnsNames

Star == 42
Mark == 63

TokenPlain(c) ==   \* mutant: the dot is not escaped
    IF c = Star THEN [run |-> TRUE, any |-> TRUE, char |-> c]
    ELSE [run |-> FALSE, any |-> c \in {Mark, Dot}, char |-> c]
\* What fnmatch_to_regex makes of a character: ".*", ".", or itself, escaped
\* where a regex would take it for something else.
Token(c) ==
    IF c = Star THEN [run |-> TRUE, any |-> TRUE, char |-> c]
    ELSE [run |-> FALSE, any |-> c = Mark, char |-> c]
Regex(pattern) == [k \in DOMAIN pattern |-> Token(pattern[k])]

Accepts(token, c) == IF token.any THEN c # Newline ELSE c = token.char

\* Regex::is_match, of a regex anchored at both ends: rest[k] holds the places
\* of text from where the tokens from the k-th on match what is left of it.
IsMatch(regex, text) ==
    LET rest[k \in 1..(Len(regex) + 1)] ==
            IF k > Len(regex) THEN {Len(text) + 1}
            ELSE {n \in 1..(Len(text) + 1) : \E m \in rest[k + 1] :
                     /\ IF regex[k].run THEN n <= m ELSE n + 1 = m
                     /\ \A i \in n..(m - 1) : Accepts(regex[k], text[i])}
    IN  1 \in rest[1]

\* FilterRule::from_config and AppConfig::load_from_file.
FromConfig(r) ==
    [action |-> r.action = "forward", src |-> r.src, dst |-> r.dst,
     section |-> r.section, patterns |-> {Regex(Canon(p)) : p \in r.patterns}]
Load(file) ==
    [rules |-> [i \in DOMAIN file.rules |-> FromConfig(file.rules[i])],
     forward |-> file.default = "forward",
     rewrite |-> file.rewrite, knownAnswers |-> file.knownAnswers]

-----------------------------------------------------------------------------
(* The decisions *)

\* The interfaces match: FilterRule::applies_to.
AppliesTo(r, src, dst) ==
    /\ r.src \cap {"*", src} # {}
    /\ r.dst \cap {"*", dst} # {}

\* The names a rule looks at.
TargetNames(r, qs, as) ==
    CASE r.section = "questions" -> qs
      [] r.section = "answers"   -> as
      [] OTHER                   -> qs \cup as

\* FilterRule::matches_packet: a rule without patterns matches any name, but
\* not the absence of names.
MatchesPacket(r, qs, as) ==
    \E name \in TargetNames(r, qs, as) :
        r.patterns = {} \/ \E regex \in r.patterns : IsMatch(regex, Canon(name))

DecideLast(rules, hits, otherwise) ==   \* mutant: the last rule wins
    IF hits = {} THEN otherwise
    ELSE rules[CHOOSE i \in hits : \A k \in hits : i >= k].action

\* The first rule of the list that hits decides; without one, otherwise does.
Decide(rules, hits, otherwise) ==
    IF hits = {} THEN otherwise
    ELSE rules[CHOOSE i \in hits : \A k \in hits : i <= k].action

\* AppConfig::should_forward, for a whole packet.
ShouldForward(cfg, src, dst, qs, as) ==
    Decide(cfg.rules,
           {i \in DOMAIN cfg.rules : /\ AppliesTo(cfg.rules[i], src, dst)
                                     /\ MatchesPacket(cfg.rules[i], qs, as)},
           cfg.forward)

\* AppConfig::should_forward_question.
ShouldForwardQuestion(cfg, src, dst, names) ==
    ShouldForward(cfg, src, dst, names, {})

\* A rule that has a say about a known answer, a record in a query: one for
\* answers that applies in either direction.
KnownAnswerRules(cfg, src, dst, names) ==
    {i \in DOMAIN cfg.rules :
        /\ \/ AppliesTo(cfg.rules[i], dst, src)
           \/ AppliesTo(cfg.rules[i], src, dst)
        /\ cfg.rules[i].section \in {"answers", "any"}
        /\ MatchesPacket(cfg.rules[i], {}, names)}

\* AppConfig::should_forward_record: in a response the rules decide as usual;
\* a known answer is forwarded only if a rule says so, unless all are.
ShouldForwardRecord(cfg, src, dst, names, response) ==
    IF response THEN ShouldForward(cfg, src, dst, {}, names)
    ELSE \/ cfg.knownAnswers
         \/ Decide(cfg.rules, KnownAnswerRules(cfg, src, dst, names), FALSE)

\* The filter_rrs and question loops of the reflector ask for one item.
ShouldForwardItem(cfg, src, dst, item, response) ==
    IF item.kind = "question"
    THEN ShouldForwardQuestion(cfg, src, dst, item.names)
    ELSE ShouldForwardRecord(cfg, src, dst, item.names, response)

==============================================================================
