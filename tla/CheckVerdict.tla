---------------------------- MODULE CheckVerdict ----------------------------
(***************************************************************************)
(* One request in handleCheck (gateway/main.go): decoding, the scan of     *)
(* each requested category (scanCategory in gateway/rules.go over the      *)
(* catalog in config/rules.go, detectInjection in gateway/inference.go),   *)
(* the verdict, the response, and the metering event.                      *)
(*                                                                         *)
(* A text is the set of places where some rule's pattern matches it.       *)
(* Rules are tried in catalog order; the matches of a rule are reported    *)
(* and replaced by a placeholder that no pattern matches.  A match that    *)
(* overlaps a replaced one may be destroyed with it or may survive, in     *)
(* what is left of it; one that lies inside a replaced one is gone.        *)
(*                                                                         *)
(* A replacement also changes what its neighbours see.  It may uncover a   *)
(* match: the text that follows a phone_intl match may start a word only   *)
(* once the number is replaced.  And it may undo one: the \b before the    *)
(* +33 of phone_fr needs a word character in front of the plus sign, and a *)
(* placeholder ends in a bracket.  No other pattern has a \b next to a     *)
(* character that is not of a word, so no other match is undone.  The      *)
(* phone_intl pattern has no \b and matches on the characters of every     *)
(* such number, from its plus sign, as long as none of them is replaced.   *)
(***************************************************************************)
EXTENDS Integers, Sequences, FiniteSets, SequencesExt

CONSTANTS
    Matches,        \* places where a pattern matches
    RuleOf,         \* the rule that matches there
    Overlaps,       \* pairs of places that share characters
    Within,         \* pairs of places, the first inside the second
    Uncovers,       \* pairs of places, the second a match once the first is replaced
    Unmatches,      \* pairs of places, the second no match once the first is replaced
    Backs,          \* pairs of places, the first found on the characters of the second
    MaxCategories   \* bound on the length of a request's category list

Rule(n, c, s) == [name |-> n, category |-> c, severity |-> s]

(* config.Rules. *)
Catalog == <<
    Rule("private_key",    "secrets", "high"),
    Rule("jwt",            "secrets", "medium"),
    Rule("aws_access_key", "secrets", "high"),
    Rule("openai_key",     "secrets", "high"),
    Rule("anthropic_key",  "secrets", "high"),
    Rule("github_pat",     "secrets", "high"),
    Rule("email",          "pii", "medium"),
    Rule("iban",           "pii", "high"),
    Rule("nir_fr",         "pii", "high"),
    Rule("ssn_us",         "pii", "high"),
    Rule("credit_card",    "pii", "high"),
    Rule("phone_fr",       "pii", "medium"),
    Rule("phone_intl",     "pii", "medium") >>

Names == {Catalog[i].name : i \in DOMAIN Catalog}

(* Every anthropic_key match is an openai_key match: the pattern of the one *)
(* is the pattern of the other with a longer fixed prefix.                  *)
ASSUME MatchesAssumption ==
    /\ IsFiniteSet(Matches) /\ RuleOf \in [Matches -> Names]
    /\ Overlaps \subseteq Matches \X Matches
    /\ \A p \in Overlaps : p[1] # p[2] /\ <<p[2], p[1]>> \in Overlaps
    /\ \A p \in Overlaps : RuleOf[p[1]] # RuleOf[p[2]]
    /\ Within \subseteq Overlaps
    /\ \A m \in Matches : RuleOf[m] = "anthropic_key" =>
          \E n \in Matches : RuleOf[n] = "openai_key" /\ <<m, n>> \in Within
    /\ Uncovers \subseteq Matches \X Matches

(* The two phone rules.  A place that a neighbour's replacement undoes is a *)
(* phone_fr number written with +33, and phone_intl finds it too.  What     *)
(* covers all of the phone_intl place shares characters with the number.    *)
ASSUME PhonesAssumption ==
    /\ Unmatches \subseteq Matches \X Matches
    /\ Backs \subseteq Overlaps
    /\ \A p \in Unmatches : RuleOf[p[2]] = "phone_fr" /\ \E b \in Backs : b[2] = p[2]
    /\ \A b \in Backs :
          /\ RuleOf[b[1]] = "phone_intl" /\ RuleOf[b[2]] = "phone_fr"
          /\ \A c \in Backs : c[1] = b[1] => c[2] = b[2]
          /\ \A p \in Within : p[1] = b[1] => p[2] = b[2] \/ <<b[2], p[2]>> \in Overlaps
ASSUME BoundAssumption == MaxCategories \in Nat

(* A text contains, with a match, every match it lies inside and every      *)
(* match that backs it, and no match that is yet to be uncovered.           *)
Texts ==
    {T \in SUBSET {m \in Matches : \A p \in Uncovers : p[2] # m} :
        /\ \A p \in Within : p[1] \in T => p[2] \in T
        /\ \A b \in Backs : b[2] \in T => b[1] \in T}

(* Category names: the three the handler knows, and any other string.       *)
CategoryNames == {"pii", "secrets", "injection", "unknown"}

VARIABLES
    body,      \* what the client sent, as far as decoding can tell
    cats,      \* categories to run, in order
    asked,     \* categories of the request, before the default
    original,  \* the text of the request
    text,      \* matches left in the redacted text
    cat,       \* index in cats of the category being run
    rule,      \* index in Catalog of the next rule of a scan
    findings,  \* findings so far
    reported,  \* the places they were found at
    degraded,  \* the response's degraded list
    answered,  \* how often the classifier gave a verdict
    at,        \* index of the finding a loop over the findings has come to
    action,    \* the verdict so far
    lists,     \* the event's lists so far
    pc,        \* where the handler is
    response,  \* the response, once written
    events     \* the events handed to Emit

inputVars == <<body, asked, original>>
scanVars  == <<cats, cat, rule, text, findings, reported, degraded, answered>>
endVars   == <<at, action, lists>>
vars == <<inputVars, scanVars, endVars, pc, response, events>>

NoLists == [categories |-> <<>>, rules |-> <<>>, pairs |-> <<>>]

NoResponse == [status |-> 0, action |-> "none", allowed |-> FALSE]

Init ==
    /\ body \in {"unreadable", "invalidJson", "emptyText", "ok"}
    /\ asked \in UNION {[1..n -> CategoryNames] : n \in 0..MaxCategories}
    /\ original \in Texts
    /\ body # "ok" => asked = <<>> /\ original = {}
    /\ text = original
    /\ cats = <<>>
    /\ cat = 1
    /\ rule = 1
    /\ findings = <<>>
    /\ reported = {}
    /\ degraded = <<>>
    /\ answered = 0
    /\ at = 1
    /\ action = "allow"
    /\ lists = NoLists
    /\ pc = "decode"
    /\ response = NoResponse
    /\ events = <<>>

-----------------------------------------------------------------------------
(* Decoding and the error paths.                                            *)

ErrorAction(status) == IF status >= 500 THEN "error_5xx" ELSE "error_4xx"

(* emitError and the error response that follows it.                        *)
Fail(status) ==
    /\ events' = Append(events, [action |-> ErrorAction(status), status |-> status,
                                 lists |-> NoLists])
    /\ response' = [status |-> status, action |-> "none", allowed |-> FALSE]
    /\ pc' = "done"

(* The body cannot be read or decoded, or the text is blank.                *)
DecodeFails ==
    /\ pc = "decode"
    /\ body # "ok"
    /\ Fail(400)
    /\ UNCHANGED <<inputVars, scanVars, endVars>>

Default == <<"pii", "secrets", "injection">>

Decode ==
    /\ pc = "decode"
    /\ body = "ok"
    /\ cats' = IF asked = <<>> THEN Default ELSE asked
    /\ pc' = "loop"
    /\ UNCHANGED <<inputVars, cat, rule, text, findings, reported, degraded, answered,
                   endVars, response, events>>

-----------------------------------------------------------------------------
(* The loop over the categories.                                            *)

Running(c) == pc = "loop" /\ cat <= Len(cats) /\ cats[cat] = c

NextCategory == cat' = cat + 1 /\ rule' = 1

(* Where a catalog rule matches what is left of the text.                   *)
Hits(i) == {m \in text : RuleOf[m] = Catalog[i].name}

(* Rules of a category, from the current one on, that match.                *)
Pending(c) == {i \in rule..Len(Catalog) : Catalog[i].category = c /\ Hits(i) # {}}

Finding(i) == [category |-> Catalog[i].category, rule |-> Catalog[i].name,
               severity |-> Catalog[i].severity]

(* Once R is replaced, no number that a place backs is whole.               *)
NumberHit(w, R) ==
    \A b \in Backs : b[1] = w /\ b[2] \in original =>
        \E n \in reported \cup R : <<b[2], n>> \in Overlaps

(* Places of the text that share characters with one of R and may be        *)
(* destroyed with it, that lie inside one of R, and that R undoes from the  *)
(* outside; and places that R uncovers.                                     *)
Touched(R) == {m \in text \ R : NumberHit(m, R) /\ \E n \in R : <<m, n>> \in Overlaps}

Inside(R) == {m \in text \ R : \E n \in R : <<m, n>> \in Within \cup Backs}

Undone(R) == {m \in text \ R : \E n \in R : <<n, m>> \in Unmatches}

Bared(R) == {m \in Matches \ (reported \cup R) : \E n \in R : <<n, m>> \in Uncovers}

(* Variant of Remainders: only one match of a rule is replaced.             *)
RemaindersFirst(R) ==
    LET first == {CHOOSE m \in R : TRUE}
    IN  {(text \ (first \cup Inside(first) \cup Undone(first) \cup D)) \cup Bared(first) :
            D \in SUBSET Touched(first)}

(* Variant of Remainders: phone_intl starts with a \b too, so that what     *)
(* undoes a number for the one rule undoes it for the other.                *)
RemaindersAnchored(R) ==
    LET backing == {b[1] : b \in {c \in Backs : c[2] \in Undone(R)}}
    IN  {(text \ (R \cup Inside(R) \cup Undone(R) \cup backing \cup D)) \cup Bared(R) :
            D \in SUBSET Touched(R)}

(* What may be left after the places R are replaced.                        *)
Remainders(R) ==
    {(text \ (R \cup Inside(R) \cup Undone(R) \cup D)) \cup Bared(R) : D \in SUBSET Touched(R)}

(* scanCategory: the next rule with matches reports them all, one finding   *)
(* each, and replaces them.                                                 *)
ScanRule(c) ==
    /\ Running(c)
    /\ \E i \in Pending(c) :
       /\ \A j \in Pending(c) : i <= j
       /\ findings' = findings \o [n \in 1..Cardinality(Hits(i)) |-> Finding(i)]
       /\ reported' = reported \cup Hits(i)
       /\ text' \in Remainders(Hits(i))
       /\ rule' = i + 1
    /\ UNCHANGED <<inputVars, cats, cat, degraded, answered, endVars, pc, response, events>>

ScanDone(c) ==
    /\ Running(c)
    /\ Pending(c) = {}
    /\ NextCategory
    /\ UNCHANGED <<inputVars, cats, text, findings, reported, degraded, answered,
                   endVars, pc, response, events>>

(* detectInjection answers: nothing, or one finding by the score.           *)
InjectionAnswers ==
    /\ Running("injection")
    /\ \E fs \in {<<>>} \cup {<<[category |-> "injection", rule |-> "ml_injection_classifier",
                                 severity |-> s]>> : s \in {"medium", "high"}} :
          findings' = findings \o fs
    /\ answered' = answered + 1
    /\ NextCategory
    /\ UNCHANGED <<inputVars, cats, text, reported, degraded, endVars, pc, response, events>>

(* Variant of InjectionFails: the error is logged only.                     *)
InjectionFailsSilently ==
    /\ Running("injection")
    /\ NextCategory
    /\ UNCHANGED <<inputVars, cats, text, findings, reported, degraded, answered,
                   endVars, pc, response, events>>

(* detectInjection fails (timeout, transport, status, decoding): fail open, *)
(* and say so.                                                              *)
InjectionFails ==
    /\ Running("injection")
    /\ degraded' = Append(degraded, "injection")
    /\ NextCategory
    /\ UNCHANGED <<inputVars, cats, text, findings, reported, answered, endVars, pc,
                   response, events>>

(* The switch has no case for the name.                                     *)
SkipUnknown ==
    /\ Running("unknown")
    /\ NextCategory
    /\ UNCHANGED <<inputVars, cats, text, findings, reported, degraded, answered,
                   endVars, pc, response, events>>

-----------------------------------------------------------------------------
(* The verdict, the response, the event.                                    *)

(* Variant of Judged: the break has slipped out of its branch.              *)
JudgedEarly == action # "allow" \/ at > Len(findings)

(* The verdict loop has ended.                                              *)
Judged == action = "block" \/ at > Len(findings)

(* One turn of the verdict loop.                                            *)
Judge ==
    LET f == findings[at] IN
    /\ pc = "loop" /\ cat > Len(cats) /\ ~Judged
    /\ action' = IF f.severity = "high" THEN "block"
                 ELSE IF f.category \in {"pii", "secrets"} /\ action = "allow" THEN "redact"
                 ELSE action
    /\ at' = at + 1
    /\ UNCHANGED <<inputVars, scanVars, lists, pc, response, events>>

(* The response is encoded and written.                                     *)
Respond ==
    /\ pc = "loop" /\ cat > Len(cats) /\ Judged
    /\ response' = [status |-> 200, action |-> action, allowed |-> action # "block"]
    /\ pc' = "emit"
    /\ at' = 1
    /\ UNCHANGED <<inputVars, scanVars, action, lists, events>>

(* Variant of EncodeFails: the return after the error response is missing.  *)
EncodeFailsGoesOn ==
    /\ pc = "loop" /\ cat > Len(cats) /\ Judged
    /\ events' = Append(events, [action |-> ErrorAction(500), status |-> 500,
                                 lists |-> NoLists])
    /\ response' = [status |-> 500, action |-> "none", allowed |-> FALSE]
    /\ pc' = "emit"
    /\ UNCHANGED <<inputVars, scanVars, endVars>>

(* The response cannot be encoded.                                          *)
EncodeFails ==
    /\ pc = "loop" /\ cat > Len(cats) /\ Judged
    /\ Fail(500)
    /\ UNCHANGED <<inputVars, scanVars, endVars>>

(* Append what is not there yet.                                            *)
AppendNew(s, x) == IF x \in ToSet(s) THEN s ELSE Append(s, x)

(* Variant of AppendPair: deduplicated on the category.                     *)
AppendPairByCategory(s, f) ==
    IF \E k \in DOMAIN s : s[k][2] = f.category THEN s ELSE Append(s, <<f.rule, f.category>>)

AppendPair(s, f) ==
    IF \E k \in DOMAIN s : s[k][1] = f.rule THEN s ELSE Append(s, <<f.rule, f.category>>)

(* One turn of the loops of findingCategories, findingRules, findingPairs.  *)
ListFinding ==
    LET f == findings[at] IN
    /\ pc = "emit" /\ at <= Len(findings)
    /\ lists' = [categories |-> AppendNew(lists.categories, f.category),
                 rules |-> AppendNew(lists.rules, f.rule),
                 pairs |-> AppendPair(lists.pairs, f)]
    /\ at' = at + 1
    /\ UNCHANGED <<inputVars, scanVars, action, pc, response, events>>

(* Emit, after the response has been written.                               *)
EmitEvent ==
    /\ pc = "emit" /\ at > Len(findings)
    /\ events' = Append(events, [action |-> action, status |-> 200, lists |-> lists])
    /\ pc' = "done"
    /\ UNCHANGED <<inputVars, scanVars, endVars, response>>

Done == pc = "done" /\ UNCHANGED vars

-----------------------------------------------------------------------------

Next ==
    \/ DecodeFails \/ Decode
    \/ \E c \in {"pii", "secrets"} : ScanRule(c) \/ ScanDone(c)
    \/ InjectionAnswers \/ InjectionFails \/ SkipUnknown
    \/ Judge \/ Respond \/ EncodeFails \/ ListFinding \/ EmitEvent
    \/ Done

Spec == Init /\ [][Next]_vars

-----------------------------------------------------------------------------
(* Properties.                                                              *)

Severities == {"medium", "high"}

(* Shapes of the state.  The handler hands over at most one event.          *)
TypeOK ==
    /\ text \subseteq Matches
    /\ reported \subseteq Matches
    /\ cat \in 1..(Len(cats) + 1)
    /\ rule \in 1..(Len(Catalog) + 1)
    /\ \A i \in DOMAIN findings : findings[i].severity \in Severities
    /\ answered + Len(degraded) <= Len(cats)
    /\ at \in 1..(Len(findings) + 1)
    /\ action \in {"allow", "redact", "block"}
    /\ pc \in {"decode", "loop", "emit", "done"}
    /\ response.status \in {0, 200, 400, 500}
    /\ Len(events) <= 1

Asked(c) == \E i \in DOMAIN cats : cats[i] = c

(* Every place where a rule of a requested category matched the original    *)
(* text is reported, or overlaps one that is: the order in which rules      *)
(* redact each other's text cannot make the handler overlook a place, not   *)
(* even a +33 number that phone_fr no longer matches because the text in    *)
(* front of it has been replaced.                                           *)
NoMatchOverlooked ==
    response.status = 200 =>
        \A m \in original, i \in DOMAIN Catalog :
            RuleOf[m] = Catalog[i].name /\ Asked(Catalog[i].category) =>
                \E n \in reported : n = m \/ <<m, n>> \in Overlaps

(* The redacted text keeps nothing it was searched for: whatever the order  *)
(* of categories and rules, no place of the original text where a rule of a *)
(* requested category matched, and no place that was reported, is left in   *)
(* it.  Only a match that a later replacement uncovered can remain.         *)
RedactionComplete ==
    response.status = 200 =>
        /\ reported \cap text = {}
        /\ \A m \in original \cap text, i \in DOMAIN Catalog :
              RuleOf[m] = Catalog[i].name => ~Asked(Catalog[i].category)

(* The verdict is the worst of the findings, in whatever order they came:   *)
(* any high finding blocks; else any pii or secrets finding redacts; a      *)
(* medium injection finding alone allows.                                   *)
VerdictIsWorst ==
    LET some(P(_)) == \E i \in DOMAIN findings : P(findings[i])
        high(f)    == f.severity = "high"
        regex(f)   == f.category \in {"pii", "secrets"}
    IN
    response.status = 200 =>
        /\ response.action = "block" <=> some(high)
        /\ response.action = "redact" <=> ~some(high) /\ some(regex)
        /\ response.allowed <=> ~some(high)

(* The classifier fails open visibly: each time injection was asked for, it *)
(* either answered or is named in the response's degraded list.             *)
FailOpenIsVisible ==
    response.status = 200 =>
        Cardinality({i \in DOMAIN cats : cats[i] = "injection"}) = answered + Len(degraded)

(* Every answered request has exactly one event, with the response's status *)
(* and action; each rule of the findings is in it once, paired with its own *)
(* category; error events carry none.                                       *)
EventMatchesResponse ==
    pc = "done" =>
        LET e == events[1]
            l == e.lists
            found == {<<findings[i].rule, findings[i].category>> : i \in DOMAIN findings}
        IN
        /\ Len(events) = 1
        /\ e.status = response.status
        /\ e.status = 200 =>
              /\ e.action = response.action
              /\ ToSet(l.pairs) = found /\ Len(l.pairs) = Cardinality(found)
              /\ l.rules = [i \in DOMAIN l.pairs |-> l.pairs[i][1]]
              /\ ToSet(l.categories) = {p[2] : p \in found}
        /\ e.status # 200 => e.action \in {"error_4xx", "error_5xx"} /\ l = NoLists

(* "we want sk-/ghp- patterns redacted before the PII pass starts"          *)
(* (config/rules.go): with both categories run, no place where a secret     *)
(* matched is lost to a pii rule.  The code does not guarantee this: passes *)
(* follow the order of the categories, and the default puts pii first.      *)
CategoryOf(m) ==
    Catalog[CHOOSE i \in DOMAIN Catalog : Catalog[i].name = RuleOf[m]].category

SecretsBeforePii ==
    response.status = 200 /\ asked = <<>> =>
        \A m \in original :
            CategoryOf(m) = "secrets" =>
                \E n \in reported :
                    CategoryOf(n) = "secrets" /\ (n = m \/ <<m, n>> \in Overlaps)

(* "Empty / omitted means every requested category ran successfully"        *)
(* (CheckResponse.Degraded): the code does not guarantee this for a         *)
(* category name it does not know.                                          *)
EmptyDegradedMeansAllRan ==
    response.status = 200 /\ degraded = <<>> =>
        \A i \in DOMAIN cats : cats[i] \in {"pii", "secrets", "injection"}
=============================================================================
