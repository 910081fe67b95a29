------------------------- MODULE CheckVerdictProofs -------------------------
(***************************************************************************)
(* Proofs about CheckVerdict, for any finite set of places, any overlaps,  *)
(* nesting, uncovering and un-matching between them that the patterns      *)
(* allow, and category lists of any length.                                *)
(***************************************************************************)
EXTENDS CheckVerdict, FiniteSetTheorems, FunctionTheorems, SequenceTheorems,
        TLAPS

-----------------------------------------------------------------------------
(* The inductive invariant.                                                 *)

(* The findings the handler can make.                                       *)
InjectionFinding(s) ==
    [category |-> "injection", rule |-> "ml_injection_classifier", severity |-> s]

FindingSet ==
    {Finding(i) : i \in DOMAIN Catalog} \cup {InjectionFinding(s) : s \in Severities}

RulesFound == {f.rule : f \in FindingSet}

CategoriesFound == {"pii", "secrets", "injection"}

(* Types of all variables.                                                  *)
Shape ==
    /\ asked \in Seq(CategoryNames) /\ cats \in Seq(CategoryNames)
    /\ original \in Texts /\ text \subseteq Matches /\ reported \subseteq Matches
    /\ cat \in 1..(Len(cats) + 1) /\ rule \in 1..(Len(Catalog) + 1)
    /\ findings \in Seq(FindingSet)
    /\ degraded \in Seq({"injection"}) /\ answered \in Nat
    /\ at \in 1..(Len(findings) + 1) /\ action \in {"allow", "redact", "block"}
    /\ lists \in [categories : Seq(CategoriesFound), rules : Seq(RulesFound),
                 pairs : Seq(RulesFound \X CategoriesFound)]
    /\ pc \in {"decode", "loop", "emit", "done"}

(* What the program counter says about the rest.                            *)
Phases ==
    /\ pc = "decode" => cats = <<>> /\ rule = 1
    /\ pc \in {"decode", "loop"} => response = NoResponse /\ lists = NoLists
    /\ pc = "decode" \/ (pc = "loop" /\ cat <= Len(cats)) => at = 1 /\ action = "allow"
    /\ pc = "emit" => response = [status |-> 200, action |-> action, allowed |-> action # "block"]
    /\ pc # "done" => events = <<>>
    /\ response.status = 200 => cat = Len(cats) + 1
    /\ response.status \in {0, 200, 400, 500}

(* A place was reported, or shares characters with one that was.            *)
Found(m) == \E n \in reported : n = m \/ <<m, n>> \in Overlaps

(* A place of the original text is still there, or reported, or destroyed   *)
(* by a replacement that overlapped it, or is one a neighbour may undo; and *)
(* what backs such a place is still there until the place is found.         *)
Covered ==
    /\ \A m \in original : m \in text \/ Found(m) \/ \E p \in Unmatches : p[2] = m
    /\ \A b \in Backs : b[2] \in original => b[1] \in text \/ Found(b[2])

(* What was replaced does not come back.                                    *)
Replaced == reported \cap text = {}

(* A place of the original text that is still there is not one the finished *)
(* categories, or the finished rules of the current one, look for.          *)
Scanned ==
    \A m \in original \cap text, i \in DOMAIN Catalog :
        RuleOf[m] = Catalog[i].name =>
            /\ \A k \in 1..(cat - 1) : cats[k] # Catalog[i].category
            /\ cat <= Len(cats) /\ cats[cat] = Catalog[i].category => rule <= i

(* The classifier's turns so far are accounted for.                         *)
Turns(n) == {i \in 1..n : cats[i] = "injection"}

Accounted == answered + Len(degraded) = Cardinality(Turns(cat - 1))

(* The verdict so far is that of the findings so far.                       *)
High(f) == f.severity = "high"

Regex(f) == f.category \in {"pii", "secrets"}

Weighed ==
    pc \in {"decode", "loop"} =>
        /\ action = "block" => \E i \in DOMAIN findings : High(findings[i])
        /\ action = "redact" => \E i \in DOMAIN findings : Regex(findings[i])
        /\ action # "block" => \A i \in 1..(at - 1) : ~High(findings[i])
        /\ action = "allow" => \A i \in 1..(at - 1) : ~Regex(findings[i])

(* The lists so far are those of the findings so far, each rule once.       *)
Listed ==
    pc = "emit" =>
        /\ ToSet(lists.pairs) = {<<findings[i].rule, findings[i].category>> : i \in 1..(at - 1)}
        /\ \A j, k \in DOMAIN lists.pairs : lists.pairs[j][1] = lists.pairs[k][1] => j = k
        /\ Len(lists.rules) = Len(lists.pairs)
        /\ \A j \in DOMAIN lists.rules : lists.rules[j] = lists.pairs[j][1]
        /\ ToSet(lists.categories) = {findings[i].category : i \in 1..(at - 1)}

Inv == /\ Shape /\ Phases /\ Covered /\ Replaced /\ Scanned /\ Accounted
       /\ Weighed /\ Listed /\ VerdictIsWorst /\ EventMatchesResponse

-----------------------------------------------------------------------------
(* The catalog and the findings.                                            *)

LEMMA CatalogLength == DOMAIN Catalog = 1..13 /\ Len(Catalog) = 13
<1>1. DOMAIN Catalog = 1..13
  BY DEF Catalog
<1>2. Len(Catalog) = 13
  BY DEF Catalog
<1> QED
  BY <1>1, <1>2

LEMMA CatalogIndex == \A i \in DOMAIN Catalog : i \in Nat /\ i >= 1
  BY CatalogLength

LEMMA CatalogFacts ==
    \A i \in DOMAIN Catalog : /\ Catalog[i].category \in {"pii", "secrets"}
                              /\ Catalog[i].severity \in Severities
                              /\ Catalog[i].name # "ml_injection_classifier"
<1>1. DOMAIN Catalog = 1..13
  BY CatalogLength
<1>3. ASSUME NEW i \in 1..13 PROVE Catalog[i].category \in {"pii", "secrets"}
  BY DEF Catalog, Rule
<1>4. ASSUME NEW i \in 1..13 PROVE Catalog[i].severity \in Severities
  BY DEF Catalog, Rule, Severities
<1>5. ASSUME NEW i \in 1..13 PROVE Catalog[i].name # "ml_injection_classifier"
  BY DEF Catalog, Rule
<1> QED
  BY <1>1, <1>3, <1>4, <1>5

(* A rule name has one category.                                            *)
LEMMA CatalogNames ==
    \A i, j \in DOMAIN Catalog :
        Catalog[i].name = Catalog[j].name => Catalog[i].category = Catalog[j].category
  BY DEF Catalog, Rule

(* Both phone rules are of the pii category.                                *)
LEMMA PhoneRules ==
    /\ \A i \in DOMAIN Catalog : Catalog[i].name = "phone_fr" => Catalog[i].category = "pii"
    /\ \E j \in DOMAIN Catalog : Catalog[j].name = "phone_intl" /\ Catalog[j].category = "pii"
<1>1. 13 \in DOMAIN Catalog /\ 12 \in DOMAIN Catalog
  BY CatalogLength
<1>2. Catalog[13].name = "phone_intl" /\ Catalog[13].category = "pii"
  BY DEF Catalog, Rule
<1>3. Catalog[12].name = "phone_fr" /\ Catalog[12].category = "pii"
  BY DEF Catalog, Rule
<1> QED
  BY <1>1, <1>2, <1>3, CatalogNames

LEMMA FindingFacts ==
    ASSUME NEW f \in FindingSet
    PROVE  /\ f.category \in CategoriesFound
           /\ f.rule \in RulesFound
           /\ f.severity \in Severities
<1>1. f.rule \in RulesFound
  BY DEF RulesFound
<1>2. CASE f \in {InjectionFinding(s) : s \in Severities}
  BY <1>1, <1>2 DEF InjectionFinding, CategoriesFound
<1>3. CASE f \in {Finding(i) : i \in DOMAIN Catalog}
  BY <1>1, <1>3, CatalogFacts DEF Finding, CategoriesFound
<1> QED
  BY <1>2, <1>3 DEF FindingSet

LEMMA RuleFixesCategory ==
    ASSUME NEW f \in FindingSet, NEW g \in FindingSet, f.rule = g.rule
    PROVE  f.category = g.category
<1>1. CASE f \in {InjectionFinding(s) : s \in Severities} \/ g \in {InjectionFinding(s) : s \in Severities}
  BY <1>1, CatalogFacts DEF FindingSet, Finding, InjectionFinding
<1>2. CASE f \in {Finding(i) : i \in DOMAIN Catalog} /\ g \in {Finding(i) : i \in DOMAIN Catalog}
  BY <1>2, CatalogNames DEF Finding
<1> QED
  BY <1>1, <1>2 DEF FindingSet

-----------------------------------------------------------------------------
(* How often it was the classifier's turn.                                  *)

LEMMA TurnsBound ==
    ASSUME NEW n \in Nat
    PROVE  IsFiniteSet(Turns(n)) /\ Cardinality(Turns(n)) \in 0..n
<1>1. IsFiniteSet(1..n) /\ Cardinality(1..n) = n
  BY FS_Interval
<1>2. Turns(n) \subseteq 1..n
  BY DEF Turns
<1>3. IsFiniteSet(Turns(n)) /\ Cardinality(Turns(n)) <= n
  BY <1>1, <1>2, FS_Subset
<1> QED
  BY <1>3, FS_CardinalityType

LEMMA TurnsNext ==
    ASSUME NEW n \in Nat
    PROVE  /\ cats[n + 1] = "injection" => Cardinality(Turns(n + 1)) = Cardinality(Turns(n)) + 1
           /\ cats[n + 1] # "injection" => Cardinality(Turns(n + 1)) = Cardinality(Turns(n))
<1>1. IsFiniteSet(Turns(n))
  BY TurnsBound
<1>4. n + 1 \notin Turns(n)
  BY DEF Turns
<1>2. ASSUME cats[n + 1] = "injection" PROVE Turns(n + 1) = Turns(n) \cup {n + 1}
  BY <1>2 DEF Turns
<1>3. ASSUME cats[n + 1] # "injection" PROVE Turns(n + 1) = Turns(n)
  BY <1>3 DEF Turns
<1> QED
  BY <1>1, <1>2, <1>3, <1>4, FS_AddElement

-----------------------------------------------------------------------------
(* Steps of the loop over the categories.                                   *)

(* What they leave alone, and what follows from it.                         *)
LEMMA LoopFrame ==
    ASSUME Inv, pc = "loop", cat <= Len(cats),
           UNCHANGED <<inputVars, cats, endVars, pc, response, events>>,
           cat' \in 1..(Len(cats) + 1), rule' \in 1..(Len(Catalog) + 1),
           text' \subseteq Matches, reported' \subseteq Matches,
           findings' \in Seq(FindingSet),
           degraded' \in Seq({"injection"}), answered' \in Nat
    PROVE  Shape' /\ Phases' /\ Weighed' /\ Listed' /\ VerdictIsWorst' /\ EventMatchesResponse'
<1>1. UNCHANGED <<asked, original, cats, at, action, lists, pc, response, events>>
  BY DEF inputVars, endVars
<1>2. at = 1 /\ action = "allow" /\ response = NoResponse /\ lists = NoLists
  BY DEF Inv, Phases
<1>3. Len(findings') \in Nat
  BY LenProperties
<1>4. Shape'
  <2>1. at' \in 1..(Len(findings') + 1)
    BY <1>1, <1>2, <1>3
  <2>2. /\ asked' \in Seq(CategoryNames) /\ cats' \in Seq(CategoryNames)
        /\ original' \in Texts /\ pc' \in {"decode", "loop", "emit", "done"}
        /\ action' \in {"allow", "redact", "block"}
        /\ lists' \in [categories : Seq(CategoriesFound), rules : Seq(RulesFound),
                        pairs : Seq(RulesFound \X CategoriesFound)]
    BY <1>1 DEF Inv, Shape
  <2>3. cat' \in 1..(Len(cats') + 1)
    BY <1>1
  <2> QED
    BY <2>1, <2>2, <2>3 DEF Shape
<1>5. Phases'
  BY <1>1, <1>2 DEF Inv, Phases, NoResponse
<1>6. Weighed' /\ Listed'
  BY <1>1, <1>2 DEF Weighed, Listed
<1>7. VerdictIsWorst' /\ EventMatchesResponse'
  BY <1>1, <1>2 DEF VerdictIsWorst, EventMatchesResponse, NoResponse
<1> QED
  BY <1>4, <1>5, <1>6, <1>7

(* The end of a category: nothing it looks for is left of the original.     *)
LEMMA CategoryDone ==
    ASSUME Inv, pc = "loop", cat <= Len(cats), NextCategory,
           UNCHANGED <<inputVars, cats, text, reported, endVars, pc, response, events>>,
           findings' \in Seq(FindingSet),
           degraded' \in Seq({"injection"}), answered' \in Nat,
           answered' + Len(degraded') =
              answered + Len(degraded) + (IF cats[cat] = "injection" THEN 1 ELSE 0),
           \A m \in original \cap text, i \in DOMAIN Catalog :
              RuleOf[m] = Catalog[i].name => cats[cat] # Catalog[i].category
    PROVE  Inv'
<1>1. /\ cat \in Nat /\ cat >= 1 /\ cat' = cat + 1 /\ rule' = 1
      /\ cats \in Seq(CategoryNames) /\ Len(cats) \in Nat
  BY LenProperties DEF Inv, Shape, NextCategory
<1>2. UNCHANGED <<original, cats, text, reported>>
  BY DEF inputVars
<1>3. /\ Shape' /\ Phases' /\ Weighed' /\ Listed' /\ VerdictIsWorst' /\ EventMatchesResponse'
  <2>1. cat' \in 1..(Len(cats) + 1)
    BY <1>1
  <2>2. rule' \in 1..(Len(Catalog) + 1)
    BY <1>1, CatalogLength
  <2>3. text' \subseteq Matches /\ reported' \subseteq Matches
    BY <1>2 DEF Inv, Shape
  <2> QED
    BY <2>1, <2>2, <2>3, LoopFrame
<1>4. Covered' /\ Replaced'
  BY <1>2 DEF Inv, Covered, Found, Replaced
<1>5. Scanned'
  <2> SUFFICES ASSUME NEW m \in original \cap text, NEW i \in DOMAIN Catalog,
                      RuleOf[m] = Catalog[i].name
               PROVE  /\ \A k \in 1..(cat' - 1) : cats[k] # Catalog[i].category
                      /\ rule' <= i
    BY <1>2 DEF Scanned
  <2>1. \A k \in 1..(cat - 1) : cats[k] # Catalog[i].category
    BY DEF Inv, Scanned
  <2>2. i \in Nat /\ i >= 1
    BY CatalogIndex
  <2>3. cats[cat] # Catalog[i].category
    OBVIOUS
  <2>4. \A k \in 1..(cat' - 1) : k \in 1..(cat - 1) \/ k = cat
    BY <1>1
  <2>5. rule' <= i
    BY <1>1, <2>2
  <2> QED
    BY <2>1, <2>3, <2>4, <2>5
<1>6. Accounted'
  <2>1. answered + Len(degraded) = Cardinality(Turns(cat - 1))
    BY DEF Inv, Accounted
  <2>2. Cardinality(Turns(cat - 1)) \in Nat /\ cat - 1 \in Nat
    <3>1. cat - 1 \in Nat
      BY <1>1
    <3>2. Cardinality(Turns(cat - 1)) \in 0..(cat - 1)
      BY <3>1, TurnsBound
    <3> QED
      BY <3>1, <3>2
  <2>3. /\ cats[cat] = "injection" => Cardinality(Turns(cat)) = Cardinality(Turns(cat - 1)) + 1
        /\ cats[cat] # "injection" => Cardinality(Turns(cat)) = Cardinality(Turns(cat - 1))
    <3>1. cat - 1 + 1 = cat
      BY <1>1
    <3> QED
      BY <2>2, <3>1, TurnsNext
  <2>4. answered' + Len(degraded') = Cardinality(Turns(cat))
    BY <2>1, <2>2, <2>3
  <2>5. cat' - 1 = cat
    BY <1>1
  <2> QED
    BY <1>2, <2>4, <2>5 DEF Accounted, Turns
<1> QED
  BY <1>3, <1>4, <1>5, <1>6 DEF Inv

LEMMA RunningFacts ==
    ASSUME NEW c, Running(c)
    PROVE  pc = "loop" /\ cat <= Len(cats) /\ cats[cat] = c
  BY DEF Running

LEMMA ScanDoneInv ==
    ASSUME Inv, NEW c \in {"pii", "secrets"}, ScanDone(c)
    PROVE  Inv'
<1>1. pc = "loop" /\ cat <= Len(cats) /\ cats[cat] = c
  BY RunningFacts DEF ScanDone
<1>2. /\ findings' \in Seq(FindingSet) /\ degraded' \in Seq({"injection"}) /\ answered' \in Nat
      /\ UNCHANGED <<findings, degraded, answered>>
  BY DEF ScanDone, Inv, Shape
<1>3. answered' + Len(degraded') =
         answered + Len(degraded) + (IF cats[cat] = "injection" THEN 1 ELSE 0)
  <2>1. Len(degraded) \in Nat
    BY LenProperties DEF Inv, Shape
  <2> QED
    BY <1>1, <1>2, <2>1
<1>4. ASSUME NEW m \in original \cap text, NEW i \in DOMAIN Catalog,
             RuleOf[m] = Catalog[i].name, Catalog[i].category = c
      PROVE  FALSE
  <2>1. rule <= i
    BY <1>1, <1>4 DEF Inv, Scanned
  <2>2. i \in rule..Len(Catalog)
    <3>1. i \in 1..13 /\ Len(Catalog) = 13 /\ rule \in 1..(Len(Catalog) + 1)
      BY CatalogLength DEF Inv, Shape
    <3> QED
      BY <2>1, <3>1
  <2>3. m \in Hits(i)
    BY <1>4 DEF Hits
  <2>4. i \in Pending(c)
    BY <1>4, <2>2, <2>3 DEF Pending
  <2> QED
    BY <2>4 DEF ScanDone
<1> QED
  BY <1>1, <1>2, <1>3, <1>4, CategoryDone DEF ScanDone

LEMMA InjectionAnswersInv == ASSUME Inv, InjectionAnswers PROVE Inv'
<1>1. pc = "loop" /\ cat <= Len(cats) /\ cats[cat] = "injection"
  BY RunningFacts DEF InjectionAnswers
<1>2. PICK fs \in {<<>>} \cup {<<InjectionFinding(s)>> : s \in Severities} :
         findings' = findings \o fs
  BY DEF InjectionAnswers, InjectionFinding, Severities
<1>3. fs \in Seq(FindingSet)
  <2>1. ASSUME NEW s \in Severities PROVE <<InjectionFinding(s)>> \in Seq(FindingSet)
    <3>1. InjectionFinding(s) \in FindingSet
      BY DEF FindingSet
    <3> QED
      BY <3>1
  <2> QED
    BY <1>2, <2>1, EmptySeq
<1>4. findings' \in Seq(FindingSet) /\ degraded' \in Seq({"injection"}) /\ UNCHANGED degraded
  <2>1. findings \in Seq(FindingSet) /\ degraded \in Seq({"injection"})
    BY DEF Inv, Shape
  <2>2. findings \o fs \in Seq(FindingSet)
    BY <1>3, <2>1, ConcatProperties
  <2> QED
    BY <1>2, <2>1, <2>2 DEF InjectionAnswers
<1>5. /\ answered' \in Nat
      /\ answered' + Len(degraded') = answered + Len(degraded) + 1
  <2>1. Len(degraded) \in Nat /\ answered \in Nat /\ answered' = answered + 1
    BY LenProperties DEF InjectionAnswers, Inv, Shape
  <2> QED
    BY <1>4, <2>1
<1>6. \A i \in DOMAIN Catalog : Catalog[i].category # "injection"
  BY CatalogFacts
<1> QED
  BY <1>1, <1>4, <1>5, <1>6, CategoryDone DEF InjectionAnswers

LEMMA InjectionFailsInv == ASSUME Inv, InjectionFails PROVE Inv'
<1>1. pc = "loop" /\ cat <= Len(cats) /\ cats[cat] = "injection"
  BY RunningFacts DEF InjectionFails
<1>2. /\ findings' \in Seq(FindingSet) /\ degraded' \in Seq({"injection"})
      /\ answered' \in Nat /\ UNCHANGED answered
      /\ Len(degraded') = Len(degraded) + 1
  BY AppendProperties DEF InjectionFails, Inv, Shape
<1>3. answered' + Len(degraded') = answered + Len(degraded) + 1
  <2>1. Len(degraded) \in Nat
    BY LenProperties DEF Inv, Shape
  <2> QED
    BY <1>2, <2>1
<1>4. \A i \in DOMAIN Catalog : Catalog[i].category # "injection"
  BY CatalogFacts
<1> QED
  BY <1>1, <1>2, <1>3, <1>4, CategoryDone DEF InjectionFails

LEMMA SkipUnknownInv == ASSUME Inv, SkipUnknown PROVE Inv'
<1>1. pc = "loop" /\ cat <= Len(cats) /\ cats[cat] = "unknown"
  BY RunningFacts DEF SkipUnknown
<1>2. /\ findings' \in Seq(FindingSet) /\ degraded' \in Seq({"injection"})
      /\ answered' \in Nat /\ UNCHANGED <<findings, degraded, answered>>
  BY DEF SkipUnknown, Inv, Shape
<1>3. answered' + Len(degraded') = answered + Len(degraded) + 0
  <2>1. Len(degraded) \in Nat
    BY LenProperties DEF Inv, Shape
  <2> QED
    BY <1>2, <2>1
<1>4. \A i \in DOMAIN Catalog : Catalog[i].category # "unknown"
  BY CatalogFacts
<1> QED
  BY <1>1, <1>2, <1>3, <1>4, CategoryDone DEF SkipUnknown

(* A rule that matches: its places are reported and replaced.               *)
(* What backs a number is lost only with the number, or with a part of it.  *)
LEMMA BackLost ==
    ASSUME Covered, NEW R, NEW b \in Backs, b[2] \in original,
           b[1] \notin text \ (R \cup Inside(R) \cup Undone(R) \cup Touched(R))
    PROVE  Found(b[2]) \/ b[2] \in R \/ \E n \in R : <<b[2], n>> \in Overlaps
<1>1. PICK w, m : b = <<w, m>> /\ <<m, w>> \in Overlaps
  <2>1. b \in Matches \X Matches /\ b \in Overlaps
    BY MatchesAssumption, PhonesAssumption
  <2>2. b = <<b[1], b[2]>>
    BY <2>1
  <2> QED
    BY <2>1, <2>2, MatchesAssumption
<1>2. b[1] = w /\ b[2] = m
  BY <1>1
<1>3. CASE w \notin text
  BY <1>2, <1>3 DEF Covered
<1>4. CASE w \in R
  BY <1>1, <1>2, <1>4
<1>5. CASE w \in Inside(R)
  <2>1. PICK n \in R : <<w, n>> \in Within \/ <<w, n>> \in Backs
    BY <1>5 DEF Inside
  <2>2. <<w, n>>[1] = w /\ <<w, n>>[2] = n
    OBVIOUS
  <2>3. n = m \/ <<m, n>> \in Overlaps
    BY <1>2, <2>1, <2>2, PhonesAssumption
  <2> QED
    BY <1>2, <2>3
<1>6. CASE w \in Undone(R)
  <2>1. PICK n \in R : <<n, w>> \in Unmatches
    BY <1>6 DEF Undone
  <2>2. <<n, w>>[2] = w
    OBVIOUS
  <2>3. RuleOf[w] = "phone_fr"
    BY <2>1, <2>2, PhonesAssumption
  <2>4. RuleOf[w] = "phone_intl"
    BY <1>2, PhonesAssumption
  <2> QED
    BY <2>3, <2>4
<1>7. CASE w \in Touched(R)
  <2>1. NumberHit(w, R)
    BY <1>7 DEF Touched
  <2>2. \E n \in reported \cup R : <<m, n>> \in Overlaps
    BY <1>2, <2>1 DEF NumberHit
  <2> QED
    BY <1>2, <2>2 DEF Found
<1> QED
  BY <1>2, <1>3, <1>4, <1>5, <1>6, <1>7

LEMMA ScanRuleInv ==
    ASSUME Inv, NEW c \in {"pii", "secrets"}, ScanRule(c)
    PROVE  Inv'
<1>1. pc = "loop" /\ cat <= Len(cats) /\ cats[cat] = c
  BY RunningFacts DEF ScanRule
<1>2. PICK i \in Pending(c) :
         /\ \A j \in Pending(c) : i <= j
         /\ findings' = findings \o [n \in 1..Cardinality(Hits(i)) |-> Finding(i)]
         /\ reported' = reported \cup Hits(i)
         /\ text' \in Remainders(Hits(i))
         /\ rule' = i + 1
  BY DEF ScanRule
<1>3. UNCHANGED <<original, cats, cat, degraded, answered>>
  BY DEF ScanRule, inputVars
<1> DEFINE R == Hits(i)
           bared == Bared(R)
<1>4. PICK D \in SUBSET Touched(R) :
         text' = (text \ (R \cup Inside(R) \cup Undone(R) \cup D)) \cup bared
  BY <1>2 DEF Remainders
<1>5. /\ i \in rule..Len(Catalog) /\ i \in DOMAIN Catalog /\ Catalog[i].category = c
      /\ i \in Nat /\ rule \in Nat
  <2>1. i \in rule..Len(Catalog) /\ Catalog[i].category = c
    BY DEF Pending
  <2>2. rule \in 1..(Len(Catalog) + 1) /\ Len(Catalog) = 13 /\ DOMAIN Catalog = 1..13
    BY CatalogLength DEF Inv, Shape
  <2> QED
    BY <2>1, <2>2
<1>6. /\ R \subseteq text /\ text \subseteq Matches /\ reported \subseteq Matches
      /\ original \in Texts
  BY DEF Hits, Inv, Shape
<1>7. original \cap bared = {} /\ bared \subseteq Matches \ (reported \cup R)
  BY <1>6 DEF Texts, Bared
<1>8. findings' \in Seq(FindingSet)
  <2>1. IsFiniteSet(R)
    BY <1>6, MatchesAssumption, FS_Subset
  <2>2. Cardinality(R) \in Nat
    BY <2>1, FS_CardinalityType
  <2>3. Finding(i) \in FindingSet
    BY <1>5 DEF FindingSet
  <2>4. [n \in 1..Cardinality(R) |-> Finding(i)] \in Seq(FindingSet)
    BY <2>2, <2>3
  <2>5. findings \in Seq(FindingSet)
    BY DEF Inv, Shape
  <2> QED
    BY <1>2, <2>4, <2>5, ConcatProperties
<1>9. /\ Shape' /\ Phases' /\ Weighed' /\ Listed' /\ VerdictIsWorst' /\ EventMatchesResponse'
  <2>1. cat' \in 1..(Len(cats) + 1)
    BY <1>3 DEF Inv, Shape
  <2>2. rule' \in 1..(Len(Catalog) + 1)
    <3>1. Len(Catalog) = 13 /\ i \in 1..13
      BY <1>5, CatalogLength
    <3> QED
      BY <1>2, <3>1
  <2>3. text' \subseteq Matches /\ reported' \subseteq Matches
    BY <1>2, <1>4, <1>6, <1>7
  <2>4. degraded' \in Seq({"injection"}) /\ answered' \in Nat
    BY <1>3 DEF Inv, Shape
  <2> QED
    BY <1>1, <1>8, <2>1, <2>2, <2>3, <2>4, LoopFrame DEF ScanRule
<1>10. Covered'
  <2>1. ASSUME NEW m, Found(m) PROVE Found(m)'
    BY <1>2, <2>1 DEF Found
  <2>2. ASSUME NEW m, m \in R \/ \E n \in R : <<m, n>> \in Overlaps PROVE Found(m)'
    BY <1>2, <2>2 DEF Found
  <2>3. ASSUME NEW m \in original, m \notin text'
        PROVE  Found(m)' \/ \E p \in Unmatches : p[2] = m
    <3>1. CASE m \in text
      <4>1. m \in R \/ m \in Inside(R) \/ m \in Undone(R) \/ m \in Touched(R)
        BY <1>4, <2>3, <3>1
      <4>2. Within \subseteq Overlaps /\ Backs \subseteq Overlaps
        BY MatchesAssumption, PhonesAssumption
      <4>3. CASE m \in Inside(R) \/ m \in Touched(R)
        BY <2>2, <4>2, <4>3 DEF Inside, Touched
      <4>4. CASE m \in Undone(R)
        <5>1. PICK n \in R : <<n, m>> \in Unmatches
          BY <4>4 DEF Undone
        <5>2. <<n, m>>[2] = m
          OBVIOUS
        <5> QED
          BY <5>1, <5>2
      <4> QED
        BY <2>2, <4>1, <4>3, <4>4
    <3>2. CASE m \notin text
      BY <2>1, <3>2 DEF Inv, Covered
    <3> QED
      BY <3>1, <3>2
  <2>4. ASSUME NEW b \in Backs, b[2] \in original, b[1] \notin text'
        PROVE  Found(b[2])'
    <3>1. D \subseteq Touched(R)
      OBVIOUS
    <3>2. b[1] \notin text \ (R \cup Inside(R) \cup Undone(R) \cup Touched(R))
      BY <1>4, <2>4, <3>1
    <3>3. Covered
      BY DEF Inv
    <3>4. Found(b[2]) \/ b[2] \in R \/ \E n \in R : <<b[2], n>> \in Overlaps
      <4> HIDE DEF R
      <4> QED
        BY <2>4, <3>2, <3>3, BackLost
    <3> QED
      BY <2>1, <2>2, <3>4
  <2> QED
    BY <1>3, <2>3, <2>4 DEF Covered
<1>11. Replaced'
  BY <1>2, <1>4, <1>7 DEF Inv, Replaced
<1>12. Scanned'
  <2> SUFFICES ASSUME NEW m \in original \cap text', NEW k \in DOMAIN Catalog,
                      RuleOf[m] = Catalog[k].name
               PROVE  /\ \A n \in 1..(cat - 1) : cats[n] # Catalog[k].category
                      /\ cat <= Len(cats) /\ cats[cat] = Catalog[k].category => rule' <= k
    BY <1>3 DEF Scanned
  <2>1. m \in text \ R
    BY <1>4, <1>7
  <2>2. /\ \A n \in 1..(cat - 1) : cats[n] # Catalog[k].category
        /\ cat <= Len(cats) /\ cats[cat] = Catalog[k].category => rule <= k
    BY <2>1 DEF Inv, Scanned
  <2>3. ASSUME cats[cat] = Catalog[k].category PROVE rule' <= k
    <3>1. k \in rule..Len(Catalog) /\ k \in Nat
      <4>1. rule <= k
        BY <1>1, <2>2, <2>3
      <4>2. k \in 1..13 /\ Len(Catalog) = 13
        BY CatalogLength
      <4> QED
        BY <1>5, <4>1, <4>2
    <3>2. m \in Hits(k)
      BY <2>1 DEF Hits
    <3>3. k \in Pending(c)
      BY <1>1, <2>3, <3>1, <3>2 DEF Pending
    <3>4. k # i
      BY <2>1, <3>2
    <3>5. i <= k
      BY <1>2, <3>3
    <3> QED
      BY <1>2, <1>5, <3>1, <3>4, <3>5
  <2> QED
    BY <2>2, <2>3
<1>13. Accounted'
  BY <1>3 DEF Inv, Accounted, Turns
<1> QED
  BY <1>9, <1>10, <1>11, <1>12, <1>13 DEF Inv

-----------------------------------------------------------------------------
(* The start, decoding and the error paths.                                 *)

LEMMA NoTurns == Turns(0) = {} /\ Cardinality(Turns(0)) = 0
<1>1. Turns(0) = {}
  BY DEF Turns
<1> QED
  BY <1>1, FS_EmptySet

LEMMA InitInv == ASSUME Init PROVE Inv
<1> USE DEF Init
<1>1. Shape
  <2>1. asked \in Seq(CategoryNames)
    <3>1. PICK n \in 0..MaxCategories : asked \in [1..n -> CategoryNames]
      OBVIOUS
    <3> QED
      BY <3>1, BoundAssumption
  <2>2. text \subseteq Matches
    BY DEF Texts
  <2>3. rule \in 1..(Len(Catalog) + 1)
    BY CatalogLength
  <2>4. lists \in [categories : Seq(CategoriesFound), rules : Seq(RulesFound),
                   pairs : Seq(RulesFound \X CategoriesFound)]
    BY EmptySeq DEF NoLists
  <2> QED
    BY <2>1, <2>2, <2>3, <2>4, EmptySeq DEF Shape
<1>2. Phases
  BY DEF Phases, NoResponse
<1>3. Covered /\ Replaced
  BY DEF Covered, Replaced, Texts
<1>4. Scanned
  BY DEF Scanned
<1>5. Accounted
  BY NoTurns DEF Accounted
<1>6. Weighed /\ Listed
  BY DEF Weighed, Listed
<1>7. VerdictIsWorst /\ EventMatchesResponse
  BY DEF VerdictIsWorst, EventMatchesResponse, NoResponse
<1> QED
  BY <1>1, <1>2, <1>3, <1>4, <1>5, <1>6, <1>7 DEF Inv

(* Steps that leave the scan alone.                                         *)
LEMMA ScanFrame ==
    ASSUME Inv, UNCHANGED <<inputVars, scanVars>>
    PROVE  Covered' /\ Replaced' /\ Scanned' /\ Accounted'
<1>1. UNCHANGED <<original, cats, cat, rule, text, reported, degraded, answered>>
  BY DEF inputVars, scanVars
<1>2. Covered' /\ Replaced'
  BY <1>1 DEF Inv, Covered, Found, Replaced
<1>3. Scanned'
  BY <1>1 DEF Inv, Scanned
<1>4. Accounted'
  BY <1>1 DEF Inv, Accounted, Turns
<1> QED
  BY <1>2, <1>3, <1>4

LEMMA DecodeInv == ASSUME Inv, Decode PROVE Inv'
<1>1. /\ pc = "decode" /\ pc' = "loop" /\ cats' = IF asked = <<>> THEN Default ELSE asked
      /\ UNCHANGED <<asked, original, cat, rule, text, findings, reported, degraded, answered,
                     at, action, lists, response, events>>
  BY DEF Decode, inputVars, endVars
<1>2. /\ cats = <<>> /\ rule = 1 /\ response = NoResponse /\ at = 1 /\ action = "allow"
      /\ lists = NoLists /\ events = <<>>
  BY <1>1 DEF Inv, Phases
<1>3. cat = 1
  BY <1>2 DEF Inv, Shape
<1>4. cats' \in Seq(CategoryNames)
  <2>1. Default \in Seq(CategoryNames)
    BY DEF Default, CategoryNames
  <2>2. asked \in Seq(CategoryNames)
    BY DEF Inv, Shape
  <2> QED
    BY <1>1, <2>1, <2>2
<1>5. Len(cats') \in Nat
  BY <1>4, LenProperties
<1>6. Shape'
  BY <1>1, <1>3, <1>4, <1>5 DEF Inv, Shape
<1>7. Phases'
  BY <1>1, <1>2 DEF Phases, NoResponse
<1>8. Covered' /\ Replaced'
  BY <1>1 DEF Inv, Covered, Found, Replaced
<1>9. Scanned'
  BY <1>1, <1>2, <1>3, CatalogLength DEF Scanned
<1>10. Accounted'
  <2>1. answered + Len(degraded) = Cardinality(Turns(0))
    BY <1>3 DEF Inv, Accounted
  <2>2. Turns(0)' = {} /\ Turns(0) = {}
    BY DEF Turns
  <2> QED
    BY <1>1, <1>3, <2>1, <2>2 DEF Accounted
<1>11. Weighed' /\ Listed'
  BY <1>1, <1>2 DEF Weighed, Listed
<1>12. VerdictIsWorst' /\ EventMatchesResponse'
  BY <1>1, <1>2 DEF VerdictIsWorst, EventMatchesResponse, NoResponse
<1> QED
  BY <1>6, <1>7, <1>8, <1>9, <1>10, <1>11, <1>12 DEF Inv

(* An error ends the request with one event and the same status.            *)
LEMMA FailInv ==
    ASSUME Inv, pc # "done", UNCHANGED <<inputVars, scanVars, endVars>>,
           NEW status \in {400, 500}, Fail(status)
    PROVE  Inv'
<1>1. /\ UNCHANGED <<asked, original, cats, cat, rule, text, findings, reported, degraded,
                     answered, at, action, lists>>
      /\ pc' = "done"
      /\ response' = [status |-> status, action |-> "none", allowed |-> FALSE]
  BY DEF inputVars, scanVars, endVars, Fail
<1>2. events' = <<[action |-> ErrorAction(status), status |-> status, lists |-> NoLists]>>
  <2>1. events = <<>>
    BY DEF Inv, Phases
  <2> QED
    BY <2>1 DEF Fail
<1>3. Covered' /\ Replaced' /\ Scanned' /\ Accounted'
  BY ScanFrame
<1>4. Shape'
  BY <1>1 DEF Inv, Shape
<1>5. Phases'
  BY <1>1 DEF Phases
<1>6. Weighed' /\ Listed'
  BY <1>1 DEF Weighed, Listed
<1>7. VerdictIsWorst'
  BY <1>1 DEF VerdictIsWorst
<1>8. EventMatchesResponse'
  BY <1>1, <1>2 DEF EventMatchesResponse, ErrorAction
<1> QED
  BY <1>3, <1>4, <1>5, <1>6, <1>7, <1>8 DEF Inv

-----------------------------------------------------------------------------
(* The verdict and the response.                                            *)

LEMMA JudgeInv == ASSUME Inv, Judge PROVE Inv'
<1> DEFINE f == findings[at]
<1>1. /\ UNCHANGED <<asked, original, cats, cat, rule, text, findings, reported, degraded,
                     answered, lists, pc, response, events>>
      /\ pc = "loop" /\ cat > Len(cats) /\ ~Judged /\ at' = at + 1
      /\ action' = IF High(f) THEN "block"
                   ELSE IF Regex(f) /\ action = "allow" THEN "redact" ELSE action
  BY DEF Judge, inputVars, scanVars, High, Regex
<1>2. /\ findings \in Seq(FindingSet) /\ Len(findings) \in Nat
      /\ DOMAIN findings = 1..Len(findings) /\ at \in 1..(Len(findings) + 1)
      /\ cat \in 1..(Len(cats) + 1) /\ Len(cats) \in Nat
  BY LenProperties DEF Inv, Shape
<1>3. action # "block" /\ at \in 1..Len(findings)
  BY <1>1, <1>2 DEF Judged
<1>4. action \in {"allow", "redact", "block"} /\ action' \in {"allow", "redact", "block"}
  BY <1>1 DEF Inv, Shape
<1>5. Shape'
  BY <1>1, <1>2, <1>3, <1>4 DEF Inv, Shape
<1>6. Phases'
  BY <1>1, <1>2 DEF Inv, Phases
<1>7. Weighed'
  <2>1. \A i \in 1..at : i \in 1..(at - 1) \/ i = at
    BY <1>3
  <2>2. /\ \A i \in 1..(at - 1) : ~High(findings[i])
        /\ action = "redact" => \E i \in DOMAIN findings : Regex(findings[i])
        /\ action = "allow" => \A i \in 1..(at - 1) : ~Regex(findings[i])
    BY <1>1, <1>3 DEF Inv, Weighed
  <2>3. at' - 1 = at
    BY <1>1, <1>3
  <2> SUFFICES /\ action' = "block" => \E i \in DOMAIN findings : High(findings[i])
               /\ action' = "redact" => \E i \in DOMAIN findings : Regex(findings[i])
               /\ action' # "block" => \A i \in 1..at : ~High(findings[i])
               /\ action' = "allow" => \A i \in 1..at : ~Regex(findings[i])
    BY <1>1, <2>3 DEF Weighed, High, Regex
  <2>4. CASE High(f)
    BY <1>1, <1>2, <1>3, <2>4
  <2>5. CASE ~High(f) /\ Regex(f)
    BY <1>1, <1>2, <1>3, <2>1, <2>2, <2>5
  <2>6. CASE ~High(f) /\ ~Regex(f)
    BY <1>1, <1>3, <2>1, <2>2, <2>6
  <2> QED
    BY <2>4, <2>5, <2>6
<1>8. Covered' /\ Replaced' /\ Scanned' /\ Accounted'
  BY ScanFrame DEF Judge
<1>9. Listed' /\ EventMatchesResponse'
  BY <1>1 DEF Listed, EventMatchesResponse
<1>10. VerdictIsWorst'
  BY <1>1 DEF Inv, Phases, NoResponse, VerdictIsWorst
<1> QED
  BY <1>5, <1>6, <1>7, <1>8, <1>9, <1>10 DEF Inv

LEMMA RespondInv == ASSUME Inv, Respond PROVE Inv'
<1>1. /\ UNCHANGED <<asked, original, cats, cat, rule, text, findings, reported, degraded,
                     answered, action, lists, events>>
      /\ pc = "loop" /\ cat > Len(cats) /\ Judged /\ pc' = "emit" /\ at' = 1
      /\ response' = [status |-> 200, action |-> action, allowed |-> action # "block"]
  BY DEF Respond, inputVars, scanVars
<1>2. /\ findings \in Seq(FindingSet) /\ Len(findings) \in Nat
      /\ DOMAIN findings = 1..Len(findings) /\ at \in 1..(Len(findings) + 1)
      /\ cat \in 1..(Len(cats) + 1) /\ Len(cats) \in Nat
      /\ action \in {"allow", "redact", "block"}
  BY LenProperties DEF Inv, Shape
<1>3. lists = NoLists /\ events = <<>>
  BY <1>1 DEF Inv, Phases
<1>4. Shape'
  BY <1>1, <1>2 DEF Inv, Shape
<1>5. Phases'
  BY <1>1, <1>2, <1>3 DEF Phases
<1>6. VerdictIsWorst'
  <2>1. action # "block" => 1..(at - 1) = DOMAIN findings
    BY <1>1, <1>2 DEF Judged
  <2>2. /\ action = "block" => \E i \in DOMAIN findings : High(findings[i])
        /\ action = "redact" => \E i \in DOMAIN findings : Regex(findings[i])
        /\ action # "block" => \A i \in DOMAIN findings : ~High(findings[i])
        /\ action = "allow" => \A i \in DOMAIN findings : ~Regex(findings[i])
    BY <1>1, <2>1 DEF Inv, Weighed
  <2>3. /\ action = "block" <=> \E i \in DOMAIN findings : High(findings[i])
        /\ action = "redact" <=> /\ ~\E i \in DOMAIN findings : High(findings[i])
                                 /\ \E i \in DOMAIN findings : Regex(findings[i])
    BY <1>2, <2>2
  <2> QED
    BY <1>1, <2>3 DEF VerdictIsWorst, High, Regex
<1>7. Listed'
  <2>1. Len(NoLists.rules) = 0 /\ Len(NoLists.pairs) = 0 /\ DOMAIN NoLists.rules = {} /\ DOMAIN NoLists.pairs = {}
        /\ ToSet(NoLists.pairs) = {} /\ ToSet(NoLists.categories) = {}
    BY DEF NoLists, ToSet
  <2>2. /\ {<<findings'[i].rule, findings'[i].category>> : i \in 1..(at' - 1)} = {}
        /\ {findings'[i].category : i \in 1..(at' - 1)} = {}
    BY <1>1
  <2> QED
    BY <1>1, <1>3, <2>1, <2>2 DEF Listed
<1>8. Covered' /\ Replaced' /\ Scanned' /\ Accounted'
  BY ScanFrame DEF Respond
<1>9. Weighed' /\ EventMatchesResponse'
  BY <1>1 DEF Weighed, EventMatchesResponse
<1> QED
  BY <1>4, <1>5, <1>6, <1>7, <1>8, <1>9 DEF Inv

-----------------------------------------------------------------------------
(* The event's lists.                                                       *)

LEMMA AppendSet ==
    ASSUME NEW S, NEW s \in Seq(S), NEW x \in S
    PROVE  ToSet(Append(s, x)) = ToSet(s) \cup {x}
<1>1. /\ Append(s, x) \in Seq(S) /\ Len(Append(s, x)) = Len(s) + 1 /\ Len(s) \in Nat
      /\ \A i \in 1..Len(s) : Append(s, x)[i] = s[i]
      /\ Append(s, x)[Len(s) + 1] = x
  BY AppendProperties, LenProperties
<1>2. DOMAIN Append(s, x) = 1..(Len(s) + 1) /\ DOMAIN s = 1..Len(s)
  BY <1>1, LenProperties
<1>3. \A i \in 1..(Len(s) + 1) : i \in 1..Len(s) \/ i = Len(s) + 1
  BY <1>1
<1>4. 1..Len(s) \subseteq 1..(Len(s) + 1) /\ Len(s) + 1 \in 1..(Len(s) + 1)
  BY <1>1
<1> QED
  BY <1>1, <1>2, <1>3, <1>4, Zenon DEF ToSet

LEMMA AppendNewSet ==
    ASSUME NEW S, NEW s \in Seq(S), NEW x \in S
    PROVE  AppendNew(s, x) \in Seq(S) /\ ToSet(AppendNew(s, x)) = ToSet(s) \cup {x}
<1>1. CASE x \in ToSet(s)
  BY <1>1 DEF AppendNew
<1>2. CASE x \notin ToSet(s)
  BY <1>2, AppendSet, AppendProperties DEF AppendNew
<1> QED
  BY <1>1, <1>2

LEMMA ListFindingInv == ASSUME Inv, ListFinding PROVE Inv'
<1>0. PICK f, categories, rules, pairs :
         /\ f = findings[at] /\ categories = lists.categories
         /\ rules = lists.rules /\ pairs = lists.pairs
  OBVIOUS
<1> DEFINE pair == <<f.rule, f.category>>
<1>1. /\ UNCHANGED <<asked, original, cats, cat, rule, text, findings, reported, degraded,
                     answered, action, pc, response, events>>
      /\ pc = "emit" /\ at <= Len(findings) /\ at' = at + 1
      /\ lists' = [categories |-> AppendNew(categories, f.category),
                   rules |-> AppendNew(rules, f.rule), pairs |-> AppendPair(pairs, f)]
  BY <1>0 DEF ListFinding, inputVars, scanVars
<1>2. /\ findings \in Seq(FindingSet) /\ Len(findings) \in Nat /\ at \in 1..Len(findings)
      /\ at \in Nat
  BY <1>1, LenProperties DEF Inv, Shape
<1>3. \A i \in 1..Len(findings) :
         /\ findings[i] \in FindingSet /\ findings[i].rule \in RulesFound
         /\ findings[i].category \in CategoriesFound
  BY <1>2, ElementOfSeq, FindingFacts
<1>4. f.rule \in RulesFound /\ f.category \in CategoriesFound /\ f \in FindingSet
  BY <1>0, <1>2, <1>3
<1>5. /\ categories \in Seq(CategoriesFound) /\ rules \in Seq(RulesFound)
      /\ pairs \in Seq(RulesFound \X CategoriesFound) /\ pair \in RulesFound \X CategoriesFound
  BY <1>0, <1>4 DEF Inv, Shape
<1>6. /\ Len(pairs) \in Nat /\ DOMAIN pairs = 1..Len(pairs) /\ DOMAIN rules = 1..Len(rules)
  BY <1>5, LenProperties
<1>7. /\ ToSet(pairs) = {<<findings[i].rule, findings[i].category>> : i \in 1..(at - 1)}
      /\ \A j, k \in DOMAIN pairs : pairs[j][1] = pairs[k][1] => j = k
      /\ Len(rules) = Len(pairs)
      /\ \A j \in DOMAIN rules : rules[j] = pairs[j][1]
      /\ ToSet(categories) = {findings[i].category : i \in 1..(at - 1)}
  BY <1>0, <1>1 DEF Inv, Listed
<1>8. /\ at' - 1 = at /\ 1..at = 1..(at - 1) \cup {at}
  BY <1>1, <1>2
<1>9. /\ AppendNew(categories, f.category) \in Seq(CategoriesFound)
      /\ ToSet(AppendNew(categories, f.category)) =
            {findings[i].category : i \in 1..at}
  <2>1. ToSet(AppendNew(categories, f.category)) = ToSet(categories) \cup {f.category}
    BY <1>4, <1>5, AppendNewSet
  <2>2. {findings[i].category : i \in 1..at} =
           {findings[i].category : i \in 1..(at - 1)} \cup {f.category}
    BY <1>0, <1>8
  <2> QED
    BY <1>4, <1>5, <1>7, <2>1, <2>2, AppendNewSet
<1>10. {<<findings[i].rule, findings[i].category>> : i \in 1..at} = ToSet(pairs) \cup {pair}
  BY <1>0, <1>7, <1>8
<1> DEFINE pairs2 == AppendPair(pairs, f)
           rules2 == AppendNew(rules, f.rule)
<1>11. /\ pairs2 \in Seq(RulesFound \X CategoriesFound)
       /\ ToSet(pairs2) = ToSet(pairs) \cup {pair}
       /\ \A j, k \in DOMAIN pairs2 : pairs2[j][1] = pairs2[k][1] => j = k
       /\ Len(rules2) = Len(pairs2)
       /\ rules2 \in Seq(RulesFound)
       /\ \A j \in DOMAIN rules2 : rules2[j] = pairs2[j][1]
  <2>1. CASE \E k \in DOMAIN pairs : pairs[k][1] = f.rule
    <3>1. PICK k \in DOMAIN pairs : pairs[k][1] = f.rule
      BY <2>1
    <3>2. pairs[k] \in ToSet(pairs)
      BY DEF ToSet
    <3>3. PICK i \in 1..(at - 1) : pairs[k] = <<findings[i].rule, findings[i].category>>
      BY <1>7, <3>2
    <3>4. findings[i] \in FindingSet /\ findings[i].rule = f.rule
      <4>1. i \in 1..Len(findings)
        BY <1>2
      <4> QED
        BY <1>3, <3>1, <3>3, <4>1
    <3>5. pair \in ToSet(pairs)
      <4>1. findings[i].category = f.category
        BY <1>4, <3>4, RuleFixesCategory
      <4> QED
        BY <3>2, <3>3, <3>4, <4>1
    <3>6. f.rule \in ToSet(rules)
      <4>1. k \in DOMAIN rules /\ rules[k] = f.rule
        BY <1>6, <1>7, <3>1
      <4> QED
        BY <4>1 DEF ToSet
    <3>7. pairs2 = pairs /\ rules2 = rules
      BY <2>1, <3>6 DEF AppendPair, AppendNew
    <3> QED
      BY <1>5, <1>7, <3>5, <3>7
  <2>2. CASE ~\E k \in DOMAIN pairs : pairs[k][1] = f.rule
    <3>1. f.rule \notin ToSet(rules)
      BY <1>6, <1>7, <2>2 DEF ToSet
    <3>2. pairs2 = Append(pairs, pair) /\ rules2 = Append(rules, f.rule)
      BY <2>2, <3>1 DEF AppendPair, AppendNew
    <3>3. /\ pairs2 \in Seq(RulesFound \X CategoriesFound)
          /\ Len(pairs2) = Len(pairs) + 1
          /\ \A j \in 1..Len(pairs) : pairs2[j] = pairs[j]
          /\ pairs2[Len(pairs) + 1] = pair
      BY <1>5, <3>2, AppendProperties
    <3>4. /\ rules2 \in Seq(RulesFound)
          /\ Len(rules2) = Len(rules) + 1
          /\ \A j \in 1..Len(rules) : rules2[j] = rules[j]
          /\ rules2[Len(rules) + 1] = f.rule
      BY <1>4, <1>5, <3>2, AppendProperties
    <3>5. DOMAIN pairs2 = 1..(Len(pairs) + 1) /\ DOMAIN rules2 = 1..(Len(pairs) + 1)
      BY <1>7, <3>3, <3>4, LenProperties
    <3>6. \A j \in 1..(Len(pairs) + 1) : j \in 1..Len(pairs) \/ j = Len(pairs) + 1
      BY <1>6
    <3>7. ToSet(pairs2) = ToSet(pairs) \cup {pair}
      <4> HIDE DEF pair, pairs2
      <4> QED
        BY <1>5, <3>2, AppendSet
    <3>8. \A j, k \in DOMAIN pairs2 : pairs2[j][1] = pairs2[k][1] => j = k
      <4> SUFFICES ASSUME NEW j \in DOMAIN pairs2, NEW k \in DOMAIN pairs2,
                          pairs2[j][1] = pairs2[k][1]
                   PROVE  j = k
        OBVIOUS
      <4>1. pair[1] = f.rule
        OBVIOUS
      <4>2. \A n \in 1..Len(pairs) : pairs2[n][1] # f.rule
        BY <1>6, <2>2, <3>3
      <4>3. CASE j \in 1..Len(pairs) /\ k \in 1..Len(pairs)
        BY <1>6, <1>7, <3>3, <4>3
      <4>4. CASE j = Len(pairs) + 1 \/ k = Len(pairs) + 1
        BY <3>3, <3>5, <3>6, <4>1, <4>2, <4>4
      <4> QED
        BY <3>5, <3>6, <4>3, <4>4
    <3>9. \A j \in DOMAIN rules2 : rules2[j] = pairs2[j][1]
      BY <1>6, <1>7, <3>3, <3>4, <3>5, <3>6
    <3> QED
      BY <1>7, <3>3, <3>4, <3>7, <3>8, <3>9
  <2> QED
    BY <2>1, <2>2
<1> HIDE DEF pairs2, rules2
<1>12. /\ lists'.categories = AppendNew(categories, f.category)
       /\ lists'.rules = rules2 /\ lists'.pairs = pairs2
       /\ lists' \in [categories : Seq(CategoriesFound), rules : Seq(RulesFound),
                      pairs : Seq(RulesFound \X CategoriesFound)]
  BY <1>1, <1>9, <1>11 DEF pairs2, rules2
<1>13. Shape'
  BY <1>1, <1>2, <1>12 DEF Inv, Shape
<1>14. Phases'
  BY <1>1 DEF Inv, Phases
<1>15. Listed'
  <2>1. /\ ToSet(pairs2) = {<<findings[i].rule, findings[i].category>> : i \in 1..at}
        /\ ToSet(lists'.categories) = {findings[i].category : i \in 1..at}
    BY <1>9, <1>10, <1>11, <1>12
  <2>2. /\ \A j, k \in DOMAIN pairs2 : pairs2[j][1] = pairs2[k][1] => j = k
        /\ Len(rules2) = Len(pairs2)
        /\ \A j \in DOMAIN rules2 : rules2[j] = pairs2[j][1]
    BY <1>11
  <2>3. findings' = findings /\ at' - 1 = at /\ lists'.rules = rules2 /\ lists'.pairs = pairs2
    BY <1>1, <1>8, <1>12
  <2> QED
    BY <2>1, <2>2, <2>3 DEF Listed
<1>16. Covered' /\ Replaced' /\ Scanned' /\ Accounted'
  BY ScanFrame DEF ListFinding
<1>17. Weighed' /\ EventMatchesResponse'
  BY <1>1 DEF Weighed, EventMatchesResponse
<1>18. VerdictIsWorst'
  BY <1>1 DEF Inv, VerdictIsWorst
<1> QED
  BY <1>13, <1>14, <1>15, <1>16, <1>17, <1>18 DEF Inv

LEMMA EmitEventInv == ASSUME Inv, EmitEvent PROVE Inv'
<1> DEFINE found == {<<findings[i].rule, findings[i].category>> : i \in DOMAIN findings}
           e == [action |-> action, status |-> 200, lists |-> lists]
<1>1. /\ UNCHANGED <<asked, original, cats, cat, rule, text, findings, reported, degraded,
                     answered, at, action, lists, response>>
      /\ pc = "emit" /\ at > Len(findings) /\ pc' = "done"
  BY DEF EmitEvent, inputVars, scanVars, endVars
<1>2. events' = <<e>>
  <2>1. events = <<>>
    BY <1>1 DEF Inv, Phases
  <2> QED
    BY <2>1 DEF EmitEvent
<1>3. response = [status |-> 200, action |-> action, allowed |-> action # "block"]
  BY <1>1 DEF Inv, Phases
<1>4. 1..(at - 1) = DOMAIN findings
  <2>1. /\ Len(findings) \in Nat /\ DOMAIN findings = 1..Len(findings)
        /\ at \in 1..(Len(findings) + 1)
    BY LenProperties DEF Inv, Shape
  <2> QED
    BY <1>1, <2>1
<1>5. /\ ToSet(lists.pairs) = found
      /\ \A j, k \in DOMAIN lists.pairs : lists.pairs[j][1] = lists.pairs[k][1] => j = k
      /\ Len(lists.rules) = Len(lists.pairs)
      /\ \A j \in DOMAIN lists.rules : lists.rules[j] = lists.pairs[j][1]
      /\ ToSet(lists.categories) = {findings[i].category : i \in DOMAIN findings}
  BY <1>1, <1>4 DEF Inv, Listed
<1>6. /\ lists.pairs \in Seq(RulesFound \X CategoriesFound) /\ lists.rules \in Seq(RulesFound)
  BY DEF Inv, Shape
<1>7. /\ Len(lists.pairs) \in Nat
      /\ DOMAIN lists.pairs = 1..Len(lists.pairs) /\ DOMAIN lists.rules = 1..Len(lists.rules)
      /\ lists.pairs \in [1..Len(lists.pairs) -> RulesFound \X CategoriesFound]
      /\ lists.rules \in [1..Len(lists.rules) -> RulesFound]
  BY <1>6, LenProperties
<1>8. Cardinality(found) = Len(lists.pairs)
  <2>1. lists.pairs \in Bijection(1..Len(lists.pairs), found)
    <3>1. \A j, k \in 1..Len(lists.pairs) : lists.pairs[j] = lists.pairs[k] => j = k
      BY <1>5, <1>7
    <3>2. \A p \in found : \E j \in 1..Len(lists.pairs) : lists.pairs[j] = p
      BY <1>5, <1>7 DEF ToSet
    <3>3. lists.pairs \in [1..Len(lists.pairs) -> found]
      BY <1>5, <1>7 DEF ToSet
    <3> QED
      BY <3>1, <3>2, <3>3, Fun_IsBij
  <2> QED
    BY <1>7, <2>1, FS_CountingElements DEF ExistsBijection
<1>9. lists.rules = [i \in DOMAIN lists.pairs |-> lists.pairs[i][1]]
  BY <1>5, <1>7
<1>10. ToSet(lists.categories) = {p[2] : p \in found}
  <2>1. ASSUME NEW x PROVE x \in {p[2] : p \in found} <=>
                               x \in {findings[i].category : i \in DOMAIN findings}
    <3>1. ASSUME x \in {p[2] : p \in found}
          PROVE  x \in {findings[i].category : i \in DOMAIN findings}
      <4>1. PICK p \in found : x = p[2]
        BY <3>1
      <4>2. PICK i \in DOMAIN findings : p = <<findings[i].rule, findings[i].category>>
        OBVIOUS
      <4> QED
        BY <4>1, <4>2
    <3>2. ASSUME NEW i \in DOMAIN findings, x = findings[i].category
          PROVE  x \in {p[2] : p \in found}
      <4>1. <<findings[i].rule, findings[i].category>> \in found
        OBVIOUS
      <4> HIDE DEF found
      <4> QED
        BY <3>2, <4>1
    <3> QED
      BY <3>1, <3>2
  <2> QED
    BY <1>5, <2>1
<1>11. EventMatchesResponse'
  <2>1. /\ Len(<<e>>) = 1 /\ <<e>>[1] = e
    OBVIOUS
  <2>2. /\ e.status = 200 /\ e.action = action /\ e.lists = lists
        /\ response.status = 200 /\ response.action = action
    BY <1>3
  <2> HIDE DEF e
  <2>3. /\ Len(events') = 1 /\ events'[1] = e /\ findings' = findings /\ response' = response
    BY <1>1, <1>2, <2>1
  <2>4. /\ ToSet(lists.pairs) = found /\ Len(lists.pairs) = Cardinality(found)
        /\ lists.rules = [i \in DOMAIN lists.pairs |-> lists.pairs[i][1]]
        /\ ToSet(lists.categories) = {p[2] : p \in found}
    BY <1>5, <1>8, <1>9, <1>10
  <2> DEFINE found2 == {<<findings'[i].rule, findings'[i].category>> : i \in DOMAIN findings'}
             e2 == events'[1]
  <2>5. found2 = found /\ e2 = e
    BY <2>3
  <2>6. SUFFICES /\ Len(events') = 1
                 /\ e2.status = response'.status
                 /\ e2.status = 200 =>
                       /\ e2.action = response'.action
                       /\ ToSet(e2.lists.pairs) = found2
                       /\ Len(e2.lists.pairs) = Cardinality(found2)
                       /\ e2.lists.rules = [i \in DOMAIN e2.lists.pairs |-> e2.lists.pairs[i][1]]
                       /\ ToSet(e2.lists.categories) = {p[2] : p \in found2}
                 /\ e2.status # 200 =>
                       e2.action \in {"error_4xx", "error_5xx"} /\ e2.lists = NoLists
    BY DEF EventMatchesResponse
  <2> HIDE DEF found, found2, e2
  <2> QED
    BY <2>2, <2>3, <2>4, <2>5
<1>12. Shape'
  BY <1>1 DEF Inv, Shape
<1>13. Phases'
  BY <1>1, <1>3 DEF Inv, Phases
<1>14. Covered' /\ Replaced' /\ Scanned' /\ Accounted'
  BY ScanFrame DEF EmitEvent
<1>15. Weighed' /\ Listed'
  BY <1>1 DEF Weighed, Listed
<1>16. VerdictIsWorst'
  BY <1>1 DEF Inv, VerdictIsWorst
<1> QED
  BY <1>11, <1>12, <1>13, <1>14, <1>15, <1>16 DEF Inv

-----------------------------------------------------------------------------

LEMMA StutterInv == ASSUME Inv, UNCHANGED vars PROVE Inv'
<1>1. UNCHANGED <<asked, original, cats, cat, rule, text, findings, reported, degraded,
                  answered, at, action, lists, pc, response, events>>
  BY DEF vars, inputVars, scanVars, endVars
<1>2. Covered' /\ Replaced' /\ Scanned' /\ Accounted'
  BY ScanFrame DEF vars
<1>3. Shape'
  BY <1>1 DEF Inv, Shape
<1>4. Phases'
  BY <1>1 DEF Inv, Phases
<1>5. Weighed' /\ Listed'
  BY <1>1 DEF Inv, Weighed, Listed
<1>6. VerdictIsWorst'
  BY <1>1 DEF Inv, VerdictIsWorst
<1>7. EventMatchesResponse'
  BY <1>1 DEF Inv, EventMatchesResponse
<1> QED
  BY <1>2, <1>3, <1>4, <1>5, <1>6, <1>7 DEF Inv

LEMMA NextInv == ASSUME Inv, [Next]_vars PROVE Inv'
<1>1. CASE UNCHANGED vars
  BY <1>1, StutterInv
<1>2. CASE DecodeFails
  BY <1>2, FailInv DEF DecodeFails
<1>3. CASE Decode
  BY <1>3, DecodeInv
<1>4. CASE \E c \in {"pii", "secrets"} : ScanRule(c) \/ ScanDone(c)
  BY <1>4, ScanRuleInv, ScanDoneInv
<1>5. CASE InjectionAnswers \/ InjectionFails \/ SkipUnknown
  BY <1>5, InjectionAnswersInv, InjectionFailsInv, SkipUnknownInv
<1>6. CASE Judge \/ Respond
  BY <1>6, JudgeInv, RespondInv
<1>7. CASE EncodeFails
  BY <1>7, FailInv DEF EncodeFails
<1>8. CASE ListFinding \/ EmitEvent
  BY <1>8, ListFindingInv, EmitEventInv
<1>9. CASE Done
  BY <1>9, StutterInv DEF Done
<1> QED
  BY <1>1, <1>2, <1>3, <1>4, <1>5, <1>6, <1>7, <1>8, <1>9 DEF Next

(* The inductive invariant holds in every reachable state.                  *)
THEOREM Invariance == Spec => []Inv
<1>1. Init => Inv
  BY InitInv
<1>2. Inv /\ [Next]_vars => Inv'
  BY NextInv
<1> QED
  BY <1>1, <1>2, PTL DEF Spec

-----------------------------------------------------------------------------
(* The checked properties.                                                  *)

(* The handler's state is well formed; at most one event is handed to Emit. *)
THEOREM TypeCorrect == Spec => []TypeOK
<1>1. Inv => TypeOK
  <2> SUFFICES ASSUME Inv PROVE TypeOK
    OBVIOUS
  <2>1. \A i \in DOMAIN findings : findings[i].severity \in Severities
    <3>1. findings \in Seq(FindingSet)
      BY DEF Inv, Shape
    <3>2. \A i \in DOMAIN findings : findings[i] \in FindingSet
      BY <3>1, LenProperties, ElementOfSeq
    <3> QED
      BY <3>2, FindingFacts
  <2>2. answered + Len(degraded) <= Len(cats)
    <3>1. cat \in 1..(Len(cats) + 1) /\ Len(cats) \in Nat
      BY LenProperties DEF Inv, Shape
    <3>2. cat - 1 \in Nat /\ cat - 1 <= Len(cats)
      BY <3>1
    <3>3. Cardinality(Turns(cat - 1)) \in 0..(cat - 1)
      BY <3>2, TurnsBound
    <3>4. answered + Len(degraded) = Cardinality(Turns(cat - 1))
      BY DEF Inv, Accounted
    <3> QED
      BY <3>1, <3>2, <3>3, <3>4
  <2>3. Len(events) <= 1
    <3>1. CASE pc = "done"
      <4>1. Len(events) = 1
        BY <3>1 DEF Inv, EventMatchesResponse
      <4> QED
        BY <4>1
    <3>2. CASE pc # "done"
      BY <3>2 DEF Inv, Phases
    <3> QED
      BY <3>1, <3>2
  <2>4. response.status \in {0, 200, 400, 500}
    BY DEF Inv, Phases
  <2> QED
    BY <2>1, <2>2, <2>3, <2>4 DEF Inv, Shape, TypeOK
<1> QED
  BY <1>1, Invariance, PTL

(* At the end of the loop all categories are finished.                      *)
LEMMA AllFinished ==
    ASSUME Inv, response.status = 200, NEW m \in original \cap text, NEW i \in DOMAIN Catalog,
           RuleOf[m] = Catalog[i].name
    PROVE  ~Asked(Catalog[i].category)
<1>1. cat = Len(cats) + 1
  BY DEF Inv, Phases
<1>2. Len(cats) \in Nat /\ DOMAIN cats = 1..Len(cats)
  BY LenProperties DEF Inv, Shape
<1>3. 1..(cat - 1) = DOMAIN cats
  BY <1>1, <1>2
<1>4. \A k \in 1..(cat - 1) : cats[k] # Catalog[i].category
  BY DEF Inv, Scanned
<1>5. ASSUME NEW k \in DOMAIN cats PROVE cats[k] # Catalog[i].category
  <2>1. k \in 1..(cat - 1)
    BY <1>3
  <2> QED
    BY <1>4, <2>1
<1> QED
  BY <1>5 DEF Asked

(* scanCategory never leaves a requested rule's match of the original text  *)
(* unreported, unless a reported match overlapped it: the rules' order and  *)
(* the categories' order cannot hide a place.  A number that phone_fr no    *)
(* longer matches, the text in front of it being replaced, is found by      *)
(* phone_intl, which runs later in the same category.                       *)
THEOREM NothingOverlooked == Spec => []NoMatchOverlooked
<1>1. Inv => NoMatchOverlooked
  <2> SUFFICES ASSUME Inv, response.status = 200, NEW m \in original, NEW i \in DOMAIN Catalog,
                      RuleOf[m] = Catalog[i].name, Asked(Catalog[i].category)
               PROVE  \E n \in reported : n = m \/ <<m, n>> \in Overlaps
    BY DEF NoMatchOverlooked
  <2>1. m \notin text
    BY AllFinished
  <2>2. CASE Found(m)
    BY <2>2 DEF Found
  <2>3. CASE \E p \in Unmatches : p[2] = m
    <3>1. PICK b \in Backs : b[2] = m /\ RuleOf[m] = "phone_fr" /\ RuleOf[b[1]] = "phone_intl"
      BY <2>3, PhonesAssumption
    <3>2. b[1] \in original
      BY <3>1 DEF Inv, Shape, Texts
    <3>3. PICK j \in DOMAIN Catalog : Catalog[j].name = RuleOf[b[1]] /\ Catalog[j].category = "pii"
      BY <3>1, PhoneRules
    <3>4. Catalog[i].category = "pii"
      <4>1. Catalog[i].name = "phone_fr"
        BY <3>1
      <4> QED
        BY <4>1, PhoneRules
    <3>5. b[1] \notin text
      BY <3>2, <3>3, <3>4, AllFinished
    <3>6. Found(m)
      BY <3>1, <3>5 DEF Inv, Covered
    <3> QED
      BY <3>6 DEF Found
  <2> QED
    BY <2>1, <2>2, <2>3 DEF Inv, Covered
<1> QED
  BY <1>1, Invariance, PTL

(* The text handleCheck returns has no reported match and no match of a     *)
(* requested rule that was in the original text.                            *)
THEOREM RedactionIsComplete == Spec => []RedactionComplete
<1>1. Inv => RedactionComplete
  BY AllFinished DEF Inv, Replaced, RedactionComplete
<1> QED
  BY <1>1, Invariance, PTL

(* The verdict loop, which stops at the first high finding, answers the     *)
(* worst finding, whatever their number and order.                          *)
THEOREM VerdictWorst == Spec => []VerdictIsWorst
<1>1. Inv => VerdictIsWorst
  BY DEF Inv
<1> QED
  BY <1>1, Invariance, PTL

(* Each turn of the classifier is an answer or an entry of the degraded     *)
(* list of the response.                                                    *)
THEOREM FailOpenVisible == Spec => []FailOpenIsVisible
<1>1. Inv => FailOpenIsVisible
  <2> SUFFICES ASSUME Inv, response.status = 200
               PROVE  Cardinality({i \in DOMAIN cats : cats[i] = "injection"})
                         = answered + Len(degraded)
    BY DEF FailOpenIsVisible
  <2>1. cat = Len(cats) + 1 /\ Len(cats) \in Nat /\ DOMAIN cats = 1..Len(cats)
    BY LenProperties DEF Inv, Phases, Shape
  <2>2. cat - 1 = Len(cats)
    BY <2>1
  <2>3. Turns(cat - 1) = {i \in DOMAIN cats : cats[i] = "injection"}
    BY <2>1, <2>2 DEF Turns
  <2> QED
    BY <2>3 DEF Inv, Accounted
<1> QED
  BY <1>1, Invariance, PTL

(* Each finished request has one event, with its status, its action and     *)
(* each rule that was found once, with its category.                        *)
THEOREM EventMatches == Spec => []EventMatchesResponse
<1>1. Inv => EventMatchesResponse
  BY DEF Inv
<1> QED
  BY <1>1, Invariance, PTL
=============================================================================
