SPECIFICATION Spec
CONSTANTS
    Matches <- MCMatches
    RuleOf <- MCRuleOf
    Overlaps <- MCOverlaps
    Within <- MCWithin
    Uncovers <- MCUncovers
    Unmatches <- MCUnmatches
    Backs <- MCBacks
    MaxCategories = 3
INVARIANTS
    TypeOK
    NoMatchOverlooked
    RedactionComplete
    VerdictIsWorst
    FailOpenIsVisible
    EventMatchesResponse
