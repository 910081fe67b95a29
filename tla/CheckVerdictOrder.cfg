SPECIFICATION Spec
CONSTANTS
    Matches <- MCMatches
    RuleOf <- MCRuleOf
    Overlaps <- MCOverlaps
    Within <- MCWithin
    Uncovers <- MCUncovers
    Unmatches <- MCUnmatches
    Backs <- MCBacks
    MaxCategories = 0
INVARIANT
    SecretsBeforePii
