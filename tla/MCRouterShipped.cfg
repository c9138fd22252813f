SPECIFICATION ShippedSpec
CONSTANTS
    Words <- ShippedWords
    PartOf <- MenuPartOf
    Contexts = {}
    NoContext = "no context"
    Menu <- ShippedRules
    MaxRules = 5
    Default <- DefaultTarget
INVARIANT EveryRuleReachable
