SPECIFICATION Spec
CONSTANTS
    Words <- MenuWords
    PartOf <- MenuPartOf
    Contexts = {"c1"}
    NoContext = "no context"
    Menu <- MenuRules
    MaxRules = 3
    Default <- DefaultTarget
INVARIANTS
    PrecedenceKept
    FileOrderIrrelevant
    CatchAllAnswersAll
