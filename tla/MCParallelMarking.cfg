SPECIFICATION FairSpec
CONSTANTS
    c1 = c1
    c2 = c2
    c3 = c3
    c4 = c4
    Cells = {c1, c2, c3}
    NoCell = NoCell
    Workers = {w1, w2}
    Graphs <- AllGraphs
    RootSets <- AllRoots
    WordOf <- SharedWord
    SpuriousCas = FALSE
INVARIANTS
    MarkingExact
    NoEarlyExit
    BitsLostOnlyToRaces
PROPERTIES
    PhaseProgresses
