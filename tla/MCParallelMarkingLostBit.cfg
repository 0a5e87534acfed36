SPECIFICATION Spec
CONSTANTS
    c1 = c1
    c2 = c2
    c3 = c3
    c4 = c4
    Cells = {c1, c2, c3, c4}
    NoCell = NoCell
    Workers = {w1, w2}
    Graphs <- TwoChains
    RootSets <- TwoRoots
    WordOf <- SharedWord
    SpuriousCas = FALSE
INVARIANTS
    FoundCellsAreMarked
