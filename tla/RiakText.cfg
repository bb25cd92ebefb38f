SPECIFICATION Spec
CONSTANTS
    Totals = {1, 2, 5, 6}
    Texts = {1, 2}
    Sizes = {0, 1, 3}
    MaxElements = 2
    MaxPrints = 2
    Pairs <- SomePairs
    NameSize = 3
INVARIANTS
    TypeOK
    Shown
    CompareTells
    NamesWhole
