SPECIFICATION Spec
CONSTANTS
    Ids = {a, b}
    Owners = {core, lib}
    Names = {p}
    Types = {t1, t2}
    Parents = {thing}
    GenericSpaces = {"action"}
    NoReplaces = NoReplaces
    Undeclared = Undeclared
    MaxDeclarations = 2
SYMMETRY Symmetry
INVARIANTS
    TypeOK
    Consistent
    LedgerMatchesStores
PROPERTIES
    Superseding
    ImplementsOwnership
