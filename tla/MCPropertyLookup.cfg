SPECIFICATION BoundedSpec
CONSTANTS
    t = t
    Ids = {a, b, c}
    TraitIds = {t}
    Objects = {o}
    Names = {p}
    Types = {int}
    MixinLists <- OneTrait
    Nothing = Nothing
    MaxDepth = 4
SYMMETRY Symmetry
INVARIANTS
    AbsentSound
    PresentSound
PROPERTY Monotone
CHECK_DEADLOCK FALSE
