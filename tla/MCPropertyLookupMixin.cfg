SPECIFICATION Spec
CONSTANTS
    t = t
    Ids = {a, b}
    TraitIds = {t}
    Objects = {o}
    Names = {p}
    Types = {int}
    MixinLists <- OneTrait
    Nothing = Nothing
    MaxDepth = 4
SYMMETRY Symmetry
INVARIANT
    AbsentFromObjects
