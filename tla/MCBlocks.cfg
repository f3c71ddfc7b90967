SPECIFICATION BlocksSpec
CONSTANTS
    Ids = {"thing", "room"}
    TraitIds = {"moody"}
    Objects = {"hall"}
    Names = {"lit", "mood", "holder", "relation", "parts"}
    Types <- MCTypes
    MixinLists <- MCMixins
    Nothing = Nothing
    MaxDepth = 3
    Frontends = {"qt", "glk"}
    MaxPriority = 8
    Letters = {"a", "d", "u"}
    Numerals = {"0", "1", "3", "6"}
    Styles = {"warm", "cold"}
    QuadLength = 4
    Nesting = 5
    Programs <- AllPrograms
INVARIANTS
    SilentWhenItConforms
    OneBindingPerSession
    SpellingsAgree
    EveryKeyAnswered
    ReadsAsItsClass
    DeclaredTypesJudge
    OneCombination
    OnePlacement
    NamesAnswered
PROPERTY EveryPassEnds
CHECK_DEADLOCK FALSE
