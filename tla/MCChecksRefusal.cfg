SPECIFICATION ChecksSpec
CONSTANTS
    Ids = {"thing", "room", "weapon", "blade"}
    TraitIds = {"sharp"}
    Objects = {"hall", "club", "sword", "rock"}
    Names = {"damage", "edge", "lit"}
    Types = {"int"}
    MixinLists <- MCMixins
    Nothing = Nothing
    MaxDepth = 5
    Slots = {"noun", "second", "location"}
    Root = "thing"
    Room = "room"
    Programs <- RefusingPrograms
INVARIANT
    FailureReadsSound
CHECK_DEADLOCK FALSE
