SPECIFICATION LoadSpec
CONSTANTS
    library = library
    room = room
    hall = hall
    x = x
    name = name
    tag = tag
    uid = uid
    int = int
    thing = thing
    core = core
    lib = lib
    game = game
    Ids = {library, room, hall, x}
    Owners = {core, lib, game}
    Names = {name, tag}
    Types = {uid, int}
    Parents = {thing}
    Library = library
    GenericSpaces = {"library"}
    NoReplaces = NoReplaces
    Undeclared = Undeclared
    MaxDeclarations = 12
    NoSpace = NoSpace
    UniqueIn <- UniqueTypes
    Programs <- ClassOfTraitId
PROPERTY TraitPropertiesStay
