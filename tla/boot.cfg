SPECIFICATION Spec
CONSTANTS
    None = None
    Module <- MCModule
    Dirs <- MCDirs
    Flavors = {"modern", "legacy"}
    Documents <- MCDocuments
    FlagSets <- MCFlagSets
    Port = {1, 2}
    MaxBoots = 2
INVARIANT SoundListeners
INVARIANT PersistReproduces
INVARIANT NoPortZero
INVARIANT PolicyAsAdvertised
