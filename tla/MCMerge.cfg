\* Merges of two tables with blocks of one entry, of a few, and of all of them.
SPECIFICATION MergeSpec
CONSTANTS
    Key <- Looked
    Value <- Values
    Tombstone = Tombstone
    EmptyKey = EmptyKey
    Base = 4
    MaxLen = 3
    HashPair <- SmallHash
    HashMod = 16
    MinBits = 8
    BitsPerKey = 3
    MaxHashes = 3
    RestartInterval = 2
    Inputs <- TwoInputs
    BlockSizes = {1, 22, 100}
INVARIANTS
    IteratorFollowsTable
    GetFindsNewest
    FooterMatches
