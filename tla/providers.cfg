CONSTANTS
    n1 = n1
    n2 = n2
    n3 = n3
    Ids <- MCIds
    Weights <- MCWeights
    BaseWeight = 2
    MaxPoints = 2
    Inputs <- MCInputs
    Hashes <- MCHashes
    HashFunctions <- MCHashFunctions
    InputHash <- MCInputHash
    CacheMax = 1
    ModulaWeights <- MCModulaWeights
    MaxEntries = 6
SPECIFICATION MCSpec
INVARIANTS
    TypeOK
    
    
    SearchFindsOwner
PROPERTIES
    OnlyAffectedKeysMove
    
    
CHECK_DEADLOCK FALSE
SYMMETRY Symmetry
