CONSTANTS
    s9a = s9a
    s9c = s9c
    f9 = f9
    fileA = fileA
    fileC = fileC
    k1 = k1
    k2 = k2
    k3 = k3
    None = None
    Attestation = f9
    Slots <- MCSlots
    Keys <- MCKeys
    Batches <- MCBatches
    Files <- MCFiles
    PathMaps <- MCPathMaps
SPECIFICATION UseSpec
SYMMETRY KeySymmetry
INVARIANTS
    BatchConfirmedFirst
    BatchKeysSaved
    KeyUsedOnce
PROPERTIES
    ReplacedWithConsent
    NamedKeysMatch
