SPECIFICATION Spec
CONSTANTS
    MaxByte = 1
    aadInfo <- MCInfo
    aadKindKey = 1
    aadKindSecret = 0
    SaltLen = 1
    Lengths = {1, 2}
    NameLengths = {1, 2, 5}
    Slots = {0, 1, 5, 15, 16}
    LabelSet <- OneLabel
INVARIANTS BytesSayWhatIsBound KindsAreDisjoint
