SPECIFICATION Spec
CONSTANTS
    MaxByte = 1
    aadInfo <- MCInfo
    aadKindKey = 1
    aadKindSecret = 0
    SaltLen = 1
    Lengths = {1}
    NameLengths = {1, 2, 3}
    Slots = {0, 1, 16}
    LabelSet <- TwoLabels
INVARIANTS EntriesStayPut
