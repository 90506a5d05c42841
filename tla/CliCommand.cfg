SPECIFICATION Spec
CONSTANTS
    Value <- MCValue
    File <- MCFile
    Text <- MCText
    Size <- MCSize
    MaxPairs = 5
    kKeySize = 1
    SizeMax = 7
    IntMax = 2
    RandomByte = {91, 251}
INVARIANTS
    AcceptsExactlyWellFormed
    RoutedAsAsked
    CodecsStrict
    TokenFullyRandom
CHECK_DEADLOCK FALSE
