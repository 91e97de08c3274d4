CONSTANTS
    MaxWrites = 3
    MaxLen = 3
    BufLen = 2
SPECIFICATION StreamFairSpec
INVARIANTS DecryptsPrefix TruncationDetected NoFalseAlarm
PROPERTY ReaderEnds
