SPECIFICATION Spec
CONSTANTS
 Lanes = 4
 Burst = 2
 MaxText = 1
 MaxUtf8 = 1
 BytesProcessed = 4
 MaxPieces = 0
 WordBits = 10
 SignedDigits = 2
 SwarDigits = 2
 MantissaBits = 5
 ExponentBias = 24
 ExactPower = 2
 LowestPower = 4
 LargestPower = 9
 ExponentLimit = 100
 MaxNumber = 0
 MaxRows = 0
 Row = 3
 MaxDocuments = 3
 MaxBatch = 17
 MaxLength = 1
 DefaultDepth = 2
 Callers = {c1, c2}
 PaddedNames = {s1, s2, s3}
 MaxPadded = 1
INVARIANTS LargeBatchesInOrder
CHECK_DEADLOCK FALSE
