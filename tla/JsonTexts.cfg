SPECIFICATION Spec
CONSTANTS
 Lanes = 4
 Burst = 2
 MaxText = 6
 MaxUtf8 = 5
 BytesProcessed = 4
 MaxPieces = 3
 WordBits = 10
 SignedDigits = 2
 SwarDigits = 2
 MantissaBits = 5
 ExponentBias = 24
 ExactPower = 2
 LowestPower = 4
 LargestPower = 9
 ExponentLimit = 100
 MaxNumber = 7
 MaxRows = 4
 Row = 3
 MaxDocuments = 3
 MaxBatch = 17
 MaxLength = 2
 DefaultDepth = 2
 Callers = {c1, c2}
 PaddedNames = {s1, s2, s3}
 MaxPadded = 2
INVARIANTS IndexesRight Utf8Checked StringsRight NumbersRight FloatNearest AtomsRight MinifyRight StreamedInOrder StreamWhole NeverOverrun KernelRight PaddedOwned
CHECK_DEADLOCK FALSE
