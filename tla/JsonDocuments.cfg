SPECIFICATION Spec
CONSTANTS
 MaxTokens = 9
 MaxDepth = 4
 CountLimit = 2
 Unit = 8
 Padding = 4
 PrintDepth = 2
INVARIANTS GrammarKept TapeRight BuffersFit TapeLinked OnCourse MovesRight PointersRight
CHECK_DEADLOCK FALSE
