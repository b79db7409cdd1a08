SPECIFICATION Spec
CONSTANTS
    Programs <- MCPrograms
    MaxThreads = 3
    Slots = 2
    Grace = 2
INVARIANT StructuredConcurrency
