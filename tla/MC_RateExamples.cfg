CONSTANTS
    Burst = 3
    Goroutines = {0, 1}
SPECIFICATION Spec
INVARIANTS
    FullExampleOutput
    EmptyExampleOutcome
PROPERTY
    ExamplesReturn
