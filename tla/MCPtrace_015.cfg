SPECIFICATION Spec
CONSTANTS
    Tests = {15}
    Program <- Programs
    Faulty <- NoCalls
    Stub <- NoCalls
    PromptStop = TRUE
INVARIANTS CorrectKernelPasses
