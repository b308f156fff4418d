SPECIFICATION Spec
CONSTANTS
    Tests = {6}
    Program <- Programs
    Faulty = {"PEEKTEXT"}
    Stub <- NoCalls
    PromptStop = TRUE
INVARIANTS InstructionKept
