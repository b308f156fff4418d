SPECIFICATION FairSpec
CONSTANTS
    Tests <- Builds
    Program <- BuildPrograms
    Faulty <- FailingCalls
    Stub <- X86Stub
    PromptStop = TRUE
INVARIANTS VerdictSound RequestsOnStopped ChildHeld FaultsReported StubsReported NoFalseFailure RacesNamed X86SkipList
PROPERTY HangExplained
CHECK_DEADLOCK FALSE
