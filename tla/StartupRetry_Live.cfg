SPECIFICATION LiveSpec
CONSTANTS
    Cancellations <- MCCancellations
    HookErrors <- LookalikeErrors
    MinDelay = 2
    MaxDelay = 5
INVARIANTS HooksFailOnce RetriesAreSafe CancelledAttemptsAreRetried
PROPERTIES OpenSettles
CHECK_DEADLOCK FALSE
