CONSTANT Calls <- MCCalls
SPECIFICATION FairSpec
INVARIANTS
    CollectorInv
    NoCompleteResponseMissed
PROPERTY
    AnswersAndCleansUp
