SPECIFICATION FairSpec
CONSTANTS
    Requests <- MixedRequests
    Sizes = {"fits", "huge", "negative"}
    Passwords = {TRUE, FALSE}
    None = None
    MaxFrames = 2
    MaxAnswers = 2
INVARIANTS
    NothingBeforeAuthorization
    OneEffectUnanswered
PROPERTIES
    KeepsContract
    EveryRequestAnswered
    ResourcesReleased
CHECK_DEADLOCK FALSE
