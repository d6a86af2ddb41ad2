SPECIFICATION FairSpec
CONSTANTS
    Uint16Max = 2
    DefaultPayload = 1
    MaxPackets = 4
INVARIANTS
    NothingBeforeAuth
    ChallengesSound
PROPERTIES
    PayloadAgreed
    AuthorizedAnswered
    EndCompletes
