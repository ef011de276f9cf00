\* The ten requests of the check under every configuration that starts, with
\* one restart and a replay window of two ticks.
CONSTANTS
    own = own
    other = other
    Devices <- Ids
    Nonces <- AllNonces
    Tasks = {t1}
    Task = t1
    TTL = 2
    Cap = 8
    MaxTime = 2
    MaxRestarts = 1
    Pairs = {own, other}
    BadKey = BadKey
    Nobody = Nobody
    Requests <- ScriptRequests
    Enrolments <- OwnEnrolments
    Byte <- Bytes
    Sizes <- AllSizes
    Width = 8
    LE <- LittleEndian
    CtLen = 2
    AeadNonceLen = 1
    Numeral <- Numerals
    Own <- OwnId
    OwnTampered <- OwnTamperedId
    Unregistered <- UnregisteredId
    OwnPair = own
    OtherPair = other
    Fresh <- FreshNonces
    OversizedN = 2097152
    Sealed <- SealedParts
    Envs <- Environments
SPECIFICATION FairCheck
INVARIANTS
    VerdictsExplained
    AnswersAreGenuine
PROPERTIES
    CheckEnds
    EveryHandlerEnds
