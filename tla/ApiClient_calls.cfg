SPECIFICATION FairSpec
CONSTANTS
    Users = {ann, bob}
    First = ann
    Calls = {c1, c2}
    Refresh = refresh
    Slots <- CallsAndRefresh
    Retries = 1
    MaxTokens = 2
    MaxChanges = 1
INVARIANTS
    TypeOK
    OneEffectPerCall
    CsrfFailureIsExplained
PROPERTIES
    ChargesFit
    EveryCallReturns
