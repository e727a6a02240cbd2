SPECIFICATION FairSpec
CONSTANTS
    MaxTime = 1
    MaxFaults = 1
    Fills <- FourFills
    FillOf <- TwoFillSale
    Before <- FirstThree
    LockWait = 1
    Records <- OneRecord
    MaxAttempts = 2
    BaseBackoff = 1
    MaxBackoff = 1
    Limit = 3
INVARIANTS CommittedIsPublished RepeatsNeedFault TradesExact PassedWasSent
PROPERTIES PromptNoticesSent
CHECK_DEADLOCK FALSE
