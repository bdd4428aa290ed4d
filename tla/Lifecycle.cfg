SPECIFICATION FairSpec
CONSTANTS
    i1 = i1
    i2 = i2
    i3 = i3
    b1 = b1
    None = None
    Items <- ThreeItems
    Banks <- OneBank
    BankOf <- LastIsOther
    TrialLimit = 2
    MaxLinks = 2
    MaxVersion = 2
    MaxEvents = 1
    MaxMishaps = 1
INVARIANTS
    TypeOK
    SlotsCounted
    OneConnectionPerBank
    TokensUsable
PROPERTIES
    BrokenLinkShown
    RepairShown
\* Every Item may have been removed.
CHECK_DEADLOCK FALSE
