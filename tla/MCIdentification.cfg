SPECIFICATION FairSpec
CONSTANTS
    g1 = g1
    g2 = g2
    NoGroup = NoGroup
    AssertsOn = TRUE
    Person <- MCPerson
    Group <- MCGroup
    GroupOf <- MCGroupOf
    Name <- MCName
    NameOf <- MCNameOf
    ann = ann
    bob = bob
    otherAnn = otherAnn
    BatchSize = 1
    MaxPhotos = 2
    MaxFaces = 2
    MaxTaps = 1
    MaxEdits = 0
    MaxFacesPerTile = 2
PROPERTY
    HudGoes
    EndsOnlyLate
INVARIANTS
    TypeOK
    IdentifyHasFaces
    PendingFacesPresent
\* The app ends in a crash, or the bounds are used up.
CHECK_DEADLOCK FALSE
