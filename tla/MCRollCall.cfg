SPECIFICATION Spec
SYMMETRY MCNamesakes
CONSTANTS
    g1 = g1
    NoGroup = NoGroup
    AssertsOn = TRUE
    Person <- MCPerson
    Group <- MCGroup
    GroupOf <- MCGroupOf
    Name <- MCName
    NameOf <- MCNameOf
    ann = ann
    bob = bob
    secondAnn = secondAnn
    BatchSize = 2
    MaxPhotos = 1
    MaxFaces = 3
    MaxTaps = 2
    MaxEdits = 1
    MaxFacesPerTile = 2
INVARIANTS
    UndisturbedRollCallExact
    UndisturbedAnnouncementTrue
PROPERTIES
    BatchesCoverFaces
    ImplementsRollCall
\* The app ends in a crash, or the bounds are used up.
CHECK_DEADLOCK FALSE
