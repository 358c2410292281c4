SPECIFICATION FairSpec
CONSTANTS
    ann = ann
    bob = bob
    NoPerson = NoPerson
    Person <- MCPerson
    Images = 2
    MaxPhotos = 2
    MaxFaces = 3
    MaxTaps = 2
    MaxFacesPerImage = 2
INVARIANTS
    TypeOK
    OneEntryPerTap
    DeletedFaceGone
    UndisturbedTapAdded
    LeftPersonListed
PROPERTIES
    DeleteRemovesAsked
    ImplementsEnrolment
    Unblocks
\* The app ends in a crash, or the bounds are used up.
CHECK_DEADLOCK FALSE
