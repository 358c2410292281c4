SPECIFICATION Spec
CONSTANTS
    ann = ann
    bob = bob
    NoPerson = NoPerson
    Person <- MCPerson
    Images = 2
    MaxPhotos = 2
    MaxFaces = 3
    MaxTaps = 2
    MaxFacesPerImage = 2
INVARIANT
    TappedFaceAdded
\* The app ends in a crash, or the bounds are used up.
CHECK_DEADLOCK FALSE
