SPECIFICATION Spec
CONSTANTS
    cs1 = cs1
    cs2 = cs2
    ann = ann
    bob = bob
    Group <- MCGroup
    NoGroup = NoGroup
    Person <- MCPerson
    NoPerson = NoPerson
    MaxVisits = 2
    MaxAdds = 2
PROPERTY
    SaveOnlyCreates
\* Once the visits are used up, the list of groups is the end.
CHECK_DEADLOCK FALSE
