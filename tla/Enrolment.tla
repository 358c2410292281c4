----------------------------- MODULE Enrolment ------------------------------
(***************************************************************************)
(* What the screen of a group relies on from the screens of a person above *)
(* it, and all that module GroupScreen keeps of them: somebody is created, *)
(* faces are listed by calls that may be answered long after the screen    *)
(* was left, each call lists at most one, the last face may be deleted,    *)
(* and whoever has a face when the screen disappears joins the roster.     *)
(* Creating a person and deleting a face keep a HUD up until they are      *)
(* answered; the edge swipe leaves the screen under it.                    *)
(***************************************************************************)
EXTENDS Integers

CONSTANTS
    Person, NoPerson,
    MaxAdds            \* bound of the model

VARIABLES
    onTop,        \* a person's screen is up
    person,       \* whose; or whose it was
    waiting,      \* for the answer to a creation or a deletion: the HUD
    used,         \* the persons the service has created
    roster,       \* the persons of the group
    hasFace,      \* the persons with a face listed
    adds,         \* calls of addFace that may still list a face
    needTraining

vars == <<onTop, person, waiting, used, roster, hasFace, adds, needTraining>>

\* "Add Person", or a tap on a face of a person.
Open(p) ==
    /\ ~onTop /\ waiting = "none"
    /\ p = NoPerson \/ p \in roster \cap hasFace
    /\ onTop' = TRUE
    /\ person' = p
    /\ UNCHANGED <<waiting, used, roster, hasFace, adds, needTraining>>

CreatePerson ==
    /\ onTop /\ waiting = "none" /\ person = NoPerson
    /\ waiting' = "person"
    /\ UNCHANGED <<onTop, person, used, roster, hasFace, adds, needTraining>>

\* A person is created; nobody will know if the answer was an error.
PersonCreated(p) ==
    /\ waiting = "person"
    /\ waiting' = "none"
    /\ p \notin used
    /\ used' = used \cup {p}
    /\ person' \in {person, p}
    /\ UNCHANGED <<onTop, roster, hasFace, adds, needTraining>>

\* Nothing came of it, or the deleted face was not the last.
NothingDone ==
    /\ waiting # "none"
    /\ waiting' = "none"
    /\ UNCHANGED <<onTop, person, used, roster, hasFace, adds, needTraining>>

AddFace(n) ==
    /\ onTop /\ person # NoPerson
    /\ \A a \in adds : a.tap # n
    /\ adds' = adds \cup {[tap |-> n, person |-> person]}
    /\ UNCHANGED <<onTop, person, waiting, used, roster, hasFace, needTraining>>

\* One of the requests lists the face, or all have failed.
AddAnswered(a, ok) ==
    /\ adds' = adds \ {a}
    /\ IF ok THEN hasFace' = hasFace \cup {a.person} /\ needTraining' = TRUE
             ELSE UNCHANGED <<hasFace, needTraining>>
    /\ UNCHANGED <<onTop, person, waiting, used, roster>>

DeleteFace ==
    /\ onTop /\ waiting = "none" /\ person \in hasFace
    /\ waiting' = "face"
    /\ UNCHANGED <<onTop, person, used, roster, hasFace, adds, needTraining>>

FacesDeleted ==
    /\ waiting = "face"
    /\ waiting' = "none"
    /\ hasFace' = hasFace \ {person}
    /\ UNCHANGED <<onTop, person, used, roster, adds, needTraining>>

\* The screen is left, or covered.
PersonDisappears ==
    /\ onTop
    /\ roster' = roster \cup ({person} \cap hasFace)
    /\ \/ onTop' = FALSE
       \/ waiting = "none" /\ UNCHANGED onTop
    /\ UNCHANGED <<person, waiting, used, hasFace, adds, needTraining>>

Init ==
    /\ onTop = FALSE
    /\ person = NoPerson /\ waiting = "none"
    /\ used = {} /\ roster = {} /\ hasFace = {} /\ adds = {}
    /\ needTraining = FALSE

Next ==
    \/ \E p \in Person \cup {NoPerson} : Open(p)
    \/ CreatePerson \/ NothingDone
    \/ \E p \in Person : PersonCreated(p)
    \/ \E n \in 1..MaxAdds : AddFace(n)
    \/ \E a \in adds, ok \in BOOLEAN : AddAnswered(a, ok)
    \/ DeleteFace \/ FacesDeleted \/ PersonDisappears

Spec == Init /\ [][Next]_vars
=============================================================================
