------------------------------ MODULE GroupScreen ------------------------------
(***************************************************************************)
(* Keeping groups: MPOPersonGroupListController (the list of groups) and   *)
(* MPOPersonGroupController (one group: its name, its persons, saving and  *)
(* training), with the back button of MPOMainNavigationController.         *)
(*                                                                         *)
(* A group controller is made for each visit; the flag needTraining it     *)
(* allocates is handed to the person screens and outlives it, as the       *)
(* blocks of late answers do.  The person screens are module PersonScreen; *)
(* here they are what the group sees of them: a person is created, faces   *)
(* are listed and deleted, the screen is left.                             *)
(*                                                                         *)
(* A HUD is a view inside the navigation controller's, so it takes the     *)
(* taps, the ones on the back button too; the edge swipe is a gesture of   *)
(* that outer view itself, and goes on under a HUD.  An alert is above     *)
(* both.                                                                   *)
(*                                                                         *)
(* A notice for a screen that was left has no view, and ends the app in a  *)
(* build with assertions (MBProgressHUD.m:213).  Such a run is a beginning *)
(* of one here, and is not told apart.                                     *)
(*                                                                         *)
(* Left out: empty name fields (a notice and nothing else), names, the     *)
(* sheet that picks a person for the verification screen, and FirebaseBrain*)
(* (_brain is nil: line 78 of the controller is commented out).            *)
(***************************************************************************)
EXTENDS Integers, Sequences, FiniteSets, SequencesExt

CONSTANTS
    Group, NoGroup,     \* groups by their uuid; self.group is nil
    Person, NoPerson,   \* persons the service may create; self.person is nil
    MaxVisits, MaxAdds  \* bounds of the model

ASSUME GroupAssumption ==
    /\ NoGroup \notin Group /\ NoPerson \notin Person
    /\ MaxVisits \in Nat /\ MaxAdds \in Nat

VARIABLES
    groups,       \* GLOBAL.groups
    people,       \* people[g]: group.people
    hasFace,      \* persons with a face listed
    used,         \* persons the service has created
    screen,       \* "list", "group" or "person", the screens above included
    visit,        \* number of the latest group controller
    group,        \* its self.group
    intension,    \* its _intension: "save" or "add"
    shouldExit,   \* its _shouldExit
    needTraining, \* needTraining[v]: *self.needTraining of controller v
    person,       \* self.person of the person screen
    alert,        \* the alert that is up: "none", "create" or "save"
    request,      \* the request under way, with its HUD
    adds,         \* calls of addFace that may still list a face
    unsaved,      \* groups with a face listed since training was last accepted,
                  \* in time for the back button to ask about it (history)
    excused,      \* those of them left without a question, or to no avail
                  \* (history)
    removed       \* persons whose deletion was confirmed (history)

rosterVars == <<groups, people, hasFace, used>>
memberVars == <<visit, group, intension, shouldExit>>
historyVars == <<unsaved, excused, removed>>
vars == <<groups, people, hasFace, used, screen, visit, group, intension,
          shouldExit, needTraining, person, alert, request, adds, unsaved,
          excused, removed>>

Visit == 1..MaxVisits

\* A request: what for, the button it comes from (history), the person it
\* deletes, and whether every face listed so far was there when it was sent
\* (history).
NoRequest == [op |-> "none", from |-> "none", index |-> 0,
              person |-> NoPerson, covers |-> TRUE]
Sent(op, from) == [NoRequest EXCEPT !.op = op, !.from = from]

\* An alert, or a HUD over the navigation controller's view: no taps.
Blocked == alert # "none" \/ request # NoRequest

\* The group is left although a face of it was not trained.
GivenUp == excused' = excused \cup ({group} \cap unsaved)

-----------------------------------------------------------------------------
(* The list of groups. *)

\* A new controller: its members are zero, its flag is freshly allocated.
Show(g) ==
    /\ ~Blocked /\ screen = "list" /\ visit < MaxVisits
    /\ visit' = visit + 1
    /\ group' = g
    /\ intension' = "save"
    /\ shouldExit' = FALSE
    /\ needTraining' = [needTraining EXCEPT ![visit + 1] = FALSE]
    /\ screen' = "group"
    /\ UNCHANGED <<rosterVars, person, alert, request, adds, historyVars>>

AddGroup == Show(NoGroup)
OpenGroup(g) == g \in groups /\ Show(g)

-----------------------------------------------------------------------------
(* Creating a group. *)

AddPerson ==
    /\ ~Blocked /\ screen = "group"
    /\ IF group = NoGroup
         THEN /\ alert' = "create" /\ intension' = "add"
              /\ UNCHANGED <<screen, person>>
         ELSE /\ screen' = "person" /\ person' = NoPerson
              /\ UNCHANGED <<alert, intension>>
    /\ UNCHANGED <<rosterVars, visit, group, shouldExit, needTraining, request,
                   adds, historyVars>>

\* The person screen comes up although there is no group.
PushesAnyway(ok) == IF intension = "add" /\ screen = "group" THEN "person" ELSE screen

\* A controller that was left has no navigation controller to push with.
ScreenAfterCreate(ok) ==
    IF ok /\ intension = "add" /\ screen = "group" THEN "person" ELSE screen

\* The group is listed, and the person screen comes up if that was meant.
CreateAnswered(g, ok) ==
    /\ request.op = "create"
    /\ ok => g \notin groups
    /\ request' = NoRequest
    /\ IF ok THEN group' = g /\ groups' = groups \cup {g}
             ELSE UNCHANGED <<group, groups>>
    /\ screen' = ScreenAfterCreate(ok)
    /\ UNCHANGED <<people, hasFace, used, visit, intension, shouldExit,
                   needTraining, person, alert, adds, historyVars>>

\* "Yes" to "Do you want to create this new group?"
CreateYes ==
    /\ alert = "create"
    /\ alert' = "none"
    /\ request' = Sent("create", "add")
    /\ UNCHANGED <<rosterVars, screen, memberVars, needTraining, person, adds,
                   historyVars>>

\* "No" to either alert: clickedButtonAtIndex does nothing.
AlertNo ==
    /\ alert # "none"
    /\ alert' = "none"
    /\ UNCHANGED <<rosterVars, screen, memberVars, needTraining, person,
                   request, adds, historyVars>>

\* The system takes the alert away: alertViewCancel leaves the screen if the
\* question was the one of the back button, as if it had been answered.
AlertCancelled ==
    /\ alert # "none"
    /\ alert' = "none"
    /\ IF alert = "save" THEN screen' = "list" /\ GivenUp
                         ELSE UNCHANGED <<screen, excused>>
    /\ UNCHANGED <<rosterVars, memberVars, needTraining, person, request, adds,
                   unsaved, removed>>

-----------------------------------------------------------------------------
(* Saving, training, leaving. *)

Save ==
    /\ ~Blocked /\ screen = "group"
    /\ request' = IF group = NoGroup THEN Sent("create", "save")
                                     ELSE Sent("update", "save")
    /\ UNCHANGED <<rosterVars, screen, memberVars, needTraining, person, alert,
                   adds, historyVars>>

\* Whether leaving was meant some time ago is not forgotten.
ExitAsBefore == shouldExit
ExitAfterSave == FALSE

\* (A training sent after the screen was left has no HUD and changes nothing
\* here when it is answered: it is not followed.)
UpdateAnswered(ok) ==
    /\ request.op = "update"
    /\ shouldExit' = IF ok THEN ExitAfterSave ELSE shouldExit
    /\ request' = IF ok /\ screen = "group" THEN Sent("train", "save") ELSE NoRequest
    /\ UNCHANGED <<rosterVars, screen, visit, group, intension, needTraining,
                   person, alert, adds, historyVars>>

\* The HUD of a training that failed stays, with nothing to answer it.
RequestKept(ok) == IF ok THEN NoRequest ELSE [request EXCEPT !.op = "none"]
RequestAnswered(ok) == NoRequest

\* The screen is left after a failure as well.
TrainAnswered(ok) ==
    /\ request.op = "train"
    /\ request' = RequestAnswered(ok)
    /\ screen' = IF shouldExit THEN "list" ELSE screen
    /\ unsaved' = IF ok /\ (shouldExit \/ request.covers)
                    THEN unsaved \ {group} ELSE unsaved
    /\ IF shouldExit /\ ~ok THEN GivenUp ELSE excused' = excused \cap unsaved'
    /\ UNCHANGED <<rosterVars, memberVars, needTraining, person, alert, adds,
                   removed>>

\* Not asking for a group without persons.
AsksIfPeople == needTraining[visit] /\ people[group] # <<>>
Asks == needTraining[visit]

\* The back button of a group: navigationShouldPopOnBackButton.
Back ==
    /\ ~Blocked /\ screen = "group"
    /\ IF Asks
         THEN alert' = "save" /\ shouldExit' = TRUE /\ UNCHANGED screen
         ELSE screen' = "list" /\ UNCHANGED <<alert, shouldExit>>
    /\ UNCHANGED <<rosterVars, visit, group, intension, needTraining, person,
                   request, adds, historyVars>>

\* The edge swipe: the controller is popped already when the bar asks
\* (navigationBar:shouldPopItem:), and navigationShouldPopOnBackButton is not
\* called.  An answer under way finds the controller left.
Swipe ==
    /\ alert = "none" /\ screen = "group"
    /\ screen' = "list"
    /\ GivenUp
    /\ UNCHANGED <<rosterVars, memberVars, needTraining, person, alert, request,
                   adds, unsaved, removed>>

\* "Yes" to "Do you want to save this group?"
SaveYes ==
    /\ alert = "save"
    /\ alert' = "none"
    /\ request' = Sent("train", "back")
    /\ UNCHANGED <<rosterVars, screen, memberVars, needTraining, person, adds,
                   historyVars>>

-----------------------------------------------------------------------------
(* Deleting a person: a long press on one of the faces, and "Yes". *)

DeletePerson(i) ==
    /\ ~Blocked /\ screen = "group" /\ group # NoGroup
    /\ i \in DOMAIN people[group]
    /\ people[group][i] \in hasFace
    /\ request' = [Sent("delete", "press") EXCEPT
                      !.index = i, !.person = people[group][i]]
    /\ UNCHANGED <<rosterVars, screen, memberVars, needTraining, person, alert,
                   adds, historyVars>>

\* The last person, whoever was pressed.
LastIndex == Len(people[group])
SelectedIndex == request.index

DeleteAnswered(ok) ==
    /\ request.op = "delete"
    /\ request' = NoRequest
    /\ IF ok THEN /\ people' = [people EXCEPT ![group] = RemoveAt(@, SelectedIndex)]
                  /\ removed' = removed \cup {request.person}
             ELSE UNCHANGED <<people, removed>>
    /\ UNCHANGED <<groups, hasFace, used, screen, memberVars, needTraining,
                   person, alert, adds, unsaved, excused>>

-----------------------------------------------------------------------------
(* The screens of a person. *)

\* A tap on one of the faces of a person.
OpenPerson(i) ==
    /\ ~Blocked /\ screen = "group" /\ group # NoGroup
    /\ i \in DOMAIN people[group]
    /\ people[group][i] \in hasFace
    /\ person' = people[group][i]
    /\ screen' = "person"
    /\ UNCHANGED <<rosterVars, memberVars, needTraining, alert, request, adds,
                   historyVars>>

CreatePerson ==
    /\ ~Blocked /\ screen = "person" /\ person = NoPerson
    /\ Person \ used # {}
    /\ request' = Sent("person", "save")
    /\ UNCHANGED <<rosterVars, screen, memberVars, needTraining, person, alert,
                   adds, historyVars>>

\* Nobody will know the person if the answer was an error, or if the screen
\* was left meanwhile.
PersonCreated(p, ok) ==
    /\ request.op = "person"
    /\ p \in Person \ used
    /\ request' = NoRequest
    /\ used' \in {used \cup {p}} \cup (IF ok THEN {} ELSE {used})
    /\ person' = IF ok /\ screen = "person" THEN p ELSE person
    /\ UNCHANGED <<groups, people, hasFace, screen, memberVars, needTraining,
                   alert, adds, historyVars>>

\* The requests of a tap go out; the HUD may be gone before any succeeds.
AddFace ==
    /\ ~Blocked /\ screen = "person" /\ person # NoPerson
    /\ \E n \in 1..MaxAdds :
          /\ 1..n \ {a.tap : a \in adds} = {n}
          /\ adds' = adds \cup {[tap |-> n, visit |-> visit, group |-> group,
                                person |-> person]}
    /\ UNCHANGED <<rosterVars, screen, memberVars, needTraining, person, alert,
                   request, historyVars>>

\* The controller the face was added under was left, or is being left.
Late(a) ==
    \/ a.visit # visit
    \/ screen = "list"
    \/ request.op = "train" /\ shouldExit

\* One of the requests lists the face, or all have failed.
AddAnswered(a, ok) ==
    /\ a \in adds
    /\ adds' = adds \ {a}
    /\ IF ok
         THEN /\ hasFace' = hasFace \cup {a.person}
              /\ needTraining' = [needTraining EXCEPT ![a.visit] = TRUE]
              /\ IF Late(a) THEN UNCHANGED <<unsaved, excused>>
                            ELSE /\ unsaved' = unsaved \cup {a.group}
                                 /\ excused' = excused \ {a.group}
              /\ request' = [request EXCEPT !.covers = @ /\ request.op # "train"]
         ELSE UNCHANGED <<hasFace, needTraining, unsaved, excused, request>>
    /\ UNCHANGED <<groups, people, used, screen, memberVars, person, alert,
                   removed>>

\* A long press on one of the person's faces, and "Yes".
DeleteFace ==
    /\ ~Blocked /\ screen = "person" /\ person \in hasFace
    /\ request' = [Sent("face", "press") EXCEPT !.person = person]
    /\ UNCHANGED <<rosterVars, screen, memberVars, needTraining, person, alert,
                   adds, historyVars>>

\* It was the last face, or it was not; training is not asked for.
FaceDeleted(last) ==
    /\ request.op = "face"
    /\ request' = NoRequest
    /\ hasFace' = IF last THEN hasFace \ {request.person} ELSE hasFace
    /\ UNCHANGED <<groups, people, used, screen, memberVars, needTraining,
                   person, alert, adds, historyVars>>

\* Not looking whether the person is there already.
JoinsAgain == person \in hasFace
Joins == person \in hasFace /\ person \notin ToSet(people[group])

\* The person screen is left, by a swipe even under a HUD, or it is covered.
PersonDisappears ==
    /\ screen = "person"
    /\ people' = IF Joins THEN [people EXCEPT ![group] = Append(@, person)]
                          ELSE people
    /\ \/ screen' = "group" /\ person' = NoPerson
       \/ ~Blocked /\ UNCHANGED <<screen, person>>
    /\ UNCHANGED <<groups, hasFace, used, memberVars, needTraining, alert,
                   request, adds, historyVars>>

-----------------------------------------------------------------------------
Init ==
    /\ groups = {}
    /\ people = [g \in Group |-> <<>>]
    /\ hasFace = {} /\ used = {}
    /\ screen = "list"
    /\ visit = 0
    /\ group = NoGroup
    /\ intension = "save"
    /\ shouldExit = FALSE
    /\ needTraining = [v \in Visit |-> FALSE]
    /\ person = NoPerson
    /\ alert = "none"
    /\ request = NoRequest
    /\ adds = {}
    /\ unsaved = {} /\ excused = {}
    /\ removed = {}

Answered ==
    \/ \E g \in Group, ok \in BOOLEAN : CreateAnswered(g, ok)
    \/ \E ok \in BOOLEAN : UpdateAnswered(ok) \/ TrainAnswered(ok) \/ DeleteAnswered(ok)
    \/ \E p \in Person, ok \in BOOLEAN : PersonCreated(p, ok)
    \/ \E last \in BOOLEAN : FaceDeleted(last)

AlertAnswered == CreateYes \/ SaveYes \/ AlertNo \/ AlertCancelled

Next ==
    \/ AddGroup \/ (\E g \in Group : OpenGroup(g))
    \/ AddPerson \/ Save \/ Back \/ Swipe
    \/ (\E g \in Group : \E i \in DOMAIN people[g] : DeletePerson(i) \/ OpenPerson(i))
    \/ CreatePerson \/ AddFace \/ DeleteFace \/ PersonDisappears
    \/ (\E a \in adds, ok \in BOOLEAN : AddAnswered(a, ok))
    \/ Answered \/ AlertAnswered

Spec == Init /\ [][Next]_vars

\* Every request is answered, and every alert, be it by the system.
FairSpec == Spec /\ WF_vars(Answered) /\ WF_vars(AlertAnswered)

-----------------------------------------------------------------------------
(* Properties. *)

Request ==
    [op : {"none", "create", "update", "train", "delete", "person", "face"},
     from : {"none", "add", "save", "back", "press"},
     index : Nat, person : Person \cup {NoPerson}, covers : BOOLEAN]

\* The variables have the types of the controllers' members.
TypeOK ==
    /\ groups \subseteq Group
    /\ people \in [Group -> Seq(Person)]
    /\ hasFace \subseteq Person /\ used \subseteq Person
    /\ screen \in {"list", "group", "person"}
    /\ visit \in 0..MaxVisits
    /\ group \in Group \cup {NoGroup}
    /\ intension \in {"save", "add"}
    /\ shouldExit \in BOOLEAN
    /\ needTraining \in [Visit -> BOOLEAN]
    /\ person \in Person \cup {NoPerson}
    /\ alert \in {"none", "create", "save"}
    /\ request \in Request
    /\ adds \subseteq [tap : 1..MaxAdds, visit : Visit, group : Group, person : Person]
    /\ unsaved \subseteq Group /\ excused \subseteq Group
    /\ removed \subseteq Person

\* A face that was listed in time is not forgotten: its group is trained, or
\* is the one on display and the back button will ask.  The code's excuses,
\* all in "excused": the group was left by the edge swipe, which asks nothing;
\* the system took the question away; or the training failed with which the
\* user left.  And "in time" is before the screen is left (see Late).
UnsavedAsked ==
    \A g \in unsaved \ excused : g = group /\ screen # "list" /\ needTraining[visit]

\* A confirmed deletion takes away the person who was pressed, for good.
DeletedPersonGone ==
    \A g \in Group : ToSet(people[g]) \cap removed = {}

\* Nobody is on a roster twice.
RosterDistinct ==
    \A g \in Group : \A i, j \in DOMAIN people[g] :
        people[g][i] = people[g][j] => i = j

\* The answer to a training that "Save" began does not leave the screen, the
\* answer to one that the back button began does, although both use one block
\* and one flag.
OnlyBackLeaves ==
    [][ request.op = "train" /\ request'.op = "none" /\ screen = "group" =>
          (screen' = "list" <=> request.from = "back") ]_vars

\* Alerts and HUDs go away.
Unblocks == Blocked ~> ~Blocked

\* "Group created" (MPOPersonGroupController.m:251) is all that the answer to
\* saving a new group does: it stays on the group's screen.
SaveOnlyCreates ==
    [][ request.op = "create" /\ request.from = "save" /\ request'.op = "none" =>
          screen' = screen ]_vars
=============================================================================
