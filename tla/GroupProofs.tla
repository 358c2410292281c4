------------------------------ MODULE GroupProofs ------------------------------
(***************************************************************************)
(* The group's screen, for any number of groups, persons, visits and adds. *)
(*                                                                         *)
(* Two strengthenings carry the proofs:                                    *)
(*   ControllerInv  ties alerts and requests to the members of the         *)
(*                  controller on display, and adds to the controller they *)
(*                  were made under;                                       *)
(*   RosterInv      says that a person the service created is on at most   *)
(*                  one roster, once, and never after being deleted.       *)
(***************************************************************************)
EXTENDS GroupScreen, SequenceLemmas

\* What is up over which screen.
DialogInv ==
    /\ screen = "person" => group \in Group
    /\ screen # "person" => person = NoPerson
    /\ screen # "list" => visit \in Visit
    /\ request.op # "none" => alert = "none"
    /\ request.op \in {"create", "update", "train", "delete"} => screen # "person"
    /\ request.op = "person" => person = NoPerson
    /\ alert # "none" => screen = "group" /\ request.op = "none"
    /\ alert = "create" \/ request.op = "create" => group = NoGroup
    /\ alert = "save" => shouldExit /\ group \in Group
    /\ request.op \in {"update", "train", "delete"} => group \in Group

\* Leaving after training is meant exactly when the back button asked.
ExitInv ==
    request.op = "train" =>
        request.from \in {"save", "back"} /\ (shouldExit <=> request.from = "back")

\* Adds of this visit are for its group; only they make it ask for training.
AddInv ==
    /\ \A a \in adds : a.visit <= visit /\ (a.visit = visit => a.group = group)
    /\ screen # "list" /\ needTraining[visit] => group \in Group

\* A deletion under way is for the person at its index.
DeleteInv ==
    request.op = "delete" =>
        /\ request.index \in DOMAIN people[group]
        /\ people[group][request.index] = request.person

ControllerInv ==
    TypeOK /\ DialogInv /\ ExitInv /\ AddInv /\ DeleteInv /\ UnsavedAsked

\* A person has one place on one roster; the one on the person screen may
\* only have it on the group on display.
PlacesInv ==
    /\ \A g, h \in Group : \A i \in DOMAIN people[g], j \in DOMAIN people[h] :
          people[g][i] = people[h][j] => g = h /\ i = j
    /\ \A g \in Group : \A i \in DOMAIN people[g] :
          people[g][i] \in used \ removed
    /\ person # NoPerson =>
          /\ person \in used \ removed
          /\ \A g \in Group : \A i \in DOMAIN people[g] :
                people[g][i] = person => g = group
    /\ removed \subseteq used

RosterInv == ControllerInv /\ PlacesInv

-----------------------------------------------------------------------------
(* Types and dialogs. *)

\* What is sent is a request.
LEMMA SentType ==
    ASSUME NEW op \in {"none", "create", "update", "train", "delete", "person", "face"},
           NEW from \in {"none", "add", "save", "back", "press"}
    PROVE  /\ Sent(op, from) \in Request
           /\ Sent(op, from).op = op /\ Sent(op, from).from = from
           /\ NoRequest \in Request /\ NoRequest.op = "none"
BY DEF Sent, NoRequest, Request

\* Nothing is up: no alert, no request.
LEMMA NotBlocked ==
    ASSUME ~Blocked PROVE alert = "none" /\ request = NoRequest /\ request.op = "none"
BY DEF Blocked, NoRequest

LEMMA InitController == Init => ControllerInv
<1> SUFFICES ASSUME Init PROVE ControllerInv
  OBVIOUS
<1>1. request \in Request /\ request.op = "none"
  BY SentType DEF Init
<1>2. people \in [Group -> Seq(Person)] /\ visit \in 0..MaxVisits
  BY GroupAssumption DEF Init
<1>3. needTraining \in [Visit -> BOOLEAN]
  BY DEF Init
<1> QED
  BY <1>1, <1>2, <1>3
  DEF Init, ControllerInv, TypeOK, DialogInv, ExitInv, DeleteInv, AddInv, UnsavedAsked

\* Showing a controller.
LEMMA ShowController ==
    ASSUME ControllerInv, NEW g \in Group \cup {NoGroup}, Show(g)
    PROVE  ControllerInv'
<1>1. /\ alert' = "none" /\ request'.op = "none" /\ request' = request
      /\ screen' = "group" /\ visit' = visit + 1 /\ group' = g /\ adds' = adds
      /\ screen = "list" /\ unsaved' = unsaved /\ excused' = excused
  BY NotBlocked DEF Show, historyVars
<1>2. visit' \in Visit /\ visit' \in 0..MaxVisits /\ visit \in Nat
  BY GroupAssumption DEF Show, ControllerInv, TypeOK, Visit
<1>3. needTraining' \in [Visit -> BOOLEAN] /\ ~needTraining'[visit']
  BY <1>2 DEF Show, ControllerInv, TypeOK
<1>4. TypeOK'
  BY <1>1, <1>2, <1>3 DEF Show, ControllerInv, TypeOK, rosterVars, historyVars
<1>5. DialogInv'
  BY <1>1, <1>2 DEF Show, ControllerInv, DialogInv
<1>6. AddInv'
  <2>1. \A a \in adds : a.visit <= visit /\ a.visit \in Nat
    BY GroupAssumption DEF ControllerInv, AddInv, TypeOK, Visit
  <2> QED
    BY <2>1, <1>1, <1>2, <1>3 DEF AddInv
<1>7. UnsavedAsked'
  BY <1>1 DEF ControllerInv, UnsavedAsked
<1> QED
  BY <1>1, <1>4, <1>5, <1>6, <1>7 DEF ControllerInv, ExitInv, DeleteInv

\* The buttons of the group's screen that only open something.
LEMMA ButtonController ==
    ASSUME ControllerInv, AddPerson \/ Save \/ Back
    PROVE  ControllerInv'
<1>1. alert = "none" /\ request.op = "none" /\ screen = "group"
  BY NotBlocked DEF AddPerson, Save, Back
<1>2. CASE AddPerson
  BY <1>1, <1>2 DEF AddPerson, ControllerInv, TypeOK, DialogInv, ExitInv, DeleteInv,
     AddInv, UnsavedAsked, rosterVars, historyVars
<1>3. CASE Save
  <2>1. /\ request' \in Request
        /\ request'.op \in {"create", "update"}
        /\ request'.op = "create" => group = NoGroup
        /\ request'.op = "update" => group # NoGroup
    BY <1>3, SentType DEF Save
  <2> QED
    BY <1>1, <1>3, <2>1 DEF Save, ControllerInv, TypeOK, DialogInv, ExitInv, DeleteInv,
       AddInv, UnsavedAsked, rosterVars, memberVars, historyVars
<1>4. CASE Back
  <2>1. CASE Asks
    BY <1>1, <1>4, <2>1 DEF Back, Asks, ControllerInv, TypeOK, DialogInv,
       ExitInv, DeleteInv, AddInv, UnsavedAsked, rosterVars, historyVars
  <2>2. CASE ~Asks
    <3>1. unsaved \ excused = {}
      BY <2>2 DEF Asks, ControllerInv, UnsavedAsked
    <3> QED
      BY <1>1, <1>4, <2>2, <3>1 DEF Back, Asks, ControllerInv, TypeOK,
         DialogInv, ExitInv, DeleteInv, AddInv, UnsavedAsked, rosterVars, historyVars
  <2> QED
    BY <2>1, <2>2
<1> QED
  BY <1>2, <1>3, <1>4

\* The edge swipe, with or without a request under way.
LEMMA SwipeController ==
    ASSUME ControllerInv, Swipe
    PROVE  ControllerInv'
<1>1. (unsaved \ excused)' = {} /\ excused' \subseteq Group
  BY DEF Swipe, GivenUp, ControllerInv, TypeOK, UnsavedAsked
<1> QED
  BY <1>1 DEF Swipe, ControllerInv, TypeOK, DialogInv, ExitInv, DeleteInv, AddInv,
     UnsavedAsked, rosterVars, memberVars

\* The alerts are answered.
LEMMA AlertController ==
    ASSUME ControllerInv, AlertAnswered
    PROVE  ControllerInv'
<1>1. CASE CreateYes
  <2>1. /\ request' \in Request /\ request'.op = "create"
        /\ alert = "create" /\ alert' = "none"
    BY <1>1, SentType DEF CreateYes
  <2> QED
    BY <1>1, <2>1 DEF CreateYes, ControllerInv, TypeOK, DialogInv, ExitInv, DeleteInv,
       AddInv, UnsavedAsked, rosterVars, memberVars, historyVars
<1>2. CASE SaveYes
  <2>1. /\ request' \in Request /\ request'.op = "train" /\ request'.from = "back"
        /\ alert = "save" /\ alert' = "none"
    BY <1>2, SentType DEF SaveYes
  <2> QED
    BY <1>2, <2>1 DEF SaveYes, ControllerInv, TypeOK, DialogInv, ExitInv, DeleteInv,
       AddInv, UnsavedAsked, rosterVars, memberVars, historyVars
<1>3. CASE AlertNo
  BY <1>3 DEF AlertNo, ControllerInv, TypeOK, DialogInv, ExitInv, DeleteInv,
     AddInv, UnsavedAsked, rosterVars, memberVars, historyVars
<1>4. CASE AlertCancelled
  <2>1. alert' = "none" /\ screen = "group" /\ request.op = "none"
    BY <1>4 DEF AlertCancelled, ControllerInv, DialogInv
  <2>2. CASE alert = "save"
    <3>1. (unsaved \ excused)' = {} /\ excused' \subseteq Group /\ screen' = "list"
      BY <1>4, <2>2 DEF AlertCancelled, GivenUp, ControllerInv, TypeOK, UnsavedAsked
    <3> QED
      BY <1>4, <2>1, <3>1 DEF AlertCancelled, ControllerInv, TypeOK, DialogInv,
         ExitInv, DeleteInv, AddInv, UnsavedAsked, rosterVars, memberVars
  <2>3. CASE alert # "save"
    BY <1>4, <2>1, <2>3 DEF AlertCancelled, ControllerInv, TypeOK, DialogInv,
       ExitInv, DeleteInv, AddInv, UnsavedAsked, rosterVars, memberVars
  <2> QED
    BY <2>2, <2>3
<1> QED
  BY <1>1, <1>2, <1>3, <1>4 DEF AlertAnswered

\* The service answers a request of the controller.
LEMMA AnswerController ==
    ASSUME ControllerInv, Answered
    PROVE  ControllerInv'
<1> USE DEF ControllerInv
<1>1. ASSUME NEW g \in Group, NEW ok \in BOOLEAN, CreateAnswered(g, ok)
      PROVE  ControllerInv'
  <2>1. /\ request' \in Request /\ request'.op = "none" /\ alert = "none"
        /\ group = NoGroup /\ screen # "person" /\ unsaved \ excused = {}
    BY <1>1, SentType, GroupAssumption
    DEF CreateAnswered, DialogInv, UnsavedAsked, TypeOK
  <2>2. \A a \in adds : a.visit # visit
    BY <2>1, GroupAssumption DEF AddInv, TypeOK
  <2>3. screen = "list" \/ ~needTraining[visit]
    BY <2>1, GroupAssumption DEF AddInv
  <2>4. CASE ok /\ intension = "add" /\ screen = "group"
    BY <1>1, <2>1, <2>2, <2>3, <2>4 DEF CreateAnswered, ScreenAfterCreate,
       TypeOK, DialogInv, ExitInv, DeleteInv, AddInv, UnsavedAsked, historyVars
  <2>5. CASE ~(ok /\ intension = "add" /\ screen = "group")
    BY <1>1, <2>1, <2>2, <2>3, <2>5 DEF CreateAnswered, ScreenAfterCreate,
       TypeOK, DialogInv, ExitInv, DeleteInv, AddInv, UnsavedAsked, historyVars
  <2> QED
    BY <2>4, <2>5
<1>2. ASSUME NEW ok \in BOOLEAN, UpdateAnswered(ok)
      PROVE  ControllerInv'
  <2>1. /\ request.op = "update" /\ request' \in Request
        /\ request'.op \in {"none", "train"}
        /\ request'.op = "train" => request'.from = "save" /\ shouldExit' = FALSE
        /\ shouldExit' \in BOOLEAN
    <3>1. /\ NoRequest \in Request /\ NoRequest.op = "none"
          /\ Sent("train", "save") \in Request
          /\ Sent("train", "save").op = "train"
          /\ Sent("train", "save").from = "save"
      BY SentType
    <3> QED
      BY <1>2, <3>1 DEF UpdateAnswered, ExitAfterSave, TypeOK
  <2> QED
    BY <1>2, <2>1 DEF UpdateAnswered, TypeOK, DialogInv, ExitInv, DeleteInv, AddInv,
       UnsavedAsked, rosterVars, historyVars
<1>3. ASSUME NEW ok \in BOOLEAN, TrainAnswered(ok)
      PROVE  ControllerInv'
  <2>1. /\ request.op = "train" /\ request' \in Request /\ request'.op = "none"
        /\ screen # "person" /\ screen' \in {screen, "list"}
        /\ unsaved \ excused \subseteq {group}
    BY <1>3, SentType DEF TrainAnswered, RequestAnswered, DialogInv, UnsavedAsked
  <2>2. unsaved' \subseteq unsaved /\ excused' \subseteq Group
    BY <1>3 DEF TrainAnswered, GivenUp, TypeOK
  <2>3. (unsaved \ excused)' \subseteq unsaved \ excused
    BY <1>3, <2>2 DEF TrainAnswered, GivenUp
  <2>4. shouldExit => (unsaved \ excused)' = {}
    BY <1>3, <2>1 DEF TrainAnswered, GivenUp
  <2> QED
    BY <1>3, <2>1, <2>2, <2>3, <2>4 DEF TrainAnswered, TypeOK, DialogInv, ExitInv, DeleteInv, AddInv,
       UnsavedAsked, rosterVars, memberVars
<1>4. ASSUME NEW ok \in BOOLEAN, DeleteAnswered(ok)
      PROVE  ControllerInv'
  <2>1. /\ request.op = "delete" /\ request' \in Request /\ request'.op = "none"
        /\ screen # "person" /\ group \in Group
    BY <1>4, SentType DEF DeleteAnswered, DialogInv
  <2>2. people' \in [Group -> Seq(Person)]
    <3>1. people[group] \in Seq(Person) /\ request.index \in 1..Len(people[group])
      BY <1>4, <2>1 DEF DeleteInv, TypeOK
    <3>2. RemoveAt(people[group], request.index) \in Seq(Person)
      BY <3>1, RemoveAtElements
    <3> QED
      BY <1>4, <3>2 DEF DeleteAnswered, SelectedIndex, TypeOK
  <2>3. removed' \subseteq Person
    <3>1. people[group] \in Seq(Person) /\ request.index \in DOMAIN people[group]
      BY <2>1 DEF DeleteInv, TypeOK
    <3>2. request.person \in Person
      BY <2>1, <3>1 DEF DeleteInv
    <3> QED
      BY <1>4, <3>2 DEF DeleteAnswered, TypeOK
  <2> QED
    BY <1>4, <2>1, <2>2, <2>3 DEF DeleteAnswered, TypeOK, DialogInv, ExitInv, DeleteInv,
       AddInv, UnsavedAsked, memberVars
<1>5. ASSUME NEW p \in Person, NEW ok \in BOOLEAN, PersonCreated(p, ok)
      PROVE  ControllerInv'
  <2>1. /\ request' \in Request /\ request'.op = "none" /\ request.op = "person"
        /\ used' \subseteq Person /\ person' \in Person \cup {NoPerson}
        /\ screen # "person" => person' = NoPerson
    BY <1>5, SentType DEF PersonCreated, TypeOK, DialogInv
  <2> QED
    BY <1>5, <2>1 DEF PersonCreated, TypeOK, DialogInv, ExitInv, DeleteInv, AddInv,
       UnsavedAsked, memberVars, historyVars
<1>6. ASSUME NEW last \in BOOLEAN, FaceDeleted(last)
      PROVE  ControllerInv'
  <2>1. /\ request' \in Request /\ request'.op = "none" /\ request.op = "face"
        /\ hasFace' \subseteq Person
    BY <1>6, SentType DEF FaceDeleted, TypeOK
  <2> QED
    BY <1>6, <2>1 DEF FaceDeleted, TypeOK, DialogInv, ExitInv, DeleteInv, AddInv,
       UnsavedAsked, memberVars, historyVars
<1> QED
  BY <1>1, <1>2, <1>3, <1>4, <1>5, <1>6 DEF Answered

\* A deletion is asked for.
LEMMA DeletePersonController ==
    ASSUME ControllerInv, NEW i \in Nat, DeletePerson(i)
    PROVE  ControllerInv'
<1>1. /\ alert = "none" /\ request.op = "none" /\ screen = "group"
      /\ group \in Group /\ i \in DOMAIN people[group]
  BY NotBlocked DEF DeletePerson, ControllerInv, TypeOK
<1>2. people[group][i] \in Person
  BY <1>1 DEF ControllerInv, TypeOK
<1>3. /\ request' \in Request /\ request'.op = "delete"
      /\ request'.index = i /\ request'.person = people[group][i]
  BY <1>2 DEF DeletePerson, Sent, NoRequest, Request
<1> QED
  BY <1>1, <1>3 DEF DeletePerson, ControllerInv, TypeOK, DialogInv, ExitInv,
     DeleteInv, AddInv, UnsavedAsked, rosterVars, memberVars, historyVars

\* The screens of a person: opened, left, covered.
LEMMA PersonController ==
    ASSUME ControllerInv,
           \/ \E i \in Nat : OpenPerson(i)
           \/ CreatePerson
           \/ DeleteFace
           \/ PersonDisappears
    PROVE  ControllerInv'
<1>1. ASSUME NEW i \in Nat, OpenPerson(i) PROVE ControllerInv'
  <2>1. /\ alert = "none" /\ request.op = "none" /\ screen = "group"
        /\ group \in Group /\ people[group][i] \in Person
    BY <1>1, NotBlocked DEF OpenPerson, ControllerInv, TypeOK
  <2> QED
    BY <1>1, <2>1 DEF OpenPerson, ControllerInv, TypeOK, DialogInv, ExitInv,
       DeleteInv, AddInv, UnsavedAsked, rosterVars, memberVars, historyVars
<1>2. CASE CreatePerson
  <2>1. /\ request' \in Request /\ request'.op = "person" /\ alert = "none"
        /\ screen = "person"
    BY <1>2, SentType, NotBlocked DEF CreatePerson
  <2> QED
    BY <1>2, <2>1 DEF CreatePerson, ControllerInv, TypeOK, DialogInv, ExitInv,
       DeleteInv, AddInv, UnsavedAsked, rosterVars, memberVars, historyVars
<1>3. CASE DeleteFace
  <2>1. /\ request' \in Request /\ request'.op = "face" /\ alert = "none"
        /\ screen = "person"
    BY <1>3, NotBlocked DEF DeleteFace, Sent, NoRequest, Request, ControllerInv, TypeOK
  <2> QED
    BY <1>3, <2>1 DEF DeleteFace, ControllerInv, TypeOK, DialogInv, ExitInv,
       DeleteInv, AddInv, UnsavedAsked, rosterVars, memberVars, historyVars
<1>4. CASE PersonDisappears
  <2>1. /\ screen = "person" /\ group \in Group /\ request.op # "delete"
        /\ alert = "none" /\ screen' \in {"group", "person"}
        /\ person' \in {person, NoPerson}
        /\ screen' = "group" => person' = NoPerson
    BY <1>4 DEF PersonDisappears, ControllerInv, DialogInv
  <2>2. people' \in [Group -> Seq(Person)]
    <3>1. CASE ~Joins
      BY <1>4, <3>1 DEF PersonDisappears, ControllerInv, TypeOK
    <3>2. CASE Joins
      <4>1. person \in Person /\ people[group] \in Seq(Person)
        BY <2>1, <3>2 DEF Joins, ControllerInv, TypeOK
      <4>2. Append(people[group], person) \in Seq(Person)
        BY <4>1
      <4> QED
        BY <1>4, <3>2, <4>2 DEF PersonDisappears, ControllerInv, TypeOK
    <3> QED
      BY <3>1, <3>2
  <2> QED
    BY <1>4, <2>1, <2>2 DEF PersonDisappears, ControllerInv, TypeOK, DialogInv,
       ExitInv, DeleteInv, AddInv, UnsavedAsked, memberVars, historyVars
<1> QED
  BY <1>1, <1>2, <1>3, <1>4

\* Faces are added, under this controller or an earlier one.
LEMMA AddController ==
    ASSUME ControllerInv,
           AddFace \/ \E a \in adds, ok \in BOOLEAN : AddAnswered(a, ok)
    PROVE  ControllerInv'
<1>1. CASE AddFace
  <2>1. /\ screen = "person" /\ group \in Group /\ visit \in Visit
        /\ person \in Person
    BY <1>1 DEF AddFace, ControllerInv, TypeOK, DialogInv
  <2>2. \A a \in adds' : a \in adds \/ (a.visit = visit /\ a.group = group)
    BY <1>1 DEF AddFace
  <2>3. adds' \subseteq [tap : 1..MaxAdds, visit : Visit, group : Group, person : Person]
    BY <1>1, <2>1 DEF AddFace, ControllerInv, TypeOK
  <2>4. AddInv'
    BY <1>1, <2>1, <2>2, GroupAssumption
    DEF AddFace, ControllerInv, TypeOK, AddInv, Visit, memberVars
  <2> QED
    BY <1>1, <2>3, <2>4 DEF AddFace, ControllerInv, TypeOK, DialogInv, ExitInv,
       DeleteInv, UnsavedAsked, rosterVars, memberVars, historyVars
<1>2. ASSUME NEW a \in adds, NEW ok \in BOOLEAN, AddAnswered(a, ok)
      PROVE  ControllerInv'
  <2>1. a \in [tap : 1..MaxAdds, visit : Visit, group : Group, person : Person]
    BY DEF ControllerInv, TypeOK
  <2>2. /\ request' \in Request /\ request'.op = request.op
        /\ request'.from = request.from /\ request'.index = request.index
        /\ request'.person = request.person
    <3>1. request \in Request
      BY DEF ControllerInv, TypeOK
    <3>2. CASE ok
      BY <1>2, <3>1, <3>2 DEF AddAnswered, Request
    <3>3. CASE ~ok
      BY <1>2, <3>1, <3>3 DEF AddAnswered
    <3> QED
      BY <3>2, <3>3
  <2>3. /\ needTraining' \in [Visit -> BOOLEAN]
        /\ \A v \in Visit : needTraining[v] => needTraining'[v]
        /\ \A v \in Visit : needTraining'[v] => needTraining[v] \/ v = a.visit
        /\ ok => needTraining'[a.visit]
    BY <1>2, <2>1 DEF AddAnswered, ControllerInv, TypeOK
  <2>4. hasFace' \subseteq Person /\ adds' \subseteq adds
    BY <1>2, <2>1 DEF AddAnswered, ControllerInv, TypeOK
  <2>5. /\ unsaved' \subseteq unsaved \cup {a.group} /\ excused' \subseteq Group
        /\ \A g \in (unsaved \ excused)' :
              \/ g \in unsaved \ excused
              \/ g = a.group /\ ok /\ a.visit = visit /\ screen # "list"
    BY <1>2, <2>1 DEF AddAnswered, Late, ControllerInv, TypeOK
  <2>6. UNCHANGED <<groups, people, used, screen, visit, group, intension,
                    shouldExit, person, alert, removed>>
    BY <1>2 DEF AddAnswered, memberVars
  <2>7. TypeOK'
    BY <2>1, <2>2, <2>3, <2>4, <2>5, <2>6 DEF ControllerInv, TypeOK
  <2>8. UnsavedAsked'
    <3> SUFFICES ASSUME NEW g \in (unsaved \ excused)'
                 PROVE  g = group /\ screen # "list" /\ needTraining'[visit]
      BY <2>6 DEF UnsavedAsked
    <3>1. CASE g \in unsaved \ excused
      BY <3>1, <2>3 DEF ControllerInv, UnsavedAsked, DialogInv
    <3>2. CASE g \notin unsaved \ excused
      <4>1. g = a.group /\ ok /\ a.visit = visit /\ screen # "list"
        BY <3>2, <2>5
      <4> QED
        BY <4>1, <2>3 DEF ControllerInv, AddInv
    <3> QED
      BY <3>1, <3>2
  <2>9. AddInv'
    <3>1. screen # "list" /\ needTraining'[visit] => group \in Group
      BY <2>1, <2>3 DEF ControllerInv, AddInv, DialogInv
    <3> QED
      BY <3>1, <2>4, <2>6 DEF ControllerInv, AddInv
  <2> QED
    BY <2>2, <2>6, <2>7, <2>8, <2>9
    DEF ControllerInv, DialogInv, ExitInv, DeleteInv
<1> QED
  BY <1>1, <1>2

LEMMA StepController == ControllerInv /\ [Next]_vars => ControllerInv'
<1> SUFFICES ASSUME ControllerInv, [Next]_vars PROVE ControllerInv'
  OBVIOUS
<1>1. CASE AddGroup
  BY <1>1, ShowController DEF AddGroup
<1>2. ASSUME NEW g \in Group, OpenGroup(g) PROVE ControllerInv'
  BY <1>2, ShowController DEF OpenGroup
<1>3. CASE AddPerson \/ Save \/ Back
  BY <1>3, ButtonController
<1>4. ASSUME NEW g \in Group, NEW i \in DOMAIN people[g],
             DeletePerson(i) \/ OpenPerson(i)
      PROVE  ControllerInv'
  <2>1. i \in Nat
    BY DEF ControllerInv, TypeOK
  <2> QED
    BY <1>4, <2>1, DeletePersonController, PersonController
<1>5. CASE CreatePerson \/ DeleteFace \/ PersonDisappears
  BY <1>5, PersonController
<1>6. CASE AddFace \/ \E a \in adds, ok \in BOOLEAN : AddAnswered(a, ok)
  BY <1>6, AddController
<1>7. CASE Answered
  BY <1>7, AnswerController
<1>8. CASE AlertAnswered
  BY <1>8, AlertController
<1>9. CASE Swipe
  BY <1>9, SwipeController
<1>10. CASE UNCHANGED vars
  BY <1>10 DEF vars, ControllerInv, TypeOK, DialogInv, ExitInv, DeleteInv,
     AddInv, UnsavedAsked
<1> QED
  BY <1>1, <1>2, <1>3, <1>4, <1>5, <1>6, <1>7, <1>8, <1>9, <1>10 DEF Next

LEMMA Controller == Spec => []ControllerInv
BY InitController, StepController, PTL DEF Spec

-----------------------------------------------------------------------------
(* What follows of the controller. *)

\* The members have their types.
THEOREM TypeCorrect == Spec => []TypeOK
BY Controller, PTL DEF ControllerInv

\* A face that was listed in time is trained, or will be asked about: the
\* flag *needTraining and the back button do their work, except for a group
\* that was left by the edge swipe, by a question the system took away, or
\* with a training that failed.
THEOREM AskedAbout == Spec => []UnsavedAsked
BY Controller, PTL DEF ControllerInv

\* The block of trainGroup leaves the screen, if the user has not done so by a
\* swipe, exactly when the back button began the training, although _shouldExit is a member that outlives an alert.
THEOREM LeavesAsMeant == Spec => OnlyBackLeaves
<1>1. ControllerInv /\ [Next]_vars =>
        [ request.op = "train" /\ request'.op = "none" /\ screen = "group" =>
            (screen' = "list" <=> request.from = "back") ]_vars
  <2> SUFFICES ASSUME ControllerInv, Next, request.op = "train",
                      request'.op = "none", screen = "group"
               PROVE  screen' = "list" <=> request.from = "back"
    BY DEF vars
  <2>1. alert = "none" /\ request # NoRequest
    BY DEF ControllerInv, DialogInv, NoRequest
  <2>2. PICK ok \in BOOLEAN : TrainAnswered(ok)
    <3>1. Blocked /\ alert = "none"
      BY <2>1 DEF Blocked
    <3>2. ASSUME NEW a \in adds, NEW ok \in BOOLEAN, AddAnswered(a, ok)
          PROVE  request'.op = request.op
      <4>1. request \in Request
        BY DEF ControllerInv, TypeOK
      <4>2. CASE ok
        BY <4>1, <4>2, <3>2 DEF AddAnswered, Request
      <4>3. CASE ~ok
        BY <4>3, <3>2 DEF AddAnswered
      <4> QED
        BY <4>2, <4>3
    <3> QED
      BY <3>1, <3>2 DEF Next, AddGroup, OpenGroup, Show, AddPerson, Save, Back,
         Swipe, DeletePerson, OpenPerson, CreatePerson, AddFace, DeleteFace,
         PersonDisappears, Answered, CreateAnswered, UpdateAnswered,
         DeleteAnswered, PersonCreated, FaceDeleted, AlertAnswered, CreateYes,
         SaveYes, AlertNo, AlertCancelled
  <2> QED
    BY <2>1, <2>2 DEF TrainAnswered, ControllerInv, ExitInv
<1> QED
  BY <1>1, Controller, PTL DEF Spec, OnlyBackLeaves

-----------------------------------------------------------------------------
(* Rosters. *)

LEMMA InitRoster == Init => RosterInv
<1> SUFFICES ASSUME Init PROVE RosterInv
  OBVIOUS
<1>1. \A g \in Group : DOMAIN people[g] = {}
  BY DEF Init
<1> QED
  BY <1>1, InitController DEF Init, RosterInv, PlacesInv

\* The steps that change neither a roster nor who is created, shown or
\* removed, and the group only while no person is shown.
LEMMA PlacesKept ==
    ASSUME PlacesInv, UNCHANGED <<people, used, removed, person>>,
           person = NoPerson \/ group' = group
    PROVE  PlacesInv'
BY DEF PlacesInv

\* The one who joins is on no other roster, and not on this one yet.
LEMMA JoinPlaces ==
    ASSUME RosterInv, PersonDisappears
    PROVE  PlacesInv'
<1>1. screen = "person" /\ group \in Group
  BY DEF PersonDisappears, RosterInv, ControllerInv, DialogInv
<1>2. UNCHANGED <<used, removed, group>> /\ person' \in {person, NoPerson}
  BY DEF PersonDisappears, memberVars, historyVars
<1>3. CASE ~Joins
  BY <1>2, <1>3 DEF PersonDisappears, RosterInv, PlacesInv
<1>4. CASE Joins
  <2> DEFINE old == people[group]
             new == Append(old, person)
  <2>1. /\ old \in Seq(Person) /\ Len(old) \in Nat
        /\ person \in Person /\ person # NoPerson
        /\ person \notin ToSet(old) /\ people \in [Group -> Seq(Person)]
    BY <1>1, <1>4, GroupAssumption DEF Joins, RosterInv, ControllerInv, TypeOK
  <2>2. \A i \in DOMAIN old : old[i] # person
    BY <2>1 DEF ToSet
  <2>3. /\ DOMAIN new = 1..Len(old) + 1 /\ DOMAIN old = 1..Len(old)
        /\ new[Len(old) + 1] = person
        /\ \A i \in DOMAIN old : new[i] = old[i]
    BY <2>1
  <2> HIDE DEF old, new
  <2>4. people' = [people EXCEPT ![group] = new]
    BY <1>4 DEF PersonDisappears, new, old
  <2>5. people'[group] = new /\ \A g \in Group : g # group => people'[g] = people[g]
    BY <2>1, <2>4, <1>1
  \* An entry of a roster is an old one, or the new last one.
  <2>6. \A g \in Group : \A i \in DOMAIN people'[g] :
          \/ i \in DOMAIN people[g] /\ people'[g][i] = people[g][i]
          \/ g = group /\ i = Len(old) + 1 /\ people'[g][i] = person
    <3> SUFFICES ASSUME NEW g \in Group, NEW i \in DOMAIN people'[g]
                 PROVE  \/ i \in DOMAIN people[g] /\ people'[g][i] = people[g][i]
                        \/ g = group /\ i = Len(old) + 1 /\ people'[g][i] = person
      OBVIOUS
    <3>1. CASE g # group
      BY <3>1, <2>5
    <3>2. CASE g = group /\ i \in DOMAIN old
      BY <3>2, <2>3, <2>5 DEF old
    <3>3. CASE g = group /\ i \notin DOMAIN old
      <4>1. i = Len(old) + 1
        BY <3>3, <2>1, <2>3, <2>5
      <4> QED
        BY <3>3, <4>1, <2>3, <2>5
    <3> QED
      BY <3>1, <3>2, <3>3
  <2>7. \A g \in Group : \A i \in DOMAIN people[g] : people[g][i] # person
    BY <2>1, <2>2 DEF RosterInv, PlacesInv, old
  <2>8. \A g, h \in Group : \A i \in DOMAIN people'[g], j \in DOMAIN people'[h] :
          people'[g][i] = people'[h][j] => g = h /\ i = j
    BY <2>6, <2>7 DEF RosterInv, PlacesInv
  <2>9. \A g \in Group : \A i \in DOMAIN people'[g] :
          people'[g][i] \in used \ removed
    BY <2>6, <2>1 DEF RosterInv, PlacesInv
  <2>10. \A g \in Group : \A i \in DOMAIN people'[g] :
          people'[g][i] = person => g = group
    BY <2>6, <2>7
  <2> QED
    BY <1>2, <2>1, <2>8, <2>9, <2>10 DEF RosterInv, PlacesInv
<1> QED
  BY <1>3, <1>4

\* The one who is deleted had this one place.
LEMMA DeletePlaces ==
    ASSUME RosterInv, NEW ok \in BOOLEAN, DeleteAnswered(ok)
    PROVE  PlacesInv'
<1>1. /\ request.op = "delete" /\ group \in Group /\ person = NoPerson
      /\ request.index \in DOMAIN people[group]
      /\ people[group][request.index] = request.person
  BY DEF DeleteAnswered, RosterInv, ControllerInv, DialogInv, DeleteInv
<1>2. UNCHANGED <<used, person, group>>
  BY DEF DeleteAnswered, memberVars
<1>3. CASE ~ok
  BY <1>1, <1>2, <1>3, PlacesKept DEF DeleteAnswered, RosterInv
<1>4. CASE ok
  <2> DEFINE old == people[group]
             k   == request.index
             new == RemoveAt(old, k)
  <2>1. /\ old \in Seq(Person) /\ Len(old) \in Nat /\ k \in 1..Len(old)
        /\ people \in [Group -> Seq(Person)] /\ DOMAIN old = 1..Len(old)
    BY <1>1 DEF RosterInv, ControllerInv, TypeOK
  <2>2. /\ new \in Seq(Person) /\ Len(new) = Len(old) - 1
        /\ \A j \in 1..Len(old) - 1 : new[j] = IF j < k THEN old[j] ELSE old[j + 1]
    BY <2>1, RemoveAtElements
  <2>3. DOMAIN new = 1..Len(old) - 1
    BY <2>2, <2>1
  <2>4. /\ people' = [people EXCEPT ![group] = new]
        /\ removed' = removed \cup {old[k]}
    BY <1>1, <1>4 DEF DeleteAnswered, SelectedIndex
  <2> HIDE DEF old, k, new
  <2>5. people'[group] = new /\ \A g \in Group : g # group => people'[g] = people[g]
    BY <2>1, <2>4, <1>1
  \* Where an entry of this roster was before.
  <2> DEFINE Was(i) == IF i < k THEN i ELSE i + 1
  <2>6. ASSUME NEW i \in DOMAIN new
        PROVE  Was(i) \in DOMAIN old /\ Was(i) # k /\ new[i] = old[Was(i)]
    <3>1. i \in Int /\ k \in Int /\ 1 <= i /\ i <= Len(old) - 1 /\ 1 <= k
      BY <2>1, <2>3
    <3>2. CASE i < k
      BY <3>1, <3>2, <2>1, <2>2, <2>3
    <3>3. CASE ~(i < k)
      BY <3>1, <3>3, <2>1, <2>2, <2>3
    <3> QED
      BY <3>2, <3>3
  <2>7. \A i, j \in DOMAIN new : Was(i) = Was(j) => i = j
    BY <2>1, <2>3
  <2> HIDE DEF Was
  <2>8. \A g, h \in Group : \A i \in DOMAIN people[g], j \in DOMAIN people[h] :
          people[g][i] = people[h][j] => g = h /\ i = j
    BY DEF RosterInv, PlacesInv
  <2>9. ASSUME NEW g \in Group, NEW h \in Group,
               NEW i \in DOMAIN people'[g], NEW j \in DOMAIN people'[h],
               people'[g][i] = people'[h][j]
        PROVE  g = h /\ i = j
    <3>1. CASE g = group /\ h = group
      BY <3>1, <2>5, <2>6, <2>7, <2>8, <2>9 DEF old
    <3>2. CASE g = group /\ h # group
      BY <3>2, <2>5, <2>6, <2>8, <2>9 DEF old
    <3>3. CASE g # group /\ h = group
      BY <3>3, <2>5, <2>6, <2>8, <2>9 DEF old
    <3>4. CASE g # group /\ h # group
      BY <3>4, <2>5, <2>8, <2>9
    <3> QED
      BY <3>1, <3>2, <3>3, <3>4
  <2>10. ASSUME NEW g \in Group, NEW i \in DOMAIN people'[g]
         PROVE  people'[g][i] \in used \ removed'
    <3>1. CASE g = group
      <4>1. new[i] = old[Was(i)] /\ Was(i) \in DOMAIN old /\ Was(i) # k
        BY <3>1, <2>5, <2>6, <2>10
      <4>2. old[Was(i)] # old[k]
        BY <4>1, <2>8, <1>1, <2>1 DEF old, k
      <4>3. old[Was(i)] \in used \ removed
        BY <4>1, <1>1 DEF RosterInv, PlacesInv, old
      <4> QED
        BY <3>1, <4>1, <4>2, <4>3, <2>4, <2>5
    <3>2. CASE g # group
      <4>1. people[g][i] # old[k] /\ people[g][i] \in used \ removed
        BY <3>2, <2>5, <2>8, <2>10, <1>1 DEF RosterInv, PlacesInv, old, k
      <4> QED
        BY <3>2, <4>1, <2>4, <2>5
    <3> QED
      BY <3>1, <3>2
  <2>11. removed' \subseteq used
    BY <2>4, <1>1 DEF RosterInv, PlacesInv, old, k
  <2> QED
    BY <1>1, <1>2, <2>9, <2>10, <2>11 DEF PlacesInv
<1> QED
  BY <1>3, <1>4

LEMMA StepRoster == RosterInv /\ [Next]_vars => RosterInv'
<1> SUFFICES ASSUME RosterInv, [Next]_vars PROVE PlacesInv'
  BY StepController DEF RosterInv
<1> USE DEF RosterInv
<1>1. screen # "person" => person = NoPerson
  BY DEF ControllerInv, DialogInv
<1>2. CASE AddGroup \/ \E g \in Group : OpenGroup(g)
  BY <1>1, <1>2, PlacesKept DEF AddGroup, OpenGroup, Show, rosterVars, historyVars
<1>3. CASE AddPerson \/ Save \/ Back
  BY <1>1, <1>3, PlacesKept
  DEF AddPerson, Save, Back, rosterVars, memberVars, historyVars
<1>4. ASSUME NEW g \in Group, NEW i \in DOMAIN people[g], DeletePerson(i)
      PROVE  PlacesInv'
  BY <1>4, PlacesKept DEF DeletePerson, rosterVars, memberVars, historyVars
<1>5. ASSUME NEW g \in Group, NEW i \in DOMAIN people[g], OpenPerson(i)
      PROVE  PlacesInv'
  <2>1. /\ UNCHANGED <<people, used, removed, group>> /\ group \in Group
        /\ i \in DOMAIN people[group] /\ person' = people[group][i]
    BY <1>5 DEF OpenPerson, rosterVars, memberVars, historyVars,
       ControllerInv, TypeOK
  <2> QED
    BY <2>1 DEF PlacesInv
<1>6. ASSUME NEW p \in Person, NEW ok \in BOOLEAN, PersonCreated(p, ok)
      PROVE  PlacesInv'
  <2>1. /\ UNCHANGED <<people, removed, group>>
        /\ person' \in {p, person} /\ p \notin used
        /\ used' \in {used, used \cup {p}}
        /\ person' = p => p \in used' \/ person' = person
    BY <1>6 DEF PersonCreated, memberVars, historyVars
  <2>2. p \notin removed /\ \A g \in Group : \A i \in DOMAIN people[g] : people[g][i] # p
    BY <2>1 DEF PlacesInv
  <2> QED
    BY <2>1, <2>2 DEF PlacesInv
<1>7. CASE AddFace \/ CreatePerson \/ DeleteFace \/ Swipe
  BY <1>7, PlacesKept DEF AddFace, CreatePerson, DeleteFace, Swipe, rosterVars,
     memberVars, historyVars
<1>8. CASE PersonDisappears
  BY <1>8, JoinPlaces
<1>9. ASSUME NEW a \in adds, NEW ok \in BOOLEAN, AddAnswered(a, ok)
      PROVE  PlacesInv'
  BY <1>9, PlacesKept DEF AddAnswered, memberVars
<1>10. ASSUME NEW g \in Group, NEW ok \in BOOLEAN, CreateAnswered(g, ok)
       PROVE  PlacesInv'
  <2>1. person = NoPerson
    BY <1>1, <1>10 DEF CreateAnswered, ControllerInv, DialogInv
  <2> QED
    BY <1>10, <2>1, PlacesKept DEF CreateAnswered, historyVars
<1>11. ASSUME NEW ok \in BOOLEAN,
              UpdateAnswered(ok) \/ TrainAnswered(ok) \/ FaceDeleted(ok)
       PROVE  PlacesInv'
  BY <1>11, PlacesKept DEF UpdateAnswered, TrainAnswered, FaceDeleted, rosterVars,
     memberVars, historyVars
<1>12. ASSUME NEW ok \in BOOLEAN, DeleteAnswered(ok) PROVE PlacesInv'
  BY <1>12, DeletePlaces
<1>13. CASE AlertAnswered
  BY <1>13, PlacesKept DEF AlertAnswered, CreateYes, SaveYes, AlertNo,
     AlertCancelled, rosterVars, memberVars, historyVars
<1>14. CASE UNCHANGED vars
  BY <1>14, PlacesKept DEF vars
<1> QED
  BY <1>2, <1>3, <1>4, <1>5, <1>6, <1>7, <1>8, <1>9, <1>10, <1>11, <1>12,
     <1>13, <1>14 DEF Next, Answered

LEMMA Roster == Spec => []RosterInv
BY InitRoster, StepRoster, PTL DEF Spec

\* Nobody is on a roster twice, whichever way a person's screen disappears.
THEOREM Distinct == Spec => []RosterDistinct
<1>1. RosterInv => RosterDistinct
  BY DEF RosterInv, PlacesInv, RosterDistinct
<1> QED
  BY <1>1, Roster, PTL

\* A confirmed deletion takes away the person who was pressed, for good.
THEOREM DeletedGone == Spec => []DeletedPersonGone
<1>1. RosterInv => DeletedPersonGone
  BY DEF RosterInv, PlacesInv, DeletedPersonGone, ToSet
<1> QED
  BY <1>1, Roster, PTL
=============================================================================
