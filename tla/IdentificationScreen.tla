------------------------ MODULE IdentificationScreen ------------------------
(***************************************************************************)
(* MPOIdentificationViewController, the screen that takes attendance.      *)
(*                                                                         *)
(* The user picks a photo of the class.  The photo is cut into tiles, each *)
(* tile is sent to the service, and the faces of every answer are appended *)
(* to _faces.  The user then selects a group and taps Identify: the faces  *)
(* are sent in batches, and every answered batch adds the names it found   *)
(* to resultsNamesArr and recomputes the list of absentees.                *)
(*                                                                         *)
(* All handlers run on the main thread, so each is one action; between     *)
(* them any outstanding request may be answered (AsyncCalls).              *)
(***************************************************************************)
EXTENDS Integers, Sequences, FiniteSets

CONSTANTS
    Person,       \* the students, persons of the service's groups
    Group,        \* the groups of GLOBAL.groups
    GroupOf,      \* GroupOf[p]: the group the service knows p in
    Name,         \* personName values
    NameOf,       \* NameOf[p]: the name of p, not necessarily unique
    NoGroup,      \* no row of the group list is selected
    AssertsOn,    \* whether the build has NSAssert
    BatchSize,    \* faces per identify request: 6 in the code
    MaxPhotos, MaxFaces, MaxTaps, MaxEdits,  \* bounds of the model
    MaxFacesPerTile

ASSUME ScreenAssumption ==
    /\ IsFiniteSet(Person)
    /\ GroupOf \in [Person -> Group]
    /\ NameOf \in [Person -> Name]
    /\ NoGroup \notin Group
    /\ AssertsOn \in BOOLEAN
    /\ BatchSize \in Nat \ {0}
    /\ MaxPhotos \in Nat /\ MaxFaces \in Nat /\ MaxTaps \in Nat
    /\ MaxEdits \in Nat /\ MaxFacesPerTile \in Nat

VARIABLES
    photo,            \* how many photos were picked; the last is on display
    faces,            \* _faces (allFacesArray always holds the same objects)
    detected,         \* how many faces were ever detected, for fresh ids
    tiles,            \* tiles[k]: detect requests of photo k still unanswered
    countdown,        \* imageArrayLengthLoop, captured by the blocks of photo k
    hud,              \* photos whose "detecting faces" HUD covers the screen
    notices,          \* dialogs and short HUDs on display
    pickerOpen,       \* the image picker is presented
    left,             \* the screen was popped; its blocks still hold on to it
    selected,         \* the selected row of the group list
    identifyEnabled,  \* _identifyBtn.enabled
    people,           \* people[g]: the people of group g in GLOBAL.groups
    edits,            \* how often the rosters were edited (bound)
    taps,             \* how often Identify sent requests
    pending,          \* identify requests not yet answered, with their captures
    recognised,       \* the names in resultsNamesArr
    absent,           \* the rows of _listOfAbsentPpl, by person
    crashed,          \* an uncaught exception ended the app
    roll              \* history of the newest tap: its roster, what it heard

screenVars == <<photo, faces, detected, tiles, countdown, hud, pickerOpen,
                left>>
rollVars   == <<taps, pending, recognised, absent, roll>>
vars == <<photo, faces, detected, tiles, countdown, hud, notices, pickerOpen, left,
          selected, identifyEnabled, people, edits, taps, pending,
          recognised, absent, crashed, roll>>

Photo == 1..MaxPhotos
Face == [id : Nat, photo : Photo]
Notice == {"selectGroup", "apiError", "allPresent"}

\* MBProgressHUD views and alerts take the taps on the navigation
\* controller's view.
Blocked == hud # {} \/ notices # {}

\* The user can touch the screen.
OnDisplay == ~crashed /\ ~Blocked /\ ~pickerOpen /\ ~left

ShownFaces == {faces[i] : i \in DOMAIN faces}
Members(g) == {p \in Person : GroupOf[p] = g}

\* A notice over the view of self.navigationController, which is nil once
\* the screen was popped: MBProgressHUD asserts that there is a view.
ShowSimpleHUD(m) ==
    IF left THEN crashed' = AssertsOn /\ UNCHANGED notices
            ELSE notices' = notices \cup {m} /\ UNCHANGED crashed

-----------------------------------------------------------------------------
(* Taking the photo and detecting its faces. *)

ImagesFromImage(rows, columns) == rows * columns

\* The 3x3 tiles are cut too; the loop that sends them is commented out.
TileCountWithThirds == 1 + ImagesFromImage(2, 2) + ImagesFromImage(3, 3)

\* The whole photo and its quarters.
TileCount == 1 + ImagesFromImage(2, 2)

\* imageArrayLengthLoop is declared int *, so -- subtracts sizeof(int).
IntSize == 4

OpenPicker ==
    /\ OnDisplay
    /\ photo < MaxPhotos
    /\ pickerOpen' = TRUE
    /\ UNCHANGED <<photo, faces, detected, tiles, countdown, hud, left, notices,
                   selected, identifyEnabled, people, edits, rollVars, crashed>>

\* viewDidAppear reloads the group list, which drops its selection, if the
\* picker was presented full screen.
MaybeReloadGroups == selected' \in {selected, NoGroup}

CancelPicker ==
    /\ ~crashed /\ pickerOpen
    /\ pickerOpen' = FALSE
    /\ MaybeReloadGroups
    /\ UNCHANGED <<photo, faces, detected, tiles, countdown, hud, left, notices,
                   identifyEnabled, people, edits, rollVars, crashed>>

PickPhoto ==
    /\ ~crashed /\ pickerOpen
    /\ pickerOpen' = FALSE
    /\ photo' = photo + 1
    /\ faces' = <<>>
    /\ tiles' = [tiles EXCEPT ![photo'] = TileCount]
    /\ countdown' = [countdown EXCEPT ![photo'] = TileCount]
    /\ hud' = hud \cup {photo'}
    /\ MaybeReloadGroups
    /\ UNCHANGED <<detected, left, notices, identifyEnabled, people, edits,
                   rollVars, crashed>>

\* Fresh faces, as one tile of photo k returns them.
Detected(k, n) == [i \in 1..n |-> [id |-> detected + i, photo |-> k]]

\* A block that starts from an empty _faces.
FacesReplaced(k, n) == Detected(k, n)
FacesAfter(k, n) == faces \o Detected(k, n)

\* A block that leaves the button alone.
ButtonKept == identifyEnabled
ButtonAfterTile == FALSE

\* A completion block that may be run once more after its request is over.
OutstandingOrDone(k) == tiles[k] >= 0 /\ k <= photo
Outstanding(k) == tiles[k] > 0

\* A tile of photo k is answered with n faces; n = 0 stands for an error
\* too, the block does not look at it.  The HUD goes, and finalPicture is
\* called, when the counter is 1 before it is decremented.
TileAnswered(k, n) ==
    /\ ~crashed
    /\ Outstanding(k)
    /\ detected + n <= MaxFaces
    /\ tiles' = [tiles EXCEPT ![k] = @ - 1]
    /\ faces' = FacesAfter(k, n)
    /\ detected' = detected + n
    /\ identifyEnabled' = ButtonAfterTile
    /\ countdown' = [countdown EXCEPT ![k] = @ - IntSize]
    /\ hud' = IF countdown[k] = 1 THEN hud \ {k} ELSE hud
    /\ IF countdown[k] = 1 /\ faces' = <<>>
         THEN ShowSimpleHUD("apiError") ELSE UNCHANGED <<notices, crashed>>
    /\ UNCHANGED <<photo, pickerOpen, left, selected, people, edits, rollVars>>

-----------------------------------------------------------------------------
(* Selecting a group, and what happens on the other screens. *)

DidSelectRow(g) ==
    /\ OnDisplay
    /\ selected' = g
    /\ identifyEnabled' = (identifyEnabled \/ faces # <<>>)
    /\ UNCHANGED <<screenVars, notices, people, edits, rollVars, crashed>>

\* The short HUDs end by a timer, the dialog by its button.
Dismiss(m) ==
    /\ ~crashed
    /\ m \in notices
    /\ notices' = notices \ {m}
    /\ UNCHANGED <<screenVars, selected, identifyEnabled, people, edits,
                   rollVars, crashed>>

\* The user goes to Manage Groups, adds or deletes a person there, and
\* comes back; requests of this screen stay under way meanwhile.
EditRoster(p) ==
    LET g == GroupOf[p] IN
    /\ ~crashed /\ hud = {} /\ ~pickerOpen
    /\ edits < MaxEdits
    /\ edits' = edits + 1
    /\ people' = [people EXCEPT ![g] = IF p \in @ THEN @ \ {p} ELSE @ \cup {p}]
    /\ selected' = NoGroup
    /\ roll' = [roll EXCEPT !.undisturbed = @ /\ (pending = {} \/ g # roll.group)]
    /\ UNCHANGED <<screenVars, notices, identifyEnabled, taps, pending,
                   recognised, absent, crashed>>

\* The back button or the edge swipe: the screen is popped for good, the next
\* one is new.  A HUD stops the button only: it is a view inside the navigation
\* controller's, whose gesture the swipe is.
Leave ==
    /\ ~crashed /\ ~pickerOpen /\ ~left
    /\ "selectGroup" \notin notices
    /\ left' = TRUE
    /\ UNCHANGED <<photo, faces, detected, tiles, countdown, hud, pickerOpen,
                   notices, selected, identifyEnabled, people, edits, rollVars,
                   crashed>>

-----------------------------------------------------------------------------
(* Taking attendance. *)

\* A division that forgets an incomplete last batch.
FullBatchCount == Len(faces) \div BatchSize
BatchCount == (Len(faces) + BatchSize - 1) \div BatchSize

Batch(j) == {faces[i] : i \in {n \in DOMAIN faces : (n - 1) \div BatchSize = j - 1}}

\* One identify request for each batch, with what its block captures.
\* (photo is history: the photo on display when Identify was tapped.)
Request(j, g) ==
    [tap |-> taps + 1, index |-> j, group |-> g, photo |-> photo,
     batch |-> Batch(j), limit |-> Cardinality(people[g]),
     last |-> (j = BatchCount)]

IdentifyWithoutGroup ==
    /\ OnDisplay
    /\ identifyEnabled
    /\ selected = NoGroup
    /\ notices' = notices \cup {"selectGroup"}
    /\ UNCHANGED <<screenVars, selected, identifyEnabled, people, edits,
                   rollVars, crashed>>

\* The HUD of this action is removed before it returns.  absent is not reset.
Identify ==
    /\ OnDisplay
    /\ identifyEnabled
    /\ selected # NoGroup
    /\ taps < MaxTaps
    /\ taps' = taps + 1
    /\ pending' = pending \cup {Request(j, selected) : j \in 1..BatchCount}
    /\ recognised' = {}
    /\ roll' = [group |-> selected, roster |-> people[selected], seen |-> {},
                heard |-> FALSE, undisturbed |-> (pending = {}),
                empty |-> FALSE, announced |-> FALSE]
    /\ UNCHANGED <<screenVars, notices, selected, identifyEnabled, people,
                   edits, absent, crashed>>

\* A failed batch is dropped without a word.
IdentifyFailed(r) ==
    /\ ~crashed
    /\ r \in pending
    /\ pending' = pending \ {r}
    /\ UNCHANGED <<screenVars, notices, selected, identifyEnabled, people,
                   edits, taps, recognised, absent, crashed, roll>>

\* What the service may find in a batch: for each face some of the people
\* it knows in the group, at most maxNumberOfCandidates.
Candidates(r) ==
    [r.batch -> {C \in SUBSET Members(r.group) : Cardinality(C) <= r.limit}]

\* getPersonInGroup: candidates the app does not list in the group are skipped.
Found(r, c) == (UNION {c[f] : f \in r.batch}) \cap people[r.group]

\* getFaceByFaceId returns nil for a face that is no longer in _faces, and
\* a dictionary literal with a nil value raises.
FaceMissing(r, c) ==
    \E f \in r.batch : f \notin ShownFaces /\ c[f] \cap people[r.group] # {}

\* resultsNamesArr started anew for each answer.
NamesOfAnswer(r, c) == {NameOf[p] : p \in Found(r, c)}
NamesAfter(r, c) == recognised \cup {NameOf[p] : p \in Found(r, c)}

\* The loop over group.people that fills _listOfAbsentPpl.
Missing(g, names) == {p \in people[g] : NameOf[p] \notin names}

\* The announcement decided before the list is recomputed.
AnnouncesOldList(r, missing) == r.last /\ absent = {}
Announces(r, missing) == r.last /\ missing = {}

\* An answer without any result: the list is left as it is, and the last
\* request's check of it is still made.
IdentifyEmpty(r) ==
    LET announces == Announces(r, absent) IN
    /\ ~crashed
    /\ r \in pending
    /\ pending' = pending \ {r}
    /\ IF announces THEN ShowSimpleHUD("allPresent")
                    ELSE UNCHANGED <<notices, crashed>>
    /\ roll' = IF r.tap # taps THEN roll
               ELSE [roll EXCEPT !.empty = TRUE, !.announced = @ \/ announces]
    /\ UNCHANGED <<screenVars, selected, identifyEnabled, people, edits, taps,
                   recognised, absent>>

\* One idResult after the other: the service answers with one for each face
\* of the batch, so the list is recomputed by every such answer.
IdentifyAnswered(r, c) ==
    LET missing == Missing(r.group, NamesAfter(r, c)) IN
    /\ ~crashed
    /\ r \in pending
    /\ IF FaceMissing(r, c)
         THEN /\ crashed' = TRUE
              /\ UNCHANGED <<notices, rollVars>>
         ELSE /\ pending' = pending \ {r}
              /\ recognised' = NamesAfter(r, c)
              /\ absent' = missing
              /\ IF Announces(r, missing) THEN ShowSimpleHUD("allPresent")
                                          ELSE UNCHANGED <<notices, crashed>>
              /\ roll' = IF r.tap # taps THEN roll
                         ELSE [roll EXCEPT !.seen = @ \cup UNION {c[f] : f \in r.batch},
                                           !.heard = TRUE,
                                           !.announced = @ \/ Announces(r, missing)]
              /\ UNCHANGED taps
    /\ UNCHANGED <<screenVars, selected, identifyEnabled, people, edits>>

-----------------------------------------------------------------------------
Init ==
    /\ photo = 0
    /\ faces = <<>>
    /\ detected = 0
    /\ tiles = [k \in Photo |-> 0]
    /\ countdown = [k \in Photo |-> 0]
    /\ hud = {}
    /\ notices = {}
    /\ pickerOpen = FALSE
    /\ left = FALSE
    /\ selected = NoGroup
    /\ identifyEnabled = FALSE
    /\ people = [g \in Group |-> Members(g)]
    /\ edits = 0
    /\ taps = 0
    /\ pending = {}
    /\ recognised = {}
    /\ absent = {}
    /\ crashed = FALSE
    /\ roll = [group |-> NoGroup, roster |-> {}, seen |-> {}, heard |-> FALSE,
               undisturbed |-> TRUE, empty |-> FALSE, announced |-> FALSE]

Next ==
    \/ OpenPicker \/ CancelPicker \/ PickPhoto
    \/ \E k \in Photo, n \in 0..MaxFacesPerTile : TileAnswered(k, n)
    \/ \E g \in Group : DidSelectRow(g)
    \/ \E m \in Notice : Dismiss(m)
    \/ \E p \in Person : EditRoster(p)
    \/ Leave
    \/ IdentifyWithoutGroup \/ Identify
    \/ \E r \in pending : \/ IdentifyFailed(r)
                          \/ IdentifyEmpty(r)
                          \/ \E c \in Candidates(r) : IdentifyAnswered(r, c)

Spec == Init /\ [][Next]_vars

\* Every request ends (NSURLSession times it out), and what is on display
\* for a time is taken away.  The user does what he likes.
FairSpec ==
    /\ Spec
    /\ \A k \in Photo : WF_vars(\E n \in 0..MaxFacesPerTile : TileAnswered(k, n))
    /\ \A m \in Notice : WF_vars(Dismiss(m))
    /\ WF_vars(\E r \in pending : \/ IdentifyFailed(r)
                                 \/ IdentifyEmpty(r)
                                 \/ \E c \in Candidates(r) : IdentifyAnswered(r, c))

-----------------------------------------------------------------------------
Requests ==
    [tap : Nat, index : Nat, group : Group, photo : Nat,
     batch : SUBSET Face, limit : Nat, last : BOOLEAN]

Rolls ==
    [group : Group \cup {NoGroup}, roster : SUBSET Person,
     seen : SUBSET Person, heard : BOOLEAN,
     undisturbed : BOOLEAN, empty : BOOLEAN, announced : BOOLEAN]

\* The variables have the types of the screen's members.
TypeOK ==
    /\ photo \in 0..MaxPhotos
    /\ faces \in Seq(Face)
    /\ detected \in 0..MaxFaces
    /\ tiles \in [Photo -> 0..TileCount]
    /\ countdown \in [Photo -> Int]
    /\ hud \subseteq Photo
    /\ notices \subseteq Notice
    /\ pickerOpen \in BOOLEAN
    /\ left \in BOOLEAN
    /\ selected \in Group \cup {NoGroup}
    /\ identifyEnabled \in BOOLEAN
    /\ people \in [Group -> SUBSET Person]
    /\ edits \in 0..MaxEdits
    /\ taps \in 0..MaxTaps
    /\ pending \subseteq Requests
    /\ recognised \subseteq Name
    /\ absent \subseteq Person
    /\ crashed \in BOOLEAN
    /\ roll \in Rolls

\* Whenever the screen accepts a tap on Identify there is a face to send:
\* the button survives the clearing of _faces by a new photo, and only the
\* HUD and the first answered tile keep it from being tapped.
IdentifyHasFaces ==
    identifyEnabled /\ ~Blocked => faces # <<>>

\* The faces of an identify request stay in _faces as long as the photo it
\* was sent for is on display, so its answer finds each of them; the app
\* can only crash on an answer that comes after another photo was picked.
PendingFacesPresent ==
    \A r \in pending : r.photo = photo => r.batch \subseteq ShownFaces

Recorded(p) == \E q \in roll.seen \cap roll.roster : NameOf[q] = NameOf[p]

\* If Identify was tapped with no older request under way, and the roster
\* of the group is not edited while its requests are, then after any answer,
\* in whatever order they come and however many fail, the absentees are
\* exactly the members of the group without a recognised namesake.
UndisturbedRollCallExact ==
    roll.undisturbed /\ roll.heard =>
        absent = {p \in roll.roster : ~Recorded(p)}

\* "All students are present." is shown for such a roll call only if each
\* member of the group, or a namesake, was recognised in it, provided that
\* no answer came without results.  (Such an answer to the last request makes
\* the code announce what the list of an earlier roll call says.)
UndisturbedAnnouncementTrue ==
    roll.undisturbed /\ roll.announced /\ ~roll.empty => \A p \in roll.roster : Recorded(p)

\* The requests of one tap carry all faces on display, each once, in
\* batches of at most BatchSize, and exactly one of them counts as the last.
BatchesCoverFaces ==
    [][ taps' # taps =>
          LET new == pending' \ pending IN
          /\ UNION {r.batch : r \in new} = ShownFaces
          /\ \A r, s \in new : r # s => r.batch \cap s.batch = {}
          /\ \A r \in new : Cardinality(r.batch) \in 1..BatchSize
          /\ Cardinality({r \in new : r.last}) = 1 ]_vars

\* The app never ends while the screen is there and shows the photo that the
\* requests under way were sent for: only an answer that comes after that can
\* find no face (649) or no view (722).
EndsOnlyLate ==
    [][ crashed' # crashed => left \/ \E r \in pending : r.photo # photo ]_vars

\* A roll call of which something is promised: undisturbed, and answered
\* with results only.
Sound == taps > 0 /\ roll.undisturbed /\ ~roll.empty

\* The screen implements the abstract roll call.
Roll == INSTANCE RollCall
    WITH void      <- ~Sound,
         roster    <- IF Sound THEN roll.roster ELSE {},
         seen      <- IF Sound THEN roll.seen \cap roll.roster ELSE {},
         absent    <- IF Sound /\ roll.heard THEN absent ELSE {},
         heard     <- Sound /\ roll.heard,
         announced <- Sound /\ roll.announced

ImplementsRollCall == Roll!Spec

\* The HUD over the screen goes away after each photo.  Its counter has to
\* hit 1 exactly, in steps of IntSize from TileCount.
HudGoes == hud # {} ~> (hud = {} \/ crashed)

-----------------------------------------------------------------------------
(* What the code says of itself and does not do. *)

\* "remove all the faces" (line 1002): after a photo was picked the faces
\* on display are faces of that photo.
FacesOfThisPhoto == \A i \in DOMAIN faces : faces[i].photo = photo

\* "There was an error with the API" (line 1086) is said of a photo only
\* once all its tiles were answered; the loop at lines 1093-1104 looked at
\* the answer of every tile.
ApiErrorAfterAllTiles == "apiError" \in notices => tiles[photo] = 0

\* "All students are present." (line 722), for any roll call whose requests
\* were each answered with results.
AnnouncementTrue ==
    roll.announced /\ ~roll.empty => \A p \in roll.roster : Recorded(p)
=============================================================================
