------------------------ MODULE IdentificationProofs ------------------------
(***************************************************************************)
(* The attendance screen, for any roster, any batch size and any bounds.   *)
(*                                                                         *)
(* Three strengthenings carry the proofs:                                  *)
(*   ScreenInv  ties the HUD to the counter of the photo on display and    *)
(*              the Identify button to the tiles of that photo;            *)
(*   PhotoInv   keeps the faces of a request on display until the next     *)
(*              photo;                                                     *)
(*   RollInv    says what resultsNamesArr and _listOfAbsentPpl hold while  *)
(*              a roll call is undisturbed.                                *)
(***************************************************************************)
EXTENDS IdentificationScreen, FiniteSetTheorems, SequenceTheorems, TLAPS

-----------------------------------------------------------------------------
(* Types. *)

\* The picker is opened over a bare screen, and within the bound.
PickerInv == pickerOpen => hud = {} /\ photo < MaxPhotos

\* n fresh faces of a photo are a sequence of faces.
LEMMA DetectedType ==
    ASSUME TypeOK, NEW k \in Photo, NEW n \in 0..MaxFacesPerTile
    PROVE  Detected(k, n) \in Seq(Face)
<1>1. \A i \in 1..n : [id |-> detected + i, photo |-> k] \in Face
  BY DEF TypeOK, Face, Photo
<1>2. n \in Nat
  BY ScreenAssumption
<1> QED
  BY <1>1, <1>2 DEF Detected

\* The faces of a block are appended to _faces.
LEMMA FacesAfterType ==
    ASSUME TypeOK, NEW k \in Photo, NEW n \in 0..MaxFacesPerTile
    PROVE  /\ FacesAfter(k, n) \in Seq(Face)
           /\ DOMAIN faces \subseteq DOMAIN FacesAfter(k, n)
           /\ \A i \in DOMAIN faces : FacesAfter(k, n)[i] = faces[i]
           /\ FacesAfter(k, n) = <<>> => faces = <<>>
<1> DEFINE new == Detected(k, n)
<1>1. new \in Seq(Face) /\ faces \in Seq(Face)
  BY DetectedType DEF TypeOK
<1> HIDE DEF new
<1>2. /\ faces \o new \in Seq(Face)
      /\ Len(faces \o new) = Len(faces) + Len(new)
      /\ \A i \in 1..Len(faces) : (faces \o new)[i] = faces[i]
  BY <1>1
<1>3. Len(faces) \in Nat /\ Len(new) \in Nat /\ DOMAIN faces = 1..Len(faces)
  BY <1>1
<1>4. DOMAIN (faces \o new) = 1..(Len(faces) + Len(new))
  BY <1>2, <1>1
<1>5. DOMAIN faces \subseteq DOMAIN (faces \o new)
  BY <1>3, <1>4
<1>6. ASSUME faces \o new = <<>> PROVE faces = <<>>
  <2>1. Len(faces) = 0
    BY <1>6, <1>2, <1>3
  <2> QED
    BY <2>1, <1>1
<1> QED
  BY <1>2, <1>3, <1>5, <1>6 DEF FacesAfter, new

\* A group has finitely many people in the app.
LEMMA RosterSize ==
    ASSUME TypeOK, NEW g \in Group
    PROVE  Cardinality(people[g]) \in Nat
<1>1. people[g] \subseteq Person
  BY DEF TypeOK
<1> QED
  BY <1>1, ScreenAssumption, FS_Subset, FS_CardinalityType

\* Batches are counted by natural numbers.
LEMMA BatchCountType ==
    ASSUME TypeOK PROVE BatchCount \in Nat
<1>1. Len(faces) \in Nat
  BY DEF TypeOK
<1> QED
  BY <1>1, ScreenAssumption DEF BatchCount

\* A request carries faces on display.
LEMMA RequestType ==
    ASSUME TypeOK, NEW g \in Group, NEW j \in 1..BatchCount
    PROVE  /\ Request(j, g) \in Requests
           /\ Request(j, g).batch \subseteq ShownFaces
           /\ Request(j, g).photo = photo
           /\ Request(j, g).tap = taps + 1
           /\ Request(j, g).group = g
<1>1. Batch(j) \subseteq ShownFaces
  BY DEF Batch, ShownFaces
<1>2. ShownFaces \subseteq Face
  BY DEF ShownFaces, TypeOK
<1>3. j \in Nat
  BY BatchCountType
<1>4. photo \in Nat /\ taps \in Nat
  BY ScreenAssumption DEF TypeOK
<1>5. (j = BatchCount) \in BOOLEAN
  OBVIOUS
<1> QED
  BY <1>1, <1>2, <1>3, <1>4, <1>5, RosterSize DEF Request, Requests

\* Candidates are people of the group, by what the service knows.
LEMMA CandidatesType ==
    ASSUME NEW r, NEW c \in Candidates(r)
    PROVE  /\ UNION {c[f] : f \in r.batch} \subseteq Person
           /\ \A f \in r.batch : c[f] \subseteq Members(r.group)
BY DEF Candidates, Members

LEMMA InitType == Init => TypeOK
<1> SUFFICES ASSUME Init PROVE TypeOK
  OBVIOUS
<1>1. 0 \in 0..MaxPhotos /\ 0 \in 0..MaxFaces /\ 0 \in 0..MaxEdits
      /\ 0 \in 0..MaxTaps /\ 0 \in 0..TileCount
  BY ScreenAssumption DEF TileCount, ImagesFromImage
<1>2. people \in [Group -> SUBSET Person]
  BY DEF Init, Members
<1>3. faces \in Seq(Face)
  BY DEF Init
<1>4. roll \in Rolls
  BY DEF Init, Rolls
<1>5. tiles \in [Photo -> 0..TileCount] /\ countdown \in [Photo -> Int]
  BY <1>1 DEF Init
<1> QED
  BY <1>1, <1>2, <1>3, <1>4, <1>5 DEF Init, TypeOK

\* A notice is put up, or there is no view to put it over.
LEMMA ShowType ==
    ASSUME TypeOK, NEW m \in Notice,
           ShowSimpleHUD(m) \/ UNCHANGED <<notices, crashed>>
    PROVE  notices' \subseteq Notice /\ crashed' \in BOOLEAN
BY ScreenAssumption DEF ShowSimpleHUD, TypeOK

\* The handlers of the photo keep the types.
LEMMA PhotoType ==
    ASSUME TypeOK, PickerInv, OpenPicker \/ CancelPicker \/ PickPhoto
    PROVE  TypeOK'
<1>1. CASE OpenPicker
  BY <1>1 DEF OpenPicker, TypeOK, rollVars
<1>2. CASE CancelPicker
  BY <1>2 DEF CancelPicker, MaybeReloadGroups, TypeOK, rollVars
<1>3. CASE PickPhoto
  <2>1. photo' \in 0..MaxPhotos /\ photo' \in Photo
    BY <1>3, ScreenAssumption DEF PickPhoto, TypeOK, Photo, PickerInv
  <2>2. TileCount \in 0..TileCount /\ TileCount \in Int
    BY DEF TileCount, ImagesFromImage
  <2>3. faces' \in Seq(Face)
    BY <1>3 DEF PickPhoto
  <2>4. tiles' \in [Photo -> 0..TileCount] /\ countdown' \in [Photo -> Int]
    BY <1>3, <2>1, <2>2 DEF PickPhoto, TypeOK
  <2> QED
    BY <1>3, <2>1, <2>3, <2>4 DEF PickPhoto, MaybeReloadGroups, TypeOK, rollVars
<1> QED
  BY <1>1, <1>2, <1>3

LEMMA TileType ==
    ASSUME TypeOK, NEW k \in Photo, NEW n \in 0..MaxFacesPerTile,
           TileAnswered(k, n)
    PROVE  TypeOK'
<1>1. faces' \in Seq(Face)
  BY FacesAfterType DEF TileAnswered
<1>2. detected' \in 0..MaxFaces
  BY ScreenAssumption DEF TileAnswered, TypeOK
<1>3. tiles' \in [Photo -> 0..TileCount]
  <2>1. tiles[k] \in 0..TileCount /\ TileCount \in Nat
    BY DEF TypeOK, TileCount, ImagesFromImage
  <2>2. tiles[k] - 1 \in 0..TileCount
    BY <2>1 DEF TileAnswered, Outstanding
  <2> QED
    BY <2>2 DEF TileAnswered, TypeOK
<1>4. countdown' \in [Photo -> Int]
  BY DEF TileAnswered, TypeOK, IntSize
<1>5. notices' \subseteq Notice /\ crashed' \in BOOLEAN
  <2>1. "apiError" \in Notice
    BY DEF Notice
  <2>2. ShowSimpleHUD("apiError") \/ UNCHANGED <<notices, crashed>>
    BY DEF TileAnswered
  <2> QED
    BY <2>1, <2>2, ShowType
<1> QED
  BY <1>1, <1>2, <1>3, <1>4, <1>5
  DEF TileAnswered, TypeOK, rollVars, ButtonAfterTile

\* The group list, the notices and the other screens keep the types.
LEMMA ListType ==
    ASSUME TypeOK,
           \/ \E g \in Group : DidSelectRow(g)
           \/ \E m \in Notice : Dismiss(m)
           \/ \E p \in Person : EditRoster(p)
           \/ Leave
           \/ IdentifyWithoutGroup
    PROVE  TypeOK'
<1>1. ASSUME NEW g \in Group, DidSelectRow(g) PROVE TypeOK'
  BY <1>1 DEF DidSelectRow, TypeOK, screenVars, rollVars
<1>2. ASSUME NEW m \in Notice, Dismiss(m) PROVE TypeOK'
  BY <1>2 DEF Dismiss, TypeOK, screenVars, rollVars
<1>3. ASSUME NEW p \in Person, EditRoster(p) PROVE TypeOK'
  <2>1. people' \in [Group -> SUBSET Person]
    BY <1>3, ScreenAssumption DEF EditRoster, TypeOK
  <2>2. edits' \in 0..MaxEdits
    BY <1>3, ScreenAssumption DEF EditRoster, TypeOK
  <2>3. roll' \in Rolls
    BY <1>3 DEF EditRoster, TypeOK, Rolls
  <2> QED
    BY <1>3, <2>1, <2>2, <2>3 DEF EditRoster, TypeOK, screenVars
<1>4. CASE IdentifyWithoutGroup
  BY <1>4 DEF IdentifyWithoutGroup, TypeOK, Notice, screenVars, rollVars
<1>5. CASE Leave
  BY <1>5 DEF Leave, TypeOK, rollVars
<1> QED
  BY <1>1, <1>2, <1>3, <1>4, <1>5

LEMMA IdentifyType ==
    ASSUME TypeOK, Identify
    PROVE  TypeOK'
<1>1. selected \in Group
  BY DEF Identify, TypeOK
<1>2. pending' \subseteq Requests
  BY <1>1, RequestType DEF Identify, TypeOK
<1>3. taps' \in 0..MaxTaps
  BY ScreenAssumption DEF Identify, TypeOK
<1>4. roll' \in Rolls
  <2>1. people[selected] \subseteq Person
    BY <1>1 DEF TypeOK
  <2> DEFINE quiet == (pending = {})
  <2>2. quiet \in BOOLEAN
    OBVIOUS
  <2> HIDE DEF quiet
  <2>3. roll' = [group |-> selected, roster |-> people[selected], seen |-> {},
                 heard |-> FALSE, undisturbed |-> quiet,
                 empty |-> FALSE, announced |-> FALSE]
    BY DEF Identify, quiet
  <2> QED
    BY <1>1, <2>1, <2>2, <2>3 DEF Rolls
<1> QED
  BY <1>2, <1>3, <1>4 DEF Identify, TypeOK, screenVars

\* An answer to an identify request keeps the types, whatever it brings.
LEMMA AnswerType ==
    ASSUME TypeOK, NEW r \in pending,
           \/ IdentifyFailed(r)
           \/ IdentifyEmpty(r)
           \/ \E c \in Candidates(r) : IdentifyAnswered(r, c)
    PROVE  TypeOK'
<1>0. "allPresent" \in Notice
  BY DEF Notice
<1>1. CASE IdentifyFailed(r)
  BY <1>1 DEF IdentifyFailed, TypeOK, screenVars
<1>2. CASE IdentifyEmpty(r)
  <2>1. notices' \subseteq Notice /\ crashed' \in BOOLEAN
    <3>1. ShowSimpleHUD("allPresent") \/ UNCHANGED <<notices, crashed>>
      BY <1>2 DEF IdentifyEmpty
    <3> QED
      BY <1>0, <3>1, ShowType
  <2>2. roll' \in Rolls
    <3>1. Announces(r, absent) \in BOOLEAN
      BY DEF Announces
    <3> QED
      BY <1>2, <3>1 DEF IdentifyEmpty, TypeOK, Rolls
  <2> QED
    BY <1>2, <2>1, <2>2 DEF IdentifyEmpty, TypeOK, screenVars
<1>3. ASSUME NEW c \in Candidates(r), IdentifyAnswered(r, c) PROVE TypeOK'
  <2> DEFINE missing == Missing(r.group, NamesAfter(r, c))
  <2>1. CASE FaceMissing(r, c)
    BY <1>3, <2>1 DEF IdentifyAnswered, TypeOK, screenVars, rollVars
  <2>2. CASE ~FaceMissing(r, c)
    <3>1. /\ pending' = pending \ {r}
          /\ recognised' = NamesAfter(r, c)
          /\ absent' = missing
          /\ ShowSimpleHUD("allPresent") \/ UNCHANGED <<notices, crashed>>
          /\ UNCHANGED <<screenVars, selected, identifyEnabled, people, edits,
                         taps>>
      BY <1>3, <2>2 DEF IdentifyAnswered
    <3>2. r.group \in Group
      BY DEF TypeOK, Requests
    <3>3. Found(r, c) \subseteq Person
      BY CandidatesType DEF Found
    <3>4. recognised' \subseteq Name
      BY <3>1, <3>3, ScreenAssumption DEF NamesAfter, TypeOK
    <3>5. absent' \subseteq Person
      BY <3>1, <3>2 DEF Missing, TypeOK
    <3>6. notices' \subseteq Notice /\ crashed' \in BOOLEAN
      BY <1>0, <3>1, ShowType
    <3>7. roll' \in Rolls
      <4> DEFINE says == Announces(r, missing)
                 who == UNION {c[f] : f \in r.batch}
      <4>1. says \in BOOLEAN
        BY DEF Announces
      <4>2. who \subseteq Person
        BY CandidatesType
      <4>3. roll' = IF r.tap # taps THEN roll
                    ELSE [roll EXCEPT !.seen = @ \cup who, !.heard = TRUE,
                                      !.announced = @ \/ says]
        BY <1>3, <2>2 DEF IdentifyAnswered
      <4> HIDE DEF says, who
      <4> QED
        BY <4>1, <4>2, <4>3 DEF TypeOK, Rolls
    <3> QED
      BY <3>1, <3>4, <3>5, <3>6, <3>7 DEF TypeOK, screenVars
  <2> QED
    BY <2>1, <2>2
<1> QED
  BY <1>1, <1>2, <1>3

LEMMA NextType == TypeOK /\ PickerInv /\ [Next]_vars => TypeOK'
<1> SUFFICES ASSUME TypeOK, PickerInv, [Next]_vars PROVE TypeOK'
  OBVIOUS
<1>1. CASE UNCHANGED vars
  BY <1>1 DEF vars, TypeOK
<1> QED
  BY <1>1, PhotoType, TileType, ListType, IdentifyType, AnswerType DEF Next

-----------------------------------------------------------------------------
(* The HUD, its counter and the button. *)

\* The counter of a picked photo went down by IntSize with each answered
\* tile; a photo yet to be picked has no request.
CounterInv ==
    \A k \in Photo :
        IF k <= photo
          THEN countdown[k] = TileCount - IntSize * (TileCount - tiles[k])
          ELSE tiles[k] = 0

\* Only the photo on display has a HUD, and has it until its counter has
\* passed 1.
HudInv ==
    /\ hud \subseteq {photo}
    /\ photo > 0 => (photo \in hud <=> countdown[photo] >= 1)

\* The button is on over an empty _faces only before the first tile of the
\* photo on display was answered.
ButtonInv ==
    identifyEnabled /\ faces = <<>> => photo > 0 /\ tiles[photo] = TileCount

ScreenInv == TypeOK /\ PickerInv /\ CounterInv /\ HudInv /\ ButtonInv

LEMMA InitScreen == Init => ScreenInv
<1> SUFFICES ASSUME Init PROVE ScreenInv
  OBVIOUS
<1>1. CounterInv
  BY DEF CounterInv, Init, Photo
<1>2. PickerInv /\ HudInv /\ ButtonInv
  BY DEF Init, PickerInv, HudInv, ButtonInv
<1> QED
  BY <1>1, <1>2, InitType DEF ScreenInv

\* The invariant has no more to it than these variables.
LEMMA ScreenUnchanged ==
    ASSUME ScreenInv, UNCHANGED <<screenVars>>, TypeOK',
           identifyEnabled' => identifyEnabled \/ faces # <<>>
    PROVE  ScreenInv'
BY DEF ScreenInv, PickerInv, CounterInv, HudInv, ButtonInv, screenVars

LEMMA OpenPickerScreen ==
    ASSUME ScreenInv, OpenPicker, TypeOK'
    PROVE  ScreenInv'
BY DEF ScreenInv, OpenPicker, OnDisplay, Blocked, PickerInv, CounterInv, HudInv, ButtonInv

LEMMA CancelPickerScreen ==
    ASSUME ScreenInv, CancelPicker, TypeOK'
    PROVE  ScreenInv'
BY DEF ScreenInv, CancelPicker, PickerInv, CounterInv, HudInv, ButtonInv

\* A new photo has a full counter and its HUD up.
LEMMA PickPhotoScreen ==
    ASSUME ScreenInv, PickPhoto, TypeOK'
    PROVE  ScreenInv'
<1> USE DEF ScreenInv
<1>1. /\ photo \in Nat
      /\ photo' = photo + 1 /\ photo' \in Photo
      /\ hud = {} /\ hud' = {photo'}
  <2>1. pickerOpen /\ photo' = photo + 1 /\ hud' = hud \cup {photo'}
    BY DEF PickPhoto
  <2>2. photo \in 0..MaxPhotos /\ MaxPhotos \in Nat
    BY ScreenAssumption DEF TypeOK
  <2>3. hud = {} /\ photo < MaxPhotos
    BY <2>1 DEF PickerInv
  <2>4. hud' = {photo'}
    BY <2>1, <2>3
  <2> QED
    BY <2>1, <2>2, <2>3, <2>4 DEF Photo
<1>2. /\ tiles' = [tiles EXCEPT ![photo'] = TileCount]
      /\ countdown' = [countdown EXCEPT ![photo'] = TileCount]
      /\ tiles \in [Photo -> 0..TileCount]
      /\ countdown \in [Photo -> Int]
  BY DEF PickPhoto, TypeOK
<1>3. TileCount = 5 /\ IntSize = 4
  BY DEF TileCount, ImagesFromImage, IntSize
<1>4. tiles'[photo'] = 5 /\ countdown'[photo'] = 5
  BY <1>1, <1>2, <1>3
<1>5. CounterInv'
  <2> SUFFICES ASSUME NEW k \in Photo
               PROVE  IF k <= photo'
                        THEN countdown'[k] = TileCount - IntSize * (TileCount - tiles'[k])
                        ELSE tiles'[k] = 0
    BY DEF CounterInv
  <2>1. CASE k = photo'
    BY <2>1, <1>1, <1>3, <1>4
  <2>2. CASE k # photo'
    <3>1. tiles'[k] = tiles[k] /\ countdown'[k] = countdown[k]
      BY <2>2, <1>2
    <3>2. k <= photo' <=> k <= photo
      BY <2>2, <1>1 DEF Photo
    <3> QED
      BY <3>1, <3>2 DEF CounterInv
  <2> QED
    BY <2>1, <2>2
<1>6. HudInv'
  BY <1>1, <1>4 DEF HudInv
<1>7. ButtonInv'
  BY <1>1, <1>3, <1>4 DEF ButtonInv
<1>8. PickerInv'
  BY DEF PickPhoto, PickerInv
<1> QED
  BY <1>5, <1>6, <1>7, <1>8

\* An answered tile takes IntSize off the counter, turns the button off and
\* takes the HUD down at the second tile: 5, 1, -3.
LEMMA TileScreen ==
    ASSUME ScreenInv, NEW k \in Photo, NEW n \in 0..MaxFacesPerTile,
           TileAnswered(k, n), TypeOK'
    PROVE  ScreenInv'
<1> USE DEF ScreenInv
<1>1. TileCount = 5 /\ IntSize = 4
  BY DEF TileCount, ImagesFromImage, IntSize
<1>2. /\ tiles' = [tiles EXCEPT ![k] = @ - 1]
      /\ countdown' = [countdown EXCEPT ![k] = @ - 4]
      /\ hud' = IF countdown[k] = 1 THEN hud \ {k} ELSE hud
      /\ UNCHANGED <<photo, pickerOpen>>
      /\ tiles[k] > 0
  BY <1>1 DEF TileAnswered, Outstanding
<1>3. /\ tiles \in [Photo -> 0..5]
      /\ countdown \in [Photo -> Int]
      /\ photo \in Nat /\ k \in Nat
  BY <1>1, ScreenAssumption DEF TypeOK, Photo
<1>4. k <= photo /\ countdown[k] = 5 - 4 * (5 - tiles[k])
  BY <1>1, <1>2, <1>3 DEF CounterInv
<1>5. CounterInv'
  <2> SUFFICES ASSUME NEW d \in Photo
               PROVE  IF d <= photo'
                        THEN countdown'[d] = TileCount - IntSize * (TileCount - tiles'[d])
                        ELSE tiles'[d] = 0
    BY DEF CounterInv
  <2>1. CASE d = k
    BY <2>1, <1>1, <1>2, <1>3, <1>4
  <2>2. CASE d # k
    BY <2>2, <1>2, <1>3 DEF CounterInv
  <2> QED
    BY <2>1, <2>2
<1>6. HudInv'
  <2>1. CASE k = photo
    <3>1. countdown'[photo] = countdown[photo] - 4
      BY <2>1, <1>2, <1>3
    <3>2. countdown[photo] >= 5 \/ countdown[photo] <= 1
      BY <2>1, <1>3, <1>4
    <3>3. photo \in Photo /\ photo' = photo /\ photo > 0
      BY <2>1, <1>2 DEF Photo
    <3>4. hud' = IF countdown[photo] = 1 THEN hud \ {photo} ELSE hud
      BY <2>1, <1>2
    <3>5. countdown[photo] \in Int
      BY <1>3, <3>3
    <3>6. hud' \subseteq {photo}
      BY <3>4 DEF HudInv
    <3>7. photo \in hud <=> countdown[photo] >= 1
      BY <3>3 DEF HudInv
    <3>8. photo \in hud' <=> countdown[photo] >= 5
      BY <3>2, <3>4, <3>5, <3>7
    <3> QED
      BY <3>1, <3>2, <3>3, <3>5, <3>6, <3>8 DEF HudInv
  <2>2. CASE k # photo
    <3>1. photo > 0 => photo \in Photo
      BY <1>3 DEF TypeOK, Photo
    <3>2. photo > 0 => countdown'[photo] = countdown[photo]
      BY <3>1, <2>2, <1>2, <1>3
    <3>3. hud' = hud
      BY <2>2, <1>2 DEF HudInv
    <3> QED
      BY <3>2, <3>3, <1>2 DEF HudInv
  <2> QED
    BY <2>1, <2>2
<1>7. ButtonInv'
  BY DEF TileAnswered, ButtonAfterTile, ButtonInv
<1>8. PickerInv'
  BY <1>2 DEF PickerInv
<1> QED
  BY <1>5, <1>6, <1>7, <1>8

LEMMA NextScreen == ScreenInv /\ [Next]_vars => ScreenInv'
<1> SUFFICES ASSUME ScreenInv, [Next]_vars PROVE ScreenInv'
  OBVIOUS
<1>1. TypeOK'
  BY NextType DEF ScreenInv
<1>2. CASE OpenPicker \/ CancelPicker \/ PickPhoto
  BY <1>1, <1>2, OpenPickerScreen, CancelPickerScreen, PickPhotoScreen
<1>3. ASSUME NEW k \in Photo, NEW n \in 0..MaxFacesPerTile, TileAnswered(k, n)
      PROVE  ScreenInv'
  BY <1>1, <1>3, TileScreen
<1>4. ASSUME NEW g \in Group, DidSelectRow(g) PROVE ScreenInv'
  BY <1>1, <1>4, ScreenUnchanged DEF DidSelectRow
<1>5. ASSUME NEW m \in Notice, Dismiss(m) PROVE ScreenInv'
  BY <1>1, <1>5, ScreenUnchanged DEF Dismiss
<1>6. ASSUME NEW p \in Person, EditRoster(p) PROVE ScreenInv'
  BY <1>1, <1>6, ScreenUnchanged DEF EditRoster
<1>7. CASE IdentifyWithoutGroup \/ Identify
  BY <1>1, <1>7, ScreenUnchanged DEF IdentifyWithoutGroup, Identify
<1>8. ASSUME NEW r \in pending, IdentifyFailed(r) \/ IdentifyEmpty(r)
      PROVE  ScreenInv'
  BY <1>1, <1>8, ScreenUnchanged DEF IdentifyFailed, IdentifyEmpty
<1>9. ASSUME NEW r \in pending, NEW c \in Candidates(r), IdentifyAnswered(r, c)
      PROVE  ScreenInv'
  BY <1>1, <1>9, ScreenUnchanged DEF IdentifyAnswered
<1>10. CASE Leave
  BY <1>1, <1>10
  DEF Leave, ScreenInv, PickerInv, CounterInv, HudInv, ButtonInv
<1>11. CASE UNCHANGED vars
  BY <1>1, <1>11, ScreenUnchanged DEF vars, screenVars
<1> QED
  BY <1>2, <1>3, <1>4, <1>5, <1>6, <1>7, <1>8, <1>9, <1>10, <1>11 DEF Next

\* The variables of the screen keep their types.
THEOREM TypeCorrect == Spec => []TypeOK
<1>1. ScreenInv => TypeOK
  BY DEF ScreenInv
<1> QED
  BY <1>1, InitScreen, NextScreen, PTL DEF Spec

\* Whenever a tap on Identify is accepted, there is a face to send.
THEOREM TapHasFaces == Spec => []IdentifyHasFaces
<1>1. ScreenInv => IdentifyHasFaces
  <2> SUFFICES ASSUME ScreenInv, identifyEnabled, faces = <<>> PROVE hud # {}
    BY DEF IdentifyHasFaces, Blocked
  <2>1. TileCount = 5 /\ IntSize = 4
    BY DEF TileCount, ImagesFromImage, IntSize
  <2>2. photo > 0 /\ tiles[photo] = 5
    BY <2>1 DEF ScreenInv, ButtonInv
  <2>3. photo \in Photo
    BY <2>2, ScreenAssumption DEF ScreenInv, TypeOK, Photo
  <2>4. countdown[photo] = 5
    BY <2>1, <2>2, <2>3 DEF ScreenInv, CounterInv, Photo
  <2> QED
    BY <2>2, <2>4 DEF ScreenInv, HudInv
<1> QED
  BY <1>1, InitScreen, NextScreen, PTL DEF Spec

-----------------------------------------------------------------------------
(* The faces of a request. *)

\* No request is of a photo that is yet to come.
PhotoInv ==
    /\ PendingFacesPresent
    /\ \A r \in pending : r.photo <= photo

\* Fewer requests, more faces: the invariant stays.
LEMMA PhotoUnchanged ==
    ASSUME PhotoInv, pending' \subseteq pending, photo' = photo,
           ShownFaces \subseteq ShownFaces'
    PROVE  PhotoInv'
BY DEF PhotoInv, PendingFacesPresent

LEMMA FacesUnchanged ==
    ASSUME faces' = faces
    PROVE  ShownFaces' = ShownFaces
BY DEF ShownFaces

\* An answered tile takes no face away.
LEMMA TileKeepsFaces ==
    ASSUME TypeOK, NEW k \in Photo, NEW n \in 0..MaxFacesPerTile,
           TileAnswered(k, n)
    PROVE  ShownFaces \subseteq ShownFaces'
<1>1. faces' = FacesAfter(k, n)
  BY DEF TileAnswered
<1> QED
  BY <1>1, FacesAfterType DEF ShownFaces

LEMMA InitPhoto == Init => PhotoInv
BY DEF Init, PhotoInv, PendingFacesPresent

LEMMA NextPhoto == ScreenInv /\ PhotoInv /\ [Next]_vars => PhotoInv'
<1> SUFFICES ASSUME ScreenInv, PhotoInv, [Next]_vars PROVE PhotoInv'
  OBVIOUS
<1>0. TypeOK
  BY DEF ScreenInv
<1>1. ASSUME pending' \subseteq pending, photo' = photo, faces' = faces
      PROVE  PhotoInv'
  BY <1>1, PhotoUnchanged, FacesUnchanged
<1>2. CASE OpenPicker \/ CancelPicker
  BY <1>1, <1>2 DEF OpenPicker, CancelPicker, rollVars
<1>3. CASE PickPhoto
  <2>1. photo' = photo + 1 /\ pending' = pending
    BY <1>3 DEF PickPhoto, rollVars
  <2>2. photo \in Int
    BY <1>0 DEF TypeOK
  <2>3. \A r \in pending : r.photo \in Int
    BY <1>0 DEF TypeOK, Requests
  <2>4. \A r \in pending' : r.photo <= photo' /\ r.photo # photo'
    BY <2>1, <2>2, <2>3 DEF PhotoInv
  <2> QED
    BY <2>4 DEF PhotoInv, PendingFacesPresent
<1>4. ASSUME NEW k \in Photo, NEW n \in 0..MaxFacesPerTile, TileAnswered(k, n)
      PROVE  PhotoInv'
  <2>1. pending' = pending /\ photo' = photo
    BY <1>4 DEF TileAnswered, rollVars
  <2> QED
    BY <1>0, <1>4, <2>1, TileKeepsFaces, PhotoUnchanged
<1>5. CASE \/ \E g \in Group : DidSelectRow(g)
           \/ \E m \in Notice : Dismiss(m)
           \/ \E p \in Person : EditRoster(p)
           \/ Leave
           \/ IdentifyWithoutGroup
  BY <1>1, <1>5
  DEF DidSelectRow, Leave, Dismiss, EditRoster, IdentifyWithoutGroup, screenVars, rollVars
<1>6. CASE Identify
  <2>1. /\ selected \in Group
        /\ photo' = photo /\ faces' = faces
        /\ pending' = pending \cup {Request(j, selected) : j \in 1..BatchCount}
    BY <1>0, <1>6 DEF Identify, TypeOK, screenVars
  <2>2. photo \in Int
    BY <1>0 DEF TypeOK
  <2>3. ASSUME NEW r \in pending'
        PROVE  r.photo <= photo /\ (r.photo = photo => r.batch \subseteq ShownFaces)
    <3>1. CASE r \in pending
      BY <3>1 DEF PhotoInv, PendingFacesPresent
    <3>2. ASSUME NEW j \in 1..BatchCount, r = Request(j, selected)
          PROVE  r.photo = photo /\ r.batch \subseteq ShownFaces
      BY <1>0, <2>1, <3>2, RequestType
    <3> QED
      BY <2>1, <2>2, <3>1, <3>2
  <2> QED
    BY <2>1, <2>3, FacesUnchanged DEF PhotoInv, PendingFacesPresent
<1>7. ASSUME NEW r \in pending, IdentifyFailed(r) \/ IdentifyEmpty(r)
      PROVE  PhotoInv'
  BY <1>1, <1>7 DEF IdentifyFailed, IdentifyEmpty, screenVars
<1>8. ASSUME NEW r \in pending, NEW c \in Candidates(r), IdentifyAnswered(r, c)
      PROVE  PhotoInv'
  <2>1. /\ UNCHANGED <<photo, faces>>
        /\ pending' = pending \/ pending' = pending \ {r}
    BY <1>8 DEF IdentifyAnswered, screenVars, rollVars
  <2> QED
    BY <1>1, <2>1
<1>9. CASE UNCHANGED vars
  BY <1>1, <1>9 DEF vars
<1> QED
  BY <1>2, <1>3, <1>4, <1>5, <1>6, <1>7, <1>8, <1>9 DEF Next

\* The faces of a request stay on display until another photo is picked, so
\* only an answer that comes after that can crash the app.
THEOREM FacesPresent == Spec => []PendingFacesPresent
<1>1. PhotoInv => PendingFacesPresent
  BY DEF PhotoInv
<1> QED
  BY <1>1, InitScreen, NextScreen, InitPhoto, NextPhoto, PTL DEF Spec

\* A face that is found missing is one of another photo, and a notice is
\* without its view only once the screen was left.
LEMMA EndsOnlyLateStep ==
    ASSUME PendingFacesPresent, [Next]_vars, crashed' # crashed
    PROVE  left \/ \E r \in pending : r.photo # photo
<1>1. ASSUME NEW m, ShowSimpleHUD(m) \/ UNCHANGED <<notices, crashed>>
      PROVE  left
  BY <1>1 DEF ShowSimpleHUD
<1>2. CASE OpenPicker \/ CancelPicker \/ PickPhoto \/ Leave
  BY <1>2 DEF OpenPicker, CancelPicker, PickPhoto, Leave
<1>3. ASSUME NEW k \in Photo, NEW n \in 0..MaxFacesPerTile, TileAnswered(k, n)
      PROVE  left
  BY <1>1, <1>3 DEF TileAnswered
<1>4. CASE \/ \E g \in Group : DidSelectRow(g)
           \/ \E m \in Notice : Dismiss(m)
           \/ \E p \in Person : EditRoster(p)
           \/ IdentifyWithoutGroup \/ Identify
  BY <1>4 DEF DidSelectRow, Dismiss, EditRoster, IdentifyWithoutGroup, Identify
<1>5. ASSUME NEW r \in pending, IdentifyFailed(r) PROVE FALSE
  BY <1>5 DEF IdentifyFailed
<1>6. ASSUME NEW r \in pending, IdentifyEmpty(r) PROVE left
  BY <1>1, <1>6 DEF IdentifyEmpty
<1>7. ASSUME NEW r \in pending, NEW c \in Candidates(r), IdentifyAnswered(r, c)
      PROVE  left \/ r.photo # photo
  <2>1. CASE FaceMissing(r, c)
    BY <2>1 DEF FaceMissing, PendingFacesPresent
  <2>2. CASE ~FaceMissing(r, c)
    <3>1. ShowSimpleHUD("allPresent") \/ UNCHANGED <<notices, crashed>>
      BY <1>7, <2>2 DEF IdentifyAnswered
    <3> QED
      BY <1>1, <3>1
  <2> QED
    BY <2>1, <2>2
<1>8. CASE UNCHANGED vars
  BY <1>8 DEF vars
<1> QED
  BY <1>2, <1>3, <1>4, <1>5, <1>6, <1>7, <1>8 DEF Next

\* The app ends only by an answer that outlived its photo or its screen.
THEOREM EndsLate == Spec => EndsOnlyLate
<1>1. PendingFacesPresent /\ [Next]_vars
         => [crashed' # crashed => left \/ \E r \in pending : r.photo # photo]_vars
  BY EndsOnlyLateStep
<1> QED
  BY <1>1, FacesPresent, PTL DEF Spec, EndsOnlyLate

-----------------------------------------------------------------------------
(* The batches of a tap. *)

\* The faces on display are fresh ones, each another; no request is of a tap
\* that is yet to come.
FreshInv ==
    /\ \A i \in DOMAIN faces : faces[i].id <= detected
    /\ \A i, j \in DOMAIN faces : faces[i].id = faces[j].id => i = j
    /\ \A r \in pending : r.tap <= taps

LEMMA InitFresh == Init => FreshInv
BY DEF Init, FreshInv

\* An answered tile appends faces with numbers above the ones there are.
LEMMA TileFresh ==
    ASSUME TypeOK, FreshInv, NEW k \in Photo, NEW n \in 0..MaxFacesPerTile,
           TileAnswered(k, n)
    PROVE  FreshInv'
<1> DEFINE new == Detected(k, n)
<1>1. /\ new \in Seq(Face) /\ faces \in Seq(Face)
      /\ faces' = faces \o new
      /\ UNCHANGED <<pending, taps>>
  BY DetectedType DEF TypeOK, TileAnswered, FacesAfter, rollVars
<1>2. /\ n \in Nat /\ detected \in Nat /\ detected' = detected + n
      /\ \A i \in DOMAIN faces : faces[i].id \in Nat
  <2>1. n \in Nat /\ detected \in Nat /\ detected' = detected + n
    BY ScreenAssumption DEF TypeOK, TileAnswered
  <2>2. \A i \in DOMAIN faces : faces[i] \in Face
    BY <1>1
  <2> QED
    BY <2>1, <2>2 DEF Face
<1>3. Len(new) = n /\ \A i \in 1..n : new[i].id = detected + i
  BY <1>2 DEF Detected
<1> HIDE DEF new
<1>4. /\ Len(faces) \in Nat /\ DOMAIN faces = 1..Len(faces)
      /\ DOMAIN faces' = 1..(Len(faces) + n)
      /\ \A i \in 1..Len(faces) : faces'[i] = faces[i]
      /\ \A i \in 1..n : faces'[Len(faces) + i] = new[i]
  BY <1>1, <1>2, <1>3
<1>5. ASSUME NEW i \in DOMAIN faces'
      PROVE  \/ i \in DOMAIN faces /\ faces'[i].id = faces[i].id
             \/ i - Len(faces) \in 1..n /\ faces'[i].id = detected + (i - Len(faces))
  <2>1. CASE i <= Len(faces)
    BY <1>4, <2>1
  <2>2. CASE ~(i <= Len(faces))
    <3>1. i - Len(faces) \in 1..n /\ i = Len(faces) + (i - Len(faces))
      BY <1>2, <1>4, <2>2
    <3> QED
      BY <1>3, <1>4, <3>1
  <2> QED
    BY <2>1, <2>2
<1>6. \A i \in DOMAIN faces' : faces'[i].id <= detected'
  BY <1>2, <1>4, <1>5 DEF FreshInv
<1>7. ASSUME NEW i \in DOMAIN faces', NEW j \in DOMAIN faces',
             faces'[i].id = faces'[j].id
      PROVE  i = j
  <2>1. CASE i \in DOMAIN faces /\ j \in DOMAIN faces
    BY <1>4, <1>7, <2>1 DEF FreshInv
  <2>2. CASE ~(i \in DOMAIN faces /\ j \in DOMAIN faces)
    <3>1. i \in Int /\ j \in Int /\ Len(faces) \in Nat
      BY <1>2, <1>4
    <3>2. \A d \in DOMAIN faces : faces[d].id <= detected /\ faces[d].id \in Nat
      BY <1>2 DEF FreshInv
    <3>3. \/ i - Len(faces) \in 1..n /\ faces'[i].id = detected + (i - Len(faces))
          \/ j - Len(faces) \in 1..n /\ faces'[j].id = detected + (j - Len(faces))
      BY <1>5, <2>2
    <3> QED
      BY <1>2, <1>5, <1>7, <3>1, <3>2, <3>3
  <2> QED
    BY <2>1, <2>2
<1> QED
  BY <1>1, <1>6, <1>7 DEF FreshInv

LEMMA NextFresh == TypeOK /\ FreshInv /\ [Next]_vars => FreshInv'
<1> SUFFICES ASSUME TypeOK, FreshInv, [Next]_vars PROVE FreshInv'
  OBVIOUS
<1>1. ASSUME pending' \subseteq pending, UNCHANGED <<faces, detected, taps>>
      PROVE  FreshInv'
  BY <1>1 DEF FreshInv
<1>2. CASE OpenPicker \/ CancelPicker
  BY <1>1, <1>2 DEF OpenPicker, CancelPicker, rollVars
<1>3. CASE PickPhoto
  BY <1>3 DEF PickPhoto, FreshInv, rollVars
<1>4. ASSUME NEW k \in Photo, NEW n \in 0..MaxFacesPerTile, TileAnswered(k, n)
      PROVE  FreshInv'
  BY <1>4, TileFresh
<1>5. CASE \/ \E g \in Group : DidSelectRow(g)
           \/ \E m \in Notice : Dismiss(m)
           \/ \E p \in Person : EditRoster(p)
           \/ Leave
           \/ IdentifyWithoutGroup
  BY <1>1, <1>5
  DEF DidSelectRow, Leave, Dismiss, EditRoster, IdentifyWithoutGroup, screenVars, rollVars
<1>6. CASE Identify
  <2>1. /\ selected \in Group
        /\ UNCHANGED <<faces, detected>> /\ taps' = taps + 1
        /\ pending' = pending \cup {Request(j, selected) : j \in 1..BatchCount}
    BY <1>6 DEF Identify, TypeOK, screenVars
  <2>2. taps \in Int /\ \A r \in pending : r.tap \in Int
    BY DEF TypeOK, Requests
  <2>3. \A r \in pending' : r.tap <= taps'
    BY <2>1, <2>2, RequestType DEF FreshInv
  <2> QED
    BY <2>1, <2>3 DEF FreshInv
<1>7. ASSUME NEW r \in pending, IdentifyFailed(r) \/ IdentifyEmpty(r)
      PROVE  FreshInv'
  BY <1>1, <1>7 DEF IdentifyFailed, IdentifyEmpty, screenVars
<1>8. ASSUME NEW r \in pending, NEW c \in Candidates(r), IdentifyAnswered(r, c)
      PROVE  FreshInv'
  BY <1>1, <1>8 DEF IdentifyAnswered, screenVars, rollVars
<1>9. CASE UNCHANGED vars
  BY <1>1, <1>9 DEF vars
<1> QED
  BY <1>2, <1>3, <1>4, <1>5, <1>6, <1>7, <1>8, <1>9 DEF Next

\* The division into batches: the faces of batch j are the b in a row after
\* the first (j - 1) * b, and the last batch is not empty.
LEMMA BatchOfIndex ==
    ASSUME NEW b \in Nat \ {0}, NEW i \in Nat \ {0}
    PROVE  /\ (i - 1) \div b \in Nat
           /\ b * ((i - 1) \div b) <= i - 1
           /\ i - 1 < b * ((i - 1) \div b) + b
OBVIOUS

LEMMA QuotientIs ==
    ASSUME NEW a \in Nat, NEW b \in Nat \ {0}, NEW q \in Nat,
           b * q <= a, a < b * q + b
    PROVE  a \div b = q
OBVIOUS

LEMMA ProductMonotone ==
    ASSUME NEW p \in Nat, NEW q \in Nat, NEW b \in Nat \ {0}, p < q
    PROVE  b * p + b <= b * q
OBVIOUS

LEMMA CountBounds ==
    ASSUME TypeOK
    PROVE  /\ BatchCount \in Nat
           /\ BatchSize * BatchCount >= Len(faces)
           /\ faces # <<>> => BatchCount >= 1
           /\ BatchCount >= 1 => BatchSize * (BatchCount - 1) < Len(faces)
<1> DEFINE n == Len(faces)
<1>1. n \in Nat /\ BatchSize \in Nat \ {0} /\ (faces # <<>> => n >= 1)
  BY ScreenAssumption DEF TypeOK
<1>2. BatchCount = (n + BatchSize - 1) \div BatchSize
  BY DEF BatchCount
<1> HIDE DEF n
<1>3. /\ BatchCount \in Nat
      /\ BatchSize * BatchCount <= n + BatchSize - 1
      /\ n + BatchSize - 1 < BatchSize * BatchCount + BatchSize
  BY <1>1, <1>2, BatchOfIndex, n + BatchSize \in Nat \ {0}
<1>4. BatchSize * BatchCount \in Nat
  BY <1>1, <1>3
<1>5. BatchSize * BatchCount >= n
  BY <1>1, <1>3, <1>4
<1>6. n >= 1 => BatchCount >= 1
  BY <1>1, <1>3, <1>5
<1>7. BatchCount >= 1 => BatchSize * (BatchCount - 1) = BatchSize * BatchCount - BatchSize
  BY <1>1, <1>3
<1>8. BatchCount >= 1 => BatchSize * (BatchCount - 1) < n
  BY <1>1, <1>3, <1>4, <1>7
<1> QED
  BY <1>1, <1>3, <1>5, <1>6, <1>8 DEF n

Indices(j) == {i \in DOMAIN faces : (i - 1) \div BatchSize = j - 1}

\* A batch has at most BatchSize faces, and one at least.
LEMMA BatchCardinality ==
    ASSUME TypeOK, NEW j \in 1..BatchCount
    PROVE  IsFiniteSet(Batch(j)) /\ Cardinality(Batch(j)) \in 1..BatchSize
<1> DEFINE low == BatchSize * (j - 1) + 1
           high == BatchSize * (j - 1) + BatchSize
<1>1. /\ BatchCount \in Nat /\ j \in Nat \ {0} /\ j <= BatchCount
      /\ BatchSize \in Nat \ {0} /\ faces \in Seq(Face) /\ Len(faces) \in Nat
      /\ DOMAIN faces = 1..Len(faces)
  BY CountBounds, ScreenAssumption DEF TypeOK
<1>2. BatchSize * (j - 1) \in Nat /\ low \in Nat \ {0} /\ high \in Nat
  BY <1>1
<1>3. Indices(j) \in SUBSET (low..high)
  <2> SUFFICES ASSUME NEW i \in DOMAIN faces, (i - 1) \div BatchSize = j - 1
               PROVE  i \in low..high
    BY DEF Indices
  <2>1. i \in Nat \ {0}
    BY <1>1
  <2> DEFINE q == (i - 1) \div BatchSize
  <2>2. q \in Nat /\ BatchSize * q <= i - 1 /\ i - 1 < BatchSize * q + BatchSize
    BY <1>1, <2>1, BatchOfIndex
  <2>3. BatchSize * q = BatchSize * (j - 1)
    OBVIOUS
  <2> HIDE DEF q
  <2>4. BatchSize * (j - 1) <= i - 1 /\ i - 1 < BatchSize * (j - 1) + BatchSize
    BY <2>2, <2>3
  <2> QED
    BY <1>1, <1>2, <2>1, <2>4
<1>4. low \in Indices(j)
  <2>1. BatchSize * (j - 1) < Len(faces)
    <3>1. CASE j = BatchCount
      BY <1>1, <3>1, CountBounds
    <3>2. CASE j # BatchCount
      <4>1. j - 1 \in Nat /\ BatchCount - 1 \in Nat /\ j - 1 < BatchCount - 1
            /\ BatchCount >= 1
        BY <1>1, <3>2
      <4>2. BatchSize * (BatchCount - 1) \in Nat
        BY <1>1, <4>1
      <4> HIDE DEF low, high
      <4>3. BatchSize * (j - 1) + BatchSize <= BatchSize * (BatchCount - 1)
        BY <1>1, <4>1, ProductMonotone
      <4>4. BatchSize * (BatchCount - 1) < Len(faces)
        BY <4>1, CountBounds
      <4> QED
        BY <1>1, <1>2, <4>2, <4>3, <4>4
    <3> QED
      BY <3>1, <3>2
  <2>2. low \in DOMAIN faces
    BY <1>1, <1>2, <2>1
  <2>3. (low - 1) \div BatchSize = j - 1
    <3>1. low - 1 = BatchSize * (j - 1) /\ j - 1 \in Nat
      BY <1>1, <1>2
    <3> QED
      BY <1>1, <1>2, <3>1, QuotientIs
  <2> QED
    BY <2>2, <2>3 DEF Indices
<1>5. IsFiniteSet(low..high) /\ Cardinality(low..high) = BatchSize
  <2>1. high - low + 1 = BatchSize /\ ~(low > high) /\ low \in Int /\ high \in Int
    BY <1>1, <1>2
  <2> HIDE DEF low, high
  <2> QED
    BY <2>1, FS_Interval
<1> HIDE DEF low, high
<1>6. IsFiniteSet(Indices(j)) /\ Cardinality(Indices(j)) <= BatchSize
      /\ Cardinality(Indices(j)) \in Nat
  BY <1>3, <1>5, FS_Subset, FS_CardinalityType
<1> DEFINE image == [i \in Indices(j) |-> faces[i]]
<1>7. image \in Surjection(Indices(j), Batch(j))
  BY DEF Surjection, Batch, Indices
<1>8. IsFiniteSet(Batch(j)) /\ Cardinality(Batch(j)) <= Cardinality(Indices(j))
  BY <1>6, <1>7, FS_Surjection
<1>9. Batch(j) # {}
  BY <1>4 DEF Batch, Indices
<1>10. Cardinality(Batch(j)) \in Nat /\ Cardinality(Batch(j)) # 0
  BY <1>8, <1>9, FS_CardinalityType, FS_EmptySet
<1> QED
  BY <1>1, <1>6, <1>8, <1>10

\* Every face is in a batch that is sent.
LEMMA BatchesCover ==
    ASSUME TypeOK
    PROVE  UNION {Batch(j) : j \in 1..BatchCount} = ShownFaces
<1>1. \A j \in 1..BatchCount : Batch(j) \subseteq ShownFaces
  BY DEF Batch, ShownFaces
<1>2. ASSUME NEW i \in DOMAIN faces
      PROVE  \E j \in 1..BatchCount : faces[i] \in Batch(j)
  <2> DEFINE q == (i - 1) \div BatchSize
  <2>1. /\ i \in Nat \ {0} /\ i <= Len(faces) /\ Len(faces) \in Nat
        /\ BatchSize \in Nat \ {0} /\ BatchCount \in Nat
    BY CountBounds, ScreenAssumption DEF TypeOK
  <2>2. q \in Nat /\ BatchSize * q <= i - 1
    BY <2>1, BatchOfIndex
  <2>3. (i - 1) \div BatchSize = (q + 1) - 1
    BY <2>2
  <2> HIDE DEF q
  <2>4. q < BatchCount
    <3> SUFFICES ASSUME BatchCount <= q PROVE FALSE
      BY <2>1, <2>2
    <3>1. BatchSize * BatchCount <= BatchSize * q
      <4>1. CASE BatchCount = q
        BY <2>1, <2>2, <4>1
      <4>2. CASE BatchCount < q
        <5>1. BatchSize * BatchCount + BatchSize <= BatchSize * q
          BY <2>1, <2>2, <4>2, ProductMonotone
        <5>2. BatchSize * BatchCount \in Nat /\ BatchSize * q \in Nat
          BY <2>1, <2>2
        <5> QED
          BY <2>1, <5>1, <5>2
      <4> QED
        BY <2>1, <2>2, <4>1, <4>2
    <3>2. BatchSize * BatchCount >= Len(faces)
      BY CountBounds
    <3>3. BatchSize * BatchCount \in Nat /\ BatchSize * q \in Nat
      BY <2>1, <2>2
    <3> QED
      BY <2>1, <2>2, <3>1, <3>2, <3>3
  <2>5. q + 1 \in 1..BatchCount
    BY <2>1, <2>2, <2>4
  <2>6. faces[i] \in Batch(q + 1)
    BY <2>3 DEF Batch
  <2> QED
    BY <2>5, <2>6
<1> QED
  BY <1>1, <1>2 DEF ShownFaces

\* Pairwise different faces are in one batch each.
LEMMA BatchesDisjoint ==
    ASSUME TypeOK, FreshInv, NEW j \in 1..BatchCount, NEW k \in 1..BatchCount, j # k
    PROVE  Batch(j) \cap Batch(k) = {}
<1> SUFFICES ASSUME NEW i \in DOMAIN faces, NEW m \in DOMAIN faces,
                    (i - 1) \div BatchSize = j - 1, (m - 1) \div BatchSize = k - 1,
                    faces[i] = faces[m]
             PROVE  FALSE
  BY DEF Batch
<1>1. i = m
  BY DEF FreshInv
<1>2. j \in Int /\ k \in Int
  BY CountBounds
<1> QED
  BY <1>1, <1>2

\* A tap sends each face once, in batches of a size the service takes, one
\* of them the last.
LEMMA BatchesStep ==
    ASSUME ScreenInv, IdentifyHasFaces, FreshInv, [Next]_vars, taps' # taps
    PROVE  LET new == pending' \ pending IN
           /\ UNION {r.batch : r \in new} = ShownFaces
           /\ \A r, s \in new : r # s => r.batch \cap s.batch = {}
           /\ \A r \in new : Cardinality(r.batch) \in 1..BatchSize
           /\ Cardinality({r \in new : r.last}) = 1
<1> DEFINE new == pending' \ pending
           sent == {Request(j, selected) : j \in 1..BatchCount}
<1>0. TypeOK
  BY DEF ScreenInv
<1>1. Identify
  BY DEF Next, vars, OpenPicker, CancelPicker, PickPhoto, TileAnswered,
     DidSelectRow, Dismiss, EditRoster, Leave, IdentifyWithoutGroup,
     IdentifyFailed, IdentifyEmpty, IdentifyAnswered, screenVars, rollVars
<1>2. selected \in Group /\ faces # <<>>
  BY <1>0, <1>1 DEF Identify, TypeOK, OnDisplay, IdentifyHasFaces
<1>3. \A j \in 1..BatchCount :
         /\ Request(j, selected).tap = taps + 1
         /\ Request(j, selected).batch = Batch(j)
         /\ Request(j, selected).last = (j = BatchCount)
  BY DEF Request
<1>4. new = sent
  <2>1. \A r \in pending : r.tap # taps + 1
    BY <1>0 DEF FreshInv, TypeOK, Requests
  <2> QED
    BY <1>1, <1>3, <2>1 DEF Identify
<1> HIDE DEF new
<1>5. UNION {r.batch : r \in new} = ShownFaces
  BY <1>0, <1>3, <1>4, BatchesCover
<1>6. \A r, s \in new : r # s => r.batch \cap s.batch = {}
  <2> SUFFICES ASSUME NEW j \in 1..BatchCount, NEW k \in 1..BatchCount,
                      Request(j, selected) # Request(k, selected)
               PROVE  Batch(j) \cap Batch(k) = {}
    BY <1>3, <1>4
  <2>1. j # k
    OBVIOUS
  <2> QED
    BY <1>0, <2>1, BatchesDisjoint
<1>7. \A r \in new : Cardinality(r.batch) \in 1..BatchSize
  BY <1>0, <1>3, <1>4, BatchCardinality
<1>8. {r \in new : r.last} = {Request(BatchCount, selected)}
  <2>1. BatchCount \in 1..BatchCount
    BY <1>0, <1>2, CountBounds
  <2> QED
    BY <1>3, <1>4, <2>1
<1>9. Cardinality({r \in new : r.last}) = 1
  BY <1>8, FS_Singleton
<1> QED
  BY <1>5, <1>6, <1>7, <1>9 DEF new

\* The requests of a tap carry every face on display, each in one of them.
THEOREM BatchesCoverAll == Spec => BatchesCoverFaces
<1>1. ScreenInv /\ IdentifyHasFaces /\ FreshInv /\ [Next]_vars =>
        [ taps' # taps =>
            LET new == pending' \ pending IN
            /\ UNION {r.batch : r \in new} = ShownFaces
            /\ \A r, s \in new : r # s => r.batch \cap s.batch = {}
            /\ \A r \in new : Cardinality(r.batch) \in 1..BatchSize
            /\ Cardinality({r \in new : r.last}) = 1 ]_vars
  BY BatchesStep
<1>2. ScreenInv => TypeOK
  BY DEF ScreenInv
<1> QED
  BY <1>1, <1>2, TapHasFaces, InitScreen, NextScreen, InitFresh, NextFresh, PTL
  DEF Spec, BatchesCoverFaces

-----------------------------------------------------------------------------
(* The list of absentees. *)

Names(P) == {NameOf[p] : p \in P}

\* While a roll call is undisturbed, every request under way is its own and
\* carries the roster it started with; resultsNamesArr holds the names of
\* the members seen so far, and once an answer was heard, _listOfAbsentPpl
\* the others.
RollInv ==
    roll.undisturbed =>
        /\ \A r \in pending : r.tap = taps /\ r.group = roll.group
        /\ pending # {} => people[roll.group] = roll.roster
        /\ recognised = Names(roll.seen \cap roll.roster)
        /\ roll.heard => absent = {p \in roll.roster : NameOf[p] \notin recognised}
        /\ roll.announced /\ ~roll.empty =>
              \A p \in roll.roster : NameOf[p] \in recognised

\* A member is recorded when his name is among those of the members seen.
LEMMA RecordedByName ==
    ASSUME NEW p
    PROVE  Recorded(p) <=> NameOf[p] \in Names(roll.seen \cap roll.roster)
BY DEF Recorded, Names

LEMMA InitRoll == Init => RollInv
<1> SUFFICES ASSUME Init PROVE RollInv
  OBVIOUS
<1>1. Names({}) = {}
  BY DEF Names
<1> QED
  BY <1>1 DEF Init, RollInv

LEMMA RollUnchanged ==
    ASSUME RollInv, UNCHANGED <<taps, recognised, absent, roll, people>>,
           pending' \subseteq pending
    PROVE  RollInv'
BY DEF RollInv, Names

\* A roster edited under a request of its group disturbs the roll call.
LEMMA EditRoll ==
    ASSUME TypeOK, RollInv, NEW p \in Person, EditRoster(p)
    PROVE  RollInv'
<1> SUFFICES ASSUME roll'.undisturbed PROVE RollInv'
  BY DEF RollInv
<1>1. roll' = [roll EXCEPT !.undisturbed = @ /\ (pending = {} \/ GroupOf[p] # roll.group)]
  BY DEF EditRoster
<1>2. /\ roll.undisturbed
      /\ pending = {} \/ GroupOf[p] # roll.group
  BY <1>1 DEF TypeOK, Rolls
<1>3. /\ roll'.group = roll.group /\ roll'.roster = roll.roster
      /\ roll'.seen = roll.seen /\ roll'.heard = roll.heard
      /\ roll'.announced = roll.announced /\ roll'.empty = roll.empty
  BY <1>1 DEF TypeOK, Rolls
<1>4. UNCHANGED <<taps, pending, recognised, absent>>
  BY DEF EditRoster
<1>5. pending # {} => people'[roll.group] = people[roll.group]
  <2> SUFFICES ASSUME pending # {} PROVE people'[roll.group] = people[roll.group]
    OBVIOUS
  <2>1. GroupOf[p] # roll.group
    BY <1>2
  <2>2. PICK r \in pending : r.group = roll.group
    BY <1>2 DEF RollInv
  <2>3. roll.group \in Group
    BY <2>2 DEF TypeOK, Requests
  <2> QED
    BY <2>1, <2>3 DEF EditRoster, TypeOK
<1> QED
  BY <1>2, <1>3, <1>4, <1>5 DEF RollInv, Names

\* A tap starts a roll call, undisturbed if nothing older is under way.
LEMMA IdentifyRoll ==
    ASSUME TypeOK, RollInv, Identify
    PROVE  RollInv'
<1>1. /\ roll'.group = selected /\ roll'.roster = people[selected]
      /\ roll'.seen = {} /\ roll'.heard = FALSE /\ roll'.announced = FALSE
      /\ roll'.undisturbed = (pending = {})
  BY DEF Identify
<1>2. /\ taps' = taps + 1
      /\ recognised' = {}
      /\ UNCHANGED people
      /\ pending' = pending \cup {Request(j, selected) : j \in 1..BatchCount}
      /\ selected \in Group
  BY DEF Identify, TypeOK
<1>3. \A r \in pending' \ pending : r.tap = taps' /\ r.group = selected
  BY <1>2, RequestType
<1>4. Names({}) = {}
  BY DEF Names
<1> QED
  BY <1>1, <1>2, <1>3, <1>4 DEF RollInv, Names

\* An answer without results changes neither list.
LEMMA EmptyRoll ==
    ASSUME TypeOK, RollInv, NEW r \in pending, IdentifyEmpty(r)
    PROVE  RollInv'
<1>1. /\ pending' = pending \ {r}
      /\ UNCHANGED <<taps, recognised, absent, people>>
      /\ roll' = IF r.tap # taps THEN roll
                 ELSE [roll EXCEPT !.empty = TRUE,
                                   !.announced = @ \/ Announces(r, absent)]
  BY DEF IdentifyEmpty
<1>2. CASE r.tap # taps
  BY <1>1, <1>2, RollUnchanged
<1>3. CASE r.tap = taps
  <2>1. /\ roll'.undisturbed = roll.undisturbed
        /\ roll'.group = roll.group /\ roll'.roster = roll.roster
        /\ roll'.seen = roll.seen /\ roll'.heard = roll.heard
        /\ roll'.empty = TRUE
    BY <1>1, <1>3 DEF TypeOK, Rolls
  <2> QED
    BY <1>1, <2>1 DEF RollInv, Names
<1> QED
  BY <1>2, <1>3

\* An answer adds the names of the members it saw and lists the others.
LEMMA AnswerRoll ==
    ASSUME TypeOK, RollInv, NEW r \in pending, NEW c \in Candidates(r),
           IdentifyAnswered(r, c)
    PROVE  RollInv'
<1> DEFINE who == UNION {c[f] : f \in r.batch}
           missing == Missing(r.group, NamesAfter(r, c))
           says == Announces(r, missing)
<1>1. CASE FaceMissing(r, c)
  <2>1. UNCHANGED <<taps, recognised, absent, roll, people, pending>>
    BY <1>1 DEF IdentifyAnswered, rollVars
  <2> QED
    BY <2>1, RollUnchanged
<1>2. CASE ~FaceMissing(r, c)
  <2> SUFFICES ASSUME roll'.undisturbed PROVE RollInv'
    BY DEF RollInv
  <2>1. /\ pending' = pending \ {r}
        /\ recognised' = NamesAfter(r, c)
        /\ absent' = missing
        /\ UNCHANGED <<taps, people>>
        /\ roll' = IF r.tap # taps THEN roll
                   ELSE [roll EXCEPT !.seen = @ \cup who, !.heard = TRUE,
                                     !.announced = @ \/ says]
    BY <1>2 DEF IdentifyAnswered
  <2> HIDE DEF who
  <2>2. roll.undisturbed
    BY <2>1 DEF TypeOK, Rolls
  <2>3. r.tap = taps /\ r.group = roll.group /\ people[r.group] = roll.roster
    BY <2>2 DEF RollInv
  <2>4. /\ roll'.group = roll.group /\ roll'.roster = roll.roster
        /\ roll'.seen = roll.seen \cup who
        /\ roll'.empty = roll.empty
    BY <2>1, <2>3 DEF TypeOK, Rolls
  <2>5. roll'.announced => roll.announced \/ says
    BY <2>1, <2>3 DEF TypeOK, Rolls
  <2>6. recognised' = Names(roll'.seen \cap roll'.roster)
    <3>1. recognised' = recognised \cup Names(who \cap roll.roster)
      <4>1. Found(r, c) = who \cap people[r.group]
        BY DEF Found, who
      <4>2. NamesAfter(r, c) = recognised \cup Names(who \cap people[r.group])
        BY <4>1 DEF NamesAfter, Names
      <4> QED
        BY <4>2, <2>1, <2>3
    <3>2. recognised = Names(roll.seen \cap roll.roster)
      BY <2>2 DEF RollInv
    <3>3. (roll.seen \cup who) \cap roll.roster
             = (roll.seen \cap roll.roster) \cup (who \cap roll.roster)
      OBVIOUS
    <3>4. \A P, Q : Names(P \cup Q) = Names(P) \cup Names(Q)
      BY DEF Names
    <3> QED
      BY <2>4, <3>1, <3>2, <3>3, <3>4
  <2>7. absent' = {p \in roll'.roster : NameOf[p] \notin recognised'}
    BY <2>1, <2>3, <2>4 DEF Missing
  <2>8. ASSUME roll'.announced, ~roll'.empty
        PROVE  \A p \in roll'.roster : NameOf[p] \in recognised'
    <3>1. CASE says
      <4>1. absent' = {}
        BY <3>1, <2>1 DEF Announces
      <4> QED
        BY <4>1, <2>7
    <3>2. CASE roll.announced
      <4>1. \A p \in roll.roster : NameOf[p] \in recognised
        BY <3>2, <2>8, <2>2, <2>4 DEF RollInv
      <4>2. recognised \subseteq recognised'
        BY <2>1 DEF NamesAfter
      <4> QED
        BY <4>1, <4>2, <2>4
    <3> QED
      BY <3>1, <3>2, <2>8, <2>5
  <2>9. /\ \A q \in pending' : q.tap = taps' /\ q.group = roll'.group
        /\ people'[roll'.group] = roll'.roster
    BY <2>1, <2>2, <2>3, <2>4 DEF RollInv
  <2> QED
    BY <2>6, <2>7, <2>8, <2>9 DEF RollInv, Names
<1> QED
  BY <1>1, <1>2

LEMMA NextRoll == TypeOK /\ RollInv /\ [Next]_vars => RollInv'
<1> SUFFICES ASSUME TypeOK, RollInv, [Next]_vars PROVE RollInv'
  OBVIOUS
<1>1. ASSUME UNCHANGED <<rollVars, people>> PROVE RollInv'
  BY <1>1, RollUnchanged DEF rollVars
<1>2. CASE OpenPicker \/ CancelPicker \/ PickPhoto
  BY <1>1, <1>2 DEF OpenPicker, CancelPicker, PickPhoto
<1>3. ASSUME NEW k \in Photo, NEW n \in 0..MaxFacesPerTile, TileAnswered(k, n)
      PROVE  RollInv'
  BY <1>1, <1>3 DEF TileAnswered
<1>4. CASE \/ \E g \in Group : DidSelectRow(g)
           \/ \E m \in Notice : Dismiss(m)
           \/ Leave
           \/ IdentifyWithoutGroup
  BY <1>1, <1>4 DEF DidSelectRow, Leave, Dismiss, IdentifyWithoutGroup
<1>5. ASSUME NEW p \in Person, EditRoster(p) PROVE RollInv'
  BY <1>5, EditRoll
<1>6. CASE Identify
  BY <1>6, IdentifyRoll
<1>7. ASSUME NEW r \in pending, IdentifyFailed(r) PROVE RollInv'
  BY <1>7, RollUnchanged DEF IdentifyFailed
<1>8. ASSUME NEW r \in pending, IdentifyEmpty(r) PROVE RollInv'
  BY <1>8, EmptyRoll
<1>9. ASSUME NEW r \in pending, NEW c \in Candidates(r), IdentifyAnswered(r, c)
      PROVE  RollInv'
  BY <1>9, AnswerRoll
<1>10. CASE UNCHANGED vars
  BY <1>1, <1>10 DEF vars, rollVars
<1> QED
  BY <1>2, <1>3, <1>4, <1>5, <1>6, <1>7, <1>8, <1>9, <1>10 DEF Next

\* The list of an undisturbed roll call is exact after each answer, in
\* whatever order the answers come and however many requests fail.
THEOREM RollCallExact == Spec => []UndisturbedRollCallExact
<1>1. RollInv => UndisturbedRollCallExact
  <2> SUFFICES ASSUME RollInv, roll.undisturbed, roll.heard
               PROVE  absent = {p \in roll.roster : ~Recorded(p)}
    BY DEF UndisturbedRollCallExact
  <2>1. absent = {p \in roll.roster : NameOf[p] \notin recognised}
    BY DEF RollInv
  <2>2. \A p : Recorded(p) <=> NameOf[p] \in recognised
    BY RecordedByName DEF RollInv
  <2> QED
    BY <2>1, <2>2
<1> QED
  BY <1>1, InitScreen, NextScreen, InitRoll, NextRoll, PTL DEF Spec, ScreenInv

\* "All students are present." is true of an undisturbed roll call whose
\* requests were answered with results.
THEOREM AnnouncementCorrect == Spec => []UndisturbedAnnouncementTrue
<1>1. RollInv => UndisturbedAnnouncementTrue
  <2> SUFFICES ASSUME RollInv, roll.undisturbed, roll.announced, ~roll.empty
               PROVE  \A p \in roll.roster : Recorded(p)
    BY DEF UndisturbedAnnouncementTrue
  <2>1. \A p \in roll.roster : NameOf[p] \in recognised
    BY DEF RollInv
  <2>2. \A p : Recorded(p) <=> NameOf[p] \in recognised
    BY RecordedByName DEF RollInv
  <2> QED
    BY <2>1, <2>2
<1> QED
  BY <1>1, InitScreen, NextScreen, InitRoll, NextRoll, PTL DEF Spec, ScreenInv

-----------------------------------------------------------------------------
(* The screen implements the abstract roll call. *)

\* Nothing is promised at first.
LEMMA InitRefines == Init => Roll!Init
BY DEF Init, Roll!Init, Sound

\* A step after which nothing is promised.
LEMMA VoidRefines ==
    ASSUME ~Sound'
    PROVE  Roll!Void
BY DEF Roll!Void

\* A step that the roll call does not see.
LEMMA RollStutters ==
    ASSUME UNCHANGED <<taps, roll, absent>>
    PROVE  UNCHANGED Roll!vars
BY DEF Roll!vars, Sound

\* An edited roster either disturbs the roll call or leaves it as it is.
LEMMA EditRefines ==
    ASSUME TypeOK, NEW p \in Person, EditRoster(p), Sound'
    PROVE  UNCHANGED Roll!vars
<1> DEFINE stays == pending = {} \/ GroupOf[p] # roll.group
<1>1. roll' = [roll EXCEPT !.undisturbed = @ /\ stays]
  BY DEF EditRoster
<1>2. UNCHANGED <<taps, absent>>
  BY DEF EditRoster
<1>3. roll \in Rolls
  BY DEF TypeOK
<1>4. stays \in BOOLEAN
  OBVIOUS
<1> HIDE DEF stays
<1>5. roll'.undisturbed
  BY DEF Sound
<1>6. roll.undisturbed /\ stays
  BY <1>1, <1>3, <1>5 DEF Rolls
<1>7. roll' = roll
  BY <1>1, <1>3, <1>4, <1>6 DEF Rolls
<1> QED
  BY <1>2, <1>7, RollStutters

\* A tap begins a roll call of the group's people.
LEMMA BeginRefines ==
    ASSUME TypeOK, Identify, Sound'
    PROVE  Roll!Next
<1>1. selected \in Group /\ people[selected] \subseteq Person
  BY DEF Identify, TypeOK
<1>2. /\ roll'.roster = people[selected] /\ roll'.seen = {}
      /\ roll'.heard = FALSE /\ roll'.announced = FALSE
  BY DEF Identify
<1>3. Roll!Begin(people[selected])
  BY <1>2 DEF Roll!Begin
<1> QED
  BY <1>1, <1>3 DEF Roll!Next

\* An answer without results, to this roll call, voids it.
LEMMA EmptyRefines ==
    ASSUME TypeOK, RollInv, NEW r \in pending, IdentifyEmpty(r), Sound'
    PROVE  UNCHANGED Roll!vars
<1>1. /\ UNCHANGED <<taps, absent>>
      /\ roll' = IF r.tap # taps THEN roll
                 ELSE [roll EXCEPT !.empty = TRUE,
                                   !.announced = @ \/ Announces(r, absent)]
  BY DEF IdentifyEmpty
<1>2. r.tap # taps
  BY <1>1 DEF Sound, TypeOK, Rolls
<1> QED
  BY <1>1, <1>2, RollStutters

\* An answer is heard: its members count as seen, and the list is the rest.
LEMMA AnswerRefines ==
    ASSUME TypeOK, RollInv, NEW r \in pending, NEW c \in Candidates(r),
           IdentifyAnswered(r, c), Sound'
    PROVE  Roll!Next \/ UNCHANGED Roll!vars
<1> DEFINE who == UNION {c[f] : f \in r.batch}
           missing == Missing(r.group, NamesAfter(r, c))
           says == Announces(r, missing)
<1>1. CASE FaceMissing(r, c)
  BY <1>1, RollStutters DEF IdentifyAnswered, rollVars
<1>2. CASE ~FaceMissing(r, c)
  <2>1. /\ recognised' = NamesAfter(r, c)
        /\ absent' = missing
        /\ UNCHANGED <<taps, people>>
        /\ roll' = IF r.tap # taps THEN roll
                   ELSE [roll EXCEPT !.seen = @ \cup who, !.heard = TRUE,
                                     !.announced = @ \/ says]
    BY <1>2 DEF IdentifyAnswered
  <2>2. says \in BOOLEAN /\ (says => missing = {})
    BY DEF Announces
  <2> HIDE DEF who, says
  <2>3. roll.undisturbed /\ roll \in Rolls
    BY <2>1 DEF Sound, TypeOK, Rolls
  <2>4. r.tap = taps /\ r.group = roll.group /\ people[r.group] = roll.roster
    BY <2>3 DEF RollInv
  <2>5. /\ roll'.roster = roll.roster /\ roll'.seen = roll.seen \cup who
        /\ roll'.empty = roll.empty /\ roll'.heard = TRUE
        /\ roll'.announced = (roll.announced \/ says)
    BY <2>1, <2>2, <2>3, <2>4 DEF Rolls
  <2>6. Sound
    BY <2>1, <2>3, <2>5 DEF Sound
  <2>7. recognised = Names(roll.seen \cap roll.roster)
    BY <2>3 DEF RollInv
  <2>8. recognised' = Names((roll.seen \cap roll.roster) \cup (who \cap roll.roster))
    <3>1. Found(r, c) = who \cap roll.roster
      BY <2>4 DEF Found, who
    <3> QED
      BY <2>1, <2>7, <3>1 DEF NamesAfter, Names
  <2>9. absent' = Roll!Unseen(roll.roster,
                              (roll.seen \cap roll.roster) \cup (who \cap roll.roster))
    <3>1. absent' = {p \in roll.roster : NameOf[p] \notin recognised'}
      BY <2>1, <2>4 DEF Missing
    <3> QED
      BY <3>1, <2>8 DEF Roll!Unseen, Names
  <2>10. (roll.seen \cup who) \cap roll.roster
            = (roll.seen \cap roll.roster) \cup (who \cap roll.roster)
    OBVIOUS
  <2>11. roll.announced \in BOOLEAN
    BY <2>3 DEF Rolls
  <2>12. roll'.announced \in {roll.announced, roll.announced \/ absent' = {}}
    BY <2>1, <2>2, <2>5, <2>11
  <2>13. Roll!Hear(who \cap roll.roster)
    BY <2>5, <2>6, <2>9, <2>10, <2>12 DEF Roll!Hear
  <2>14. who \cap roll.roster \in SUBSET roll.roster
    OBVIOUS
  <2> QED
    BY <2>6, <2>13, <2>14 DEF Roll!Next
<1> QED
  BY <1>1, <1>2

LEMMA NextRefines ==
    TypeOK /\ RollInv /\ [Next]_vars => [Roll!Next]_(Roll!vars)
<1> SUFFICES ASSUME TypeOK, RollInv, [Next]_vars, Sound'
             PROVE  Roll!Next \/ UNCHANGED Roll!vars
  BY VoidRefines DEF Roll!Next
<1>1. CASE OpenPicker \/ CancelPicker \/ PickPhoto \/ Leave
  BY <1>1, RollStutters DEF OpenPicker, CancelPicker, PickPhoto, Leave, rollVars
<1>2. ASSUME NEW k \in Photo, NEW n \in 0..MaxFacesPerTile, TileAnswered(k, n)
      PROVE  UNCHANGED Roll!vars
  BY <1>2, RollStutters DEF TileAnswered, rollVars
<1>3. CASE \/ \E g \in Group : DidSelectRow(g)
           \/ \E m \in Notice : Dismiss(m)
           \/ IdentifyWithoutGroup
  BY <1>3, RollStutters DEF DidSelectRow, Dismiss, IdentifyWithoutGroup, rollVars
<1>4. ASSUME NEW p \in Person, EditRoster(p) PROVE UNCHANGED Roll!vars
  BY <1>4, EditRefines
<1>5. CASE Identify
  BY <1>5, BeginRefines
<1>6. ASSUME NEW r \in pending, IdentifyFailed(r) PROVE UNCHANGED Roll!vars
  BY <1>6, RollStutters DEF IdentifyFailed
<1>7. ASSUME NEW r \in pending, IdentifyEmpty(r) PROVE UNCHANGED Roll!vars
  BY <1>7, EmptyRefines
<1>8. ASSUME NEW r \in pending, NEW c \in Candidates(r), IdentifyAnswered(r, c)
      PROVE  Roll!Next \/ UNCHANGED Roll!vars
  BY <1>8, AnswerRefines
<1>9. CASE UNCHANGED vars
  BY <1>9, RollStutters DEF vars
<1> QED
  BY <1>1, <1>2, <1>3, <1>4, <1>5, <1>6, <1>7, <1>8, <1>9 DEF Next

\* The attendance screen implements the abstract roll call, for every roster
\* and whatever overlaps.
THEOREM RollCallRefinement == Spec => ImplementsRollCall
BY InitRefines, NextRefines, InitScreen, NextScreen, InitRoll, NextRoll, PTL
DEF Spec, ImplementsRollCall, Roll!Spec, ScreenInv
=============================================================================
