# Verification of the attendance app

The repository is an iOS app that takes attendance. A teacher makes groups of
students, photographs each student several times, trains the Face service with
these photos, and later takes one photo of the class: the app finds the faces in
it, has the service identify them and lists who is absent.

This directory holds TLA+ modules of the app's own logic and of LevelDB, the one
pod whose source is in the repository and which keeps state that matters; TLC
configurations that check them on small instances; and proofs checked by TLAPS.
Paths below without a directory are in `src/Example/ProjectOxfordFace/`, or for
LevelDB in `src/Example/Pods/leveldb-library/`; numbers are lines.

## 1. The system

### Components

| Component | State | Operations | Module |
|---|---|---|---|
| Face service client (`src/Pod/Classes/MPOFaceServiceClient.m`) | the tasks on the wire, the blocks on the main queue | about fifty endpoints, all through `startTaskWithHttpMethod` and `runCompletionOnMainQueueWithBlock` | `FaceApi`, `FaceClient`, `AsyncCalls` |
| Attendance screen (`MPOIdentificationViewController.m`, live from 507) | `_faces`, the counter of outstanding tiles, `resultsNamesArr`, `_listOfAbsentPpl`, the Identify button, the selected group | pick a photo, answer a tile, select a group, Identify, answer a batch | `IdentificationScreen`, `RollCall` |
| Person screens (`MPOPersonFacesController.m`, `MPOAddPersonFaceController.m`) | `self.person` and its faces, `_detectedFaces` shared by both, `_selectedIndex`, `_selectFaceIndex` | create and rename a person, pick a photo, choose and add a face, delete a face, leave | `PersonScreen`, `Enrolment` |
| Group screens (`MPOPersonGroupController.m`, `MPOPersonGroupListController.m`, `MPOMainNavigationController.m`) | `GLOBAL.groups` and the people of each, `_intension`, `_shouldExit`, `*needTraining`, `_selectedPersonIndex` | create, open, save, train and leave a group, delete a person | `GroupScreen` |
| Firebase store (`FirebaseBrain.swift`) | names and images to save | upload, write, read back | not modelled |
| Log in, registration, welcome, main screens | the e-mail | sign in, navigate | not modelled |
| Sample screens (verification, grouping, similar faces, detection) | their photos and faces | one request each | not modelled |
| Model objects, cells, service tests | – | – | not modelled |
| LevelDB, writes and recovery (`db/db_impl.cc`, `db/log_writer.cc`, `db/log_reader.cc`, `db/version_set.cc`) | the queue of writers, the memtables, the MANIFEST and the other files | write, background work, delete files, open, crash | `LogFormat`, `LevelStore`, `AtomicStore` |
| LevelDB, tables, compactions and iterators (`db/version_set.cc`, `db/db_impl.cc`, `db/db_iter.cc`, `table/merger.cc`, `table/two_level_iterator.cc`) | levels, snapshots, the compaction under way | get, iterate, size, seek and manual compactions | `LevelIterator`, `LevelTables` |
| LevelDB, table format, caches, environment, tools | – | – | not modelled |
| Other pods | – | – | not modelled |

### How they interact

All handlers of the screens run on the main thread and none blocks, so a
handler is atomic. What makes the app hard is what happens between handlers:

- Each call opens an `NSURLSession` of its own (MPOFaceServiceClient.m:1200
  and after). Its reply is decoded on that session's background queue and its
  block dispatched to the main queue. Calls are therefore answered in any
  order, each exactly once, unless decoding raises.
- Blocks capture some values (`group`, `face`, the loop's counter) and read
  others when they run (`_faces`, `resultsNamesArr`, `_shouldExit`, an index
  into an array). A screen that was left lives on for as long as a block holds it.
- What keeps the user from interfering is a HUD over the navigation
  controller's view, or an alert. The edge swipe is a gesture of that view itself,
  so a HUD inside it does not stop it; nor does the swipe ask what the back
  button asks (MPOMainNavigationController.m:55). Several HUDs are removed before the work they
  announce is done: after the second of five tiles (1050), after the first of
  five add requests (MPOAddPersonFaceController.m:100), and at once when
  Identify is tapped (732).
- Screens share data by reference: the person screens one `_detectedFaces`, a
  group's screens one `BOOL` on the heap, all of them `GLOBAL.groups`, which is
  kept in memory only (MPOAppDelegate.mm:49).

- LevelDB comes with FirebaseDatabase, which writes through to it when
  persistence is on. The app never turns it on, so nothing in these modules says
  that the app depends on LevelDB today: they are about the pod as it is built.
  In it, any number of client threads and one background thread share a mutex
  that is let go around all I/O.

The hazards this creates are listed in `PROJECT.json`, each at its line, with
the properties that cover it or the reason why none does.

### What makes each component correct

- *Client*: a call is answered at most once, and in the end, with what its
  endpoint promises; nothing is answered after the process died.
- *Attendance*: an accepted tap on Identify sends all faces on display and only
  them, once each; the absentees are those who were not recognised; what is
  announced is true; the screen does not stay covered.
- *Persons*: a tap adds the face that was tapped, once; what is deleted is what
  was asked for; a person with faces joins the roster.
- *LevelDB*: a write is seen whole when its call returned and not before; what was
  acknowledged survives a crash of the process, and with `sync` of the machine; reads, also
  at a snapshot, do not depend on what compactions have done; every writer returns.
- *Groups*: faces that were added are not left untrained without the user being
  asked; rosters have nobody twice and nobody who was deleted; the screen is
  left when the user meant it.

## 2. The modules

| Module | What it is |
|---|---|
| `AsyncCalls` | the abstract service: ask, answer at most once in any order, die |
| `FaceApi` | every endpoint with the way it decodes a reply: a table, since only each method's own lines say of which kind it is |
| `FaceClient` | a call from `idle` over `onWire` and `queued` to `done`, and the main queue; implements `AsyncCalls` |
| `RollCall` | the abstract roll call: a roster, who was seen, who is absent, what is announced |
| `IdentificationScreen` | the attendance screen; implements `RollCall` for undisturbed taps |
| `Enrolment` | what a group's screen relies on from a person's: persons, calls that list a face late, the roster |
| `PersonScreen` | the two screens of a person, above a reduced group screen; implements `Enrolment` |
| `GroupScreen` | the list of groups and the screen of a group, below person screens reduced to what `Enrolment` has |
| `AtomicStore` | what LevelDB promises of writes and crashes |
| `LogFormat` | the log as bytes: blocks, headers, the parts of a record, what the writer puts where and the reader makes of it, torn or not |
| `LevelStore` (extends `LogFormat`) | writers, memtables, background thread, MANIFEST, CURRENT, deletion of files, errors, crashes, recovery; implements `AtomicStore` |
| `LevelIterator` | operators: the merging iterator and `DBIter` |
| `LevelTables` (extends `LevelIterator`) | keys and levels: lookups, snapshots, an iterator, and the compactions |
| `MC…` | the values of the constants for TLC |
| `FaceClientProofs`, `IdentificationProofs`, `PersonProofs`, `GroupProofs`, `LevelStoreProofs`, `LevelTablesProofs` | the theorems about the module of that name; `LevelStoreProofs` begins with what the reader makes of a log that was torn or cut |
| `LevelAtomicProofs` (extends `LevelStoreProofs`) | `LevelStore` loses no acknowledged write and implements `AtomicStore` |
| `SequenceLemmas` | lemmas on sequences (prefixes, removing an element), on induction without operator parameters, and on functions defined by recursion |

`LevelStore` and `LevelTables` divide one system. In `LevelStore` keys are left out, and all
tables overlap, but every file, error and crash is there; in `LevelTables` nothing
fails, but keys, sequence numbers and levels are there. They meet in two facts:
`LevelStore` shows that no file of a version in use is deleted and that sequence numbers stay
fresh, which `LevelTables` takes for granted, and `LevelTables` shows that a compaction
changes no read, which `LevelStore` takes for granted when it merges tables as sets.

### Correspondence with the code

`PROJECT.json` maps each definition to its lines. The conventions:

- A variable is a member of a controller (or a variable its blocks capture) and
  mostly keeps its name: `faces` is `_faces`, `countdown` is
  `imageArrayLengthLoop`, `needTraining[v]` is the flag of the `v`-th group
  controller. Requests under way are elements of a set (or counters) with what
  their blocks captured. A few variables are history and marked so: `roll`
  (what the newest tap on Identify has been told), `asked`, `deletingFace`,
  `late`, `unsaved`, `excused`, `removed`, the `from` and `covers` of a request. No guard reads them.
- An action is a handler: a tap, an alert's button, a view that disappears, or
  the completion block of a request. Its first conjuncts are what makes it possible:
  nothing covers the screen, the request is under way.
- The service and the network are outside the repository: an answer brings
  anything it could. Identify returns any candidates among the
  persons the service has in the group, at most `maxNumberOfCandidates` per face.
- In LevelDB a variable is a member of `DBImpl` or `VersionSet`, or a kind of file on the
  disk; an action is what a thread does between two points where it holds the mutex, and a
  piece of I/O without it is an action of its own, which may fail. `kept`, `safe`, `broken`,
  `parted`, `hole`, `ops` and the `cursor` of an iterator are history.
- `imageArrayLengthLoop` is declared `__block int *`, so its `--` subtracts four
  (`IntSize`). This is what the code does, and it is modelled.
- Operators that stand before another in the text, with a name such as
  `FullBatchCount` or `LastIndex` and a comment that tells of other code, are plausible
  errors at that place. They are used nowhere; they show that each property
  notices an error (`mutants` in `PROJECT.json`).

### Assumptions of the models

- A HUD is a subview of the navigation controller's view and takes the taps, those on
  the back button too. The edge swipe is a gesture of that view itself
  (`interactivePopGestureRecognizer`, which nothing disables), and UIKit asks
  `navigationBar:shouldPopItem:` only when the controller is popped (it returns
  YES at 56): so every screen can be left under its HUD, which stays over the screens
  below until the answer. `Leave`, `Back` of `PersonScreen`, `Swipe` and
  `PersonDisappears` of `GroupScreen` do this. An alert, which has a window of its own, and the
  picker stop the swipe. An alert of the group's screen can also be taken away by
  the system (`AlertCancelled`); the other alerts' `alertViewCancel` do nothing.
- Notices shown for a moment only matter on the attendance screen
  (`notices`), where they announce results; elsewhere they are left out, but
  for those of an answer that comes when its screen was left: `navigationController` is nil by
  then and so is the notice's view, which ends a build with assertions
  (`MBProgressHUD.m`:213). That is `AssertsOn` of `IdentificationScreen` and
  `NoticeAsserts` of `PersonScreen`; a build without goes on. In `GroupScreen` a
  run that ends there is not told apart from the beginning of one that goes on.
- Names are left out, except on the attendance screen, which matches people by
  `personName`: two persons may share one. Empty name fields are left out. Renaming is
  a request with a HUD in `PersonScreen` (`UpdatePerson`); on the attendance screen
  names are constant.
- Leaving a screen is one step.
- In `PersonScreen` a picker that is cancelled only lists the person earlier
  (`viewDidDisappear`), which `PickPhoto` does too. Whether a picker makes the
  view below disappear depends on how it is presented; both are allowed.
- A person or group the service created although its answer was an error is
  known to nobody in the app. In `PersonScreen` it uses up a person.
- `GroupScreen` reduces the five requests of an added face to one answer (the
  face is listed, or it never is). `PersonScreen` has them all, and
  `ImplementsEnrolment` shows that no more than this reaches the group.
- `EditRoster` of `IdentificationScreen` stands for a visit to Manage Groups
  (788) that changes one person of a roster.

## 3. The runs

Passing runs (each finishes in seconds to about three minutes):

| Run | Specification and bounds | Checks | Why the bounds suffice |
|---|---|---|---|
| `face_client` | `FairSpec`; four calls, one of each kind of endpoint that decodes more than an error | `TypeOK`, `OneBlockPerCall`, `CompletionContract`, `EveryCallAnswered`, `ImplementsAsyncCalls` | calls share only the queue; four make every order of it and every reply of every kind occur |
| `identification` | `FairSpec`; 2 photos, 2 faces, 1 tap, 2 groups with a namesake across them, batches of 1 | `TypeOK`, `IdentifyHasFaces`, `PendingFacesPresent`, `EndsOnlyLate`, `HudGoes` | overlap needs one older photo and a tap whose batches are under way; the counter starts anew with each photo, and two show that a stale one does not matter |
| `roll_call` | 1 photo, 3 faces, batches of 2, 2 taps, 1 roster edit, three students of whom two share a name (and are interchangeable: symmetry) | `UndisturbedRollCallExact`, `UndisturbedAnnouncementTrue`, `BatchesCoverFaces`, `ImplementsRollCall` | a full and a partial batch, answered in either order, failed or empty, with and without a second tap |
| `person_screen` | `FairSpec`; 2 persons, 2 photos, 2 images each, 3 faces, 2 taps | `TypeOK`, `OneEntryPerTap`, `DeletedFaceGone`, `UndisturbedTapAdded`, `LeftPersonListed`, `DeleteRemovesAsked`, `ImplementsEnrolment`, `Unblocks` | two images suffice for a first and a later answer of one tap; two taps for one answer under the alert of another |
| `group_screen` | `FairSpec`; 2 groups, 2 persons, 2 visits, 2 adds | `TypeOK`, `UnsavedAsked`, `DeletedPersonGone`, `RosterDistinct`, `OnlyBackLeaves`, `Unblocks` | a visit to make a group and one to another, or to the same again, with answers of the first still to come; each visit has a flag of its own. For any number of visits there are the theorems |
| `level_store` | `FairSpec`; 3 writes (a byte; more than a block, with sync; the NULL batch), blocks of 5 bytes with headers of 2, one error, one crash, a new or an old database | `TypeOK`, `QueueOK`, `NothingLost`, `FilesPresent`, `SequencesFresh`, `RecordsWhole`, `WritersReturn`, `ImplementsAtomicStore` | a record in one part and one in several, a group of two and a switch of memtables; an error and a crash at any step, and the one after the other |
| `level_tables` | `FairSpec`; 3 keys, 4 levels, seven starts with up to three writes, a snapshot, an iterator or a manual compaction | `ReadsRight`, `IteratorRight`, `LevelsDisjoint`, `RangeEnds` | a key between two others, a level below the output's and one below that, overwritten and deleted keys on each of them |

Bounds are constants in guards of the actions (`MaxPhotos`, `MaxFaces`,
`MaxTaps`, `MaxEdits`, `MaxFacesPerTile`, `MaxFacesPerImage`, `MaxVisits`,
`MaxAdds`). They stop the user or the service from beginning something more;
they never keep a request from being answered, since an answer without faces is
always possible. Those of LevelDB are `MaxErrors`, `MaxCrashes` and the writes and
calls of each start. Deadlock is not checked: an app with nothing under way
waits for its user, one that has crashed does nothing, and a database waits
for its next call.

What the less obvious properties say:

- `PendingFacesPresent`: the block of Identify looks its faces up in `_faces`
  and puts the result into a dictionary literal (649), where nil raises. Nothing of
  the sort happens as long as no other photo was picked since the tap. An answer
  that comes later may end the app: the action `IdentifyAnswered` does so.
- `UndisturbedRollCallExact`, `UndisturbedAnnouncementTrue`: a roll call is
  undisturbed if no older request was under way at its tap and its roster
  is not edited while its own are. For these the list and the announcement are
  right after each answer, whatever fails, in any order. `false_all_present`
  shows that the condition is needed.
- `UnsavedAsked`: `unsaved` holds the groups with a face that was listed while
  its controller was on display and not about to be left. Such a group is on display and its
  back button will ask, until a training of it is accepted. The code lets four cases through, which are named
  and listed as a hazard: the edge swipe leaves the screen and asks nothing (`Swipe`); the system
  takes the question away, which leaves the screen like an answer (`AlertCancelled`,
  MPOPersonGroupController.m:320); a training fails as the user leaves with it
  (`TrainAnswered`; 271 pops all the same); and a face is listed after its screen was left
  (`Late`; it sets the flag of the old controller, 74). The first three put the group into `excused`
  at that step, and a face listed later in time takes it out again. For every other way
  of leaving, with answers in any order, the property says that nothing untrained is left unasked.
- `LeftPersonListed` likewise leaves out the person for whom a face is listed only after
  the screen was left: nothing puts that person on the roster.

- `EndsOnlyLate`: the attendance screen ends the app only by an answer that comes after another
  photo was picked, or after the screen was left.
- `ImplementsRollCall`: the roll call of `RollCall` begins with an undisturbed tap and is void with the first
  disturbance; in between, the screen's members are those of the abstract one.
- `NothingLost`, `ImplementsAtomicStore`: what `LevelStore` shows of crashes excepts two
  things the code does. After an append that failed, the writer has counted
  bytes that are not in the file (`log_writer.cc`:75 sets no error, `db_impl.cc`:1224
  raises none), and later records of that log may not be read back: `broken` holds
  such logs. And when the MANIFEST record of a memtable fails in the middle
  of a merge, the merge goes on and appends its own behind it (`db_impl.cc`:922);
  recovery may then refuse the MANIFEST: the store is `ruined`.
- `ReadsRight`, `LevelsDisjoint` except two more, each recorded by a history variable where it happens. `hole`: a
  memtable that is flushed during a manual compaction goes to the level of
  its outputs, into a gap between its inputs (`db_impl.cc`:922,
  `PickLevelForMemTableOutput`). `parted`: with a snapshot, the entries of
  one user key may end one output and begin the next. A later compaction that takes only the
  first file moves the newer entry below the older; or, where the first is a table of the next level
  that it takes for its other keys and the newer entry is a deletion, it drops the deletion as obsolete,
  although the comment (`db_impl.cc`:956-962) counts on older entries to be among its inputs, and the older value is back (`version_set.cc`:1345; later
  releases of LevelDB add the missing files in `AddBoundaryInputs`). The second way was found by the proof: no start of the run had such tables, and now one has.
- `IteratorRight`, with the same two exceptions: the iterator is on the key, and has the value, that the
  writes up to its sequence number put there, after any `Seek`, `Next` and `Prev` and whatever is
  written between them. Its children are the memtable, which grows, and sets that do not change any more.

Runs that end in a violation, each a disagreement between the code and what it
says of itself:

| Run | Property | What happens |
|---|---|---|
| `stale_tiles` | `FacesOfThisPhoto` | "remove all the faces" (1002); tiles of the previous photo, answered late, add theirs to the new photo's (1026) |
| `early_api_error` | `ApiErrorAfterAllTiles` | "There was an error with the API" (1086) after the second of five answers, because the counter goes 5, 1, -3 |
| `false_all_present` | `AnnouncementTrue` | "All students are present." (722) although one was not recognised: names found for an older tap, even for another group, count for the newer |
| `tapped_face` | `TappedFaceAdded` | "Do you want to add this face?" (MPOAddPersonFaceController.m:156), and another is added: a late answer removed a face before it in the array |
| `save_group` | `SaveOnlyCreates` | Save, after "Add Person" was declined, pushes the person screen: `_intension` (MPOPersonGroupController.m:246) is never set back |

## 4. Fairness

Only the liveness properties (`EveryCallAnswered`, `HudGoes`, `Unblocks`,
`WritersReturn`, `RangeEnds`) need any. Weak fairness is assumed of

- the end of each request: `NSURLSession` ends every task, by a timeout if need be;
- the main queue: it runs the next block as long as the process lives;
- notices: they hide by a timer (`CommonUtil.m`, 1.5 s) or the user dismisses them;
- the answer to an alert: nothing else can be touched until the user gives one;
- LevelDB's threads, each of which the scheduler runs when it can go on: the one of the first
  writer, the background thread, and the caller of `CompactRange`. I/O ends, with or
  without an error. In `LevelTables` the condition for the background thread is
  written with `Scheduled` in the place of `ENABLED`, which is the same and cheaper.

Nothing makes the user, or a client of LevelDB, begin anything. In `GroupScreen` one condition over all
answers is enough, as at most one request covers the screen.

## 5. The proofs

TLC agreed with each invariant before it was proved. The assumptions are those
declared with the constants (`KindOfType`, `ScreenAssumption`,
`PersonAssumption`, `GroupAssumption`, `LogFormatAssumption`, `LevelStoreAssumption`, `LevelTablesAssumption`,
`StartsAssumption`): types of functions and
bounds, `BatchSize` at least 1, a block longer than a header, finitely many persons; and that what `LevelTables` starts from is what an
earlier process may have left: finitely many tables of writes numbered one by one, in line on each level from 1, of a user key the newer entries above the older, and the newest kept (or, if it is a deletion, nothing older). The theorems hold for all numbers of calls, groups,
persons, photos, images, faces, taps and visits, and for all writes, keys, levels, sizes, errors and crashes.

`FaceClientProofs`: `IInv` is `TypeOK`, `OneBlockPerCall`, `QueuedFit` and
`CompletionContract`. `QueuedFit`, the contract for the blocks that still wait, is
needed because delivery only copies them. From it: `TypeCorrect`, `OneBlock`,
`Contract`. `Refinement` maps each step to one of `AsyncCalls` or a
stutter: starting is asking, running the block is answering, raising is dying. It
needs `OneBlockPerCall`, or a call could be answered twice.

`IdentificationProofs`: `IdentifyHasFaces` is not inductive. `ScreenInv` ties the
button to the HUD and the HUD to its counter: `CounterInv` (the counter of a
photo is 5 - 4 · the tiles answered), `HudInv` (only the newest photo has a HUD,
exactly while its counter is positive), `ButtonInv` (over an empty `_faces` the button
is on only before the first tile is answered), `PickerInv` (no HUD under the
picker). Then the button cannot be on, over no faces, without a HUD: the first
answer turns it off, the HUD stays until the second. `TypeCorrect`, `TapHasFaces`.

Of the roll call, in the same module: `PhotoInv` (no request is of a photo to come) gives
`FacesPresent`. `RollInv` says of an undisturbed roll call that all requests under way
are of its tap and its group, that its roster is still the one of the
tap while there are any, and that the names collected are those of the persons seen who
are on the roster. From it `RollCallExact`, `AnnouncementCorrect` and
`RollCallRefinement`: a tap begins, an answer is heard, a disturbance voids. `EndsLate`
goes through the steps that can end the app. `BatchesCoverAll` is about the split of the faces
by `l % BatchSize`: batch `j` has the faces at the places of quotient `j` (`QuotientIs`,
`CountBounds`), and different places have different faces, which is the part of `FreshInv` that
an answered tile must keep (its faces get numbers above all there are).

`PersonProofs`: `PersonInv` adds to the type which alerts and requests there can be over
which screen and for whom (`DialogInv`; a request may outlast its screen), that the screens agree about who is enrolled
(`PlaceInv`), that an undisturbed tap is for the face that was tapped
(`UndisturbedTapAdded`), and who is on the roster once the screen was left (`LeftInv`). From it
`TypeCorrect`, `TapAdded`, `LeftListed`, `RemovesAsked`, and `Enrols`, the refinement of
`Enrolment`: the first success of a tap lists its face, the later ones stutter.
`FaceInv` is about the lists themselves: ids are given once and to one face (`IdsInv`), a listed face
was added, and one that a single tap added is listed in one place (`EntriesInv`), the id that is
being deleted belongs to no other face even if its face is given a new one before the answer comes (`DeletionInv`). With it
come `TapsListOnce` and `GoneStaysGone`.

`GroupProofs`: `ControllerInv` adds to the type which dialogs and requests are possible on
which screen (`DialogInv`; the swipe leaves requests behind on any), that `_shouldExit` says who began a
training (`ExitInv`), that adds of this visit are for its group (`AddInv`), and that
the index of a deletion still points to its person (`DeleteInv`). It gives
`TypeCorrect`, `AskedAbout`, `LeavesAsMeant`. `PlacesInv` adds that a person has
one place on one roster and none once deleted, also while on the person
screen: `Distinct`, `DeletedGone`. `RemoveAtElements` is the lemma on
sequences both rest on.

`LevelStoreProofs`: `QueueInv` is `TypeOK`, `QueueOK` and the shape of a job. What is
needed beside the invariant itself is that `BuildBatchGroup` returns a part at
the head of the queue (`GroupIsPrefix`, with `PrefixSize` for the sum it stops at), and that taking this part off
leaves a queue whose new first was asleep and is woken (`FinishQueue`, with `Suffix`).
One lemma for each group of actions; the background thread and crashes touch the queue only through
`bg_error_` and by ending the process. `QueueCorrect`, `TypeCorrect`.

`RecordsCorrect` says that recovery replays whole records only. The first part of the module has the argument about
the bytes. A file is `Written` when in front of the first byte of each middle or last part in
it stands, whole and with at most a trailer of zeros between, a part which it continues. This is
kept by a successful `AddRecord` and by one that fails at any byte (`AddRecordWritten`: the emissions
of one record are linked, `EmissionsLinked`), and by any cut (`WrittenPrefix`), which is why it is this and not
"a sequence of records" that is inductive: after an append that failed the writer's offset is not that of the file. On the other side, the
reader skips less than a header at the end of a block, or the rest of a block it calls bad, and
starts its scratch anew after that; so a part it adds to its scratch continues the one before
(`Adjacent`), and a record it returns begins with a first part, ends with a last one and has all of the data in between
(`ReadRecordsWhole`). `StoreInv` says that every log is `Written`, together with the types
of numbers, manifests, edits and the background call that recovery needs to keep it so.

`FilesCorrect` is about `DeleteObsoleteFiles`, the order of MANIFEST, CURRENT and tables, and
crashes between them. `FilesInv`: every cut of the current MANIFEST, from what is synced
on, names only tables that are there and synced and have numbers below the next one it gives out
(`DiskInv`); a new MANIFEST holds its snapshot and is synced before CURRENT names it (`OpeningInv`);
tables have been numbered by this process or before it (`TablesInv`); the edit that is
being written names tables that are there (`EditInv`); until something fails the MANIFEST and the
version in memory agree, up to the edit under way (`InStepInv`), which is what makes it right
to delete by the version in memory; tables under construction are pending outputs (`TableInv`, `OutInv`).
It is inductive together with `StoreInv`, from which it takes that recovery numbers its tables upwards.

`SequencesCorrect` is about the sequence numbers: `DBImpl::Write` gives them out, `last_sequence_` goes on even
when the log was not written, recovery sets it to the newest that the MANIFEST and the logs know, and a record may be
at once in a memtable, a table and a log. `FreshInv` is stronger than `SequencesFresh`, which only
speaks of what is read: no two records have a number in common that are anywhere in the store, in memory, in a table of no version or, as
bytes of however torn a part, in a log, but for the record under way, which has the next number (`StoredInv`); for every cut of the
MANIFEST the tables of its version are below the number it names and the numbers of its files
below those recovery gives to the tables it makes, so that none is hidden by another (`CutsInv`); while the store is
down or opened this is said of the disk alone (`DownInv`, `BegunInv`). That a table may be written
over when nothing was synced of it needs that the output of a compaction is synced only once it is complete (`OutFresh`).
Recovery is followed log by log (`RecoverLogMakes`): what it reads is among the records of which the log has bytes
(`LogRecordsAppended`, by the argument of `RecordsCorrect` with these records in the place of all), and its memtables
have numbers up to `MaxSequence`. TLC checked all seven parts with two errors and two crashes.

The library's induction theorems take an operator, which none of the provers can instantiate.
`SequenceLemmas` states what is needed for sets instead: `SetInduction` and `StepInduction` (a set of numbers that has the
first and with each the next has all), `LeastElement`, and for functions that are defined by recursion `LoopExists` and `RecursionExists`: a
function with the recursive equation exists when every step stays in a given set, which a proof
states as a function of its own (`LoopOn`, `RecursionOn`). So what the recursive functions of
`LogFormat` and `LevelStore` return is proved too, for sequences of any length.

`KeptCorrect`, in `LevelAtomicProofs`, is the promise of `NothingLost`. `RecordsCorrect` says that the reader returns nothing false;
this needs the other half, that it returns what was written. `AddedIsRead` has it: when the writer is where the reader
will look for its next record (`EndsWhole`, `AtOffset`), a record that `AddRecord` appends without an error is returned whatever
is written behind it, whole or torn, and the writer is again in such a place. A record of which that is true lasts (`Lasting`). `LastInv` follows
the acknowledged writes from there. `KeptInv`, which is the aim for a store that is down: recovery finds those of `kept` in the
tables of the MANIFEST and the lasting records of its logs, and those of `safe` in every cut of the MANIFEST from what is synced on and in
what is synced of the logs. `MemInv`, of an open store: each is in memory or in a table of the version (which
gives `NothingLost`), and on the disk in a table of the MANIFEST, in the memtable that is becoming one, or in a record of the
current memtable that lasts in the current log; so the earlier logs may be deleted once that memtable is a table. `BoundInv`: no cut of the MANIFEST asks for a later
log than the current, so none that recovery needs is deleted. `NewLogInv`: an opened store has all in tables, since
recovery writes as tables what the reader returns (`RecoverLogsMake`), and an empty log. `OffsetInv` keeps the writer at the reader's place until an append
fails, which is why a write to such a log is excepted (`broken`). `JobKept`: the record of the group lasts before any of its writers is
answered, what is synced of the log already has it if one asked for that, and then the first has. `EditKeeps` and `InputsInv`: what an edit takes out of the version, or
the memtable it is for, is in the tables it adds. `LevelStoreAssumption` says of `Nothing`, the null of the modules, that it is
no set of records: an `imm` without a memtable would otherwise be one that is there.

The same module proves the refinement of `AtomicStore` (`AtomicCorrect`). `LastInv` says that what must be found is
found; the refinement needs the converse too, that nothing else is: a write that failed may come back after a
crash, but one that was never called may not appear, nor a write become readable
because a table was flushed, the MANIFEST was synced or the log was replayed. `SeenInv` says it: every record that is stored
anywhere is shown by the open store, or its write is `Dead`, that is, it failed or its process ended. By its parts: in an open
store, `Shown` (memory and the version) covers all (`UpSeen`), the tables of the MANIFEST and the memtable that is becoming one cover the
old logs (`LogsSeen`), the other memtable the current log but for the record in flight (`LogSeen`), and memory and the version the tables of the edit
that is about to be installed (`EditSeen`); in an opening one, the new version has just what recovery found (`OpenSeen`). `CutSeen` is the
strongest: recovery from a shorter MANIFEST, with fewer tables but from an older log on, finds no more than from the whole. It is
inductive because a log becomes obsolete only by an edit whose tables have what it held. About the bytes it
needs `CutReadable`: the end of a log that a crash takes away never makes
the reader return what it did not return before. Then each action is a step of the abstract store: a call begins, a group returns with one
answer, a crash, a step that leaves the store unreadable (`ruined`), or a stutter, which all work of the background thread, of
iterators and of recovery is. TLC checked the six parts of `SeenInv` with the constants of `level_store`.

`LevelTablesProofs` proves that the tables of a level from 1 never overlap (`DisjointCorrect`), which binary search
(`FindFile`), `Version::Get` and the iterators of levels rely on and `SaveTo` asserts. It is not inductive by itself, because the input of a compaction is
chosen long before its output is installed, and between two of its entries a memtable may become a table
(`db_impl.cc`:922). The invariant `Places` says what the choice has left true. `Taken`: the inputs are
tables of two levels, still there, and whoever else is on the lower of the two lies beside all of their entries (`Beside`), so the output has room.
`Covered`: between the first and last key of the inputs there is no key that none of them meets; so a memtable whose keys are
among theirs overlaps one of them, and `PickLevelForMemTableOutput` keeps it above the level of the output (`CompactMemTablePlaces`). That what was chosen is `Covered`
is the point of the chain on level 0 in `GetOverlappingInputs`, and is kept by whatever `SetupOtherInputs` adds
(`CompactionIs`). A manual compaction begins with all tables that the range meets, which need not be `Covered`; this is the only way to a
`hole`, and why the theorem excepts it. For the output: the merge runs through the inputs in order, so its files are a `Pile`, each before the next,
whatever is dropped and wherever a file ends (`OutputsIs`). `Sorted`, `InOrder` and `ByNumber` are selection sorts, of which it is proved that they return each element once
and in order (`SelectedInTurn`, `SortedIs`), and `FindFile` a binary search which finds the last place that is passed (`SearchIs`). TLC checked
`Places` with the constants of `level_tables`.

On `Places` rests that reads are right (`ReadsCorrect`), with the invariant `Found`. Two parts of it say
why a read at a snapshot is right (`ReadIs`): of each user key, newer entries are above older ones, in the order in which `Get` looks (`MemOrder`, `NewestAbove`, `SearchedHas`), and
for each snapshot the newest write is stored somewhere, or it is a deletion and nothing that it hides is (`Complete`).
A merge endangers both when it ends, by what was true when it began. `Spared` says what it can count on: what it leaves on its level is
newer than what it takes from there, and what it leaves below is newer than a deletion that it will drop as obsolete. That is so when it begins, unless it parts
a user key (`SparedIs`); whatever becomes a table meanwhile is newer still (`CompactMemTableFound`), and snapshots that are taken
meanwhile are later than the oldest of when it began. At the end, an entry that is in no output has a newer one of its user key that every snapshot sees, or is an obsolete deletion (`KeptOr`),
and with an obsolete deletion go all older entries of the inputs (`OlderGo`). The theorem has one hypothesis, `NullApart`: `Nothing`, which stands for NULL, is not itself a
memtable. TLC, to which it is a model value, cannot evaluate that. TLC checked `Found` with the constants of `level_tables`.

`IteratorCorrect` goes on from there, under the same hypothesis: `IteratorRight`. Its invariant `IterInv` says that the iterator's
sources hold, of each user key, what its snapshot must see (`Complete`; from `Found` when it is made, by `SourcesAre`, and a write adds to the
memtable only entries that the snapshot does not see, by `WriteIter`), and that it is `On` the entry
it shows. About a merge in either direction: it `Stands` when no source is behind the current entry and
none has left out an entry in front of it. That is so after a seek (`SoughtIs`) and is kept by a step, also one that turns round, for which
every other source is sought anew (`StepIs`). The loops of `DBIter`, which pass hidden entries and deletions, are functions by
recursion; they end because each turn takes an entry from the finite set of those to come (`LoopEnds`, `TurnsIs`). Forward the loop stops at the
first value that no deletion skipped (`Coming`, `FindNextIs`), backward it saves the newest entry of the last user key it passed
(`Passing`, `FindPrevIs`); `ForwardMoves` and `BackwardMoves` put the turns together, which leave the merge in front of or
behind what is shown (`LeaveIs`). A memtable that grows between two moves takes nothing of this away, since what is new is later than the snapshot (`GrowsIs`, `ShownAre`).

Only model-checked: the liveness properties and whatever needs `ENABLED`.

## 6. What is not modelled

- *Firebase store*: nothing of it is in use. `_brain` of the group screen is
  never set (MPOPersonGroupController.m:78 is commented out), so its saves are
  sent to nil, and the main screen throws away what `retrieve` returns
  (MPOMainViewController.m:67), which it does before anything was read.
- *Sample screens*: their buttons on the main screen are commented out
  (MPOMainViewController.m:81-180).
- *Log in, registration, welcome, main screen*: one call to Firebase each, and
  navigation.
- *Training at the service*: the app takes the acceptance of a training for its end.
  The tests poll for it (`src/Example/Tests/IdentifyLargeTestCase.m`:166-190).
  To the app a roll call taken too early is one whose requests fail, and that is modelled.
- URLs, parameters, JSON fields, images, layout.
- *LevelDB*: I/O that fails while `DB::Open` runs; the append of a block's trailer that fails alone (`log_writer.cc`:53
  ignores it). A torn MANIFEST record with another behind it always makes recovery refuse the MANIFEST here; where what is behind it in the last block is shorter than
  the length it gives, the reader takes both for the end of the file (`log_reader.cc`:242) and recovery goes on from what is before. This
  follows only a write error, after which no file is deleted any more, so the tables are there. A memtable that is alone becomes a table of level 1, which stands for
  `kMaxMemCompactLevel` in `LevelStore` (`LevelTables` has the levels). Left out also are the options `reuse_logs` and `paranoid_checks`, which are off; shutdown while work is
  under way; the millisecond a writer sleeps when level 0 is long. Operations on directories are
  taken as durable at once, and checksums as right. Several column values of one
  batch, the bytes of tables, their index blocks and filters, the caches, the arena and the
  skip list, the C binding, `RepairDB` and the operating system are below the level of the
  modules: a table and a memtable are sets of entries. An iterator in `LevelTables`
  is one at a time and is not deleted; what it holds on to is in `LevelStore`
  (`OpenIterator`, `CloseIterator`).
- *Other pods*: GTMSessionFetcher, nanopb, SVProgressHUD and GoogleToolboxForMac have no part in
  what the app keeps; the app shows its HUDs with `MBProgressHUD`, and the screens model
  them. `Example/Pods/ProjectOxfordFace` is a copy of the client in `src/Pod`.
- Most lines of the repository are headers of binary frameworks (Firebase, its
  Google parts) and these pods. They declare, or hold code the app does not reach, so the modules
  cover a small part of all lines, but nearly all of the app's own logic.

## 7. Plan

Done, in this order, the most important behaviour first: the attendance
screen, the client and its abstract specification, the person screens, the
group screens, with their proofs; leaving the attendance screen with requests
under way; the abstract roll call and the abstract enrolment, which the screens are shown to
implement; LevelDB's log, store and abstract promise, its levels and
compactions, its iterators; the proofs about the queue of writers, the log, the files, the
sequence numbers and the acknowledged writes, that the store implements the abstract one, that
tables of a level never overlap, that reads find the newest write, and that iterators show
what their snapshot has.

What would come next:

1. `GroupScreen` composed with `Enrolment` in one specification, and the rosters
   that come out in place of `EditRoster`.
2. `LevelStore` with a second crash during recovery, and `reuse_logs`.
3. The sample screens' button guards (`MPOVerificationViewController.m` and the
   others) and the uploads of `FirebaseBrain`, should they come into use.
