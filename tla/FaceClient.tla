----------------------------- MODULE FaceClient -----------------------------
(***************************************************************************)
(* MPOFaceServiceClient: one HTTP request per call, its reply decoded on   *)
(* the background queue of the request's own NSURLSession, its completion  *)
(* block run later on the main queue.                                      *)
(*                                                                         *)
(* A call c goes through the states                                        *)
(*     idle -> onWire -> queued -> done                                    *)
(* The reply of a request is an arbitrary element of Reply: the service    *)
(* and the network are outside src/.                                       *)
(***************************************************************************)
EXTENDS Naturals, Sequences

CONSTANTS
    Call,       \* the calls the app ever makes
    KindOf      \* KindOf[c]: how the endpoint of c decodes a reply (FaceApi)

Kind == {"ack", "strictList", "looseList", "strictObject", "looseObject"}

ASSUME KindOfType == KindOf \in [Call -> Kind]

VARIABLES
    phase,      \* phase[c]: how far call c has come
    mainQueue,  \* blocks dispatched to the main queue, oldest first
    delivered,  \* delivered[c]: the arguments its completion block got
    crashed     \* an uncaught exception ended the process

vars == <<phase, mainQueue, delivered, crashed>>

-----------------------------------------------------------------------------
(***************************************************************************)
(* Replies, and what becomes of them.                                      *)
(*   array, dict   2xx, declared as JSON, an array / an object             *)
(*   malformed     2xx, declared as JSON, does not parse                   *)
(*   cutJson       2xx, declared as JSON, connection lost before the body  *)
(*   raw, cutRaw   the same without a JSON content type                    *)
(*   failed        any other status, or no response at all (status 0)      *)
(***************************************************************************)
Reply == {"array", "dict", "malformed", "cutJson", "raw", "cutRaw", "failed"}

\* What the task handler hands to the endpoint's own block: a body and
\* whether an error comes with it.  The two JSON cases without a body that
\* parses raise on the background queue.
Raises(reply) == reply \in {"malformed", "cutJson"}

Received(reply) ==
    [body  |-> CASE reply \in {"array", "dict"} -> reply
                 [] reply = "raw"               -> "data"
                 [] OTHER                       -> "nil",
     error |-> reply \in {"cutRaw", "failed"}]

Object == {"none", "nil", "object", "emptyArray", "array"}
Outcome == [object : Object, error : BOOLEAN]

\* The completion block has not run: no outcome has this object.
NotDelivered == [object |-> "unset", error |-> FALSE]

\* An endpoint that does not check the class of the body sends it messages
\* that NSArray, NSString (the keys of an object) or NSData do not answer.
Unrecognised(kind, r) ==
    /\ ~r.error
    /\ \/ kind = "looseList"   /\ r.body # "array"
       \/ kind = "looseObject" /\ r.body # "dict"

\* An endpoint that passes the body on undecoded.
DecodedObjectRaw(kind, r) == r.body

\* An endpoint whose array is created only on success.
DecodedObjectNilList(kind, r) ==
    CASE kind = "ack" -> "none"
      [] kind \in {"strictList", "looseList"} ->
            IF ~r.error /\ r.body = "array" THEN "array" ELSE "nil"
      [] OTHER ->
            IF ~r.error /\ r.body = "dict" THEN "object" ELSE "nil"

\* The object of the completion block.  On an error the array endpoints
\* still pass their array, empty, and the object endpoints pass nil.
DecodedObject(kind, r) ==
    CASE kind = "ack" -> "none"
      [] kind \in {"strictList", "looseList"} ->
            IF ~r.error /\ r.body = "array" THEN "array" ELSE "emptyArray"
      [] OTHER ->
            IF ~r.error /\ r.body = "dict" THEN "object" ELSE "nil"

Decoded(kind, r) == [object |-> DecodedObject(kind, r), error |-> r.error]
-----------------------------------------------------------------------------
Init ==
    /\ phase = [c \in Call |-> "idle"]
    /\ mainQueue = <<>>
    /\ delivered = [c \in Call |-> NotDelivered]
    /\ crashed = FALSE

\* A call whose block has run is sent once more.
StartTaskAgain(c) ==
    /\ ~crashed
    /\ phase[c] \in {"idle", "done"}
    /\ phase' = [phase EXCEPT ![c] = "onWire"]
    /\ UNCHANGED <<mainQueue, delivered, crashed>>

\* The app calls an endpoint; the data task is resumed and returned.
StartTask(c) ==
    /\ ~crashed
    /\ phase[c] = "idle"
    /\ phase' = [phase EXCEPT ![c] = "onWire"]
    /\ UNCHANGED <<mainQueue, delivered, crashed>>

\* The handler of a failed request returns without completing the call.
RunCompletionOnMainQueueUnlessError(c, outcome) ==
    /\ phase' = [phase EXCEPT ![c] = "queued"]
    /\ mainQueue' = IF outcome.error THEN mainQueue
                    ELSE Append(mainQueue, [call |-> c, outcome |-> outcome])
    /\ UNCHANGED <<delivered, crashed>>

\* The block is dispatched to the main queue with its arguments.
RunCompletionOnMainQueue(c, outcome) ==
    /\ phase' = [phase EXCEPT ![c] = "queued"]
    /\ mainQueue' = Append(mainQueue, [call |-> c, outcome |-> outcome])
    /\ UNCHANGED <<delivered, crashed>>

Crash ==
    /\ crashed' = TRUE
    /\ UNCHANGED <<phase, mainQueue, delivered>>

\* The data task of c finishes: its handler decodes the reply and
\* dispatches the completion block, or raises.
TaskFinished(c, reply) ==
    LET r == Received(reply) IN
    /\ ~crashed
    /\ phase[c] = "onWire"
    /\ IF Raises(reply) \/ Unrecognised(KindOf[c], r)
         THEN Crash
         ELSE RunCompletionOnMainQueue(c, Decoded(KindOf[c], r))

\* The main queue runs a block and leaves it where it was.
RunBlockTwice ==
    /\ ~crashed
    /\ mainQueue # <<>>
    /\ LET b == Head(mainQueue) IN
         /\ phase' = [phase EXCEPT ![b.call] = "done"]
         /\ delivered' = [delivered EXCEPT ![b.call] = b.outcome]
    /\ UNCHANGED <<mainQueue, crashed>>

\* The main queue runs the oldest block.
RunBlock ==
    /\ ~crashed
    /\ mainQueue # <<>>
    /\ LET b == Head(mainQueue) IN
         /\ phase' = [phase EXCEPT ![b.call] = "done"]
         /\ delivered' = [delivered EXCEPT ![b.call] = b.outcome]
    /\ mainQueue' = Tail(mainQueue)
    /\ UNCHANGED crashed

Next ==
    \/ \E c \in Call : StartTask(c)
    \/ \E c \in Call, reply \in Reply : TaskFinished(c, reply)
    \/ RunBlock

Spec == Init /\ [][Next]_vars

\* Every data task ends (NSURLSession times a request out) and the main
\* queue keeps draining; nothing makes the app call anything.
FairSpec ==
    /\ Spec
    /\ \A c \in Call : WF_vars(\E reply \in Reply : TaskFinished(c, reply))
    /\ WF_vars(RunBlock)

-----------------------------------------------------------------------------
Block == [call : Call, outcome : Outcome]

\* The variables have the types their declarations in the client suggest.
TypeOK ==
    /\ phase \in [Call -> {"idle", "onWire", "queued", "done"}]
    /\ mainQueue \in Seq(Block)
    /\ delivered \in [Call -> Outcome \cup {NotDelivered}]
    /\ crashed \in BOOLEAN

\* Between decoding and delivery a call has exactly one block on the main
\* queue, before and after it has none, and a completion block has been run
\* exactly for the calls that are done.  (runCompletionOnMainQueueWithBlock
\* is reached exactly once on every path of a task's handler.)
OneBlockPerCall ==
    /\ \A i, j \in DOMAIN mainQueue :
          mainQueue[i].call = mainQueue[j].call => i = j
    /\ \A c \in Call :
          /\ phase[c] = "queued"
                <=> \E i \in DOMAIN mainQueue : mainQueue[i].call = c
          /\ delivered[c] # NotDelivered <=> phase[c] = "done"

\* What the completion blocks of the screens take for granted: an array
\* endpoint never passes nil (the screens insert the array into other
\* arrays), an error never comes with a decoded object, and an endpoint
\* that does not check classes passes an object whenever it passes no error.
Fits(kind, o) ==
    /\ kind \in {"strictList", "looseList"} => o.object \in {"array", "emptyArray"}
    /\ o.error => o.object \notin {"array", "object"}
    /\ kind = "looseObject" /\ ~o.error => o.object = "object"

CompletionContract ==
    \A c \in Call : delivered[c] # NotDelivered => Fits(KindOf[c], delivered[c])

\* Each call that was sent is answered, unless the process dies first.
EveryCallAnswered ==
    \A c \in Call : phase[c] = "onWire" ~> (phase[c] = "done" \/ crashed)

\* The client implements the abstract asynchronous calls.
Calls == INSTANCE AsyncCalls
    WITH asked      <- {c \in Call : phase[c] # "idle"},
         answer     <- delivered,
         alive      <- ~crashed,
         Unanswered <- NotDelivered

ImplementsAsyncCalls == Calls!Spec
=============================================================================
