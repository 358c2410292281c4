-------------------------- MODULE FaceClientProofs --------------------------
(***************************************************************************)
(* What MPOFaceServiceClient promises the screens, for any number of calls *)
(* and any assignment of decodings to them.                                *)
(*                                                                         *)
(* The inductive invariant adds to the checked invariants what they say of *)
(* a call only through the main queue: the outcome in a queued block has   *)
(* the type and fits the decoding of its call.                             *)
(***************************************************************************)
EXTENDS FaceClient, SequenceTheorems, TLAPS

\* The outcome of a block that is still to run fits its call.
QueuedFit ==
    \A i \in DOMAIN mainQueue :
        Fits(KindOf[mainQueue[i].call], mainQueue[i].outcome)

IInv == TypeOK /\ OneBlockPerCall /\ QueuedFit /\ CompletionContract

\* Whatever a reply is decoded to is one of the outcomes, and no outcome is
\* mistaken for a block that has not run.
LEMMA DecodedOutcome ==
    ASSUME NEW kind \in Kind, NEW reply \in Reply
    PROVE  Decoded(kind, Received(reply)) \in Outcome
BY DEF Decoded, DecodedObject, Received, Outcome, Object, Kind, Reply

LEMMA OutcomeDelivered ==
    ASSUME NEW o \in Outcome
    PROVE  o # NotDelivered
BY DEF Outcome, Object, NotDelivered

\* A reply that raises nowhere is decoded to something the screens can use.
LEMMA DecodedFits ==
    ASSUME NEW kind \in Kind, NEW reply \in Reply,
           ~Unrecognised(kind, Received(reply))
    PROVE  Fits(kind, Decoded(kind, Received(reply)))
BY DEF Fits, Decoded, DecodedObject, Received, Unrecognised, Kind, Reply

-----------------------------------------------------------------------------
\* Initially no call was made.
LEMMA InitIInv == Init => IInv
<1> SUFFICES ASSUME Init PROVE IInv
  OBVIOUS
<1> USE DEF Init
<1>1. TypeOK
  <2>1. mainQueue \in Seq(Block)
    OBVIOUS
  <2>2. /\ phase \in [Call -> {"idle", "onWire", "queued", "done"}]
        /\ delivered \in [Call -> Outcome \cup {NotDelivered}]
        /\ crashed \in BOOLEAN
    OBVIOUS
  <2> QED
    BY <2>1, <2>2 DEF TypeOK
<1>2. DOMAIN mainQueue = {}
  OBVIOUS
<1>3. OneBlockPerCall
  BY <1>2 DEF OneBlockPerCall
<1>4. QueuedFit
  BY <1>2 DEF QueuedFit
<1>5. CompletionContract
  BY DEF CompletionContract
<1> QED
  BY <1>1, <1>3, <1>4, <1>5 DEF IInv

\* Sending a request touches neither the queue nor what was delivered.
LEMMA StartTaskIInv ==
    ASSUME IInv, NEW c \in Call, StartTask(c)
    PROVE  IInv'
<1> USE DEF IInv, StartTask
<1>1. TypeOK'
  BY DEF TypeOK
<1>2. OneBlockPerCall'
  BY DEF OneBlockPerCall, TypeOK
<1>3. QueuedFit'
  BY DEF QueuedFit, Fits
<1>4. CompletionContract'
  BY DEF CompletionContract, Fits
<1> QED
  BY <1>1, <1>2, <1>3, <1>4

\* A crash leaves every call where it is.
LEMMA CrashIInv ==
    ASSUME IInv, Crash
    PROVE  IInv'
BY DEF IInv, Crash, TypeOK, OneBlockPerCall, QueuedFit, CompletionContract, Fits

\* The block of a call on the wire is the first and only one on the queue.
LEMMA RunCompletionIInv ==
    ASSUME IInv, NEW c \in Call, NEW reply \in Reply,
           phase[c] = "onWire",
           ~Unrecognised(KindOf[c], Received(reply)),
           RunCompletionOnMainQueue(c, Decoded(KindOf[c], Received(reply))),
           UNCHANGED crashed
    PROVE  IInv'
<1> DEFINE o == Decoded(KindOf[c], Received(reply))
           b == [call |-> c, outcome |-> o]
           n == Len(mainQueue) + 1
<1> USE DEF IInv
<1>1. /\ KindOf[c] \in Kind
      /\ o \in Outcome
      /\ Fits(KindOf[c], o)
  BY KindOfType, DecodedOutcome, DecodedFits
<1>2. b \in Block
  BY <1>1 DEF Block
<1> HIDE DEF o
<1>3. /\ mainQueue \in Seq(Block)
      /\ mainQueue' = Append(mainQueue, b)
      /\ phase' = [phase EXCEPT ![c] = "queued"]
      /\ UNCHANGED <<delivered, crashed>>
  BY DEF RunCompletionOnMainQueue, TypeOK, o
<1>4. /\ Len(mainQueue) \in Nat
      /\ DOMAIN mainQueue = 1..Len(mainQueue)
      /\ DOMAIN mainQueue' = 1..n
      /\ \A i \in DOMAIN mainQueue : mainQueue'[i] = mainQueue[i]
      /\ mainQueue'[n] = b
  BY <1>2, <1>3
<1>5. \A i \in DOMAIN mainQueue' : i \in DOMAIN mainQueue \/ i = n
  BY <1>4
<1>6. \A i \in DOMAIN mainQueue : mainQueue[i].call # c /\ n # i
  BY <1>4 DEF OneBlockPerCall
<1>7. TypeOK'
  BY <1>2, <1>3 DEF TypeOK
<1>8. OneBlockPerCall'
  <2>1. ASSUME NEW i \in DOMAIN mainQueue', NEW j \in DOMAIN mainQueue',
               mainQueue'[i].call = mainQueue'[j].call
        PROVE  i = j
    BY <2>1, <1>4, <1>5, <1>6 DEF OneBlockPerCall
  <2>2. ASSUME NEW d \in Call
        PROVE  /\ phase'[d] = "queued"
                     <=> \E i \in DOMAIN mainQueue' : mainQueue'[i].call = d
               /\ delivered'[d] # NotDelivered <=> phase'[d] = "done"
    <3>1. CASE d = c
      <4>1. phase'[d] = "queued" /\ mainQueue'[n].call = d /\ n \in DOMAIN mainQueue'
        BY <3>1, <1>3, <1>4 DEF TypeOK
      <4>2. delivered[c] = NotDelivered
        BY DEF OneBlockPerCall
      <4> QED
        BY <3>1, <4>1, <4>2, <1>3
    <3>2. CASE d # c
      <4>1. phase'[d] = phase[d] /\ delivered'[d] = delivered[d]
        BY <3>2, <1>3 DEF TypeOK
      <4>2. (\E i \in DOMAIN mainQueue' : mainQueue'[i].call = d)
                <=> \E i \in DOMAIN mainQueue : mainQueue[i].call = d
        BY <3>2, <1>4, <1>5
      <4> QED
        BY <4>1, <4>2 DEF OneBlockPerCall
    <3> QED
      BY <3>1, <3>2
  <2> QED
    BY <2>1, <2>2 DEF OneBlockPerCall
<1>9. QueuedFit'
  <2> SUFFICES ASSUME NEW i \in DOMAIN mainQueue'
               PROVE  Fits(KindOf[mainQueue'[i].call], mainQueue'[i].outcome)
    BY DEF QueuedFit, Fits
  <2>1. CASE i = n
    BY <2>1, <1>1, <1>4
  <2>2. CASE i \in DOMAIN mainQueue
    BY <2>2, <1>4 DEF QueuedFit
  <2> QED
    BY <2>1, <2>2, <1>5
<1>10. CompletionContract'
  BY <1>3 DEF CompletionContract, Fits
<1> QED
  BY <1>7, <1>8, <1>9, <1>10

\* The oldest block leaves the queue and its call is done.
LEMMA RunBlockIInv ==
    ASSUME IInv, RunBlock
    PROVE  IInv'
<1> DEFINE b == Head(mainQueue)
<1> USE DEF IInv
<1>1. /\ mainQueue \in Seq(Block)
      /\ mainQueue # <<>>
      /\ b = mainQueue[1]
      /\ phase' = [phase EXCEPT ![b.call] = "done"]
      /\ delivered' = [delivered EXCEPT ![b.call] = b.outcome]
      /\ mainQueue' = Tail(mainQueue)
      /\ UNCHANGED crashed
  BY DEF RunBlock, TypeOK
<1>2. /\ Len(mainQueue) \in Nat \ {0}
      /\ DOMAIN mainQueue = 1..Len(mainQueue)
      /\ DOMAIN mainQueue' = 1..(Len(mainQueue) - 1)
      /\ \A i \in DOMAIN mainQueue' : mainQueue'[i] = mainQueue[i + 1]
      /\ mainQueue' \in Seq(Block)
  BY <1>1
<1>3. /\ 1 \in DOMAIN mainQueue
      /\ \A i \in DOMAIN mainQueue' : i + 1 \in DOMAIN mainQueue /\ i + 1 # 1
      /\ \A i \in DOMAIN mainQueue : i = 1 \/ i - 1 \in DOMAIN mainQueue'
      /\ \A i \in DOMAIN mainQueue : i \in Int /\ i = (i - 1) + 1
  BY <1>2
<1>4. /\ b \in Block
      /\ b.call \in Call
      /\ b.outcome \in Outcome
      /\ b.outcome # NotDelivered
      /\ Fits(KindOf[b.call], b.outcome)
  <2>1. b \in Block
    BY <1>1, <1>2, <1>3
  <2>2. b.call \in Call /\ b.outcome \in Outcome
    BY <2>1 DEF Block
  <2> QED
    BY <2>1, <2>2, <1>1, <1>3, OutcomeDelivered DEF QueuedFit
<1> HIDE DEF b
<1>5. TypeOK'
  BY <1>1, <1>2, <1>4 DEF TypeOK
<1>6. OneBlockPerCall'
  <2>1. ASSUME NEW i \in DOMAIN mainQueue', NEW j \in DOMAIN mainQueue',
               mainQueue'[i].call = mainQueue'[j].call
        PROVE  i = j
    <3>1. i + 1 = j + 1
      BY <2>1, <1>2, <1>3 DEF OneBlockPerCall
    <3> QED
      BY <3>1, <1>2
  <2>2. ASSUME NEW d \in Call
        PROVE  /\ phase'[d] = "queued"
                     <=> \E i \in DOMAIN mainQueue' : mainQueue'[i].call = d
               /\ delivered'[d] # NotDelivered <=> phase'[d] = "done"
    <3>1. CASE d = b.call
      <4>1. phase'[d] = "done" /\ delivered'[d] # NotDelivered
        BY <3>1, <1>1, <1>4 DEF TypeOK
      <4>2. ASSUME NEW i \in DOMAIN mainQueue', mainQueue'[i].call = d
            PROVE  FALSE
        <5>1. mainQueue[i + 1].call = mainQueue[1].call
          BY <4>2, <3>1, <1>1, <1>2
        <5>2. i + 1 = 1
          BY <5>1, <1>3 DEF OneBlockPerCall
        <5> QED
          BY <5>2, <1>3
      <4> QED
        BY <4>1, <4>2
    <3>2. CASE d # b.call
      <4>1. phase'[d] = phase[d] /\ delivered'[d] = delivered[d]
        BY <3>2, <1>1, <1>4 DEF TypeOK
      <4>2. (\E i \in DOMAIN mainQueue' : mainQueue'[i].call = d)
                <=> \E i \in DOMAIN mainQueue : mainQueue[i].call = d
        <5>1. ASSUME NEW i \in DOMAIN mainQueue', mainQueue'[i].call = d
              PROVE  \E k \in DOMAIN mainQueue : mainQueue[k].call = d
          BY <5>1, <1>2, <1>3
        <5>2. ASSUME NEW i \in DOMAIN mainQueue, mainQueue[i].call = d
              PROVE  \E k \in DOMAIN mainQueue' : mainQueue'[k].call = d
          <6>1. i - 1 \in DOMAIN mainQueue'
            BY <5>2, <3>2, <1>1, <1>3
          <6>2. mainQueue'[i - 1] = mainQueue[i]
            BY <6>1, <1>2, <1>3
          <6> QED
            BY <6>1, <6>2, <5>2
        <5> QED
          BY <5>1, <5>2
      <4> QED
        BY <4>1, <4>2 DEF OneBlockPerCall
    <3> QED
      BY <3>1, <3>2
  <2> QED
    BY <2>1, <2>2 DEF OneBlockPerCall
<1>7. QueuedFit'
  <2> SUFFICES ASSUME NEW i \in DOMAIN mainQueue'
               PROVE  Fits(KindOf[mainQueue'[i].call], mainQueue'[i].outcome)
    BY DEF QueuedFit, Fits
  <2> QED
    BY <1>2, <1>3 DEF QueuedFit
<1>8. CompletionContract'
  <2> SUFFICES ASSUME NEW d \in Call, delivered'[d] # NotDelivered
               PROVE  Fits(KindOf[d], delivered'[d])
    BY DEF CompletionContract, Fits
  <2>1. CASE d = b.call
    BY <2>1, <1>1, <1>4 DEF TypeOK
  <2>2. CASE d # b.call
    BY <2>2, <1>1 DEF CompletionContract, TypeOK
  <2> QED
    BY <2>1, <2>2
<1> QED
  BY <1>5, <1>6, <1>7, <1>8

\* Every step keeps the invariant.
LEMMA NextIInv == IInv /\ [Next]_vars => IInv'
<1> SUFFICES ASSUME IInv, [Next]_vars PROVE IInv'
  OBVIOUS
<1>1. ASSUME NEW c \in Call, StartTask(c) PROVE IInv'
  BY <1>1, StartTaskIInv
<1>2. ASSUME NEW c \in Call, NEW reply \in Reply, TaskFinished(c, reply)
      PROVE  IInv'
  <2>1. CASE Raises(reply) \/ Unrecognised(KindOf[c], Received(reply))
    BY <1>2, <2>1, CrashIInv DEF TaskFinished
  <2>2. CASE ~(Raises(reply) \/ Unrecognised(KindOf[c], Received(reply)))
    <3>1. /\ phase[c] = "onWire"
          /\ RunCompletionOnMainQueue(c, Decoded(KindOf[c], Received(reply)))
      BY <1>2, <2>2 DEF TaskFinished
    <3>2. UNCHANGED crashed
      BY <3>1 DEF RunCompletionOnMainQueue
    <3> QED
      BY <2>2, <3>1, <3>2, RunCompletionIInv
  <2> QED
    BY <2>1, <2>2
<1>3. CASE RunBlock
  BY <1>3, RunBlockIInv
<1>4. CASE UNCHANGED vars
  BY <1>4 DEF vars, IInv, TypeOK, OneBlockPerCall, QueuedFit,
              CompletionContract, Fits
<1> QED
  BY <1>1, <1>2, <1>3, <1>4 DEF Next

-----------------------------------------------------------------------------
\* The variables keep their types.
THEOREM TypeCorrect == Spec => []TypeOK
<1>1. IInv => TypeOK
  BY DEF IInv
<1> QED
  BY <1>1, InitIInv, NextIInv, PTL DEF Spec

\* A call has one completion block on the main queue, exactly between the
\* decoding of its reply and the block's run, and a block is run exactly
\* for the calls that are done.
THEOREM OneBlock == Spec => []OneBlockPerCall
<1>1. IInv => OneBlockPerCall
  BY DEF IInv
<1> QED
  BY <1>1, InitIInv, NextIInv, PTL DEF Spec

\* Completion blocks get what the screens take for granted: array endpoints
\* an array, no decoded object with an error, an object without an error
\* from an endpoint that does not check.
THEOREM Contract == Spec => []CompletionContract
<1>1. IInv => CompletionContract
  BY DEF IInv
<1> QED
  BY <1>1, InitIInv, NextIInv, PTL DEF Spec

-----------------------------------------------------------------------------
\* Every step of the client is a step of the abstract calls, or none.
LEMMA StepRefines == IInv /\ [Next]_vars => [Calls!Next]_(Calls!vars)
<1> SUFFICES ASSUME IInv, [Next]_vars PROVE [Calls!Next]_(Calls!vars)
  OBVIOUS
<1> USE DEF IInv
<1>1. ASSUME NEW c \in Call, StartTask(c) PROVE Calls!Ask(c)
  <2>1. {d \in Call : phase'[d] # "idle"} = {d \in Call : phase[d] # "idle"} \cup {c}
    BY <1>1 DEF StartTask, TypeOK
  <2> QED
    BY <1>1, <2>1 DEF StartTask, Calls!Ask
<1>2. ASSUME NEW c \in Call, NEW reply \in Reply, TaskFinished(c, reply)
      PROVE  Calls!Die \/ UNCHANGED Calls!vars
  <2>1. CASE Crash /\ ~crashed
    BY <2>1 DEF Crash, Calls!Die
  <2>2. CASE RunCompletionOnMainQueue(c, Decoded(KindOf[c], Received(reply)))
             /\ phase[c] = "onWire"
    <3>1. {d \in Call : phase'[d] # "idle"} = {d \in Call : phase[d] # "idle"}
      BY <2>2 DEF RunCompletionOnMainQueue, TypeOK
    <3> QED
      BY <2>2, <3>1 DEF RunCompletionOnMainQueue, Calls!vars
  <2> QED
    BY <1>2, <2>1, <2>2 DEF TaskFinished
<1>3. ASSUME RunBlock PROVE \E c \in Call : Calls!Answer(c)
  <2> DEFINE b == Head(mainQueue)
  <2>1. /\ mainQueue \in Seq(Block)
        /\ mainQueue # <<>>
        /\ b = mainQueue[1]
        /\ 1 \in DOMAIN mainQueue
    BY <1>3 DEF RunBlock, TypeOK
  <2>2. b \in Block
    BY <2>1
  <2>3. b.call \in Call /\ b.outcome \in Outcome
    BY <2>2 DEF Block
  <2>4. phase[b.call] = "queued"
    BY <2>1, <2>3 DEF OneBlockPerCall
  <2>5. delivered[b.call] = NotDelivered
    BY <2>3, <2>4 DEF OneBlockPerCall
  <2>6. /\ ~crashed /\ UNCHANGED crashed
        /\ phase' = [phase EXCEPT ![b.call] = "done"]
        /\ delivered' = [delivered EXCEPT ![b.call] = b.outcome]
    BY <1>3 DEF RunBlock
  <2> HIDE DEF b
  <2>7. {d \in Call : phase'[d] # "idle"} = {d \in Call : phase[d] # "idle"}
    BY <2>3, <2>4, <2>6 DEF TypeOK
  <2>8. Calls!Answer(b.call)
    BY <2>3, <2>4, <2>5, <2>6, <2>7 DEF Calls!Answer
  <2> QED
    BY <2>3, <2>8
<1>4. CASE UNCHANGED vars
  BY <1>4 DEF vars, Calls!vars
<1> QED
  BY <1>1, <1>2, <1>3, <1>4 DEF Next, Calls!Next

\* The client implements the asynchronous calls of AsyncCalls: a call is
\* answered at most once and only after it was made, its answer never
\* changes, and after the process has died nothing happens.
THEOREM Refinement == Spec => ImplementsAsyncCalls
<1>1. Init => Calls!Init
  BY DEF Init, Calls!Init
<1> QED
  BY <1>1, InitIInv, NextIInv, StepRefines, PTL
  DEF Spec, ImplementsAsyncCalls, Calls!Spec
=============================================================================
