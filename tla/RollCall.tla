------------------------------ MODULE RollCall ------------------------------
(***************************************************************************)
(* What the attendance screen promises of one roll call: it is begun for a *)
(* roster; from time to time it hears of persons who were seen; its list   *)
(* is always the part of the roster without a namesake among them; and it  *)
(* says that nobody is absent only when nobody is.  A roll call that was   *)
(* disturbed is void, and then nothing is promised until the next one.     *)
(***************************************************************************)

CONSTANTS
    Person,
    NameOf     \* NameOf[p]: what p is recognised by

VARIABLES
    void,      \* nothing is promised
    roster,    \* whom the roll call is for
    seen,      \* those of the roster who were seen
    absent,    \* the list
    heard,     \* the list is this roll call's
    announced  \* it was said that nobody is absent

vars == <<void, roster, seen, absent, heard, announced>>

Unseen(R, S) == {p \in R : \A q \in S : NameOf[q] # NameOf[p]}

\* There is no roll call that anything could be said of.
Void ==
    /\ void' = TRUE
    /\ roster' = {} /\ seen' = {} /\ absent' = {}
    /\ heard' = FALSE /\ announced' = FALSE

Begin(R) ==
    /\ void' = FALSE
    /\ roster' = R
    /\ seen' = {} /\ absent' = {}
    /\ heard' = FALSE /\ announced' = FALSE

Hear(S) ==
    /\ ~void
    /\ seen' = seen \cup S
    /\ absent' = Unseen(roster, seen')
    /\ heard' = TRUE
    /\ announced' \in {announced, announced \/ absent' = {}}
    /\ UNCHANGED <<void, roster>>

Init ==
    /\ void = TRUE
    /\ roster = {} /\ seen = {} /\ absent = {}
    /\ heard = FALSE /\ announced = FALSE

Next ==
    \/ Void
    \/ \E R \in SUBSET Person : Begin(R)
    \/ \E S \in SUBSET roster : Hear(S)

Spec == Init /\ [][Next]_vars
=============================================================================
