----------------------------- MODULE AsyncCalls -----------------------------
(***************************************************************************)
(* What the screens of the app rely on when they call the Face service:    *)
(* a call that was made is answered at most once, the answers of different *)
(* calls may arrive in any order, an answer never changes once it was      *)
(* given, and nothing at all happens after the process has died.           *)
(*                                                                         *)
(* FaceClient implements this specification; the screen modules use it by  *)
(* letting any outstanding request be answered next.                       *)
(***************************************************************************)

CONSTANTS
    Call,        \* the calls the app ever makes
    Outcome,     \* what a completion block can be handed
    Unanswered   \* not an Outcome: the call has no answer yet

VARIABLES
    asked,       \* the calls made so far
    answer,      \* answer[c]: what the completion block of c was run with
    alive        \* FALSE once an uncaught exception has ended the process

vars == <<asked, answer, alive>>

Init ==
    /\ asked = {}
    /\ answer = [c \in Call |-> Unanswered]
    /\ alive = TRUE

Ask(c) ==
    /\ alive
    /\ c \notin asked
    /\ asked' = asked \cup {c}
    /\ UNCHANGED <<answer, alive>>

Answer(c) ==
    /\ alive
    /\ c \in asked
    /\ answer[c] = Unanswered
    /\ \E o \in Outcome : answer' = [answer EXCEPT ![c] = o]
    /\ UNCHANGED <<asked, alive>>

Die ==
    /\ alive
    /\ alive' = FALSE
    /\ UNCHANGED <<asked, answer>>

Next == \/ \E c \in Call : Ask(c) \/ Answer(c)
        \/ Die

Spec == Init /\ [][Next]_vars
=============================================================================
