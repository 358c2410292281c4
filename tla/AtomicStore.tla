----------------------------- MODULE AtomicStore -----------------------------
(***************************************************************************)
(* What LevelDB promises of writes and crashes (include/leveldb/options.h, *)
(* from 187, and db.h): a write is seen whole once its call has returned   *)
(* and not before, what is seen changes in no other way while the process  *)
(* lives, a crash of the process loses no write that was acknowledged, and *)
(* a crash of the machine none that was acknowledged with sync.            *)
(***************************************************************************)
CONSTANTS Writes

VARIABLES
  stage,      \* of each call: new, called, ok, error, or lost with its process
  visible,    \* the writes that are read back
  kept,       \* those no crash of the process may lose
  safe,       \* those no crash at all may lose
  ruined      \* whether an I/O error has left it unreadable

vars == <<stage, visible, kept, safe, ruined>>

Init ==
  /\ stage = [w \in Writes |-> "new"]
  /\ visible = {} /\ kept = {} /\ safe = {}
  /\ ruined = FALSE

Call(w) ==
  /\ stage[w] = "new"
  /\ stage' = [stage EXCEPT ![w] = "called"]
  /\ UNCHANGED <<visible, kept, safe, ruined>>

\* Several calls may return together, with one answer.
Return(answer) ==
  LET S == { w \in Writes : stage'[w] # stage[w] }
  IN  S # {} /\ \A w \in S : stage[w] = "called" /\ stage'[w] = answer

Succeed ==
  /\ Return("ok")
  /\ LET S == { w \in Writes : stage'[w] # stage[w] }
     IN  /\ kept  \subseteq kept'  /\ kept'  \ kept  \subseteq S
         /\ safe  \subseteq safe'  /\ safe'  \ safe  \subseteq S
         /\ visible \subseteq visible' /\ visible' \ visible \subseteq S
  /\ UNCHANGED ruined

\* A write that failed is not seen, but may be after the next crash.
Fail ==
  /\ Return("error")
  /\ UNCHANGED <<visible, kept, safe, ruined>>

Crash ==
  /\ stage' = [w \in Writes |-> IF stage[w] = "called" THEN "lost" ELSE stage[w]]
  /\ visible' \subseteq visible \cup { w \in Writes : stage'[w] \in {"error", "lost"} }
  /\ safe \subseteq visible'
  /\ \/ kept \subseteq visible' /\ UNCHANGED kept
     \/ kept' = safe
  /\ UNCHANGED <<safe, ruined>>

\* Nothing is promised of a store that cannot be read.
Ruin == ruined \/ ruined'

Next ==
  \/ \E w \in Writes : Call(w)
  \/ Succeed \/ Fail
  \/ Crash
  \/ Ruin

Spec == Init /\ [][Next]_vars
=============================================================================
