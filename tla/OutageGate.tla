----------------------------- MODULE OutageGate -----------------------------
(***************************************************************************)
(* The outage budget EndpointGate and RecoveryGate keep for their callers,   *)
(* with the election and the watch channel left out.  A caller whose request *)
(* failed on the endpoint's account enters the gate and is answered Retry or *)
(* GiveUp.  The gate pays for Budget backoffs over the whole run and then     *)
(* latches for good: before that every answer is Retry, after it GiveUp.      *)
(* That a caller waits for a backoff before it is answered, and that it is    *)
(* answered at all, is not part of this: the code keeps neither promise      *)
(* (RecoveryGate, LosersPark and Stranded).                                  *)
(***************************************************************************)
EXTENDS Naturals

CONSTANTS Callers,   \* who may call wait_for_recovery
          Budget     \* backoffs paid for, over the whole run

VARIABLES inside,    \* callers waiting for their answer
          paid,      \* backoffs slept so far
          latched    \* the budget is spent and the gate only says GiveUp

vars == <<inside, paid, latched>>

Init ==
  /\ inside = {}
  /\ paid = 0
  /\ latched = FALSE

Enter(c) ==
  /\ c \notin inside
  /\ inside' = inside \cup {c}
  /\ UNCHANGED <<paid, latched>>

\* Some caller sleeps one backoff on behalf of all.
Pay ==
  /\ inside # {}
  /\ ~latched
  /\ paid < Budget
  /\ paid' = paid + 1
  /\ UNCHANGED <<inside, latched>>

Latch ==
  /\ inside # {}
  /\ ~latched
  /\ paid = Budget
  /\ latched' = TRUE
  /\ UNCHANGED <<inside, paid>>

Leave(c) ==
  /\ c \in inside
  /\ inside' = inside \ {c}
  /\ UNCHANGED <<paid, latched>>

Retry(c) == ~latched /\ Leave(c)

GiveUp(c) == latched /\ Leave(c)

Next ==
  \/ \E c \in Callers : Enter(c) \/ Retry(c) \/ GiveUp(c)
  \/ Pay
  \/ Latch

Spec == Init /\ [][Next]_vars
=============================================================================
