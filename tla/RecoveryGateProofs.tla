-------------------------- MODULE RecoveryGateProofs --------------------------
(***************************************************************************)
(* Proofs about RecoveryGate for any number of objects, permits and rounds. *)
(* The safety properties follow from an inductive invariant with three parts: *)
(* who holds the election, how many permits are out, and how many of the      *)
(* counted rounds have been slept.  Nothing is said of the watch channel's    *)
(* value: the budget does not rest on it.                                    *)
(***************************************************************************)
EXTENDS RecoveryGate, FiniteSetTheorems, TLAPS

ElectionInv == \A o \in Objects : pc[o] \in Probing <=> prober = o

PermitInv == permits + Cardinality(Holders) = Permits

BudgetInv ==
  /\ \A o \in Objects : pc[o] = "asleep" => slept + 1 = rounds
  /\ \A o \in Objects : pc[o] \in {"asleep", "reopened"} => rounds <= MaxRounds
  /\ (\A o \in Objects : pc[o] # "asleep")
       => slept = IF rounds > MaxRounds THEN MaxRounds ELSE rounds
  /\ \A o \in Objects :
       pc[o] \in {"exhausted", "latched", "willGiveUp", "gaveUp"} => rounds > MaxRounds

IInv == TypeOK /\ ElectionInv /\ PermitInv /\ BudgetInv

-----------------------------------------------------------------------------
(* How one task's move changes the set of permit holders. *)

\* The holders are finitely many, since the objects are.
LEMMA HoldersFinite ==
  IsFiniteSet(Holders) /\ Cardinality(Holders) \in Nat
<1>1. Holders \in SUBSET Objects
  BY DEF Holders
<1>2. IsFiniteSet(Holders)
  BY <1>1, GateAssumption, FS_Subset
<1> QED
  BY <1>2, FS_CardinalityType

\* A task that moves between two places that hold a permit keeps its permit.
LEMMA HolderStays ==
  ASSUME TypeOK, NEW o \in Objects, NEW place \in Holding,
         pc[o] \in Holding, Goto(o, place)
  PROVE  Holders' = Holders
BY DEF Holders, Goto, TypeOK

\* A queued task that takes a permit is one more holder.
LEMMA HolderEnters ==
  ASSUME TypeOK, NEW o \in Objects, NEW place \in Holding,
         pc[o] \notin Holding, Goto(o, place)
  PROVE  Cardinality(Holders') = Cardinality(Holders) + 1
<1>1. Holders' = Holders \cup {o}
  BY DEF Holders, Goto, TypeOK
<1>2. o \notin Holders
  BY DEF Holders
<1> QED
  BY <1>1, <1>2, HoldersFinite, FS_AddElement

\* A task that settles is one holder less.
LEMMA HolderLeaves ==
  ASSUME TypeOK, NEW o \in Objects, NEW place \in Settled,
         pc[o] \in Holding, Goto(o, place)
  PROVE  Cardinality(Holders') = Cardinality(Holders) - 1
<1>1. Holders' = Holders \ {o}
  BY DEF Holders, Goto, TypeOK, Holding, InGate, Probing, Subscribed, Settled
<1>2. o \in Holders
  BY DEF Holders
<1> QED
  BY <1>1, <1>2, HoldersFinite, FS_RemoveElement

\* The permits out and the permits left still add up after a task takes one.
LEMMA PermitTaken ==
  ASSUME IInv, NEW o \in Objects, NEW place \in Holding,
         pc[o] \notin Holding, Goto(o, place), permits > 0, permits' = permits - 1
  PROVE  PermitInv' /\ permits' \in 0..Permits
<1>1. Cardinality(Holders') = Cardinality(Holders) + 1
  BY HolderEnters DEF IInv
<1>2. Cardinality(Holders) \in Nat
  BY HoldersFinite
<1>3. permits + Cardinality(Holders) = Permits /\ permits \in 0..Permits
  BY DEF IInv, PermitInv, TypeOK
<1> QED
  BY <1>1, <1>2, <1>3, GateAssumption DEF PermitInv

\* A task that stays among the holders leaves the permits alone.
LEMMA PermitKept ==
  ASSUME IInv, NEW o \in Objects, NEW place \in Holding,
         pc[o] \in Holding, Goto(o, place), permits' = permits
  PROVE  PermitInv' /\ permits' \in 0..Permits
<1>1. Holders' = Holders
  BY HolderStays DEF IInv
<1> QED
  BY <1>1 DEF IInv, PermitInv, TypeOK

\* A task that settles gives its permit back, and only its own.
LEMMA PermitReturned ==
  ASSUME IInv, NEW o \in Objects, NEW place \in Settled,
         pc[o] \in Holding, Settle(o, place)
  PROVE  PermitInv' /\ permits' \in 0..Permits
<1>1. Goto(o, place) /\ permits' = permits + 1
  BY DEF Settle
<1>2. Cardinality(Holders') = Cardinality(Holders) - 1
  BY <1>1, HolderLeaves DEF IInv
<1>3. Cardinality(Holders) \in Nat /\ Cardinality(Holders') \in Nat
  <2>1. IsFiniteSet(Holders') /\ Holders' = {x \in Objects : pc'[x] \in Holding}
    <3>1. Holders' \in SUBSET Objects
      BY DEF Holders
    <3> QED
      BY <3>1, GateAssumption, FS_Subset DEF Holders
  <2> QED
    BY <2>1, HoldersFinite, FS_CardinalityType
<1>4. permits + Cardinality(Holders) = Permits /\ permits \in 0..Permits
  BY DEF IInv, PermitInv, TypeOK
<1> QED
  BY <1>1, <1>2, <1>3, <1>4, GateAssumption DEF PermitInv

\* Whether or not a receiver hears it, a send leaves a Boolean in the channel.
LEMMA SendType ==
  ASSUME TypeOK, NEW value \in BOOLEAN, Send(value)
  PROVE  open' \in BOOLEAN
BY DEF TypeOK, Send

-----------------------------------------------------------------------------
(* The invariant holds initially and is preserved by every step. *)

\* The invariant holds before any task has run.
LEMMA InitInv == Init => IInv
<1> SUFFICES ASSUME Init PROVE IInv
  OBVIOUS
<1>1. TypeOK
  BY GateAssumption DEF Init, TypeOK
<1>2. ElectionInv
  BY GateAssumption DEF Init, ElectionInv, Probing, Subscribed
<1>3. PermitInv
  <2>1. Holders = {}
    BY DEF Init, Holders, Holding, InGate, Probing, Subscribed
  <2> QED
    BY <2>1, FS_EmptySet, GateAssumption DEF Init, PermitInv
<1>4. BudgetInv
  BY GateAssumption DEF Init, BudgetInv
<1> QED
  BY <1>1, <1>2, <1>3, <1>4 DEF IInv

\* Every step of the specification preserves the invariant.
LEMMA StepInv == IInv /\ [Next]_vars => IInv'
<1> SUFFICES ASSUME IInv, [Next]_vars PROVE IInv'
  OBVIOUS
<1> USE GateAssumption DEF IInv
<1>1. ASSUME NEW o \in Objects, TakePermit(o) PROVE IInv'
  <2>1. PermitInv' /\ permits' \in 0..Permits
    BY <1>1, PermitTaken DEF TakePermit, BeginAttempt, At, Holding, InGate, Probing, Subscribed
  <2>2. TypeOK'
    BY <1>1, <2>1 DEF TakePermit, BeginAttempt, At, Goto, gate, TypeOK, Holding, InGate, Probing, Subscribed, Settled
  <2>3. ElectionInv'
    BY <1>1 DEF TakePermit, BeginAttempt, At, Goto, gate, TypeOK, ElectionInv, Holding, InGate, Probing, Subscribed, Settled
  <2>4. BudgetInv'
    BY <1>1 DEF TakePermit, BeginAttempt, At, Goto, gate, TypeOK, ElectionInv, BudgetInv, Holding, InGate, Probing, Subscribed, Settled
  <2> QED
    BY <2>1, <2>2, <2>3, <2>4
<1>2. ASSUME NEW o \in Objects, PushSucceeds(o) PROVE IInv'
  <2>1. PermitInv' /\ permits' \in 0..Permits
    BY <1>2, PermitReturned DEF PushSucceeds, At, Holding, InGate, Probing, Subscribed, Settled
  <2>2. TypeOK'
    BY <1>2, <2>1 DEF PushSucceeds, Settle, At, Goto, gate, TypeOK, Holding, InGate, Probing, Subscribed, Settled
  <2>3. ElectionInv'
    BY <1>2 DEF PushSucceeds, Settle, At, Goto, gate, TypeOK, ElectionInv, Holding, InGate, Probing, Subscribed, Settled
  <2>4. BudgetInv'
    BY <1>2 DEF PushSucceeds, Settle, At, Goto, gate, TypeOK, ElectionInv, BudgetInv, Holding, InGate, Probing, Subscribed, Settled
  <2> QED
    BY <2>1, <2>2, <2>3, <2>4
<1>3. ASSUME NEW o \in Objects, PushFailsOtherwise(o) PROVE IInv'
  <2>1. PermitInv' /\ permits' \in 0..Permits
    BY <1>3, PermitReturned DEF PushFailsOtherwise, At, Holding, InGate, Probing, Subscribed, Settled
  <2>2. TypeOK'
    BY <1>3, <2>1 DEF PushFailsOtherwise, Settle, At, Goto, gate, TypeOK, Holding, InGate, Probing, Subscribed, Settled
  <2>3. ElectionInv'
    BY <1>3 DEF PushFailsOtherwise, Settle, At, Goto, gate, TypeOK, ElectionInv, Holding, InGate, Probing, Subscribed, Settled
  <2>4. BudgetInv'
    BY <1>3 DEF PushFailsOtherwise, Settle, At, Goto, gate, TypeOK, ElectionInv, BudgetInv, Holding, InGate, Probing, Subscribed, Settled
  <2> QED
    BY <2>1, <2>2, <2>3, <2>4
<1>4. ASSUME NEW o \in Objects, PushIsRefused(o) PROVE IInv'
  <2>1. PermitInv' /\ permits' \in 0..Permits
    BY <1>4, PermitKept DEF PushIsRefused, At, Holding, InGate, Probing, Subscribed
  <2>2. TypeOK'
    BY <1>4, <2>1 DEF PushIsRefused, At, Goto, gate, TypeOK, Holding, InGate, Probing, Subscribed, Settled
  <2>3. ElectionInv'
    BY <1>4 DEF PushIsRefused, At, Goto, gate, TypeOK, ElectionInv, Holding, InGate, Probing, Subscribed, Settled
  <2>4. BudgetInv'
    BY <1>4 DEF PushIsRefused, At, Goto, gate, TypeOK, ElectionInv, BudgetInv, Holding, InGate, Probing, Subscribed, Settled
  <2> QED
    BY <2>1, <2>2, <2>3, <2>4
<1>5. ASSUME NEW o \in Objects, WinElection(o) PROVE IInv'
  <2>1. PermitInv' /\ permits' \in 0..Permits
    BY <1>5, PermitKept DEF WinElection, At, Holding, InGate, Probing, Subscribed
  <2>2. TypeOK'
    BY <1>5, <2>1 DEF WinElection, At, Goto, gate, TypeOK, Holding, InGate, Probing, Subscribed, Settled
  <2>3. ElectionInv'
    BY <1>5 DEF WinElection, At, Goto, gate, TypeOK, ElectionInv, Holding, InGate, Probing, Subscribed, Settled
  <2>4. BudgetInv'
    BY <1>5 DEF WinElection, At, Goto, gate, TypeOK, ElectionInv, BudgetInv, Holding, InGate, Probing, Subscribed, Settled
  <2> QED
    BY <2>1, <2>2, <2>3, <2>4
<1>6. ASSUME NEW o \in Objects, CloseGate(o) PROVE IInv'
  <2>1. PermitInv' /\ permits' \in 0..Permits
    BY <1>6, PermitKept DEF CloseGate, At, Holding, InGate, Probing, Subscribed
  <2>2. TypeOK'
    <3>1. open' \in BOOLEAN
      BY <1>6, SendType DEF CloseGate
    <3> QED
      BY <1>6, <2>1, <3>1 DEF CloseGate, At, Goto, gate, TypeOK, Holding, InGate, Probing, Subscribed, Settled
  <2>3. ElectionInv'
    BY <1>6 DEF CloseGate, At, Goto, gate, TypeOK, ElectionInv, Holding, InGate, Probing, Subscribed, Settled
  <2>4. BudgetInv'
    BY <1>6 DEF CloseGate, At, Goto, gate, TypeOK, ElectionInv, BudgetInv, Holding, InGate, Probing, Subscribed, Settled
  <2> QED
    BY <2>1, <2>2, <2>3, <2>4
<1>7. ASSUME NEW o \in Objects, CountRound(o) PROVE IInv'
  <2>1. PermitInv' /\ permits' \in 0..Permits
    BY <1>7, PermitKept DEF CountRound, At, Holding, InGate, Probing, Subscribed
  <2>2. TypeOK'
    BY <1>7, <2>1 DEF CountRound, At, Goto, gate, TypeOK, Holding, InGate, Probing, Subscribed, Settled
  <2>3. ElectionInv'
    BY <1>7 DEF CountRound, At, Goto, gate, TypeOK, ElectionInv, Holding, InGate, Probing, Subscribed, Settled
  <2>4. BudgetInv'
    BY <1>7 DEF CountRound, At, Goto, gate, TypeOK, ElectionInv, BudgetInv, Holding, InGate, Probing, Subscribed, Settled
  <2> QED
    BY <2>1, <2>2, <2>3, <2>4
<1>8. ASSUME NEW o \in Objects, WakeAndReopen(o) PROVE IInv'
  <2>1. PermitInv' /\ permits' \in 0..Permits
    BY <1>8, PermitKept DEF WakeAndReopen, At, Holding, InGate, Probing, Subscribed
  <2>2. TypeOK'
    <3>1. open' \in BOOLEAN
      BY <1>8, SendType DEF WakeAndReopen
    <3> QED
      BY <1>8, <2>1, <3>1 DEF WakeAndReopen, At, Goto, gate, TypeOK, Holding, InGate, Probing, Subscribed, Settled
  <2>3. ElectionInv'
    BY <1>8 DEF WakeAndReopen, At, Goto, gate, TypeOK, ElectionInv, Holding, InGate, Probing, Subscribed, Settled
  <2>4. BudgetInv'
    BY <1>8 DEF WakeAndReopen, At, Goto, gate, TypeOK, ElectionInv, BudgetInv, Holding, InGate, Probing, Subscribed, Settled
  <2> QED
    BY <2>1, <2>2, <2>3, <2>4
<1>9. ASSUME NEW o \in Objects, ReopenLatched(o) PROVE IInv'
  <2>1. PermitInv' /\ permits' \in 0..Permits
    BY <1>9, PermitKept DEF ReopenLatched, At, Holding, InGate, Probing, Subscribed
  <2>2. TypeOK'
    <3>1. open' \in BOOLEAN
      BY <1>9, SendType DEF ReopenLatched
    <3> QED
      BY <1>9, <2>1, <3>1 DEF ReopenLatched, At, Goto, gate, TypeOK, Holding, InGate, Probing, Subscribed, Settled
  <2>3. ElectionInv'
    BY <1>9 DEF ReopenLatched, At, Goto, gate, TypeOK, ElectionInv, Holding, InGate, Probing, Subscribed, Settled
  <2>4. BudgetInv'
    BY <1>9 DEF ReopenLatched, At, Goto, gate, TypeOK, ElectionInv, BudgetInv, Holding, InGate, Probing, Subscribed, Settled
  <2> QED
    BY <2>1, <2>2, <2>3, <2>4
<1>10. ASSUME NEW o \in Objects, ProberRetries(o) PROVE IInv'
  <2>1. PermitInv' /\ permits' \in 0..Permits
    BY <1>10, PermitKept DEF ProberRetries, BeginAttempt, At, Holding, InGate, Probing, Subscribed
  <2>2. TypeOK'
    BY <1>10, <2>1 DEF ProberRetries, BeginAttempt, At, Goto, gate, TypeOK, Holding, InGate, Probing, Subscribed, Settled
  <2>3. ElectionInv'
    BY <1>10 DEF ProberRetries, BeginAttempt, At, Goto, gate, TypeOK, ElectionInv, Holding, InGate, Probing, Subscribed, Settled
  <2>4. BudgetInv'
    BY <1>10 DEF ProberRetries, BeginAttempt, At, Goto, gate, TypeOK, ElectionInv, BudgetInv, Holding, InGate, Probing, Subscribed, Settled
  <2> QED
    BY <2>1, <2>2, <2>3, <2>4
<1>11. ASSUME NEW o \in Objects, ProberGivesUp(o) PROVE IInv'
  <2>1. PermitInv' /\ permits' \in 0..Permits
    BY <1>11, PermitReturned DEF ProberGivesUp, At, Holding, InGate, Probing, Subscribed, Settled
  <2>2. TypeOK'
    BY <1>11, <2>1 DEF ProberGivesUp, Settle, At, Goto, gate, TypeOK, Holding, InGate, Probing, Subscribed, Settled
  <2>3. ElectionInv'
    BY <1>11 DEF ProberGivesUp, Settle, At, Goto, gate, TypeOK, ElectionInv, Holding, InGate, Probing, Subscribed, Settled
  <2>4. BudgetInv'
    BY <1>11 DEF ProberGivesUp, Settle, At, Goto, gate, TypeOK, ElectionInv, BudgetInv, Holding, InGate, Probing, Subscribed, Settled
  <2> QED
    BY <2>1, <2>2, <2>3, <2>4
<1>12. ASSUME NEW o \in Objects, LoseElection(o) PROVE IInv'
  <2>1. PermitInv' /\ permits' \in 0..Permits
    BY <1>12, PermitKept DEF LoseElection, At, Holding, InGate, Probing, Subscribed
  <2>2. TypeOK'
    BY <1>12, <2>1 DEF LoseElection, At, Goto, gate, TypeOK, Holding, InGate, Probing, Subscribed, Settled
  <2>3. ElectionInv'
    BY <1>12 DEF LoseElection, At, Goto, gate, TypeOK, ElectionInv, Holding, InGate, Probing, Subscribed, Settled
  <2>4. BudgetInv'
    BY <1>12 DEF LoseElection, At, Goto, gate, TypeOK, ElectionInv, BudgetInv, Holding, InGate, Probing, Subscribed, Settled
  <2> QED
    BY <2>1, <2>2, <2>3, <2>4
<1>13. ASSUME NEW o \in Objects, Subscribe(o) PROVE IInv'
  <2>1. PermitInv' /\ permits' \in 0..Permits
    BY <1>13, PermitKept DEF Subscribe, At, Holding, InGate, Probing, Subscribed
  <2>2. TypeOK'
    BY <1>13, <2>1 DEF Subscribe, At, Goto, gate, TypeOK, Holding, InGate, Probing, Subscribed, Settled
  <2>3. ElectionInv'
    BY <1>13 DEF Subscribe, At, Goto, gate, TypeOK, ElectionInv, Holding, InGate, Probing, Subscribed, Settled
  <2>4. BudgetInv'
    BY <1>13 DEF Subscribe, At, Goto, gate, TypeOK, ElectionInv, BudgetInv, Holding, InGate, Probing, Subscribed, Settled
  <2> QED
    BY <2>1, <2>2, <2>3, <2>4
<1>14. ASSUME NEW o \in Objects, SeeOpen(o) PROVE IInv'
  <2>1. PermitInv' /\ permits' \in 0..Permits
    BY <1>14, PermitKept DEF SeeOpen, At, Holding, InGate, Probing, Subscribed
  <2>2. TypeOK'
    BY <1>14, <2>1 DEF SeeOpen, At, Goto, gate, TypeOK, Holding, InGate, Probing, Subscribed, Settled
  <2>3. ElectionInv'
    BY <1>14 DEF SeeOpen, At, Goto, gate, TypeOK, ElectionInv, Holding, InGate, Probing, Subscribed, Settled
  <2>4. BudgetInv'
    BY <1>14 DEF SeeOpen, At, Goto, gate, TypeOK, ElectionInv, BudgetInv, Holding, InGate, Probing, Subscribed, Settled
  <2> QED
    BY <2>1, <2>2, <2>3, <2>4
<1>15. ASSUME NEW o \in Objects, LoadRounds(o) PROVE IInv'
  <2>1. PermitInv' /\ permits' \in 0..Permits
    BY <1>15, PermitKept DEF LoadRounds, At, Holding, InGate, Probing, Subscribed
  <2>2. TypeOK'
    BY <1>15, <2>1 DEF LoadRounds, At, Goto, gate, TypeOK, Holding, InGate, Probing, Subscribed, Settled
  <2>3. ElectionInv'
    BY <1>15 DEF LoadRounds, At, Goto, gate, TypeOK, ElectionInv, Holding, InGate, Probing, Subscribed, Settled
  <2>4. BudgetInv'
    BY <1>15 DEF LoadRounds, At, Goto, gate, TypeOK, ElectionInv, BudgetInv, Holding, InGate, Probing, Subscribed, Settled
  <2> QED
    BY <2>1, <2>2, <2>3, <2>4
<1>16. ASSUME NEW o \in Objects, LoserRetries(o) PROVE IInv'
  <2>1. PermitInv' /\ permits' \in 0..Permits
    BY <1>16, PermitKept DEF LoserRetries, BeginAttempt, At, Holding, InGate, Probing, Subscribed
  <2>2. TypeOK'
    BY <1>16, <2>1 DEF LoserRetries, BeginAttempt, At, Goto, gate, TypeOK, Holding, InGate, Probing, Subscribed, Settled
  <2>3. ElectionInv'
    BY <1>16 DEF LoserRetries, BeginAttempt, At, Goto, gate, TypeOK, ElectionInv, Holding, InGate, Probing, Subscribed, Settled
  <2>4. BudgetInv'
    BY <1>16 DEF LoserRetries, BeginAttempt, At, Goto, gate, TypeOK, ElectionInv, BudgetInv, Holding, InGate, Probing, Subscribed, Settled
  <2> QED
    BY <2>1, <2>2, <2>3, <2>4
<1>17. ASSUME NEW o \in Objects, LoserGivesUp(o) PROVE IInv'
  <2>1. PermitInv' /\ permits' \in 0..Permits
    BY <1>17, PermitReturned DEF LoserGivesUp, At, Holding, InGate, Probing, Subscribed, Settled
  <2>2. TypeOK'
    BY <1>17, <2>1 DEF LoserGivesUp, Settle, At, Goto, gate, TypeOK, Holding, InGate, Probing, Subscribed, Settled
  <2>3. ElectionInv'
    BY <1>17 DEF LoserGivesUp, Settle, At, Goto, gate, TypeOK, ElectionInv, Holding, InGate, Probing, Subscribed, Settled
  <2>4. BudgetInv'
    BY <1>17 DEF LoserGivesUp, Settle, At, Goto, gate, TypeOK, ElectionInv, BudgetInv, Holding, InGate, Probing, Subscribed, Settled
  <2> QED
    BY <2>1, <2>2, <2>3, <2>4
<1>18. ASSUME OutageBegins \/ OutageEnds \/ UNCHANGED vars PROVE IInv'
  <2>1. UNCHANGED <<gate, pc, permits, slept>>
    BY <1>18 DEF OutageBegins, OutageEnds, vars, gate
  <2>2. TypeOK'
    BY <1>18, <2>1 DEF OutageBegins, OutageEnds, vars, gate, TypeOK
  <2>3. PermitInv'
    BY <2>1 DEF PermitInv, Holders
  <2>4. ElectionInv' /\ BudgetInv'
    BY <2>1 DEF gate, ElectionInv, BudgetInv
  <2> QED
    BY <2>2, <2>3, <2>4
<1> QED
  BY <1>1, <1>2, <1>3, <1>4, <1>5, <1>6, <1>7, <1>8, <1>9, <1>10, <1>11,
     <1>12, <1>13, <1>14, <1>15, <1>16, <1>17, <1>18
     DEF Next, TaskStep, ProberStep, LoserStep, PushStep

\* The invariant holds in every state of every run.
LEMMA InvariantHolds == Spec => []IInv
BY InitInv, StepInv, PTL DEF Spec

-----------------------------------------------------------------------------
(* The theorems. *)

\* The variables keep their ranges; the push semaphore is never overdrawn and
\* never given back more permits than --upload-concurrency.
THEOREM TypeCorrect == Spec => []TypeOK
<1>1. IInv => TypeOK
  BY DEF IInv
<1> QED
  BY <1>1, InvariantHolds, PTL

\* At most MaxRounds backoffs are slept, whatever the number of objects.
THEOREM BudgetIsPaidOnce == Spec => []BudgetPaidOnce
<1>1. IInv => BudgetPaidOnce
  <2> SUFFICES ASSUME IInv PROVE slept <= MaxRounds
    BY DEF BudgetPaidOnce
  <2>1. CASE \E o \in Objects : pc[o] = "asleep"
    BY <2>1, GateAssumption DEF IInv, TypeOK, BudgetInv
  <2>2. CASE \A o \in Objects : pc[o] # "asleep"
    BY <2>2, GateAssumption DEF IInv, TypeOK, BudgetInv
  <2> QED
    BY <2>1, <2>2
<1> QED
  BY <1>1, InvariantHolds, PTL

\* No object gives up before the whole budget has been slept.
THEOREM GiveUpIsLate == Spec => []GiveUpOnlyAfterBudget
<1>1. IInv => GiveUpOnlyAfterBudget
  <2> SUFFICES ASSUME IInv, NEW o \in Objects,
                      pc[o] \in {"exhausted", "latched", "gaveUp"}
               PROVE  slept = MaxRounds
    BY DEF GiveUpOnlyAfterBudget
  <2>1. rounds > MaxRounds
    BY DEF IInv, BudgetInv
  <2>2. \A p \in Objects : pc[p] # "asleep"
    BY <2>1, GateAssumption DEF IInv, TypeOK, BudgetInv
  <2> QED
    BY <2>1, <2>2 DEF IInv, BudgetInv
<1> QED
  BY <1>1, InvariantHolds, PTL

\* A latched gate makes nobody sleep and sends nobody back to pushing.
THEOREM LatchedFailsFast == Spec => LatchedGateFailsFast
<1>1. IInv /\ [Next]_vars => [FailFast]_vars
  <2> SUFFICES ASSUME IInv, Next, rounds > MaxRounds,
                      NEW o \in Objects, pc[o] \in InGate \ {"willRetry", "willGiveUp"}
               PROVE  pc'[o] \notin {"asleep", "willRetry", "pushing"}
    BY DEF FailFast, Waiting
  <2> USE GateAssumption
  <2>1. \A q \in Objects : pc[q] \notin {"asleep", "reopened"}
    BY DEF IInv, TypeOK, BudgetInv
  <2>2. pc[o] \notin {"asleep", "reopened", "pushing", "willRetry", "refused", "queued"}
    BY <2>1 DEF InGate, Probing, Subscribed
  <2>3. pc \in [Objects -> {"queued"} \cup Holding \cup Settled] /\ rounds \in Nat
    BY DEF IInv, TypeOK
  <2>4. CASE OutageBegins \/ OutageEnds
    BY <2>2, <2>4 DEF OutageBegins, OutageEnds
  <2>5. ASSUME NEW q \in Objects, PushStep(q)
        PROVE  pc'[o] \notin {"asleep", "willRetry", "pushing"}
    BY <2>2, <2>3, <2>5
       DEF PushStep, TakePermit, PushSucceeds, PushFailsOtherwise, PushIsRefused,
           BeginAttempt, Settle, At, Goto
  <2>6. ASSUME NEW q \in Objects, LoserStep(q)
        PROVE  pc'[o] \notin {"asleep", "willRetry", "pushing"}
    BY <2>2, <2>3, <2>6
       DEF LoserStep, LoseElection, Subscribe, SeeOpen, LoadRounds, LoserRetries,
           LoserGivesUp, gate, BeginAttempt, Settle, At, Goto
  <2>7. ASSUME NEW q \in Objects, ProberStep(q)
        PROVE  pc'[o] \notin {"asleep", "willRetry", "pushing"}
    <3>1. CASE CountRound(q)
      <4>1. rounds + 1 > MaxRounds
        BY <2>3
      <4> QED
        BY <2>2, <2>3, <3>1, <4>1 DEF CountRound, Goto
    <3>2. CASE WakeAndReopen(q) \/ ProberRetries(q)
      BY <2>1, <3>2 DEF WakeAndReopen, ProberRetries, At
    <3>3. CASE WinElection(q) \/ CloseGate(q) \/ ReopenLatched(q) \/ ProberGivesUp(q)
      BY <2>2, <2>3, <3>3
         DEF WinElection, CloseGate, ReopenLatched, ProberGivesUp, Settle, Goto
    <3> QED
      BY <2>7, <3>1, <3>2, <3>3 DEF ProberStep
  <2> QED
    BY <2>4, <2>5, <2>6, <2>7 DEF Next, TaskStep
<1> QED
  BY <1>1, InvariantHolds, PTL DEF Spec, LatchedGateFailsFast

-----------------------------------------------------------------------------
(* The gate implements OutageGate. *)

\* The places of a task that waits for its answer.
Undecided == InGate \ {"willRetry", "willGiveUp"}

\* A task that stays among those without an answer, or among the others, does
\* not change who waits.
LEMMA WaitingKept ==
  ASSUME TypeOK, NEW o \in Objects, NEW place, Goto(o, place),
         pc[o] \in Undecided <=> place \in Undecided
  PROVE  Waiting' = Waiting
BY DEF TypeOK, Goto, Waiting, Undecided

\* A task that goes into the gate is one more caller waiting.
LEMMA WaitingEntered ==
  ASSUME TypeOK, NEW o \in Objects, NEW place, Goto(o, place),
         pc[o] \notin Undecided, place \in Undecided
  PROVE  o \notin Waiting /\ Waiting' = Waiting \cup {o}
BY DEF TypeOK, Goto, Waiting, Undecided

\* A task that leaves the gate has had its answer.
LEMMA WaitingLeft ==
  ASSUME TypeOK, NEW o \in Objects, NEW place, Goto(o, place),
         pc[o] \in Undecided, place \notin Undecided
  PROVE  o \in Waiting /\ Waiting' = Waiting \ {o}
BY DEF TypeOK, Goto, Waiting, Undecided

\* Every step of the gate is a step of OutageGate or is not seen there.
LEMMA StepSimulates == IInv /\ [Next]_vars => [Abstract!Next]_Abstract!vars
<1> SUFFICES ASSUME IInv, [Next]_vars PROVE [Abstract!Next]_Abstract!vars
  OBVIOUS
<1> USE GateAssumption DEF IInv
<1>0. rounds \in Nat /\ slept \in Nat /\ MaxRounds \in Nat
  BY DEF TypeOK
<1>1. ASSUME NEW o \in Objects, PushStep(o) PROVE UNCHANGED Abstract!vars
  <2>1. UNCHANGED <<rounds, slept>>
    BY <1>1 DEF PushStep, TakePermit, PushSucceeds, PushFailsOtherwise, PushIsRefused, gate
  <2>2. Waiting' = Waiting
    BY <1>1 DEF PushStep, TakePermit, PushSucceeds, PushFailsOtherwise, PushIsRefused,
       BeginAttempt, Settle, At, Goto, TypeOK, Waiting, Undecided, InGate, Probing, Subscribed
  <2> QED
    BY <2>1, <2>2 DEF Abstract!vars, Latched
<1>2. ASSUME NEW o \in Objects, WinElection(o) \/ LoseElection(o) PROVE Abstract!Enter(o)
  <2>1. UNCHANGED <<rounds, slept>>
    BY <1>2 DEF WinElection, LoseElection, gate
  <2>2. o \notin Waiting /\ Waiting' = Waiting \cup {o}
    BY <1>2, WaitingEntered DEF WinElection, LoseElection, At, Undecided, InGate, Probing, Subscribed
  <2> QED
    BY <2>1, <2>2 DEF Abstract!Enter, Latched
<1>3. ASSUME NEW o \in Objects, Subscribe(o) \/ CloseGate(o) \/ SeeOpen(o) \/ ReopenLatched(o)
      PROVE  UNCHANGED Abstract!vars
  <2>1. UNCHANGED <<rounds, slept>>
    BY <1>3 DEF Subscribe, CloseGate, SeeOpen, ReopenLatched, gate
  <2>2. Waiting' = Waiting
    BY <1>3, WaitingKept DEF Subscribe, CloseGate, SeeOpen, ReopenLatched, At, Undecided, InGate, Probing, Subscribed
  <2> QED
    BY <2>1, <2>2 DEF Abstract!vars, Latched
<1>4. ASSUME NEW o \in Objects, CountRound(o)
      PROVE  Abstract!Latch \/ UNCHANGED Abstract!vars
  <2>1. rounds' = rounds + 1 /\ slept' = slept
    BY <1>4 DEF CountRound
  <2>2. Waiting' = Waiting /\ o \in Waiting
    BY <1>4, WaitingKept DEF CountRound, At, Undecided, InGate, Probing, Subscribed, Waiting
  <2>3. CASE rounds = MaxRounds
    <3>1. \A q \in Objects : pc[q] # "asleep"
      BY <1>4 DEF CountRound, At, ElectionInv, Probing, Subscribed
    <3>2. slept = MaxRounds
      BY <2>3, <3>1, <1>0 DEF BudgetInv
    <3>3. ~Latched /\ Latched'
      BY <2>1, <2>3, <1>0 DEF Latched
    <3> QED
      BY <2>1, <2>2, <3>2, <3>3 DEF Abstract!Latch
  <2>4. CASE rounds # MaxRounds
    <3>1. Latched' = Latched
      BY <2>1, <2>4, <1>0 DEF Latched
    <3> QED
      BY <2>1, <2>2, <3>1 DEF Abstract!vars
  <2> QED
    BY <2>3, <2>4
<1>5. ASSUME NEW o \in Objects, WakeAndReopen(o) PROVE Abstract!Pay
  <2>1. rounds' = rounds /\ slept' = slept + 1
    BY <1>5 DEF WakeAndReopen
  <2>2. Waiting' = Waiting /\ o \in Waiting
    BY <1>5, WaitingKept DEF WakeAndReopen, At, Undecided, InGate, Probing, Subscribed, Waiting
  <2>3. slept + 1 = rounds /\ rounds <= MaxRounds
    BY <1>5 DEF WakeAndReopen, At, BudgetInv
  <2>4. ~Latched /\ Latched' = Latched /\ slept < MaxRounds
    BY <2>1, <2>3, <1>0 DEF Latched
  <2> QED
    BY <2>1, <2>2, <2>4 DEF Abstract!Pay
<1>6. ASSUME NEW o \in Objects, ProberRetries(o) PROVE Abstract!Retry(o)
  <2>1. UNCHANGED <<rounds, slept>>
    BY <1>6 DEF ProberRetries
  <2>2. o \in Waiting /\ Waiting' = Waiting \ {o}
    BY <1>6, WaitingLeft DEF ProberRetries, BeginAttempt, At, Undecided, InGate, Probing, Subscribed
  <2>3. ~Latched
    BY <1>6, <1>0 DEF ProberRetries, At, BudgetInv, Latched
  <2> QED
    BY <2>1, <2>2, <2>3 DEF Abstract!Retry, Abstract!Leave, Latched
<1>7. ASSUME NEW o \in Objects, ProberGivesUp(o) PROVE Abstract!GiveUp(o)
  <2>1. UNCHANGED <<rounds, slept>>
    BY <1>7 DEF ProberGivesUp
  <2>2. o \in Waiting /\ Waiting' = Waiting \ {o}
    BY <1>7, WaitingLeft DEF ProberGivesUp, Settle, At, Undecided, InGate, Probing, Subscribed
  <2>3. Latched
    BY <1>7, <1>0 DEF ProberGivesUp, At, BudgetInv, Latched
  <2> QED
    BY <2>1, <2>2, <2>3 DEF Abstract!GiveUp, Abstract!Leave, Latched
<1>8. ASSUME NEW o \in Objects, LoadRounds(o)
      PROVE  Abstract!Retry(o) \/ Abstract!GiveUp(o)
  <2>1. UNCHANGED <<rounds, slept>>
    BY <1>8 DEF LoadRounds, gate
  <2>2. o \in Waiting /\ Waiting' = Waiting \ {o}
    <3>1. CASE rounds > MaxRounds
      BY <1>8, <3>1, WaitingLeft DEF LoadRounds, At, Undecided, InGate, Probing, Subscribed
    <3>2. CASE ~(rounds > MaxRounds)
      BY <1>8, <3>2, WaitingLeft DEF LoadRounds, At, Undecided, InGate, Probing, Subscribed
    <3> QED
      BY <3>1, <3>2
  <2> QED
    BY <2>1, <2>2 DEF Abstract!Retry, Abstract!GiveUp, Abstract!Leave, Latched
<1>9. ASSUME NEW o \in Objects, LoserRetries(o) \/ LoserGivesUp(o)
      PROVE  UNCHANGED Abstract!vars
  <2>1. UNCHANGED <<rounds, slept>>
    BY <1>9 DEF LoserRetries, LoserGivesUp, gate
  <2>2. Waiting' = Waiting
    BY <1>9, WaitingKept
       DEF LoserRetries, LoserGivesUp, BeginAttempt, Settle, At, Undecided, InGate, Probing, Subscribed
  <2> QED
    BY <2>1, <2>2 DEF Abstract!vars, Latched
<1>10. ASSUME OutageBegins \/ OutageEnds \/ UNCHANGED vars PROVE UNCHANGED Abstract!vars
  <2>1. UNCHANGED <<rounds, slept, pc>>
    BY <1>10 DEF OutageBegins, OutageEnds, vars, gate
  <2> QED
    BY <2>1 DEF Abstract!vars, Latched, Waiting
<1> QED
  BY <1>1, <1>2, <1>3, <1>4, <1>5, <1>6, <1>7, <1>8, <1>9, <1>10
     DEF Next, TaskStep, ProberStep, LoserStep, Abstract!Next

\* For any number of objects and rounds, and whatever becomes of the sends on the
\* watch channel, the gate keeps one budget for the run and latches for good.
THEOREM GateImplementsOutageGate == Spec => ImplementsOutageGate
<1>1. Init => Abstract!Init
  BY GateAssumption DEF Init, Abstract!Init, Waiting, Latched, InGate, Probing, Subscribed
<1> QED
  BY <1>1, StepSimulates, InvariantHolds, PTL DEF Spec, ImplementsOutageGate, Abstract!Spec
=============================================================================
