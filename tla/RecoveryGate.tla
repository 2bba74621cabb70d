---------------------------- MODULE RecoveryGate ----------------------------
(***************************************************************************)
(* The recovery gate that serialises the wait for an unreachable endpoint, *)
(* with the push loop that consults it.  The code has it twice: EndpointGate *)
(* in commands/job/transform/worker.rs (4 rounds) and RecoveryGate in       *)
(* commands/job/email_import/gate.rs (6 rounds for IMAP, 4 for pushes).     *)
(*                                                                         *)
(* An object is one file to push.  It takes a permit of the push semaphore  *)
(* and keeps it until its push is settled, the time spent in the gate       *)
(* included.  A push that ends with an endpoint-level error calls the gate: *)
(* the task that wins try_lock is the prober, which sends false, counts a    *)
(* round, sleeps and sends true; every other task subscribes, waits until it *)
(* reads true and then reads the round counter.                             *)
(*                                                                         *)
(* The gate keeps a watch::Sender and no Receiver.  Sender::send with no     *)
(* receiver alive returns an error and leaves the value as it was, and both   *)
(* gates discard that error: the only receivers are those of the tasks that   *)
(* are inside the gate after losing an election.                             *)
(***************************************************************************)
EXTENDS Naturals, FiniteSets

CONSTANTS Objects,      \* what the run pushes
          Permits,      \* --upload-concurrency, the size of the push semaphore
          MaxRounds,    \* recovery rounds before the gate latches
          NoObject      \* the election lock is free

ASSUME GateAssumption ==
  /\ IsFiniteSet(Objects)
  /\ Permits \in Nat \ {0}
  /\ MaxRounds \in Nat
  /\ NoObject \notin Objects

VARIABLES
  \* The gate.
  open,        \* the value in the watch channel
  prober,      \* who holds the election lock
  rounds,      \* AtomicUsize, never reset
  \* The tasks.
  pc,          \* where each object's task is
  permits,     \* free permits of the push semaphore
  \* The endpoint.
  reachable,   \* does the endpoint answer now
  sawOutage,   \* objects whose current attempt overlapped an outage
  \* History, read by no action.
  slept        \* backoffs slept to the end

gate == <<open, prober, rounds>>
vars == <<open, prober, rounds, pc, permits, reachable, sawOutage, slept>>

-----------------------------------------------------------------------------
(* Where a task can be. *)

\* Holding the election lock, in program order; "exhausted" and "latched"
\* replace "asleep" and "reopened" once the budget is spent.
Probing == {"elected", "closed", "asleep", "reopened", "exhausted", "latched"}

\* Subscribed to the watch channel, until wait_for_recovery returns: waiting
\* for it to hold true, having read it, and with the answer in hand.
Subscribed == {"watching", "woken", "willRetry", "willGiveUp"}

\* Inside wait_for_recovery.
InGate == Probing \cup {"lost"} \cup Subscribed

Settled == {"pushed", "failed", "gaveUp"}

\* Holding a permit of the push semaphore.
Holding == {"pushing", "refused"} \cup InGate

Init ==
  /\ open = TRUE
  /\ prober = NoObject
  /\ rounds = 0
  /\ pc = [o \in Objects |-> "queued"]
  /\ permits = Permits
  /\ reachable \in BOOLEAN
  /\ sawOutage = {}
  /\ slept = 0

At(o, place) == pc[o] = place
Goto(o, place) == pc' = [pc EXCEPT ![o] = place]

\* The rclone copyto subprocess starts: an outage already under way is seen.
BeginAttempt(o) ==
  /\ Goto(o, "pushing")
  /\ sawOutage' = IF reachable THEN sawOutage \ {o} ELSE sawOutage \cup {o}

\* The task's result is final and its permit drops.
Settle(o, result) ==
  /\ Goto(o, result)
  /\ permits' = permits + 1
  /\ sawOutage' = sawOutage \ {o}

-----------------------------------------------------------------------------
(* The push loop. *)

\* Mistake: the semaphore is not consulted.
TakePermitUnguarded(o) ==
  /\ At(o, "queued")
  /\ permits' = permits - 1
  /\ BeginAttempt(o)
  /\ UNCHANGED <<gate, reachable, slept>>

TakePermit(o) ==
  /\ At(o, "queued")
  /\ permits > 0
  /\ permits' = permits - 1
  /\ BeginAttempt(o)
  /\ UNCHANGED <<gate, reachable, slept>>

PushSucceeds(o) ==
  /\ At(o, "pushing")
  /\ reachable
  /\ Settle(o, "pushed")
  /\ UNCHANGED <<gate, reachable, slept>>

\* A 403, a read error: not the endpoint's outage, so the object fails now.
PushFailsOtherwise(o) ==
  /\ At(o, "pushing")
  /\ Settle(o, "failed")
  /\ UNCHANGED <<gate, reachable, slept>>

PushIsRefused(o) ==
  /\ At(o, "pushing")
  /\ o \in sawOutage
  /\ Goto(o, "refused")
  /\ UNCHANGED <<gate, permits, reachable, sawOutage, slept>>

-----------------------------------------------------------------------------
(* The watch channel (tokio). *)

Receivers == {o \in Objects : pc[o] \in Subscribed}

\* Sender::send, its error discarded.
Send(value) == open' = IF Receivers = {} THEN open ELSE value

-----------------------------------------------------------------------------
(* wait_for_recovery: the prober. *)

WinElection(o) ==
  /\ At(o, "refused")
  /\ prober = NoObject
  /\ prober' = o
  /\ Goto(o, "elected")
  /\ UNCHANGED <<open, rounds, permits, reachable, sawOutage, slept>>

CloseGate(o) ==
  /\ At(o, "elected")
  /\ Send(FALSE)
  /\ Goto(o, "closed")
  /\ UNCHANGED <<prober, rounds, permits, reachable, sawOutage, slept>>

\* Mistake: >= for >.
CountRoundEarly(o) ==
  /\ At(o, "closed")
  /\ rounds' = rounds + 1
  /\ Goto(o, IF rounds + 1 >= MaxRounds THEN "exhausted" ELSE "asleep")
  /\ UNCHANGED <<open, prober, permits, reachable, sawOutage, slept>>

CountRound(o) ==
  /\ At(o, "closed")
  /\ rounds' = rounds + 1
  /\ Goto(o, IF rounds + 1 > MaxRounds THEN "exhausted" ELSE "asleep")
  /\ UNCHANGED <<open, prober, permits, reachable, sawOutage, slept>>

\* Mistake: the round counter restarts with every reopening.
WakeAndReset(o) ==
  /\ At(o, "asleep")
  /\ Send(TRUE)
  /\ rounds' = 0
  /\ slept' = slept
  /\ Goto(o, "reopened")
  /\ UNCHANGED <<prober, permits, reachable, sawOutage>>

\* Mistake: the prober returns without reopening the gate.
WakeSilently(o) ==
  /\ At(o, "asleep")
  /\ slept' = slept + 1
  /\ Goto(o, "reopened")
  /\ UNCHANGED <<gate, permits, reachable, sawOutage>>

\* The backoff timer fires and the prober reopens the gate.
WakeAndReopen(o) ==
  /\ At(o, "asleep")
  /\ Send(TRUE)
  /\ slept' = slept + 1
  /\ Goto(o, "reopened")
  /\ UNCHANGED <<prober, rounds, permits, reachable, sawOutage>>

\* Past the budget the prober reopens the gate at once.
ReopenLatched(o) ==
  /\ At(o, "exhausted")
  /\ Send(TRUE)
  /\ Goto(o, "latched")
  /\ UNCHANGED <<prober, rounds, permits, reachable, sawOutage, slept>>

\* The election guard drops as wait_for_recovery returns, after the reopening.
ProberRetries(o) ==
  /\ At(o, "reopened")
  /\ prober' = NoObject
  /\ BeginAttempt(o)
  /\ UNCHANGED <<open, rounds, permits, reachable, slept>>

ProberGivesUp(o) ==
  /\ At(o, "latched")
  /\ prober' = NoObject
  /\ Settle(o, "gaveUp")
  /\ UNCHANGED <<open, rounds, reachable, slept>>

-----------------------------------------------------------------------------
(* wait_for_recovery: a task that loses the election. *)

LoseElection(o) ==
  /\ At(o, "refused")
  /\ prober # NoObject
  /\ Goto(o, "lost")
  /\ UNCHANGED <<gate, permits, reachable, sawOutage, slept>>

\* The prober may have left by now.
Subscribe(o) ==
  /\ At(o, "lost")
  /\ Goto(o, "watching")
  /\ UNCHANGED <<gate, permits, reachable, sawOutage, slept>>

\* A gate reopened and closed again before the task is scheduled is not seen.
SeeOpen(o) ==
  /\ At(o, "watching")
  /\ open
  /\ Goto(o, "woken")
  /\ UNCHANGED <<gate, permits, reachable, sawOutage, slept>>

LoadRounds(o) ==
  /\ At(o, "woken")
  /\ Goto(o, IF rounds > MaxRounds THEN "willGiveUp" ELSE "willRetry")
  /\ UNCHANGED <<gate, permits, reachable, sawOutage, slept>>

\* The receiver drops as wait_for_recovery returns.
LoserRetries(o) ==
  /\ At(o, "willRetry")
  /\ BeginAttempt(o)
  /\ UNCHANGED <<gate, permits, reachable, slept>>

LoserGivesUp(o) ==
  /\ At(o, "willGiveUp")
  /\ Settle(o, "gaveUp")
  /\ UNCHANGED <<gate, reachable, slept>>

-----------------------------------------------------------------------------
(* The endpoint, which the code does not control. *)

OutageBegins ==
  /\ reachable
  /\ reachable' = FALSE
  /\ sawOutage' = sawOutage \cup {o \in Objects : At(o, "pushing")}
  /\ UNCHANGED <<gate, pc, permits, slept>>

OutageEnds ==
  /\ ~reachable
  /\ reachable' = TRUE
  /\ UNCHANGED <<gate, pc, permits, sawOutage, slept>>

-----------------------------------------------------------------------------

ProberStep(o) ==
  \/ WinElection(o)
  \/ CloseGate(o)
  \/ CountRound(o)
  \/ WakeAndReopen(o)
  \/ ReopenLatched(o)
  \/ ProberRetries(o)
  \/ ProberGivesUp(o)

LoserStep(o) ==
  \/ LoseElection(o)
  \/ Subscribe(o)
  \/ SeeOpen(o)
  \/ LoadRounds(o)
  \/ LoserRetries(o)
  \/ LoserGivesUp(o)

PushStep(o) ==
  \/ TakePermit(o)
  \/ PushSucceeds(o)
  \/ PushFailsOtherwise(o)
  \/ PushIsRefused(o)

TaskStep(o) == ProberStep(o) \/ LoserStep(o) \/ PushStep(o)

Next ==
  \/ \E o \in Objects : TaskStep(o)
  \/ OutageBegins
  \/ OutageEnds

Spec == Init /\ [][Next]_vars

\* Each task is a future the runtime keeps polling: its timers fire, and an
\* rclone attempt ends because its own retry budget does.  Nothing is asked
\* of the endpoint, which may stay down or flap for ever.
FairSpec == Spec /\ \A o \in Objects : WF_vars(TaskStep(o))

-----------------------------------------------------------------------------
(* Properties. *)

Holders == {o \in Objects : pc[o] \in Holding}

\* The variables keep their ranges: in particular the push semaphore never
\* runs below zero or above --upload-concurrency.
TypeOK ==
  /\ open \in BOOLEAN
  /\ prober \in Objects \cup {NoObject}
  /\ rounds \in Nat
  /\ pc \in [Objects -> {"queued"} \cup Holding \cup Settled]
  /\ permits \in 0..Permits
  /\ reachable \in BOOLEAN
  /\ sawOutage \subseteq Objects
  /\ slept \in Nat

\* The outage budget belongs to the run and not to a file: however many
\* objects fail, in whatever order, at most MaxRounds backoffs are slept.
BudgetPaidOnce == slept <= MaxRounds

\* An object gives up only when the whole budget has been slept: no object
\* fails on the endpoint's account while a round is left or still running.
GiveUpOnlyAfterBudget ==
  (\E o \in Objects : pc[o] \in {"exhausted", "latched", "gaveUp"})
     => slept = MaxRounds

\* Inside the gate with no answer yet.
Waiting == {o \in Objects : pc[o] \in InGate \ {"willRetry", "willGiveUp"}}

\* Once latched the gate costs nothing: nobody in it without an answer, prober
\* or loser, sleeps any more or is sent back to pushing.
FailFast ==
  rounds > MaxRounds =>
    \A o \in Waiting : pc'[o] \notin {"asleep", "willRetry", "pushing"}

LatchedGateFailsFast == [][FailFast]_vars

Asleep == {o \in Objects : pc[o] = "asleep"}

\* A task waiting on the gate while a backoff is being slept is let go: its
\* own receiver makes the prober's send(true) land, however often other
\* probers close the gate again before it is scheduled.
WatchersAreLetGo ==
  \A o \in Objects :
    (pc[o] = "watching" /\ Asleep # {}) ~> (pc[o] # "watching")

\* Waiting on a closed gate that nobody is left to reopen.
Stranded == {o \in Objects : pc[o] = "watching" /\ ~open /\ prober = NoObject}

\* Whatever the endpoint does, flapping for ever included, the retries run
\* out: in the end every object is pushed or failed, or is stranded on the
\* gate, or is queued behind permits that only stranded objects hold.
RunEndsUnlessStranded ==
  <>[](\A o \in Objects :
         \/ pc[o] \in Settled
         \/ o \in Stranded
         \/ pc[o] = "queued" /\ Holders = Stranded /\ permits = 0)

\* The field's comment: "`false` while a recovery round is in progress.
\* Non-prober tasks park on this rather than retrying."  A task that lost the
\* election is not told to go on while the round's backoff is being slept.
LosersPark ==
  [][\A o \in Objects :
       (pc[o] = "watching" /\ pc'[o] = "woken") => Asleep = {}]_vars

\* The gate as its callers see it.
Latched == rounds > MaxRounds

Abstract == INSTANCE OutageGate WITH
  Callers <- Objects,
  Budget <- MaxRounds,
  inside <- Waiting,
  paid <- slept,
  latched <- Latched

\* The gate keeps the outage budget its callers rely on: no step of an
\* election or of the watch channel adds a backoff, and no answer contradicts
\* an earlier one.
ImplementsOutageGate == Abstract!Spec
=============================================================================
