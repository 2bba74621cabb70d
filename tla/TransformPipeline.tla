-------------------------- MODULE TransformPipeline --------------------------
(***************************************************************************)
(* The main loop of run_transform_job (commands/job/transform/worker.rs).  *)
(* One rclone subprocess pulls the source; the live tail of its log names   *)
(* each copied file on a channel; the loop enqueues the file, keeps at most *)
(* Concurrency process_one tasks in flight, and joins them.  Two controls   *)
(* act on it: backpressure stops the subprocess with SIGSTOP when too many  *)
(* downloaded files wait, and a circuit breaker stops dispatch when nearly  *)
(* all of the first files fail to convert in the same deterministic way.    *)
(* What process_one does to the file system is not modelled here: a task    *)
(* ends with one of four results.                                           *)
(***************************************************************************)
EXTENDS Naturals, FiniteSets, Sequences

CONSTANTS Listed,       \* keys in the listing of --source
          Unwanted,     \* keys whose outputs are all at the destination, and sidecars
          Variants,     \* keys to pull that differ only by case: pulled in slots
          Scanned,      \* keys found under source/ before the pull starts
          Concurrency,  \* --concurrency
          HighWater,    \* --max-pending-downloads
          SampleSize,   \* CIRCUIT_BREAKER_SAMPLE_SIZE
          TripThreshold \* CIRCUIT_BREAKER_TRIP_THRESHOLD

ToPull == Listed \ Unwanted
Bulk == ToPull \ Variants
Keys == Listed \cup Scanned

ASSUME PipelineAssumption ==
  /\ IsFiniteSet(Listed) /\ IsFiniteSet(Scanned)
  /\ Variants \subseteq ToPull
  /\ Concurrency \in Nat \ {0}
  /\ HighWater \in Nat \ {0}
  /\ SampleSize \in Nat \ {0}
  /\ TripThreshold \in 1..SampleSize

LowWater == IF HighWater \div 2 = 0 THEN 1 ELSE HighWater \div 2

VARIABLES
  \* Locals of the loop.
  phase,          \* "running", or how run_transform_job returned
  queue,          \* downloaded files not dispatched yet
  inFlight,       \* files whose process_one task is in the JoinSet
  dispatched,     \* every key that entered the queue
  outcome,        \* the FileOutcome of each key
  pidKnown,       \* pull_pid is Some
  paused,         \* pull_is_paused
  pullFinished,
  samples, matches, tripped,   \* the circuit breaker
  \* The pull subprocess and the live tail of its log.
  process,        \* "running", "stopped" by SIGSTOP, or "exited"
  toCopy,         \* keys rclone has not handled yet
  pullError,      \* rclone counted an error, so it exits with a failure
  channel,        \* copied keys on their way to the loop
  \* History, read by no action.
  arrived         \* keys whose file reached the local disk

breaker == <<samples, matches, tripped>>
subprocess == <<process, toCopy, pullError, arrived>>
vars == <<phase, queue, inFlight, dispatched, outcome, pidKnown, paused,
          pullFinished, breaker, subprocess, channel>>

-----------------------------------------------------------------------------

\* What a process_one task returns: pushed, skipped as email-shaped, failed in
\* the transcode stage with a non-retryable error, or failed in another way.
Results == {"pushed", "skipped", "unconvertible", "failed"}

Ended == {"reported", "pullFailed", "breakerTripped", "joinFailed"}

\* Each key once, in some order.
Orders(S) == {s \in [1..Cardinality(S) -> S] : \A k \in S : \E i \in DOMAIN s : s[i] = k}


Elements(s) == {s[i] : i \in DOMAIN s}

\* Mistake: the dispatched set is not consulted.
FreshUnguarded(names) == SelectSeq(names, LAMBDA k : k \notin Unwanted)

\* enqueue: an unwanted or already dispatched key is dropped, any other enters
\* the queue and the dispatched set.
Enqueue(entered, k) ==
  IF k \in Unwanted \cup dispatched \cup Elements(entered) THEN entered ELSE Append(entered, k)

\* What enqueue makes of the keys of a sequence, one after the other.
Fresh(names) ==
  LET entered[n \in 0..Len(names)] ==
        IF n = 0 THEN <<>> ELSE Enqueue(entered[n - 1], names[n])
  IN  entered[Len(names)]

\* The initial scan and the case-variant slots fill the queue before the loop
\* starts.  Some variants may not have landed; the pull of the rest begins.
Init ==
  /\ phase = "running"
  /\ \E landed \in SUBSET Variants :
       /\ \E scan \in Orders(Scanned \ Unwanted), slots \in Orders(landed \ Scanned) :
            queue = scan \o slots
       /\ arrived = Scanned \cup landed
  /\ inFlight = {}
  /\ dispatched = Elements(queue)
  /\ outcome = [k \in Keys |-> "none"]
  /\ pidKnown = FALSE
  /\ paused = FALSE
  /\ pullFinished = FALSE
  /\ samples = 0 /\ matches = 0 /\ tripped = FALSE
  /\ process = IF Bulk = {} THEN "exited" ELSE "running"
  /\ toCopy = Bulk
  /\ pullError = FALSE
  /\ channel = <<>>

-----------------------------------------------------------------------------
(* The top of the loop: dispatch, then the exit test. *)

Running == phase = "running"


\* Mistakes: one task too many, and a paused pull that also stops dispatch.
DispatchableOneMore == ~tripped /\ Cardinality(inFlight) <= Concurrency /\ queue # <<>>

DispatchableUnpaused ==
  ~tripped /\ ~paused /\ Cardinality(inFlight) < Concurrency /\ queue # <<>>

Dispatchable == ~tripped /\ Cardinality(inFlight) < Concurrency /\ queue # <<>>

Dispatch ==
  /\ Running
  /\ Dispatchable
  /\ inFlight' = inFlight \cup {Head(queue)}
  /\ queue' = Tail(queue)
  /\ UNCHANGED <<phase, dispatched, outcome, pidKnown, paused, pullFinished,
                 breaker, subprocess, channel>>


\* Mistake: the loop ends with its work and does not wait for the pull.
DrainedEarly == inFlight = {} /\ (queue = <<>> \/ tripped)

Drained == inFlight = {} /\ pullFinished /\ (queue = <<>> \/ tripped)

\* A failed pull and a tripped breaker return an error in that order; otherwise
\* every key that was asked for and never dispatched becomes a Pull failure.
Return ==
  /\ Running
  /\ ~Dispatchable
  /\ Drained
  /\ phase' = IF pullError THEN "pullFailed"
              ELSE IF tripped THEN "breakerTripped" ELSE "reported"
  /\ outcome' = IF pullError \/ tripped THEN outcome
                ELSE [k \in Keys |-> IF k \in ToPull \ dispatched
                                     THEN "undelivered" ELSE outcome[k]]
  /\ UNCHANGED <<queue, inFlight, dispatched, pidKnown, paused, pullFinished,
                 breaker, subprocess, channel>>

\* The loop has dispatched what it can and waits in tokio::select!.
Selecting == Running /\ ~Dispatchable /\ ~Drained

-----------------------------------------------------------------------------
(* The branches of tokio::select!. *)

ReceivePid ==
  /\ Selecting
  /\ Bulk # {}
  /\ ~pidKnown
  /\ pidKnown' = TRUE
  /\ UNCHANGED <<phase, queue, inFlight, dispatched, outcome, paused,
                 pullFinished, breaker, subprocess, channel>>

\* A skip takes no sample, and neither does a result past the window.
Samples(result) == result # "skipped" /\ ~tripped /\ samples < SampleSize

Trips(result) ==
  /\ Samples(result)
  /\ samples + 1 = SampleSize
  /\ matches + (IF result = "unconvertible" THEN 1 ELSE 0) >= TripThreshold

\* The breaker's deadlock guard resumes a paused pull ...
PausedAfterGuard(result) == paused /\ ~(Trips(result) /\ pidKnown)


\* Mistake: the high-water mark is looked at, the low-water mark is not.
PausedNeverResumed(result, backlog) ==
  IF ~pidKnown \/ pullFinished THEN PausedAfterGuard(result)
  ELSE PausedAfterGuard(result) \/ backlog >= HighWater

\* ... and the water marks are looked at afterwards, in the same branch, for
\* as long as the pull is not known to be finished.
PausedAfterMarks(result, backlog) ==
  IF ~pidKnown \/ pullFinished THEN PausedAfterGuard(result)
  ELSE IF PausedAfterGuard(result) THEN backlog > LowWater
  ELSE backlog >= HighWater

\* SIGSTOP and SIGCONT reach a process that has not exited.
Signalled(stop) ==
  IF process = "exited" THEN "exited" ELSE IF stop THEN "stopped" ELSE "running"

Join(k, result) ==
  /\ Selecting
  /\ inFlight' = inFlight \ {k}
  /\ outcome' = [outcome EXCEPT ![k] = result]
  /\ samples' = IF Samples(result) THEN samples + 1 ELSE samples
  /\ matches' = IF Samples(result) /\ result = "unconvertible" THEN matches + 1 ELSE matches
  /\ tripped' = (tripped \/ Trips(result))
  /\ paused' = PausedAfterMarks(result, Len(queue) + Cardinality(inFlight'))
  /\ process' = Signalled(paused')
  /\ UNCHANGED <<phase, queue, dispatched, pidKnown, pullFinished, toCopy,
                 pullError, channel, arrived>>

\* The live tail names a copied file; a tripped breaker drops it.
Receive ==
  /\ Selecting
  /\ ~pullFinished
  /\ channel # <<>>
  /\ channel' = Tail(channel)
  /\ LET new == IF tripped THEN <<>> ELSE Fresh(<<Head(channel)>>)
     IN  /\ queue' = queue \o new
         /\ dispatched' = dispatched \cup Elements(new)
  /\ UNCHANGED <<phase, inFlight, outcome, pidKnown, paused, pullFinished,
                 breaker, subprocess>>


\* Mistake: what the channel still holds is not drained.
JoinPullUndrained ==
  /\ Selecting
  /\ ~pullFinished
  /\ process = "exited"
  /\ pullFinished' = TRUE
  /\ paused' = FALSE
  /\ channel' = <<>>
  /\ UNCHANGED <<phase, queue, inFlight, dispatched, outcome, pidKnown, breaker, subprocess>>

\* The pull task ends: what is still in the channel is drained, and an exited
\* process is not paused.
JoinPull ==
  /\ Selecting
  /\ ~pullFinished
  /\ process = "exited"
  /\ pullFinished' = TRUE
  /\ paused' = FALSE
  /\ channel' = <<>>
  /\ LET new == IF tripped THEN <<>> ELSE Fresh(channel)
     IN  /\ queue' = queue \o new
         /\ dispatched' = dispatched \cup Elements(new)
  /\ UNCHANGED <<phase, inFlight, outcome, pidKnown, breaker, subprocess>>

\* The pull task panicked: the loop returns at once.  Dropping the JoinSet aborts
\* its tasks, and nothing is said to the subprocess.
JoinPullFails ==
  /\ Selecting
  /\ Bulk # {}
  /\ ~pullFinished
  /\ phase' = "joinFailed"
  /\ inFlight' = {}
  /\ UNCHANGED <<queue, dispatched, outcome, pidKnown, paused, pullFinished,
                 breaker, subprocess, channel>>

-----------------------------------------------------------------------------
(* rclone copy, external: it handles its keys in any order while it runs. *)

Copies(k) ==
  /\ process = "running"
  /\ toCopy' = toCopy \ {k}
  /\ arrived' = arrived \cup {k}
  /\ channel' = Append(channel, k)
  /\ UNCHANGED <<phase, queue, inFlight, dispatched, outcome, pidKnown, paused,
                 pullFinished, breaker, process, pullError>>

\* A key is passed over without a "Copied" line: it is on disk already, it is
\* gone from the source, or its transfer failed, which rclone counts.
PassesOver(k, errored) ==
  /\ process = "running"
  /\ toCopy' = toCopy \ {k}
  /\ pullError' = (pullError \/ errored)
  /\ UNCHANGED <<phase, queue, inFlight, dispatched, outcome, pidKnown, paused,
                 pullFinished, breaker, process, channel, arrived>>

Exits ==
  /\ process = "running"
  /\ toCopy = {}
  /\ process' = "exited"
  /\ UNCHANGED <<phase, queue, inFlight, dispatched, outcome, pidKnown, paused,
                 pullFinished, breaker, toCopy, pullError, arrived, channel>>

-----------------------------------------------------------------------------

LoopStep ==
  \/ Dispatch
  \/ Return
  \/ ReceivePid
  \/ \E k \in inFlight, result \in Results : Join(k, result)
  \/ Receive
  \/ JoinPull

RcloneStep ==
  \/ \E k \in toCopy : Copies(k)
  \/ \E k \in toCopy, errored \in BOOLEAN : PassesOver(k, errored)
  \/ Exits

Next == LoopStep \/ RcloneStep \/ JoinPullFails

Spec == Init /\ [][Next]_vars

\* The loop's task is polled until it returns, and each of its steps consumes
\* something, so one fairness condition covers every branch.  A process_one
\* task ends because its subprocesses and retries do.  rclone works while it is
\* not stopped.  That the pull task panics is never promised.
FairSpec == Spec /\ WF_vars(LoopStep) /\ WF_vars(RcloneStep)

-----------------------------------------------------------------------------
(* Properties. *)

\* The variables keep their ranges, and no more than --concurrency tasks run.
TypeOK ==
  /\ phase \in {"running"} \cup Ended
  /\ queue \in Seq(Keys)
  /\ inFlight \subseteq Keys /\ Cardinality(inFlight) <= Concurrency
  /\ dispatched \subseteq Keys
  /\ outcome \in [Keys -> {"none", "undelivered"} \cup Results]
  /\ pidKnown \in BOOLEAN /\ paused \in BOOLEAN /\ pullFinished \in BOOLEAN
  /\ samples \in 0..SampleSize /\ matches \in 0..samples /\ tripped \in BOOLEAN
  /\ process \in {"running", "stopped", "exited"}
  /\ toCopy \subseteq Bulk /\ arrived \subseteq Keys
  /\ pullError \in BOOLEAN
  /\ channel \in Seq(Bulk)

\* No file is processed twice, although the initial scan, the case-variant
\* slots and the live tail may each name it: two tasks on one file would
\* collide on its result and its source.
NoFileTwice ==
  /\ \A i, j \in DOMAIN queue : queue[i] = queue[j] => i = j
  /\ \A k \in Elements(queue) : k \notin inFlight /\ outcome[k] = "none"
  /\ \A k \in inFlight : outcome[k] = "none"

\* Backpressure cannot starve itself.  The pull is resumed only when a task is
\* joined, so while it is stopped a file must be in flight or in the queue.
StoppedPullHasWork ==
  Running /\ process = "stopped" /\ ~tripped => inFlight # {} \/ queue # <<>>

\* The report tells the truth about every key the run was asked for: it names
\* as undelivered exactly the keys that never reached the disk, gives every
\* other key its own result, and says nothing of unwanted keys.
ReportIsComplete ==
  phase = "reported" =>
    /\ \A k \in ToPull : outcome[k] # "none"
    /\ \A k \in Keys \ Unwanted : outcome[k] = "undelivered" <=> k \notin arrived
    /\ \A k \in Unwanted \cap Keys : outcome[k] = "none"

\* However the run returns, no task is abandoned and no rclone is left behind,
\* stopped or running; only a panic of the pull task itself leaves it.
NothingLeftBehind ==
  phase \in Ended \ {"joinFailed"} => inFlight = {} /\ process = "exited"

\* Unless the breaker trips, every run returns: a paused pull is resumed.
RunEndsUnlessTripped == <>(phase \in Ended \/ tripped)

\* The deadlock guard of CLI-0129: a tripped breaker resumes a paused pull
\* regardless of backlog, so that the run still returns.
TrippedRunEnds == tripped ~> phase \in Ended
=============================================================================
