----------------------- MODULE TransformPipelineProofs -----------------------
(***************************************************************************)
(* Proofs about TransformPipeline for any source, --concurrency and         *)
(* --max-pending-downloads.                                                 *)
(*                                                                         *)
(* Backpressure never stops the pull with nothing left to do that would      *)
(* resume it: a pause is only ever in force on a known, unfinished pull, and  *)
(* a paused loop has work; the wait in select! then means that a task is in   *)
(* flight.                                                                 *)
(*                                                                         *)
(* A file is processed once, and the report is complete: a dispatched key is  *)
(* queued, in flight or settled; while the breaker holds, a wanted key that   *)
(* arrived is dispatched or still on the channel; and a finished pull leaves   *)
(* the channel empty.  What enqueue makes of a drained channel is a recursive  *)
(* function, about which the proof argues by a least counterexample.         *)
(***************************************************************************)
EXTENDS TransformPipeline, FiniteSetTheorems, WellFoundedInduction, TLAPS

\* What the loop believes about the pull is true of the process.
PauseInv ==
  /\ paused => pidKnown /\ ~pullFinished
  /\ process = "stopped" => paused
  /\ pullFinished => process = "exited"

WorkInv == Running /\ paused /\ ~tripped => inFlight # {} \/ queue # <<>>

IInv == PauseInv /\ WorkInv

\* No element twice.
Distinct(s) == \A i, j \in DOMAIN s : s[i] = s[j] => i = j

\* A dispatched key is queued, in flight or settled, unless a panic of the pull has
\* aborted its task, and no other has a result.
QueueInv ==
  /\ Distinct(queue)
  /\ Elements(queue) \cap inFlight = {}
  /\ Elements(queue) \cup inFlight \subseteq dispatched
  /\ \A k \in dispatched :
       IF k \in Elements(queue) \cup inFlight THEN outcome[k] = "none"
       ELSE outcome[k] \in Results \/ phase = "joinFailed"
  /\ Running => \A k \in Keys \ dispatched : outcome[k] = "none"

\* What is dispatched has arrived, and what has arrived is dispatched, unless it is
\* unwanted, on the channel, or dropped after the breaker has tripped.
ArrivalInv ==
  /\ Scanned \subseteq arrived
  /\ dispatched \subseteq arrived \ Unwanted
  /\ Elements(channel) \subseteq arrived
  /\ ~tripped => arrived \ Unwanted \subseteq dispatched \cup Elements(channel)
  /\ pullFinished => channel = <<>>

\* How the loop ends.
EndInv ==
  /\ phase \in Ended \ {"joinFailed"} => pullFinished /\ inFlight = {}
  /\ phase = "reported" =>
       /\ ~tripped /\ queue = <<>>
       /\ \A k \in Keys \ dispatched : outcome[k] = IF k \in ToPull THEN "undelivered" ELSE "none"

LoopInv == TypeOK /\ IInv /\ QueueInv /\ ArrivalInv /\ EndInv

-----------------------------------------------------------------------------

\* A wait for a join with nothing in flight means that nothing is queued.
LEMMA NothingToDispatch ==
  ASSUME Selecting, ~tripped, inFlight = {}
  PROVE  queue = <<>>
BY PipelineAssumption, FS_EmptySet DEF Selecting, Dispatchable

\* The low-water mark is at least one, whatever --max-pending-downloads is.
LEMMA LowWaterPositive == LowWater \in Nat \ {0}
<1>1. HighWater \div 2 \in Nat
  BY PipelineAssumption
<1> QED
  BY <1>1 DEF LowWater

\* A join that leaves the pull paused leaves a backlog.
LEMMA PausedLeavesBacklog ==
  ASSUME NEW result, pidKnown, ~pullFinished,
         NEW backlog \in Nat, PausedAfterMarks(result, backlog)
  PROVE  backlog > 0
BY LowWaterPositive, PipelineAssumption DEF PausedAfterMarks

\* Nothing is paused or stopped before the loop starts.
LEMMA InitInv == Init => IInv
BY DEF Init, IInv, PauseInv, WorkInv

\* Every branch of the loop, and every step of rclone, keeps the invariant.
LEMMA StepInv == IInv /\ [Next]_vars => IInv'
<1> SUFFICES ASSUME IInv, [Next]_vars PROVE IInv'
  OBVIOUS
<1> USE DEF IInv, Running
<1>1. CASE Dispatch
  BY <1>1 DEF Dispatch, PauseInv, WorkInv, breaker, subprocess
<1>2. CASE Return
  BY <1>2 DEF Return, PauseInv, WorkInv, breaker, subprocess
<1>3. CASE ReceivePid
  BY <1>3 DEF ReceivePid, PauseInv, WorkInv, breaker, subprocess
<1>4. ASSUME NEW k \in inFlight, NEW result \in Results, Join(k, result)
      PROVE  IInv'
  <2> DEFINE backlog == Len(queue) + Cardinality(inFlight')
  <2>1. /\ paused' = PausedAfterMarks(result, backlog)
        /\ process' = Signalled(paused')
        /\ UNCHANGED <<queue, pidKnown, pullFinished>>
        /\ ~tripped' => ~tripped
    BY <1>4 DEF Join
  <2>2. paused' => pidKnown /\ ~pullFinished
    BY <2>1 DEF PausedAfterMarks, PausedAfterGuard, PauseInv
  <2>3. PauseInv'
    BY <2>1, <2>2 DEF PauseInv, Signalled
  <2>4. WorkInv'
    <3> SUFFICES ASSUME paused', inFlight' = {}, queue = <<>> PROVE FALSE
      BY <2>1 DEF WorkInv
    <3>1. backlog = 0
      BY FS_EmptySet
    <3>2. PausedAfterMarks(result, 0)
      BY <2>1, <3>1
    <3> QED
      BY <2>2, <3>2, PausedLeavesBacklog
  <2> QED
    BY <2>3, <2>4
<1>5. CASE Receive
  <2>1. PauseInv'
    BY <1>5 DEF Receive, PauseInv, breaker, subprocess
  <2>2. WorkInv'
    BY <1>5, NothingToDispatch DEF Receive, WorkInv, breaker, subprocess
  <2> QED
    BY <2>1, <2>2
<1>6. CASE JoinPull
  BY <1>6 DEF JoinPull, PauseInv, WorkInv, breaker, subprocess
<1>7. ASSUME NEW k \in toCopy, Copies(k) PROVE IInv'
  BY <1>7 DEF Copies, PauseInv, WorkInv, breaker
<1>8. ASSUME NEW k \in toCopy, NEW errored \in BOOLEAN, PassesOver(k, errored)
      PROVE  IInv'
  BY <1>8 DEF PassesOver, PauseInv, WorkInv, breaker
<1>9. CASE Exits
  BY <1>9 DEF Exits, PauseInv, WorkInv, breaker
<1>10. CASE JoinPullFails
  BY <1>10 DEF JoinPullFails, PauseInv, WorkInv, Running, breaker, subprocess
<1>11. CASE UNCHANGED vars
  BY <1>11 DEF vars, PauseInv, WorkInv, Running, breaker, subprocess
<1> QED
  BY <1>1, <1>2, <1>3, <1>4, <1>5, <1>6, <1>7, <1>8, <1>9, <1>10, <1>11
     DEF Next, LoopStep, RcloneStep

\* While the pull is stopped by backpressure, a file is in flight or queued.
THEOREM BackpressureHasWork == Spec => []StoppedPullHasWork
<1>1. IInv => StoppedPullHasWork
  BY DEF IInv, PauseInv, WorkInv, StoppedPullHasWork
<1> QED
  BY <1>1, InitInv, StepInv, PTL DEF Spec

-----------------------------------------------------------------------------
(* Sequences of keys. *)

\* A set of numbers that is not empty has a least member.
LEMMA LeastNumber ==
  ASSUME NEW T, T \subseteq Nat, T # {}
  PROVE  \E n \in T : \A m \in T : n <= m
<1> DEFINE R == OpToRel(<, Nat)
<1>1. IsWellFoundedOn(R, Nat)
  BY NatLessThanWellFounded
<1>2. ASSUME NEW x \in Nat, NEW y \in Nat, y < x PROVE <<y, x>> \in R
  BY <1>2 DEF OpToRel
<1> HIDE DEF R
<1>3. PICK n \in T : \A m \in T : ~(<<m, n>> \in R)
  BY <1>1, WFMin
<1>4. ASSUME NEW m \in T PROVE n <= m
  <2>1. ~(m < n)
    BY <1>2, <1>3
  <2> QED
    BY <2>1
<1> QED
  BY <1>4

\* Taking the head.
LEMMA TailElements ==
  ASSUME NEW S, NEW s \in Seq(S), s # <<>>
  PROVE  /\ Tail(s) \in Seq(S) /\ Head(s) \in Elements(s)
         /\ Elements(s) = Elements(Tail(s)) \cup {Head(s)}
         /\ Distinct(s) => Distinct(Tail(s)) /\ Head(s) \notin Elements(Tail(s))
<1>1. /\ Tail(s) \in Seq(S) /\ Len(s) \in Nat \ {0} /\ Len(Tail(s)) = Len(s) - 1
      /\ DOMAIN s = 1..Len(s) /\ DOMAIN Tail(s) = 1..(Len(s) - 1) /\ Head(s) = s[1]
      /\ \A i \in 1..(Len(s) - 1) : Tail(s)[i] = s[i + 1]
  OBVIOUS
<1>2. ASSUME NEW i \in DOMAIN s, i # 1 PROVE i - 1 \in DOMAIN Tail(s) /\ Tail(s)[i - 1] = s[i]
  BY <1>1, <1>2
<1>3. Elements(s) = Elements(Tail(s)) \cup {Head(s)}
  <2>1. ASSUME NEW x \in Elements(s) PROVE x \in Elements(Tail(s)) \cup {Head(s)}
    <3>1. PICK i \in DOMAIN s : s[i] = x
      BY DEF Elements
    <3> QED
      BY <1>1, <1>2, <3>1 DEF Elements
  <2>2. Elements(Tail(s)) \cup {Head(s)} \subseteq Elements(s)
    BY <1>1 DEF Elements
  <2> QED
    BY <2>1, <2>2
<1>4. Distinct(s) => Distinct(Tail(s)) /\ Head(s) \notin Elements(Tail(s))
  BY <1>1 DEF Elements, Distinct
<1> QED
  BY <1>1, <1>3, <1>4

\* Appending.
LEMMA AppendElements ==
  ASSUME NEW S, NEW s \in Seq(S), NEW x \in S
  PROVE  /\ Append(s, x) \in Seq(S)
         /\ Elements(Append(s, x)) = Elements(s) \cup {x}
         /\ Distinct(s) /\ x \notin Elements(s) => Distinct(Append(s, x))
<1>1. /\ Append(s, x) \in Seq(S) /\ Len(s) \in Nat /\ DOMAIN s = 1..Len(s)
      /\ DOMAIN Append(s, x) = 1..(Len(s) + 1) /\ Append(s, x)[Len(s) + 1] = x
      /\ \A i \in 1..Len(s) : Append(s, x)[i] = s[i]
  OBVIOUS
<1>2. \A i \in 1..(Len(s) + 1) : i \in 1..Len(s) \/ i = Len(s) + 1
  BY <1>1
<1>3. Elements(Append(s, x)) = Elements(s) \cup {x}
  BY <1>1, <1>2 DEF Elements
<1>4. Distinct(s) /\ x \notin Elements(s) => Distinct(Append(s, x))
  BY <1>1, <1>2 DEF Elements, Distinct
<1> QED
  BY <1>1, <1>3, <1>4

\* Joining two sequences.
LEMMA ConcatElements ==
  ASSUME NEW S, NEW s \in Seq(S), NEW t \in Seq(S)
  PROVE  /\ s \o t \in Seq(S)
         /\ Elements(s \o t) = Elements(s) \cup Elements(t)
         /\ Distinct(s) /\ Distinct(t) /\ Elements(s) \cap Elements(t) = {} => Distinct(s \o t)
<1>1. /\ s \o t \in Seq(S) /\ Len(s) \in Nat /\ Len(t) \in Nat
      /\ DOMAIN s = 1..Len(s) /\ DOMAIN t = 1..Len(t) /\ DOMAIN (s \o t) = 1..(Len(s) + Len(t))
      /\ \A i \in 1..Len(s) : (s \o t)[i] = s[i]
      /\ \A i \in (Len(s) + 1)..(Len(s) + Len(t)) : (s \o t)[i] = t[i - Len(s)]
  OBVIOUS
<1>2. \A i \in DOMAIN (s \o t) : i \in DOMAIN s \/ i - Len(s) \in DOMAIN t
  BY <1>1
<1>3. \A i \in DOMAIN t : i + Len(s) \in DOMAIN (s \o t) /\ (s \o t)[i + Len(s)] = t[i]
  BY <1>1
<1>4. Elements(s \o t) = Elements(s) \cup Elements(t)
  <2>1. Elements(s \o t) \subseteq Elements(s) \cup Elements(t)
    BY <1>1, <1>2 DEF Elements
  <2>2. Elements(s) \subseteq Elements(s \o t)
    BY <1>1 DEF Elements
  <2>3. Elements(t) \subseteq Elements(s \o t)
    BY <1>3 DEF Elements
  <2> QED
    BY <2>1, <2>2, <2>3
<1>5. ASSUME Distinct(s), Distinct(t), Elements(s) \cap Elements(t) = {},
             NEW i \in DOMAIN (s \o t), NEW j \in DOMAIN (s \o t), (s \o t)[i] = (s \o t)[j]
      PROVE  i = j
  <2>1. CASE i \in DOMAIN s /\ j \in DOMAIN s
    BY <1>1, <1>5, <2>1 DEF Distinct
  <2>2. CASE i \notin DOMAIN s /\ j \notin DOMAIN s
    <3>1. i - Len(s) \in DOMAIN t /\ j - Len(s) \in DOMAIN t
          /\ (s \o t)[i] = t[i - Len(s)] /\ (s \o t)[j] = t[j - Len(s)]
      BY <1>1, <1>2, <2>2
    <3>2. i - Len(s) = j - Len(s)
      BY <3>1, <1>5 DEF Distinct
    <3> QED
      BY <3>2, <1>1
  <2>3. CASE i \in DOMAIN s /\ j \notin DOMAIN s
    <3>1. (s \o t)[i] \in Elements(s) /\ (s \o t)[j] \in Elements(t)
      BY <1>1, <1>2, <2>3 DEF Elements
    <3> QED
      BY <3>1, <1>5
  <2>4. CASE i \notin DOMAIN s /\ j \in DOMAIN s
    <3>1. (s \o t)[i] \in Elements(t) /\ (s \o t)[j] \in Elements(s)
      BY <1>1, <1>2, <2>4 DEF Elements
    <3> QED
      BY <3>1, <1>5
  <2> QED
    BY <2>1, <2>2, <2>3, <2>4
<1> QED
  BY <1>1, <1>4, <1>5 DEF Distinct

\* An order of a finite set names each of its members once.
LEMMA OrderElements ==
  ASSUME NEW S, IsFiniteSet(S), NEW s \in Orders(S)
  PROVE  s \in Seq(S) /\ Distinct(s) /\ Elements(s) = S
<1>1. Cardinality(S) \in Nat /\ s \in [1..Cardinality(S) -> S] /\ \A k \in S : \E i \in DOMAIN s : s[i] = k
  BY FS_CardinalityType DEF Orders
<1>2. s \in Surjection(1..Cardinality(S), S)
  BY <1>1 DEF Surjection
<1>3. IsFiniteSet(1..Cardinality(S)) /\ Cardinality(1..Cardinality(S)) = Cardinality(S)
  BY <1>1, FS_Interval
<1>4. s \in Injection(1..Cardinality(S), S)
  BY <1>2, <1>3, FS_SurjSameCardinalityImpliesInj
<1>5. Distinct(s)
  BY <1>1, <1>4 DEF Injection, IsInjective, Distinct
<1>6. s \in Seq(S)
  BY <1>1
<1>7. Elements(s) = S
  BY <1>1 DEF Elements
<1> QED
  BY <1>5, <1>6, <1>7

\* Enqueue keeps what has entered, and enters a key once.
LEMMA EnqueueKeeps ==
  ASSUME NEW S, NEW s \in Seq(S), NEW x \in S, Distinct(s)
  PROVE  /\ Enqueue(s, x) \in Seq(S) /\ Distinct(Enqueue(s, x))
         /\ Elements(Enqueue(s, x)) = Elements(s) \cup ({x} \ (Unwanted \cup dispatched))
<1>1. CASE x \in Unwanted \cup dispatched \cup Elements(s)
  BY <1>1 DEF Enqueue
<1>2. CASE x \notin Unwanted \cup dispatched \cup Elements(s)
  BY <1>2, AppendElements DEF Enqueue
<1> QED
  BY <1>1, <1>2

\* The function by which Fresh is defined, up to n.
Entering(f, names, n) ==
  f = [i \in 0..n |-> IF i = 0 THEN <<>> ELSE Enqueue(f[i - 1], names[i])]

\* There is such a function for each n: for the least n without one, the one for
\* n - 1 could be extended.
LEMMA EnteringExists ==
  ASSUME NEW names, NEW m \in Nat
  PROVE  \E f : Entering(f, names, m)
<1> DEFINE T == {n \in Nat : ~\E f : Entering(f, names, n)}
<1>1. SUFFICES ASSUME T # {} PROVE FALSE
  OBVIOUS
<1>2. PICK n \in T : \A l \in T : n <= l
  BY <1>1, LeastNumber
<1>3. CASE n = 0
  <2> DEFINE f == [i \in 0..0 |-> <<>>]
  <2>1. Entering(f, names, 0)
    BY DEF Entering
  <2> QED
    BY <2>1, <1>3
<1>4. CASE n # 0
  <2>1. n \in Nat /\ n - 1 \in Nat /\ n - 1 \notin T
    BY <1>2, <1>4
  <2>2. PICK f : Entering(f, names, n - 1)
    BY <2>1
  <2> DEFINE g == [i \in 0..n |-> IF i = n THEN Enqueue(f[n - 1], names[n]) ELSE f[i]]
  <2>3. ASSUME NEW i \in 0..n
        PROVE  g[i] = IF i = 0 THEN <<>> ELSE Enqueue(g[i - 1], names[i])
    <3>1. CASE i = n
      BY <3>1, <2>1, <1>4
    <3>2. CASE i # n
      <4>1. i \in 0..(n - 1) /\ (i # 0 => i - 1 \in 0..n /\ i - 1 # n)
        BY <3>2, <2>1
      <4>2. f[i] = IF i = 0 THEN <<>> ELSE Enqueue(f[i - 1], names[i])
        BY <4>1, <2>2 DEF Entering
      <4> QED
        BY <4>1, <4>2, <3>2
    <3> QED
      BY <3>1, <3>2
  <2>4. Entering(g, names, n)
    <3> HIDE DEF g
    <3>1. g = [i \in 0..n |-> g[i]]
      BY DEF g
    <3> QED
      BY <2>3, <3>1 DEF Entering
  <2> QED
    BY <2>4
<1> QED
  BY <1>3, <1>4

\* What enqueue makes of a sequence: each key that is wanted and not dispatched, once.
LEMMA FreshElements ==
  ASSUME NEW S, NEW names \in Seq(S)
  PROVE  /\ Fresh(names) \in Seq(S) /\ Distinct(Fresh(names))
         /\ Elements(Fresh(names)) = Elements(names) \ (Unwanted \cup dispatched)
<1> DEFINE len == Len(names)
           f == CHOOSE f : Entering(f, names, len)
           Until(n) == {names[i] : i \in 1..n} \ (Unwanted \cup dispatched)
           Good(n) == f[n] \in Seq(S) /\ Distinct(f[n]) /\ Elements(f[n]) = Until(n)
<1>1. len \in Nat /\ DOMAIN names = 1..len /\ \A i \in 1..len : names[i] \in S
  OBVIOUS
<1>2. Entering(f, names, len)
  BY <1>1, EnteringExists
<1>3. Fresh(names) = f[len]
  BY DEF Fresh, Entering
<1> HIDE DEF f
<1>4. \A n \in 0..len : Good(n)
  <2> DEFINE T == {n \in 0..len : ~Good(n)}
  <2>1. SUFFICES ASSUME T # {} PROVE FALSE
    OBVIOUS
  <2>2. PICK n \in 0..len : ~Good(n) /\ \A l \in 0..len : ~Good(l) => n <= l
    <3> HIDE DEF Good
    <3>1. T \subseteq Nat
      BY <1>1
    <3>2. PICK n \in T : \A l \in T : n <= l
      BY <2>1, <3>1, LeastNumber
    <3> QED
      BY <3>2
  <2>3. CASE n = 0
    <3>1. f[0] = <<>>
      BY <1>1, <1>2 DEF Entering
    <3>2. Until(0) = {}
      OBVIOUS
    <3>3. Good(0)
      <4> HIDE DEF Until
      <4> QED
        BY <3>1, <3>2 DEF Distinct, Elements
    <3> QED
      BY <3>3, <2>2, <2>3
  <2>4. CASE n # 0
    <3>1. n \in 1..len /\ n - 1 \in 0..len /\ ~(n <= n - 1)
      BY <1>1, <2>4
    <3>2. f[n] = Enqueue(f[n - 1], names[n])
      BY <1>2, <3>1 DEF Entering
    <3>3. Good(n - 1)
      <4> HIDE DEF Good
      <4> QED
        BY <2>2, <3>1
    <3>4. Until(n) = Until(n - 1) \cup ({names[n]} \ (Unwanted \cup dispatched))
      <4>1. \A i : i \in 1..n <=> i \in 1..(n - 1) \/ i = n
        BY <3>1, <1>1
      <4> QED
        BY <4>1
    <3>5. Good(n)
      <4>1. names[n] \in S /\ f[n - 1] \in Seq(S) /\ Distinct(f[n - 1])
        BY <1>1, <3>1, <3>3
      <4>2. /\ f[n] \in Seq(S) /\ Distinct(f[n])
            /\ Elements(f[n]) = Elements(f[n - 1]) \cup ({names[n]} \ (Unwanted \cup dispatched))
        <5>1. ASSUME NEW b \in Seq(S), Distinct(b), NEW x \in S
              PROVE  /\ Enqueue(b, x) \in Seq(S) /\ Distinct(Enqueue(b, x))
                     /\ Elements(Enqueue(b, x)) = Elements(b) \cup ({x} \ (Unwanted \cup dispatched))
          BY <5>1, EnqueueKeeps
        <5> QED
          BY ZenonT(60), <4>1, <3>2, <5>1
      <4> QED
        BY <4>2, <3>3, <3>4
    <3> QED
      BY <3>5, <2>2
  <2> QED
    BY <2>3, <2>4
<1>5. Until(len) = Elements(names) \ (Unwanted \cup dispatched)
  BY <1>1 DEF Elements
<1>6. Good(len)
  <2> HIDE DEF Good
  <2> QED
    BY <1>1, <1>4
<1> QED
  BY <1>3, <1>5, <1>6

-----------------------------------------------------------------------------
(* Each file once, and a report that is complete. *)

\* What a finite source comes to.
LEMMA FiniteKeys ==
  /\ IsFiniteSet(Keys) /\ IsFiniteSet(Scanned \ Unwanted)
  /\ Bulk \subseteq Keys /\ Variants \subseteq Keys /\ Variants \cap Unwanted = {}
  /\ \A T \in SUBSET Keys : IsFiniteSet(T) /\ Cardinality(T) \in Nat
<1>1. IsFiniteSet(Keys)
  BY PipelineAssumption, FS_Union DEF Keys
<1>2. \A T \in SUBSET Keys : IsFiniteSet(T) /\ Cardinality(T) \in Nat
  BY <1>1, FS_Subset, FS_CardinalityType
<1> QED
  BY <1>1, <1>2, PipelineAssumption DEF Keys, Bulk, ToPull

\* What receiving a name, and draining the channel, does to the queue.
LEMMA ReceiveEffect ==
  ASSUME TypeOK, QueueInv, Receive \/ JoinPull
  PROVE  \E new \in SUBSET Elements(channel) :
           /\ new \cap (Unwanted \cup dispatched) = {} /\ new \subseteq Bulk
           /\ queue' \in Seq(Keys) /\ Distinct(queue')
           /\ Elements(queue') = Elements(queue) \cup new
           /\ dispatched' = dispatched \cup new
           /\ channel' \in Seq(Bulk) /\ Elements(channel') \subseteq Elements(channel)
           /\ ~tripped => Elements(channel) \subseteq Unwanted \cup dispatched' \cup Elements(channel')
           /\ UNCHANGED <<phase, inFlight, outcome, pidKnown, breaker, subprocess>>
<1>1. PICK names \in Seq(Bulk) :
        /\ Elements(channel) = Elements(names) \cup Elements(channel')
        /\ channel' \in Seq(Bulk)
        /\ LET entered == IF tripped THEN <<>> ELSE Fresh(names)
           IN  queue' = queue \o entered /\ dispatched' = dispatched \cup Elements(entered)
        /\ UNCHANGED <<phase, inFlight, outcome, pidKnown, breaker, subprocess>>
  <2>1. CASE Receive
    <3>1. channel \in Seq(Bulk) /\ channel # <<>> /\ channel' = Tail(channel)
      BY <2>1 DEF Receive, TypeOK
    <3>2. /\ channel' \in Seq(Bulk) /\ Elements(channel) = Elements(channel') \cup {Head(channel)}
          /\ Head(channel) \in Bulk
      BY <3>1, TailElements
    <3>3. <<Head(channel)>> \in Seq(Bulk) /\ Elements(<<Head(channel)>>) = {Head(channel)}
      BY <3>2 DEF Elements
    <3> QED
      BY <2>1, <3>2, <3>3 DEF Receive
  <2>2. CASE JoinPull
    <3>1. channel \in Seq(Bulk) /\ channel' = <<>> /\ Elements(<<>>) = {}
      BY <2>2 DEF JoinPull, TypeOK, Elements
    <3> QED
      BY <2>2, <3>1 DEF JoinPull
  <2> QED
    BY <2>1, <2>2
<1> DEFINE entered == IF tripped THEN <<>> ELSE Fresh(names)
<1>2. /\ entered \in Seq(Bulk) /\ Distinct(entered)
      /\ Elements(entered) \subseteq Elements(names) \ (Unwanted \cup dispatched)
      /\ ~tripped => Elements(entered) = Elements(names) \ (Unwanted \cup dispatched)
  <2>1. CASE tripped
    BY <2>1 DEF Distinct, Elements
  <2>2. CASE ~tripped
    BY <2>2, FreshElements
  <2> QED
    BY <2>1, <2>2
<1>3. queue' = queue \o entered /\ dispatched' = dispatched \cup Elements(entered)
  BY <1>1
<1> HIDE DEF entered
<1>4. queue \in Seq(Keys) /\ entered \in Seq(Keys) /\ Elements(entered) \subseteq Bulk
  <2>1. Seq(Bulk) \subseteq Seq(Keys)
    BY FiniteKeys
  <2> QED
    BY <1>2, <2>1 DEF TypeOK, Elements
<1>5. Elements(queue) \cap Elements(entered) = {}
  BY <1>2 DEF QueueInv
<1>6. queue' \in Seq(Keys) /\ Distinct(queue') /\ Elements(queue') = Elements(queue) \cup Elements(entered)
  BY <1>2, <1>3, <1>4, <1>5, ConcatElements DEF QueueInv
<1> QED
  BY <1>1, <1>2, <1>3, <1>4, <1>6

\* What dispatching a file does to the queue.
LEMMA DispatchEffect ==
  ASSUME TypeOK, QueueInv, Dispatch
  PROVE  \E k \in Keys :
           /\ queue' \in Seq(Keys) /\ Distinct(queue')
           /\ Elements(queue) = Elements(queue') \cup {k} /\ k \notin Elements(queue')
           /\ inFlight' = inFlight \cup {k} /\ Cardinality(inFlight) < Concurrency
           /\ Running /\ ~tripped /\ queue # <<>>
           /\ UNCHANGED <<phase, dispatched, outcome, pidKnown, paused, pullFinished, breaker,
                          subprocess, channel>>
<1>1. queue \in Seq(Keys) /\ queue # <<>> /\ queue' = Tail(queue) /\ Distinct(queue)
  BY DEF Dispatch, Dispatchable, TypeOK, QueueInv
<1>2. /\ queue' \in Seq(Keys) /\ Distinct(queue') /\ Head(queue) \in Keys
      /\ Elements(queue) = Elements(queue') \cup {Head(queue)}
      /\ Head(queue) \notin Elements(queue')
  BY <1>1, TailElements
<1> QED
  BY <1>2 DEF Dispatch, Dispatchable

\* The variables keep their types, and the loop its bound on tasks.
LEMMA StepTypeOK ==
  ASSUME TypeOK, QueueInv, [Next]_vars
  PROVE  TypeOK'
<1> USE PipelineAssumption DEF TypeOK, Ended, Results
<1>1. CASE Dispatch
  <2>1. PICK k \in Keys :
          /\ queue' \in Seq(Keys) /\ inFlight' = inFlight \cup {k} /\ Cardinality(inFlight) < Concurrency
          /\ UNCHANGED <<phase, dispatched, outcome, pidKnown, paused, pullFinished, breaker,
                         subprocess, channel>>
    BY <1>1, DispatchEffect
  <2>2. Cardinality(inFlight') <= Concurrency
    <3>1. inFlight \in SUBSET Keys
      OBVIOUS
    <3>2. IsFiniteSet(inFlight) /\ Cardinality(inFlight) \in Nat
      BY <3>1, FiniteKeys
    <3>3. Cardinality(inFlight \cup {k}) \in {Cardinality(inFlight), Cardinality(inFlight) + 1}
      BY <3>2, FS_AddElement
    <3> QED
      BY <2>1, <3>2, <3>3
  <2> QED
    BY <2>1, <2>2 DEF breaker, subprocess
<1>2. CASE Return
  <2>1. outcome' \in [Keys -> {"none", "undelivered"} \cup Results]
    BY <1>2 DEF Return
  <2> QED
    BY <1>2, <2>1 DEF Return, breaker, subprocess
<1>3. CASE ReceivePid
  BY <1>3 DEF ReceivePid, breaker, subprocess
<1>4. ASSUME NEW k \in inFlight, NEW result \in Results, Join(k, result)
      PROVE  TypeOK'
  <2>1. inFlight' \subseteq Keys /\ Cardinality(inFlight') <= Cardinality(inFlight)
    BY <1>4, FiniteKeys, FS_Subset DEF Join
  <2>2. Cardinality(inFlight') <= Concurrency
    BY <2>1, FiniteKeys
  <2>3. outcome' \in [Keys -> {"none", "undelivered"} \cup Results]
    BY <1>4 DEF Join
  <2>4. samples' \in 0..SampleSize /\ matches' \in 0..samples' /\ tripped' \in BOOLEAN
    BY <1>4 DEF Join, Samples, Trips
  <2>5. paused' \in BOOLEAN /\ process' \in {"running", "stopped", "exited"}
    BY <1>4 DEF Join, Signalled, PausedAfterMarks, PausedAfterGuard, Trips, Samples
  <2> QED
    BY <1>4, <2>1, <2>2, <2>3, <2>4, <2>5 DEF Join
<1>5. CASE Receive \/ JoinPull
  <2>1. PICK new \in SUBSET Elements(channel) :
          /\ new \subseteq Bulk /\ queue' \in Seq(Keys) /\ dispatched' = dispatched \cup new
          /\ channel' \in Seq(Bulk)
          /\ UNCHANGED <<phase, inFlight, outcome, pidKnown, breaker, subprocess>>
    BY <1>5, ReceiveEffect
  <2>2. paused' \in BOOLEAN /\ pullFinished' \in BOOLEAN
    BY <1>5 DEF Receive, JoinPull
  <2> QED
    BY <2>1, <2>2, FiniteKeys DEF breaker, subprocess
<1>6. ASSUME NEW k \in toCopy, Copies(k) PROVE TypeOK'
  <2>1. k \in Bulk /\ k \in Keys
    BY FiniteKeys
  <2> QED
    BY <1>6, <2>1 DEF Copies, breaker
<1>7. ASSUME NEW k \in toCopy, NEW errored \in BOOLEAN, PassesOver(k, errored)
      PROVE  TypeOK'
  BY <1>7 DEF PassesOver, breaker, subprocess
<1>8. CASE Exits
  BY <1>8 DEF Exits, breaker, subprocess
<1>9. CASE UNCHANGED vars
  BY <1>9 DEF vars, breaker, subprocess
<1>10. CASE JoinPullFails
  BY <1>10, FS_EmptySet DEF JoinPullFails, breaker, subprocess
<1> QED
  BY <1>1, <1>2, <1>3, <1>4, <1>5, <1>6, <1>7, <1>8, <1>9, <1>10
     DEF Next, LoopStep, RcloneStep

\* Nothing is queued or in flight that was, and nothing is lost on the way.
LEMMA StepQueue ==
  ASSUME TypeOK, QueueInv, ArrivalInv, EndInv, [Next]_vars
  PROVE  QueueInv'
<1> USE DEF QueueInv, Running
<1>1. CASE Dispatch
  <2>1. PICK k \in Keys :
          /\ Distinct(queue') /\ Elements(queue) = Elements(queue') \cup {k}
          /\ k \notin Elements(queue') /\ inFlight' = inFlight \cup {k}
          /\ UNCHANGED <<phase, dispatched, outcome>>
    BY <1>1, DispatchEffect
  <2> QED
    BY <2>1
<1>2. CASE Return
  <2>1. UNCHANGED <<queue, inFlight, dispatched>> /\ phase = "running" /\ phase' # "running"
    BY <1>2 DEF Return
  <2>2. \A k \in dispatched : outcome'[k] = outcome[k]
    BY <1>2 DEF Return, TypeOK
  <2> QED
    BY <2>1, <2>2
<1>3. CASE ReceivePid
  BY <1>3 DEF ReceivePid, breaker, subprocess
<1>4. ASSUME NEW k \in inFlight, NEW result \in Results, Join(k, result)
      PROVE  QueueInv'
  <2>1. /\ outcome' = [outcome EXCEPT ![k] = result] /\ inFlight' = inFlight \ {k}
        /\ phase = "running" /\ UNCHANGED <<phase, queue, dispatched>>
    BY <1>4 DEF Join, Selecting
  <2>2. k \in dispatched /\ k \notin Elements(queue) /\ k \in Keys
    BY DEF TypeOK
  <2>3. outcome'[k] = result /\ \A j \in Keys \ {k} : outcome'[j] = outcome[j]
    BY <2>1, <2>2 DEF TypeOK
  <2>4. \A j \in dispatched : IF j \in Elements(queue') \cup inFlight'
                              THEN outcome'[j] = "none" ELSE outcome'[j] \in Results
    BY <2>1, <2>2, <2>3 DEF TypeOK
  <2> QED
    BY <2>1, <2>2, <2>3, <2>4
<1>5. CASE Receive \/ JoinPull
  <2>1. PICK new \in SUBSET Elements(channel) :
          /\ new \cap dispatched = {} /\ new \subseteq Bulk
          /\ Distinct(queue') /\ Elements(queue') = Elements(queue) \cup new
          /\ dispatched' = dispatched \cup new
          /\ UNCHANGED <<phase, inFlight, outcome>>
    BY <1>5, ReceiveEffect
  <2>2. phase = "running"
    BY <1>5 DEF Receive, JoinPull, Selecting
  <2> QED
    BY <2>1, <2>2, FiniteKeys
<1>6. ASSUME NEW k \in toCopy, Copies(k) PROVE QueueInv'
  BY <1>6 DEF Copies, breaker, subprocess
<1>7. ASSUME NEW k \in toCopy, NEW errored \in BOOLEAN, PassesOver(k, errored)
      PROVE  QueueInv'
  BY <1>7 DEF PassesOver, breaker, subprocess
<1>8. CASE Exits
  BY <1>8 DEF Exits, breaker, subprocess
<1>9. CASE UNCHANGED vars
  BY <1>9 DEF vars, breaker, subprocess
<1>10. CASE JoinPullFails
  BY <1>10 DEF JoinPullFails, Selecting, breaker, subprocess
<1> QED
  BY <1>1, <1>2, <1>3, <1>4, <1>5, <1>6, <1>7, <1>8, <1>9, <1>10
     DEF Next, LoopStep, RcloneStep

\* What arrives is named on the channel, and what is named is dispatched.
LEMMA StepArrival ==
  ASSUME TypeOK, PauseInv, QueueInv, ArrivalInv, [Next]_vars
  PROVE  ArrivalInv'
<1> USE DEF ArrivalInv
<1>1. CASE Dispatch
  BY <1>1 DEF Dispatch, breaker, subprocess
<1>2. CASE Return
  BY <1>2 DEF Return, breaker, subprocess
<1>3. CASE ReceivePid
  BY <1>3 DEF ReceivePid, breaker, subprocess
<1>4. ASSUME NEW k \in inFlight, NEW result \in Results, Join(k, result)
      PROVE  ArrivalInv'
  <2>1. UNCHANGED <<dispatched, arrived, channel, pullFinished>> /\ (~tripped' => ~tripped)
    BY <1>4 DEF Join
  <2> QED
    BY <2>1
<1>5. CASE Receive \/ JoinPull
  <2>1. PICK new \in SUBSET Elements(channel) :
          /\ new \cap Unwanted = {} /\ dispatched' = dispatched \cup new
          /\ Elements(channel') \subseteq Elements(channel)
          /\ ~tripped => Elements(channel) \subseteq Unwanted \cup dispatched' \cup Elements(channel')
          /\ UNCHANGED <<breaker, subprocess>>
    BY <1>5, ReceiveEffect
  <2>2. pullFinished' => channel' = <<>>
    BY <1>5 DEF Receive, JoinPull
  <2> QED
    BY <2>1, <2>2 DEF breaker, subprocess
<1>6. ASSUME NEW k \in toCopy, Copies(k) PROVE ArrivalInv'
  <2>1. k \in Bulk /\ channel \in Seq(Bulk) /\ ~pullFinished
    BY <1>6 DEF TypeOK, Copies, PauseInv
  <2>2. Elements(channel') = Elements(channel) \cup {k} /\ arrived' = arrived \cup {k}
    BY <1>6, <2>1, AppendElements DEF Copies
  <2> QED
    BY <1>6, <2>1, <2>2 DEF Copies, breaker
<1>7. ASSUME NEW k \in toCopy, NEW errored \in BOOLEAN, PassesOver(k, errored)
      PROVE  ArrivalInv'
  BY <1>7 DEF PassesOver, breaker, subprocess
<1>8. CASE Exits
  BY <1>8 DEF Exits, breaker, subprocess
<1>9. CASE UNCHANGED vars
  BY <1>9 DEF vars, breaker, subprocess
<1>10. CASE JoinPullFails
  BY <1>10 DEF JoinPullFails, breaker, subprocess
<1> QED
  BY <1>1, <1>2, <1>3, <1>4, <1>5, <1>6, <1>7, <1>8, <1>9, <1>10
     DEF Next, LoopStep, RcloneStep

\* The loop ends with nothing to do, and says of the rest that it never came.
LEMMA StepEnd ==
  ASSUME TypeOK, PauseInv, QueueInv, EndInv, [Next]_vars
  PROVE  EndInv'
<1> USE DEF EndInv, Ended
<1>1. CASE Dispatch
  BY <1>1 DEF Dispatch, Running, Selecting, breaker, subprocess
<1>2. CASE Return
  <2>1. /\ UNCHANGED <<queue, inFlight, dispatched, pullFinished, tripped>>
        /\ pullFinished /\ inFlight = {}
    BY <1>2 DEF Return, Drained, breaker
  <2>2. phase' = "reported" =>
          /\ ~tripped /\ queue = <<>>
          /\ outcome' = [k \in Keys |-> IF k \in ToPull \ dispatched THEN "undelivered" ELSE outcome[k]]
    BY <1>2 DEF Return, Drained
  <2>3. \A k \in Keys \ dispatched : outcome[k] = "none"
    BY <1>2 DEF Return, QueueInv
  <2> QED
    BY <2>1, <2>2, <2>3
<1>3. CASE ReceivePid
  BY <1>3 DEF ReceivePid, Running, Selecting, breaker, subprocess
<1>4. ASSUME NEW k \in inFlight, NEW result \in Results, Join(k, result)
      PROVE  EndInv'
  BY <1>4 DEF Join, Running, Selecting, breaker, subprocess
<1>5. CASE Receive \/ JoinPull
  BY <1>5 DEF Receive, JoinPull, Selecting, Running
<1>6. ASSUME NEW k \in toCopy, Copies(k) PROVE EndInv'
  BY <1>6 DEF Copies, Running, Selecting, breaker, subprocess
<1>7. ASSUME NEW k \in toCopy, NEW errored \in BOOLEAN, PassesOver(k, errored)
      PROVE  EndInv'
  BY <1>7 DEF PassesOver, Running, Selecting, breaker, subprocess
<1>8. CASE Exits
  BY <1>8 DEF Exits, Running, Selecting, breaker, subprocess
<1>9. CASE UNCHANGED vars
  BY <1>9 DEF vars, Running, Selecting, breaker, subprocess
<1>10. CASE JoinPullFails
  BY <1>10 DEF JoinPullFails, breaker, subprocess
<1> QED
  BY <1>1, <1>2, <1>3, <1>4, <1>5, <1>6, <1>7, <1>8, <1>9, <1>10
     DEF Next, LoopStep, RcloneStep

\* The scan and the slots name different keys, each once, and all of them arrived.
LEMMA InitLoop == Init => LoopInv
<1> SUFFICES ASSUME Init PROVE LoopInv
  OBVIOUS
<1>1. PICK landed \in SUBSET Variants :
        /\ \E scan \in Orders(Scanned \ Unwanted), slots \in Orders(landed \ Scanned) :
             queue = scan \o slots
        /\ arrived = Scanned \cup landed
  BY DEF Init
<1>2. PICK scan \in Orders(Scanned \ Unwanted), slots \in Orders(landed \ Scanned) :
        queue = scan \o slots
  BY <1>1
<1>3. /\ scan \in Seq(Keys) /\ Distinct(scan) /\ Elements(scan) = Scanned \ Unwanted
      /\ slots \in Seq(Keys) /\ Distinct(slots) /\ Elements(slots) = landed \ Scanned
  <2>1. IsFiniteSet(Scanned \ Unwanted) /\ IsFiniteSet(landed \ Scanned)
    BY FiniteKeys
  <2>2. scan \in Seq(Scanned \ Unwanted) /\ slots \in Seq(landed \ Scanned)
    BY <2>1, OrderElements
  <2>3. Scanned \ Unwanted \subseteq Keys /\ landed \ Scanned \subseteq Keys
    BY FiniteKeys DEF Keys
  <2> QED
    BY <2>1, <2>2, <2>3, OrderElements
<1>4. /\ queue \in Seq(Keys) /\ Distinct(queue)
      /\ Elements(queue) = (Scanned \ Unwanted) \cup (landed \ Scanned)
  BY <1>2, <1>3, ConcatElements
<1>5. dispatched = Elements(queue) /\ dispatched \subseteq Keys
  BY <1>1, <1>4, FiniteKeys DEF Init, Keys
<1>6. TypeOK
  <2>1. Cardinality(inFlight) <= Concurrency /\ channel \in Seq(Bulk)
    BY PipelineAssumption, FS_EmptySet DEF Init
  <2>2. samples \in 0..SampleSize /\ matches \in 0..samples
    BY PipelineAssumption DEF Init
  <2>3. arrived \subseteq Keys
    BY <1>1, FiniteKeys DEF Keys
  <2> QED
    BY <1>4, <1>5, <2>1, <2>2, <2>3 DEF Init, TypeOK
<1>7. QueueInv
  BY <1>4, <1>5 DEF Init, QueueInv
<1>8. ArrivalInv
  BY <1>1, <1>4, <1>5, FiniteKeys DEF Init, ArrivalInv, Elements
<1>9. EndInv
  BY DEF Init, EndInv, Ended
<1> QED
  BY <1>6, <1>7, <1>8, <1>9, InitInv DEF LoopInv

\* The invariant of the loop.
LEMMA LoopInvariance == Spec => []LoopInv
<1>1. LoopInv /\ [Next]_vars => LoopInv'
  BY StepInv, StepTypeOK, StepQueue, StepArrival, StepEnd DEF LoopInv, IInv
<1> QED
  BY <1>1, InitLoop, PTL DEF Spec

\* The variables keep their types; no more than --concurrency tasks run, whatever the
\* rate at which files arrive.
THEOREM TypeCorrect == Spec => []TypeOK
<1>1. LoopInv => TypeOK
  BY DEF LoopInv
<1> QED
  BY <1>1, LoopInvariance, PTL

\* No file is queued twice, run twice, or run again after its result, although the scan,
\* the slots and the live tail may each name it.
THEOREM EachFileOnce == Spec => []NoFileTwice
<1>1. LoopInv => NoFileTwice
  BY DEF LoopInv, QueueInv, NoFileTwice, Distinct
<1> QED
  BY <1>1, LoopInvariance, PTL

\* A run that reports names as undelivered exactly the wanted keys that never arrived,
\* and has a result of every other.
THEOREM ReportsAreComplete == Spec => []ReportIsComplete
<1>1. LoopInv => ReportIsComplete
  <2> SUFFICES ASSUME LoopInv, phase = "reported"
               PROVE  /\ \A k \in ToPull : outcome[k] # "none"
                      /\ \A k \in Keys \ Unwanted : outcome[k] = "undelivered" <=> k \notin arrived
                      /\ \A k \in Unwanted \cap Keys : outcome[k] = "none"
    BY DEF ReportIsComplete
  <2>1. /\ pullFinished /\ inFlight = {} /\ ~tripped /\ queue = <<>> /\ channel = <<>>
        /\ \A k \in Keys \ dispatched : outcome[k] = IF k \in ToPull THEN "undelivered" ELSE "none"
    BY DEF LoopInv, EndInv, Ended, ArrivalInv
  <2>2. Elements(<<>>) = {}
    BY DEF Elements
  <2>3. dispatched = arrived \ Unwanted
    BY <2>1, <2>2 DEF LoopInv, ArrivalInv
  <2>4. \A k \in dispatched : outcome[k] \in Results
    BY <2>1, <2>2 DEF LoopInv, QueueInv
  <2>5. ToPull \subseteq Keys /\ Keys \ (Unwanted \cup ToPull) \subseteq Scanned
    BY DEF ToPull, Keys
  <2>6. Scanned \subseteq arrived
    BY DEF LoopInv, ArrivalInv
  <2> QED
    BY <2>1, <2>3, <2>4, <2>5, <2>6 DEF Results, ToPull
<1> QED
  BY <1>1, LoopInvariance, PTL

\* However a run returns, its tasks have been joined and its rclone has exited.
THEOREM NothingLeft == Spec => []NothingLeftBehind
<1>1. LoopInv => NothingLeftBehind
  BY DEF LoopInv, IInv, PauseInv, EndInv, NothingLeftBehind
<1> QED
  BY <1>1, LoopInvariance, PTL
=============================================================================
