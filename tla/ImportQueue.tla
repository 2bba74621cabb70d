----------------------------- MODULE ImportQueue -----------------------------
(***************************************************************************)
(* The work queue of email import (commands/job/email_import/worker.rs):    *)
(* run_email_import_job builds one queue of batches across every identity,  *)
(* and each run_worker pops from it, keeps one IMAP connection for as long   *)
(* as consecutive batches belong to one identity, and requeues or drops a    *)
(* batch that fails.  A failure that says the server is overloaded is waited *)
(* out in the IMAP RecoveryGate, here OutageGate, its specification.         *)
(* Of a fetched batch's messages, which are delivered side by side, the last  *)
(* to end stands for all: its worker waits for it and for nothing else.       *)
(***************************************************************************)
EXTENDS Naturals, FiniteSets, Sequences, Functions

CONSTANTS Workers,     \* the tasks run_email_import_job spawns
          IdentityCount,
          Work,        \* for each identity, its batches in order
          Cap,         \* for each identity, the connections it allows
          ConnectTries, \* CONNECT_RETRIES, the first try included
          Retries,     \* BATCH_RETRIES
          PushPermits, \* --push-concurrency, shared by every worker
          GateRounds,  \* IMAP_RECOVERY_ROUNDS
          NoIdentity, NoItem

Identities == 1..IdentityCount      \* in the order of the contexts
BatchesOf(i) == {Work[i][n] : n \in DOMAIN Work[i]}
Batches == UNION {BatchesOf(i) : i \in Identities}
IdentityOf(b) == CHOOSE i \in Identities : b \in BatchesOf(i)

ASSUME QueueAssumption ==
  /\ IsFiniteSet(Workers)
  /\ IdentityCount \in Nat
  /\ \A i \in Identities : Work[i] \in Seq(BatchesOf(i))
  /\ \A i \in Identities : IsInjective(Work[i])
  /\ \A i, j \in Identities : i # j => BatchesOf(i) \cap BatchesOf(j) = {}
  /\ Cap \in [Identities -> Nat \ {0}]
  /\ ConnectTries \in Nat \ {0}
  /\ Retries \in Nat
  /\ PushPermits \in Nat \ {0}
  /\ GateRounds \in Nat
  /\ NoIdentity \notin Identities
  /\ NoItem \notin [batch : Batches, attempts : 0..Retries]

VARIABLES
  queue,      \* the shared queue of items
  free,       \* for each identity, free permits of its semaphore
  \* The workers.
  pc,         \* where each worker is
  item,       \* the item a worker has popped
  permit,     \* the identity whose permit a worker holds
  tries,      \* failed tries of the connect under way
  fate,       \* for each batch, how it ended
  \* The IMAP gate.
  inside, paid, latched,
  \* History, read by no action.
  failures    \* for each batch, its failed attempts

imapGate == <<inside, paid, latched>>
vars == <<queue, free, pc, item, permit, tries, fate, imapGate, failures>>

Gate == INSTANCE OutageGate WITH Callers <- Workers, Budget <- GateRounds

Items == [batch : Batches, attempts : 0..Retries]

-----------------------------------------------------------------------------

\* "idle" is the top of the loop; "leaving" logs out of another identity;
\* "pausing" sleeps between two tries to connect; "fetching" has a session on
\* the identity of its item; then the messages are pushed.
Places == {"idle", "leaving", "acquiring", "connecting", "pausing", "fetching",
           "awaitingPush", "pushing", "pushGated", "gated", "backingOff", "done"}

\* Who holds a permit of the push semaphore.
Pushers == {w \in Workers : pc[w] \in {"pushing", "pushGated"}}

\* Round robin: the first batch of every identity, then every second one, ...
Turn(b) == CHOOSE n \in DOMAIN Work[IdentityOf(b)] : Work[IdentityOf(b)][n] = b

Before(b, c) ==
  \/ Turn(b) < Turn(c)
  \/ Turn(b) = Turn(c) /\ IdentityOf(b) < IdentityOf(c)

Interleaved ==
  {q \in [1..Cardinality(Batches) -> [batch : Batches, attempts : {Retries}]] :
     /\ \A m, n \in DOMAIN q : m < n => Before(q[m].batch, q[n].batch)
     /\ \A b \in Batches : \E n \in DOMAIN q : q[n].batch = b}

Init ==
  /\ queue \in Interleaved
  /\ free = Cap
  /\ pc = [w \in Workers |-> "idle"]
  /\ item = [w \in Workers |-> NoItem]
  /\ permit = [w \in Workers |-> NoIdentity]
  /\ tries = [w \in Workers |-> 0]
  /\ fate = [b \in Batches |-> "pending"]
  /\ Gate!Init
  /\ failures = [b \in Batches |-> 0]

At(w, place) == pc[w] = place
Goto(w, place) == pc' = [pc EXCEPT ![w] = place]
Wanted(w) == IdentityOf(item[w].batch)

\* The connection is dropped, and its permit with it.
Disconnect(w) ==
  /\ permit' = [permit EXCEPT ![w] = NoIdentity]
  /\ free' = [i \in Identities |-> IF permit[w] = i THEN free[i] + 1 ELSE free[i]]

-----------------------------------------------------------------------------
(* The top of the loop. *)

\* Mistake: the head is read under one lock and removed under another.
PopPeeks(w) ==
  /\ At(w, "idle")
  /\ queue # <<>>
  /\ item' = [item EXCEPT ![w] = Head(queue)]
  /\ Goto(w, IF permit[w] = NoIdentity THEN "acquiring"
             ELSE IF permit[w] = IdentityOf(Head(queue).batch) THEN "fetching"
             ELSE "leaving")
  /\ UNCHANGED <<queue, free, permit, tries, fate, imapGate, failures>>

\* An open connection is kept only for the identity of the popped batch.
Pop(w) ==
  /\ At(w, "idle")
  /\ queue # <<>>
  /\ item' = [item EXCEPT ![w] = Head(queue)]
  /\ queue' = Tail(queue)
  /\ Goto(w, IF permit[w] = NoIdentity THEN "acquiring"
             ELSE IF permit[w] = IdentityOf(Head(queue).batch) THEN "fetching"
             ELSE "leaving")
  /\ UNCHANGED <<free, permit, tries, fate, imapGate, failures>>

\* An empty queue ends the worker, although others may still requeue.
Quit(w) ==
  /\ At(w, "idle")
  /\ queue = <<>>
  /\ Disconnect(w)
  /\ Goto(w, "done")
  /\ UNCHANGED <<queue, item, tries, fate, imapGate, failures>>

\* Mistake: the old connection's permit is forgotten, not returned.
LogOutLeaks(w) ==
  /\ At(w, "leaving")
  /\ permit' = [permit EXCEPT ![w] = NoIdentity]
  /\ Goto(w, "acquiring")
  /\ UNCHANGED <<queue, free, item, tries, fate, imapGate, failures>>

LogOut(w) ==
  /\ At(w, "leaving")
  /\ Disconnect(w)
  /\ Goto(w, "acquiring")
  /\ UNCHANGED <<queue, item, tries, fate, imapGate, failures>>

\* Mistake: the permit is bound to _ and dropped at once.
AcquireUncounted(w) ==
  /\ At(w, "acquiring")
  /\ free[Wanted(w)] > 0
  /\ permit' = [permit EXCEPT ![w] = Wanted(w)]
  /\ Goto(w, "connecting")
  /\ UNCHANGED <<queue, free, item, tries, fate, imapGate, failures>>

Acquire(w) ==
  /\ At(w, "acquiring")
  /\ free[Wanted(w)] > 0
  /\ free' = [free EXCEPT ![Wanted(w)] = @ - 1]
  /\ permit' = [permit EXCEPT ![w] = Wanted(w)]
  /\ Goto(w, "connecting")
  /\ UNCHANGED <<queue, item, tries, fate, imapGate, failures>>

\* connect_with_retry sleeps before every try but the first, permit in hand.
TryFails(w) ==
  /\ At(w, "connecting")
  /\ tries[w] + 1 < ConnectTries
  /\ tries' = [tries EXCEPT ![w] = @ + 1]
  /\ Goto(w, "pausing")
  /\ UNCHANGED <<queue, free, item, permit, fate, imapGate, failures>>

TryAgain(w) ==
  /\ At(w, "pausing")
  /\ Goto(w, "connecting")
  /\ UNCHANGED <<queue, free, item, permit, tries, fate, imapGate, failures>>

Connected(w) ==
  /\ At(w, "connecting")
  /\ tries' = [tries EXCEPT ![w] = 0]
  /\ Goto(w, "fetching")
  /\ UNCHANGED <<queue, free, item, permit, fate, imapGate, failures>>

-----------------------------------------------------------------------------
(* The batch is fetched and its messages are pushed.  Nothing can send it back *)
(* to the queue now: a message that fails is counted, and the batch goes on.   *)

\* EXAMINE, the rate window and the fetch have been done.
Fetched(w) ==
  /\ At(w, "fetching")
  /\ Goto(w, "awaitingPush")
  /\ UNCHANGED <<queue, free, item, permit, tries, fate, imapGate, failures>>

TakePushPermit(w) ==
  /\ At(w, "awaitingPush")
  /\ Cardinality(Pushers) < PushPermits
  /\ Goto(w, "pushing")
  /\ UNCHANGED <<queue, free, item, permit, tries, fate, imapGate, failures>>

\* The destination cannot be reached: push_with_gate, session and both permits
\* in hand.
PushIsRefused(w) ==
  /\ At(w, "pushing")
  /\ Goto(w, "pushGated")
  /\ UNCHANGED <<queue, free, item, permit, tries, fate, imapGate, failures>>

PushGateSaysRetry(w) ==
  /\ At(w, "pushGated")
  /\ Goto(w, "pushing")
  /\ UNCHANGED <<queue, free, item, permit, tries, fate, imapGate, failures>>

\* The message is delivered or has failed, at the latest on GiveUp.
Delivered(w) ==
  /\ pc[w] \in {"pushing", "pushGated"}
  /\ fate' = [fate EXCEPT ![item[w].batch] = "processed"]
  /\ item' = [item EXCEPT ![w] = NoItem]
  /\ Goto(w, "idle")
  /\ UNCHANGED <<queue, free, permit, tries, imapGate, failures>>

-----------------------------------------------------------------------------
(* A batch fails. *)

\* Connecting fails for the last time, or EXAMINE or the fetch does.
Failing(w) ==
  \/ At(w, "connecting") /\ tries[w] + 1 = ConnectTries
  \/ At(w, "fetching")

\* Mistake: a failed batch leaves its connection open.
FailConnected(w) ==
  /\ Failing(w)
  /\ UNCHANGED <<permit, free>>
  /\ tries' = [tries EXCEPT ![w] = 0]
  /\ failures' = [failures EXCEPT ![item[w].batch] = @ + 1]

\* The connection is given up before anything is waited for.
Fail(w) ==
  /\ Failing(w)
  /\ Disconnect(w)
  /\ tries' = [tries EXCEPT ![w] = 0]
  /\ failures' = [failures EXCEPT ![item[w].batch] = @ + 1]

Drop(w) ==
  /\ fate' = [fate EXCEPT ![item[w].batch] = "dropped"]
  /\ item' = [item EXCEPT ![w] = NoItem]
  /\ Goto(w, "idle")

\* Mistake: the attempts left are not looked at.
BackOffAlways(w) == Goto(w, "backingOff") /\ UNCHANGED <<item, fate>>

\* requeue_or_none: out of attempts the batch is dropped, otherwise the worker
\* sleeps before it gives the batch back.
DropOrBackOff(w) ==
  \/ item[w].attempts = 0 /\ Drop(w)
  \/ item[w].attempts > 0 /\ Goto(w, "backingOff") /\ UNCHANGED <<item, fate>>

FailsOtherwise(w) ==
  /\ Fail(w)
  /\ DropOrBackOff(w)
  /\ UNCHANGED <<queue, imapGate>>

FailsOverloaded(w) ==
  /\ Fail(w)
  /\ Gate!Enter(w)
  /\ Goto(w, "gated")
  /\ UNCHANGED <<queue, item, fate>>

\* Mistake: the two answers of the gate mixed up.
GateSaysRetryDrops(w) ==
  /\ At(w, "gated")
  /\ Gate!Retry(w)
  /\ Drop(w)
  /\ UNCHANGED <<queue, free, permit, tries, failures>>

GateSaysRetry(w) ==
  /\ At(w, "gated")
  /\ Gate!Retry(w)
  /\ DropOrBackOff(w)
  /\ UNCHANGED <<queue, free, permit, tries, failures>>

GateSaysGiveUp(w) ==
  /\ At(w, "gated")
  /\ Gate!GiveUp(w)
  /\ Drop(w)
  /\ UNCHANGED <<queue, free, permit, tries, failures>>

\* The sleep, which is the same for every requeue of a batch, is over.
Requeue(w) ==
  /\ At(w, "backingOff")
  /\ queue' = Append(queue, [item[w] EXCEPT !.attempts = @ - 1])
  /\ item' = [item EXCEPT ![w] = NoItem]
  /\ Goto(w, "idle")
  /\ UNCHANGED <<free, permit, tries, fate, imapGate, failures>>

\* The gate's own steps, taken by whichever worker inside it is the prober.
GateStep ==
  /\ Gate!Pay \/ Gate!Latch
  /\ UNCHANGED <<queue, free, pc, item, permit, tries, fate, failures>>

-----------------------------------------------------------------------------

WorkerStep(w) ==
  \/ Pop(w)
  \/ Quit(w)
  \/ LogOut(w)
  \/ Acquire(w)
  \/ TryFails(w)
  \/ TryAgain(w)
  \/ Connected(w)
  \/ Fetched(w)
  \/ TakePushPermit(w)
  \/ PushIsRefused(w)
  \/ PushGateSaysRetry(w)
  \/ Delivered(w)
  \/ FailsOtherwise(w)
  \/ FailsOverloaded(w)
  \/ GateSaysRetry(w)
  \/ GateSaysGiveUp(w)
  \/ Requeue(w)

Next == (\E w \in Workers : WorkerStep(w)) \/ GateStep

Spec == Init /\ [][Next]_vars

\* Every worker is a task the runtime keeps polling.  The rest is assumed of
\* what it waits for: that EXAMINE and the fetch end, where the code bounds only
\* the connect with a timeout; that the IMAP gate answers, which it does unless
\* the caller is stranded on it (RecoveryGate, RunEndsUnlessStranded); and that
\* a message's refusals run out, as the push gate's rounds do with the same
\* exception.
FairSpec ==
  /\ Spec
  /\ \A w \in Workers : WF_vars(WorkerStep(w)) /\ WF_vars(Delivered(w))

-----------------------------------------------------------------------------
(* Properties. *)

\* The variables keep their ranges: in particular an item's attempts never run
\* below zero, where a u8 would wrap.
TypeOK ==
  /\ queue \in Seq(Items)
  /\ free \in [Identities -> Nat]
  /\ pc \in [Workers -> Places]
  /\ item \in [Workers -> Items \cup {NoItem}]
  /\ permit \in [Workers -> Identities \cup {NoIdentity}]
  /\ tries \in [Workers -> 0..(ConnectTries - 1)]
  /\ fate \in [Batches -> {"pending", "processed", "dropped"}]
  /\ inside \subseteq Workers /\ paid \in Nat /\ latched \in BOOLEAN
  /\ failures \in [Batches -> Nat]

Queued(b) == {n \in DOMAIN queue : queue[n].batch = b}
InHand(b) == {w \in Workers : item[w] # NoItem /\ item[w].batch = b}

\* No batch is lost and none is worked on twice: a pending batch is in exactly
\* one place, the queue or one worker's hands, and a settled one in none.
EachBatchInOnePlace ==
  \A b \in Batches :
    Cardinality(Queued(b)) + Cardinality(InHand(b)) = IF fate[b] = "pending" THEN 1 ELSE 0

\* An identity's server never sees more connections than it allows.
ConnectionsWithinCap ==
  \A i \in Identities : Cardinality({w \in Workers : permit[w] = i}) <= Cap[i]

\* Where a worker waits with nothing in hand, and where it has a permit.
EmptyHanded == {"acquiring", "gated", "backingOff", "done"}
Connecting == {"connecting", "pausing", "fetching", "awaitingPush", "pushing", "pushGated"}

\* The waits have an order: an identity's permit is waited for empty-handed, so
\* are the IMAP gate and the pause before a requeue; a worker that connects,
\* pauses between tries, fetches, or waits for the push semaphore or the push
\* gate does hold a permit, of its batch's identity.  So whoever waits for a
\* permit waits for the server, the destination or a timer, and never for a
\* worker that is itself waiting for a permit or for the server's recovery.
WaitsInOrder ==
  \A w \in Workers :
    /\ pc[w] \in EmptyHanded => permit[w] = NoIdentity
    /\ pc[w] \in Connecting => permit[w] = Wanted(w)

\* A batch is dropped for one of two reasons: it has had all its attempts, or
\* the gate has latched.  No batch is ever tried more often than that.
DroppedOnlyAtTheLimit ==
  \A b \in Batches :
    /\ failures[b] <= Retries + 1
    /\ fate[b] = "dropped" => failures[b] = Retries + 1 \/ latched

\* Every run ends with every batch settled: the worker that empties the queue
\* may quit while others still hold batches they are about to requeue.
RunEnds == <>[](/\ \A w \in Workers : pc[w] = "done"
                /\ \A b \in Batches : fate[b] # "pending")
=============================================================================
