-------------------------- MODULE ImportQueueProofs --------------------------
(***************************************************************************)
(* Proofs about ImportQueue for any number of workers, identities, batches  *)
(* and attempts.  The inductive invariant says where a batch can be, which   *)
(* places go with an item and without a permit, and how the failures of a    *)
(* batch add up with the attempts it has left.                               *)
(***************************************************************************)
EXTENDS ImportQueue, FiniteSetTheorems, SequenceTheorems, TLAPS

HasItem(w) == item[w] # NoItem

\* A worker has an item except at the top of its loop and at its end.
HandInv == \A w \in Workers : HasItem(w) <=> pc[w] \notin {"idle", "done"}

\* A batch is queued at most once, is in at most one hand, and not in both.
QueuedOnce == \A m, n \in DOMAIN queue : queue[m].batch = queue[n].batch => m = n

HeldOnce ==
  \A v, w \in Workers :
    HasItem(v) /\ HasItem(w) /\ item[v].batch = item[w].batch => v = w

NotInBoth ==
  \A w \in Workers, n \in DOMAIN queue : HasItem(w) => item[w].batch # queue[n].batch

IsQueued(b) == \E n \in DOMAIN queue : queue[n].batch = b
IsHeld(b) == \E w \in Workers : HasItem(w) /\ item[w].batch = b

\* The batches in the queue and in the workers' hands are the pending ones.
PlacedInv == \A b \in Batches : fate[b] = "pending" <=> IsQueued(b) \/ IsHeld(b)

LocationInv == HandInv /\ QueuedOnce /\ HeldOnce /\ NotInBoth /\ PlacedInv

\* The failed attempts of a batch and those it has left add up.
Failed == {"gated", "backingOff"}

AttemptInv ==
  /\ \A n \in DOMAIN queue : failures[queue[n].batch] + queue[n].attempts = Retries
  /\ \A w \in Workers : HasItem(w) =>
       failures[item[w].batch] + item[w].attempts
         = IF pc[w] \in Failed THEN Retries + 1 ELSE Retries
  /\ \A w \in Workers : pc[w] = "backingOff" => item[w].attempts > 0

\* The permits of an identity's semaphore, free and held.
HoldersOf(i) == {w \in Workers : permit[w] = i}

PermitInv == \A i \in Identities : free[i] + Cardinality(HoldersOf(i)) = Cap[i]

IInv ==
  /\ TypeOK
  /\ LocationInv
  /\ AttemptInv
  /\ PermitInv
  /\ WaitsInOrder
  /\ DroppedOnlyAtTheLimit

-----------------------------------------------------------------------------
(* Identities and permits. *)

\* The identity of a batch is one of the identities.
LEMMA IdentityOfBatch == \A b \in Batches : IdentityOf(b) \in Identities
BY DEF Batches, IdentityOf

\* The holders of an identity's permits are finitely many.
LEMMA HoldersFinite ==
  ASSUME NEW i
  PROVE  IsFiniteSet(HoldersOf(i)) /\ Cardinality(HoldersOf(i)) \in Nat
<1>1. HoldersOf(i) \in SUBSET Workers
  BY DEF HoldersOf
<1>2. IsFiniteSet(HoldersOf(i))
  BY <1>1, QueueAssumption, FS_Subset
<1> QED
  BY <1>2, FS_CardinalityType

\* Dropping a connection gives back the permit it held, if any, and no other.
LEMMA PermitReturned ==
  ASSUME TypeOK, PermitInv, NEW w \in Workers, Disconnect(w)
  PROVE  /\ free' \in [Identities -> Nat]
         /\ permit' \in [Workers -> Identities \cup {NoIdentity}]
         /\ permit'[w] = NoIdentity
         /\ \A v \in Workers : v # w => permit'[v] = permit[v]
         /\ PermitInv'
<1>1. /\ permit' = [permit EXCEPT ![w] = NoIdentity]
      /\ free' = [i \in Identities |-> IF permit[w] = i THEN free[i] + 1 ELSE free[i]]
      /\ free \in [Identities -> Nat]
      /\ permit \in [Workers -> Identities \cup {NoIdentity}]
  BY DEF Disconnect, TypeOK
<1>2. ASSUME NEW i \in Identities
      PROVE  free'[i] + Cardinality(HoldersOf(i)') = Cap[i]
  <2>1. free[i] + Cardinality(HoldersOf(i)) = Cap[i]
    BY DEF PermitInv
  <2>2. CASE permit[w] = i
    <3>1. w \in HoldersOf(i) /\ HoldersOf(i)' = HoldersOf(i) \ {w}
      BY <1>1, <2>2, QueueAssumption DEF HoldersOf
    <3>2. Cardinality(HoldersOf(i)') = Cardinality(HoldersOf(i)) - 1
      BY <3>1, HoldersFinite, FS_RemoveElement
    <3>3. Cardinality(HoldersOf(i)) \in Nat /\ free[i] \in Nat /\ free'[i] = free[i] + 1
      BY <1>1, <2>2, HoldersFinite
    <3> QED
      BY <2>1, <3>2, <3>3
  <2>3. CASE permit[w] # i
    <3>1. HoldersOf(i)' = HoldersOf(i)
      BY <1>1, <2>3, QueueAssumption DEF HoldersOf
    <3> QED
      BY <1>1, <2>1, <2>3, <3>1
  <2> QED
    BY <2>2, <2>3
<1>3. PermitInv'
  BY <1>2 DEF PermitInv
<1> QED
  BY <1>1, <1>3

\* Acquiring takes one permit of the wanted identity.
LEMMA PermitTaken ==
  ASSUME TypeOK, PermitInv, NEW w \in Workers, NEW i \in Identities,
         permit[w] = NoIdentity, free[i] > 0,
         free' = [free EXCEPT ![i] = @ - 1],
         permit' = [permit EXCEPT ![w] = i]
  PROVE  /\ free' \in [Identities -> Nat]
         /\ permit' \in [Workers -> Identities \cup {NoIdentity}]
         /\ PermitInv'
<1>1. /\ free \in [Identities -> Nat]
      /\ permit \in [Workers -> Identities \cup {NoIdentity}]
  BY DEF TypeOK
<1>2. ASSUME NEW j \in Identities
      PROVE  free'[j] + Cardinality(HoldersOf(j)') = Cap[j]
  <2>1. free[j] + Cardinality(HoldersOf(j)) = Cap[j]
    BY DEF PermitInv
  <2>2. CASE i = j
    <3>1. w \notin HoldersOf(j) /\ HoldersOf(j)' = HoldersOf(j) \cup {w}
      BY <1>1, <2>2, QueueAssumption DEF HoldersOf
    <3>2. Cardinality(HoldersOf(j)') = Cardinality(HoldersOf(j)) + 1
      BY <3>1, HoldersFinite, FS_AddElement
    <3>3. Cardinality(HoldersOf(j)) \in Nat /\ free[j] \in Nat /\ free'[j] = free[j] - 1
      BY <1>1, <2>2, HoldersFinite
    <3> QED
      BY <2>1, <3>2, <3>3
  <2>3. CASE i # j
    <3>1. HoldersOf(j)' = HoldersOf(j)
      BY <1>1, <2>3, QueueAssumption DEF HoldersOf
    <3> QED
      BY <1>1, <2>1, <2>3, <3>1
  <2> QED
    BY <2>2, <2>3
<1>3. PermitInv'
  BY <1>2 DEF PermitInv
<1>4. free' \in [Identities -> Nat]
  BY <1>1
<1> QED
  BY <1>1, <1>3, <1>4

\* A step that leaves the permits alone leaves their balance alone.
LEMMA PermitKept ==
  ASSUME PermitInv, UNCHANGED <<free, permit>>
  PROVE  PermitInv'
BY DEF PermitInv, HoldersOf

-----------------------------------------------------------------------------
(* The queue. *)

\* Popping moves every other item one place forward.
LEMMA QueuePopped ==
  ASSUME TypeOK, queue # <<>>, queue' = Tail(queue)
  PROVE  /\ Head(queue) \in Items
         /\ 1 \in DOMAIN queue /\ Head(queue) = queue[1]
         /\ queue' \in Seq(Items)
         /\ \A n \in DOMAIN queue' : n + 1 \in DOMAIN queue /\ queue'[n] = queue[n + 1] /\ n + 1 # 1
         /\ \A n \in DOMAIN queue' : n \in Nat
         /\ \A n \in DOMAIN queue : n # 1 => n - 1 \in DOMAIN queue' /\ queue'[n - 1] = queue[n]
<1>1. queue \in Seq(Items)
  BY DEF TypeOK
<1>2. /\ Head(queue) \in Items /\ Tail(queue) \in Seq(Items)
      /\ Len(Tail(queue)) = Len(queue) - 1
      /\ \A i \in 1..Len(Tail(queue)) : Tail(queue)[i] = queue[i + 1]
  BY <1>1, HeadTailProperties
<1>3. /\ Len(queue) \in Nat \ {0} /\ DOMAIN queue = 1..Len(queue)
      /\ DOMAIN queue' = 1..Len(queue')
  BY <1>1, <1>2, LenProperties, EmptySeq
<1> QED
  BY <1>1, <1>2, <1>3

\* Requeueing puts the item behind all others.
LEMMA QueueAppended ==
  ASSUME TypeOK, NEW x \in Items, queue' = Append(queue, x)
  PROVE  /\ queue' \in Seq(Items)
         /\ Len(queue) + 1 \notin DOMAIN queue
         /\ DOMAIN queue' = DOMAIN queue \cup {Len(queue) + 1}
         /\ queue'[Len(queue) + 1] = x
         /\ \A n \in DOMAIN queue : queue'[n] = queue[n]
<1>1. queue \in Seq(Items)
  BY DEF TypeOK
<1>2. Len(queue) \in Nat /\ DOMAIN queue = 1..Len(queue)
  BY <1>1, LenProperties
<1> QED
  BY <1>1, <1>2

-----------------------------------------------------------------------------
(* The invariant holds initially and is preserved by every step. *)

\* The initial queue holds every batch once, with all its attempts.
LEMMA InitInv == Init => IInv
<1> SUFFICES ASSUME Init PROVE IInv
  OBVIOUS
<1> USE QueueAssumption
<1>1. PICK q \in Interleaved : queue = q
  BY DEF Init
<1>2. /\ q \in [1..Cardinality(Batches) -> [batch : Batches, attempts : {Retries}]]
      /\ \A m, n \in DOMAIN q : m < n => Before(q[m].batch, q[n].batch)
      /\ \A b \in Batches : \E n \in DOMAIN q : q[n].batch = b
  BY DEF Interleaved
<1>3. Cardinality(Batches) \in Nat
  <2>1. ASSUME NEW i \in Identities PROVE IsFiniteSet(BatchesOf(i))
    <3>1. Work[i] \in Seq(BatchesOf(i))
      OBVIOUS
    <3>2. Len(Work[i]) \in Nat /\ DOMAIN Work[i] = 1..Len(Work[i])
      BY <3>1, LenProperties
    <3>3. IsFiniteSet(1..Len(Work[i]))
      <4>1. 1 \in Int /\ Len(Work[i]) \in Int
        BY <3>2
      <4> QED
        BY <4>1, FS_Interval, Zenon
    <3> DEFINE f == [n \in 1..Len(Work[i]) |-> Work[i][n]]
    <3>4. f \in Surjection(1..Len(Work[i]), BatchesOf(i))
      BY <3>2 DEF BatchesOf, Surjection
    <3> QED
      BY <3>3, <3>4, FS_Surjection
  <2>2. IsFiniteSet(Identities)
    BY FS_Interval DEF Identities
  <2>3. IsFiniteSet({BatchesOf(i) : i \in Identities})
    <3> DEFINE f == [i \in Identities |-> BatchesOf(i)]
    <3>1. f \in Surjection(Identities, {BatchesOf(i) : i \in Identities})
      BY DEF Surjection
    <3> QED
      BY <2>2, <3>1, FS_Surjection
  <2>4. IsFiniteSet(Batches)
    BY <2>1, <2>3, FS_UNION DEF Batches
  <2> QED
    BY <2>4, FS_CardinalityType
<1>4. /\ q \in Seq(Items) /\ DOMAIN q = 1..Cardinality(Batches)
      /\ \A n \in DOMAIN q : q[n] \in Items /\ q[n].attempts = Retries
  <2>1. \A n \in 1..Cardinality(Batches) : q[n] \in Items /\ q[n].attempts = Retries
    BY <1>2 DEF Items
  <2> QED
    BY <1>2, <1>3, <2>1
<1>5. QueuedOnce
  <2> SUFFICES ASSUME NEW m \in DOMAIN q, NEW n \in DOMAIN q, m < n
               PROVE  q[m].batch # q[n].batch
    BY <1>1, <1>3, <1>4 DEF QueuedOnce
  <2>1. Before(q[m].batch, q[n].batch)
    BY <1>2
  <2>2. ~Before(q[m].batch, q[m].batch)
    <3>1. q[m].batch \in Batches
      BY <1>4 DEF Items
    <3>2. PICK i \in Identities : i = IdentityOf(q[m].batch) /\ q[m].batch \in BatchesOf(i)
      BY <3>1 DEF IdentityOf, Batches
    <3>3. Turn(q[m].batch) \in Nat
      <4>1. Work[i] \in Seq(BatchesOf(i))
        OBVIOUS
      <4>2. \E k \in DOMAIN Work[i] : Work[i][k] = q[m].batch
        BY <3>2 DEF BatchesOf
      <4>3. DOMAIN Work[i] \subseteq Nat
        BY <4>1, LenProperties
      <4> QED
        BY <3>2, <4>2, <4>3 DEF Turn
    <3> QED
      BY <3>2, <3>3 DEF Before, Identities
  <2> QED
    BY <2>1, <2>2
<1>6. HandInv /\ HeldOnce /\ NotInBoth
  BY DEF Init, HandInv, HeldOnce, NotInBoth, HasItem
<1>7. PlacedInv
  BY <1>1, <1>2 DEF Init, PlacedInv, IsQueued
<1>8. AttemptInv
  <2>1. \A n \in DOMAIN queue : failures[queue[n].batch] = 0 /\ queue[n].attempts = Retries
    BY <1>1, <1>4 DEF Init, Items
  <2> QED
    BY <2>1 DEF Init, AttemptInv, HasItem
<1>9. PermitInv
  <2> SUFFICES ASSUME NEW i \in Identities PROVE free[i] + Cardinality(HoldersOf(i)) = Cap[i]
    BY DEF PermitInv
  <2>1. HoldersOf(i) = {}
    BY DEF Init, HoldersOf
  <2> QED
    BY <2>1, FS_EmptySet DEF Init
<1>10. TypeOK
  <2>1. tries \in [Workers -> 0..(ConnectTries - 1)]
    BY DEF Init
  <2> QED
    BY <1>1, <1>4, <2>1 DEF Init, TypeOK, Gate!Init, Places
<1>11. WaitsInOrder /\ DroppedOnlyAtTheLimit
  BY DEF Init, WaitsInOrder, EmptyHanded, Connecting, DroppedOnlyAtTheLimit
<1> QED
  BY <1>5, <1>6, <1>7, <1>8, <1>9, <1>10, <1>11 DEF IInv, LocationInv

\* A step that touches neither queue, items, fates nor failures keeps every
\* batch where it is, provided the worker that moves keeps its item.
LEMMA BatchesKept ==
  ASSUME IInv, UNCHANGED <<queue, item, fate, failures>>,
         NEW w \in Workers, NEW place \in Places, Goto(w, place),
         pc[w] \in {"idle", "done"} <=> place \in {"idle", "done"},
         pc[w] \in Failed <=> place \in Failed,
         place = "backingOff" => item[w].attempts > 0,
         latched => latched'
  PROVE  LocationInv' /\ AttemptInv' /\ DroppedOnlyAtTheLimit'
<1>1. pc \in [Workers -> Places]
  BY DEF IInv, TypeOK
<1>2. LocationInv'
  BY <1>1 DEF IInv, LocationInv, HandInv, HasItem, QueuedOnce, HeldOnce, NotInBoth,
     PlacedInv, IsQueued, IsHeld, Goto
<1>3. AttemptInv'
  BY <1>1 DEF IInv, AttemptInv, HasItem, Goto
<1>4. DroppedOnlyAtTheLimit'
  BY DEF IInv, DroppedOnlyAtTheLimit
<1> QED
  BY <1>2, <1>3, <1>4

\* Popping moves one batch from the queue to the worker's hands.
LEMMA PopInv ==
  ASSUME IInv, NEW w \in Workers, Pop(w)
  PROVE  IInv'
<1> USE QueueAssumption DEF IInv
<1>1. /\ pc[w] = "idle" /\ queue # <<>>
      /\ item' = [item EXCEPT ![w] = Head(queue)]
      /\ queue' = Tail(queue)
      /\ UNCHANGED <<free, permit, tries, fate, inside, paid, latched, failures>>
  BY DEF Pop, At, imapGate
<1>2. /\ Head(queue) \in Items
      /\ 1 \in DOMAIN queue /\ Head(queue) = queue[1]
      /\ queue' \in Seq(Items)
      /\ \A n \in DOMAIN queue' : n + 1 \in DOMAIN queue /\ queue'[n] = queue[n + 1] /\ n + 1 # 1
      /\ \A n \in DOMAIN queue' : n \in Nat
      /\ \A n \in DOMAIN queue : n # 1 => n - 1 \in DOMAIN queue' /\ queue'[n - 1] = queue[n]
  BY <1>1, QueuePopped
<1>3. PICK place \in {"acquiring", "fetching", "leaving"} :
        /\ Goto(w, place)
        /\ place = "acquiring" => permit[w] = NoIdentity
        /\ place = "fetching" => permit[w] = IdentityOf(Head(queue).batch)
  BY DEF Pop
<1>4. /\ item \in [Workers -> Items \cup {NoItem}] /\ pc \in [Workers -> Places]
      /\ NoItem \notin Items
  BY DEF TypeOK, Items
<1>5. /\ item'[w] = Head(queue) /\ item'[w] # NoItem /\ item[w] = NoItem
      /\ \A v \in Workers : v # w => item'[v] = item[v]
      /\ pc'[w] = place /\ \A v \in Workers : v # w => pc'[v] = pc[v]
  BY <1>1, <1>2, <1>3, <1>4 DEF LocationInv, HandInv, HasItem, Goto
<1>6. TypeOK'
  BY <1>1, <1>2, <1>3, <1>4 DEF TypeOK, Goto, Places
<1>7. HandInv'
  BY <1>3, <1>5 DEF LocationInv, HandInv, HasItem
<1>8. QueuedOnce'
  <2> SUFFICES ASSUME NEW m \in DOMAIN queue', NEW n \in DOMAIN queue',
                      queue'[m].batch = queue'[n].batch
               PROVE  m = n
    BY DEF QueuedOnce
  <2>1. m + 1 = n + 1
    BY <1>2 DEF LocationInv, QueuedOnce
  <2> QED
    BY <1>2, <2>1
<1>9. HeldOnce'
  BY <1>2, <1>5 DEF LocationInv, HeldOnce, NotInBoth, HasItem
<1>10. NotInBoth'
  <2> SUFFICES ASSUME NEW v \in Workers, NEW n \in DOMAIN queue', item'[v] # NoItem
               PROVE  item'[v].batch # queue'[n].batch
    BY DEF NotInBoth, HasItem
  <2>1. n + 1 \in DOMAIN queue /\ queue'[n] = queue[n + 1] /\ n + 1 # 1
    BY <1>2
  <2>2. CASE v = w
    BY <1>2, <1>5, <2>1, <2>2 DEF LocationInv, QueuedOnce
  <2>3. CASE v # w
    BY <1>5, <2>1, <2>3 DEF LocationInv, NotInBoth, HasItem
  <2> QED
    BY <2>2, <2>3
<1>11. PlacedInv'
  <2> SUFFICES ASSUME NEW b \in Batches
               PROVE  IsQueued(b)' \/ IsHeld(b)' <=> IsQueued(b) \/ IsHeld(b)
    BY <1>1 DEF LocationInv, PlacedInv
  <2>1. IsQueued(b)' => IsQueued(b)
    BY <1>2 DEF IsQueued
  <2>2. IsHeld(b)' => IsQueued(b) \/ IsHeld(b)
    BY <1>2, <1>5 DEF IsQueued, IsHeld, HasItem
  <2>3. IsQueued(b) => IsQueued(b)' \/ IsHeld(b)'
    <3> SUFFICES ASSUME NEW n \in DOMAIN queue, queue[n].batch = b
                 PROVE  IsQueued(b)' \/ IsHeld(b)'
      BY DEF IsQueued
    <3>1. CASE n = 1
      BY <1>2, <1>5, <3>1 DEF IsHeld, HasItem
    <3>2. CASE n # 1
      BY <1>2, <3>2 DEF IsQueued
    <3> QED
      BY <3>1, <3>2
  <2>4. IsHeld(b) => IsHeld(b)'
    BY <1>5 DEF IsHeld, HasItem
  <2> QED
    BY <2>1, <2>2, <2>3, <2>4
<1>12. AttemptInv'
  <2>1. \A n \in DOMAIN queue' : failures'[queue'[n].batch] + queue'[n].attempts = Retries
    BY <1>1, <1>2 DEF AttemptInv
  <2>2. \A v \in Workers : item'[v] # NoItem =>
          failures'[item'[v].batch] + item'[v].attempts
            = IF pc'[v] \in Failed THEN Retries + 1 ELSE Retries
    BY <1>1, <1>2, <1>3, <1>5 DEF AttemptInv, HasItem, Failed
  <2>3. \A v \in Workers : pc'[v] = "backingOff" => item'[v].attempts > 0
    BY <1>3, <1>5 DEF AttemptInv
  <2> QED
    BY <2>1, <2>2, <2>3 DEF AttemptInv, HasItem
<1>13. PermitInv'
  BY <1>1, PermitKept
<1>14. WaitsInOrder' /\ DroppedOnlyAtTheLimit'
  BY <1>1, <1>3, <1>5 DEF WaitsInOrder, EmptyHanded, Connecting, Wanted, DroppedOnlyAtTheLimit
<1> QED
  BY <1>6, <1>7, <1>8, <1>9, <1>10, <1>11, <1>12, <1>13, <1>14 DEF LocationInv

\* What a worker holds: an item whose batch is nowhere else.
LEMMA HeldBatch ==
  ASSUME IInv, NEW w \in Workers, pc[w] \notin {"idle", "done"}
  PROVE  /\ item[w] \in Items /\ item[w] # NoItem
         /\ item[w].batch \in Batches /\ item[w].attempts \in 0..Retries
         /\ \A n \in DOMAIN queue : queue[n] \in Items /\ queue[n].batch # item[w].batch
         /\ \A v \in Workers : v # w /\ item[v] # NoItem =>
              item[v] \in Items /\ item[v].batch # item[w].batch
         /\ failures[item[w].batch] \in Nat
         /\ failures[item[w].batch] + item[w].attempts
              = IF pc[w] \in Failed THEN Retries + 1 ELSE Retries
<1>1. item[w] # NoItem
  BY DEF IInv, LocationInv, HandInv, HasItem
<1>2. item \in [Workers -> Items \cup {NoItem}] /\ queue \in Seq(Items) /\ failures \in [Batches -> Nat]
  BY DEF IInv, TypeOK
<1>3. item[w] \in Items
  BY <1>1, <1>2
<1>4. item[w].batch \in Batches /\ item[w].attempts \in 0..Retries
  BY <1>3 DEF Items
<1>5. \A n \in DOMAIN queue : queue[n] \in Items
  BY <1>2, LenProperties, ElementOfSeq
<1>6. /\ \A n \in DOMAIN queue : queue[n].batch # item[w].batch
      /\ \A v \in Workers : v # w /\ item[v] # NoItem => item[v].batch # item[w].batch
  BY <1>1 DEF IInv, LocationInv, NotInBoth, HeldOnce, HasItem
<1>7. failures[item[w].batch] + item[w].attempts
        = IF pc[w] \in Failed THEN Retries + 1 ELSE Retries
  BY <1>1 DEF IInv, AttemptInv, HasItem
<1> QED
  BY <1>1, <1>2, <1>3, <1>4, <1>5, <1>6, <1>7

\* A batch that settles leaves its worker's hands and is nowhere any more.
LEMMA BatchSettled ==
  ASSUME IInv, NEW w \in Workers, pc[w] \notin {"idle", "done"},
         NEW result \in {"processed", "dropped"},
         queue' = queue,
         fate' = [fate EXCEPT ![item[w].batch] = result],
         item' = [item EXCEPT ![w] = NoItem],
         Goto(w, "idle"),
         failures' \in [Batches -> Nat],
         \A b \in Batches : b # item[w].batch => failures'[b] = failures[b],
         failures'[item[w].batch] <= Retries + 1,
         result = "dropped" => failures'[item[w].batch] = Retries + 1 \/ latched',
         latched => latched'
  PROVE  /\ LocationInv' /\ AttemptInv' /\ DroppedOnlyAtTheLimit'
         /\ pc' \in [Workers -> Places] /\ item' \in [Workers -> Items \cup {NoItem}]
         /\ fate' \in [Batches -> {"pending", "processed", "dropped"}]
<1>1. /\ item[w] \in Items /\ item[w] # NoItem
      /\ item[w].batch \in Batches
      /\ \A n \in DOMAIN queue : queue[n] \in Items /\ queue[n].batch # item[w].batch
      /\ \A v \in Workers : v # w /\ item[v] # NoItem =>
           item[v] \in Items /\ item[v].batch # item[w].batch
  BY HeldBatch
<1>2. /\ item \in [Workers -> Items \cup {NoItem}] /\ pc \in [Workers -> Places]
      /\ fate \in [Batches -> {"pending", "processed", "dropped"}]
  BY DEF IInv, TypeOK
<1>3. /\ pc' \in [Workers -> Places] /\ item' \in [Workers -> Items \cup {NoItem}]
      /\ fate' \in [Batches -> {"pending", "processed", "dropped"}]
      /\ pc'[w] = "idle" /\ \A v \in Workers : v # w => pc'[v] = pc[v]
      /\ item'[w] = NoItem /\ \A v \in Workers : v # w => item'[v] = item[v]
      /\ fate'[item[w].batch] = result
      /\ \A b \in Batches : b # item[w].batch => fate'[b] = fate[b]
  BY <1>1, <1>2 DEF Goto, Places
<1>4. HandInv' /\ HeldOnce' /\ NotInBoth' /\ QueuedOnce'
  BY <1>3 DEF IInv, LocationInv, HandInv, HeldOnce, NotInBoth, QueuedOnce, HasItem
<1>5. PlacedInv'
  <2> SUFFICES ASSUME NEW b \in Batches
               PROVE  fate'[b] = "pending" <=> IsQueued(b)' \/ IsHeld(b)'
    BY DEF PlacedInv
  <2>1. CASE b = item[w].batch
    <3>1. ~IsQueued(b)'
      BY <1>1, <2>1 DEF IsQueued
    <3>2. ~IsHeld(b)'
      BY <1>1, <1>3, <2>1 DEF IsHeld, HasItem
    <3> QED
      BY <1>3, <2>1, <3>1, <3>2
  <2>2. CASE b # item[w].batch
    <3>1. IsHeld(b)' <=> IsHeld(b)
      BY <1>3, <2>2 DEF IsHeld, HasItem
    <3>2. IsQueued(b)' <=> IsQueued(b)
      BY DEF IsQueued
    <3> QED
      BY <1>3, <2>2, <3>1, <3>2 DEF IInv, LocationInv, PlacedInv
  <2> QED
    BY <2>1, <2>2
<1>6. AttemptInv'
  <2>1. \A n \in DOMAIN queue : queue[n].batch \in Batches /\ queue[n].batch # item[w].batch
    BY <1>1 DEF Items
  <2>2. \A v \in Workers : v # w /\ item[v] # NoItem =>
          item[v].batch \in Batches /\ item[v].batch # item[w].batch
    BY <1>1 DEF Items
  <2> QED
    BY <1>3, <2>1, <2>2 DEF IInv, AttemptInv, HasItem
<1>7. DroppedOnlyAtTheLimit'
  BY <1>1, <1>3 DEF IInv, DroppedOnlyAtTheLimit
<1> QED
  BY <1>3, <1>4, <1>5, <1>6, <1>7 DEF LocationInv

\* A batch whose attempt failed stays in its worker's hands, to be waited for.
LEMMA BatchWaits ==
  ASSUME IInv, NEW w \in Workers, pc[w] \notin {"idle", "done"},
         NEW place \in Failed,
         UNCHANGED <<queue, fate, item>>,
         Goto(w, place),
         failures' \in [Batches -> Nat],
         \A b \in Batches : b # item[w].batch => failures'[b] = failures[b],
         failures'[item[w].batch] + item[w].attempts = Retries + 1,
         place = "backingOff" => item[w].attempts > 0,
         latched => latched'
  PROVE  /\ LocationInv' /\ AttemptInv' /\ DroppedOnlyAtTheLimit'
         /\ pc' \in [Workers -> Places]
<1> USE QueueAssumption
<1>1. /\ item[w].batch \in Batches /\ item[w].attempts \in 0..Retries /\ item[w] # NoItem
      /\ \A n \in DOMAIN queue : queue[n] \in Items /\ queue[n].batch # item[w].batch
      /\ \A v \in Workers : v # w /\ item[v] # NoItem =>
           item[v] \in Items /\ item[v].batch # item[w].batch
  BY HeldBatch
<1>2. /\ pc' \in [Workers -> Places]
      /\ pc'[w] = place /\ \A v \in Workers : v # w => pc'[v] = pc[v]
  BY DEF IInv, TypeOK, Goto, Failed, Places
<1>3. LocationInv'
  <2>1. HandInv'
    BY <1>1, <1>2 DEF IInv, LocationInv, HandInv, HasItem, Failed
  <2>2. QueuedOnce' /\ HeldOnce' /\ NotInBoth'
    BY DEF IInv, LocationInv, QueuedOnce, HeldOnce, NotInBoth, HasItem
  <2>3. PlacedInv'
    BY DEF IInv, LocationInv, PlacedInv, IsQueued, IsHeld, HasItem
  <2> QED
    BY <2>1, <2>2, <2>3 DEF LocationInv
<1>4. AttemptInv'
  <2>1. \A n \in DOMAIN queue : queue[n].batch \in Batches /\ queue[n].batch # item[w].batch
    BY <1>1 DEF Items
  <2>2. \A v \in Workers : v # w /\ item[v] # NoItem =>
          item[v].batch \in Batches /\ item[v].batch # item[w].batch
    BY <1>1 DEF Items
  <2> QED
    BY <1>2, <2>1, <2>2 DEF IInv, AttemptInv, HasItem
<1>5. DroppedOnlyAtTheLimit'
  <2>1. fate[item[w].batch] = "pending"
    BY <1>1 DEF IInv, LocationInv, PlacedInv, IsHeld, HasItem
  <2>2. failures'[item[w].batch] <= Retries + 1
    BY <1>1
  <2> QED
    BY <2>1, <2>2 DEF IInv, DroppedOnlyAtTheLimit
<1> QED
  BY <1>2, <1>3, <1>4, <1>5

\* After its sleep a batch goes back to the queue with one attempt fewer.
LEMMA RequeueInv ==
  ASSUME IInv, NEW w \in Workers, Requeue(w)
  PROVE  IInv'
<1> USE QueueAssumption
<1> DEFINE x == [item[w] EXCEPT !.attempts = @ - 1]
           last == Len(queue) + 1
<1>1. /\ pc[w] = "backingOff"
      /\ queue' = Append(queue, x)
      /\ item' = [item EXCEPT ![w] = NoItem]
      /\ Goto(w, "idle")
      /\ UNCHANGED <<free, permit, tries, fate, inside, paid, latched, failures>>
  BY DEF Requeue, At, imapGate
<1>2. /\ item[w] \in Items /\ item[w] # NoItem
      /\ item[w].batch \in Batches /\ item[w].attempts \in 0..Retries
      /\ \A n \in DOMAIN queue : queue[n] \in Items /\ queue[n].batch # item[w].batch
      /\ \A v \in Workers : v # w /\ item[v] # NoItem =>
           item[v] \in Items /\ item[v].batch # item[w].batch
      /\ failures[item[w].batch] \in Nat
      /\ failures[item[w].batch] + item[w].attempts = Retries + 1
  BY <1>1, HeldBatch DEF Failed
<1>3. item[w].attempts > 0
  BY <1>1 DEF IInv, AttemptInv
<1>4. x \in Items /\ x.batch = item[w].batch /\ x.attempts = item[w].attempts - 1
  BY <1>2, <1>3 DEF Items
<1>5. TypeOK
  BY DEF IInv
<1>6. /\ queue' \in Seq(Items)
      /\ last \notin DOMAIN queue
      /\ DOMAIN queue' = DOMAIN queue \cup {last}
      /\ queue'[last] = x
      /\ \A n \in DOMAIN queue : queue'[n] = queue[n]
  <2> HIDE DEF x
  <2> QED
    BY <1>1, <1>4, <1>5, QueueAppended
<1> HIDE DEF x, last
<1>7. /\ item \in [Workers -> Items \cup {NoItem}] /\ pc \in [Workers -> Places]
  BY <1>5 DEF TypeOK
<1>8. /\ pc'[w] = "idle" /\ \A v \in Workers : v # w => pc'[v] = pc[v]
      /\ item'[w] = NoItem /\ \A v \in Workers : v # w => item'[v] = item[v]
  BY <1>1, <1>7 DEF Goto
<1>9. TypeOK'
  <2>1. pc' \in [Workers -> Places] /\ item' \in [Workers -> Items \cup {NoItem}]
    BY <1>1, <1>7 DEF Goto, Places
  <2> QED
    BY <1>1, <1>5, <1>6, <2>1 DEF TypeOK
<1>10. HandInv' /\ HeldOnce'
  BY <1>8 DEF IInv, LocationInv, HandInv, HeldOnce, HasItem
<1>11. QueuedOnce'
  BY <1>2, <1>4, <1>6 DEF IInv, LocationInv, QueuedOnce
<1>12. NotInBoth'
  BY <1>2, <1>4, <1>6, <1>8 DEF IInv, LocationInv, NotInBoth, HasItem
<1>13. PlacedInv'
  <2> SUFFICES ASSUME NEW b \in Batches
               PROVE  IsQueued(b)' \/ IsHeld(b)' <=> IsQueued(b) \/ IsHeld(b)
    BY <1>1 DEF IInv, LocationInv, PlacedInv
  <2>1. IsQueued(b)' <=> IsQueued(b) \/ b = item[w].batch
    BY <1>4, <1>6 DEF IsQueued
  <2>2. IsHeld(b)' \/ b = item[w].batch <=> IsHeld(b)
    BY <1>2, <1>8 DEF IsHeld, HasItem
  <2> QED
    BY <2>1, <2>2
<1>14. AttemptInv'
  <2>1. \A n \in DOMAIN queue' : failures'[queue'[n].batch] + queue'[n].attempts = Retries
    <3> SUFFICES ASSUME NEW n \in DOMAIN queue'
                 PROVE  failures[queue'[n].batch] + queue'[n].attempts = Retries
      BY <1>1
    <3>1. CASE n = last
      <4>1. queue'[n].batch = item[w].batch /\ queue'[n].attempts = item[w].attempts - 1
        BY <1>4, <1>6, <3>1
      <4>2. /\ failures[item[w].batch] \in Nat /\ item[w].attempts \in Nat /\ Retries \in Nat
            /\ failures[item[w].batch] + item[w].attempts = Retries + 1
        BY <1>2
      <4> QED
        BY <4>1, <4>2
    <3>2. CASE n # last
      BY <1>6, <3>2 DEF IInv, AttemptInv
    <3> QED
      BY <3>1, <3>2
  <2>2. \A v \in Workers : item'[v] # NoItem =>
          failures'[item'[v].batch] + item'[v].attempts
            = IF pc'[v] \in Failed THEN Retries + 1 ELSE Retries
    BY <1>1, <1>8 DEF IInv, AttemptInv, HasItem
  <2>3. \A v \in Workers : pc'[v] = "backingOff" => item'[v].attempts > 0
    BY <1>8 DEF IInv, AttemptInv
  <2> QED
    BY <2>1, <2>2, <2>3 DEF AttemptInv, HasItem
<1>15. PermitInv'
  BY <1>1, PermitKept DEF IInv
<1>16. WaitsInOrder' /\ DroppedOnlyAtTheLimit'
  BY <1>1, <1>8 DEF IInv, WaitsInOrder, EmptyHanded, Connecting, Wanted, DroppedOnlyAtTheLimit
<1> QED
  BY <1>9, <1>10, <1>11, <1>12, <1>13, <1>14, <1>15, <1>16 DEF IInv, LocationInv

\* No step un-latches the gate, whose own variables keep their ranges.
LEMMA GateKept ==
  ASSUME TypeOK,
         \/ UNCHANGED imapGate
         \/ \E w \in Workers : Gate!Enter(w) \/ Gate!Retry(w) \/ Gate!GiveUp(w)
         \/ Gate!Pay
         \/ Gate!Latch
  PROVE  /\ inside' \subseteq Workers /\ paid' \in Nat /\ latched' \in BOOLEAN
         /\ latched => latched'
<1>1. CASE UNCHANGED imapGate
  BY <1>1 DEF TypeOK, imapGate
<1>2. ASSUME NEW w \in Workers, Gate!Enter(w) \/ Gate!Leave(w)
      PROVE  inside' \subseteq Workers /\ paid' = paid /\ latched' = latched
  BY <1>2 DEF TypeOK, Gate!Enter, Gate!Leave
<1>3. CASE Gate!Pay
  BY <1>3 DEF TypeOK, Gate!Pay
<1>4. CASE Gate!Latch
  BY <1>4 DEF TypeOK, Gate!Latch
<1> QED
  BY <1>1, <1>2, <1>3, <1>4 DEF TypeOK, Gate!Retry, Gate!GiveUp

\* A connect that is over, whichever way, leaves no failed tries behind.
LEMMA TriesReset ==
  ASSUME IInv, NEW w \in Workers, tries' = [tries EXCEPT ![w] = 0]
  PROVE  tries' \in [Workers -> 0..(ConnectTries - 1)]
<1>1. 0 \in 0..(ConnectTries - 1)
  BY QueueAssumption
<1> QED
  BY <1>1 DEF IInv, TypeOK

\* A failed attempt gives the connection back and costs one attempt.
LEMMA FailedAttempt ==
  ASSUME IInv, NEW w \in Workers, Fail(w)
  PROVE  /\ pc[w] \notin {"idle", "done"}
         /\ failures' \in [Batches -> Nat]
         /\ \A b \in Batches : b # item[w].batch => failures'[b] = failures[b]
         /\ failures'[item[w].batch] + item[w].attempts = Retries + 1
         /\ item[w].attempts \in Nat
         /\ free' \in [Identities -> Nat]
         /\ permit' \in [Workers -> Identities \cup {NoIdentity}]
         /\ permit'[w] = NoIdentity
         /\ \A v \in Workers : v # w => permit'[v] = permit[v]
         /\ PermitInv'
         /\ tries' \in [Workers -> 0..(ConnectTries - 1)]
<1> USE QueueAssumption
<1>1. pc[w] \in {"connecting", "fetching"} /\ Disconnect(w)
  BY DEF Fail, Failing, At
<1>2. /\ item[w].batch \in Batches /\ item[w].attempts \in 0..Retries
      /\ failures[item[w].batch] \in Nat
      /\ failures[item[w].batch] + item[w].attempts = Retries
  BY <1>1, HeldBatch DEF Failed
<1>3. /\ failures \in [Batches -> Nat]
      /\ failures' = [failures EXCEPT ![item[w].batch] = @ + 1]
  BY DEF IInv, TypeOK, Fail
<1>4. /\ failures' \in [Batches -> Nat]
      /\ \A b \in Batches : b # item[w].batch => failures'[b] = failures[b]
      /\ failures'[item[w].batch] = failures[item[w].batch] + 1
  BY <1>2, <1>3
<1>5. /\ free' \in [Identities -> Nat]
      /\ permit' \in [Workers -> Identities \cup {NoIdentity}]
      /\ permit'[w] = NoIdentity
      /\ \A v \in Workers : v # w => permit'[v] = permit[v]
      /\ PermitInv'
  BY <1>1, PermitReturned DEF IInv
<1>6. Retries \in Nat /\ item[w].attempts \in Nat
  BY <1>2
<1> HIDE QueueAssumption
<1>7. failures'[item[w].batch] + item[w].attempts = Retries + 1
  <2>1. PICK f \in Nat : f = failures[item[w].batch]
    BY <1>2
  <2>2. PICK a \in Nat : a = item[w].attempts
    BY <1>6
  <2>3. f + a = Retries
    BY <1>2, <2>1, <2>2
  <2>4. failures'[item[w].batch] = f + 1
    BY <1>4, <2>1
  <2>5. (f + 1) + a = Retries + 1
    BY <1>6, <2>3
  <2> QED
    BY <2>2, <2>4, <2>5
<1>8. tries' \in [Workers -> 0..(ConnectTries - 1)]
  BY TriesReset DEF Fail
<1> QED
  BY <1>1, <1>4, <1>5, <1>6, <1>7, <1>8

\* The worker either drops its batch, out of attempts, or waits with it.
LEMMA DroppedOrBacksOff ==
  ASSUME IInv, NEW w \in Workers, pc[w] \notin {"idle", "done"},
         DropOrBackOff(w), queue' = queue,
         failures' \in [Batches -> Nat],
         \A b \in Batches : b # item[w].batch => failures'[b] = failures[b],
         failures'[item[w].batch] + item[w].attempts = Retries + 1,
         latched => latched'
  PROVE  /\ LocationInv' /\ AttemptInv' /\ DroppedOnlyAtTheLimit'
         /\ pc' \in [Workers -> Places] /\ item' \in [Workers -> Items \cup {NoItem}]
         /\ fate' \in [Batches -> {"pending", "processed", "dropped"}]
         /\ pc'[w] \in {"idle", "backingOff"} /\ \A v \in Workers : v # w => pc'[v] = pc[v]
<1>1. /\ item \in [Workers -> Items \cup {NoItem}] /\ pc \in [Workers -> Places]
      /\ fate \in [Batches -> {"pending", "processed", "dropped"}]
  BY DEF IInv, TypeOK
<1>2. item[w].batch \in Batches /\ Retries \in Nat
  BY HeldBatch, QueueAssumption
<1>3. CASE item[w].attempts = 0 /\ Drop(w)
  <2>1. /\ fate' = [fate EXCEPT ![item[w].batch] = "dropped"]
        /\ item' = [item EXCEPT ![w] = NoItem]
        /\ Goto(w, "idle")
    BY <1>3 DEF Drop
  <2>2. failures'[item[w].batch] = Retries + 1 /\ failures'[item[w].batch] <= Retries + 1
    BY <1>2, <1>3
  <2>3. /\ LocationInv' /\ AttemptInv' /\ DroppedOnlyAtTheLimit'
        /\ pc' \in [Workers -> Places] /\ item' \in [Workers -> Items \cup {NoItem}]
        /\ fate' \in [Batches -> {"pending", "processed", "dropped"}]
    BY <1>2, <2>1, <2>2, BatchSettled
  <2> QED
    BY <1>1, <2>1, <2>3 DEF Goto
<1>4. CASE item[w].attempts > 0 /\ Goto(w, "backingOff") /\ UNCHANGED <<item, fate>>
  <2>1. /\ LocationInv' /\ AttemptInv' /\ DroppedOnlyAtTheLimit'
        /\ pc' \in [Workers -> Places]
    BY <1>4, BatchWaits DEF Failed
  <2> QED
    BY <1>1, <1>4, <2>1 DEF Goto
<1> QED
  BY <1>3, <1>4 DEF DropOrBackOff

\* The steps that only move a worker along its loop: the permits that change
\* are its own.
LEMMA ConnectionInv ==
  ASSUME IInv, NEW w \in Workers,
         Quit(w) \/ LogOut(w) \/ Acquire(w)
  PROVE  IInv'
<1> USE QueueAssumption
<1>1. PICK place \in Places :
        /\ Goto(w, place)
        /\ UNCHANGED <<queue, item, tries, fate, inside, paid, latched, failures>>
        /\ pc[w] \in {"idle", "done"} <=> place \in {"idle", "done"}
        /\ pc[w] \notin Failed /\ place \notin Failed
        /\ \/ place \in {"acquiring", "done"} /\ Disconnect(w)
           \/ place = "connecting" /\ permit' = [permit EXCEPT ![w] = Wanted(w)]
  BY DEF Quit, LogOut, Acquire, At, Places, Failed, imapGate
<1>2. LocationInv' /\ AttemptInv' /\ DroppedOnlyAtTheLimit'
  BY <1>1, BatchesKept DEF Failed
<1>3. /\ PermitInv'
      /\ free' \in [Identities -> Nat]
      /\ permit' \in [Workers -> Identities \cup {NoIdentity}]
      /\ \A v \in Workers : v # w => permit'[v] = permit[v]
      /\ place \in {"acquiring", "done"} => permit'[w] = NoIdentity
      /\ place = "connecting" => permit'[w] = Wanted(w)
  <2>1. CASE Disconnect(w) /\ ~Acquire(w)
    <3>1. place \in {"acquiring", "done"}
      BY <1>1, <2>1 DEF Quit, LogOut, Goto, IInv, TypeOK
    <3> QED
      BY <2>1, <3>1, PermitReturned DEF IInv
  <2>2. CASE Acquire(w)
    <3>1. /\ pc[w] = "acquiring" /\ free[Wanted(w)] > 0
          /\ free' = [free EXCEPT ![Wanted(w)] = @ - 1]
          /\ permit' = [permit EXCEPT ![w] = Wanted(w)]
          /\ Goto(w, "connecting")
      BY <2>2 DEF Acquire, At
    <3>2. Wanted(w) \in Identities
      BY <3>1, HeldBatch, IdentityOfBatch DEF Wanted
    <3>3. permit[w] = NoIdentity
      BY <3>1 DEF IInv, WaitsInOrder, EmptyHanded
    <3>4. /\ free' \in [Identities -> Nat]
          /\ permit' \in [Workers -> Identities \cup {NoIdentity}]
          /\ PermitInv'
      BY <3>1, <3>2, <3>3, PermitTaken DEF IInv
    <3>5. permit \in [Workers -> Identities \cup {NoIdentity}] /\ pc \in [Workers -> Places]
      BY DEF IInv, TypeOK
    <3>6. place = "connecting"
      BY <1>1, <3>1, <3>5 DEF Goto
    <3> QED
      BY <3>1, <3>4, <3>5, <3>6
  <2> QED
    BY <2>1, <2>2 DEF Quit, LogOut
<1>4. /\ pc \in [Workers -> Places]
      /\ pc'[w] = place /\ \A v \in Workers : v # w => pc'[v] = pc[v]
      /\ pc' \in [Workers -> Places]
  BY <1>1 DEF IInv, TypeOK, Goto
<1>5. TypeOK'
  BY <1>1, <1>3, <1>4 DEF IInv, TypeOK
<1>6. WaitsInOrder'
  BY <1>1, <1>3, <1>4 DEF IInv, WaitsInOrder, EmptyHanded, Connecting, Wanted
<1> QED
  BY <1>2, <1>3, <1>5, <1>6 DEF IInv

\* The steps a worker takes on its own connection: it keeps its permit.
LEMMA ConnectedInv ==
  ASSUME IInv, NEW w \in Workers,
         \/ TryFails(w) \/ TryAgain(w) \/ Connected(w) \/ Fetched(w)
         \/ TakePushPermit(w) \/ PushIsRefused(w) \/ PushGateSaysRetry(w)
  PROVE  IInv'
<1>1. PICK place \in Connecting :
        /\ Goto(w, place)
        /\ pc[w] \in Connecting
        /\ UNCHANGED <<queue, free, item, permit, fate, inside, paid, latched, failures>>
  BY DEF TryFails, TryAgain, Connected, Fetched, TakePushPermit, PushIsRefused,
     PushGateSaysRetry, At, Connecting, imapGate
<1>2. place \in Places
  BY <1>1 DEF Connecting, Places
<1>3. LocationInv' /\ AttemptInv' /\ DroppedOnlyAtTheLimit'
  BY <1>1, <1>2, BatchesKept DEF Connecting, Failed
<1>4. tries' \in [Workers -> 0..(ConnectTries - 1)]
  <2>1. CASE TryFails(w)
    <3>1. tries[w] + 1 < ConnectTries /\ tries' = [tries EXCEPT ![w] = @ + 1]
      BY <2>1 DEF TryFails
    <3>2. tries \in [Workers -> 0..(ConnectTries - 1)]
      BY DEF IInv, TypeOK
    <3>3. tries[w] \in Nat /\ ConnectTries \in Nat
      BY <3>2, QueueAssumption
    <3>4. tries[w] + 1 \in 0..(ConnectTries - 1)
      BY <3>1, <3>3
    <3> QED
      BY <3>1, <3>2, <3>4
  <2>2. CASE Connected(w)
    BY <2>2, TriesReset DEF Connected
  <2>3. CASE UNCHANGED tries
    BY <2>3 DEF IInv, TypeOK
  <2> QED
    BY <2>1, <2>2, <2>3
       DEF TryAgain, Fetched, TakePushPermit, PushIsRefused, PushGateSaysRetry
<1>5. /\ pc' \in [Workers -> Places] /\ pc'[w] = place
      /\ \A v \in Workers : v # w => pc'[v] = pc[v]
  BY <1>1, <1>2 DEF IInv, TypeOK, Goto
<1>6. TypeOK'
  BY <1>1, <1>4, <1>5 DEF IInv, TypeOK
<1>7. PermitInv'
  BY <1>1, PermitKept DEF IInv
<1>8. WaitsInOrder'
  BY <1>1, <1>5 DEF IInv, WaitsInOrder, EmptyHanded, Connecting, Wanted
<1> QED
  BY <1>3, <1>6, <1>7, <1>8 DEF IInv

\* The steps in which an attempt fails.
LEMMA FailureInv ==
  ASSUME IInv, NEW w \in Workers, FailsOtherwise(w) \/ FailsOverloaded(w)
  PROVE  IInv'
<1>1. /\ Fail(w) /\ UNCHANGED <<queue>>
      /\ UNCHANGED imapGate \/ Gate!Enter(w)
  BY DEF FailsOtherwise, FailsOverloaded
<1>2. /\ pc[w] \notin {"idle", "done"}
      /\ failures' \in [Batches -> Nat]
      /\ \A b \in Batches : b # item[w].batch => failures'[b] = failures[b]
      /\ failures'[item[w].batch] + item[w].attempts = Retries + 1
      /\ free' \in [Identities -> Nat]
      /\ permit' \in [Workers -> Identities \cup {NoIdentity}]
      /\ permit'[w] = NoIdentity
      /\ \A v \in Workers : v # w => permit'[v] = permit[v]
      /\ PermitInv'
      /\ tries' \in [Workers -> 0..(ConnectTries - 1)]
  BY <1>1, FailedAttempt
<1>3. /\ inside' \subseteq Workers /\ paid' \in Nat /\ latched' \in BOOLEAN
      /\ latched => latched'
  BY <1>1, GateKept DEF IInv
<1>4. /\ LocationInv' /\ AttemptInv' /\ DroppedOnlyAtTheLimit'
      /\ pc' \in [Workers -> Places] /\ item' \in [Workers -> Items \cup {NoItem}]
      /\ fate' \in [Batches -> {"pending", "processed", "dropped"}]
      /\ pc'[w] \notin Connecting /\ \A v \in Workers : v # w => pc'[v] = pc[v]
      /\ \A v \in Workers : v # w => item'[v] = item[v]
  <2>1. CASE FailsOtherwise(w)
    <3>1. \A v \in Workers : v # w => item'[v] = item[v]
      BY <2>1 DEF FailsOtherwise, DropOrBackOff, Drop, IInv, TypeOK
    <3> QED
      BY <1>1, <1>2, <1>3, <2>1, <3>1, DroppedOrBacksOff DEF FailsOtherwise, Connecting
  <2>2. CASE FailsOverloaded(w)
    <3>1. Goto(w, "gated") /\ UNCHANGED <<item, fate>>
      BY <2>2 DEF FailsOverloaded
    <3>2. /\ LocationInv' /\ AttemptInv' /\ DroppedOnlyAtTheLimit'
          /\ pc' \in [Workers -> Places]
      BY <1>1, <1>2, <1>3, <3>1, BatchWaits DEF Failed
    <3> QED
      BY <3>1, <3>2 DEF IInv, TypeOK, Goto, Connecting
  <2> QED
    BY <2>1, <2>2
<1>5. TypeOK'
  BY <1>1, <1>2, <1>3, <1>4 DEF IInv, TypeOK
<1>6. WaitsInOrder'
  BY <1>2, <1>4 DEF IInv, WaitsInOrder, Wanted
<1> QED
  BY <1>2, <1>4, <1>5, <1>6 DEF IInv

\* The steps in which the gate answers a worker, and the one in which a batch
\* is done: no permit moves, and the batch is settled or goes on waiting.
LEMMA AnswerInv ==
  ASSUME IInv, NEW w \in Workers, Delivered(w) \/ GateSaysRetry(w) \/ GateSaysGiveUp(w)
  PROVE  IInv'
<1>1. /\ UNCHANGED <<queue, free, permit, tries, failures>>
      /\ pc[w] \in {"pushing", "pushGated", "gated"}
  BY DEF Delivered, GateSaysRetry, GateSaysGiveUp, At
<1>2. /\ inside' \subseteq Workers /\ paid' \in Nat /\ latched' \in BOOLEAN
      /\ latched => latched'
  BY GateKept DEF IInv, Delivered, GateSaysRetry, GateSaysGiveUp
<1>3. /\ item[w].batch \in Batches /\ item[w].attempts \in 0..Retries
      /\ Retries \in Nat
      /\ failures \in [Batches -> Nat] /\ failures[item[w].batch] <= Retries + 1
      /\ failures[item[w].batch] + item[w].attempts
           = IF pc[w] \in Failed THEN Retries + 1 ELSE Retries
  BY <1>1, HeldBatch, QueueAssumption DEF IInv, TypeOK, DroppedOnlyAtTheLimit
<1>4. /\ LocationInv' /\ AttemptInv' /\ DroppedOnlyAtTheLimit'
      /\ pc' \in [Workers -> Places] /\ item' \in [Workers -> Items \cup {NoItem}]
      /\ fate' \in [Batches -> {"pending", "processed", "dropped"}]
      /\ \A v \in Workers : v # w => pc'[v] = pc[v]
      /\ pc'[w] \in {"idle", "backingOff"}
      /\ \A v \in Workers : v # w => item'[v] = item[v]
  <2>1. CASE Delivered(w)
    <3>1. /\ fate' = [fate EXCEPT ![item[w].batch] = "processed"]
          /\ item' = [item EXCEPT ![w] = NoItem]
          /\ Goto(w, "idle")
      BY <2>1 DEF Delivered
    <3>2. /\ LocationInv' /\ AttemptInv' /\ DroppedOnlyAtTheLimit'
          /\ pc' \in [Workers -> Places] /\ item' \in [Workers -> Items \cup {NoItem}]
          /\ fate' \in [Batches -> {"pending", "processed", "dropped"}]
      BY <1>1, <1>2, <1>3, <3>1, BatchSettled
    <3> QED
      BY <3>1, <3>2 DEF IInv, TypeOK, Goto
  <2>2. CASE GateSaysRetry(w)
    <3>1. \A v \in Workers : v # w => item'[v] = item[v]
      BY <2>2 DEF GateSaysRetry, DropOrBackOff, Drop, IInv, TypeOK
    <3> QED
      BY <1>1, <1>2, <1>3, <2>2, <3>1, DroppedOrBacksOff DEF GateSaysRetry, At, Failed
  <2>3. CASE GateSaysGiveUp(w)
    <3>1. /\ fate' = [fate EXCEPT ![item[w].batch] = "dropped"]
          /\ item' = [item EXCEPT ![w] = NoItem]
          /\ Goto(w, "idle")
      BY <2>3 DEF GateSaysGiveUp, Drop
    <3>2. latched'
      BY <1>2, <2>3 DEF GateSaysGiveUp, Gate!GiveUp
    <3>3. /\ LocationInv' /\ AttemptInv' /\ DroppedOnlyAtTheLimit'
          /\ pc' \in [Workers -> Places] /\ item' \in [Workers -> Items \cup {NoItem}]
          /\ fate' \in [Batches -> {"pending", "processed", "dropped"}]
      BY <1>1, <1>2, <1>3, <3>1, <3>2, BatchSettled
    <3> QED
      BY <3>1, <3>3 DEF IInv, TypeOK, Goto
  <2> QED
    BY <2>1, <2>2, <2>3
<1>5. TypeOK'
  BY <1>1, <1>2, <1>4 DEF IInv, TypeOK
<1>6. permit[w] = NoIdentity \/ pc'[w] = "idle"
  <2>1. CASE Delivered(w)
    BY <2>1 DEF Delivered, Goto, IInv, TypeOK
  <2>2. CASE pc[w] = "gated"
    BY <2>2 DEF IInv, WaitsInOrder, EmptyHanded
  <2> QED
    BY <2>1, <2>2 DEF GateSaysRetry, GateSaysGiveUp, At
<1>7. WaitsInOrder' /\ PermitInv'
  BY <1>1, <1>4, <1>6, PermitKept DEF IInv, WaitsInOrder, EmptyHanded, Connecting, Wanted
<1> QED
  BY <1>4, <1>5, <1>7 DEF IInv

\* Every step preserves the invariant.
LEMMA StepInv == IInv /\ [Next]_vars => IInv'
<1> SUFFICES ASSUME IInv, [Next]_vars PROVE IInv'
  OBVIOUS
<1>1. ASSUME NEW w \in Workers, WorkerStep(w) PROVE IInv'
  BY <1>1, PopInv, ConnectionInv, ConnectedInv, FailureInv, AnswerInv, RequeueInv DEF WorkerStep
<1>2. ASSUME GateStep \/ UNCHANGED vars PROVE IInv'
  <2>1. UNCHANGED <<queue, free, pc, item, permit, tries, fate, failures>>
    BY <1>2 DEF GateStep, vars
  <2>2. /\ inside' \subseteq Workers /\ paid' \in Nat /\ latched' \in BOOLEAN
        /\ latched => latched'
    BY <1>2, GateKept DEF IInv, GateStep, vars
  <2>3. TypeOK'
    BY <2>1, <2>2 DEF IInv, TypeOK
  <2>4. LocationInv' /\ AttemptInv'
    BY <2>1 DEF IInv, LocationInv, HandInv, HasItem, QueuedOnce, HeldOnce, NotInBoth,
       PlacedInv, IsQueued, IsHeld, AttemptInv
  <2>5. PermitInv' /\ WaitsInOrder' /\ DroppedOnlyAtTheLimit'
    BY <2>1, <2>2, PermitKept DEF IInv, WaitsInOrder, Wanted, DroppedOnlyAtTheLimit
  <2> QED
    BY <2>3, <2>4, <2>5 DEF IInv
<1> QED
  BY <1>1, <1>2 DEF Next

\* Every reachable state satisfies the invariant.
LEMMA InvariantHolds == Spec => []IInv
  BY InitInv, StepInv, PTL DEF Spec

-----------------------------------------------------------------------------
(* The theorems. *)

\* The variables keep their ranges; no attempt counter falls below zero.
THEOREM TypeCorrect == Spec => []TypeOK
<1>1. IInv => TypeOK
  BY DEF IInv
<1> QED
  BY <1>1, InvariantHolds, PTL

\* No batch is lost, and none is queued or worked on twice.
THEOREM BatchesAreConserved == Spec => []EachBatchInOnePlace
<1>1. ASSUME IInv PROVE EachBatchInOnePlace
  <2> SUFFICES ASSUME NEW b \in Batches
               PROVE  Cardinality(Queued(b)) + Cardinality(InHand(b))
                        = IF fate[b] = "pending" THEN 1 ELSE 0
    BY DEF EachBatchInOnePlace
  <2>1. /\ fate[b] = "pending" <=> IsQueued(b) \/ IsHeld(b)
        /\ QueuedOnce /\ HeldOnce /\ NotInBoth
    BY <1>1 DEF IInv, LocationInv, PlacedInv
  <2>2. IsQueued(b) => \E n : Queued(b) = {n}
    BY <2>1 DEF IsQueued, Queued, QueuedOnce
  <2>3. ~IsQueued(b) => Queued(b) = {}
    BY DEF IsQueued, Queued
  <2>4. IsHeld(b) => \E w : InHand(b) = {w}
    BY <2>1 DEF IsHeld, InHand, HeldOnce, HasItem
  <2>5. ~IsHeld(b) => InHand(b) = {}
    BY DEF IsHeld, InHand, HasItem
  <2>6. ~(IsQueued(b) /\ IsHeld(b))
    BY <2>1 DEF IsQueued, IsHeld, NotInBoth
  <2>7. \A x : Cardinality({x}) = 1
    BY FS_Singleton
  <2>8. Cardinality({}) = 0
    BY FS_EmptySet
  <2>9. CASE IsQueued(b)
    <3>1. Cardinality(Queued(b)) = 1 /\ Cardinality(InHand(b)) = 0
      BY <2>2, <2>5, <2>6, <2>7, <2>8, <2>9
    <3> QED
      BY <2>1, <2>9, <3>1
  <2>10. CASE IsHeld(b)
    <3>1. Cardinality(Queued(b)) = 0 /\ Cardinality(InHand(b)) = 1
      BY <2>3, <2>4, <2>6, <2>7, <2>8, <2>10
    <3> QED
      BY <2>1, <2>10, <3>1
  <2>11. CASE ~IsQueued(b) /\ ~IsHeld(b)
    BY <2>1, <2>3, <2>5, <2>8, <2>11
  <2> QED
    BY <2>9, <2>10, <2>11
<1> QED
  BY <1>1, InvariantHolds, PTL

\* No identity's server is ever asked for more connections than it allows.
THEOREM ConnectionsAreCapped == Spec => []ConnectionsWithinCap
<1>1. ASSUME IInv PROVE ConnectionsWithinCap
  <2> SUFFICES ASSUME NEW i \in Identities PROVE Cardinality(HoldersOf(i)) <= Cap[i]
    BY DEF ConnectionsWithinCap, HoldersOf
  <2>1. free[i] + Cardinality(HoldersOf(i)) = Cap[i] /\ free[i] \in Nat
    BY <1>1 DEF IInv, PermitInv, TypeOK
  <2>2. Cardinality(HoldersOf(i)) \in Nat
    BY HoldersFinite
  <2> QED
    BY <2>1, <2>2
<1> QED
  BY <1>1, InvariantHolds, PTL

\* Permits are waited for empty-handed, and so are the IMAP gate and the pause
\* before a requeue; the waits between two tries to connect and for a push are
\* on the permit of the batch's own identity.
THEOREM WaitsAreOrdered == Spec => []WaitsInOrder
<1>1. IInv => WaitsInOrder
  BY DEF IInv
<1> QED
  BY <1>1, InvariantHolds, PTL

\* A batch is dropped only after all its attempts or once the gate has latched.
THEOREM DroppedLate == Spec => []DroppedOnlyAtTheLimit
<1>1. IInv => DroppedOnlyAtTheLimit
  BY DEF IInv
<1> QED
  BY <1>1, InvariantHolds, PTL
=============================================================================
