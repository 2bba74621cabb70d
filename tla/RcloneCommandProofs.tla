-------------------------- MODULE RcloneCommandProofs --------------------------
(***************************************************************************)
(* Proofs about RcloneCommand for any objects, messages, earlier log, pipe,    *)
(* attempts and bounds.                                                      *)
(*                                                                         *)
(* The argument.  The log grows by half lines and never changes behind.  What  *)
(* the tailer keeps and has reported is a function of the whole lines it has    *)
(* read, wherever a read ended: a poll joins the beginning of a line to the     *)
(* rest of it, and goes through the lines of its chunk one by one.             *)
(***************************************************************************)
EXTENDS RcloneCommand, FiniteSetTheorems, WellFoundedInduction, TLAPS

-----------------------------------------------------------------------------
(* Numbers. *)

\* A set of numbers that is not empty has a least member.
LEMMA LeastNumber ==
  ASSUME NEW T, T \subseteq Nat, T # {}
  PROVE  \E n \in T : \A m \in T : n <= m
<1> DEFINE R == OpToRel(<, Nat)
<1>1. IsWellFoundedOn(R, Nat)
  BY NatLessThanWellFounded
<1>2. ASSUME NEW x \in Nat, NEW y \in Nat, y < x PROVE <<y, x>> \in R
  BY <1>2 DEF OpToRel
<1> HIDE DEF R
<1>3. PICK n \in T : \A m \in T : ~(<<m, n>> \in R)
  BY <1>1, WFMin
<1>4. ASSUME NEW m \in T PROVE n <= m
  <2>1. ~(m < n)
    BY <1>2, <1>3
  <2> QED
    BY <2>1
<1> QED
  BY <1>4

\* What holds of 0, and of each number up to m after one it holds of, holds of all.
LEMMA UpTo ==
  ASSUME NEW m \in Nat, NEW T, 0 \in T,
         \A n \in 0..m : n # m /\ n \in T => n + 1 \in T
  PROVE  \A n \in 0..m : n \in T
<1> DEFINE B == {n \in 0..m : n \notin T}
<1>1. SUFFICES ASSUME B # {} PROVE FALSE
  OBVIOUS
<1>2. B \subseteq Nat
  OBVIOUS
<1>3. PICK n \in B : \A l \in B : n <= l
  <2> HIDE DEF B
  <2> QED
    BY <1>1, <1>2, LeastNumber
<1>4. n \in 0..m /\ n # 0 /\ n \notin T
  BY <1>3
<1>5. n - 1 \in 0..m /\ n - 1 # m /\ n = (n - 1) + 1 /\ ~(n <= n - 1)
  BY <1>4
<1>6. n - 1 \in T
  BY <1>3, <1>5
<1> QED
  BY <1>4, <1>5, <1>6

\* A number and its half.
LEMMA Half ==
  \A n \in Nat : /\ n \div 2 \in Nat /\ (n % 2) \in {0, 1}
                 /\ n = (2 * (n \div 2)) + (n % 2)
OBVIOUS

\* An even number, and the one after it.
LEMMA EvenOdd ==
  \A k \in Nat : /\ (2 * k) \div 2 = k /\ (2 * k) % 2 = 0
                 /\ (2 * k + 1) \div 2 = k /\ (2 * k + 1) % 2 = 1
OBVIOUS

-----------------------------------------------------------------------------
(* What is announced. *)

\* The function by which Announced is defined.
Announcing(f, halves, n) ==
  f = [i \in 0..n |->
         IF i = 0 THEN <<>>
         ELSE IF LineIn(halves, i).kind = "copied" THEN Append(f[i - 1], LineIn(halves, i).what)
         ELSE f[i - 1]]

\* There is one for each n.
LEMMA AnnouncingExists ==
  ASSUME NEW halves, NEW m \in Nat
  PROVE  \E f : Announcing(f, halves, m)
<1> DEFINE T == {n \in 0..m : \E f : Announcing(f, halves, n)}
<1>1. 0 \in T
  <2> DEFINE f == [i \in 0..0 |-> <<>>]
  <2>1. Announcing(f, halves, 0)
    BY DEF Announcing
  <2> QED
    BY <2>1
<1>2. ASSUME NEW n \in 0..m, n # m, n \in T PROVE n + 1 \in T
  <2>1. PICK f : Announcing(f, halves, n)
    BY <1>2
  <2> DEFINE last == IF LineIn(halves, n + 1).kind = "copied"
                     THEN Append(f[n], LineIn(halves, n + 1).what) ELSE f[n]
             g == [i \in 0..(n + 1) |-> IF i = n + 1 THEN last ELSE f[i]]
  <2>2. ASSUME NEW i \in 0..(n + 1)
        PROVE  g[i] = IF i = 0 THEN <<>>
                      ELSE IF LineIn(halves, i).kind = "copied"
                           THEN Append(g[i - 1], LineIn(halves, i).what)
                      ELSE g[i - 1]
    <3>1. CASE i = n + 1
      <4>1. i # 0 /\ i - 1 = n /\ g[i - 1] = f[n] /\ g[i] = last
        BY <3>1
      <4> QED
        BY <4>1, <3>1
    <3>2. CASE i # n + 1
      <4>1. i \in 0..n /\ g[i] = f[i] /\ (i # 0 => g[i - 1] = f[i - 1])
        BY <3>2
      <4> QED
        BY <4>1, <2>1 DEF Announcing
    <3> QED
      BY <3>1, <3>2
  <2>3. Announcing(g, halves, n + 1)
    <3>1. g = [i \in 0..(n + 1) |-> g[i]]
      OBVIOUS
    <3> HIDE DEF g
    <3> QED
      BY <2>2, <3>1 DEF Announcing
  <2> QED
    BY <2>3, <1>2
<1>3. \A n \in 0..m : n \in T
  <2> HIDE DEF T
  <2> QED
    BY <1>1, <1>2, UpTo
<1> QED
  BY <1>3

\* Nothing is announced by no lines.
LEMMA AnnouncedNone == \A halves : Announced(halves, 0) = <<>>
<1> TAKE halves
<1>1. PICK f : Announcing(f, halves, 0)
  BY AnnouncingExists
<1>2. Announcing(CHOOSE g : Announcing(g, halves, 0), halves, 0)
  BY <1>1
<1>3. Announced(halves, 0) = (CHOOSE g : Announcing(g, halves, 0))[0]
  BY DEF Announced, Announcing
<1> QED
  BY <1>2, <1>3 DEF Announcing

\* Two such functions agree where both are defined.
LEMMA AnnouncingAgree ==
  ASSUME NEW halves, NEW others, NEW n \in Nat, NEW m \in Nat, n <= m,
         \A i \in 1..n : LineIn(halves, i) = LineIn(others, i),
         NEW f, NEW g, Announcing(f, halves, n), Announcing(g, others, m)
  PROVE  f[n] = g[n]
<1> DEFINE T == {i \in 0..n : f[i] = g[i]}
<1>1. 0 \in T
  BY DEF Announcing
<1>2. ASSUME NEW i \in 0..n, i # n, i \in T PROVE i + 1 \in T
  <2>1. i + 1 \in 0..n /\ i + 1 \in 0..m /\ i + 1 # 0 /\ (i + 1) - 1 = i /\ i + 1 \in 1..n
    BY <1>2
  <2>2. f[i + 1] = IF LineIn(halves, i + 1).kind = "copied"
                   THEN Append(f[i], LineIn(halves, i + 1).what) ELSE f[i]
    BY <2>1 DEF Announcing
  <2>3. g[i + 1] = IF LineIn(others, i + 1).kind = "copied"
                   THEN Append(g[i], LineIn(others, i + 1).what) ELSE g[i]
    BY <2>1 DEF Announcing
  <2> QED
    BY <1>2, <2>1, <2>2, <2>3
<1>3. \A i \in 0..n : i \in T
  <2> HIDE DEF T
  <2> QED
    BY <1>1, <1>2, UpTo
<1> QED
  BY <1>3

\* Logs that begin alike announce the same.
LEMMA AnnouncedSame ==
  ASSUME NEW halves, NEW others, NEW n \in Nat,
         \A i \in 1..n : LineIn(halves, i) = LineIn(others, i)
  PROVE  Announced(halves, n) = Announced(others, n)
<1> DEFINE f == CHOOSE f : Announcing(f, halves, n)
           g == CHOOSE g : Announcing(g, others, n)
<1>1. Announcing(f, halves, n) /\ Announcing(g, others, n)
  BY AnnouncingExists
<1>2. Announced(halves, n) = f[n] /\ Announced(others, n) = g[n]
  BY DEF Announced, Announcing
<1> HIDE DEF f, g
<1> QED
  BY <1>1, <1>2, AnnouncingAgree

\* One more line.
LEMMA AnnouncedNext ==
  ASSUME NEW halves, NEW n \in Nat
  PROVE  Announced(halves, n + 1) =
           IF LineIn(halves, n + 1).kind = "copied"
           THEN Append(Announced(halves, n), LineIn(halves, n + 1).what)
           ELSE Announced(halves, n)
<1> DEFINE f == CHOOSE f : Announcing(f, halves, n)
           g == CHOOSE g : Announcing(g, halves, n + 1)
<1>1. Announcing(f, halves, n) /\ Announcing(g, halves, n + 1)
  BY AnnouncingExists
<1>2. Announced(halves, n) = f[n] /\ Announced(halves, n + 1) = g[n + 1]
  BY DEF Announced, Announcing
<1> HIDE DEF f, g
<1>3. f[n] = g[n]
  BY <1>1, AnnouncingAgree
<1>4. g[n + 1] = IF LineIn(halves, n + 1).kind = "copied"
                 THEN Append(g[n], LineIn(halves, n + 1).what) ELSE g[n]
  <2>1. n + 1 \in 0..(n + 1) /\ n + 1 # 0 /\ (n + 1) - 1 = n
    OBVIOUS
  <2> QED
    BY <1>1, <2>1 DEF Announcing
<1> QED
  BY <1>2, <1>3, <1>4

\* What is announced is of what the lines name.
LEMMA AnnouncedNames ==
  ASSUME NEW halves, NEW S, NEW m \in Nat,
         \A i \in 1..m : LineIn(halves, i).kind = "copied" => LineIn(halves, i).what \in S
  PROVE  Announced(halves, m) \in Seq(S)
<1> DEFINE T == {n \in 0..m : Announced(halves, n) \in Seq(S)}
<1>1. 0 \in T
  <2>1. Announced(halves, 0) = <<>> /\ <<>> \in Seq(S)
    BY AnnouncedNone
  <2>2. 0 \in 0..m
    OBVIOUS
  <2>3. Announced(halves, 0) \in Seq(S)
    BY Zenon, <2>1
  <2> QED
    BY <2>2, <2>3
<1>2. ASSUME NEW n \in 0..m, n # m, n \in T PROVE n + 1 \in T
  <2>1. n \in Nat /\ n + 1 \in 0..m /\ n + 1 \in 1..m
    BY <1>2
  <2>2. Announced(halves, n + 1) =
           IF LineIn(halves, n + 1).kind = "copied"
           THEN Append(Announced(halves, n), LineIn(halves, n + 1).what)
           ELSE Announced(halves, n)
    BY <2>1, AnnouncedNext
  <2>3. ASSUME NEW s \in Seq(S), NEW x \in S PROVE Append(s, x) \in Seq(S)
    OBVIOUS
  <2>4. LineIn(halves, n + 1).kind = "copied" => LineIn(halves, n + 1).what \in S
    BY <2>1
  <2>5. Announced(halves, n) \in Seq(S)
    BY <1>2
  <2>6. Announced(halves, n + 1) \in Seq(S)
    BY Zenon, <2>2, <2>3, <2>4, <2>5
  <2> QED
    BY <2>1, <2>6
<1>3. \A n \in 0..m : n \in T
  <2> HIDE DEF T
  <2> QED
    BY <1>1, <1>2, UpTo
<1> QED
  BY <1>3

-----------------------------------------------------------------------------
(* What a poll makes of its lines. *)

Whats == Objects \cup Causes \cup Named \cup {"none"}

Totals == [moved : Nat, errors : Nat]
Tailers ==
  [cumulative : Totals, copied : Seq(Objects \cup Named), notices : Nat,
   streak : [cause : Whats, count : Nat], warned : Nat, summarised : Nat]

\* A streak has a cause once it has begun.
Begun(t) == t.streak.cause = "none" \/ t.streak.count > 0

\* Errors warned of, in a summary, or in the streak that is to be summarised.
Repeats(streak) == IF streak.count > 1 THEN streak.count - 1 ELSE 0
Told(t) == t.warned + t.summarised + Repeats(t.streak)

TotalsOf(line) == [moved |-> line.moved, errors |-> line.errors]

\* The end of a streak loses no error.
LEMMA Flushed ==
  ASSUME NEW t \in Tailers
  PROVE  /\ FlushStreak(t) \in Tailers
         /\ FlushStreak(t).streak = NoStreak
         /\ FlushStreak(t).cumulative = t.cumulative /\ FlushStreak(t).copied = t.copied
         /\ FlushStreak(t).notices = t.notices /\ FlushStreak(t).warned = t.warned
         /\ FlushStreak(t).summarised = t.summarised + Repeats(t.streak)
<1> DEFINE n == t.summarised + Repeats(t.streak)
<1>1. t.summarised \in Nat /\ t.streak.count \in Nat
  BY DEF Tailers
<1>2. n \in Nat
  BY <1>1 DEF Repeats
<1>3. FlushStreak(t) = [t EXCEPT !.streak = NoStreak, !.summarised = n]
  BY DEF FlushStreak, Repeats
<1> HIDE DEF n
<1>4. NoStreak \in [cause : Whats, count : Nat]
  BY DEF NoStreak, Whats
<1>5. [t EXCEPT !.streak = NoStreak, !.summarised = n] \in Tailers
  BY <1>2, <1>4 DEF Tailers
<1>6. n = t.summarised + Repeats(t.streak)
  BY DEF n
<1> QED
  BY <1>3, <1>5, <1>6 DEF Tailers

\* An error is counted once, whether it goes on with the streak or ends it.
LEMMA ErrorTold ==
  ASSUME NEW t \in Tailers, NEW c \in Whats \ {"none"}, Begun(t)
  PROVE  /\ RecordError(t, c) \in Tailers /\ Begun(RecordError(t, c))
         /\ RecordError(t, c).cumulative = t.cumulative /\ RecordError(t, c).copied = t.copied
         /\ RecordError(t, c).notices = t.notices
         /\ Told(RecordError(t, c)) = Told(t) + 1
<1>1. CASE t.streak.cause = c
  <2> DEFINE k == t.streak.count + 1
             q == [t.streak EXCEPT !.count = k]
  <2>1. t.streak \in [cause : Whats, count : Nat] /\ t.streak.count \in Nat \ {0} /\ k \in Nat
    BY <1>1 DEF Tailers, Begun
  <2>2. RecordError(t, c) = [t EXCEPT !.streak = q]
    BY <1>1 DEF RecordError
  <2>3. q \in [cause : Whats, count : Nat] /\ q.count = k
    BY <2>1
  <2>4. Repeats(q) = Repeats(t.streak) + 1 /\ Repeats(t.streak) \in Nat
    BY <2>1, <2>3 DEF Repeats
  <2>5. q.count > 0
    BY <2>1, <2>3
  <2> HIDE DEF q, k
  <2>6. t.warned \in Nat /\ t.summarised \in Nat
    BY DEF Tailers
  <2>7. RecordError(t, c) \in Tailers
    BY <2>2, <2>3 DEF Tailers
  <2>8. /\ RecordError(t, c).cumulative = t.cumulative /\ RecordError(t, c).copied = t.copied
        /\ RecordError(t, c).notices = t.notices /\ RecordError(t, c).streak = q
        /\ RecordError(t, c).warned = t.warned /\ RecordError(t, c).summarised = t.summarised
    BY <2>2 DEF Tailers
  <2> QED
    BY <2>4, <2>5, <2>6, <2>7, <2>8 DEF Begun, Told
<1>2. CASE t.streak.cause # c
  <2> DEFINE u == FlushStreak(t)
  <2>1. /\ u \in Tailers /\ u.cumulative = t.cumulative /\ u.copied = t.copied
        /\ u.notices = t.notices /\ u.warned = t.warned
        /\ u.summarised = t.summarised + Repeats(t.streak)
    BY Flushed
  <2>2. RecordError(t, c) = [u EXCEPT !.streak = [cause |-> c, count |-> 1], !.warned = @ + 1]
    BY <1>2 DEF RecordError
  <2> HIDE DEF u
  <2>3. t.warned \in Nat /\ t.summarised \in Nat /\ Repeats(t.streak) \in Nat
    BY DEF Tailers, Repeats
  <2> DEFINE q == [cause |-> c, count |-> 1]
  <2>4. q \in [cause : Whats, count : Nat] /\ q.count = 1 /\ Repeats(q) = 0
    BY DEF Repeats
  <2> HIDE DEF q
  <2>5. RecordError(t, c) = [u EXCEPT !.streak = q, !.warned = @ + 1]
    BY <2>2 DEF q
  <2> DEFINE w == u.warned + 1
  <2>8. w \in Nat /\ RecordError(t, c) = [u EXCEPT !.streak = q, !.warned = w]
    BY <2>1, <2>3, <2>5
  <2> HIDE DEF w
  <2>6. RecordError(t, c) \in Tailers
    BY <2>1, <2>4, <2>8 DEF Tailers
  <2>7. /\ RecordError(t, c).cumulative = t.cumulative /\ RecordError(t, c).copied = t.copied
        /\ RecordError(t, c).notices = t.notices /\ RecordError(t, c).streak = q
        /\ RecordError(t, c).warned = t.warned + 1
        /\ RecordError(t, c).summarised = t.summarised + Repeats(t.streak)
    BY <2>1, <2>5 DEF Tailers
  <2> QED
    BY <2>3, <2>4, <2>6, <2>7 DEF Begun, Told
<1> QED
  BY <1>1, <1>2

\* A line adds to the one thing it is about.
LEMMA LineProcessed ==
  ASSUME NEW t \in Tailers, NEW l \in LogLines, Begun(t)
  PROVE  LET u == ProcessLine(t, l)
         IN  /\ u \in Tailers /\ Begun(u)
             /\ u.cumulative = IF l.kind = "stats" THEN TotalsOf(l) ELSE t.cumulative
             /\ u.copied = IF l.kind = "copied" THEN Append(t.copied, l.what) ELSE t.copied
             /\ u.notices = IF l.kind = "notice" THEN t.notices + 1 ELSE t.notices
             /\ Told(u) = IF l.kind = "error" THEN Told(t) + 1 ELSE Told(t)
<1>0. /\ l.kind \in {"copied", "other", "error", "notice", "stats"}
      /\ l.what \in Whats /\ l.moved \in Nat /\ l.errors \in Nat
      /\ l.kind = "copied" => l.what \in Objects \cup Named
      /\ l.kind = "error" => l.what # "none"
  BY DEF LogLines, Whats
<1>1. CASE l.kind = "stats"
  <2>1. ProcessLine(t, l) = [t EXCEPT !.cumulative = TotalsOf(l)]
    BY <1>1 DEF ProcessLine, TotalsOf
  <2> QED
    BY <1>0, <1>1, <2>1 DEF Tailers, Totals, TotalsOf, Begun, Told, Repeats
<1>2. CASE l.kind = "copied"
  <2>1. ProcessLine(t, l) = [t EXCEPT !.copied = Append(@, l.what)]
    BY <1>2 DEF ProcessLine
  <2>2. Append(t.copied, l.what) \in Seq(Objects \cup Named)
    BY <1>0, <1>2 DEF Tailers
  <2> QED
    BY <1>0, <1>2, <2>1, <2>2 DEF Tailers, Totals, TotalsOf, Begun, Told, Repeats
<1>3. CASE l.kind = "notice"
  <2>1. ProcessLine(t, l) = [t EXCEPT !.notices = @ + 1]
    BY <1>3 DEF ProcessLine
  <2> QED
    BY SMTT(30), <1>0, <1>3, <2>1 DEF Tailers, Totals, TotalsOf, Begun, Told, Repeats
<1>4. CASE l.kind = "error"
  <2>1. ProcessLine(t, l) = RecordError(t, l.what)
    BY <1>4 DEF ProcessLine
  <2> QED
    BY <1>0, <1>4, <2>1, ErrorTold
<1>5. CASE l.kind = "other"
  <2>1. ProcessLine(t, l) = t
    BY <1>5 DEF ProcessLine
  <2> QED
    BY <1>5, <2>1
<1> QED
  BY <1>0, <1>1, <1>2, <1>3, <1>4, <1>5

\* The function by which ProcessLines is defined.
Processing(f, t, chunk, n) ==
  f = [i \in 0..n |->
         IF i = 0 THEN t
         ELSE IF WholeAt(chunk, i) THEN ProcessLine(f[i - 1], chunk[i].line)
         ELSE f[i - 1]]

\* There is one for each n.
LEMMA ProcessingExists ==
  ASSUME NEW t, NEW chunk, NEW m \in Nat
  PROVE  \E f : Processing(f, t, chunk, m)
<1> DEFINE T == {n \in 0..m : \E f : Processing(f, t, chunk, n)}
<1>1. 0 \in T
  <2> DEFINE f == [i \in 0..0 |-> t]
  <2>1. Processing(f, t, chunk, 0)
    BY DEF Processing
  <2> QED
    BY <2>1
<1>2. ASSUME NEW n \in 0..m, n # m, n \in T PROVE n + 1 \in T
  <2>1. PICK f : Processing(f, t, chunk, n)
    BY <1>2
  <2> DEFINE last == IF WholeAt(chunk, n + 1) THEN ProcessLine(f[n], chunk[n + 1].line) ELSE f[n]
             g == [i \in 0..(n + 1) |-> IF i = n + 1 THEN last ELSE f[i]]
  <2>2. ASSUME NEW i \in 0..(n + 1)
        PROVE  g[i] = IF i = 0 THEN t
                      ELSE IF WholeAt(chunk, i) THEN ProcessLine(g[i - 1], chunk[i].line)
                      ELSE g[i - 1]
    <3>1. CASE i = n + 1
      <4>1. i # 0 /\ i - 1 = n /\ g[i - 1] = f[n] /\ g[i] = last
        BY <3>1
      <4> QED
        BY <4>1, <3>1
    <3>2. CASE i # n + 1
      <4>1. i \in 0..n /\ g[i] = f[i] /\ (i # 0 => g[i - 1] = f[i - 1])
        BY <3>2
      <4> QED
        BY <4>1, <2>1 DEF Processing
    <3> QED
      BY <3>1, <3>2
  <2>3. Processing(g, t, chunk, n + 1)
    <3>1. g = [i \in 0..(n + 1) |-> g[i]]
      OBVIOUS
    <3> HIDE DEF g
    <3> QED
      BY <2>2, <3>1 DEF Processing
  <2> QED
    BY <2>3, <1>2
<1>3. \A n \in 0..m : n \in T
  <2> HIDE DEF T
  <2> QED
    BY <1>1, <1>2, UpTo
<1> QED
  BY <1>3

\* f[i] is what the first i halves of the chunk make of t.
GoesThrough(f, t, chunk) ==
  /\ f[0] = t /\ ProcessLines(t, chunk) = f[Len(chunk)]
  /\ \A i \in 0..Len(chunk) : i # Len(chunk) =>
       f[i + 1] = IF WholeAt(chunk, i + 1) THEN ProcessLine(f[i], chunk[i + 1].line)
                  ELSE f[i]

\* A chunk is gone through line by line.
LEMMA LinesProcessed ==
  ASSUME NEW t, NEW chunk, Len(chunk) \in Nat
  PROVE  \E f : GoesThrough(f, t, chunk)
<1> DEFINE f == CHOOSE f : Processing(f, t, chunk, Len(chunk))
<1>1. Processing(f, t, chunk, Len(chunk))
  BY ProcessingExists
<1>2. ProcessLines(t, chunk) = f[Len(chunk)]
  BY DEF ProcessLines, Processing
<1> HIDE DEF f
<1>3. f[0] = t
  BY <1>1 DEF Processing
<1>4. ASSUME NEW i \in 0..Len(chunk), i # Len(chunk)
      PROVE  f[i + 1] = IF WholeAt(chunk, i + 1) THEN ProcessLine(f[i], chunk[i + 1].line) ELSE f[i]
  <2>1. i + 1 \in 0..Len(chunk) /\ i + 1 # 0 /\ (i + 1) - 1 = i
    BY <1>4
  <2> QED
    BY <1>1, <2>1 DEF Processing
<1> QED
  BY <1>2, <1>3, <1>4 DEF GoesThrough

-----------------------------------------------------------------------------
(* Counts of lines. *)

\* There is none among no lines.
LEMMA CountNone == \A kind : Cardinality(LinesOf(kind, 0)) = 0
<1> TAKE kind
<1>1. LinesOf(kind, 0) = {}
  BY DEF LinesOf
<1> QED
  BY <1>1, FS_EmptySet

\* One more line.
LEMMA CountNext ==
  ASSUME NEW kind, NEW n \in Nat
  PROVE  /\ Cardinality(LinesOf(kind, n)) \in Nat
         /\ Cardinality(LinesOf(kind, n + 1)) =
              IF LineAt(n + 1).kind = kind THEN Cardinality(LinesOf(kind, n)) + 1
              ELSE Cardinality(LinesOf(kind, n))
<1>1. IsFiniteSet(1..n)
  BY FS_Interval
<1>2. IsFiniteSet(LinesOf(kind, n)) /\ Cardinality(LinesOf(kind, n)) \in Nat
  BY <1>1, FS_Subset, FS_CardinalityType DEF LinesOf
<1>3. n + 1 \notin LinesOf(kind, n)
  BY DEF LinesOf
<1>4. LinesOf(kind, n + 1) = IF LineAt(n + 1).kind = kind THEN LinesOf(kind, n) \cup {n + 1}
                             ELSE LinesOf(kind, n)
  <2>1. \A i : i \in 1..(n + 1) <=> i \in 1..n \/ i = n + 1
    OBVIOUS
  <2> QED
    BY <2>1 DEF LinesOf
<1> QED
  BY <1>2, <1>3, <1>4, FS_AddElement

-----------------------------------------------------------------------------
(* The invariant. *)

HalfLines == [line : LogLines, half : {1, 2}]

\* The log is the two halves of each line, and perhaps the first of another.
LogInv ==
  /\ log \in Seq(HalfLines)
  /\ \A k \in 1..Complete(log) :
       log[2 * k].half = 2 /\ log[(2 * k) - 1] = [line |-> LineAt(k), half |-> 1]
  /\ InMidLine => log[Len(log)].half = 1

\* Lines the tailer has read, and the half of another it has not joined.
Read == offset \div 2

TailType ==
  /\ offset \in 0..Len(log)
  /\ partial = IF offset % 2 = 1 THEN <<log[offset]>> ELSE <<>>
  /\ cumulative \in Totals /\ metered \in Totals
  /\ {moved, errors, warned, summarised, notices, faults} \subseteq Nat

IsStats(i) == log[i].line.kind = "stats"

\* An invocation's counts of what it moved do not go back, in a log of its own.
RiseInv ==
  left = 0 =>
    \A i \in 1..Len(log) : IsStats(i) =>
      /\ log[i].line.moved <= moved
      /\ \A j \in i..Len(log) : IsStats(j) => log[i].line.moved <= log[j].line.moved

\* Totals that the lines after the n-th do not go below.
Below(totals, n) ==
  left = 0 =>
    /\ totals.moved <= moved
    /\ \A i \in (2 * n) + 1..Len(log) : IsStats(i) => totals.moved <= log[i].line.moved

\* Totals as the n-th line gives them, if it does.
UpToDate(totals, n) == n > 0 /\ LineAt(n).kind = "stats" => totals = TotalsOf(LineAt(n))

\* What the tailer has reported is what it has read.
ReportInv ==
  /\ received = Announced(log, Read)
  /\ notices = Cardinality(LinesOf("notice", Read))
  /\ warned + summarised = Cardinality(LinesOf("error", Read))
  /\ UpToDate(cumulative, Read) /\ Below(cumulative, Read)
  /\ command \in Streamed /\ left = 0 =>
       metered.moved = cumulative.moved /\ metered.errors >= cumulative.errors

Exited == {"exited0", "exited1", "signal"}

\* Where the command is and where rclone is.
StageInv ==
  /\ command \in Streamed \cup OneShot /\ left \in Nat
  /\ stage \in {"start", "waiting", "flushing", "finishing", "done"}
  /\ child \in {"none", "running"} \cup Exited
  /\ result \in {"none", "ok", "failed"} /\ unread \in BOOLEAN
  /\ result = "none" <=> stage # "done"
  /\ child = "running" => stage = "waiting"
  /\ stage \in {"flushing", "finishing"} => child \in Exited
  /\ stage \in {"waiting", "flushing", "finishing"} => command \in Streamed
  /\ stage \in {"start", "waiting", "flushing"} => unread = FALSE
  /\ command \in OneShot => left = 0 /\ log = <<>> /\ unread = FALSE

\* What is true of a log that ended well.
EndedWell == errors = 0 /\ Len(log) = 2 * Complete(log) /\ Complete(log) > 0
             /\ LineAt(Complete(log)) = Stats(moved, 0)

EndInv ==
  /\ child = "exited0" => EndedWell
  /\ stage = "finishing" => unread \/ offset = Len(log)
  /\ command \in Streamed /\ result = "ok" => child = "exited0" /\ (unread \/ offset = Len(log))

\* The one-shot commands, and the pipe.
OneShotInv ==
  /\ missingOk \in BOOLEAN
  /\ pipe \in 0..PipeSize /\ toStderr \in 0..MaxStderr
  /\ there \in {"absent", "nothing", "objects"} /\ listing \in {"none", "nothing", "objects"}
  /\ command \in OneShot => attempt \in 0..Attempts[command]
  /\ command \in OneShot /\ stage = "start" => attempt < Attempts[command]
  /\ command = "lsjson" /\ result = "ok" =>
       listing = IF there = "absent" /\ missingOk THEN "nothing" ELSE there
  /\ command = "copyto" /\ result = "ok" => there = "objects"

TailerInv == LogInv /\ TailType /\ RiseInv /\ ReportInv

CommandInv == TailerInv /\ StageInv /\ EndInv /\ OneShotInv

-----------------------------------------------------------------------------
(* A poll. *)

Chunk == partial \o SubSeq(log, offset + 1, Len(log))
Before ==
  [cumulative |-> cumulative, copied |-> <<>>, notices |-> notices,
   streak |-> NoStreak, warned |-> warned, summarised |-> summarised]
After == FlushStreak(ProcessLines(Before, Chunk))

\* A sequence after another.
LEMMA Joined ==
  ASSUME NEW S, NEW s \in Seq(S), NEW t \in Seq(S)
  PROVE  /\ s \o t \in Seq(S) /\ Len(s \o t) = Len(s) + Len(t)
         /\ \A i \in 1..(Len(s) + Len(t)) :
              (s \o t)[i] = IF i <= Len(s) THEN s[i] ELSE t[i - Len(s)]
OBVIOUS

\* What half a line is part of.
LEMMA HalfOf ==
  ASSUME LogInv, NEW n \in 1..Len(log)
  PROVE  /\ (n % 2) = 0 => n \div 2 \in 1..Complete(log) /\ n = 2 * (n \div 2)
         /\ (n % 2) = 1 => log[n].half = 1
<1>1. Len(log) \in Nat /\ Complete(log) = Len(log) \div 2
  BY DEF LogInv, Complete
<1>2. CASE (n % 2) = 0
  BY <1>1, <1>2
<1>3. CASE (n % 2) = 1
  <2>1. CASE n = Len(log)
    BY <1>3, <2>1 DEF LogInv, InMidLine
  <2>2. CASE n < Len(log)
    <3>1. PICK k \in 1..Complete(log) : n = (2 * k) - 1
      <4>1. (n + 1) \div 2 \in 1..(Len(log) \div 2) /\ n = (2 * ((n + 1) \div 2)) - 1
        BY <1>1, <1>3, <2>2
      <4> QED
        BY <1>1, <4>1
    <3>2. log[(2 * k) - 1] = [line |-> LineAt(k), half |-> 1]
      BY <3>1 DEF LogInv
    <3> QED
      BY <3>1, <3>2
  <2> QED
    BY <1>1, <2>1, <2>2
<1>4. (n % 2) \in {0, 1}
  BY Half
<1> QED
  BY <1>2, <1>3, <1>4

\* The chunk is the log after the lines that have been read.
LEMMA ChunkIs ==
  ASSUME LogInv, TailType
  PROVE  /\ Read \in Nat /\ 2 * Read <= offset /\ offset <= 2 * Read + 1
         /\ Len(Chunk) \in Nat /\ Len(Chunk) = Len(log) - 2 * Read
         /\ \A i \in 1..Len(Chunk) : Chunk[i] = log[(2 * Read) + i]
<1>1. log \in Seq(HalfLines) /\ Len(log) \in Nat /\ offset \in 0..Len(log)
  BY DEF LogInv, TailType
<1>2. Read \in Nat /\ offset = (2 * Read) + (offset % 2) /\ (offset % 2) \in {0, 1}
  BY <1>1, Half DEF Read
<1> DEFINE read == SubSeq(log, offset + 1, Len(log))
<1>3. read \in Seq(HalfLines) /\ Len(read) = Len(log) - offset
      /\ \A i \in 1..Len(read) : read[i] = log[offset + i]
  BY <1>1
<1>4. Chunk = partial \o read
  BY DEF Chunk
<1> HIDE DEF read
<1>5. CASE (offset % 2) = 1
  <2>1. partial = <<log[offset]>> /\ offset \in 1..Len(log) /\ log[offset] \in HalfLines
    BY <1>1, <1>2, <1>5 DEF TailType
  <2>2. partial \in Seq(HalfLines) /\ Len(partial) = 1 /\ partial[1] = log[offset]
    BY <2>1
  <2>3. Len(Chunk) = 1 + Len(read)
        /\ \A i \in 1..Len(Chunk) : Chunk[i] = IF i = 1 THEN log[offset] ELSE read[i - 1]
    <3>1. /\ Len(Chunk) = Len(partial) + Len(read)
          /\ \A i \in 1..(Len(partial) + Len(read)) :
               Chunk[i] = IF i <= Len(partial) THEN partial[i] ELSE read[i - Len(partial)]
      BY <1>3, <1>4, <2>2, Joined
    <3>2. Len(read) \in Nat
      BY <1>3
    <3> QED
      BY <2>2, <3>1, <3>2
  <2>6. offset = (2 * Read) + 1
    BY <1>2, <1>5
  <2>4. ASSUME NEW i \in 1..Len(Chunk) PROVE Chunk[i] = log[(2 * Read) + i]
    <3>1. CASE i = 1
      BY <3>1, <2>3, <2>6
    <3>2. CASE i # 1
      <4>1. i - 1 \in 1..Len(read) /\ offset + (i - 1) = (2 * Read) + i
        BY <3>2, <2>3, <1>1, <1>2, <1>3, <2>6
      <4> QED
        BY <4>1, <3>2, <2>3, <1>3
    <3> QED
      BY <3>1, <3>2
  <2>5. Len(Chunk) = Len(log) - 2 * Read /\ Len(Chunk) \in Nat
    BY <1>1, <1>2, <1>3, <2>3, <2>6
  <2> QED
    BY <1>1, <1>2, <1>5, <2>4, <2>5
<1>6. CASE (offset % 2) = 0
  <2>1. partial = <<>>
    BY <1>6 DEF TailType
  <2>2. Chunk = read
    BY <1>3, <1>4, <2>1
  <2>3. offset = 2 * Read
    BY <1>2, <1>6
  <2>4. Len(Chunk) = Len(log) - 2 * Read /\ Len(Chunk) \in Nat
    BY <1>1, <1>3, <2>2, <2>3
  <2>5. \A i \in 1..Len(Chunk) : Chunk[i] = log[(2 * Read) + i]
    BY <1>3, <2>2, <2>3
  <2> QED
    BY <1>1, <1>2, <2>3, <2>4, <2>5
<1> QED
  BY <1>2, <1>5, <1>6

\* The lines in it are those after the ones that have been read.
LEMMA ChunkLines ==
  ASSUME LogInv, TailType, NEW i \in 1..Len(Chunk)
  PROVE  /\ (i % 2) = 0 => /\ WholeAt(Chunk, i)
                           /\ Read + (i \div 2) \in 1..Complete(log)
                           /\ Chunk[i].line = LineAt(Read + (i \div 2))
         /\ (i % 2) = 1 => ~WholeAt(Chunk, i)
<1>1. /\ Read \in Nat /\ Len(Chunk) \in Nat /\ Len(Chunk) = Len(log) - 2 * Read /\ Len(log) \in Nat
      /\ \A j \in 1..Len(Chunk) : Chunk[j] = log[(2 * Read) + j]
  BY ChunkIs DEF LogInv
<1>2. (2 * Read) + i \in 1..Len(log) /\ ((2 * Read) + i) % 2 = i % 2
      /\ ((2 * Read) + i) \div 2 = Read + (i \div 2)
  BY <1>1
<1>3. CASE (i % 2) = 0
  <2> DEFINE k == Read + (i \div 2)
  <2>1. k \in 1..Complete(log) /\ (2 * Read) + i = 2 * k
    BY <1>2, <1>3, HalfOf
  <2>2. i > 1 /\ i - 1 \in 1..Len(Chunk) /\ (2 * Read) + (i - 1) = (2 * k) - 1
    <3>1. i \in Nat /\ i = 2 * (i \div 2) /\ i # 1
      <4>1. i \in Nat /\ i # 0
        BY <1>1
      <4>2. i = (2 * (i \div 2)) + (i % 2) /\ i \div 2 \in Nat
        BY <4>1, Half
      <4> QED
        BY <4>1, <4>2, <1>3
    <3>2. i \in 1..Len(Chunk) /\ (2 * Read) + i = 2 * k
      BY <2>1
    <3> HIDE DEF k
    <3> QED
      BY <1>1, <3>1, <3>2, <2>1
  <2>3. Chunk[i] = log[2 * k] /\ Chunk[i - 1] = log[(2 * k) - 1]
    BY <1>1, <2>1, <2>2
  <2> HIDE DEF k
  <2>4. log[2 * k].half = 2 /\ log[(2 * k) - 1] = [line |-> LineAt(k), half |-> 1]
    BY <2>1 DEF LogInv
  <2>5. Chunk[i].line = LineAt(k)
    BY <2>3 DEF LineAt, LineIn
  <2>6. WholeAt(Chunk, i)
    BY <2>2, <2>3, <2>4, <2>5 DEF WholeAt
  <2> QED
    BY <1>3, <2>1, <2>5, <2>6 DEF k
<1>4. CASE (i % 2) = 1
  <2>1. Chunk[i].half = 1
    BY <1>1, <1>2, <1>4, HalfOf
  <2> QED
    BY <1>4, <2>1 DEF WholeAt
<1> QED
  BY <1>3, <1>4

\* What is kept of it is the half of a line at its end.
LEMMA PartialIs ==
  ASSUME LogInv, TailType
  PROVE  PartialOf(Chunk) = IF Len(log) % 2 = 1 THEN <<log[Len(log)]>> ELSE <<>>
<1>1. /\ Read \in Nat /\ Len(Chunk) \in Nat /\ Len(Chunk) = Len(log) - 2 * Read /\ Len(log) \in Nat
      /\ \A j \in 1..Len(Chunk) : Chunk[j] = log[(2 * Read) + j]
  BY ChunkIs DEF LogInv
<1>2. CASE Len(Chunk) = 0
  <2>1. (Len(log) % 2) = 0
    BY <1>1, <1>2
  <2>2. Chunk = <<>>
    <3>1. Chunk \in Seq(HalfLines)
      <4>1. partial \in Seq(HalfLines)
        <5>1. offset % 2 = 1 => offset \in 1..Len(log)
          BY <1>1 DEF TailType
        <5>2. offset % 2 = 1 => log[offset] \in HalfLines
          BY <5>1 DEF LogInv
        <5> QED
          BY <5>2 DEF TailType
      <4>2. SubSeq(log, offset + 1, Len(log)) \in Seq(HalfLines)
        BY DEF LogInv, TailType
      <4> QED
        BY <4>1, <4>2 DEF Chunk
    <3> QED
      BY <3>1, <1>2
  <2> QED
    BY <2>1, <2>2 DEF PartialOf
<1>3. CASE Len(Chunk) # 0
  <2>0. Chunk # <<>>
    BY <1>3
  <2>1. Chunk # <<>> /\ Len(Chunk) \in 1..Len(Chunk) /\ (2 * Read) + Len(Chunk) = Len(log)
    BY <1>1, <1>3, <2>0
  <2>2. Chunk[Len(Chunk)] = log[Len(log)] /\ Len(log) \in 1..Len(log)
    BY <1>1, <2>1
  <2>3. CASE (Len(log) % 2) = 1
    <3>1. log[Len(log)].half = 1
      BY <2>2, <2>3, HalfOf
    <3> QED
      BY <2>1, <2>2, <2>3, <3>1 DEF PartialOf
  <2>4. CASE (Len(log) % 2) = 0
    <3>1. Complete(log) \in 1..Complete(log) /\ Len(log) = 2 * Complete(log)
      BY <2>2, <2>4, HalfOf DEF Complete
    <3>2. log[Len(log)].half = 2
      BY <3>1 DEF LogInv
    <3> QED
      BY <2>2, <2>4, <3>2 DEF PartialOf
  <2> QED
    BY <1>1, <2>3, <2>4, Half
<1> QED
  BY <1>2, <1>3

\* What the lines up to the n-th make of a tailer.
AsOf(t, n) ==
  /\ t \in Tailers /\ Begun(t)
  /\ received \o t.copied = Announced(log, n)
  /\ t.notices = Cardinality(LinesOf("notice", n))
  /\ Told(t) = Cardinality(LinesOf("error", n))
  /\ UpToDate(t.cumulative, n) /\ Below(t.cumulative, n)
  /\ left = 0 => cumulative.moved <= t.cumulative.moved

\* A line of the log is a line.
LEMMA LineIsLine ==
  ASSUME LogInv, NEW n \in 1..Complete(log)
  PROVE  LineAt(n) \in LogLines /\ 2 * n \in 1..Len(log)
<1>1. Len(log) \in Nat /\ Complete(log) = Len(log) \div 2
  BY DEF LogInv, Complete
<1>2. 2 * n \in 1..Len(log)
  BY <1>1
<1>3. log[2 * n] \in HalfLines
  BY <1>2 DEF LogInv
<1> QED
  BY <1>2, <1>3 DEF HalfLines, LineAt, LineIn

\* One more line.
LEMMA AsOfNext ==
  ASSUME LogInv, TailType, RiseInv, NEW n \in Nat, n + 1 \in 1..Complete(log),
         received \in Seq(Objects \cup Named), NEW t, AsOf(t, n)
  PROVE  AsOf(ProcessLine(t, LineAt(n + 1)), n + 1)
<1> DEFINE l == LineAt(n + 1)
           u == ProcessLine(t, l)
<1>1. l \in LogLines /\ 2 * (n + 1) \in 1..Len(log) /\ Len(log) \in Nat
  BY LineIsLine DEF LogInv
<1>2. t \in Tailers /\ Begun(t)
  BY DEF AsOf
<1>3. /\ u \in Tailers /\ Begun(u)
      /\ u.cumulative = IF l.kind = "stats" THEN TotalsOf(l) ELSE t.cumulative
      /\ u.copied = IF l.kind = "copied" THEN Append(t.copied, l.what) ELSE t.copied
      /\ u.notices = IF l.kind = "notice" THEN t.notices + 1 ELSE t.notices
      /\ Told(u) = IF l.kind = "error" THEN Told(t) + 1 ELSE Told(t)
  BY <1>1, <1>2, LineProcessed
<1>4. l = LineIn(log, n + 1) /\ l = log[2 * (n + 1)].line
  BY DEF LineAt, LineIn
<1> HIDE DEF u
<1>5. received \o u.copied = Announced(log, n + 1)
  <2>1. Announced(log, n + 1) = IF l.kind = "copied" THEN Append(Announced(log, n), l.what)
                                ELSE Announced(log, n)
    BY <1>4, AnnouncedNext
  <2>2. received \o t.copied = Announced(log, n)
    BY DEF AsOf
  <2>3. CASE l.kind = "copied"
    <3>1. t.copied \in Seq(Objects \cup Named) /\ l.what \in Objects \cup Named
      BY <1>1, <1>2, <2>3 DEF Tailers, LogLines
    <3>2. received \o Append(t.copied, l.what) = Append(received \o t.copied, l.what)
      <4>1. ASSUME NEW S, NEW r \in Seq(S), NEW c \in Seq(S), NEW x \in S
            PROVE  r \o Append(c, x) = Append(r \o c, x)
        OBVIOUS
      <4> QED
        BY SMTT(30), <3>1, <4>1
    <3> QED
      BY <1>3, <2>1, <2>2, <2>3, <3>2
  <2>4. CASE l.kind # "copied"
    BY <1>3, <2>1, <2>2, <2>4
  <2> QED
    BY <2>3, <2>4
<1>6. u.notices = Cardinality(LinesOf("notice", n + 1))
  <2>1. t.notices = Cardinality(LinesOf("notice", n))
    BY DEF AsOf
  <2> QED
    BY SMTT(30), <1>3, <2>1, CountNext
<1>7. Told(u) = Cardinality(LinesOf("error", n + 1))
  <2>1. Told(t) = Cardinality(LinesOf("error", n))
    BY DEF AsOf
  <2> QED
    BY SMTT(30), <1>3, <2>1, CountNext
<1>8. UpToDate(u.cumulative, n + 1)
  BY <1>3 DEF UpToDate
<1>9. ASSUME left = 0
      PROVE  /\ cumulative.moved <= u.cumulative.moved /\ u.cumulative.moved <= moved
             /\ \A i \in (2 * (n + 1)) + 1..Len(log) : IsStats(i) => u.cumulative.moved <= log[i].line.moved
  <2>1. /\ cumulative.moved <= t.cumulative.moved /\ t.cumulative.moved <= moved
        /\ \A i \in (2 * n) + 1..Len(log) : IsStats(i) => t.cumulative.moved <= log[i].line.moved
    BY <1>9 DEF AsOf, Below
  <2>2. CASE l.kind = "stats"
    <3>1. u.cumulative.moved = log[2 * (n + 1)].line.moved /\ IsStats(2 * (n + 1))
      BY <1>3, <1>4, <2>2 DEF TotalsOf, IsStats
    <3>2. /\ log[2 * (n + 1)].line.moved <= moved
          /\ \A j \in 2 * (n + 1)..Len(log) : IsStats(j) => log[2 * (n + 1)].line.moved <= log[j].line.moved
      BY <1>1, <1>9, <3>1 DEF RiseInv
    <3>3. t.cumulative.moved <= log[2 * (n + 1)].line.moved
      <4>1. 2 * (n + 1) \in (2 * n) + 1..Len(log)
        BY <1>1
      <4> QED
        BY <2>1, <3>1, <4>1
    <3>4. /\ cumulative.moved \in Nat /\ t.cumulative.moved \in Nat /\ moved \in Nat
          /\ log[2 * (n + 1)].line.moved \in Nat
      BY <1>1, <1>2, <1>4 DEF TailType, Totals, Tailers, LogLines
    <3>5. cumulative.moved <= u.cumulative.moved
      BY <2>1, <3>1, <3>3, <3>4
    <3>6. \A i \in (2 * (n + 1)) + 1..Len(log) : i \in 2 * (n + 1)..Len(log)
      OBVIOUS
    <3> QED
      BY <3>1, <3>2, <3>5, <3>6
  <2>3. CASE l.kind # "stats"
    <3>1. \A i \in (2 * (n + 1)) + 1..Len(log) : i \in (2 * n) + 1..Len(log)
      BY <1>1
    <3> QED
      BY <1>3, <2>1, <2>3, <3>1
  <2> QED
    BY <2>2, <2>3
<1>10. Below(u.cumulative, n + 1)
  BY <1>9 DEF Below
<1> QED
  BY <1>3, <1>5, <1>6, <1>7, <1>8, <1>9, <1>10 DEF AsOf, u

\* A poll reports what has become whole, and nothing twice.
LEMMA PollReports ==
  ASSUME LogInv, TailType, RiseInv, ReportInv
  PROVE  /\ AsOf(After, Complete(log)) /\ After.streak = NoStreak
<1>0. /\ Read \in Nat /\ Len(Chunk) \in Nat /\ Len(Chunk) = Len(log) - 2 * Read /\ Len(log) \in Nat
      /\ Read <= Complete(log) /\ Complete(log) = Len(log) \div 2 /\ 2 * Read <= Len(log)
  <2>1. /\ Read \in Nat /\ 2 * Read <= offset /\ Len(Chunk) \in Nat
        /\ Len(Chunk) = Len(log) - 2 * Read
    BY ChunkIs
  <2>2. Len(log) \in Nat /\ offset \in 0..Len(log)
    BY DEF TailType, LogInv
  <2>3. Complete(log) = Len(log) \div 2
    BY DEF Complete
  <2> QED
    BY <2>1, <2>2, <2>3
<1>1. received \in Seq(Objects \cup Named)
  <2>1. ASSUME NEW i \in 1..Read, LineIn(log, i).kind = "copied"
        PROVE  LineIn(log, i).what \in Objects \cup Named
    <3>1. i \in 1..Complete(log)
      BY <1>0
    <3>2. LineIn(log, i) \in LogLines
      BY <3>1, LineIsLine DEF LineAt
    <3> QED
      BY <3>2, <2>1 DEF LogLines
  <2> QED
    BY <1>0, <2>1, AnnouncedNames DEF ReportInv
<1>2. AsOf(Before, Read)
  <2>1. Before \in Tailers /\ Begun(Before)
    BY DEF Before, Tailers, TailType, NoStreak, Begun, Whats
  <2>2. Told(Before) = warned + summarised
    BY DEF Told, Before, NoStreak, Repeats, TailType
  <2>3. received \o <<>> = received
    BY <1>1
  <2>4. Before.copied = <<>> /\ Before.notices = notices /\ Before.cumulative = cumulative
    BY DEF Before
  <2>5. cumulative.moved \in Nat
    BY DEF TailType, Totals
  <2> QED
    BY <2>1, <2>2, <2>3, <2>4, <2>5 DEF AsOf, ReportInv
<1>a. PICK f : GoesThrough(f, Before, Chunk)
  BY <1>0, LinesProcessed
<1>3. /\ f[0] = Before /\ ProcessLines(Before, Chunk) = f[Len(Chunk)]
      /\ \A i \in 0..Len(Chunk) : i # Len(Chunk) =>
           f[i + 1] = IF WholeAt(Chunk, i + 1) THEN ProcessLine(f[i], Chunk[i + 1].line)
                      ELSE f[i]
  BY <1>a DEF GoesThrough
<1> DEFINE T == {i \in 0..Len(Chunk) : AsOf(f[i], Read + (i \div 2))}
<1>4. 0 \in T
  <2>1. 0 \in 0..Len(Chunk) /\ Read + (0 \div 2) = Read
    BY <1>0
  <2> QED
    BY <1>2, <1>3, <2>1
<1>5. ASSUME NEW i \in 0..Len(Chunk), i # Len(Chunk), i \in T PROVE i + 1 \in T
  <2>1. i + 1 \in 1..Len(Chunk) /\ i \in Nat /\ i + 1 \in 0..Len(Chunk)
    BY <1>0, <1>5
  <2>2. f[i + 1] = IF WholeAt(Chunk, i + 1) THEN ProcessLine(f[i], Chunk[i + 1].line) ELSE f[i]
    BY <1>3, <1>5
  <2>3. AsOf(f[i], Read + (i \div 2))
    BY <1>5
  <2>4. CASE ((i + 1) % 2) = 0
    <3> DEFINE n == Read + (i \div 2)
    <3>1. Read + ((i + 1) \div 2) = n + 1 /\ n \in Nat
      BY <1>0, <2>1, <2>4
    <3>2. /\ WholeAt(Chunk, i + 1) /\ Read + ((i + 1) \div 2) \in 1..Complete(log)
          /\ Chunk[i + 1].line = LineAt(Read + ((i + 1) \div 2))
      BY <2>1, <2>4, ChunkLines
    <3> HIDE DEF n
    <3>3. f[i + 1] = ProcessLine(f[i], LineAt(n + 1)) /\ n + 1 \in 1..Complete(log)
      BY <2>2, <3>1, <3>2
    <3>4. AsOf(f[i], n)
      BY <2>3 DEF n
    <3>5. AsOf(f[i + 1], n + 1)
      BY <1>1, <3>1, <3>3, <3>4, AsOfNext
    <3> QED
      BY <2>1, <3>1, <3>5
  <2>5. CASE ((i + 1) % 2) = 1
    <3>1. ~WholeAt(Chunk, i + 1)
      BY <2>1, <2>5, ChunkLines
    <3>2. (i + 1) \div 2 = i \div 2
      BY <2>1, <2>5
    <3>3. AsOf(f[i + 1], Read + ((i + 1) \div 2))
      BY <2>2, <2>3, <3>1, <3>2
    <3> QED
      BY <2>1, <3>3
  <2>6. ((i + 1) % 2) \in {0, 1}
    BY <2>1, Half
  <2> QED
    BY <2>4, <2>5, <2>6
<1>6. \A i \in 0..Len(Chunk) : i \in T
  <2> HIDE DEF T
  <2> QED
    BY <1>0, <1>4, <1>5, UpTo
<1>7. AsOf(ProcessLines(Before, Chunk), Complete(log))
  <2>0. Len(Chunk) \in 0..Len(Chunk)
    BY <1>0
  <2>1. Len(Chunk) \in T
    <3> HIDE DEF T
    <3> QED
      BY <2>0, <1>6
  <2>2. Read + (Len(Chunk) \div 2) = Complete(log)
    BY <1>0
  <2> QED
    BY <1>3, <2>1, <2>2
<1> DEFINE t == ProcessLines(Before, Chunk)
<1> HIDE DEF t
<1>8. AsOf(t, Complete(log)) /\ After = FlushStreak(t)
  BY <1>7 DEF t, After
<1>9. /\ After \in Tailers /\ After.streak = NoStreak
      /\ After.cumulative = t.cumulative /\ After.copied = t.copied
      /\ After.notices = t.notices /\ After.warned = t.warned
      /\ After.summarised = t.summarised + Repeats(t.streak)
  BY <1>8, Flushed DEF AsOf
<1>10. Begun(After) /\ Told(After) = Told(t)
  <2>1. Repeats(NoStreak) = 0 /\ NoStreak.cause = "none"
    BY DEF Repeats, NoStreak
  <2>2. t.warned \in Nat /\ t.summarised \in Nat /\ Repeats(t.streak) \in Nat
    BY <1>8 DEF AsOf, Tailers, Repeats
  <2> QED
    BY <1>9, <2>1, <2>2 DEF Begun, Told
<1> QED
  BY <1>8, <1>9, <1>10 DEF AsOf

-----------------------------------------------------------------------------
(* The log and the tailer, step by step. *)

\* What the tailer is about and what it has reported.
told == <<command, left, moved, tailer, metered, received, warned, summarised, notices>>

\* Nothing of the log or of the tailer changes.
LEMMA TailerStays ==
  ASSUME TailerInv, UNCHANGED <<log, told>>, errors' \in Nat, faults' \in Nat
  PROVE  TailerInv'
<1>1. LogInv'
  BY DEF TailerInv, LogInv, Complete, LineAt, LineIn, InMidLine
<1>2. TailType'
  BY DEF TailerInv, TailType, told, tailer
<1>3. RiseInv'
  BY DEF TailerInv, RiseInv, told, IsStats
<1>4. Read' = Read /\ \A kind : LinesOf(kind, Read)' = LinesOf(kind, Read)
  BY DEF Read, told, tailer, LinesOf, LineAt, LineIn
<1>5. ReportInv'
  BY <1>4 DEF TailerInv, ReportInv, UpToDate, Below, IsStats, LineAt, LineIn, told, tailer
<1> QED
  BY <1>1, <1>2, <1>3, <1>5 DEF TailerInv

\* Half a line more.
LEMMA HalfMore ==
  ASSUME LogInv, NEW h \in HalfLines, log' = Append(log, h)
  PROVE  /\ Len(log)' = Len(log) + 1 /\ Len(log) \in Nat /\ log' \in Seq(HalfLines)
         /\ log'[Len(log) + 1] = h
         /\ \A i \in 1..Len(log) : log'[i] = log[i]
         /\ InMidLine => Len(log) = (2 * Complete(log)) + 1 /\ Complete(log)' = Complete(log) + 1
         /\ ~InMidLine => Len(log) = 2 * Complete(log) /\ Complete(log)' = Complete(log)
         /\ Complete(log) \in Nat
         /\ \A i \in 1..Complete(log) : LineAt(i)' = LineAt(i)
<1>1. log \in Seq(HalfLines) /\ Len(log) \in Nat
  BY DEF LogInv
<1>2. /\ Len(log)' = Len(log) + 1 /\ log' \in Seq(HalfLines)
      /\ log'[Len(log) + 1] = h
      /\ \A i \in 1..Len(log) : log'[i] = log[i]
  BY <1>1
<1>3. Complete(log) = Len(log) \div 2 /\ Complete(log)' = (Len(log) + 1) \div 2
  BY <1>2 DEF Complete
<1>4. InMidLine <=> Len(log) % 2 = 1
  BY DEF InMidLine
<1>5. /\ InMidLine => Len(log) = (2 * Complete(log)) + 1 /\ Complete(log)' = Complete(log) + 1
      /\ ~InMidLine => Len(log) = 2 * Complete(log) /\ Complete(log)' = Complete(log)
      /\ Complete(log) \in Nat
  BY <1>1, <1>3, <1>4
<1>6. ASSUME NEW i \in 1..Complete(log) PROVE LineAt(i)' = LineAt(i)
  <2>1. 2 * i \in 1..Len(log)
    BY <1>1, <1>5
  <2> QED
    BY <1>2, <2>1 DEF LineAt, LineIn
<1> QED
  BY <1>1, <1>2, <1>5, <1>6

\* The log grows behind what the tailer has read.
LEMMA LogGrows ==
  ASSUME TailerInv, NEW h \in HalfLines, log' = Append(log, h),
         InMidLine => h = [line |-> log[Len(log)].line, half |-> 2],
         ~InMidLine => h.half = 1 /\ (h.line.kind = "stats" => h.line.moved = moved),
         moved' \in Nat, moved <= moved', errors' \in Nat,
         UNCHANGED <<command, left, tailer, reports>>
  PROVE  TailerInv'
<1>0. LogInv /\ TailType /\ RiseInv /\ ReportInv
  BY DEF TailerInv
<1>1. /\ Len(log)' = Len(log) + 1 /\ Len(log) \in Nat /\ log' \in Seq(HalfLines)
      /\ log'[Len(log) + 1] = h
      /\ \A i \in 1..Len(log) : log'[i] = log[i]
      /\ InMidLine => Len(log) = (2 * Complete(log)) + 1 /\ Complete(log)' = Complete(log) + 1
      /\ ~InMidLine => Len(log) = 2 * Complete(log) /\ Complete(log)' = Complete(log)
      /\ Complete(log) \in Nat
      /\ \A i \in 1..Complete(log) : LineAt(i)' = LineAt(i)
  BY <1>0, HalfMore
<1>2. offset \in 0..Len(log) /\ moved \in Nat /\ offset' = offset /\ left' = left /\ cumulative' = cumulative
  BY <1>0 DEF TailType, tailer
<1>3. \A i \in 1..Len(log) : log[i] \in HalfLines
  BY <1>0 DEF LogInv
<1>4. LogInv'
  <2>1. ASSUME NEW k \in 1..Complete(log)
        PROVE  log'[2 * k].half = 2 /\ log'[(2 * k) - 1] = [line |-> LineAt(k)', half |-> 1]
    <3>1. 2 * k \in 1..Len(log) /\ (2 * k) - 1 \in 1..Len(log)
      BY SMTT(30), <1>1, <2>1
    <3>2. log[2 * k].half = 2 /\ log[(2 * k) - 1] = [line |-> LineAt(k), half |-> 1]
      BY <1>0 DEF LogInv
    <3> QED
      BY <1>1, <3>1, <3>2
  <2>2. CASE InMidLine
    <3>0. PICK n \in Nat : n = Complete(log) + 1
      BY <1>1
    <3>1. 2 * n = Len(log) + 1 /\ (2 * n) - 1 = Len(log) /\ Len(log) \in 1..Len(log)
      BY <1>1, <2>2, <3>0
    <3>2. log[Len(log)] = [line |-> h.line, half |-> 1]
      BY <1>0, <1>3, <2>2, <3>1 DEF LogInv, HalfLines
    <3>3. log'[2 * n] = h /\ LineAt(n)' = h.line /\ log'[(2 * n) - 1] = [line |-> h.line, half |-> 1]
      BY <1>1, <3>1, <3>2 DEF LineAt, LineIn
    <3>4. h.half = 2
      BY <2>2
    <3>5. \A k \in 1..Complete(log)' : k \in 1..Complete(log) \/ k = n
      BY <1>1, <2>2, <3>0
    <3>6. ~InMidLine'
      <4>1. Len(log)' = 2 * n
        BY <1>1, <3>1
      <4> QED
        BY <3>0, <4>1, EvenOdd DEF InMidLine
    <3>7. \A k \in 1..Complete(log)' :
            log'[2 * k].half = 2 /\ log'[(2 * k) - 1] = [line |-> LineAt(k)', half |-> 1]
      BY <2>1, <3>3, <3>4, <3>5
    <3> QED
      BY <1>1, <3>6, <3>7 DEF LogInv
  <2>3. CASE ~InMidLine
    <3>1. log'[Len(log)'].half = 1
      BY <1>1, <2>3
    <3> QED
      BY <1>1, <2>1, <2>3, <3>1 DEF LogInv
  <2> QED
    BY <2>2, <2>3
<1>5. TailType'
  <2>0. offset \in 0..Len(log) /\ Len(log) \in Nat
    BY <1>1, <1>2
  <2>1. offset % 2 = 1 => offset \in 1..Len(log)
    BY <2>0
  <2>2. partial' = IF offset' % 2 = 1 THEN <<log'[offset']>> ELSE <<>>
    BY <1>0, <1>1, <1>2, <2>1 DEF TailType, tailer
  <2>3. offset' \in 0..Len(log)'
    BY <1>1, <1>2
  <2> QED
    BY <1>0, <2>2, <2>3 DEF TailType, tailer, reports
<1>6. ASSUME NEW i \in 1..Len(log) PROVE IsStats(i)' = IsStats(i) /\ log'[i].line = log[i].line
  BY <1>1 DEF IsStats
<1>e. PICK e \in Nat : e = Len(log) + 1
  BY <1>1
<1>7. ASSUME IsStats(e)'
      PROVE  /\ log'[e].line.moved = h.line.moved /\ h.line.moved \in Nat
             /\ left = 0 => h.line.moved <= moved'
             /\ InMidLine => Len(log) \in 1..Len(log) /\ IsStats(Len(log))
                             /\ log[Len(log)].line.moved = h.line.moved
             /\ ~InMidLine => h.line.moved = moved
  <2>1. h.line.kind = "stats" /\ h.line.moved \in Nat
    BY <1>1, <1>7, <1>e DEF IsStats, HalfLines, LogLines
  <2>2. CASE InMidLine
    <3>1. Len(log) \in 1..Len(log) /\ log[Len(log)].line = h.line
      BY <1>1, <2>2
    <3>2. IsStats(Len(log)) /\ log[Len(log)].line.moved = h.line.moved
      BY <2>1, <3>1 DEF IsStats
    <3>3. left = 0 => h.line.moved <= moved
      BY <1>0, <3>1, <3>2 DEF RiseInv
    <3> QED
      BY <1>1, <1>2, <1>e, <2>1, <2>2, <3>1, <3>2, <3>3
  <2>3. CASE ~InMidLine
    BY <1>1, <1>2, <1>e, <2>1, <2>3
  <2> QED
    BY <2>2, <2>3
<1>8. RiseInv'
  <2>1. SUFFICES ASSUME left = 0, NEW i \in 1..(Len(log) + 1), IsStats(i)'
        PROVE  /\ log'[i].line.moved <= moved'
               /\ \A j \in i..(Len(log) + 1) : IsStats(j)' => log'[i].line.moved <= log'[j].line.moved
    BY <1>1, <1>2 DEF RiseInv
  <2>2. CASE i = e
    <3>1. \A j \in i..(Len(log) + 1) : j = i
      BY <1>1, <1>e, <2>2
    <3>2. log'[i].line.moved \in Nat /\ log'[i].line.moved <= moved'
      BY <1>7, <2>1, <2>2
    <3> QED
      BY <3>1, <3>2
  <2>3. CASE i \in 1..Len(log)
    <3>1. /\ IsStats(i) /\ log'[i].line.moved = log[i].line.moved /\ log[i].line.moved \in Nat
      BY <1>3, <1>6, <2>1, <2>3 DEF HalfLines, LogLines
    <3>2. /\ log[i].line.moved <= moved
          /\ \A j \in i..Len(log) : IsStats(j) => log[i].line.moved <= log[j].line.moved
      BY <1>0, <2>1, <2>3, <3>1 DEF RiseInv
    <3>3. log'[i].line.moved <= moved'
      BY <1>2, <3>1, <3>2
    <3>4. ASSUME NEW j \in i..(Len(log) + 1), IsStats(j)'
          PROVE  log'[i].line.moved <= log'[j].line.moved
      <4>1. CASE j = e
        <5>1. InMidLine => Len(log) \in i..Len(log)
          BY <1>1, <2>3
        <5> QED
          BY <1>7, <3>1, <3>2, <3>4, <4>1, <5>1
      <4>2. CASE j # e
        <5>1. j \in i..Len(log) /\ j \in 1..Len(log)
          BY <1>1, <1>e, <2>3, <3>4, <4>2
        <5> QED
          BY <1>6, <3>1, <3>2, <3>4, <5>1
      <4> QED
        BY <4>1, <4>2
    <3> QED
      BY <3>3, <3>4
  <2> QED
    BY <1>1, <1>e, <2>2, <2>3
<1>9. ReportInv'
  <2>1. Read \in Nat /\ Read' = Read /\ 2 * Read <= offset /\ offset <= 2 * Read + 1
        /\ Read <= Complete(log)
    BY <1>0, <1>1, <1>2, ChunkIs DEF Read, Complete
  <2>2. \A i \in 1..Read : LineAt(i)' = LineAt(i)
    BY <1>1, <2>1
  <2>3. Announced(log, Read)' = Announced(log, Read)
    <3>1. \A i \in 1..Read : LineIn(log', i) = LineIn(log, i)
      BY <2>2 DEF LineAt
    <3>2. Announced(log', Read) = Announced(log, Read)
      BY <2>1, <3>1, AnnouncedSame
    <3> QED
      BY <2>1, <3>2
  <2>4. \A kind : LinesOf(kind, Read)' = LinesOf(kind, Read)
    BY <2>1, <2>2 DEF LinesOf
  <2>5. UpToDate(cumulative, Read)'
    <3>1. Read > 0 => LineAt(Read)' = LineAt(Read)
      BY <2>1, <2>2
    <3> QED
      BY <1>0, <1>2, <2>1, <3>1 DEF ReportInv, UpToDate
  <2>6. ASSUME left = 0
        PROVE  /\ cumulative.moved <= moved'
               /\ \A i \in (2 * Read) + 1..(Len(log) + 1) :
                    IsStats(i)' => cumulative.moved <= log'[i].line.moved
    <3>1. /\ cumulative.moved <= moved
          /\ \A i \in (2 * Read) + 1..Len(log) : IsStats(i) => cumulative.moved <= log[i].line.moved
      BY <1>0, <2>6 DEF ReportInv, Below
    <3>2. cumulative.moved \in Nat
      BY <1>0 DEF TailType, Totals
    <3>3. cumulative.moved <= moved'
      BY <1>2, <3>1, <3>2
    <3>4. ASSUME NEW i \in (2 * Read) + 1..(Len(log) + 1), IsStats(i)'
          PROVE  cumulative.moved <= log'[i].line.moved
      <4>1. CASE i = e
        <5>1. InMidLine => Len(log) \in (2 * Read) + 1..Len(log)
          BY <1>1, <1>2, <2>1
        <5> QED
          BY <1>7, <3>1, <3>4, <4>1, <5>1
      <4>2. CASE i # e
        <5>1. i \in (2 * Read) + 1..Len(log) /\ i \in 1..Len(log)
          BY <1>1, <1>e, <2>1, <4>2
        <5> QED
          BY <1>6, <3>1, <3>4, <5>1
      <4> QED
        BY <4>1, <4>2
    <3> QED
      BY <3>3, <3>4
  <2>7. Below(cumulative, Read)'
    BY <1>1, <1>2, <2>1, <2>6 DEF Below
  <2> QED
    BY <1>0, <1>2, <2>1, <2>3, <2>4, <2>5, <2>7 DEF ReportInv, reports
<1> QED
  BY <1>4, <1>5, <1>8, <1>9 DEF TailerInv

\* A poll, wherever it ends.
LEMMA PollKeeps ==
  ASSUME TailerInv, Poll, UNCHANGED <<log, command, left, moved, errors>>, faults' \in Nat
  PROVE  /\ TailerInv' /\ offset' = Len(log) /\ received' = Announced(log, Complete(log))
         /\ \E more \in Seq(Objects \cup Named) : received' = received \o more
<1>0. LogInv /\ TailType /\ RiseInv /\ ReportInv
  BY DEF TailerInv
<1>1. AsOf(After, Complete(log)) /\ After.streak = NoStreak
  BY <1>0, PollReports
<1>2. /\ offset' = Len(log) /\ partial' = PartialOf(Chunk) /\ cumulative' = After.cumulative
      /\ metered' = [moved |-> metered.moved + Over(After.cumulative.moved, cumulative.moved),
                     errors |-> metered.errors + Over(After.cumulative.errors, cumulative.errors)]
      /\ received' = received \o After.copied
      /\ notices' = After.notices /\ warned' = After.warned /\ summarised' = After.summarised
  BY DEF Poll, After, Before, Chunk
<1>3. Len(log) \in Nat /\ Read' = Complete(log) /\ Complete(log) \in Nat
  BY <1>0, <1>2 DEF Read, Complete, LogInv
<1>4. After \in Tailers /\ warned' + summarised' = Told(After)
  <2>1. After \in Tailers
    BY <1>1 DEF AsOf
  <2>2. Told(After) = After.warned + After.summarised + 0
    BY <1>1 DEF Told, Repeats, NoStreak
  <2> QED
    BY <1>2, <2>1, <2>2 DEF Tailers
<1>5. LogInv' /\ RiseInv'
  BY <1>0 DEF LogInv, RiseInv, Complete, LineAt, LineIn, InMidLine, IsStats
<1>6. /\ metered.moved \in Nat /\ metered.errors \in Nat
      /\ cumulative.moved \in Nat /\ cumulative.errors \in Nat
      /\ After.cumulative \in Totals
      /\ After.cumulative.moved \in Nat /\ After.cumulative.errors \in Nat
  BY <1>0, <1>4 DEF TailType, Tailers, Totals
<1>7. /\ Over(After.cumulative.moved, cumulative.moved) \in Nat
      /\ Over(After.cumulative.errors, cumulative.errors) \in Nat
  BY <1>6 DEF Over
<1>8. TailType'
  <2>1. partial' = IF offset' % 2 = 1 THEN <<log'[offset']>> ELSE <<>>
    BY <1>0, <1>2, PartialIs
  <2>2. metered' \in Totals
    BY <1>2, <1>6, <1>7 DEF Totals
  <2>3. notices' \in Nat /\ warned' \in Nat /\ summarised' \in Nat
    BY <1>2, <1>4 DEF Tailers
  <2> QED
    BY <1>0, <1>2, <1>3, <1>6, <2>1, <2>2, <2>3 DEF TailType
<1>9. ReportInv'
  <2>1. received' = Announced(log, Complete(log))
    BY <1>1, <1>2 DEF AsOf
  <2>2. notices' = Cardinality(LinesOf("notice", Complete(log)))
        /\ warned' + summarised' = Cardinality(LinesOf("error", Complete(log)))
    BY <1>1, <1>2, <1>4 DEF AsOf
  <2>3. \A kind : LinesOf(kind, Read)' = LinesOf(kind, Complete(log))
    BY <1>3 DEF LinesOf, LineAt, LineIn
  <2>4. UpToDate(cumulative, Read)'
    BY <1>1, <1>2, <1>3 DEF AsOf, UpToDate, LineAt, LineIn
  <2>5. Below(cumulative, Read)'
    BY <1>1, <1>2, <1>3 DEF AsOf, Below, IsStats
  <2>6. command \in Streamed /\ left = 0 =>
          metered'.moved = cumulative'.moved /\ metered'.errors >= cumulative'.errors
    <3>1. SUFFICES ASSUME command \in Streamed, left = 0
          PROVE metered'.moved = cumulative'.moved /\ metered'.errors >= cumulative'.errors
      OBVIOUS
    <3>2. metered.moved = cumulative.moved /\ metered.errors >= cumulative.errors
      BY <1>0, <3>1 DEF ReportInv
    <3>3. cumulative.moved <= After.cumulative.moved
      BY <1>1, <3>1 DEF AsOf
    <3>4. /\ metered'.moved = metered.moved + Over(After.cumulative.moved, cumulative.moved)
          /\ metered'.errors = metered.errors + Over(After.cumulative.errors, cumulative.errors)
          /\ cumulative' = After.cumulative
      BY <1>2
    <3> QED
      BY <1>6, <3>2, <3>3, <3>4 DEF Over
  <2> QED
    BY <1>3, <2>1, <2>2, <2>3, <2>4, <2>5, <2>6 DEF ReportInv
<1> QED
  BY <1>1, <1>2, <1>4, <1>5, <1>8, <1>9 DEF TailerInv, AsOf, Tailers

-----------------------------------------------------------------------------
(* The steps of rclone. *)

\* Initially the log is what an earlier invocation left, and nothing of it is read.
LEMMA InitCommand == Init => CommandInv
<1> SUFFICES ASSUME Init PROVE CommandInv
  OBVIOUS
<1>1. /\ Earlier \in Seq(LogLines) /\ Attempts \in [OneShot -> Nat \ {0}] /\ PipeSize \in Nat
      /\ MaxStderr \in Nat
  BY RcloneAssumption
<1>2. left \in 0..Len(Earlier) /\ Len(Earlier) \in Nat /\ (command \in OneShot => left = 0)
  BY <1>1 DEF Init, OneShot, Streamed
<1> DEFINE lines == SubSeq(Earlier, 1, left)
<1>3. lines \in Seq(LogLines) /\ Len(lines) = left
  BY <1>1, <1>2
<1>4. log = Halves(lines)
  BY DEF Init
<1> HIDE DEF lines
<1>5. /\ log \in Seq(HalfLines) /\ Len(log) = 2 * left
      /\ \A i \in 1..(2 * left) :
           log[i] = [line |-> lines[(i + 1) \div 2], half |-> IF i % 2 = 1 THEN 1 ELSE 2]
  <2>1. \A i \in 1..(2 * left) : (i + 1) \div 2 \in 1..left
    BY <1>2
  <2>2. \A k \in 1..left : lines[k] \in LogLines
    BY <1>3
  <2>3. /\ 2 * left \in Nat /\ DOMAIN log = 1..(2 * left)
        /\ log = [i \in 1..(2 * left) |-> log[i]]
        /\ \A i \in 1..(2 * left) :
             log[i] = [line |-> lines[(i + 1) \div 2], half |-> IF i % 2 = 1 THEN 1 ELSE 2]
    BY <1>2, <1>3, <1>4 DEF Halves
  <2>4. \A i \in 1..(2 * left) : log[i] \in HalfLines
    BY <2>1, <2>2, <2>3 DEF HalfLines
  <2> QED
    BY <2>3, <2>4
<1>6. Complete(log) = left /\ ~InMidLine /\ left \in Nat
  <2>1. left \in Nat /\ Len(log) = 2 * left
    BY <1>2, <1>5
  <2> QED
    BY <2>1, EvenOdd DEF Complete, InMidLine
<1>7. LogInv
  <2>1. ASSUME NEW k \in 1..left
        PROVE  log[2 * k].half = 2 /\ log[(2 * k) - 1] = [line |-> LineAt(k), half |-> 1]
    <3>1. /\ 2 * k \in 1..(2 * left) /\ (2 * k) % 2 = 0 /\ ((2 * k) + 1) \div 2 = k
          /\ (2 * k) - 1 \in 1..(2 * left) /\ ((2 * k) - 1) % 2 = 1
          /\ (((2 * k) - 1) + 1) \div 2 = k
      BY <1>2, <2>1
    <3> QED
      BY <1>5, <3>1 DEF LineAt, LineIn
  <2> QED
    BY <1>5, <1>6, <2>1 DEF LogInv
<1>8. TailType
  BY <1>5, <1>6 DEF Init, TailType, Totals
<1>9. RiseInv
  BY <1>5 DEF RiseInv
<1>10. ReportInv
  <2>1. Read = 0
    BY DEF Read, Init
  <2>2. Announced(log, Read) = <<>> /\ \A kind : Cardinality(LinesOf(kind, Read)) = 0
    BY <2>1, AnnouncedNone, CountNone
  <2>3. Below(cumulative, Read)
    BY <1>5, <2>1 DEF Init, Below
  <2>4. UpToDate(cumulative, Read)
    BY <2>1 DEF UpToDate
  <2> QED
    BY <2>2, <2>3, <2>4 DEF Init, ReportInv
<1>11. StageInv
  <2>1. left = 0 => log = <<>>
    BY <1>5
  <2> QED
    BY <1>2, <1>6, <2>1 DEF Init, StageInv, Exited
<1>12. EndInv
  BY DEF Init, EndInv
<1>13. OneShotInv
  <2>1. missingOk \in BOOLEAN /\ toStderr \in 0..MaxStderr /\ pipe \in 0..PipeSize
    <3>1. missingOk \in BOOLEAN
      BY DEF Init
    <3>2. toStderr = 0 \/ toStderr = MaxStderr
      BY DEF Init
    <3>3. pipe = 0
      BY DEF Init
    <3> QED
      BY <1>1, <3>1, <3>2, <3>3
  <2>2. there \in {"absent", "nothing", "objects"} /\ listing = "none" /\ result = "none"
    BY DEF Init
  <2>3. command \in OneShot => attempt \in 0..Attempts[command] /\ attempt < Attempts[command]
    BY <1>1 DEF Init
  <2> QED
    BY <2>1, <2>2, <2>3 DEF OneShotInv
<1> QED
  BY <1>7, <1>8, <1>9, <1>10, <1>11, <1>12, <1>13 DEF CommandInv, TailerInv

\* A line begun.
LEMMA BeginsKeeps ==
  ASSUME CommandInv, NEW line \in LogLines, Begins(line),
         line.kind = "stats" => line.moved = moved,
         moved' \in Nat, moved <= moved', errors' \in Nat
  PROVE  CommandInv'
<1>1. child = "running" /\ ~InMidLine /\ log' = Append(log, [line |-> line, half |-> 1])
  BY DEF Begins
<1>2. TailerInv'
  <2>1. [line |-> line, half |-> 1] \in HalfLines
    BY DEF HalfLines
  <2> QED
    BY <1>1, <2>1, LogGrows DEF Begins, CommandInv, shell
<1>3. stage = "waiting" /\ result = "none" /\ command \in Streamed /\ command \notin OneShot
  BY <1>1 DEF CommandInv, StageInv, Streamed, OneShot
<1>4. StageInv'
  BY <1>3 DEF Begins, CommandInv, StageInv, shell, reports
<1>5. EndInv'
  BY <1>1, <1>3 DEF Begins, EndInv
<1>6. OneShotInv'
  BY <1>3 DEF Begins, CommandInv, OneShotInv, shell, oneShot
<1> QED
  BY <1>2, <1>4, <1>5, <1>6 DEF CommandInv

\* A line ended.
LEMMA EndsLineKeeps == CommandInv /\ EndsLine => CommandInv'
<1> SUFFICES ASSUME CommandInv, EndsLine PROVE CommandInv'
  OBVIOUS
<1>1. child = "running" /\ InMidLine /\ log' = Append(log, [line |-> log[Len(log)].line, half |-> 2])
  BY DEF EndsLine
<1>2. log \in Seq(HalfLines) /\ moved \in Nat /\ errors \in Nat
  BY DEF CommandInv, TailerInv, LogInv, TailType
<1>3. Len(log) \in 1..Len(log)
  BY <1>1, <1>2 DEF InMidLine
<1>4. [line |-> log[Len(log)].line, half |-> 2] \in HalfLines
  <2>1. log[Len(log)] \in HalfLines
    BY <1>2, <1>3
  <2> QED
    BY <2>1 DEF HalfLines
<1>5. TailerInv'
  BY <1>1, <1>2, <1>4, LogGrows DEF EndsLine, CommandInv, shell
<1>6. stage = "waiting" /\ result = "none" /\ command \in Streamed /\ command \notin OneShot
  BY <1>1 DEF CommandInv, StageInv, Streamed, OneShot
<1>7. StageInv'
  BY <1>6 DEF EndsLine, CommandInv, StageInv, shell, reports
<1>8. EndInv'
  BY <1>1, <1>6 DEF EndsLine, EndInv
<1>9. OneShotInv'
  BY <1>6 DEF EndsLine, CommandInv, OneShotInv, shell, oneShot
<1> QED
  BY <1>5, <1>7, <1>8, <1>9 DEF CommandInv

\* What rclone does, in its own time.
LEMMA RcloneKeeps == CommandInv /\ RcloneStep => CommandInv'
<1> SUFFICES ASSUME CommandInv, RcloneStep PROVE CommandInv'
  OBVIOUS
<1>0. moved \in Nat /\ errors \in Nat /\ "none" \notin Causes /\ faults \in Nat
  BY RcloneAssumption DEF CommandInv, TailerInv, TailType
<1>1. ASSUME NEW o \in Objects, Copies(o) PROVE CommandInv'
  <2>1. Line("copied", o) \in LogLines /\ Line("copied", o).kind # "stats"
    BY DEF Line, LogLines
  <2> QED
    BY <1>0, <1>1, <2>1, BeginsKeeps DEF Copies
<1>2. ASSUME MovesUnannounced PROVE CommandInv'
  <2>1. Line("other", "none") \in LogLines /\ Line("other", "none").kind # "stats"
    BY DEF Line, LogLines
  <2> QED
    BY <1>0, <1>2, <2>1, BeginsKeeps DEF MovesUnannounced
<1>3. ASSUME NEW c \in Causes, Errs(c) PROVE CommandInv'
  <2>1. Line("error", c) \in LogLines /\ Line("error", c).kind # "stats"
    BY <1>0 DEF Line, LogLines
  <2> QED
    BY <1>0, <1>3, <2>1, BeginsKeeps DEF Errs
<1>4. ASSUME Notices PROVE CommandInv'
  <2>1. Line("notice", "none") \in LogLines /\ Line("notice", "none").kind # "stats"
    BY DEF Line, LogLines
  <2> QED
    BY <1>0, <1>4, <2>1, BeginsKeeps DEF Notices
<1>5. ASSUME LogsStats PROVE CommandInv'
  <2>1. Stats(moved, errors) \in LogLines /\ Stats(moved, errors).moved = moved
    BY <1>0 DEF Stats, LogLines
  <2> QED
    BY <1>0, <1>5, <2>1, BeginsKeeps DEF LogsStats
<1>6. ASSUME RetriesAll PROVE CommandInv'
  <2>1. TailerInv'
    BY <1>0, <1>6, TailerStays DEF RetriesAll, CommandInv, told, shell, reports
  <2>2. StageInv'
    BY <1>6 DEF RetriesAll, CommandInv, StageInv, shell, reports
  <2>3. EndInv'
    BY <1>6 DEF RetriesAll, CommandInv, EndInv, StageInv, shell, reports
  <2>4. OneShotInv'
    BY <1>6 DEF RetriesAll, CommandInv, OneShotInv, shell, oneShot
  <2> QED
    BY <2>1, <2>2, <2>3, <2>4 DEF CommandInv
<1> QED
  BY <1>1, <1>2, <1>3, <1>4, <1>5, <1>6 DEF RcloneStep

\* The end of rclone.
LEMMA EndsKeep == CommandInv /\ (WritesStderr \/ Exits \/ Killed \/ Drain) => CommandInv'
<1>0. ASSUME CommandInv, WritesStderr \/ Exits \/ Killed \/ Drain
      PROVE  TailerInv' /\ UNCHANGED <<shell, stage, result, log, moved, errors, tailer, reports, oneShot>>
  <2>1. UNCHANGED <<shell, stage, result, log, moved, errors, tailer, reports, oneShot>>
    BY <1>0 DEF WritesStderr, Exits, Killed, Drain
  <2>2. errors' \in Nat /\ faults' \in Nat
    BY <1>0, <2>1 DEF CommandInv, TailerInv, TailType, reports
  <2> QED
    BY <1>0, <2>1, <2>2, TailerStays DEF CommandInv, told, shell, reports
<1>1. ASSUME CommandInv, WritesStderr PROVE CommandInv'
  <2>1. TailerInv'
    BY <1>0, <1>1
  <2>2. StageInv'
    BY <1>1 DEF WritesStderr, CommandInv, StageInv, shell, reports
  <2>3. EndInv'
    BY <1>1 DEF WritesStderr, CommandInv, EndInv, EndedWell, shell, tailer, reports, Complete, LineAt, LineIn
  <2>4. OneShotInv'
    BY <1>1, RcloneAssumption DEF WritesStderr, CommandInv, OneShotInv, shell, oneShot
  <2> QED
    BY <2>1, <2>2, <2>3, <2>4 DEF CommandInv
<1>2. ASSUME CommandInv, Drain PROVE CommandInv'
  <2>1. TailerInv'
    BY <1>0, <1>2
  <2>2. StageInv'
    BY <1>2 DEF Drain, CommandInv, StageInv, shell, reports
  <2>3. EndInv'
    BY <1>2 DEF Drain, CommandInv, EndInv, EndedWell, shell, tailer, reports, Complete, LineAt, LineIn
  <2>4. OneShotInv'
    BY <1>2, RcloneAssumption DEF Drain, CommandInv, OneShotInv, shell, oneShot
  <2> QED
    BY <2>1, <2>2, <2>3, <2>4 DEF CommandInv
<1>3. ASSUME CommandInv, Exits \/ Killed PROVE CommandInv'
  <2>0. /\ child = "running" /\ stage = "waiting" /\ result = "none" /\ child' \in Exited
        /\ UNCHANGED <<shell, stage, result, log, moved, errors, toStderr, pipe, tailer, reports, oneShot>>
    BY <1>3 DEF Exits, Killed, Exited, CommandInv, StageInv
  <2>1. TailerInv'
    BY <1>0, <1>3
  <2>2. StageInv'
    BY <1>3, <2>0 DEF CommandInv, StageInv, shell, reports, Exited
  <2>3. child' = "exited0" => EndedWell'
    <3>1. SUFFICES ASSUME child' = "exited0" PROVE EndedWell'
      OBVIOUS
    <3>2. /\ ~InMidLine /\ Logged > 0 /\ errors = 0
          /\ LineAt(Complete(log)) = Stats(moved, errors)
      BY <1>3, <3>1 DEF Exits, Killed
    <3>3. Len(log) \in Nat /\ left \in Nat
      BY <1>3 DEF CommandInv, TailerInv, LogInv, StageInv
    <3>4. Complete(log) > 0 /\ Len(log) = 2 * Complete(log)
      BY <3>2, <3>3 DEF Logged, Complete, InMidLine
    <3> QED
      BY <2>0, <3>2, <3>4 DEF EndedWell, Complete, LineAt, LineIn
  <2>4. EndInv'
    BY <2>0, <2>3 DEF EndInv
  <2>5. OneShotInv'
    BY <1>3, <2>0 DEF CommandInv, OneShotInv, shell, oneShot
  <2> QED
    BY <2>1, <2>2, <2>4, <2>5 DEF CommandInv
<1> QED
  BY <1>1, <1>2, <1>3

-----------------------------------------------------------------------------
(* The steps of the command. *)

\* No command is of both kinds.
LEMMA TwoKinds == Streamed \cap OneShot = {}
BY DEF Streamed, OneShot

\* A streamed command's, up to its end.
LEMMA StreamedKeeps == CommandInv /\ (Spawn \/ Tick \/ SeeExit \/ LastPoll \/ FinishStreamed) => CommandInv'
<1>1. ASSUME CommandInv, Spawn PROVE CommandInv'
  <2>1. TailerInv'
    BY <1>1, TailerStays DEF Spawn, CommandInv, TailerInv, TailType, told, shell, reports
  <2>2. StageInv'
    BY <1>1, TwoKinds DEF Spawn, CommandInv, StageInv, shell, reports, Exited
  <2>3. EndInv'
    BY <1>1 DEF Spawn, CommandInv, EndInv, StageInv, EndedWell, shell, tailer, reports, Complete, LineAt, LineIn
  <2>4. OneShotInv'
    BY <1>1, TwoKinds DEF Spawn, CommandInv, OneShotInv, shell, oneShot, Streamed
  <2> QED
    BY <2>1, <2>2, <2>3, <2>4 DEF CommandInv
<1>2. ASSUME CommandInv, Tick PROVE CommandInv'
  <2>0. /\ stage = "waiting" /\ result = "none" /\ faults \in Nat /\ errors \in Nat /\ MaxFaults \in Nat
        /\ UNCHANGED <<shell, stage, result, rclone, unread, oneShot>>
    BY <1>2, RcloneAssumption DEF Tick, CommandInv, StageInv, TailerInv, TailType
  <2>1. TailerInv'
    <3>1. CASE Poll /\ UNCHANGED faults
      BY <1>2, <2>0, <3>1, PollKeeps DEF CommandInv, shell, rclone
    <3>2. CASE PollFails
      <4>1. faults' \in Nat
        BY <2>0, <3>2 DEF PollFails
      <4> QED
        BY <1>2, <2>0, <3>2, <4>1, TailerStays DEF PollFails, CommandInv, told, shell, rclone
    <3> QED
      BY <1>2, <3>1, <3>2 DEF Tick
  <2>2. StageInv'
    BY <1>2, <2>0 DEF CommandInv, StageInv, shell, rclone
  <2>3. EndInv'
    BY <1>2, <2>0 DEF CommandInv, EndInv, EndedWell, shell, rclone, Complete, LineAt, LineIn
  <2>4. OneShotInv'
    BY <1>2, <2>0 DEF CommandInv, OneShotInv, shell, rclone, oneShot
  <2> QED
    BY <2>1, <2>2, <2>3, <2>4 DEF CommandInv
<1>3. ASSUME CommandInv, SeeExit PROVE CommandInv'
  <2>1. TailerInv'
    BY <1>3, TailerStays DEF SeeExit, CommandInv, TailerInv, TailType, told, shell, reports, rclone
  <2>2. StageInv'
    BY <1>3, TwoKinds DEF SeeExit, CommandInv, StageInv, shell, reports, rclone, Exited
  <2>3. EndInv'
    BY <1>3 DEF SeeExit, CommandInv, EndInv, StageInv, EndedWell, shell, tailer, reports, rclone, Complete, LineAt, LineIn
  <2>4. OneShotInv'
    BY <1>3 DEF SeeExit, CommandInv, OneShotInv, shell, oneShot, rclone
  <2> QED
    BY <2>1, <2>2, <2>3, <2>4 DEF CommandInv
<1>4. ASSUME CommandInv, LastPoll PROVE CommandInv'
  <2>0. /\ stage = "flushing" /\ stage' = "finishing" /\ result = "none" /\ child \in Exited
        /\ command \in Streamed /\ unread = FALSE
        /\ faults \in Nat /\ errors \in Nat /\ MaxFaults \in Nat
        /\ UNCHANGED <<shell, result, rclone, oneShot>>
    BY <1>4, RcloneAssumption DEF LastPoll, CommandInv, StageInv, TailerInv, TailType
  <2>1. TailerInv' /\ unread' \in BOOLEAN /\ (unread' \/ offset' = Len(log)')
    <3>1. CASE Poll /\ UNCHANGED <<faults, unread>>
      BY <1>4, <2>0, <3>1, PollKeeps DEF CommandInv, shell, rclone
    <3>2. CASE PollFails /\ unread' = TRUE
      <4>1. faults' \in Nat
        BY <2>0, <3>2 DEF PollFails
      <4> QED
        BY <1>4, <2>0, <3>2, <4>1, TailerStays DEF PollFails, CommandInv, told, shell, rclone
    <3> QED
      BY <1>4, <3>1, <3>2 DEF LastPoll
  <2>2. StageInv'
    BY <1>4, <2>0, <2>1, TwoKinds DEF CommandInv, StageInv, shell, rclone, Exited
  <2>3. EndInv'
    BY <1>4, <2>0, <2>1 DEF CommandInv, EndInv, EndedWell, shell, rclone, Complete, LineAt, LineIn
  <2>4. OneShotInv'
    BY <1>4, <2>0 DEF CommandInv, OneShotInv, shell, rclone, oneShot
  <2> QED
    BY <2>1, <2>2, <2>3, <2>4 DEF CommandInv
<1>5. ASSUME CommandInv, FinishStreamed PROVE CommandInv'
  <2>0. /\ stage = "finishing" /\ stage' = "done" /\ child \in Exited /\ command \in Streamed
        /\ command \notin OneShot
        /\ UNCHANGED <<shell, rclone, tailer, reports, oneShot>>
    BY <1>5, TwoKinds DEF FinishStreamed, CommandInv, StageInv
  <2>1. TailerInv'
    BY <1>5, <2>0, TailerStays DEF CommandInv, TailerInv, TailType, told, shell, reports, rclone
  <2>2. StageInv'
    BY <1>5, <2>0 DEF FinishStreamed, CommandInv, StageInv, shell, reports, rclone, Exited
  <2>3. EndInv'
    BY <1>5, <2>0 DEF FinishStreamed, CommandInv, EndInv, EndedWell, shell, tailer, reports, rclone, Complete,
                      LineAt, LineIn
  <2>4. OneShotInv'
    BY <1>5, <2>0 DEF CommandInv, OneShotInv, OneShot, shell, oneShot, rclone
  <2> QED
    BY <2>1, <2>2, <2>3, <2>4 DEF CommandInv
<1> QED
  BY <1>1, <1>2, <1>3, <1>4, <1>5

\* An attempt of a one-shot command.
LEMMA OneShotKeeps == CommandInv /\ (List \/ CopyTo) => CommandInv'
<1>1. ASSUME CommandInv, NEW ok \in BOOLEAN, Settle(ok), stage = "start", command \in OneShot,
             UNCHANGED <<shell, rclone, tailer, received, warned, summarised, notices, unread, faults>>,
             metered' \in Totals
      PROVE  /\ TailerInv' /\ StageInv' /\ EndInv'
             /\ attempt' \in 0..Attempts[command]
             /\ stage' = "start" => attempt' < Attempts[command]
             /\ result' = "ok" => ok
  <2>0. /\ command \notin Streamed /\ Attempts[command] \in Nat /\ attempt \in Nat
        /\ attempt < Attempts[command] /\ result = "none" /\ attempt' = attempt + 1
        /\ command' = command /\ log' = log
    BY <1>1, TwoKinds, RcloneAssumption DEF CommandInv, OneShotInv, StageInv, Settle, shell, rclone
  <2>1. LogInv' /\ RiseInv' /\ TailType'
    BY <1>1 DEF CommandInv, TailerInv, LogInv, RiseInv, TailType, Complete, LineAt, LineIn, InMidLine,
                IsStats, shell, rclone, tailer
  <2>2. ReportInv'
    <3>1. Read' = Read /\ \A kind : LinesOf(kind, Read)' = LinesOf(kind, Read)
      BY <1>1 DEF Read, LinesOf, LineAt, LineIn, rclone, tailer
    <3> QED
      BY <1>1, <2>0, <3>1 DEF CommandInv, TailerInv, ReportInv, UpToDate, Below, IsStats, LineAt, LineIn,
                        shell, rclone, tailer
  <2>3. \/ ok /\ stage' = "done" /\ result' = "ok"
        \/ /\ ~ok /\ attempt + 1 < Attempts[command] /\ stage' = "start" /\ result' = result
        \/ /\ ~ok /\ ~(attempt + 1 < Attempts[command]) /\ stage' = "done" /\ result' = "failed"
    BY <1>1 DEF Settle
  <2>4. StageInv'
    BY <1>1, <2>0, <2>3 DEF CommandInv, StageInv, shell, rclone
  <2>5. EndInv'
    BY <1>1, <2>0, <2>3 DEF CommandInv, EndInv, EndedWell, shell, rclone, Complete, LineAt, LineIn
  <2>6. attempt' \in 0..Attempts[command] /\ (stage' = "start" => attempt' < Attempts[command])
    BY <2>0, <2>3
  <2>7. result' = "ok" => ok
    BY <2>0, <2>3
  <2> QED
    BY <2>1, <2>2, <2>4, <2>5, <2>6, <2>7 DEF TailerInv
<1>2. ASSUME CommandInv, List PROVE CommandInv'
  <2>0. /\ stage = "start" /\ command = "lsjson" /\ command \in OneShot
        /\ there \in {"absent", "nothing", "objects"} /\ listing \in {"none", "nothing", "objects"}
        /\ UNCHANGED <<shell, rclone, tailer, reports, there>>
        /\ metered' = metered /\ metered \in Totals /\ missingOk \in BOOLEAN
    BY <1>2 DEF List, OneShot, CommandInv, OneShotInv, TailerInv, TailType, reports
  <2>1. PICK said \in (IF there = "absent" THEN {"directory not found"} ELSE {"listed"}) \cup {"failed"} :
          /\ listing' = CASE said = "listed" -> there
                          [] MissingIsEmpty(said) -> "nothing"
                          [] OTHER -> listing
          /\ Settle(said = "listed" \/ MissingIsEmpty(said))
    BY <1>2 DEF List
  <2>2. (said = "listed" \/ MissingIsEmpty(said)) \in BOOLEAN
    BY DEF MissingIsEmpty
  <2>3. /\ TailerInv' /\ StageInv' /\ EndInv'
        /\ attempt' \in 0..Attempts[command]
        /\ stage' = "start" => attempt' < Attempts[command]
        /\ result' = "ok" => said = "listed" \/ MissingIsEmpty(said)
    BY <1>1, <1>2, <2>0, <2>1, <2>2 DEF reports
  <2>4. /\ listing' \in {"none", "nothing", "objects"}
        /\ result' = "ok" => listing' = IF there = "absent" /\ missingOk THEN "nothing" ELSE there
    BY <2>0, <2>1, <2>3 DEF MissingIsEmpty
  <2>5. OneShotInv'
    BY <1>2, <2>0, <2>3, <2>4 DEF CommandInv, OneShotInv, shell, rclone
  <2> QED
    BY <2>3, <2>5 DEF CommandInv
<1>3. ASSUME CommandInv, CopyTo PROVE CommandInv'
  <2>0. /\ stage = "start" /\ command = "copyto" /\ command \in OneShot
        /\ there \in {"absent", "nothing", "objects"}
        /\ metered \in Totals
        /\ UNCHANGED <<shell, rclone, tailer, received, warned, summarised, notices, unread, faults, listing>>
    BY <1>3 DEF CopyTo, OneShot, CommandInv, OneShotInv, TailerInv, TailType
  <2>1. PICK ok \in BOOLEAN, delivered \in BOOLEAN :
          /\ ok => delivered
          /\ there' = IF delivered THEN "objects" ELSE there
          /\ metered' = [moved |-> metered.moved + IF ok THEN 1 ELSE 0,
                         errors |-> metered.errors + IF ok THEN 0 ELSE 1]
          /\ Settle(ok)
    BY <1>3 DEF CopyTo
  <2>2. metered' \in Totals
    BY <2>0, <2>1 DEF Totals
  <2>3. /\ TailerInv' /\ StageInv' /\ EndInv'
        /\ attempt' \in 0..Attempts[command]
        /\ stage' = "start" => attempt' < Attempts[command]
        /\ result' = "ok" => ok
    BY <1>1, <1>3, <2>0, <2>1, <2>2
  <2>4. /\ there' \in {"absent", "nothing", "objects"}
        /\ result' = "ok" => there' = "objects"
    BY <2>0, <2>1, <2>3
  <2>5. OneShotInv'
    BY <1>3, <2>0, <2>3, <2>4 DEF CommandInv, OneShotInv, shell, rclone
  <2> QED
    BY <2>3, <2>5 DEF CommandInv
<1> QED
  BY <1>2, <1>3

\* Every step.
LEMMA StepCommand == CommandInv /\ [Next]_vars => CommandInv'
<1>1. ASSUME CommandInv, UNCHANGED vars PROVE CommandInv'
  <2>1. TailerInv'
    BY <1>1, TailerStays DEF vars, CommandInv, TailerInv, TailType, told, shell, reports, rclone
  <2>2. StageInv'
    BY <1>1 DEF vars, CommandInv, StageInv, shell, reports, rclone
  <2>3. EndInv'
    BY <1>1 DEF vars, CommandInv, EndInv, EndedWell, shell, tailer, reports, rclone, Complete, LineAt, LineIn
  <2>4. OneShotInv'
    BY <1>1 DEF vars, CommandInv, OneShotInv, shell, oneShot, rclone
  <2> QED
    BY <2>1, <2>2, <2>3, <2>4 DEF CommandInv
<1> QED
  BY <1>1, RcloneKeeps, EndsLineKeeps, EndsKeep, StreamedKeeps, OneShotKeeps DEF Next, RcloneEnds, Runner

\* The invariant of every run.
LEMMA CommandInvariance == Spec => []CommandInv
<1> QED
  BY InitCommand, StepCommand, PTL DEF Spec

-----------------------------------------------------------------------------
(* The theorems. *)

\* The variables keep their ranges, nothing is read twice or before it is written, and
\* a one-shot command is not tried more often than it says.
THEOREM TypeCorrect == Spec => []TypeOK
<1>1. CommandInv => TypeOK
  <2> SUFFICES ASSUME CommandInv PROVE TypeOK
    OBVIOUS
  <2>1. metered.moved \in Nat /\ metered.errors \in Nat
    BY DEF CommandInv, TailerInv, TailType, Totals
  <2> QED
    BY <2>1 DEF CommandInv, TailerInv, TailType, StageInv, OneShotInv, TypeOK, Exited
<1> QED
  BY <1>1, CommandInvariance, PTL

\* A command's Ok can be believed, whatever its log held before, wherever its reads
\* ended, and however many attempts it took.
THEOREM OkCanBeBelieved == Spec => []OkIsTrue
<1>1. CommandInv => OkIsTrue
  <2> SUFFICES ASSUME CommandInv, result = "ok" PROVE OkIsTrue
    BY DEF OkIsTrue
  <2>1. ASSUME command \in Streamed, ~unread PROVE cumulative = [moved |-> moved, errors |-> 0]
    <3>1. EndedWell /\ offset = Len(log)
      BY <2>1 DEF CommandInv, EndInv
    <3>2. Read = Complete(log) /\ Complete(log) > 0
      BY <3>1 DEF Read, Complete, EndedWell
    <3>3. LineAt(Read).kind = "stats" /\ TotalsOf(LineAt(Read)) = [moved |-> moved, errors |-> 0]
      BY <3>1, <3>2 DEF EndedWell, Stats, TotalsOf
    <3> QED
      BY <3>2, <3>3 DEF CommandInv, TailerInv, ReportInv, UpToDate
  <2> QED
    BY <2>1 DEF CommandInv, OneShotInv, OkIsTrue
<1> QED
  BY <1>1, CommandInvariance, PTL

\* Each error line is warned of or summarised and each notice counted, once, and the
\* metrics count what the totals do, wherever reads end and whichever fail.
THEOREM ReportsAreWhole == Spec => []EverythingIsReported
<1>1. CommandInv => EverythingIsReported
  BY DEF CommandInv, TailerInv, ReportInv, EndInv, EverythingIsReported, Read, Complete
<1> QED
  BY <1>1, CommandInvariance, PTL

-----------------------------------------------------------------------------
(* The refinement of CopiedStream. *)

\* What the log announces is of objects.
LEMMA StreamType ==
  ASSUME TailerInv
  PROVE  /\ Announced(log, Complete(log)) \in Seq(Objects \cup Named)
         /\ received \in Seq(Objects \cup Named)
<1>1. LogInv /\ Complete(log) \in Nat
  <2>1. LogInv /\ Len(log) \in Nat
    BY DEF TailerInv, LogInv
  <2> QED
    BY <2>1 DEF Complete
<1>2. ASSUME NEW i \in 1..Complete(log), LineIn(log, i).kind = "copied"
      PROVE  LineIn(log, i).what \in Objects \cup Named
  <2>1. LineIn(log, i) \in LogLines
    BY <1>1, LineIsLine DEF LineAt
  <2> QED
    BY <1>2, <2>1 DEF LogLines
<1>3. Read \in Nat /\ Read <= Complete(log)
  <2>1. offset \in 0..Len(log) /\ Len(log) \in Nat
    BY DEF TailerInv, TailType, LogInv
  <2> QED
    BY <2>1 DEF Read, Complete
<1>4. Announced(log, Complete(log)) \in Seq(Objects \cup Named)
  BY <1>1, <1>2, AnnouncedNames
<1>5. Announced(log, Read) \in Seq(Objects \cup Named)
  <2>1. \A i \in 1..Read : i \in 1..Complete(log)
    BY <1>1, <1>3
  <2> QED
    BY <1>2, <1>3, <2>1, AnnouncedNames
<1> QED
  BY <1>4, <1>5 DEF TailerInv, ReportInv

\* Initially nothing has been handed on.
LEMMA InitStream == Init => Stream!Init
<1> SUFFICES ASSUME Init PROVE Stream!Init
  OBVIOUS
<1>1. Announced(log, Complete(log)) \in Seq(Objects \cup Named)
  BY InitCommand, StreamType DEF CommandInv
<1> QED
  BY <1>1 DEF Init, Stream!Init

\* Half a line begun announces nothing.
LEMMA BeginsStutters ==
  ASSUME CommandInv, NEW line \in LogLines, Begins(line)
  PROVE  UNCHANGED Stream!vars
<1>1. LogInv /\ ~InMidLine /\ log' = Append(log, [line |-> line, half |-> 1])
      /\ [line |-> line, half |-> 1] \in HalfLines
  BY DEF Begins, CommandInv, TailerInv, HalfLines
<1>2. Complete(log)' = Complete(log) /\ Complete(log) \in Nat
      /\ \A i \in 1..Complete(log) : LineAt(i)' = LineAt(i)
  BY <1>1, HalfMore
<1>3. Announced(log, Complete(log))' = Announced(log, Complete(log))
  <2>1. \A i \in 1..Complete(log) : LineIn(log', i) = LineIn(log, i)
    BY <1>2 DEF LineAt
  <2>2. Announced(log', Complete(log)) = Announced(log, Complete(log))
    BY <1>2, <2>1, AnnouncedSame
  <2> QED
    BY <1>2, <2>2
<1> QED
  BY <1>3 DEF Begins, reports, Stream!vars

\* The other half of it may.
LEMMA EndsLineFinishes ==
  ASSUME CommandInv, CommandInv', EndsLine
  PROVE  Stream!Next \/ UNCHANGED Stream!vars
<1>1. /\ child = "running" /\ InMidLine
      /\ log' = Append(log, [line |-> log[Len(log)].line, half |-> 2])
      /\ UNCHANGED <<received, unread, result>>
  BY DEF EndsLine, reports
<1>2. LogInv /\ log \in Seq(HalfLines) /\ Len(log) \in 1..Len(log)
  BY <1>1 DEF CommandInv, TailerInv, LogInv, InMidLine
<1>3. log[Len(log)] \in HalfLines
  BY <1>2
<1>4. [line |-> log[Len(log)].line, half |-> 2] \in HalfLines
  BY <1>3 DEF HalfLines
<1>5. result = "none"
  BY <1>1 DEF CommandInv, StageInv
<1>6. PICK n \in Nat : n = Complete(log)
  BY <1>1, <1>2, <1>4, HalfMore
<1>7. Complete(log)' = n + 1 /\ \A i \in 1..n : LineAt(i)' = LineAt(i)
  BY <1>1, <1>2, <1>4, <1>6, HalfMore
<1>8. Announced(log', n) = Announced(log, n)
  <2>1. \A i \in 1..n : LineIn(log', i) = LineIn(log, i)
    BY <1>7 DEF LineAt
  <2> QED
    BY <2>1, AnnouncedSame
<1>9. Announced(log', n + 1) = IF LineIn(log', n + 1).kind = "copied"
                               THEN Append(Announced(log', n), LineIn(log', n + 1).what)
                               ELSE Announced(log', n)
  BY AnnouncedNext
<1>10. LineIn(log', n + 1).kind = "copied" => LineIn(log', n + 1).what \in Objects \cup Named
  <2>1. LogInv' /\ n + 1 \in 1..Complete(log)'
    BY <1>7 DEF CommandInv, TailerInv
  <2>2. LineAt(n + 1)' \in LogLines
    <3>1. Len(log)' \in Nat /\ Complete(log)' = Len(log)' \div 2 /\ log' \in Seq(HalfLines)
      BY <2>1 DEF LogInv, Complete
    <3>2. 2 * (n + 1) \in 1..Len(log)'
      BY <2>1, <3>1
    <3>3. log'[2 * (n + 1)] \in HalfLines
      BY <3>1, <3>2
    <3> QED
      BY <3>3 DEF HalfLines, LineAt, LineIn
  <2> QED
    BY <2>2 DEF LineAt, LogLines
<1>11. CASE LineIn(log', n + 1).kind = "copied"
  <2>1. Announced(log, Complete(log))' = Append(Announced(log, Complete(log)), LineIn(log', n + 1).what)
    BY <1>6, <1>7, <1>8, <1>9, <1>11
  <2>2. Stream!Finish
    BY <1>1, <1>5, <1>10, <1>11, <2>1 DEF Stream!Finish
  <2> QED
    BY <2>2 DEF Stream!Next
<1>12. CASE LineIn(log', n + 1).kind # "copied"
  <2>1. Announced(log, Complete(log))' = Announced(log, Complete(log))
    BY <1>6, <1>7, <1>8, <1>9, <1>12
  <2> QED
    BY <1>1, <2>1 DEF Stream!vars
<1> QED
  BY <1>11, <1>12

\* A sequence is a prefix of one that goes on from it, and of itself.
LEMMA Prefixes ==
  ASSUME NEW S, NEW s \in Seq(S), NEW more \in Seq(S)
  PROVE  Stream!IsPrefix(s, s \o more) /\ Stream!IsPrefix(s, s)
<1>1. /\ Len(s) \in Nat /\ Len(more) \in Nat /\ s \o more \in Seq(S)
      /\ Len(s \o more) = Len(s) + Len(more)
      /\ \A i \in 1..Len(s) : (s \o more)[i] = s[i]
  OBVIOUS
<1>2. SubSeq(s, 1, Len(s)) = SubSeq(s \o more, 1, Len(s))
  BY <1>1
<1> QED
  BY <1>1, <1>2 DEF Stream!IsPrefix

\* A poll hands on what has been announced.
LEMMA PollHandsOn ==
  ASSUME CommandInv, Poll, UNCHANGED <<log, command, left, moved, errors, unread, result>>,
         faults' \in Nat, result = "none"
  PROVE  Stream!HandOn
<1>1. TailerInv
  BY DEF CommandInv
<1>2. received' = Announced(log, Complete(log))
  BY <1>1, PollKeeps
<1>3. PICK more \in Seq(Objects \cup Named) : received' = received \o more
  BY <1>1, PollKeeps
<1>4. received \in Seq(Objects \cup Named) /\ Announced(log, Complete(log)) \in Seq(Objects \cup Named)
  BY <1>1, StreamType
<1>5. Stream!IsPrefix(received, received')
  BY <1>3, <1>4, Prefixes
<1>6. Stream!IsPrefix(received', Announced(log, Complete(log)))
  BY <1>2, <1>4, Prefixes
<1>7. Announced(log, Complete(log))' = Announced(log, Complete(log))
  BY DEF Complete
<1> QED
  BY <1>5, <1>6, <1>7 DEF Stream!HandOn

\* Every step is one of the stream or none of its business.
LEMMA StepStream == CommandInv /\ CommandInv' /\ [Next]_vars => [Stream!Next]_(Stream!vars)
<1> SUFFICES ASSUME CommandInv, CommandInv', [Next]_vars PROVE [Stream!Next]_(Stream!vars)
  OBVIOUS
<1>0. ASSUME UNCHANGED <<log, received, unread, result>> PROVE UNCHANGED Stream!vars
  BY <1>0 DEF Stream!vars, Complete
<1>1. CASE RcloneStep
  <2>1. ASSUME RetriesAll PROVE UNCHANGED Stream!vars
    BY <1>0, <2>1 DEF RetriesAll, reports
  <2>2. moved \in Nat /\ errors \in Nat /\ "none" \notin Causes
    BY RcloneAssumption DEF CommandInv, TailerInv, TailType
  <2>3. ASSUME NEW o \in Objects, Copies(o) PROVE UNCHANGED Stream!vars
    <3>1. Line("copied", o) \in LogLines
      BY DEF Line, LogLines
    <3> QED
      BY <2>3, <3>1, BeginsStutters DEF Copies
  <2>4. ASSUME MovesUnannounced PROVE UNCHANGED Stream!vars
    <3>1. Line("other", "none") \in LogLines
      BY DEF Line, LogLines
    <3> QED
      BY <2>4, <3>1, BeginsStutters DEF MovesUnannounced
  <2>5. ASSUME NEW c \in Causes, Errs(c) PROVE UNCHANGED Stream!vars
    <3>1. Line("error", c) \in LogLines
      BY <2>2 DEF Line, LogLines
    <3> QED
      BY <2>5, <3>1, BeginsStutters DEF Errs
  <2>6. ASSUME Notices PROVE UNCHANGED Stream!vars
    <3>1. Line("notice", "none") \in LogLines
      BY DEF Line, LogLines
    <3> QED
      BY <2>6, <3>1, BeginsStutters DEF Notices
  <2>7. ASSUME LogsStats PROVE UNCHANGED Stream!vars
    <3>1. Stats(moved, errors) \in LogLines
      BY <2>2 DEF Stats, LogLines
    <3> QED
      BY <2>7, <3>1, BeginsStutters DEF LogsStats
  <2> QED
    BY <1>1, <2>1, <2>3, <2>4, <2>5, <2>6, <2>7 DEF RcloneStep
<1>2. CASE EndsLine
  BY <1>2, EndsLineFinishes
<1>3. CASE WritesStderr \/ Exits \/ Killed \/ Drain \/ SeeExit
  BY <1>0, <1>3 DEF WritesStderr, Exits, Killed, Drain, SeeExit, reports, rclone
<1>4. CASE Spawn
  <2>1. UNCHANGED <<log, received, unread>>
    BY <1>4 DEF Spawn, reports
  <2>2. CASE result' = result
    BY <1>0, <2>1, <2>2
  <2>3. CASE result' # result
    <3>1. result = "none" /\ result' = "failed"
      BY <1>4, <2>3 DEF Spawn, CommandInv, StageInv
    <3>2. Stream!Return
      BY <2>1, <3>1 DEF Stream!Return, Complete
    <3> QED
      BY <3>2 DEF Stream!Next
  <2> QED
    BY <2>2, <2>3
<1>5. CASE Tick
  <2>0. result = "none" /\ faults \in Nat /\ UNCHANGED <<shell, rclone, unread, result>>
    BY <1>5 DEF Tick, CommandInv, StageInv, TailerInv, TailType
  <2>1. CASE Poll /\ UNCHANGED faults
    <3>1. Stream!HandOn
      BY <2>0, <2>1, PollHandsOn DEF shell, rclone
    <3> QED
      BY <3>1 DEF Stream!Next
  <2>2. CASE PollFails
    BY <1>0, <2>0, <2>2 DEF PollFails, rclone
  <2> QED
    BY <1>5, <2>1, <2>2 DEF Tick
<1>6. CASE LastPoll
  <2>0. result = "none" /\ faults \in Nat /\ UNCHANGED <<shell, rclone, result>> /\ unread = FALSE
    BY <1>6 DEF LastPoll, CommandInv, StageInv, TailerInv, TailType
  <2>1. CASE Poll /\ UNCHANGED <<faults, unread>>
    <3>1. Stream!HandOn
      BY <2>0, <2>1, PollHandsOn DEF shell, rclone
    <3> QED
      BY <3>1 DEF Stream!Next
  <2>2. CASE PollFails /\ unread' = TRUE
    <3>1. Stream!Lose
      BY <2>0, <2>2 DEF PollFails, rclone, Stream!Lose, Complete
    <3> QED
      BY <3>1 DEF Stream!Next
  <2> QED
    BY <1>6, <2>1, <2>2 DEF LastPoll
<1>7. CASE FinishStreamed
  <2>1. /\ result = "none" /\ result' \in {"ok", "failed"} /\ UNCHANGED <<log, received, unread>>
        /\ result' = "ok" => child = "exited0"
    BY <1>7 DEF FinishStreamed, CommandInv, StageInv, rclone, reports
  <2>2. unread \/ received = Announced(log, Complete(log))
    BY <1>7 DEF FinishStreamed, CommandInv, EndInv, TailerInv, ReportInv, Read, Complete
  <2>3. Stream!Return
    BY <2>1, <2>2 DEF Stream!Return, Complete
  <2> QED
    BY <2>3 DEF Stream!Next
<1>8. CASE List \/ CopyTo
  <2>1. /\ UNCHANGED <<log, received, unread>> /\ result = "none" /\ command \in OneShot
        /\ result' \in {"none", "ok", "failed"}
    BY <1>8 DEF List, CopyTo, OneShot, CommandInv, StageInv, rclone, reports
  <2>2. received = Announced(log, Complete(log))
    <3>1. log = <<>> /\ offset \in 0..Len(log)
      BY <2>1 DEF CommandInv, StageInv, TailerInv, TailType
    <3>2. offset = Len(log)
      BY <3>1
    <3> QED
      BY <3>2 DEF CommandInv, TailerInv, ReportInv, Read, Complete
  <2>3. CASE result' = "none"
    BY <1>0, <2>1, <2>3
  <2>4. CASE result' # "none"
    <3>1. Stream!Return
      BY <2>1, <2>2, <2>4 DEF Stream!Return, Complete
    <3> QED
      BY <3>1 DEF Stream!Next
  <2> QED
    BY <2>3, <2>4
<1>9. CASE UNCHANGED vars
  BY <1>0, <1>9 DEF vars, rclone, reports
<1> QED
  BY <1>1, <1>2, <1>3, <1>4, <1>5, <1>6, <1>7, <1>8, <1>9 DEF Next, RcloneEnds, Runner

\* Objects reach the caller as rclone logs them, each once and in order, and all of
\* them before Ok, wherever reads end, unless the last one fails.
THEOREM StreamIsImplemented == Spec => ImplementsCopiedStream
<1>1. Spec => Stream!Init
  BY InitStream DEF Spec
<1>2. Spec => [][Stream!Next]_(Stream!vars)
  BY CommandInvariance, StepStream, PTL DEF Spec
<1> QED
  BY <1>1, <1>2 DEF ImplementsCopiedStream, Stream!Spec
=============================================================================
