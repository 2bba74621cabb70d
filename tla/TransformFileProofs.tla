-------------------------- MODULE TransformFileProofs --------------------------
(***************************************************************************)
(* Proofs about TransformFile for any keys, listings, contents, retries and    *)
(* faults.                                                                   *)
(*                                                                         *)
(* The argument.  What a run keeps of a key says how far its outputs are, on   *)
(* this disk and at the destination.  What a local file holds is known by its   *)
(* path, because of keys that share one only one is ever pulled there; the      *)
(* others are done by then, and what is done stays done.                      *)
(***************************************************************************)
EXTENDS TransformFile, FiniteSetTheorems, WellFoundedInduction, TLAPS

-----------------------------------------------------------------------------
(* Numbers. *)

\* A set of numbers that is not empty has a least member.
LEMMA LeastNumber ==
  ASSUME NEW T, T \subseteq Nat, T # {}
  PROVE  \E n \in T : \A m \in T : n <= m
<1> DEFINE R == OpToRel(<, Nat)
<1>1. IsWellFoundedOn(R, Nat)
  BY NatLessThanWellFounded
<1>2. ASSUME NEW x \in Nat, NEW y \in Nat, y < x PROVE <<y, x>> \in R
  BY <1>2 DEF OpToRel
<1> HIDE DEF R
<1>3. PICK n \in T : \A m \in T : ~(<<m, n>> \in R)
  BY <1>1, WFMin
<1>4. ASSUME NEW m \in T PROVE n <= m
  <2>1. ~(m < n)
    BY <1>2, <1>3
  <2> QED
    BY <2>1
<1> QED
  BY <1>4

\* What holds of 0, and of each number up to m after one it holds of, holds of all.
LEMMA UpTo ==
  ASSUME NEW m \in Nat, NEW T, 0 \in T,
         \A n \in 0..m : n # m /\ n \in T => n + 1 \in T
  PROVE  \A n \in 0..m : n \in T
<1> DEFINE B == {n \in 0..m : n \notin T}
<1>1. SUFFICES ASSUME B # {} PROVE FALSE
  OBVIOUS
<1>2. B \subseteq Nat
  OBVIOUS
<1>3. PICK n \in B : \A l \in B : n <= l
  <2> HIDE DEF B
  <2> QED
    BY <1>1, <1>2, LeastNumber
<1>4. n \in 0..m /\ n # 0 /\ n \notin T
  BY <1>3
<1>5. n - 1 \in 0..m /\ n - 1 # m /\ n = (n - 1) + 1 /\ ~(n <= n - 1)
  BY <1>4
<1>6. n - 1 \in T
  BY <1>3, <1>5
<1> QED
  BY <1>4, <1>5, <1>6

-----------------------------------------------------------------------------
(* Names. *)

Names == Nat \X Nat

\* The first of some names is one of them.
LEMMA FirstIsOne ==
  ASSUME NEW S \in SUBSET Names, S # {}
  PROVE  FirstName(S) \in S
<1> DEFINE T == {n[1] : n \in S}
<1>1. T \subseteq Nat /\ T # {}
  BY DEF Names
<1>2. PICK i \in T : \A j \in T : i <= j
  <2> HIDE DEF T
  <2> QED
    BY <1>1, LeastNumber
<1>3. \E n \in S : \A o \in S : n[1] <= o[1]
  BY <1>2
<1> QED
  BY <1>3 DEF FirstName

\* The names of n outputs.
LEMMA NamesOfType ==
  ASSUME NEW n \in Nat \ {0}
  PROVE  NamesOf(n) \in SUBSET Names /\ <<1, n>> \in NamesOf(n)
BY DEF NamesOf, Names

\* A plain output is the only one.
LEMMA PlainName == NamesOf(1) = {<<1, 1>>}
<1>1. 1..1 = {1}
  OBVIOUS
<1> QED
  BY <1>1 DEF NamesOf

\* Of outputs that are all of one version, those that count as complete are.
LEMMA CompleteIsAll ==
  ASSUME NEW n \in Nat \ {0}, NEW S \in SUBSET NamesOf(n), CompleteNames(S)
  PROVE  S = NamesOf(n)
<1> DEFINE T == {o[1] : o \in S}
<1>1. \A o \in S : o = <<o[1], n>> /\ o[1] \in 1..n
  BY DEF NamesOf
<1>2. CASE <<1, 1>> \in S
  <2>1. n = 1
    BY <1>1, <1>2
  <2> QED
    BY <1>2, <2>1, PlainName
<1>3. CASE <<1, 1>> \notin S
  <2>1. Cardinality(T) = n
    <3>1. PICK o \in S : Cardinality(T) = o[2]
      BY <1>3 DEF CompleteNames
    <3> QED
      BY <1>1, <3>1
  <2>2. T \subseteq 1..n
    BY <1>1
  <2>3. IsFiniteSet(1..n) /\ Cardinality(1..n) = n
    BY FS_Interval
  <2>4. T = 1..n
    <3> HIDE DEF T
    <3> QED
      BY <2>1, <2>2, <2>3, FS_Subset
  <2>5. ASSUME NEW i \in 1..n PROVE <<i, n>> \in S
    <3>1. PICK o \in S : o[1] = i
      BY <2>4
    <3> QED
      BY <1>1, <3>1
  <2> QED
    BY <2>5 DEF NamesOf
<1> QED
  BY <1>2, <1>3

-----------------------------------------------------------------------------
(* Slots. *)

\* No two of a slot's keys share a fold.
Apart(slot) == \A j, k \in slot : SameFold(j, k) => j = k

\* A key that fits into a slot shares its fold with none there.
LEMMA FitsApart ==
  ASSUME NEW slot \in SUBSET Keys, NEW k \in Keys, Apart(slot), Fits(slot, k)
  PROVE  Apart(slot \cup {k})
<1>1. ASSUME NEW j \in Keys PROVE j \in Components(j)
  <2>1. j \in Seq(DOMAIN OnVolume) /\ j # <<>>
    BY FileAssumption DEF Keys, ToSet
  <2>2. j = SubSeq(j, 1, Len(j)) /\ Len(j) \in 0..Len(j)
    BY <2>1
  <2> QED
    BY <2>1, <2>2 DEF Components, Prefixes
<1>2. ASSUME NEW j \in slot, SameFold(j, k) PROVE j = k
  <2>1. SameFold(k, j)
    BY <1>2 DEF SameFold
  <2> QED
    BY <1>1, <2>1 DEF Fits
<1>3. ASSUME NEW j \in slot, SameFold(k, j) PROVE j = k
  BY <1>1, <1>3 DEF Fits
<1> QED
  BY <1>2, <1>3 DEF Apart

\* Slots so far: sets of keys told apart by local_fold.
SlotsSoFar(slots, keys) ==
  /\ slots \in Seq(SUBSET Keys)
  /\ \A s \in DOMAIN slots : Apart(slots[s])
  /\ \A k \in keys : \E s \in DOMAIN slots : k \in slots[s]

\* A key joins one of them.
LEMMA JoinsSlot ==
  ASSUME NEW slots, NEW keys, SlotsSoFar(slots, keys), NEW k \in Keys
  PROVE  SlotsSoFar(Join(slots, k), keys \cup {k})
<1> DEFINE fitting == {i \in DOMAIN slots : Fits(slots[i], k)}
           first == CHOOSE i \in fitting : \A j \in fitting : i <= j
<1>1. slots \in Seq(SUBSET Keys) /\ Len(slots) \in Nat /\ DOMAIN slots = 1..Len(slots)
  BY DEF SlotsSoFar
<1>2. CASE fitting = {}
  <2>1. Join(slots, k) = Append(slots, {k})
    BY <1>2 DEF Join
  <2> DEFINE more == Append(slots, {k})
  <2>2. /\ more \in Seq(SUBSET Keys) /\ DOMAIN more = 1..(Len(slots) + 1)
        /\ \A s \in 1..Len(slots) : more[s] = slots[s]
        /\ more[Len(slots) + 1] = {k}
    BY <1>1
  <2> HIDE DEF more
  <2>3. \A s \in DOMAIN more : Apart(more[s])
    <3>1. Apart({k})
      BY DEF Apart
    <3>2. \A s \in DOMAIN more : s = Len(slots) + 1 \/ s \in 1..Len(slots)
      BY <1>1, <2>2
    <3> QED
      BY <1>1, <2>2, <3>1, <3>2 DEF SlotsSoFar
  <2>4. ASSUME NEW j \in keys \cup {k} PROVE \E s \in DOMAIN more : j \in more[s]
    <3>1. CASE j = k
      BY <1>1, <2>2, <3>1
    <3>2. CASE j \in keys
      <4>1. PICK s \in DOMAIN slots : j \in slots[s]
        BY <3>2 DEF SlotsSoFar
      <4> QED
        BY <1>1, <2>2, <4>1
    <3> QED
      BY <3>1, <3>2
  <2> QED
    BY <2>1, <2>2, <2>3, <2>4 DEF SlotsSoFar, more
<1>3. CASE fitting # {}
  <2>1. first \in fitting
    <3>1. fitting \subseteq Nat
      BY <1>1
    <3>2. \E i \in fitting : \A j \in fitting : i <= j
      <4> HIDE DEF fitting
      <4> QED
        BY <1>3, <3>1, LeastNumber
    <3> QED
      BY <3>2
  <2>2. PICK i \in fitting : Join(slots, k) = [slots EXCEPT ![i] = slots[i] \cup {k}]
    BY <1>3, <2>1 DEF Join
  <2> DEFINE more == [slots EXCEPT ![i] = slots[i] \cup {k}]
  <2>3. /\ more \in Seq(SUBSET Keys) /\ DOMAIN more = DOMAIN slots
        /\ more[i] = slots[i] \cup {k} /\ \A s \in DOMAIN slots : s # i => more[s] = slots[s]
    BY <1>1, <2>2
  <2> HIDE DEF more
  <2>4. \A s \in DOMAIN more : Apart(more[s])
    <3>1. Apart(more[i])
      <4>1. slots[i] \in SUBSET Keys /\ Apart(slots[i]) /\ Fits(slots[i], k)
        BY <1>1, <2>2 DEF SlotsSoFar
      <4> QED
        BY <2>3, <4>1, FitsApart
    <3> QED
      BY <2>3, <3>1 DEF SlotsSoFar
  <2>5. \A j \in keys \cup {k} : \E s \in DOMAIN more : j \in more[s]
    <3>1. i \in DOMAIN slots
      BY <2>2
    <3>2. \A s \in DOMAIN slots : slots[s] \subseteq more[s]
      BY <2>3
    <3> QED
      BY <2>3, <3>1, <3>2 DEF SlotsSoFar
  <2> QED
    BY <2>2, <2>3, <2>4, <2>5 DEF SlotsSoFar, more
<1> QED
  BY <1>2, <1>3

\* The function by which Slots is defined.
Slotting(f, keys) ==
  f = [i \in 0..Len(KeyOrder) |->
         IF i = 0 THEN <<>>
         ELSE IF KeyOrder[i] \in keys THEN Join(f[i - 1], KeyOrder[i])
         ELSE f[i - 1]]

\* There is such a function.
LEMMA SlottingExists ==
  ASSUME NEW keys
  PROVE  \E f : Slotting(f, keys) /\ Slots(keys) = f[Len(KeyOrder)]
<1> DEFINE slotted == CHOOSE f : Slotting(f, keys)
<1>1. Slots(keys) = slotted[Len(KeyOrder)]
  BY DEF Slots, Slotting
<1> DEFINE Up(g, n) == g = [i \in 0..n |->
                              IF i = 0 THEN <<>>
                              ELSE IF KeyOrder[i] \in keys THEN Join(g[i - 1], KeyOrder[i])
                              ELSE g[i - 1]]
           T == {n \in Nat : \E g : Up(g, n)}
<1>2. Len(KeyOrder) \in Nat
  BY FileAssumption
<1>3. 0 \in T
  <2>1. Up([i \in 0..0 |-> <<>>], 0)
    OBVIOUS
  <2> QED
    BY <2>1
<1>4. ASSUME NEW n \in 0..Len(KeyOrder), n # Len(KeyOrder), n \in T PROVE n + 1 \in T
  <2>1. PICK g : Up(g, n)
    BY <1>4
  <2> DEFINE h == [i \in 0..(n + 1) |->
                     IF i # n + 1 THEN g[i]
                     ELSE IF KeyOrder[i] \in keys THEN Join(g[n], KeyOrder[i]) ELSE g[n]]
  <2>2. n \in Nat /\ n + 1 # 0
    BY <1>4
  <2>3. ASSUME NEW i \in 0..(n + 1)
        PROVE  h[i] = IF i = 0 THEN <<>>
                      ELSE IF KeyOrder[i] \in keys THEN Join(h[i - 1], KeyOrder[i]) ELSE h[i - 1]
    <3>1. CASE i = n + 1
      <4>1. i - 1 = n /\ h[n] = g[n] /\ i # 0
        BY <2>2, <3>1
      <4> QED
        BY <3>1, <4>1
    <3>2. CASE i # n + 1
      <4>1. i \in 0..n /\ h[i] = g[i] /\ (i # 0 => i - 1 \in 0..n /\ h[i - 1] = g[i - 1])
        BY <2>2, <3>2
      <4>2. g[i] = IF i = 0 THEN <<>>
                   ELSE IF KeyOrder[i] \in keys THEN Join(g[i - 1], KeyOrder[i]) ELSE g[i - 1]
        BY <2>1, <4>1
      <4> QED
        BY <4>1, <4>2
    <3> QED
      BY <3>1, <3>2
  <2>4. DOMAIN h = 0..(n + 1) /\ h = [i \in 0..(n + 1) |-> h[i]]
    OBVIOUS
  <2> HIDE DEF h
  <2>5. Up(h, n + 1)
    BY <2>3, <2>4
  <2> QED
    BY <2>2, <2>5
<1>5. \A n \in 0..Len(KeyOrder) : n \in T
  <2> HIDE DEF T
  <2> QED
    BY <1>2, <1>3, <1>4, UpTo
<1>6. \E g : Slotting(g, keys)
  <2>1. Len(KeyOrder) \in T
    <3> HIDE DEF T
    <3> QED
      BY <1>2, <1>5
  <2> QED
    BY <2>1 DEF Slotting
<1>7. Slotting(slotted, keys)
  <2> HIDE DEF T, Up
  <2> QED
    BY <1>6
<1> QED
  BY <1>1, <1>7

\* Every key has a slot, which it shares with none that local_fold takes for it.
LEMMA SlotsKeepApart ==
  ASSUME NEW keys \in SUBSET Keys
  PROVE  \A k \in keys :
           /\ SlotOf(Slots(keys), k) \in Nat \ {0}
           /\ \A j \in keys : SlotOf(Slots(keys), j) = SlotOf(Slots(keys), k) /\ SameFold(j, k)
                                => j = k
<1>1. PICK f : Slotting(f, keys) /\ Slots(keys) = f[Len(KeyOrder)]
  BY SlottingExists
<1> DEFINE upTo(i) == {k \in keys : \E m \in 1..i : k = KeyOrder[m]}
           T == {i \in Nat : SlotsSoFar(f[i], upTo(i))}
<1>2. Len(KeyOrder) \in Nat /\ \A m \in 1..Len(KeyOrder) : KeyOrder[m] \in Keys
  BY FileAssumption DEF Keys, ToSet
<1>3. 0 \in T
  <2>1. f[0] = <<>>
    BY <1>1, <1>2 DEF Slotting
  <2>2. upTo(0) = {}
    OBVIOUS
  <2> HIDE DEF upTo
  <2>3. SlotsSoFar(f[0], upTo(0))
    BY <2>1, <2>2 DEF SlotsSoFar
  <2> QED
    BY <2>3
<1>4. ASSUME NEW n \in 0..Len(KeyOrder), n # Len(KeyOrder), n \in T PROVE n + 1 \in T
  <2>1. n + 1 \in 1..Len(KeyOrder) /\ (n + 1) - 1 = n /\ n + 1 \in 0..Len(KeyOrder) /\ n + 1 # 0
    BY <1>2, <1>4
  <2> DEFINE k == KeyOrder[n + 1]
  <2>2. k \in Keys
    BY <1>2, <2>1
  <2>3. f[n + 1] = IF k \in keys THEN Join(f[n], k) ELSE f[n]
    BY <1>1, <2>1 DEF Slotting
  <2>4. \A m \in 1..(n + 1) : m = n + 1 \/ m \in 1..n
    BY <2>1
  <2>5. \A m \in 1..n : m \in 1..(n + 1)
    BY <2>1
  <2>6. SlotsSoFar(f[n], upTo(n))
    BY <1>4
  <2>7. CASE k \in keys
    <3>1. upTo(n + 1) = upTo(n) \cup {k}
      BY <2>1, <2>4, <2>5, <2>7
    <3>2. SlotsSoFar(Join(f[n], k), upTo(n) \cup {k})
      <4> HIDE DEF upTo, k
      <4> QED
        BY <2>2, <2>6, JoinsSlot
    <3>3. SlotsSoFar(f[n + 1], upTo(n + 1))
      BY <2>3, <2>7, <3>1, <3>2
    <3> QED
      BY <2>1, <3>3
  <2>8. CASE k \notin keys
    <3>1. upTo(n + 1) = upTo(n)
      BY <2>4, <2>5, <2>8
    <3>2. SlotsSoFar(f[n + 1], upTo(n + 1))
      BY <2>3, <2>6, <2>8, <3>1
    <3> QED
      BY <2>1, <3>2
  <2> QED
    BY <2>7, <2>8
<1>5. Len(KeyOrder) \in T
  <2>1. \A n \in 0..Len(KeyOrder) : n \in T
    <3> HIDE DEF T
    <3> QED
      BY <1>2, <1>3, <1>4, UpTo
  <2> HIDE DEF T
  <2> QED
    BY <1>2, <2>1
<1>6. upTo(Len(KeyOrder)) = keys
  <2>1. \A k \in keys : \E m \in DOMAIN KeyOrder : k = KeyOrder[m]
    BY DEF Keys, ToSet
  <2>2. DOMAIN KeyOrder = 1..Len(KeyOrder)
    BY FileAssumption
  <2> QED
    BY <2>1, <2>2
<1> DEFINE slots == Slots(keys)
<1>7. SlotsSoFar(slots, keys)
  <2> HIDE DEF upTo
  <2> QED
    BY <1>1, <1>5, <1>6
<1> HIDE DEF slots
<1>8. ASSUME NEW k \in keys
      PROVE  SlotOf(slots, k) \in DOMAIN slots /\ k \in slots[SlotOf(slots, k)]
  BY <1>7 DEF SlotsSoFar, SlotOf
<1>9. DOMAIN slots \subseteq Nat \ {0}
  BY <1>7 DEF SlotsSoFar
<1>10. ASSUME NEW k \in keys, NEW j \in keys, SlotOf(slots, j) = SlotOf(slots, k), SameFold(j, k)
       PROVE  j = k
  <2>1. j \in slots[SlotOf(slots, k)] /\ k \in slots[SlotOf(slots, k)] /\ Apart(slots[SlotOf(slots, k)])
    BY <1>7, <1>8, <1>10 DEF SlotsSoFar
  <2> QED
    BY <1>10, <2>1 DEF Apart
<1> QED
  BY <1>8, <1>9, <1>10 DEF slots

-----------------------------------------------------------------------------
(* Converters. *)

\* A part of an output passes for one where nothing guards against it, or where the
\* bytes are damaged or another kind's and the converter is lenient.
LEMMA CutShort ==
  ASSUME NEW kind \in Kinds, NEW nature \in Natures,
         NEW tool \in Tools(kind), NEW run \in RunsOf(tool),
         "part" \in Verdict(kind, nature, tool, run)
  PROVE  kind \in Unguarded \/ (kind \in Lenient /\ nature # "good")
<1> SUFFICES ASSUME kind \notin Unguarded, kind \in Lenient => nature = "good" PROVE FALSE
  OBVIOUS
<1>1. kind \notin Office \cup Markup \cup {"eps", "epub", "ics", "vcf"}
  BY DEF Unguarded
<1>2. ASSUME kind \in Still \cup Video \cup Audio PROVE "part" \notin Transcode(kind, nature, run)
  <2>1. nature = "good"
    BY <1>2 DEF Lenient
  <2>2. CASE Exited0(run)
    <3>1. run # "part" => Written(nature, run) \subseteq {"whole", "short"}
      BY <2>1, <2>2 DEF Written, Exited0
    <3> QED
      BY <1>2, <2>1, <2>2, <3>1 DEF Transcode, FullSize, LongEnough, Exited0
  <2>3. CASE ~Exited0(run)
    <3>1. CASE run \in {"spawn", "signal", "signalPart"}
      <4>1. Transcode(kind, nature, run) = {"again"}
        BY <3>1 DEF Transcode
      <4> QED
        BY <4>1
    <3>2. CASE run \notin {"spawn", "signal", "signalPart"}
      <4>1. Transcode(kind, nature, run) = {"again", "no"}
        BY <2>3, <3>2 DEF Transcode
      <4> QED
        BY <4>1
    <3> QED
      BY <3>1, <3>2
  <2> QED
    BY <2>2, <2>3
<1>3. CASE kind \in Spreadsheets
  <2>1. "part" \in Spreadsheet(kind, nature, tool, run)
    BY <1>3 DEF Verdict, Spreadsheets, Copied, Still, Flattened, Video, Audio, Office, Markup
  <2>2. "part" \notin SplitWorkbook(nature, run)
    BY DEF SplitWorkbook
  <2>3. ASSUME kind = "numbers", "part" \notin Written("good", run) PROVE "part" \notin Soffice(nature, run)
    <3>1. nature = "good"
      BY <2>3 DEF Lenient
    <3> QED
      BY <2>3, <3>1 DEF Soffice
  <2> QED
    BY <2>1, <2>2, <2>3 DEF Spreadsheet
<1>4. CASE kind \in Copied
  <2>1. Verdict(kind, nature, tool, run) = IF run = "clean" THEN {"whole"} ELSE {"no"}
    BY <1>4 DEF Verdict, Spreadsheets, Copied, Still, Flattened, Video, Audio, Office, Markup
  <2> QED
    BY <2>1
<1>5. CASE kind \in Still
  <2>1. Verdict(kind, nature, tool, run) = TranscodeStill(kind, nature, run)
    BY <1>5 DEF Verdict, Spreadsheets, Copied, Still, Flattened, Video, Audio, Office, Markup
  <2> QED
    BY <1>2, <1>5, <2>1 DEF TranscodeStill
<1>6. CASE kind \in Video
  <2>1. "part" \in TranscodeVideo(kind, nature, run)
    BY <1>6 DEF Verdict, Spreadsheets, Copied, Still, Flattened, Video, Audio, Office, Markup
  <2>2. \E video : "part" \in IF video THEN Transcode(kind, nature, run) ELSE {"wrongKind"}
    BY <2>1 DEF TranscodeVideo
  <2> QED
    BY <1>2, <1>6, <2>2
<1>7. CASE kind \in Audio
  <2>1. "part" \in TranscodeAudio(kind, nature, run)
    BY <1>7 DEF Verdict, Spreadsheets, Copied, Still, Flattened, Video, Audio, Office, Markup
  <2>2. \E video : "part" \in IF video THEN {"wrongKind"} ELSE Transcode(kind, nature, run)
    BY <2>1 DEF TranscodeAudio
  <2> QED
    BY <1>2, <1>7, <2>2
<1>8. CASE kind \in {"tsv", "textclipping"}
  <2>1. kind = "tsv" => nature = "good"
    BY DEF Lenient
  <2>2. "part" \in TsvToCsv("good", run) \cup ClippingToText(nature, run)
    BY <1>8, <2>1 DEF Verdict, Spreadsheets, Copied, Still, Flattened, Video, Audio, Office, Markup
  <2> QED
    BY <2>2 DEF TsvToCsv, ClippingToText
<1>9. CASE kind \in {"procreate", "procreate-2"}
  <2>1. Verdict(kind, nature, tool, run) = ExportPng(nature, run)
    BY <1>9 DEF Verdict, Spreadsheets, Copied, Still, Flattened, Video, Audio, Office, Markup
  <2> QED
    BY <2>1 DEF ExportPng
<1> QED
  BY <1>1, <1>3, <1>4, <1>5, <1>6, <1>7, <1>8, <1>9 DEF Kinds, InProcess

-----------------------------------------------------------------------------
(* The invariant. *)

Content == [key : Keys, version : Nat, extent : Extents]

\* What c, of an output of k, may be made of.
MadeOf(k, c) ==
  /\ k \in listed /\ Foreseen(k) => c.key = k
  /\ c.extent = "part" =>
       Kind[k] \in Unguarded \/ (Kind[k] \in Lenient /\ Nature[c.key] # "good")

BaseInv ==
  /\ listed \in Listings
  /\ version \in [Keys -> Nat \ {0}] /\ \A k \in Keys : version[k] \in DOMAIN Sheets[k]
  /\ up \in BOOLEAN
  /\ complete \subseteq Keys /\ toCopy \subseteq listed
  /\ stage \in [Keys -> Stages] /\ dir \in [Keys -> Nat]
  /\ attempts \in [Keys -> 0..Retries - 1]
  /\ made \in [Keys -> SUBSET Content]
  /\ toPlace \in [Keys -> SUBSET Names] /\ toPush \in [Keys -> SUBSET Names]
  /\ faults \in 0..MaxFaults

\* Outputs are known by their names, and are made of what they may be.
Sound(outputs) ==
  /\ outputs \subseteq Outputs
  /\ \A o, p \in outputs : o.group = p.group /\ o.name = p.name => o = p
  /\ \A o \in outputs : MadeOf(o.group, o)

OutputsInv == Sound(dest) /\ Sound(result)

\* k is the only listed key local_fold takes for it that is not done.
Alone(k) == \A j \in listed : SameFold(j, k) /\ j # k => j \in complete

LocalInv ==
  /\ local \subseteq [dir : Nat, name : Keys, key : listed, version : Nat \ {0}]
  /\ \A f \in local : SamePath(f.name, f.key) /\ f.version <= version[f.key]
  /\ \A f, g \in local : f.dir = g.dir /\ SamePath(f.name, g.name) => f = g
  /\ \A f \in local : f.dir = 0 => Alone(f.key)
  /\ \A k \in toCopy : Alone(k)
  /\ \A k \in listed : Foreseen(k) /\ dir[k] # 0 => \A f \in File(k) : f.key = k
  /\ dirs \subseteq {k[1] : k \in Keys}

\* How far the outputs of k are.
TaskInv(k) ==
  /\ stage[k] \in {"none", "queued", "converting"} \/ ~up =>
       toPlace[k] = {} /\ toPush[k] = {} /\ made[k] = {}
  /\ stage[k] = "converting" => ~Resumable(k)
  /\ stage[k] = "placing" =>
       /\ made[k] # {} /\ toPlace[k] # {}
       /\ toPush[k] \subseteq toPlace[k] \cup NamesIn(result, k)
  /\ stage[k] \in {"pushing", "sent", "pushed"} => toPlace[k] = {}
  /\ stage[k] \in {"pushing", "sent"} => toPush[k] \subseteq NamesIn(result, k)
  /\ stage[k] = "sent" => toPush[k] # {} /\ Pushing(k) \in NamesIn(dest, k)
  /\ stage[k] = "pushed" => toPush[k] = {}
  /\ toPlace[k] \subseteq toPush[k]
  /\ \A c \in made[k] : MadeOf(k, c) /\ \A d \in made[k] : c = d

\* What is done is not begun anew, and stays done.
CompleteInv(k) == k \in complete => stage[k] = "none" /\ CompleteNames(NamesIn(dest, k))

\* Of what is no workbook there is one output.
PlainInv(k) ==
  k \notin Workbooks =>
    /\ toPush[k] \cup NamesIn(result, k) \cup NamesIn(dest, k) \subseteq {<<1, 1>>}
    /\ stage[k] = "placing" => NamesIn(result, k) = {}

\* Of an object nobody replaced there are the outputs its one version has.
WholeInv(k) ==
  IsObject(k) /\ Unedited(k) =>
    /\ NamesIn(dest, k) \cup NamesIn(result, k) \cup toPush[k] \subseteq NamesOf(Sheets[k][1])
    /\ stage[k] = "placing" => toPush[k] = NamesOf(Sheets[k][1])
    /\ stage[k] \in {"pushing", "sent", "pushed"} =>
         NamesOf(Sheets[k][1]) \subseteq toPush[k] \cup NamesIn(dest, k)

KeyInv(k) == TaskInv(k) /\ CompleteInv(k) /\ PlainInv(k) /\ WholeInv(k)

FileInv == BaseInv /\ OutputsInv /\ LocalInv /\ \A k \in Keys : KeyInv(k)

-----------------------------------------------------------------------------
(* Initially. *)

\* Initially there is nothing anywhere.
LEMMA InitFile == Init => FileInv
<1> SUFFICES ASSUME Init PROVE FileInv
  OBVIOUS
<1>1. BaseInv
  <2>1. \A k \in Keys : 1 \in DOMAIN Sheets[k]
    BY FileAssumption
  <2>2. Retries \in Nat \ {0} /\ MaxFaults \in Nat
    BY FileAssumption
  <2>3. version = [k \in Keys |-> 1] /\ listed \in Listings /\ faults = 0 /\ up = FALSE
    BY DEF Init
  <2>4. attempts \in [Keys -> 0..Retries - 1]
    <3>1. 0 \in 0..Retries - 1
      BY <2>2
    <3> QED
      BY <3>1 DEF Init
  <2>5. /\ stage \in [Keys -> Stages] /\ dir \in [Keys -> Nat]
        /\ made \in [Keys -> SUBSET Content]
        /\ toPlace \in [Keys -> SUBSET Names] /\ toPush \in [Keys -> SUBSET Names]
        /\ complete \subseteq Keys /\ toCopy \subseteq listed
    BY DEF Init, Stages
  <2>6. version \in [Keys -> Nat \ {0}] /\ \A k \in Keys : version[k] \in DOMAIN Sheets[k]
    BY <2>1, <2>3
  <2>7. up \in BOOLEAN
    BY <2>3
  <2>8. faults \in 0..MaxFaults
    BY <2>2, <2>3
  <2> QED
    BY <2>3, <2>4, <2>5, <2>6, <2>7, <2>8 DEF BaseInv
<1>2. OutputsInv
  BY DEF Init, OutputsInv, Sound
<1>3. LocalInv
  <2>1. \A k \in listed : dir[k] = 0
    BY FileAssumption DEF Init
  <2> QED
    BY <2>1 DEF Init, LocalInv
<1>4. ASSUME NEW k \in Keys PROVE KeyInv(k)
  <2>1. /\ stage[k] = "none" /\ made[k] = {} /\ toPlace[k] = {} /\ toPush[k] = {}
        /\ k \notin complete /\ NamesIn(dest, k) = {} /\ NamesIn(result, k) = {}
    BY DEF Init, NamesIn
  <2> QED
    BY <2>1 DEF KeyInv, TaskInv, CompleteInv, PlainInv, WholeInv
<1> QED
  BY <1>1, <1>2, <1>3, <1>4 DEF FileInv

-----------------------------------------------------------------------------
(* Steps. *)

\* Of k nothing changes that its invariant is about.
LEMMA KeyStays ==
  ASSUME NEW k \in Keys, KeyInv(k),
         UNCHANGED <<listed, version, up, complete>>,
         stage'[k] = stage[k], made'[k] = made[k],
         toPlace'[k] = toPlace[k], toPush'[k] = toPush[k],
         NamesIn(result', k) = NamesIn(result, k), NamesIn(dest', k) = NamesIn(dest, k)
  PROVE  KeyInv(k)'
<1>1. TaskInv(k)'
  BY DEF KeyInv, TaskInv, Resumable, Pushing, MadeOf, Foreseen
<1>2. CompleteInv(k)'
  BY DEF KeyInv, CompleteInv
<1>3. PlainInv(k)'
  BY DEF KeyInv, PlainInv
<1>4. WholeInv(k)'
  BY DEF KeyInv, WholeInv, IsObject, Unedited, Foreseen
<1> QED
  BY <1>1, <1>2, <1>3, <1>4 DEF KeyInv

\* Nothing comes onto the local disk.
LEMMA LocalStays ==
  ASSUME LocalInv, local' \subseteq local,
         UNCHANGED <<source, dirs, complete, toCopy>>, dir' = dir
  PROVE  LocalInv'
<1>1. ASSUME NEW k PROVE Alone(k)' <=> Alone(k)
  BY DEF Alone, source
<1>2. \A k : File(k)' \subseteq File(k)
  BY DEF File, FileAt
<1> QED
  BY <1>1, <1>2 DEF LocalInv, source, Foreseen

\* Outputs are added.
LEMMA NamesMore ==
  ASSUME NEW S, NEW T, NEW k
  PROVE  NamesIn(S \cup T, k) = NamesIn(S, k) \cup NamesIn(T, k)
BY DEF NamesIn

\* A set of sound outputs with some taken away is one.
LEMMA SoundFewer ==
  ASSUME NEW S, NEW T, Sound(S), T \subseteq S
  PROVE  Sound(T)
BY DEF Sound

\* And with one added whose name is free.
LEMMA SoundMore ==
  ASSUME NEW S, Sound(S), NEW T, Sound(T),
         \A o \in T : \A p \in S : o.group # p.group \/ o.name # p.name
  PROVE  Sound(S \cup T)
BY DEF Sound

\* A step of process_one on k.
LEMMA OneKey ==
  ASSUME FileInv, NEW k \in Keys,
         UNCHANGED <<source, dirs, up, complete, toCopy, dir>>, local' \subseteq local,
         BaseInv', OutputsInv', KeyInv(k)',
         \A j \in Keys : j # k =>
           /\ stage'[j] = stage[j] /\ made'[j] = made[j]
           /\ toPlace'[j] = toPlace[j] /\ toPush'[j] = toPush[j]
           /\ NamesIn(result', j) = NamesIn(result, j) /\ NamesIn(dest', j) = NamesIn(dest, j)
  PROVE  FileInv'
<1>1. LocalInv'
  BY LocalStays DEF FileInv
<1>2. ASSUME NEW j \in Keys PROVE KeyInv(j)'
  <2>1. CASE j = k
    BY <2>1
  <2>2. CASE j # k
    <3>1. KeyInv(j) /\ UNCHANGED <<listed, version, up, complete>>
      BY DEF FileInv, source
    <3> QED
      BY <2>2, <3>1, KeyStays
  <2> QED
    BY <2>1, <2>2
<1> QED
  BY <1>1, <1>2 DEF FileInv

-----------------------------------------------------------------------------
(* process_one. *)

\* Listings are of keys.
LEMMA ListedKeys == FileInv => listed \subseteq Keys
BY FileAssumption DEF FileInv, BaseInv

\* A fault is counted, or nothing is.
LEMMA FaultCounted ==
  ASSUME FileInv, UNCHANGED faults \/ Fault
  PROVE  faults' \in 0..MaxFaults
<1>1. faults \in 0..MaxFaults /\ MaxFaults \in Nat
  BY FileAssumption DEF FileInv, BaseInv
<1>2. CASE Fault
  <2>1. faults' = faults + 1 /\ faults < MaxFaults
    BY <1>2 DEF Fault
  <2> QED
    BY <1>1, <2>1
<1> QED
  BY <1>1, <1>2

\* k goes on or comes to an end, and nothing but its source may leave the disk.
LEMMA StageMoves ==
  ASSUME FileInv, NEW k \in Keys, NEW s \in Stages, Goto(k, s),
         UNCHANGED <<source, dest, dirs, result, up, complete, toCopy, dir, attempts, made, toPlace>>,
         UNCHANGED faults \/ Fault, local' \subseteq local,
         toPush' \in [Keys -> SUBSET Names], \A j \in Keys \ {k} : toPush'[j] = toPush[j],
         KeyInv(k)'
  PROVE  FileInv'
<1>1. stage' \in [Keys -> Stages] /\ \A j \in Keys \ {k} : stage'[j] = stage[j]
  BY DEF FileInv, BaseInv, Goto
<1>2. BaseInv'
  <2>1. faults' \in 0..MaxFaults
    BY FaultCounted
  <2> QED
    BY <1>1, <2>1 DEF FileInv, BaseInv, source
<1>3. OutputsInv'
  BY DEF FileInv, OutputsInv, Sound, MadeOf, source, Foreseen
<1> QED
  BY <1>1, <1>2, <1>3, OneKey

\* What k's stage is after it.
LEMMA AfterGoto ==
  ASSUME FileInv, NEW k \in Keys, NEW s, Goto(k, s)
  PROVE  stage'[k] = s
BY DEF FileInv, BaseInv, Goto

\* k ends without an output.
LEMMA Fails ==
  ASSUME FileInv, NEW k \in Keys, NEW s \in {"failed", "skipped"}, Goto(k, s),
         stage[k] \in {"queued", "converting", "placing", "pushing"},
         UNCHANGED <<source, dest, dirs, result, up, complete, toCopy, dir, attempts, made, toPlace,
                     toPush>>,
         UNCHANGED faults \/ Fault, local' \subseteq local
  PROVE  FileInv'
<1>1. stage'[k] = s /\ s \in Stages
  BY AfterGoto DEF Stages, Ended
<1>2. KeyInv(k)
  BY DEF FileInv
<1>3. TaskInv(k)'
  BY <1>1, <1>2 DEF KeyInv, TaskInv, Resumable, Pushing, MadeOf, source, Foreseen
<1>4. CompleteInv(k)'
  BY <1>2 DEF KeyInv, CompleteInv
<1>5. PlainInv(k)'
  BY <1>1, <1>2 DEF KeyInv, PlainInv
<1>6. WholeInv(k)'
  BY <1>1, <1>2 DEF KeyInv, WholeInv, IsObject, Unedited, source, Foreseen
<1>7. KeyInv(k)'
  BY <1>3, <1>4, <1>5, <1>6 DEF KeyInv
<1>8. toPush' \in [Keys -> SUBSET Names] /\ \A j \in Keys \ {k} : toPush'[j] = toPush[j]
  BY DEF FileInv, BaseInv
<1> QED
  BY <1>1, <1>7, <1>8, StageMoves

\* What local copies go.
LEMMA Removes == \A k : RemoveLocal(k) => local' \subseteq local
BY DEF RemoveLocal

\* A message is left at the source; a file fails, before it is converted or after.
LEMMA EndingKeeps ==
  ASSUME FileInv, NEW k \in Keys,
         SkipEmail(k) \/ ConversionFails(k) \/ NoRoom(k) \/ ConversionRefused(k)
           \/ PlaceOrPushFails(k)
  PROVE  FileInv'
<1>1. CASE SkipEmail(k)
  <2>1. /\ Goto(k, "skipped") /\ stage[k] = "queued" /\ RemoveLocal(k)
        /\ UNCHANGED <<source, dest, dirs, result, up, complete, toCopy, dir, attempts, made, toPlace,
                       toPush, faults>>
    BY <1>1 DEF SkipEmail, At
  <2> QED
    BY <2>1, Fails, Removes
<1>2. CASE ConversionFails(k)
  <2>1. /\ Goto(k, "failed") /\ stage[k] = "converting"
        /\ UNCHANGED <<source, dest, dirs, result, up, complete, toCopy, dir, attempts, made, toPlace,
                       toPush, local>>
        /\ UNCHANGED faults \/ Fault
    BY <1>2 DEF ConversionFails, At, Attempt, disk
  <2> QED
    BY <2>1, Fails
<1>3. CASE NoRoom(k)
  <2>1. /\ Goto(k, "failed") /\ stage[k] = "converting"
        /\ UNCHANGED <<source, dest, dirs, result, up, complete, toCopy, dir, attempts, made, toPlace,
                       toPush, local>>
        /\ Fault
    BY <1>3 DEF NoRoom, At, disk
  <2> QED
    BY <2>1, Fails
<1>4. CASE ConversionRefused(k)
  <2>1. /\ Goto(k, "failed") /\ stage[k] = "converting" /\ RemoveLocal(k)
        /\ UNCHANGED <<source, dest, dirs, result, up, complete, toCopy, dir, attempts, made, toPlace,
                       toPush>>
        /\ UNCHANGED faults \/ Fault
    BY <1>4 DEF ConversionRefused, At, Attempt
  <2> QED
    BY <2>1, Fails, Removes
<1>5. CASE PlaceOrPushFails(k)
  <2>1. /\ Goto(k, "failed") /\ stage[k] \in {"placing", "pushing"}
        /\ UNCHANGED <<source, dest, dirs, result, up, complete, toCopy, dir, attempts, made, toPlace,
                       toPush, local>>
        /\ Fault
    BY <1>5 DEF PlaceOrPushFails, disk
  <2> QED
    BY <2>1, Fails
<1> QED
  BY <1>1, <1>2, <1>3, <1>4, <1>5

\* Names of outputs are names.
LEMMA NamesType == FileInv => \A k : NamesIn(result, k) \in SUBSET Names /\ NamesIn(dest, k) \in SUBSET Names
BY DEF FileInv, OutputsInv, Sound, Outputs, NamesIn, Names

\* Sheets are counted.
LEMMA SheetsType ==
  ASSUME NEW k \in Keys, NEW v \in DOMAIN Sheets[k]
  PROVE  Sheets[k][v] \in Nat \ {0} /\ (k \notin Workbooks => Sheets[k][v] = 1)
<1>1. Sheets[k] \in Seq(Nat \ {0})
  BY FileAssumption
<1> QED
  BY <1>1, FileAssumption

\* An object has a first version.
LEMMA FirstVersion == \A k \in Keys : 1 \in DOMAIN Sheets[k]
BY FileAssumption

\* What an earlier run left is pushed.
LEMMA ResumeKeeps ==
  ASSUME FileInv, NEW k \in Keys, Resume(k)
  PROVE  FileInv'
<1>1. /\ Goto(k, "pushing") /\ up /\ stage[k] = "queued" /\ Resumable(k)
      /\ toPush' = [toPush EXCEPT ![k] = NamesIn(result, k)]
      /\ UNCHANGED <<source, dest, dirs, result, up, complete, toCopy, dir, attempts, made, toPlace,
                     local, faults>>
  BY DEF Resume, At, disk
<1>2. KeyInv(k) /\ toPush \in [Keys -> SUBSET Names] /\ NamesIn(result, k) \in SUBSET Names
  BY NamesType DEF FileInv, BaseInv
<1>3. stage'[k] = "pushing" /\ "pushing" \in Stages
  BY <1>1, AfterGoto DEF Stages
<1>4. /\ toPush'[k] = NamesIn(result, k) /\ toPush' \in [Keys -> SUBSET Names]
      /\ \A j \in Keys \ {k} : toPush'[j] = toPush[j]
  BY <1>1, <1>2
<1>5. TaskInv(k)'
  BY <1>1, <1>2, <1>3, <1>4 DEF KeyInv, TaskInv, Resumable, Pushing, MadeOf, source, Foreseen
<1>6. CompleteInv(k)'
  BY <1>1, <1>2 DEF KeyInv, CompleteInv
<1>7. PlainInv(k)'
  BY <1>1, <1>2, <1>3, <1>4 DEF KeyInv, PlainInv
<1>8. WholeInv(k)'
  <2> SUFFICES ASSUME IsObject(k), Unedited(k) PROVE WholeInv(k)'
    BY <1>1 DEF WholeInv, IsObject, Unedited, source, Foreseen
  <2>1. /\ NamesIn(dest, k) \cup NamesIn(result, k) \subseteq NamesOf(Sheets[k][1])
    BY <1>2 DEF KeyInv, WholeInv
  <2>2. NamesIn(result, k) = NamesOf(Sheets[k][1])
    <3>1. Sheets[k][1] \in Nat \ {0}
      BY FirstVersion, SheetsType
    <3> QED
      BY <1>1, <2>1, <3>1, CompleteIsAll DEF Resumable
  <2> QED
    BY <1>1, <1>3, <1>4, <2>1, <2>2 DEF WholeInv
<1>9. KeyInv(k)'
  BY <1>5, <1>6, <1>7, <1>8 DEF KeyInv
<1> QED
  BY <1>1, <1>3, <1>4, <1>9, StageMoves

\* A conversion begins: nothing that is there is all there is to be.
LEMMA BeginConversionKeeps ==
  ASSUME FileInv, NEW k \in Keys, BeginConversion(k)
  PROVE  FileInv'
<1>1. /\ Goto(k, "converting") /\ stage[k] = "queued" /\ ~Resumable(k)
      /\ UNCHANGED <<source, dest, dirs, result, up, complete, toCopy, dir, attempts, made, toPlace,
                     toPush, local, faults>>
  BY DEF BeginConversion, At, disk
<1>2. KeyInv(k) /\ toPush \in [Keys -> SUBSET Names]
  BY DEF FileInv, BaseInv
<1>3. stage'[k] = "converting" /\ "converting" \in Stages
  BY <1>1, AfterGoto DEF Stages
<1>4. TaskInv(k)'
  BY <1>1, <1>2, <1>3 DEF KeyInv, TaskInv, Resumable, Pushing, MadeOf, source, Foreseen
<1>5. CompleteInv(k)'
  BY <1>1, <1>2 DEF KeyInv, CompleteInv
<1>6. PlainInv(k)'
  BY <1>1, <1>2, <1>3 DEF KeyInv, PlainInv
<1>7. WholeInv(k)'
  BY <1>1, <1>2, <1>3 DEF KeyInv, WholeInv, IsObject, Unedited, source, Foreseen
<1>8. KeyInv(k)'
  BY <1>4, <1>5, <1>6, <1>7 DEF KeyInv
<1> QED
  BY <1>1, <1>2, <1>3, <1>8, StageMoves

\* All outputs are at the destination.
LEMMA FinishKeeps ==
  ASSUME FileInv, NEW k \in Keys, Finish(k)
  PROVE  FileInv'
<1>1. /\ Goto(k, "pushed") /\ stage[k] = "pushing" /\ toPush[k] = {} /\ RemoveLocal(k)
      /\ UNCHANGED <<source, dest, dirs, result, up, complete, toCopy, dir, attempts, made, toPlace,
                     toPush, faults>>
  BY DEF Finish, At
<1>2. KeyInv(k) /\ toPush \in [Keys -> SUBSET Names]
  BY DEF FileInv, BaseInv
<1>3. stage'[k] = "pushed" /\ "pushed" \in Stages
  BY <1>1, AfterGoto DEF Stages, Ended
<1>4. TaskInv(k)'
  BY <1>1, <1>2, <1>3 DEF KeyInv, TaskInv, Resumable, Pushing, MadeOf, source, Foreseen
<1>5. CompleteInv(k)'
  BY <1>1, <1>2 DEF KeyInv, CompleteInv
<1>6. PlainInv(k)'
  BY <1>1, <1>2, <1>3 DEF KeyInv, PlainInv
<1>7. WholeInv(k)'
  BY <1>1, <1>2, <1>3 DEF KeyInv, WholeInv, IsObject, Unedited, source, Foreseen
<1>8. KeyInv(k)'
  BY <1>4, <1>5, <1>6, <1>7 DEF KeyInv
<1> QED
  BY <1>1, <1>2, <1>3, <1>8, StageMoves, Removes

\* A conversion is tried again.
LEMMA TryAgainKeeps ==
  ASSUME FileInv, NEW k \in Keys, TryAgain(k)
  PROVE  FileInv'
<1>1. /\ attempts[k] + 1 < Retries /\ attempts' = [attempts EXCEPT ![k] = attempts[k] + 1]
      /\ UNCHANGED <<source, dest, dirs, result, local, up, complete, toCopy, stage, dir, made,
                     toPlace, toPush>>
      /\ UNCHANGED faults \/ Fault
  BY DEF TryAgain, Attempt, disk
<1>2. BaseInv'
  <2>1. faults' \in 0..MaxFaults
    BY <1>1, FaultCounted
  <2>2. attempts' \in [Keys -> 0..Retries - 1]
    <3>1. attempts \in [Keys -> 0..Retries - 1] /\ Retries \in Nat
      BY FileAssumption DEF FileInv, BaseInv
    <3>2. attempts[k] + 1 \in 0..Retries - 1
      BY <1>1, <3>1
    <3> QED
      BY <1>1, <3>1, <3>2
  <2> QED
    BY <1>1, <2>1, <2>2 DEF FileInv, BaseInv, source
<1>3. OutputsInv'
  BY <1>1 DEF FileInv, OutputsInv, Sound, MadeOf, source, Foreseen
<1>4. KeyInv(k)'
  BY <1>1, KeyStays DEF FileInv, source
<1> QED
  BY <1>1, <1>2, <1>3, <1>4, OneKey

\* What is converted for k is k's own, or another spelling's if k is none of the keys.
LEMMA OwnFile ==
  ASSUME FileInv, NEW k \in Keys, stage[k] # "none", NEW f \in File(k)
  PROVE  /\ f.key \in Keys /\ Kind[f.key] = Kind[k] /\ f.version \in DOMAIN Sheets[f.key]
         /\ f.version \in Nat \ {0} /\ f.version <= version[f.key]
         /\ k \in listed /\ Foreseen(k) => f.key = k
<1>1. /\ f \in local /\ f.dir = dir[k] /\ SamePath(f.name, k)
  BY DEF File, FileAt
<1>2. /\ f.key \in listed /\ f.version \in Nat \ {0} /\ SamePath(f.name, f.key)
      /\ f.version <= version[f.key]
  BY <1>1 DEF FileInv, LocalInv
<1>3. f.key \in Keys
  BY <1>2, ListedKeys
<1>4. SamePath(f.key, k) /\ SamePath(k, f.key)
  BY <1>1, <1>2 DEF SamePath
<1>5. Kind[f.key] = Kind[k]
  BY <1>3, <1>4, FileAssumption
<1>6. f.version \in DOMAIN Sheets[f.key]
  <2>1. version[f.key] \in DOMAIN Sheets[f.key] /\ Sheets[f.key] \in Seq(Nat \ {0})
    BY <1>3, FileAssumption DEF FileInv, BaseInv
  <2> QED
    BY <1>2, <2>1
<1>7. ASSUME k \in listed, Foreseen(k) PROVE f.key = k
  <2>1. CASE dir[k] # 0
    BY <1>7, <2>1 DEF FileInv, LocalInv
  <2>2. CASE dir[k] = 0
    <3>1. Alone(f.key)
      BY <1>1, <2>2 DEF FileInv, LocalInv
    <3>2. k \notin complete
      BY DEF FileInv, KeyInv, CompleteInv
    <3>3. SameFold(f.key, k) /\ SameFold(k, f.key)
      BY <1>2, <1>4, <1>7 DEF Foreseen, SameFold
    <3> QED
      BY <1>7, <3>1, <3>2, <3>3 DEF Alone
  <2> QED
    BY <2>1, <2>2
<1> QED
  BY <1>2, <1>3, <1>5, <1>6, <1>7

\* A file is converted.
LEMMA ConvertKeeps ==
  ASSUME FileInv, NEW k \in Keys, Convert(k)
  PROVE  FileInv'
<1>1. /\ up /\ stage[k] = "converting" /\ Goto(k, "placing")
      /\ UNCHANGED <<source, dest, disk, up, complete, toCopy, dir, attempts>>
  BY DEF Convert, At
<1>2. PICK f \in File(k), v \in Extents :
        /\ Attempt(k, f, {v})
        /\ made' = [made EXCEPT ![k] = {[key |-> f.key, version |-> f.version, extent |-> v]}]
        /\ toPlace' = [toPlace EXCEPT ![k] = NamesOf(Sheets[f.key][f.version])]
        /\ toPush' = [toPush EXCEPT ![k] = NamesOf(Sheets[f.key][f.version])]
  BY DEF Convert
<1> DEFINE c == [key |-> f.key, version |-> f.version, extent |-> v]
           n == Sheets[f.key][f.version]
<1>3. /\ f.key \in Keys /\ Kind[f.key] = Kind[k] /\ f.version \in DOMAIN Sheets[f.key]
      /\ f.version \in Nat \ {0} /\ f.version <= version[f.key]
      /\ k \in listed /\ Foreseen(k) => f.key = k
  BY <1>1, OwnFile
<1>4. n \in Nat \ {0} /\ NamesOf(n) \in SUBSET Names /\ NamesOf(n) # {}
  <2>1. n \in Nat \ {0}
    BY <1>3, SheetsType
  <2> HIDE DEF n
  <2> QED
    BY <2>1, NamesOfType
<1>5. KeyInv(k) /\ made \in [Keys -> SUBSET Content]
      /\ toPlace \in [Keys -> SUBSET Names] /\ toPush \in [Keys -> SUBSET Names]
  BY DEF FileInv, BaseInv
<1>6. c \in Content
  <2>1. f.version \in Nat
    BY <1>3
  <2> QED
    BY <1>2, <1>3, <2>1, Zenon DEF Content
<1>7. MadeOf(k, c)
  <2>1. ASSUME v = "part"
        PROVE  Kind[k] \in Unguarded \/ (Kind[k] \in Lenient /\ Nature[f.key] # "good")
    <3>1. PICK tool \in Tools(Kind[k]) : \E run \in RunsOf(tool) :
            Verdict(Kind[k], Nature[f.key], tool, run) \cap {v} # {}
      BY <1>2 DEF Attempt
    <3>2. PICK run \in RunsOf(tool) : v \in Verdict(Kind[k], Nature[f.key], tool, run)
      BY <3>1
    <3>3. Kind[k] \in Kinds /\ Nature[f.key] \in Natures
      BY <1>3, FileAssumption
    <3> QED
      BY <2>1, <3>2, <3>3, CutShort
  <2>2. c.key = f.key /\ c.extent = v
    OBVIOUS
  <2> HIDE DEF c
  <2> QED
    BY <1>3, <2>1, <2>2 DEF MadeOf, Foreseen
<1> HIDE DEF c, n
<1>8. /\ made'[k] = {c} /\ made' \in [Keys -> SUBSET Content]
      /\ toPlace'[k] = NamesOf(n) /\ toPlace' \in [Keys -> SUBSET Names]
      /\ toPush'[k] = NamesOf(n) /\ toPush' \in [Keys -> SUBSET Names]
      /\ \A j \in Keys \ {k} :
           made'[j] = made[j] /\ toPlace'[j] = toPlace[j] /\ toPush'[j] = toPush[j]
  BY <1>2, <1>4, <1>5, <1>6 DEF c, n
<1>9. stage'[k] = "placing" /\ stage' \in [Keys -> Stages]
      /\ \A j \in Keys \ {k} : stage'[j] = stage[j]
  BY <1>1 DEF FileInv, BaseInv, Goto, Stages
<1>10. BaseInv'
  <2>1. faults' \in 0..MaxFaults
    <3>1. UNCHANGED faults \/ Fault
      BY <1>2 DEF Attempt
    <3> QED
      BY <3>1, FaultCounted
  <2> QED
    BY <1>1, <1>8, <1>9, <2>1 DEF FileInv, BaseInv, source
<1>11. OutputsInv'
  BY <1>1 DEF FileInv, OutputsInv, Sound, MadeOf, source, disk, Foreseen
<1>12. TaskInv(k)'
  <2>1. MadeOf(k, c)'
    BY <1>1, <1>7 DEF MadeOf, source, Foreseen
  <2>2. up'
    BY <1>1
  <2> QED
    BY <1>4, <1>8, <1>9, <2>1, <2>2 DEF TaskInv
<1>13. CompleteInv(k)'
  BY <1>1, <1>5 DEF KeyInv, CompleteInv
<1>14. PlainInv(k)'
  <2> SUFFICES ASSUME k \notin Workbooks PROVE PlainInv(k)'
    BY DEF PlainInv
  <2>1. NamesOf(n) = {<<1, 1>>}
    <3>1. f.key \notin Workbooks
      BY <1>3 DEF Workbooks
    <3>2. n = 1
      BY <1>3, <3>1, SheetsType DEF n
    <3> QED
      BY <3>2, PlainName
  <2>2. NamesIn(result, k) = {}
    <3>1. <<1, 1>> \notin NamesIn(result, k)
      BY <1>1, <1>5 DEF KeyInv, TaskInv, Resumable, CompleteNames
    <3> QED
      BY <1>5, <3>1 DEF KeyInv, PlainInv
  <2> QED
    BY <1>1, <1>5, <1>8, <2>1, <2>2 DEF KeyInv, PlainInv, disk
<1>15. WholeInv(k)'
  <2> SUFFICES ASSUME IsObject(k), Unedited(k) PROVE WholeInv(k)'
    BY <1>1 DEF WholeInv, IsObject, Unedited, source, Foreseen
  <2>1. n = Sheets[k][1]
    <3>1. CASE k \in listed /\ Foreseen(k)
      <4>1. f.key = k /\ version[k] = 1 /\ f.version = 1
        BY <1>3, <3>1 DEF Unedited
      <4> QED
        BY <4>1 DEF n
    <3>2. CASE k \notin Workbooks
      <4>1. f.key \notin Workbooks
        BY <1>3, <3>2 DEF Workbooks
      <4> QED
        BY <1>3, <3>2, <4>1, SheetsType, FirstVersion DEF n
    <3> QED
      BY <3>1, <3>2 DEF IsObject, Foreseen
  <2> QED
    BY <1>1, <1>5, <1>8, <1>9, <2>1 DEF KeyInv, WholeInv, disk
<1>16. KeyInv(k)'
  BY <1>12, <1>13, <1>14, <1>15 DEF KeyInv
<1>17. local' \subseteq local /\ UNCHANGED <<dirs, dest, result, dir, source, up, complete, toCopy>>
  BY <1>1 DEF disk
<1> QED
  BY <1>8, <1>9, <1>10, <1>11, <1>16, <1>17, OneKey

\* An output is placed, or is there.
LEMMA PlaceKeeps ==
  ASSUME FileInv, NEW k \in Keys, Place(k)
  PROVE  FileInv'
<1> DEFINE name == FirstName(toPlace[k])
           there == name \in NamesIn(result, k)
           new == {[group |-> k, name |-> name, key |-> c.key, version |-> c.version,
                    extent |-> c.extent] : c \in made[k]}
<1>1. /\ up /\ stage[k] = "placing" /\ toPlace[k] # {}
      /\ UNCHANGED <<source, dest, local, dirs, up, complete, toCopy, dir, attempts, made, toPush, faults>>
  BY DEF Place, At
<1>2. \/ /\ Goto(k, "failed") /\ UNCHANGED <<result, toPlace>>
      \/ /\ result' = IF there THEN result ELSE result \cup new
         /\ toPlace' = [toPlace EXCEPT ![k] = toPlace[k] \ {name}]
         /\ IF toPlace[k] = {name} THEN Goto(k, "pushing") ELSE UNCHANGED stage
  BY DEF Place
<1>3. CASE Goto(k, "failed") /\ UNCHANGED <<result, toPlace>>
  BY <1>1, <1>3, Fails
<1>4. CASE /\ result' = IF there THEN result ELSE result \cup new
           /\ toPlace' = [toPlace EXCEPT ![k] = toPlace[k] \ {name}]
           /\ IF toPlace[k] = {name} THEN Goto(k, "pushing") ELSE UNCHANGED stage
  <2>1. /\ KeyInv(k) /\ made \in [Keys -> SUBSET Content] /\ toPlace \in [Keys -> SUBSET Names]
        /\ toPush \in [Keys -> SUBSET Names] /\ Sound(result) /\ Sound(dest)
    BY DEF FileInv, BaseInv, OutputsInv
  <2>2. name \in toPlace[k] /\ name \in Names
    BY <1>1, <2>1, FirstIsOne
  <2> HIDE DEF name
  <2>3. /\ new \subseteq Outputs /\ \A o, p \in new : o = p
        /\ \A o \in new : o.group = k /\ o.name = name /\ MadeOf(k, o)
        /\ new # {}
    <3>1. \A c \in made[k] : c \in Content /\ MadeOf(k, c) /\ \A d \in made[k] : c = d
      BY <2>1 DEF KeyInv, TaskInv
    <3>2. made[k] # {}
      BY <1>1, <2>1 DEF KeyInv, TaskInv
    <3>3. PICK c \in made[k] : made[k] = {c}
      BY <3>1, <3>2
    <3> DEFINE o == [group |-> k, name |-> name, key |-> c.key, version |-> c.version,
                     extent |-> c.extent]
    <3>4. new = {o}
      BY <3>3
    <3>5. o \in Outputs
      BY <2>2, <3>1 DEF Outputs, Names, Content
    <3>6. o.group = k /\ o.name = name /\ o.key = c.key /\ o.extent = c.extent
      OBVIOUS
    <3> HIDE DEF o, new
    <3>7. MadeOf(k, o)
      BY <3>1, <3>6, Zenon DEF MadeOf, Foreseen
    <3> QED
      BY <3>4, <3>5, <3>6, <3>7
  <2>4. NamesIn(new, k) = {name} /\ \A j : j # k => NamesIn(new, j) = {}
    BY <2>3 DEF NamesIn
  <2>5. Sound(new)
    BY <2>3 DEF Sound
  <2>6. ASSUME ~there, NEW o \in new, NEW p \in result PROVE o.group # p.group \/ o.name # p.name
    BY <2>3, <2>6 DEF NamesIn
  <2> HIDE DEF new
  <2>7. /\ NamesIn(result', k) = NamesIn(result, k) \cup {name}
        /\ \A j : j # k => NamesIn(result', j) = NamesIn(result, j)
    <3>1. CASE there
      BY <1>4, <3>1
    <3>2. CASE ~there
      <4>1. result' = result \cup new
        BY <1>4, <3>2
      <4>2. \A j : NamesIn(result', j) = NamesIn(result, j) \cup NamesIn(new, j)
        BY <4>1, NamesMore
      <4> QED
        BY <2>4, <4>2
    <3> QED
      BY <3>1, <3>2
  <2>8. Sound(result')
    <3>1. CASE there
      BY <1>4, <2>1, <3>1
    <3>2. CASE ~there
      <4>1. Sound(result \cup new)
        BY <2>1, <2>5, <2>6, <3>2, SoundMore
      <4> QED
        BY <1>4, <3>2, <4>1
    <3> QED
      BY <3>1, <3>2
  <2>9. OutputsInv'
    BY <1>1, <2>1, <2>8 DEF OutputsInv, Sound, MadeOf, source, Foreseen
  <2>10. /\ toPlace'[k] = toPlace[k] \ {name} /\ toPlace' \in [Keys -> SUBSET Names]
         /\ \A j \in Keys \ {k} : toPlace'[j] = toPlace[j]
    BY <1>4, <2>1
  <2>11. /\ stage' \in [Keys -> Stages] /\ \A j \in Keys \ {k} : stage'[j] = stage[j]
         /\ stage'[k] = IF toPlace[k] = {name} THEN "pushing" ELSE "placing"
    BY <1>1, <1>4 DEF FileInv, BaseInv, Goto, Stages
  <2>12. BaseInv'
    BY <1>1, <2>10, <2>11 DEF FileInv, BaseInv, source
  <2>13. TaskInv(k)'
    BY <1>1, <2>1, <2>2, <2>7, <2>10, <2>11 DEF KeyInv, TaskInv, MadeOf, source, Foreseen
  <2>14. CompleteInv(k)'
    BY <1>1, <2>1 DEF KeyInv, CompleteInv
  <2>15. PlainInv(k)'
    <3> SUFFICES ASSUME k \notin Workbooks PROVE PlainInv(k)'
      BY DEF PlainInv
    <3>1. toPlace[k] = {name} /\ name = <<1, 1>>
      BY <2>1, <2>2 DEF KeyInv, TaskInv, PlainInv
    <3> QED
      BY <1>1, <2>1, <2>7, <2>11, <3>1 DEF KeyInv, PlainInv
  <2>16. WholeInv(k)'
    <3> SUFFICES ASSUME IsObject(k), Unedited(k) PROVE WholeInv(k)'
      BY <1>1 DEF WholeInv, IsObject, Unedited, source, Foreseen
    <3>1. name \in toPush[k]
      BY <2>1, <2>2 DEF KeyInv, TaskInv
    <3> QED
      BY <1>1, <2>1, <2>7, <2>11, <3>1 DEF KeyInv, WholeInv
  <2>17. KeyInv(k)'
    BY <2>13, <2>14, <2>15, <2>16 DEF KeyInv
  <2> QED
    BY <1>1, <2>7, <2>9, <2>10, <2>11, <2>12, <2>17, OneKey
<1> QED
  BY <1>2, <1>3, <1>4

\* An output is pushed.
LEMMA PushKeeps ==
  ASSUME FileInv, NEW k \in Keys, Push(k)
  PROVE  FileInv'
<1> DEFINE name == Pushing(k)
           kept == {o \in dest : o.group # k \/ o.name # name}
           new == {o \in result : o.group = k /\ o.name = name}
<1>1. /\ up /\ stage[k] = "pushing" /\ toPush[k] # {} /\ Goto(k, "sent") /\ dest' = kept \cup new
      /\ UNCHANGED <<source, disk, up, complete, toCopy, dir, attempts, made, toPlace, toPush, faults>>
  BY DEF Push, At
<1>2. /\ KeyInv(k) /\ toPush \in [Keys -> SUBSET Names] /\ Sound(result) /\ Sound(dest)
  BY DEF FileInv, BaseInv, OutputsInv
<1>3. name \in toPush[k]
  BY <1>1, <1>2, FirstIsOne DEF Pushing
<1> HIDE DEF name
<1>4. name \in NamesIn(result, k)
  BY <1>1, <1>2, <1>3 DEF KeyInv, TaskInv
<1>5. NamesIn(new, k) = {name} /\ \A j : j # k => NamesIn(new, j) = {}
  BY <1>4 DEF NamesIn
<1>6. /\ NamesIn(dest', k) = NamesIn(dest, k) \cup {name}
      /\ \A j : j # k => NamesIn(dest', j) = NamesIn(dest, j)
  <2> HIDE DEF new
  <2>1. \A j : NamesIn(dest', j) = NamesIn(kept, j) \cup NamesIn(new, j)
    BY <1>1, NamesMore
  <2>2. \A o : o \in kept <=> o \in dest /\ (o.group # k \/ o.name # name)
    OBVIOUS
  <2> HIDE DEF kept
  <2>3. NamesIn(kept, k) = NamesIn(dest, k) \ {name} /\ \A j : j # k => NamesIn(kept, j) = NamesIn(dest, j)
    BY <2>2 DEF NamesIn
  <2>4. NamesIn(dest', k) = NamesIn(dest, k) \cup {name}
    BY <1>5, <2>1, <2>3
  <2>5. ASSUME NEW j, j # k PROVE NamesIn(dest', j) = NamesIn(dest, j)
    <3>1. NamesIn(kept, j) = NamesIn(dest, j) /\ NamesIn(new, j) = {}
      BY <1>5, <2>3, <2>5
    <3> QED
      BY <2>1, <3>1
  <2> QED
    BY <2>4, <2>5
<1>7. Sound(dest')
  <2>1. Sound(kept) /\ Sound(new)
    BY <1>2, SoundFewer
  <2>2. \A o \in new : \A p \in kept : o.group # p.group \/ o.name # p.name
    OBVIOUS
  <2> HIDE DEF kept, new
  <2> QED
    BY <1>1, <2>1, <2>2, SoundMore
<1>8. OutputsInv'
  BY <1>1, <1>2, <1>7 DEF OutputsInv, Sound, MadeOf, source, disk, Foreseen
<1>9. /\ stage' \in [Keys -> Stages] /\ stage'[k] = "sent"
      /\ \A j \in Keys \ {k} : stage'[j] = stage[j]
  BY <1>1 DEF FileInv, BaseInv, Goto, Stages
<1>10. BaseInv'
  BY <1>1, <1>9 DEF FileInv, BaseInv, source
<1>11. Pushing(k)' = name
  BY <1>1 DEF Pushing, name
<1>12. TaskInv(k)'
  BY <1>1, <1>2, <1>6, <1>9, <1>11 DEF KeyInv, TaskInv, MadeOf, source, disk, Foreseen
<1>13. CompleteInv(k)'
  BY <1>1, <1>2 DEF KeyInv, CompleteInv
<1>14. PlainInv(k)'
  BY <1>1, <1>2, <1>3, <1>6, <1>9 DEF KeyInv, PlainInv, disk
<1>15. WholeInv(k)'
  BY <1>1, <1>2, <1>3, <1>6, <1>9 DEF KeyInv, WholeInv, IsObject, Unedited, source, disk, Foreseen
<1>16. KeyInv(k)'
  BY <1>12, <1>13, <1>14, <1>15 DEF KeyInv
<1>17. UNCHANGED <<source, dirs, up, complete, toCopy, dir, local, result, made, toPlace, toPush>>
  BY <1>1 DEF disk
<1> QED
  BY <1>6, <1>8, <1>9, <1>10, <1>16, <1>17, OneKey

\* Its local copy goes.
LEMMA RemoveOutputKeeps ==
  ASSUME FileInv, NEW k \in Keys, RemoveOutput(k)
  PROVE  FileInv'
<1> DEFINE name == Pushing(k)
<1>1. /\ up /\ stage[k] = "sent" /\ Goto(k, "pushing")
      /\ result' = {o \in result : o.group # k \/ o.name # name}
      /\ toPush' = [toPush EXCEPT ![k] = toPush[k] \ {name}]
      /\ UNCHANGED <<source, dest, local, dirs, up, complete, toCopy, dir, attempts, made, toPlace, faults>>
  BY DEF RemoveOutput, At
<1>2. /\ KeyInv(k) /\ toPush \in [Keys -> SUBSET Names] /\ Sound(result) /\ Sound(dest)
  BY DEF FileInv, BaseInv, OutputsInv
<1>3. name \in NamesIn(dest, k)
  BY <1>1, <1>2 DEF KeyInv, TaskInv
<1> HIDE DEF name
<1>4. /\ NamesIn(result', k) = NamesIn(result, k) \ {name}
      /\ \A j : j # k => NamesIn(result', j) = NamesIn(result, j)
  <2>1. \A o : o \in result' <=> o \in result /\ (o.group # k \/ o.name # name)
    BY <1>1
  <2> QED
    BY <2>1 DEF NamesIn
<1>5. Sound(result')
  <2>1. result' \subseteq result
    BY <1>1
  <2> QED
    BY <1>2, <2>1, SoundFewer
<1>6. OutputsInv'
  BY <1>1, <1>2, <1>5 DEF OutputsInv, Sound, MadeOf, source, Foreseen
<1>7. /\ stage' \in [Keys -> Stages] /\ stage'[k] = "pushing"
      /\ \A j \in Keys \ {k} : stage'[j] = stage[j]
  BY <1>1 DEF FileInv, BaseInv, Goto, Stages
<1>8. /\ toPush'[k] = toPush[k] \ {name} /\ toPush' \in [Keys -> SUBSET Names]
      /\ \A j \in Keys \ {k} : toPush'[j] = toPush[j]
  BY <1>1, <1>2
<1>9. BaseInv'
  BY <1>1, <1>7, <1>8 DEF FileInv, BaseInv, source
<1>10. TaskInv(k)'
  BY <1>1, <1>2, <1>4, <1>7, <1>8 DEF KeyInv, TaskInv, MadeOf, source, Foreseen
<1>11. CompleteInv(k)'
  BY <1>1, <1>2 DEF KeyInv, CompleteInv
<1>12. PlainInv(k)'
  BY <1>1, <1>2, <1>4, <1>7, <1>8 DEF KeyInv, PlainInv
<1>13. WholeInv(k)'
  BY <1>1, <1>2, <1>3, <1>4, <1>7, <1>8 DEF KeyInv, WholeInv, IsObject, Unedited, source, Foreseen
<1>14. KeyInv(k)'
  BY <1>10, <1>11, <1>12, <1>13 DEF KeyInv
<1> QED
  BY <1>1, <1>4, <1>6, <1>7, <1>8, <1>9, <1>14, OneKey

-----------------------------------------------------------------------------
(* The bulk pull. *)

\* A new file's name is the key's, in the directory that is there.
LEMMA SpelledSame ==
  ASSUME FileInv, NEW k \in Keys
  PROVE  Spelled(k) \in Keys /\ SamePath(Spelled(k), k)
<1>1. CASE Len(k) > 1 /\ \E d \in dirs : OnVolume[d] = OnVolume[k[1]]
  <2> DEFINE d == CHOOSE d \in dirs : OnVolume[d] = OnVolume[k[1]]
  <2>1. d \in dirs /\ OnVolume[d] = OnVolume[k[1]]
    BY <1>1
  <2> HIDE DEF d
  <2>2. PICK j \in Keys : d = j[1]
    BY <2>1 DEF FileInv, LocalInv
  <2>3. Spelled(k) = In(d, k)
    BY <1>1 DEF Spelled, d
  <2>4. In(d, k) \in Keys
    BY <1>1, <2>1, <2>2, FileAssumption
  <2>5. k \in Seq(DOMAIN OnVolume) /\ k # <<>>
    BY FileAssumption DEF Keys, ToSet
  <2>6. /\ DOMAIN In(d, k) = DOMAIN k
        /\ \A i \in DOMAIN k : In(d, k)[i] = IF i = 1 THEN d ELSE k[i]
    <3> DEFINE rest == Tail(k)
    <3>1. rest \in Seq(DOMAIN OnVolume) /\ Len(rest) = Len(k) - 1
          /\ \A i \in 1..Len(rest) : rest[i] = k[i + 1]
      BY <2>5
    <3> HIDE DEF rest
    <3>2. In(d, k) = <<d>> \o rest
      BY DEF In, rest
    <3> DEFINE S == DOMAIN OnVolume \cup {d}
    <3>3. <<d>> \in Seq(S) /\ rest \in Seq(S)
      BY <3>1
    <3> HIDE DEF S
    <3>4. /\ Len(<<d>> \o rest) = 1 + Len(rest) /\ <<d>> \o rest \in Seq(S)
          /\ \A i \in 1..(1 + Len(rest)) : (<<d>> \o rest)[i] = IF i = 1 THEN d ELSE rest[i - 1]
      BY <3>3
    <3>5. DOMAIN (<<d>> \o rest) = 1..(1 + Len(rest)) /\ DOMAIN k = 1..(1 + Len(rest))
          /\ Len(rest) \in Nat
      BY <2>5, <3>1, <3>4
    <3>6. ASSUME NEW i \in DOMAIN k, i # 1 PROVE rest[i - 1] = k[i]
      <4>1. i - 1 \in 1..Len(rest) /\ (i - 1) + 1 = i
        BY <3>5, <3>6
      <4> QED
        BY <3>1, <4>1
    <3> QED
      BY <3>2, <3>4, <3>5, <3>6
  <2>7. SamePath(In(d, k), k)
    BY <2>1, <2>6 DEF SamePath
  <2> QED
    BY <2>3, <2>4, <2>7
<1>2. CASE ~(Len(k) > 1 /\ \E d \in dirs : OnVolume[d] = OnVolume[k[1]])
  BY <1>2 DEF Spelled, SamePath
<1> QED
  BY <1>1, <1>2

\* rclone copies a key, or finds it there.
LEMMA TransferKeeps ==
  ASSUME FileInv, NEW k \in Keys, Transfer(k)
  PROVE  FileInv'
<1> DEFINE there == FileAt(0, k)
           name == IF there = {} THEN Spelled(k) ELSE (CHOOSE f \in there : TRUE).name
           new == [dir |-> 0, name |-> name, key |-> k, version |-> version[k]]
<1>1. /\ up /\ k \in toCopy /\ toCopy' = toCopy \ {k}
      /\ UNCHANGED <<source, dest, result, up, complete, dir, attempts, made, toPlace, toPush, faults>>
  BY DEF Transfer
<1>2. \/ UNCHANGED <<local, dirs, stage>>
      \/ /\ local' = (local \ there) \cup {new}
         /\ dirs' = IF Len(k) > 1 THEN dirs \cup {name[1]} ELSE dirs
         /\ stage' = IF k \in complete \/ Dispatched(k) \/ Tripped THEN stage ELSE [stage EXCEPT ![k] = "queued"]
  BY DEF Transfer
<1>3. k \in listed /\ Alone(k) /\ listed \subseteq Keys
  BY <1>1, ListedKeys DEF FileInv, BaseInv, LocalInv
<1>4. name \in Keys /\ SamePath(name, k)
  <2>1. CASE there = {}
    BY <2>1, SpelledSame
  <2>2. CASE there # {}
    <3>1. (CHOOSE f \in there : TRUE) \in there
      BY <2>2
    <3>2. \A f \in there : f.name \in Keys /\ SamePath(f.name, k)
      BY DEF FileAt, FileInv, LocalInv
    <3> QED
      BY <2>2, <3>1, <3>2
  <2> QED
    BY <2>1, <2>2
<1> HIDE DEF name
<1>5. \A j : Alone(j)' <=> Alone(j)
  BY <1>1 DEF Alone, source
<1>6. version[k] \in Nat \ {0}
  BY DEF FileInv, BaseInv
<1>7. LocalInv'
  <2>1. CASE UNCHANGED <<local, dirs, stage>>
    BY <1>1, <1>5, <2>1 DEF FileInv, LocalInv, File, FileAt, source, Foreseen
  <2>2. CASE /\ local' = (local \ there) \cup {new}
             /\ dirs' = IF Len(k) > 1 THEN dirs \cup {name[1]} ELSE dirs
    <3>1. new \in [dir : Nat, name : Keys, key : listed, version : Nat \ {0}]
      BY <1>3, <1>4, <1>6
    <3>2. new.dir = 0 /\ new.name = name /\ new.key = k /\ new.version = version[k]
      OBVIOUS
    <3> HIDE DEF new
    <3>3. \A f \in local' : f = new \/ (f \in local /\ f \notin there)
      BY <2>2
    <3>4. LocalInv
      BY DEF FileInv
    <3>5. local' \subseteq [dir : Nat, name : Keys, key : listed, version : Nat \ {0}]
      BY <3>1, <3>3, <3>4 DEF LocalInv
    <3>6. \A f \in local' : SamePath(f.name, f.key) /\ f.version <= version[f.key]
      BY <1>4, <1>6, <3>2, <3>3, <3>4 DEF LocalInv
    <3>7. ASSUME NEW f \in local, f \notin there, f.dir = 0 PROVE ~SamePath(f.name, name)
      BY <1>4, <3>7 DEF FileAt, SamePath
    <3>8. ASSUME NEW f \in local', NEW g \in local', f.dir = g.dir, SamePath(f.name, g.name)
          PROVE  f = g
      <4>1. CASE f \in local /\ g \in local
        BY <3>4, <3>8, <4>1 DEF LocalInv
      <4>2. CASE f = new
        <5>1. SamePath(g.name, name) /\ g.dir = 0
          BY <3>2, <3>8, <4>2 DEF SamePath
        <5> QED
          BY <3>3, <3>7, <4>2, <5>1
      <4>3. CASE g = new
        <5>1. SamePath(f.name, name) /\ f.dir = 0
          BY <3>2, <3>8, <4>3
        <5> QED
          BY <3>3, <3>7, <4>3, <5>1
      <4> QED
        BY <3>3, <4>1, <4>2, <4>3
    <3>9. \A f \in local' : f.dir = 0 => Alone(f.key)
      BY <1>3, <3>2, <3>3, <3>4 DEF LocalInv
    <3>10. ASSUME NEW j \in listed, Foreseen(j), dir[j] # 0, NEW f \in File(j)' PROVE f.key = j
      <4>1. f \in local' /\ f.dir = dir[j] /\ SamePath(f.name, j)
        BY <1>1 DEF File, FileAt
      <4>2. f \in local
        BY <3>2, <3>3, <3>10, <4>1
      <4>3. f \in File(j)
        BY <4>1, <4>2 DEF File, FileAt
      <4> QED
        BY <3>4, <3>10, <4>3 DEF LocalInv
    <3>11. dirs' \subseteq {j[1] : j \in Keys}
      BY <1>4, <2>2, <3>4 DEF LocalInv
    <3> QED
      BY <1>1, <1>5, <3>4, <3>5, <3>6, <3>8, <3>9, <3>10, <3>11 DEF LocalInv, source, Foreseen
  <2> QED
    BY <1>2, <2>1, <2>2
<1>8. \/ stage' = stage
      \/ stage' = [stage EXCEPT ![k] = "queued"] /\ k \notin complete /\ stage[k] = "none"
  BY <1>2 DEF Dispatched
<1>9. stage \in [Keys -> Stages] /\ "queued" \in Stages
  BY DEF FileInv, BaseInv, Stages
<1>10. BaseInv'
  BY <1>1, <1>8, <1>9 DEF FileInv, BaseInv, source
<1>11. OutputsInv'
  BY <1>1 DEF FileInv, OutputsInv, Sound, MadeOf, source, Foreseen
<1>12. ASSUME NEW j \in Keys PROVE KeyInv(j)'
  <2>1. KeyInv(j)
    BY DEF FileInv
  <2>2. CASE stage'[j] = stage[j]
    BY <1>1, <2>1, <2>2, KeyStays DEF source
  <2>3. CASE stage'[j] # stage[j]
    <3>1. stage'[j] = "queued" /\ j \notin complete /\ stage[j] = "none"
      BY <1>8, <1>9, <2>3
    <3>2. TaskInv(j)'
      BY <1>1, <2>1, <3>1 DEF KeyInv, TaskInv, MadeOf, source, Foreseen
    <3>3. CompleteInv(j)'
      BY <1>1, <3>1 DEF CompleteInv
    <3>4. PlainInv(j)'
      BY <1>1, <2>1, <3>1 DEF KeyInv, PlainInv
    <3>5. WholeInv(j)'
      BY <1>1, <2>1, <3>1 DEF KeyInv, WholeInv, IsObject, Unedited, source, Foreseen
    <3> QED
      BY <3>2, <3>3, <3>4, <3>5 DEF KeyInv
  <2> QED
    BY <2>2, <2>3
<1> QED
  BY <1>7, <1>10, <1>11, <1>12 DEF FileInv

\* It gives a key up.
LEMMA TransferFailsKeeps ==
  ASSUME FileInv, NEW k \in Keys, TransferFails(k)
  PROVE  FileInv'
<1>1. /\ toCopy' \subseteq toCopy /\ Fault
      /\ UNCHANGED <<listed, version, dest, local, dirs, result, up, complete, stage, dir, attempts,
                     made, toPlace, toPush>>
  BY DEF TransferFails, source, disk, task
<1>2. faults' \in 0..MaxFaults
  BY <1>1, FaultCounted
<1>3. BaseInv'
  BY <1>1, <1>2 DEF FileInv, BaseInv
<1>4. OutputsInv'
  BY <1>1 DEF FileInv, OutputsInv, Sound, MadeOf, Foreseen
<1>5. LocalInv'
  <2>1. \A j : Alone(j)' <=> Alone(j)
    BY <1>1 DEF Alone
  <2> QED
    BY <1>1, <2>1 DEF FileInv, LocalInv, File, FileAt, Foreseen
<1>6. \A j \in Keys : KeyInv(j)'
  BY <1>1, KeyStays DEF FileInv
<1> QED
  BY <1>3, <1>4, <1>5, <1>6 DEF FileInv

-----------------------------------------------------------------------------
(* Runs. *)

\* The process forgets its tasks.
LEMMA Forgotten ==
  ASSUME ForgetTasks
  PROVE  /\ \A k \in Keys : made'[k] = {} /\ toPlace'[k] = {} /\ toPush'[k] = {} /\ dir'[k] = 0
         /\ dir' \in [Keys -> Nat] /\ attempts' \in [Keys -> 0..Retries - 1]
         /\ made' \in [Keys -> SUBSET Content]
         /\ toPlace' \in [Keys -> SUBSET Names] /\ toPush' \in [Keys -> SUBSET Names]
<1>1. 0 \in 0..Retries - 1
  BY FileAssumption
<1> QED
  BY <1>1 DEF ForgetTasks

\* Nothing on the disk changes, and no file is another's that was not.
LEMMA LocalRests ==
  ASSUME FileInv, UNCHANGED <<listed, version, local, dirs, complete>>, toCopy' \subseteq toCopy,
         \A k \in Keys : dir'[k] = 0
  PROVE  LocalInv'
<1>1. \A j : Alone(j)' <=> Alone(j)
  BY DEF Alone
<1>2. \A k \in listed : dir'[k] = 0
  BY ListedKeys
<1> QED
  BY <1>1, <1>2 DEF FileInv, LocalInv

\* A run ends.
LEMMA EndRunKeeps ==
  ASSUME FileInv, EndRun
  PROVE  FileInv'
<1>1. /\ \A k \in Keys : stage[k] \in {"none", "queued"} \cup Ended
      /\ up' = FALSE /\ ForgetTasks
      /\ UNCHANGED <<listed, version, dest, local, dirs, result, complete, toCopy, stage, faults>>
  BY DEF EndRun, source, disk
<1>2. /\ \A k \in Keys : made'[k] = {} /\ toPlace'[k] = {} /\ toPush'[k] = {} /\ dir'[k] = 0
      /\ dir' \in [Keys -> Nat] /\ attempts' \in [Keys -> 0..Retries - 1]
      /\ made' \in [Keys -> SUBSET Content]
      /\ toPlace' \in [Keys -> SUBSET Names] /\ toPush' \in [Keys -> SUBSET Names]
  BY <1>1, Forgotten
<1>3. BaseInv'
  <2>1. up' \in BOOLEAN
    BY <1>1
  <2> QED
    BY <1>1, <1>2, <2>1 DEF FileInv, BaseInv
<1>4. OutputsInv'
  BY <1>1 DEF FileInv, OutputsInv, Sound, MadeOf, Foreseen
<1>5. LocalInv'
  BY <1>1, <1>2, LocalRests
<1>6. ASSUME NEW k \in Keys PROVE KeyInv(k)'
  <2>1. KeyInv(k) /\ stage'[k] = stage[k] /\ stage[k] \in {"none", "queued", "pushed", "skipped", "failed"}
    BY <1>1 DEF FileInv, Ended
  <2>2. TaskInv(k)'
    BY <1>2, <2>1 DEF TaskInv
  <2>3. CompleteInv(k)'
    BY <1>1, <2>1 DEF KeyInv, CompleteInv
  <2>4. PlainInv(k)'
    BY <1>1, <1>2, <2>1 DEF KeyInv, PlainInv
  <2>5. WholeInv(k)'
    BY <1>1, <1>2, <2>1 DEF KeyInv, TaskInv, WholeInv, IsObject, Unedited, Foreseen
  <2> QED
    BY <2>2, <2>3, <2>4, <2>5 DEF KeyInv
<1> QED
  BY <1>3, <1>4, <1>5, <1>6 DEF FileInv

\* The process is killed.
LEMMA CrashKeeps ==
  ASSUME FileInv, Crash
  PROVE  FileInv'
<1>1. /\ up' = FALSE /\ ForgetTasks /\ Fault /\ toCopy' = {} /\ stage' = [k \in Keys |-> "none"]
      /\ UNCHANGED <<listed, version, dest, local, dirs, result, complete>>
  BY DEF Crash, source, disk
<1>2. /\ \A k \in Keys : made'[k] = {} /\ toPlace'[k] = {} /\ toPush'[k] = {} /\ dir'[k] = 0
      /\ dir' \in [Keys -> Nat] /\ attempts' \in [Keys -> 0..Retries - 1]
      /\ made' \in [Keys -> SUBSET Content]
      /\ toPlace' \in [Keys -> SUBSET Names] /\ toPush' \in [Keys -> SUBSET Names]
  BY <1>1, Forgotten
<1>3. BaseInv'
  <2>1. up' \in BOOLEAN /\ stage' \in [Keys -> Stages]
    BY <1>1 DEF Stages
  <2>2. faults' \in 0..MaxFaults
    BY <1>1, FaultCounted
  <2> QED
    BY <1>1, <1>2, <2>1, <2>2 DEF FileInv, BaseInv
<1>4. OutputsInv'
  BY <1>1 DEF FileInv, OutputsInv, Sound, MadeOf, Foreseen
<1>5. LocalInv'
  BY <1>1, <1>2, LocalRests
<1>6. ASSUME NEW k \in Keys PROVE KeyInv(k)'
  <2>1. KeyInv(k) /\ stage'[k] = "none"
    BY <1>1 DEF FileInv
  <2>2. TaskInv(k)'
    BY <1>2, <2>1 DEF TaskInv
  <2>3. CompleteInv(k)'
    BY <1>1, <2>1 DEF KeyInv, CompleteInv
  <2>4. PlainInv(k)'
    BY <1>1, <1>2, <2>1 DEF KeyInv, PlainInv
  <2>5. WholeInv(k)'
    BY <1>1, <1>2, <2>1 DEF KeyInv, WholeInv, IsObject, Unedited, Foreseen
  <2> QED
    BY <2>2, <2>3, <2>4, <2>5 DEF KeyInv
<1> QED
  BY <1>3, <1>4, <1>5, <1>6 DEF FileInv

\* The next run has another disk.
LEMMA NewHostKeeps ==
  ASSUME FileInv, NewHost
  PROVE  FileInv'
<1>1. /\ ~up /\ local' = {} /\ dirs' = {} /\ result' = {}
      /\ UNCHANGED <<listed, version, dest, up, complete, toCopy, stage, dir, attempts, made, toPlace,
                     toPush, faults>>
  BY DEF NewHost, source, task
<1>2. BaseInv'
  BY <1>1 DEF FileInv, BaseInv
<1>3. OutputsInv'
  BY <1>1 DEF FileInv, OutputsInv, Sound, MadeOf, Foreseen
<1>4. LocalInv'
  <2>1. \A j : Alone(j)' <=> Alone(j)
    BY <1>1 DEF Alone
  <2> QED
    BY <1>1, <2>1 DEF FileInv, LocalInv, File, FileAt, Foreseen
<1>5. ASSUME NEW k \in Keys PROVE KeyInv(k)'
  <2>1. KeyInv(k) /\ NamesIn(result', k) = {}
    BY <1>1 DEF FileInv, NamesIn
  <2>2. ~Resumable(k)'
    BY <2>1 DEF Resumable, CompleteNames
  <2>3. TaskInv(k)'
    <3>1. made[k] = {} /\ toPlace[k] = {} /\ toPush[k] = {} /\ stage[k] \notin {"placing", "sent"}
      BY <1>1, <2>1 DEF KeyInv, TaskInv
    <3> QED
      BY <1>1, <2>1, <2>2, <3>1 DEF TaskInv
  <2>4. CompleteInv(k)'
    BY <1>1, <2>1 DEF KeyInv, CompleteInv
  <2>5. PlainInv(k)'
    BY <1>1, <2>1 DEF KeyInv, PlainInv
  <2>6. WholeInv(k)'
    BY <1>1, <2>1 DEF KeyInv, WholeInv, IsObject, Unedited, Foreseen
  <2> QED
    BY <2>3, <2>4, <2>5, <2>6 DEF KeyInv
<1> QED
  BY <1>2, <1>3, <1>4, <1>5 DEF FileInv

\* An object is replaced.
LEMMA EditKeeps ==
  ASSUME FileInv, NEW k \in Keys, Edit(k)
  PROVE  FileInv'
<1>1. /\ version[k] + 1 \in DOMAIN Sheets[k] /\ version' = [version EXCEPT ![k] = version[k] + 1]
      /\ UNCHANGED <<listed, dest, local, dirs, result, up, complete, toCopy, stage, dir, attempts,
                     made, toPlace, toPush, faults>>
  BY DEF Edit, disk, task
<1>2. /\ version \in [Keys -> Nat \ {0}] /\ version' \in [Keys -> Nat \ {0}]
      /\ \A j \in Keys : version'[j] = IF j = k THEN version[k] + 1 ELSE version[j]
  BY <1>1 DEF FileInv, BaseInv
<1>3. BaseInv'
  BY <1>1, <1>2 DEF FileInv, BaseInv
<1>4. OutputsInv'
  BY <1>1 DEF FileInv, OutputsInv, Sound, MadeOf, Foreseen
<1>5. LocalInv'
  <2>1. \A j : Alone(j)' <=> Alone(j)
    BY <1>1 DEF Alone
  <2>2. ASSUME NEW f \in local PROVE f.version <= version'[f.key]
    <3>1. f.version \in Nat /\ f.key \in Keys /\ f.version <= version[f.key]
      BY ListedKeys DEF FileInv, LocalInv
    <3> QED
      BY <1>2, <3>1
  <2> QED
    BY <1>1, <2>1, <2>2 DEF FileInv, LocalInv, File, FileAt, Foreseen
<1>6. ASSUME NEW j \in Keys PROVE KeyInv(j)'
  <2>1. KeyInv(j)
    BY DEF FileInv
  <2>2. TaskInv(j)'
    BY <1>1, <2>1 DEF KeyInv, TaskInv, Resumable, Pushing, MadeOf, Foreseen
  <2>3. CompleteInv(j)'
    BY <1>1, <2>1 DEF KeyInv, CompleteInv
  <2>4. PlainInv(j)'
    BY <1>1, <2>1 DEF KeyInv, PlainInv
  <2>5. WholeInv(j)'
    <3>1. Unedited(j)' => Unedited(j)
      BY <1>2 DEF Unedited
    <3> QED
      BY <1>1, <2>1, <3>1 DEF KeyInv, WholeInv, IsObject, Foreseen
  <2> QED
    BY <2>2, <2>3, <2>4, <2>5 DEF KeyInv
<1> QED
  BY <1>3, <1>4, <1>5, <1>6 DEF FileInv

\* A run begins: what was done is done, and what is pulled beside it has a path of
\* its own, or a slot.
LEMMA StartRunKeeps ==
  ASSUME FileInv, StartRun
  PROVE  FileInv'
<1> DEFINE done == {k \in Keys : CompleteNames(NamesIn(dest, k))}
           scan == Scanned(done)
           variants == Colliding(ToPull(done))
<1>1. PICK slots \in {Slots(variants)}, landed \in SUBSET variants :
        LET slot(k) == SlotOf(slots, k)
            Rivals(k) == {j \in variants : slot(j) = slot(k) /\ SamePath(j, k)}
        IN
        /\ \A k \in landed : Rivals(k) \cap landed = {k}
        /\ IF \A k \in variants : Rivals(k) \cap landed # {} THEN UNCHANGED faults ELSE Fault
        /\ complete' = done
        /\ toCopy' = ToPull(done) \ variants
        /\ local' = {f \in local : f.dir = 0}
                      \cup {[dir |-> slot(k), name |-> k, key |-> k, version |-> version[k]] :
                            k \in landed}
        /\ stage' = [k \in Keys |->
                      IF k \in scan \/ (k \in variants /\ Rivals(k) \cap landed # {})
                      THEN "queued" ELSE "none"]
        /\ dir' = [k \in Keys |-> IF k \in variants \ scan THEN slot(k) ELSE 0]
  BY DEF StartRun
<1> DEFINE slot(k) == SlotOf(slots, k)
           Rivals(k) == {j \in variants : slot(j) = slot(k) /\ SamePath(j, k)}
<1>2. /\ ~up /\ up' = TRUE
      /\ attempts' = [k \in Keys |-> 0] /\ made' = [k \in Keys |-> {}]
      /\ toPlace' = [k \in Keys |-> {}] /\ toPush' = [k \in Keys |-> {}]
      /\ UNCHANGED <<listed, version, dest, dirs, result>>
  BY DEF StartRun, source
<1>3. /\ variants \subseteq listed /\ variants \cap done = {} /\ scan \cap done = {}
      /\ ToPull(done) = listed \ done /\ listed \subseteq Keys
  BY ListedKeys DEF Colliding, ToPull, Scanned
<1>4. ASSUME NEW k \in variants
      PROVE  /\ slot(k) \in Nat \ {0}
             /\ \A j \in variants : slot(j) = slot(k) /\ SameFold(j, k) => j = k
  <2>1. variants \in SUBSET Keys /\ slots = Slots(variants)
    BY <1>1, <1>3
  <2> HIDE DEF variants
  <2> QED
    BY <2>1, SlotsKeepApart
<1>5. ASSUME NEW k \in complete PROVE k \in done
  BY DEF FileInv, BaseInv, KeyInv, CompleteInv
<1>6. ASSUME NEW k \in ToPull(done) \ variants, NEW j \in listed, SameFold(j, k), j # k
      PROVE  j \in done
  BY <1>3, <1>6 DEF Colliding
<1>6a. /\ local' = {f \in local : f.dir = 0}
                      \cup {[dir |-> slot(k), name |-> k, key |-> k, version |-> version[k]] :
                            k \in landed}
       /\ dir' = [k \in Keys |-> IF k \in variants \ scan THEN slot(k) ELSE 0]
  BY <1>1
<1>6b. ASSUME NEW j \in landed, NEW k \in landed, slot(j) = slot(k), SamePath(j, k) PROVE j = k
  BY <1>1, <1>6b
<1> HIDE DEF done, scan, variants, slot, Rivals
<1>7. BaseInv'
  <2>1. faults' \in 0..MaxFaults
    <3>1. UNCHANGED faults \/ Fault
      BY <1>1
    <3> QED
      BY <3>1, FaultCounted
  <2>2. dir' \in [Keys -> Nat]
    BY <1>4, <1>6a
  <2>3. stage' \in [Keys -> Stages]
    BY <1>1 DEF Stages
  <2>4. attempts' \in [Keys -> 0..Retries - 1]
    <3>1. 0 \in 0..Retries - 1
      BY FileAssumption
    <3> QED
      BY <1>2, <3>1
  <2>5. complete' \subseteq Keys /\ toCopy' \subseteq listed
    BY <1>1, <1>3 DEF done
  <2>6. /\ made' \in [Keys -> SUBSET Content]
        /\ toPlace' \in [Keys -> SUBSET Names] /\ toPush' \in [Keys -> SUBSET Names]
    BY <1>2
  <2>7. up' \in BOOLEAN
    BY <1>2
  <2> QED
    BY <1>2, <2>1, <2>2, <2>3, <2>4, <2>5, <2>6, <2>7 DEF FileInv, BaseInv
<1>8. OutputsInv'
  BY <1>2 DEF FileInv, OutputsInv, Sound, MadeOf, Foreseen
<1>9. LocalInv'
  <2> DEFINE slotted(k) == [dir |-> slot(k), name |-> k, key |-> k, version |-> version[k]]
  <2>1. ASSUME NEW f \in local'
        PROVE  (f \in local /\ f.dir = 0) \/ \E k \in landed : f = slotted(k)
    BY <1>6a
  <2>2. ASSUME NEW k \in landed
        PROVE  /\ slotted(k) \in [dir : Nat, name : Keys, key : listed, version : Nat \ {0}]
               /\ slotted(k).dir = slot(k) /\ slot(k) # 0 /\ k \in variants
               /\ slotted(k).name = k /\ slotted(k).key = k /\ slotted(k).version = version[k]
    <3>1. k \in variants /\ k \in listed /\ k \in Keys
      BY <1>3
    <3>2. slot(k) \in Nat /\ slot(k) # 0
      BY <1>4, <3>1
    <3>3. version[k] \in Nat \ {0}
      BY <3>1 DEF FileInv, BaseInv
    <3> QED
      BY <3>1, <3>2, <3>3
  <2> HIDE DEF slotted
  <2>3. LocalInv
    BY DEF FileInv
  <2>4. local' \subseteq [dir : Nat, name : Keys, key : listed, version : Nat \ {0}]
    BY <2>1, <2>2, <2>3 DEF LocalInv
  <2>5. ASSUME NEW f \in local' PROVE SamePath(f.name, f.key) /\ f.version <= version[f.key]
    <3>1. CASE f \in local
      BY <2>3, <3>1 DEF LocalInv
    <3>2. ASSUME NEW k \in landed, f = slotted(k)
          PROVE  SamePath(f.name, f.key) /\ f.version <= version[f.key]
      <4>1. version[k] \in Nat
        BY <1>3, <2>2 DEF FileInv, BaseInv
      <4> QED
        BY <2>2, <3>2, <4>1 DEF SamePath
    <3> QED
      BY <2>1, <3>1, <3>2
  <2>6. ASSUME NEW f \in local', f.dir = 0 PROVE f \in local
    BY <2>1, <2>2, <2>6
  <2>7. ASSUME NEW f \in local', NEW g \in local', f.dir = g.dir, SamePath(f.name, g.name)
        PROVE  f = g
    <3>1. CASE f.dir = 0
      <4>1. f \in local /\ g \in local
        BY <2>7, <2>6, <3>1
      <4> QED
        BY <2>3, <2>7, <4>1 DEF LocalInv
    <3>2. CASE f.dir # 0
      <4>1. PICK j \in landed, k \in landed : f = slotted(j) /\ g = slotted(k)
        BY <2>1, <2>7, <3>2
      <4>2. slot(j) = slot(k) /\ SamePath(j, k) /\ j \in variants /\ k \in variants
        BY <2>2, <2>7, <4>1
      <4>3. j = k
        BY <1>6b, <4>1, <4>2
      <4> QED
        BY <4>1, <4>3
    <3> QED
      BY <3>1, <3>2
  <2>8. ASSUME NEW k, Alone(k) PROVE Alone(k)'
    BY <1>1, <1>2, <1>5, <2>8 DEF Alone
  <2>9. ASSUME NEW f \in local', f.dir = 0 PROVE Alone(f.key)'
    <3>1. f \in local
      BY <2>1, <2>2, <2>9
    <3>2. Alone(f.key)
      BY <2>3, <2>9, <3>1 DEF LocalInv
    <3> QED
      BY <2>8, <3>2
  <2>10. \A k \in toCopy' : Alone(k)'
    BY <1>1, <1>2, <1>6 DEF Alone
  <2>11. ASSUME NEW k \in listed, Foreseen(k), dir'[k] # 0, NEW f \in File(k)' PROVE f.key = k
    <3>1. k \in variants /\ dir'[k] = slot(k)
      BY <1>3, <1>6a, <2>11
    <3>2. f \in local' /\ f.dir = dir'[k] /\ SamePath(f.name, k)
      BY DEF File, FileAt
    <3>3. PICK j \in landed : f = slotted(j)
      BY <2>1, <2>11, <3>2
    <3>4. slot(j) = slot(k) /\ SamePath(j, k) /\ j \in variants /\ f.key = j
      BY <2>2, <3>1, <3>2, <3>3
    <3>5. SameFold(j, k)
      <4>1. j \in listed
        BY <1>3, <3>4
      <4>2. SamePath(k, j) /\ SamePath(j, k)
        BY <3>4 DEF SamePath
      <4> QED
        BY <2>11, <3>4, <4>1, <4>2 DEF Foreseen
    <3> QED
      BY <1>4, <3>1, <3>4, <3>5
  <2> QED
    BY <1>2, <2>3, <2>4, <2>5, <2>7, <2>9, <2>10, <2>11 DEF LocalInv, Foreseen
<1>10. ASSUME NEW k \in Keys PROVE KeyInv(k)'
  <2>1. KeyInv(k)
    BY DEF FileInv
  <2>2. /\ stage'[k] \in {"queued", "none"} /\ made'[k] = {} /\ toPlace'[k] = {} /\ toPush'[k] = {}
    BY <1>1, <1>2
  <2>3. TaskInv(k)'
    BY <2>2 DEF TaskInv
  <2>4. CompleteInv(k)'
    <3> SUFFICES ASSUME k \in done PROVE stage'[k] = "none" /\ CompleteNames(NamesIn(dest, k))
      BY <1>1, <1>2 DEF CompleteInv
    <3>1. k \notin scan /\ k \notin variants
      BY <1>3
    <3> QED
      BY <1>1, <3>1 DEF done
  <2>5. PlainInv(k)'
    BY <1>2, <2>1, <2>2 DEF KeyInv, PlainInv
  <2>6. WholeInv(k)'
    BY <1>2, <2>1, <2>2 DEF KeyInv, WholeInv, IsObject, Unedited, Foreseen
  <2> QED
    BY <2>3, <2>4, <2>5, <2>6 DEF KeyInv
<1> QED
  BY <1>7, <1>8, <1>9, <1>10 DEF FileInv

-----------------------------------------------------------------------------
(* The breaker. *)

BreakerInv == samples \in 0..SampleSize /\ matches \in 0..samples

\* A file that ends is counted if the sample is not full.
LEMMA Counted ==
  ASSUME BreakerInv, NEW match \in BOOLEAN, Sample(match)
  PROVE  BreakerInv'
<1>1. SampleSize \in Nat
  BY FileAssumption
<1>2. CASE samples = SampleSize
  BY <1>2 DEF Sample, BreakerInv, breaker
<1>3. CASE samples # SampleSize
  <2>1. samples' = samples + 1 /\ matches' \in {matches, matches + 1}
    BY <1>3 DEF Sample
  <2> QED
    BY <1>1, <1>3, <2>1 DEF BreakerInv
<1> QED
  BY <1>2, <1>3

\* The breaker's counters keep their ranges.
LEMMA BreakerStep == BreakerInv /\ [Next]_vars => BreakerInv'
<1> SUFFICES ASSUME BreakerInv, [Next]_vars PROVE BreakerInv'
  OBVIOUS
<1>1. CASE UNCHANGED breaker
  BY <1>1 DEF BreakerInv, breaker
<1>2. CASE samples' = 0 /\ matches' = 0
  BY <1>2, FileAssumption DEF BreakerInv
<1>3. ASSUME NEW match \in BOOLEAN, Sample(match) PROVE BreakerInv'
  BY <1>3, Counted
<1>4. CASE StartRun \/ EndRun \/ Crash
  BY <1>2, <1>4 DEF StartRun, EndRun, Crash, ForgetTasks
<1>5. ASSUME NEW k, Transfer(k) \/ TransferFails(k) \/ Edit(k) \/ NewHost PROVE BreakerInv'
  BY <1>1, <1>5 DEF Transfer, TransferFails, Edit, NewHost
<1>6. ASSUME NEW k, Resume(k) \/ SkipEmail(k) \/ BeginConversion(k) \/ Convert(k) \/ TryAgain(k)
                    \/ Push(k) \/ RemoveOutput(k)
      PROVE  BreakerInv'
  BY <1>1, <1>6 DEF Resume, SkipEmail, BeginConversion, Convert, TryAgain, Push, RemoveOutput
<1>7. ASSUME NEW k, ConversionFails(k) \/ ConversionRefused(k) \/ NoRoom(k) \/ PlaceOrPushFails(k)
                    \/ Finish(k)
      PROVE  BreakerInv'
  <2>1. \E match \in BOOLEAN : Sample(match)
    BY <1>7 DEF ConversionFails, ConversionRefused, NoRoom, PlaceOrPushFails, Finish
  <2> QED
    BY <1>3, <2>1
<1>8. ASSUME NEW k, Place(k) PROVE BreakerInv'
  <2>1. Sample(FALSE) \/ UNCHANGED breaker
    BY <1>8 DEF Place
  <2> QED
    BY <1>1, <1>3, <2>1
<1>9. CASE UNCHANGED vars
  BY <1>1, <1>9 DEF vars
<1> QED
  BY <1>4, <1>5, <1>6, <1>7, <1>8, <1>9 DEF Next, Process, Failure

-----------------------------------------------------------------------------
(* The theorems. *)

\* Every step keeps the invariant.
LEMMA StepFile == FileInv /\ [Next]_vars => FileInv'
<1> SUFFICES ASSUME FileInv, [Next]_vars PROVE FileInv'
  OBVIOUS
<1>1. Active \subseteq Keys
  BY ListedKeys DEF Active
<1>2. CASE StartRun
  BY <1>2, StartRunKeeps
<1>3. ASSUME NEW k \in Active, Transfer(k) \/ Process(k) \/ Edit(k) PROVE FileInv'
  <2>1. k \in Keys
    BY <1>1
  <2>2. CASE Transfer(k)
    BY <2>1, <2>2, TransferKeeps
  <2>3. CASE Edit(k)
    BY <2>1, <2>3, EditKeeps
  <2>4. CASE Resume(k)
    BY <2>1, <2>4, ResumeKeeps
  <2>5. CASE BeginConversion(k)
    BY <2>1, <2>5, BeginConversionKeeps
  <2>6. CASE Convert(k)
    BY <2>1, <2>6, ConvertKeeps
  <2>7. CASE TryAgain(k)
    BY <2>1, <2>7, TryAgainKeeps
  <2>8. CASE SkipEmail(k) \/ ConversionFails(k) \/ ConversionRefused(k)
    BY <2>1, <2>8, EndingKeeps
  <2>9. CASE Place(k)
    BY <2>1, <2>9, PlaceKeeps
  <2>10. CASE Push(k)
    BY <2>1, <2>10, PushKeeps
  <2>11. CASE RemoveOutput(k)
    BY <2>1, <2>11, RemoveOutputKeeps
  <2>12. CASE Finish(k)
    BY <2>1, <2>12, FinishKeeps
  <2> QED
    BY <1>3, <2>2, <2>3, <2>4, <2>5, <2>6, <2>7, <2>8, <2>9, <2>10, <2>11, <2>12 DEF Process
<1>4. CASE EndRun
  BY <1>4, EndRunKeeps
<1>5. CASE Failure
  <2>1. ASSUME NEW k \in Active, TransferFails(k) \/ NoRoom(k) \/ PlaceOrPushFails(k)
        PROVE  FileInv'
    <3>1. k \in Keys
      BY <1>1
    <3> QED
      BY <2>1, <3>1, TransferFailsKeeps, EndingKeeps
  <2>2. CASE Crash
    BY <2>2, CrashKeeps
  <2> QED
    BY <1>5, <2>1, <2>2 DEF Failure
<1>6. CASE NewHost
  BY <1>6, NewHostKeeps
<1>7. CASE UNCHANGED vars
  <2>1. UNCHANGED <<listed, version, dest, local, dirs, result, up, complete, toCopy, stage, dir,
                    attempts, made, toPlace, toPush, faults>>
    BY <1>7 DEF vars, source, disk, task
  <2>2. BaseInv' /\ OutputsInv'
    BY <2>1 DEF FileInv, BaseInv, OutputsInv, Sound, MadeOf, Foreseen
  <2>3. LocalInv'
    BY <2>1, LocalStays DEF FileInv, source
  <2>4. \A k \in Keys : KeyInv(k)'
    BY <2>1, KeyStays DEF FileInv
  <2> QED
    BY <2>2, <2>3, <2>4 DEF FileInv
<1> QED
  BY <1>2, <1>3, <1>4, <1>5, <1>6, <1>7 DEF Next

\* The invariant holds of every run of the specification.
LEMMA FileInvariance == Spec => []FileInv
<1> QED
  BY InitFile, StepFile, PTL DEF Spec

\* The variables keep their ranges, a path names at most one local file, a name at
\* most one output, and no conversion is tried more than TRANSCODE_RETRIES times.
THEOREM TypeCorrect == Spec => []TypeOK
<1>1. FileInv /\ BreakerInv => TypeOK
  <2> SUFFICES ASSUME FileInv, BreakerInv PROVE TypeOK
    OBVIOUS
  <2>1. version \in [Keys -> Nat] /\ local \subseteq [dir : Nat, name : Keys, key : Keys, version : Nat]
    BY ListedKeys DEF FileInv, BaseInv, LocalInv
  <2>2. \A k \in Keys :
          /\ made[k] \subseteq [key : Keys, version : Nat, extent : Extents]
          /\ toPlace[k] \subseteq toPush[k]
    BY DEF FileInv, BaseInv, Content, KeyInv, TaskInv
  <2>3. /\ dest \subseteq Outputs /\ result \subseteq Outputs
        /\ \A S \in {dest, result} : \A o, p \in S : o.group = p.group /\ o.name = p.name => o = p
    BY DEF FileInv, OutputsInv, Sound
  <2>4. \A f, g \in local : f.dir = g.dir /\ SamePath(f.name, g.name) => f = g
    BY DEF FileInv, LocalInv
  <2> QED
    BY <2>1, <2>2, <2>3, <2>4 DEF FileInv, BaseInv, BreakerInv, TypeOK
<1>2. Init => BreakerInv
  BY FileAssumption DEF Init, BreakerInv
<1> QED
  BY <1>1, <1>2, BreakerStep, FileInvariance, PTL DEF Spec

\* A file that counts as done, at the destination or in a run's report, is there whole,
\* whatever runs crashed or failed half way, on one host or on several.
THEOREM DoneMeansWhole == Spec => []DoneIsWhole
<1>1. FileInv => DoneIsWhole
  <2> SUFFICES ASSUME FileInv PROVE DoneIsWhole
    OBVIOUS
  <2>1. ASSUME NEW k \in Keys, IsObject(k), Unedited(k),
               stage[k] = "pushed" \/ CompleteNames(NamesIn(dest, k))
        PROVE  NamesIn(dest, k) = NamesOf(Sheets[k][1])
    <3>1. KeyInv(k) /\ NamesIn(dest, k) \subseteq NamesOf(Sheets[k][1])
      BY <2>1 DEF FileInv, KeyInv, WholeInv
    <3>2. CASE stage[k] = "pushed"
      <4>1. toPush[k] = {} /\ NamesOf(Sheets[k][1]) \subseteq toPush[k] \cup NamesIn(dest, k)
        BY <2>1, <3>1, <3>2 DEF KeyInv, TaskInv, WholeInv
      <4> QED
        BY <3>1, <4>1
    <3>3. CASE CompleteNames(NamesIn(dest, k))
      <4>1. Sheets[k][1] \in Nat \ {0}
        BY FirstVersion, SheetsType
      <4> QED
        BY <3>1, <3>3, <4>1, CompleteIsAll
    <3> QED
      BY <2>1, <3>2, <3>3
  <2>2. \A o \in dest \cup result :
          o.extent = "part" =>
            Kind[o.group] \in Unguarded \/ (Kind[o.group] \in Lenient /\ Nature[o.key] # "good")
    BY DEF FileInv, OutputsInv, Sound, MadeOf, Foreseen
  <2> QED
    BY <2>1, <2>2 DEF DoneIsWhole
<1> QED
  BY <1>1, FileInvariance, PTL

\* What is at the destination under the name of a key that is listed, or on its way
\* there, was made of that key's object, although keys may share a local path.
THEOREM BytesKeepTheirName == Spec => []OwnBytes
<1>1. FileInv => OwnBytes
  BY DEF FileInv, OutputsInv, Sound, MadeOf, OwnBytes, Foreseen
<1> QED
  BY <1>1, FileInvariance, PTL

\* place_one's hard error is not met by a file that merely comes a second time, after a
\* crash or a failed push.
THEOREM PlacesAreFree == Spec => []PlaceNeverCollides
<1>1. FileInv => PlaceNeverCollides
  BY DEF FileInv, KeyInv, PlainInv, PlaceNeverCollides
<1> QED
  BY <1>1, FileInvariance, PTL

=============================================================================
