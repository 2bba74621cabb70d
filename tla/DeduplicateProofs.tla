-------------------------- MODULE DeduplicateProofs --------------------------
(***************************************************************************)
(* Proofs about Deduplicate for any objects, zips, workers and failures.      *)
(*                                                                         *)
(* The argument.  While the pool works, a set of opened zips accounts for every *)
(* item: a member of an opened zip is before the workers, opened, hashed,       *)
(* skipped, or its object is tainted.  The pool ends with nothing before the    *)
(* workers, because a worker that can still see the queue is there for as long  *)
(* as the queue is not empty.  So everything in a finished object that is not   *)
(* tainted is hashed, by induction on the depth of a member; and what is        *)
(* hashed is placed, or what was not is remembered.  A content has one copy     *)
(* for each torn move, and one for the index or the move under way.            *)
(***************************************************************************)
EXTENDS Deduplicate, FiniteSetTheorems, WellFoundedInduction, TLAPS

\* Workers that look at the queue again.
Active == {"idle", "popped", "busy", "settled"}
Counted == {w \in Workers : pc[w] \in {"busy", "settled"}}

\* What is before the workers.
Front == queue \cup {hand[w] : w \in {v \in Workers : pc[v] \in {"popped", "busy"}}}

\* What is empty in which phase.
PhaseInv ==
  /\ phase = "off" =>
       hashed = {} /\ finished = {} /\ tainted = {} /\ skipped = {} /\ failed = FALSE
  /\ phase # "working" => queue = {} /\ \A w \in Workers : pc[w] = "done"
  /\ queue # {} => \E w \in Workers : pc[w] \in Active
  /\ phase # "placing" => placing = None
  /\ phase # "placing" => files = {}
  /\ phase # "recording" => toRecord = {}
  /\ phase \in {"off", "working"} => placed = {}
  /\ hashed \cap (Zips \cup AppleDouble) = {} /\ skipped \subseteq AppleDouble
  /\ files \cup placed \subseteq hashed /\ files \cap placed = {}

\* O is what the pool has opened.
Covers(O) ==
  /\ finished \subseteq O \cup hashed
  /\ \A z \in O : \A i \in Members[z] :
       RootOf[i] \in tainted \/ i \in Front \cup O \cup hashed \cup AppleDouble

PoolInv == \E O \in SUBSET Zips : Covers(O)

\* Every object of the run is before the workers or has an outcome.
RootsInv ==
  phase \in {"working", "placing"} => Roots \subseteq processed \cup Front \cup finished \cup skipped \cup tainted

\* What is hashed and out of the files has a copy, or has left a trace.
PlaceInv ==
  phase \in {"placing", "recording"} =>
    \A i \in hashed : i \in files \/ copies[Content[i]] > 0 \/ RootOf[i] \in unplaced
                      \/ i \in Roots \ placed

\* The copies of each content.
IndexInv ==
  /\ \A c \in Contents :
       /\ copies[c] = torn[c] + (IF index[c] # None \/ (placing # None /\ Content[placing] = c)
                                 THEN 1 ELSE 0)
       /\ index[c] # None => Content[index[c]] = c
  /\ placing # None => index[Content[placing]] = None

\* What is to be recorded is placed as what is recorded is.
RecordInv ==
  \A r \in toRecord \ (AppleDouble \cup unplaced) : \A i \in Leaves(r) : copies[Content[i]] > 0

\* A run without a failure leaves nothing out.
FailedInv ==
  ~failed =>
    /\ tainted = {}
    /\ phase = "placing" => hashed \subseteq files \cup placed
    /\ phase = "recording" => Roots \subseteq processed \cup toRecord

VerdictInv == verdict = "success" => phase = "off" /\ processed = Roots /\ uploaded = copies

PlacedInv ==
  /\ PhaseInv /\ PoolInv /\ PlaceInv
  /\ IndexInv /\ RecordInv /\ CheckpointedIsPlaced
SuccessInv == RootsInv /\ FailedInv /\ VerdictInv

DedupInv == TypeOK /\ PlacedInv /\ SuccessInv

-----------------------------------------------------------------------------
(* Types, and what is empty in which phase. *)

\* What the zips are.
LEMMA Constants ==
  /\ \A i \in Items : RootOf[i] \in Roots /\ Depth[i] \in Nat /\ Content[i] \in Contents
  /\ \A z \in Items : Members[z] \subseteq Items \ Roots
  /\ Roots \subseteq Items /\ Zips \subseteq Items /\ AppleDouble \subseteq Items
  /\ None \notin Items /\ \A r \in Roots : RootOf[r] = r
  /\ MaxFaults \in Nat /\ MaxDepth \in Nat
BY DeduplicateAssumption

\* The counter is a number.
LEMMA CountedFinite ==
  /\ IsFiniteSet(Counted) /\ Cardinality(Counted) \in Nat
  /\ Cardinality({}) = 0 /\ (Cardinality(Counted) = 0 => Counted = {})
BY DeduplicateAssumption, FS_Subset, FS_CardinalityType, FS_EmptySet DEF Counted

\* A worker that goes from outside the count to outside, or stays inside.
LEMMA CountKept ==
  ASSUME TypeOK, NEW w \in Workers, NEW label, pc' = [pc EXCEPT ![w] = label],
         pc[w] \in {"busy", "settled"} <=> label \in {"busy", "settled"}
  PROVE  Counted' = Counted
BY DEF TypeOK, Counted

\* What the types say, for citing: all but the counter's.
LEMMA Ranges ==
  ASSUME TypeOK
  PROVE  /\ copies \in [Contents -> Nat] /\ uploaded \in [Contents -> Nat]
         /\ index \in [Contents -> Items \cup {None}] /\ torn \in [Contents -> Nat]
         /\ processed \subseteq Roots /\ queue \subseteq Items /\ hashed \subseteq Items
         /\ finished \subseteq Roots /\ tainted \subseteq Roots /\ skipped \subseteq Roots
         /\ pc \in [Workers -> {"idle", "popped", "empty", "busy", "settled", "done"}]
         /\ hand \in [Workers -> Items \cup {None}]
         /\ files \subseteq Items /\ placing \in files \cup {None}
         /\ placed \subseteq Items /\ toRecord \subseteq Roots /\ unplaced \subseteq Roots
BY DEF TypeOK

\* The types of what a run leaves.
RunTypes ==
  /\ queue \subseteq Items /\ hashed \subseteq Items /\ finished \subseteq Roots
  /\ tainted \subseteq Roots /\ skipped \subseteq Roots
  /\ pc \in [Workers -> {"idle", "popped", "empty", "busy", "settled", "done"}]
  /\ hand \in [Workers -> Items \cup {None}]
  /\ files \subseteq Items /\ placing \in files \cup {None}
  /\ placed \subseteq Items /\ toRecord \subseteq Roots
  /\ failed \in BOOLEAN /\ phase \in Phases

\* A run that is over leaves nothing.
LEMMA RunOverTypes == RunOver => RunTypes'
BY DEF RunOver, RunTypes, Phases

\* The counter is the number of the workers between its two updates.
LEMMA CounterStep ==
  ASSUME TypeOK, PhaseInv, [Next]_vars
  PROVE  inFlight' = Cardinality(Counted')
<1>0. inFlight = Cardinality(Counted) /\ pc \in [Workers -> {"idle", "popped", "empty", "busy", "settled", "done"}]
  BY DEF TypeOK, Counted
<1>1. ASSUME Start PROVE inFlight' = Cardinality(Counted')
  <2>1. Counted = {} /\ Counted' = {}
    BY <1>0, <1>1 DEF Start, PhaseInv, Counted
  <2> QED
    BY <1>0, <2>1, <1>1, CountedFinite DEF Start
<1>2. ASSUME UploadOnly PROVE inFlight' = Cardinality(Counted')
  BY <1>0, <1>2 DEF UploadOnly, pool, Counted
<1>3. ASSUME NEW w \in Workers, Pop(w) PROVE inFlight' = Cardinality(Counted')
  <2>1. inFlight' = inFlight /\ Counted' = Counted
    BY <1>0, <1>3 DEF Pop, Goto, Counted
  <2> QED
    BY <1>0, <2>1
<1>4. ASSUME NEW w \in Workers, SeeEmpty(w) PROVE inFlight' = Cardinality(Counted')
  <2>1. inFlight' = inFlight /\ Counted' = Counted
    BY <1>0, <1>4 DEF SeeEmpty, Goto, Counted
  <2> QED
    BY <1>0, <2>1
<1>5. ASSUME NEW w \in Workers, LookAtCounter(w) PROVE inFlight' = Cardinality(Counted')
  <2>1. inFlight' = inFlight /\ Counted' = Counted
    BY <1>0, <1>5 DEF LookAtCounter, Goto, Counted
  <2> QED
    BY <1>0, <2>1
<1>6. ASSUME NEW w \in Workers, CountIn(w) PROVE inFlight' = Cardinality(Counted')
  <2>1. Counted' = Counted \cup {w} /\ w \notin Counted
    BY <1>0, <1>6 DEF CountIn, Goto, Counted
  <2>2. Cardinality(Counted \cup {w}) = Cardinality(Counted) + 1
    BY <2>1, CountedFinite, FS_AddElement
  <2> QED
    BY <1>0, <2>1, <2>2, <1>6 DEF CountIn
<1>7. ASSUME NEW w \in Workers, SkipAppleDouble(w) PROVE inFlight' = Cardinality(Counted')
  <2>1. inFlight' = inFlight /\ Counted' = Counted
    BY <1>0, <1>7 DEF SkipAppleDouble, Goto, Settling, Counted
  <2> QED
    BY <1>0, <2>1
<1>8. ASSUME NEW w \in Workers, RefuseDepth(w) PROVE inFlight' = Cardinality(Counted')
  <2>1. inFlight' = inFlight /\ Counted' = Counted
    BY <1>0, <1>8 DEF RefuseDepth, Goto, Settling, Counted
  <2> QED
    BY <1>0, <2>1
<1>9. ASSUME NEW w \in Workers, Expand(w) PROVE inFlight' = Cardinality(Counted')
  <2>1. inFlight' = inFlight /\ Counted' = Counted
    BY <1>0, <1>9 DEF Expand, Goto, Settling, Counted
  <2> QED
    BY <1>0, <2>1
<1>10. ASSUME NEW w \in Workers, Hash(w) PROVE inFlight' = Cardinality(Counted')
  <2>1. inFlight' = inFlight /\ Counted' = Counted
    BY <1>0, <1>10 DEF Hash, Goto, Settling, Counted
  <2> QED
    BY <1>0, <2>1
<1>11. ASSUME NEW w \in Workers, CountOut(w) PROVE inFlight' = Cardinality(Counted')
  <2>1. Counted' = Counted \ {w} /\ w \in Counted
    BY <1>0, <1>11 DEF CountOut, Goto, Counted
  <2>2. Cardinality(Counted \ {w}) = Cardinality(Counted) - 1
    BY <2>1, CountedFinite, FS_RemoveElement
  <2> QED
    BY <1>0, <2>1, <2>2, <1>11 DEF CountOut
<1>12. ASSUME NEW w \in Workers, ProcessFails(w) PROVE inFlight' = Cardinality(Counted')
  <2>1. inFlight' = inFlight /\ Counted' = Counted
    BY <1>0, <1>12 DEF ProcessFails, Goto, Settling, Counted
  <2> QED
    BY <1>0, <2>1
<1>13. ASSUME NEW w \in Workers, ExpandPartly(w) PROVE inFlight' = Cardinality(Counted')
  <2>1. inFlight' = inFlight /\ Counted' = Counted
    BY <1>0, <1>13 DEF ExpandPartly, Goto, Settling, Counted
  <2> QED
    BY <1>0, <2>1
<1>14. ASSUME Join PROVE inFlight' = Cardinality(Counted')
  BY <1>0, <1>14 DEF Join, pool, Counted
<1>15. ASSUME NEW i \in Items, SkipDuplicate(i) PROVE inFlight' = Cardinality(Counted')
  BY <1>0, <1>15 DEF SkipDuplicate, pool, StillPlacing, Counted
<1>16. ASSUME NEW i \in Items, Move(i) PROVE inFlight' = Cardinality(Counted')
  BY <1>0, <1>16 DEF Move, pool, StillPlacing, Counted
<1>17. ASSUME NEW i \in Items, MoveFails(i) PROVE inFlight' = Cardinality(Counted')
  BY <1>0, <1>17 DEF MoveFails, pool, StillPlacing, Counted
<1>18. ASSUME Commit PROVE inFlight' = Cardinality(Counted')
  BY <1>0, <1>18 DEF Commit, pool, StillPlacing, Counted
<1>19. ASSUME CommitFails PROVE inFlight' = Cardinality(Counted')
  BY <1>0, <1>19 DEF CommitFails, pool, StillPlacing, Counted
<1>20. ASSUME Report PROVE inFlight' = Cardinality(Counted')
  BY <1>0, <1>20 DEF Report, pool, Counted
<1>21. ASSUME NEW r \in Roots, Checkpoint(r) PROVE inFlight' = Cardinality(Counted')
  BY <1>0, <1>21 DEF Checkpoint, pool, Counted
<1>22. ASSUME Upload PROVE inFlight' = Cardinality(Counted')
  <2>1. Counted' = {} /\ inFlight' = 0
    BY <1>22 DEF Upload, RunOver, Counted
  <2> QED
    BY <2>1, CountedFinite
<1>23. ASSUME UploadFails PROVE inFlight' = Cardinality(Counted')
  <2>1. Counted' = {} /\ inFlight' = 0
    BY <1>23 DEF UploadFails, RunOver, Counted
  <2> QED
    BY <2>1, CountedFinite
<1>24. ASSUME RunFails PROVE inFlight' = Cardinality(Counted')
  <2>1. Counted' = {} /\ inFlight' = 0
    BY <1>24 DEF RunFails, RunOver, Counted
  <2> QED
    BY <2>1, CountedFinite
<1>25. ASSUME Crash PROVE inFlight' = Cardinality(Counted')
  <2>1. Counted' = {} /\ inFlight' = 0
    BY <1>25 DEF Crash, RunOver, Counted
  <2> QED
    BY <2>1, CountedFinite
<1>90. CASE UNCHANGED vars
  BY <1>0, <1>90 DEF vars, pool, Counted
<1> QED
  BY <1>1, <1>2, <1>3, <1>4, <1>5, <1>6, <1>7, <1>8, <1>9, <1>10, <1>11, <1>12, <1>13, <1>14,
      <1>15, <1>16, <1>17, <1>18, <1>19, <1>20, <1>21, <1>22, <1>23, <1>24, <1>25, <1>90 DEF
      Next, Work, Place, Failure

\* Every step keeps the types.
LEMMA TypeStep == TypeOK /\ PhaseInv /\ [Next]_vars => TypeOK'
<1> SUFFICES ASSUME TypeOK, PhaseInv, [Next]_vars PROVE TypeOK'
  OBVIOUS
<1>0. inFlight' = Cardinality(Counted')
  BY CounterStep
<1>1. ASSUME Start PROVE TypeOK'
  BY <1>0, <1>1, Constants DEF Start, TypeOK, Counted, Phases, disk, pool, tail, history,
      Complete, Pending
<1>2. ASSUME UploadOnly PROVE TypeOK'
  BY <1>0, <1>2, Constants DEF UploadOnly, Fault, PartlyUploaded, TypeOK, Counted, Phases, disk,
      pool, tail, history
<1>3. ASSUME NEW w \in Workers, Pop(w) PROVE TypeOK'
  BY <1>0, <1>3, Constants DEF Pop, StillRunning, Goto, TypeOK, Counted, Phases, disk, pool,
      tail, history
<1>4. ASSUME NEW w \in Workers, SeeEmpty(w) PROVE TypeOK'
  BY <1>0, <1>4, Constants DEF SeeEmpty, StillRunning, Goto, TypeOK, Counted, Phases, disk,
      pool, tail, history
<1>5. ASSUME NEW w \in Workers, LookAtCounter(w) PROVE TypeOK'
  BY <1>0, <1>5, Constants DEF LookAtCounter, StillRunning, Goto, TypeOK, Counted, Phases, disk,
      pool, tail, history
<1>6. ASSUME NEW w \in Workers, CountIn(w) PROVE TypeOK'
  BY <1>0, <1>6, Constants DEF CountIn, StillRunning, Goto, TypeOK, Counted, Phases, disk, pool,
      tail, history
<1>7. ASSUME NEW w \in Workers, SkipAppleDouble(w) PROVE TypeOK'
  BY <1>0, <1>7, Constants DEF SkipAppleDouble, StillRunning, Goto, Settling, TypeOK, Counted,
      Phases, disk, pool, tail, history
<1>8. ASSUME NEW w \in Workers, RefuseDepth(w) PROVE TypeOK'
  BY <1>0, <1>8, Constants DEF RefuseDepth, StillRunning, Goto, Settling, Taint, TypeOK,
      Counted, Phases, disk, pool, tail, history
<1>9. ASSUME NEW w \in Workers, Expand(w) PROVE TypeOK'
  BY <1>0, <1>9, Constants DEF Expand, StillRunning, Goto, Settling, FinishRoot, Expandable,
      TypeOK, Counted, Phases, disk, pool, tail, history
<1>10. ASSUME NEW w \in Workers, Hash(w) PROVE TypeOK'
  BY <1>0, <1>10, Constants DEF Hash, StillRunning, Goto, Settling, FinishRoot, TypeOK, Counted,
      Phases, disk, pool, tail, history
<1>11. ASSUME NEW w \in Workers, CountOut(w) PROVE TypeOK'
  BY <1>0, <1>11, Constants DEF CountOut, StillRunning, Goto, TypeOK, Counted, Phases, disk,
      pool, tail, history
<1>12. ASSUME NEW w \in Workers, ProcessFails(w) PROVE TypeOK'
  BY <1>0, <1>12, Constants DEF ProcessFails, StillRunning, Goto, Settling, Taint, Fault,
      TypeOK, Counted, Phases, disk, pool, tail, history
<1>13. ASSUME NEW w \in Workers, ExpandPartly(w) PROVE TypeOK'
  BY <1>0, <1>13, Constants DEF ExpandPartly, StillRunning, Goto, Settling, Taint, FinishRoot,
      Expandable, Fault, TypeOK, Counted, Phases, disk, pool, tail, history
<1>14. ASSUME Join PROVE TypeOK'
  BY <1>0, <1>14, Constants DEF Join, TypeOK, Counted, Phases, disk, pool, tail, history,
      PhaseInv
<1>15. ASSUME NEW i \in Items, SkipDuplicate(i) PROVE TypeOK'
  BY <1>0, <1>15, Constants DEF SkipDuplicate, Turn, StillPlacing, TypeOK, Counted, Phases,
      disk, pool, tail, history
<1>16. ASSUME NEW i \in Items, Move(i) PROVE TypeOK'
  BY <1>0, <1>16, Constants DEF Move, Turn, StillPlacing, TypeOK, Counted, Phases, disk, pool,
      tail, history
<1>17. ASSUME NEW i \in Items, MoveFails(i) PROVE TypeOK'
  BY <1>0, <1>17, Constants DEF MoveFails, Turn, StillPlacing, Fault, TypeOK, Counted, Phases,
      disk, pool, tail, history
<1>18. ASSUME Commit PROVE TypeOK'
  BY <1>0, <1>18, Constants DEF Commit, StillPlacing, TypeOK, Counted, Phases, disk, pool, tail,
      history
<1>19. ASSUME CommitFails PROVE TypeOK'
  BY <1>0, <1>19, Constants DEF CommitFails, StillPlacing, Tear, Fault, TypeOK, Counted, Phases,
      disk, pool, tail, history
<1>20. ASSUME Report PROVE TypeOK'
  BY <1>0, <1>20, Constants DEF Report, TypeOK, Counted, Phases, disk, pool, tail, history,
      Complete, Pending
<1>21. ASSUME NEW r \in Roots, Checkpoint(r) PROVE TypeOK'
  BY <1>0, <1>21, Constants DEF Checkpoint, TypeOK, Counted, Phases, disk, pool, tail, history
<1>22. ASSUME Upload PROVE TypeOK'
  <2>1. RunTypes'
    BY <1>0, <1>22, RunOverTypes DEF Upload
  <2>2. uploaded' \in [Contents -> Nat] /\ torn' \in [Contents -> Nat]
    BY <1>22, Ranges, Constants DEF Upload, Recorded, RunOver, disk, history
  <2>3. verdict' \in {"none", "success", "failure"} /\ faults' \in 0..MaxFaults
    BY <1>22, Constants DEF Upload, Fault, TypeOK
  <2> QED
    BY <1>0, <2>1, <2>2, <2>3, <1>22, Ranges DEF Upload, RunTypes, TypeOK, Counted, disk,
        history
<1>23. ASSUME UploadFails PROVE TypeOK'
  <2>1. RunTypes'
    BY <1>0, <1>23, RunOverTypes DEF UploadFails
  <2>2. uploaded' \in [Contents -> Nat] /\ torn' \in [Contents -> Nat]
    BY <1>23, Ranges, Constants DEF UploadFails, Recorded, RunOver, Fault, PartlyUploaded, disk,
        history
  <2>3. verdict' \in {"none", "success", "failure"} /\ faults' \in 0..MaxFaults
    BY <1>23, Constants DEF UploadFails, Fault, TypeOK
  <2> QED
    BY <1>0, <2>1, <2>2, <2>3, <1>23, Ranges DEF UploadFails, RunTypes, TypeOK, Counted, disk,
        history
<1>24. ASSUME RunFails PROVE TypeOK'
  <2>1. RunTypes'
    BY <1>0, <1>24, RunOverTypes DEF RunFails
  <2>2. uploaded' \in [Contents -> Nat] /\ torn' \in [Contents -> Nat]
    BY <1>24, Ranges, Constants DEF RunFails, RunOver, Fault, disk, history
  <2>3. verdict' \in {"none", "success", "failure"} /\ faults' \in 0..MaxFaults
    BY <1>24, Constants DEF RunFails, Fault, TypeOK
  <2> QED
    BY <1>0, <2>1, <2>2, <2>3, <1>24, Ranges DEF RunFails, RunTypes, TypeOK, Counted, disk,
        history
<1>25. ASSUME Crash PROVE TypeOK'
  <2>1. RunTypes'
    BY <1>0, <1>25, RunOverTypes DEF Crash
  <2>2. uploaded' \in [Contents -> Nat] /\ torn' \in [Contents -> Nat]
    BY <1>25, Ranges, Constants DEF Crash, Recorded, RunOver, Fault, Tear, PartlyUploaded, disk,
        history
  <2>3. verdict' \in {"none", "success", "failure"} /\ faults' \in 0..MaxFaults
    BY <1>25, Constants DEF Crash, Fault, TypeOK
  <2> QED
    BY <1>0, <2>1, <2>2, <2>3, <1>25, Ranges DEF Crash, RunTypes, TypeOK, Counted, disk, history
<1>90. CASE UNCHANGED vars
  BY <1>90 DEF vars, TypeOK, disk, pool, tail, history
<1> QED
  BY <1>1, <1>2, <1>3, <1>4, <1>5, <1>6, <1>7, <1>8, <1>9, <1>10, <1>11, <1>12, <1>13, <1>14,
      <1>15, <1>16, <1>17, <1>18, <1>19, <1>20, <1>21, <1>22, <1>23, <1>24, <1>25, <1>90 DEF
      Next, Work, Place, Failure

\* Every step keeps what is empty in which phase.
LEMMA PhaseStep == TypeOK /\ PhaseInv /\ [Next]_vars => PhaseInv'
<1> SUFFICES ASSUME TypeOK, PhaseInv, [Next]_vars PROVE PhaseInv'
  OBVIOUS
<1>0. /\ pc \in [Workers -> {"idle", "popped", "empty", "busy", "settled", "done"}]
      /\ placing \in files \cup {None} /\ phase \in Phases
      /\ hashed \subseteq Items /\ files \subseteq Items /\ Workers # {}
  BY DeduplicateAssumption DEF TypeOK
<1>1. ASSUME Start PROVE PhaseInv'
  BY <1>0, <1>1, Constants DEF Start, PhaseInv, Active, Phases, disk, pool, tail, history,
      Complete, Pending
<1>2. ASSUME UploadOnly PROVE PhaseInv'
  BY <1>0, <1>2, Constants DEF UploadOnly, Fault, PartlyUploaded, PhaseInv, Active, Phases,
      disk, pool, tail, history
<1>3. ASSUME NEW w \in Workers, Pop(w) PROVE PhaseInv'
  <2>1. phase = "working"
    BY <1>0, <1>3 DEF Pop, PhaseInv
  <2>2. pc'[w] # "empty" => pc'[w] \in Active
    BY <1>0, <1>3 DEF Pop, Goto, Active
  <2> QED
    BY <1>0, <2>1, <2>2, <1>3, Constants DEF Pop, StillRunning, Goto, PhaseInv, disk, pool,
        tail, history, Phases
<1>4. ASSUME NEW w \in Workers, SeeEmpty(w) PROVE PhaseInv'
  <2>1. phase = "working"
    BY <1>0, <1>4 DEF SeeEmpty, PhaseInv
  <2>2. pc'[w] # "empty" => pc'[w] \in Active
    BY <1>0, <1>4 DEF SeeEmpty, Goto, Active
  <2> QED
    BY <1>0, <2>1, <2>2, <1>4, Constants DEF SeeEmpty, StillRunning, Goto, PhaseInv, disk, pool,
        tail, history, Phases
<1>5. ASSUME NEW w \in Workers, LookAtCounter(w) PROVE PhaseInv'
  <2>1. inFlight = Cardinality(Counted) /\ queue' = queue /\ phase = "working"
    BY <1>0, <1>5 DEF LookAtCounter, TypeOK, Counted, PhaseInv
  <2>2. queue' # {} => \E v \in Workers : pc'[v] \in Active
    BY <1>0, <2>1, <1>5 DEF LookAtCounter, Goto, PhaseInv, Active
  <2> QED
    BY <1>0, <2>1, <2>2, <1>5 DEF LookAtCounter, StillRunning, Goto, PhaseInv, disk, pool, tail, history
<1>6. ASSUME NEW w \in Workers, CountIn(w) PROVE PhaseInv'
  <2>1. phase = "working"
    BY <1>0, <1>6 DEF CountIn, PhaseInv
  <2>2. pc'[w] # "empty" => pc'[w] \in Active
    BY <1>0, <1>6 DEF CountIn, Goto, Active
  <2> QED
    BY <1>0, <2>1, <2>2, <1>6, Constants DEF CountIn, StillRunning, Goto, PhaseInv, disk, pool,
        tail, history, Phases
<1>7. ASSUME NEW w \in Workers, SkipAppleDouble(w) PROVE PhaseInv'
  <2>1. phase = "working"
    BY <1>0, <1>7 DEF SkipAppleDouble, PhaseInv, Settling
  <2>2. pc'[w] # "empty" => pc'[w] \in Active
    BY <1>0, <1>7 DEF SkipAppleDouble, Goto, Active, Settling
  <2> QED
    BY <1>0, <2>1, <2>2, <1>7, Constants DEF SkipAppleDouble, StillRunning, Goto, Settling,
        PhaseInv, disk, pool, tail, history, Phases
<1>8. ASSUME NEW w \in Workers, RefuseDepth(w) PROVE PhaseInv'
  <2>1. phase = "working"
    BY <1>0, <1>8 DEF RefuseDepth, PhaseInv, Settling
  <2>2. pc'[w] # "empty" => pc'[w] \in Active
    BY <1>0, <1>8 DEF RefuseDepth, Goto, Active, Settling
  <2> QED
    BY <1>0, <2>1, <2>2, <1>8, Constants DEF RefuseDepth, StillRunning, Goto, Settling, Taint,
        PhaseInv, disk, pool, tail, history, Phases
<1>9. ASSUME NEW w \in Workers, Expand(w) PROVE PhaseInv'
  <2>1. phase = "working"
    BY <1>0, <1>9 DEF Expand, PhaseInv, Settling
  <2>2. pc'[w] # "empty" => pc'[w] \in Active
    BY <1>0, <1>9 DEF Expand, Goto, Active, Settling
  <2> QED
    BY <1>0, <2>1, <2>2, <1>9, Constants DEF Expand, StillRunning, Goto, Settling, FinishRoot,
        Expandable, PhaseInv, disk, pool, tail, history, Phases
<1>10. ASSUME NEW w \in Workers, Hash(w) PROVE PhaseInv'
  <2>1. phase = "working"
    BY <1>0, <1>10 DEF Hash, PhaseInv, Settling
  <2>2. pc'[w] # "empty" => pc'[w] \in Active
    BY <1>0, <1>10 DEF Hash, Goto, Active, Settling
  <2> QED
    BY <1>0, <2>1, <2>2, <1>10, Constants DEF Hash, StillRunning, Goto, Settling, FinishRoot,
        PhaseInv, disk, pool, tail, history, Phases
<1>11. ASSUME NEW w \in Workers, CountOut(w) PROVE PhaseInv'
  <2>1. phase = "working"
    BY <1>0, <1>11 DEF CountOut, PhaseInv
  <2>2. pc'[w] # "empty" => pc'[w] \in Active
    BY <1>0, <1>11 DEF CountOut, Goto, Active
  <2> QED
    BY <1>0, <2>1, <2>2, <1>11, Constants DEF CountOut, StillRunning, Goto, PhaseInv, disk,
        pool, tail, history, Phases
<1>12. ASSUME NEW w \in Workers, ProcessFails(w) PROVE PhaseInv'
  <2>1. phase = "working"
    BY <1>0, <1>12 DEF ProcessFails, PhaseInv, Settling
  <2>2. pc'[w] # "empty" => pc'[w] \in Active
    BY <1>0, <1>12 DEF ProcessFails, Goto, Active, Settling
  <2> QED
    BY <1>0, <2>1, <2>2, <1>12, Constants DEF ProcessFails, StillRunning, Goto, Settling, Taint,
        Fault, PhaseInv, disk, pool, tail, history, Phases
<1>13. ASSUME NEW w \in Workers, ExpandPartly(w) PROVE PhaseInv'
  <2>1. phase = "working"
    BY <1>0, <1>13 DEF ExpandPartly, PhaseInv, Settling
  <2>2. pc'[w] # "empty" => pc'[w] \in Active
    BY <1>0, <1>13 DEF ExpandPartly, Goto, Active, Settling
  <2> QED
    BY <1>0, <2>1, <2>2, <1>13, Constants DEF ExpandPartly, StillRunning, Goto, Settling, Taint,
        FinishRoot, Expandable, Fault, PhaseInv, disk, pool, tail, history, Phases
<1>14. ASSUME Join PROVE PhaseInv'
  BY <1>0, <1>14, Constants DEF Join, PhaseInv, Active, Phases, disk, pool, tail, history
<1>15. ASSUME NEW i \in Items, SkipDuplicate(i) PROVE PhaseInv'
  BY <1>0, <1>15, Constants DEF SkipDuplicate, Turn, StillPlacing, PhaseInv, Active, Phases,
      disk, pool, tail, history
<1>16. ASSUME NEW i \in Items, Move(i) PROVE PhaseInv'
  BY <1>0, <1>16, Constants DEF Move, Turn, StillPlacing, PhaseInv, Active, Phases, disk, pool,
      tail, history
<1>17. ASSUME NEW i \in Items, MoveFails(i) PROVE PhaseInv'
  BY <1>0, <1>17, Constants DEF MoveFails, Turn, StillPlacing, Fault, PhaseInv, Active, Phases,
      disk, pool, tail, history
<1>18. ASSUME Commit PROVE PhaseInv'
  BY <1>0, <1>18, Constants DEF Commit, StillPlacing, PhaseInv, Active, Phases, disk, pool,
      tail, history
<1>19. ASSUME CommitFails PROVE PhaseInv'
  BY <1>0, <1>19, Constants DEF CommitFails, StillPlacing, Tear, Fault, PhaseInv, Active,
      Phases, disk, pool, tail, history
<1>20. ASSUME Report PROVE PhaseInv'
  BY <1>0, <1>20, Constants DEF Report, PhaseInv, Active, Phases, disk, pool, tail, history,
      Complete, Pending
<1>21. ASSUME NEW r \in Roots, Checkpoint(r) PROVE PhaseInv'
  BY <1>0, <1>21, Constants DEF Checkpoint, PhaseInv, Active, Phases, disk, pool, tail, history
<1>22. ASSUME Upload PROVE PhaseInv'
  BY <1>0, <1>22, Constants DEF Upload, Recorded, RunOver, PhaseInv, Active, Phases, disk, pool,
      tail, history
<1>23. ASSUME UploadFails PROVE PhaseInv'
  BY <1>0, <1>23, Constants DEF UploadFails, Recorded, RunOver, Fault, PartlyUploaded, PhaseInv,
      Active, Phases, disk, pool, tail, history
<1>24. ASSUME RunFails PROVE PhaseInv'
  BY <1>0, <1>24, Constants DEF RunFails, RunOver, Fault, PhaseInv, Active, Phases, disk, pool,
      tail, history
<1>25. ASSUME Crash PROVE PhaseInv'
  BY <1>0, <1>25, Constants DEF Crash, Recorded, RunOver, Fault, Tear, PartlyUploaded, PhaseInv,
      Active, Phases, disk, pool, tail, history
<1>90. CASE UNCHANGED vars
  BY <1>90 DEF vars, PhaseInv, disk, pool, tail, history
<1> QED
  BY <1>1, <1>2, <1>3, <1>4, <1>5, <1>6, <1>7, <1>8, <1>9, <1>10, <1>11, <1>12, <1>13, <1>14,
      <1>15, <1>16, <1>17, <1>18, <1>19, <1>20, <1>21, <1>22, <1>23, <1>24, <1>25, <1>90 DEF
      Next, Work, Place, Failure

-----------------------------------------------------------------------------
(* What is before the workers, opened, hashed or lost. *)

\* What is before the workers stays there until it is settled.
LEMMA FrontKept ==
  ASSUME TypeOK, NEW w \in Workers,
         Pop(w) \/ SeeEmpty(w) \/ LookAtCounter(w) \/ CountIn(w) \/ CountOut(w)
  PROVE  Front \subseteq Front'
<1>0. /\ pc \in [Workers -> {"idle", "popped", "empty", "busy", "settled", "done"}]
      /\ hand \in [Workers -> Items \cup {None}]
  BY Ranges
<1>1. ASSUME Pop(w) PROVE Front \subseteq Front'
  <2>1. PICK i \in queue : queue' = queue \ {i} /\ hand' = [hand EXCEPT ![w] = i]
    BY <1>1 DEF Pop
  <2>2. pc[w] = "idle" /\ pc'[w] = "popped" /\ hand'[w] = i
    BY <1>0, <1>1, <2>1 DEF Pop, Goto
  <2>3. \A v \in Workers \ {w} : pc'[v] = pc[v] /\ hand'[v] = hand[v]
    BY <1>0, <1>1, <2>1 DEF Pop, Goto
  <2> QED
    BY <2>1, <2>2, <2>3 DEF Front
<1>2. ASSUME SeeEmpty(w) \/ LookAtCounter(w) \/ CountIn(w) \/ CountOut(w) PROVE Front \subseteq Front'
  <2>1. \A v \in Workers \ {w} : pc'[v] = pc[v] /\ hand'[v] = hand[v]
    BY <1>0, <1>2 DEF SeeEmpty, LookAtCounter, CountIn, CountOut, Goto
  <2>2. pc[w] \in {"popped", "busy"} => pc'[w] \in {"popped", "busy"} /\ hand'[w] = hand[w]
    BY <1>0, <1>2 DEF SeeEmpty, LookAtCounter, CountIn, CountOut, Goto
  <2>3. queue' = queue
    BY <1>2 DEF SeeEmpty, LookAtCounter, CountIn, CountOut
  <2> QED
    BY <2>1, <2>2, <2>3 DEF Front
<1> QED
  BY <1>1, <1>2

\* What a worker settles is all that leaves.
LEMMA FrontSettled ==
  ASSUME TypeOK, NEW w \in Workers, NEW i, Settling(w, i), hand' = hand, queue \subseteq queue'
  PROVE  Front \subseteq Front' \cup {i}
<1>0. pc \in [Workers -> {"idle", "popped", "empty", "busy", "settled", "done"}]
  BY Ranges
<1>1. \A v \in Workers \ {w} : pc'[v] = pc[v]
  BY <1>0 DEF Settling, Goto
<1> QED
  BY <1>1 DEF Front, Settling

\* Outside of the pool's steps nothing is before the workers.
LEMMA FrontEmpty == PhaseInv /\ phase # "working" => Front = {}
BY DEF PhaseInv, Front

\* What is before the workers, while the pool is left alone.
LEMMA FrontSame == UNCHANGED pool => Front' = Front
BY DEF pool, Front

\* Every step keeps what is opened accounted for.
LEMMA PoolStep == TypeOK /\ PhaseInv /\ PoolInv /\ [Next]_vars => PoolInv'
<1> SUFFICES ASSUME TypeOK, PhaseInv, PoolInv, [Next]_vars PROVE PoolInv'
  OBVIOUS
<1>0. PICK O \in SUBSET Zips : Covers(O)
  BY DEF PoolInv
<1>a. ASSUME finished' = {} PROVE PoolInv'
  <2>1. Covers({})'
    BY <1>a DEF Covers
  <2> QED
    BY <2>1 DEF PoolInv
<1>b. ASSUME Front \subseteq Front', UNCHANGED <<hashed, finished, tainted>> PROVE PoolInv'
  <2>1. Covers(O)'
    BY <1>0, <1>b DEF Covers
  <2> QED
    BY <2>1 DEF PoolInv
<1>c. ASSUME UNCHANGED pool PROVE PoolInv'
  BY <1>b, <1>c, FrontSame DEF pool
<1>1. ASSUME Start PROVE PoolInv'
  BY <1>a, <1>1 DEF Start, PhaseInv
<1>2. ASSUME UploadOnly PROVE PoolInv'
  BY <1>c, <1>2 DEF UploadOnly
<1>3. ASSUME NEW w \in Workers, Pop(w) PROVE PoolInv'
  <2>1. Front \subseteq Front'
    BY <1>3, FrontKept
  <2> QED
    BY <1>b, <2>1, <1>3 DEF Pop
<1>4. ASSUME NEW w \in Workers, SeeEmpty(w) PROVE PoolInv'
  <2>1. Front \subseteq Front'
    BY <1>4, FrontKept
  <2> QED
    BY <1>b, <2>1, <1>4 DEF SeeEmpty
<1>5. ASSUME NEW w \in Workers, LookAtCounter(w) PROVE PoolInv'
  <2>1. Front \subseteq Front'
    BY <1>5, FrontKept
  <2> QED
    BY <1>b, <2>1, <1>5 DEF LookAtCounter
<1>6. ASSUME NEW w \in Workers, CountIn(w) PROVE PoolInv'
  <2>1. Front \subseteq Front'
    BY <1>6, FrontKept
  <2> QED
    BY <1>b, <2>1, <1>6 DEF CountIn
<1>7. ASSUME NEW w \in Workers, SkipAppleDouble(w) PROVE PoolInv'
  <2>1. PICK i \in AppleDouble : Settling(w, i) /\ i \in AppleDouble /\ UNCHANGED <<hashed, finished, tainted>>
    BY <1>7 DEF SkipAppleDouble
  <2>2. Front \subseteq Front' \cup {i}
    BY <2>1, <1>7, FrontSettled DEF SkipAppleDouble
  <2>3. Covers(O)'
    BY <1>0, <2>1, <2>2 DEF Covers
  <2> QED
    BY <2>3 DEF PoolInv
<1>8. ASSUME NEW w \in Workers, RefuseDepth(w) PROVE PoolInv'
  <2>1. PICK i \in Zips \ AppleDouble : Settling(w, i) /\ tainted' = tainted \cup {RootOf[i]} /\ UNCHANGED <<hashed, finished>>
    BY <1>8 DEF RefuseDepth, Taint
  <2>2. Front \subseteq Front' \cup {i}
    BY <2>1, <1>8, FrontSettled DEF RefuseDepth
  <2>3. Covers(O)'
    BY <1>0, <2>1, <2>2 DEF Covers
  <2> QED
    BY <2>3 DEF PoolInv
<1>9. ASSUME NEW w \in Workers, Expand(w) PROVE PoolInv'
  <2>1. PICK z \in Zips : Settling(w, z) /\ queue' = queue \cup Members[z] /\ tainted' = tainted
                          /\ hashed' = hashed /\ finished' \subseteq finished \cup {z}
    BY <1>9 DEF Expand, FinishRoot
  <2>2. Front \subseteq Front' \cup {z}
    BY <2>1, <1>9, FrontSettled DEF Expand
  <2>3. \A i \in Members[z] : i \in Front'
    BY <2>1, DeduplicateAssumption DEF Front
  <2>4. Covers(O \cup {z})'
    BY <1>0, <2>1, <2>2, <2>3 DEF Covers
  <2> QED
    BY <2>1, <2>4 DEF PoolInv
<1>10. ASSUME NEW w \in Workers, Hash(w) PROVE PoolInv'
  <2>1. PICK i \in Items \ (Zips \cup AppleDouble) : Settling(w, i) /\ hashed' = hashed \cup {i} /\ finished' \subseteq finished \cup {i} /\ tainted' = tainted
    BY <1>10 DEF Hash, FinishRoot
  <2>2. Front \subseteq Front' \cup {i}
    BY <2>1, <1>10, FrontSettled DEF Hash
  <2>3. Covers(O)'
    BY <1>0, <2>1, <2>2 DEF Covers
  <2> QED
    BY <2>3 DEF PoolInv
<1>11. ASSUME NEW w \in Workers, CountOut(w) PROVE PoolInv'
  <2>1. Front \subseteq Front'
    BY <1>11, FrontKept
  <2> QED
    BY <1>b, <2>1, <1>11 DEF CountOut
<1>12. ASSUME NEW w \in Workers, ProcessFails(w) PROVE PoolInv'
  <2>1. PICK i \in Items \ AppleDouble : Settling(w, i) /\ tainted' = tainted \cup {RootOf[i]} /\ UNCHANGED <<hashed, finished>>
    BY <1>12 DEF ProcessFails, Taint
  <2>2. Front \subseteq Front' \cup {i}
    BY <2>1, <1>12, FrontSettled DEF ProcessFails
  <2>3. Covers(O)'
    BY <1>0, <2>1, <2>2 DEF Covers
  <2> QED
    BY <2>3 DEF PoolInv
<1>13. ASSUME NEW w \in Workers, ExpandPartly(w) PROVE PoolInv'
  <2>1. PICK z \in Zips : Settling(w, z) /\ queue \subseteq queue' /\ tainted' = tainted \cup {RootOf[z]}
                          /\ hashed' = hashed /\ finished' \subseteq finished \cup {z}
    BY <1>13 DEF ExpandPartly, FinishRoot, Taint
  <2>2. Front \subseteq Front' \cup {z}
    BY <2>1, <1>13, FrontSettled DEF ExpandPartly
  <2>3. \A i \in Members[z] : RootOf[i] \in tainted'
    BY <2>1, DeduplicateAssumption DEF Front
  <2>4. Covers(O \cup {z})'
    BY <1>0, <2>1, <2>2, <2>3 DEF Covers
  <2> QED
    BY <2>1, <2>4 DEF PoolInv
<1>14. ASSUME Join PROVE PoolInv'
  BY <1>c, <1>14 DEF Join
<1>15. ASSUME NEW i \in Items, SkipDuplicate(i) PROVE PoolInv'
  BY <1>c, <1>15 DEF SkipDuplicate, StillPlacing
<1>16. ASSUME NEW i \in Items, Move(i) PROVE PoolInv'
  BY <1>c, <1>16 DEF Move, StillPlacing
<1>17. ASSUME NEW i \in Items, MoveFails(i) PROVE PoolInv'
  BY <1>c, <1>17 DEF MoveFails, StillPlacing
<1>18. ASSUME Commit PROVE PoolInv'
  BY <1>c, <1>18 DEF Commit, StillPlacing
<1>19. ASSUME CommitFails PROVE PoolInv'
  BY <1>c, <1>19 DEF CommitFails, StillPlacing
<1>20. ASSUME Report PROVE PoolInv'
  BY <1>c, <1>20 DEF Report
<1>21. ASSUME NEW r \in Roots, Checkpoint(r) PROVE PoolInv'
  BY <1>c, <1>21 DEF Checkpoint
<1>22. ASSUME Upload PROVE PoolInv'
  BY <1>a, <1>22 DEF Upload, RunOver
<1>23. ASSUME UploadFails PROVE PoolInv'
  BY <1>a, <1>23 DEF UploadFails, RunOver
<1>24. ASSUME RunFails PROVE PoolInv'
  BY <1>a, <1>24 DEF RunFails, RunOver
<1>25. ASSUME Crash PROVE PoolInv'
  BY <1>a, <1>25 DEF Crash, RunOver
<1>90. CASE UNCHANGED vars
  BY <1>c, <1>90 DEF vars
<1> QED
  BY <1>1, <1>2, <1>3, <1>4, <1>5, <1>6, <1>7, <1>8, <1>9, <1>10, <1>11, <1>12, <1>13, <1>14,
      <1>15, <1>16, <1>17, <1>18, <1>19, <1>20, <1>21, <1>22, <1>23, <1>24, <1>25, <1>90 DEF
      Next, Work, Place, Failure

\* Every step keeps every object before the workers or with an outcome.
LEMMA RootsStep == TypeOK /\ PhaseInv /\ RootsInv /\ [Next]_vars => RootsInv'
<1> SUFFICES ASSUME TypeOK, PhaseInv, RootsInv, [Next]_vars PROVE RootsInv'
  OBVIOUS
<1>b. ASSUME Front \subseteq Front', phase' = phase,
             UNCHANGED <<processed, finished, skipped, tainted>> PROVE RootsInv'
  BY <1>b DEF RootsInv
<1>c. ASSUME UNCHANGED <<pool, processed>>, phase' = phase PROVE RootsInv'
  BY <1>b, <1>c, FrontSame DEF pool
<1>d. ASSUME phase' \notin {"working", "placing"} PROVE RootsInv'
  BY <1>d DEF RootsInv
<1>1. ASSUME Start PROVE RootsInv'
  BY <1>1 DEF Start, RootsInv, Front, Pending, disk
<1>2. ASSUME UploadOnly PROVE RootsInv'
  BY <1>d, <1>2 DEF UploadOnly
<1>3. ASSUME NEW w \in Workers, Pop(w) PROVE RootsInv'
  <2>1. Front \subseteq Front'
    BY <1>3, FrontKept
  <2> QED
    BY <1>b, <2>1, <1>3 DEF Pop, StillRunning, disk
<1>4. ASSUME NEW w \in Workers, SeeEmpty(w) PROVE RootsInv'
  <2>1. Front \subseteq Front'
    BY <1>4, FrontKept
  <2> QED
    BY <1>b, <2>1, <1>4 DEF SeeEmpty, StillRunning, disk
<1>5. ASSUME NEW w \in Workers, LookAtCounter(w) PROVE RootsInv'
  <2>1. Front \subseteq Front'
    BY <1>5, FrontKept
  <2> QED
    BY <1>b, <2>1, <1>5 DEF LookAtCounter, StillRunning, disk
<1>6. ASSUME NEW w \in Workers, CountIn(w) PROVE RootsInv'
  <2>1. Front \subseteq Front'
    BY <1>6, FrontKept
  <2> QED
    BY <1>b, <2>1, <1>6 DEF CountIn, StillRunning, disk
<1>7. ASSUME NEW w \in Workers, SkipAppleDouble(w) PROVE RootsInv'
  <2>1. PICK i \in AppleDouble :
          /\ Settling(w, i) /\ hand' = hand /\ queue \subseteq queue'
          /\ finished \subseteq finished' /\ skipped \subseteq skipped' /\ tainted \subseteq tainted'
          /\ i \in Roots => i \in finished' \cup skipped' \cup tainted'
    BY <1>7, Constants DEF SkipAppleDouble
  <2>2. Front \subseteq Front' \cup {i}
    BY <2>1, FrontSettled
  <2> QED
    BY <2>1, <2>2, <1>7 DEF SkipAppleDouble, StillRunning, disk, RootsInv
<1>8. ASSUME NEW w \in Workers, RefuseDepth(w) PROVE RootsInv'
  <2>1. PICK i \in Zips \ AppleDouble :
          /\ Settling(w, i) /\ hand' = hand /\ queue \subseteq queue'
          /\ finished \subseteq finished' /\ skipped \subseteq skipped' /\ tainted \subseteq tainted'
          /\ i \in Roots => i \in finished' \cup skipped' \cup tainted'
    BY <1>8, Constants DEF RefuseDepth, Taint
  <2>2. Front \subseteq Front' \cup {i}
    BY <2>1, FrontSettled
  <2> QED
    BY <2>1, <2>2, <1>8 DEF RefuseDepth, StillRunning, disk, RootsInv
<1>9. ASSUME NEW w \in Workers, Expand(w) PROVE RootsInv'
  <2>1. PICK i \in Zips :
          /\ Settling(w, i) /\ hand' = hand /\ queue \subseteq queue'
          /\ finished \subseteq finished' /\ skipped \subseteq skipped' /\ tainted \subseteq tainted'
          /\ i \in Roots => i \in finished' \cup skipped' \cup tainted'
    BY <1>9, Constants DEF Expand, FinishRoot
  <2>2. Front \subseteq Front' \cup {i}
    BY <2>1, FrontSettled
  <2> QED
    BY <2>1, <2>2, <1>9 DEF Expand, StillRunning, disk, RootsInv
<1>10. ASSUME NEW w \in Workers, Hash(w) PROVE RootsInv'
  <2>1. PICK i \in Items \ (Zips \cup AppleDouble) :
          /\ Settling(w, i) /\ hand' = hand /\ queue \subseteq queue'
          /\ finished \subseteq finished' /\ skipped \subseteq skipped' /\ tainted \subseteq tainted'
          /\ i \in Roots => i \in finished' \cup skipped' \cup tainted'
    BY <1>10, Constants DEF Hash, FinishRoot
  <2>2. Front \subseteq Front' \cup {i}
    BY <2>1, FrontSettled
  <2> QED
    BY <2>1, <2>2, <1>10 DEF Hash, StillRunning, disk, RootsInv
<1>11. ASSUME NEW w \in Workers, CountOut(w) PROVE RootsInv'
  <2>1. Front \subseteq Front'
    BY <1>11, FrontKept
  <2> QED
    BY <1>b, <2>1, <1>11 DEF CountOut, StillRunning, disk
<1>12. ASSUME NEW w \in Workers, ProcessFails(w) PROVE RootsInv'
  <2>1. PICK i \in Items \ AppleDouble :
          /\ Settling(w, i) /\ hand' = hand /\ queue \subseteq queue'
          /\ finished \subseteq finished' /\ skipped \subseteq skipped' /\ tainted \subseteq tainted'
          /\ i \in Roots => i \in finished' \cup skipped' \cup tainted'
    BY <1>12, Constants DEF ProcessFails, Taint
  <2>2. Front \subseteq Front' \cup {i}
    BY <2>1, FrontSettled
  <2> QED
    BY <2>1, <2>2, <1>12 DEF ProcessFails, StillRunning, disk, RootsInv
<1>13. ASSUME NEW w \in Workers, ExpandPartly(w) PROVE RootsInv'
  <2>1. PICK i \in Zips :
          /\ Settling(w, i) /\ hand' = hand /\ queue \subseteq queue'
          /\ finished \subseteq finished' /\ skipped \subseteq skipped' /\ tainted \subseteq tainted'
          /\ i \in Roots => i \in finished' \cup skipped' \cup tainted'
    BY <1>13, Constants DEF ExpandPartly, Taint, FinishRoot
  <2>2. Front \subseteq Front' \cup {i}
    BY <2>1, FrontSettled
  <2> QED
    BY <2>1, <2>2, <1>13 DEF ExpandPartly, StillRunning, disk, RootsInv
<1>14. ASSUME Join PROVE RootsInv'
  <2>1. Front' = Front
    BY <1>14, FrontSame DEF Join
  <2> QED
    BY <2>1, <1>14 DEF Join, RootsInv, pool, disk
<1>15. ASSUME NEW i \in Items, SkipDuplicate(i) PROVE RootsInv'
  BY <1>c, <1>15 DEF SkipDuplicate, StillPlacing, disk
<1>16. ASSUME NEW i \in Items, Move(i) PROVE RootsInv'
  BY <1>c, <1>16 DEF Move, StillPlacing, disk
<1>17. ASSUME NEW i \in Items, MoveFails(i) PROVE RootsInv'
  BY <1>c, <1>17 DEF MoveFails, StillPlacing, disk
<1>18. ASSUME Commit PROVE RootsInv'
  BY <1>c, <1>18 DEF Commit, StillPlacing, disk
<1>19. ASSUME CommitFails PROVE RootsInv'
  BY <1>c, <1>19 DEF CommitFails, StillPlacing, disk
<1>20. ASSUME Report PROVE RootsInv'
  BY <1>d, <1>20 DEF Report
<1>21. ASSUME NEW r \in Roots, Checkpoint(r) PROVE RootsInv'
  BY <1>d, <1>21 DEF Checkpoint
<1>22. ASSUME Upload PROVE RootsInv'
  BY <1>d, <1>22 DEF Upload, RunOver
<1>23. ASSUME UploadFails PROVE RootsInv'
  BY <1>d, <1>23 DEF UploadFails, RunOver
<1>24. ASSUME RunFails PROVE RootsInv'
  BY <1>d, <1>24 DEF RunFails, RunOver
<1>25. ASSUME Crash PROVE RootsInv'
  BY <1>d, <1>25 DEF Crash, RunOver
<1>90. CASE UNCHANGED vars
  BY <1>c, <1>90 DEF vars, disk
<1> QED
  BY <1>1, <1>2, <1>3, <1>4, <1>5, <1>6, <1>7, <1>8, <1>9, <1>10, <1>11, <1>12, <1>13, <1>14,
      <1>15, <1>16, <1>17, <1>18, <1>19, <1>20, <1>21, <1>22, <1>23, <1>24, <1>25, <1>90 DEF
      Next, Work, Place, Failure

-----------------------------------------------------------------------------
(* The copies. *)

\* Every step keeps the copies of each content accounted for.
LEMMA IndexStep == TypeOK /\ PhaseInv /\ IndexInv /\ [Next]_vars => IndexInv'
<1> SUFFICES ASSUME TypeOK, PhaseInv, IndexInv, [Next]_vars PROVE IndexInv'
  OBVIOUS
<1>0. /\ copies \in [Contents -> Nat] /\ index \in [Contents -> Items \cup {None}]
      /\ torn \in [Contents -> Nat] /\ placing \in Items \cup {None}
      /\ \A i \in Items : Content[i] \in Contents /\ None \notin Items
  BY Ranges, Constants
<1>c. ASSUME UNCHANGED <<copies, index, torn, placing>> PROVE IndexInv'
  BY <1>c DEF IndexInv
<1>1. ASSUME Start PROVE IndexInv'
  BY <1>c, <1>1 DEF Start, disk, pool, tail, history
<1>2. ASSUME UploadOnly PROVE IndexInv'
  BY <1>c, <1>2 DEF UploadOnly, disk, pool, tail, history
<1>3. ASSUME NEW w \in Workers, Pop(w) PROVE IndexInv'
  BY <1>c, <1>3 DEF Pop, StillRunning, disk, pool, tail, history
<1>4. ASSUME NEW w \in Workers, SeeEmpty(w) PROVE IndexInv'
  BY <1>c, <1>4 DEF SeeEmpty, StillRunning, disk, pool, tail, history
<1>5. ASSUME NEW w \in Workers, LookAtCounter(w) PROVE IndexInv'
  BY <1>c, <1>5 DEF LookAtCounter, StillRunning, disk, pool, tail, history
<1>6. ASSUME NEW w \in Workers, CountIn(w) PROVE IndexInv'
  BY <1>c, <1>6 DEF CountIn, StillRunning, disk, pool, tail, history
<1>7. ASSUME NEW w \in Workers, SkipAppleDouble(w) PROVE IndexInv'
  BY <1>c, <1>7 DEF SkipAppleDouble, StillRunning, disk, pool, tail, history
<1>8. ASSUME NEW w \in Workers, RefuseDepth(w) PROVE IndexInv'
  BY <1>c, <1>8 DEF RefuseDepth, StillRunning, disk, pool, tail, history
<1>9. ASSUME NEW w \in Workers, Expand(w) PROVE IndexInv'
  BY <1>c, <1>9 DEF Expand, StillRunning, disk, pool, tail, history
<1>10. ASSUME NEW w \in Workers, Hash(w) PROVE IndexInv'
  BY <1>c, <1>10 DEF Hash, StillRunning, disk, pool, tail, history
<1>11. ASSUME NEW w \in Workers, CountOut(w) PROVE IndexInv'
  BY <1>c, <1>11 DEF CountOut, StillRunning, disk, pool, tail, history
<1>12. ASSUME NEW w \in Workers, ProcessFails(w) PROVE IndexInv'
  BY <1>c, <1>12 DEF ProcessFails, StillRunning, disk, pool, tail, history
<1>13. ASSUME NEW w \in Workers, ExpandPartly(w) PROVE IndexInv'
  BY <1>c, <1>13 DEF ExpandPartly, StillRunning, disk, pool, tail, history
<1>14. ASSUME Join PROVE IndexInv'
  BY <1>c, <1>14 DEF Join, disk, pool, tail, history
<1>15. ASSUME NEW i \in Items, SkipDuplicate(i) PROVE IndexInv'
  BY <1>c, <1>15 DEF SkipDuplicate, StillPlacing, disk, pool, tail, history
<1>16. ASSUME NEW i \in Items, Move(i) PROVE IndexInv'
  BY <1>0, <1>16 DEF Move, Turn, StillPlacing, IndexInv, history
<1>17. ASSUME NEW i \in Items, MoveFails(i) PROVE IndexInv'
  BY <1>c, <1>17 DEF MoveFails, StillPlacing, disk, pool, tail, history
<1>18. ASSUME Commit PROVE IndexInv'
  BY <1>0, <1>18 DEF Commit, StillPlacing, IndexInv, history
<1>19. ASSUME CommitFails PROVE IndexInv'
  BY <1>0, <1>19 DEF CommitFails, StillPlacing, Tear, Fault, IndexInv, history
<1>20. ASSUME Report PROVE IndexInv'
  BY <1>c, <1>20 DEF Report, disk, pool, tail, history
<1>21. ASSUME NEW r \in Roots, Checkpoint(r) PROVE IndexInv'
  BY <1>c, <1>21 DEF Checkpoint, disk, pool, tail, history
<1>22. ASSUME Upload PROVE IndexInv'
  <2>1. placing = None
    BY <1>0, <1>22 DEF Upload, Recorded, PhaseInv
  <2> QED
    BY <1>c, <2>1, <1>22 DEF Upload, RunOver, disk, history
<1>23. ASSUME UploadFails PROVE IndexInv'
  <2>1. placing = None
    BY <1>0, <1>23 DEF UploadFails, Recorded, PhaseInv
  <2> QED
    BY <1>c, <2>1, <1>23 DEF UploadFails, RunOver, disk, history
<1>24. ASSUME RunFails PROVE IndexInv'
  <2>1. placing = None
    BY <1>0, <1>24 DEF RunFails, Recorded, PhaseInv
  <2> QED
    BY <1>c, <2>1, <1>24 DEF RunFails, RunOver, disk, history
<1>25. ASSUME Crash PROVE IndexInv'
  BY <1>0, <1>25 DEF Crash, Tear, RunOver, IndexInv
<1>90. CASE UNCHANGED vars
  BY <1>c, <1>90 DEF vars, disk, tail, history
<1> QED
  BY <1>1, <1>2, <1>3, <1>4, <1>5, <1>6, <1>7, <1>8, <1>9, <1>10, <1>11, <1>12, <1>13, <1>14,
      <1>15, <1>16, <1>17, <1>18, <1>19, <1>20, <1>21, <1>22, <1>23, <1>24, <1>25, <1>90 DEF
      Next, Work, Place, Failure

\* No copy and no trace is ever lost.
LEMMA CopiesStay ==
  ASSUME TypeOK, [Next]_vars
  PROVE  (\A c \in Contents : copies[c] > 0 => copies'[c] > 0) /\ unplaced \subseteq unplaced'
<1>0. copies \in [Contents -> Nat] /\ \A i \in Items : Content[i] \in Contents
  BY Ranges, Constants
<1> DEFINE Stay == (\A c \in Contents : copies[c] > 0 => copies'[c] > 0) /\ unplaced \subseteq unplaced'
<1>c. ASSUME UNCHANGED copies, unplaced \subseteq unplaced' PROVE Stay
  BY <1>c
<1> HIDE DEF Stay
<1>1. ASSUME Start PROVE Stay
  BY <1>c, <1>1 DEF Start, disk, history
<1>2. ASSUME UploadOnly PROVE Stay
  BY <1>c, <1>2 DEF UploadOnly, disk, history
<1>3. ASSUME NEW w \in Workers, Pop(w) PROVE Stay
  BY <1>c, <1>3 DEF Pop, StillRunning, disk, history
<1>4. ASSUME NEW w \in Workers, SeeEmpty(w) PROVE Stay
  BY <1>c, <1>4 DEF SeeEmpty, StillRunning, disk, history
<1>5. ASSUME NEW w \in Workers, LookAtCounter(w) PROVE Stay
  BY <1>c, <1>5 DEF LookAtCounter, StillRunning, disk, history
<1>6. ASSUME NEW w \in Workers, CountIn(w) PROVE Stay
  BY <1>c, <1>6 DEF CountIn, StillRunning, disk, history
<1>7. ASSUME NEW w \in Workers, SkipAppleDouble(w) PROVE Stay
  BY <1>c, <1>7 DEF SkipAppleDouble, StillRunning, disk, history
<1>8. ASSUME NEW w \in Workers, RefuseDepth(w) PROVE Stay
  BY <1>c, <1>8 DEF RefuseDepth, StillRunning, disk, history
<1>9. ASSUME NEW w \in Workers, Expand(w) PROVE Stay
  BY <1>c, <1>9 DEF Expand, StillRunning, disk, history
<1>10. ASSUME NEW w \in Workers, Hash(w) PROVE Stay
  BY <1>c, <1>10 DEF Hash, StillRunning, disk, history
<1>11. ASSUME NEW w \in Workers, CountOut(w) PROVE Stay
  BY <1>c, <1>11 DEF CountOut, StillRunning, disk, history
<1>12. ASSUME NEW w \in Workers, ProcessFails(w) PROVE Stay
  BY <1>c, <1>12 DEF ProcessFails, StillRunning, disk, history
<1>13. ASSUME NEW w \in Workers, ExpandPartly(w) PROVE Stay
  BY <1>c, <1>13 DEF ExpandPartly, StillRunning, disk, history
<1>14. ASSUME Join PROVE Stay
  BY <1>c, <1>14 DEF Join, disk, history
<1>15. ASSUME NEW i \in Items, SkipDuplicate(i) PROVE Stay
  BY <1>c, <1>15 DEF SkipDuplicate, StillPlacing, disk, history
<1>16. ASSUME NEW i \in Items, Move(i) PROVE Stay
  BY <1>0, <1>16 DEF Move, Turn, Stay, history
<1>17. ASSUME NEW i \in Items, MoveFails(i) PROVE Stay
  BY <1>c, <1>17 DEF MoveFails, StillPlacing, disk, history
<1>18. ASSUME Commit PROVE Stay
  BY <1>c, <1>18 DEF Commit, StillPlacing, disk, history
<1>19. ASSUME CommitFails PROVE Stay
  BY <1>c, <1>19 DEF CommitFails, StillPlacing, disk, history
<1>20. ASSUME Report PROVE Stay
  BY <1>c, <1>20 DEF Report, disk, history
<1>21. ASSUME NEW r \in Roots, Checkpoint(r) PROVE Stay
  BY <1>c, <1>21 DEF Checkpoint, disk, history
<1>22. ASSUME Upload PROVE Stay
  BY <1>c, <1>22 DEF Upload, disk, history
<1>23. ASSUME UploadFails PROVE Stay
  BY <1>c, <1>23 DEF UploadFails, disk, history
<1>24. ASSUME RunFails PROVE Stay
  BY <1>c, <1>24 DEF RunFails, disk, history
<1>25. ASSUME Crash PROVE Stay
  BY <1>c, <1>25 DEF Crash, disk, history
<1>90. CASE UNCHANGED vars
  BY <1>c, <1>90 DEF vars, disk, history
<1> QED
  BY <1>1, <1>2, <1>3, <1>4, <1>5, <1>6, <1>7, <1>8, <1>9, <1>10, <1>11, <1>12, <1>13, <1>14,
      <1>15, <1>16, <1>17, <1>18, <1>19, <1>20, <1>21, <1>22, <1>23, <1>24, <1>25, <1>90 DEF
      Stay, Next, Work, Place, Failure

\* Every step keeps a copy, or a trace, of what is hashed and out of the files.
LEMMA PlaceStep == TypeOK /\ PhaseInv /\ IndexInv /\ PlaceInv /\ [Next]_vars => PlaceInv'
<1> SUFFICES ASSUME TypeOK, PhaseInv, IndexInv, PlaceInv, [Next]_vars PROVE PlaceInv'
  OBVIOUS
<1>0. /\ copies \in [Contents -> Nat] /\ torn \in [Contents -> Nat] /\ placing \in files \cup {None}
      /\ files \subseteq Items /\ hashed \subseteq Items /\ files \cap placed = {}
      /\ \A i \in Items : Content[i] \in Contents /\ RootOf[i] \in Roots
  BY Ranges, Constants DEF PhaseInv
<1>a. \A c \in Contents : copies[c] > 0 => copies'[c] > 0
  BY CopiesStay
<1>b. unplaced \subseteq unplaced'
  BY CopiesStay
<1>c. ASSUME phase' = phase, UNCHANGED <<hashed, files, placed>> PROVE PlaceInv'
  BY <1>0, <1>a, <1>b, <1>c DEF PlaceInv
<1>d. ASSUME phase' \notin {"placing", "recording"} PROVE PlaceInv'
  BY <1>d DEF PlaceInv
<1>e. ASSUME NEW i \in Items, copies[Content[i]] > 0, phase = "placing", phase' = phase, hashed' = hashed,
             files' = files \ {i}, placed \subseteq placed', placed' \subseteq placed \cup {i}
      PROVE  PlaceInv'
  <2>1. copies'[Content[i]] > 0
    BY <1>0, <1>a, <1>e
  <2>2. ASSUME NEW j \in hashed, j # i
        PROVE  \/ j \in files' \/ copies'[Content[j]] > 0 \/ RootOf[j] \in unplaced' \/ j \in Roots \ placed'
    <3>1. j \in files \/ copies[Content[j]] > 0 \/ RootOf[j] \in unplaced \/ j \in Roots \ placed
      BY <1>e DEF PlaceInv
    <3> QED
      BY <1>0, <1>a, <1>b, <1>e, <2>2, <3>1
  <2> QED
    BY <1>e, <2>1, <2>2 DEF PlaceInv
<1>1. ASSUME Start PROVE PlaceInv'
  BY <1>d, <1>1 DEF Start
<1>2. ASSUME UploadOnly PROVE PlaceInv'
  BY <1>d, <1>2 DEF UploadOnly
<1>3. ASSUME NEW w \in Workers, Pop(w) PROVE PlaceInv'
  <2>1. phase' = "working"
    BY <1>3 DEF Pop, StillRunning, PhaseInv
  <2> QED
    BY <1>d, <2>1
<1>4. ASSUME NEW w \in Workers, SeeEmpty(w) PROVE PlaceInv'
  <2>1. phase' = "working"
    BY <1>4 DEF SeeEmpty, StillRunning, PhaseInv
  <2> QED
    BY <1>d, <2>1
<1>5. ASSUME NEW w \in Workers, LookAtCounter(w) PROVE PlaceInv'
  <2>1. phase' = "working"
    BY <1>5 DEF LookAtCounter, StillRunning, PhaseInv
  <2> QED
    BY <1>d, <2>1
<1>6. ASSUME NEW w \in Workers, CountIn(w) PROVE PlaceInv'
  <2>1. phase' = "working"
    BY <1>6 DEF CountIn, StillRunning, PhaseInv
  <2> QED
    BY <1>d, <2>1
<1>7. ASSUME NEW w \in Workers, SkipAppleDouble(w) PROVE PlaceInv'
  <2>1. phase' = "working"
    BY <1>7 DEF SkipAppleDouble, StillRunning, PhaseInv, Settling
  <2> QED
    BY <1>d, <2>1
<1>8. ASSUME NEW w \in Workers, RefuseDepth(w) PROVE PlaceInv'
  <2>1. phase' = "working"
    BY <1>8 DEF RefuseDepth, StillRunning, PhaseInv, Settling
  <2> QED
    BY <1>d, <2>1
<1>9. ASSUME NEW w \in Workers, Expand(w) PROVE PlaceInv'
  <2>1. phase' = "working"
    BY <1>9 DEF Expand, StillRunning, PhaseInv, Settling
  <2> QED
    BY <1>d, <2>1
<1>10. ASSUME NEW w \in Workers, Hash(w) PROVE PlaceInv'
  <2>1. phase' = "working"
    BY <1>10 DEF Hash, StillRunning, PhaseInv, Settling
  <2> QED
    BY <1>d, <2>1
<1>11. ASSUME NEW w \in Workers, CountOut(w) PROVE PlaceInv'
  <2>1. phase' = "working"
    BY <1>11 DEF CountOut, StillRunning, PhaseInv
  <2> QED
    BY <1>d, <2>1
<1>12. ASSUME NEW w \in Workers, ProcessFails(w) PROVE PlaceInv'
  <2>1. phase' = "working"
    BY <1>12 DEF ProcessFails, StillRunning, PhaseInv, Settling
  <2> QED
    BY <1>d, <2>1
<1>13. ASSUME NEW w \in Workers, ExpandPartly(w) PROVE PlaceInv'
  <2>1. phase' = "working"
    BY <1>13 DEF ExpandPartly, StillRunning, PhaseInv, Settling
  <2> QED
    BY <1>d, <2>1
<1>14. ASSUME Join PROVE PlaceInv'
  BY <1>14 DEF Join, PlaceInv, pool
<1>15. ASSUME NEW i \in Items, SkipDuplicate(i) PROVE PlaceInv'
  <2>1. copies[Content[i]] > 0
    BY <1>0, <1>15 DEF SkipDuplicate, Turn, IndexInv
  <2> QED
    BY <1>e, <2>1, <1>15 DEF SkipDuplicate, Turn, StillPlacing, pool
<1>16. ASSUME NEW i \in Items, Move(i) PROVE PlaceInv'
  BY <1>c, <1>16 DEF Move, StillPlacing, pool
<1>17. ASSUME NEW i \in Items, MoveFails(i) PROVE PlaceInv'
  <2>1. i \in Roots \/ RootOf[i] \in unplaced'
    BY <1>0, <1>17 DEF MoveFails
  <2>2. i \notin placed
    BY <1>0, <1>17 DEF MoveFails, Turn
  <2> QED
    BY <1>0, <1>1, <1>2, <2>1, <2>2, <1>17 DEF MoveFails, Turn, StillPlacing, PlaceInv, pool
<1>18. ASSUME Commit PROVE PlaceInv'
  <2>1. placing \in Items /\ copies[Content[placing]] > 0
    BY <1>0, <1>18 DEF Commit, IndexInv
  <2>2. phase = "placing"
    BY <1>18 DEF Commit, PhaseInv
  <2> QED
    BY <1>e, <2>1, <2>2, <1>18 DEF Commit, StillPlacing, pool
<1>19. ASSUME CommitFails PROVE PlaceInv'
  <2>1. placing \in Items /\ copies[Content[placing]] > 0
    BY <1>0, <1>19 DEF CommitFails, IndexInv
  <2>2. phase = "placing"
    BY <1>19 DEF CommitFails, PhaseInv
  <2> QED
    BY <1>e, <2>1, <2>2, <1>19 DEF CommitFails, StillPlacing, pool
<1>20. ASSUME Report PROVE PlaceInv'
  BY <1>2, <1>20 DEF Report, PlaceInv, pool, disk, history
<1>21. ASSUME NEW r \in Roots, Checkpoint(r) PROVE PlaceInv'
  BY <1>c, <1>21 DEF Checkpoint, pool
<1>22. ASSUME Upload PROVE PlaceInv'
  BY <1>d, <1>22 DEF Upload, RunOver
<1>23. ASSUME UploadFails PROVE PlaceInv'
  BY <1>d, <1>23 DEF UploadFails, RunOver
<1>24. ASSUME RunFails PROVE PlaceInv'
  BY <1>d, <1>24 DEF RunFails, RunOver
<1>25. ASSUME Crash PROVE PlaceInv'
  BY <1>d, <1>25 DEF Crash, RunOver
<1>90. CASE UNCHANGED vars
  BY <1>c, <1>90 DEF vars, pool, tail
<1> QED
  BY <1>1, <1>2, <1>3, <1>4, <1>5, <1>6, <1>7, <1>8, <1>9, <1>10, <1>11, <1>12, <1>13, <1>14,
      <1>15, <1>16, <1>17, <1>18, <1>19, <1>20, <1>21, <1>22, <1>23, <1>24, <1>25, <1>90 DEF
      Next, Work, Place, Failure

-----------------------------------------------------------------------------
(* The checkpoint, and the end of a run. *)

\* A set of numbers has a least.
LEMMA LeastNumber ==
  ASSUME NEW T, T \subseteq Nat, T # {}
  PROVE  \E n \in T : \A m \in T : n <= m
<1> DEFINE R == OpToRel(<, Nat)
<1>1. IsWellFoundedOn(R, Nat)
  BY NatLessThanWellFounded
<1>2. ASSUME NEW x \in Nat, NEW y \in Nat, y < x PROVE <<y, x>> \in R
  BY <1>2 DEF OpToRel
<1> HIDE DEF R
<1>3. PICK n \in T : \A m \in T : ~(<<m, n>> \in R)
  BY <1>1, WFMin
<1>4. ASSUME NEW m \in T PROVE n <= m
  <2>1. ~(m < n)
    BY <1>2, <1>3
  <2> QED
    BY <2>1
<1> QED
  BY <1>4

\* With nothing before the workers, all that is in a finished object of which
\* nothing failed is hashed: of what would not be, take one that is least deep.
LEMMA FinishedIsHashed ==
  ASSUME TypeOK, PhaseInv, PoolInv, Front = {}, NEW r \in finished \ tainted, NEW leaf \in Leaves(r)
  PROVE  leaf \in hashed
<1>0. PICK O \in SUBSET Zips : Covers(O)
  BY DEF PoolInv
<1> DEFINE Missed == {i \in Items : RootOf[i] = r /\ i \notin O \cup hashed \cup AppleDouble}
<1>1. Missed = {}
  <2> SUFFICES ASSUME Missed # {} PROVE FALSE
    OBVIOUS
  <2> DEFINE T == {Depth[i] : i \in Missed}
  <2>1. T \subseteq Nat /\ T # {}
    BY Constants
  <2>2. PICK n \in T : \A m \in T : n <= m
    <3> HIDE DEF T
    <3> QED
      BY <2>1, LeastNumber
  <2>3. PICK i \in Missed : \A j \in Missed : Depth[i] <= Depth[j]
    BY <2>2
  <2>4. i \notin Roots
    <3>1. i \in Roots => i = r
      BY Constants
    <3> QED
      BY <1>0, <3>1 DEF Covers
  <2>5. PICK z \in Items : i \in Members[z]
    BY <2>4, DeduplicateAssumption
  <2>6. z \in Zips \ AppleDouble /\ RootOf[z] = r /\ Depth[i] = Depth[z] + 1 /\ Depth[z] \in Nat
    BY <2>5, DeduplicateAssumption
  <2>7. z \notin Missed
    BY <2>3, <2>6
  <2>8. z \in O
    BY <2>6, <2>7 DEF PhaseInv
  <2> QED
    BY <1>0, <2>5, <2>8 DEF Covers
<1> QED
  BY <1>0, <1>1 DEF Leaves

\* What a report records is placed.
LEMMA CompleteIsPlaced ==
  ASSUME TypeOK, PhaseInv, PoolInv, PlaceInv, Front = {}, phase = "placing", files = {},
         NEW r \in Complete \ unplaced, NEW leaf \in Leaves(r)
  PROVE  copies[Content[leaf]] > 0
<1>1. leaf \in hashed
  BY FinishedIsHashed DEF Complete
<1>2. leaf \in Items /\ RootOf[leaf] = r /\ leaf \notin Zips
  BY DEF Leaves
<1>3. leaf \in Roots => leaf \in placed
  BY <1>2, Constants DEF Complete
<1> QED
  BY <1>1, <1>2, <1>3 DEF PlaceInv

\* Every step keeps what is to be recorded placed.
LEMMA RecordStep ==
  TypeOK /\ PhaseInv /\ PoolInv /\ PlaceInv /\ RecordInv /\ [Next]_vars => RecordInv'
<1> SUFFICES ASSUME TypeOK, PhaseInv, PoolInv, PlaceInv, RecordInv, [Next]_vars PROVE RecordInv'
  OBVIOUS
<1>0. \A i \in Items : Content[i] \in Contents
  BY Constants
<1>a. \A c \in Contents : copies[c] > 0 => copies'[c] > 0
  BY CopiesStay
<1>b. unplaced \subseteq unplaced'
  BY CopiesStay
<1>c. ASSUME toRecord' \subseteq toRecord PROVE RecordInv'
  BY <1>0, <1>a, <1>b, <1>c DEF RecordInv, Leaves
<1>1. ASSUME Start PROVE RecordInv'
  BY <1>c, <1>1 DEF Start, tail
<1>2. ASSUME UploadOnly PROVE RecordInv'
  BY <1>c, <1>2 DEF UploadOnly, tail
<1>3. ASSUME NEW w \in Workers, Pop(w) PROVE RecordInv'
  BY <1>c, <1>3 DEF Pop, StillRunning, tail
<1>4. ASSUME NEW w \in Workers, SeeEmpty(w) PROVE RecordInv'
  BY <1>c, <1>4 DEF SeeEmpty, StillRunning, tail
<1>5. ASSUME NEW w \in Workers, LookAtCounter(w) PROVE RecordInv'
  BY <1>c, <1>5 DEF LookAtCounter, StillRunning, tail
<1>6. ASSUME NEW w \in Workers, CountIn(w) PROVE RecordInv'
  BY <1>c, <1>6 DEF CountIn, StillRunning, tail
<1>7. ASSUME NEW w \in Workers, SkipAppleDouble(w) PROVE RecordInv'
  BY <1>c, <1>7 DEF SkipAppleDouble, StillRunning, tail
<1>8. ASSUME NEW w \in Workers, RefuseDepth(w) PROVE RecordInv'
  BY <1>c, <1>8 DEF RefuseDepth, StillRunning, tail
<1>9. ASSUME NEW w \in Workers, Expand(w) PROVE RecordInv'
  BY <1>c, <1>9 DEF Expand, StillRunning, tail
<1>10. ASSUME NEW w \in Workers, Hash(w) PROVE RecordInv'
  BY <1>c, <1>10 DEF Hash, StillRunning, tail
<1>11. ASSUME NEW w \in Workers, CountOut(w) PROVE RecordInv'
  BY <1>c, <1>11 DEF CountOut, StillRunning, tail
<1>12. ASSUME NEW w \in Workers, ProcessFails(w) PROVE RecordInv'
  BY <1>c, <1>12 DEF ProcessFails, StillRunning, tail
<1>13. ASSUME NEW w \in Workers, ExpandPartly(w) PROVE RecordInv'
  BY <1>c, <1>13 DEF ExpandPartly, StillRunning, tail
<1>14. ASSUME Join PROVE RecordInv'
  BY <1>c, <1>14 DEF Join, tail
<1>15. ASSUME NEW i \in Items, SkipDuplicate(i) PROVE RecordInv'
  BY <1>c, <1>15 DEF SkipDuplicate, StillPlacing, tail
<1>16. ASSUME NEW i \in Items, Move(i) PROVE RecordInv'
  BY <1>c, <1>16 DEF Move, StillPlacing, tail
<1>17. ASSUME NEW i \in Items, MoveFails(i) PROVE RecordInv'
  BY <1>c, <1>17 DEF MoveFails, StillPlacing, tail
<1>18. ASSUME Commit PROVE RecordInv'
  BY <1>c, <1>18 DEF Commit, StillPlacing, tail
<1>19. ASSUME CommitFails PROVE RecordInv'
  BY <1>c, <1>19 DEF CommitFails, StillPlacing, tail
<1>20. ASSUME Report PROVE RecordInv'
  <2>1. Front = {}
    BY <1>20, FrontEmpty DEF Report
  <2>2. \A r \in Complete \ unplaced : \A i \in Leaves(r) : copies[Content[i]] > 0
    BY <2>1, <1>20, CompleteIsPlaced DEF Report
  <2>3. toRecord' \subseteq Complete \cup AppleDouble
    BY <1>20 DEF Report, PhaseInv
  <2> QED
    BY <2>2, <2>3, <1>20 DEF Report, RecordInv, Leaves, disk, history
<1>21. ASSUME NEW r \in Roots, Checkpoint(r) PROVE RecordInv'
  BY <1>c, <1>21 DEF Checkpoint, tail
<1>22. ASSUME Upload PROVE RecordInv'
  BY <1>c, <1>22 DEF Upload, RunOver, tail
<1>23. ASSUME UploadFails PROVE RecordInv'
  BY <1>c, <1>23 DEF UploadFails, RunOver, tail
<1>24. ASSUME RunFails PROVE RecordInv'
  BY <1>c, <1>24 DEF RunFails, RunOver, tail
<1>25. ASSUME Crash PROVE RecordInv'
  BY <1>c, <1>25 DEF Crash, RunOver, tail
<1>90. CASE UNCHANGED vars
  BY <1>c, <1>90 DEF vars, tail
<1> QED
  BY <1>1, <1>2, <1>3, <1>4, <1>5, <1>6, <1>7, <1>8, <1>9, <1>10, <1>11, <1>12, <1>13, <1>14,
      <1>15, <1>16, <1>17, <1>18, <1>19, <1>20, <1>21, <1>22, <1>23, <1>24, <1>25, <1>90 DEF
      Next, Work, Place, Failure

\* Every step keeps what is recorded placed.
LEMMA CheckpointedStep ==
  TypeOK /\ RecordInv /\ CheckpointedIsPlaced /\ [Next]_vars => CheckpointedIsPlaced'
<1> SUFFICES ASSUME TypeOK, RecordInv, CheckpointedIsPlaced, [Next]_vars PROVE CheckpointedIsPlaced'
  OBVIOUS
<1>0. \A i \in Items : Content[i] \in Contents
  BY Constants
<1>a. \A c \in Contents : copies[c] > 0 => copies'[c] > 0
  BY CopiesStay
<1>b. unplaced \subseteq unplaced'
  BY CopiesStay
<1>c. ASSUME processed' \subseteq processed \cup toRecord PROVE CheckpointedIsPlaced'
  BY <1>0, <1>a, <1>b, <1>c DEF CheckpointedIsPlaced, RecordInv, Leaves
<1>1. ASSUME Start PROVE CheckpointedIsPlaced'
  BY <1>c, <1>1 DEF Start, disk
<1>2. ASSUME UploadOnly PROVE CheckpointedIsPlaced'
  BY <1>c, <1>2 DEF UploadOnly, disk
<1>3. ASSUME NEW w \in Workers, Pop(w) PROVE CheckpointedIsPlaced'
  BY <1>c, <1>3 DEF Pop, StillRunning, disk
<1>4. ASSUME NEW w \in Workers, SeeEmpty(w) PROVE CheckpointedIsPlaced'
  BY <1>c, <1>4 DEF SeeEmpty, StillRunning, disk
<1>5. ASSUME NEW w \in Workers, LookAtCounter(w) PROVE CheckpointedIsPlaced'
  BY <1>c, <1>5 DEF LookAtCounter, StillRunning, disk
<1>6. ASSUME NEW w \in Workers, CountIn(w) PROVE CheckpointedIsPlaced'
  BY <1>c, <1>6 DEF CountIn, StillRunning, disk
<1>7. ASSUME NEW w \in Workers, SkipAppleDouble(w) PROVE CheckpointedIsPlaced'
  BY <1>c, <1>7 DEF SkipAppleDouble, StillRunning, disk
<1>8. ASSUME NEW w \in Workers, RefuseDepth(w) PROVE CheckpointedIsPlaced'
  BY <1>c, <1>8 DEF RefuseDepth, StillRunning, disk
<1>9. ASSUME NEW w \in Workers, Expand(w) PROVE CheckpointedIsPlaced'
  BY <1>c, <1>9 DEF Expand, StillRunning, disk
<1>10. ASSUME NEW w \in Workers, Hash(w) PROVE CheckpointedIsPlaced'
  BY <1>c, <1>10 DEF Hash, StillRunning, disk
<1>11. ASSUME NEW w \in Workers, CountOut(w) PROVE CheckpointedIsPlaced'
  BY <1>c, <1>11 DEF CountOut, StillRunning, disk
<1>12. ASSUME NEW w \in Workers, ProcessFails(w) PROVE CheckpointedIsPlaced'
  BY <1>c, <1>12 DEF ProcessFails, StillRunning, disk
<1>13. ASSUME NEW w \in Workers, ExpandPartly(w) PROVE CheckpointedIsPlaced'
  BY <1>c, <1>13 DEF ExpandPartly, StillRunning, disk
<1>14. ASSUME Join PROVE CheckpointedIsPlaced'
  BY <1>c, <1>14 DEF Join, disk
<1>15. ASSUME NEW i \in Items, SkipDuplicate(i) PROVE CheckpointedIsPlaced'
  BY <1>c, <1>15 DEF SkipDuplicate, StillPlacing, disk
<1>16. ASSUME NEW i \in Items, Move(i) PROVE CheckpointedIsPlaced'
  BY <1>c, <1>16 DEF Move, StillPlacing, disk
<1>17. ASSUME NEW i \in Items, MoveFails(i) PROVE CheckpointedIsPlaced'
  BY <1>c, <1>17 DEF MoveFails, StillPlacing, disk
<1>18. ASSUME Commit PROVE CheckpointedIsPlaced'
  BY <1>c, <1>18 DEF Commit, StillPlacing, disk
<1>19. ASSUME CommitFails PROVE CheckpointedIsPlaced'
  BY <1>c, <1>19 DEF CommitFails, StillPlacing, disk
<1>20. ASSUME Report PROVE CheckpointedIsPlaced'
  BY <1>c, <1>20 DEF Report, disk
<1>21. ASSUME NEW r \in Roots, Checkpoint(r) PROVE CheckpointedIsPlaced'
  BY <1>c, <1>21 DEF Checkpoint, disk
<1>22. ASSUME Upload PROVE CheckpointedIsPlaced'
  BY <1>c, <1>22 DEF Upload, disk
<1>23. ASSUME UploadFails PROVE CheckpointedIsPlaced'
  BY <1>c, <1>23 DEF UploadFails, disk
<1>24. ASSUME RunFails PROVE CheckpointedIsPlaced'
  BY <1>c, <1>24 DEF RunFails, disk
<1>25. ASSUME Crash PROVE CheckpointedIsPlaced'
  BY <1>c, <1>25 DEF Crash, disk
<1>90. CASE UNCHANGED vars
  BY <1>c, <1>90 DEF vars, disk
<1> QED
  BY <1>1, <1>2, <1>3, <1>4, <1>5, <1>6, <1>7, <1>8, <1>9, <1>10, <1>11, <1>12, <1>13, <1>14,
      <1>15, <1>16, <1>17, <1>18, <1>19, <1>20, <1>21, <1>22, <1>23, <1>24, <1>25, <1>90 DEF
      Next, Work, Place, Failure

\* A report without a failure before it leaves no object out.
LEMMA ReportedWhole ==
  ASSUME TypeOK, PhaseInv, PoolInv, RootsInv, FailedInv, ~failed, Report
  PROVE  Roots \subseteq processed \cup Complete \cup skipped
<1>0. PICK O \in SUBSET Zips : Covers(O)
  BY DEF PoolInv
<1>1. phase = "placing" /\ files = {} /\ tainted = {}
  BY DEF Report, FailedInv
<1>2. Roots \subseteq processed \cup finished \cup skipped
  BY <1>1, FrontEmpty DEF RootsInv
<1>3. finished \subseteq placed \cup Zips
  BY <1>0, <1>1 DEF Covers, FailedInv
<1> QED
  BY <1>1, <1>2, <1>3 DEF Complete

\* Every step keeps a run without a failure whole.
LEMMA FailedStep ==
  TypeOK /\ PhaseInv /\ PoolInv /\ RootsInv /\ FailedInv /\ [Next]_vars => FailedInv'
<1> SUFFICES ASSUME TypeOK, PhaseInv, PoolInv, RootsInv, FailedInv, [Next]_vars PROVE FailedInv'
  OBVIOUS
<1>c. ASSUME failed' = failed, phase' = phase,
             UNCHANGED <<tainted, hashed, files, placed, processed, toRecord>> PROVE FailedInv'
  BY <1>c DEF FailedInv
<1>d. ASSUME tainted' = tainted, failed' = failed, phase' = phase, phase = "working" PROVE FailedInv'
  BY <1>d DEF FailedInv
<1>1. ASSUME Start PROVE FailedInv'
  BY <1>1 DEF Start, FailedInv, PhaseInv
<1>2. ASSUME UploadOnly PROVE FailedInv'
  BY <1>c, <1>2 DEF UploadOnly, pool, tail
<1>3. ASSUME NEW w \in Workers, Pop(w) PROVE FailedInv'
  <2>1. phase = "working"
    BY <1>3 DEF Pop, PhaseInv
  <2> QED
    BY <1>d, <2>1, <1>3 DEF Pop, StillRunning
<1>4. ASSUME NEW w \in Workers, SeeEmpty(w) PROVE FailedInv'
  <2>1. phase = "working"
    BY <1>4 DEF SeeEmpty, PhaseInv
  <2> QED
    BY <1>d, <2>1, <1>4 DEF SeeEmpty, StillRunning
<1>5. ASSUME NEW w \in Workers, LookAtCounter(w) PROVE FailedInv'
  <2>1. phase = "working"
    BY <1>5 DEF LookAtCounter, PhaseInv
  <2> QED
    BY <1>d, <2>1, <1>5 DEF LookAtCounter, StillRunning
<1>6. ASSUME NEW w \in Workers, CountIn(w) PROVE FailedInv'
  <2>1. phase = "working"
    BY <1>6 DEF CountIn, PhaseInv
  <2> QED
    BY <1>d, <2>1, <1>6 DEF CountIn, StillRunning
<1>7. ASSUME NEW w \in Workers, SkipAppleDouble(w) PROVE FailedInv'
  <2>1. phase = "working"
    BY <1>7 DEF SkipAppleDouble, PhaseInv, Settling
  <2> QED
    BY <1>d, <2>1, <1>7 DEF SkipAppleDouble, StillRunning
<1>8. ASSUME NEW w \in Workers, RefuseDepth(w) PROVE FailedInv'
  BY <1>8 DEF RefuseDepth, FailedInv, Taint
<1>9. ASSUME NEW w \in Workers, Expand(w) PROVE FailedInv'
  <2>1. phase = "working"
    BY <1>9 DEF Expand, PhaseInv, Settling
  <2> QED
    BY <1>d, <2>1, <1>9 DEF Expand, StillRunning
<1>10. ASSUME NEW w \in Workers, Hash(w) PROVE FailedInv'
  <2>1. phase = "working"
    BY <1>10 DEF Hash, PhaseInv, Settling
  <2> QED
    BY <1>d, <2>1, <1>10 DEF Hash, StillRunning
<1>11. ASSUME NEW w \in Workers, CountOut(w) PROVE FailedInv'
  <2>1. phase = "working"
    BY <1>11 DEF CountOut, PhaseInv
  <2> QED
    BY <1>d, <2>1, <1>11 DEF CountOut, StillRunning
<1>12. ASSUME NEW w \in Workers, ProcessFails(w) PROVE FailedInv'
  BY <1>12 DEF ProcessFails, FailedInv, Taint
<1>13. ASSUME NEW w \in Workers, ExpandPartly(w) PROVE FailedInv'
  BY <1>13 DEF ExpandPartly, FailedInv, Taint
<1>14. ASSUME Join PROVE FailedInv'
  BY <1>14 DEF Join, FailedInv, pool, disk
<1>15. ASSUME NEW i \in Items, SkipDuplicate(i) PROVE FailedInv'
  BY <1>15 DEF SkipDuplicate, Turn, StillPlacing, FailedInv, pool, disk
<1>16. ASSUME NEW i \in Items, Move(i) PROVE FailedInv'
  BY <1>c, <1>16 DEF Move, StillPlacing, pool
<1>17. ASSUME NEW i \in Items, MoveFails(i) PROVE FailedInv'
  BY <1>17 DEF MoveFails, FailedInv
<1>18. ASSUME Commit PROVE FailedInv'
  BY <1>18 DEF Commit, StillPlacing, FailedInv, pool, disk, PhaseInv
<1>19. ASSUME CommitFails PROVE FailedInv'
  BY <1>19 DEF CommitFails, FailedInv
<1>20. ASSUME Report PROVE FailedInv'
  <2>1. ~failed => Roots \subseteq processed \cup Complete \cup skipped
    BY <1>20, ReportedWhole
  <2> QED
    BY <2>1, <1>20 DEF Report, FailedInv, disk, pool
<1>21. ASSUME NEW r \in Roots, Checkpoint(r) PROVE FailedInv'
  BY <1>21 DEF Checkpoint, FailedInv, pool, disk
<1>22. ASSUME Upload PROVE FailedInv'
  BY <1>22 DEF Upload, RunOver, FailedInv
<1>23. ASSUME UploadFails PROVE FailedInv'
  BY <1>23 DEF UploadFails, RunOver, FailedInv
<1>24. ASSUME RunFails PROVE FailedInv'
  BY <1>24 DEF RunFails, RunOver, FailedInv
<1>25. ASSUME Crash PROVE FailedInv'
  BY <1>25 DEF Crash, RunOver, FailedInv
<1>90. CASE UNCHANGED vars
  BY <1>c, <1>90 DEF vars, disk, pool, tail
<1> QED
  BY <1>1, <1>2, <1>3, <1>4, <1>5, <1>6, <1>7, <1>8, <1>9, <1>10, <1>11, <1>12, <1>13, <1>14,
      <1>15, <1>16, <1>17, <1>18, <1>19, <1>20, <1>21, <1>22, <1>23, <1>24, <1>25, <1>90 DEF
      Next, Work, Place, Failure

\* Every step keeps the verdict true.
LEMMA VerdictStep ==
  TypeOK /\ PhaseInv /\ FailedInv /\ VerdictInv /\ [Next]_vars => VerdictInv'
<1> SUFFICES ASSUME TypeOK, PhaseInv, FailedInv, VerdictInv, [Next]_vars PROVE VerdictInv'
  OBVIOUS
<1>c. ASSUME verdict' = verdict, phase # "off" PROVE VerdictInv'
  BY <1>c DEF VerdictInv
<1>d. ASSUME verdict' # "success" PROVE VerdictInv'
  BY <1>d DEF VerdictInv
<1>1. ASSUME Start PROVE VerdictInv'
  BY <1>d, <1>1 DEF Start
<1>2. ASSUME UploadOnly PROVE VerdictInv'
  <2>1. uploaded \in [Contents -> Nat] /\ copies \in [Contents -> Nat] /\ MaxFaults \in Nat
    BY Ranges, Constants
  <2>2. ASSUME uploaded = copies PROVE uploaded' = copies
    <3>1. CASE uploaded' = copies
      BY <3>1
    <3>2. CASE PartlyUploaded
      <4>1. uploaded' \in [Contents -> 0..(MaxFaults + 1)]
        BY <3>2 DEF PartlyUploaded
      <4>2. \A c \in Contents : copies[c] <= uploaded'[c] /\ uploaded'[c] <= copies[c]
        BY <2>2, <3>2 DEF PartlyUploaded
      <4>3. \A c \in Contents : uploaded'[c] = copies[c]
        BY <2>1, <4>1, <4>2
      <4> QED
        BY <2>1, <4>1, <4>3
    <3> QED
      BY <3>1, <3>2, <1>2 DEF UploadOnly
  <2> QED
    BY <2>2, <1>2 DEF UploadOnly, VerdictInv
<1>3. ASSUME NEW w \in Workers, Pop(w) PROVE VerdictInv'
  <2>1. phase = "working"
    BY <1>3 DEF Pop, PhaseInv
  <2> QED
    BY <1>c, <2>1, <1>3 DEF Pop, StillRunning
<1>4. ASSUME NEW w \in Workers, SeeEmpty(w) PROVE VerdictInv'
  <2>1. phase = "working"
    BY <1>4 DEF SeeEmpty, PhaseInv
  <2> QED
    BY <1>c, <2>1, <1>4 DEF SeeEmpty, StillRunning
<1>5. ASSUME NEW w \in Workers, LookAtCounter(w) PROVE VerdictInv'
  <2>1. phase = "working"
    BY <1>5 DEF LookAtCounter, PhaseInv
  <2> QED
    BY <1>c, <2>1, <1>5 DEF LookAtCounter, StillRunning
<1>6. ASSUME NEW w \in Workers, CountIn(w) PROVE VerdictInv'
  <2>1. phase = "working"
    BY <1>6 DEF CountIn, PhaseInv
  <2> QED
    BY <1>c, <2>1, <1>6 DEF CountIn, StillRunning
<1>7. ASSUME NEW w \in Workers, SkipAppleDouble(w) PROVE VerdictInv'
  <2>1. phase = "working"
    BY <1>7 DEF SkipAppleDouble, PhaseInv, Settling
  <2> QED
    BY <1>c, <2>1, <1>7 DEF SkipAppleDouble, StillRunning
<1>8. ASSUME NEW w \in Workers, RefuseDepth(w) PROVE VerdictInv'
  <2>1. phase = "working"
    BY <1>8 DEF RefuseDepth, PhaseInv, Settling
  <2> QED
    BY <1>c, <2>1, <1>8 DEF RefuseDepth, StillRunning
<1>9. ASSUME NEW w \in Workers, Expand(w) PROVE VerdictInv'
  <2>1. phase = "working"
    BY <1>9 DEF Expand, PhaseInv, Settling
  <2> QED
    BY <1>c, <2>1, <1>9 DEF Expand, StillRunning
<1>10. ASSUME NEW w \in Workers, Hash(w) PROVE VerdictInv'
  <2>1. phase = "working"
    BY <1>10 DEF Hash, PhaseInv, Settling
  <2> QED
    BY <1>c, <2>1, <1>10 DEF Hash, StillRunning
<1>11. ASSUME NEW w \in Workers, CountOut(w) PROVE VerdictInv'
  <2>1. phase = "working"
    BY <1>11 DEF CountOut, PhaseInv
  <2> QED
    BY <1>c, <2>1, <1>11 DEF CountOut, StillRunning
<1>12. ASSUME NEW w \in Workers, ProcessFails(w) PROVE VerdictInv'
  <2>1. phase = "working"
    BY <1>12 DEF ProcessFails, PhaseInv, Settling
  <2> QED
    BY <1>c, <2>1, <1>12 DEF ProcessFails, StillRunning
<1>13. ASSUME NEW w \in Workers, ExpandPartly(w) PROVE VerdictInv'
  <2>1. phase = "working"
    BY <1>13 DEF ExpandPartly, PhaseInv, Settling
  <2> QED
    BY <1>c, <2>1, <1>13 DEF ExpandPartly, StillRunning
<1>14. ASSUME Join PROVE VerdictInv'
  BY <1>c, <1>14 DEF Join
<1>15. ASSUME NEW i \in Items, SkipDuplicate(i) PROVE VerdictInv'
  BY <1>c, <1>15 DEF SkipDuplicate, Turn, StillPlacing
<1>16. ASSUME NEW i \in Items, Move(i) PROVE VerdictInv'
  BY <1>c, <1>16 DEF Move, Turn, StillPlacing
<1>17. ASSUME NEW i \in Items, MoveFails(i) PROVE VerdictInv'
  BY <1>c, <1>17 DEF MoveFails, Turn, StillPlacing
<1>18. ASSUME Commit PROVE VerdictInv'
  BY <1>c, <1>18 DEF Commit, StillPlacing, PhaseInv
<1>19. ASSUME CommitFails PROVE VerdictInv'
  BY <1>c, <1>19 DEF CommitFails, StillPlacing, PhaseInv
<1>20. ASSUME Report PROVE VerdictInv'
  BY <1>c, <1>20 DEF Report
<1>21. ASSUME NEW r \in Roots, Checkpoint(r) PROVE VerdictInv'
  BY <1>c, <1>21 DEF Checkpoint
<1>22. ASSUME Upload PROVE VerdictInv'
  BY <1>d, <1>22, Ranges DEF Upload, Recorded, RunOver, VerdictInv, FailedInv
<1>23. ASSUME UploadFails PROVE VerdictInv'
  BY <1>d, <1>23 DEF UploadFails
<1>24. ASSUME RunFails PROVE VerdictInv'
  BY <1>d, <1>24 DEF RunFails
<1>25. ASSUME Crash PROVE VerdictInv'
  BY <1>d, <1>25 DEF Crash
<1>90. CASE UNCHANGED vars
  BY <1>90 DEF vars, disk, VerdictInv
<1> QED
  BY <1>1, <1>2, <1>3, <1>4, <1>5, <1>6, <1>7, <1>8, <1>9, <1>10, <1>11, <1>12, <1>13, <1>14,
      <1>15, <1>16, <1>17, <1>18, <1>19, <1>20, <1>21, <1>22, <1>23, <1>24, <1>25, <1>90 DEF
      Next, Work, Place, Failure

-----------------------------------------------------------------------------
(* The theorems. *)

\* Nothing has run.
LEMMA InitDedup == Init => DedupInv
<1> SUFFICES ASSUME Init PROVE DedupInv
  OBVIOUS
<1>1. TypeOK
  <2>1. {w \in Workers : pc[w] \in {"busy", "settled"}} = {}
    BY DEF Init
  <2> QED
    <3>1. inFlight = Cardinality({w \in Workers : pc[w] \in {"busy", "settled"}})
      BY <2>1, CountedFinite DEF Init
    <3>2. RunTypes
      BY DEF Init, RunTypes, Phases
    <3>3. /\ copies \in [Contents -> Nat] /\ uploaded \in [Contents -> Nat]
          /\ index \in [Contents -> Items \cup {None}] /\ torn \in [Contents -> Nat]
          /\ processed \subseteq Roots /\ unplaced \subseteq Roots
      BY DEF Init
    <3>4. verdict \in {"none", "success", "failure"} /\ faults \in 0..MaxFaults
      BY Constants DEF Init
    <3> QED
      BY <3>1, <3>2, <3>3, <3>4 DEF RunTypes, TypeOK
<1>2. PhaseInv /\ PlaceInv /\ IndexInv /\ RecordInv /\ CheckpointedIsPlaced
  BY Constants DEF Init, PhaseInv, PlaceInv, IndexInv, RecordInv, CheckpointedIsPlaced
<1>3. PoolInv
  <2>1. Covers({})
    BY DEF Init, Covers
  <2> QED
    BY <2>1 DEF PoolInv
<1>4. SuccessInv
  BY DEF Init, SuccessInv, RootsInv, FailedInv, VerdictInv
<1> QED
  BY <1>1, <1>2, <1>3, <1>4 DEF DedupInv, PlacedInv

\* The invariant, for any constants.
LEMMA DedupInvariant == Spec => []DedupInv
<1>1. DedupInv /\ [Next]_vars => DedupInv'
  BY TypeStep, PhaseStep, PoolStep, PlaceStep, IndexStep, RecordStep, CheckpointedStep,
     RootsStep, FailedStep, VerdictStep DEF DedupInv, PlacedInv, SuccessInv
<1> QED
  BY InitDedup, <1>1, PTL DEF Spec

\* The variables have their types; in particular the pool's counter is the number
\* of the workers between fetch_add and fetch_sub.
THEOREM TypeCorrect == Spec => []TypeOK
BY DedupInvariant, PTL DEF DedupInv

\* Everything in a checkpointed object, at any depth of any zips, is in result/,
\* or a failed move of a member has left its trace.
THEOREM CheckpointsAreTrue == Spec => []CheckpointedIsPlaced
BY DedupInvariant, PTL DEF DedupInv, PlacedInv

\* A content has no more copies than moves were torn from the index, and one.
THEOREM CopiesAreAccounted == Spec => []CopiesAreAccountedFor
<1>1. DedupInv => CopiesAreAccountedFor
  <2> SUFFICES ASSUME TypeOK, IndexInv PROVE CopiesAreAccountedFor
    BY DEF DedupInv, PlacedInv
  <2>1. copies \in [Contents -> Nat] /\ torn \in [Contents -> Nat]
    BY Ranges
  <2> QED
    BY <2>1 DEF IndexInv, CopiesAreAccountedFor
<1> QED
  BY DedupInvariant, <1>1, PTL

\* A run that exits with 0 has every object checkpointed and all of result/ at
\* the destination.
THEOREM SuccessIsTrue == Spec => []SuccessIsComplete
<1>1. DedupInv => SuccessIsComplete
  BY DEF DedupInv, SuccessInv, VerdictInv, SuccessIsComplete
<1> QED
  BY DedupInvariant, <1>1, PTL

=============================================================================
