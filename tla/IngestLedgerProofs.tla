-------------------------- MODULE IngestLedgerProofs --------------------------
(***************************************************************************)
(* Proofs about IngestLedger for any number of messages, generations and     *)
(* failures, with scans beside the imports, runs of the two modes in any order  *)
(* and a server that omits bodies.  One thing needs runs of one mode: that a     *)
(* --legacy run passes over nothing; ingest_legacy_marker shows what mixing      *)
(* costs there.                                                              *)
(*                                                                         *)
(* The argument.  Generations only grow.  A run that has listed the current     *)
(* one fetches, from then to the record, the message the current one has under  *)
(* a UID, unless the message is gone for good or its body was omitted.  A run   *)
(* that has listed an earlier one records nothing of the current one; should a  *)
(* scan seed what it pushes meanwhile, it does not push that again.             *)
(***************************************************************************)
EXTENDS IngestLedger, TLAPS

OneMode == ~MayMix

Scans ==
  {"off", "here", "elsewhere", "reads here", "reads", "finds none here", "finds none",
   "seeded here", "seeded"}

\* TypeOK, with what makes it inductive: a run and a scan have listed a generation.
ScanType ==
  /\ scan \in [at : Scans, gen : 0..MaxGen, rows : SUBSET Rows]
  /\ scan.at # "off" => scan.gen \in Gens

TypeInv ==
  /\ TypeOK
  /\ phase # "off" => runGen \in Gens
  /\ ScanType

-----------------------------------------------------------------------------
(* The parts of the invariants. *)

Running == phase # "off"

\* Nothing is of a generation that has not been, and what is of the current one
\* is of a message the current one has had.
GenInv ==
  /\ runGen <= gen /\ scan.gen <= gen
  /\ \A u \in UIDs :
       /\ eml[u] <= gen /\ rest[u] <= gen /\ scratch[u] <= gen
       /\ eml[u] = gen \/ scratch[u] = gen => u \in used
       /\ stage[u] # "none" /\ runGen = gen => u \in used

\* A run that listed an earlier generation has pushed what is of this one.
StaleInv ==
  Running /\ runGen < gen =>
    \A u \in UIDs :
      /\ eml[u] = gen => stage[u] \in {"half", "pushed", "lined", "noted", "done"}
      /\ rest[u] = gen => stage[u] \in {"pushed", "lined", "noted", "done"}

\* In the order of its stages a message is fetched, pushed in two parts, and
\* recorded; and it is the message of the current generation, unless the run
\* listed another, the message is gone, or its body was omitted.
StageInv ==
  \A u \in UIDs :
    /\ phase \notin {"delivering", "draining"} => stage[u] \in {"none", "skipped", "pending"}
    /\ stage[u] \in {"half", "pushed", "lined", "noted"} => eml[u] = scratch[u] /\ eml[u] # 0
    /\ stage[u] \in {"pushed", "lined", "noted"} => rest[u] = scratch[u]
    /\ stage[u] \in {"fetched", "half", "pushed", "lined", "noted"} /\ runGen = gen /\ u \in present
         => scratch[u] \in {0, gen} \/ <<gen, u>> \in doubtful

\* Each kind of run gathers its plan in its own way.
GatherInv ==
  /\ phase = "seeding" => mode = "ledger"
  /\ phase = "cleared" => mode = "legacy"

\* The checkpoint of --legacy is of the generation its marker names, when all runs
\* are of that mode.
MarkerInv ==
  mode = "legacy" =>
    /\ \A g \in Gens, u \in UIDs : <<g, u>> \in Readable => g = marker
    /\ phase = "cleared" => Readable = {} \/ marker = runGen
    /\ phase \in {"delivering", "draining"} => marker = runGen

\* The rows of the record and of a scan.
Known == Recorded \cup scan.rows

\* No row is of a generation to come, and one of the current generation is of a
\* message that is delivered, or of which an .eml was taken for that, or is gone.
RowIsTrue(g, u) ==
  /\ g <= gen
  /\ g = gen => TakenForDelivered(u) \/ (u \in used /\ (u \in present => Delivered(u)))

RowInv == \A g \in Gens, u \in UIDs : <<g, u>> \in Known => RowIsTrue(g, u)

\* A --legacy run looks at no generations: it needs runs of one mode.
SkipInv == mode = "ledger" \/ OneMode => SkippedIsDelivered

DeliveryInv ==
  /\ GenInv /\ StaleInv /\ StageInv /\ GatherInv
  /\ OneMode => MarkerInv
  /\ RowInv
  /\ SkipInv

\* What a run has still to deliver is not in its record, but for what a scan has
\* put into the working copy.
Ahead == {"pending", "fetched", "half", "pushed"}

PlanInv ==
  \A u \in UIDs :
    /\ mode = "ledger" /\ phase \in {"seeding", "delivering", "draining"}
         /\ stage[u] \in Ahead \cup {"lined", "noted"}
       => Row(u) \notin working \ scanned /\ Row(u) \notin inLedger
    /\ mode = "legacy" /\ phase \in {"delivering", "draining"} /\ stage[u] \in Ahead
       => Row(u) \notin Readable

\* Of the ledger: what imports got into it is found again there, in the working copy
\* of a run that has read it, and in that run's uploads.
LedgerInv ==
  /\ inLedger \subseteq UNION ledger
  /\ mode = "ledger" /\ phase \in {"seeding", "delivering", "draining"} => inLedger \subseteq working
  /\ \A rows \in upload : inLedger \subseteq rows

\* Only a ledger run uploads, while it delivers.
UploadInv == upload # {} => mode = "ledger" /\ phase = "delivering"

\* Of the checkpoint: it has the rows --legacy wrote of the generation its marker
\* names, and no row is of a generation that was not listed yet.
LegacyRuns == Running /\ mode = "legacy"
LastGen == IF LegacyRuns THEN runGen ELSE gen

LineInv ==
  /\ \A g \in Gens, u \in UIDs : <<g, u>> \in Readable => g <= gen /\ (Running => g <= runGen)
  /\ LegacyRuns /\ phase \in {"delivering", "draining"} => marker = runGen

CheckpointInv ==
  \A g \in Gens, u \in UIDs : <<g, u>> \in inCheckpoint =>
    /\ g <= LastGen
    /\ g = LastGen => marker = g /\ <<g, u>> \in pushed

MemoryInv ==
  /\ GenInv /\ GatherInv /\ UploadInv /\ LineInv
  /\ PlanInv /\ LedgerInv /\ CheckpointInv

-----------------------------------------------------------------------------
(* Types. *)

\* A row of a generation and a message.
LEMMA RowIsRow == \A g \in Gens, u \in UIDs : <<g, u>> \in Rows
BY DEF Rows

\* Initially the variables have their types, and nothing runs.
LEMMA InitType == Init => TypeInv
<1> SUFFICES ASSUME Init PROVE TypeInv
  OBVIOUS
<1>1. 1 \in Gens /\ MaxGen \in Nat
  BY LedgerAssumption DEF Gens
<1>2. TypeOK
  BY <1>1, LedgerAssumption DEF Init, TypeOK, NoScan, Phases, Stages
<1> QED
  BY <1>1, <1>2 DEF Init, TypeInv, ScanType, NoScan, Scans

\* What is in one of several copies of the record.
LEMMA InCopies ==
  ASSUME NEW A, NEW B, NEW C, NEW D, NEW E, NEW F, NEW G, NEW r
  PROVE  r \in (UNION (A \cup B \cup C)) \cup D \cup (E \cup UNION F) \cup G <=>
           \/ (\E s \in A : r \in s) \/ (\E s \in B : r \in s) \/ (\E s \in C : r \in s)
           \/ r \in D \/ r \in E \/ (\E s \in F : r \in s) \/ r \in G
<1> DEFINE U == UNION (A \cup B \cup C)
           V == UNION F
<1>1. r \in U <=> (\E s \in A : r \in s) \/ (\E s \in B : r \in s) \/ (\E s \in C : r \in s)
  BY Zenon
<1>2. r \in V <=> (\E s \in F : r \in s)
  BY Zenon
<1> HIDE DEF U, V
<1>3. r \in U \cup D \cup (E \cup V) \cup G <=> r \in U \/ r \in D \/ r \in E \/ r \in V \/ r \in G
  OBVIOUS
<1> QED
  BY <1>1, <1>2, <1>3 DEF U, V

\* No scan is a scan.
LEMMA NoScanType == NoScan \in [at : Scans, gen : 0..MaxGen, rows : SUBSET Rows]
BY LedgerAssumption DEF NoScan, Scans

\* What is seeded under a generation are rows of it.
LEMMA SeedsAreRows ==
  ASSUME NEW g \in Gens
  PROVE  Seeds(g) \subseteq Rows /\ DoubtfulSeeds(g) \subseteq Rows
BY RowIsRow DEF Seeds, DoubtfulSeeds

\* Every step keeps the types.
LEMMA StepType == TypeInv /\ [Next]_vars => TypeInv'
<1> SUFFICES ASSUME TypeInv, [Next]_vars PROVE TypeInv'
  OBVIOUS
<1>0. scan.at \in Scans /\ scan.gen \in 0..MaxGen /\ scan.rows \subseteq Rows
  BY DEF TypeInv, ScanType
<1> USE LedgerAssumption DEF TypeInv, TypeOK, Phases, Stages
<1>1. ASSUME NEW m \in Modes, NEW fresh \in BOOLEAN, StartRun(m, fresh)
      PROVE  TypeInv'
  BY <1>1, RowIsRow DEF StartRun, server, destination, bucket, disk, Gens, ScanType
<1>2. CASE LoadLedger
  BY <1>2, RowIsRow DEF LoadLedger, Ingested, Plan, server, destination, bucket, disk,
       history, Row, Gens, ScanType
<1>3. CASE Seed
  <2>1. runGen \in Gens
    BY <1>3 DEF Seed
  <2>2. Seeds(runGen) \subseteq Rows /\ DoubtfulSeeds(runGen) \subseteq Rows
    BY <2>1, SeedsAreRows
  <2> QED
    BY <1>3, <2>1, <2>2 DEF Seed, Ingested, Plan, server, destination, bucket, disk, Gens, ScanType
<1>4. CASE UploadSeed
  BY <1>4, RowIsRow DEF UploadSeed, server, destination, disk, Gens, ScanType
<1>5. CASE ClearStale
  BY <1>5, RowIsRow DEF ClearStale, server, destination, bucket, history, Gens,
       ScanType
<1>6. CASE WriteMarker
  BY <1>6, RowIsRow DEF WriteMarker, DoneUids, Plan, server, destination, bucket,
       history, Gens, ScanType
<1>7. ASSUME NEW u \in UIDs, Fetch(u) PROVE TypeInv'
  BY <1>7, RowIsRow DEF Fetch, At, Goto, StillRunning, Delivering, server,
       destination, bucket, history, Gens, ScanType
<1>8. ASSUME NEW u \in UIDs, MissingFile(u) PROVE TypeInv'
  BY <1>8, RowIsRow DEF MissingFile, At, Goto, StillRunning, Delivering, server,
       destination, bucket, disk, history, Gens, ScanType
<1>9. ASSUME NEW u \in UIDs, PushEml(u) PROVE TypeInv'
  BY <1>9, RowIsRow DEF PushEml, At, Goto, StillRunning, Delivering, server, bucket,
       disk, history, Gens, ScanType
<1>10. ASSUME NEW u \in UIDs, PushRest(u) PROVE TypeInv'
  BY <1>10, RowIsRow DEF PushRest, At, Goto, StillRunning, Delivering, server, bucket,
       disk, history, Gens, ScanType
<1>11. ASSUME NEW u \in UIDs, WriteRow(u) PROVE TypeInv'
  BY <1>11, RowIsRow DEF WriteRow, Fault, Row, At, Goto, StillRunning, Delivering,
       server, destination, bucket, history, Gens, ScanType
<1>12. ASSUME NEW u \in UIDs, EndRow(u) PROVE TypeInv'
  BY <1>12, RowIsRow DEF EndRow, Fault, Readable, At, Goto, StillRunning, Delivering,
       server, destination, bucket, Gens, ScanType
<1>13. ASSUME NEW u \in UIDs, Record(u) PROVE TypeInv'
  BY <1>13, RowIsRow DEF Record, Fault, Row, At, Goto, RemoveLocal, Delivering,
       server, destination, bucket, history, Gens, ScanType
<1>14. CASE Drain
  BY <1>14, RowIsRow DEF Drain, Delivering, Abandoned, server, destination, disk,
       history, Gens, ScanType
<1>15. CASE FinalFlush
  BY <1>15, RowIsRow DEF FinalFlush, RunOver, server, destination, disk, Gens,
       ScanType
<1>16. CASE FlushBegins
  BY <1>16, RowIsRow DEF FlushBegins, Delivering, server, destination, bucket, disk,
       history, Gens, ScanType
<1>17. CASE FlushLands
  BY <1>17, RowIsRow DEF FlushLands, server, destination, disk, Gens, ScanType
<1>18. CASE GatherFails
  BY <1>18, RowIsRow DEF GatherFails, Fault, RunOver, server, destination, bucket,
       disk, history, Gens, ScanType
<1>19. ASSUME NEW u \in UIDs, FetchFails(u) PROVE TypeInv'
  BY <1>19, RowIsRow DEF FetchFails, Fault, At, Goto, StillRunning, Delivering,
       server, destination, bucket, history, Gens, ScanType
<1>20. ASSUME NEW u \in UIDs, BodyOmitted(u) PROVE TypeInv'
  BY <1>20, RowIsRow DEF BodyOmitted, Fault, Row, At, Goto, StillRunning, Delivering,
       server, destination, bucket, disk, Gens, ScanType
<1>21. ASSUME NEW u \in UIDs, GiveUp(u) PROVE TypeInv'
  BY <1>21, RowIsRow DEF GiveUp, Fault, Delivering, Goto, StillRunning, RemoveLocal,
       server, destination, bucket, history, Gens, ScanType
<1>22. CASE FlushFails
  BY <1>22, RowIsRow DEF FlushFails, Fault, server, destination, bucket, disk,
       history, Gens, ScanType
<1>23. CASE FinalFlushFails
  BY <1>23, RowIsRow DEF FinalFlushFails, Fault, RunOver, server, destination, bucket,
       disk, history, Gens, ScanType
<1>24. CASE Crash
  BY <1>24, RowIsRow DEF Crash, Fault, RunOver, Abandoned, server, destination, disk,
       history, Gens, ScanType
<1>25. CASE OrphanLands
  BY <1>25, RowIsRow DEF OrphanLands, server, destination, disk, run, Gens, ScanType
<1>26. CASE OrphanDies
  BY <1>26, RowIsRow DEF OrphanDies, server, destination, disk, run, history, Gens,
       ScanType
<1>27. CASE ScanStarts
  <2>1. ScanType'
    BY <1>27, <1>0, RowIsRow DEF ScanType, Scans, ScanStarts, Fault, NoScan, ScanUnchanged, history, server, Gens
  <2>2. scan'.gen \in 0..MaxGen /\ scan'.rows \subseteq Rows
    BY <2>1 DEF ScanType
  <2>3. /\ doubtful' \subseteq Rows /\ working' \subseteq Rows /\ ledger' \subseteq SUBSET Rows
        /\ inLedger' \subseteq Rows /\ inCheckpoint' \subseteq Rows /\ scanned' \subseteq Rows
        /\ faults' \in 0..MaxFaults
    BY <1>27, <1>0, <2>2, RowIsRow DEF ScanStarts, Fault, NoScan, ScanUnchanged, history
  <2> QED
    BY <1>27, <2>1, <2>2, <2>3 DEF ScanStarts, Fault, NoScan, ScanUnchanged, history, server, destination, disk
<1>28. CASE ScanReads
  <2>1. ScanType'
    BY <1>28, <1>0, RowIsRow DEF ScanType, Scans, ScanReads, ScanUnchanged, history, server, Gens
  <2>2. scan'.gen \in 0..MaxGen /\ scan'.rows \subseteq Rows
    BY <2>1 DEF ScanType
  <2>3. /\ doubtful' \subseteq Rows /\ working' \subseteq Rows /\ ledger' \subseteq SUBSET Rows
        /\ inLedger' \subseteq Rows /\ inCheckpoint' \subseteq Rows /\ scanned' \subseteq Rows
        /\ faults' \in 0..MaxFaults
    BY <1>28, <1>0, <2>2, RowIsRow DEF ScanReads, ScanUnchanged, history
  <2> QED
    BY <1>28, <2>1, <2>2, <2>3 DEF ScanReads, ScanUnchanged, history, server, destination, disk
<1>29. CASE ScanDownloads
  <2>0. scan' = NoScan /\ NoScan.at = "off"
    BY <1>29 DEF ScanDownloads, NoScan
  <2>1. ScanType'
    BY <2>0, NoScanType DEF ScanType
  <2>2. scan'.gen \in 0..MaxGen /\ scan'.rows \subseteq Rows
    BY <2>1 DEF ScanType
  <2>3. /\ doubtful' \subseteq Rows /\ working' \subseteq Rows /\ ledger' \subseteq SUBSET Rows
        /\ inLedger' \subseteq Rows /\ inCheckpoint' \subseteq Rows /\ scanned' \subseteq Rows
        /\ faults' \in 0..MaxFaults
    <3>1. scan.rows \subseteq Rows /\ working \subseteq Rows
      BY DEF ScanType, TypeOK
    <3>2. /\ working' \in {working, scan.rows} /\ inLedger' \subseteq inLedger
          /\ scanned' \subseteq scanned \cup scan.rows
      BY <1>29 DEF ScanDownloads, OverwritesFile
    <3>3. UNCHANGED <<doubtful, ledger, inCheckpoint, faults>>
      BY <1>29 DEF ScanDownloads
    <3> QED
      BY <3>1, <3>2, <3>3 DEF TypeOK
  <2> QED
    BY <1>29, <2>1, <2>2, <2>3 DEF ScanDownloads, NoScan, ScanUnchanged, OverwritesFile, server, destination, disk
<1>30. CASE ScanFindsNone
  <2>1. ScanType'
    BY <1>30, <1>0, RowIsRow DEF ScanType, Scans, ScanFindsNone, ScanUnchanged, history, server, Gens
  <2>2. scan'.gen \in 0..MaxGen /\ scan'.rows \subseteq Rows
    BY <2>1 DEF ScanType
  <2>3. /\ doubtful' \subseteq Rows /\ working' \subseteq Rows /\ ledger' \subseteq SUBSET Rows
        /\ inLedger' \subseteq Rows /\ inCheckpoint' \subseteq Rows /\ scanned' \subseteq Rows
        /\ faults' \in 0..MaxFaults
    BY <1>30, <1>0, <2>2, RowIsRow DEF ScanFindsNone, ScanUnchanged, history
  <2> QED
    BY <1>30, <2>1, <2>2, <2>3 DEF ScanFindsNone, ScanUnchanged, history, server, destination, disk
<1>31. CASE ScanSeeds
  <2> DEFINE rows == Seeds(scan.gen)
             new == IF scan.at = "finds none here" THEN "seeded here" ELSE "seeded"
  <2>0. scan.gen \in Gens
    BY <1>31 DEF ScanSeeds, ScanType
  <2>5. rows \subseteq Rows /\ DoubtfulSeeds(scan.gen) \subseteq Rows
    BY <2>0, SeedsAreRows
  <2>6. scan' = [scan EXCEPT !.at = new, !.rows = rows]
    BY <1>31 DEF ScanSeeds
  <2>7. new \in Scans /\ new # "off"
    BY DEF Scans
  <2>8. scan' \in [at : Scans, gen : 0..MaxGen, rows : SUBSET Rows] /\ scan'.gen = scan.gen
        /\ scan'.rows = rows
    <3> HIDE DEF new, rows
    <3> QED
      BY <2>5, <2>6, <2>7 DEF ScanType
  <2>1. ScanType'
    BY <2>0, <2>8 DEF ScanType
  <2>2. scan'.gen \in 0..MaxGen /\ scan'.rows \subseteq Rows
    BY <2>1 DEF ScanType
  <2>3. /\ working' \in {working, rows} /\ inLedger' \subseteq inLedger
        /\ scanned' \subseteq scanned \cup rows
    <3> HIDE DEF rows
    <3>1. OverwritesFile(rows, scan.at = "finds none here")
      BY <1>31 DEF ScanSeeds, rows
    <3> QED
      BY <3>1 DEF OverwritesFile
  <2>4. UNCHANGED <<faults, ledger, inCheckpoint, server, destination, orphan, disk, phase, mode, runGen,
                   stage, upload>>
        /\ doubtful' = doubtful \cup DoubtfulSeeds(scan.gen)
    BY <1>31 DEF ScanSeeds, ScanUnchanged
  <2> HIDE DEF rows, new
  <2> QED
    BY <2>1, <2>2, <2>3, <2>4, <2>5 DEF server, destination, disk
<1>32. CASE ScanUploads
  <2>0. scan' = NoScan /\ NoScan.at = "off"
    BY <1>32 DEF ScanUploads, NoScan
  <2>1. ScanType'
    BY <2>0, NoScanType DEF ScanType
  <2>2. scan'.gen \in 0..MaxGen /\ scan'.rows \subseteq Rows
    BY <2>1 DEF ScanType
  <2>3. /\ doubtful' \subseteq Rows /\ working' \subseteq Rows /\ ledger' \subseteq SUBSET Rows
        /\ inLedger' \subseteq Rows /\ inCheckpoint' \subseteq Rows /\ scanned' \subseteq Rows
        /\ faults' \in 0..MaxFaults
    <3>1. scan.rows \subseteq Rows /\ working \subseteq Rows
      BY DEF ScanType, TypeOK
    <3>2. ledger' \subseteq SUBSET Rows
      <4>1. \E rows \in {working, scan.rows} : ledger' = {rows}
        BY <1>32 DEF ScanUploads
      <4> QED
        BY <3>1, <4>1
    <3>3. inLedger' \subseteq inLedger
      BY <1>32 DEF ScanUploads
    <3>4. UNCHANGED <<doubtful, working, inCheckpoint, scanned, faults>>
      BY <1>32 DEF ScanUploads
    <3> QED
      BY <3>2, <3>3, <3>4 DEF TypeOK
  <2> QED
    BY <1>32, <2>1, <2>2, <2>3 DEF ScanUploads, NoScan, ScanUnchanged, server, destination, disk
<1>33. CASE ScanFails
  <2>0. scan' = NoScan /\ NoScan.at = "off"
    BY <1>33 DEF ScanFails, NoScan
  <2>1. ScanType'
    BY <2>0, NoScanType DEF ScanType
  <2>2. scan'.gen \in 0..MaxGen /\ scan'.rows \subseteq Rows
    BY <2>1 DEF ScanType
  <2>3. /\ doubtful' \subseteq Rows /\ working' \subseteq Rows /\ ledger' \subseteq SUBSET Rows
        /\ inLedger' \subseteq Rows /\ inCheckpoint' \subseteq Rows /\ scanned' \subseteq Rows
        /\ faults' \in 0..MaxFaults
    BY <1>33, <1>0, <2>2, RowIsRow DEF ScanFails, NoScan, ScanUnchanged, history
  <2> QED
    BY <1>33, <2>1, <2>2, <2>3 DEF ScanFails, NoScan, ScanUnchanged, history, server, destination, disk
<1>34. ASSUME NEW u \in UIDs, Arrive(u) PROVE TypeInv'
  BY <1>34, RowIsRow DEF Arrive, destination, bucket, disk, run, history, Gens,
       ScanType
<1>35. ASSUME NEW u \in UIDs, Expunge(u) PROVE TypeInv'
  BY <1>35, RowIsRow DEF Expunge, destination, bucket, disk, run, history, Gens,
       ScanType
<1>36. CASE Reset
  BY <1>36, RowIsRow DEF Reset, destination, bucket, disk, run, history, Gens,
       ScanType
<1>37. CASE UNCHANGED vars
  BY <1>37, RowIsRow DEF vars, server, destination, bucket, disk, run, history, Gens,
       ScanType
<1> QED
  BY <1>1, <1>2, <1>3, <1>4, <1>5, <1>6, <1>7, <1>8, <1>9, <1>10, <1>11, <1>12, <1>13,
       <1>14, <1>15, <1>16, <1>17, <1>18, <1>19, <1>20, <1>21, <1>22, <1>23, <1>24,
       <1>25, <1>26, <1>27, <1>28, <1>29, <1>30, <1>31, <1>32, <1>33, <1>34, <1>35,
       <1>36, <1>37
     DEF Next, Start, Gather, Deliver, Finish, Flush, Failure, Scan, Server

\* The variables keep their types, and a run and a scan have listed a generation.
LEMMA TypeInvariance == Spec => []TypeInv
<1> QED
  BY InitType, StepType, PTL DEF Spec

\* The variables keep their ranges, whatever runs, crashes, scans and resets of the
\* server there are, and however runs of different modes are mixed.
THEOREM TypeCorrect == Spec => []TypeOK
<1>1. TypeInv => TypeOK
  BY DEF TypeInv
<1> QED
  BY <1>1, TypeInvariance, PTL

\* A scan reads the destination and touches the ledger and the working copy; what
\* it lists is the generation of the server.
LEMMA ScanKeeps ==
  ASSUME TypeInv, Scan
  PROVE  /\ UNCHANGED <<gen, present, used, eml, rest, orphan, pushed, line, marker, scratch, phase,
                        mode, runGen, stage, upload, inCheckpoint>>
         /\ doubtful \subseteq doubtful'
         /\ scan'.gen \in {0, gen, scan.gen}
<1>1. UNCHANGED <<gen, present, used, eml, rest, orphan, pushed, line, marker, scratch, phase,
                        mode, runGen, stage, upload, inCheckpoint>>
  BY DEF Scan, ScanStarts, ScanReads, ScanDownloads, ScanFindsNone, ScanSeeds, ScanUploads, ScanFails,
         ScanUnchanged, server, destination, disk, history
<1>a. doubtful \subseteq doubtful'
  BY DEF Scan, ScanStarts, ScanReads, ScanDownloads, ScanFindsNone, ScanSeeds, ScanUploads, ScanFails,
         history
<1>2. CASE scan' = NoScan
  BY <1>1, <1>a, <1>2 DEF NoScan
<1>3. CASE ScanStarts
  BY <1>1, <1>a, <1>3 DEF ScanStarts
<1>4. CASE ScanReads \/ ScanFindsNone \/ ScanSeeds
  <2>1. \E at : scan' = [scan EXCEPT !.at = at] \/ \E rows : scan' = [scan EXCEPT !.at = at, !.rows = rows]
    BY <1>4 DEF ScanReads, ScanFindsNone, ScanSeeds
  <2> QED
    BY <1>1, <1>a, <2>1 DEF TypeInv, ScanType
<1> QED
  BY <1>2, <1>3, <1>4 DEF Scan, ScanDownloads, ScanUploads, ScanFails

-----------------------------------------------------------------------------
(* What is recorded or skipped was delivered. *)

\* No step makes anything of a generation to come.
LEMMA StepGen ==
  ASSUME TypeInv, GenInv, [Next]_vars
  PROVE  GenInv'
<1>0. /\ gen \in Nat /\ runGen \in Nat /\ scan.gen \in Nat
     /\ eml \in [UIDs -> Nat] /\ rest \in [UIDs -> Nat] /\ scratch \in [UIDs -> Nat]
     /\ stage \in [UIDs -> Stages]
     /\ present \subseteq used /\ used \subseteq UIDs
  BY LedgerAssumption DEF TypeInv, TypeOK, ScanType, Gens
<1> USE DEF GenInv, Running
<1>1. ASSUME NEW m \in Modes, NEW fresh \in BOOLEAN, StartRun(m, fresh)
      PROVE  GenInv'
  BY <1>1, <1>0 DEF StartRun, server, destination, bucket, disk
<1>2. CASE LoadLedger
  BY <1>2, <1>0 DEF LoadLedger, Ingested, Plan, server, destination, bucket, disk,
       history, Row
<1>3. CASE Seed
  BY <1>3, <1>0 DEF Seed, Seeds, DoubtfulSeeds, Row, Ingested, Plan, server,
       destination, bucket, disk
<1>4. CASE UploadSeed
  BY <1>4, <1>0 DEF UploadSeed, server, destination, disk
<1>5. CASE ClearStale
  BY <1>5, <1>0 DEF ClearStale, server, destination, bucket, history
<1>6. CASE WriteMarker
  BY <1>6, <1>0 DEF WriteMarker, DoneUids, Plan, server, destination, bucket, history
<1>7. ASSUME NEW u \in UIDs, Fetch(u) PROVE GenInv'
  BY <1>7, <1>0 DEF Fetch, At, Goto, StillRunning, Delivering, server, destination,
       bucket, history
<1>8. ASSUME NEW u \in UIDs, MissingFile(u) PROVE GenInv'
  BY <1>8, <1>0 DEF MissingFile, At, Goto, StillRunning, Delivering, server,
       destination, bucket, disk, history
<1>9. ASSUME NEW u \in UIDs, PushEml(u) PROVE GenInv'
  BY <1>9, <1>0 DEF PushEml, At, Goto, StillRunning, Delivering, server, bucket, disk,
       history
<1>10. ASSUME NEW u \in UIDs, PushRest(u) PROVE GenInv'
  BY <1>10, <1>0 DEF PushRest, At, Goto, StillRunning, Delivering, server, bucket,
       disk, history
<1>11. ASSUME NEW u \in UIDs, WriteRow(u) PROVE GenInv'
  BY <1>11, <1>0 DEF WriteRow, Fault, Row, At, Goto, StillRunning, Delivering, server,
       destination, bucket, history
<1>12. ASSUME NEW u \in UIDs, EndRow(u) PROVE GenInv'
  BY <1>12, <1>0 DEF EndRow, Fault, Readable, At, Goto, StillRunning, Delivering,
       server, destination, bucket
<1>13. ASSUME NEW u \in UIDs, Record(u) PROVE GenInv'
  BY <1>13, <1>0 DEF Record, Fault, Row, At, Goto, RemoveLocal, Delivering, server,
       destination, bucket, history
<1>14. CASE Drain
  BY <1>14, <1>0 DEF Drain, Delivering, Abandoned, server, destination, disk, history
<1>15. CASE FinalFlush
  BY <1>15, <1>0 DEF FinalFlush, RunOver, server, destination, disk
<1>16. CASE FlushBegins
  BY <1>16, <1>0 DEF FlushBegins, Delivering, server, destination, bucket, disk,
       history
<1>17. CASE FlushLands
  BY <1>17, <1>0 DEF FlushLands, server, destination, disk
<1>18. CASE GatherFails
  BY <1>18, <1>0 DEF GatherFails, Fault, RunOver, server, destination, bucket, disk,
       history
<1>19. ASSUME NEW u \in UIDs, FetchFails(u) PROVE GenInv'
  BY <1>19, <1>0 DEF FetchFails, Fault, At, Goto, StillRunning, Delivering, server,
       destination, bucket, history
<1>20. ASSUME NEW u \in UIDs, BodyOmitted(u) PROVE GenInv'
  BY <1>20, <1>0 DEF BodyOmitted, Fault, Row, At, Goto, StillRunning, Delivering,
       server, destination, bucket, disk
<1>21. ASSUME NEW u \in UIDs, GiveUp(u) PROVE GenInv'
  BY <1>21, <1>0 DEF GiveUp, Fault, Delivering, Goto, StillRunning, RemoveLocal,
       server, destination, bucket, history
<1>22. CASE FlushFails
  BY <1>22, <1>0 DEF FlushFails, Fault, server, destination, bucket, disk, history
<1>23. CASE FinalFlushFails
  BY <1>23, <1>0 DEF FinalFlushFails, Fault, RunOver, server, destination, bucket,
       disk, history
<1>24. CASE Crash
  BY <1>24, <1>0 DEF Crash, Fault, RunOver, Abandoned, server, destination, disk,
       history
<1>25. CASE OrphanLands
  BY <1>25, <1>0 DEF OrphanLands, server, destination, disk, run
<1>26. CASE OrphanDies
  BY <1>26, <1>0 DEF OrphanDies, server, destination, disk, run, history
<1>27. CASE Scan
  BY <1>27, <1>0, ScanKeeps
<1>28. ASSUME NEW u \in UIDs, Arrive(u) PROVE GenInv'
  BY <1>28, <1>0 DEF Arrive, destination, bucket, disk, run, history
<1>29. ASSUME NEW u \in UIDs, Expunge(u) PROVE GenInv'
  BY <1>29, <1>0 DEF Expunge, destination, bucket, disk, run, history
<1>30. CASE Reset
  BY <1>30, <1>0 DEF Reset, destination, bucket, disk, run, history
<1>31. CASE UNCHANGED vars
  BY <1>31, <1>0 DEF vars, server, destination, bucket, disk, run, history
<1> QED
  BY <1>1, <1>2, <1>3, <1>4, <1>5, <1>6, <1>7, <1>8, <1>9, <1>10, <1>11, <1>12, <1>13,
       <1>14, <1>15, <1>16, <1>17, <1>18, <1>19, <1>20, <1>21, <1>22, <1>23, <1>24,
       <1>25, <1>26, <1>27, <1>28, <1>29, <1>30, <1>31
     DEF Next, Start, Gather, Deliver, Finish, Flush, Failure, Server

\* A run of an earlier generation leaves what it has not pushed as it was.
LEMMA StepStale ==
  ASSUME TypeInv, GenInv, StageInv, StaleInv, [Next]_vars
  PROVE  StaleInv'
<1>0. /\ gen \in Nat /\ runGen \in Nat /\ scan.gen \in Nat
     /\ eml \in [UIDs -> Nat] /\ rest \in [UIDs -> Nat] /\ scratch \in [UIDs -> Nat]
     /\ stage \in [UIDs -> Stages]
     /\ present \subseteq used /\ used \subseteq UIDs
  BY LedgerAssumption DEF TypeInv, TypeOK, ScanType, Gens
<1> USE DEF GenInv, StageInv, StaleInv, Running
<1>1. ASSUME NEW m \in Modes, NEW fresh \in BOOLEAN, StartRun(m, fresh)
      PROVE  StaleInv'
  BY <1>1, <1>0 DEF StartRun, server, destination, bucket, disk
<1>2. CASE LoadLedger
  BY <1>2, <1>0 DEF LoadLedger, Ingested, Plan, server, destination, bucket, disk,
       history, Row
<1>3. CASE Seed
  BY <1>3, <1>0 DEF Seed, Seeds, DoubtfulSeeds, Row, Ingested, Plan, server,
       destination, bucket, disk
<1>4. CASE UploadSeed
  BY <1>4, <1>0 DEF UploadSeed, server, destination, disk
<1>5. CASE ClearStale
  BY <1>5, <1>0 DEF ClearStale, server, destination, bucket, history
<1>6. CASE WriteMarker
  BY <1>6, <1>0 DEF WriteMarker, DoneUids, Plan, server, destination, bucket, history
<1>7. ASSUME NEW u \in UIDs, Fetch(u) PROVE StaleInv'
  BY <1>7, <1>0 DEF Fetch, At, Goto, StillRunning, Delivering, server, destination,
       bucket, history
<1>8. ASSUME NEW u \in UIDs, MissingFile(u) PROVE StaleInv'
  BY <1>8, <1>0 DEF MissingFile, At, Goto, StillRunning, Delivering, server,
       destination, bucket, disk, history
<1>9. ASSUME NEW u \in UIDs, PushEml(u) PROVE StaleInv'
  BY <1>9, <1>0 DEF PushEml, At, Goto, StillRunning, Delivering, server, bucket, disk,
       history
<1>10. ASSUME NEW u \in UIDs, PushRest(u) PROVE StaleInv'
  BY <1>10, <1>0 DEF PushRest, At, Goto, StillRunning, Delivering, server, bucket,
       disk, history
<1>11. ASSUME NEW u \in UIDs, WriteRow(u) PROVE StaleInv'
  BY <1>11, <1>0 DEF WriteRow, Fault, Row, At, Goto, StillRunning, Delivering, server,
       destination, bucket, history
<1>12. ASSUME NEW u \in UIDs, EndRow(u) PROVE StaleInv'
  BY <1>12, <1>0 DEF EndRow, Fault, Readable, At, Goto, StillRunning, Delivering,
       server, destination, bucket
<1>13. ASSUME NEW u \in UIDs, Record(u) PROVE StaleInv'
  BY <1>13, <1>0 DEF Record, Fault, Row, At, Goto, RemoveLocal, Delivering, server,
       destination, bucket, history
<1>14. CASE Drain
  BY <1>14, <1>0 DEF Drain, Delivering, Abandoned, server, destination, disk, history
<1>15. CASE FinalFlush
  BY <1>15, <1>0 DEF FinalFlush, RunOver, server, destination, disk
<1>16. CASE FlushBegins
  BY <1>16, <1>0 DEF FlushBegins, Delivering, server, destination, bucket, disk,
       history
<1>17. CASE FlushLands
  BY <1>17, <1>0 DEF FlushLands, server, destination, disk
<1>18. CASE GatherFails
  BY <1>18, <1>0 DEF GatherFails, Fault, RunOver, server, destination, bucket, disk,
       history
<1>19. ASSUME NEW u \in UIDs, FetchFails(u) PROVE StaleInv'
  BY <1>19, <1>0 DEF FetchFails, Fault, At, Goto, StillRunning, Delivering, server,
       destination, bucket, history
<1>20. ASSUME NEW u \in UIDs, BodyOmitted(u) PROVE StaleInv'
  BY <1>20, <1>0 DEF BodyOmitted, Fault, Row, At, Goto, StillRunning, Delivering,
       server, destination, bucket, disk
<1>21. ASSUME NEW u \in UIDs, GiveUp(u) PROVE StaleInv'
  BY <1>21, <1>0 DEF GiveUp, Fault, Delivering, Goto, StillRunning, RemoveLocal,
       server, destination, bucket, history
<1>22. CASE FlushFails
  BY <1>22, <1>0 DEF FlushFails, Fault, server, destination, bucket, disk, history
<1>23. CASE FinalFlushFails
  BY <1>23, <1>0 DEF FinalFlushFails, Fault, RunOver, server, destination, bucket,
       disk, history
<1>24. CASE Crash
  BY <1>24, <1>0 DEF Crash, Fault, RunOver, Abandoned, server, destination, disk,
       history
<1>25. CASE OrphanLands
  BY <1>25, <1>0 DEF OrphanLands, server, destination, disk, run
<1>26. CASE OrphanDies
  BY <1>26, <1>0 DEF OrphanDies, server, destination, disk, run, history
<1>27. CASE Scan
  BY <1>27, <1>0, ScanKeeps
<1>28. ASSUME NEW u \in UIDs, Arrive(u) PROVE StaleInv'
  BY <1>28, <1>0 DEF Arrive, destination, bucket, disk, run, history
<1>29. ASSUME NEW u \in UIDs, Expunge(u) PROVE StaleInv'
  BY <1>29, <1>0 DEF Expunge, destination, bucket, disk, run, history
<1>30. CASE Reset
  BY <1>30, <1>0 DEF Reset, destination, bucket, disk, run, history
<1>31. CASE UNCHANGED vars
  BY <1>31, <1>0 DEF vars, server, destination, bucket, disk, run, history
<1> QED
  BY <1>1, <1>2, <1>3, <1>4, <1>5, <1>6, <1>7, <1>8, <1>9, <1>10, <1>11, <1>12, <1>13,
       <1>14, <1>15, <1>16, <1>17, <1>18, <1>19, <1>20, <1>21, <1>22, <1>23, <1>24,
       <1>25, <1>26, <1>27, <1>28, <1>29, <1>30, <1>31
     DEF Next, Start, Gather, Deliver, Finish, Flush, Failure, Server

\* A message goes through its stages in order, and stays the one that was fetched.
LEMMA StepStage ==
  ASSUME TypeInv, GenInv, StageInv, [Next]_vars
  PROVE  StageInv'
<1>0. /\ gen \in Nat /\ runGen \in Nat /\ scan.gen \in Nat
     /\ eml \in [UIDs -> Nat] /\ rest \in [UIDs -> Nat] /\ scratch \in [UIDs -> Nat]
     /\ stage \in [UIDs -> Stages]
     /\ present \subseteq used /\ used \subseteq UIDs
  BY LedgerAssumption DEF TypeInv, TypeOK, ScanType, Gens
<1> USE DEF GenInv, StageInv, Running
<1>1. ASSUME NEW m \in Modes, NEW fresh \in BOOLEAN, StartRun(m, fresh)
      PROVE  StageInv'
  BY <1>1, <1>0 DEF StartRun, server, destination, bucket, disk
<1>2. CASE LoadLedger
  BY <1>2, <1>0 DEF LoadLedger, Ingested, Plan, server, destination, bucket, disk,
       history, Row
<1>3. CASE Seed
  BY <1>3, <1>0 DEF Seed, Seeds, DoubtfulSeeds, Row, Ingested, Plan, server,
       destination, bucket, disk
<1>4. CASE UploadSeed
  BY <1>4, <1>0 DEF UploadSeed, server, destination, disk
<1>5. CASE ClearStale
  BY <1>5, <1>0 DEF ClearStale, server, destination, bucket, history
<1>6. CASE WriteMarker
  BY <1>6, <1>0 DEF WriteMarker, DoneUids, Plan, server, destination, bucket, history
<1>7. ASSUME NEW u \in UIDs, Fetch(u) PROVE StageInv'
  BY <1>7, <1>0 DEF Fetch, At, Goto, StillRunning, Delivering, server, destination,
       bucket, history
<1>8. ASSUME NEW u \in UIDs, MissingFile(u) PROVE StageInv'
  BY <1>8, <1>0 DEF MissingFile, At, Goto, StillRunning, Delivering, server,
       destination, bucket, disk, history
<1>9. ASSUME NEW u \in UIDs, PushEml(u) PROVE StageInv'
  BY <1>9, <1>0 DEF PushEml, At, Goto, StillRunning, Delivering, server, bucket, disk,
       history
<1>10. ASSUME NEW u \in UIDs, PushRest(u) PROVE StageInv'
  BY <1>10, <1>0 DEF PushRest, At, Goto, StillRunning, Delivering, server, bucket,
       disk, history
<1>11. ASSUME NEW u \in UIDs, WriteRow(u) PROVE StageInv'
  BY <1>11, <1>0 DEF WriteRow, Fault, Row, At, Goto, StillRunning, Delivering, server,
       destination, bucket, history
<1>12. ASSUME NEW u \in UIDs, EndRow(u) PROVE StageInv'
  BY <1>12, <1>0 DEF EndRow, Fault, Readable, At, Goto, StillRunning, Delivering,
       server, destination, bucket
<1>13. ASSUME NEW u \in UIDs, Record(u) PROVE StageInv'
  BY <1>13, <1>0 DEF Record, Fault, Row, At, Goto, RemoveLocal, Delivering, server,
       destination, bucket, history
<1>14. CASE Drain
  BY <1>14, <1>0 DEF Drain, Delivering, Abandoned, server, destination, disk, history
<1>15. CASE FinalFlush
  BY <1>15, <1>0 DEF FinalFlush, RunOver, server, destination, disk
<1>16. CASE FlushBegins
  BY <1>16, <1>0 DEF FlushBegins, Delivering, server, destination, bucket, disk,
       history
<1>17. CASE FlushLands
  BY <1>17, <1>0 DEF FlushLands, server, destination, disk
<1>18. CASE GatherFails
  BY <1>18, <1>0 DEF GatherFails, Fault, RunOver, server, destination, bucket, disk,
       history
<1>19. ASSUME NEW u \in UIDs, FetchFails(u) PROVE StageInv'
  BY <1>19, <1>0 DEF FetchFails, Fault, At, Goto, StillRunning, Delivering, server,
       destination, bucket, history
<1>20. ASSUME NEW u \in UIDs, BodyOmitted(u) PROVE StageInv'
  BY <1>20, <1>0 DEF BodyOmitted, Fault, Row, At, Goto, StillRunning, Delivering,
       server, destination, bucket, disk
<1>21. ASSUME NEW u \in UIDs, GiveUp(u) PROVE StageInv'
  BY <1>21, <1>0 DEF GiveUp, Fault, Delivering, Goto, StillRunning, RemoveLocal,
       server, destination, bucket, history
<1>22. CASE FlushFails
  BY <1>22, <1>0 DEF FlushFails, Fault, server, destination, bucket, disk, history
<1>23. CASE FinalFlushFails
  BY <1>23, <1>0 DEF FinalFlushFails, Fault, RunOver, server, destination, bucket,
       disk, history
<1>24. CASE Crash
  BY <1>24, <1>0 DEF Crash, Fault, RunOver, Abandoned, server, destination, disk,
       history
<1>25. CASE OrphanLands
  BY <1>25, <1>0 DEF OrphanLands, server, destination, disk, run
<1>26. CASE OrphanDies
  BY <1>26, <1>0 DEF OrphanDies, server, destination, disk, run, history
<1>27. CASE Scan
  BY <1>27, <1>0, ScanKeeps
<1>28. ASSUME NEW u \in UIDs, Arrive(u) PROVE StageInv'
  BY <1>28, <1>0 DEF Arrive, destination, bucket, disk, run, history
<1>29. ASSUME NEW u \in UIDs, Expunge(u) PROVE StageInv'
  BY <1>29, <1>0 DEF Expunge, destination, bucket, disk, run, history
<1>30. CASE Reset
  <2>1. runGen' = runGen /\ runGen # gen' /\ UNCHANGED <<phase, stage, eml, rest, scratch, doubtful>>
    BY <1>30, <1>0 DEF Reset, destination, disk, run, history
  <2> QED
    BY <2>1
<1>31. CASE UNCHANGED vars
  BY <1>31, <1>0 DEF vars, server, destination, bucket, disk, run, history
<1> QED
  BY <1>1, <1>2, <1>3, <1>4, <1>5, <1>6, <1>7, <1>8, <1>9, <1>10, <1>11, <1>12, <1>13,
       <1>14, <1>15, <1>16, <1>17, <1>18, <1>19, <1>20, <1>21, <1>22, <1>23, <1>24,
       <1>25, <1>26, <1>27, <1>28, <1>29, <1>30, <1>31
     DEF Next, Start, Gather, Deliver, Finish, Flush, Failure, Server

\* A run of one kind does not go the other kind's way.
LEMMA StepGather ==
  ASSUME TypeInv, GatherInv, [Next]_vars
  PROVE  GatherInv'
<1> USE DEF GatherInv
<1>1. ASSUME NEW m \in Modes, NEW fresh \in BOOLEAN, StartRun(m, fresh)
      PROVE  GatherInv'
  BY <1>1 DEF StartRun, server, destination, bucket, disk
<1>2. CASE LoadLedger
  BY <1>2 DEF LoadLedger, Ingested, Plan, server, destination, bucket, disk, history,
       Row
<1>3. CASE Seed
  BY <1>3 DEF Seed, Seeds, DoubtfulSeeds, Row, Ingested, Plan, server, destination,
       bucket, disk
<1>4. CASE UploadSeed
  BY <1>4 DEF UploadSeed, server, destination, disk
<1>5. CASE ClearStale
  BY <1>5 DEF ClearStale, server, destination, bucket, history
<1>6. CASE WriteMarker
  BY <1>6 DEF WriteMarker, DoneUids, Plan, server, destination, bucket, history
<1>7. ASSUME NEW u \in UIDs, Fetch(u) PROVE GatherInv'
  BY <1>7 DEF Fetch, At, Goto, StillRunning, Delivering, server, destination, bucket,
       history
<1>8. ASSUME NEW u \in UIDs, MissingFile(u) PROVE GatherInv'
  BY <1>8 DEF MissingFile, At, Goto, StillRunning, Delivering, server, destination,
       bucket, disk, history
<1>9. ASSUME NEW u \in UIDs, PushEml(u) PROVE GatherInv'
  BY <1>9 DEF PushEml, At, Goto, StillRunning, Delivering, server, bucket, disk,
       history
<1>10. ASSUME NEW u \in UIDs, PushRest(u) PROVE GatherInv'
  BY <1>10 DEF PushRest, At, Goto, StillRunning, Delivering, server, bucket, disk,
       history
<1>11. ASSUME NEW u \in UIDs, WriteRow(u) PROVE GatherInv'
  BY <1>11 DEF WriteRow, Fault, Row, At, Goto, StillRunning, Delivering, server,
       destination, bucket, history
<1>12. ASSUME NEW u \in UIDs, EndRow(u) PROVE GatherInv'
  BY <1>12 DEF EndRow, Fault, Readable, At, Goto, StillRunning, Delivering, server,
       destination, bucket
<1>13. ASSUME NEW u \in UIDs, Record(u) PROVE GatherInv'
  BY <1>13 DEF Record, Fault, Row, At, Goto, RemoveLocal, Delivering, server,
       destination, bucket, history
<1>14. CASE Drain
  BY <1>14 DEF Drain, Delivering, Abandoned, server, destination, disk, history
<1>15. CASE FinalFlush
  BY <1>15 DEF FinalFlush, RunOver, server, destination, disk
<1>16. CASE FlushBegins
  BY <1>16 DEF FlushBegins, Delivering, server, destination, bucket, disk, history
<1>17. CASE FlushLands
  BY <1>17 DEF FlushLands, server, destination, disk
<1>18. CASE GatherFails
  BY <1>18 DEF GatherFails, Fault, RunOver, server, destination, bucket, disk, history
<1>19. ASSUME NEW u \in UIDs, FetchFails(u) PROVE GatherInv'
  BY <1>19 DEF FetchFails, Fault, At, Goto, StillRunning, Delivering, server,
       destination, bucket, history
<1>20. ASSUME NEW u \in UIDs, BodyOmitted(u) PROVE GatherInv'
  BY <1>20 DEF BodyOmitted, Fault, Row, At, Goto, StillRunning, Delivering, server,
       destination, bucket, disk
<1>21. ASSUME NEW u \in UIDs, GiveUp(u) PROVE GatherInv'
  BY <1>21 DEF GiveUp, Fault, Delivering, Goto, StillRunning, RemoveLocal, server,
       destination, bucket, history
<1>22. CASE FlushFails
  BY <1>22 DEF FlushFails, Fault, server, destination, bucket, disk, history
<1>23. CASE FinalFlushFails
  BY <1>23 DEF FinalFlushFails, Fault, RunOver, server, destination, bucket, disk,
       history
<1>24. CASE Crash
  BY <1>24 DEF Crash, Fault, RunOver, Abandoned, server, destination, disk, history
<1>25. CASE OrphanLands
  BY <1>25 DEF OrphanLands, server, destination, disk, run
<1>26. CASE OrphanDies
  BY <1>26 DEF OrphanDies, server, destination, disk, run, history
<1>27. CASE Scan
  BY <1>27, ScanKeeps
<1>28. ASSUME NEW u \in UIDs, Arrive(u) PROVE GatherInv'
  BY <1>28 DEF Arrive, destination, bucket, disk, run, history
<1>29. ASSUME NEW u \in UIDs, Expunge(u) PROVE GatherInv'
  BY <1>29 DEF Expunge, destination, bucket, disk, run, history
<1>30. CASE Reset
  BY <1>30 DEF Reset, destination, bucket, disk, run, history
<1>31. CASE UNCHANGED vars
  BY <1>31 DEF vars, server, destination, bucket, disk, run, history
<1> QED
  BY <1>1, <1>2, <1>3, <1>4, <1>5, <1>6, <1>7, <1>8, <1>9, <1>10, <1>11, <1>12, <1>13,
       <1>14, <1>15, <1>16, <1>17, <1>18, <1>19, <1>20, <1>21, <1>22, <1>23, <1>24,
       <1>25, <1>26, <1>27, <1>28, <1>29, <1>30, <1>31
     DEF Next, Start, Gather, Deliver, Finish, Flush, Failure, Server

\* The checkpoint is cleared before its marker is written.
LEMMA StepMarker ==
  ASSUME OneMode, TypeInv, GatherInv, MarkerInv, [Next]_vars
  PROVE  MarkerInv'
<1>a. Readable \subseteq Rows /\ marker \in Nat
  BY DEF TypeInv, TypeOK, Readable
<1>b. ASSUME UNCHANGED <<pushed, line>> PROVE Readable' = Readable
  BY <1>b DEF Readable
<1> USE LedgerAssumption DEF GatherInv, MarkerInv, OneMode
<1>1. ASSUME NEW m \in Modes, NEW fresh \in BOOLEAN, StartRun(m, fresh)
      PROVE  MarkerInv'
  <2>1. phase' = "listed" /\ (mode' = "legacy" => mode = "legacy" /\ UNCHANGED disk)
    BY <1>1 DEF StartRun
  <2>2. UNCHANGED disk => Readable' = Readable /\ marker' = marker
    BY DEF Readable, disk
  <2> QED
    BY <2>1, <2>2
<1>2. CASE LoadLedger
  BY <1>2, <1>a, <1>b DEF LoadLedger, Ingested, Plan, server, destination, bucket,
       disk, history, Row
<1>3. CASE Seed
  BY <1>3, <1>a, <1>b DEF Seed, Seeds, DoubtfulSeeds, Row, Ingested, Plan, server,
       destination, bucket, disk
<1>4. CASE UploadSeed
  BY <1>4, <1>a, <1>b DEF UploadSeed, server, destination, disk
<1>5. CASE ClearStale
  <2>1. marker' = marker /\ phase' = "cleared" /\ runGen' = runGen /\ mode = "legacy" /\ mode' = mode
        /\ phase = "listed"
    BY <1>5 DEF ClearStale
  <2>2. Readable' = {} \/ (Readable' = Readable /\ (marker \in {0, runGen} \/ Readable = {}))
    BY <1>5 DEF ClearStale, Readable
  <2>3. CASE marker = 0
    <3>1. ASSUME NEW g \in Gens, NEW u \in UIDs PROVE <<g, u>> \notin Readable
      <4>1. g # 0
        BY DEF Gens
      <4> QED
        BY <4>1, <2>1, <2>3
    <3>2. Readable = {}
      BY <3>1, <1>a DEF Rows
    <3> QED
      BY <2>1, <2>2, <3>2
  <2> QED
    BY <2>1, <2>2, <2>3
<1>6. CASE WriteMarker
  BY <1>6, <1>a, <1>b DEF WriteMarker, DoneUids, Plan, server, destination, bucket,
       history
<1>7. ASSUME NEW u \in UIDs, Fetch(u) PROVE MarkerInv'
  BY <1>7, <1>a, <1>b DEF Fetch, At, Goto, StillRunning, Delivering, server,
       destination, bucket, history
<1>8. ASSUME NEW u \in UIDs, MissingFile(u) PROVE MarkerInv'
  BY <1>8, <1>a, <1>b DEF MissingFile, At, Goto, StillRunning, Delivering, server,
       destination, bucket, disk, history
<1>9. ASSUME NEW u \in UIDs, PushEml(u) PROVE MarkerInv'
  BY <1>9, <1>a, <1>b DEF PushEml, At, Goto, StillRunning, Delivering, server, bucket,
       disk, history
<1>10. ASSUME NEW u \in UIDs, PushRest(u) PROVE MarkerInv'
  BY <1>10, <1>a, <1>b DEF PushRest, At, Goto, StillRunning, Delivering, server,
       bucket, disk, history
<1>11. ASSUME NEW u \in UIDs, WriteRow(u) PROVE MarkerInv'
  <2>1. Readable' \subseteq Readable \cup {<<runGen, u>>}
    BY <1>11 DEF WriteRow, Readable, Row
  <2> QED
    BY <1>11, <2>1 DEF WriteRow, At, Delivering, StillRunning
<1>12. ASSUME NEW u \in UIDs, EndRow(u) PROVE MarkerInv'
  <2>1. Readable' = Readable
    BY <1>12 DEF EndRow, Readable
  <2> QED
    BY <1>12, <2>1 DEF EndRow, At, Delivering, StillRunning
<1>13. ASSUME NEW u \in UIDs, Record(u) PROVE MarkerInv'
  BY <1>13, <1>a, <1>b DEF Record, Fault, Row, At, Goto, RemoveLocal, Delivering,
       server, destination, bucket, history
<1>14. CASE Drain
  BY <1>14, <1>a, <1>b DEF Drain, Delivering, Abandoned, server, destination, disk,
       history
<1>15. CASE FinalFlush
  BY <1>15, <1>a, <1>b DEF FinalFlush, RunOver, server, destination, disk
<1>16. CASE FlushBegins
  BY <1>16, <1>a, <1>b DEF FlushBegins, Delivering, server, destination, bucket, disk,
       history
<1>17. CASE FlushLands
  BY <1>17, <1>a, <1>b DEF FlushLands, server, destination, disk
<1>18. CASE GatherFails
  BY <1>18, <1>a, <1>b DEF GatherFails, Fault, RunOver, server, destination, bucket,
       disk, history
<1>19. ASSUME NEW u \in UIDs, FetchFails(u) PROVE MarkerInv'
  BY <1>19, <1>a, <1>b DEF FetchFails, Fault, At, Goto, StillRunning, Delivering,
       server, destination, bucket, history
<1>20. ASSUME NEW u \in UIDs, BodyOmitted(u) PROVE MarkerInv'
  BY <1>20, <1>a, <1>b DEF BodyOmitted, Fault, Row, At, Goto, StillRunning,
       Delivering, server, destination, bucket, disk
<1>21. ASSUME NEW u \in UIDs, GiveUp(u) PROVE MarkerInv'
  BY <1>21, <1>a, <1>b DEF GiveUp, Fault, Delivering, Goto, StillRunning, RemoveLocal,
       server, destination, bucket, history
<1>22. CASE FlushFails
  BY <1>22, <1>a, <1>b DEF FlushFails, Fault, server, destination, bucket, disk,
       history
<1>23. CASE FinalFlushFails
  BY <1>23, <1>a, <1>b DEF FinalFlushFails, Fault, RunOver, server, destination,
       bucket, disk, history
<1>24. CASE Crash
  BY <1>24, <1>a, <1>b DEF Crash, Fault, RunOver, Abandoned, server, destination,
       disk, history
<1>25. CASE OrphanLands
  BY <1>25, <1>a, <1>b DEF OrphanLands, server, destination, disk, run
<1>26. CASE OrphanDies
  BY <1>26, <1>a, <1>b DEF OrphanDies, server, destination, disk, run, history
<1>27. CASE Scan
  BY <1>27, <1>a, <1>b, ScanKeeps
<1>28. ASSUME NEW u \in UIDs, Arrive(u) PROVE MarkerInv'
  BY <1>28, <1>a, <1>b DEF Arrive, destination, bucket, disk, run, history
<1>29. ASSUME NEW u \in UIDs, Expunge(u) PROVE MarkerInv'
  BY <1>29, <1>a, <1>b DEF Expunge, destination, bucket, disk, run, history
<1>30. CASE Reset
  BY <1>30, <1>a, <1>b DEF Reset, destination, bucket, disk, run, history
<1>31. CASE UNCHANGED vars
  BY <1>31, <1>a, <1>b DEF vars, server, destination, bucket, disk, run, history
<1> QED
  BY <1>1, <1>2, <1>3, <1>4, <1>5, <1>6, <1>7, <1>8, <1>9, <1>10, <1>11, <1>12, <1>13,
       <1>14, <1>15, <1>16, <1>17, <1>18, <1>19, <1>20, <1>21, <1>22, <1>23, <1>24,
       <1>25, <1>26, <1>27, <1>28, <1>29, <1>30, <1>31
     DEF Next, Start, Gather, Deliver, Finish, Flush, Failure, Server

\* What is recorded is delivered, and stays so.
LEMMA StepRow ==
  ASSUME TypeInv, GenInv, StaleInv, StageInv, RowInv, [Next]_vars
  PROVE  RowInv'
<1> SUFFICES ASSUME NEW g \in Gens, NEW u \in UIDs, <<g, u>> \in Known'
             PROVE  RowIsTrue(g, u)'
  BY DEF RowInv
<1>0. /\ gen \in Nat /\ runGen \in Nat /\ scan.gen \in Nat
     /\ eml \in [UIDs -> Nat] /\ rest \in [UIDs -> Nat] /\ scratch \in [UIDs -> Nat]
     /\ stage \in [UIDs -> Stages]
     /\ present \subseteq used /\ used \subseteq UIDs
  BY LedgerAssumption DEF TypeInv, TypeOK, ScanType, Gens
<1>a. \A r : r \in Known <=>
      \/ (\E s \in ledger : r \in s) \/ (\E s \in orphan : r \in s)
      \/ (\E s \in upload : r \in s)
      \/ r \in working \/ r \in pushed \/ (\E s \in line : r \in s) \/ r \in scan.rows
  <2>1. Known = (UNION (ledger \cup orphan \cup upload)) \cup working \cup (pushed \cup UNION line) \cup scan.rows
    BY DEF Known, Recorded, Readable
  <2> QED
    BY Zenon, <2>1, InCopies
<1>b. \/ (\E s \in ledger' : <<g, u>> \in s) \/ (\E s \in orphan' : <<g, u>> \in s)
      \/ (\E s \in upload' : <<g, u>> \in s)
      \/ <<g, u>> \in working' \/ <<g, u>> \in pushed' \/ (\E s \in line' : <<g, u>> \in s) \/ <<g, u>> \in scan'.rows
  <2>1. Known' = (UNION (ledger' \cup orphan' \cup upload')) \cup working' \cup (pushed' \cup UNION line')
                   \cup scan'.rows
    BY DEF Known, Recorded, Readable
  <2> QED
    BY Zenon, <2>1, InCopies
<1>c. ASSUME <<g, u>> \in Known, UNCHANGED <<gen, eml, rest, used>>, present' \subseteq present,
             doubtful \subseteq doubtful'
      PROVE  RowIsTrue(g, u)'
  BY <1>c DEF RowInv, RowIsTrue, Delivered, TakenForDelivered
<1>e. ASSUME stage[u] \in {"pushed", "noted"}, phase = "delivering", g = runGen,
             UNCHANGED <<gen, eml, rest, used, present, doubtful>>
      PROVE  RowIsTrue(g, u)'
  BY <1>e, <1>0 DEF GenInv, StageInv, Running, RowIsTrue, Delivered, TakenForDelivered
<1>f. scan \in [at : Scans, gen : 0..MaxGen, rows : SUBSET Rows]
  BY DEF TypeInv, ScanType
<1>1. ASSUME NEW m \in Modes, NEW fresh \in BOOLEAN, StartRun(m, fresh)
      PROVE  RowIsTrue(g, u)'
  <2>1. <<g, u>> \in Known
    BY <1>1, <1>a, <1>b DEF StartRun, bucket, disk
  <2> QED
    BY <1>1, <2>1, <1>c DEF StartRun, server, destination, bucket, disk
<1>2. CASE LoadLedger
  <2>1. <<g, u>> \in Known
    BY <1>2, <1>a, <1>b DEF LoadLedger, bucket, disk, history
  <2> QED
    BY <1>2, <2>1, <1>c DEF LoadLedger, server, destination, bucket, disk, history
<1>3. CASE Seed
  <2>1. CASE <<g, u>> \in Known
    BY <1>3, <2>1, <1>c DEF Seed, server, destination
  <2>2. CASE g = runGen /\ eml[u] # 0
    <3>1. UNCHANGED <<gen, present, used, eml, rest>>
          /\ ((eml[u] # runGen \/ rest[u] # runGen) => <<runGen, u>> \in doubtful')
      BY <1>3, <2>2 DEF Seed, DoubtfulSeeds, server, destination
    <3> QED
      BY <3>1, <2>2, <1>0 DEF GenInv, RowIsTrue, Delivered, TakenForDelivered
  <2>3. working' = Seeds(runGen) /\ UNCHANGED <<ledger, orphan, upload, pushed, line, scan>>
    BY <1>3 DEF Seed, bucket, disk
  <2>4. <<g, u>> \in working' => g = runGen /\ eml[u] # 0
    BY <2>3 DEF Seeds
  <2> QED
    BY <2>1, <2>2, <2>3, <2>4, <1>a, <1>b
<1>4. CASE UploadSeed
  <2>1. <<g, u>> \in Known
    BY <1>4, <1>a, <1>b DEF UploadSeed, disk
  <2> QED
    BY <1>4, <2>1, <1>c DEF UploadSeed, server, destination, disk
<1>5. CASE ClearStale
  <2>1. <<g, u>> \in Known
    BY <1>5, <1>a, <1>b DEF ClearStale, bucket, history
  <2> QED
    BY <1>5, <2>1, <1>c DEF ClearStale, server, destination, bucket, history
<1>6. CASE WriteMarker
  <2>1. <<g, u>> \in Known
    BY <1>6, <1>a, <1>b DEF WriteMarker, bucket, history
  <2> QED
    BY <1>6, <2>1, <1>c DEF WriteMarker, server, destination, bucket, history
<1>7. ASSUME NEW v \in UIDs, Fetch(v) PROVE RowIsTrue(g, u)'
  <2>1. <<g, u>> \in Known
    BY <1>7, <1>a, <1>b DEF Fetch, At, Goto, StillRunning, Delivering, bucket, history
  <2> QED
    BY <1>7, <2>1, <1>c DEF Fetch, At, Goto, StillRunning, Delivering, server,
         destination, bucket, history
<1>8. ASSUME NEW v \in UIDs, MissingFile(v) PROVE RowIsTrue(g, u)'
  <2>1. <<g, u>> \in Known
    BY <1>8, <1>a, <1>b DEF MissingFile, At, Goto, StillRunning, Delivering, bucket,
         disk, history
  <2> QED
    BY <1>8, <2>1, <1>c DEF MissingFile, At, Goto, StillRunning, Delivering, server,
         destination, bucket, disk, history
<1>9. ASSUME NEW v \in UIDs, PushEml(v) PROVE RowIsTrue(g, u)'
  <2>1. <<g, u>> \in Known
    BY <1>9, <1>a, <1>b DEF PushEml, StillRunning, bucket, disk
  <2>2. RowIsTrue(g, u)
    BY <2>1 DEF RowInv
  <2>3. eml' = [eml EXCEPT ![v] = scratch[v]] /\ phase = "delivering" /\ stage[v] = "fetched"
        /\ UNCHANGED <<gen, present, used, rest, doubtful>>
    BY <1>9 DEF PushEml, At, Delivering, server, history
  <2>a. scratch[v] # 0 /\ ("fetched" = "half" => eml[v] # 0)
    BY <1>9, <2>3 DEF PushEml, StageInv
  <2>4. CASE u # v
    BY <2>2, <2>3, <2>4, <1>0 DEF RowIsTrue, Delivered, TakenForDelivered
  <2>5. CASE u = v /\ runGen = gen
    <3>1. u \in present => scratch[u] = gen \/ <<gen, u>> \in doubtful
      BY <2>3, <2>5, <2>a DEF StageInv
    <3> QED
      BY <2>2, <2>3, <2>5, <2>a, <3>1, <1>0 DEF RowIsTrue, Delivered, TakenForDelivered
  <2>6. CASE u = v /\ runGen # gen
    BY <2>2, <2>3, <2>6, <2>a, <1>0 DEF RowIsTrue, Delivered, TakenForDelivered, StaleInv, GenInv, Running
  <2> QED
    BY <2>4, <2>5, <2>6
<1>10. ASSUME NEW v \in UIDs, PushRest(v) PROVE RowIsTrue(g, u)'
  <2>1. <<g, u>> \in Known
    BY <1>10, <1>a, <1>b DEF PushRest, StillRunning, bucket, disk
  <2>2. RowIsTrue(g, u)
    BY <2>1 DEF RowInv
  <2>3. rest' = [rest EXCEPT ![v] = scratch[v]] /\ phase = "delivering" /\ stage[v] = "half"
        /\ UNCHANGED <<gen, present, used, eml, doubtful>>
    BY <1>10 DEF PushRest, At, Delivering, server, history
  <2>a. scratch[v] # 0 /\ ("half" = "half" => eml[v] # 0)
    BY <1>10, <2>3 DEF PushRest, StageInv
  <2>4. CASE u # v
    BY <2>2, <2>3, <2>4, <1>0 DEF RowIsTrue, Delivered, TakenForDelivered
  <2>5. CASE u = v /\ runGen = gen
    <3>1. u \in present => scratch[u] = gen \/ <<gen, u>> \in doubtful
      BY <2>3, <2>5, <2>a DEF StageInv
    <3> QED
      BY <2>2, <2>3, <2>5, <2>a, <3>1, <1>0 DEF RowIsTrue, Delivered, TakenForDelivered
  <2>6. CASE u = v /\ runGen # gen
    BY <2>2, <2>3, <2>6, <2>a, <1>0 DEF RowIsTrue, Delivered, TakenForDelivered, StaleInv, GenInv, Running
  <2> QED
    BY <2>4, <2>5, <2>6
<1>11. ASSUME NEW v \in UIDs, WriteRow(v) PROVE RowIsTrue(g, u)'
  <2>1. UNCHANGED <<gen, eml, rest, used, present, doubtful>>
    BY <1>11 DEF WriteRow, server, destination, history
  <2>2. (\A s \in line' : s \subseteq (UNION line) \cup {<<runGen, v>>})
        /\ UNCHANGED <<pushed, working, upload, ledger, orphan, scan>>
    BY <1>11 DEF WriteRow, bucket, StillRunning, Row
  <2>3. CASE <<g, u>> \in Known
    BY <2>1, <2>3, <1>c
  <2>4. CASE g = runGen /\ u = v
    BY <1>11, <2>1, <2>4, <1>e DEF WriteRow, At, Delivering
  <2>5. ASSUME NEW s \in line', <<g, u>> \in s PROVE <<g, u>> \in Known \/ (g = runGen /\ u = v)
    BY <2>2, <2>5, <1>a
  <2> QED
    BY <2>2, <2>3, <2>4, <2>5, <1>a, <1>b
<1>12. ASSUME NEW v \in UIDs, EndRow(v) PROVE RowIsTrue(g, u)'
  <2>1. pushed' \subseteq pushed \cup UNION line /\ line' \subseteq line
    BY <1>12 DEF EndRow, Readable
  <2>2. UNCHANGED <<ledger, orphan, upload, working, scan>>
    BY <1>12 DEF EndRow, StillRunning, bucket
  <2>3. <<g, u>> \in Known
    BY <2>1, <2>2, <1>a, <1>b
  <2> QED
    BY <1>12, <2>3, <1>c DEF EndRow, server, destination
<1>13. ASSUME NEW v \in UIDs, Record(v) PROVE RowIsTrue(g, u)'
  <2>1. UNCHANGED <<gen, eml, rest, used, present, doubtful>>
    BY <1>13 DEF Record, server, destination, history
  <2>2. working' \subseteq working \cup {<<runGen, v>>} /\ UNCHANGED <<pushed, line, upload, ledger, orphan, scan>>
    BY <1>13 DEF Record, bucket, StillRunning, Row
  <2>3. CASE <<g, u>> \in Known
    BY <2>1, <2>3, <1>c
  <2>4. CASE g = runGen /\ u = v
    BY <1>13, <2>1, <2>4, <1>e DEF Record, At, Delivering
  <2> QED
    BY <2>2, <2>3, <2>4, <1>a, <1>b
<1>14. CASE Drain
  <2>1. <<g, u>> \in Known
    BY <1>14, <1>a, <1>b DEF Drain, Delivering, Abandoned, disk, history
  <2> QED
    BY <1>14, <2>1, <1>c DEF Drain, Delivering, Abandoned, server, destination, disk,
         history
<1>15. CASE FinalFlush
  <2>1. <<g, u>> \in Known
    BY <1>15, <1>a, <1>b DEF FinalFlush, RunOver, disk
  <2> QED
    BY <1>15, <2>1, <1>c DEF FinalFlush, RunOver, server, destination, disk
<1>16. CASE FlushBegins
  <2>1. <<g, u>> \in Known
    BY <1>16, <1>a, <1>b DEF FlushBegins, Delivering, bucket, disk, history
  <2> QED
    BY <1>16, <2>1, <1>c DEF FlushBegins, Delivering, server, destination, bucket, disk,
         history
<1>17. CASE FlushLands
  <2>1. <<g, u>> \in Known
    BY <1>17, <1>a, <1>b DEF FlushLands, disk
  <2> QED
    BY <1>17, <2>1, <1>c DEF FlushLands, server, destination, disk
<1>18. CASE GatherFails
  <2>1. <<g, u>> \in Known
    BY <1>18, <1>a, <1>b DEF GatherFails, Fault, RunOver, bucket, disk, history
  <2> QED
    BY <1>18, <2>1, <1>c DEF GatherFails, Fault, RunOver, server, destination, bucket,
         disk, history
<1>19. ASSUME NEW v \in UIDs, FetchFails(v) PROVE RowIsTrue(g, u)'
  <2>1. <<g, u>> \in Known
    BY <1>19, <1>a, <1>b DEF FetchFails, Fault, At, Goto, StillRunning, Delivering,
         bucket, history
  <2> QED
    BY <1>19, <2>1, <1>c DEF FetchFails, Fault, At, Goto, StillRunning, Delivering,
         server, destination, bucket, history
<1>20. ASSUME NEW v \in UIDs, BodyOmitted(v) PROVE RowIsTrue(g, u)'
  <2>1. <<g, u>> \in Known
    BY <1>20, <1>a, <1>b DEF BodyOmitted, Fault, At, Goto, StillRunning, Delivering,
         bucket, disk
  <2> QED
    BY <1>20, <2>1, <1>c DEF BodyOmitted, Fault, At, Goto, StillRunning, Delivering,
         server, destination, bucket, disk
<1>21. ASSUME NEW v \in UIDs, GiveUp(v) PROVE RowIsTrue(g, u)'
  <2>1. <<g, u>> \in Known
    BY <1>21, <1>a, <1>b DEF GiveUp, Fault, Delivering, Goto, StillRunning, bucket,
         history
  <2> QED
    BY <1>21, <2>1, <1>c DEF GiveUp, Fault, Delivering, Goto, StillRunning, server,
         destination, bucket, history
<1>22. CASE FlushFails
  <2>1. <<g, u>> \in Known
    BY <1>22, <1>a, <1>b DEF FlushFails, Fault, bucket, disk, history
  <2> QED
    BY <1>22, <2>1, <1>c DEF FlushFails, Fault, server, destination, bucket, disk,
         history
<1>23. CASE FinalFlushFails
  <2>1. <<g, u>> \in Known
    BY <1>23, <1>a, <1>b DEF FinalFlushFails, Fault, RunOver, bucket, disk, history
  <2> QED
    BY <1>23, <2>1, <1>c DEF FinalFlushFails, Fault, RunOver, server, destination,
         bucket, disk, history
<1>24. CASE Crash
  <2>1. <<g, u>> \in Known
    BY <1>24, <1>a, <1>b DEF Crash, Fault, RunOver, Abandoned, disk, history
  <2> QED
    BY <1>24, <2>1, <1>c DEF Crash, Fault, RunOver, Abandoned, server, destination,
         disk, history
<1>25. CASE OrphanLands
  <2>1. <<g, u>> \in Known
    BY <1>25, <1>a, <1>b DEF OrphanLands, disk, run
  <2> QED
    BY <1>25, <2>1, <1>c DEF OrphanLands, server, destination, disk, run
<1>26. CASE OrphanDies
  <2>1. <<g, u>> \in Known
    BY <1>26, <1>a, <1>b DEF OrphanDies, disk, run, history
  <2> QED
    BY <1>26, <2>1, <1>c DEF OrphanDies, server, destination, disk, run, history
<1>27. CASE ScanStarts
  <2>1. <<g, u>> \in Known
    BY <1>27, <1>a, <1>b DEF ScanStarts, NoScan, Fault, ScanUnchanged, history, disk
  <2> QED
    BY <1>27, <2>1, <1>c DEF ScanStarts, Fault, ScanUnchanged, history, server,
         destination, disk
<1>28. CASE ScanReads
  <2>1. <<g, u>> \in Known
    BY <1>28, <1>a, <1>b DEF ScanReads, ScanUnchanged, history, disk
  <2> QED
    BY <1>28, <2>1, <1>c DEF ScanReads, ScanUnchanged, history, server, destination,
         disk
<1>29. CASE ScanDownloads
  <2>1. <<g, u>> \in Known
    BY <1>29, <1>a, <1>b DEF ScanDownloads, NoScan, ScanUnchanged, OverwritesFile, disk
  <2> QED
    BY <1>29, <2>1, <1>c DEF ScanDownloads, ScanUnchanged, OverwritesFile, server,
         destination, disk
<1>30. CASE ScanFindsNone
  <2>1. <<g, u>> \in Known
    BY <1>30, <1>a, <1>b, <1>f DEF ScanFindsNone, ScanUnchanged, history, disk
  <2> QED
    BY <1>30, <2>1, <1>c DEF ScanFindsNone, ScanUnchanged, history, server, destination,
         disk
<1>31. CASE ScanSeeds
  <2>1. CASE <<g, u>> \in Known
    BY <1>31, <2>1, <1>c DEF ScanSeeds, ScanUnchanged, server, destination
  <2>2. UNCHANGED <<gen, present, used, eml, rest, ledger, orphan, upload, pushed, line>>
    BY <1>31 DEF ScanSeeds, ScanUnchanged, server, destination, disk
  <2>3. scan'.rows = Seeds(scan.gen)
    BY <1>31, <1>f DEF ScanSeeds
  <2>4. working' \in {working, scan'.rows}
    BY <1>31, <2>3 DEF ScanSeeds, OverwritesFile
  <2>5. CASE g = scan.gen /\ eml[u] # 0
    <3>1. (eml[u] # g \/ rest[u] # g) => <<g, u>> \in doubtful'
      BY <1>31, <2>5 DEF ScanSeeds, DoubtfulSeeds
    <3> QED
      BY <3>1, <2>2, <2>5, <1>0 DEF GenInv, RowIsTrue, Delivered, TakenForDelivered
  <2>6. <<g, u>> \in scan'.rows => g = scan.gen /\ eml[u] # 0
    BY <2>3 DEF Seeds
  <2> QED
    BY <2>1, <2>2, <2>4, <2>5, <2>6, <1>a, <1>b
<1>32. CASE ScanUploads
  <2>1. <<g, u>> \in Known
    BY <1>32, <1>a, <1>b DEF ScanUploads, NoScan, ScanUnchanged, disk
  <2> QED
    BY <1>32, <2>1, <1>c DEF ScanUploads, ScanUnchanged, server, destination, disk
<1>33. CASE ScanFails
  <2>1. <<g, u>> \in Known
    BY <1>33, <1>a, <1>b DEF ScanFails, NoScan, ScanUnchanged, history, disk
  <2> QED
    BY <1>33, <2>1, <1>c DEF ScanFails, ScanUnchanged, history, server, destination,
         disk
<1>34. ASSUME NEW v \in UIDs, Arrive(v) PROVE RowIsTrue(g, u)'
  <2>1. <<g, u>> \in Known
    BY <1>34, <1>a, <1>b DEF Arrive, bucket, disk, run
  <2>2. RowIsTrue(g, u)
    BY <2>1 DEF RowInv
  <2> QED
    BY <1>34, <2>2 DEF Arrive, RowIsTrue, Delivered, TakenForDelivered, destination, history
<1>35. ASSUME NEW v \in UIDs, Expunge(v) PROVE RowIsTrue(g, u)'
  <2>1. <<g, u>> \in Known
    BY <1>35, <1>a, <1>b DEF Expunge, bucket, disk, run, history
  <2> QED
    BY <1>35, <2>1, <1>c DEF Expunge, destination, bucket, disk, run, history
<1>36. CASE Reset
  <2>1. <<g, u>> \in Known
    BY <1>36, <1>a, <1>b DEF Reset, bucket, disk, run
  <2>2. g <= gen /\ gen' = gen + 1 /\ g \in Nat
    BY <1>36, <2>1 DEF Reset, RowInv, RowIsTrue, Gens
  <2> QED
    BY <2>2, <1>0 DEF RowIsTrue
<1>37. CASE UNCHANGED vars
  <2>1. <<g, u>> \in Known
    BY <1>37, <1>a, <1>b DEF vars, bucket, disk, run, history
  <2> QED
    BY <1>37, <2>1, <1>c DEF vars, server, destination, bucket, disk, run, history
<1> QED
  BY <1>1, <1>2, <1>3, <1>4, <1>5, <1>6, <1>7, <1>8, <1>9, <1>10, <1>11, <1>12, <1>13,
       <1>14, <1>15, <1>16, <1>17, <1>18, <1>19, <1>20, <1>21, <1>22, <1>23, <1>24,
       <1>25, <1>26, <1>27, <1>28, <1>29, <1>30, <1>31, <1>32, <1>33, <1>34, <1>35,
       <1>36, <1>37
     DEF Next, Start, Gather, Deliver, Finish, Flush, Failure, Scan, Server

\* What a plan leaves out is in the record, and what is in the record is delivered.
LEMMA StepSkipped ==
  ASSUME TypeInv, GenInv, StageInv, mode = "ledger" \/ MarkerInv, GatherInv, RowInv, RowInv', SkippedIsDelivered,
         [Next]_vars
  PROVE  SkippedIsDelivered'
<1>0. /\ gen \in Nat /\ runGen \in Nat /\ scan.gen \in Nat
     /\ eml \in [UIDs -> Nat] /\ rest \in [UIDs -> Nat] /\ scratch \in [UIDs -> Nat]
     /\ stage \in [UIDs -> Stages]
     /\ present \subseteq used /\ used \subseteq UIDs
  BY LedgerAssumption DEF TypeInv, TypeOK, ScanType, Gens
<1>a. Running => runGen \in Gens
  BY DEF TypeInv, Running
<1> USE DEF SkippedIsDelivered, Delivered, TakenForDelivered
<1>1. ASSUME NEW m \in Modes, NEW fresh \in BOOLEAN, StartRun(m, fresh)
      PROVE  SkippedIsDelivered'
  BY <1>1, <1>0 DEF StartRun, server, destination, bucket, disk, GenInv, StageInv,
       Running
<1>2. CASE LoadLedger
  <2>0. runGen \in Gens
    BY <1>2, <1>a DEF LoadLedger, Running
  <2>1. \A u \in UIDs : stage'[u] = "skipped" => Row(u) \in UNION ledger
    BY <1>2, <1>0 DEF LoadLedger, Plan, Ingested
  <2>2. \A u \in UIDs : stage'[u] = "skipped" => Row(u) \in Known
    BY <2>1 DEF Known, Recorded
  <2>3. UNCHANGED <<gen, present, eml, rest, runGen, doubtful, used>>
    BY <1>2 DEF LoadLedger, server, destination, history
  <2> QED
    BY <2>2, <2>3, <1>0, <2>0 DEF RowInv, RowIsTrue, Delivered, TakenForDelivered, Row
<1>3. CASE Seed
  <2>0. runGen \in Gens
    BY <1>3, <1>a DEF Seed, Running
  <2>1. \A u \in UIDs : stage'[u] = "skipped" => <<runGen, u>> \in Known'
    BY <1>3, <1>0 DEF Seed, Plan, Ingested, Known, Recorded, Row
  <2>2. UNCHANGED <<gen, present, runGen>>
    BY <1>3 DEF Seed, server
  <2> QED
    BY <2>1, <2>2, <1>0, <2>0 DEF RowInv, RowIsTrue, Row
<1>4. CASE UploadSeed
  BY <1>4, <1>0 DEF UploadSeed, server, destination, disk, GenInv, StageInv, Running
<1>5. CASE ClearStale
  BY <1>5, <1>0 DEF ClearStale, server, destination, bucket, history, GenInv,
       StageInv, Running
<1>6. CASE WriteMarker
  <2>0. runGen \in Gens
    BY <1>6, <1>a DEF WriteMarker, Running
  <2>1. \A u \in UIDs : stage'[u] = "skipped" => u \in DoneUids
    BY <1>6, <1>0 DEF WriteMarker, Plan
  <2>2. mode = "legacy" /\ phase = "cleared" /\ MarkerInv
    BY <1>6 DEF WriteMarker, GatherInv
  <2>3. \A u \in DoneUids : Row(u) \in Known
    BY <2>2 DEF DoneUids, MarkerInv, Row, Known, Recorded
  <2>4. UNCHANGED <<gen, present, eml, rest, runGen, doubtful, used>>
    BY <1>6 DEF WriteMarker, server, destination, history
  <2> QED
    BY <2>1, <2>3, <2>4, <1>0, <2>0 DEF RowInv, RowIsTrue, Delivered, TakenForDelivered, Row
<1>7. ASSUME NEW u \in UIDs, Fetch(u) PROVE SkippedIsDelivered'
  BY <1>7, <1>0 DEF Fetch, At, Goto, StillRunning, Delivering, server, destination,
       bucket, history, GenInv, StageInv, Running
<1>8. ASSUME NEW u \in UIDs, MissingFile(u) PROVE SkippedIsDelivered'
  BY <1>8, <1>0 DEF MissingFile, At, Goto, StillRunning, Delivering, server,
       destination, bucket, disk, history, GenInv, StageInv, Running
<1>9. ASSUME NEW u \in UIDs, PushEml(u) PROVE SkippedIsDelivered'
  BY <1>9, <1>0 DEF PushEml, At, Goto, StillRunning, Delivering, server, bucket, disk,
       history, GenInv, StageInv, Running
<1>10. ASSUME NEW u \in UIDs, PushRest(u) PROVE SkippedIsDelivered'
  BY <1>10, <1>0 DEF PushRest, At, Goto, StillRunning, Delivering, server, bucket,
       disk, history, GenInv, StageInv, Running
<1>11. ASSUME NEW u \in UIDs, WriteRow(u) PROVE SkippedIsDelivered'
  BY <1>11, <1>0 DEF WriteRow, Fault, Row, At, Goto, StillRunning, Delivering, server,
       destination, bucket, history, GenInv, StageInv, Running
<1>12. ASSUME NEW u \in UIDs, EndRow(u) PROVE SkippedIsDelivered'
  BY <1>12, <1>0 DEF EndRow, Fault, Readable, At, Goto, StillRunning, Delivering,
       server, destination, bucket, GenInv, StageInv, Running
<1>13. ASSUME NEW u \in UIDs, Record(u) PROVE SkippedIsDelivered'
  BY <1>13, <1>0 DEF Record, Fault, Row, At, Goto, RemoveLocal, Delivering, server,
       destination, bucket, history, GenInv, StageInv, Running
<1>14. CASE Drain
  BY <1>14, <1>0 DEF Drain, Delivering, Abandoned, server, destination, disk, history,
       GenInv, StageInv, Running
<1>15. CASE FinalFlush
  BY <1>15, <1>0 DEF FinalFlush, RunOver, server, destination, disk, GenInv, StageInv,
       Running
<1>16. CASE FlushBegins
  BY <1>16, <1>0 DEF FlushBegins, Delivering, server, destination, bucket, disk,
       history, GenInv, StageInv, Running
<1>17. CASE FlushLands
  BY <1>17, <1>0 DEF FlushLands, server, destination, disk, GenInv, StageInv, Running
<1>18. CASE GatherFails
  BY <1>18, <1>0 DEF GatherFails, Fault, RunOver, server, destination, bucket, disk,
       history, GenInv, StageInv, Running
<1>19. ASSUME NEW u \in UIDs, FetchFails(u) PROVE SkippedIsDelivered'
  BY <1>19, <1>0 DEF FetchFails, Fault, At, Goto, StillRunning, Delivering, server,
       destination, bucket, history, GenInv, StageInv, Running
<1>20. ASSUME NEW u \in UIDs, BodyOmitted(u) PROVE SkippedIsDelivered'
  BY <1>20, <1>0 DEF BodyOmitted, Fault, Row, At, Goto, StillRunning, Delivering,
       server, destination, bucket, disk, GenInv, StageInv, Running
<1>21. ASSUME NEW u \in UIDs, GiveUp(u) PROVE SkippedIsDelivered'
  BY <1>21, <1>0 DEF GiveUp, Fault, Delivering, Goto, StillRunning, RemoveLocal,
       server, destination, bucket, history, GenInv, StageInv, Running
<1>22. CASE FlushFails
  BY <1>22, <1>0 DEF FlushFails, Fault, server, destination, bucket, disk, history,
       GenInv, StageInv, Running
<1>23. CASE FinalFlushFails
  BY <1>23, <1>0 DEF FinalFlushFails, Fault, RunOver, server, destination, bucket,
       disk, history, GenInv, StageInv, Running
<1>24. CASE Crash
  BY <1>24, <1>0 DEF Crash, Fault, RunOver, Abandoned, server, destination, disk,
       history, GenInv, StageInv, Running
<1>25. CASE OrphanLands
  BY <1>25, <1>0 DEF OrphanLands, server, destination, disk, run, GenInv, StageInv,
       Running
<1>26. CASE OrphanDies
  BY <1>26, <1>0 DEF OrphanDies, server, destination, disk, run, history, GenInv,
       StageInv, Running
<1>27. CASE Scan
  BY <1>27, <1>0, ScanKeeps DEF GenInv, StageInv, Running
<1>28. ASSUME NEW u \in UIDs, Arrive(u) PROVE SkippedIsDelivered'
  <2>1. UNCHANGED <<gen, eml, rest, stage, runGen, doubtful, phase>>
    BY <1>28 DEF Arrive, destination, run, history
  <2>2. u \notin used /\ present' = present \cup {u}
    BY <1>28 DEF Arrive
  <2>3. stage[u] = "skipped" => runGen # gen
    BY <2>2 DEF GenInv
  <2>4. \A v \in present : stage'[v] = "skipped" /\ runGen' = gen' => Delivered(v)' \/ TakenForDelivered(v)'
    BY <2>1
  <2> QED
    BY <2>1, <2>2, <2>3, <2>4
<1>29. ASSUME NEW u \in UIDs, Expunge(u) PROVE SkippedIsDelivered'
  BY <1>29, <1>0 DEF Expunge, destination, bucket, disk, run, history, GenInv,
       StageInv, Running
<1>30. CASE Reset
  BY <1>30, <1>0 DEF Reset, destination, bucket, disk, run, history, GenInv, StageInv,
       Running
<1>31. CASE UNCHANGED vars
  BY <1>31, <1>0 DEF vars, server, destination, bucket, disk, run, history, GenInv,
       StageInv, Running
<1> QED
  BY <1>1, <1>2, <1>3, <1>4, <1>5, <1>6, <1>7, <1>8, <1>9, <1>10, <1>11, <1>12, <1>13,
       <1>14, <1>15, <1>16, <1>17, <1>18, <1>19, <1>20, <1>21, <1>22, <1>23, <1>24,
       <1>25, <1>26, <1>27, <1>28, <1>29, <1>30, <1>31
     DEF Next, Start, Gather, Deliver, Finish, Flush, Failure, Server

\* A first run finds what an earlier version delivered, in whole or in part, and no
\* record of it.
LEMMA InitDelivery == Init => TypeInv /\ DeliveryInv
<1> SUFFICES ASSUME Init PROVE DeliveryInv
  BY InitType
<1>1. 1 \in Nat /\ \A u \in UIDs : eml[u] \in {0, 1} /\ rest[u] \in {0, 1} /\ (eml[u] = 1 => u \in used)
  BY DEF Init
<1>2. GenInv
  BY <1>1 DEF Init, GenInv, NoScan
<1>3. Readable = {} /\ Known = {}
  BY DEF Init, Readable, Known, Recorded, NoScan
<1>4. StaleInv /\ StageInv /\ GatherInv /\ MarkerInv /\ SkippedIsDelivered
  BY <1>3 DEF Init, StaleInv, StageInv, GatherInv, MarkerInv, SkippedIsDelivered, Running
<1> QED
  BY <1>2, <1>3, <1>4 DEF DeliveryInv, RowInv, SkipInv

\* Only the start of a run chooses its mode, and it has passed over nothing then.
LEMMA ModeIsChosen ==
  ASSUME TypeInv, [Next]_vars, mode' # mode
  PROVE  \A u \in UIDs : stage'[u] # "skipped"
<1> SUFFICES ASSUME NEW u \in UIDs PROVE stage'[u] # "skipped"
  OBVIOUS
<1>0. mode' # mode
  OBVIOUS
<1>1. ASSUME NEW m \in Modes, NEW fresh \in BOOLEAN, StartRun(m, fresh)
      PROVE  stage'[u] # "skipped"
  BY <1>1, <1>0 DEF StartRun, server, destination, bucket, disk
<1>2. CASE LoadLedger
  BY <1>2, <1>0 DEF LoadLedger, Ingested, Plan, server, destination, bucket, disk,
       history, Row
<1>3. CASE Seed
  BY <1>3, <1>0 DEF Seed, Seeds, DoubtfulSeeds, Row, Ingested, Plan, server,
       destination, bucket, disk
<1>4. CASE UploadSeed
  BY <1>4, <1>0 DEF UploadSeed, server, destination, disk
<1>5. CASE ClearStale
  BY <1>5, <1>0 DEF ClearStale, server, destination, bucket, history
<1>6. CASE WriteMarker
  BY <1>6, <1>0 DEF WriteMarker, DoneUids, Plan, server, destination, bucket, history
<1>7. ASSUME NEW v \in UIDs, Fetch(v) PROVE stage'[u] # "skipped"
  BY <1>7, <1>0 DEF Fetch, At, Goto, StillRunning, Delivering, server, destination,
       bucket, history
<1>8. ASSUME NEW v \in UIDs, MissingFile(v) PROVE stage'[u] # "skipped"
  BY <1>8, <1>0 DEF MissingFile, At, Goto, StillRunning, Delivering, server,
       destination, bucket, disk, history
<1>9. ASSUME NEW v \in UIDs, PushEml(v) PROVE stage'[u] # "skipped"
  BY <1>9, <1>0 DEF PushEml, At, Goto, StillRunning, Delivering, server, bucket, disk,
       history
<1>10. ASSUME NEW v \in UIDs, PushRest(v) PROVE stage'[u] # "skipped"
  BY <1>10, <1>0 DEF PushRest, At, Goto, StillRunning, Delivering, server, bucket,
       disk, history
<1>11. ASSUME NEW v \in UIDs, WriteRow(v) PROVE stage'[u] # "skipped"
  BY <1>11, <1>0 DEF WriteRow, Fault, Row, At, Goto, StillRunning, Delivering, server,
       destination, bucket, history
<1>12. ASSUME NEW v \in UIDs, EndRow(v) PROVE stage'[u] # "skipped"
  BY <1>12, <1>0 DEF EndRow, Fault, Readable, At, Goto, StillRunning, Delivering,
       server, destination, bucket
<1>13. ASSUME NEW v \in UIDs, Record(v) PROVE stage'[u] # "skipped"
  BY <1>13, <1>0 DEF Record, Fault, Row, At, Goto, RemoveLocal, Delivering, server,
       destination, bucket, history
<1>14. CASE Drain
  BY <1>14, <1>0 DEF Drain, Delivering, Abandoned, server, destination, disk, history
<1>15. CASE FinalFlush
  BY <1>15, <1>0 DEF FinalFlush, RunOver, server, destination, disk
<1>16. CASE FlushBegins
  BY <1>16, <1>0 DEF FlushBegins, Delivering, server, destination, bucket, disk,
       history
<1>17. CASE FlushLands
  BY <1>17, <1>0 DEF FlushLands, server, destination, disk
<1>18. CASE GatherFails
  BY <1>18, <1>0 DEF GatherFails, Fault, RunOver, server, destination, bucket, disk,
       history
<1>19. ASSUME NEW v \in UIDs, FetchFails(v) PROVE stage'[u] # "skipped"
  BY <1>19, <1>0 DEF FetchFails, Fault, At, Goto, StillRunning, Delivering, server,
       destination, bucket, history
<1>20. ASSUME NEW v \in UIDs, BodyOmitted(v) PROVE stage'[u] # "skipped"
  BY <1>20, <1>0 DEF BodyOmitted, Fault, Row, At, Goto, StillRunning, Delivering,
       server, destination, bucket, disk
<1>21. ASSUME NEW v \in UIDs, GiveUp(v) PROVE stage'[u] # "skipped"
  BY <1>21, <1>0 DEF GiveUp, Fault, Delivering, Goto, StillRunning, RemoveLocal,
       server, destination, bucket, history
<1>22. CASE FlushFails
  BY <1>22, <1>0 DEF FlushFails, Fault, server, destination, bucket, disk, history
<1>23. CASE FinalFlushFails
  BY <1>23, <1>0 DEF FinalFlushFails, Fault, RunOver, server, destination, bucket,
       disk, history
<1>24. CASE Crash
  BY <1>24, <1>0 DEF Crash, Fault, RunOver, Abandoned, server, destination, disk,
       history
<1>25. CASE OrphanLands
  BY <1>25, <1>0 DEF OrphanLands, server, destination, disk, run
<1>26. CASE OrphanDies
  BY <1>26, <1>0 DEF OrphanDies, server, destination, disk, run, history
<1>27. CASE Scan
  BY <1>27, <1>0, ScanKeeps
<1>28. ASSUME NEW v \in UIDs, Arrive(v) PROVE stage'[u] # "skipped"
  BY <1>28, <1>0 DEF Arrive, destination, bucket, disk, run, history
<1>29. ASSUME NEW v \in UIDs, Expunge(v) PROVE stage'[u] # "skipped"
  BY <1>29, <1>0 DEF Expunge, destination, bucket, disk, run, history
<1>30. CASE Reset
  BY <1>30, <1>0 DEF Reset, destination, bucket, disk, run, history
<1>31. CASE UNCHANGED vars
  BY <1>31, <1>0 DEF vars, server, destination, bucket, disk, run, history
<1> QED
  BY <1>1, <1>2, <1>3, <1>4, <1>5, <1>6, <1>7, <1>8, <1>9, <1>10, <1>11, <1>12, <1>13,
       <1>14, <1>15, <1>16, <1>17, <1>18, <1>19, <1>20, <1>21, <1>22, <1>23, <1>24,
       <1>25, <1>26, <1>27, <1>28, <1>29, <1>30, <1>31
     DEF Next, Start, Gather, Deliver, Finish, Flush, Failure, Server

\* A run that has just been started has passed over nothing yet.
LEMMA StepSkip ==
  ASSUME TypeInv, DeliveryInv, RowInv', [Next]_vars
  PROVE  SkipInv'
<1> SUFFICES ASSUME mode' = "ledger" \/ OneMode PROVE SkippedIsDelivered'
  BY DEF SkipInv
<1>1. CASE mode' = mode
  <2>1. SkippedIsDelivered /\ (mode = "ledger" \/ MarkerInv)
    BY <1>1 DEF DeliveryInv, SkipInv
  <2> QED
    BY <2>1, StepSkipped DEF DeliveryInv
<1>2. CASE mode' # mode
  <2>1. present' \subseteq UIDs
    BY StepType DEF TypeInv, TypeOK
  <2>2. \A u \in UIDs : stage'[u] # "skipped"
    BY <1>2, ModeIsChosen
  <2> QED
    BY <2>1, <2>2 DEF SkippedIsDelivered
<1> QED
  BY <1>1, <1>2

\* The invariant of delivery.
LEMMA DeliveryInvariance == Spec => [](TypeInv /\ DeliveryInv)
<1>1. TypeInv /\ DeliveryInv /\ [Next]_vars => (TypeInv /\ DeliveryInv)'
  <2> SUFFICES ASSUME TypeInv, DeliveryInv, [Next]_vars
               PROVE  TypeInv' /\ DeliveryInv'
    OBVIOUS
  <2>1. TypeInv'
    BY StepType
  <2>2. GenInv' /\ StaleInv' /\ StageInv' /\ GatherInv'
    BY StepGen, StepStale, StepStage, StepGather DEF DeliveryInv
  <2>3. OneMode => MarkerInv'
    BY StepMarker DEF DeliveryInv
  <2>4. RowInv'
    BY StepRow DEF DeliveryInv
  <2>5. SkipInv'
    BY <2>4, StepSkip
  <2>6. OneMode' <=> OneMode
    BY DEF OneMode
  <2> QED
    BY <2>1, <2>2, <2>3, <2>4, <2>5, <2>6 DEF DeliveryInv
<1> QED
  BY <1>1, InitDelivery, PTL DEF Spec

\* Whatever of a message of the current generation any copy of the record holds, the
\* ledger, an upload that outlived its run, the working copy, the checkpoint or its
\* unfinished line: the message is at the destination with its attachments, or is
\* gone from the server, or an .eml of it is there that a seed or a server that
\* omits bodies made the code take for the whole.
THEOREM RecordsAreTrue == Spec => []RecordedIsDelivered
<1>1. TypeInv /\ DeliveryInv => RecordedIsDelivered
  <2> SUFFICES ASSUME TypeInv, DeliveryInv, NEW u \in present, <<gen, u>> \in Recorded
               PROVE  Delivered(u) \/ TakenForDelivered(u)
    BY DEF RecordedIsDelivered
  <2>1. gen \in Gens /\ u \in UIDs
    BY DEF TypeInv, TypeOK
  <2>2. <<gen, u>> \in Known
    BY DEF Known
  <2> QED
    BY <2>1, <2>2 DEF DeliveryInv, RowInv, RowIsTrue
<1> QED
  BY <1>1, DeliveryInvariance, PTL

\* No run passes over a message that is still to be delivered, whatever was recorded
\* by runs that crashed, by scans beside it, or under an earlier generation; but for
\* those two exceptions, and for --legacy only where no run uses a ledger.
THEOREM NothingIsPassedOver == Spec => [](mode = "ledger" \/ OneMode => SkippedIsDelivered)
<1>1. TypeInv /\ DeliveryInv => (mode = "ledger" \/ OneMode => SkippedIsDelivered)
  BY DEF DeliveryInv, SkipInv
<1> QED
  BY <1>1, DeliveryInvariance, PTL

-----------------------------------------------------------------------------
(* What is durably recorded is not delivered again. *)

\* Of the memory a scan only takes away; what it puts into the working copy is known
\* to be its own.
LEMMA ScanTakesAway ==
  ASSUME TypeInv, Scan
  PROVE  /\ inLedger' \subseteq inLedger
         /\ working' \ scanned' \subseteq working \ scanned
         /\ inLedger \subseteq UNION ledger => inLedger' \subseteq UNION ledger'
         /\ inLedger \subseteq working => inLedger' \subseteq working'
<1>1. CASE UNCHANGED <<working, scanned, inLedger, ledger>>
  BY <1>1
<1>2. ASSUME NEW rows, NEW here \in BOOLEAN, OverwritesFile(rows, here), ledger' = ledger
      PROVE  /\ inLedger' \subseteq inLedger
             /\ working' \ scanned' \subseteq working \ scanned
             /\ inLedger \subseteq UNION ledger => inLedger' \subseteq UNION ledger'
             /\ inLedger \subseteq working => inLedger' \subseteq working'
  <2>1. \/ UNCHANGED <<working, scanned, inLedger>>
        \/ working' = rows /\ scanned' = scanned \cup (rows \ working) /\ inLedger' = inLedger \cap rows
    BY <1>2 DEF OverwritesFile
  <2>2. ledger' = ledger
    BY <1>2
  <2> QED
    BY <2>1, <2>2
<1>3. CASE ScanUploads
  <2>1. inLedger' = inLedger \cap UNION ledger' /\ UNCHANGED <<working, scanned>>
    BY <1>3 DEF ScanUploads
  <2> DEFINE U == UNION ledger'
  <2> HIDE DEF U
  <2>2. inLedger' \subseteq U /\ inLedger' \subseteq inLedger
    BY <2>1 DEF U
  <2> QED
    BY <2>1, <2>2 DEF U
<1>4. CASE ScanDownloads
  <2>1. OverwritesFile(scan.rows, scan.at = "reads here") /\ ledger' = ledger
    BY <1>4 DEF ScanDownloads
  <2> QED
    BY <2>1, <1>2
<1>5. CASE ScanSeeds
  <2>1. OverwritesFile(Seeds(scan.gen), scan.at = "finds none here") /\ ledger' = ledger
    BY <1>5 DEF ScanSeeds
  <2> QED
    BY <2>1, <1>2
<1>6. CASE ScanStarts \/ ScanReads \/ ScanFindsNone \/ ScanFails
  BY <1>6, <1>1 DEF ScanStarts, ScanReads, ScanFindsNone, ScanFails, history
<1> QED
  BY <1>3, <1>4, <1>5, <1>6 DEF Scan

\* The flusher of a ledger run is stopped before the run is over.
LEMMA StepUpload ==
  ASSUME TypeInv, UploadInv, [Next]_vars
  PROVE  UploadInv'
<1> USE DEF UploadInv
<1>1. ASSUME NEW m \in Modes, NEW fresh \in BOOLEAN, StartRun(m, fresh)
      PROVE  UploadInv'
  BY <1>1 DEF StartRun, server, destination, bucket, disk
<1>2. CASE LoadLedger
  BY <1>2 DEF LoadLedger, Ingested, Plan, server, destination, bucket, disk, history,
       Row
<1>3. CASE Seed
  BY <1>3 DEF Seed, Seeds, DoubtfulSeeds, Row, Ingested, Plan, server, destination,
       bucket, disk
<1>4. CASE UploadSeed
  BY <1>4 DEF UploadSeed, server, destination, disk
<1>5. CASE ClearStale
  BY <1>5 DEF ClearStale, server, destination, bucket, history
<1>6. CASE WriteMarker
  BY <1>6 DEF WriteMarker, DoneUids, Plan, server, destination, bucket, history
<1>7. ASSUME NEW u \in UIDs, Fetch(u) PROVE UploadInv'
  BY <1>7 DEF Fetch, At, Goto, StillRunning, Delivering, server, destination, bucket,
       history
<1>8. ASSUME NEW u \in UIDs, MissingFile(u) PROVE UploadInv'
  BY <1>8 DEF MissingFile, At, Goto, StillRunning, Delivering, server, destination,
       bucket, disk, history
<1>9. ASSUME NEW u \in UIDs, PushEml(u) PROVE UploadInv'
  BY <1>9 DEF PushEml, At, Goto, StillRunning, Delivering, server, bucket, disk,
       history
<1>10. ASSUME NEW u \in UIDs, PushRest(u) PROVE UploadInv'
  BY <1>10 DEF PushRest, At, Goto, StillRunning, Delivering, server, bucket, disk,
       history
<1>11. ASSUME NEW u \in UIDs, WriteRow(u) PROVE UploadInv'
  BY <1>11 DEF WriteRow, Fault, Row, At, Goto, StillRunning, Delivering, server,
       destination, bucket, history
<1>12. ASSUME NEW u \in UIDs, EndRow(u) PROVE UploadInv'
  BY <1>12 DEF EndRow, Fault, Readable, At, Goto, StillRunning, Delivering, server,
       destination, bucket
<1>13. ASSUME NEW u \in UIDs, Record(u) PROVE UploadInv'
  BY <1>13 DEF Record, Fault, Row, At, Goto, RemoveLocal, Delivering, server,
       destination, bucket, history
<1>14. CASE Drain
  BY <1>14 DEF Drain, Delivering, Abandoned, server, destination, disk, history
<1>15. CASE FinalFlush
  BY <1>15 DEF FinalFlush, RunOver, server, destination, disk
<1>16. CASE FlushBegins
  BY <1>16 DEF FlushBegins, Delivering, server, destination, bucket, disk, history
<1>17. CASE FlushLands
  BY <1>17 DEF FlushLands, server, destination, disk
<1>18. CASE GatherFails
  BY <1>18 DEF GatherFails, Fault, RunOver, server, destination, bucket, disk, history
<1>19. ASSUME NEW u \in UIDs, FetchFails(u) PROVE UploadInv'
  BY <1>19 DEF FetchFails, Fault, At, Goto, StillRunning, Delivering, server,
       destination, bucket, history
<1>20. ASSUME NEW u \in UIDs, BodyOmitted(u) PROVE UploadInv'
  BY <1>20 DEF BodyOmitted, Fault, Row, At, Goto, StillRunning, Delivering, server,
       destination, bucket, disk
<1>21. ASSUME NEW u \in UIDs, GiveUp(u) PROVE UploadInv'
  BY <1>21 DEF GiveUp, Fault, Delivering, Goto, StillRunning, RemoveLocal, server,
       destination, bucket, history
<1>22. CASE FlushFails
  BY <1>22 DEF FlushFails, Fault, server, destination, bucket, disk, history
<1>23. CASE FinalFlushFails
  BY <1>23 DEF FinalFlushFails, Fault, RunOver, server, destination, bucket, disk,
       history
<1>24. CASE Crash
  BY <1>24 DEF Crash, Fault, RunOver, Abandoned, server, destination, disk, history
<1>25. CASE OrphanLands
  BY <1>25 DEF OrphanLands, server, destination, disk, run
<1>26. CASE OrphanDies
  BY <1>26 DEF OrphanDies, server, destination, disk, run, history
<1>27. CASE Scan
  BY <1>27, ScanKeeps
<1>28. ASSUME NEW u \in UIDs, Arrive(u) PROVE UploadInv'
  BY <1>28 DEF Arrive, destination, bucket, disk, run, history
<1>29. ASSUME NEW u \in UIDs, Expunge(u) PROVE UploadInv'
  BY <1>29 DEF Expunge, destination, bucket, disk, run, history
<1>30. CASE Reset
  BY <1>30 DEF Reset, destination, bucket, disk, run, history
<1>31. CASE UNCHANGED vars
  BY <1>31 DEF vars, server, destination, bucket, disk, run, history
<1> QED
  BY <1>1, <1>2, <1>3, <1>4, <1>5, <1>6, <1>7, <1>8, <1>9, <1>10, <1>11, <1>12, <1>13,
       <1>14, <1>15, <1>16, <1>17, <1>18, <1>19, <1>20, <1>21, <1>22, <1>23, <1>24,
       <1>25, <1>26, <1>27, <1>28, <1>29, <1>30, <1>31
     DEF Next, Start, Gather, Deliver, Finish, Flush, Failure, Server

\* A row on the local disk is of no later generation than the run that is under way.
LEMMA StepLine ==
  ASSUME TypeInv, GenInv, GatherInv, LineInv, [Next]_vars
  PROVE  LineInv'
<1>0. /\ gen \in Nat /\ runGen \in Nat /\ scan.gen \in Nat
     /\ eml \in [UIDs -> Nat] /\ rest \in [UIDs -> Nat] /\ scratch \in [UIDs -> Nat]
     /\ stage \in [UIDs -> Stages]
     /\ present \subseteq used /\ used \subseteq UIDs
  BY LedgerAssumption DEF TypeInv, TypeOK, ScanType, Gens
<1>a. (\A g \in Gens : g \in Nat) /\ runGen <= gen
  BY LedgerAssumption DEF Gens, GenInv
<1>b. ASSUME UNCHANGED <<pushed, line>> PROVE Readable' = Readable
  BY <1>b DEF Readable
<1> USE DEF LineInv, LegacyRuns, Running, GatherInv
<1>1. ASSUME NEW m \in Modes, NEW fresh \in BOOLEAN, StartRun(m, fresh)
      PROVE  LineInv'
  <2>1. Readable' \subseteq Readable
    BY <1>1 DEF StartRun, Readable, disk
  <2> QED
    BY <1>1, <2>1, <1>0, <1>a DEF StartRun, server
<1>2. CASE LoadLedger
  BY <1>2, <1>0, <1>a, <1>b DEF LoadLedger, Ingested, Plan, server, destination,
       bucket, disk, history, Row
<1>3. CASE Seed
  BY <1>3, <1>0, <1>a, <1>b DEF Seed, Seeds, DoubtfulSeeds, Row, Ingested, Plan,
       server, destination, bucket, disk
<1>4. CASE UploadSeed
  BY <1>4, <1>0, <1>a, <1>b DEF UploadSeed, server, destination, disk
<1>5. CASE ClearStale
  <2>1. Readable' \subseteq Readable
    BY <1>5 DEF ClearStale, Readable
  <2> QED
    BY <1>5, <2>1, <1>0, <1>a DEF ClearStale, server
<1>6. CASE WriteMarker
  BY <1>6, <1>0, <1>a, <1>b DEF WriteMarker, DoneUids, Plan, server, destination,
       bucket, history
<1>7. ASSUME NEW u \in UIDs, Fetch(u) PROVE LineInv'
  BY <1>7, <1>0, <1>a, <1>b DEF Fetch, At, Goto, StillRunning, Delivering, server,
       destination, bucket, history
<1>8. ASSUME NEW u \in UIDs, MissingFile(u) PROVE LineInv'
  BY <1>8, <1>0, <1>a, <1>b DEF MissingFile, At, Goto, StillRunning, Delivering,
       server, destination, bucket, disk, history
<1>9. ASSUME NEW u \in UIDs, PushEml(u) PROVE LineInv'
  BY <1>9, <1>0, <1>a, <1>b DEF PushEml, At, Goto, StillRunning, Delivering, server,
       bucket, disk, history
<1>10. ASSUME NEW u \in UIDs, PushRest(u) PROVE LineInv'
  BY <1>10, <1>0, <1>a, <1>b DEF PushRest, At, Goto, StillRunning, Delivering, server,
       bucket, disk, history
<1>11. ASSUME NEW u \in UIDs, WriteRow(u) PROVE LineInv'
  <2>1. Readable' \subseteq Readable \cup {<<runGen, u>>}
    BY <1>11 DEF WriteRow, Readable, Row
  <2>2. runGen <= gen /\ UNCHANGED <<gen, phase, mode, runGen, marker>>
    BY <1>11 DEF WriteRow, StillRunning, server, GenInv
  <2> QED
    BY <2>1, <2>2, <1>0, <1>a
<1>12. ASSUME NEW u \in UIDs, EndRow(u) PROVE LineInv'
  <2>1. Readable' \subseteq Readable
    BY <1>12 DEF EndRow, Readable
  <2> QED
    BY <1>12, <2>1, <1>0, <1>a DEF EndRow, StillRunning, server
<1>13. ASSUME NEW u \in UIDs, Record(u) PROVE LineInv'
  BY <1>13, <1>0, <1>a, <1>b DEF Record, Fault, Row, At, Goto, RemoveLocal,
       Delivering, server, destination, bucket, history
<1>14. CASE Drain
  BY <1>14, <1>0, <1>a, <1>b DEF Drain, Delivering, Abandoned, server, destination,
       disk, history
<1>15. CASE FinalFlush
  BY <1>15, <1>0, <1>a, <1>b DEF FinalFlush, RunOver, server, destination, disk
<1>16. CASE FlushBegins
  BY <1>16, <1>0, <1>a, <1>b DEF FlushBegins, Delivering, server, destination, bucket,
       disk, history
<1>17. CASE FlushLands
  BY <1>17, <1>0, <1>a, <1>b DEF FlushLands, server, destination, disk
<1>18. CASE GatherFails
  BY <1>18, <1>0, <1>a, <1>b DEF GatherFails, Fault, RunOver, server, destination,
       bucket, disk, history
<1>19. ASSUME NEW u \in UIDs, FetchFails(u) PROVE LineInv'
  BY <1>19, <1>0, <1>a, <1>b DEF FetchFails, Fault, At, Goto, StillRunning,
       Delivering, server, destination, bucket, history
<1>20. ASSUME NEW u \in UIDs, BodyOmitted(u) PROVE LineInv'
  BY <1>20, <1>0, <1>a, <1>b DEF BodyOmitted, Fault, Row, At, Goto, StillRunning,
       Delivering, server, destination, bucket, disk
<1>21. ASSUME NEW u \in UIDs, GiveUp(u) PROVE LineInv'
  BY <1>21, <1>0, <1>a, <1>b DEF GiveUp, Fault, Delivering, Goto, StillRunning,
       RemoveLocal, server, destination, bucket, history
<1>22. CASE FlushFails
  BY <1>22, <1>0, <1>a, <1>b DEF FlushFails, Fault, server, destination, bucket, disk,
       history
<1>23. CASE FinalFlushFails
  BY <1>23, <1>0, <1>a, <1>b DEF FinalFlushFails, Fault, RunOver, server, destination,
       bucket, disk, history
<1>24. CASE Crash
  BY <1>24, <1>0, <1>a, <1>b DEF Crash, Fault, RunOver, Abandoned, server,
       destination, disk, history
<1>25. CASE OrphanLands
  BY <1>25, <1>0, <1>a, <1>b DEF OrphanLands, server, destination, disk, run
<1>26. CASE OrphanDies
  BY <1>26, <1>0, <1>a, <1>b DEF OrphanDies, server, destination, disk, run, history
<1>27. CASE Scan
  BY <1>27, <1>0, <1>a, <1>b, ScanKeeps
<1>28. ASSUME NEW u \in UIDs, Arrive(u) PROVE LineInv'
  BY <1>28, <1>0, <1>a, <1>b DEF Arrive, destination, bucket, disk, run, history
<1>29. ASSUME NEW u \in UIDs, Expunge(u) PROVE LineInv'
  BY <1>29, <1>0, <1>a, <1>b DEF Expunge, destination, bucket, disk, run, history
<1>30. CASE Reset
  BY <1>30, <1>0, <1>a, <1>b DEF Reset, destination, bucket, disk, run, history
<1>31. CASE UNCHANGED vars
  BY <1>31, <1>0, <1>a, <1>b DEF vars, server, destination, bucket, disk, run, history
<1> QED
  BY <1>1, <1>2, <1>3, <1>4, <1>5, <1>6, <1>7, <1>8, <1>9, <1>10, <1>11, <1>12, <1>13,
       <1>14, <1>15, <1>16, <1>17, <1>18, <1>19, <1>20, <1>21, <1>22, <1>23, <1>24,
       <1>25, <1>26, <1>27, <1>28, <1>29, <1>30, <1>31
     DEF Next, Start, Gather, Deliver, Finish, Flush, Failure, Server

\* The plan and the record stay apart, up to the record of each message.
LEMMA StepPlan ==
  ASSUME TypeInv, GatherInv, UploadInv, PlanInv, LedgerInv, [Next]_vars
  PROVE  PlanInv'
<1>0. /\ gen \in Nat /\ runGen \in Nat /\ scan.gen \in Nat
     /\ eml \in [UIDs -> Nat] /\ rest \in [UIDs -> Nat] /\ scratch \in [UIDs -> Nat]
     /\ stage \in [UIDs -> Stages]
     /\ present \subseteq used /\ used \subseteq UIDs
  BY LedgerAssumption DEF TypeInv, TypeOK, ScanType, Gens
<1>a. Running => runGen \in Gens
  BY DEF TypeInv, Running
<1>b. (mode \in {"ledger", "legacy"}) /\ \A u \in UIDs : Row(u) = <<runGen, u>> /\ Row(u)' = <<runGen', u>>
  BY LedgerAssumption DEF TypeInv, TypeOK, Row
<1>c. ASSUME UNCHANGED <<pushed, line>> PROVE Readable' = Readable
  BY <1>c DEF Readable
<1> USE DEF PlanInv, Ahead
<1>1. ASSUME NEW m \in Modes, NEW fresh \in BOOLEAN, StartRun(m, fresh)
      PROVE  PlanInv'
  BY <1>1 DEF StartRun
<1>2. CASE LoadLedger
  <2>1. mode' = "ledger" /\ working' = UNION ledger /\ UNCHANGED <<runGen, inLedger>>
        /\ \A u \in UIDs : stage'[u] \in {"none", "skipped"} \/ (stage'[u] = "pending" /\ Row(u) \notin UNION ledger)
    BY <1>2 DEF LoadLedger, Plan, Ingested, history
  <2> DEFINE U == UNION ledger
  <2>2. inLedger \subseteq U
    BY DEF LedgerInv
  <2> HIDE DEF U
  <2> QED
    BY <2>1, <2>2, <1>b DEF U
<1>3. CASE Seed
  <2>1. mode' = "ledger" /\ UNCHANGED <<runGen, inLedger>>
        /\ \A u \in UIDs : stage'[u] \in {"none", "skipped"} \/ (stage'[u] = "pending" /\ Row(u) \notin working')
    BY <1>3 DEF Seed, Plan, Ingested, Row
  <2>2. inLedger = {}
    BY <1>3 DEF Seed, LedgerInv
  <2> QED
    BY <2>1, <2>2, <1>b
<1>4. CASE UploadSeed
  <2>1. UNCHANGED <<mode, runGen, stage, working, scanned>> /\ mode = "ledger" /\ phase = "seeding"
        /\ inLedger' = inLedger \cup (working \ scanned)
    BY <1>4 DEF UploadSeed, GatherInv
  <2> QED
    BY <2>1, <1>b
<1>5. CASE ClearStale
  BY <1>5 DEF ClearStale
<1>6. CASE WriteMarker
  <2>1. mode = "legacy" /\ UNCHANGED <<mode, runGen, pushed, line>> /\ runGen \in Gens
        /\ \A u \in UIDs : stage'[u] = "pending" => u \notin DoneUids
    BY <1>6, <1>a DEF WriteMarker, GatherInv, Plan, Running
  <2>2. \A u \in UIDs : stage'[u] \in {"none", "skipped", "pending"}
    BY <1>6 DEF WriteMarker, Plan
  <2>3. Readable' = Readable
    BY <2>1, <1>c
  <2> QED
    BY <2>1, <2>2, <2>3, <1>b DEF DoneUids
<1>7. ASSUME NEW u \in UIDs, Fetch(u) PROVE PlanInv'
  BY <1>7, <1>0, <1>b, <1>c DEF Fetch, At, Goto, StillRunning, Delivering, server,
       destination, bucket, history
<1>8. ASSUME NEW u \in UIDs, MissingFile(u) PROVE PlanInv'
  BY <1>8, <1>0, <1>b, <1>c DEF MissingFile, At, Goto, StillRunning, Delivering,
       server, destination, bucket, disk, history
<1>9. ASSUME NEW u \in UIDs, PushEml(u) PROVE PlanInv'
  BY <1>9, <1>0, <1>b, <1>c DEF PushEml, At, Goto, StillRunning, Delivering, server,
       bucket, disk, history
<1>10. ASSUME NEW u \in UIDs, PushRest(u) PROVE PlanInv'
  BY <1>10, <1>0, <1>b, <1>c DEF PushRest, At, Goto, StillRunning, Delivering, server,
       bucket, disk, history
<1>11. ASSUME NEW u \in UIDs, WriteRow(u) PROVE PlanInv'
  <2>1. Readable' \subseteq Readable \cup {<<runGen, u>>}
    BY <1>11 DEF WriteRow, Readable, Row
  <2>2. /\ stage[u] = "pushed" /\ stage'[u] \in {"lined", "noted"}
        /\ \A v \in UIDs \ {u} : stage'[v] = stage[v]
        /\ UNCHANGED <<phase, mode, runGen, working, scanned, inLedger>>
    BY <1>11, <1>0 DEF WriteRow, At, Goto, StillRunning, history
  <2> SUFFICES ASSUME NEW v \in UIDs
               PROVE  /\ mode = "ledger" /\ phase \in {"seeding", "delivering", "draining"}
                           /\ stage'[v] \in Ahead \cup {"lined", "noted"}
                         => Row(v) \notin working \ scanned /\ Row(v) \notin inLedger
                      /\ mode = "legacy" /\ phase \in {"delivering", "draining"} /\ stage'[v] \in Ahead
                         => Row(v) \notin Readable'
    BY <2>2, <1>b
  <2>3. CASE v = u
    BY <2>2, <2>3
  <2>4. CASE v # u
    <3>1. stage'[v] = stage[v] /\ Row(v) # <<runGen, u>>
      BY <2>2, <2>4, <1>b
    <3> QED
      BY <2>1, <3>1
  <2> QED
    BY <2>3, <2>4
<1>12. ASSUME NEW u \in UIDs, EndRow(u) PROVE PlanInv'
  <2>1. Readable' \subseteq Readable
    BY <1>12 DEF EndRow, Readable
  <2>2. /\ stage[u] = "lined" /\ stage' = [stage EXCEPT ![u] = "noted"]
        /\ UNCHANGED <<phase, mode, runGen, working, scanned, inLedger>>
    BY <1>12 DEF EndRow, At, Goto, StillRunning
  <2> QED
    BY <2>1, <2>2, <1>0, <1>b
<1>13. ASSUME NEW u \in UIDs, Record(u) PROVE PlanInv'
  <2>1. Readable' = Readable
    BY <1>13, <1>c DEF Record
  <2>2. /\ stage[u] = "noted" /\ stage' = [stage EXCEPT ![u] = "done"]
        /\ UNCHANGED <<phase, mode, runGen, scanned, inLedger>>
        /\ working' \subseteq working \cup {<<runGen, u>>}
    BY <1>13 DEF Record, At, Goto, Row, history
  <2> QED
    BY <2>1, <2>2, <1>0, <1>b
<1>14. CASE Drain
  BY <1>14, <1>0, <1>b, <1>c DEF Drain, Delivering, Abandoned, server, destination,
       disk, history
<1>15. CASE FinalFlush
  BY <1>15, <1>0, <1>b, <1>c DEF FinalFlush, RunOver, server, destination, disk
<1>16. CASE FlushBegins
  BY <1>16, <1>0, <1>b, <1>c DEF FlushBegins, Delivering, server, destination, bucket,
       disk, history
<1>17. CASE FlushLands
  <2>1. Readable' = Readable
    BY <1>17, <1>c DEF FlushLands, disk
  <2>2. UNCHANGED <<phase, mode, runGen, stage, working, scanned>>
        /\ inLedger' \subseteq inLedger \cup (working \ scanned)
    <3> DEFINE U == UNION upload
    <3> HIDE DEF U
    <3>1. inLedger' = inLedger \cup ((U \cap working) \ scanned)
      BY <1>17, Zenon DEF FlushLands, U
    <3>2. UNCHANGED <<phase, mode, runGen, stage, working, scanned>>
      BY <1>17 DEF FlushLands
    <3> QED
      BY <3>1, <3>2
  <2> QED
    BY <2>1, <2>2, <1>b
<1>18. CASE GatherFails
  BY <1>18, <1>0, <1>b, <1>c DEF GatherFails, Fault, RunOver, server, destination,
       bucket, disk, history
<1>19. ASSUME NEW u \in UIDs, FetchFails(u) PROVE PlanInv'
  BY <1>19, <1>0, <1>b, <1>c DEF FetchFails, Fault, At, Goto, StillRunning,
       Delivering, server, destination, bucket, history
<1>20. ASSUME NEW u \in UIDs, BodyOmitted(u) PROVE PlanInv'
  BY <1>20, <1>0, <1>b, <1>c DEF BodyOmitted, Fault, At, Goto, StillRunning,
       Delivering, server, destination, bucket, disk
<1>21. ASSUME NEW u \in UIDs, GiveUp(u) PROVE PlanInv'
  BY <1>21, <1>0, <1>b, <1>c DEF GiveUp, Fault, Delivering, Goto, StillRunning,
       RemoveLocal, server, destination, bucket, history
<1>22. CASE FlushFails
  BY <1>22, <1>0, <1>b, <1>c DEF FlushFails, Fault, server, destination, bucket, disk,
       history
<1>23. CASE FinalFlushFails
  BY <1>23, <1>0, <1>b, <1>c DEF FinalFlushFails, Fault, RunOver, server, destination,
       bucket, disk, history
<1>24. CASE Crash
  BY <1>24, <1>0, <1>b, <1>c DEF Crash, Fault, RunOver, Abandoned, server,
       destination, disk, history
<1>25. CASE OrphanLands
  BY <1>25, <1>0, <1>b, <1>c DEF OrphanLands, server, destination, disk, run
<1>26. CASE OrphanDies
  BY <1>26, <1>0, <1>b, <1>c DEF OrphanDies, server, destination, disk, run, history
<1>27. CASE Scan
  <2>1. UNCHANGED <<phase, mode, runGen, stage, pushed, line>>
    BY <1>27, ScanKeeps
  <2>2. inLedger' \subseteq inLedger /\ working' \ scanned' \subseteq working \ scanned
    BY <1>27, ScanTakesAway
  <2>3. Readable' = Readable
    BY <2>1, <1>c
  <2> QED
    BY <2>1, <2>2, <2>3, <1>b
<1>28. ASSUME NEW u \in UIDs, Arrive(u) PROVE PlanInv'
  BY <1>28, <1>0, <1>b, <1>c DEF Arrive, destination, bucket, disk, run, history
<1>29. ASSUME NEW u \in UIDs, Expunge(u) PROVE PlanInv'
  BY <1>29, <1>0, <1>b, <1>c DEF Expunge, destination, bucket, disk, run, history
<1>30. CASE Reset
  BY <1>30, <1>0, <1>b, <1>c DEF Reset, destination, bucket, disk, run, history
<1>31. CASE UNCHANGED vars
  BY <1>31, <1>0, <1>b, <1>c DEF vars, server, destination, bucket, disk, run, history
<1> QED
  BY <1>1, <1>2, <1>3, <1>4, <1>5, <1>6, <1>7, <1>8, <1>9, <1>10, <1>11, <1>12, <1>13,
       <1>14, <1>15, <1>16, <1>17, <1>18, <1>19, <1>20, <1>21, <1>22, <1>23, <1>24,
       <1>25, <1>26, <1>27, <1>28, <1>29, <1>30, <1>31
     DEF Next, Start, Gather, Deliver, Finish, Flush, Failure, Server

\* What imports got into the ledger is found again by every run that reads it.
LEMMA StepLedger ==
  ASSUME TypeInv, GatherInv, UploadInv, LedgerInv, [Next]_vars
  PROVE  LedgerInv'
<1> USE DEF LedgerInv
<1>1. ASSUME NEW m \in Modes, NEW fresh \in BOOLEAN, StartRun(m, fresh)
      PROVE  LedgerInv'
  BY <1>1 DEF StartRun, server, destination, bucket, disk
<1>2. CASE LoadLedger
  <2>1. working' = UNION ledger /\ UNCHANGED <<ledger, upload, inLedger>>
    BY <1>2 DEF LoadLedger, bucket, history
  <2> DEFINE U == UNION ledger
  <2> HIDE DEF U
  <2>2. working' = U /\ inLedger \subseteq U /\ U' = U
    BY <2>1 DEF U
  <2> QED
    BY <2>1, <2>2 DEF U
<1>3. CASE Seed
  <2>1. inLedger = {} /\ UNCHANGED <<upload, inLedger>>
    BY <1>3 DEF Seed, LedgerInv
  <2> QED
    BY <2>1
<1>4. CASE UploadSeed
  <2>1. /\ ledger' = {working} /\ UNCHANGED <<working, upload>> /\ inLedger \subseteq working
        /\ inLedger' = inLedger \cup (working \ scanned)
        /\ upload = {}
    BY <1>4 DEF UploadSeed, GatherInv, UploadInv
  <2>2. UNION ledger' = working
    BY <2>1
  <2> QED
    BY <2>1, <2>2
<1>5. CASE ClearStale
  BY <1>5 DEF ClearStale, server, destination, bucket, history, GatherInv
<1>6. CASE WriteMarker
  BY <1>6 DEF WriteMarker, server, destination, bucket, history, GatherInv
<1>7. ASSUME NEW u \in UIDs, Fetch(u) PROVE LedgerInv'
  BY <1>7 DEF Fetch, At, Goto, StillRunning, Delivering, server, destination, bucket,
       history
<1>8. ASSUME NEW u \in UIDs, MissingFile(u) PROVE LedgerInv'
  BY <1>8 DEF MissingFile, At, Goto, StillRunning, Delivering, server, destination,
       bucket, disk, history
<1>9. ASSUME NEW u \in UIDs, PushEml(u) PROVE LedgerInv'
  BY <1>9 DEF PushEml, At, Goto, StillRunning, Delivering, server, bucket, disk,
       history
<1>10. ASSUME NEW u \in UIDs, PushRest(u) PROVE LedgerInv'
  BY <1>10 DEF PushRest, At, Goto, StillRunning, Delivering, server, bucket, disk,
       history
<1>11. ASSUME NEW u \in UIDs, WriteRow(u) PROVE LedgerInv'
  BY <1>11 DEF WriteRow, Fault, At, Goto, StillRunning, Delivering, server,
       destination, bucket, history
<1>12. ASSUME NEW u \in UIDs, EndRow(u) PROVE LedgerInv'
  BY <1>12 DEF EndRow, Fault, At, Goto, StillRunning, Delivering, server, destination,
       bucket
<1>13. ASSUME NEW u \in UIDs, Record(u) PROVE LedgerInv'
  <2>1. UNCHANGED <<ledger, upload, inLedger, phase, mode>> /\ working \subseteq working'
    BY <1>13 DEF Record, bucket, history
  <2> QED
    BY <2>1
<1>14. CASE Drain
  BY <1>14 DEF Drain, Delivering, Abandoned, server, destination, disk, history
<1>15. CASE FinalFlush
  <2>1. phase' = "off" /\ upload' = {}
    BY <1>15 DEF FinalFlush, RunOver
  <2>2. CASE mode = "ledger"
    <3>1. ledger' = {working} /\ inLedger' = inLedger \cup (working \ scanned) /\ inLedger \subseteq working
      BY <1>15, <2>2 DEF FinalFlush
    <3>2. UNION ledger' = working
      BY <3>1
    <3> QED
      BY <2>1, <3>1, <3>2
  <2>3. CASE mode # "ledger"
    <3>1. UNCHANGED <<ledger, inLedger>>
      BY <1>15, <2>3 DEF FinalFlush
    <3> QED
      BY <2>1, <3>1
  <2> QED
    BY <2>2, <2>3
<1>16. CASE FlushBegins
  <2>1. upload' = {working} /\ inLedger \subseteq working /\ UNCHANGED <<ledger, working, inLedger>>
    BY <1>16 DEF FlushBegins, Delivering, bucket, history
  <2>2. UNION ledger' = UNION ledger
    BY <2>1
  <2> QED
    BY <2>1, <2>2
<1>17. CASE FlushLands
  <2>1. /\ ledger' = upload /\ upload' = {} /\ upload # {} /\ UNCHANGED working
        /\ inLedger' = inLedger \cup (((UNION upload) \cap working) \ scanned)
        /\ inLedger \subseteq working
    BY <1>17 DEF FlushLands, UploadInv
  <2> DEFINE U == UNION upload
  <2>2. PICK rows \in upload : TRUE
    BY <2>1
  <2>3. inLedger \subseteq rows /\ rows \subseteq U
    BY <2>2
  <2>4. UNION ledger' = U
    BY <2>1
  <2> HIDE DEF U
  <2>5. inLedger' = inLedger \cup ((U \cap working) \ scanned)
    BY <2>1, Zenon DEF U
  <2>6. inLedger \subseteq U
    BY <2>3
  <2>7. inLedger' \subseteq U /\ inLedger' \subseteq working
    BY <2>1, <2>5, <2>6
  <2> QED
    BY <2>1, <2>4, <2>7
<1>18. CASE GatherFails
  BY <1>18 DEF GatherFails, Fault, RunOver, server, destination, bucket, disk, history
<1>19. ASSUME NEW u \in UIDs, FetchFails(u) PROVE LedgerInv'
  BY <1>19 DEF FetchFails, Fault, At, Goto, StillRunning, Delivering, server,
       destination, bucket, history
<1>20. ASSUME NEW u \in UIDs, BodyOmitted(u) PROVE LedgerInv'
  BY <1>20 DEF BodyOmitted, Fault, At, Goto, StillRunning, Delivering, server,
       destination, bucket, disk
<1>21. ASSUME NEW u \in UIDs, GiveUp(u) PROVE LedgerInv'
  BY <1>21 DEF GiveUp, Fault, Delivering, Goto, StillRunning, server, destination,
       bucket, history
<1>22. CASE FlushFails
  BY <1>22 DEF FlushFails, Fault, server, destination, bucket, disk, history
<1>23. CASE FinalFlushFails
  BY <1>23 DEF FinalFlushFails, Fault, RunOver, server, destination, bucket, disk,
       history
<1>24. CASE Crash
  BY <1>24 DEF Crash, Fault, RunOver, Abandoned, server, destination, disk, history
<1>25. CASE OrphanLands
  <2>1. ledger' = orphan /\ inLedger' = inLedger \cap UNION orphan /\ UNCHANGED <<phase, mode, working, upload>>
    BY <1>25 DEF OrphanLands, run
  <2> DEFINE U == UNION orphan
  <2>2. UNION ledger' = U
    BY <2>1
  <2> HIDE DEF U
  <2>3. inLedger' = inLedger \cap U
    BY <2>1 DEF U
  <2> QED
    BY <2>1, <2>2, <2>3
<1>26. CASE OrphanDies
  BY <1>26 DEF OrphanDies, server, destination, disk, run, history
<1>27. CASE Scan
  <2>1. UNCHANGED <<phase, mode, upload>>
    BY <1>27, ScanKeeps
  <2> QED
    BY <1>27, <2>1, ScanTakesAway
<1>28. ASSUME NEW u \in UIDs, Arrive(u) PROVE LedgerInv'
  BY <1>28 DEF Arrive, destination, bucket, disk, run, history
<1>29. ASSUME NEW u \in UIDs, Expunge(u) PROVE LedgerInv'
  BY <1>29 DEF Expunge, destination, bucket, disk, run, history
<1>30. CASE Reset
  BY <1>30 DEF Reset, destination, bucket, disk, run, history
<1>31. CASE UNCHANGED vars
  BY <1>31 DEF vars, server, destination, bucket, disk, run, history
<1> QED
  BY <1>1, <1>2, <1>3, <1>4, <1>5, <1>6, <1>7, <1>8, <1>9, <1>10, <1>11, <1>12, <1>13,
       <1>14, <1>15, <1>16, <1>17, <1>18, <1>19, <1>20, <1>21, <1>22, <1>23, <1>24,
       <1>25, <1>26, <1>27, <1>28, <1>29, <1>30, <1>31
     DEF Next, Start, Gather, Deliver, Finish, Flush, Failure, Server

\* What --legacy has on its disk stays there, until its generation is over.
LEMMA StepCheckpoint ==
  ASSUME TypeInv, GenInv, GatherInv, LineInv, CheckpointInv, [Next]_vars
  PROVE  CheckpointInv'
<1>0. /\ gen \in Nat /\ runGen \in Nat /\ scan.gen \in Nat
     /\ eml \in [UIDs -> Nat] /\ rest \in [UIDs -> Nat] /\ scratch \in [UIDs -> Nat]
     /\ stage \in [UIDs -> Stages]
     /\ present \subseteq used /\ used \subseteq UIDs
  BY LedgerAssumption DEF TypeInv, TypeOK, ScanType, Gens
<1>a. (\A g \in Gens : g \in Nat) /\ runGen <= gen
  BY LedgerAssumption DEF Gens, GenInv
<1>b. LastGen \in Nat /\ LastGen <= gen
  BY <1>0, <1>a DEF LastGen
<1>c. ASSUME phase' = "off", UNCHANGED <<gen, mode, pushed, marker, inCheckpoint>>
      PROVE  CheckpointInv'
  <2>1. LastGen' = gen
    BY <1>c DEF LastGen, LegacyRuns, Running
  <2> QED
    BY <2>1, <1>0, <1>a, <1>b, <1>c DEF CheckpointInv
<1>d. ASSUME UNCHANGED <<gen, mode, runGen, pushed, marker, inCheckpoint>>, phase' # "off" <=> phase # "off"
      PROVE  CheckpointInv'
  <2>1. LastGen' = LastGen
    BY <1>d DEF LastGen, LegacyRuns, Running
  <2> QED
    BY <2>1, <1>d DEF CheckpointInv
<1>1. ASSUME NEW m \in Modes, NEW fresh \in BOOLEAN, StartRun(m, fresh)
      PROVE  CheckpointInv'
  <2>1. phase = "off" /\ phase' = "listed" /\ runGen' = gen /\ UNCHANGED gen
        /\ (inCheckpoint' = {} \/ UNCHANGED <<pushed, marker, inCheckpoint>>)
    BY <1>1 DEF StartRun, server, disk
  <2>2. LastGen = gen /\ LastGen' = gen
    BY <2>1 DEF LastGen, LegacyRuns, Running
  <2> QED
    BY <2>1, <2>2 DEF CheckpointInv
<1>2. CASE LoadLedger
  <2>1. UNCHANGED <<gen, mode, runGen, pushed, marker, inCheckpoint>> /\ (phase' # "off" <=> phase # "off")
    BY <1>2 DEF LoadLedger, server, disk, history
  <2> QED
    BY <2>1, <1>d
<1>3. CASE Seed
  <2>1. UNCHANGED <<gen, mode, runGen, pushed, marker, inCheckpoint>> /\ (phase' # "off" <=> phase # "off")
    BY <1>3 DEF Seed, server, disk
  <2> QED
    BY <2>1, <1>d
<1>4. CASE UploadSeed
  <2>1. UNCHANGED <<gen, mode, runGen, pushed, marker, inCheckpoint>> /\ (phase' # "off" <=> phase # "off")
    BY <1>4 DEF UploadSeed, server, disk
  <2> QED
    BY <2>1, <1>d
<1>5. CASE ClearStale
  <2>1. /\ phase = "listed" /\ phase' = "cleared" /\ mode = "legacy"
        /\ UNCHANGED <<gen, runGen, inCheckpoint, marker, mode>>
        /\ pushed' = pushed \/ marker \notin {0, runGen}
    BY <1>5 DEF ClearStale, server, history
  <2>2. LastGen = runGen /\ LastGen' = runGen
    BY <2>1 DEF LastGen, LegacyRuns, Running
  <2> QED
    BY <2>1, <2>2 DEF CheckpointInv
<1>6. CASE WriteMarker
  <2>1. /\ phase = "cleared" /\ phase' = "delivering" /\ mode = "legacy" /\ marker' = runGen
        /\ UNCHANGED <<gen, runGen, inCheckpoint, pushed, mode>>
    BY <1>6 DEF WriteMarker, GatherInv, server, history
  <2>2. LastGen = runGen /\ LastGen' = runGen
    BY <2>1 DEF LastGen, LegacyRuns, Running
  <2> QED
    BY <2>1, <2>2 DEF CheckpointInv
<1>7. ASSUME NEW u \in UIDs, Fetch(u) PROVE CheckpointInv'
  <2>1. UNCHANGED <<gen, mode, runGen, pushed, marker, inCheckpoint>> /\ (phase' # "off" <=> phase # "off")
    BY <1>7 DEF Fetch, At, StillRunning, Delivering, server, history
  <2> QED
    BY <2>1, <1>d
<1>8. ASSUME NEW u \in UIDs, MissingFile(u) PROVE CheckpointInv'
  <2>1. UNCHANGED <<gen, mode, runGen, pushed, marker, inCheckpoint>> /\ (phase' # "off" <=> phase # "off")
    BY <1>8 DEF MissingFile, At, StillRunning, Delivering, server, disk, history
  <2> QED
    BY <2>1, <1>d
<1>9. ASSUME NEW u \in UIDs, PushEml(u) PROVE CheckpointInv'
  <2>1. UNCHANGED <<gen, mode, runGen, pushed, marker, inCheckpoint>> /\ (phase' # "off" <=> phase # "off")
    BY <1>9 DEF PushEml, At, StillRunning, Delivering, server, disk, history
  <2> QED
    BY <2>1, <1>d
<1>10. ASSUME NEW u \in UIDs, PushRest(u) PROVE CheckpointInv'
  <2>1. UNCHANGED <<gen, mode, runGen, pushed, marker, inCheckpoint>> /\ (phase' # "off" <=> phase # "off")
    BY <1>10 DEF PushRest, At, StillRunning, Delivering, server, disk, history
  <2> QED
    BY <2>1, <1>d
<1>11. ASSUME NEW u \in UIDs, WriteRow(u) PROVE CheckpointInv'
  <2>1. UNCHANGED <<gen, mode, runGen, pushed, marker, inCheckpoint>> /\ (phase' # "off" <=> phase # "off")
    BY <1>11 DEF WriteRow, At, StillRunning, Delivering, server, history
  <2> QED
    BY <2>1, <1>d
<1>12. ASSUME NEW u \in UIDs, EndRow(u) PROVE CheckpointInv'
  <2>1. /\ phase = "delivering" /\ UNCHANGED <<gen, runGen, marker, mode, phase>> /\ pushed \subseteq pushed'
        /\ \/ UNCHANGED inCheckpoint
           \/ mode = "legacy" /\ inCheckpoint' = inCheckpoint \cup UNION line /\ pushed' = Readable
    BY <1>12 DEF EndRow, At, Delivering, StillRunning, server, Readable
  <2>2. LastGen' = LastGen
    BY <2>1 DEF LastGen, LegacyRuns, Running
  <2>3. CASE UNCHANGED inCheckpoint
    BY <2>1, <2>2, <2>3 DEF CheckpointInv
  <2>4. CASE mode = "legacy" /\ inCheckpoint' = inCheckpoint \cup UNION line /\ pushed' = Readable
    <3>1. LastGen = runGen /\ marker = runGen
      BY <2>1, <2>4 DEF LastGen, LegacyRuns, Running, LineInv
    <3>2. UNION line \subseteq Readable
      BY DEF Readable
    <3>3. \A g \in Gens, u_1 \in UIDs : <<g, u_1>> \in Readable => g <= runGen
      BY <2>1 DEF LineInv, Running
    <3> QED
      BY <2>1, <2>2, <2>4, <3>1, <3>2, <3>3 DEF CheckpointInv
  <2> QED
    BY <2>1, <2>3, <2>4
<1>13. ASSUME NEW u \in UIDs, Record(u) PROVE CheckpointInv'
  <2>1. UNCHANGED <<gen, mode, runGen, pushed, marker, inCheckpoint>> /\ (phase' # "off" <=> phase # "off")
    BY <1>13 DEF Record, At, Delivering, server, history
  <2> QED
    BY <2>1, <1>d
<1>14. CASE Drain
  <2>1. UNCHANGED <<gen, mode, runGen, pushed, marker, inCheckpoint>> /\ (phase' # "off" <=> phase # "off")
    BY <1>14 DEF Drain, Delivering, server, disk, history
  <2> QED
    BY <2>1, <1>d
<1>15. CASE FinalFlush
  <2>1. phase' = "off" /\ UNCHANGED <<gen, mode, pushed, marker, inCheckpoint>>
    BY <1>15 DEF FinalFlush, RunOver, server, disk, history
  <2> QED
    BY <2>1, <1>c
<1>16. CASE FlushBegins
  <2>1. UNCHANGED <<gen, mode, runGen, pushed, marker, inCheckpoint>> /\ (phase' # "off" <=> phase # "off")
    BY <1>16 DEF FlushBegins, Delivering, server, disk, history
  <2> QED
    BY <2>1, <1>d
<1>17. CASE FlushLands
  <2>1. UNCHANGED <<gen, mode, runGen, pushed, marker, inCheckpoint>> /\ (phase' # "off" <=> phase # "off")
    BY <1>17 DEF FlushLands, server, disk
  <2> QED
    BY <2>1, <1>d
<1>18. CASE GatherFails
  <2>1. phase' = "off" /\ UNCHANGED <<gen, mode, pushed, marker, inCheckpoint>>
    BY <1>18 DEF GatherFails, RunOver, server, disk, history
  <2> QED
    BY <2>1, <1>c
<1>19. ASSUME NEW u \in UIDs, FetchFails(u) PROVE CheckpointInv'
  <2>1. UNCHANGED <<gen, mode, runGen, pushed, marker, inCheckpoint>> /\ (phase' # "off" <=> phase # "off")
    BY <1>19 DEF FetchFails, At, StillRunning, Delivering, server, history
  <2> QED
    BY <2>1, <1>d
<1>20. ASSUME NEW u \in UIDs, BodyOmitted(u) PROVE CheckpointInv'
  <2>1. UNCHANGED <<gen, mode, runGen, pushed, marker, inCheckpoint>> /\ (phase' # "off" <=> phase # "off")
    BY <1>20 DEF BodyOmitted, At, StillRunning, Delivering, server, disk
  <2> QED
    BY <2>1, <1>d
<1>21. ASSUME NEW u \in UIDs, GiveUp(u) PROVE CheckpointInv'
  <2>1. UNCHANGED <<gen, mode, runGen, pushed, marker, inCheckpoint>> /\ (phase' # "off" <=> phase # "off")
    BY <1>21 DEF GiveUp, Delivering, StillRunning, server, history
  <2> QED
    BY <2>1, <1>d
<1>22. CASE FlushFails
  <2>1. UNCHANGED <<gen, mode, runGen, pushed, marker, inCheckpoint>> /\ (phase' # "off" <=> phase # "off")
    BY <1>22 DEF FlushFails, server, disk, history
  <2> QED
    BY <2>1, <1>d
<1>23. CASE FinalFlushFails
  <2>1. phase' = "off" /\ UNCHANGED <<gen, mode, pushed, marker, inCheckpoint>>
    BY <1>23 DEF FinalFlushFails, RunOver, server, disk, history
  <2> QED
    BY <2>1, <1>c
<1>24. CASE Crash
  <2>1. phase' = "off" /\ UNCHANGED <<gen, mode, pushed, marker, inCheckpoint>>
    BY <1>24 DEF Crash, RunOver, server, disk, history
  <2> QED
    BY <2>1, <1>c
<1>25. CASE OrphanLands
  <2>1. UNCHANGED <<gen, mode, runGen, pushed, marker, inCheckpoint>> /\ (phase' # "off" <=> phase # "off")
    BY <1>25 DEF OrphanLands, server, disk, run
  <2> QED
    BY <2>1, <1>d
<1>26. CASE OrphanDies
  <2>1. UNCHANGED <<gen, mode, runGen, pushed, marker, inCheckpoint>> /\ (phase' # "off" <=> phase # "off")
    BY <1>26 DEF OrphanDies, server, disk, run, history
  <2> QED
    BY <2>1, <1>d
<1>27. CASE Scan
  BY <1>27, ScanKeeps, <1>d
<1>28. ASSUME NEW u \in UIDs, Arrive(u) PROVE CheckpointInv'
  <2>1. UNCHANGED <<gen, mode, runGen, pushed, marker, inCheckpoint>> /\ (phase' # "off" <=> phase # "off")
    BY <1>28 DEF Arrive, disk, run, history
  <2> QED
    BY <2>1, <1>d
<1>29. ASSUME NEW u \in UIDs, Expunge(u) PROVE CheckpointInv'
  <2>1. UNCHANGED <<gen, mode, runGen, pushed, marker, inCheckpoint>> /\ (phase' # "off" <=> phase # "off")
    BY <1>29 DEF Expunge, disk, run, history
  <2> QED
    BY <2>1, <1>d
<1>30. CASE Reset
  <2>1. gen' = gen + 1 /\ UNCHANGED <<phase, mode, runGen, marker, pushed, inCheckpoint>>
    BY <1>30 DEF Reset, disk, run, history
  <2>2. LastGen' = LastGen \/ (LastGen = gen /\ LastGen' = gen + 1)
    BY <2>1 DEF LastGen, LegacyRuns, Running
  <2> QED
    BY <2>1, <2>2, <1>0, <1>a DEF CheckpointInv
<1>31. CASE UNCHANGED vars
  <2>1. UNCHANGED <<gen, mode, runGen, pushed, marker, inCheckpoint>> /\ (phase' # "off" <=> phase # "off")
    BY <1>31 DEF vars, server, disk, run, history
  <2> QED
    BY <2>1, <1>d
<1> QED
  BY <1>1, <1>2, <1>3, <1>4, <1>5, <1>6, <1>7, <1>8, <1>9, <1>10, <1>11, <1>12, <1>13,
       <1>14, <1>15, <1>16, <1>17, <1>18, <1>19, <1>20, <1>21, <1>22, <1>23, <1>24,
       <1>25, <1>26, <1>27, <1>28, <1>29, <1>30, <1>31
     DEF Next, Start, Gather, Deliver, Finish, Flush, Failure, Server

\* Nothing is recorded before the first run.
LEMMA InitMemory == Init => TypeInv /\ MemoryInv
<1> SUFFICES ASSUME Init PROVE MemoryInv
  BY InitType
<1>1. GenInv /\ GatherInv
  BY InitDelivery DEF DeliveryInv
<1>2. Readable = {}
  BY DEF Init, Readable
<1>3. UploadInv /\ LineInv /\ PlanInv /\ LedgerInv /\ CheckpointInv
  BY <1>2 DEF Init, UploadInv, LineInv, LegacyRuns, Running, PlanInv, LedgerInv, CheckpointInv
<1> QED
  BY <1>1, <1>3 DEF MemoryInv

\* The invariant of the record.
LEMMA MemoryInvariance == Spec => [](TypeInv /\ MemoryInv)
<1>1. TypeInv /\ MemoryInv /\ [Next]_vars => (TypeInv /\ MemoryInv)'
  <2> SUFFICES ASSUME TypeInv, MemoryInv, [Next]_vars
               PROVE  TypeInv' /\ MemoryInv'
    OBVIOUS
  <2>1. TypeInv'
    BY StepType
  <2>2. GenInv' /\ GatherInv' /\ UploadInv' /\ LineInv'
    BY StepGen, StepGather, StepUpload, StepLine DEF MemoryInv
  <2>3. PlanInv' /\ LedgerInv' /\ CheckpointInv'
    BY StepPlan, StepLedger, StepCheckpoint DEF MemoryInv
  <2> QED
    BY <2>1, <2>2, <2>3 DEF MemoryInv
<1> QED
  BY <1>1, InitMemory, PTL DEF Spec

\* Only a push takes a message from fetched to half delivered, and what is pushed is
\* not in the record of runs of its kind.
LEMMA PushIsFirst ==
  ASSUME TypeInv, MemoryInv, [Next]_vars,
         NEW u \in UIDs, stage[u] = "fetched", stage'[u] = "half"
  PROVE  Row(u) \notin Settled
<1>0. /\ gen \in Nat /\ runGen \in Nat /\ scan.gen \in Nat
     /\ eml \in [UIDs -> Nat] /\ rest \in [UIDs -> Nat] /\ scratch \in [UIDs -> Nat]
     /\ stage \in [UIDs -> Stages]
     /\ present \subseteq used /\ used \subseteq UIDs
  BY LedgerAssumption DEF TypeInv, TypeOK, ScanType, Gens
<1>a. mode \in {"ledger", "legacy"} /\ (Running => runGen \in Gens)
  BY LedgerAssumption DEF TypeInv, TypeOK, Running
<1>b. PlanInv /\ CheckpointInv
  BY DEF MemoryInv
<1>c. stage[u] = "fetched" /\ stage'[u] = "half"
  OBVIOUS
<1>1. ASSUME NEW m \in Modes, NEW fresh \in BOOLEAN, StartRun(m, fresh)
      PROVE  Row(u) \notin Settled
  BY <1>1, <1>0, <1>c DEF StartRun
<1>2. CASE LoadLedger
  BY <1>2, <1>0, <1>c DEF LoadLedger, Plan
<1>3. CASE Seed
  BY <1>3, <1>0, <1>c DEF Seed, Plan
<1>4. CASE UploadSeed
  BY <1>4, <1>0, <1>c DEF UploadSeed
<1>5. CASE ClearStale
  BY <1>5, <1>0, <1>c DEF ClearStale
<1>6. CASE WriteMarker
  BY <1>6, <1>0, <1>c DEF WriteMarker, Plan
<1>7. ASSUME NEW v \in UIDs, Fetch(v) PROVE Row(u) \notin Settled
  BY <1>7, <1>0, <1>c DEF Fetch, At, Goto, StillRunning, Delivering
<1>8. ASSUME NEW v \in UIDs, MissingFile(v) PROVE Row(u) \notin Settled
  BY <1>8, <1>0, <1>c DEF MissingFile, At, Goto, StillRunning, Delivering
<1>9. ASSUME NEW v \in UIDs, PushEml(v) PROVE Row(u) \notin Settled
  <2>1. stage[u] = "fetched" /\ u = v /\ phase = "delivering"
    BY <1>9, <1>0, <1>c DEF PushEml, At, Goto, Delivering
  <2>2. runGen \in Gens /\ Row(u) = <<runGen, u>>
    BY <2>1, <1>a DEF Running, Row
  <2>3. CASE mode = "ledger"
    BY <2>1, <2>3, <1>b DEF PlanInv, Ahead, Settled
  <2>4. CASE mode = "legacy"
    <3>1. Row(u) \notin Readable
      BY <2>1, <2>4, <1>b DEF PlanInv, Ahead
    <3>2. LastGen = runGen
      BY <2>1, <2>4 DEF LastGen, LegacyRuns, Running
    <3>3. Row(u) \notin pushed
      BY <3>1 DEF Readable
    <3> QED
      BY <2>2, <2>4, <3>2, <3>3, <1>b DEF CheckpointInv, Settled
  <2> QED
    BY <2>3, <2>4, <1>a
<1>10. ASSUME NEW v \in UIDs, PushRest(v) PROVE Row(u) \notin Settled
  BY <1>10, <1>0, <1>c DEF PushRest, At, Goto, StillRunning, Delivering
<1>11. ASSUME NEW v \in UIDs, WriteRow(v) PROVE Row(u) \notin Settled
  BY <1>11, <1>0, <1>c DEF WriteRow, Fault, At, Goto, StillRunning, Delivering
<1>12. ASSUME NEW v \in UIDs, EndRow(v) PROVE Row(u) \notin Settled
  BY <1>12, <1>0, <1>c DEF EndRow, Fault, At, Goto, StillRunning, Delivering
<1>13. ASSUME NEW v \in UIDs, Record(v) PROVE Row(u) \notin Settled
  BY <1>13, <1>0, <1>c DEF Record, Fault, At, Goto, RemoveLocal, Delivering
<1>14. CASE Drain
  BY <1>14, <1>0, <1>c DEF Drain, Delivering, Abandoned
<1>15. CASE FinalFlush
  BY <1>15, <1>0, <1>c DEF FinalFlush, RunOver
<1>16. CASE FlushBegins
  BY <1>16, <1>0, <1>c DEF FlushBegins, Delivering
<1>17. CASE FlushLands
  BY <1>17, <1>0, <1>c DEF FlushLands
<1>18. CASE GatherFails
  BY <1>18, <1>0, <1>c DEF GatherFails, Fault, RunOver
<1>19. ASSUME NEW v \in UIDs, FetchFails(v) PROVE Row(u) \notin Settled
  BY <1>19, <1>0, <1>c DEF FetchFails, Fault, At, Goto, StillRunning, Delivering
<1>20. ASSUME NEW v \in UIDs, BodyOmitted(v) PROVE Row(u) \notin Settled
  BY <1>20, <1>0, <1>c DEF BodyOmitted, Fault, At, Goto, StillRunning, Delivering
<1>21. ASSUME NEW v \in UIDs, GiveUp(v) PROVE Row(u) \notin Settled
  BY <1>21, <1>0, <1>c DEF GiveUp, Fault, Delivering, Goto, StillRunning, RemoveLocal
<1>22. CASE FlushFails
  BY <1>22, <1>0, <1>c DEF FlushFails, Fault
<1>23. CASE FinalFlushFails
  BY <1>23, <1>0, <1>c DEF FinalFlushFails, Fault, RunOver
<1>24. CASE Crash
  BY <1>24, <1>0, <1>c DEF Crash, Fault, RunOver, Abandoned
<1>25. CASE OrphanLands
  BY <1>25, <1>0, <1>c DEF OrphanLands, run
<1>26. CASE OrphanDies
  BY <1>26, <1>0, <1>c DEF OrphanDies, run
<1>27. CASE Scan
  BY <1>27, <1>0, <1>c, ScanKeeps
<1>28. ASSUME NEW v \in UIDs, Arrive(v) PROVE Row(u) \notin Settled
  BY <1>28, <1>0, <1>c DEF Arrive, run
<1>29. ASSUME NEW v \in UIDs, Expunge(v) PROVE Row(u) \notin Settled
  BY <1>29, <1>0, <1>c DEF Expunge, run
<1>30. CASE Reset
  BY <1>30, <1>0, <1>c DEF Reset, run
<1>31. CASE UNCHANGED vars
  BY <1>31, <1>0, <1>c DEF vars, run
<1> QED
  BY <1>1, <1>2, <1>3, <1>4, <1>5, <1>6, <1>7, <1>8, <1>9, <1>10, <1>11, <1>12, <1>13,
       <1>14, <1>15, <1>16, <1>17, <1>18, <1>19, <1>20, <1>21, <1>22, <1>23, <1>24,
       <1>25, <1>26, <1>27, <1>28, <1>29, <1>30, <1>31
     DEF Next, Start, Gather, Deliver, Finish, Flush, Failure, Server

\* What the record holds durably is not delivered again in its generation, by a later
\* run, by one on another host, or after a crash or a failed flush, in whatever order
\* runs of the two modes, and scans beside them, come.
THEOREM NothingTwice == Spec => NoSecondDelivery
<1>1. TypeInv /\ MemoryInv /\ [Next]_vars =>
        [\A u \in UIDs : stage[u] = "fetched" /\ stage'[u] = "half" => Row(u) \notin Settled]_vars
  BY PushIsFirst
<1> QED
  BY <1>1, MemoryInvariance, PTL DEF Spec, NoSecondDelivery
=============================================================================
