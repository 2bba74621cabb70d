---------------------------- MODULE Deduplicate ----------------------------
(***************************************************************************)
(* The deduplicate job (commands/job/deduplicate: worker.rs, dedup.rs,       *)
(* manifest.rs, wizard.rs), over many runs with one local output.  A run     *)
(* queues every source object that is not checkpointed.  A pool of workers   *)
(* downloads them, expands zips into further items of the queue and hashes   *)
(* the rest; the hashed files are then moved one by one into result/, one     *)
(* per content, by an index that outlives the run; the objects everything of  *)
(* which went well are checkpointed; and result/ is uploaded.                *)
(*                                                                         *)
(* An item is a source object (a root) or a member of a zip, at any depth.   *)
(* The queue is a set: no property depends on its order.  The source does    *)
(* not change, and a destination is always given.                           *)
(***************************************************************************)
EXTENDS Naturals, FiniteSets

CONSTANTS Workers, Items, Roots, Contents,
          None,         \* no item
          Zips,         \* items whose name ends in .zip
          Members,      \* the members of each item: none of a file's
          RootOf, Depth,
          MaxDepth,     \* MAX_ZIP_DEPTH
          AppleDouble,  \* items named ._*
          Undated,      \* items named 0000-00-00-*
          Key,          \* the place of each item's key in the order of keys
          Content,      \* what each item's bytes are, by their hash
          MaxFaults     \* bound: failures and crashes together

ASSUME DeduplicateAssumption ==
  /\ IsFiniteSet(Workers) /\ Workers # {} /\ IsFiniteSet(Items)
  /\ Roots \subseteq Items /\ Zips \subseteq Items
  /\ AppleDouble \subseteq Items /\ Undated \subseteq Items
  /\ None \notin Items
  /\ Members \in [Items -> SUBSET (Items \ Roots)]
  /\ RootOf \in [Items -> Roots] /\ \A r \in Roots : RootOf[r] = r
  /\ Depth \in [Items -> Nat] /\ Key \in [Items -> Nat]
  /\ Content \in [Items -> Contents]
  /\ MaxDepth \in Nat /\ MaxFaults \in Nat
  \* What is named ._* is never opened: nothing of it is met.
  /\ \A z \in Items : \A i \in Members[z] :
       z \in Zips \ AppleDouble /\ RootOf[i] = RootOf[z] /\ Depth[i] = Depth[z] + 1
  /\ \A z, y \in Items : z # y => Members[z] \cap Members[y] = {}
  /\ \A i \in Items \ Roots : \E z \in Items : i \in Members[z]

VARIABLES
  \* The local output and the destination: how many files of each content
  \* result/ and the destination hold, which item the index says is kept, and
  \* the checkpoint.
  copies, uploaded, index, processed,
  \* The pool.
  queue, inFlight, pc, hand, hashed, finished, tainted, skipped,
  \* The rest of the run: files yet to be placed, the one that is moved and not
  \* yet in the index, the keys placed, the rows yet to be written.
  phase, files, placing, placed, toRecord, failed,
  \* What the last run ended with, and failures so far.
  verdict, faults,
  \* History, read by no action.
  unplaced,   \* zips that lost a member in a placement
  torn        \* moves of each content that the index never learned of

disk == <<copies, uploaded, index, processed>>
pool == <<queue, inFlight, pc, hand, hashed, finished, tainted, skipped>>
tail == <<files, placing, placed, toRecord>>
history == <<unplaced, torn>>
vars == <<disk, pool, phase, tail, failed, verdict, faults, history>>

-----------------------------------------------------------------------------

Phases == {"off", "working", "placing", "recording"}

Init ==
  /\ copies = [c \in Contents |-> 0] /\ uploaded = [c \in Contents |-> 0]
  /\ index = [c \in Contents |-> None]
  /\ processed = {}
  /\ queue = {} /\ inFlight = 0
  /\ pc = [w \in Workers |-> "done"] /\ hand = [w \in Workers |-> None]
  /\ hashed = {} /\ finished = {} /\ tainted = {} /\ skipped = {}
  /\ phase = "off"
  /\ files = {} /\ placing = None /\ placed = {} /\ toRecord = {}
  /\ failed = FALSE
  /\ verdict = "none" /\ faults = 0
  /\ unplaced = {} /\ torn = [c \in Contents |-> 0]

Fault == faults < MaxFaults /\ faults' = faults + 1

\* gather_pending.  With nothing pending the run ends at once, without an upload.
Pending == Roots \ processed

Start ==
  /\ phase = "off"
  /\ Pending # {}
  /\ phase' = "working"
  /\ queue' = Pending
  /\ pc' = [w \in Workers |-> "idle"]
  /\ failed' = FALSE
  /\ verdict' = "none"
  /\ UNCHANGED <<disk, inFlight, hand, hashed, finished, tainted, skipped, tail, faults,
                 history>>

-----------------------------------------------------------------------------
(* The pool. *)

Goto(w, label) == pc' = [pc EXCEPT ![w] = label]
StillRunning == UNCHANGED <<disk, phase, tail, verdict, history>>

Pop(w) ==
  /\ pc[w] = "idle"
  /\ \E i \in queue :
       /\ queue' = queue \ {i}
       /\ hand' = [hand EXCEPT ![w] = i]
  /\ Goto(w, "popped")
  /\ StillRunning
  /\ UNCHANGED <<inFlight, hashed, finished, tainted, skipped, failed, faults>>

SeeEmpty(w) ==
  /\ pc[w] = "idle"
  /\ queue = {}
  /\ Goto(w, "empty")
  /\ StillRunning
  /\ UNCHANGED <<queue, inFlight, hand, hashed, finished, tainted, skipped, failed, faults>>

\* The counter is read after the queue was found empty, and after a pause the
\* queue is looked at again.
LookAtCounter(w) ==
  /\ pc[w] = "empty"
  /\ Goto(w, IF inFlight = 0 THEN "done" ELSE "idle")
  /\ StillRunning
  /\ UNCHANGED <<queue, inFlight, hand, hashed, finished, tainted, skipped, failed, faults>>


\* Mistake: the counter is not raised.
CountInForgotten(w) ==
  /\ pc[w] = "popped"
  /\ Goto(w, "busy")
  /\ StillRunning
  /\ UNCHANGED <<queue, inFlight, hand, hashed, finished, tainted, skipped, failed, faults>>

CountIn(w) ==
  /\ pc[w] = "popped"
  /\ inFlight' = inFlight + 1
  /\ Goto(w, "busy")
  /\ StillRunning
  /\ UNCHANGED <<queue, hand, hashed, finished, tainted, skipped, failed, faults>>

\* process_item on what a worker has in hand, and what the worker does with
\* its outcome.
Settling(w, i) ==
  /\ pc[w] = "busy"
  /\ i = hand[w]
  /\ Goto(w, "settled")

Taint(i) == tainted' = tainted \cup {RootOf[i]} /\ failed' = TRUE
FinishRoot(i) == finished' = finished \cup ({i} \cap Roots)

SkipAppleDouble(w) ==
  /\ \E i \in AppleDouble :
       /\ Settling(w, i)
       /\ skipped' = skipped \cup ({i} \cap Roots)
  /\ StillRunning
  /\ UNCHANGED <<queue, inFlight, hand, hashed, finished, tainted, failed, faults>>

\* A download, an archive or a hash fails, or the disk is full.
ProcessFails(w) ==
  /\ \E i \in Items \ AppleDouble :
       /\ Settling(w, i)
       /\ Taint(i)
  /\ Fault
  /\ StillRunning
  /\ UNCHANGED <<queue, inFlight, hand, hashed, finished, skipped>>

RefuseDepth(w) ==
  /\ \E z \in Zips \ AppleDouble :
       /\ Settling(w, z)
       /\ Depth[z] >= MaxDepth
       /\ Taint(z)
  /\ StillRunning
  /\ UNCHANGED <<queue, inFlight, hand, hashed, finished, skipped, faults>>

Expandable(z) == z \in Zips \ AppleDouble /\ Depth[z] < MaxDepth

Expand(w) ==
  /\ \E z \in Zips :
       /\ Expandable(z)
       /\ Settling(w, z)
       /\ queue' = queue \cup Members[z]
       /\ FinishRoot(z)
  /\ StillRunning
  /\ UNCHANGED <<inFlight, hand, hashed, tainted, skipped, failed, faults>>

\* Mistake, the one CLI-0098 repaired: what is dropped leaves no trace.
ExpandPartlyUntainted(w) ==
  /\ \E z \in Zips :
       /\ Expandable(z)
       /\ Settling(w, z)
       /\ \E dropped \in (SUBSET Members[z]) \ {{}} : queue' = queue \cup (Members[z] \ dropped)
       /\ FinishRoot(z)
  /\ Fault
  /\ StillRunning
  /\ UNCHANGED <<inFlight, hand, hashed, tainted, skipped, failed>>

\* Some members go over the extraction cap, or cannot be read or written.
ExpandPartly(w) ==
  /\ \E z \in Zips :
       /\ Expandable(z)
       /\ Settling(w, z)
       /\ \E dropped \in (SUBSET Members[z]) \ {{}} : queue' = queue \cup (Members[z] \ dropped)
       /\ FinishRoot(z)
       /\ Taint(z)
  /\ Fault
  /\ StillRunning
  /\ UNCHANGED <<inFlight, hand, hashed, skipped>>

Hash(w) ==
  /\ \E i \in Items \ (Zips \cup AppleDouble) :
       /\ Settling(w, i)
       /\ hashed' = hashed \cup {i}
       /\ FinishRoot(i)
  /\ StillRunning
  /\ UNCHANGED <<queue, inFlight, hand, tainted, skipped, failed, faults>>

\* Mistake: the counter is left as it is.
CountOutForgotten(w) ==
  /\ pc[w] = "settled"
  /\ inFlight' = inFlight
  /\ hand' = [hand EXCEPT ![w] = None]
  /\ Goto(w, "idle")
  /\ StillRunning
  /\ UNCHANGED <<queue, hashed, finished, tainted, skipped, failed, faults>>

CountOut(w) ==
  /\ pc[w] = "settled"
  /\ inFlight' = inFlight - 1
  /\ hand' = [hand EXCEPT ![w] = None]
  /\ Goto(w, "idle")
  /\ StillRunning
  /\ UNCHANGED <<queue, hashed, finished, tainted, skipped, failed, faults>>

\* Every worker has been joined.
Join ==
  /\ phase = "working"
  /\ \A w \in Workers : pc[w] = "done"
  /\ phase' = "placing"
  /\ files' = hashed
  /\ UNCHANGED <<disk, pool, placing, placed, toRecord, failed, verdict, faults, history>>

-----------------------------------------------------------------------------
(* place_and_report, one file after the other. *)

\* Dated files first, then by key.
Before(i, j) ==
  IF (i \in Undated) = (j \in Undated) THEN Key[i] < Key[j] ELSE j \in Undated

Turn(i) ==
  /\ phase = "placing" /\ placing = None
  /\ i \in files /\ \A j \in files : ~Before(j, i)

StillPlacing == UNCHANGED <<uploaded, processed, pool, phase, toRecord, verdict>>

SkipDuplicate(i) ==
  /\ Turn(i)
  /\ index[Content[i]] # None
  /\ files' = files \ {i}
  /\ placed' = placed \cup {i}
  /\ StillPlacing
  /\ UNCHANGED <<copies, index, placing, failed, faults, history>>

\* Mistake: the index is not asked.
MoveUnchecked(i) ==
  /\ Turn(i)
  /\ copies' = [copies EXCEPT ![Content[i]] = @ + 1]
  /\ placing' = i
  /\ StillPlacing
  /\ UNCHANGED <<index, files, placed, failed, faults, history>>

\* The file is renamed to a name that is free ...
Move(i) ==
  /\ Turn(i)
  /\ index[Content[i]] = None
  /\ copies' = [copies EXCEPT ![Content[i]] = @ + 1]
  /\ placing' = i
  /\ StillPlacing
  /\ UNCHANGED <<index, files, placed, failed, faults, history>>

\* ... or cannot be: a warning, and the pass goes on.
MoveFails(i) ==
  /\ Turn(i)
  /\ index[Content[i]] = None
  /\ Fault
  /\ files' = files \ {i}
  /\ failed' = TRUE
  /\ unplaced' = unplaced \cup ({RootOf[i]} \ {i})
  /\ StillPlacing
  /\ UNCHANGED <<copies, index, placing, placed, torn>>

\* Then a row is appended to the index.
Commit ==
  /\ placing # None
  /\ index' = [index EXCEPT ![Content[placing]] = placing]
  /\ files' = files \ {placing}
  /\ placed' = placed \cup {placing}
  /\ placing' = None
  /\ StillPlacing
  /\ UNCHANGED <<copies, failed, faults, history>>

Tear == torn' = IF placing = None THEN torn ELSE [torn EXCEPT ![Content[placing]] = @ + 1]

CommitFails ==
  /\ placing # None
  /\ Fault
  /\ files' = files \ {placing}
  /\ placing' = None
  /\ failed' = TRUE
  /\ Tear
  /\ StillPlacing
  /\ UNCHANGED <<copies, index, placed, unplaced>>

\* What is checkpointed.  A zip is not among the placed keys, only its members.
Complete == (finished \ tainted) \cap (placed \cup Zips)

\* The report is written and the rows of the checkpoint are collected.
Report ==
  /\ phase = "placing" /\ placing = None /\ files = {}
  /\ phase' = "recording"
  /\ toRecord' = Complete \cup skipped
  /\ UNCHANGED <<disk, pool, files, placing, placed, failed, verdict, faults, history>>

Checkpoint(r) ==
  /\ phase = "recording"
  /\ r \in toRecord
  /\ processed' = processed \cup {r}
  /\ toRecord' = toRecord \ {r}
  /\ UNCHANGED <<copies, uploaded, index, pool, phase, files, placing, placed, failed,
                 verdict, faults, history>>

-----------------------------------------------------------------------------
(* The end of the run, and of the process. *)

\* Nothing of the run is left.
RunOver ==
  /\ phase' = "off"
  /\ queue' = {} /\ inFlight' = 0
  /\ pc' = [w \in Workers |-> "done"] /\ hand' = [w \in Workers |-> None]
  /\ hashed' = {} /\ finished' = {} /\ tainted' = {} /\ skipped' = {}
  /\ files' = {} /\ placing' = None /\ placed' = {} /\ toRecord' = {}
  /\ failed' = FALSE

Recorded == phase = "recording" /\ toRecord = {}

\* Mistake: the exit code tells of the upload alone.
UploadDecides ==
  /\ Recorded
  /\ uploaded' = copies
  /\ verdict' = "success"
  /\ RunOver
  /\ UNCHANGED <<copies, index, processed, faults, history>>

\* All of result/ is copied.
Upload ==
  /\ Recorded
  /\ uploaded' = copies
  /\ verdict' = IF failed THEN "failure" ELSE "success"
  /\ RunOver
  /\ UNCHANGED <<copies, index, processed, faults, history>>

\* Some of result/ is copied.
PartlyUploaded ==
  /\ uploaded' \in [Contents -> 0..(MaxFaults + 1)]
  /\ \A c \in Contents : uploaded[c] <= uploaded'[c] /\ uploaded'[c] <= copies[c]

UploadFails ==
  /\ Recorded
  /\ Fault
  /\ PartlyUploaded
  /\ verdict' = "failure"
  /\ RunOver
  /\ UNCHANGED <<copies, index, processed, history>>

\* The index cannot be loaded, or the report or a row not be written.
RunFails ==
  /\ \/ phase = "placing" /\ placing = None /\ (files = hashed \/ files = {})
     \/ phase = "recording" /\ toRecord # {}
  /\ Fault
  /\ verdict' = "failure"
  /\ RunOver
  /\ UNCHANGED <<disk, history>>

Crash ==
  /\ phase # "off"
  /\ Fault
  /\ Tear
  /\ IF Recorded THEN PartlyUploaded ELSE UNCHANGED uploaded
  /\ RunOver
  /\ verdict' = "none"
  /\ UNCHANGED <<copies, index, processed, unplaced>>

\* --upload-only, for which there must be a checkpoint and a result.
UploadOnly ==
  /\ phase = "off"
  /\ processed # {} /\ \E c \in Contents : copies[c] > 0
  /\ \/ uploaded' = copies /\ UNCHANGED faults
     \/ Fault /\ PartlyUploaded
  /\ UNCHANGED <<copies, index, processed, pool, phase, tail, failed, verdict, history>>

-----------------------------------------------------------------------------

Work(w) ==
  \/ Pop(w) \/ SeeEmpty(w) \/ LookAtCounter(w) \/ CountIn(w)
  \/ SkipAppleDouble(w) \/ RefuseDepth(w) \/ Expand(w) \/ Hash(w)
  \/ CountOut(w)

Place ==
  \/ \E i \in Items : SkipDuplicate(i) \/ Move(i)
  \/ Commit
  \/ Report
  \/ \E r \in Roots : Checkpoint(r)
  \/ Upload

Failure ==
  \/ \E w \in Workers : ProcessFails(w) \/ ExpandPartly(w)
  \/ \E i \in Items : MoveFails(i)
  \/ CommitFails
  \/ UploadFails
  \/ RunFails
  \/ Crash

Next ==
  \/ Start \/ UploadOnly
  \/ \E w \in Workers : Work(w)
  \/ Join \/ Place
  \/ Failure

Spec == Init /\ [][Next]_vars

\* The job is run again while it has pending objects, and its tasks are polled.
FairSpec ==
  /\ Spec
  /\ WF_vars(Start) /\ WF_vars(Join) /\ WF_vars(Place)
  /\ \A w \in Workers : WF_vars(Work(w))

-----------------------------------------------------------------------------
(* Properties. *)

Leaves(r) == {i \in Items \ (Zips \cup AppleDouble) : RootOf[i] = r}

\* The variables keep their ranges.  The counter is the number of workers
\* between fetch_add and fetch_sub, so that a pool whose workers all found the
\* queue empty is a pool that ends.
TypeOK ==
  /\ copies \in [Contents -> Nat] /\ uploaded \in [Contents -> Nat]
  /\ index \in [Contents -> Items \cup {None}]
  /\ processed \subseteq Roots
  /\ queue \subseteq Items
  /\ pc \in [Workers -> {"idle", "popped", "empty", "busy", "settled", "done"}]
  /\ hand \in [Workers -> Items \cup {None}]
  /\ inFlight = Cardinality({w \in Workers : pc[w] \in {"busy", "settled"}})
  /\ hashed \subseteq Items /\ finished \subseteq Roots
  /\ tainted \subseteq Roots /\ skipped \subseteq Roots
  /\ phase \in Phases
  /\ files \subseteq Items /\ placing \in files \cup {None}
  /\ placed \subseteq Items /\ toRecord \subseteq Roots
  /\ failed \in BOOLEAN
  /\ verdict \in {"none", "success", "failure"} /\ faults \in 0..MaxFaults
  /\ unplaced \subseteq Roots /\ torn \in [Contents -> Nat]

\* Everything in a checkpointed object, however deep in its zips, is in
\* result/, whichever worker met it, whatever failed beside it and whichever
\* run it was: a checkpointed object is never looked at again.  Except for the
\* members that could not be moved, which taint nothing.
CheckpointedIsPlaced ==
  \A r \in processed \ (AppleDouble \cup unplaced) : \A i \in Leaves(r) : copies[Content[i]] > 0

\* A content is in result/ once, except for the moves that a crash or a failed
\* append kept from the index; and the index names nothing that is not there.
CopiesAreAccountedFor ==
  \A c \in Contents :
    /\ copies[c] <= torn[c] + (IF index[c] # None \/ placing # None THEN 1 ELSE 0)
    /\ index[c] # None => copies[c] > torn[c] /\ Content[index[c]] = c

\* A run that had objects to process and exits with 0 has left nothing out, in
\* this run or an earlier one: every object is checkpointed, and all of result/
\* is at the destination.
SuccessIsComplete == verdict = "success" => processed = Roots /\ uploaded = copies

Hopeless == {RootOf[z] : z \in {y \in Zips \ AppleDouble : Depth[y] >= MaxDepth}}

\* Once failures stop, everything is checkpointed but the objects that nest
\* deeper than the cap.  In particular the pool always ends.
EverythingIsKept == <>[](Roots \ Hopeless \subseteq processed)

\* The comment on tainted_roots: an object any descendant of which failed is
\* not checkpointed, so that a rerun retries it.
FailedMembersAreRetried ==
  \A r \in processed \ AppleDouble : \A i \in Leaves(r) : copies[Content[i]] > 0
=============================================================================
