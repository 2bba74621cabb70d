---------------------------- MODULE IngestLedger ----------------------------
(***************************************************************************)
(* What email import records of what it delivers (commands/job/email_import: *)
(* mod.rs, worker.rs, sink.rs, manifest.rs, ledger.rs), for one mailbox over *)
(* many runs.  A run lists the server, works out what is pending from its    *)
(* record of earlier deliveries, fetches and pushes each pending message,     *)
(* the .eml first and its attachments after it, and records it once both     *)
(* are at the destination.  The record is the ledger in the ledger bucket,    *)
(* loaded whole, appended to locally and pushed back whole by a flusher, or   *)
(* under --legacy the .pushed file on the local disk.                        *)
(*                                                                         *)
(* Messages are known by UID within a generation, the mailbox's UIDVALIDITY; *)
(* the objects at the destination are named by UID alone.  One importer runs  *)
(* at a time, as CLI-0164 assumes.  A push is atomic; the upload of a ledger  *)
(* is not, and may outlive the task that waits for it.                       *)
(*                                                                         *)
(* An email scan (email_scan/mod.rs) may go on beside it: it downloads the    *)
(* ledger, or seeds one, through the same functions and, by default, to the   *)
(* same local file as an import of that host.                               *)
(***************************************************************************)
EXTENDS Naturals, FiniteSets

CONSTANTS UIDs,
          MaxGen,      \* bound: generations of the mailbox
          MaxFaults,   \* bound: crashes, failed pushes, lost rows, scans, ... together
          Modes,       \* how runs may be started: "ledger", "legacy"
          MayMix,      \* may runs of one history differ in mode
          MayScan      \* may scans go on beside the imports

Gens == 1..MaxGen
Rows == Gens \X UIDs

ASSUME LedgerAssumption ==
  /\ IsFiniteSet(UIDs)
  /\ MaxGen \in Nat \ {0}
  /\ MaxFaults \in Nat
  /\ Modes \subseteq {"ledger", "legacy"}
  /\ {MayMix, MayScan} \subseteq BOOLEAN

VARIABLES
  \* The server.
  gen, present, used,
  \* The destination: the generation of each object's message, 0 for none.
  eml, rest,
  \* The ledger bucket, and an upload nobody waits for any more; each is {} or
  \* {rows}, as is the upload of a run.
  ledger, orphan,
  \* The local disk of the importer: the rows of the checkpoint, what its last
  \* line reads as while that has no newline ({} for no such line, {{}} for one
  \* that reads as nothing), the marker, the messages fetched.
  pushed, line, marker, scratch,
  \* The run.
  phase, mode, runGen, stage, working, upload,
  \* A scan: where it is, the generation it listed, the rows it holds.
  scan,
  \* Failures so far.
  faults,
  \* History, read by no action.
  doubtful,      \* rows of an .eml that was there, of whatever message, or of half of one
  inLedger,      \* rows imports got into the ledger and nothing has taken off since
  inCheckpoint,  \* rows of --legacy with their newline
  scanned        \* rows a scan put into the working copy of the run

server == <<gen, present, used>>
destination == <<eml, rest>>
bucket == <<ledger, orphan>>
disk == <<pushed, line, marker, scratch>>
run == <<phase, mode, runGen, stage, working, upload>>
history == <<doubtful, inLedger, inCheckpoint, scanned>>
vars == <<server, destination, bucket, disk, run, scan, faults, history>>

-----------------------------------------------------------------------------

Phases == {"off", "listed", "seeding", "cleared", "delivering", "draining"}
Stages == {"none", "skipped", "pending", "fetched", "half", "pushed", "lined", "noted", "done"}

Row(u) == <<runGen, u>>

NoScan == [at |-> "off", gen |-> 0, rows |-> {}]

\* Mistake: rows of every generation count.
IngestedAnyGeneration(rows) == {u \in UIDs : \E g \in Gens : <<g, u>> \in rows}

\* Ledger::ingested_uids: the rows of the listed generation only.
Ingested(rows) == {u \in UIDs : Row(u) \in rows}

\* load_checkpoint reads an unterminated last line like the others.
Readable == pushed \cup UNION line

\* manifest::done_uids: under --legacy the generation is not looked at.
DoneUids == {u \in UIDs : \E g \in Gens : <<g, u>> \in Readable}

\* seed_from_listing: every <uid>.eml at the destination becomes a row of the
\* listed generation, the only one known, whatever else of the message is there.
Seeds(g) == {<<g, u>> : u \in {v \in UIDs : eml[v] # 0}}

\* Of these, the rows of another message's .eml or of half a message.
DoubtfulSeeds(g) == {<<g, u>> : u \in {v \in UIDs : eml[v] # 0 /\ (eml[v] # g \/ rest[v] # g)}}

\* gather_pending's difference, for the messages that were listed.
Plan(delivered) ==
  [u \in UIDs |-> IF stage[u] = "none" THEN "none"
                  ELSE IF u \in delivered THEN "skipped" ELSE "pending"]

\* An earlier version has delivered some messages, pushed no more than the .eml of
\* others, and kept no ledger.
Init ==
  /\ gen = 1
  /\ present \in SUBSET UIDs
  /\ \E old \in SUBSET UIDs : \E whole \in SUBSET old :
       /\ eml = [u \in UIDs |-> IF u \in old THEN 1 ELSE 0]
       /\ rest = [u \in UIDs |-> IF u \in whole THEN 1 ELSE 0]
       /\ used = present \cup old
  /\ ledger = {} /\ orphan = {}
  /\ pushed = {} /\ line = {} /\ marker = 0
  /\ scratch = [u \in UIDs |-> 0]
  /\ phase = "off" /\ mode \in Modes /\ runGen = 0
  /\ stage = [u \in UIDs |-> "none"]
  /\ working = {} /\ upload = {}
  /\ scan = NoScan
  /\ faults = 0
  /\ doubtful = {} /\ inLedger = {} /\ inCheckpoint = {} /\ scanned = {}

Fault == faults < MaxFaults /\ faults' = faults + 1

\* The process is gone: nothing of the run is left but its disk.
RunOver ==
  /\ phase' = "off"
  /\ runGen' = 0
  /\ stage' = [u \in UIDs |-> "none"]
  /\ working' = {}
  /\ upload' = {}

-----------------------------------------------------------------------------
(* gather_pending. *)

\* A ledger run may start on a host with an empty disk; --legacy has no other
\* memory than its disk and is run where it is.
StartRun(m, fresh) ==
  /\ phase = "off"
  /\ MayMix \/ m = mode
  /\ fresh => m = "ledger"
  /\ phase' = "listed"
  /\ mode' = m
  /\ runGen' = gen
  /\ stage' = [u \in UIDs |-> IF u \in present THEN "pending" ELSE "none"]
  /\ IF fresh
     THEN /\ pushed' = {} /\ line' = {} /\ marker' = 0 /\ scratch' = [u \in UIDs |-> 0]
          /\ inCheckpoint' = {}
     ELSE UNCHANGED <<disk, inCheckpoint>>
  /\ scanned' = {}
  /\ UNCHANGED <<scan, server, destination, bucket, working, upload, faults, doubtful, inLedger>>

\* Mistake: the working copy starts empty instead of as the full history.
LoadLedgerAfresh ==
  /\ phase = "listed" /\ mode = "ledger"
  /\ ledger # {}
  /\ phase' = "delivering"
  /\ working' = {}
  /\ stage' = Plan(Ingested(UNION ledger))
  /\ UNCHANGED <<scan, server, destination, bucket, disk, mode, runGen, upload, faults, history>>

LoadLedger ==
  /\ phase = "listed" /\ mode = "ledger"
  /\ ledger # {}
  /\ phase' = "delivering"
  /\ working' = UNION ledger
  /\ stage' = Plan(Ingested(UNION ledger))
  /\ UNCHANGED <<scan, server, destination, bucket, disk, mode, runGen, upload, faults, history>>

\* Mistake: the seeded rows carry no generation.
SeedUnstamped ==
  /\ phase = "listed" /\ mode = "ledger"
  /\ ledger = {}
  /\ phase' = "seeding"
  /\ working' = Seeds(0)
  /\ UNCHANGED <<scan, server, destination, bucket, disk, mode, runGen, stage, upload, faults, history>>

\* No ledger yet: it is made of what the destination holds.  What is uploaded
\* then is the file.
Seed ==
  /\ phase = "listed" /\ mode = "ledger"
  /\ ledger = {}
  /\ phase' = "seeding"
  /\ working' = Seeds(runGen)
  /\ stage' = Plan(Ingested(working'))
  /\ doubtful' = doubtful \cup DoubtfulSeeds(runGen)
  /\ UNCHANGED <<scan, server, destination, bucket, disk, mode, runGen, upload, faults,
                 inLedger, inCheckpoint, scanned>>

UploadSeed ==
  /\ phase = "seeding"
  /\ ledger' = {working}
  /\ inLedger' = inLedger \cup (working \ scanned)
  /\ phase' = "delivering"
  /\ UNCHANGED <<scan, server, destination, orphan, disk, mode, runGen, stage, working, upload,
                 faults, doubtful, inCheckpoint, scanned>>

\* A listing, a download or an upload fails, and the run with it.
GatherFails ==
  /\ phase \in {"listed", "seeding", "cleared"}
  /\ Fault
  /\ RunOver
  /\ UNCHANGED <<scan, server, destination, bucket, disk, mode, history>>

\* --legacy: a marker of another generation clears the checkpoint first ...
ClearStale ==
  /\ phase = "listed" /\ mode = "legacy"
  /\ phase' = "cleared"
  /\ IF marker \notin {0, runGen} /\ Readable # {}
     THEN pushed' = {} /\ line' = {}
     ELSE UNCHANGED <<pushed, line>>
  /\ UNCHANGED <<scan, server, destination, bucket, marker, scratch, mode, runGen, stage,
                 working, upload, faults, history>>

\* ... and is written afterwards, so that a crash in between clears it again.
WriteMarker ==
  /\ phase = "cleared"
  /\ phase' = "delivering"
  /\ marker' = runGen
  /\ stage' = Plan(DoneUids)
  /\ UNCHANGED <<scan, server, destination, bucket, pushed, line, scratch, mode, runGen, working,
                 upload, faults, history>>

-----------------------------------------------------------------------------
(* fetch_uids and deliver_one. *)

Delivering == phase = "delivering"
At(u, s) == Delivering /\ stage[u] = s
Goto(u, s) == stage' = [stage EXCEPT ![u] = s]
StillRunning == UNCHANGED <<phase, mode, runGen, working, upload>>

\* The local copy goes, whatever became of the delivery.
RemoveLocal(u) == scratch' = [scratch EXCEPT ![u] = 0]

\* EXAMINE's answer is not compared with the plan: the message fetched is the
\* one that has the UID now.  One that is gone leaves no file, or the file an
\* earlier attempt left.
Fetch(u) ==
  /\ At(u, "pending")
  /\ Goto(u, "fetched")
  /\ scratch' = IF u \in present THEN [scratch EXCEPT ![u] = gen] ELSE scratch
  /\ StillRunning
  /\ UNCHANGED <<scan, server, destination, bucket, pushed, line, marker, faults, history>>

\* The server answers without the body of a message it has, and a file that was
\* left passes for it.
BodyOmitted(u) ==
  /\ At(u, "pending")
  /\ u \in present
  /\ Fault
  /\ Goto(u, "fetched")
  /\ doubtful' = IF scratch[u] \in {0, gen} THEN doubtful ELSE doubtful \cup {Row(u)}
  /\ StillRunning
  /\ UNCHANGED <<scan, server, destination, bucket, disk, inLedger, inCheckpoint, scanned>>

\* The batch fails, before or after the message was written, and is requeued,
\* or dropped when it has no attempts left: what was written stays.
FetchFails(u) ==
  /\ At(u, "pending")
  /\ Fault
  /\ UNCHANGED stage \/ Goto(u, "done")
  /\ \/ u \in present /\ scratch' = [scratch EXCEPT ![u] = gen]
     \/ UNCHANGED scratch
  /\ StillRunning
  /\ UNCHANGED <<scan, server, destination, bucket, pushed, line, marker, history>>

MissingFile(u) ==
  /\ At(u, "fetched")
  /\ scratch[u] = 0
  /\ Goto(u, "done")
  /\ StillRunning
  /\ UNCHANGED <<scan, server, destination, bucket, disk, faults, history>>

\* Mistake: an .eml that the destination has is not pushed again.
PushEmlIfMissing(u) ==
  /\ At(u, "fetched")
  /\ scratch[u] # 0
  /\ IF eml[u] = 0
     THEN eml' = [eml EXCEPT ![u] = scratch[u]] /\ Goto(u, "half") /\ UNCHANGED disk
     ELSE Goto(u, "done") /\ RemoveLocal(u) /\ UNCHANGED <<eml, pushed, line, marker>>
  /\ StillRunning
  /\ UNCHANGED <<scan, server, rest, bucket, faults, history>>

PushEml(u) ==
  /\ At(u, "fetched")
  /\ scratch[u] # 0
  /\ eml' = [eml EXCEPT ![u] = scratch[u]]
  /\ Goto(u, "half")
  /\ StillRunning
  /\ UNCHANGED <<scan, server, rest, bucket, disk, faults, history>>

PushRest(u) ==
  /\ At(u, "half")
  /\ rest' = [rest EXCEPT ![u] = scratch[u]]
  /\ Goto(u, "pushed")
  /\ StillRunning
  /\ UNCHANGED <<scan, server, eml, bucket, disk, faults, history>>

\* An object cannot be pushed, and the message is counted as failed.
GiveUp(u) ==
  /\ stage[u] \in {"fetched", "half"} /\ Delivering
  /\ scratch[u] # 0
  /\ Fault
  /\ Goto(u, "done")
  /\ RemoveLocal(u)
  /\ StillRunning
  /\ UNCHANGED <<scan, server, destination, bucket, pushed, line, marker, history>>

\* Mistake: recorded when the .eml is there.
WriteRowEarly(u) ==
  /\ stage[u] \in {"half", "pushed"} /\ Delivering
  /\ Goto(u, "lined")
  /\ line' = IF line = {} THEN {{Row(u)}} ELSE {{}}
  /\ StillRunning
  /\ UNCHANGED <<scan, server, destination, bucket, pushed, marker, scratch, faults, history>>

\* append_checkpoint writes the row and its newline one after the other, under no
\* lock: behind a row without a newline, of another worker, of a run that crashed
\* or of a failed append, it spoils both.  A failed append is logged and no more;
\* it may leave a piece of the row.
WriteRow(u) ==
  /\ At(u, "pushed")
  /\ \/ /\ Goto(u, "lined")
        /\ line' = IF line = {} THEN {{Row(u)}} ELSE {{}}
        /\ UNCHANGED faults
     \/ /\ Goto(u, "noted")
        /\ line' \in {line, {{}}}
        /\ Fault
  /\ StillRunning
  /\ UNCHANGED <<scan, server, destination, bucket, pushed, marker, scratch, history>>

\* The newline ends whatever is on the last line by now.
EndRow(u) ==
  /\ At(u, "lined")
  /\ Goto(u, "noted")
  /\ \/ /\ pushed' = Readable
        /\ line' = {}
        /\ inCheckpoint' = IF mode = "legacy" THEN inCheckpoint \cup UNION line ELSE inCheckpoint
        /\ UNCHANGED faults
     \/ Fault /\ UNCHANGED <<pushed, line, inCheckpoint>>
  /\ StillRunning
  /\ UNCHANGED <<scan, server, destination, bucket, marker, scratch, doubtful, inLedger, scanned>>

\* LedgerSync::append, when there is a ledger; then the local copy goes.
Record(u) ==
  /\ At(u, "noted")
  /\ Goto(u, "done")
  /\ RemoveLocal(u)
  /\ \/ working' = (IF mode = "ledger" THEN working \cup {Row(u)} ELSE working) /\ UNCHANGED faults
     \/ mode = "ledger" /\ Fault /\ UNCHANGED working
  /\ UNCHANGED <<scan, server, destination, bucket, pushed, line, marker, phase, mode, runGen,
                 upload, history>>

-----------------------------------------------------------------------------
(* The flusher, and the end of the run. *)

\* A snapshot of the working copy, taken under the append lock.
FlushBegins ==
  /\ Delivering /\ mode = "ledger"
  /\ upload = {}
  /\ upload' = {working}
  /\ UNCHANGED <<scan, server, destination, bucket, disk, phase, mode, runGen, stage, working,
                 faults, history>>

FlushLands ==
  /\ upload # {}
  /\ ledger' = upload
  /\ inLedger' = inLedger \cup (((UNION upload) \cap working) \ scanned)
  /\ upload' = {}
  /\ UNCHANGED <<scan, server, destination, orphan, disk, phase, mode, runGen, stage, working,
                 faults, doubtful, inCheckpoint, scanned>>

FlushFails ==
  /\ upload # {}
  /\ Fault
  /\ upload' = {}
  /\ UNCHANGED <<scan, server, destination, bucket, disk, phase, mode, runGen, stage, working, history>>

\* What becomes of an upload whose task is gone: the rclone subprocess is not
\* killed with it.  At most one is kept in mind.
Abandoned == orphan' \in IF upload = {} THEN {orphan} ELSE {orphan, upload}

\* Every worker has been joined; the flusher is aborted.
Drain ==
  /\ Delivering
  /\ \A u \in UIDs : stage[u] \in {"none", "skipped", "done"}
  /\ phase' = "draining"
  /\ Abandoned
  /\ upload' = {}
  /\ UNCHANGED <<scan, server, destination, ledger, disk, mode, runGen, stage, working, faults, history>>

\* The last flush; --legacy has none.
FinalFlush ==
  /\ phase = "draining"
  /\ IF mode = "ledger" THEN ledger' = {working} /\ inLedger' = inLedger \cup (working \ scanned)
                        ELSE UNCHANGED <<ledger, inLedger>>
  /\ RunOver
  /\ UNCHANGED <<scan, server, destination, orphan, disk, mode, faults, doubtful, inCheckpoint,
                 scanned>>

FinalFlushFails ==
  /\ phase = "draining" /\ mode = "ledger"
  /\ Fault
  /\ RunOver
  /\ UNCHANGED <<scan, server, destination, bucket, disk, mode, history>>

Crash ==
  /\ phase # "off"
  /\ Fault
  /\ Abandoned
  /\ RunOver
  /\ UNCHANGED <<scan, server, destination, ledger, disk, mode, history>>

\* A late upload replaces the ledger by an older one.
OrphanLands ==
  /\ orphan # {}
  /\ ledger' = orphan
  /\ inLedger' = inLedger \cap UNION orphan
  /\ orphan' = {}
  /\ UNCHANGED <<scan, server, destination, disk, run, faults, doubtful, inCheckpoint, scanned>>

OrphanDies ==
  /\ orphan # {}
  /\ orphan' = {}
  /\ UNCHANGED <<scan, server, destination, ledger, disk, run, faults, history>>

-----------------------------------------------------------------------------
(* scan_identity. *)

ScanUnchanged == UNCHANGED <<server, destination, orphan, disk, phase, mode, runGen, stage,
                             upload>>

\* Of an account that ledger runs import; on their host, with the default
\* --local-output, or on another one.
ScanStarts ==
  /\ MayScan /\ mode = "ledger" /\ scan = NoScan
  /\ Fault
  /\ \E here \in BOOLEAN : scan' = [at |-> IF here THEN "here" ELSE "elsewhere", gen |-> gen, rows |-> {}]
  /\ ScanUnchanged /\ UNCHANGED <<ledger, working, history>>

\* The file is the working copy of a run of this host.
IsWorkingCopy(here) == here /\ phase \in {"seeding", "delivering", "draining"} /\ mode = "ledger"

OverwritesFile(rows, here) ==
  IF IsWorkingCopy(here)
  THEN /\ working' = rows
       /\ scanned' = scanned \cup (rows \ working)
       /\ inLedger' = inLedger \cap rows
  ELSE UNCHANGED <<working, scanned, inLedger>>

ScanReads ==
  /\ scan.at \in {"here", "elsewhere"} /\ ledger # {}
  /\ scan' = [scan EXCEPT !.at = IF @ = "here" THEN "reads here" ELSE "reads", !.rows = UNION ledger]
  /\ ScanUnchanged /\ UNCHANGED <<faults, ledger, working, history>>

\* The rest of a scan only counts and publishes its counts.
ScanDownloads ==
  /\ scan.at \in {"reads here", "reads"}
  /\ OverwritesFile(scan.rows, scan.at = "reads here")
  /\ scan' = NoScan
  /\ ScanUnchanged /\ UNCHANGED <<faults, ledger, doubtful, inCheckpoint>>

ScanFindsNone ==
  /\ scan.at \in {"here", "elsewhere"} /\ ledger = {}
  /\ scan' = [scan EXCEPT !.at = IF @ = "here" THEN "finds none here" ELSE "finds none"]
  /\ ScanUnchanged /\ UNCHANGED <<faults, ledger, working, history>>

\* The destination may be listed while an import, begun in the meantime, is
\* delivering.
ScanSeeds ==
  /\ scan.at \in {"finds none here", "finds none"}
  /\ scan' = [scan EXCEPT !.at = IF @ = "finds none here" THEN "seeded here" ELSE "seeded",
                          !.rows = Seeds(scan.gen)]
  /\ doubtful' = doubtful \cup DoubtfulSeeds(scan.gen)
  /\ OverwritesFile(Seeds(scan.gen), scan.at = "finds none here")
  /\ ScanUnchanged /\ UNCHANGED <<faults, ledger, inCheckpoint>>

\* It replaces whatever ledger there is by now.
ScanUploads ==
  /\ scan.at \in {"seeded here", "seeded"}
  /\ ledger' = {IF IsWorkingCopy(scan.at = "seeded here") THEN working ELSE scan.rows}
  /\ inLedger' = inLedger \cap UNION ledger'
  /\ scan' = NoScan
  /\ ScanUnchanged /\ UNCHANGED <<faults, working, doubtful, inCheckpoint, scanned>>

ScanFails ==
  /\ scan # NoScan
  /\ scan' = NoScan
  /\ ScanUnchanged /\ UNCHANGED <<faults, ledger, working, history>>

-----------------------------------------------------------------------------
(* The server, external. *)

\* A UID is never given twice within a generation.
Arrive(u) ==
  /\ u \notin used
  /\ present' = present \cup {u}
  /\ used' = used \cup {u}
  /\ UNCHANGED <<scan, gen, destination, bucket, disk, run, faults, history>>

Expunge(u) ==
  /\ u \in present
  /\ present' = present \ {u}
  /\ UNCHANGED <<scan, gen, used, destination, bucket, disk, run, faults, history>>

\* UIDVALIDITY changes and every message is renumbered.
Reset ==
  /\ gen < MaxGen
  /\ gen' = gen + 1
  /\ present' \in SUBSET UIDs
  /\ used' = present'
  /\ UNCHANGED <<scan, destination, bucket, disk, run, faults, history>>

-----------------------------------------------------------------------------

Gather == LoadLedger \/ Seed \/ UploadSeed \/ ClearStale \/ WriteMarker

Deliver(u) ==
  \/ Fetch(u)
  \/ MissingFile(u)
  \/ PushEml(u)
  \/ PushRest(u)
  \/ WriteRow(u)
  \/ EndRow(u)
  \/ Record(u)

Finish == Drain \/ FinalFlush

Flush == FlushBegins \/ FlushLands

Failure ==
  \/ GatherFails
  \/ \E u \in UIDs : FetchFails(u) \/ BodyOmitted(u) \/ GiveUp(u)
  \/ FlushFails
  \/ FinalFlushFails
  \/ Crash
  \/ OrphanLands
  \/ OrphanDies

Server == (\E u \in UIDs : Arrive(u) \/ Expunge(u)) \/ Reset

Scan ==
  \/ ScanStarts
  \/ ScanReads \/ ScanDownloads
  \/ ScanFindsNone \/ ScanSeeds \/ ScanUploads
  \/ ScanFails

Start == \E m \in Modes, fresh \in BOOLEAN : StartRun(m, fresh)

Next == Start \/ Gather \/ (\E u \in UIDs : Deliver(u)) \/ Finish \/ Flush \/ Failure \/ Scan \/ Server

Spec == Init /\ [][Next]_vars

\* The job is started again and again, and a run's tasks are polled until they
\* end.  The flusher's timer need not fire during a run.
FairSpec ==
  /\ Spec
  /\ WF_vars(Start) /\ WF_vars(Gather) /\ WF_vars(Finish)
  /\ \A u \in UIDs : WF_vars(Deliver(u))

-----------------------------------------------------------------------------
(* Properties. *)

\* The variables keep their ranges: every row names a generation that existed.
TypeOK ==
  /\ gen \in Gens
  /\ present \subseteq used /\ used \subseteq UIDs
  /\ eml \in [UIDs -> 0..MaxGen] /\ rest \in [UIDs -> 0..MaxGen]
  /\ ledger \subseteq SUBSET Rows
  /\ orphan \subseteq SUBSET Rows
  /\ pushed \in SUBSET Rows /\ line \subseteq SUBSET Rows
  /\ marker \in 0..MaxGen
  /\ scratch \in [UIDs -> 0..MaxGen]
  /\ phase \in Phases /\ mode \in Modes /\ runGen \in 0..MaxGen
  /\ stage \in [UIDs -> Stages]
  /\ working \in SUBSET Rows
  /\ upload \subseteq SUBSET Rows
  /\ faults \in 0..MaxFaults
  /\ scan.gen \in 0..MaxGen /\ scan.rows \subseteq Rows
  /\ doubtful \subseteq Rows /\ scanned \subseteq Rows
  /\ inLedger \subseteq Rows /\ inCheckpoint \subseteq Rows

Delivered(u) == eml[u] = gen /\ rest[u] = gen

\* The exception: some .eml is there under the name, and it was taken for the
\* whole message.
TakenForDelivered(u) == <<gen, u>> \in doubtful /\ eml[u] # 0

Recorded == (UNION (ledger \cup orphan \cup upload)) \cup working \cup Readable

\* A row means delivered: a message that is on the server and in any copy of
\* the record, a late upload's or an unfinished line's included, is at the
\* destination with all its attachments, and what is there under its name is
\* that message and not one of another generation.  The code makes two
\* exceptions, each of an .eml that is there.  A seed takes every .eml for a
\* delivered message of the generation listed, be it of an earlier one (CLI-0164
\* says so), without its attachments, or about to get them from an import beside
\* a scan.  And a body that the server omits is replaced by a file that an earlier
\* generation has left.
RecordedIsDelivered ==
  \A u \in present : <<gen, u>> \in Recorded => Delivered(u) \/ TakenForDelivered(u)

\* A run never passes over a message that is still to be delivered, whatever
\* was recorded by runs that crashed, under an earlier generation, or by a
\* run that was under way when the generation changed; but for the same two
\* exceptions.
SkippedIsDelivered ==
  \A u \in present :
    stage[u] = "skipped" /\ runGen = gen => Delivered(u) \/ TakenForDelivered(u)

\* What a run's kind of record durably holds is not delivered again, in that
\* generation: not by a later run, nor by one on another host, nor after a crash
\* or a failed flush of a later run, in whatever order runs of the two modes and
\* scans come.  Rows that a late upload, or a scan on its way through the
\* ledger or the working copy, has taken off count no more.
Settled == IF mode = "ledger" THEN inLedger ELSE inCheckpoint

NoSecondDelivery ==
  [][\A u \in UIDs : stage[u] = "fetched" /\ stage'[u] = "half" => Row(u) \notin Settled]_vars

\* Whatever fails on the way, and whatever rows scans beside it lose, once
\* failures stop every message on the server reaches the destination, but for
\* those an .eml of which was taken for the whole.
EverythingArrives ==
  <>[](\A u \in present : Delivered(u) \/ TakenForDelivered(u))
=============================================================================
