# A TLA+ verification project for pigeon-cli

`pigeon` moves files and mail between object stores. It keeps bucket and mail
credentials in a keyring and runs *jobs*: `transform` pulls a prefix, converts
every file and pushes the result; `email import` fetches every message of a
set of IMAP accounts and pushes it; `email scan` compares an account with what
was imported; `deduplicate` merges buckets by content hash; `rclone` copies and
deletes. All data movement is done by `rclone` subprocesses, one per call.

This directory holds TLA+ modules for the parts of that program where steps
of several actors, runs or failures interleave, TLC configurations that check
them on small instances, and proofs, checked by TLAPS, that hold for every
instance. Paths below are relative to `src/src/`; `TW` is
`commands/job/transform/worker.rs`, `EW` is `commands/job/email_import/worker.rs`,
`DW` is `commands/job/deduplicate/worker.rs`.

## Inventory

| Part | State it keeps | Operations | What is hard | What makes it correct |
|---|---|---|---|---|
| Recovery gates (`TW:150`, `email_import/gate.rs`) | watch channel open/closed, election mutex, round counter | `wait_for_recovery` by every task whose request failed on the endpoint's account | election, parking and reopening interleave; a send that no receiver hears changes nothing; nothing bounds the callers' retries but the counter | an outage is paid for once per run; an answer is never taken back; a caller that waits on a backoff is let go |
| Transform main loop (`TW:1567`) | queue, in-flight set, dispatched set, pause flag, breaker counters, pull result | dispatch, join, receive a copied name, learn the pid, join the pull, return | SIGSTOP backpressure, a circuit breaker and a live log tail act on one loop | each file once; no deadlock by pausing; a report that tells the truth; no process left behind |
| Transform of one file (`TW:687`, `transform/{placement,destination,manifest,push}.rs`) | names at the destination; files under `source/`, in slots and in `result/` | list, scan, pull, resume, convert, retry, place, push, delete | partial failure, crash and restart, another host, a run the circuit breaker cuts short, a volume that folds names otherwise than the code expects | what counts as done is whole, as far as the guards see, and made of its own object; every file arrives in the end |
| Case-variant slots (`TW:562`) | one local directory per slot | assign, pull, read what landed | keys that collide on a case-insensitive disk, in their names or their directories | no object is pushed under another's name |
| Converters (`transform/{media,format,documents,soffice,sheets,procreate,icns,vobject}.rs`) | none | check the input, run ffmpeg, ffprobe, soffice, gs, ebook-convert, pandoc or a decoder, guard the output | the ways a tool can end, and what of it is retried, refused or taken; guards with a tolerance, and without a probe none | no output is cut short by more than a guard lets pass, where a guard stands |
| Import queue (`EW:209`) | shared queue, per-identity semaphores, one connection per worker | pop, log out, acquire, connect, serve, fail, requeue, drop, quit | several workers, requeues with backoff, the two gates; waits inside waits | no batch lost or doubled, connection caps respected, waits in one order, the run ends |
| Import delivery and ledger (`EW:546`, `email_import/{ledger,manifest,sink}.rs`) | `.pushed`, `.uidvalidity`, `ingested.tsv` locally and in the ledger bucket, objects at the destination | list, load or seed, fetch, push, record, flush, final flush | crashes, UIDVALIDITY resets, partial pushes, rows cut short, an upload that outlives its caller, a scan beside it | nothing on record that was not delivered, but for an `.eml` taken for the whole; nothing delivered again without a reason |
| IMAP pacing (`email_import/pace.rs`) | window of reservations | acquire | time | no window exceeds the rate |
| Email scan (`email_scan/`) | `scan-status.tsv`; the ledger, in the same local file as an import's | list, download or seed, diff, upload | may go on beside an import, and seed what it is delivering | no row it makes or loses keeps a message from arriving |
| Deduplicate (`deduplicate/`) | queue, in-flight counter, tainted roots, `.content-hashes`, `.processed` | pop, download, expand, hash, place, checkpoint, upload | worker pool that ends when queue and counter agree; crash between placing and indexing | a root is checkpointed only if everything in it was placed |
| rclone runner (`core/rclone/`, `core/retry.rs`) | log offset, the beginning of a line, cumulative counters, the stderr pipe | spawn, drain, tick, last poll, finish; list, copy one object, retry | a log written while it is read; reads that fail or end inside a line; a pipe that fills | Ok is true; every copied name reported once, in order; the command ends |
| Keyring (`commands/keyring/`, `core/keyring/`) | `keyring.toml`, truncated and rewritten whole | add, modify, delete, list of identities and buckets, a login or a listing before each save | commands beside each other, a load during a save, a `PIGEON_SECRET_<ALIAS>` that each process has or has not, default securities | what is stored was tried |
| Wizards and command line (`core/wizard.rs`, `commands/**/wizard.rs`, `commands/job/shared_wizard.rs`) | `rclone.conf`, rewritten by every job | load, check, ask, confirm, run, report, exit code | a job without a terminal, a prompt that reads a pipe; an exit code put together from a summary; one `rclone.conf` for processes of several environments | the exit code is true; no job runs unconfirmed |
| Report upload, observability | none that matters | upload, logging, metrics | nothing waits for it | nothing depends on it |

How they interact: `process_one` and `deliver_one` push through a recovery
gate, and a batch failure waits in the IMAP gate; the transform loop talks to
its pull through two channels, a join handle and signals, and the names in one of
them come from the runner's log tailer; import workers share one queue, one
pacer and two gates; the flusher uploads what deliveries append; a scan and an
import meet in the ledger bucket and, on one host, in one file; every command
reads the one keyring and every job rewrites the one `rclone.conf` beside it.

## Modules

| Module | Models | Checked by | Proved in |
|---|---|---|---|
| `OutageGate` | the gate's budget as its callers see it: so many backoffs, then latched for good | refinement, below | |
| `RecoveryGate` | `EndpointGate` / `RecoveryGate` with the push loop around it, one step per statement that another task can see | `recovery_gate`, `gate_losers_retry` | `RecoveryGateProofs` |
| `TransformPipeline` | `run_transform_job`'s loop, its pull subprocess, backpressure, breaker | `transform_pipeline`, `pipeline_tripped` | `TransformPipelineProofs` |
| `TransformFile` | what many runs of `transform` do to files: what is pulled where, converted, placed, pushed, removed | `transform_file` | `TransformFileProofs` |
| `Converters` | one attempt of `convert_one`: operators `TransformFile` is built from | `transform_file` | `TransformFileProofs` |
| `ImportQueue` | `run_worker` and the shared queue, composed with `OutageGate` for the IMAP gate | `import_queue` | `ImportQueueProofs` |
| `IngestLedger` | what an import records of its deliveries, over many runs of one mailbox, with scans beside them | `ingest_ledger`, `ingest_legacy_marker` | `IngestLedgerProofs` |
| `Deduplicate` | the deduplicate job, over many runs with one local output | `deduplicate`, `dedup_member_lost` | `DeduplicateProofs` |
| `CopiedStream` | what a streamed copy promises its caller | refinement, below | `RcloneCommandProofs` |
| `RcloneCommand` | one rclone invocation: the subprocess, its log and stderr, the tailer, finish, retry | `rclone` | `RcloneCommandProofs` |
| `Keyring` | what `keyring.toml` and `rclone.conf` hold: operators `Commands` is built from | `commands` | `CommandsProofs` |
| `Commands` | every command's steps, processes beside each other, each with its environment | `commands` | `CommandsProofs` |

`MC*` modules give the constants their values. Definitions preceded by
"Mistake:" are mutants: each is the code with a plausible bug, and shows that
the property it is paired with in `PROJECT.json` would notice.

### RecoveryGate and OutageGate

`pc[o]` is where an object's task is: in the push queue, pushing, or at one of
the statements of `wait_for_recovery`. `open` is the value in the watch channel,
`prober` the holder of the mutex, `rounds` the atomic counter. The permit of the
push semaphore is held from `TakePermit` to the end, time in the gate included, as
`process_one` holds it. `PushIsRefused` needs an attempt that overlapped an
outage; the outage comes and goes freely. `slept`, the backoffs slept to the
end, is history and read by no action.

A gate keeps the channel's `Sender` and no `Receiver` (`TW:181`), and
`Sender::send` without a receiver fails and leaves the value as it is; the code
discards the error. So `Send` changes `open` only if a task is `Subscribed`,
between its `subscribe()` and the return of `wait_for_recovery`. Most rounds
therefore close nothing: a task that fails during the backoff reads true and
retries at once (`gate_losers_retry`). And a `send(false)` may be heard where
the `send(true)` is not, which leaves a closed gate behind: who subscribes to it
waits until another round finds that receiver (`Stranded`). What
holds is what the counter alone guarantees, which is the budget, and that who
watches while a backoff is being slept is let go by its end (`WatchersAreLetGo`).

`OutageGate` has three variables: who is inside without an answer, how many
backoffs were paid, whether the gate is latched. `RecoveryGate` implements it with
inside = `Waiting`, paid = `slept`, latched = `rounds > MaxRounds`; the election
and the channel are stutters. It promises neither that a caller waits for a backoff
nor that it is answered.

### TransformPipeline

The variables are the locals of the loop plus the state of the subprocess
(`process`, `toCopy`, `pullError`) and the channel of copied names. The guards
`Dispatchable`, `Drained` and `Selecting` are the order of the loop: dispatch
what can be dispatched, then test for the exit, then wait. A `Join` does what
the branch does, in order: record the result, sample it for the breaker, run
the deadlock guard, look at the water marks, signal. `Init` stands for
everything before the loop: the scan of `source/` and the case-variant slots,
of which any subset may have landed. A task's result is one of four. That
names arrive once and in order, and all of them before an Ok, is what
`CopiedStream` promises. `JoinPullFails` is a panic of the pull task (`TW:2150`):
the loop returns past everything else, drops its tasks, and leaves rclone as it
is, stopped if it was; `NothingLeftBehind` excepts it.

### TransformFile and Converters

`TransformFile` is the other half of the job: not how the loop schedules files
but what becomes of them, over any number of runs. A key is the sequence of its
path components. Two functions say which components are one: `LocalFold` is the
program's guess (`local_fold`: NFC, then lowercase), by which it chooses slots,
`OnVolume` what the local volume does. Keys may collide in a file's name or in a
directory's, in one and not in the other. `local` is
what is under `source/` and in the slots, `dirs` the spelling the volume keeps
of a directory, `result` and `dest` the outputs, each with the object and the
version its bytes were made of. Outputs of one key are named `<<index, total>>`:
that, and no manifest, is what a later run reads off the destination
(`CompleteNames`) and off `result/` (`Resumable`). An output's `extent` says
whether it is the whole of its object, short of it, or a part.

`StartRun` is everything before the loop, in the order of the code: list the
destination, scan `source/`, find the keys to pull and the colliding ones among
them, clear the slots, pull each slot. `Transfer` is the bulk pull as the live
tail sees it: rclone finds a file by name with letter case ignored, leaves it
alone if it holds the same bytes, and says nothing then. `Resume` through
`Finish` are `process_one`, one action per statement that leaves something on a
disk or at the destination. Between any two of them the process may crash, the
next run may be on another host (`NewHost`), and somebody may replace an object
at the source (`Edit`). The circuit breaker counts here too (`Sample`): once it has
tripped nothing queued is begun, and `EndRun` leaves it under `source/`. Since each
run may meet the same bad files first, `EveryFileArrives` claims something only of
listings with fewer bad files than trip it (`FewAreBad`).

`Converters` says what an attempt may come to. A kind of input goes to a tool
(`Tools`), a tool has ways to end (`RunsOf`: not spawned, killed, a non-zero exit
with or without the beginning of an output, a clean exit with an output that is
whole, cut short, or short by what a guard tolerates, ...), and each converter is
an operator from these and the nature of the bytes to a set of verdicts: an output
and its extent; an error that is retried, one that is not, or one that says the
file is of another kind. It is a set because what a tool makes of damaged bytes is
not the code's to say: ffmpeg, for one, exits with 0 on many of them. The checks
before the tool (`HasVideo`, `EnsureKeynote`, `LargestEntry`, `HasBegin`) and the
guards behind it (`FullSize`, `LongEnough`, `DrawsSomething`, `MatchesThumbnail`)
are operators of their own. `is_truncated_encode` lets half a second and 2 % pass
(`media.rs:264`), and both ffprobe guards are skipped where ffprobe reads nothing:
such an output is "short", and `DoneIsWhole` speaks of what is "part".

Where the volume takes two listed names for one and `local_fold` does not, the
keys share a path without a slot. What rclone does then is not in this repository;
the comment at `TW:1459` expects one of them to surface as undelivered. The model
lets the second overwrite the first, and then the second's bytes may be published
under the first's name. `OwnBytes` therefore claims nothing of such keys
(`Foreseen`), and no finding is made of it.

Abstractions: any queued file may be worked on, concurrency and backpressure
being `TransformPipeline`'s; the push loop's waits are `RecoveryGate`'s, here a
push succeeds or fails for good; a sheet's title is not part of a name; contents
are one of four natures, and what the in-process decoders compute is left out.

### ImportQueue

One worker is a program counter, the item in its hands, the permit of its
connection and the tries of the connect under way. `Acquire` waits for an
identity's permit; then `TryFails`, `TryAgain` and `Connected` are
`connect_with_retry`, which sleeps between its tries with the permit in hand
(`EW:85`, called at `EW:240`). After the fetch a message waits for the push
semaphore and, when the destination refuses it, in the push gate, with connection
and permit (`TakePushPermit`, `PushIsRefused`, `PushGateSaysRetry`). A batch's
messages are delivered side by side and their worker waits for all: the last one
stands for them. After a successful fetch nothing brings the batch back; before
that every failure is a step, and goes either straight to `requeue_or_none` or
through the IMAP gate. Only that gate is waited for empty-handed, and so are an
identity's permit and the pause before a requeue: `WaitsInOrder` says what is
held in which wait, and that the order of the waits has no cycle follows.

The IMAP gate's steps are those of `OutageGate`. That it answers is an assumption
of the fairness condition, since `RecoveryGate` may strand a caller.

### IngestLedger

One mailbox over many runs. The groups of variables are the server (its
generation, the UIDVALIDITY, and the messages in it), the destination (of
which generation the `.eml` and the attachments under each UID are), the ledger
bucket with an upload nobody waits for any more, the importer's disk
(`.pushed` with its unfinished last line, `.uidvalidity`, leftover scratch files),
the run, and a scan. `stage[u]` is where a message is between the plan and its
record. Messages are known by UID and objects are named by UID, so that a message
of one generation can take the name of another's: that is what makes the
properties hard to keep. `Init` is what an earlier version may have left: any
messages delivered, and any of which no more than the `.eml` was pushed.

`append_checkpoint` writes a row and its newline under no lock
(`manifest.rs:72`). `line` is what the last line reads as until it is ended: a row,
or nothing once a second writer, a crash or a failed append has spoiled it. A
missing newline is no loss, as `load_checkpoint` reads such a line too (`Readable`).
A row cut inside its UID or its UIDVALIDITY, so that it reads as another message's,
is left out.

A scan (with `MayScan`) downloads the ledger or seeds one through the same
functions as an import, on the importer's host or another. On the same host
its default local file is the import's working copy, which it overwrites
(`OverwritesFile`); what it uploads replaces whatever ledger there is by then.
Rows are lost that way, and the messages delivered a second time; `EverythingArrives`
says that no message is lost for a scan.

Four variables are history. `doubtful` holds the rows that vouch for a
message on the strength of an `.eml` that was there: those a seed made of another
generation's `.eml`, the one limit CLI-0164 §4 states, or of half a message, and
those of a message whose body the server omitted while an earlier generation's file
lay in scratch (`BodyOmitted`). `TakenForDelivered` is
the exception of the properties. `inLedger` holds the rows imports got into
the ledger bucket and nothing has taken off since, `inCheckpoint` those of
`--legacy` with their newline: what `NoSecondDelivery` says will not be delivered
again. `scanned` keeps apart what a scan put into the working copy of a run.

Abstractions: a push of one object is atomic, attachments are pushed as one,
the working copy's rows are appended whole under their lock, and at most one
abandoned upload is kept in mind. One importer runs at a time. `MayMix` lets ledger
and `--legacy` runs alternate on one disk.

### Deduplicate

An item is a source object or a member of a zip. `phase` is where the run is:
the pool (`DW:473`), the placement pass, the checkpoint and upload. In the pool
a worker's steps are the ones another worker can see: pop, add to the counter,
process with its effect on the shared lists, subtract, find the queue empty,
read the counter. The queue is a set, since no property depends on its order.
In the placement pass (`dedup.rs`) the rename and the append to the index are
two steps, and `Before` is the sort. `disk` outlives a run, `RunOver` drops the
rest: leftover scratch files are overwritten by the next run, which numbers
from zero again.

`copies[c]` counts the files of a content in `result/`, so that a second copy
after a crash is visible; `torn` counts the moves the index never learned of,
and `unplaced` the zips a member of which could not be moved. Both are history:
the first bounds what a crash may cost, the second marks the objects of the
finding below, which `CheckpointedIsPlaced` excepts.

Abstractions: a row of the index or of the checkpoint is appended whole; a
crash is one of the process, so that what was written stays; the source does
not change between runs; a destination is given. A run that finds nothing
pending exits with 0 and uploads nothing: it changes no state and is left out,
and `SuccessIsComplete` speaks of the others.

### RcloneCommand and CopiedStream

The log is a sequence of half lines, so that a read may end in the middle of
one; `offset` counts the halves read and `partial` holds the beginning of a
line, as the tailer does. rclone is the environment: it logs objects, errors,
notices and statistics in any order, forgets its errors when `--retries` starts
over, blocks on a full stderr pipe, exits or is killed. `Poll` is the whole of
the tailer's `poll`: join the partial line, process each line, count what is new
over the last counters, summarise a streak of equal errors, hand the copied
names on. A read fails when it ends inside a character or for want of the file.
The one-shot commands are an attempt per step with `retry_with_backoff` around
them; a failed `copyto` may have delivered all the same.

A streamed command's log may hold the lines of an earlier invocation (`left`):
`OkIsTrue` holds of the totals then as well, and `CopiedStream` counts the old
names among those handed on. `CopiedStream` is what the pipeline relies on: the
names handed on are a prefix of those logged, and all of them when the result
is Ok, unless the last read failed.

### Keyring and Commands

A command is a program: the steps its dispatch function takes, in that order
(`Programs`). `fs::write` is two steps, so that another process may load an
empty keyring and a crash may leave one; the `chmod` after it may fail, and the
command with it, although the store is saved ("unprotected"). A keyring command
saves the store it loaded before its prompts, with the one entry changed.

Each process has its `environment`: for each alias what `PIGEON_SECRET_<ALIAS>` is,
or "unset". It is read where the code reads it (`credentials.rs:25`), at each use:
when the sections of `rclone.conf` or of a probe's config are written, by the
process that writes them. Three ghosts follow a secret. `tried` is what the login or
the listing before the save succeeded with, `injected` the variable of the command
that stored a bucket, and `by`, of a section, that of its writer. `Sound` and
`SoundSection` compare them with what jobs will use, the provider's default
security included.

A prompt may be read from a pipe (`core/wizard.rs:47`): a secret, a cap and a
confirmation are, and an empty pipe cancels; `AskBucket`, `EditEmail` and
`EditBucket` use `inquire`, which needs a terminal. A probe's config is a file of
its own per process. A job's run is its outcome; `ExitOf` is the code it returns.

Hosts, user names, the value of a cap, and the wording and defaults of flags are
left out.

## Runs

| Run | Question | Bounds |
|---|---|---|
| `recovery_gate` | Does the gate pay once and implement `OutageGate`, is a watcher let go by a backoff's end, and does the run end unless tasks are stranded? | 4 objects, 3 permits, 2 rounds: losers of the election with and without a receiver in time, an object queued behind a latched gate, stranded tasks that hold every permit, and a round that succeeds between two that do not all occur |
| `gate_losers_retry` | Do losers of the election park for the round? **Violated**: `send(false)` without a receiver closes nothing | 2 objects, 2 rounds |
| `transform_pipeline` | Is every file handled once and reported truthfully, and does the run end unless the breaker trips? | 6 keys, one of them left over from an earlier run, one case variant, one unwanted; 2 tasks; marks 3 and 1; breaker 2 of 2. The backlog passes both marks, the breaker trips with and without a paused pull |
| `pipeline_tripped` | Does a tripped run return? **Violated**: the marks stop the pull again after the guard resumed it | 1 task, mark 2 |
| `transform_file` | Is what counts as done whole and made of its own object, and does every convertible object arrive? | listings: a workbook, and one of another kind; two keys that differ by case; the same in directories; directories that differ and share no key; two keys only `local_fold` takes for one, and two only the volume does; three files of which two are bad, which trips the breaker, and two of which one is; a video; one in an audio run; a message; one file for each other way `convert_one` goes. 2 attempts, breaker 2 of 2, 2 faults (crashes included), one edit of a workbook from 2 sheets to 3. 63,886 states |
| `import_queue` | Are batches conserved, caps respected, waits in order, drops justified, and does the run end? | 3 workers, 2 identities with caps 1 and 2, 3 batches, 2 tries to connect, 1 push permit, 1 retry, 1 gate round: a worker changes identity, two compete for one permit while a third pauses between tries or waits in the push gate, a requeue outlives the others' exit |
| `ingest_ledger` | Does a row mean delivered, is nothing skipped that was not, nothing on durable record delivered twice, and does every message arrive once failures stop, scans beside the imports or not? | 1 message, 2 generations, 2 failures (crash, failed push, omitted body, failed or torn row, failed flush) and scans together, all runs in one mode, the message new, delivered or delivered by half before the first: a reset or a crash between any two steps, a row behind one that a crash left without a newline, a late upload, two scans about one import. Several messages, and modes that alternate, are left to the proofs. 988,566 states |
| `ingest_legacy_marker` | May a `--legacy` run follow ledger runs? **Violated**: no marker, so a reset goes unnoticed and new mail is skipped | 1 message, no failure |
| `deduplicate` | Is a checkpointed object fully placed, each content kept once, exit 0 truthful, and everything kept once failures stop? | 2 workers, 4 source objects and 3 members, 2 contents, 2 failures: a zip and a file share a content, a zip nests beyond the cap (1 here), an AppleDouble object; two crashes in a row, or a crash after a dropped member |
| `dedup_member_lost` | Is an object retried when anything in it failed? **Violated**: not if the failure is in the placement pass | 2 source objects, 2 members, 1 failure |
| `rclone` | Are totals, errors and names reported once and in order, is Ok true, does the command end? | 2 objects, 2 error messages, 2 lines before the last, a pipe of 1 and 2 writes to it, 1 failing read, 3 and 4 attempts. `MCInit` keeps apart what does not meet: a flooded stderr is a purge's, an earlier log a copy's |
| `commands` | Is every secret in use one that was tried, and the exit code true? | 2 interchangeable processes, 2 commands, all 13 programs, with and without a terminal, with and without a variable for one of 2 aliases; the other is named as the first's backend section; 2 secrets; a custom host on port 143, where the default security differs; a keyring with a bucket and one with both kinds. 995,198 states |

`CHECK_DEADLOCK FALSE` is set where the system ends: an import whose workers
are done, a transform that has returned, a `deduplicate` with nothing left to do,
an rclone command that is done, the last of `MaxCommands` commands.
In `RecoveryGate` the endpoint can always change, and in `IngestLedger` and
`TransformFile` another run can always start, so deadlock is checked there.

## Fairness

* `RecoveryGate`: every task is polled until it settles. Its timers fire and
  its rclone attempts end, because rclone's own retries are bounded. Nothing is
  assumed about the endpoint: it may stay down or flap for ever.
* `TransformPipeline`: the loop's task is polled, and rclone works while it is
  not stopped. One weak fairness condition on the whole loop is enough, since
  each of its steps consumes something. That a task ends is an assumption; a push
  does, by `RunEndsUnlessStranded`, unless it is stranded in the gate. No fairness
  is asked of `JoinPullFails`: that the pull task panics is promised by nobody.
* `TransformFile`: the job is run again and again; within a run some transfer
  or some step of a file goes on as long as there is one, and then the run ends
  (`GoesOn`). Not every file is
  assumed to go on by itself: each step consumes something, so that none is
  passed over for ever. `MaxFaults` bounds failures, of tools too:
  `EveryFileArrives` says what happens once they stop.
* `ImportQueue`: every worker is polled. Three things are assumed of what it waits
  for: that EXAMINE and the fetch end, since the code bounds the connect with a
  timeout and nothing after it; that the IMAP gate answers, which `RecoveryGate`
  does of callers that are not stranded; and that a message's refusals by the
  destination run out, as the push gate's rounds do, with the same exception.
* `IngestLedger`: the job is started again whenever it is over, as a scheduler
  does, and the tasks of a run are polled. The flusher's ten-minute timer need
  not fire during a run; nothing is assumed of late uploads or of scans. Failures
  are bounded by `MaxFaults`: `EverythingArrives` says what happens once they stop.
* `Deduplicate`: workers are polled and the placement pass goes on; the job is
  started again while it has pending objects, since each run retries what failed
  in the last. `MaxFaults` bounds failures and crashes together. An object that
  nests beyond `MAX_ZIP_DEPTH` fails in every run, and `EverythingIsKept` excepts it.
* `RcloneCommand`: rclone comes to an end if it can write; tokio polls the
  drain, the wait and the caller. Nothing is assumed of the ticks. That rclone
  ends bounds what it logs and writes by `MaxLines` and `MaxStderr`.
* `Commands` has none: a login's LOGOUT and the fetches of an import have no
  timeout, a user may stop at any prompt, and a job's run may hang
  (`pipeline_tripped`). That an unattended job stops at no prompt is in the model (`Prompts`,
  `FallsBack`), where a property would repeat the one guard of `WizardInput::resolve`.

## Proofs

Everything below is proved for every value of the constants that the named
assumption of the module allows (`GateAssumption`, `PipelineAssumption`,
`QueueAssumption`, `LedgerAssumption`, `DeduplicateAssumption`,
`KeyringAssumption`, `CommandsAssumption`, `RcloneAssumption`, `FileAssumption`),
which TLC evaluates as well: any number of objects, keys, slots, workers, batches,
messages, generations, zips, processes, failures, any `--upload-concurrency`, round
budget, cap and water mark. Where a theorem assumes
more, it says so by name, and below is why.

* **RecoveryGateProofs.** The invariant ties the election lock to the program
  counters (the prober is the one task between `WinElection` and the return of
  `wait_for_recovery`) and the counter to the backoffs slept (`rounds` is `slept`,
  plus one while a round is under way, plus the fruitless rounds past the budget).
  The properties are not inductive: `BudgetPaidOnce` says nothing of a round that is
  counted and not yet slept. It says nothing of the channel's value, for the
  budget does not rest on it. From it follow `TypeOK`, the refinement of
  `OutageGate`, step by step, and three consequences no run needs to check:
  `BudgetPaidOnce`, `GiveUpOnlyAfterBudget`, `LatchedGateFailsFast`.
* **TransformPipelineProofs.** Backpressure cannot starve itself
  (`BackpressureHasWork`): a pause is in force only on a known, unfinished pull,
  and a paused, untripped loop has work, because the low-water mark is at least
  one. `EachFileOnce`: queue, in-flight set and results are disjoint, the queue
  repeats nothing, and their union is what was dispatched; a wanted name that has
  arrived was dispatched, or is on the channel, or came after the breaker tripped.
  `ReportsAreComplete` follows at the end of a run, when channel and queue are empty;
  `NothingLeft` from what each way to return waits for, a panic of the pull task
  excepted, which waits for nothing.
  What a drain of the channel makes of its names (`Fresh`) is proved for channels
  of any length, in `FreshElements`.
* **ImportQueueProofs.** Each pending batch is in exactly one place, by a count
  over queue positions and hands; permits held plus permits free is the cap of
  each identity; where a worker waits says what it holds (`WaitsAreOrdered`); attempts
  used plus attempts left is constant, whence the limit on drops and the absence of
  underflow.
* **IngestLedgerProofs.** Of every instance: runs of both modes in any order, scans
  beside them, a server that omits bodies, torn rows, and messages an earlier version
  left by half. One thing is restricted: that nothing is passed over
  (`NothingIsPassedOver`) is of ledger runs, and of `--legacy` runs where modes do not
  alternate (`OneMode`); what mixing modes costs there is a finding. `RecordsAreTrue`
  and `NothingIsPassedOver` rest on what each copy of the record, and each message
  between fetch and record, says of the destination. That is needed because a row is
  appended some steps after the delivery it vouches for, and in between the server may
  be reset, and a scan may seed: a run that listed an earlier generation than the
  current one can record nothing of the current one, and should a scan seed what it
  pushed meanwhile, it does not push that again. A change of mode skips nothing yet
  (`ModeIsChosen`). `NothingTwice` says which copy of the record the next run will
  read, and that it holds what is `Settled`: of the checkpoint, that no row of it,
  its unfinished line included, is of a later generation than the run's (`LineInv`);
  of the ledger, that what a scan takes off is no longer counted (`ScanTakesAway`).
* **DeduplicateProofs.** While the pool works, there is a set of opened zips such
  that every item the roots contain through them is before the workers, opened,
  hashed, or its root is tainted (`PoolInv`). The pool ends only with nothing
  before the workers, although a worker reads queue and counter in two steps:
  whoever pushes to the queue is counted until it has pushed and looks again
  afterwards. Hence everything in a finished, untainted root is hashed, by
  induction on the depth of a member, and the placement pass and the checkpoint
  carry that on to `CheckpointsAreTrue` and `SuccessIsTrue`. `CopiesAreAccounted`
  counts a content's copies: one for each torn move, one for the index or for
  the move under way. The assumption that only what is a zip by its name and not
  an AppleDouble file has members is the code's: nothing else is opened (`DW:150`).
* **CommandsProofs.** Of a program the proof keeps what may come right after what
  (`Follows`), so that a step knows the one before it: a save comes after a login and
  its cap, a listing, or a confirmed delete. A candidate is sound from its login on, or
  its listing, whatever the environment it was listed in; a loaded store is sound
  because all that is ever saved is. What only one process writes is not disturbed by
  the others (`Local`); the two shared files are, and what is said of them (`SoundInv`)
  holds in the middle of a write too, whoever's environment wrote them. An outcome says
  what a command did at the step that ends it, and nothing before. That the keyrings a
  run starts with hold entries that were tried is an assumption about their past, which
  the theorem makes good for their future.
* **RcloneCommandProofs.** What the tailer keeps and has reported is a function of
  the whole lines before `offset` (`ReportInv`): so many errors, so many notices,
  the names those lines announce, the totals of the last of them if it gives any.
  The log grows by half lines and never changes behind (`LogInv`), so that this
  survives rclone's steps; a poll goes through its chunk line by line, of which
  there may be any number, and the half line it starts with is the one the last
  poll kept. The metrics add up differences that `saturating_sub` cuts at zero: that
  none is cut of what was moved needs totals that do not go back, from line to
  line and to the count rclone is at (`RiseInv`, `Below`), which is so in a log of
  the invocation's own. Errors do go back, when `--retries` starts over, and are
  only bounded. `EndInv` adds that an rclone that ended well logged its totals last,
  and that the last poll read to the end: whence `OkIsTrue`, and the refinement of
  `CopiedStream`. `RcloneAssumption` says two things of what rclone logs: an
  error line has a message (the model's "none" stands for no streak), and the
  lines an earlier invocation left are such as rclone writes.
* **TransformFileProofs.** Two invariants carry each other. `KeyInv` says of each key
  how far its outputs are: which of the names still to be pushed are placed, which
  are at the destination, and that what a run took for done stays done and is not
  begun anew (`CompleteInv`). For an object nobody replaced, the names at the
  destination, in `result/` and still to be pushed are among those of its one version, and
  from "pushing" on they are all of them (`WholeInv`); that a set of names which looks
  complete is the whole set then follows by its cardinality. `LocalInv` says whose
  bytes a file holds: a path under `source/` is only ever pulled for the one listed key
  with that path that is not done (`Alone`), although a later run may find it under
  another spelling, and a slot keeps keys apart that `local_fold` takes for one path.
  The latter is `SlotsKeepApart`, about `assign_case_variant_slots` for any number of
  keys; of clashes `local_fold` does not foresee nothing is claimed (`Foreseen`).
  That an attempt leaves no truncated output where a guard stands is `CutShort`, about
  the operators of `Converters`: for every verdict an attempt may have, tolerated
  and unread outputs being "short". The circuit breaker disturbs none of it, since what
  it keeps from being begun stays as it was; that its counts stay in their window is
  `BreakerInv`. `FileAssumption` closes the keys under respelling a
  key's directory as the volume spells it, because such files are found there, and
  lets a kind ignore letter case, as `matches_extension` does (`format.rs:320`).
  `DoneIsWhole` is about objects (`IsObject`): a workbook found under a spelling
  no key has is published with the sheets of another object's version, and what it
  ought to have is not defined.

Induction over data has no proof rule here, since the library's theorems take an
operator as a parameter. Where it is needed (a channel or a log of any length,
slots for any number of keys, zips of any depth) the proof takes the least
counterexample instead, from one fact about nonempty sets of natural numbers.

Left to TLC: all liveness, which is out of the prover's reach, as is anything
about ENABLED. Every invariant and action property a passing run checks is proved.
No module declares a RECURSIVE operator, so that all of them can be proved about.

## Findings

Four documented claims do not hold of the code, each quoted at its line in
`PROJECT.json` and shown by a run.

* `gate_losers_retry`: a recovery gate keeps no receiver, so that `send(false)` mostly
  closes nothing, and tasks that lose the election retry during the backoff.
* `pipeline_tripped`: a run whose breaker trips with a backlog at the
  high-water mark stops its pull for good, and hangs.
* `ingest_legacy_marker`: a `--legacy` run after ledger runs and a UIDVALIDITY
  change skips new mail.
* `dedup_member_lost`: a zip is checkpointed although a member of it could not
  be placed, and no later run retries it.

What else was met while modelling, and stays true of the models, without a run
of its own:

* A recovery gate closed by a receiver that is gone at `send(true)` stays closed
  (`TW:217`), and a task that subscribes to it later waits, with its permit, for
  another task's round: `Stranded` in `RunEndsUnlessStranded`. The window is short.
* A seed records a message whose `.eml` is there and whose attachments never arrived
  (`email_import/ledger.rs:164`), and the first ledger run passes over it, where CLI-0164
  has every error lean toward re-ingesting: `doubtful` in `RecordedIsDelivered`.
* A late upload of an aborted flusher takes rows off a ledger that only grows by its
  doc (`EW:941`, `OrphanLands`). The window is short.
* With `PIGEON_SECRET_<ALIAS>` set for `keyring add` or `modify`, the bucket is listed
  with the variable's secret and stored with the typed one
  (`commands/keyring/wizard.rs:144`): `injected` in `Sound`.
* A job beside another reads the secret the other's environment injected, since both
  write the one `rclone.conf` (`core/rclone/config.rs:122`): `by` in `SoundSection`.
* An rclone that starts while another process rewrites `rclone.conf` may find no section
  (`TruncateConf`, `Run`). The window is short.
* The push gate's comment speaks of fruitless rounds (`TW:154`), but the counter
  is never reset (`TW:200`): recovered outages use up its budget too.
* A batch whose answer omits a body takes the scratch file an earlier generation left
  for it (`EW:569`): `BodyOmitted` in `RecordedIsDelivered`.
* Two rows may end up on one line of a checkpoint, and are then read as none
  (`email_import/manifest.rs:72`): the messages are delivered again.
* What soffice and ebook-convert leave is taken whatever their exit status
  (`transform/soffice.rs:136`, `transform/documents.rs:322`), though `process_one`
  speaks of complete outputs (`TW:704`): `Unguarded` in `DoneIsWhole`. An `.ics`
  or `.vcf` that is cut is rendered as far as it goes.
* What ffmpeg makes of damaged bytes, or an audio run of a video where ffprobe fails,
  passes where the guards see nothing: `Lenient` in `DoneIsWhole`.
* On a case-insensitive volume, keys that share a directory but for its letter
  case, and so do not collide (`TW:1506`), are pulled under one spelling. A file a
  crash leaves there is taken by a later scan for the key it is spelled as: it is
  published under a name the source does not have, and, found complete from then
  on and never copied anew, the key itself need not arrive. `OwnBytes` speaks of
  listed keys only, and `EveryFileArrives` excepts them by `SpelledAlike`.
* A keyring command undoes what another one saved since it loaded
  (`commands/keyring/store.rs:196`), and a load during a save reads an empty keyring.

Seen in the code and not in a model, so that no claim is made of them:

* a failed pull returns before the undelivered keys are recorded and the report
  is written (`TW:2179`), and a failed `deduplicate` run uploads the report an
  earlier one left (`deduplicate/wizard.rs:406`);
* `pull_pid_rx.recv()` answers None for ever once its sender is gone (`TW:2003`),
  so that the loop spins until the pull is joined;
* the wait before a requeue is 30 s however many attempts were made (`EW:180`);
* a panicked worker's batch is neither requeued nor counted (`EW:934`), and a
  panicked deduplicate worker never takes itself off the counter (`DW:482`);
* a scan carries an unreachable mailbox's counts forward by the mailbox's name
  alone (`email_scan/status.rs:89`).

## Plan

Done: `RecoveryGate`, `OutageGate`, `TransformPipeline`, `ImportQueue`,
`IngestLedger` with scans, `Deduplicate`, `TransformFile` with `Converters`,
`RcloneCommand` with `CopiedStream`, `Commands` with `Keyring`.

All of them are proved about, and every safety property that a passing run checks
is a theorem. Next: what follows from the invariants and no run checks, such as that
a source is removed only when its outputs are at the destination.

## Not modelled

* IMAP pacing: it only delays fetches, and no property depends on the delay.
* Several mailboxes whose paths sanitize to one, the extraction and naming of
  attachments, the counts a scan reports.
* What the in-process decoders compute (`lzo1x`, procreate's layers, vCard and
  iCalendar lines, CSV cells): functions of bytes. Their verdicts are in `Converters`.
* Flags' names, defaults and wording, tables, reports' text.
* Observability: logging and metrics, on which no behaviour depends.
