---------------------------- MODULE TransformFile ----------------------------
(***************************************************************************)
(* What transform does to files (commands/job/transform: worker.rs,         *)
(* placement.rs, manifest.rs, destination.rs, push.rs), over many runs on    *)
(* one local disk.  A run lists the destination once, queues what earlier    *)
(* runs left under source/, pulls the rest with rclone, the keys that would  *)
(* share a local path into slots of their own, and gives every queued file   *)
(* to process_one: convert, place the outputs in result/, push them one by   *)
(* one, remove the local copies.  Whether a file is done is read off the     *)
(* names at the destination and nothing else.                               *)
(*                                                                         *)
(* The local volume takes some names for the same and keeps the spelling it   *)
(* finds; which ones the program expects it to is another matter.  A key is the *)
(* sequence of its path components.  The outputs of one key are named by a   *)
(* pair <<index, total>>, the plain name being <<1, 1>>; a sheet's title is  *)
(* left out.  The main loop's scheduling is TransformPipeline's: here any    *)
(* queued file may be worked on.  What an attempt at a conversion comes to is  *)
(* Converters'.                                                             *)
(***************************************************************************)
EXTENDS Naturals, Sequences, SequencesExt, Converters

CONSTANTS Listings,    \* what --source may hold: each a set of keys
          KeyOrder,    \* every key, in sorted order
          LocalFold,   \* LocalFold[c]: what local_fold makes of a path component
          OnVolume,    \* OnVolume[c]: what the local volume knows it by
          Kind,        \* Kind[k]: the --input-file-type of the runs that list k
          Nature,      \* Nature[k]: what its bytes are
          Sheets,      \* Sheets[k][v]: how many outputs version v of k has
          Retries,     \* TRANSCODE_RETRIES
          SampleSize,  \* CIRCUIT_BREAKER_SAMPLE_SIZE
          TripAt,      \* CIRCUIT_BREAKER_TRIP_THRESHOLD
          MaxFaults    \* bound: crashes and failed steps together

Keys == ToSet(KeyOrder)
Workbooks == {k \in Keys : Kind[k] \in Spreadsheets}

\* The program's guess at which names clash: NFC, then lowercase.
FoldPath(p) == [i \in DOMAIN p |-> LocalFold[p[i]]]
SameFold(p, q) == FoldPath(p) = FoldPath(q)

\* The volume's answer.
SamePath(p, q) == [i \in DOMAIN p |-> OnVolume[p[i]]] = [i \in DOMAIN q |-> OnVolume[q[i]]]

\* p, inside the directory c.
In(c, p) == <<c>> \o Tail(p)

\* Keys may be spelled as the disk spells their directory, and a file is of a kind
\* however it is spelled.
ASSUME FileAssumption ==
  /\ KeyOrder \in Seq(Seq(DOMAIN OnVolume) \ {<<>>})
  /\ Listings \subseteq SUBSET Keys
  /\ \A j, k \in Keys : Len(k) > 1 /\ OnVolume[j[1]] = OnVolume[k[1]] => In(j[1], k) \in Keys
  /\ \A j, k \in Keys : SamePath(j, k) => Kind[j] = Kind[k]
  /\ Kind \in [Keys -> Kinds]
  /\ Nature \in [Keys -> Natures]
  /\ \A k \in Keys : Nature[k] = "email" => Kind[k] = "md"
  /\ Sheets \in [Keys -> Seq(Nat \ {0}) \ {<<>>}]
  /\ \A k \in Keys \ Workbooks : \A v \in DOMAIN Sheets[k] : Sheets[k][v] = 1
  /\ \A S \in Listings : \A j, k \in S : Kind[j] = Kind[k]
  /\ Retries \in Nat \ {0}
  /\ SampleSize \in Nat \ {0} /\ TripAt \in 1..SampleSize
  /\ MaxFaults \in Nat

VARIABLES
  \* The source: its keys and the version of each.
  listed, version,
  \* The destination: outputs [group, name, key, version, extent], the last three
  \* saying whose bytes they are and whether they are all of them.
  dest,
  \* The local disk: files [dir, name, key, version], dir 0 being source/ and
  \* dir i slot i; the directories under source/; outputs in result/.
  local, dirs, result,
  \* The run.
  up,         \* run_transform_job is running
  complete,   \* groups complete in its listing of the destination
  toCopy,     \* keys of the bulk pull rclone has not handled yet
  stage, dir, \* of each dispatched key: where process_one is, where its file is
  attempts,   \* conversions tried
  made,       \* what was converted: {} or {[key, version, extent]}
  toPlace, toPush,  \* names of outputs
  samples, matches, \* the circuit breaker's
  faults

source == <<listed, version>>
disk == <<local, dirs, result>>
task == <<stage, dir, attempts, made, toPlace, toPush>>
breaker == <<samples, matches>>
vars == <<source, dest, disk, up, complete, toCopy, task, breaker, faults>>

-----------------------------------------------------------------------------
(* Names. *)

\* The names of the outputs of a workbook of n sheets; one sheet keeps the plain
\* name, as every other kind does.
NamesOf(n) == {<<i, n>> : i \in 1..n}

\* sorted by name, which is by index.
FirstName(names) == CHOOSE n \in names : \A o \in names : n[1] <= o[1]

\* DestinationGroups::is_complete: the plain name, or as many members as they
\* all agree there are.
CompleteNames(names) ==
  \/ <<1, 1>> \in names
  \/ \E n \in names :
       /\ \A o \in names : o[2] = n[2]
       /\ Cardinality({o[1] : o \in names}) = n[2]

\* DestinationGroups::index, of the destination or of result/.
NamesIn(outputs, k) == {o.name : o \in {p \in outputs : p.group = k}}

-----------------------------------------------------------------------------
(* Which keys are pulled, and where to. *)

\* case_insensitive_collisions: every member of every colliding group.
Colliding(keys) == {k \in keys : \E j \in keys \ {k} : SameFold(j, k)}

Components(k) == Prefixes(k) \ {<<>>}

\* A key joins a slot in which each of its path prefixes is unclaimed or is
\* claimed by the same spelling.
Fits(slot, k) ==
  \A p \in Components(k) : \A j \in slot : \A q \in Components(j) : SameFold(p, q) => p = q

\* Mistake: one slot for all variants.
OneSlotForAll(keys) == <<keys>>

\* assign_case_variant_slots: first fit, over the sorted keys.
Join(slots, k) ==
  LET fitting == {i \in DOMAIN slots : Fits(slots[i], k)}
      first == CHOOSE i \in fitting : \A j \in fitting : i <= j
  IN  IF fitting = {} THEN Append(slots, {k}) ELSE [slots EXCEPT ![first] = @ \cup {k}]

Slots(keys) ==
  LET upTo[i \in 0..Len(KeyOrder)] ==
        IF i = 0 THEN <<>>
        ELSE IF KeyOrder[i] \in keys THEN Join(upTo[i - 1], KeyOrder[i])
        ELSE upTo[i - 1]
  IN  upTo[Len(KeyOrder)]

SlotOf(slots, k) == CHOOSE i \in DOMAIN slots : k \in slots[i]

\* The file a path resolves to: {} or one file.
FileAt(d, p) == {f \in local : f.dir = d /\ SamePath(f.name, p)}

\* A new file is spelled as it is named, inside the directory that is there.
Spelled(p) ==
  IF Len(p) > 1 /\ \E d \in dirs : OnVolume[d] = OnVolume[p[1]]
  THEN In(CHOOSE d \in dirs : OnVolume[d] = OnVolume[p[1]], p)
  ELSE p

-----------------------------------------------------------------------------

Ended == {"pushed", "skipped", "failed"}
Stages == {"none", "queued", "converting", "placing", "pushing", "sent"} \cup Ended

Init ==
  /\ listed \in Listings
  /\ version = [k \in Keys |-> 1]
  /\ dest = {}
  /\ local = {} /\ dirs = {} /\ result = {}
  /\ up = FALSE
  /\ complete = {}
  /\ toCopy = {}
  /\ stage = [k \in Keys |-> "none"]
  /\ dir = [k \in Keys |-> 0]
  /\ attempts = [k \in Keys |-> 0]
  /\ made = [k \in Keys |-> {}]
  /\ toPlace = [k \in Keys |-> {}] /\ toPush = [k \in Keys |-> {}]
  /\ samples = 0 /\ matches = 0
  /\ faults = 0

Fault == faults < MaxFaults /\ faults' = faults + 1

\* circuit_breaker_should_trip: too many of the first files of the run failed to
\* convert, for good.
Tripped == samples = SampleSize /\ matches >= TripAt

\* A file has ended; match says whether it failed in NON_RETRYABLE_SIGNATURES.
Sample(match) ==
  IF samples = SampleSize THEN UNCHANGED breaker
  ELSE samples' = samples + 1 /\ matches' = IF match THEN matches + 1 ELSE matches

\* The process is gone; the disk is what it leaves.
ForgetTasks ==
  /\ dir' = [k \in Keys |-> 0]
  /\ attempts' = [k \in Keys |-> 0]
  /\ made' = [k \in Keys |-> {}]
  /\ toPlace' = [k \in Keys |-> {}] /\ toPush' = [k \in Keys |-> {}]
  /\ samples' = 0 /\ matches' = 0

\* gather_pending through enqueue: the names found under source/, spelled as
\* they are on disk.
Scanned(done) == {f.name : f \in {g \in local : g.dir = 0}} \ done

\* Mistake: a key is not pulled again once it has any output.
ToPullUnlessBegun(done) == {k \in listed \ done : NamesIn(dest, k) = {}}

\* files_needing_pull.
ToPull(done) == listed \ done

\* Up to the loop: the slots are cleared and pulled again, each by an rclone of
\* its own.  Of the variants in one slot that share a path one is left there;
\* presence on disk decides which keys are queued.
StartRun ==
  /\ ~up
  /\ up' = TRUE
  /\ LET done == {k \in Keys : CompleteNames(NamesIn(dest, k))}
         scan == Scanned(done)
         variants == Colliding(ToPull(done))
     IN  \E slots \in {Slots(variants)}, landed \in SUBSET variants :
           LET slot(k) == SlotOf(slots, k)
               Rivals(k) == {j \in variants : slot(j) = slot(k) /\ SamePath(j, k)}
           IN  /\ \A k \in landed : Rivals(k) \cap landed = {k}
               /\ IF \A k \in variants : Rivals(k) \cap landed # {} THEN UNCHANGED faults ELSE Fault
               /\ complete' = done
               /\ toCopy' = ToPull(done) \ variants
               /\ local' = {f \in local : f.dir = 0}
                             \cup {[dir |-> slot(k), name |-> k, key |-> k, version |-> version[k]] :
                                   k \in landed}
               /\ stage' = [k \in Keys |->
                             IF k \in scan \/ (k \in variants /\ Rivals(k) \cap landed # {})
                             THEN "queued" ELSE "none"]
               /\ dir' = [k \in Keys |-> IF k \in variants \ scan THEN slot(k) ELSE 0]
  /\ attempts' = [k \in Keys |-> 0]
  /\ made' = [k \in Keys |-> {}]
  /\ toPlace' = [k \in Keys |-> {}] /\ toPush' = [k \in Keys |-> {}]
  /\ samples' = 0 /\ matches' = 0
  /\ UNCHANGED <<source, dest, dirs, result>>

-----------------------------------------------------------------------------
(* The bulk pull, external: rclone writes to the file the volume finds under    *)
(* the name, which keeps its spelling; one with the same bytes is left alone,    *)
(* without a "Copied" line.  The live tail's enqueue follows, unless the breaker *)
(* has tripped.                                                             *)

Dispatched(k) == stage[k] # "none"

Transfer(k) ==
  /\ up
  /\ k \in toCopy
  /\ toCopy' = toCopy \ {k}
  /\ LET there == FileAt(0, k)
         name == IF there = {} THEN Spelled(k) ELSE (CHOOSE f \in there : TRUE).name
         new == [dir |-> 0, name |-> name, key |-> k, version |-> version[k]]
     IN  IF there = {new} THEN UNCHANGED <<local, dirs, stage>>
         ELSE /\ local' = (local \ there) \cup {new}
              /\ dirs' = IF Len(k) > 1 THEN dirs \cup {name[1]} ELSE dirs
              /\ stage' = IF k \in complete \/ Dispatched(k) \/ Tripped THEN stage
                          ELSE [stage EXCEPT ![k] = "queued"]
  /\ UNCHANGED <<source, dest, result, up, complete, dir, attempts, made, toPlace,
                 toPush, breaker, faults>>

TransferFails(k) ==
  /\ up
  /\ k \in toCopy
  /\ Fault
  /\ toCopy' = toCopy \ {k}
  /\ UNCHANGED <<source, dest, disk, up, complete, task, breaker>>

-----------------------------------------------------------------------------
(* process_one. *)

At(k, s) == up /\ stage[k] = s
Goto(k, s) == stage' = [stage EXCEPT ![k] = s]
File(k) == FileAt(dir[k], k)
RemoveLocal(k) == local' = local \ File(k)

\* Mistake: what an earlier run left in result/ is not looked at.
NeverResumable(k) == FALSE

\* The outputs an earlier run placed and did not push are all there.
Resumable(k) == CompleteNames(NamesIn(result, k))

Resume(k) ==
  /\ At(k, "queued")
  /\ ~Tripped
  /\ Resumable(k)
  /\ Goto(k, "pushing")
  /\ toPush' = [toPush EXCEPT ![k] = NamesIn(result, k)]
  /\ UNCHANGED <<source, dest, disk, up, complete, toCopy, dir, attempts, made, toPlace, breaker, faults>>

\* email_shape::classify of what is at k's local path.
EmailShaped(k) == Kind[k] = "md" /\ \E f \in File(k) : Nature[f.key] = "email"

\* A Markdown file that reads like a message is left at the source.
SkipEmail(k) ==
  /\ At(k, "queued")
  /\ ~Tripped
  /\ ~Resumable(k)
  /\ EmailShaped(k)
  /\ Goto(k, "skipped")
  /\ RemoveLocal(k)
  /\ UNCHANGED <<source, dest, dirs, result, up, complete, toCopy, dir, attempts, made,
                 toPlace, toPush, breaker, faults>>

BeginConversion(k) ==
  /\ At(k, "queued")
  /\ ~Tripped
  /\ ~Resumable(k)
  /\ ~EmailShaped(k)
  /\ Goto(k, "converting")
  /\ UNCHANGED <<source, dest, disk, up, complete, toCopy, dir, attempts, made, toPlace,
                 toPush, breaker, faults>>

\* One attempt at k that comes to a verdict in V.
Attempt(k, f, V) ==
  /\ \E tool \in Tools(Kind[k]) : \E run \in RunsOf(tool) :
       /\ Verdict(Kind[k], Nature[f.key], tool, run) \cap V # {}
       /\ IF run = "clean" THEN UNCHANGED faults ELSE Fault

Convert(k) ==
  /\ At(k, "converting")
  /\ \E f \in File(k), v \in Extents :
       /\ Attempt(k, f, {v})
       /\ made' = [made EXCEPT ![k] = {[key |-> f.key, version |-> f.version, extent |-> v]}]
       /\ LET names == NamesOf(Sheets[f.key][f.version])
          IN  toPlace' = [toPlace EXCEPT ![k] = names] /\ toPush' = [toPush EXCEPT ![k] = names]
  /\ Goto(k, "placing")
  /\ UNCHANGED <<source, dest, disk, up, complete, toCopy, dir, attempts, breaker>>

\* Mistake: one attempt more.
TryAgainOnceMore(k) ==
  /\ At(k, "converting")
  /\ \E f \in File(k) : Attempt(k, f, {"again"})
  /\ attempts' = [attempts EXCEPT ![k] = @ + 1]
  /\ attempts[k] < Retries
  /\ UNCHANGED <<source, dest, disk, up, complete, toCopy, stage, dir, made, toPlace, toPush, breaker>>

\* retry_transcode_unless_fatal.
TryAgain(k) ==
  /\ At(k, "converting")
  /\ \E f \in File(k) : Attempt(k, f, {"again"})
  /\ attempts[k] + 1 < Retries
  /\ attempts' = [attempts EXCEPT ![k] = @ + 1]
  /\ UNCHANGED <<source, dest, disk, up, complete, toCopy, stage, dir, made, toPlace, toPush, breaker>>

\* The file failed and is kept for diagnosis: its error is not retried, its
\* retries are used up, or it is gone.
ConversionFails(k) ==
  /\ At(k, "converting")
  /\ \/ \E f \in File(k) : Attempt(k, f, {"no"}) /\ \E match \in BOOLEAN : Sample(match)
     \/ \E f \in File(k) : Attempt(k, f, {"again"}) /\ attempts[k] + 1 = Retries /\ Sample(FALSE)
     \/ File(k) = {} /\ UNCHANGED faults /\ \E match \in BOOLEAN : Sample(match)
  /\ Goto(k, "failed")
  /\ UNCHANGED <<source, dest, disk, up, complete, toCopy, dir, attempts, made, toPlace, toPush>>

\* check_disk_space or the scratch directory: the file fails at once.
NoRoom(k) ==
  /\ At(k, "converting")
  /\ attempts[k] = 0
  /\ Fault /\ Sample(FALSE)
  /\ Goto(k, "failed")
  /\ UNCHANGED <<source, dest, disk, up, complete, toCopy, dir, attempts, made, toPlace, toPush>>

\* is_wrong_input_kind_error: the local copy goes.
ConversionRefused(k) ==
  /\ At(k, "converting")
  /\ \E f \in File(k) : Attempt(k, f, {"wrongKind"}) /\ Sample(TRUE)
  /\ Goto(k, "failed")
  /\ RemoveLocal(k)
  /\ UNCHANGED <<source, dest, dirs, result, up, complete, toCopy, dir, attempts, made,
                 toPlace, toPush>>

\* place_sheet keeps an output that is there, place_one refuses to.
Place(k) ==
  /\ At(k, "placing")
  /\ toPlace[k] # {}
  /\ LET name == FirstName(toPlace[k])
         there == name \in NamesIn(result, k)
         new == {[group |-> k, name |-> name, key |-> c.key, version |-> c.version,
                  extent |-> c.extent] : c \in made[k]}
     IN  IF there /\ k \notin Workbooks
         THEN Goto(k, "failed") /\ Sample(FALSE) /\ UNCHANGED <<result, toPlace>>
         ELSE /\ result' = IF there THEN result ELSE result \cup new
              /\ toPlace' = [toPlace EXCEPT ![k] = @ \ {name}]
              /\ IF toPlace[k] = {name} THEN Goto(k, "pushing") ELSE UNCHANGED stage
              /\ UNCHANGED breaker
  /\ UNCHANGED <<source, dest, local, dirs, up, complete, toCopy, dir, attempts, made,
                 toPush, faults>>

\* The name of the output being pushed.
Pushing(k) == FirstName(toPush[k])

Push(k) ==
  /\ At(k, "pushing")
  /\ toPush[k] # {}
  /\ dest' = {o \in dest : o.group # k \/ o.name # Pushing(k)}
               \cup {o \in result : o.group = k /\ o.name = Pushing(k)}
  /\ Goto(k, "sent")
  /\ UNCHANGED <<source, disk, up, complete, toCopy, dir, attempts, made, toPlace, toPush, breaker, faults>>

\* A rename fails, or a push, for good; what is in result/ and under source/
\* stays for the next run.
PlaceOrPushFails(k) ==
  /\ stage[k] \in {"placing", "pushing"} /\ up
  /\ toPush[k] # {}
  /\ Fault /\ Sample(FALSE)
  /\ Goto(k, "failed")
  /\ UNCHANGED <<source, dest, disk, up, complete, toCopy, dir, attempts, made, toPlace, toPush>>

\* The output is at the destination: its local copy goes.
RemoveOutput(k) ==
  /\ At(k, "sent")
  /\ result' = {o \in result : o.group # k \/ o.name # Pushing(k)}
  /\ toPush' = [toPush EXCEPT ![k] = @ \ {Pushing(k)}]
  /\ Goto(k, "pushing")
  /\ UNCHANGED <<source, dest, local, dirs, up, complete, toCopy, dir, attempts, made,
                 toPlace, breaker, faults>>

\* All of them are: so does the source's.
Finish(k) ==
  /\ At(k, "pushing")
  /\ toPush[k] = {}
  /\ RemoveLocal(k)
  /\ Goto(k, "pushed")
  /\ Sample(FALSE)
  /\ UNCHANGED <<source, dest, dirs, result, up, complete, toCopy, dir, attempts, made,
                 toPlace, toPush, faults>>

-----------------------------------------------------------------------------

\* What the breaker keeps from being begun stays queued; it is under source/ for
\* the next run.
EndRun ==
  /\ up
  /\ toCopy = {}
  /\ \A k \in Keys : stage[k] \in {"none"} \cup Ended \/ (Tripped /\ stage[k] = "queued")
  /\ up' = FALSE
  /\ ForgetTasks
  /\ UNCHANGED <<source, dest, disk, complete, toCopy, stage, faults>>

\* The scratch directory goes as well, at the next start if not before.
Crash ==
  /\ up
  /\ Fault
  /\ up' = FALSE
  /\ toCopy' = {}
  /\ stage' = [k \in Keys |-> "none"]
  /\ ForgetTasks
  /\ UNCHANGED <<source, dest, disk, complete>>

\* The next run is on another host.
NewHost ==
  /\ ~up
  /\ local # {} \/ dirs # {} \/ result # {}
  /\ local' = {} /\ dirs' = {} /\ result' = {}
  /\ UNCHANGED <<source, dest, up, complete, toCopy, task, breaker, faults>>

\* Somebody replaces an object at the source.
Edit(k) ==
  /\ k \in listed
  /\ version[k] + 1 \in DOMAIN Sheets[k]
  /\ version' = [version EXCEPT ![k] = @ + 1]
  /\ UNCHANGED <<listed, dest, disk, up, complete, toCopy, task, breaker, faults>>

\* The keys a step can be about: listed, or found under source/.
Active == listed \cup {k \in Keys : Dispatched(k)}

Process(k) ==
  \/ Resume(k) \/ SkipEmail(k) \/ BeginConversion(k)
  \/ Convert(k) \/ TryAgain(k) \/ ConversionFails(k) \/ ConversionRefused(k)
  \/ Place(k)
  \/ Push(k) \/ RemoveOutput(k) \/ Finish(k)

Failure ==
  \/ \E k \in Active : TransferFails(k) \/ NoRoom(k) \/ PlaceOrPushFails(k)
  \/ Crash

Next ==
  \/ StartRun
  \/ \E k \in Active : Transfer(k) \/ Process(k) \/ Edit(k)
  \/ EndRun
  \/ Failure
  \/ NewHost

Spec == Init /\ [][Next]_vars

\* The operator runs the job again and again; a run goes on as long as its rclone
\* or one of its tasks can, and ends when none can.
GoesOn == StartRun \/ EndRun \/ \E k \in Active : Transfer(k) \/ Process(k)

FairSpec == Spec /\ WF_vars(GoesOn)

-----------------------------------------------------------------------------
(* Properties. *)

Outputs == [group : Keys, name : Nat \X Nat, key : Keys, version : Nat, extent : Extents]

\* The variables keep their ranges, a path names at most one local file, a name
\* at most one output, and no conversion is tried more than TRANSCODE_RETRIES
\* times.
TypeOK ==
  /\ listed \in Listings /\ version \in [Keys -> Nat]
  /\ dest \subseteq Outputs /\ result \subseteq Outputs
  /\ local \subseteq [dir : Nat, name : Keys, key : Keys, version : Nat]
  /\ \A f, g \in local : f.dir = g.dir /\ SamePath(f.name, g.name) => f = g
  /\ \A S \in {dest, result} :
       \A o, p \in S : o.group = p.group /\ o.name = p.name => o = p
  /\ up \in BOOLEAN
  /\ complete \subseteq Keys /\ toCopy \subseteq listed
  /\ stage \in [Keys -> Stages] /\ dir \in [Keys -> Nat]
  /\ attempts \in [Keys -> 0..Retries - 1]
  /\ \A k \in Keys :
       /\ made[k] \subseteq [key : Keys, version : Nat, extent : Extents]
       /\ toPlace[k] \subseteq toPush[k]
  /\ samples \in 0..SampleSize /\ matches \in 0..samples
  /\ faults \in 0..MaxFaults

Unedited(k) == version[k] = 1

\* The program expects every clash k has with a listed key on the volume.
Foreseen(k) == \A j \in listed : SamePath(j, k) => SameFold(j, k)

\* A workbook found under source/ in another spelling than its key's is not the object.
IsObject(k) == (k \in listed /\ Foreseen(k)) \/ k \notin Workbooks

\* A file that counts as done, at the destination or in this run's report, is
\* there whole: whatever runs crashed or failed half way, on one host or on
\* several, no sheet of it is missing, and no output is a part of what it should be
\* that a guard stands behind.  What the guards let pass is "short", not "part":
\* is_truncated_encode's half a second and 2 %, and whatever ffprobe does not read.
\* Of what is damaged, or of another kind, they do not see much.  (Not claimed of an
\* object replaced between two runs, nor of a workbook that shares a local file
\* with a key local_fold tells apart.)
DoneIsWhole ==
  /\ \A k \in Keys :
       /\ IsObject(k) /\ Unedited(k)
       /\ stage[k] = "pushed" \/ CompleteNames(NamesIn(dest, k))
       => NamesIn(dest, k) = NamesOf(Sheets[k][1])
  /\ \A o \in dest \cup result :
       o.extent = "part" =>
         Kind[o.group] \in Unguarded \/ (Kind[o.group] \in Lenient /\ Nature[o.key] # "good")

\* Bytes keep their name: what is at the destination under the name of a key
\* that is listed, or on its way there, was made of that key's object, although
\* keys may share a local path; of clashes local_fold misses this is not claimed.
OwnBytes == \A o \in dest \cup result : o.group \in listed /\ Foreseen(o.group) => o.key = o.group

\* place_one's hard error is not met by a file that merely comes a second time,
\* after a crash or a failed push.
PlaceNeverCollides ==
  \A k \in Keys \ Workbooks : stage[k] = "placing" => toPlace[k] \cap NamesIn(result, k) = {}

\* k's file and directories are spelled alike in all keys that share them on the volume.
SpelledAlike(k) ==
  \A p \in Components(k) : \A j \in listed : \A q \in Components(j) : SamePath(p, q) => p = q

\* There are fewer bad files than trip the breaker.
FewAreBad == Cardinality({k \in listed : Nature[k] # "good"}) < TripAt

\* Runs to come mend what earlier ones left: once failures stop, every object
\* that can be converted is at the destination with all its outputs, unless it
\* was replaced meanwhile or shares a local file or directory with a key that
\* spells it otherwise.  Where so many files are damaged or of another kind that
\* the circuit breaker can end every run at them, nothing is claimed.
EveryFileArrives ==
  <>[](FewAreBad => \A k \in listed :
         Nature[k] = "good" /\ SpelledAlike(k)
         => ~Unedited(k) \/ CompleteNames(NamesIn(dest, k)))
=============================================================================
