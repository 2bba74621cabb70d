---------------------------- MODULE RcloneCommand ----------------------------
(***************************************************************************)
(* One rclone invocation (core/rclone: mod.rs, log.rs, command.rs;           *)
(* core/retry.rs).  A streamed one, "copy" or "purge", is spawned, its stderr  *)
(* is drained by a task, its --log-file is read every LOG_POLL_INTERVAL and    *)
(* once more after its exit, and what is new there goes to the metrics, to     *)
(* the run's log and to the caller.  A one-shot one, "lsjson" or "copyto", is   *)
(* run to its end and tried again.                                           *)
(*                                                                         *)
(* The log is a sequence of half lines, so that a read may end in the middle   *)
(* of a line.  Counters are of objects copied or deleted ("moved") and of      *)
(* errors; bytes behave as the former.                                       *)
(***************************************************************************)
EXTENDS Naturals, Sequences, FiniteSets

CONSTANTS Objects,    \* objects under --source
          Causes,     \* error messages of rclone
          Earlier,    \* lines an earlier invocation may have left in the log
          Attempts,   \* of retry_with_backoff, per one-shot command
          PipeSize,   \* what the stderr pipe holds
          MaxLines,   \* bound: lines rclone logs before its last
          MaxStderr,  \* bound: what it writes to stderr
          MaxFaults   \* bound: reads of the log that fail

Streamed == {"copy", "purge"}
OneShot == {"lsjson", "copyto"}

Named == {Earlier[i].what : i \in DOMAIN Earlier}

\* What rclone logs; "none" is no cause.
LogLines ==
  {l \in [kind : {"copied", "other", "error", "notice", "stats"},
          what : Objects \cup Causes \cup Named \cup {"none"}, moved : Nat, errors : Nat] :
     /\ l.kind = "copied" => l.what \in Objects \cup Named
     /\ l.kind = "error" => l.what # "none"}

ASSUME RcloneAssumption ==
  /\ Attempts \in [OneShot -> Nat \ {0}]
  /\ PipeSize \in Nat \ {0}
  /\ "none" \notin Causes
  /\ Earlier \in Seq(LogLines)
  /\ {MaxLines, MaxStderr, MaxFaults} \subseteq Nat

VARIABLES
  \* The command: what it is, whether a missing path is an empty listing, how many
  \* lines its log holds already; where it is; its result.
  command, missingOk, left, stage, result,
  \* rclone: "none", "running" or how it ended; its log; its counters; what it
  \* still has to write to stderr, and what is in the pipe.
  child, log, moved, errors, toStderr, pipe,
  \* RcloneLogTailer: half lines read, the beginning of a line, the last counters.
  offset, partial, cumulative,
  \* What came of it: counted in the metrics, objects sent on on_copied, error
  \* lines warned of singly and in summaries, duplicate notices.
  metered, received, warned, summarised, notices,
  unread, faults,
  \* One-shot: the path's objects or "absent"; attempts; the listing returned.
  there, attempt, listing

shell == <<command, missingOk, left>>
rclone == <<child, log, moved, errors, toStderr, pipe>>
tailer == <<offset, partial, cumulative>>
reports == <<metered, received, warned, summarised, notices, unread, faults>>
oneShot == <<there, attempt, listing>>
vars == <<shell, stage, result, rclone, tailer, reports, oneShot>>

-----------------------------------------------------------------------------
(* The log. *)

Line(kind, what) == [kind |-> kind, what |-> what, moved |-> 0, errors |-> 0]
Stats(m, e) == [kind |-> "stats", what |-> "none", moved |-> m, errors |-> e]

Halves(lines) == [i \in 1..2 * Len(lines) |->
                    [line |-> lines[(i + 1) \div 2], half |-> IF i % 2 = 1 THEN 1 ELSE 2]]

\* Lines that are all there.
Complete(halves) == Len(halves) \div 2
LineIn(halves, i) == halves[2 * i].line
LineAt(i) == LineIn(log, i)
InMidLine == Len(log) % 2 = 1

LinesOf(kind, n) == {i \in 1..n : LineAt(i).kind = kind}

\* What the first n lines say was copied, in their order.
Announced(halves, n) ==
  LET upTo[i \in 0..n] ==
        IF i = 0 THEN <<>>
        ELSE IF LineIn(halves, i).kind = "copied" THEN Append(upTo[i - 1], LineIn(halves, i).what)
        ELSE upTo[i - 1]
  IN  upTo[n]

-----------------------------------------------------------------------------

Init ==
  /\ command \in Streamed \cup OneShot
  /\ missingOk \in IF command = "lsjson" THEN BOOLEAN ELSE {FALSE}
  /\ stage = "start" /\ result = "none"
  /\ child = "none"
  /\ left \in IF command \in Streamed THEN {0, Len(Earlier)} ELSE {0}
  /\ log = Halves(SubSeq(Earlier, 1, left))
  /\ moved = 0 /\ errors = 0
  /\ toStderr \in IF command \in Streamed THEN {0, MaxStderr} ELSE {0}
  /\ pipe = 0
  /\ offset = 0 /\ partial = <<>> /\ cumulative = [moved |-> 0, errors |-> 0]
  /\ metered = [moved |-> 0, errors |-> 0]
  /\ received = <<>> /\ warned = 0 /\ summarised = 0 /\ notices = 0
  /\ unread = FALSE /\ faults = 0
  /\ there \in IF command \in OneShot THEN {"absent", "nothing", "objects"} ELSE {"objects"}
  /\ attempt = 0 /\ listing = "none"

-----------------------------------------------------------------------------
(* rclone, external.  Half a line is written at a time; --retries starts the   *)
(* count of errors again; one that comes to its end logs its counters last, one  *)
(* that fails at once logs nothing.                                          *)

Logged == Complete(log) - left

Begins(line) ==
  /\ child = "running" /\ ~InMidLine
  /\ log' = Append(log, [line |-> line, half |-> 1])
  /\ UNCHANGED <<shell, stage, result, child, toStderr, pipe, tailer, reports, oneShot>>

Copies(o) ==
  /\ command = "copy"
  /\ Logged < MaxLines
  /\ \A i \in left + 1..Complete(log) : LineAt(i).what # o
  /\ Begins(Line("copied", o))
  /\ moved' = moved + 1
  /\ UNCHANGED errors

\* A deletion; or a copy whose line does not begin with "Copied ", as that of a
\* multi-thread one does not.
MovesUnannounced ==
  /\ Logged < MaxLines
  /\ Begins(Line("other", "none"))
  /\ moved' = moved + 1
  /\ UNCHANGED errors

Errs(c) ==
  /\ Logged < MaxLines
  /\ Begins(Line("error", c))
  /\ errors' = errors + 1
  /\ UNCHANGED moved

Notices ==
  /\ Logged < MaxLines
  /\ Begins(Line("notice", "none"))
  /\ UNCHANGED <<moved, errors>>

\* every --stats 30s, and at the end.
LogsStats ==
  /\ Logged <= MaxLines
  /\ Logged > 0 => LineAt(Complete(log)) # Stats(moved, errors)
  /\ Begins(Stats(moved, errors))
  /\ UNCHANGED <<moved, errors>>

EndsLine ==
  /\ child = "running" /\ InMidLine
  /\ log' = Append(log, [line |-> log[Len(log)].line, half |-> 2])
  /\ UNCHANGED <<shell, stage, result, child, moved, errors, toStderr, pipe, tailer, reports,
                 oneShot>>

RetriesAll ==
  /\ child = "running" /\ errors > 0 /\ Logged < MaxLines
  /\ errors' = 0
  /\ UNCHANGED <<shell, stage, result, child, log, moved, toStderr, pipe, tailer, reports, oneShot>>

\* A write to a full pipe waits.
WritesStderr ==
  /\ child = "running" /\ toStderr > 0 /\ pipe < PipeSize
  /\ toStderr' = toStderr - 1 /\ pipe' = pipe + 1
  /\ UNCHANGED <<shell, stage, result, child, log, moved, errors, tailer, reports, oneShot>>

Exits ==
  /\ child = "running" /\ toStderr = 0 /\ ~InMidLine
  /\ \/ /\ Logged > 0 /\ LineAt(Complete(log)) = Stats(moved, errors)
        /\ child' = IF errors = 0 THEN "exited0" ELSE "exited1"
     \/ Logged = 0 /\ child' = "exited1"
  /\ UNCHANGED <<shell, stage, result, log, moved, errors, toStderr, pipe, tailer, reports, oneShot>>

Killed ==
  /\ child = "running"
  /\ child' = "signal"
  /\ UNCHANGED <<shell, stage, result, log, moved, errors, toStderr, pipe, tailer, reports, oneShot>>

-----------------------------------------------------------------------------
(* RcloneLogTailer::poll. *)

NoStreak == [cause |-> "none", count |-> 0]

\* flush_error_streak: the first of a streak was warned of when it was read.
FlushStreak(t) ==
  [t EXCEPT !.streak = NoStreak,
            !.summarised = @ + (IF t.streak.count > 1 THEN t.streak.count - 1 ELSE 0)]

RecordError(t, cause) ==
  IF t.streak.cause = cause THEN [t EXCEPT !.streak.count = @ + 1]
  ELSE [FlushStreak(t) EXCEPT !.streak = [cause |-> cause, count |-> 1], !.warned = @ + 1]

\* process_line.
ProcessLine(t, line) ==
  CASE line.kind = "stats" ->
         [t EXCEPT !.cumulative = [moved |-> line.moved, errors |-> line.errors]]
    [] line.kind = "copied" -> [t EXCEPT !.copied = Append(@, line.what)]
    [] line.kind = "notice" -> [t EXCEPT !.notices = @ + 1]
    [] line.kind = "error" -> RecordError(t, line.what)
    [] OTHER -> t

\* A line that ends at i, all of which is in the chunk.  A line without its
\* beginning does not parse, and is skipped.
WholeAt(chunk, i) ==
  i > 1 /\ chunk[i].half = 2 /\ chunk[i - 1] = [line |-> chunk[i].line, half |-> 1]

\* The lines of a chunk, one after the other.
ProcessLines(t, chunk) ==
  LET upTo[i \in 0..Len(chunk)] ==
        IF i = 0 THEN t
        ELSE IF WholeAt(chunk, i) THEN ProcessLine(upTo[i - 1], chunk[i].line)
        ELSE upTo[i - 1]
  IN  upTo[Len(chunk)]

Over(a, b) == IF a > b THEN a - b ELSE 0

\* Mistake: the beginning of a line is read and not kept.
PartialForgotten(chunk) == <<>>

\* partial_line.
PartialOf(chunk) ==
  IF chunk # <<>> /\ chunk[Len(chunk)].half = 1 THEN <<chunk[Len(chunk)]>> ELSE <<>>

\* What is new in the log goes to the metrics, the warnings and the caller.
Poll ==
  LET read == SubSeq(log, offset + 1, Len(log))
      chunk == partial \o read
      before == [cumulative |-> cumulative, copied |-> <<>>, notices |-> notices,
                 streak |-> NoStreak, warned |-> warned, summarised |-> summarised]
      after == FlushStreak(ProcessLines(before, chunk))
  IN  /\ offset' = Len(log)
      /\ partial' = PartialOf(chunk)
      /\ cumulative' = after.cumulative
      /\ metered' = [moved |-> metered.moved + Over(after.cumulative.moved, cumulative.moved),
                     errors |-> metered.errors + Over(after.cumulative.errors, cumulative.errors)]
      /\ received' = received \o after.copied
      /\ notices' = after.notices
      /\ warned' = after.warned /\ summarised' = after.summarised

\* The log cannot be opened, or read: what is there ends within a character.
\* It is read from the same place the next time.
PollFails ==
  /\ \/ InMidLine /\ UNCHANGED faults
     \/ faults < MaxFaults /\ faults' = faults + 1
  /\ UNCHANGED <<tailer, metered, received, warned, summarised, notices>>

-----------------------------------------------------------------------------
(* execute_streamed. *)

Spawn ==
  /\ stage = "start" /\ command \in Streamed
  /\ \/ child' = "running" /\ stage' = "waiting" /\ UNCHANGED result
     \/ result' = "failed" /\ stage' = "done" /\ UNCHANGED child
  /\ UNCHANGED <<shell, log, moved, errors, toStderr, pipe, tailer, reports, oneShot>>

\* Mistake: stderr is read once the child has exited.
DrainAfterExit ==
  /\ stage = "finishing" /\ pipe > 0
  /\ pipe' = pipe - 1
  /\ UNCHANGED <<shell, stage, result, child, log, moved, errors, toStderr, tailer, reports, oneShot>>

\* stderr_task.
Drain ==
  /\ pipe > 0
  /\ pipe' = pipe - 1
  /\ UNCHANGED <<shell, stage, result, child, log, moved, errors, toStderr, tailer, reports, oneShot>>

\* poll_interval.tick().
Tick ==
  /\ stage = "waiting"
  /\ \/ Poll /\ UNCHANGED faults
     \/ PollFails
  /\ UNCHANGED <<shell, stage, result, rclone, unread, oneShot>>

\* wait_handle; the select! may prefer a tick that is due as well.
SeeExit ==
  /\ stage = "waiting"
  /\ child \in {"exited0", "exited1", "signal"}
  /\ stage' = "flushing"
  /\ UNCHANGED <<shell, result, rclone, tailer, reports, oneShot>>

\* Mistake: the log is not read after the exit.
NoLastPoll ==
  /\ stage = "flushing"
  /\ stage' = "finishing"
  /\ UNCHANGED <<shell, result, rclone, tailer, reports, oneShot>>

\* The last read.
LastPoll ==
  /\ stage = "flushing"
  /\ \/ Poll /\ UNCHANGED <<faults, unread>>
     \/ PollFails /\ unread' = TRUE
  /\ stage' = "finishing"
  /\ UNCHANGED <<shell, result, rclone, oneShot>>

\* Copy::finish, Purge::finish, once stderr is at its end.
FinishStreamed ==
  /\ stage = "finishing"
  /\ pipe = 0
  /\ stage' = "done"
  /\ result' = IF child = "exited0" THEN "ok" ELSE "failed"
  /\ UNCHANGED <<shell, rclone, tailer, reports, oneShot>>

-----------------------------------------------------------------------------
(* execute_one_shot under retry_with_backoff. *)

\* Mistake: any failure to list is taken for a path that is not there yet.
AnyFailureIsMissing(said) == missingOk /\ said # "listed"

\* Lsjson::finish.
MissingIsEmpty(said) == missingOk /\ said = "directory not found"

\* Mistake: Attempts counts the tries after the first.
SettleAfterRetries(ok) ==
  /\ attempt' = attempt + 1
  /\ IF ok THEN stage' = "done" /\ result' = "ok"
     ELSE IF attempt < Attempts[command] THEN stage' = "start" /\ UNCHANGED result
     ELSE stage' = "done" /\ result' = "failed"

\* An attempt comes to an end; unless it is Ok there is another one.
Settle(ok) ==
  /\ attempt' = attempt + 1
  /\ IF ok THEN stage' = "done" /\ result' = "ok"
     ELSE IF attempt + 1 < Attempts[command] THEN stage' = "start" /\ UNCHANGED result
     ELSE stage' = "done" /\ result' = "failed"

\* rclone says of an absent path that it is; any attempt may fail on the way, or
\* print what does not parse.
List ==
  /\ stage = "start" /\ command = "lsjson"
  /\ \E said \in (IF there = "absent" THEN {"directory not found"} ELSE {"listed"}) \cup {"failed"} :
       /\ listing' = CASE said = "listed" -> there
                      [] MissingIsEmpty(said) -> "nothing"
                      [] OTHER -> listing
       /\ Settle(said = "listed" \/ MissingIsEmpty(said))
  /\ UNCHANGED <<shell, rclone, tailer, reports, there>>

\* An attempt that fails may have delivered.  Each is counted in the metrics.
CopyTo ==
  /\ stage = "start" /\ command = "copyto"
  /\ \E ok, delivered \in BOOLEAN :
       /\ ok => delivered
       /\ there' = IF delivered THEN "objects" ELSE there
       /\ metered' = [moved |-> metered.moved + IF ok THEN 1 ELSE 0,
                      errors |-> metered.errors + IF ok THEN 0 ELSE 1]
       /\ Settle(ok)
  /\ UNCHANGED <<shell, rclone, tailer, received, warned, summarised, notices, unread, faults,
                 listing>>

-----------------------------------------------------------------------------

RcloneStep ==
  \/ \E o \in Objects : Copies(o)
  \/ MovesUnannounced \/ \E c \in Causes : Errs(c)
  \/ Notices \/ LogsStats \/ RetriesAll

\* What brings it to its end.
RcloneEnds == EndsLine \/ WritesStderr \/ Exits

Runner == SeeExit \/ LastPoll \/ FinishStreamed \/ List \/ CopyTo

Next == RcloneStep \/ RcloneEnds \/ Killed \/ Spawn \/ Drain \/ Tick \/ Runner

Spec == Init /\ [][Next]_vars

\* rclone ends if it can write, tokio polls the two tasks and the caller; each of
\* these steps brings the end nearer, so one condition covers them.
FairSpec == Spec /\ WF_vars(RcloneEnds \/ LogsStats \/ Spawn \/ Drain \/ Runner)

-----------------------------------------------------------------------------
(* Properties. *)

\* The variables keep their ranges, nothing is read twice or before it is written,
\* and a one-shot command is not tried more often than it says.
TypeOK ==
  /\ command \in Streamed \cup OneShot /\ missingOk \in BOOLEAN
  /\ stage \in {"start", "waiting", "flushing", "finishing", "done"}
  /\ result \in {"none", "ok", "failed"}
  /\ child \in {"none", "running", "exited0", "exited1", "signal"}
  /\ pipe \in 0..PipeSize /\ toStderr \in 0..MaxStderr
  /\ offset \in 0..Len(log)
  /\ partial = IF offset % 2 = 1 THEN <<log[offset]>> ELSE <<>>
  /\ {moved, errors, warned, summarised, notices, faults, metered.moved, metered.errors} \subseteq Nat
  /\ command \in OneShot => attempt \in 0..Attempts[command]
  /\ listing \in {"none", "nothing", "objects"}

\* A command's Ok can be believed.  The totals a streamed one returns are
\* rclone's own at its end, even if its log still holds an earlier invocation's,
\* and none of them an error; a listing is of what is there, and empty for want
\* of a path only where the caller allows for that; an object copied is there.
OkIsTrue ==
  result = "ok" =>
    /\ command \in Streamed => unread \/ cumulative = [moved |-> moved, errors |-> 0]
    /\ command = "lsjson" => listing = IF there = "absent" /\ missingOk THEN "nothing" ELSE there
    /\ command = "copyto" => there = "objects"

\* Nothing rclone says is dropped on the way, wherever reads end and whichever
\* fail: each error line is warned of or is in a summary, each notice is
\* counted, and the metrics count what the totals do; errors --retries made
\* rclone forget stay counted.
EverythingIsReported ==
  LET read == offset \div 2
  IN  /\ warned + summarised = Cardinality(LinesOf("error", read))
      /\ notices = Cardinality(LinesOf("notice", read))
      /\ command \in Streamed /\ left = 0 =>
           metered.moved = cumulative.moved /\ metered.errors >= cumulative.errors
      /\ stage = "finishing" => unread \/ read = Complete(log)

\* Objects reach the caller as rclone logs them, each once and in order, and
\* all of them before the command returns Ok.
Stream == INSTANCE CopiedStream WITH
  Objects <- Objects \cup Named,
  copied <- Announced(log, Complete(log)), sent <- received, lost <- unread, result <- result
ImplementsCopiedStream == Stream!Spec

\* However much rclone writes to stderr and however its log looks, the command
\* comes to an end.
CommandEnds == <>(stage = "done")
=============================================================================
