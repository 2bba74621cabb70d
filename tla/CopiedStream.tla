----------------------------- MODULE CopiedStream -----------------------------
(* What a streamed rclone copy promises its caller (core/rclone: StreamHooks,  *)
(* RcloneLogSummary), and all TransformPipeline takes of it: objects are        *)
(* handed on as their copies finish, each once and in that order, and all of    *)
(* them before an Ok -- unless the log could not be read in the end.           *)
EXTENDS Naturals, Sequences, SequencesExt

CONSTANT Objects

VARIABLES
  copied,  \* finished, in that order
  sent,    \* handed on
  lost,    \* the last read of the log failed
  result   \* "none", "ok" or "failed"

vars == <<copied, sent, lost, result>>

Init == copied \in Seq(Objects) /\ sent = <<>> /\ lost = FALSE /\ result = "none"

Finish ==
  /\ result = "none"
  /\ \E o \in Objects : copied' = Append(copied, o)
  /\ UNCHANGED <<sent, lost, result>>

HandOn ==
  /\ result = "none"
  /\ IsPrefix(sent, sent') /\ IsPrefix(sent', copied)
  /\ UNCHANGED <<copied, lost, result>>

Lose ==
  /\ result = "none"
  /\ lost' = TRUE
  /\ UNCHANGED <<copied, sent, result>>

Return ==
  /\ result = "none"
  /\ result' \in {"ok", "failed"}
  /\ result' = "ok" => sent = copied \/ lost
  /\ UNCHANGED <<copied, sent, lost>>

Next == Finish \/ HandOn \/ Lose \/ Return

Spec == Init /\ [][Next]_vars
=============================================================================
