--------------------------- MODULE MCRcloneCommand ---------------------------
(* Small instance of RcloneCommand.  The dimensions that do not meet are not    *)
(* multiplied: stderr is flooded by a purge, and an earlier invocation is in     *)
(* the log of a copy.                                                        *)
EXTENDS RcloneCommand

MCEarlier == <<Line("copied", "old"), Stats(1, 0)>>
MCAttempts == [lsjson |-> 3, copyto |-> 4]

MCInit ==
  /\ Init
  /\ toStderr > 0 => command = "purge"
  /\ left > 0 => command = "copy"

MCSpec == MCInit /\ [][Next]_vars /\ WF_vars(RcloneEnds \/ LogsStats \/ Spawn \/ Drain \/ Runner)
=============================================================================
