--------------------------- MODULE MCIngestLedger ---------------------------
(* One message of IngestLedger, which runs of both modes deliver, record, lose *)
(* the record of and deliver again, under two generations of its UID.        *)
EXTENDS IngestLedger

CONSTANT u1
MCUIDs == {u1}
MCBothModes == {"ledger", "legacy"}
=============================================================================
