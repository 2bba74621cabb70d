---------------------------- MODULE MCImportQueue ----------------------------
(* Two identities, one of which allows a single connection, share three     *)
(* workers; the first has two batches.                                      *)
EXTENDS ImportQueue

CONSTANTS w1, w2, w3, b1, b2, b3

MCWorkers == {w1, w2, w3}
MCWork == <<<<b1, b2>>, <<b3>>>>
MCCap == <<1, 2>>
=============================================================================
