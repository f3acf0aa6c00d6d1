---------------------------- MODULE MCBulkQueue ----------------------------
(* Instances of BulkQueue for TLC. *)
EXTENDS BulkQueue
CONSTANTS s1, a1
NoReaders == {}
OneSync == {s1}
OneAsync == {a1}
NoSkip == {}
=============================================================================
