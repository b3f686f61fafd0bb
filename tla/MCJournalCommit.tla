-------------------------- MODULE MCJournalCommit --------------------------
(* Small instances of JournalCommit for TLC. *)
EXTENDS JournalCommit

(* What decides the further course while only processes die: the versions that
   a power cut may leave are read by nothing else. *)
WithoutPowerCuts == <<pc, memVars, txnVars, jrnl, file, orderVars, bounds>>

(* Two crashes, or a COMMIT that fails and one crash. *)
TwoAccidents == failures + crashes <= 2
=============================================================================
