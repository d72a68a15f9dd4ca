---------------------------- MODULE AccumulatorLog ----------------------------
(***************************************************************************)
(* What the accumulator promises its callers, with hashing and storage    *)
(* abstracted away: an append-only log of leaves, the log as of the last  *)
(* flush, and the log as of the snapshot the caller persisted.  A crash   *)
(* returns the log to the persisted one.                                  *)
(***************************************************************************)
EXTENDS Sequences, SequencesExt

VARIABLES log, flushedLog, savedLog

logVars == <<log, flushedLog, savedLog>>

Init == log = <<>> /\ flushedLog = <<>> /\ savedLog = <<>>

\* append: the log only grows, and keeps what it had.
AppendLeaves ==
  /\ IsStrictPrefix(log, log')
  /\ UNCHANGED <<flushedLog, savedLog>>

Flush ==
  /\ flushedLog' = log
  /\ UNCHANGED <<log, savedLog>>

SaveInfo ==
  /\ savedLog' = flushedLog
  /\ UNCHANGED <<log, flushedLog>>

Restart ==
  /\ log' = savedLog
  /\ flushedLog' = savedLog
  /\ UNCHANGED savedLog

Next == AppendLeaves \/ Flush \/ SaveInfo \/ Restart

Spec == Init /\ [][Next]_logVars
=============================================================================
