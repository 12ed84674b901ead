-------------------------- MODULE SequenceTracker --------------------------
(***************************************************************************)
(* SequenceTracker of app/nwws.py: which products of the NWWS-OI stream    *)
(* are replays.  A stream id names the NWWS process that sent the product  *)
(* and its number in that process's stream.                                *)
(*                                                                         *)
(* The code's window of the last 256 ids is left out: every id in it has a *)
(* number that is at most the last one, which the code rejects as well.    *)
(***************************************************************************)
EXTENDS Naturals, Sequences, SequencesExt

CONSTANTS
  Processes,    \* ids of NWWS processes
  MaxRetired    \* max_retired

NoProcess == "no process"

ASSUME TrackerAssumption == MaxRetired \in Nat \ {0} /\ NoProcess \notin Processes

TrackerType ==
  [process : Processes \cup {NoProcess}, last : Nat, retired : Seq(Processes)]

\* A new tracker.
Untracked == [process |-> NoProcess, last |-> 0, retired |-> <<>>]

\* Mutant of Retire: a process that gave way is forgotten at once.
RetireNot(t) == t.retired

\* The process that gives way is remembered, the oldest memory dropped.
Retire(t) ==
  LET all == Append(t.retired, t.process)
  IN  IF Len(all) > MaxRetired THEN Tail(all) ELSE all

\* observe, the rejections: of a retired process, and of an old number.
Replayed(t, p, n) ==
  \/ p \in ToSet(t.retired)
  \/ p = t.process /\ n <= t.last

\* observe, for a product that is not a replay.
Observed(t, p, n) ==
  [process |-> p, last |-> n,
   retired |-> IF t.process \in {p, NoProcess} THEN t.retired ELSE Retire(t)]
=============================================================================
