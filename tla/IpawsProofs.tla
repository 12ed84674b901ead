---------------------------- MODULE IpawsProofs ----------------------------
(***************************************************************************)
(* Proofs about Ipaws, for any feed, settings, lookback and number of      *)
(* crashes: the windows of the polls leave no gap, and no message is       *)
(* handed to the lane twice.                                               *)
(***************************************************************************)
EXTENDS Ipaws, TLAPS

\* The clocks: what the feed does not list yet is no older than its latency,
\* a poll started in the past, and no window starts in the future.
TimeInv ==
  /\ clock \in 0..MaxClock /\ now \in 0..clock /\ since \in Int /\ since <= clock
  /\ filed \in [Messages -> Nat]
  /\ \A m \in Messages : filed[m] # NotYet => filed[m] <= clock
  /\ \A m \in Messages \ visible : filed[m] # NotYet => clock - filed[m] <= 1

\* Answers are in hand only while they are handled.
BatchIsHandled == phase # "handle" => batch = {}

\* The inductive invariants.
MissedInv == NothingMissed /\ BatchIsHandled

Rows == {"none", "not sent", "queued", "sent"}

\* What was handed to the lane has a row.
OnceInv ==
  /\ EnqueuedOnce
  /\ log \in [Messages -> Rows] /\ enqueued \in [Messages -> Nat]
  /\ \A m \in Messages : ~Seen(m) => enqueued[m] = 0
----------------------------------------------------------------------------
(* No step leaves an invariant.                                            *)

\* A handled or answered message has one of the stored rows.
LEMMA RowsAreRows == {"not sent", "queued", "sent"} \subseteq Rows
  BY DEF Rows

LEMMA TimeStep == TimeInv /\ [Next]_vars => TimeInv'
<1> SUFFICES ASSUME TimeInv, [Next]_vars
             PROVE  TimeInv'
  OBVIOUS
<1> USE IpawsAssumption DEF TimeInv, Issued, NotYet
<1>1. QED
  <2>1. CASE \E m \in Messages : Issue(m)
    BY <2>1 DEF Issue, feed, poller, stored
  <2>2. CASE \E m \in Messages : Appear(m)
    BY <2>2 DEF Appear, feed, poller, stored
  <2>3. CASE \E m \in Messages : Handle(m)
    BY <2>3 DEF Handle, Stored, Ignored, feed, poller, stored
  <2>4. CASE \E m \in Messages, ok \in BOOLEAN : Send(m, ok)
    <3> PICK m \in Messages, ok \in BOOLEAN : Send(m, ok)
      BY <2>4
    <3>1. UNCHANGED <<clock, filed, visible, phase, now, since, batch, handled, excused>>
      BY DEF Send, feed, poller
    <3> QED
      BY <3>1
  <2>5. CASE \E s \in SettingsSet : Save(s)
    BY <2>5 DEF Save, feed, poller, stored
  <2>6. CASE \E garbled \in BOOLEAN : Answer(garbled)
    BY <2>6 DEF Answer, Answered, NextSince, feed, poller, stored
  <2>7. CASE Tick
    BY <2>7 DEF Tick, feed, poller, stored
  <2>8. CASE BeginPoll
    BY <2>8 DEF BeginPoll, feed, poller, stored
  <2>9. CASE PollFails
    BY <2>9 DEF PollFails, feed, poller, stored
  <2>10. CASE HandleRaises
    BY <2>10 DEF HandleRaises, feed, poller, stored
  <2>11. CASE PollEnds
    BY <2>11 DEF PollEnds, feed, poller, stored
  <2>12. CASE Crash
    BY <2>12 DEF Crash, feed, poller, stored
  <2>13. CASE Restart
    BY <2>13 DEF Restart, FirstSince, feed, poller, stored
  <2>14. CASE UNCHANGED vars
    BY <2>14 DEF vars, feed, poller, stored
  <2> QED
    BY <2>1, <2>2, <2>3, <2>4, <2>5, <2>6, <2>7, <2>8, <2>9, <2>10, <2>11,
       <2>12, <2>13, <2>14 DEF Next

LEMMA MissedStep == TimeInv /\ MissedInv /\ [Next]_vars => MissedInv'
<1> SUFFICES ASSUME TimeInv /\ MissedInv, [Next]_vars
             PROVE  MissedInv'
  OBVIOUS
<1> USE IpawsAssumption DEF MissedInv, NothingMissed, BatchIsHandled, TimeInv,
           Issued, NotYet
<1>1. QED
  <2>1. CASE \E m \in Messages : Issue(m)
    BY <2>1 DEF Issue, feed, poller, stored
  <2>2. CASE \E m \in Messages : Appear(m)
    BY <2>2 DEF Appear, feed, poller, stored
  <2>3. CASE \E m \in Messages : Handle(m)
    <3> PICK m \in Messages : Handle(m)
      BY <2>3
    <3>1. UNCHANGED <<clock, filed, phase, since, excused>> /\ phase = "handle"
      BY DEF Handle, feed
    <3>2. batch' = batch \ {m} /\ handled' = handled \cup {m}
      BY DEF Handle
    <3> QED
      BY <3>1, <3>2
  <2>4. CASE \E m \in Messages, ok \in BOOLEAN : Send(m, ok)
    <3> PICK m \in Messages, ok \in BOOLEAN : Send(m, ok)
      BY <2>4
    <3>1. UNCHANGED <<clock, filed, visible, phase, now, since, batch, handled, excused>>
      BY DEF Send, feed, poller
    <3> QED
      BY <3>1
  <2>5. CASE \E s \in SettingsSet : Save(s)
    BY <2>5 DEF Save, feed, poller, stored
  <2>6. CASE \E garbled \in BOOLEAN : Answer(garbled)
    BY <2>6 DEF Answer, Answered, NextSince, feed, poller, stored
  <2>7. CASE Tick
    BY <2>7 DEF Tick, feed, poller, stored
  <2>8. CASE BeginPoll
    BY <2>8 DEF BeginPoll, feed, poller, stored
  <2>9. CASE PollFails
    BY <2>9 DEF PollFails, feed, poller, stored
  <2>10. CASE HandleRaises
    BY <2>10 DEF HandleRaises, feed, poller, stored
  <2>11. CASE PollEnds
    BY <2>11 DEF PollEnds, feed, poller, stored
  <2>12. CASE Crash
    BY <2>12 DEF Crash, feed, poller, stored
  <2>13. CASE Restart
    BY <2>13 DEF Restart, FirstSince, feed, poller, stored
  <2>14. CASE UNCHANGED vars
    BY <2>14 DEF vars, feed, poller, stored
  <2> QED
    BY <2>1, <2>2, <2>3, <2>4, <2>5, <2>6, <2>7, <2>8, <2>9, <2>10, <2>11,
       <2>12, <2>13, <2>14 DEF Next

LEMMA OnceStep == OnceInv /\ [Next]_vars => OnceInv'
<1> SUFFICES ASSUME OnceInv, [Next]_vars
             PROVE  OnceInv'
  OBVIOUS
<1> USE DEF OnceInv, EnqueuedOnce, Seen
<1>1. QED
  <2>1. CASE \E m \in Messages : Issue(m)
    BY <2>1 DEF Issue, feed, poller, stored
  <2>2. CASE \E m \in Messages : Appear(m)
    BY <2>2 DEF Appear, feed, poller, stored
  <2>3. CASE \E m \in Messages : Handle(m)
    <3> PICK m \in Messages : Handle(m)
      BY <2>3
    <3>1. CASE UNCHANGED <<log, enqueued>>
      BY <3>1
    <3>2. CASE ~Seen(m) /\ Stored(m, "not sent") /\ UNCHANGED enqueued
      BY <3>2, RowsAreRows DEF Stored
    <3>3. CASE ~Seen(m) /\ Stored(m, "queued") /\ enqueued' = [enqueued EXCEPT ![m] = @ + 1]
      <4>1. enqueued[m] = 0
        BY <3>3
      <4>2. enqueued'[m] = 1 /\ \A n \in Messages \ {m} : enqueued'[n] = enqueued[n]
        BY <3>3, <4>1
      <4>3. log'[m] = "queued" /\ \A n \in Messages \ {m} : log'[n] = log[n]
        BY <3>3 DEF Stored
      <4>4. log' \in [Messages -> Rows] /\ enqueued' \in [Messages -> Nat]
        <5>1. log' \in [Messages -> Rows]
          BY <3>3, RowsAreRows DEF Stored
        <5>2. enqueued' \in [Messages -> Nat]
          BY <3>3
        <5> QED
          BY <5>1, <5>2
      <4>5. ASSUME NEW n \in Messages
            PROVE  enqueued'[n] <= 1 /\ (log'[n] = "none" => enqueued'[n] = 0)
        <5>1. CASE n = m
          BY <4>2, <4>3, <5>1
        <5>2. CASE n # m
          BY <4>2, <4>3, <5>2
        <5> QED
          BY <5>1, <5>2
      <4> QED
        BY <4>4, <4>5
    <3> QED
      BY <3>1, <3>2, <3>3 DEF Handle, Ignored
  <2>4. CASE \E m \in Messages, ok \in BOOLEAN : Send(m, ok)
    <3> PICK m \in Messages, ok \in BOOLEAN : Send(m, ok)
      BY <2>4
    <3>1. PICK row \in {"sent", "not sent"} : log' = [log EXCEPT ![m] = row]
      BY DEF Send, Stored
    <3>2. UNCHANGED enqueued
      BY DEF Send
    <3> QED
      BY <3>1, <3>2, RowsAreRows
  <2>5. CASE \E s \in SettingsSet : Save(s)
    BY <2>5 DEF Save, feed, poller, stored
  <2>6. CASE \E garbled \in BOOLEAN : Answer(garbled)
    BY <2>6 DEF Answer, Answered, NextSince, feed, poller, stored
  <2>7. CASE Tick
    BY <2>7 DEF Tick, feed, poller, stored
  <2>8. CASE BeginPoll
    BY <2>8 DEF BeginPoll, feed, poller, stored
  <2>9. CASE PollFails
    BY <2>9 DEF PollFails, feed, poller, stored
  <2>10. CASE HandleRaises
    BY <2>10 DEF HandleRaises, feed, poller, stored
  <2>11. CASE PollEnds
    BY <2>11 DEF PollEnds, feed, poller, stored
  <2>12. CASE Crash
    BY <2>12 DEF Crash, feed, poller, stored
  <2>13. CASE Restart
    BY <2>13 DEF Restart, FirstSince, feed, poller, stored
  <2>14. CASE UNCHANGED vars
    BY <2>14 DEF vars, feed, poller, stored
  <2> QED
    BY <2>1, <2>2, <2>3, <2>4, <2>5, <2>6, <2>7, <2>8, <2>9, <2>10, <2>11,
       <2>12, <2>13, <2>14 DEF Next

----------------------------------------------------------------------------
(* The theorems.                                                           *)

\* The invariants hold at the start.
LEMMA AtStart == Init => TimeInv /\ MissedInv /\ OnceInv
<1> SUFFICES ASSUME Init
             PROVE  TimeInv /\ MissedInv /\ OnceInv
  OBVIOUS
<1>1. TimeInv
  BY IpawsAssumption DEF Init, TimeInv, NotYet
<1>2. MissedInv
  BY DEF Init, MissedInv, NothingMissed, BatchIsHandled, Issued
<1>3. OnceInv
  <2>1. log \in [Messages -> Rows] /\ \A m \in Messages : log[m] = "none"
    BY DEF Init, Rows
  <2>2. enqueued \in [Messages -> Nat] /\ \A m \in Messages : enqueued[m] = 0
    BY DEF Init
  <2> QED
    BY <2>1, <2>2 DEF OnceInv, EnqueuedOnce, Seen
<1> QED
  BY <1>1, <1>2, <1>3

\* The windows leave no gap: through failed polls, a late feed and restarts,
\* every message was decided about, was lost with its answer or before the
\* lookback, or is in the next window (poll_once).
THEOREM WindowsLeaveNoGap == Spec => []NothingMissed
<1>1. Init => TimeInv /\ MissedInv
  BY AtStart
<1>2. MissedInv => NothingMissed
  BY DEF MissedInv
<1> QED
  BY <1>1, <1>2, TimeStep, MissedStep, PTL DEF Spec

\* However the windows overlap, no message is handed to the lane twice
\* (ipaws_seen, add_ipaws).
THEOREM HandedOverOnce == Spec => []EnqueuedOnce
<1>1. Init => OnceInv
  BY AtStart
<1>2. OnceInv => EnqueuedOnce
  BY DEF OnceInv
<1> QED
  BY <1>1, <1>2, OnceStep, PTL DEF Spec
=============================================================================
