------------------------------- MODULE Ipaws -------------------------------
(***************************************************************************)
(* IpawsPoller of app/ipaws.py and the ipaws_log of app/db.py: polls of a  *)
(* feed for what is new since the last poll, the filters, and the hand-off *)
(* to the low lane.                                                        *)
(*                                                                         *)
(* The clock counts in steps of the window's overlap, thirty seconds.  The *)
(* feed is the environment: a message enters it up to Latency steps after  *)
(* the time it is filed under, and answers to "since" with what is filed   *)
(* from then on, in any order.  Left out: the wording, prune_ipaws, whose  *)
(* fourteen days outlast every window, and the lane's limit, which is      *)
(* module TransmitQueue's.                                                 *)
(***************************************************************************)
EXTENDS Integers, FiniteSets

CONSTANTS
  Messages,     \* messages of the feed, records as in MessageType
  SettingsSet,  \* the settings an operator saves, records as in SettingsType
  Latency,      \* of the feed
  Lookback,     \* IPAWS_LOOKBACK_SECONDS
  MaxClock, MaxCrashes

\* A message is for us, a test, or never (weather, a demonstration, another
\* status or type).  A cancel may lack its own area and its own event.
Genres       == {"real", "test", "never"}
Ids          == {m.id : m \in Messages}
MessageType  == [id : Ids, type : {"Alert", "Cancel"}, genre : Genres,
                 area : {"in", "out", "none"}, event : BOOLEAN, refers : Ids]
SettingsType == [zones : BOOLEAN, tests : BOOLEAN, selected : BOOLEAN, paused : BOOLEAN]

ASSUME IpawsAssumption ==
  /\ Messages \subseteq MessageType
  /\ \A m, n \in Messages : m.id = n.id => m = n
  /\ SettingsSet \subseteq SettingsType
  /\ Latency = 1 /\ Lookback \in Nat \ {0} /\ MaxClock \in Nat /\ MaxCrashes \in Nat

NotYet == MaxClock + 1

VARIABLES
  clock, crashes, settings,
  filed,     \* the time each message is filed under
  visible,   \* the messages the feed lists
  phase,     \* where _run is
  now,       \* poll_once's start, 0 once it is of no use
  since,     \* _since
  batch,     \* messages of the answer still to be handled
  log,       \* ipaws_log: each message's row
  lane,      \* messages in the low lane
  handled,   \* history: messages a poll decided about
  excused,   \* history: messages lost with an answer, or filed too long ago
  enqueued   \* history: how often a message was handed to the lane

feed   == <<filed, visible>>
poller == <<phase, now, since, batch>>
stored == <<log, lane, handled, excused, enqueued>>
vars   == <<clock, crashes, settings, feed, poller, stored>>

Init ==
  /\ clock = 0 /\ crashes = 0 /\ settings \in SettingsSet
  /\ filed = [m \in Messages |-> NotYet] /\ visible = {}
  /\ phase = "idle" /\ now = 0 /\ since = -Lookback /\ batch = {}
  /\ log = [m \in Messages |-> "none"] /\ lane = {}
  /\ handled = {} /\ excused = {} /\ enqueued = [m \in Messages |-> 0]

Issued == {m \in Messages : filed[m] # NotYet}
----------------------------------------------------------------------------
(* The feed, the clock and the operator; a poll handles its answer without *)
(* an await.                                                               *)

Issue(m) ==
  /\ phase # "handle" /\ m \notin Issued /\ filed' = [filed EXCEPT ![m] = clock]
  /\ UNCHANGED <<clock, crashes, settings, visible, poller, stored>>

Appear(m) ==
  /\ phase # "handle" /\ m \in Issued \ visible /\ visible' = visible \cup {m}
  /\ UNCHANGED <<clock, crashes, settings, filed, poller, stored>>

Tick ==
  /\ phase # "handle" /\ clock < MaxClock /\ clock' = clock + 1
  /\ \A m \in Issued \ visible : clock' - filed[m] <= Latency
  /\ UNCHANGED <<crashes, settings, feed, poller, stored>>

Save(s) ==
  /\ phase # "handle" /\ s # settings /\ settings' = s
  /\ UNCHANGED <<clock, crashes, feed, poller, stored>>
----------------------------------------------------------------------------
(* A poll.                                                                 *)

BeginPoll ==
  /\ phase = "idle" /\ phase' = "get" /\ now' = clock
  /\ UNCHANGED <<clock, crashes, settings, feed, since, batch, stored>>

\* An error status, an exception or the timeout leaves the window alone.
PollFails ==
  /\ phase = "get" /\ phase' = "idle" /\ now' = 0
  /\ UNCHANGED <<clock, crashes, settings, feed, since, batch, stored>>

\* Mutant of NextSince: the clock is read when the answer is in.
NextSinceLate == clock

\* The window of the next poll overlaps this one by thirty seconds.
NextSince == now - 1

Answered == {m \in visible : filed[m] >= since}

\* The answer is in; one that is no XML counts as an empty one.
Answer(garbled) ==
  /\ phase = "get" /\ phase' = "handle"
  /\ batch' = IF garbled THEN {} ELSE Answered
  /\ excused' = IF garbled THEN excused \cup Answered ELSE excused
  /\ since' = NextSince /\ now' = 0
  /\ UNCHANGED <<clock, crashes, settings, feed, log, lane, handled, enqueued>>

\* The database raises: the rest of the answer is not handled.
HandleRaises ==
  /\ phase = "handle" /\ batch # {} /\ phase' = "idle"
  /\ batch' = {} /\ excused' = excused \cup batch
  /\ UNCHANGED <<clock, crashes, settings, feed, now, since, log, lane, handled, enqueued>>

PollEnds ==
  /\ phase = "handle" /\ batch = {} /\ phase' = "idle"
  /\ UNCHANGED <<clock, crashes, settings, feed, now, since, batch, stored>>
----------------------------------------------------------------------------
(* The filters.                                                            *)

\* Mutant of Seen: only a broadcast counts.
SeenOnAir(m) == log[m] = "sent"

\* ipaws_seen.
Seen(m) == log[m] # "none"

ForUs(m) == m.genre = "real" \/ (m.genre = "test" /\ settings.tests)

\* The stored row a cancel refers to, if any.
Original(c) == {m \in Messages : m.id = c.refers /\ Seen(m)}

\* _cancel_in_area.
CancelInArea(c) ==
  /\ settings.zones
  /\ IF c.area # "none" THEN c.area = "in"
     ELSE \E m \in Original(c) : m.type = "Alert" \/ log[m] = "sent"

\* _cancel_text finds out what is cancelled.
Resolved(c) == c.event \/ \E m \in Original(c) : m.event

\* A cancel is exempt from the choice of categories.
Broadcastable(m) ==
  CASE m.type = "Alert"  -> settings.selected /\ settings.zones /\ m.area = "in"
    [] m.type = "Cancel" -> CancelInArea(m) /\ Resolved(m)

Ignored(m) == Seen(m) \/ ~ForUs(m) \/ (m.type = "Alert" /\ ~Broadcastable(m))

\* add_ipaws and update_ipaws.
Stored(m, row) == log' = [log EXCEPT ![m] = row]

\* One turn of poll_once's loop.
Handle(m) ==
  /\ phase = "handle" /\ m \in batch
  /\ batch' = batch \ {m} /\ handled' = handled \cup {m}
  /\ \/ Ignored(m) /\ UNCHANGED <<log, lane, enqueued>>
     \/ /\ ~Ignored(m) /\ (~Broadcastable(m) \/ settings.paused)
        /\ Stored(m, "not sent") /\ UNCHANGED <<lane, enqueued>>
     \/ /\ ~Ignored(m) /\ Broadcastable(m) /\ ~settings.paused
        /\ Stored(m, "queued") /\ lane' = lane \cup {m}
        /\ enqueued' = [enqueued EXCEPT ![m] = @ + 1]
  /\ UNCHANGED <<clock, crashes, settings, feed, phase, now, since, excused>>

\* The worker sends, and calls back (_make_result_cb).
Send(m, ok) ==
  /\ phase # "handle" /\ m \in lane /\ lane' = lane \ {m}
  /\ Stored(m, IF ok THEN "sent" ELSE "not sent")
  /\ UNCHANGED <<clock, crashes, settings, feed, poller, handled, excused, enqueued>>
----------------------------------------------------------------------------
(* Crash and restart.                                                      *)

Crash ==
  /\ phase # "down" /\ crashes < MaxCrashes /\ crashes' = crashes + 1
  /\ phase' = "down" /\ batch' = {} /\ lane' = {} /\ now' = 0
  /\ UNCHANGED <<clock, settings, feed, since, log, handled, excused, enqueued>>

\* Mutant of FirstSince: a restart asks for what comes from now on.
FirstSinceNow == clock

\* The first poll looks back.
FirstSince == clock - Lookback

Restart ==
  /\ phase = "down" /\ phase' = "idle" /\ since' = FirstSince
  /\ excused' = excused \cup {m \in Issued : filed[m] < clock - Lookback}
  /\ UNCHANGED <<clock, crashes, settings, feed, now, batch, log, lane, handled, enqueued>>
----------------------------------------------------------------------------
Next ==
  \/ \E m \in Messages : Issue(m) \/ Appear(m) \/ Handle(m)
  \/ \E m \in Messages, ok \in BOOLEAN : Send(m, ok)
  \/ \E s \in SettingsSet : Save(s)
  \/ \E garbled \in BOOLEAN : Answer(garbled)
  \/ Tick \/ BeginPoll \/ PollFails \/ HandleRaises \/ PollEnds
  \/ Crash \/ Restart

Spec == Init /\ [][Next]_vars
----------------------------------------------------------------------------
\* Every message of the feed is decided about or will be in the answer of
\* the next poll, through failed polls, a slow feed and restarts, except
\* those of an answer that could not be read or stored and those that were
\* filed longer ago than a restart looks back (poll_once, __init__).
NothingMissed ==
  phase # "down" =>
    \A m \in Issued : m \in handled \cup excused \cup batch \/ filed[m] >= since

\* No message is handed to the lane twice, although the windows overlap,
\* sends fail and restarts look back (ipaws_seen).
EnqueuedOnce == \A m \in Messages : enqueued[m] <= 1
=============================================================================
