----------------------------- MODULE RadioLink -----------------------------
(***************************************************************************)
(* One radio of TransmitManager (app/transmit.py) and the lock under which *)
(* all radio work is done: sends with their corrections and retries,       *)
(* MeshCore channel edits and inspections, the settings page's probe of a  *)
(* device, and reconfiguration.  The environment drops links, wedges       *)
(* their readers and lets the companion forget its flood scope.            *)
(*                                                                         *)
(* The operation that holds the lock is `holder`, and `stage` says what it *)
(* awaits; whoever waits for the lock is not kept, since asyncio.Lock is   *)
(* fair.  The other radio only makes the holder busy with something else.  *)
(* One channel slot of the companion stands for all of them, and the       *)
(* settings page probes the device that the settings name.  Left out:      *)
(* error texts, the event log, and stop, which ends the process; and that  *)
(* the page stores most settings a moment before it takes the lock, so     *)
(* that a retry under way may open newer settings, never older ones.       *)
(***************************************************************************)
EXTENDS Naturals

CONSTANTS
  Configs,    \* the settings an operator saves, records as in ConfigType
  MaxFaults   \* drops and wedges of a link

Modes      == {"disabled", "unset", "serial", "tcp"}
Policies   == {"open", "scoped", "blank"}
ConfigType == [mode : Modes, policy : Policies]

ASSUME LinkAssumption == Configs \subseteq ConfigType /\ MaxFaults \in Nat

Sends   == {"text", "frame"}
Edits   == {"set", "clear"}
Holders == Sends \cup Edits \cup {"inspect", "load", "reconfigure"}
Stages  == {"idle", "link", "scope", "text", "reclose", "reopen", "query", "command",
            "readback", "refresh", "inspect", "unlink", "probe"}
NoLink  == [state |-> "none"]
None    == "none"

VARIABLES
  config,    \* the settings the Transport was built from
  tx,        \* Transport.tx, with the settings it was opened under
  connected, \* Transport.connected
  probe,     \* load_channels' transient link
  leaked,    \* open links nobody holds any more
  hung,      \* closes that timed out, which keep their port
  flood,     \* the companion's flood scope
  slot,      \* a channel slot of the companion
  cache,     \* that slot in the settings, meshcore_channels
  holder, stage,   \* who holds _lock, and at which await
  attempt, tries,  \* of the send or edit; of _reconnect
  after,     \* what follows _reconnect
  faults,
  last,      \* history: the latest airing of the current send, if any
  reset,     \* history: the companion restarted after it confirmed the scope
  commands,  \* history: mutation commands of the current edit
  outcome,   \* history: what the latest edit or inspection reported
  dangling   \* history: an inspection gave a link up without closing it

links  == <<tx, connected, probe, leaked, hung>>
device == <<flood, slot, cache>>
work   == <<holder, stage, attempt, tries, after>>
record == <<last, reset, commands, outcome, dangling>>
vars   == <<config, links, device, work, faults, record>>

Init ==
  /\ config \in Configs
  /\ tx = NoLink /\ connected = FALSE /\ probe = NoLink /\ leaked = 0 /\ hung = 0
  /\ flood = "unscoped" /\ slot = "clear" /\ cache = "clear"
  /\ holder = None /\ stage = "idle" /\ attempt = 1 /\ tries = 1 /\ after = None
  /\ faults = 0
  /\ last = {} /\ reset = FALSE /\ commands = 0 /\ outcome = {} /\ dangling = FALSE

Go(s) == stage' = s /\ UNCHANGED <<holder, attempt, tries, after>>

Release ==
  /\ holder' = None /\ stage' = "idle"
  /\ attempt' = 1 /\ tries' = 1 /\ after' = None

\* Every caller of _lock; a disabled radio neither sends nor is edited.
Begin(h) ==
  /\ holder = None
  /\ h \in Sends \cup Edits \cup {"inspect"} => config.mode # "disabled"
  /\ holder' = h
  /\ stage' = IF h \in {"load", "reconfigure"} THEN "unlink" ELSE "link"
  /\ last' = {} /\ commands' = 0 /\ outcome' = {}
  /\ UNCHANGED <<config, links, device, attempt, tries, after, faults, reset, dangling>>
----------------------------------------------------------------------------
(* Links.                                                                  *)

Link == [state |-> "live", config |-> config]

\* A serial port admits one holder, a zombie's included.
CanOpen == config.mode = "tcp" \/ (hung = 0 /\ probe = NoLink /\ tx = NoLink)

\* _open_once; what tx held before is forgotten, not closed.
OpenOnce(ok) ==
  /\ ok => CanOpen
  /\ tx' = (IF ok THEN Link ELSE NoLink) /\ connected' = ok
  /\ leaked' = leaked + (IF tx = NoLink THEN 0 ELSE 1)
  /\ UNCHANGED <<probe, hung>>

\* Where an operation goes once it has a link.
First == CASE holder \in Sends   -> Go("scope")
           [] holder \in Edits   -> Go("query")
           [] holder = "inspect" -> Go("inspect")
           [] OTHER              -> Release

\* The loop of _try_send and _try_send_binary, three attempts.
NextAttempt ==
  IF attempt < 3 THEN attempt' = attempt + 1 /\ stage' = "link"
                      /\ UNCHANGED <<holder, tries, after>>
  ELSE Release

\* _ensure failed.
Missed == IF holder \in Sends THEN NextAttempt ELSE Release

\* _ensure_meshcore_channel_transport: the library says the link is down.
Stale ==
  /\ holder \in Edits \cup {"inspect"} /\ config.mode = "tcp"
  /\ tx # NoLink /\ tx.state = "down"

Usable == connected /\ tx # NoLink

\* Enter _reconnect.
Reset(then) ==
  /\ stage' = "reclose" /\ after' = then /\ connected' = FALSE
  /\ UNCHANGED <<holder, attempt, tries, tx, probe, leaked, hung>>

UseLink ==
  /\ stage = "link" /\ ~Stale /\ Usable
  /\ First /\ UNCHANGED <<config, links, device, faults, record>>

FindStale ==
  /\ stage = "link" /\ Stale
  /\ Reset("enter") /\ UNCHANGED <<config, device, faults, record>>

\* _ensure with nothing to connect to.
NoTarget ==
  /\ stage = "link" /\ ~Usable /\ config.mode \in {"disabled", "unset"}
  /\ Missed /\ UNCHANGED <<config, links, device, faults, record>>

\* _ensure.
Ensure(ok) ==
  /\ stage = "link" /\ ~Stale /\ ~Usable /\ config.mode \in {"serial", "tcp"}
  /\ OpenOnce(ok)
  /\ IF ok THEN First ELSE Missed
  /\ UNCHANGED <<config, device, faults, record>>

\* Mutant of ClosesInTime: _reconnect waits for the close for ever.
ClosesEver == tx.state # "wedged"

\* _reconnect gives a close eight seconds.
ClosesInTime == TRUE

\* _reconnect, the close; a wedged one is left behind.
Reclose ==
  /\ stage = "reclose" /\ ClosesInTime
  /\ tx' = NoLink
  /\ hung' = hung + (IF tx.state = "wedged" THEN 1 ELSE 0)
  /\ stage' = "reopen" /\ tries' = 1
  /\ UNCHANGED <<config, connected, probe, leaked, device, holder, attempt, after,
                 faults, record>>

AfterReset(ok) ==
  CASE after = "next"           -> NextAttempt
    [] after = "enter" /\ ok    -> First
    [] after = "retry" /\ ok    -> /\ attempt' = 2
                                   /\ stage' = IF holder = "inspect" THEN "inspect" ELSE "query"
                                   /\ UNCHANGED <<holder, tries, after>>
    [] OTHER                    -> Release

\* _reconnect, four tries to open.
Reopen(ok) ==
  /\ stage = "reopen"
  /\ OpenOnce(ok)
  /\ IF ~ok /\ tries < 4
     THEN tries' = tries + 1 /\ UNCHANGED <<holder, stage, attempt, after>>
     ELSE AfterReset(ok)
  /\ UNCHANGED <<config, device, faults, record>>
----------------------------------------------------------------------------
(* Sends.                                                                  *)

\* Failures of a send: the radio is too full or too busy, the content or
\* channel is bad, the link failed, the radio or companion refused.        
Categories == {"wait", "fatal", "link", "unsent"}

\* What _try_send and _try_send_binary do about a failure.
Correct(c) ==
  CASE c = "fatal" -> Release /\ UNCHANGED links
    [] c = "wait"  -> NextAttempt /\ UNCHANGED links
    [] c = "unsent" /\ holder = "text" /\ attempt = 1 -> NextAttempt /\ UNCHANGED links
    [] OTHER       -> Reset("next")

Live == tx # NoLink /\ tx.state = "live"

\* Mutant of ScopeRefused: a refused scope command does not stop the send.
ScopeShrugged == Go("text") /\ UNCHANGED links

\* _apply_flood_scope raises TxUnsent, which no payload survives.
ScopeRefused == Correct("unsent")

\* _apply_flood_scope before each payload, and send_binary's device query.
Scope ==
  /\ stage = "scope" /\ Live
  /\ \/ config.policy = "open" /\ Go("text") /\ UNCHANGED <<links, flood, reset>>
     \/ /\ config.policy = "scoped" /\ flood' = "scoped" /\ reset' = FALSE
        /\ Go("text") /\ UNCHANGED links
     \/ config.policy \in {"scoped", "blank"} /\ ScopeRefused /\ UNCHANGED <<flood, reset>>
     \/ holder = "frame" /\ Correct("fatal") /\ UNCHANGED <<flood, reset>>
  /\ UNCHANGED <<config, slot, cache, faults, last, commands, outcome, dangling>>

\* The radio takes the payload.
Airs ==
  last' = {[config |-> config, via |-> tx.config, flood |-> flood, excused |-> reset]}

Sent ==
  /\ stage = "text" /\ Live /\ Airs /\ Release
  /\ UNCHANGED <<config, links, device, faults, reset, commands, outcome, dangling>>

\* The payload is rejected, or taken without a confirmation.
Unsent(c) ==
  /\ stage = "text" /\ Live
  /\ UNCHANGED last \/ (c \in {"link", "unsent"} /\ Airs)
  /\ Correct(c)
  /\ UNCHANGED <<config, device, faults, reset, commands, outcome, dangling>>

\* The link is gone when the command is written.
Broken ==
  /\ stage \in {"scope", "text"} /\ ~Live
  /\ Correct("link")
  /\ UNCHANGED <<config, device, faults, record>>
----------------------------------------------------------------------------
(* Channel edits and inspections.                                          *)

\* Mutant of RetrySafe: a lost answer counts as a command never sent.
RetryAlways(s) == s \in {"query", "command", "readback"}

\* Only a failure before the mutation command may be retried.
RetrySafe(s) == s = "query"

\* A link error of an edit: over TCP the link is reset, once with a retry.
EditLinkFails ==
  IF config.mode = "tcp"
  THEN Reset(IF attempt = 1 /\ RetrySafe(stage) THEN "retry" ELSE "giveup")
  ELSE Release /\ UNCHANGED links

\* The device is queried, and the index is in range.
Query ==
  /\ stage = "query" /\ Live
  /\ Go("command") \/ Release
  /\ UNCHANGED <<config, links, device, faults, record>>

\* The mutation command: accepted, refused, or its answer is lost.
Command ==
  /\ stage = "command" /\ Live
  /\ commands' = commands + 1
  /\ \/ slot' \in {slot, holder} /\ Go("readback") /\ UNCHANGED links
     \/ UNCHANGED <<slot, links>> /\ Release
     \/ slot' \in {slot, holder} /\ EditLinkFails
  /\ UNCHANGED <<config, flood, cache, faults, last, reset, outcome, dangling>>

\* Mutant of Verified: the companion's OK is enough.
VerifiedUnread == TRUE

\* What is read back must match what was written.
Verified == slot = holder

\* The result of an edit or an inspection.
Reports(channel, cached) == outcome' = {[channel |-> channel, cached |-> cached]}

Readback ==
  /\ stage = "readback" /\ Live
  /\ \/ Verified /\ Go("refresh") /\ Reports(holder, FALSE)
     \/ Release /\ UNCHANGED outcome
  /\ UNCHANGED <<config, links, device, faults, last, reset, commands, dangling>>

\* _refresh_meshcore_channel_cache; its failure leaves the edit successful.
Refresh ==
  /\ stage = "refresh" /\ Release
  /\ \/ Live /\ cache' = slot /\ Reports(holder, TRUE)
     \/ UNCHANGED <<cache, outcome>>
  /\ UNCHANGED <<config, links, flood, slot, faults, last, reset, commands, dangling>>

\* The link is gone at any await of an edit.
EditBroken ==
  /\ stage \in {"query", "command", "readback"} /\ ~Live
  /\ EditLinkFails
  /\ UNCHANGED <<config, device, faults, record>>

\* inspect_meshcore_channel and inspect_meshcore_channels.
Inspect ==
  /\ stage = "inspect" /\ Live /\ Release
  /\ \/ cache' = slot /\ Reports(slot, TRUE)
     \/ UNCHANGED <<cache, outcome>>
  /\ UNCHANGED <<config, links, flood, slot, faults, last, reset, commands, dangling>>

\* The second link failure leaves tx set and connected false.
InspectBroken ==
  /\ stage = "inspect" /\ ~Live
  /\ IF config.mode = "tcp" /\ attempt = 1 THEN Reset("retry") /\ UNCHANGED dangling
     ELSE /\ connected' = (connected /\ config.mode # "tcp")
          /\ dangling' = (dangling \/ config.mode = "tcp")
          /\ Release /\ UNCHANGED <<tx, probe, leaked, hung>>
  /\ UNCHANGED <<config, device, faults, last, reset, commands, outcome>>
----------------------------------------------------------------------------
(* Reconfiguration and the probe of the settings page.                     *)

\* Mutant of Dropped: a link of the same mode is kept over the rebuild.
DroppedIfMoved(c) == c.mode # config.mode

\* reconfigure closes every link before it rebuilds the transports.
Dropped(c) == c \in Configs

\* reconfigure; a wedged close has no timeout here.
Rebuild(c) ==
  /\ stage = "unlink" /\ holder = "reconfigure"
  /\ tx = NoLink \/ tx.state # "wedged"
  /\ config' = c
  /\ IF Dropped(c) THEN tx' = NoLink /\ connected' = FALSE ELSE UNCHANGED <<tx, connected>>
  /\ Go("link")
  /\ UNCHANGED <<probe, leaked, hung, device, faults, record>>

\* Mutant of Freed: the device is probed next to the live link.
FreedLater == UNCHANGED <<tx, connected>>

\* load_channels releases the live link first.
Freed == tx' = NoLink /\ connected' = FALSE

\* load_channels; its transient link may not open.
Probe ==
  /\ stage = "unlink" /\ holder = "load"
  /\ tx = NoLink \/ tx.state # "wedged"
  /\ Freed
  /\ \/ /\ config.mode = "tcp" \/ hung = 0
        /\ probe' = Link /\ Go("probe")
     \/ UNCHANGED probe /\ Go("link")
  /\ UNCHANGED <<config, leaked, hung, device, faults, record>>

\* The transient link is closed, again without a timeout.
Unprobe ==
  /\ stage = "probe" /\ probe.state # "wedged"
  /\ probe' = NoLink /\ Go("link")
  /\ UNCHANGED <<config, tx, connected, leaked, hung, device, faults, record>>
----------------------------------------------------------------------------
(* The environment.                                                        *)

Fault == faults < MaxFaults /\ faults' = faults + 1

\* The link goes down, perhaps because the companion restarts.
Drop ==
  /\ Fault /\ Live /\ tx' = [tx EXCEPT !.state = "down"]
  /\ \/ UNCHANGED <<flood, reset>>
     \/ flood' = "unscoped" /\ reset' = (reset \/ stage = "text")
  /\ UNCHANGED <<config, connected, probe, leaked, hung, slot, cache, work, last,
                 commands, outcome, dangling>>

\* A reader thread wedges; its close will not return.
Wedge ==
  /\ Fault
  /\ \/ tx # NoLink /\ tx' = [tx EXCEPT !.state = "wedged"] /\ UNCHANGED probe
     \/ probe # NoLink /\ probe' = [probe EXCEPT !.state = "wedged"] /\ UNCHANGED tx
  /\ UNCHANGED <<config, connected, leaked, hung, device, work, record>>

\* The MeshCore library reopens a TCP connection by itself.
Recover ==
  /\ tx # NoLink /\ tx.state = "down" /\ tx.config.mode = "tcp"
  /\ tx' = [tx EXCEPT !.state = "live"]
  /\ UNCHANGED <<config, connected, probe, leaked, hung, device, work, faults, record>>

\* A wedge may end, and with it the close that waits or timed out.
WedgeEnds ==
  /\ \/ hung > 0 /\ hung' = hung - 1 /\ UNCHANGED <<tx, probe>>
     \/ /\ tx # NoLink /\ tx.state = "wedged"
        /\ tx' = [tx EXCEPT !.state = "down"] /\ UNCHANGED <<probe, hung>>
     \/ /\ probe # NoLink /\ probe.state = "wedged"
        /\ probe' = [probe EXCEPT !.state = "down"] /\ UNCHANGED <<tx, hung>>
  /\ UNCHANGED <<config, connected, leaked, device, work, faults, record>>
----------------------------------------------------------------------------
HolderStep ==
  \/ UseLink \/ FindStale \/ NoTarget \/ Reclose
  \/ \E ok \in BOOLEAN : Ensure(ok) \/ Reopen(ok)
  \/ Scope \/ Sent \/ Broken
  \/ \E c \in Categories : Unsent(c)
  \/ Query \/ Command \/ Readback \/ Refresh \/ EditBroken
  \/ Inspect \/ InspectBroken
  \/ Probe \/ Unprobe
  \/ \E c \in Configs : Rebuild(c)

Next ==
  \/ \E h \in Holders : Begin(h)
  \/ HolderStep
  \/ Drop \/ Wedge \/ Recover \/ WedgeEnds

Spec == Init /\ [][Next]_vars

\* The holder of the lock runs: driver calls return, except a wedged close.
FairSpec == Spec /\ WF_vars(HolderStep)
----------------------------------------------------------------------------
LinkStates == {"live", "down", "wedged"}
LinkType   == {NoLink} \cup [state : LinkStates, config : Configs]

LinkTypes ==
  /\ config \in Configs /\ faults \in 0..MaxFaults
  /\ tx \in LinkType /\ connected \in BOOLEAN /\ probe \in LinkType
  /\ leaked \in Nat /\ hung \in Nat
  /\ flood \in {"unscoped", "scoped"} /\ {slot, cache} \subseteq Edits

WorkTypes ==
  /\ holder \in Holders \cup {None} /\ stage \in Stages
  /\ holder = None <=> stage = "idle"
  /\ attempt \in 1..3 /\ tries \in 1..4 /\ after \in {None, "next", "enter", "retry", "giveup"}

RecordTypes ==
  /\ last \subseteq [config : Configs, via : Configs,
                    flood : {"unscoped", "scoped"}, excused : BOOLEAN]
  /\ reset \in BOOLEAN /\ commands \in Nat /\ dangling \in BOOLEAN
  /\ \A o \in outcome : o.channel \in Edits

\* Every variable stays in its range, and the lock is free exactly at "idle".
TypeOK == LinkTypes /\ WorkTypes /\ RecordTypes

\* "no send can cross the activation boundary with the previous transport
\* configuration" (reconfigure, transmit.py:630-633), retries included.
NoObsoleteLink == \A a \in last : a.via = a.config

\* At most one link to the radio is held or leaked, whatever failed, was reset
\* or was probed, except after an inspection that gave its link up without
\* closing it (load_channels: "so it never double-opens", transmit.py:1198).
OneLink == ~dangling => leaked = 0 /\ (tx = NoLink \/ probe = NoLink)

\* With a required scope nothing is flooded outside it, whatever failed and
\* was retried, unless the companion restarts between its confirmation of
\* the scope and the payload (_apply_flood_scope).
ScopeKept ==
  \A a \in last :
    /\ a.config.policy # "blank"
    /\ a.config.policy = "scoped" => a.flood = "scoped" \/ a.excused

\* An edit sends its mutation command once, however its link fails: a lost
\* answer is ambiguous and never repeated (set_channel, clear_channel).
CommandedOnce == commands <= 1

\* A reported success is the companion's state, and what the settings cache
\* after it is what the companion holds.
EditIsTruthful ==
  \A o \in outcome : slot = o.channel /\ (o.cached => cache = slot)

\* The lock is released again, or its holder waits for a wedged close where
\* the code has no timeout: reconfigure and load_channels.
LockIsReleased ==
  holder # None ~>
    \/ holder = None
    \/ stage = "unlink" /\ tx # NoLink /\ tx.state = "wedged"
    \/ stage = "probe" /\ probe.state = "wedged"
=============================================================================
