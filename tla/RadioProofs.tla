---------------------------- MODULE RadioProofs ----------------------------
(***************************************************************************)
(* Proofs about RadioLink: every variable keeps its type, and, whatever    *)
(* fails under the lock, no send uses the link of older settings or        *)
(* crosses the required scope, no second link is opened, no channel        *)
(* command is repeated and every report is true.                           *)
(***************************************************************************)
EXTENDS RadioLink, TLAPS

\* The stages of an edit after it has its link.
EditStages == {"query", "command", "readback", "refresh"}

\* Whose the stages are, and that only an edit or an inspection is retried.
StagesFit ==
  /\ stage \in EditStages => holder \in Edits
  /\ stage = "inspect" => holder = "inspect"
  /\ after = "retry" => holder \in Edits \cup {"inspect"}

\* The link is one of the settings in force.
LinkIsCurrent == tx = NoLink \/ tx.config = config

\* A payload is offered only under a confirmed scope, where one is required.
ScopeIsSet ==
  stage = "text" =>
    /\ config.policy # "blank"
    /\ config.policy = "scoped" => flood = "scoped" \/ reset

\* A command that was sent leads to an end of the edit, never to another try.
CommandIsLast ==
  commands = 1 =>
    \/ stage \in {"idle", "readback", "refresh"}
    \/ stage \in {"reclose", "reopen"} /\ after = "giveup"

\* Reports come at the end, and an edit that reached its cache was verified.
ReportIsLast ==
  /\ outcome # {} => stage \in {"idle", "refresh"}
  /\ stage = "refresh" => slot = holder

\* A link is usable or about to be closed, unless an inspection gave it up;
\* a reset opens nothing over it, and the probe has the device to itself.
LinkIsHeld ==
  /\ ~dangling => leaked = 0
  /\ tx # NoLink /\ ~dangling => connected \/ stage = "reclose"
  /\ stage = "reopen" => tx = NoLink
  /\ probe # NoLink => stage = "probe" /\ tx = NoLink

\* The inductive invariants.
TypeInv == TypeOK /\ StagesFit
LinkInv == LinkIsCurrent /\ NoObsoleteLink /\ LinkIsHeld
AirInv  == ScopeIsSet /\ ScopeKept
EditInv == CommandedOnce /\ CommandIsLast /\ EditIsTruthful /\ ReportIsLast
----------------------------------------------------------------------------
(* No step leaves an invariant.                                            *)

LEMMA TypeStep == TypeInv /\ [Next]_vars => TypeInv'
<1> SUFFICES ASSUME TypeInv, [Next]_vars
             PROVE  TypeInv'
  OBVIOUS
<1> USE LinkAssumption DEF TypeInv, TypeOK, LinkTypes, WorkTypes, RecordTypes,
           StagesFit, EditStages, LinkType, LinkStates, NoLink, None, Stages,
           Sends, Edits, Holders, ConfigType, Modes, Policies
<1>1. QED
  <2>1. CASE \E h \in Holders : Begin(h)
    BY <2>1 DEF Begin, Release, Sends, Edits, Holders, links, device, work,
           record
  <2>2. CASE UseLink
    BY <2>2 DEF UseLink, First, Go, Release, Stale, Usable, Sends, Edits,
           Holders, links, device, work, record
  <2>3. CASE FindStale
    BY <2>3 DEF FindStale, Stale, Reset, Edits, links, device, work, record
  <2>4. CASE NoTarget
    BY <2>4 DEF NoTarget, Missed, NextAttempt, Release, Sends, links, device,
           work, record
  <2>5. CASE Reclose
    BY <2>5 DEF Reclose, ClosesInTime, links, device, work, record
  <2>6. CASE \E ok \in BOOLEAN : Ensure(ok)
    BY <2>6 DEF Ensure, OpenOnce, CanOpen, Link, First, Missed, NextAttempt,
           Go, Release, Usable, Sends, Edits, Holders, links, device, work,
           record
  <2>7. CASE \E ok \in BOOLEAN : Reopen(ok)
    <3>1. LinkTypes'
      BY <2>7 DEF Reopen, OpenOnce, CanOpen, Link, AfterReset, First,
             NextAttempt, Go, Release, Sends, Edits, Holders, links, device,
             work, record
    <3>2. WorkTypes'
      BY <2>7 DEF Reopen, OpenOnce, CanOpen, Link, AfterReset, First,
             NextAttempt, Go, Release, Sends, Edits, Holders, links, device,
             work, record
    <3>3. StagesFit'
      BY <2>7 DEF Reopen, OpenOnce, CanOpen, Link, AfterReset, First,
             NextAttempt, Go, Release, Sends, Edits, Holders, links, device,
             work, record
    <3>4. RecordTypes'
      BY <2>7 DEF Reopen, OpenOnce, CanOpen, Link, AfterReset, First,
             NextAttempt, Go, Release, Sends, Edits, Holders, links, device,
             work, record
    <3> QED
      BY <3>1, <3>2, <3>3, <3>4
  <2>8. CASE Scope
    <3>1. LinkTypes'
      BY <2>8 DEF Scope, ScopeRefused, Correct, Live, NextAttempt, Reset, Go,
             Release, Sends, links, device, work, record
    <3>2. WorkTypes'
      BY <2>8 DEF Scope, ScopeRefused, Correct, Live, NextAttempt, Reset, Go,
             Release, Sends, links, device, work, record
    <3>3. StagesFit'
      BY <2>8 DEF Scope, ScopeRefused, Correct, Live, NextAttempt, Reset, Go,
             Release, Sends, links, device, work, record
    <3>4. RecordTypes'
      BY <2>8 DEF Scope, ScopeRefused, Correct, Live, NextAttempt, Reset, Go,
             Release, Sends, links, device, work, record
    <3> QED
      BY <3>1, <3>2, <3>3, <3>4
  <2>9. CASE Sent
    BY <2>9 DEF Sent, Airs, Live, Release, links, device, work, record
  <2>10. CASE \E c \in Categories : Unsent(c)
    <3>1. LinkTypes'
      BY <2>10 DEF Unsent, Airs, Correct, Live, NextAttempt, Reset, Release,
             Categories, links, device, work, record
    <3>2. WorkTypes'
      BY <2>10 DEF Unsent, Airs, Correct, Live, NextAttempt, Reset, Release,
             Categories, links, device, work, record
    <3>3. StagesFit'
      BY <2>10 DEF Unsent, Airs, Correct, Live, NextAttempt, Reset, Release,
             Categories, links, device, work, record
    <3>4. RecordTypes'
      BY <2>10 DEF Unsent, Airs, Correct, Live, NextAttempt, Reset, Release,
             Categories, links, device, work, record
    <3> QED
      BY <3>1, <3>2, <3>3, <3>4
  <2>11. CASE Broken
    BY <2>11 DEF Broken, Correct, Reset, links, device, work, record
  <2>12. CASE Query
    BY <2>12 DEF Query, Go, Release, links, device, work, record
  <2>13. CASE Command
    <3>1. LinkTypes'
      BY <2>13 DEF Command, EditLinkFails, RetrySafe, Reset, Go, Release,
             Edits, links, device, work, record
    <3>2. WorkTypes'
      BY <2>13 DEF Command, EditLinkFails, RetrySafe, Reset, Go, Release,
             Edits, links, device, work, record
    <3>3. StagesFit'
      BY <2>13 DEF Command, EditLinkFails, RetrySafe, Reset, Go, Release,
             Edits, links, device, work, record
    <3>4. RecordTypes'
      BY <2>13 DEF Command, EditLinkFails, RetrySafe, Reset, Go, Release,
             Edits, links, device, work, record
    <3> QED
      BY <3>1, <3>2, <3>3, <3>4
  <2>14. CASE Readback
    <3>1. LinkTypes'
      BY <2>14 DEF Readback, Verified, Reports, Go, Release, Edits, links,
             device, work, record
    <3>2. WorkTypes'
      BY <2>14 DEF Readback, Verified, Reports, Go, Release, Edits, links,
             device, work, record
    <3>3. StagesFit'
      BY <2>14 DEF Readback, Verified, Reports, Go, Release, Edits, links,
             device, work, record
    <3>4. RecordTypes'
      <4>1. holder \in Edits
        BY <2>14 DEF Readback
      <4>2. outcome' = outcome \/ outcome' = {[channel |-> holder, cached |-> FALSE]}
        BY <2>14 DEF Readback, Reports
      <4>3. \A o \in outcome' : o.channel \in Edits
        BY <4>1, <4>2
      <4>4. UNCHANGED <<last, reset, commands, dangling>>
        BY <2>14 DEF Readback
      <4> QED
        BY <4>3, <4>4
    <3> QED
      BY <3>1, <3>2, <3>3, <3>4
  <2>15. CASE Refresh
    <3>1. LinkTypes'
      BY <2>15 DEF Refresh, Reports, Release, Edits, links, device, work,
             record
    <3>2. WorkTypes'
      BY <2>15 DEF Refresh, Reports, Release, Edits, links, device, work,
             record
    <3>3. StagesFit'
      BY <2>15 DEF Refresh, Reports, Release, Edits, links, device, work,
             record
    <3>4. RecordTypes'
      <4>1. holder \in Edits
        BY <2>15 DEF Refresh
      <4>2. outcome' = outcome \/ outcome' = {[channel |-> holder, cached |-> TRUE]}
        BY <2>15 DEF Refresh, Reports
      <4>3. \A o \in outcome' : o.channel \in Edits
        BY <4>1, <4>2
      <4>4. UNCHANGED <<last, reset, commands, dangling>>
        BY <2>15 DEF Refresh
      <4> QED
        BY <4>3, <4>4
    <3> QED
      BY <3>1, <3>2, <3>3, <3>4
  <2>16. CASE EditBroken
    <3>1. LinkTypes'
      BY <2>16 DEF EditBroken, EditLinkFails, RetrySafe, Reset, Release,
             Edits, links, device, work, record
    <3>2. WorkTypes'
      BY <2>16 DEF EditBroken, EditLinkFails, RetrySafe, Reset, Release,
             Edits, links, device, work, record
    <3>3. StagesFit'
      BY <2>16 DEF EditBroken, EditLinkFails, RetrySafe, Reset, Release,
             Edits, links, device, work, record
    <3>4. RecordTypes'
      BY <2>16 DEF EditBroken, EditLinkFails, RetrySafe, Reset, Release,
             Edits, links, device, work, record
    <3> QED
      BY <3>1, <3>2, <3>3, <3>4
  <2>17. CASE Inspect
    <3>1. LinkTypes'
      BY <2>17 DEF Inspect, Reports, Release, Edits, links, device, work,
             record
    <3>2. WorkTypes'
      BY <2>17 DEF Inspect, Reports, Release, Edits, links, device, work,
             record
    <3>3. StagesFit'
      BY <2>17 DEF Inspect, Reports, Release, Edits, links, device, work,
             record
    <3>4. RecordTypes'
      <4>1. slot \in Edits
        BY <2>17 DEF Inspect
      <4>2. outcome' = outcome \/ outcome' = {[channel |-> slot, cached |-> TRUE]}
        BY <2>17 DEF Inspect, Reports
      <4>3. \A o \in outcome' : o.channel \in Edits
        BY <4>1, <4>2
      <4>4. UNCHANGED <<last, reset, commands, dangling>>
        BY <2>17 DEF Inspect
      <4> QED
        BY <4>3, <4>4
    <3> QED
      BY <3>1, <3>2, <3>3, <3>4
  <2>18. CASE InspectBroken
    <3>1. LinkTypes'
      BY <2>18 DEF InspectBroken, Reset, Release, links, device, work, record
    <3>2. WorkTypes'
      BY <2>18 DEF InspectBroken, Reset, Release, links, device, work, record
    <3>3. StagesFit'
      BY <2>18 DEF InspectBroken, Reset, Release, links, device, work, record
    <3>4. RecordTypes'
      BY <2>18 DEF InspectBroken, Reset, Release, links, device, work, record
    <3> QED
      BY <3>1, <3>2, <3>3, <3>4
  <2>19. CASE Probe
    <3>1. LinkTypes'
      <4>1. probe' = probe \/ probe' = [state |-> "live", config |-> config]
        BY <2>19 DEF Probe, Link
      <4>2. probe' \in LinkType
        BY <4>1
      <4> QED
        BY <2>19, <4>2 DEF Probe, Freed, device
    <3>2. WorkTypes'
      BY <2>19 DEF Probe, Freed, Link, Go, links, device, work, record
    <3>3. StagesFit'
      BY <2>19 DEF Probe, Freed, Link, Go, links, device, work, record
    <3>4. RecordTypes'
      BY <2>19 DEF Probe, Freed, Link, Go, links, device, work, record
    <3> QED
      BY <3>1, <3>2, <3>3, <3>4
  <2>20. CASE Unprobe
    BY <2>20 DEF Unprobe, Go, links, device, work, record
  <2>21. CASE \E c \in Configs : Rebuild(c)
    BY <2>21 DEF Rebuild, Dropped, Go, links, device, work, record
  <2>22. CASE Drop
    <3>1. LinkTypes'
      BY <2>22 DEF Drop, Fault, Live, links, device, work, record
    <3>2. WorkTypes'
      BY <2>22 DEF Drop, Fault, Live, links, device, work, record
    <3>3. StagesFit'
      BY <2>22 DEF Drop, Fault, Live, links, device, work, record
    <3>4. RecordTypes'
      BY <2>22 DEF Drop, Fault, Live, links, device, work, record
    <3> QED
      BY <3>1, <3>2, <3>3, <3>4
  <2>23. CASE Wedge
    BY <2>23 DEF Wedge, Fault, links, device, work, record
  <2>24. CASE Recover
    BY <2>24 DEF Recover, links, device, work, record
  <2>25. CASE WedgeEnds
    BY <2>25 DEF WedgeEnds, links, device, work, record
  <2>26. CASE UNCHANGED vars
    BY <2>26 DEF vars, links, device, work, record
  <2> QED
    BY <2>1, <2>2, <2>3, <2>4, <2>5, <2>6, <2>7, <2>8, <2>9, <2>10, <2>11,
       <2>12, <2>13, <2>14, <2>15, <2>16, <2>17, <2>18, <2>19, <2>20, <2>21,
       <2>22, <2>23, <2>24, <2>25, <2>26 DEF Next, HolderStep

LEMMA LinkStep == TypeInv /\ LinkInv /\ [Next]_vars => LinkInv'
<1> SUFFICES ASSUME TypeInv /\ LinkInv, [Next]_vars
             PROVE  LinkInv'
  OBVIOUS
<1> USE LinkAssumption DEF LinkInv, LinkIsCurrent, NoObsoleteLink, LinkIsHeld,
           TypeInv, TypeOK, LinkTypes, WorkTypes, LinkType, LinkStates,
           NoLink, None
<1>1. QED
  <2>1. CASE \E h \in Holders : Begin(h)
    BY <2>1 DEF Begin, Release, Sends, Edits, Holders, links, device, work,
           record
  <2>2. CASE UseLink
    BY <2>2 DEF UseLink, First, Go, Release, Stale, Usable, Sends, Edits,
           Holders, links, device, work, record
  <2>3. CASE FindStale
    BY <2>3 DEF FindStale, Stale, Reset, Edits, links, device, work, record
  <2>4. CASE NoTarget
    BY <2>4 DEF NoTarget, Missed, NextAttempt, Release, Sends, links, device,
           work, record
  <2>5. CASE Reclose
    BY <2>5 DEF Reclose, ClosesInTime, links, device, work, record
  <2>6. CASE \E ok \in BOOLEAN : Ensure(ok)
    BY <2>6 DEF Ensure, OpenOnce, CanOpen, Link, First, Missed, NextAttempt,
           Go, Release, Usable, Sends, Edits, Holders, links, device, work,
           record
  <2>7. CASE \E ok \in BOOLEAN : Reopen(ok)
    BY <2>7 DEF Reopen, OpenOnce, CanOpen, Link, AfterReset, First,
           NextAttempt, Go, Release, Sends, Edits, Holders, links, device,
           work, record
  <2>8. CASE Scope
    BY <2>8 DEF Scope, ScopeRefused, Correct, Live, NextAttempt, Reset, Go,
           Release, Sends, links, device, work, record
  <2>9. CASE Sent
    BY <2>9 DEF Sent, Airs, Live, Release, links, device, work, record
  <2>10. CASE \E c \in Categories : Unsent(c)
    BY <2>10 DEF Unsent, Airs, Correct, Live, NextAttempt, Reset, Release,
           Categories, links, device, work, record
  <2>11. CASE Broken
    BY <2>11 DEF Broken, Correct, Reset, links, device, work, record
  <2>12. CASE Query
    BY <2>12 DEF Query, Go, Release, links, device, work, record
  <2>13. CASE Command
    BY <2>13 DEF Command, EditLinkFails, RetrySafe, Reset, Go, Release, Edits,
           links, device, work, record
  <2>14. CASE Readback
    BY <2>14 DEF Readback, Verified, Reports, Go, Release, Edits, links,
           device, work, record
  <2>15. CASE Refresh
    BY <2>15 DEF Refresh, Reports, Release, Edits, links, device, work, record
  <2>16. CASE EditBroken
    BY <2>16 DEF EditBroken, EditLinkFails, RetrySafe, Reset, Release, Edits,
           links, device, work, record
  <2>17. CASE Inspect
    BY <2>17 DEF Inspect, Reports, Release, Edits, links, device, work, record
  <2>18. CASE InspectBroken
    BY <2>18 DEF InspectBroken, Reset, Release, links, device, work, record
  <2>19. CASE Probe
    BY <2>19 DEF Probe, Freed, Link, Go, links, device, work, record
  <2>20. CASE Unprobe
    BY <2>20 DEF Unprobe, Go, links, device, work, record
  <2>21. CASE \E c \in Configs : Rebuild(c)
    BY <2>21 DEF Rebuild, Dropped, Go, links, device, work, record
  <2>22. CASE Drop
    BY <2>22 DEF Drop, Fault, Live, links, device, work, record
  <2>23. CASE Wedge
    BY <2>23 DEF Wedge, Fault, links, device, work, record
  <2>24. CASE Recover
    BY <2>24 DEF Recover, links, device, work, record
  <2>25. CASE WedgeEnds
    BY <2>25 DEF WedgeEnds, links, device, work, record
  <2>26. CASE UNCHANGED vars
    BY <2>26 DEF vars, links, device, work, record
  <2> QED
    BY <2>1, <2>2, <2>3, <2>4, <2>5, <2>6, <2>7, <2>8, <2>9, <2>10, <2>11,
       <2>12, <2>13, <2>14, <2>15, <2>16, <2>17, <2>18, <2>19, <2>20, <2>21,
       <2>22, <2>23, <2>24, <2>25, <2>26 DEF Next, HolderStep

LEMMA AirStep == TypeInv /\ AirInv /\ [Next]_vars => AirInv'
<1> SUFFICES ASSUME TypeInv /\ AirInv, [Next]_vars
             PROVE  AirInv'
  OBVIOUS
<1> USE LinkAssumption DEF AirInv, ScopeIsSet, ScopeKept, TypeInv, TypeOK,
           LinkTypes, LinkType, LinkStates, NoLink, None
<1>1. QED
  <2>1. CASE \E h \in Holders : Begin(h)
    BY <2>1 DEF Begin, Release, Sends, Edits, Holders, links, device, work,
           record
  <2>2. CASE UseLink
    BY <2>2 DEF UseLink, First, Go, Release, Stale, Usable, Sends, Edits,
           Holders, links, device, work, record
  <2>3. CASE FindStale
    BY <2>3 DEF FindStale, Stale, Reset, Edits, links, device, work, record
  <2>4. CASE NoTarget
    BY <2>4 DEF NoTarget, Missed, NextAttempt, Release, Sends, links, device,
           work, record
  <2>5. CASE Reclose
    BY <2>5 DEF Reclose, ClosesInTime, links, device, work, record
  <2>6. CASE \E ok \in BOOLEAN : Ensure(ok)
    BY <2>6 DEF Ensure, OpenOnce, CanOpen, Link, First, Missed, NextAttempt,
           Go, Release, Usable, Sends, Edits, Holders, links, device, work,
           record
  <2>7. CASE \E ok \in BOOLEAN : Reopen(ok)
    BY <2>7 DEF Reopen, OpenOnce, CanOpen, Link, AfterReset, First,
           NextAttempt, Go, Release, Sends, Edits, Holders, links, device,
           work, record
  <2>8. CASE Scope
    BY <2>8 DEF Scope, ScopeRefused, Correct, Live, NextAttempt, Reset, Go,
           Release, Sends, links, device, work, record
  <2>9. CASE Sent
    BY <2>9 DEF Sent, Airs, Live, Release, links, device, work, record
  <2>10. CASE \E c \in Categories : Unsent(c)
    BY <2>10 DEF Unsent, Airs, Correct, Live, NextAttempt, Reset, Release,
           Categories, links, device, work, record
  <2>11. CASE Broken
    BY <2>11 DEF Broken, Correct, Reset, links, device, work, record
  <2>12. CASE Query
    BY <2>12 DEF Query, Go, Release, links, device, work, record
  <2>13. CASE Command
    BY <2>13 DEF Command, EditLinkFails, RetrySafe, Reset, Go, Release, Edits,
           links, device, work, record
  <2>14. CASE Readback
    BY <2>14 DEF Readback, Verified, Reports, Go, Release, Edits, links,
           device, work, record
  <2>15. CASE Refresh
    BY <2>15 DEF Refresh, Reports, Release, Edits, links, device, work, record
  <2>16. CASE EditBroken
    BY <2>16 DEF EditBroken, EditLinkFails, RetrySafe, Reset, Release, Edits,
           links, device, work, record
  <2>17. CASE Inspect
    BY <2>17 DEF Inspect, Reports, Release, Edits, links, device, work, record
  <2>18. CASE InspectBroken
    BY <2>18 DEF InspectBroken, Reset, Release, links, device, work, record
  <2>19. CASE Probe
    BY <2>19 DEF Probe, Freed, Link, Go, links, device, work, record
  <2>20. CASE Unprobe
    BY <2>20 DEF Unprobe, Go, links, device, work, record
  <2>21. CASE \E c \in Configs : Rebuild(c)
    BY <2>21 DEF Rebuild, Dropped, Go, links, device, work, record
  <2>22. CASE Drop
    <3>1. UNCHANGED <<config, stage, last>>
      BY <2>22 DEF Drop, work
    <3>2. (flood' = flood /\ reset' = reset) \/ stage # "text" \/ reset'
      BY <2>22 DEF Drop
    <3> QED
      BY <3>1, <3>2
  <2>23. CASE Wedge
    BY <2>23 DEF Wedge, Fault, links, device, work, record
  <2>24. CASE Recover
    BY <2>24 DEF Recover, links, device, work, record
  <2>25. CASE WedgeEnds
    BY <2>25 DEF WedgeEnds, links, device, work, record
  <2>26. CASE UNCHANGED vars
    BY <2>26 DEF vars, links, device, work, record
  <2> QED
    BY <2>1, <2>2, <2>3, <2>4, <2>5, <2>6, <2>7, <2>8, <2>9, <2>10, <2>11,
       <2>12, <2>13, <2>14, <2>15, <2>16, <2>17, <2>18, <2>19, <2>20, <2>21,
       <2>22, <2>23, <2>24, <2>25, <2>26 DEF Next, HolderStep

LEMMA EditStep == TypeInv /\ EditInv /\ [Next]_vars => EditInv'
<1> SUFFICES ASSUME TypeInv /\ EditInv, [Next]_vars
             PROVE  EditInv'
  OBVIOUS
<1> USE LinkAssumption DEF EditInv, CommandedOnce, CommandIsLast,
           EditIsTruthful, ReportIsLast, TypeInv, TypeOK, LinkTypes,
           WorkTypes, RecordTypes, StagesFit, EditStages, Stages, Holders,
           Sends, Edits, None
<1>1. QED
  <2>1. CASE \E h \in Holders : Begin(h)
    BY <2>1 DEF Begin, Release, Sends, Edits, Holders, links, device, work,
           record
  <2>2. CASE UseLink
    BY <2>2 DEF UseLink, First, Go, Release, Stale, Usable, Sends, Edits,
           Holders, links, device, work, record
  <2>3. CASE FindStale
    BY <2>3 DEF FindStale, Stale, Reset, Edits, links, device, work, record
  <2>4. CASE NoTarget
    BY <2>4 DEF NoTarget, Missed, NextAttempt, Release, Sends, links, device,
           work, record
  <2>5. CASE Reclose
    BY <2>5 DEF Reclose, ClosesInTime, links, device, work, record
  <2>6. CASE \E ok \in BOOLEAN : Ensure(ok)
    BY <2>6 DEF Ensure, OpenOnce, CanOpen, Link, First, Missed, NextAttempt,
           Go, Release, Usable, Sends, Edits, Holders, links, device, work,
           record
  <2>7. CASE \E ok \in BOOLEAN : Reopen(ok)
    BY <2>7 DEF Reopen, OpenOnce, CanOpen, Link, AfterReset, First,
           NextAttempt, Go, Release, Sends, Edits, Holders, links, device,
           work, record
  <2>8. CASE Scope
    BY <2>8 DEF Scope, ScopeRefused, Correct, Live, NextAttempt, Reset, Go,
           Release, Sends, links, device, work, record
  <2>9. CASE Sent
    BY <2>9 DEF Sent, Airs, Live, Release, links, device, work, record
  <2>10. CASE \E c \in Categories : Unsent(c)
    BY <2>10 DEF Unsent, Airs, Correct, Live, NextAttempt, Reset, Release,
           Categories, links, device, work, record
  <2>11. CASE Broken
    BY <2>11 DEF Broken, Correct, Reset, links, device, work, record
  <2>12. CASE Query
    BY <2>12 DEF Query, Go, Release, links, device, work, record
  <2>13. CASE Command
    BY <2>13 DEF Command, EditLinkFails, RetrySafe, Reset, Go, Release, Edits,
           links, device, work, record
  <2>14. CASE Readback
    BY <2>14 DEF Readback, Verified, Reports, Go, Release, Edits, links,
           device, work, record
  <2>15. CASE Refresh
    BY <2>15 DEF Refresh, Reports, Release, Edits, links, device, work, record
  <2>16. CASE EditBroken
    BY <2>16 DEF EditBroken, EditLinkFails, RetrySafe, Reset, Release, Edits,
           links, device, work, record
  <2>17. CASE Inspect
    BY <2>17 DEF Inspect, Reports, Release, Edits, links, device, work, record
  <2>18. CASE InspectBroken
    BY <2>18 DEF InspectBroken, Reset, Release, links, device, work, record
  <2>19. CASE Probe
    BY <2>19 DEF Probe, Freed, Link, Go, links, device, work, record
  <2>20. CASE Unprobe
    BY <2>20 DEF Unprobe, Go, links, device, work, record
  <2>21. CASE \E c \in Configs : Rebuild(c)
    BY <2>21 DEF Rebuild, Dropped, Go, links, device, work, record
  <2>22. CASE Drop
    BY <2>22 DEF Drop, Fault, Live, links, device, work, record
  <2>23. CASE Wedge
    BY <2>23 DEF Wedge, Fault, links, device, work, record
  <2>24. CASE Recover
    BY <2>24 DEF Recover, links, device, work, record
  <2>25. CASE WedgeEnds
    BY <2>25 DEF WedgeEnds, links, device, work, record
  <2>26. CASE UNCHANGED vars
    BY <2>26 DEF vars, links, device, work, record
  <2> QED
    BY <2>1, <2>2, <2>3, <2>4, <2>5, <2>6, <2>7, <2>8, <2>9, <2>10, <2>11,
       <2>12, <2>13, <2>14, <2>15, <2>16, <2>17, <2>18, <2>19, <2>20, <2>21,
       <2>22, <2>23, <2>24, <2>25, <2>26 DEF Next, HolderStep

----------------------------------------------------------------------------
(* The theorems.                                                           *)

\* All of the inductive invariants hold at the start.
LEMMA AtStart == Init => TypeInv /\ LinkInv /\ AirInv /\ EditInv
<1> SUFFICES ASSUME Init
             PROVE  TypeInv /\ LinkInv /\ AirInv /\ EditInv
  OBVIOUS
<1>1. TypeInv
  <2>1. LinkTypes
    <3>1. config \in Configs /\ faults \in 0..MaxFaults
      BY LinkAssumption DEF Init
    <3>2. tx \in LinkType /\ probe \in LinkType
      BY DEF Init, LinkType
    <3>3. connected \in BOOLEAN
      BY DEF Init
    <3>4. leaked \in Nat /\ hung \in Nat
      BY DEF Init
    <3>5. flood \in {"unscoped", "scoped"} /\ {slot, cache} \subseteq Edits
      BY DEF Init, Edits
    <3> QED
      BY <3>1, <3>2, <3>3, <3>4, <3>5 DEF LinkTypes
  <2>2. WorkTypes
    BY DEF Init, WorkTypes, Stages, None, Holders, Sends, Edits
  <2>3. RecordTypes
    BY DEF Init, RecordTypes
  <2>4. StagesFit
    BY DEF Init, StagesFit, EditStages, None
  <2> QED
    BY <2>1, <2>2, <2>3, <2>4 DEF TypeInv, TypeOK
<1>2. LinkInv
  BY DEF Init, LinkInv, LinkIsCurrent, NoObsoleteLink, LinkIsHeld
<1>3. AirInv
  BY DEF Init, AirInv, ScopeIsSet, ScopeKept
<1>4. EditInv
  BY DEF Init, EditInv, CommandedOnce, CommandIsLast, EditIsTruthful, ReportIsLast
<1> QED
  BY <1>1, <1>2, <1>3, <1>4

\* Every variable of a radio keeps its type, for any settings and any number
\* of faults.
THEOREM LinkTypeCorrect == Spec => []TypeOK
<1>1. Init => TypeInv
  BY AtStart
<1>2. TypeInv => TypeOK
  BY DEF TypeInv
<1> QED
  BY <1>1, <1>2, TypeStep, PTL DEF Spec

LEMMA TypeAlways == Spec => []TypeInv
<1>1. Init => TypeInv
  BY AtStart
<1> QED
  BY <1>1, TypeStep, PTL DEF Spec

\* No payload goes through a link of other settings than those in force,
\* retries included (reconfigure).
THEOREM NoLinkCrosses == Spec => []NoObsoleteLink
<1>1. Init => LinkInv
  BY AtStart
<1>2. LinkInv => NoObsoleteLink
  BY DEF LinkInv
<1> QED
  BY <1>1, <1>2, LinkStep, TypeAlways, PTL DEF Spec

\* No second link is opened over one that is held, by a reset, a reconnection
\* or a probe, unless an inspection gave its link up (load_channels).
THEOREM OneLinkAlways == Spec => []OneLink
<1>1. Init => LinkInv
  BY AtStart
<1>2. LinkInv => OneLink
  BY DEF LinkInv, LinkIsHeld, OneLink
<1> QED
  BY <1>1, <1>2, LinkStep, TypeAlways, PTL DEF Spec

\* With a required flood scope nothing is flooded outside it, whatever fails
\* and is retried (_apply_flood_scope).
THEOREM ScopeAlwaysKept == Spec => []ScopeKept
<1>1. Init => AirInv
  BY AtStart
<1>2. AirInv => ScopeKept
  BY DEF AirInv
<1> QED
  BY <1>1, <1>2, AirStep, TypeAlways, PTL DEF Spec

\* An edit sends its command at most once (set_channel, clear_channel).
THEOREM EditsOnce == Spec => []CommandedOnce
<1>1. Init => EditInv
  BY AtStart
<1>2. EditInv => CommandedOnce
  BY DEF EditInv
<1> QED
  BY <1>1, <1>2, EditStep, TypeAlways, PTL DEF Spec

\* What an edit or an inspection reports is the companion's state
\* (set_channel, clear_channel).
THEOREM ReportsAreTrue == Spec => []EditIsTruthful
<1>1. Init => EditInv
  BY AtStart
<1>2. EditInv => EditIsTruthful
  BY DEF EditInv
<1> QED
  BY <1>1, <1>2, EditStep, TypeAlways, PTL DEF Spec
=============================================================================
