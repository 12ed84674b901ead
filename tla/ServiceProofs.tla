--------------------------- MODULE ServiceProofs ---------------------------
(***************************************************************************)
(* Proofs about Service, for any processes of the NWWS, any memory of the  *)
(* tracker, any bound and whichever receiver is enabled: a shutdown leaves *)
(* nothing behind, the receiver stays off while it is hot, no program of a *)
(* cycle outlives it without a SIGKILL, and no product of the wire is      *)
(* passed on twice.                                                        *)
(*                                                                         *)
(* A step of Service is a step of one receiver, or leaves both alone, so   *)
(* what concerns one receiver is proved about its own steps.               *)
(***************************************************************************)
EXTENDS Service, TLAPS, SequenceTheorems, FiniteSetTheorems

\* What a step of Service may be for each receiver.
SdrNext ==
  \/ SdrStart /\ stage = "ended" /\ ~cut
  \/ SdrCancel \/ SdrStep \/ SdrEnvironment \/ UNCHANGED sdrVars
NwwsNext == NwwsStart \/ NwwsStop \/ NwwsStep \/ NwwsEnvironment \/ UNCHANGED nwwsVars

\* Before the boot no receiver has run.
BootInv == phase = "boot" => stage = "ended" /\ ~cut
----------------------------------------------------------------------------
(* The radio receiver.                                                     *)

Idle == {"hold", "spawn rtl_fm", "backoff", "ended"}

\* The supervisor holds the programs of the cycle it is in.
HeldPrograms ==
  CASE stage = "spawn multimon-ng" -> <<"rtl_fm">>
    [] stage = "running"           -> <<"rtl_fm", "multimon-ng">>
    [] OTHER                       -> <<>>

Victims == {<<>>, <<"rtl_fm">>, <<"multimon-ng">>, <<"rtl_fm", "multimon-ng">>}

\* What runs and got no SIGKILL is held, or waited for, unless the wait was
\* cut short; then the receiver has ended.
ReapInv ==
  /\ stage \in Idle \cup {"spawn multimon-ng", "running", "stopping"}
  /\ processes = HeldPrograms /\ victims \in Victims
  /\ stage # "stopping" => victims = <<>>
  /\ cut \in BOOLEAN /\ (cut => stage = "ended")
  /\ ~cut => alive \subseteq ToSet(processes) \cup ToSet(victims)
  /\ stage = "stopping" /\ killed => Head(victims) \notin alive

\* The latch remembers the heat until a reading below restart.
HeatInv ==
  /\ hot \in BOOLEAN /\ latched \in BOOLEAN
  /\ hot => latched
  /\ LatchHolds
----------------------------------------------------------------------------
(* The order of the shutdown: the phases past each wait.                   *)

PastWorker      == {"radios", "closed"}
PastDrain       == {"worker"} \cup PastWorker
PastIpaws       == {"drain"} \cup PastDrain
PastNwws        == {"ipaws"} \cup PastIpaws
PastArbitration == {"nwws"} \cup PastNwws
PastNoaa        == {"arbitration"} \cup PastArbitration

\* What a wait of the shutdown found gone stays gone: nothing starts it
\* again, and after the last look of drain no send can fail any more.
StopInv ==
  /\ tasks \subseteq {"worker", "startup", "ipaws", "arbitration"}
  /\ phase \in PastNoaa => stage = "ended"
  /\ phase \in PastArbitration => "arbitration" \notin tasks
  /\ phase \in PastNwws => (NwwsStopped /\ poll = "none")
  /\ phase \in PastIpaws => "ipaws" \notin tasks
  /\ phase \in PastDrain => (fallbacks = 0 /\ "worker" \in cancelled)
  /\ phase \in PastWorker => "worker" \notin tasks
----------------------------------------------------------------------------
(* The products of the wire.                                               *)

\* The products of process p in s.
Spoke(s, p) == {i \in DOMAIN s : s[i].process = p}

\* The processes that took over since product i.
Since(i) == Between(i, Len(passed))

\* The process that spoke last is not among those that gave way, and each of
\* them is remembered once.
MemoryInv ==
  /\ passed \in Seq(Products) /\ inbox \in Seq(Stanzas)
  /\ tracker.retired \in Seq(Processes) /\ Len(tracker.retired) <= MaxRetired
  /\ \A k, l \in DOMAIN tracker.retired :
       tracker.retired[k] = tracker.retired[l] => k = l
  /\ tracker.process \notin ToSet(tracker.retired)
  /\ (passed = <<>>) => (tracker = Untracked)
  /\ (passed # <<>>) =>
       /\ tracker.process = passed[Len(passed)].process
       /\ tracker.last = passed[Len(passed)].seq

\* A process that is remembered spoke before those that gave way after it.
RetiredInOrder ==
  \A k, l \in DOMAIN tracker.retired : k < l =>
    \A i \in Spoke(passed, tracker.retired[k]) :
      \E j \in Spoke(passed, tracker.retired[l]) : i < j

\* A process that is not remembered, and is not the one speaking, gave way
\* to more processes than the tracker can remember.
Forgotten ==
  \A i \in DOMAIN passed :
    \/ passed[i].process = tracker.process
    \/ passed[i].process \in ToSet(tracker.retired)
    \/ Cardinality(Since(i)) > MaxRetired

ReplayInv == MemoryInv /\ RetiredInOrder /\ Forgotten /\ NoReplay
----------------------------------------------------------------------------
(* Every step is a step of each receiver.                                  *)

LEMMA ReceiverSteps ==
  BootInv /\ [Next]_vars => SdrNext /\ NwwsNext
<1> SUFFICES ASSUME BootInv, [Next]_vars
             PROVE  SdrNext /\ NwwsNext
  OBVIOUS
<1> USE DEF SdrNext, NwwsNext
<1>1. CASE Boot
  BY <1>1 DEF Boot, BootInv
<1>2. CASE FallbackBegins \/ FallbackEnds \/ \E t \in tasks : TaskEnds(t)
  BY <1>2 DEF FallbackBegins, FallbackEnds, TaskEnds
<1>3. CASE Nwws
  BY <1>3 DEF Nwws
<1>4. CASE Noaa
  BY <1>4 DEF Noaa
<1>5. CASE Polling
  BY <1>5 DEF Polling
<1>6. CASE Shutdown
  BY <1>6 DEF Shutdown
<1>7. CASE ShutdownStep \/ RadiosAreClosed
  BY <1>7 DEF ShutdownStep, RadiosAreClosed, NoaaIsDown, ArbitrationIsDown, NwwsIsDown,
              IpawsIsDown, DrainIsDone, WorkerIsDown
<1>8. CASE Stall \/ Unblock \/ Watchdog
  BY <1>8 DEF Stall, Unblock, Watchdog
<1>9. CASE UNCHANGED vars
  BY <1>9 DEF vars
<1> QED
  BY <1>1, <1>2, <1>3, <1>4, <1>5, <1>6, <1>7, <1>8, <1>9 DEF Next

\* A receiver that has ended is not started again.
LEMMA EndedStays ==
  ASSUME stage = "ended", SdrStep \/ SdrEnvironment
  PROVE  stage' = "ended" /\ cut' = cut
  BY DEF SdrStep, SdrEnvironment, Reaped, WaitIsOver, AllStopped, BackoffOver, Hold, SpawnRtl,
         SpawnDecoder, CycleFails, TooHot, Exits

\* Whatever does not touch the receiver leaves its stage.
LEMMA SdrAlone == UNCHANGED sdrVars => stage' = stage /\ cut' = cut
  BY DEF sdrVars

LEMMA BootStep == BootInv /\ [Next]_vars => BootInv'
<1> SUFFICES ASSUME BootInv, [Next]_vars, phase' = "boot"
             PROVE  stage' = "ended" /\ ~cut'
  BY DEF BootInv
<1>1. CASE Boot \/ Shutdown \/ ShutdownStep \/ RadiosAreClosed \/ Watchdog
  BY <1>1 DEF Boot, Shutdown, ShutdownStep, RadiosAreClosed, NoaaIsDown, ArbitrationIsDown,
              NwwsIsDown, IpawsIsDown, DrainIsDone, WorkerIsDown, Awaits, Watchdog
<1>2. CASE Noaa
  BY <1>2, EndedStays DEF Noaa, BootInv
<1>3. CASE \/ FallbackBegins \/ FallbackEnds \/ Nwws \/ Polling
           \/ \E t \in tasks : TaskEnds(t)
           \/ Stall \/ Unblock \/ UNCHANGED vars
  BY <1>3, SdrAlone DEF BootInv, FallbackBegins, FallbackEnds, TaskEnds, Nwws, Polling, Stall,
                        Unblock, vars
<1> QED
  BY <1>1, <1>2, <1>3 DEF Next
----------------------------------------------------------------------------
(* The radio receiver.                                                     *)

LEMMA HeatStep == HeatInv /\ SdrNext => HeatInv'
<1> SUFFICES ASSUME HeatInv, SdrNext
             PROVE  HeatInv'
  OBVIOUS
<1>1. ASSUME UNCHANGED <<hot, latched>>,
             stage' \in {"running", "spawn multimon-ng"} =>
               stage \in {"running", "spawn multimon-ng", "spawn rtl_fm"},
             stage' = "spawn rtl_fm" => stage = "spawn rtl_fm"
      PROVE  HeatInv'
  BY <1>1 DEF HeatInv, LatchHolds
<1>2. CASE SdrStart
  BY <1>1, <1>2 DEF SdrStart
<1>3. CASE SdrCancel
  BY <1>1, <1>3 DEF SdrCancel, StopProcesses
<1>4. CASE Reaped \/ WaitIsOver \/ AllStopped \/ BackoffOver
  <2>1. AfterCycle \in {"ended", "backoff"}
    BY DEF AfterCycle
  <2> QED
    BY <1>1, <1>4, <2>1 DEF Reaped, WaitIsOver, AllStopped, BackoffOver
<1>5. CASE \E reading \in Readings : Hold(reading)
  <2> PICK reading \in Readings : Hold(reading)
    BY <1>5
  <2>1. hot => reading = "cool"
    BY DEF HeatInv, Hold, Cleared
  <2>2. ~hot' /\ hot' \in BOOLEAN
    BY <2>1 DEF HeatInv, Hold
  <2>3. latched' \in BOOLEAN
    BY DEF Hold
  <2> QED
    BY <2>2, <2>3 DEF HeatInv, LatchHolds
<1>6. CASE \E ok \in BOOLEAN : SpawnRtl(ok) \/ SpawnDecoder(ok)
  BY <1>1, <1>6 DEF SpawnRtl, SpawnDecoder, StopProcesses
<1>7. CASE CycleFails \/ \E p \in Programs : Exits(p)
  BY <1>1, <1>7 DEF CycleFails, Exits, StopProcesses
<1>8. CASE TooHot
  <2>1. hot' = TRUE /\ latched' = TRUE /\ stage' = "stopping"
    BY <1>8 DEF TooHot, StopProcesses
  <2> QED
    BY <2>1 DEF HeatInv, LatchHolds
<1>9. CASE UNCHANGED sdrVars
  BY <1>1, <1>9 DEF sdrVars
<1> QED
  BY <1>2, <1>3, <1>4, <1>5, <1>6, <1>7, <1>8, <1>9 DEF SdrNext, SdrStep, SdrEnvironment

\* The victims there can be, and who is left when the first is gone.
LEMMA VictimSets ==
  /\ ToSet(<<>>) = {}
  /\ \A p : ToSet(<<p>>) = {p}
  /\ \A p, q : ToSet(<<p, q>>) = {p, q}
  BY DEF ToSet

LEMMA VictimTail ==
  ASSUME NEW v \in Victims, v # <<>>
  PROVE  /\ Tail(v) \in Victims
         /\ ToSet(v) = {Head(v)} \cup ToSet(Tail(v))
<1>1. CASE v = <<"rtl_fm">> \/ v = <<"multimon-ng">>
  <2>1. PICK p : v = <<p>>
    BY <1>1
  <2>2. Tail(v) = <<>> /\ Head(v) = p
    BY <2>1
  <2> QED
    BY <2>1, <2>2, VictimSets DEF Victims
<1>2. CASE v = <<"rtl_fm", "multimon-ng">>
  <2>1. Tail(v) = <<"multimon-ng">> /\ Head(v) = "rtl_fm"
    BY <1>2
  <2> QED
    BY <1>2, <2>1, VictimSets DEF Victims
<1> QED
  BY <1>1, <1>2 DEF Victims

LEMMA HeldAreVictims == HeldPrograms \in Victims
  BY DEF HeldPrograms, Victims

\* _stop_processes waits for what the cycle held.
LEMMA StopReaps ==
  ASSUME ReapInv, StopProcesses, cut' = cut, stage \in {"spawn multimon-ng", "running"}
  PROVE  ReapInv'
<1>1. ~cut /\ victims = <<>> /\ ToSet(victims) = {} /\ alive \subseteq ToSet(processes)
  BY VictimSets DEF ReapInv, Idle
<1>2. /\ stage' = "stopping" /\ processes' = <<>> /\ victims' = processes
      /\ alive' = alive /\ ~cut' /\ ~killed'
  BY <1>1 DEF StopProcesses
<1>3. processes' = HeldPrograms'
  BY <1>2 DEF HeldPrograms
<1>4. victims' \in Victims
  BY <1>2, HeldAreVictims DEF ReapInv
<1>5. alive' \subseteq ToSet(processes)' \cup ToSet(victims)'
  BY <1>1, <1>2, VictimSets
<1> QED
  BY <1>1, <1>2, <1>3, <1>4, <1>5 DEF ReapInv, Idle

LEMMA ShortAppends ==
  /\ \A p : Append(<<>>, p) = <<p>>
  /\ \A p, q : Append(<<p>>, q) = <<p, q>>
<1> SUFFICES ASSUME NEW p, NEW q
             PROVE  Append(<<>>, p) = <<p>> /\ Append(<<p>>, q) = <<p, q>>
  OBVIOUS
<1>1. /\ <<>> \in Seq({p, q}) /\ <<p>> \in Seq({p, q}) /\ <<p, q>> \in Seq({p, q})
      /\ p \in {p, q} /\ q \in {p, q}
  OBVIOUS
<1>2. Append(<<>>, p) = <<p>>
  <2>1. /\ Append(<<>>, p) \in Seq({p, q}) /\ Len(Append(<<>>, p)) = 1
        /\ Append(<<>>, p)[1] = p
    BY <1>1, AppendProperties
  <2> QED
    BY <1>1, <2>1, SeqEqual
<1>3. Append(<<p>>, q) = <<p, q>>
  <2>1. /\ Append(<<p>>, q) \in Seq({p, q}) /\ Len(Append(<<p>>, q)) = 2
        /\ Append(<<p>>, q)[1] = p /\ Append(<<p>>, q)[2] = q
    BY <1>1, AppendProperties
  <2>2. \A i \in 1..2 : i = 1 \/ i = 2
    OBVIOUS
  <2>3. Len(<<p, q>>) = 2 /\ \A i \in 1..2 : Append(<<p>>, q)[i] = <<p, q>>[i]
    BY <2>1, <2>2
  <2> QED
    BY <1>1, <2>1, <2>3, SeqEqual
<1> QED
  BY <1>2, <1>3

\* Between two cycles nothing is held and nothing waited for.
LEMMA IdleNow ==
  ASSUME ReapInv, stage \in Idle
  PROVE  processes = <<>> /\ victims = <<>> /\ (~cut => alive = {})
  BY VictimSets DEF ReapInv, HeldPrograms, Idle

LEMMA IdleThen ==
  ASSUME stage' \in Idle, processes' = <<>>, victims' = <<>>, cut' \in BOOLEAN,
         cut' => stage' = "ended", ~cut' => alive' = {}
  PROVE  ReapInv'
<1>1. processes' = HeldPrograms'
  BY DEF HeldPrograms, Idle
<1>2. victims' \in Victims
  BY DEF Victims
<1> QED
  BY <1>1, <1>2 DEF ReapInv

\* Programs that exit of themselves do no harm.
LEMMA FewerAlive ==
  ASSUME ReapInv, UNCHANGED <<stage, processes, victims, killed, cut>>,
         alive' \subseteq alive
  PROVE  ReapInv'
<1>1. HeldPrograms' = HeldPrograms
  BY DEF HeldPrograms
<1> QED
  BY <1>1 DEF ReapInv

LEMMA ReapStep == ReapInv /\ SdrNext => ReapInv'
<1> SUFFICES ASSUME ReapInv, SdrNext
             PROVE  ReapInv'
  OBVIOUS
<1>0. cut \in BOOLEAN
  BY DEF ReapInv
<1>1. CASE SdrStart /\ stage = "ended" /\ ~cut
  BY <1>0, <1>1, IdleNow, IdleThen DEF SdrStart, Idle
<1>2. CASE SdrCancel
  <2>1. CASE StopProcesses /\ UNCHANGED cut /\ stage \in {"spawn multimon-ng", "running"}
    BY <2>1, StopReaps
  <2>2. CASE /\ stage \in Idle /\ stage' = "ended"
             /\ UNCHANGED <<processes, victims, killed, alive, struck, cut>>
    BY <1>0, <2>2, IdleNow, IdleThen DEF Idle
  <2>3. CASE /\ stage = "stopping" /\ stage' = "ended"
             /\ victims' = <<>> /\ cut' = TRUE
             /\ UNCHANGED <<processes, killed, alive, struck>>
    <3>1. processes' = <<>>
      BY <2>3 DEF ReapInv, HeldPrograms
    <3> QED
      BY <2>3, <3>1, IdleThen DEF Idle
  <2> QED
    BY <1>2, <2>1, <2>2, <2>3 DEF SdrCancel, Idle
<1>3. CASE Reaped \/ WaitIsOver
  <2>1. /\ stage' = stage /\ stage = "stopping" /\ victims # <<>>
        /\ processes' = processes /\ cut' = cut
    BY <1>3 DEF Reaped, WaitIsOver
  <2>2. processes' = HeldPrograms' /\ ToSet(processes) = {} /\ ToSet(processes)' = {}
    BY <2>1, VictimSets DEF ReapInv, HeldPrograms
  <2>3. /\ Tail(victims) \in Victims
        /\ ToSet(victims) = {Head(victims)} \cup ToSet(Tail(victims))
    BY <2>1, VictimTail DEF ReapInv
  <2>4. \/ victims' = victims /\ alive' = alive \ {Head(victims)} /\ killed'
        \/ /\ victims' = Tail(victims) /\ alive' = alive /\ ~killed'
           /\ Head(victims) \notin alive
    BY <1>3, <2>1 DEF Reaped, WaitIsOver, FirstTimeout, SecondTimeout, VictimRuns, ReapInv
  <2>5. victims' \in Victims
    BY <2>3, <2>4 DEF ReapInv
  <2>6. ~cut => alive \subseteq ToSet(victims)
    BY <2>2 DEF ReapInv
  <2>7. ASSUME ~cut
        PROVE  alive' \subseteq ToSet(victims')
    <3>1. CASE victims' = victims /\ alive' \subseteq alive
      BY <2>6, <2>7, <3>1
    <3>2. CASE victims' = Tail(victims) /\ alive' \subseteq alive \ {Head(victims)}
      <4>1. alive \ {Head(victims)} \subseteq ToSet(Tail(victims))
        BY <2>3, <2>6, <2>7
      <4> QED
        BY <3>2, <4>1
    <3> QED
      BY <2>4, <3>1, <3>2
  <2>8. killed' => Head(victims)' \notin alive'
    BY <2>4
  <2> QED
    BY <1>0, <2>1, <2>2, <2>5, <2>7, <2>8 DEF ReapInv, Idle
<1>4. CASE AllStopped
  <2>1. AfterCycle \in {"ended", "backoff"}
    BY DEF AfterCycle
  <2>2. processes = <<>> /\ victims = <<>> /\ (~cut => alive = {}) /\ ~cut
    BY <1>4, VictimSets DEF AllStopped, ReapInv, HeldPrograms
  <2> QED
    BY <1>0, <1>4, <2>1, <2>2, IdleThen DEF AllStopped, Idle
<1>5. CASE BackoffOver \/ \E reading \in Readings : Hold(reading)
  <2>1. /\ stage \in Idle \ {"ended"} /\ stage' \in Idle
        /\ UNCHANGED <<processes, victims, alive, cut>>
    BY <1>5 DEF BackoffOver, Hold, Idle
  <2>2. ~cut
    BY <2>1 DEF ReapInv
  <2> QED
    BY <1>0, <2>1, <2>2, IdleNow, IdleThen
<1>6. CASE \E ok \in BOOLEAN : SpawnRtl(ok)
  <2> PICK ok \in BOOLEAN : SpawnRtl(ok)
    BY <1>6
  <2>1. stage \in Idle /\ ~cut
    BY DEF ReapInv, Idle, SpawnRtl
  <2>2. processes = <<>> /\ victims' = <<>> /\ alive = {} /\ cut' = cut /\ ~cut'
    BY <2>1, IdleNow DEF SpawnRtl
  <2>3. CASE ok
    <3>1. stage' = "spawn multimon-ng" /\ alive' = {"rtl_fm"}
      BY <2>2, <2>3 DEF SpawnRtl
    <3>2. processes' = <<"rtl_fm">>
      BY <2>2, <2>3, ShortAppends DEF SpawnRtl
    <3>3. processes' = HeldPrograms'
      BY <3>1, <3>2 DEF HeldPrograms
    <3>4. alive' \subseteq ToSet(processes')
      BY <3>1, <3>2, VictimSets
    <3>5. victims' \in Victims
      BY <2>2 DEF Victims
    <3> QED
      BY <1>0, <2>2, <3>1, <3>3, <3>4, <3>5 DEF ReapInv
  <2>4. CASE ~ok
    <3>1. stage' = "backoff" /\ UNCHANGED <<alive, processes>>
      BY <2>4 DEF SpawnRtl
    <3> QED
      BY <1>0, <2>2, <3>1, IdleThen DEF Idle
  <2> QED
    BY <2>3, <2>4
<1>7. CASE \E ok \in BOOLEAN : SpawnDecoder(ok)
  <2> PICK ok \in BOOLEAN : SpawnDecoder(ok)
    BY <1>7
  <2>1. CASE ok
    <3>1. stage = "spawn multimon-ng" /\ processes = <<"rtl_fm">>
      BY DEF ReapInv, HeldPrograms, SpawnDecoder
    <3>2. ~cut /\ victims = <<>> /\ alive \subseteq {"rtl_fm"}
      BY <3>1, VictimSets DEF ReapInv
    <3>3. /\ stage' = "running" /\ alive' = alive \cup {"multimon-ng"}
          /\ victims' = <<>> /\ cut' = cut
      BY <2>1, <3>2 DEF SpawnDecoder
    <3>4. processes' = <<"rtl_fm", "multimon-ng">>
      BY <2>1, <3>1, ShortAppends DEF SpawnDecoder
    <3>5. processes' = HeldPrograms'
      BY <3>3, <3>4 DEF HeldPrograms
    <3>6. alive' \subseteq ToSet(processes')
      BY <3>2, <3>3, <3>4, VictimSets
    <3>7. victims' \in Victims
      BY <3>3 DEF Victims
    <3> QED
      BY <1>0, <3>2, <3>3, <3>5, <3>6, <3>7 DEF ReapInv
  <2>2. CASE ~ok
    BY <2>2, StopReaps DEF SpawnDecoder
  <2> QED
    BY <2>1, <2>2
<1>8. CASE CycleFails \/ TooHot
  BY <1>8, StopReaps DEF CycleFails, TooHot
<1>9. CASE \E p \in Programs : Exits(p)
  BY <1>9, FewerAlive DEF Exits
<1>10. CASE UNCHANGED sdrVars
  BY <1>10, FewerAlive DEF sdrVars
<1> QED
  BY <1>1, <1>2, <1>3, <1>4, <1>5, <1>6, <1>7, <1>8, <1>9, <1>10
     DEF SdrNext, SdrStep, SdrEnvironment
----------------------------------------------------------------------------
(* The shutdown.                                                           *)

\* A receiver or a poll loop that is down stays down.
LEMMA NwwsStaysDown ==
  ASSUME NwwsStopped, NwwsStep \/ NwwsEnvironment
  PROVE  NwwsStopped'
  BY DEF NwwsStopped, NwwsStep, NwwsEnvironment, SessionEnds, CloseTransport, BackoffEnds,
         ConsumerEnds, Discard, Consume, Taken, CallbackEnds, Receive, nwwsTasks

LEMMA PollStaysDown ==
  ASSUME poll = "none", PollStep \/ Poke \/ Hang
  PROVE  poll' = "none"
  BY DEF PollStep, PollEnds, PollAgain, Poke, Hang

\* What the steps that leave a part alone keep of it.
LEMMA DownAlone ==
  /\ UNCHANGED nwwsVars => (NwwsStopped => NwwsStopped')
  /\ UNCHANGED pollVars => poll' = poll
  /\ UNCHANGED others => tasks' = tasks /\ cancelled' = cancelled /\ fallbacks' = fallbacks
  BY DEF nwwsVars, nwwsTasks, NwwsStopped, pollVars, others

\* The sets of phases lie in one another.
LEMMA PhaseOrder ==
  /\ PastWorker \subseteq PastDrain /\ PastDrain \subseteq PastIpaws
  /\ PastIpaws \subseteq PastNwws /\ PastNwws \subseteq PastArbitration
  /\ PastArbitration \subseteq PastNoaa
  /\ {"boot", "serving", "noaa", "killed"} \cap PastNoaa = {}
  BY DEF PastWorker, PastDrain, PastIpaws, PastNwws, PastArbitration, PastNoaa

\* A step that stays in its phase, or comes to none of the shutdown, keeps
\* what was found gone when it keeps each part down.
LEMMA PhaseKept ==
  ASSUME StopInv, phase' = phase \/ phase' \in {"serving", "noaa", "killed"},
         stage = "ended" => stage' = "ended" \/ phase' \in {"serving", "noaa", "killed"},
         NwwsStopped => NwwsStopped' \/ phase' \in {"serving", "noaa", "killed"},
         poll = "none" => poll' = "none" \/ phase' \in {"serving", "noaa", "killed"},
         fallbacks = 0 /\ "worker" \in cancelled =>
           (fallbacks' = 0 \/ phase' \in {"serving", "noaa", "killed"}),
         cancelled \subseteq cancelled',
         tasks' \subseteq {"worker", "startup", "ipaws", "arbitration"},
         tasks' \subseteq tasks \/ phase' \in {"serving", "noaa", "killed"}
  PROVE  StopInv'
<1>1. CASE phase' \in {"serving", "noaa", "killed"}
  BY <1>1, PhaseOrder DEF StopInv
<1>2. CASE phase' = phase /\ phase' \notin {"serving", "noaa", "killed"}
  BY <1>2 DEF StopInv
<1> QED
  BY <1>1, <1>2

LEMMA StopStep == StopInv /\ [Next]_vars => StopInv'
<1> SUFFICES ASSUME StopInv, [Next]_vars
             PROVE  StopInv'
  OBVIOUS
<1>1. CASE Boot
  BY <1>1, PhaseKept DEF Boot, Arbitrated, StopInv
<1>2. CASE \E t \in tasks : TaskEnds(t)
  BY <1>2, PhaseKept, DownAlone, SdrAlone DEF TaskEnds, StopInv
<1>3. CASE FallbackBegins
  BY <1>3, PhaseKept, DownAlone, SdrAlone DEF FallbackBegins, StopInv
<1>4. CASE FallbackEnds
  BY <1>4, PhaseKept, DownAlone, SdrAlone DEF FallbackEnds, StopInv
<1>5. CASE Nwws
  BY <1>5, PhaseKept, DownAlone, SdrAlone, NwwsStaysDown DEF Nwws, StopInv
<1>6. CASE Noaa
  BY <1>6, PhaseKept, DownAlone, EndedStays DEF Noaa, StopInv
<1>7. CASE Polling
  BY <1>7, PhaseKept, DownAlone, SdrAlone, PollStaysDown DEF Polling, StopInv
<1>8. CASE Shutdown
  BY <1>8, PhaseKept, DownAlone DEF Shutdown, Awaits, Cancel, StopInv
<1>9. CASE Stall \/ Unblock \/ Watchdog
  BY <1>9, PhaseKept, DownAlone, SdrAlone DEF Stall, Unblock, Watchdog, StopInv
<1>10. CASE UNCHANGED vars
  BY <1>10, PhaseKept, DownAlone, SdrAlone DEF vars, StopInv
\* Each wait of the shutdown is over when what it waits for is gone.
<1>11. CASE NoaaIsDown
  BY <1>11, DownAlone, SdrAlone
     DEF NoaaIsDown, Awaits, StopInv, PastWorker, PastDrain, PastIpaws, PastNwws,
         PastArbitration, PastNoaa
<1>12. CASE ArbitrationIsDown
  BY <1>12, DownAlone, SdrAlone
     DEF ArbitrationIsDown, Awaits, StopInv, PastWorker, PastDrain, PastIpaws, PastNwws,
         PastArbitration, PastNoaa
<1>13. CASE NwwsIsDown
  BY <1>13, DownAlone, SdrAlone
     DEF NwwsIsDown, Awaits, PollStop, Cancel, StopInv, PastWorker, PastDrain, PastIpaws,
         PastNwws, PastArbitration, PastNoaa
<1>14. CASE IpawsIsDown
  BY <1>14, DownAlone, SdrAlone
     DEF IpawsIsDown, Awaits, StopInv, PastWorker, PastDrain, PastIpaws, PastNwws,
         PastArbitration, PastNoaa
<1>15. CASE DrainIsDone
  BY <1>15, DownAlone, SdrAlone
     DEF DrainIsDone, Drained, Awaits, Cancel, StopInv, PastWorker, PastDrain, PastIpaws,
         PastNwws, PastArbitration, PastNoaa
<1>16. CASE WorkerIsDown \/ RadiosAreClosed
  BY <1>16, DownAlone, SdrAlone
     DEF WorkerIsDown, RadiosAreClosed, Awaits, StopInv, PastWorker, PastDrain, PastIpaws,
         PastNwws, PastArbitration, PastNoaa
<1> QED
  BY <1>1, <1>2, <1>3, <1>4, <1>5, <1>6, <1>7, <1>8, <1>9, <1>10, <1>11, <1>12, <1>13,
     <1>14, <1>15, <1>16 DEF Next, ShutdownStep
----------------------------------------------------------------------------
(* The products of the wire.                                               *)

\* The processes of the products i to j of s, but that of i.
TakenOver(s, i, j) == {s[k].process : k \in i..j} \ {s[i].process}

LEMMA TakenOverFinite ==
  ASSUME NEW s, NEW i \in Nat, NEW j \in Nat
  PROVE  IsFiniteSet(TakenOver(s, i, j)) /\ Cardinality(TakenOver(s, i, j)) \in Nat
<1> DEFINE All == {s[k].process : k \in i..j}
           f == [k \in i..j |-> s[k].process]
<1>1. IsFiniteSet(i..j)
  BY FS_Interval
<1>2. f \in Surjection(i..j, All)
  BY DEF Surjection
<1>3. IsFiniteSet(All)
  BY <1>1, <1>2, FS_Surjection
<1>4. TakenOver(s, i, j) \in SUBSET All
  BY DEF TakenOver
<1>5. IsFiniteSet(TakenOver(s, i, j))
  BY <1>3, <1>4, FS_Subset
<1> QED
  BY <1>5, FS_CardinalityType

LEMMA TakenOverGrows ==
  ASSUME NEW s \in Seq(Products), NEW x \in Products, NEW i \in 1..Len(s)
  PROVE  /\ \A j \in 1..Len(s) : TakenOver(Append(s, x), i, j) = TakenOver(s, i, j)
         /\ TakenOver(s, i, Len(s)) \subseteq TakenOver(Append(s, x), i, Len(s) + 1)
         /\ Cardinality(TakenOver(s, i, Len(s)))
              <= Cardinality(TakenOver(Append(s, x), i, Len(s) + 1))
<1>1. \A k \in 1..Len(s) : Append(s, x)[k] = s[k]
  BY AppendProperties
<1>2. ASSUME NEW j \in 1..Len(s)
      PROVE  TakenOver(Append(s, x), i, j) = TakenOver(s, i, j)
  <2>1. \A k \in i..j : Append(s, x)[k] = s[k]
    BY <1>1
  <2>2. Append(s, x)[i] = s[i]
    BY <1>1
  <2> QED
    BY <2>1, <2>2 DEF TakenOver
<1>3. TakenOver(s, i, Len(s)) \subseteq TakenOver(Append(s, x), i, Len(s) + 1)
  <2>1. TakenOver(s, i, Len(s)) = TakenOver(Append(s, x), i, Len(s))
    BY <1>2
  <2>2. i..Len(s) \subseteq i..(Len(s) + 1)
    OBVIOUS
  <2> QED
    BY <2>1, <2>2 DEF TakenOver
<1>4. IsFiniteSet(TakenOver(Append(s, x), i, Len(s) + 1))
  BY TakenOverFinite
<1> QED
  BY <1>2, <1>3, <1>4, FS_Subset

LEMMA CountDistinct ==
  ASSUME NEW S, NEW r \in Seq(S), \A k, l \in DOMAIN r : r[k] = r[l] => k = l
  PROVE  IsFiniteSet(ToSet(r)) /\ Cardinality(ToSet(r)) = Len(r)
<1>1. DOMAIN r = 1..Len(r) /\ Len(r) \in Nat
  OBVIOUS
<1>2. r \in Bijection(1..Len(r), ToSet(r))
  <2>1. r \in [1..Len(r) -> ToSet(r)]
    BY <1>1 DEF ToSet
  <2>2. \A y \in ToSet(r) : \E k \in 1..Len(r) : r[k] = y
    BY <1>1 DEF ToSet
  <2>3. \A k, l \in 1..Len(r) : r[k] = r[l] => k = l
    BY <1>1
  <2> QED
    BY <1>1, <2>1, <2>2, <2>3 DEF Bijection, Injection, Surjection, IsInjective
<1>3. IsFiniteSet(1..Len(r)) /\ Cardinality(1..Len(r)) = Len(r)
  BY <1>1, FS_Interval
<1> QED
  BY <1>2, <1>3, FS_Bijection DEF ExistsBijection

\* The process that gives way comes last, and the oldest is dropped when the
\* memory is full.
LEMMA RetireShape ==
  ASSUME NEW t, t.retired \in Seq(Processes), t.process \in Processes,
         Len(t.retired) <= MaxRetired
  PROVE  \E off \in {0, 1} :
           /\ Retire(t) \in Seq(Processes)
           /\ Len(Retire(t)) = Len(t.retired) + 1 - off /\ Len(Retire(t)) <= MaxRetired
           /\ \A k \in 1..Len(Retire(t)) :
                /\ k + off <= Len(t.retired) => Retire(t)[k] = t.retired[k + off]
                /\ k + off = Len(t.retired) + 1 => Retire(t)[k] = t.process
           /\ off = 1 => Len(t.retired) = MaxRetired
<1> DEFINE all == Append(t.retired, t.process)
<1>0. MaxRetired \in Nat \ {0} /\ Len(t.retired) \in Nat
  BY TrackerAssumption
<1>1. /\ all \in Seq(Processes) /\ Len(all) = Len(t.retired) + 1 /\ all # <<>>
      /\ \A k \in 1..Len(t.retired) : all[k] = t.retired[k]
      /\ all[Len(t.retired) + 1] = t.process
  BY AppendProperties
<1>2. Retire(t) = IF Len(all) > MaxRetired THEN Tail(all) ELSE all
  BY DEF Retire
<1> HIDE DEF all
<1>3. CASE Len(all) > MaxRetired
  <2>1. /\ Tail(all) \in Seq(Processes) /\ Len(Tail(all)) = Len(all) - 1
        /\ \A k \in 1..Len(Tail(all)) : Tail(all)[k] = all[k + 1]
    BY <1>1, HeadTailProperties
  <2>2. Retire(t) = Tail(all)
    BY <1>2, <1>3
  <2>3. Len(t.retired) = MaxRetired
    BY <1>0, <1>1, <1>3
  <2>4. /\ Retire(t) \in Seq(Processes)
        /\ Len(Retire(t)) = Len(t.retired) + 1 - 1 /\ Len(Retire(t)) <= MaxRetired
    BY <1>0, <1>1, <2>1, <2>2, <2>3
  <2>5. ASSUME NEW k \in 1..Len(Retire(t))
        PROVE  /\ k + 1 <= Len(t.retired) => Retire(t)[k] = t.retired[k + 1]
               /\ k + 1 = Len(t.retired) + 1 => Retire(t)[k] = t.process
    BY <1>0, <1>1, <2>1, <2>2, <2>4
  <2> WITNESS 1 \in {0, 1}
  <2> QED
    BY <2>3, <2>4, <2>5
<1>4. CASE Len(all) <= MaxRetired
  <2>1. Retire(t) = all
    BY <1>0, <1>1, <1>2, <1>4
  <2>2. ASSUME NEW k \in 1..Len(Retire(t))
        PROVE  /\ k + 0 <= Len(t.retired) => Retire(t)[k] = t.retired[k + 0]
               /\ k + 0 = Len(t.retired) + 1 => Retire(t)[k] = t.process
    BY <1>0, <1>1, <2>1
  <2> WITNESS 0 \in {0, 1}
  <2> QED
    BY <1>0, <1>1, <1>4, <2>1, <2>2
<1> QED
  BY <1>0, <1>1, <1>3, <1>4

\* A process that is dropped gave way to all that are remembered after it,
\* to the one that gives way now, and to the one that takes over.
LEMMA DroppedLongAgo ==
  ASSUME MemoryInv, RetiredInOrder, Len(tracker.retired) = MaxRetired,
         NEW x \in Products, x.process \notin ToSet(tracker.retired) \cup {tracker.process},
         NEW i \in Spoke(passed, tracker.retired[1])
  PROVE  Cardinality(TakenOver(Append(passed, x), i, Len(passed) + 1)) > MaxRetired
<1> DEFINE r == tracker.retired  q == r[1]  n == Len(passed)
           Later == (ToSet(r) \ {q}) \cup {tracker.process}
           T == Later \cup {x.process}
           Over == TakenOver(Append(passed, x), i, n + 1)
<1>0. MaxRetired \in Nat \ {0}
  BY TrackerAssumption
<1>1. /\ passed \in Seq(Products) /\ r \in Seq(Processes) /\ n \in Nat
      /\ \A k, l \in DOMAIN r : r[k] = r[l] => k = l
      /\ tracker.process \notin ToSet(r)
  BY DEF MemoryInv
<1>2. i \in 1..n /\ passed[i].process = q /\ n > 0
  BY <1>1 DEF Spoke
<1>3. tracker.process = passed[n].process
  BY <1>1, <1>2 DEF MemoryInv
<1>4. 1 \in DOMAIN r /\ q \in ToSet(r)
  BY <1>0, <1>1 DEF ToSet
<1>5. Cardinality(T) = MaxRetired + 1 /\ IsFiniteSet(T)
  <2>1. IsFiniteSet(ToSet(r)) /\ Cardinality(ToSet(r)) = MaxRetired
    BY <1>1, CountDistinct
  <2>2. IsFiniteSet(ToSet(r) \ {q}) /\ Cardinality(ToSet(r) \ {q}) = MaxRetired - 1
    BY <1>4, <2>1, FS_RemoveElement
  <2>3. IsFiniteSet(Later) /\ Cardinality(Later) = MaxRetired
    <3>1. tracker.process \notin ToSet(r) \ {q}
      BY <1>1
    <3>2. /\ IsFiniteSet(Later)
          /\ Cardinality(Later) = Cardinality(ToSet(r) \ {q}) + 1
      BY <2>2, <3>1, FS_AddElement
    <3> QED
      BY <1>0, <2>2, <3>2
  <2>4. x.process \notin Later
    OBVIOUS
  <2> QED
    BY <2>3, <2>4, FS_AddElement
<1>6. /\ \A k \in 1..n : Append(passed, x)[k] = passed[k]
      /\ Append(passed, x)[n + 1] = x
  BY <1>1, AppendProperties
<1>7. Append(passed, x)[i].process = q
  BY <1>2, <1>6
<1>8. ASSUME NEW y \in T
      PROVE  y # q /\ \E k \in i..(n + 1) : Append(passed, x)[k].process = y
  <2>1. y # q
    BY <1>1, <1>4
  <2>2. CASE y = x.process
    BY <1>1, <1>2, <1>6, <2>1, <2>2
  <2>3. CASE y = tracker.process
    BY <1>1, <1>2, <1>3, <1>6, <2>1, <2>3
  <2>4. CASE y \in ToSet(r) \ {q}
    <3>1. PICK l \in DOMAIN r : r[l] = y
      BY <2>4 DEF ToSet
    <3>2. 1 < l
      BY <1>1, <2>1, <3>1
    <3>3. PICK j \in Spoke(passed, r[l]) : i < j
      BY <1>1, <1>4, <3>1, <3>2 DEF RetiredInOrder
    <3>4. j \in 1..n /\ passed[j].process = y
      BY <1>1, <3>1, <3>3 DEF Spoke
    <3>5. j \in i..(n + 1) /\ Append(passed, x)[j].process = y
      BY <1>1, <1>2, <1>6, <3>3, <3>4
    <3> QED
      BY <2>1, <3>5
  <2> QED
    BY <2>2, <2>3, <2>4
<1>9. T \in SUBSET Over
  BY <1>7, <1>8 DEF TakenOver
<1>10. IsFiniteSet(Over) /\ Cardinality(Over) \in Nat
  BY <1>1, <1>2, TakenOverFinite
<1>11. Cardinality(T) <= Cardinality(Over)
  BY <1>9, <1>10, FS_Subset
<1> QED
  BY <1>0, <1>5, <1>10, <1>11

\* What the consumer passes on: a product that is no replay.
Passes(x) ==
  /\ x \in Products /\ ~Replayed(tracker, x.process, x.seq)
  /\ passed' = Append(passed, x)
  /\ tracker' = Observed(tracker, x.process, x.seq)

\* Before the first product nobody is remembered.
LEMMA FirstProduct ==
  ASSUME ReplayInv, NEW x, Passes(x), passed = <<>>, inbox' \in Seq(Stanzas)
  PROVE  ReplayInv'
<1>1. tracker = Untracked /\ x \in Products
  BY DEF ReplayInv, MemoryInv, Passes
<1>2. passed' = <<x>>
  <2>1. <<>> \in Seq(Products) /\ <<x>> \in Seq(Products)
    BY <1>1
  <2>2. /\ passed' \in Seq(Products) /\ Len(passed') = 1 /\ passed'[1] = x
    BY <1>1, <2>1, AppendProperties DEF Passes
  <2> QED
    BY <2>1, <2>2, SeqEqual
<1>3. /\ tracker'.process = x.process /\ tracker'.last = x.seq
      /\ tracker'.retired = <<>>
  BY <1>1 DEF Passes, Observed, Untracked
<1>4. MaxRetired \in Nat
  BY TrackerAssumption
<1>5. passed' \in Seq(Products) /\ Len(passed') = 1 /\ passed'[1] = x /\ passed' # <<>>
  BY <1>1, <1>2
<1>6. MemoryInv'
  BY <1>3, <1>4, <1>5 DEF MemoryInv, ToSet
<1>7. RetiredInOrder'
  BY <1>3 DEF RetiredInOrder
<1>8. Forgotten' /\ NoReplay'
  BY <1>3, <1>5 DEF Forgotten, NoReplay
<1> QED
  BY <1>6, <1>7, <1>8 DEF ReplayInv

\* What every later product adds.
LEMMA LaterProduct ==
  ASSUME ReplayInv, NEW x, Passes(x), passed # <<>>
  PROVE  /\ passed' \in Seq(Products) /\ Len(passed') = Len(passed) + 1
         /\ \A i \in 1..Len(passed) : passed'[i] = passed[i]
         /\ passed'[Len(passed) + 1] = x /\ passed' # <<>>
         /\ Len(passed) \in Nat \ {0}
         /\ tracker.process = passed[Len(passed)].process
         /\ tracker.process \in Processes /\ tracker.process # NoProcess
         /\ tracker'.process = x.process /\ tracker'.last = x.seq
         /\ x.process \notin ToSet(tracker.retired)
         /\ x.process \in Processes /\ x.seq \in Nat
<1>1. passed \in Seq(Products) /\ x \in Products
  BY DEF ReplayInv, MemoryInv, Passes
<1>2. /\ passed' \in Seq(Products) /\ Len(passed') = Len(passed) + 1
      /\ \A i \in 1..Len(passed) : passed'[i] = passed[i]
      /\ passed'[Len(passed) + 1] = x /\ passed' # <<>>
  BY <1>1, AppendProperties DEF Passes
<1>3. Len(passed) \in Nat \ {0}
  BY <1>1
<1>4. passed[Len(passed)] \in Products
  BY <1>1, <1>3
<1>5. tracker.process = passed[Len(passed)].process /\ tracker.process \in Processes
  BY <1>4 DEF ReplayInv, MemoryInv, Products
<1>6. tracker.process # NoProcess
  BY <1>5, TrackerAssumption
<1>7. tracker'.process = x.process /\ tracker'.last = x.seq
  BY DEF Passes, Observed
<1>8. x.process \notin ToSet(tracker.retired) /\ x.process \in Processes /\ x.seq \in Nat
  BY <1>1 DEF Passes, Replayed, Products
<1> QED
  BY <1>2, <1>3, <1>5, <1>6, <1>7, <1>8

\* Counts only grow, and old pairs of products are judged as before.
LEMMA OldPairs ==
  ASSUME ReplayInv, NEW x, Passes(x), passed # <<>>
  PROVE  /\ \A i, j \in 1..Len(passed) : Between(i, j)' = Between(i, j)
         /\ \A i \in 1..Len(passed) :
              Cardinality(Since(i)) > MaxRetired => Cardinality(Since(i)') > MaxRetired
<1>1. passed \in Seq(Products) /\ x \in Products /\ passed' = Append(passed, x)
  BY DEF ReplayInv, MemoryInv, Passes
<1>2. Len(passed') = Len(passed) + 1
  BY LaterProduct
<1>3. ASSUME NEW i \in 1..Len(passed)
      PROVE  Cardinality(Since(i)) > MaxRetired => Cardinality(Since(i)') > MaxRetired
  <2>1. /\ Since(i) = TakenOver(passed, i, Len(passed))
        /\ Since(i)' = TakenOver(Append(passed, x), i, Len(passed) + 1)
    BY <1>1, <1>2 DEF Since, Between, TakenOver
  <2>2. /\ Cardinality(Since(i)) \in Nat /\ Cardinality(Since(i)') \in Nat
        /\ Cardinality(Since(i)) <= Cardinality(Since(i)')
    BY <1>1, <2>1, TakenOverGrows, TakenOverFinite
  <2> QED
    BY <2>2, TrackerAssumption
<1>4. ASSUME NEW i \in 1..Len(passed), NEW j \in 1..Len(passed)
      PROVE  Between(i, j)' = Between(i, j)
  BY <1>1, TakenOverGrows DEF Between, TakenOver
<1> QED
  BY <1>3, <1>4

\* The new product is judged by what the tracker remembers.
LEMMA NewPairs ==
  ASSUME ReplayInv, NEW x, Passes(x), passed # <<>>
  PROVE  NoReplay'
<1> DEFINE n == Len(passed)
<1>1. /\ passed' \in Seq(Products) /\ Len(passed') = n + 1
      /\ \A i \in 1..n : passed'[i] = passed[i]
      /\ passed'[n + 1] = x
      /\ n \in Nat \ {0}
      /\ x.process \notin ToSet(tracker.retired)
      /\ x.seq \in Nat
  BY LaterProduct
<1>2. passed \in Seq(Products) /\ NoReplay /\ Forgotten
  BY DEF ReplayInv, MemoryInv
<1>3. DOMAIN passed = 1..n /\ DOMAIN passed' = 1..(n + 1)
  BY <1>1, <1>2
<1>4. ASSUME NEW i \in 1..(n + 1), NEW j \in 1..(n + 1), i < j,
             passed'[i].process = passed'[j].process
      PROVE  passed'[i].seq < passed'[j].seq \/ Cardinality(Between(i, j)') > MaxRetired
  <2>1. i \in 1..n /\ passed'[i] = passed[i]
    BY <1>1, <1>4
  <2>2. CASE j \in 1..n
    <3>1. passed'[j] = passed[j] /\ Between(i, j)' = Between(i, j)
      BY <1>1, <2>1, <2>2, OldPairs
    <3> QED
      BY <1>2, <1>3, <1>4, <2>1, <2>2, <3>1 DEF NoReplay
  <2>3. CASE j = n + 1
    <3>1. passed[i].process = x.process
      BY <1>1, <1>4, <2>1, <2>3
    <3>2. Between(i, j)' = Since(i)'
      BY <1>1, <2>3 DEF Since
    <3>3. CASE Cardinality(Since(i)) > MaxRetired
      BY <2>1, <3>2, <3>3, OldPairs
    <3>4. CASE x.process = tracker.process /\ ~(Cardinality(Since(i)) > MaxRetired)
      <4>1. tracker.last = passed[n].seq /\ tracker.process = passed[n].process
        BY <1>1 DEF ReplayInv, MemoryInv
      <4>2. /\ passed[i] \in Products /\ passed[n] \in Products
            /\ i \in DOMAIN passed /\ n \in DOMAIN passed
        BY <1>1, <1>2, <1>3, <2>1
      <4>3. passed[i].seq \in Nat /\ passed[n].seq \in Nat
        BY <4>2 DEF Products
      <4>4. tracker.last < x.seq
        <5>1. ~(x.seq <= tracker.last)
          BY <3>4 DEF Passes, Replayed
        <5> QED
          BY <1>1, <4>1, <4>3, <5>1
      <4>5. i = n \/ passed[i].seq < passed[n].seq
        <5>1. CASE i < n
          <6>1. Between(i, n) = Since(i)
            BY DEF Since
          <6>2. passed[i].process = passed[n].process
            BY <3>1, <3>4, <4>1
          <6> QED
            BY <1>2, <3>4, <4>2, <5>1, <6>1, <6>2 DEF NoReplay
        <5> QED
          BY <1>1, <2>1, <5>1
      <4> QED
        BY <1>1, <2>1, <2>3, <4>1, <4>3, <4>4, <4>5
    <3> QED
      BY <1>1, <1>2, <1>3, <2>1, <3>1, <3>3, <3>4 DEF Forgotten
  <2> QED
    BY <1>1, <2>2, <2>3
<1> QED
  BY <1>3, <1>4 DEF NoReplay

\* The process goes on: what is remembered stays.
LEMMA SameProcess ==
  ASSUME ReplayInv, NEW x, Passes(x), passed # <<>>, x.process = tracker.process,
         inbox' \in Seq(Stanzas)
  PROVE  ReplayInv'
<1> DEFINE n == Len(passed)
<1>1. /\ passed' \in Seq(Products) /\ Len(passed') = n + 1
      /\ \A i \in 1..n : passed'[i] = passed[i]
      /\ passed'[n + 1] = x /\ passed' # <<>> /\ n \in Nat \ {0}
      /\ tracker'.process = x.process /\ tracker'.last = x.seq
  BY LaterProduct
<1>2. tracker'.retired = tracker.retired
  BY DEF Passes, Observed
<1>3. passed \in Seq(Products) /\ MemoryInv /\ RetiredInOrder /\ Forgotten
  BY DEF ReplayInv, MemoryInv
<1>4. DOMAIN passed = 1..n /\ DOMAIN passed' = 1..(n + 1)
  BY <1>1, <1>3
<1>5. MemoryInv'
  BY <1>1, <1>2, <1>3 DEF MemoryInv
<1>6. RetiredInOrder'
  <2>1. ASSUME NEW k \in DOMAIN tracker.retired
        PROVE  Spoke(passed', tracker.retired[k]) = Spoke(passed, tracker.retired[k])
    <3>1. x.process # tracker.retired[k]
      BY <1>3 DEF MemoryInv, ToSet
    <3> QED
      BY <1>1, <1>2, <1>4, <3>1 DEF Spoke
  <2> QED
    BY <1>2, <1>3, <2>1 DEF RetiredInOrder, ReplayInv
<1>7. Forgotten'
  <2>1. ASSUME NEW i \in 1..n
        PROVE  \/ passed'[i].process = tracker'.process
               \/ passed'[i].process \in ToSet(tracker'.retired)
               \/ Cardinality(Since(i)') > MaxRetired
    BY <1>1, <1>2, <1>3, <1>4, OldPairs DEF Forgotten
  <2>2. passed'[n + 1].process = tracker'.process
    BY <1>1
  <2> QED
    BY <1>1, <1>4, <2>1, <2>2 DEF Forgotten
<1> QED
  BY <1>5, <1>6, <1>7, NewPairs DEF ReplayInv

\* Another process takes over: the one that gives way is remembered.
LEMMA TakesOver ==
  ASSUME ReplayInv, NEW x, Passes(x), passed # <<>>, x.process # tracker.process,
         inbox' \in Seq(Stanzas)
  PROVE  ReplayInv'
<1> DEFINE n == Len(passed)  r == tracker.retired  m == Len(r)  s == tracker'.retired
<1>1. /\ passed' \in Seq(Products) /\ Len(passed') = n + 1
      /\ \A i \in 1..n : passed'[i] = passed[i]
      /\ passed'[n + 1] = x /\ passed' # <<>> /\ n \in Nat \ {0}
      /\ tracker.process = passed[n].process
      /\ tracker.process \in Processes /\ tracker.process # NoProcess
      /\ tracker'.process = x.process /\ tracker'.last = x.seq
      /\ x.process \notin ToSet(r)
  BY LaterProduct
<1>2. s = Retire(tracker)
  BY <1>1 DEF Passes, Observed
<1>3. /\ passed \in Seq(Products) /\ r \in Seq(Processes) /\ m \in Nat /\ m <= MaxRetired
      /\ \A k, l \in 1..m : r[k] = r[l] => k = l
      /\ \A k \in 1..m : r[k] # tracker.process
      /\ DOMAIN r = 1..m
  BY DEF ReplayInv, MemoryInv, ToSet
<1>4. \A k \in 1..m : r[k] # x.process
  BY <1>1, <1>3 DEF ToSet
<1>5. DOMAIN passed = 1..n /\ DOMAIN passed' = 1..(n + 1)
  BY <1>1, <1>3
<1>6. PICK off \in {0, 1} :
           /\ s \in Seq(Processes) /\ Len(s) = m + 1 - off /\ Len(s) <= MaxRetired
           /\ \A k \in 1..Len(s) : /\ k + off <= m => s[k] = r[k + off]
                                   /\ k + off = m + 1 => s[k] = tracker.process
           /\ off = 1 => m = MaxRetired
  BY <1>1, <1>2, <1>3, RetireShape
<1>7. DOMAIN s = 1..Len(s) /\ Len(s) \in Nat
  BY <1>6
<1>8. \A k \in 1..Len(s) : \/ k + off \in 1..m /\ s[k] = r[k + off]
                           \/ k + off = m + 1 /\ s[k] = tracker.process
  <2> SUFFICES ASSUME NEW k \in 1..Len(s)
               PROVE  \/ k + off \in 1..m /\ s[k] = r[k + off]
                      \/ k + off = m + 1 /\ s[k] = tracker.process
    OBVIOUS
  <2>1. k + off \in 1..m \/ k + off = m + 1
    BY <1>3, <1>6, <1>7
  <2>2. k + off \in 1..m => k + off <= m
    BY <1>3
  <2> QED
    BY <1>6, <2>1, <2>2
<1> HIDE DEF s
<1>9. \A k \in 1..Len(s) : s[k] # x.process
  <2>1. tracker.process # x.process
    OBVIOUS
  <2> QED
    BY <1>4, <1>8, <2>1
<1>10. MemoryInv'
  <2>1. \A k, l \in 1..Len(s) : s[k] = s[l] => k = l
    <3> SUFFICES ASSUME NEW k \in 1..Len(s), NEW l \in 1..Len(s), s[k] = s[l]
                 PROVE  k + off = l + off
      BY <1>6, <1>7
    <3> QED
      BY <1>3, <1>8
  <2>2. x.process \notin ToSet(s)
    BY <1>7, <1>9 DEF ToSet
  <2> QED
    BY <1>1, <1>6, <1>7, <2>1, <2>2 DEF MemoryInv, s
<1>11. \A k \in 1..Len(s) : Spoke(passed', s[k]) = Spoke(passed, s[k])
  <2> SUFFICES ASSUME NEW k \in 1..Len(s)
               PROVE  \A i \in 1..(n + 1) :
                        passed'[i].process = s[k] <=>
                          i \in 1..n /\ passed[i].process = s[k]
    BY <1>1, <1>5 DEF Spoke
  <2>1. passed'[n + 1].process # s[k]
    BY <1>1, <1>9
  <2> QED
    BY <1>1, <2>1
<1>12. RetiredInOrder'
  <2> SUFFICES ASSUME NEW k \in 1..Len(s), NEW l \in 1..Len(s), k < l, NEW i \in Spoke(passed, s[k])
               PROVE  \E j \in Spoke(passed, s[l]) : i < j
    BY <1>7, <1>11 DEF RetiredInOrder, s
  <2>1. k + off \in 1..m /\ s[k] = r[k + off] /\ k + off < l + off
    BY <1>3, <1>6, <1>7, <1>8
  <2>2. CASE l + off \in 1..m /\ s[l] = r[l + off]
    BY <1>3, <2>1, <2>2 DEF ReplayInv, RetiredInOrder
  <2>3. CASE s[l] = tracker.process
    <3>1. n \in Spoke(passed, s[l])
      BY <1>1, <1>5, <2>3 DEF Spoke
    <3>2. i \in 1..n /\ passed[i].process # passed[n].process
      BY <1>1, <1>3, <1>5, <2>1 DEF Spoke
    <3> QED
      BY <1>1, <3>1, <3>2
  <2> QED
    BY <1>8, <2>2, <2>3
<1>13. Forgotten'
  <2>1. ASSUME NEW i \in 1..n
        PROVE  \/ passed'[i].process \in ToSet(s)
               \/ Cardinality(Since(i)') > MaxRetired
    <3>1. passed'[i] = passed[i]
      BY <1>1
    <3>2. CASE Cardinality(Since(i)) > MaxRetired
      BY <3>2, OldPairs
    <3>3. CASE passed[i].process = tracker.process
      <4>1. m + 1 - off \in 1..Len(s)
        BY <1>3, <1>6, TrackerAssumption
      <4>2. s[m + 1 - off] = tracker.process
        <5>1. m + 1 - off + off = m + 1
          BY <1>3, <1>6
        <5> QED
          BY <1>6, <4>1, <5>1
      <4> QED
        BY <1>7, <3>1, <3>3, <4>1, <4>2 DEF ToSet
    <3>4. CASE passed[i].process \in ToSet(r)
      <4>1. PICK k \in 1..m : r[k] = passed[i].process
        BY <1>3, <3>4 DEF ToSet
      <4>2. CASE k - off \in 1..Len(s)
        <5>1. s[k - off] = r[k]
          BY <1>3, <1>6, <4>2
        <5> QED
          BY <1>7, <3>1, <4>1, <4>2, <5>1 DEF ToSet
      <4>3. CASE k = 1 /\ off = 1
        <5>1. m = MaxRetired /\ i \in Spoke(passed, r[1]) /\ x \in Products
          BY <1>5, <1>6, <4>1, <4>3 DEF Spoke, Passes
        <5>2. Since(i)' = TakenOver(Append(passed, x), i, n + 1)
          BY <1>1 DEF Since, Between, TakenOver, Passes
        <5> QED
          BY <1>1, <5>1, <5>2, DroppedLongAgo DEF ReplayInv
      <4> QED
        BY <1>3, <1>6, <4>2, <4>3
    <3> QED
      BY <1>5, <3>2, <3>3, <3>4 DEF ReplayInv, Forgotten
  <2>2. passed'[n + 1].process = tracker'.process
    BY <1>1
  <2> QED
    BY <1>1, <1>5, <2>1, <2>2 DEF Forgotten, s
<1> QED
  BY <1>10, <1>12, <1>13, NewPairs DEF ReplayInv

\* Steps that pass nothing on.
LEMMA NothingPassed ==
  ASSUME ReplayInv, UNCHANGED <<passed, tracker>>, inbox' \in Seq(Stanzas)
  PROVE  ReplayInv'
<1>1. MemoryInv'
  BY DEF ReplayInv, MemoryInv
<1>2. RetiredInOrder'
  BY DEF ReplayInv, RetiredInOrder
<1>3. \A i, j : Between(i, j)' = Between(i, j)
  BY DEF Between
<1>4. Forgotten'
  BY <1>3 DEF ReplayInv, Forgotten, Since
<1>5. NoReplay'
  BY <1>3 DEF ReplayInv, NoReplay
<1> QED
  BY <1>1, <1>2, <1>4, <1>5 DEF ReplayInv

LEMMA ReplayStep == ReplayInv /\ NwwsNext => ReplayInv'
<1> SUFFICES ASSUME ReplayInv, NwwsNext
             PROVE  ReplayInv'
  OBVIOUS
<1>0. inbox \in Seq(Stanzas)
  BY DEF ReplayInv, MemoryInv
<1>1. CASE \/ NwwsStart \/ NwwsStop \/ SessionEnds \/ CloseTransport \/ BackoffEnds
           \/ ConsumerEnds \/ CallbackEnds \/ UNCHANGED nwwsVars
  BY <1>0, <1>1, NothingPassed
     DEF NwwsStart, NwwsStop, SessionEnds, CloseTransport, BackoffEnds, ConsumerEnds,
         CallbackEnds, nwwsVars
<1>2. CASE \E s \in Stanzas : Receive(s)
  BY <1>0, <1>2, NothingPassed, AppendProperties DEF Receive
<1>3. ASSUME inbox # <<>>
      PROVE  Head(inbox) \in Stanzas /\ Tail(inbox) \in Seq(Stanzas)
  BY <1>0, <1>3, HeadTailProperties
<1>4. CASE Discard
  BY <1>3, <1>4, NothingPassed DEF Discard, Taken
<1>5. CASE Consume
  <2>1. inbox # <<>> /\ Head(inbox).kind = "product" /\ inbox' = Tail(inbox)
    BY <1>5 DEF Consume, Taken
  <2>2. inbox' \in Seq(Stanzas) /\ Head(inbox) \in Products
    BY <1>3, <2>1 DEF Stanzas
  <2>3. CASE Replayed(tracker, Head(inbox).process, Head(inbox).seq)
    BY <1>5, <2>2, <2>3, NothingPassed DEF Consume
  <2>4. CASE ~Replayed(tracker, Head(inbox).process, Head(inbox).seq)
    <3>1. Passes(Head(inbox))
      BY <1>5, <2>2, <2>4 DEF Consume, Passes
    <3> QED
      BY <2>2, <3>1, FirstProduct, SameProcess, TakesOver
  <2> QED
    BY <2>3, <2>4
<1> QED
  BY <1>1, <1>2, <1>4, <1>5 DEF NwwsNext, NwwsStep, NwwsEnvironment
----------------------------------------------------------------------------
(* The theorems.                                                           *)

LEMMA AtStart == Init => BootInv /\ HeatInv /\ ReapInv /\ StopInv /\ ReplayInv
<1> SUFFICES ASSUME Init
             PROVE  BootInv /\ HeatInv /\ ReapInv /\ StopInv /\ ReplayInv
  OBVIOUS
<1>1. BootInv /\ HeatInv
  BY DEF Init, SdrInit, BootInv, HeatInv, LatchHolds
<1>2. ReapInv
  <2>1. processes = HeldPrograms /\ victims \in Victims
    BY DEF Init, SdrInit, HeldPrograms, Victims
  <2> QED
    BY <2>1 DEF Init, SdrInit, ReapInv, Idle
<1>3. StopInv
  BY PhaseOrder DEF Init, StopInv
<1>4. ReplayInv
  <2>1. passed = <<>> /\ inbox = <<>> /\ tracker.retired = <<>> /\ tracker = Untracked
    BY DEF Init, NwwsInit, Untracked
  <2>2. MemoryInv
    BY <2>1, TrackerAssumption DEF MemoryInv, ToSet
  <2> QED
    BY <2>1, <2>2 DEF ReplayInv, RetiredInOrder, Forgotten, NoReplay
<1> QED
  BY <1>1, <1>2, <1>3, <1>4

\* Whatever the sensor reports or fails to report, a receiver stopped for
\* heat spawns nothing before a reading below the restart threshold
\* (_wait_until_cool).
THEOREM HotStaysOff == Spec => []LatchHolds
<1>1. Init => BootInv /\ HeatInv
  BY AtStart
<1>2. BootInv /\ HeatInv /\ [Next]_vars => (BootInv /\ HeatInv)'
  BY BootStep, ReceiverSteps, HeatStep
<1>3. HeatInv => LatchHolds
  BY DEF HeatInv
<1> QED
  BY <1>1, <1>2, <1>3, PTL DEF Spec

\* Whichever spawn fails, and whichever process exits or outlives its signals,
\* what still runs of a cycle when the next one begins, or the receiver has
\* ended, has got SIGKILL, unless the receiver's cancellation cut the wait
\* short (_stop_processes).
THEOREM NothingOutlivesItsCycle == Spec => []ProcessesReaped
<1>1. Init => BootInv /\ ReapInv
  BY AtStart
<1>2. BootInv /\ ReapInv /\ [Next]_vars => (BootInv /\ ReapInv)'
  BY BootStep, ReceiverSteps, ReapStep
<1>3. ReapInv => ProcessesReaped
  BY IdleNow DEF ProcessesReaped, Idle
<1> QED
  BY <1>1, <1>2, <1>3, PTL DEF Spec

\* The database is closed only when nothing is left that uses it, whatever
\* was under way when the shutdown began (lifespan).
THEOREM ShutdownLeavesNothing == Spec => []CleanStop
<1>1. Init => StopInv
  BY AtStart
<1>2. StopInv => CleanStop
  BY DEF StopInv, CleanStop, PastWorker, PastDrain, PastIpaws, PastNwws, PastArbitration,
         PastNoaa
<1> QED
  BY <1>1, <1>2, StopStep, PTL DEF Spec

\* Across reconnects, replays and failovers, with a memory of any size, a
\* product is passed on once and in the order of its process, unless more
\* processes took over since than the tracker remembers (observe).
THEOREM PassedOnOnce == Spec => []NoReplay
<1>1. Init => BootInv /\ ReplayInv
  BY AtStart
<1>2. BootInv /\ ReplayInv /\ [Next]_vars => (BootInv /\ ReplayInv)'
  BY BootStep, ReceiverSteps, ReplayStep
<1>3. ReplayInv => NoReplay
  BY DEF ReplayInv
<1> QED
  BY <1>1, <1>2, <1>3, PTL DEF Spec
=============================================================================
