------------------------------ MODULE NoaaSdr ------------------------------
(***************************************************************************)
(* NoaaSdrSupervisor of app/noaa_sdr.py: the cycles in which rtl_fm and    *)
(* multimon-ng are spawned, watched, terminated and spawned again, and the *)
(* thermal latch over them.                                                *)
(*                                                                         *)
(* The environment makes processes exit, stall and ignore signals, fails   *)
(* spawns and gives temperatures.  A temperature is one of the ranges that *)
(* the thresholds cut: below restart, below start_hold, below stop, or     *)
(* above, or no reading.  A cycle ends in one way, whichever of its tasks  *)
(* ended it.  Left out: the health record, the audio statistics and the    *)
(* length of the backoff, which doubles and never shrinks again.           *)
(***************************************************************************)
EXTENDS Naturals, Sequences

Programs == {"rtl_fm", "multimon-ng"}
Readings == {"none", "cool", "mild", "warm", "hot"}

VARIABLES
  stage,     \* where run is
  leaving,   \* the task was cancelled
  processes, \* _processes
  victims,   \* the processes _stop_processes has still to wait for
  killed,    \* the first of them got SIGKILL
  alive,     \* programs of which a process runs that got no SIGKILL
  struck,    \* programs of which a process runs that got SIGKILL
  latched,   \* _thermal_latched
  hot,       \* history: hot while it ran, and no reading below restart since
  cut        \* history: cancelled inside _stop_processes

sdrVars == <<stage, leaving, processes, victims, killed, alive, struck, latched, hot, cut>>

SdrInit ==
  /\ stage = "ended" /\ leaving = FALSE
  /\ processes = <<>> /\ victims = <<>> /\ killed = FALSE
  /\ alive = {} /\ struck = {}
  /\ latched = FALSE /\ hot = FALSE /\ cut = FALSE

\* run, with both executables found or not.
SdrStart ==
  /\ stage' \in {"hold", "ended"}
  /\ UNCHANGED <<leaving, processes, victims, killed, alive, struck, latched, hot, cut>>
----------------------------------------------------------------------------
(* The thermal hold.                                                       *)

\* Mutant of Cleared: the sensor fails, the receiver starts.
ClearedByNothing(reading) == reading \in {"none", "cool"} \/ (reading = "mild" /\ ~latched)

\* _wait_until_cool: a missing reading does not clear the latch.
Cleared(reading) ==
  \/ reading = "cool"
  \/ reading \in {"mild", "none"} /\ ~latched

Hold(reading) ==
  /\ stage = "hold" /\ Cleared(reading) /\ stage' = "spawn rtl_fm"
  /\ latched' = (latched /\ reading = "none")
  /\ hot' = (hot /\ reading # "cool")
  /\ UNCHANGED <<leaving, processes, victims, killed, alive, struck, cut>>
----------------------------------------------------------------------------
(* The end of a cycle.                                                     *)

\* _stop_processes: what is alive is sent SIGTERM, then waited for in turn.
StopProcesses ==
  /\ stage' = "stopping" /\ killed' = FALSE
  /\ victims' = processes /\ processes' = <<>>
  /\ UNCHANGED <<alive, struck>>

\* The first victim still runs: what a wait after SIGKILL waits for has got it.
VictimRuns == Head(victims) \in IF killed THEN struck ELSE alive

\* A victim is gone, or was gone before.
Reaped ==
  /\ stage = "stopping" /\ victims # <<>> /\ ~VictimRuns
  /\ victims' = Tail(victims) /\ killed' = FALSE
  /\ UNCHANGED <<stage, leaving, processes, alive, struck, latched, hot, cut>>

\* Mutant of FirstTimeout: nothing follows the first wait.
FirstTimeoutPasses ==
  victims' = Tail(victims) /\ UNCHANGED <<killed, alive, struck>>

\* terminate_timeout passes: SIGKILL, which the process may outlive.
FirstTimeout ==
  /\ killed' = TRUE /\ UNCHANGED victims
  /\ alive' = alive \ {Head(victims)} /\ struck' = struck \cup {Head(victims)}

\* It passes again, and the process is left behind as it is.
SecondTimeout ==
  /\ killed' = FALSE /\ victims' = Tail(victims)
  /\ UNCHANGED <<alive, struck>>

WaitIsOver ==
  /\ stage = "stopping" /\ victims # <<>> /\ VictimRuns
  /\ IF killed THEN SecondTimeout ELSE FirstTimeout
  /\ UNCHANGED <<stage, leaving, processes, latched, hot, cut>>

\* Mutant of AfterCycle: a cycle that failed ends the receiver.
AfterCycleOnce == "ended"

\* Mutant of AfterCycle: a cancellation passes for a failed cycle.
AfterCycleSwallows == "backoff"

\* A cycle is over: backoff, unless the task was cancelled.
AfterCycle == IF leaving THEN "ended" ELSE "backoff"

AllStopped ==
  /\ stage = "stopping" /\ victims = <<>> /\ stage' = AfterCycle
  /\ UNCHANGED <<leaving, processes, victims, killed, alive, struck, latched, hot, cut>>

BackoffOver ==
  /\ stage = "backoff" /\ stage' = "hold"
  /\ UNCHANGED <<leaving, processes, victims, killed, alive, struck, latched, hot, cut>>
----------------------------------------------------------------------------
(* The cycle.                                                              *)

SpawnRtl(ok) ==
  /\ stage = "spawn rtl_fm"
  /\ IF ok THEN /\ stage' = "spawn multimon-ng" /\ alive' = alive \cup {"rtl_fm"}
                /\ processes' = Append(processes, "rtl_fm")
     ELSE stage' = "backoff" /\ UNCHANGED <<alive, processes>>
  /\ UNCHANGED <<leaving, victims, killed, struck, latched, hot, cut>>

\* If the decoder does not start, rtl_fm is stopped too.
SpawnDecoder(ok) ==
  /\ stage = "spawn multimon-ng"
  /\ IF ok THEN /\ stage' = "running" /\ alive' = alive \cup {"multimon-ng"}
                /\ processes' = Append(processes, "multimon-ng")
                /\ UNCHANGED <<victims, killed, struck>>
     ELSE StopProcesses
  /\ UNCHANGED <<leaving, latched, hot, cut>>

\* A stream ends or stalls, a process exits, the decoder babbles or blocks:
\* every task of the cycle is cancelled, a header in the callback with them.
CycleFails ==
  /\ stage = "running" /\ StopProcesses
  /\ UNCHANGED <<leaving, latched, hot, cut>>

\* _watch_temperature.
TooHot ==
  /\ stage = "running" /\ StopProcesses
  /\ latched' = TRUE /\ hot' = TRUE
  /\ UNCHANGED <<leaving, cut>>

\* A process exits, of itself or by a signal.
Exits(p) ==
  /\ \/ p \in alive /\ alive' = alive \ {p} /\ UNCHANGED struck
     \/ p \in struck /\ struck' = struck \ {p} /\ UNCHANGED alive
  /\ UNCHANGED <<stage, leaving, processes, victims, killed, latched, hot, cut>>

\* The task is cancelled where it is.
SdrCancel ==
  /\ leaving' = TRUE
  /\ \/ /\ stage \in {"spawn multimon-ng", "running"} /\ StopProcesses /\ UNCHANGED cut
     \/ /\ stage \in {"hold", "spawn rtl_fm", "backoff", "ended"} /\ stage' = "ended"
        /\ UNCHANGED <<processes, victims, killed, alive, struck, cut>>
     \/ /\ stage = "stopping" /\ stage' = "ended" /\ victims' = <<>> /\ cut' = TRUE
        /\ UNCHANGED <<processes, killed, alive, struck>>
  /\ UNCHANGED <<latched, hot>>
----------------------------------------------------------------------------
\* Timers and waits of the supervisor.
SdrStep == Reaped \/ WaitIsOver \/ AllStopped \/ BackoffOver

SdrEnvironment ==
  \/ \E reading \in Readings : Hold(reading)
  \/ \E ok \in BOOLEAN : SpawnRtl(ok) \/ SpawnDecoder(ok)
  \/ CycleFails \/ TooHot
  \/ \E p \in Programs : Exits(p)
----------------------------------------------------------------------------
\* Between two cycles, and when the receiver has ended, every process that
\* still runs has got SIGKILL, so a second rtl_fm is spawned beside a first
\* only while the system does not carry out the kill (_stop_processes goes on
\* after two waits), except where the cancellation of a shutdown cut
\* _stop_processes short.
ProcessesReaped ==
  stage \in {"hold", "spawn rtl_fm", "backoff", "ended"} /\ ~cut => alive = {}

\* After a stop for heat nothing is spawned before a reading below the
\* restart threshold, whatever readings fail in between (_wait_until_cool).
LatchHolds == hot => stage \notin {"spawn rtl_fm", "spawn multimon-ng", "running"}
=============================================================================
