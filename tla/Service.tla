------------------------------ MODULE Service ------------------------------
(***************************************************************************)
(* The process of app/main.py: the lifespan that starts and stops the      *)
(* parts on one event loop, and the watchdog thread of app/watchdog.py     *)
(* that ends a process whose loop has stalled.                             *)
(*                                                                         *)
(* The receivers, the poll loop and the shutdown are modelled in their own *)
(* steps; of every other task the model keeps whether it is alive, since   *)
(* the modules TransmitQueue, Arbitration and Ipaws are about their work.  *)
(* The receivers share nothing but the loop, so one of them is enabled, or *)
(* none; the arbiter comes with the NOAA receiver.                         *)
(***************************************************************************)
EXTENDS NwwsRuntime, NoaaSdr, PollLoop

CONSTANTS
  Receivers,     \* subset of {"nwws", "noaa", "none"}, one of which is enabled
  MaxStalls,     \* stalls of the event loop
  MaxFallbacks   \* failed SAME sends

ASSUME ServiceAssumption ==
  /\ Receivers \subseteq {"nwws", "noaa", "none"}
  /\ MaxStalls \in Nat /\ MaxFallbacks \in Nat

VARIABLES
  receiver,   \* the one that is enabled
  phase,      \* where lifespan is: what it awaits, or an end
  tasks,      \* the other tasks that are alive
  cancelled,  \* those of them that were cancelled
  fallbacks,  \* WeatherArbiter._tasks
  failures,   \* failed SAME sends so far
  stalled,    \* the event loop is blocked
  stalls      \* how often it was

others == <<receiver, tasks, cancelled, fallbacks, failures>>
loop   == <<stalled, stalls>>
vars   == <<nwwsVars, sdrVars, pollVars, others, phase, loop>>

Arbitrated == receiver = "noaa"
Ended      == phase \in {"closed", "killed"}

Init ==
  /\ NwwsInit /\ SdrInit /\ PollInit
  /\ receiver \in Receivers /\ phase = "boot"
  /\ tasks = {} /\ cancelled = {} /\ fallbacks = 0 /\ failures = 0
  /\ stalled = FALSE /\ stalls = 0
----------------------------------------------------------------------------
\* lifespan up to its yield, which awaits nothing that suspends.
Boot ==
  /\ phase = "boot" /\ phase' = "serving"
  /\ tasks' = {"worker", "startup", "ipaws"}
              \cup (IF Arbitrated THEN {"arbitration"} ELSE {})
  /\ PollStart
  /\ IF receiver = "nwws" THEN NwwsStart ELSE UNCHANGED nwwsVars
  /\ IF receiver = "noaa" THEN SdrStart ELSE UNCHANGED sdrVars
  /\ UNCHANGED <<receiver, cancelled, fallbacks, failures, loop>>

\* _startup_serial is done, or a cancelled task ends.
TaskEnds(t) ==
  /\ t \in tasks /\ t \in cancelled \cup {"startup"}
  /\ tasks' = tasks \ {t}
  /\ UNCHANGED <<nwwsVars, sdrVars, pollVars, receiver, cancelled, fallbacks, failures,
                 phase, loop>>

\* The worker reports a failed SAME send: _release_failed_same gets a task.
FallbackBegins ==
  /\ Arbitrated /\ "worker" \in tasks \ cancelled /\ failures < MaxFallbacks
  /\ fallbacks' = fallbacks + 1 /\ failures' = failures + 1
  /\ UNCHANGED <<nwwsVars, sdrVars, pollVars, receiver, tasks, cancelled, phase, loop>>

FallbackEnds ==
  /\ fallbacks > 0 /\ fallbacks' = fallbacks - 1
  /\ UNCHANGED <<nwwsVars, sdrVars, pollVars, receiver, tasks, cancelled, failures, phase,
                 loop>>
----------------------------------------------------------------------------
(* The shutdown, one step from await to await.                             *)

Cancel(ts) ==
  cancelled' = cancelled \cup ts /\ UNCHANGED <<receiver, tasks, fallbacks, failures>>

Awaits(p, next) == phase = p /\ phase' = next

\* The watchdog is stopped, and four tasks are cancelled.
Shutdown ==
  /\ Awaits("serving", "noaa")
  /\ SdrCancel /\ Cancel({"startup", "arbitration"})
  /\ UNCHANGED <<nwwsVars, pollVars>>

NoaaIsDown ==
  /\ Awaits("noaa", "arbitration") /\ stage = "ended"
  /\ UNCHANGED <<nwwsVars, sdrVars, pollVars, others>>

ArbitrationIsDown ==
  /\ Awaits("arbitration", "nwws") /\ "arbitration" \notin tasks
  /\ IF receiver = "nwws" THEN NwwsStop ELSE UNCHANGED nwwsVars
  /\ UNCHANGED <<sdrVars, pollVars, others>>

NwwsIsDown ==
  /\ Awaits("nwws", "ipaws") /\ NwwsStopped
  /\ PollStop /\ Cancel({"ipaws"})
  /\ UNCHANGED <<nwwsVars, sdrVars>>

IpawsIsDown ==
  /\ Awaits("ipaws", "drain") /\ "ipaws" \notin tasks
  /\ UNCHANGED <<nwwsVars, sdrVars, pollVars, others>>

\* Mutant of Drained: the fallbacks are not awaited.
DrainedNever == TRUE

\* WeatherArbiter.drain looks again after it has waited.
Drained == fallbacks = 0

\* After drain's last look nothing runs before tx.stop cancels the worker.
DrainIsDone ==
  /\ Awaits("drain", "worker") /\ Drained
  /\ Cancel({"worker"}) /\ UNCHANGED <<nwwsVars, sdrVars, pollVars>>

WorkerIsDown ==
  /\ Awaits("worker", "radios") /\ "worker" \notin tasks
  /\ UNCHANGED <<nwwsVars, sdrVars, pollVars, others>>

\* Every radio is closed, which may take for ever, and then the database.
RadiosAreClosed ==
  /\ Awaits("radios", "closed")
  /\ UNCHANGED <<nwwsVars, sdrVars, pollVars, others>>

ShutdownStep ==
  NoaaIsDown \/ ArbitrationIsDown \/ NwwsIsDown \/ IpawsIsDown \/ DrainIsDone \/ WorkerIsDown
----------------------------------------------------------------------------
(* The event loop and the watchdog.                                        *)

\* A call blocks the event loop.
Stall ==
  /\ ~stalled /\ stalls < MaxStalls /\ ~Ended
  /\ stalled' = TRUE /\ stalls' = stalls + 1
  /\ UNCHANGED <<nwwsVars, sdrVars, pollVars, others, phase>>

Unblock ==
  /\ stalled /\ ~Ended /\ stalled' = FALSE
  /\ UNCHANGED <<nwwsVars, sdrVars, pollVars, others, phase, stalls>>

\* Mutant of Watched: the watchdog is never started.
WatchedNever == FALSE

\* The watchdog runs from before the parts start until the shutdown begins.
Watched == phase \in {"boot", "serving"}

\* Liveness._run finds no heartbeat for stall_seconds and exits the process.
Watchdog ==
  /\ stalled /\ Watched /\ phase' = "killed"
  /\ UNCHANGED <<nwwsVars, sdrVars, pollVars, others, loop>>
----------------------------------------------------------------------------
\* What the event loop runs, a part at a time.
Nwws    == (NwwsStep \/ NwwsEnvironment) /\ UNCHANGED <<sdrVars, pollVars, others, phase, loop>>
Noaa    == (SdrStep \/ SdrEnvironment) /\ UNCHANGED <<nwwsVars, pollVars, others, phase, loop>>
Polling == (PollStep \/ Poke \/ Hang) /\ UNCHANGED <<nwwsVars, sdrVars, others, phase, loop>>

Turning == ~stalled /\ ~Ended

Next ==
  \/ /\ Turning
     /\ \/ Boot \/ FallbackBegins \/ FallbackEnds \/ Nwws \/ Noaa \/ Polling
        \/ \E t \in tasks : TaskEnds(t)
        \/ (Shutdown \/ ShutdownStep \/ RadiosAreClosed) /\ UNCHANGED loop
  \/ Stall \/ Unblock \/ Watchdog

Spec == Init /\ [][Next]_vars

\* The loop is fair to every task, timers run out, and cancelled tasks end.
\* Nothing is assumed of the server, the receiver, the temperature, the
\* length of a stall or the close of a radio.
Fairness ==
  /\ WF_vars(Turning /\ Boot)
  /\ WF_vars(Turning /\ NwwsStep /\ Nwws)
  /\ WF_vars(Turning /\ SdrStep /\ Noaa)
  /\ WF_vars(Turning /\ PollStep /\ Polling)
  /\ WF_vars(Turning /\ \E t \in tasks : TaskEnds(t))
  /\ WF_vars(Turning /\ FallbackEnds)
  /\ WF_vars(Turning /\ ShutdownStep /\ UNCHANGED loop)
  /\ WF_vars(Watchdog)

FairSpec == Spec /\ Fairness
----------------------------------------------------------------------------
\* When the database is closed no task that uses it is alive, whatever was
\* under way when the shutdown began, except the startup task, which is
\* cancelled and not awaited (lifespan).
CleanStop ==
  phase = "closed" =>
    /\ tasks \subseteq {"startup"} /\ fallbacks = 0
    /\ NwwsStopped /\ stage = "ended" /\ poll = "none"

\* A shutdown comes to the close of the radios, whatever the receivers were
\* doing, unless the loop stalls when nobody watches any more.
ShutdownEnds == phase = "noaa" ~> phase \in {"radios", "closed"} \/ stalled

\* Saved settings are polled with, although a poll may hang and the loop may
\* stall, or the service ends (POLL_HARD_TIMEOUT, Liveness).
SettingsAreSeen == unseen ~> ~unseen \/ phase # "serving"

\* A receiver whose session or cycle has failed tries again, however often
\* it fails, while the service runs.
ReceiverReturns ==
  /\ connection \in {"closing", "backoff"} ~> connection = "running" \/ phase # "serving"
  /\ stage \in {"stopping", "backoff"} ~> stage = "hold" \/ phase # "serving"
=============================================================================
