------------------------------ MODULE PollLoop ------------------------------
(***************************************************************************)
(* WxPoller._run of app/poller.py: poll, wait for the interval or a poke,  *)
(* poll again.  What a poll does is module Delivery's; here it returns,    *)
(* raises or hangs.  Time is left out, and with it _wake: a poke cuts the  *)
(* wait short, and one that _run clears after a poll only costs the rest   *)
(* of the interval.                                                        *)
(***************************************************************************)
EXTENDS Naturals

VARIABLES
  poll,   \* where _run is
  hung,   \* the poll under way will not return
  unseen  \* history: settings were saved and no poll has begun since

pollVars == <<poll, hung, unseen>>

PollInit == poll = "none" /\ hung = FALSE /\ unseen = FALSE

\* start.
PollStart == poll' = "polling" /\ UNCHANGED <<hung, unseen>>

\* poke, after a settings change.
Poke ==
  /\ poll # "none" /\ unseen' = TRUE
  /\ UNCHANGED <<poll, hung>>

\* poll_once is stuck on the network or a lock.
Hang ==
  /\ poll = "polling" /\ ~hung /\ hung' = TRUE
  /\ UNCHANGED <<poll, unseen>>

\* Mutant of Aborted: a poll has all the time it wants.
AbortedNever == ~hung

\* wait_for gives a poll POLL_HARD_TIMEOUT seconds.
Aborted == TRUE

\* The poll returns, raises or is aborted.
PollEnds ==
  /\ poll = "polling" /\ Aborted
  /\ poll' = "waiting" /\ hung' = FALSE
  /\ UNCHANGED unseen

\* The interval passes, or the wait is cut short by a poke: the next poll
\* begins and reads the settings.
PollAgain ==
  /\ poll = "waiting" /\ poll' = "polling" /\ unseen' = FALSE
  /\ UNCHANGED hung

\* stop, which cancels the loop and awaits it.
PollStop ==
  /\ poll' = "none" /\ UNCHANGED <<hung, unseen>>

PollStep == PollEnds \/ PollAgain
=============================================================================
