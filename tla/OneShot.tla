------------------------------ MODULE OneShot ------------------------------
(***************************************************************************)
(* What the arbitration of a hazard promises a destination: the initial    *)
(* warning is handed out to one source at a time, only that source's       *)
(* success delivers it, a delivered or closed warning is never handed out  *)
(* again, and once a later product closes the hazard nothing is handed out *)
(* at all.  No source, route, lane, attempt or crash is visible here.      *)
(***************************************************************************)
CONSTANT Dests

VARIABLES
  open,    \* no later product has taken the hazard over
  claim    \* per destination, [st, by]: its state and the source it is with

vars == <<open, claim>>

Free(st)  == [st |-> st, by |-> ""]
Held(s)   == [st |-> "sending", by |-> s]
Active(c) == c.st \in {"waiting", "sending"}

Init == open = TRUE /\ claim = [d \in Dests |-> Free("unknown")]

\* A destination becomes known, is handed to a source, handed back,
\* delivered by the source that holds it, or closed.
Hand(c, n)    == /\ c.st \in {"unknown", "waiting"}
                 /\ n \in {Free("waiting"), Held("same"), Held("rest")}
Return(c, n)  == c.st = "sending" /\ n = Free("waiting")
Deliver(c, n) == c.st = "sending" /\ n = [st |-> "delivered", by |-> c.by]
Finish(c, n)  == (Active(c) \/ c.st = "unknown") /\ n = Free("closed")

Moves(c, n) ==
  n = c \/ Hand(c, n) \/ Return(c, n) \/ Deliver(c, n) \/ Finish(c, n)

\* One step may move several destinations: a source claims a set of them.
Next ==
  /\ open' => open
  /\ \A d \in Dests : /\ Moves(claim[d], claim'[d])
                      /\ ~open' => ~Active(claim'[d])

Spec == Init /\ [][Next]_vars
=============================================================================
