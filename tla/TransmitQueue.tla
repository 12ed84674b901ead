--------------------------- MODULE TransmitQueue ---------------------------
(***************************************************************************)
(* The transmit queue of app/transmit.py: three bounded lanes (warnings,   *)
(* details, and IPAWS messages with MeshWX frames) and the one worker that *)
(* empties them, an entry every BURST_GAP_SECONDS.                         *)
(*                                                                         *)
(* An entry is one call of an enqueue_* function with its on_result        *)
(* callback; the results the callback gets are recorded, what the caller   *)
(* does with them is left out.  A lane is the set of its entries, ordered  *)
(* by `stamp`: the deque is only appended to, popped and filtered.  A step *)
(* of the worker runs from one await to the next; "look" is the head of    *)
(* its loop after an entry, before which a callback may enqueue more.      *)
(* Entries name a transport that exists and frames are well-formed; the    *)
(* process is not stopped, and the lanes do not outlive it.                *)
(***************************************************************************)
EXTENDS Naturals, FiniteSets, Sequences

CONSTANTS
  Entries,   \* the calls clients may make
  Lane,      \* [Entries -> Lanes]
  Keys,      \* correlation keys
  Key,       \* [Entries -> Keys]
  Frames,    \* the MeshWX frames, which a full lane turns away
  Cap,       \* QUEUE_MAX, the entries a lane holds
  None       \* no entry in the worker's hand

Lanes   == {"high", "detail", "low"}
Results == {"sent", "failed", "superseded", "dropped", "refused", "skipped"}
Places  == {"look", "wait", "gap", "send", "backoff", "dead"}

ASSUME QueueAssumption ==
  /\ Lane \in [Entries -> Lanes] /\ Key \in [Entries -> Keys]
  /\ Frames \subseteq {e \in Entries : Lane[e] = "low"}
  /\ Cap \in Nat \ {0} /\ None \notin Entries

VARIABLES
  queued,       \* the entries in the lanes
  stamp,        \* when an entry joined its lane, 0 before
  conditional,  \* the entries with require_prior_success
  chain,        \* _chain_results
  worker,       \* where the worker is
  woken,        \* _queue_event
  hand,         \* the entry in _transmit_item
  answers,      \* the results each on_result got
  airs          \* history: the entries a radio took

lanes == <<queued, stamp, conditional>>
vars  == <<lanes, chain, worker, woken, hand, answers, airs>>

In(l)     == {e \in queued : Lane[e] = l}
Full(l)   == Cardinality(In(l)) = Cap
Joined(l) == {e \in Entries : Lane[e] = l /\ stamp[e] > 0}
Fresh(e)  == stamp[e] = 0 /\ answers[e] = <<>>

\* The left end of the deque that holds the entries S.
Oldest(S) == CHOOSE e \in S : \A x \in S : stamp[e] <= stamp[x]

Init ==
  /\ queued = {} /\ stamp = [e \in Entries |-> 0] /\ conditional = {}
  /\ chain = [k \in Keys |-> "none"]
  /\ worker = "wait" /\ woken = FALSE /\ hand = None
  /\ answers = [e \in Entries |-> <<>>] /\ airs = {}

\* _safe_result for the entries S.
Answer(S, result) ==
  answers' = [e \in Entries |-> IF e \in S THEN Append(answers[e], result)
                                ELSE answers[e]]
----------------------------------------------------------------------------
(* The clients.                                                            *)

\* The entry a deque with maxlen drops for e.
Evicted(e) == IF Full(Lane[e]) THEN {Oldest(In(Lane[e]))} ELSE {}

\* Mutant of Signals: enqueue_meshwx appends to the lane and leaves it there.
SignalsUnlessFrame(e) == e \notin Frames

\* Both ways into a lane set _queue_event.
Signals(e) == e \in Entries

\* _enqueue and enqueue_meshwx: the lane makes room by dropping its oldest.
Submit(e, cond) ==
  /\ Fresh(e)
  /\ e \in Frames => ~Full("low")
  /\ cond => Lane[e] = "high"
  /\ queued' = (queued \ Evicted(e)) \cup {e}
  /\ stamp' = [stamp EXCEPT ![e] = Cardinality(Joined(Lane[e])) + 1]
  /\ conditional' = IF cond THEN conditional \cup {e} ELSE conditional
  /\ Answer(Evicted(e), "dropped")
  /\ woken' = (woken \/ Signals(e))
  /\ UNCHANGED <<chain, worker, hand, airs>>

\* enqueue_meshwx, the lane is full.
Refuse(e) ==
  /\ Fresh(e) /\ e \in Frames /\ Full("low")
  /\ Answer({e}, "refused")
  /\ UNCHANGED <<lanes, chain, worker, woken, hand, airs>>

\* Mutant of Withdrawn: the entry on the air is withdrawn as well.
WithdrawnInFlight(k) == {e \in queued \cup ({hand} \ {None}) : Key[e] = k}

Withdrawn(k) == {e \in queued : Key[e] = k}

\* Mutant of Cancel: the callers are told, the lanes are not filtered.
CancelInName(k) ==
  /\ Answer(Withdrawn(k), "superseded")
  /\ UNCHANGED <<lanes, chain, worker, woken, hand, airs>>

\* cancel_queued_correlation; the entry on the air is untouched.
Cancel(k) ==
  /\ queued' = queued \ Withdrawn(k)
  /\ Answer(Withdrawn(k), "superseded")
  /\ UNCHANGED <<stamp, conditional, chain, worker, woken, hand, airs>>

\* The poller's _discard_chain_result.
Forget(k) ==
  /\ chain' = [chain EXCEPT ![k] = "none"]
  /\ UNCHANGED <<lanes, worker, woken, hand, answers, airs>>
----------------------------------------------------------------------------
(* The worker.                                                             *)

\* Mutant of NextUp: details are sent before the cards that follow.
NextUpDetailsFirst ==
  Oldest(CASE In("detail") # {} -> In("detail")
           [] In("detail") = {} /\ In("high") # {} -> In("high")
           [] OTHER             -> In("low"))

\* Warnings before details, details before the rest.
NextUp ==
  Oldest(CASE In("high") # {}   -> In("high")
           [] In("high") = {} /\ In("detail") # {} -> In("detail")
           [] OTHER             -> In("low"))

\* The head of the loop: pace the next entry, or wait for one.
Look ==
  /\ worker = "look"
  /\ IF queued = {} THEN worker' = "wait" /\ woken' = FALSE
     ELSE worker' = "gap" /\ UNCHANGED woken
  /\ UNCHANGED <<lanes, chain, hand, answers, airs>>

\* The event was set, and the lanes were emptied meanwhile.
WakeInVain ==
  /\ worker = "wait" /\ woken /\ queued = {}
  /\ woken' = FALSE
  /\ UNCHANGED <<lanes, chain, worker, hand, answers, airs>>

\* Awake or paced, with an entry to take.
Ready == queued # {} /\ (worker = "gap" \/ (worker = "wait" /\ woken))

\* Mutant of Unmet: only a known failure holds an entry back.
UnmetIfFailed(e) == e \in conditional /\ chain[Key[e]] = "failed"

\* The predecessor of a conditional entry was not accepted.
Unmet(e) == e \in conditional /\ chain[Key[e]] # "sent"

Skip ==
  /\ Ready /\ Unmet(NextUp)
  /\ queued' = queued \ {NextUp}
  /\ Answer({NextUp}, "skipped")
  /\ worker' = "look"
  /\ UNCHANGED <<stamp, conditional, chain, woken, hand, airs>>

Take ==
  /\ Ready /\ ~Unmet(NextUp)
  /\ queued' = queued \ {NextUp} /\ hand' = NextUp
  /\ worker' = "send"
  /\ UNCHANGED <<stamp, conditional, chain, woken, answers, airs>>

\* The lanes were emptied during the gap: popleft raises outside the try.
Die ==
  /\ worker = "gap" /\ queued = {}
  /\ worker' = "dead"
  /\ UNCHANGED <<lanes, chain, woken, hand, answers, airs>>

\* Mutants of AfterSend: a failed send is tried again from the loop, with
\* nothing in hand; an exception while sending ends the worker.
AfterSendAgain(result) == IF result = "sent" THEN "look" ELSE "send"

AfterSendDying(result) == IF result = "sent" THEN "look" ELSE "dead"

\* A failure is followed by the reconnect delay.
AfterSend(result) == IF result = "sent" THEN "look" ELSE "backoff"

\* _transmit_item returned or raised.  It may raise after the radio took
\* the text, when the transmit log cannot be written.
Finish(result) ==
  /\ worker = "send"
  /\ chain' = [chain EXCEPT ![Key[hand]] = result]
  /\ Answer({hand}, result)
  /\ airs' \in {airs, airs \cup {hand}}
  /\ result = "sent" => hand \in airs'
  /\ hand' = None
  /\ worker' = AfterSend(result)
  /\ UNCHANGED <<lanes, woken>>

Resume ==
  /\ worker = "backoff"
  /\ worker' = "look"
  /\ UNCHANGED <<lanes, chain, woken, hand, answers, airs>>
----------------------------------------------------------------------------
WorkerStep ==
  \/ Look \/ WakeInVain \/ Skip \/ Take \/ Die \/ Resume
  \/ Finish("sent") \/ Finish("failed")

Next ==
  \/ \E e \in Entries, cond \in BOOLEAN : Submit(e, cond)
  \/ \E e \in Entries : Refuse(e)
  \/ \E k \in Keys : Cancel(k) \/ Forget(k)
  \/ WorkerStep

Spec == Init /\ [][Next]_vars

\* The worker's sleeps end, and so does every send: each is tried at most
\* three times with bounded waits (a driver call that hangs is not modelled).
FairSpec == Spec /\ WF_vars(WorkerStep)
----------------------------------------------------------------------------
\* Every variable stays in its range, and the worker holds an entry exactly
\* while it sends.
TypeOK ==
  /\ queued \subseteq Entries /\ conditional \subseteq Entries
  /\ stamp \in [Entries -> Nat]
  /\ chain \in [Keys -> {"none", "sent", "failed"}]
  /\ worker \in Places /\ woken \in BOOLEAN
  /\ hand \in Entries \cup {None} /\ (hand = None <=> worker # "send")
  /\ answers \in [Entries -> Seq(Results)]
  /\ airs \subseteq Entries

\* No callback is called twice: an entry that was evicted, withdrawn or
\* skipped is out of the worker's reach, and one on the air cannot be
\* withdrawn (cancel_queued_correlation, _enqueue, _worker).
AnsweredOnce == \A e \in Entries : Len(answers[e]) <= 1

\* What its caller was told is not on the air never gets there: a
\* superseded, dropped, refused or skipped entry was not broadcast.
WithdrawnNeverAirs ==
  \A e \in airs : \/ answers[e] = <<"sent">> \/ answers[e] = <<"failed">>

\* A conditional entry reaches the worker's hand only after another entry
\* of its chain was accepted (require_prior_success).
ConditionalFollowsSuccess ==
  \A e \in conditional :
    (e = hand \/ answers[e] \in {<<"sent">>, <<"failed">>}) =>
      \E x \in Entries : x # e /\ Key[x] = Key[e] /\ answers[x] = <<"sent">>

\* The worker ends only when the lanes are emptied behind its back: no
\* failed send, full lane or raising database stops the broadcasts.
OnlyACancelKills ==
  worker = "dead" => \E e \in Entries : answers[e] = <<"superseded">>

\* transmit.py:1349-1350: a failure "must not kill the worker -- that would
\* silently stop ALL future broadcasts".
WorkerSurvives == worker # "dead"

\* No detail, message or frame goes to the radio while a warning waits.
WarningsGoFirst ==
  [][hand' \notin {hand, None} /\ Lane[hand'] # "high" => In("high")' = {}]_vars

\* Every entry a lane took is answered, as long as the worker lives: there
\* is no lost wake-up and no entry left behind.  The entries being finitely
\* many, a moment comes again and again when all of them are.
EveryEntryIsAnswered ==
  []<>(worker = "dead" \/ \A e \in Entries : stamp[e] > 0 => Len(answers[e]) > 0)
=============================================================================
