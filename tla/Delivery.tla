------------------------------ MODULE Delivery ------------------------------
(***************************************************************************)
(* The delivery of one hazard outside the arbitration (app/poller.py):     *)
(* _process, _delivery_targets, the on_result callbacks of cards, details  *)
(* and MeshWX frames, and what they keep in alert_delivery_state and       *)
(* meshwx_delivery_state.  This is the path of every alert when the NOAA   *)
(* receiver is off, and of the alerts the arbiter finds ineligible.        *)
(*                                                                         *)
(* An element of Alerts is one feature: a product of the chain as the REST *)
(* service lists it or, in Wire, as NWWS-OI sends it.  _process awaits     *)
(* nothing, so it is one step, and so is a callback.  The radio and its    *)
(* lanes are those of TransmitQueue without their limit and their pauses;  *)
(* a lane is never full and its worker lives.  Time is left out: nothing   *)
(* expires and the sender is not in dry run.                               *)
(***************************************************************************)
EXTENDS Naturals, Sequences, FiniteSets, SequencesExt

CONSTANTS
  Alerts,         \* the features
  Wire,           \* those received through NWWS-OI
  Nth,            \* [Alerts -> Nat \ {0}], the product, in the order of issue
  Type,           \* [Alerts -> Types], messageType
  Own,            \* [Alerts -> Ids], the id the feature came with
  Refs,           \* [Alerts -> SUBSET Ids], references
  Text,           \* [Alerts -> material content], as _delivery_hash sees it
  Detail,         \* [Alerts -> detail text or None], build_alert_detail
  Area,           \* [Alerts -> SUBSET Counties], geocode.UGC
  Counties, Ids, Dests,
  Rules,          \* [Dests -> SUBSET Counties], the rules at the start
  LegacyIncludes, \* the event passes the global filter
  MaxMishaps,     \* bound: crashes, unsure sends and edits of the operator
  Editable,       \* bound: the rules, <<destination, county>>, he edits
  None

Types  == {"Alert", "Update", "Cancel"}
Chains == Ids \X Dests   \* chain_key: root id and destination
Disps  == {"sent", "update", "cleared", "cancelled"}

\* A row of alert_delivery_state, None where there is none.
Row == [last : Ids, disp : Disps,
        text : {Text[a] : a \in Alerts}, areas : SUBSET Counties,
        dId : Ids \cup {None}, dText : {Detail[a] : a \in Alerts} \cup {None},
        dState : {"none", "queued", "accepted", "failed", "superseded"}]

\* The entries of the three lanes; a card keeps the counties it was made for.
Card == [kind : {"card"}, alert : Alerts, dest : Dests, root : Ids,
         disp : Disps, areas : SUBSET Counties, cond : BOOLEAN]
DetailEntry == [kind : {"detail"}, alert : Alerts, root : Ids, dest : Dests]
Frame == [kind : {"frame"}, alert : Alerts]

ASSUME DeliveryAssumption ==
  /\ Wire \subseteq Alerts /\ Nth \in [Alerts -> Nat \ {0}]
  /\ Type \in [Alerts -> Types] /\ Own \in [Alerts -> Ids]
  /\ Refs \in [Alerts -> SUBSET Ids] /\ Area \in [Alerts -> SUBSET Counties]
  /\ Rules \in [Dests -> SUBSET Counties]
  /\ DOMAIN Text = Alerts /\ DOMAIN Detail = Alerts
  /\ LegacyIncludes \in BOOLEAN /\ MaxMishaps \in Nat
  /\ IsFiniteSet(Ids) /\ IsFiniteSet(Dests) /\ "unknown" \notin Ids
  /\ None \notin Ids \cup {Text[a] : a \in Alerts} \cup Row
               \cup Card \cup DetailEntry \cup Frame

\* What the REST service lists of a hazard: a feature per product, and each
\* refers to those before it.
ASSUME FeedAssumption ==
  \A a, b \in Alerts \ Wire :
    /\ Nth[a] = Nth[b] => a = b
    /\ Nth[b] < Nth[a] => Own[b] \in Refs[a]

VARIABLES
  listed,       \* the product the REST service lists, 0 before the first
  wired,        \* the last product received through NWWS-OI
  rules,        \* the counties of each destination's routing rules
  enabled,      \* the destinations that are enabled
  mishaps,
  alias,        \* _vtec_aliases: the hazard's id, "unknown", or "no VTEC"
  rows,         \* alert_delivery_state
  mesh,         \* meshwx_delivery_state
  cards, details, frames,  \* the three lanes
  air,          \* the entry the worker sends
  conditional,  \* _conditional_chains
  result,       \* _chain_results of the cards' chains
  seen,         \* history: the product processed last
  log           \* history: what each destination's radio took

store  == <<alias, rows, mesh>>
lanes  == <<cards, details, frames>>
memory == <<air, conditional, result>>
world  == <<listed, wired, rules, enabled, mishaps>>
vars   == <<world, store, lanes, memory, seen, log>>

Init ==
  /\ listed = 0 /\ wired = 0 /\ mishaps = 0
  /\ rules = Rules /\ enabled = Dests
  /\ alias \in IF Wire = {} THEN {"unknown", "no VTEC"} ELSE {"unknown"}
  /\ rows = [c \in Chains |-> None] /\ mesh = [i \in Ids |-> None]
  /\ cards = <<>> /\ details = <<>> /\ frames = <<>>
  /\ air = None /\ conditional = {}
  /\ result = [c \in Chains |-> "none"]
  /\ seen = 0 /\ log = [d \in Dests |-> <<>>]
----------------------------------------------------------------------------
(* What _process reads.                                                    *)

\* _correlate_feature: the id every copy of the hazard goes by.
IdOf(a) == IF alias \in Ids THEN alias ELSE Own[a]

\* route_alert: the matched_areas of a destination, and who has any.
Areas(a, d) == Area[a] \cap rules[d]
Matches(a)  == {d \in enabled : Areas(a, d) # {}}

IsChange(a) == Type[a] \in {"Update", "Cancel"} \/ Refs[a] # {}
Related(a)  == {IdOf(a)} \cup Refs[a]

\* delivery_states_for_alerts.
Prior(a) ==
  LET related == Related(a)
  IN  {c \in Chains : /\ rows[c] # None
                      /\ {c[1], rows[c].last, rows[c].dId} \cap related # {}}

\* The entries of lane s that are in E, in their order.
Kept(s, E) ==
  LET I == {i \in DOMAIN s : s[i] \in E}
      Rank(i)  == Cardinality({k \in I : k <= i})
      Place(j) == CHOOSE i \in I : Rank(i) = j
  IN  [j \in 1..Cardinality(I) |-> s[Place(j)]]

ChainOf(e) == <<e.root, e.dest>>
OnAir(kind) == IF air = None THEN {} ELSE {e \in {air} : e.kind = kind}

\* _pending_deliveries, and those of the chain.
Pending == ToSet(cards) \cup OnAir("card")
RelatedPending(a) ==
  {e \in Pending : e.root \in Related(a) \/ IdOf(e.alert) \in Related(a)}

\* Mutant of Pulled: an update leaves what waits in the lane.
PulledByCancel(a) ==
  IF Type[a] = "Cancel" THEN {ChainOf(e) : e \in RelatedPending(a)} ELSE {}

\* What a change of the chain withdraws from the lanes.
Pulled(a) == IF IsChange(a) THEN {ChainOf(e) : e \in RelatedPending(a)} ELSE {}
Remaining(a)  == Kept(cards, {e \in ToSet(cards) : ChainOf(e) \notin Pulled(a)})
Withdrawn(a)  == ToSet(cards) \ ToSet(Remaining(a))
Active(a)     == RelatedPending(a) \ Withdrawn(a)
LateDetails(a) ==
  IF IsChange(a)
  THEN {c \in Prior(a) : rows[c].dState = "queued" /\ rows[c].dId # IdOf(a)}
  ELSE {}

\* Nothing of the chain was sent and nothing routes it.
Ignored(a) ==
  /\ ~LegacyIncludes \/ Type[a] = "Cancel"
  /\ Matches(a) = {}
  /\ ~IsChange(a) \/ (Prior(a) = {} /\ RelatedPending(a) = {})
----------------------------------------------------------------------------
(* _delivery_targets: who hears the product, in which chain and how.       *)

Target(d, root, disp, areas) ==
  [dest |-> d, root |-> root, disp |-> disp, areas |-> areas]

\* The chain of a destination: of its row, else of its pending card, else of
\* any recipient, the rows of a hazard sharing their root.
RootFor(a, d, pending) ==
  LET mine  == {c[1] : c \in {x \in Prior(a) : x[2] = d}}
      going == {e.root : e \in {x \in pending : x.dest = d}}
      any   == {c[1] : c \in Prior(a)} \cup {e.root : e \in pending}
  IN  CASE mine # {}                   -> CHOOSE r \in mine : TRUE
        [] mine = {} /\ going # {}     -> CHOOSE r \in going : TRUE
        [] mine \cup going = {} /\ any # {} -> CHOOSE r \in any : TRUE
        [] OTHER                       -> IdOf(a)

RowsOf(a, d) == {rows[c] : c \in {x \in Prior(a) : x[2] = d}}
Recipients(a) == {c[2] : c \in Prior(a)}
Going(a)      == {e.dest : e \in Active(a)}

\* The card for d that was queued last, of those a leaves pending.
Newest(a, d) ==
  LET waiting == Kept(cards, {e \in Active(a) : e.dest = d})
  IN  IF waiting = <<>> THEN air ELSE Last(waiting)

\* The counties a cancellation or an all-clear names: those of the row, else
\* those of the pending card.
Snapshot(a, d) ==
  IF RowsOf(a, d) # {} THEN (CHOOSE r \in RowsOf(a, d) : TRUE).areas
  ELSE Newest(a, d).areas

\* Mutant of CancelTargets: only those who were warned last.
CancelTargetsWarned(a) ==
  {Target(d, RootFor(a, d, Active(a)), "cancelled", Snapshot(a, d)) :
     d \in {x \in (Recipients(a) \cup Going(a)) \cap enabled :
              \A r \in RowsOf(a, x) : r.disp \in {"sent", "update"}}}

\* Everyone who heard of the hazard or is about to.
CancelTargets(a) ==
  {Target(d, RootFor(a, d, Active(a)), "cancelled", Snapshot(a, d)) :
     d \in {x \in (Recipients(a) \cup Going(a)) \cap enabled :
              \A r \in RowsOf(a, x) : ~(r.last = IdOf(a) /\ r.disp = "cancelled")}}

\* Those the product reaches now and who did not hear it for its counties.
NewsTargets(a) ==
  LET fresh == {d \in Matches(a) : RowsOf(a, d) = {}}
      stale == {d \in Matches(a) \ fresh :
                  \A r \in RowsOf(a, d) :
                    ~(/\ r.disp \in {"sent", "update"}
                      /\ r.text = Text[a] /\ r.areas = Areas(a, d))}
      first == IF IsChange(a) THEN "update" ELSE "sent"
  IN  {Target(d, RootFor(a, d, RelatedPending(a)), first, Areas(a, d)) : d \in fresh}
      \cup {Target(d, RootFor(a, d, {}), "update", Areas(a, d)) : d \in stale}

\* Those the product's counties no longer reach.
ClearTargets(a) ==
  {Target(d, RootFor(a, d, Active(a)), "cleared", Snapshot(a, d)) :
     d \in {x \in (Recipients(a) \cup Going(a)) \cap (enabled \ Matches(a)) :
              \A r \in RowsOf(a, x) : r.disp \notin {"cleared", "cancelled"}}}

\* Mutant of Targets: pending cards are queued again.
TargetsAgain(a) ==
  IF Type[a] = "Cancel" THEN CancelTargets(a) ELSE NewsTargets(a) \cup ClearTargets(a)

\* The targets, less those whose very card is pending (_pending_key).
Targets(a) ==
  LET all  == IF Type[a] = "Cancel" THEN CancelTargets(a)
              ELSE NewsTargets(a) \cup ClearTargets(a)
      same(e, t) == /\ e.dest = t.dest /\ IdOf(e.alert) = IdOf(a)
                    /\ Text[e.alert] = Text[a] /\ e.areas = t.areas
  IN  {t \in all : \A e \in Pending \ Withdrawn(a) : ~same(e, t)}

\* Mutant of NeedsPrior: nothing waits for its predecessor.
NeedsPriorNever(a, t) == FALSE

\* require_prior: the only card the destination may have heard is on its way.
NeedsPrior(a, t) ==
  /\ t.disp \in {"cancelled", "cleared"}
  /\ \E e \in Active(a) : ChainOf(e) = ChainOf(t)
  /\ RowsOf(a, t.dest) = {}

CardFor(a, t) ==
  [kind |-> "card", alert |-> a, dest |-> t.dest, root |-> t.root,
   disp |-> t.disp, areas |-> t.areas, cond |-> NeedsPrior(a, t)]
----------------------------------------------------------------------------
(* Details and frames.  R and M are the tables as the step has left them.  *)

\* Mutant of WantsDetail: a detail that waits is queued again.
WantsDetailUntilAccepted(R, a, c) ==
  /\ Detail[a] # None /\ R[c] # None
  /\ ~(R[c].dText = Detail[a] /\ R[c].dState = "accepted")

\* _queue_detail_if_needed.
WantsDetail(R, a, c) ==
  /\ Detail[a] # None /\ R[c] # None
  /\ ~(/\ R[c].dText = Detail[a]
       /\ R[c].dState = "accepted" \/ (R[c].dState = "queued" /\ R[c].dId = IdOf(a)))

WithDetails(R, a, S) ==
  [c \in Chains |-> IF c \in S
                    THEN [R[c] EXCEPT !.dId = IdOf(a), !.dText = Detail[a],
                                      !.dState = "queued"]
                    ELSE R[c]]

DetailEntries(a, S) ==
  SetToSeq({[kind |-> "detail", alert |-> a, root |-> c[1], dest |-> c[2]] : c \in S})

\* _queue_meshwx_if_needed.
WantsFrame(a) ==
  /\ ~IsChange(a)
  /\ \/ mesh[IdOf(a)] = None
     \/ mesh[IdOf(a)].text # Text[a] \/ mesh[IdOf(a)].state = "failed"

QueueFrame(a) ==
  /\ mesh'   = [mesh EXCEPT ![IdOf(a)] = [text |-> Text[a], state |-> "queued"]]
  /\ frames' = Append(frames, [kind |-> "frame", alert |-> a])

OfferFrame(a) ==
  IF WantsFrame(a) THEN QueueFrame(a) ELSE UNCHANGED <<mesh, frames>>
----------------------------------------------------------------------------
(* _process.                                                               *)

\* The frames of the chain: a change withdraws them, a repeat retries.
SettleFrames(a) ==
  CASE IsChange(a) ->
         /\ frames' = Kept(frames, {f \in ToSet(frames) :
                                     IdOf(f.alert) \notin Related(a)})
         /\ mesh' = [i \in Ids |-> IF i \in Related(a) /\ mesh[i] # None
                                   THEN [mesh[i] EXCEPT !.state = "superseded"]
                                   ELSE mesh[i]]
    [] ~IsChange(a) /\ Prior(a) # {} -> OfferFrame(a)
    [] OTHER -> UNCHANGED <<mesh, frames>>

RowsSuperseded(a) ==
  LET late == LateDetails(a)
  IN  [c \in Chains |-> IF c \in late
                        THEN [rows[c] EXCEPT !.dState = "superseded"] ELSE rows[c]]

DetailsKept(a) ==
  Kept(details, {e \in ToSet(details) : ChainOf(e) \notin LateDetails(a)})

\* The callbacks of the withdrawn cards, then the cards of the targets.
Deliver(a) ==
  LET new   == {CardFor(a, t) : t \in Targets(a)}
      gone  == {ChainOf(e) : e \in Withdrawn(a)}
      freed == {ChainOf(e) : e \in {x \in Withdrawn(a) : x.cond}}
      kept  == conditional \ freed
  IN  /\ cards' = Remaining(a) \o SetToSeq(new)
      /\ conditional' = kept \cup {ChainOf(e) : e \in {x \in new : x.cond}}
      /\ result' = [c \in Chains |-> IF c \in gone \ kept THEN "none" ELSE result[c]]

\* _retry_detail_if_needed: nobody is to hear the product now.
RetryDetails(a) ==
  LET last == {c \in Prior(a) : c[2] \in Matches(a) /\ rows[c].disp \in {"sent", "update"}}
      S    == {c \in last : WantsDetail(RowsSuperseded(a), a, c)}
  IN  IF Type[a] # "Cancel" /\ Targets(a) = {} THEN S ELSE {}

Process(a) ==
  /\ alias' = IF alias = "unknown" THEN Own[a] ELSE alias
  /\ SettleFrames(a)
  /\ IF Ignored(a) THEN UNCHANGED <<rows, details, cards, conditional, result>>
     ELSE LET S == RetryDetails(a)
          IN  /\ Deliver(a)
              /\ rows' = WithDetails(RowsSuperseded(a), a, S)
              /\ details' = DetailsKept(a) \o DetailEntries(a, S)
  /\ seen' = Nth[a]
  /\ UNCHANGED <<air, log>>

\* poll_once finds the listed product.
Poll ==
  \E a \in Alerts \ Wire :
    /\ Nth[a] = listed /\ Process(a)
    /\ UNCHANGED world

\* ingest_feature with source nwws, each product once and in order.
Receive(a) ==
  /\ a \in Wire /\ Nth[a] > wired
  /\ wired' = Nth[a] /\ Process(a)
  /\ UNCHANGED <<listed, rules, enabled, mishaps>>
----------------------------------------------------------------------------
(* The worker, and the callbacks it makes.                                 *)

\* Mutant of Retire: the answer is kept after the last card of the chain.
RetireKeeping(e, C, sent) ==
  /\ conditional' = C
  /\ result' = [result EXCEPT ![ChainOf(e)] = sent]

\* The end of a card's _on_result: C is what is left of _conditional_chains.
Retire(e, C, sent) ==
  /\ conditional' = C
  /\ result' = [result EXCEPT ![ChainOf(e)] = IF ChainOf(e) \in C THEN sent ELSE "none"]

ConditionalAfter(e) == IF e.cond THEN conditional \ {ChainOf(e)} ELSE conditional

TakeCard ==
  /\ air = None /\ cards # <<>>
  /\ cards' = Tail(cards)
  /\ LET e == Head(cards)
     IN  IF e.cond /\ result[ChainOf(e)] # "sent"
         THEN Retire(e, ConditionalAfter(e), result[ChainOf(e)]) /\ UNCHANGED air
         ELSE air' = e /\ UNCHANGED <<conditional, result>>
  /\ UNCHANGED <<world, store, details, frames, seen, log>>

TakeRest ==
  /\ air = None /\ cards = <<>>
  /\ \/ /\ details # <<>>
        /\ air' = Head(details) /\ details' = Tail(details) /\ UNCHANGED frames
     \/ /\ details = <<>> /\ frames # <<>>
        /\ air' = Head(frames) /\ frames' = Tail(frames) /\ UNCHANGED details
  /\ UNCHANGED <<world, store, cards, conditional, result, seen, log>>

Hears(e, what, areas, known) ==
  log' = [log EXCEPT ![e.dest] =
            Append(@, [what |-> what, alert |-> e.alert, areas |-> areas,
                       known |-> known])]

\* _record_delivery: the row of the chain, its detail columns kept.
Recorded(e) ==
  LET old == rows[ChainOf(e)]
  IN  [rows EXCEPT ![ChainOf(e)] =
         [last |-> IdOf(e.alert), disp |-> e.disp,
          text |-> Text[e.alert], areas |-> e.areas,
          dId    |-> IF old = None THEN None ELSE old.dId,
          dText  |-> IF old = None THEN None ELSE old.dText,
          dState |-> IF old = None THEN "none" ELSE old.dState]]

\* The card was accepted: its row, its detail and the frame of its alert.
CardSent ==
  /\ OnAir("card") # {}
  /\ LET c == ChainOf(air)
         S == IF air.disp \in {"sent", "update"} /\ WantsDetail(Recorded(air), air.alert, c)
              THEN {c} ELSE {}
     IN  /\ rows' = WithDetails(Recorded(air), air.alert, S)
         /\ details' = details \o DetailEntries(air.alert, S)
  /\ OfferFrame(air.alert)
  /\ Retire(air, ConditionalAfter(air), "sent")
  /\ Hears(air, air.disp, air.areas, TRUE)
  /\ air' = None
  /\ UNCHANGED <<world, alias, cards, seen>>

\* The card failed; its radio may have taken it all the same.
CardFailed(unsure) ==
  /\ OnAir("card") # {}
  /\ unsure => mishaps < MaxMishaps
  /\ mishaps' = IF unsure THEN mishaps + 1 ELSE mishaps
  /\ IF unsure THEN Hears(air, air.disp, air.areas, FALSE) ELSE UNCHANGED log
  /\ Retire(air, ConditionalAfter(air), "failed")
  /\ air' = None
  /\ UNCHANGED <<listed, wired, rules, enabled, store, lanes, seen>>

\* finalize_detail_delivery: the row may have moved on.
DetailDone(sent) ==
  /\ OnAir("detail") # {}
  /\ LET c == ChainOf(air)
         current == /\ rows[c].dState = "queued" /\ rows[c].dId = IdOf(air.alert)
                    /\ rows[c].dText = Detail[air.alert]
     IN  rows' = IF current
                 THEN [rows EXCEPT ![c].dState = IF sent THEN "accepted" ELSE "failed"]
                 ELSE rows
  /\ IF sent THEN Hears(air, "detail", {}, TRUE) ELSE UNCHANGED log
  /\ air' = None
  /\ UNCHANGED <<world, alias, mesh, lanes, conditional, result, seen>>

FrameDone(sent) ==
  /\ OnAir("frame") # {}
  /\ LET i == IdOf(air.alert)
     IN  mesh' = IF mesh[i].state = "superseded" THEN mesh
                 ELSE [mesh EXCEPT ![i] = [text  |-> Text[air.alert],
                                           state |-> IF sent THEN "accepted" ELSE "failed"]]
  /\ air' = None
  /\ UNCHANGED <<world, alias, rows, lanes, conditional, result, seen, log>>
----------------------------------------------------------------------------
(* The world: the office, the operator, and the machine.                   *)

Publish ==
  /\ \E a \in Alerts \ Wire : Nth[a] = listed + 1
  /\ listed' = listed + 1
  /\ UNCHANGED <<wired, rules, enabled, mishaps, store, lanes, memory, seen, log>>

Flip(S, d) == IF d \in S THEN S \ {d} ELSE S \cup {d}

\* The operator adds a county to a destination's rules or removes one, or
\* flips the destination itself.
Edit(d) ==
  /\ mishaps < MaxMishaps /\ mishaps' = mishaps + 1
  /\ \/ /\ \E c \in {x \in Counties : <<d, x>> \in Editable} :
             rules' = [rules EXCEPT ![d] = Flip(@, c)]
        /\ UNCHANGED enabled
     \/ enabled' = Flip(enabled, d) /\ UNCHANGED rules
  /\ UNCHANGED <<listed, wired, store, lanes, memory, seen, log>>

\* A crash loses the lanes, and the answer to the card on the air;
\* WxPoller.__init__ makes what was queued retryable.
Crash ==
  /\ mishaps < MaxMishaps /\ mishaps' = mishaps + 1
  /\ cards' = <<>> /\ details' = <<>> /\ frames' = <<>>
  /\ air' = None /\ conditional' = {} /\ result' = [c \in Chains |-> "none"]
  /\ rows' = [c \in Chains |-> IF rows[c] # None /\ rows[c].dState = "queued"
                               THEN [rows[c] EXCEPT !.dState = "failed"] ELSE rows[c]]
  /\ mesh' = [i \in Ids |-> IF mesh[i] # None /\ mesh[i].state = "queued"
                            THEN [mesh[i] EXCEPT !.state = "failed"] ELSE mesh[i]]
  /\ \/ UNCHANGED log
     \/ OnAir("card") # {} /\ Hears(air, air.disp, air.areas, FALSE)
  /\ UNCHANGED <<listed, wired, rules, enabled, alias, seen>>

Worker ==
  \/ TakeCard \/ TakeRest
  \/ CardSent \/ CardFailed(FALSE)
  \/ \E sent \in BOOLEAN : DetailDone(sent) \/ FrameDone(sent)

Next ==
  \/ Poll \/ Worker \/ CardFailed(TRUE)
  \/ Publish \/ Crash
  \/ \E d \in Dests : Edit(d)

Spec == Init /\ [][Next]_vars

\* With the NWWS-OI feed as well, not in shadow mode.
DualNext == Next \/ \E a \in Wire : Receive(a)
DualSpec == Init /\ [][DualNext]_vars

----------------------------------------------------------------------------
Warnings == {"sent", "update"}

\* An all-clear or a cancellation is heard only where a warning was heard
\* before, whatever fails, crosses or crashes in between: the conditional
\* cards of _process and _worker.
ClearOnlyAfterWarning ==
  \A d \in Dests : \A i \in DOMAIN log[d] :
    log[d][i].what \in {"cleared", "cancelled"} =>
      \E j \in 1..(i - 1) : log[d][j].what \in Warnings

\* Only cards of the product processed last wait in the lane: a change has
\* withdrawn what came before it, so nothing outdated starts to be sent.
WaitingIsCurrent == \A e \in ToSet(cards) : Nth[e.alert] = seen

\* "Never rebroadcasts the same alert" (README.md:79): a destination hears a
\* product's warning for the same counties again only if the radio's answer
\* to the first was lost, or if it was told something else in between: an
\* all-clear, or the product for other counties, as the operator edited the
\* rules.  Likewise its cancellation.
HeardOnce ==
  \A d \in Dests : \A i, j \in DOMAIN log[d] :
    (/\ i < j /\ Nth[log[d][i].alert] = Nth[log[d][j].alert]
     /\ log[d][i].areas = log[d][j].areas
     /\ {log[d][i].what, log[d][j].what} \subseteq Warnings
        \/ {log[d][i].what, log[d][j].what} = {"cancelled"}) =>
      \/ ~log[d][i].known
      \/ \E k \in i..j : /\ log[d][k].what # "detail"
                        /\ \/ log[d][k].what = "cleared"
                           \/ log[d][k].areas # log[d][i].areas

\* No two products of the REST feed have one text, or one detail.
OwnContent ==
  \A a, b \in Alerts \ Wire :
    (Text[a] = Text[b] \/ (Detail[a] = Detail[b] /\ Detail[a] # None)) => a = b

\* A detail is accepted once, retries and restarts included: the columns of
\* _queue_detail_if_needed tell its states apart while the products' contents
\* differ.
DetailHeardOnce ==
  OwnContent =>
    \A d \in Dests : \A i, j \in DOMAIN log[d] :
      (i < j /\ log[d][i].what = "detail" /\ log[d][j].what = "detail") =>
        log[d][i].alert # log[d][j].alert

\* The answer of a predecessor is kept only for a card that waits for it
\* (_discard_chain_result), so that no later card takes it for its own.
NoStaleAnswer ==
  /\ \A c \in Chains : result[c] # "none" => c \in conditional
  /\ conditional \subseteq {ChainOf(e) : e \in {x \in Pending : x.cond}}

\* A cancellation "removes queued detail and sends no new detail"
\* (tests/test_routing.py:959).
NoDetailAfterCancel ==
  \A d \in Dests : \A i, j \in DOMAIN log[d] :
    i < j /\ log[d][i].what = "cancelled" => log[d][j].what # "detail"

\* Where the cards are in the log of d whose answers arrived.
KnownCards(d) == {i \in DOMAIN log[d] : log[d][i].known /\ log[d][i].what # "detail"}

\* The destination d has heard what the listed product a has to say.
Told(d, a) ==
  LET heard  == KnownCards(d)
      latest == log[d][Max(heard)]
      warned == heard # {} /\ latest.what \in Warnings
  IN  CASE Type[a] = "Cancel"  -> heard = {} \/ latest.what = "cancelled"
        [] Type[a] # "Cancel" /\ d \in Matches(a) ->
             /\ warned /\ Text[latest.alert] = Text[a]
             /\ latest.areas = Areas(a, d)
        [] OTHER -> ~warned

\* Nothing is forgotten: when no card is on its way and a poll of the listed
\* product finds no target, every enabled destination has been told of it,
\* warned for the counties its rules name now where it applies, cleared where
\* it no longer does, and cancelled where anything was heard.
QuietMeansTold ==
  \A a \in Alerts \ Wire :
    (Nth[a] = listed /\ Pending = {} /\ Targets(a) = {}) =>
      \A d \in enabled : Told(d, a)
=============================================================================
