---------------------------- MODULE Arbitration ----------------------------
(***************************************************************************)
(* The durable arbitration of ONE weather hazard between the NOAA radio    *)
(* (SAME, heard at once) and the NWS REST feed (held for a grace period):  *)
(* app/arbitration.py over the tables of app/db.py, with the part of       *)
(* app/poller.py that turns a claim into a delivery attempt and the one    *)
(* worker of app/transmit.py.                                              *)
(*                                                                         *)
(* A destination gets the initial warning from the source that claims its  *)
(* row; later products of the hazard (CON, EXT, CAN, EXP) go through an    *)
(* outbox.  Everything in "memory" is lost by a crash.                     *)
(*                                                                         *)
(* Abstractions: alert texts, times and counties are left out.  A product  *)
(* is NEW or a member of Followups, ordered by Order; the 48 hours of      *)
(* retention never end; every observation matches the one candidate; no    *)
(* two products have the same text; a broadcast is one once it is logged.  *)
(***************************************************************************)
EXTENDS Naturals

CONSTANTS
  Dests,           \* the destinations (a radio channel each)
  Followups,       \* the follow-up products of the hazard's VTEC
  Action,          \* [Followups -> {"CON", "EXT", "CAN", "EXP"}]
  Order,           \* [Followups -> Nat], product times (NEW has 0)
  LegacyIncludes,  \* do the legacy include rules admit the event?
  PartialFaults,   \* may a database error strike between two enqueues?
  MaxMishaps       \* bounds crashes, faults and administrative edits together

Sources  == {"same", "rest"}
Kinds    == Sources \cup Followups
Features == {"none", "NEW"} \cup Followups
Phases   == {"none", "initial", "updated", "cancelled", "expired"}
Terminal == {"cancelled", "expired"}
Disps    == {"sent", "update", "cleared", "cancelled"}

ASSUME ConstantsAssumption ==
  /\ Followups \cap {"same", "rest", "none", "NEW"} = {}
  /\ Action \in [Followups -> {"CON", "EXT", "CAN", "EXP"}]
  /\ Order \in [Followups -> Nat]
  /\ LegacyIncludes \in BOOLEAN /\ PartialFaults \in BOOLEAN
  /\ MaxMishaps \in Nat

VARIABLES
  phase, canonical, restFeature, due,  \* the candidate row
  dests,        \* weather_arbitration_destinations
  outbox,       \* weather_arbitration_followups
  told,         \* alert_delivery_state: root id -> destinations
  alias,        \* nwws_vtec_aliases[identity]
  unsettled,    \* attempts still 'queued' with a successful transmit_log row
  live,         \* attempts in a lane or on the air (memory)
  tasks,        \* same-rest-fallback tasks (memory)
  prepared,     \* a coroutine between prepare_ and deliver_ (memory)
  recoverable,  \* _recoverable_followups (memory)
  cover,        \* what route_alert finds for each source's product
  enabled,      \* enabled destinations
  airings,      \* history: logged broadcasts of the initial warning
  heard,        \* history: root id -> destinations with a logged broadcast
  mishaps       \* crashes, faults and edits so far

candidate == <<phase, canonical, restFeature, due>>
durable   == <<dests, outbox, told, unsettled>>
memory    == <<live, tasks, prepared, recoverable>>
admin     == <<cover, enabled>>
history   == <<airings, heard>>
vars == <<candidate, durable, alias, memory, admin, history, mishaps>>

Row == [state  : {"absent", "pending", "queued", "accepted", "superseded",
                  "no_fallback"},
        source : {"", "same", "rest"}, same : BOOLEAN, rest : BOOLEAN]
OutboxState ==
  {"absent", "pending", "queued", "accepted", "no_target", "superseded"}
Attempt == [dest : Dests, kind : Kinds, root : Sources, disp : Disps,
            stage : {"lane", "air"}, cond : {"no", "wait", "met", "unmet"}]
Evidence == [dest : Dests, kind : Kinds, root : Sources]

Absent == [state |-> "absent", source |-> "", same |-> FALSE, rest |-> FALSE]

Init ==
  /\ phase = "none" /\ canonical = "none" /\ restFeature = "none"
  /\ due = FALSE
  /\ dests = [d \in Dests |-> Absent]
  /\ outbox = [f \in Followups |-> [d \in Dests |-> "absent"]]
  /\ told = [r \in Sources |-> {}]
  /\ alias = "none" /\ unsettled = {}
  /\ live = {} /\ tasks = {} /\ prepared = FALSE /\ recoverable = {}
  /\ cover \in [Sources -> SUBSET Dests]
  /\ enabled = Dests
  /\ airings = [d \in Dests |-> 0] /\ heard = [r \in Sources |-> {}]
  /\ mishaps = 0
----------------------------------------------------------------------------
(* The operations on the destination rows.                                 *)

\* The enabled destinations route_alert finds for a source's product.
Reach(src) == cover[src] \cap enabled

Unsent(row) == row.state \in {"pending", "queued"}

\* Mutant of Close: the source is kept under a value no reader knows.
CloseUnknownSource(row, state) == [row EXCEPT !.state = state, !.source = "none"]

Close(row, state) == [row EXCEPT !.state = state, !.source = ""]

NewRow(src, open) ==
  [state |-> IF open THEN "pending" ELSE "superseded", source |-> "",
   same |-> src = "same", rest |-> src = "rest"]

\* record_arbitration_same, and the rows of a candidate SAME creates.
RecordSame(led, S, open) ==
  [d \in Dests |->
     IF d \notin S THEN led[d]
     ELSE IF led[d].state = "absent" THEN NewRow("same", open)
     ELSE [led[d] EXCEPT !.same = TRUE]]

\* REST membership is replaced as a whole: reset, then upserted.
RestMembers(led, R, open) ==
  [d \in Dests |->
     IF led[d].state # "absent" THEN [led[d] EXCEPT !.rest = (d \in R)]
     ELSE IF d \in R THEN NewRow("rest", open)
     ELSE led[d]]

\* Mutant of Bind: a replayed NEW opens rows whatever the phase.
BindReopening(led, R, open) == RestMembers(led, R, TRUE)

\* bind_arbitration_rest_new: a pending row only SAME covers has no fallback.
Bind(led, R, open) ==
  LET members == RestMembers(led, R, open)
  IN  [d \in Dests |->
         CASE members[d].state = "pending" /\ members[d].same
                /\ ~members[d].rest         -> Close(members[d], "no_fallback")
           [] Unsent(members[d]) /\ ~open   -> Close(members[d], "superseded")
           [] OTHER                         -> members[d]]

\* Mutant of Claimable: REST leaves the rows SAME covers to SAME.
ClaimableNoFallback(led, src) ==
  {d \in Dests : /\ led[d].state = "pending"
                 /\ IF src = "rest" THEN led[d].rest /\ ~led[d].same
                    ELSE led[d].same}

\* The rows a source may claim while the candidate is in its initial phase.
Claimable(led, src) ==
  {d \in Dests : /\ led[d].state = "pending"
                 /\ IF src = "rest" THEN led[d].rest ELSE led[d].same}

Claim(led, C, src) ==
  [d \in Dests |-> IF d \in C
                   THEN [led[d] EXCEPT !.state = "queued", !.source = src]
                   ELSE led[d]]

CloseAll(led, D, state) ==
  [d \in Dests |-> IF d \in D THEN Close(led[d], state) ELSE led[d]]

InFlight(d, kind) == \E a \in live : a.dest = d /\ a.kind = kind

NewAttempt(d, kind, root, disp, cond) ==
  [dest |-> d, kind |-> kind, root |-> root, disp |-> disp,
   stage |-> "lane", cond |-> cond]
----------------------------------------------------------------------------
(***************************************************************************)
(* _deliver_claimed: hand the claimed rows C to WxPoller._process.  The    *)
(* product travels under `id`, which a REST product exchanges for the      *)
(* alias of its VTEC.  Claimed rows that are not routed any more are       *)
(* closed, except when no route is left at all and the legacy rules drop   *)
(* the event: _process then returns without a result.  An exception        *)
(* releases every claim, also of the attempts E already enqueued.          *)
(***************************************************************************)
Handoff(led, C, src, id, waiting) ==
  LET root == IF src = "same" \/ alias = "none" THEN id ELSE alias
      sent == {d \in C \cap Reach(src) : ~InFlight(d, src)}
      lost == IF Reach(src) = {} /\ ~LegacyIncludes THEN {} ELSE C \ sent
      Enqueue(E) == live' = live \cup
                      {NewAttempt(d, src, root, "sent", "no") : d \in E}
  IN  IF C = {}
      THEN /\ dests' = led /\ tasks' = waiting
           /\ UNCHANGED <<alias, live, mishaps>>
      ELSE /\ alias' = IF src = "rest" THEN root ELSE alias
           /\ tasks' = IF src = "same" THEN waiting \cup lost ELSE waiting
           /\ \/ /\ dests' = CloseAll(Claim(led, C, src), lost, "no_fallback")
                 /\ Enqueue(sent)
                 /\ UNCHANGED mishaps
              \/ /\ mishaps < MaxMishaps
                 /\ \E E \in SUBSET sent :
                      /\ E = {} \/ PartialFaults
                      /\ Enqueue(E)
                 /\ dests' = CloseAll(led, lost, "no_fallback")
                 /\ mishaps' = mishaps + 1

\* _ingest_same: create or join the candidate, claim for SAME at once.
SameIngest ==
  LET S    == Reach("same")
      open == phase \in {"none", "initial"}
      id   == IF phase = "none" THEN "same" ELSE canonical
      led  == RecordSame(dests, S, open)
  IN  /\ S # {}
      /\ phase' = IF phase = "none" THEN "initial" ELSE phase
      /\ canonical' = id
      /\ Handoff(led, IF open THEN Claimable(led, "same") ELSE {},
                 "same", id, tasks)
      /\ UNCHANGED <<restFeature, due, outbox, told, unsettled, prepared,
                     recoverable, admin, history>>

\* ingest, no candidate yet: REST creates one and waits for the deadline.
RestCreate ==
  /\ phase = "none"
  /\ Reach("rest") # {}
  /\ phase' = "initial" /\ canonical' = "rest" /\ restFeature' = "NEW"
  /\ dests' = RestMembers(dests, Reach("rest"), TRUE)
  /\ UNCHANGED <<due, outbox, told, unsettled, alias, memory,
                 admin, history, mishaps>>

\* ingest, one SAME-only candidate: bind to it and claim what SAME left,
\* re-keyed to the canonical id.
RestBind ==
  LET led == Bind(dests, Reach("rest"), TRUE)
  IN  /\ phase = "initial" /\ restFeature = "none"
      /\ Reach("rest") # {}
      /\ restFeature' = "NEW"
      /\ Handoff(led, Claimable(led, "rest"), "rest", canonical, tasks)
      /\ UNCHANGED <<phase, canonical, due, outbox, told, unsettled,
                     prepared, recoverable, admin, history>>

\* ingest, the VTEC is known: refresh the REST coverage, claim nothing.
RestReplay ==
  /\ restFeature # "none"
  /\ Reach("rest") # {}
  /\ dests' = Bind(dests, Reach("rest"), phase = "initial")
  /\ UNCHANGED <<candidate, outbox, told, unsettled, alias, memory, admin,
                 history, mishaps>>

\* The grace period of the candidate runs out.
DeadlinePasses ==
  /\ phase # "none" /\ ~due
  /\ due' = TRUE
  /\ UNCHANGED <<phase, canonical, restFeature, durable, alias,
                 memory, admin, history, mishaps>>

\* release_due: claim the waiting rows and deliver the stored REST feature,
\* which still carries its own id.
ReleaseDue ==
  /\ due /\ phase = "initial" /\ restFeature # "none"
  /\ Claimable(dests, "rest") # {}
  /\ Handoff(dests, Claimable(dests, "rest"), "rest", "rest", tasks)
  /\ UNCHANGED <<candidate, outbox, told, unsettled, prepared, recoverable,
                 admin, history>>

\* _release_failed_same: the fallback task of one failed SAME delivery.
RunFallback(d) ==
  /\ d \in tasks
  /\ Handoff(dests,
             IF phase = "initial" /\ restFeature # "none"
             THEN {d} \cap Claimable(dests, "rest") ELSE {},
             "rest", "rest", tasks \ {d})
  /\ UNCHANGED <<candidate, outbox, told, unsettled, prepared, recoverable,
                 admin, history>>
----------------------------------------------------------------------------
(* Follow-up products.                                                     *)

PhaseAfter(f) == CASE Action[f] \in {"CON", "EXT"} -> "updated"
                   [] Action[f] = "CAN"            -> "cancelled"
                   [] Action[f] = "EXP"            -> "expired"

ProductOrder(feature) == IF feature \in Followups THEN Order[feature] ELSE 0

\* Mutant of Recipients: only the initial deliveries still open count.
RecipientsActiveOnly(f) ==
  (IF PhaseAfter(f) = "updated" THEN Reach("rest") ELSE {})
    \cup {d \in Dests : Unsent(dests[d])}

\* Whom prepare_followup addresses.
Recipients(f) ==
  (IF PhaseAfter(f) = "updated" THEN Reach("rest") ELSE {})
    \cup {d \in Dests : Unsent(dests[d])}
    \cup told[canonical]

\* Mutant of Admitted: the product time is not compared.
AdmittedUnordered(f) == phase \in Terminal => restFeature = f

\* The products the transaction admits: no older one, and a terminal phase
\* only its own product again.
Admitted(f) ==
  /\ Order[f] >= ProductOrder(restFeature)
  /\ phase \in Terminal => restFeature = f

\* Mutant of OutboxFor: only waiting rows of older products are superseded.
OutboxForKeepingClaims(f, ids) ==
  [g \in Followups |-> [d \in Dests |->
     CASE g # f /\ outbox[g][d] = "pending"           -> "superseded"
       [] g = f /\ d \in ids /\ outbox[g][d] = "absent" -> "pending"
       [] OTHER                                         -> outbox[g][d]]]

\* The outbox once f is the product of the hazard, for the recipients ids.
OutboxFor(f, ids) ==
  [g \in Followups |-> [d \in Dests |->
     CASE g # f /\ outbox[g][d] \in {"pending", "queued"} -> "superseded"
       [] g = f /\ d \in ids /\ outbox[g][d] = "absent"    -> "pending"
       [] OTHER                                            -> outbox[g][d]]]

\* prepare_followup and apply_arbitration_followup, in one transaction.  A
\* terminal product that comes again only extends the retention.
PrepareFollowup(f) ==
  LET ids == Recipients(f)
      led == RestMembers(dests, ids, FALSE)
  IN  /\ restFeature # "none" /\ Admitted(f)
      /\ prepared' = TRUE
      /\ IF phase \in Terminal
         THEN UNCHANGED <<phase, restFeature, dests, outbox>>
         ELSE /\ phase' = PhaseAfter(f)
              /\ restFeature' = f
              /\ dests' = CloseAll(led, {d \in Dests : Unsent(led[d])},
                                   "superseded")
              /\ outbox' = OutboxFor(f, ids)
      /\ UNCHANGED <<canonical, due, told, unsettled, alias, live,
                     tasks, recoverable, admin, history, mishaps>>

Waiting(f) == {d \in Dests : outbox[f][d] = "pending"}

\* deliver_prepared_followup finds nothing left to claim.
NothingPrepared ==
  /\ prepared /\ \A f \in Followups : Waiting(f) = {}
  /\ prepared' = FALSE
  /\ UNCHANGED <<candidate, durable, alias, live, tasks, recoverable, admin,
                 history, mishaps>>

\* The alert ids _process relates to a follow-up.
Related == {canonical, IF alias = "none" THEN canonical ELSE alias}

ToldRoots(d) == {r \in Related : d \in told[r]}

\* The roots a newly covered destination may join: those of the chain's
\* delivered or still pending recipients, else the product's own id.
ChainRoots ==
  LET roots == {r \in Related : told[r] # {}}
                 \cup {a.root : a \in {b \in live : b.root \in Related}}
  IN  IF roots # {} THEN roots
      ELSE {IF alias = "none" THEN canonical ELSE alias}

Disposition(f, d) ==
  IF PhaseAfter(f) \in Terminal THEN "cancelled"
  ELSE IF d \in Reach("rest") THEN "update" ELSE "cleared"

\* The chain's attempts a follow-up pulls out of the lanes, and the one it
\* cannot: it is on the air.
Pulled == {a \in live : a.root \in Related /\ a.stage = "lane"}
Flying == {a \in live : a.root \in Related /\ a.stage = "air"}

\* The recipients that get a new attempt, and those whose own attempt was
\* pulled or is still under way: _process returns them to the outbox.
Addressed(f) ==
  {d \in Waiting(f) \cap enabled :
     ~\E a \in live \ Pulled : a.dest = d /\ a.kind = f}

Returned(f) ==
  {d \in Waiting(f) \cap enabled :
     \E a \in live \ Pulled : a.dest = d /\ a.kind = f}
  \cup {d \in Dests : /\ outbox[f][d] \in {"pending", "queued"}
                      /\ \E a \in Pulled : a.dest = d /\ a.kind = f}

\* The attempts a new one for d continues: an update any, a clear or a
\* cancel only the one on the air.
Ahead(f, d) ==
  {a \in Flying \cup (IF Disposition(f, d) = "update" THEN Pulled ELSE {}) :
     a.dest = d}

\* The root the attempt for d is filed under, r where nothing is known.
RootOf(f, d, r) ==
  IF ToldRoots(d) # {} THEN CHOOSE x \in ToldRoots(d) : TRUE
  ELSE IF Ahead(f, d) # {} THEN (CHOOSE a \in Ahead(f, d) : TRUE).root
  ELSE IF Disposition(f, d) = "update" THEN r ELSE canonical

\* require_prior: a clear or cancel of a destination whose first warning is
\* on the air waits for that warning's result.
CondOf(f, d, r) ==
  IF /\ Disposition(f, d) # "update" /\ ToldRoots(d) = {}
     /\ \E a \in Flying : a.dest = d /\ a.root = RootOf(f, d, r)
  THEN "wait" ELSE "no"

EnqueueFollowup(f, E, r) ==
  live' = (live \ Pulled) \cup
    {NewAttempt(d, f, RootOf(f, d, r), Disposition(f, d), CondOf(f, d, r)) :
       d \in E}

\* The claimed rows: carried by an attempt, back in the outbox, or without
\* a target.
MarkRows(f, carried, back) ==
  outbox' = [outbox EXCEPT ![f] = [d \in Dests |->
    CASE d \in back -> "pending"
      [] d \in carried \ back -> "queued"
      [] d \in Waiting(f) \ (carried \cup back) -> "no_target"
      [] OTHER -> @[d]]]

\* No route is left, nobody was told and nothing is under way: _process
\* returns before it looks for targets.
DropsFollowup(f) ==
  /\ Reach("rest") = {} /\ \A d \in Dests : ToldRoots(d) = {}
  /\ Pulled \cup Flying = {}
  /\ PhaseAfter(f) \in Terminal \/ ~LegacyIncludes

\* _release_pending_followups and _process for one follow-up: claim its
\* rows, pull the chain's unsent attempts out of the lanes, enqueue one
\* attempt per enabled recipient.  An exception releases every row of the
\* product, also of the attempts E already enqueued or sent earlier.
DeliverFollowup(f) ==
  /\ Waiting(f) # {}
  /\ prepared \/ f \in recoverable
  /\ prepared' = FALSE
  /\ alias' = IF alias = "none" THEN canonical ELSE alias
  /\ \/ /\ DropsFollowup(f)
        /\ MarkRows(f, Waiting(f), {})
        /\ recoverable' = recoverable \ {f}
        /\ UNCHANGED <<live, mishaps>>
     \/ /\ ~DropsFollowup(f)
        /\ \E r \in ChainRoots : EnqueueFollowup(f, Addressed(f), r)
        /\ MarkRows(f, Addressed(f), Returned(f))
        /\ recoverable' = IF Returned(f) = {} THEN recoverable \ {f}
                          ELSE recoverable \cup {f}
        /\ UNCHANGED mishaps
     \/ /\ ~DropsFollowup(f) /\ mishaps < MaxMishaps
        /\ \E r \in ChainRoots : \E E \in SUBSET Addressed(f) :
             (E = {} \/ PartialFaults) /\ EnqueueFollowup(f, E, r)
        /\ MarkRows(f, {}, {d \in Dests : \/ d \in Waiting(f) \cap enabled
                                          \/ outbox[f][d] = "queued"})
        /\ recoverable' = recoverable \cup {f}
        /\ mishaps' = mishaps + 1
  /\ UNCHANGED <<candidate, dests, told, unsettled, tasks, admin, history>>
----------------------------------------------------------------------------
(* The worker and the result callbacks.                                    *)

StartSend(a) ==
  /\ a \in live /\ a.stage = "lane" /\ a.cond \in {"no", "met"}
  /\ \A b \in live : b.stage # "air"
  /\ live' = (live \ {a}) \cup {[a EXCEPT !.stage = "air"]}
  /\ UNCHANGED <<candidate, durable, alias, tasks, prepared, recoverable,
                 admin, history, mishaps>>

\* Mutant of Retire: any result releases the attempt behind.
RetireAnyResult(a, ok) ==
  live' = {IF b.cond = "wait" /\ b.root = a.root /\ b.dest = a.dest
           THEN [b EXCEPT !.cond = "met"] ELSE b : b \in live \ {a}}

\* The attempt leaves memory; the result decides the attempt that waits
\* behind it in the same chain (_chain_results).
Retire(a, ok) ==
  live' = {IF b.cond = "wait" /\ b.root = a.root /\ b.dest = a.dest
           THEN [b EXCEPT !.cond = IF ok THEN "met" ELSE "unmet"]
           ELSE b : b \in live \ {a}}

\* The broadcast is in the transmit log.
Aired(a) ==
  /\ airings' = IF a.kind \in Sources
                THEN [airings EXCEPT ![a.dest] = IF @ < 2 THEN @ + 1 ELSE @]
                ELSE airings
  /\ heard' = [heard EXCEPT ![a.root] = @ \cup {a.dest}]

\* Mutant of Current: a late success needs no claim any more.
CurrentAlways(a) == a.kind \in Kinds

\* Does the ledger still want this attempt's success?
Current(a) ==
  IF a.kind \in Sources
  THEN /\ phase = "initial"
       /\ dests[a.dest].state = "queued" /\ dests[a.dest].source = a.kind
  ELSE outbox[a.kind][a.dest] = "queued"

EvidenceOf(a) == [dest |-> a.dest, kind |-> a.kind, root |-> a.root]

\* Mutant of Accept: the chain state is written before the claim is checked.
AcceptEarly(a) ==
  /\ told' = [told EXCEPT ![a.root] = @ \cup {a.dest}]
  /\ UNCHANGED <<dests, outbox>>

\* accept_arbitrated_delivery, accept_arbitrated_followup: all or nothing.
Accept(a) ==
  IF ~Current(a) THEN UNCHANGED <<dests, outbox, told>>
  ELSE /\ told' = [told EXCEPT ![a.root] = @ \cup {a.dest}]
       /\ IF a.kind \in Sources
          THEN /\ dests' = [dests EXCEPT ![a.dest].state = "accepted"]
               /\ UNCHANGED outbox
          ELSE /\ outbox' = [outbox EXCEPT ![a.kind][a.dest] = "accepted"]
               /\ UNCHANGED dests

SendSucceeds(a) ==
  /\ a \in live /\ a.stage = "air"
  /\ Retire(a, TRUE)
  /\ Aired(a)
  /\ Accept(a)
  /\ UNCHANGED <<candidate, unsettled, alias, tasks, prepared, recoverable,
                 admin, mishaps>>

\* A failed claim waits again, unless SAME failed where REST does not go.
AfterFailure(row) ==
  IF row.source = "same" /\ ~row.rest /\ restFeature # "none"
  THEN "no_fallback" ELSE "pending"

\* finish_arbitration_destination, finish_arbitration_followup with a
\* retryable failure: the radio failed, the lane overflowed, or the
\* predecessor was not accepted.
SendFails(a) ==
  /\ a \in live
  /\ Retire(a, FALSE)
  /\ IF a.kind \in Sources
     THEN LET row == dests[a.dest]
              hit == row.state = "queued" /\ row.source = a.kind
          IN  /\ dests' = IF hit THEN [dests EXCEPT ![a.dest] =
                                         Close(row, AfterFailure(row))]
                          ELSE dests
              /\ tasks' = IF hit /\ a.kind = "same"
                          THEN tasks \cup {a.dest} ELSE tasks
              /\ UNCHANGED <<outbox, recoverable>>
     ELSE /\ IF outbox[a.kind][a.dest] = "queued"
             THEN /\ outbox' = [outbox EXCEPT ![a.kind][a.dest] = "pending"]
                  /\ recoverable' = recoverable \cup {a.kind}
             ELSE UNCHANGED <<outbox, recoverable>>
          /\ UNCHANGED <<dests, tasks>>
  /\ UNCHANGED <<candidate, told, unsettled, alias, prepared, admin, history,
                 mishaps>>
----------------------------------------------------------------------------
\* Mutant of Reconciled: only follow-ups are joined with the log.
ReconciledFollowups(rows) ==
  {s \in rows : s.kind \in Followups /\ outbox[s.kind][s.dest] = "queued"}

(***************************************************************************)
(* reconcile_successful_arbitration_transmits: a claim whose broadcast is  *)
(* in the transmit log is accepted, if the attempt is filed under the      *)
(* canonical id (the join is on the root of the attempt).                  *)
(***************************************************************************)
Reconciled(rows) ==
  {s \in rows : /\ s.root = canonical
                /\ IF s.kind \in Sources THEN dests[s.dest].state = "queued"
                   ELSE outbox[s.kind][s.dest] = "queued"}

Settled(led, done) ==
  [d \in Dests |-> IF \E s \in done : s.dest = d /\ s.kind \in Sources
                   THEN [led[d] EXCEPT !.state = "accepted"] ELSE led[d]]

SettledOutbox(done) ==
  [f \in Followups |-> [d \in Dests |->
     IF \E s \in done : s.dest = d /\ s.kind = f THEN "accepted"
     ELSE outbox[f][d]]]

ToldBy(done) ==
  [r \in Sources |-> told[r] \cup {s.dest : s \in {x \in done : x.root = r}}]

\* The broadcast succeeded and the acceptance raised: _on_result reconciles
\* at once; when that raises too, or does not find the claim, the attempt
\* stays 'queued' beside its transmit log.
AcceptRaises(a) ==
  LET rows == unsettled \cup {EvidenceOf(a)}
  IN  /\ a \in live /\ a.stage = "air" /\ mishaps < MaxMishaps
      /\ Retire(a, TRUE)
      /\ Aired(a)
      /\ \E done \in {{}, Reconciled(rows)} :
           /\ dests' = Settled(dests, done)
           /\ outbox' = SettledOutbox(done)
           /\ told' = ToldBy(done)
           /\ unsettled' = rows \ done
      /\ mishaps' = mishaps + 1
      /\ UNCHANGED <<candidate, alias, tasks, prepared, recoverable, admin>>

\* Mutant of Requeued: the claims are left for the radio to finish.
RequeuedNever(led) == led

\* A crash and the restart: WeatherArbiter.__init__ reconciles the claims
\* with the transmit log, then returns the rest to their queues.
Requeued(led) ==
  [d \in Dests |-> IF led[d].state # "queued" THEN led[d]
                   ELSE Close(led[d], IF phase = "initial" THEN "pending"
                                      ELSE "superseded")]

\* Mutant of Recoverable: the restart does not look at the outbox.
RecoverableNone(box) == {}

Recoverable(box) == {f \in Followups : \E d \in Dests : box[f][d] = "pending"}

Restart(rows) ==
  LET done == Reconciled(rows)
      back == [f \in Followups |-> [d \in Dests |->
                 IF SettledOutbox(done)[f][d] = "queued" THEN "pending"
                 ELSE SettledOutbox(done)[f][d]]]
  IN  /\ mishaps < MaxMishaps
      /\ mishaps' = mishaps + 1
      /\ dests' = Requeued(Settled(dests, done))
      /\ outbox' = back
      /\ told' = ToldBy(done)
      /\ unsettled' = rows \ done
      /\ recoverable' = Recoverable(back)
      /\ live' = {} /\ tasks' = {} /\ prepared' = FALSE
      /\ UNCHANGED <<candidate, alias, admin>>

Crash == phase # "none" /\ Restart(unsettled) /\ UNCHANGED history

\* The crash falls between the transmit log's commit and the callback.
CrashAfterLog(a) ==
  /\ a \in live /\ a.stage = "air"
  /\ Restart(unsettled \cup {EvidenceOf(a)})
  /\ Aired(a)

\* An administrator edits the routes, or a product's area moves.
Reroute(src, S) ==
  /\ mishaps < MaxMishaps /\ S # cover[src]
  /\ cover' = [cover EXCEPT ![src] = S]
  /\ mishaps' = mishaps + 1
  /\ UNCHANGED <<candidate, durable, alias, memory, enabled, history>>

ToggleDestination(d) ==
  /\ mishaps < MaxMishaps
  /\ enabled' = IF d \in enabled THEN enabled \ {d} ELSE enabled \cup {d}
  /\ mishaps' = mishaps + 1
  /\ UNCHANGED <<candidate, durable, alias, memory, cover, history>>
----------------------------------------------------------------------------
Next ==
  \/ SameIngest \/ RestCreate \/ RestBind \/ RestReplay
  \/ DeadlinePasses \/ ReleaseDue
  \/ \E d \in Dests : RunFallback(d)
  \/ \E f \in Followups : PrepareFollowup(f)
  \/ \E f \in Followups : DeliverFollowup(f)
  \/ NothingPrepared
  \/ \E a \in live : StartSend(a)
  \/ \E a \in live : SendSucceeds(a)
  \/ \E a \in live : SendFails(a)
  \/ \E a \in live : AcceptRaises(a)
  \/ Crash
  \/ \E a \in live : CrashAfterLog(a)
  \/ \E src \in Sources, S \in SUBSET Dests : Reroute(src, S)
  \/ \E d \in Dests : ToggleDestination(d)

Spec == Init /\ [][Next]_vars

(***************************************************************************)
(* The 1 s release loop, the worker, the fallback tasks and the coroutines *)
(* of a running process keep going.  The lanes are FIFO, so an attempt     *)
(* that keeps coming back is sent; the radio works again and again.        *)
(***************************************************************************)
StartSendTo(d)  == \E a \in live : a.dest = d /\ StartSend(a)
SucceedAt(d)    == \E a \in live : a.dest = d /\ SendSucceeds(a)
Finish          == \E a \in live : SendSucceeds(a) \/ SendFails(a)
FailSkipped     == \E a \in live : a.cond = "unmet" /\ SendFails(a)

Fairness ==
  /\ WF_vars(DeadlinePasses) /\ WF_vars(ReleaseDue)
  /\ WF_vars(Finish) /\ WF_vars(FailSkipped)
  /\ \A d \in Dests : /\ WF_vars(RunFallback(d))
                      /\ SF_vars(StartSendTo(d)) /\ SF_vars(SucceedAt(d))
  /\ \A f \in Followups : WF_vars(DeliverFollowup(f))

FairSpec == Spec /\ Fairness
----------------------------------------------------------------------------
(* What the ledger promises.                                               *)

\* Every variable stays in its range.
TypeOK ==
  /\ phase \in Phases /\ canonical \in {"none"} \cup Sources
  /\ restFeature \in Features /\ due \in BOOLEAN
  /\ dests \in [Dests -> Row]
  /\ outbox \in [Followups -> [Dests -> OutboxState]]
  /\ told \in [Sources -> SUBSET Dests]
  /\ alias \in {"none"} \cup Sources
  /\ unsettled \subseteq Evidence /\ live \subseteq Attempt
  /\ tasks \subseteq Dests /\ prepared \in BOOLEAN
  /\ recoverable \subseteq Followups
  /\ cover \in [Sources -> SUBSET Dests] /\ enabled \subseteq Dests
  /\ airings \in [Dests -> 0..2] /\ heard \in [Sources -> SUBSET Dests]
  /\ mishaps \in 0..MaxMishaps

\* Once a follow-up took the hazard over (apply_arbitration_followup), no
\* initial delivery is waiting, claimed or claimable, whatever late result,
\* replay, fallback task or restart comes after it.
NoClaimAfterFollowup ==
  phase \in {"updated", "cancelled", "expired"} =>
    \A d \in Dests : ~Unsent(dests[d])

\* A claimed destination is always carried by an attempt of its source, or
\* by a logged broadcast that a restart will reconcile: no claim is
\* forgotten ("persist every destination decision", arbitration.py:213).
EveryClaimIsCarried ==
  \A d \in Dests : dests[d].state = "queued" =>
    \/ InFlight(d, dests[d].source)
    \/ \E s \in unsettled : s.dest = d /\ s.kind = dests[d].source

\* README.md:79 "Never rebroadcasts the same alert", as far as the code goes:
\* a second broadcast of the initial warning needs a logged one filed under
\* a root id other than the canonical id, which
\* reconcile_successful_arbitration_transmits does not join.
RebroadcastsOnlyStrays ==
  \A d \in Dests : airings[d] > 1 =>
    \E s \in unsettled : s.dest = d /\ s.root # canonical

\* README.md:79-80 "sends ... a cancellation when it clears": a destination
\* that was told of the hazard is a recipient of its terminal product.
EveryToldIsCancelled ==
  phase \in Terminal =>
    \A r \in Sources : \A d \in told[r] : outbox[restFeature][d] # "absent"

\* The part of it the code keeps: recipients filed under the canonical id,
\* also those whose acceptance raced with the terminal product.
CanonicalChainIsCancelled ==
  phase \in Terminal =>
    \A d \in told[canonical] : outbox[restFeature][d] # "absent"

\* The ledger is a one-shot ledger: through crashes, fallbacks and replays
\* every destination's warning is with one source at a time, delivered by
\* the source that holds it, final, and withdrawn when a follow-up comes.
View(row) ==
  [st |-> CASE row.state = "absent"   -> "unknown"
            [] row.state = "pending"  -> "waiting"
            [] row.state = "queued"   -> "sending"
            [] row.state = "accepted" -> "delivered"
            [] OTHER                  -> "closed",
   by |-> row.source]

Ledger == INSTANCE OneShot WITH open  <- phase \in {"none", "initial"},
                                claim <- [d \in Dests |-> View(dests[d])]

RefinesOneShot == Ledger!Spec

\* Only the newest product of the hazard is still being delivered: every
\* row of an older one is settled (apply_arbitration_followup supersedes
\* it, and neither a result nor a restart brings it back).
OnlyNewestProductMoves ==
  \A f \in Followups : f # restFeature =>
    \A d \in Dests : outbox[f][d] \notin {"pending", "queued"}

\* poller.py:575 "a replacement clear/cancel must remain conditional on" the
\* predecessor on the air: what had to wait for the result of a broadcast is
\* sent only to a destination that heard one in the same chain.
ConditionalNeedsSuccess ==
  \A a \in live : a.stage = "air" /\ a.cond # "no" => a.dest \in heard[a.root]

\* The durable chain state only grows by an acceptance of the ledger: a late
\* success that lost its claim leaves no trace (accept_arbitrated_*).
ToldOnlyByAcceptance ==
  [][\A r \in Sources : \A d \in told'[r] \ told[r] :
       \/ dests[d].state = "queued" /\ dests'[d].state = "accepted"
       \/ \E f \in Followups :
            outbox[f][d] = "queued" /\ outbox'[f][d] = "accepted"]_vars

\* What an older product decided is never undone: the stored product of the
\* hazard never goes back in time, and a terminal phase is final.
LifecycleNeverRegresses ==
  [][/\ ProductOrder(restFeature') >= ProductOrder(restFeature)
     /\ phase \in Terminal => phase' = phase]_vars

\* A waiting destination REST covers is claimed or closed in the end.
WaitingIsServed ==
  \A d \in Dests :
    (restFeature # "none" /\ dests[d].state = "pending" /\ dests[d].rest)
      ~> dests[d].state # "pending"

\* A product waiting in the outbox for a recipient of the canonical chain
\* is delivered (at least the broadcast is logged), superseded or given up:
\* failures, faults and crashes only delay it (_recoverable_followups).
FollowupIsSettled ==
  \A f \in Followups : \A d \in Dests :
    (phase # "none" /\ d \in told[canonical] /\ outbox[f][d] = "pending")
      ~> \/ outbox[f][d] \in {"accepted", "no_target", "superseded"}
         \/ \E s \in unsettled : s.dest = d /\ s.kind = f
=============================================================================
