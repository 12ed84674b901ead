------------------------- MODULE ArbitrationProofs -------------------------
(***************************************************************************)
(* Theorems about Arbitration, for any destinations, products, orders and  *)
(* number of mishaps.                                                      *)
(***************************************************************************)
EXTENDS Arbitration, TLAPS

\* A hazard has a canonical id from the observation that opens it on, and a
\* REST product only once it is open.
Anchored ==
  /\ phase = "none" <=> canonical = "none"
  /\ restFeature # "none" => phase # "none"
  /\ restFeature \in Followups => phase \notin {"none", "initial"}

Core == TypeOK /\ Anchored /\ OnlyNewestProductMoves
----------------------------------------------------------------------------
(* The operations on the rows keep them rows.                              *)

\* Every operation on the destination rows keeps them well-formed rows.
LEMMA RowOperations ==
  ASSUME NEW led \in [Dests -> Row]
  PROVE  /\ \A S \in SUBSET Dests, open \in BOOLEAN :
              /\ RecordSame(led, S, open) \in [Dests -> Row]
              /\ RestMembers(led, S, open) \in [Dests -> Row]
              /\ Bind(led, S, open) \in [Dests -> Row]
         /\ \A D \in SUBSET Dests, src \in Sources :
              /\ Claim(led, D, src) \in [Dests -> Row]
              /\ CloseAll(led, D, "no_fallback") \in [Dests -> Row]
              /\ CloseAll(led, D, "superseded") \in [Dests -> Row]
         /\ \A src : Claimable(led, src) \in SUBSET Dests
<1>1. ASSUME NEW S \in SUBSET Dests, NEW open \in BOOLEAN
      PROVE  RecordSame(led, S, open) \in [Dests -> Row]
  BY <1>1 DEF RecordSame, NewRow, Row
<1>2. ASSUME NEW S \in SUBSET Dests, NEW open \in BOOLEAN
      PROVE  RestMembers(led, S, open) \in [Dests -> Row]
  <2>1. \A r \in Row, b \in BOOLEAN : [r EXCEPT !.rest = b] \in Row
    BY DEF Row
  <2>2. NewRow("rest", open) \in Row
    BY DEF NewRow, Row
  <2>3. \A d \in Dests : (d \in S) \in BOOLEAN
    OBVIOUS
  <2>4. \A d \in Dests : [led[d] EXCEPT !.rest = (d \in S)] \in Row
    BY <2>1, <2>3, Zenon
  <2>5. QED
    BY <2>2, <2>4 DEF RestMembers
<1>3. ASSUME NEW S \in SUBSET Dests, NEW open \in BOOLEAN
      PROVE  Bind(led, S, open) \in [Dests -> Row]
  <2>1. RestMembers(led, S, open) \in [Dests -> Row]
    BY <1>2
  <2>2. QED
    BY <2>1 DEF Bind, Close, Row
<1>4. ASSUME NEW D \in SUBSET Dests, NEW src \in Sources
      PROVE  /\ Claim(led, D, src) \in [Dests -> Row]
             /\ CloseAll(led, D, "no_fallback") \in [Dests -> Row]
             /\ CloseAll(led, D, "superseded") \in [Dests -> Row]
  BY <1>4 DEF Claim, CloseAll, Close, Row, Sources
<1>5. \A src : Claimable(led, src) \in SUBSET Dests
  BY DEF Claimable
<1>6. QED
  BY <1>1, <1>2, <1>3, <1>4, <1>5

\* What a hand-off may do to the state's types.
LEMMA HandoffType ==
  ASSUME TypeOK,
         NEW led \in [Dests -> Row], NEW C \in SUBSET Dests,
         NEW src \in Sources, NEW id \in Sources,
         NEW waiting \in SUBSET Dests,
         Handoff(led, C, src, id, waiting)
  PROVE  /\ dests' \in [Dests -> Row]
         /\ tasks' \in SUBSET Dests
         /\ live' \in SUBSET Attempt
         /\ alias' \in {"none"} \cup Sources
         /\ mishaps' \in 0..MaxMishaps
<1>1. CASE C = {}
  BY <1>1 DEF Handoff, TypeOK
<1>2. CASE C # {}
  <2> DEFINE root == IF src = "same" \/ alias = "none" THEN id ELSE alias
             sent == {d \in C \cap Reach(src) : ~InFlight(d, src)}
             lost == IF Reach(src) = {} /\ ~LegacyIncludes THEN {} ELSE C \ sent
             new(E) == {NewAttempt(d, src, root, "sent", "no") : d \in E}
  <2>1. root \in Sources
    BY DEF TypeOK, Sources
  <2>2. sent \in SUBSET Dests /\ lost \in SUBSET Dests
    OBVIOUS
  <2>3. \A E \in SUBSET sent : new(E) \subseteq Attempt
    BY <2>1, <2>2 DEF NewAttempt, Attempt, Kinds, Disps
  <2>4. /\ CloseAll(Claim(led, C, src), lost, "no_fallback") \in [Dests -> Row]
        /\ CloseAll(led, lost, "no_fallback") \in [Dests -> Row]
    BY <2>2, RowOperations
  <2>5. /\ dests' \in [Dests -> Row]
        /\ tasks' \in SUBSET Dests
        /\ alias' \in {"none"} \cup Sources
    BY <1>2, <2>1, <2>2, <2>4 DEF Handoff, TypeOK
  <2>6. live' \in SUBSET Attempt
    <3>1. \E E \in SUBSET sent : live' = live \cup new(E)
      BY <1>2 DEF Handoff
    <3>2. QED
      BY <2>3, <3>1 DEF TypeOK
  <2>7. mishaps' \in 0..MaxMishaps
    BY <1>2, ConstantsAssumption DEF Handoff, TypeOK
  <2>8. QED
    BY <2>5, <2>6, <2>7
<1>3. QED
  BY <1>1, <1>2
----------------------------------------------------------------------------
(* The core invariant.                                                     *)

\* The types of what one follow-up delivery enqueues.
LEMMA EnqueueType ==
  ASSUME Core, NEW f \in Followups, Waiting(f) # {},
         NEW r \in ChainRoots, NEW E \in SUBSET Dests,
         EnqueueFollowup(f, E, r)
  PROVE  live' \in SUBSET Attempt
<1>1. restFeature = f /\ f # "none"
  BY ConstantsAssumption DEF Core, OnlyNewestProductMoves, Waiting
<1>2. canonical \in Sources
  BY <1>1 DEF Core, Anchored, TypeOK
<1>3. Related \subseteq Sources
  BY <1>2 DEF Related, Core, TypeOK
<1>4. ChainRoots \subseteq Sources
  BY <1>3 DEF ChainRoots, Related, Core, TypeOK
<1>5. \A d \in Dests : RootOf(f, d, r) \in Sources
  <2> TAKE d \in Dests
  <2>1. CASE ToldRoots(d) # {}
    <3>1. ToldRoots(d) \subseteq Sources
      BY <1>3 DEF ToldRoots
    <3>2. QED
      BY <2>1, <3>1 DEF RootOf
  <2>2. CASE ToldRoots(d) = {} /\ Ahead(f, d) # {}
    <3>1. Ahead(f, d) \subseteq Attempt
      BY DEF Ahead, Flying, Pulled, Core, TypeOK
    <3>2. (CHOOSE a \in Ahead(f, d) : TRUE) \in Attempt
      BY <2>2, <3>1
    <3>3. QED
      BY <2>2, <3>2 DEF RootOf, Attempt
  <2>3. CASE ToldRoots(d) = {} /\ Ahead(f, d) = {}
    BY <2>3, <1>2, <1>4 DEF RootOf
  <2>4. QED
    BY <2>1, <2>2, <2>3
<1>6. \A d \in Dests :
        NewAttempt(d, f, RootOf(f, d, r), Disposition(f, d), CondOf(f, d, r))
          \in Attempt
  <2> TAKE d \in Dests
  <2>1. Disposition(f, d) \in Disps
    BY DEF Disposition, Disps
  <2>2. CondOf(f, d, r) \in {"no", "wait", "met", "unmet"}
    BY DEF CondOf
  <2>3. QED
    BY <1>5, <2>1, <2>2 DEF NewAttempt, Attempt, Kinds
<1>7. QED
  BY <1>6 DEF EnqueueFollowup, Core, TypeOK

\* The initial states.
LEMMA CoreInit == Init => Core
<1> SUFFICES ASSUME Init PROVE Core
  OBVIOUS
<1>1. dests \in [Dests -> Row]
  BY DEF Init, Row, Absent
<1>2. outbox \in [Followups -> [Dests -> OutboxState]]
  BY DEF Init, OutboxState
<1>3. /\ told \in [Sources -> SUBSET Dests]
      /\ airings \in [Dests -> 0..2] /\ mishaps \in 0..MaxMishaps
  BY ConstantsAssumption DEF Init
<1>4. TypeOK
  BY <1>1, <1>2, <1>3 DEF Init, TypeOK, Phases, Features
<1>5. QED
  BY <1>4, ConstantsAssumption DEF Init, Core, Anchored, OnlyNewestProductMoves

\* The observations of the two sources and what releases their claims.
LEMMA CoreObservation ==
  ASSUME Core,
         \/ SameIngest \/ RestCreate \/ RestBind \/ RestReplay
         \/ DeadlinePasses \/ ReleaseDue \/ \E d \in Dests : RunFallback(d)
  PROVE  Core'
<1> USE DEF Core
<1>1. Reach("same") \in SUBSET Dests /\ Reach("rest") \in SUBSET Dests
  BY DEF Reach, TypeOK, Sources
<1>2. Absent \in Row
  BY DEF Absent, Row
<1>3. CASE SameIngest
  <2> DEFINE open == phase \in {"none", "initial"}
             id   == IF phase = "none" THEN "same" ELSE canonical
             led  == RecordSame(dests, Reach("same"), open)
             C    == IF open THEN Claimable(led, "same") ELSE {}
  <2>0. open \in BOOLEAN /\ dests \in [Dests -> Row]
    BY DEF TypeOK
  <2>1. led \in [Dests -> Row] /\ C \in SUBSET Dests
    <3>1. led \in [Dests -> Row]
      <4> HIDE DEF open
      <4>1. QED
        BY <1>1, <2>0, RowOperations
    <3>2. Claimable(led, "same") \in SUBSET Dests
      <4> HIDE DEF led
      <4>1. QED
        BY <3>1, RowOperations
    <3>3. QED
      BY <3>2, <3>1
  <2>2. id \in Sources /\ "same" \in Sources
    BY DEF Anchored, TypeOK, Sources
  <2>3. Handoff(led, C, "same", id, tasks)
    BY <1>3 DEF SameIngest
  <2>4. /\ dests' \in [Dests -> Row] /\ tasks' \in SUBSET Dests
        /\ live' \in SUBSET Attempt /\ alias' \in {"none"} \cup Sources
        /\ mishaps' \in 0..MaxMishaps
    BY <2>1, <2>2, <2>3, HandoffType DEF TypeOK
  <2>5. TypeOK'
    BY <1>3, <2>2, <2>4
    DEF SameIngest, TypeOK, Phases, admin, history
  <2>6. QED
    BY <1>3, <2>2, <2>5
    DEF SameIngest, Anchored, OnlyNewestProductMoves, Sources, TypeOK
<1>4. CASE RestCreate
  <2>1. dests' \in [Dests -> Row]
    BY <1>1, <1>4, RowOperations DEF RestCreate, TypeOK
  <2>2. TypeOK'
    BY <1>4, <2>1 DEF RestCreate, TypeOK, Phases, Sources, Features,
                      memory, admin, history
  <2>3. QED
    BY <1>4, <2>2, ConstantsAssumption
    DEF RestCreate, Anchored, OnlyNewestProductMoves
<1>5. CASE RestBind
  <2> DEFINE led == Bind(dests, Reach("rest"), TRUE)
             C   == Claimable(led, "rest")
  <2>1. led \in [Dests -> Row] /\ C \in SUBSET Dests
    BY <1>1, RowOperations DEF TypeOK
  <2>2. canonical \in Sources /\ "rest" \in Sources
    BY <1>5 DEF RestBind, Anchored, TypeOK, Sources
  <2>3. Handoff(led, C, "rest", canonical, tasks)
    BY <1>5 DEF RestBind
  <2>4. /\ dests' \in [Dests -> Row] /\ tasks' \in SUBSET Dests
        /\ live' \in SUBSET Attempt /\ alias' \in {"none"} \cup Sources
        /\ mishaps' \in 0..MaxMishaps
    BY <2>1, <2>2, <2>3, HandoffType DEF TypeOK
  <2>5. TypeOK'
    BY <1>5, <2>4 DEF RestBind, TypeOK, Features, admin, history
  <2>6. QED
    BY <1>5, <2>5, ConstantsAssumption
    DEF RestBind, Anchored, OnlyNewestProductMoves
<1>6. CASE RestReplay
  <2>1. dests' \in [Dests -> Row]
    BY <1>1, <1>6, RowOperations DEF RestReplay, TypeOK
  <2>2. QED
    BY <1>6, <2>1 DEF RestReplay, TypeOK, Anchored, OnlyNewestProductMoves,
                      candidate, memory, admin, history
<1>7. CASE DeadlinePasses
  BY <1>7 DEF DeadlinePasses, TypeOK, Anchored, OnlyNewestProductMoves,
              durable, memory, admin, history
<1>8. ASSUME NEW C \in SUBSET Dests, NEW waiting \in SUBSET Dests,
             Handoff(dests, C, "rest", "rest", waiting),
             UNCHANGED <<candidate, outbox, told, unsettled, prepared,
                         recoverable, admin, history>>
      PROVE  Core'
  <2>1. "rest" \in Sources
    BY DEF Sources
  <2>2. /\ dests' \in [Dests -> Row] /\ tasks' \in SUBSET Dests
        /\ live' \in SUBSET Attempt /\ alias' \in {"none"} \cup Sources
        /\ mishaps' \in 0..MaxMishaps
    BY <1>8, <2>1, HandoffType DEF TypeOK
  <2>3. QED
    BY <1>8, <2>2 DEF TypeOK, Anchored, OnlyNewestProductMoves,
                      candidate, admin, history
<1>9. CASE ReleaseDue
  BY <1>8, <1>9, RowOperations DEF ReleaseDue, TypeOK
<1>10. ASSUME NEW d \in Dests, RunFallback(d) PROVE Core'
  <2> DEFINE C == IF phase = "initial" /\ restFeature # "none"
                  THEN {d} \cap Claimable(dests, "rest") ELSE {}
  <2>1. C \in SUBSET Dests /\ tasks \ {d} \in SUBSET Dests
    BY DEF TypeOK
  <2>2. Handoff(dests, C, "rest", "rest", tasks \ {d})
    BY <1>10 DEF RunFallback
  <2>3. UNCHANGED <<candidate, outbox, told, unsettled, prepared,
                    recoverable, admin, history>>
    BY <1>10 DEF RunFallback
  <2>4. QED
    BY <1>8, <2>1, <2>2, <2>3
<1>11. QED
  BY <1>3, <1>4, <1>5, <1>6, <1>7, <1>9, <1>10

\* Follow-up products.
LEMMA CoreFollowup ==
  ASSUME Core, NEW f \in Followups,
         PrepareFollowup(f) \/ DeliverFollowup(f)
  PROVE  Core'
<1> USE DEF Core
<1>1. CASE PrepareFollowup(f)
  <2> DEFINE ids == Recipients(f)
             led == RestMembers(dests, ids, FALSE)
             D   == {d \in Dests : Unsent(led[d])}
  <2>1. ids \in SUBSET Dests
    <3>1. canonical \in Sources
      BY <1>1 DEF PrepareFollowup, Anchored, TypeOK
    <3>2. QED
      BY <3>1 DEF Recipients, Reach, TypeOK, Sources
  <2>2. led \in [Dests -> Row] /\ CloseAll(led, D, "superseded") \in [Dests -> Row]
    <3>1. led \in [Dests -> Row]
      BY <2>1, RowOperations DEF TypeOK
    <3>2. D \in SUBSET Dests /\ "rest" \in Sources
      BY DEF Sources
    <3>3. QED
      BY <3>1, <3>2, RowOperations
  <2>3. OutboxFor(f, ids) \in [Followups -> [Dests -> OutboxState]]
    BY DEF OutboxFor, TypeOK, OutboxState
  <2>4. PhaseAfter(f) \in Phases \ {"none", "initial"}
    BY ConstantsAssumption DEF PhaseAfter, Phases
  <2>5. \A g \in Followups : g # f =>
          \A d \in Dests : OutboxFor(f, ids)[g][d] \notin {"pending", "queued"}
    BY DEF OutboxFor
  <2>6. CASE phase \in Terminal
    <3>1. TypeOK' /\ Anchored' /\ OnlyNewestProductMoves'
      BY <1>1, <2>6 DEF PrepareFollowup, TypeOK, Anchored,
           OnlyNewestProductMoves, admin, history
    <3>2. QED
      BY <3>1
  <2>7. CASE phase \notin Terminal
    <3>1. TypeOK'
      BY <1>1, <2>2, <2>3, <2>4, <2>7
      DEF PrepareFollowup, TypeOK, Features, admin, history
    <3>2. Anchored'
      BY <1>1, <2>4, <2>7 DEF PrepareFollowup, Anchored
    <3>3. OnlyNewestProductMoves'
      BY <1>1, <2>5, <2>7 DEF PrepareFollowup, OnlyNewestProductMoves
    <3>4. QED
      BY <3>1, <3>2, <3>3
  <2>8. QED
    BY <2>6, <2>7
<1>2. CASE DeliverFollowup(f)
  <2>1. restFeature = f
    BY <1>2, ConstantsAssumption
    DEF DeliverFollowup, Waiting, OnlyNewestProductMoves
  <2>2. canonical \in Sources
    BY <2>1, ConstantsAssumption DEF Anchored, TypeOK
  <2>3. live' \in SUBSET Attempt
    <3>1. CASE live' = live
      BY <3>1 DEF TypeOK
    <3>2. ASSUME NEW r \in ChainRoots, NEW E \in SUBSET Addressed(f),
                 EnqueueFollowup(f, E, r)
          PROVE  live' \in SUBSET Attempt
      <4>1. E \in SUBSET Dests /\ Waiting(f) # {}
        BY <1>2 DEF Addressed, Waiting, DeliverFollowup
      <4>2. QED
        BY <3>2, <4>1, EnqueueType
    <3>3. QED
      BY <1>2, <3>1, <3>2 DEF DeliverFollowup
  <2>4. ASSUME NEW carried, NEW back, MarkRows(f, carried, back)
        PROVE  /\ outbox' \in [Followups -> [Dests -> OutboxState]]
               /\ \A g \in Followups : g # f => outbox'[g] = outbox[g]
    BY <2>4 DEF MarkRows, TypeOK, OutboxState
  <2>5. /\ outbox' \in [Followups -> [Dests -> OutboxState]]
        /\ \A g \in Followups : g # f => outbox'[g] = outbox[g]
    BY <1>2, <2>4 DEF DeliverFollowup
  <2>6. recoverable' \in SUBSET Followups /\ mishaps' \in 0..MaxMishaps
    BY <1>2, ConstantsAssumption DEF DeliverFollowup, TypeOK
  <2>7. TypeOK'
    BY <1>2, <2>2, <2>3, <2>5, <2>6
    DEF DeliverFollowup, TypeOK, candidate, admin, history
  <2>8. OnlyNewestProductMoves'
    BY <1>2, <2>1, <2>5
    DEF DeliverFollowup, OnlyNewestProductMoves, candidate
  <2>9. QED
    BY <1>2, <2>7, <2>8 DEF DeliverFollowup, Anchored, candidate
<1>3. QED
  BY <1>1, <1>2

\* What a logged broadcast and a settled attempt do to the types.
LEMMA RadioTypes ==
  ASSUME TypeOK, NEW a \in live
  PROVE  /\ a \in Attempt /\ EvidenceOf(a) \in Evidence
         /\ \A ok \in BOOLEAN : Retire(a, ok) => live' \in SUBSET Attempt
         /\ Aired(a) => airings' \in [Dests -> 0..2] /\ heard' \in [Sources -> SUBSET Dests]
<1>1. a \in Attempt
  BY DEF TypeOK
<1>2. EvidenceOf(a) \in Evidence
  BY <1>1 DEF EvidenceOf, Evidence, Attempt
<1>3. ASSUME NEW ok \in BOOLEAN, Retire(a, ok) PROVE live' \in SUBSET Attempt
  <2>1. \A b \in live : \A c \in {"met", "unmet"} :
          [b EXCEPT !.cond = c] \in Attempt
    BY DEF TypeOK, Attempt
  <2>2. QED
    BY <1>3, <2>1 DEF Retire, TypeOK
<1>4. ASSUME Aired(a)
      PROVE  airings' \in [Dests -> 0..2] /\ heard' \in [Sources -> SUBSET Dests]
  BY <1>1, <1>4 DEF Aired, TypeOK, Attempt
<1>5. QED
  BY <1>1, <1>2, <1>3, <1>4

\* The worker, its results and their acceptance.
LEMMA CoreRadio ==
  ASSUME Core, NEW a \in live,
         StartSend(a) \/ SendSucceeds(a) \/ SendFails(a)
  PROVE  Core'
<1> USE DEF Core
<1>1. a \in Attempt
  BY RadioTypes
<1>2. CASE StartSend(a)
  <2>1. [a EXCEPT !.stage = "air"] \in Attempt
    BY <1>1 DEF Attempt
  <2>2. QED
    BY <1>2, <2>1 DEF StartSend, TypeOK, Anchored, OnlyNewestProductMoves,
                      candidate, durable, admin, history
<1>3. CASE SendSucceeds(a)
  <2>1. /\ live' \in SUBSET Attempt
        /\ airings' \in [Dests -> 0..2] /\ heard' \in [Sources -> SUBSET Dests]
    BY <1>3, RadioTypes DEF SendSucceeds
  <2>2. /\ dests' \in [Dests -> Row]
        /\ outbox' \in [Followups -> [Dests -> OutboxState]]
        /\ told' \in [Sources -> SUBSET Dests]
    <3>1. \A row \in Row : [row EXCEPT !.state = "accepted"] \in Row
      BY DEF Row
    <3>2. a.dest \in Dests /\ a.root \in Sources /\ a.kind \in Kinds
      BY <1>1 DEF Attempt
    <3>3. Accept(a)
      BY <1>3 DEF SendSucceeds
    <3>4. dests' \in [Dests -> Row]
      BY <3>1, <3>2, <3>3 DEF Accept, TypeOK
    <3>5. outbox' \in [Followups -> [Dests -> OutboxState]]
      BY <3>2, <3>3 DEF Accept, TypeOK, OutboxState, Kinds
    <3>6. told' \in [Sources -> SUBSET Dests]
      <4>1. told[a.root] \cup {a.dest} \in SUBSET Dests
        BY <3>2 DEF TypeOK
      <4>2. told' = told \/ told' = [told EXCEPT ![a.root] = @ \cup {a.dest}]
        BY <3>3 DEF Accept
      <4>3. QED
        BY <4>1, <4>2 DEF TypeOK
    <3>7. QED
      BY <3>4, <3>5, <3>6
  <2>3. OnlyNewestProductMoves'
    BY <1>1, <1>3 DEF SendSucceeds, Accept, TypeOK, OnlyNewestProductMoves,
                      candidate, Attempt, Kinds
  <2>4. TypeOK'
    BY <1>3, <2>1, <2>2 DEF SendSucceeds, TypeOK, candidate, admin
  <2>5. QED
    BY <1>3, <2>3, <2>4 DEF SendSucceeds, Anchored, candidate
<1>4. CASE SendFails(a)
  <2>1. live' \in SUBSET Attempt
    BY <1>4, RadioTypes DEF SendFails
  <2>2. dests' \in [Dests -> Row]
    <3>1. \A row \in Row : Close(row, AfterFailure(row)) \in Row
      BY DEF Row, Close, AfterFailure
    <3>2. QED
      BY <1>1, <1>4, <3>1 DEF SendFails, TypeOK, Attempt
  <2>3. /\ outbox' \in [Followups -> [Dests -> OutboxState]]
        /\ tasks' \in SUBSET Dests /\ recoverable' \in SUBSET Followups
    <3>1. /\ a.dest \in Dests /\ a.kind \in Sources \cup Followups
          /\ outbox \in [Followups -> [Dests -> OutboxState]]
          /\ tasks \in SUBSET Dests /\ recoverable \in SUBSET Followups
      BY <1>1 DEF TypeOK, Attempt, Kinds
    <3>2. CASE a.kind \in Sources
      <4>1. /\ outbox' = outbox /\ recoverable' = recoverable
            /\ tasks' = tasks \/ tasks' = tasks \cup {a.dest}
        BY <1>4, <3>2 DEF SendFails
      <4>2. QED
        BY <3>1, <4>1
    <3>3. CASE a.kind \notin Sources
      <4>1. /\ tasks' = tasks
            /\ \/ outbox' = outbox /\ recoverable' = recoverable
               \/ /\ outbox' = [outbox EXCEPT ![a.kind][a.dest] = "pending"]
                  /\ recoverable' = recoverable \cup {a.kind}
        BY <1>4, <3>3 DEF SendFails
      <4>2. "pending" \in OutboxState
        BY DEF OutboxState
      <4>3. QED
        BY <3>1, <3>3, <4>1, <4>2
    <3>4. QED
      BY <3>2, <3>3
  <2>4. OnlyNewestProductMoves'
    BY <1>1, <1>4 DEF SendFails, TypeOK, OnlyNewestProductMoves, candidate,
                      Attempt, Kinds
  <2>5. TypeOK'
    BY <1>4, <2>1, <2>2, <2>3
    DEF SendFails, TypeOK, candidate, admin, history
  <2>6. QED
    BY <1>4, <2>4, <2>5 DEF SendFails, Anchored, candidate
<1>5. QED
  BY <1>2, <1>3, <1>4

\* What a reconciliation with evidence `rows` does to the ledger's types.
LEMMA SettleTypes ==
  ASSUME TypeOK, NEW done \in SUBSET Evidence
  PROVE  /\ Settled(dests, done) \in [Dests -> Row]
         /\ Requeued(Settled(dests, done)) \in [Dests -> Row]
         /\ SettledOutbox(done) \in [Followups -> [Dests -> OutboxState]]
         /\ ToldBy(done) \in [Sources -> SUBSET Dests]
<1>1. Settled(dests, done) \in [Dests -> Row]
  BY DEF Settled, TypeOK, Row
<1>2. Requeued(Settled(dests, done)) \in [Dests -> Row]
  <2> DEFINE led == Settled(dests, done)
  <2>1. led \in [Dests -> Row]
    BY <1>1
  <2> HIDE DEF led
  <2>2. Requeued(led) \in [Dests -> Row]
    BY <2>1 DEF Requeued, Close, Row
  <2>3. QED
    BY <2>2 DEF led
<1>3. SettledOutbox(done) \in [Followups -> [Dests -> OutboxState]]
  BY DEF SettledOutbox, TypeOK, OutboxState
<1>4. ToldBy(done) \in [Sources -> SUBSET Dests]
  BY DEF ToldBy, TypeOK, Evidence
<1>5. QED
  BY <1>1, <1>2, <1>3, <1>4

\* A crash and the restart.
LEMMA CoreRestart ==
  ASSUME Core, NEW rows \in SUBSET Evidence, Restart(rows),
         airings' \in [Dests -> 0..2], heard' \in [Sources -> SUBSET Dests]
  PROVE  Core'
<1> USE DEF Core
<1> DEFINE done == Reconciled(rows)
<1>1. done \in SUBSET Evidence
  BY DEF Reconciled
<1>2. /\ dests' \in [Dests -> Row] /\ told' \in [Sources -> SUBSET Dests]
      /\ SettledOutbox(done) \in [Followups -> [Dests -> OutboxState]]
  BY <1>1, SettleTypes DEF Restart
<1>3. /\ outbox' \in [Followups -> [Dests -> OutboxState]]
      /\ \A f \in Followups, d \in Dests :
           outbox'[f][d] \in {"pending", "queued"} =>
             outbox[f][d] \in {"pending", "queued"}
  <2> DEFINE box == SettledOutbox(done)
  <2>1. \A f \in Followups, d \in Dests :
          box[f][d] \in {"accepted", outbox[f][d]}
    BY DEF SettledOutbox
  <2>2. box \in [Followups -> [Dests -> OutboxState]]
    BY <1>2
  <2>3. outbox' = [f \in Followups |-> [d \in Dests |->
                    IF box[f][d] = "queued" THEN "pending" ELSE box[f][d]]]
    BY DEF Restart
  <2> HIDE DEF box
  <2>4. QED
    BY <2>1, <2>2, <2>3 DEF OutboxState
<1>4. unsettled' \in SUBSET Evidence /\ recoverable' \in SUBSET Followups
  BY DEF Restart, Recoverable
<1>5. mishaps' \in 0..MaxMishaps
  BY ConstantsAssumption DEF Restart, TypeOK
<1>6. TypeOK'
  BY <1>2, <1>3, <1>4, <1>5 DEF Restart, TypeOK, candidate, admin
<1>7. OnlyNewestProductMoves'
  BY <1>3 DEF Restart, OnlyNewestProductMoves, candidate
<1>8. QED
  BY <1>6, <1>7 DEF Restart, Anchored, candidate

\* Faults, crashes and administrative edits.
LEMMA CoreMishap ==
  ASSUME Core,
         \/ \E a \in live : AcceptRaises(a) \/ CrashAfterLog(a)
         \/ Crash
         \/ \E src \in Sources, S \in SUBSET Dests : Reroute(src, S)
         \/ \E d \in Dests : ToggleDestination(d)
  PROVE  Core'
<1> USE DEF Core
<1>1. ASSUME NEW a \in live, AcceptRaises(a) PROVE Core'
  <2> DEFINE rows == unsettled \cup {EvidenceOf(a)}
  <2>1. rows \in SUBSET Evidence /\ Reconciled(rows) \in SUBSET Evidence
    BY RadioTypes DEF TypeOK, Reconciled
  <2>2. /\ live' \in SUBSET Attempt
        /\ airings' \in [Dests -> 0..2] /\ heard' \in [Sources -> SUBSET Dests]
    BY <1>1, RadioTypes DEF AcceptRaises
  <2>3. PICK done \in {{}, Reconciled(rows)} :
          /\ dests' = Settled(dests, done) /\ outbox' = SettledOutbox(done)
          /\ told' = ToldBy(done) /\ unsettled' = rows \ done
    BY <1>1 DEF AcceptRaises
  <2>4. done \in SUBSET Evidence
    BY <2>1, <2>3
  <2>5. /\ dests' \in [Dests -> Row] /\ told' \in [Sources -> SUBSET Dests]
        /\ outbox' \in [Followups -> [Dests -> OutboxState]]
    BY <2>3, <2>4, SettleTypes
  <2>6. unsettled' \in SUBSET Evidence
    BY <2>1, <2>3
  <2>7. mishaps' \in 0..MaxMishaps
    BY <1>1, ConstantsAssumption DEF AcceptRaises, TypeOK
  <2>8. TypeOK'
    BY <1>1, <2>2, <2>5, <2>6, <2>7 DEF AcceptRaises, TypeOK, candidate, admin
  <2>9. OnlyNewestProductMoves'
    <3>1. \A f \in Followups, d \in Dests :
            outbox'[f][d] \in {"accepted", outbox[f][d]}
      BY <2>3 DEF SettledOutbox
    <3>2. QED
      BY <1>1, <3>1 DEF AcceptRaises, OnlyNewestProductMoves, candidate
  <2>10. QED
    BY <1>1, <2>8, <2>9 DEF AcceptRaises, Anchored, candidate
<1>2. CASE Crash
  BY <1>2, CoreRestart DEF Crash, TypeOK, history
<1>3. ASSUME NEW a \in live, CrashAfterLog(a) PROVE Core'
  <2>1. /\ unsettled \cup {EvidenceOf(a)} \in SUBSET Evidence
        /\ airings' \in [Dests -> 0..2] /\ heard' \in [Sources -> SUBSET Dests]
    BY <1>3, RadioTypes DEF CrashAfterLog, TypeOK
  <2>2. QED
    BY <1>3, <2>1, CoreRestart DEF CrashAfterLog
<1>4. ASSUME NEW src \in Sources, NEW S \in SUBSET Dests, Reroute(src, S)
      PROVE  Core'
  BY <1>4, ConstantsAssumption
  DEF Reroute, TypeOK, Anchored, OnlyNewestProductMoves, candidate, durable,
      memory, history
<1>5. ASSUME NEW d \in Dests, ToggleDestination(d) PROVE Core'
  BY <1>5, ConstantsAssumption
  DEF ToggleDestination, TypeOK, Anchored, OnlyNewestProductMoves, candidate,
      durable, memory, history
<1>6. QED
  BY <1>1, <1>2, <1>3, <1>4, <1>5

\* The four groups of actions, as the lemmas take them.
LEMMA NextByGroup ==
  ASSUME Next
  PROVE  \/ \/ SameIngest \/ RestCreate \/ RestBind \/ RestReplay
            \/ DeadlinePasses \/ ReleaseDue \/ \E d \in Dests : RunFallback(d)
         \/ \E f \in Followups : PrepareFollowup(f) \/ DeliverFollowup(f)
         \/ NothingPrepared
         \/ \E a \in live : StartSend(a) \/ SendSucceeds(a) \/ SendFails(a)
         \/ \/ \E a \in live : AcceptRaises(a) \/ CrashAfterLog(a)
            \/ Crash
            \/ \E src \in Sources, S \in SUBSET Dests : Reroute(src, S)
            \/ \E d \in Dests : ToggleDestination(d)
  BY DEF Next

\* Every step keeps the core invariant.
LEMMA CoreStep == Core /\ [Next]_vars => Core'
<1> SUFFICES ASSUME Core, [Next]_vars PROVE Core'
  OBVIOUS
<1>1. CASE Next
  <2>1. CASE NothingPrepared
    BY <2>1 DEF NothingPrepared, Core, TypeOK, Anchored,
                OnlyNewestProductMoves, candidate, durable, admin, history
  <2>2. CASE \E f \in Followups : PrepareFollowup(f) \/ DeliverFollowup(f)
    BY <2>2, CoreFollowup
  <2>3. CASE \E a \in live : StartSend(a) \/ SendSucceeds(a) \/ SendFails(a)
    BY <2>3, CoreRadio
  <2>4. QED
    BY <1>1, <2>1, <2>2, <2>3, NextByGroup, CoreObservation, CoreMishap
<1>2. CASE UNCHANGED vars
  BY <1>2 DEF Core, TypeOK, Anchored, OnlyNewestProductMoves, vars, candidate,
              durable, memory, admin, history
<1>3. QED
  BY <1>1, <1>2

\* The core invariant always holds: types, a product is stored only for a
\* hazard that has a candidate, and older products' rows are settled.
THEOREM CoreInvariant == Spec => []Core
  BY CoreInit, CoreStep, PTL DEF Spec

\* Every variable keeps its type in every behaviour of the arbitration.
THEOREM TypeCorrect == Spec => []TypeOK
<1>1. Core => TypeOK
  BY DEF Core
<1>2. QED
  BY <1>1, CoreInvariant, PTL

\* Only the newest product of a hazard has rows left to deliver: neither a
\* result, a retry nor a restart brings an older product back.
THEOREM NewestProductOnly == Spec => []OnlyNewestProductMoves
<1>1. Core => OnlyNewestProductMoves
  BY DEF Core
<1>2. QED
  BY <1>1, CoreInvariant, PTL

\* The lifecycle never goes back: no step stores an older product, and none
\* leaves a terminal phase.
LEMMA LifecycleStep ==
  ASSUME Core, [Next]_vars
  PROVE  /\ ProductOrder(restFeature') >= ProductOrder(restFeature)
         /\ phase \in Terminal => phase' = phase
<1>1. \A feature : ProductOrder(feature) \in Nat
  BY ConstantsAssumption DEF ProductOrder
<1>2. ASSUME restFeature' = restFeature, phase \in Terminal => phase' = phase
      PROVE  /\ ProductOrder(restFeature') >= ProductOrder(restFeature)
             /\ phase \in Terminal => phase' = phase
  BY <1>1, <1>2
<1>3. ASSUME UNCHANGED candidate
      PROVE  restFeature' = restFeature /\ phase' = phase
  BY <1>3 DEF candidate
<1>4. CASE SameIngest
  BY <1>2, <1>4 DEF SameIngest, Terminal
<1>5. CASE RestCreate \/ RestBind
  <2>1. restFeature = "none" /\ restFeature' = "NEW" /\ phase \notin Terminal
    BY <1>5 DEF RestCreate, RestBind, Core, Anchored, Terminal
  <2>2. QED
    BY <2>1, <1>1, ConstantsAssumption DEF ProductOrder
<1>6. ASSUME NEW f \in Followups, PrepareFollowup(f)
      PROVE  /\ ProductOrder(restFeature') >= ProductOrder(restFeature)
             /\ phase \in Terminal => phase' = phase
  <2>1. CASE phase \in Terminal
    BY <1>2, <1>6, <2>1 DEF PrepareFollowup
  <2>2. CASE phase \notin Terminal
    BY <1>1, <1>6, <2>2 DEF PrepareFollowup, Admitted, ProductOrder
  <2>3. QED
    BY <2>1, <2>2
<1>7. CASE UNCHANGED vars
  BY <1>2, <1>3, <1>7 DEF vars
<1>8. CASE NothingPrepared \/ RestReplay \/ ReleaseDue
           \/ \E d \in Dests : RunFallback(d)
  BY <1>2, <1>3, <1>8 DEF NothingPrepared, RestReplay, ReleaseDue, RunFallback
<1>9. CASE DeadlinePasses
  BY <1>2, <1>9 DEF DeadlinePasses
<1>10. CASE \E f \in Followups : DeliverFollowup(f)
  BY <1>2, <1>3, <1>10 DEF DeliverFollowup
<1>11. CASE \E a \in live : StartSend(a) \/ SendSucceeds(a) \/ SendFails(a)
  BY <1>2, <1>3, <1>11 DEF StartSend, SendSucceeds, SendFails
<1>12. CASE \/ \E a \in live : AcceptRaises(a) \/ CrashAfterLog(a)
            \/ Crash
            \/ \E src \in Sources, S \in SUBSET Dests : Reroute(src, S)
            \/ \E d \in Dests : ToggleDestination(d)
  BY <1>2, <1>3, <1>12
  DEF AcceptRaises, CrashAfterLog, Crash, Restart, Reroute, ToggleDestination
<1>13. QED
  BY <1>4, <1>5, <1>6, <1>7, <1>8, <1>9, <1>10, <1>11, <1>12, NextByGroup

\* A late, old or repeated product never takes the lifecycle of a hazard
\* back, and a cancelled or expired hazard stays so.
THEOREM LifecycleForward == Spec => LifecycleNeverRegresses
<1>1. Core /\ [Next]_vars =>
        [/\ ProductOrder(restFeature') >= ProductOrder(restFeature)
         /\ phase \in Terminal => phase' = phase]_vars
  BY LifecycleStep
<1>2. QED
  BY <1>1, CoreInvariant, PTL DEF Spec, LifecycleNeverRegresses
=============================================================================
