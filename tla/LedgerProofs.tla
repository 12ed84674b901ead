---------------------------- MODULE LedgerProofs ----------------------------
(***************************************************************************)
(* Theorems about the destination rows of Arbitration: how one step may    *)
(* move a row, that the rows are a OneShot ledger, and that every claim is *)
(* carried.                                                                *)
(***************************************************************************)
EXTENDS ArbitrationProofs

\* Rows wait or are claimed in the initial phase only: the inductive form of
\* NoClaimAfterFollowup.
OpenOnlyInitially == \A d \in Dests : Unsent(dests[d]) => phase = "initial"

\* The moves of one row.
Stays(r, n)   == n.state = r.state /\ n.source = r.source
Waits(n)      == n.state = "pending" /\ n.source = ""
Claimed(n)    == n.state = "queued" /\ n.source \in Sources
Ended(n)      == n.state \in {"superseded", "no_fallback"} /\ n.source = ""
Unclaimed(r)  == r.state \in {"absent", "pending"}
Delivers(r, n) ==
  r.state = "queued" /\ n.state = "accepted" /\ n.source = r.source

RowStep(d) ==
  LET r == dests[d]
      n == dests'[d]
  IN  \/ Stays(r, n)
      \/ Unclaimed(r) /\ phase' = "initial" /\ (Waits(n) \/ Claimed(n))
      \/ r.state = "queued" /\ phase' = "initial" /\ Waits(n)
      \/ Delivers(r, n)
      \/ (Unclaimed(r) \/ r.state = "queued") /\ Ended(n)

\* A step that leaves the initial phase closes every row, and no step goes
\* back to it.
PhaseStep ==
  /\ phase = "initial" /\ phase' # "initial" =>
       \A d \in Dests : ~Unsent(dests'[d])
  /\ phase' \in {"none", "initial"} => phase \in {"none", "initial"}

\* A claimed row is with a source.
HeldBySource == \A d \in Dests :
                  dests[d].state = "queued" => dests[d].source \in Sources

Safe == Core /\ OpenOnlyInitially /\ HeldBySource
----------------------------------------------------------------------------
\* What the observations do to a row before it is claimed.
LEMMA ObservedRows ==
  ASSUME TypeOK, NEW S \in SUBSET Dests, NEW open \in BOOLEAN, NEW d \in Dests
  PROVE  /\ LET n == RecordSame(dests, S, open)[d] IN
              \/ Stays(dests[d], n)
              \/ dests[d].state = "absent" /\ (IF open THEN Waits(n) ELSE Ended(n))
         /\ LET n == RestMembers(dests, S, open)[d] IN
              \/ Stays(dests[d], n)
              \/ dests[d].state = "absent" /\ (IF open THEN Waits(n) ELSE Ended(n))
         /\ LET n == Bind(dests, S, open)[d] IN
              \/ Stays(dests[d], n) /\ (open \/ ~Unsent(n))
              \/ dests[d].state = "absent" /\ open /\ Waits(n)
              \/ (Unclaimed(dests[d]) \/ dests[d].state = "queued") /\ Ended(n)
<1> DEFINE r == dests[d]
<1>1. r \in Row
  BY DEF TypeOK
<1>2. \A row \in Row, b \in BOOLEAN :
        /\ [row EXCEPT !.same = b].state = row.state
        /\ [row EXCEPT !.same = b].source = row.source
        /\ [row EXCEPT !.rest = b].state = row.state
        /\ [row EXCEPT !.rest = b].source = row.source
  BY DEF Row
<1>3. \A src \in Sources :
        IF open THEN Waits(NewRow(src, open)) ELSE Ended(NewRow(src, open))
  BY DEF NewRow, Waits, Ended
<1>4. LET n == RecordSame(dests, S, open)[d] IN
        \/ Stays(r, n)
        \/ r.state = "absent" /\ (IF open THEN Waits(n) ELSE Ended(n))
  BY <1>1, <1>2, <1>3 DEF RecordSame, Stays, Sources
<1> DEFINE m == RestMembers(dests, S, open)[d]
<1>5. \/ Stays(r, m)
      \/ r.state = "absent" /\ (IF open THEN Waits(m) ELSE Ended(m))
  <2>1. (d \in S) \in BOOLEAN
    OBVIOUS
  <2>2. [r EXCEPT !.rest = (d \in S)].state = r.state
        /\ [r EXCEPT !.rest = (d \in S)].source = r.source
    BY <1>1, <1>2, <2>1, Zenon
  <2>3. CASE r.state # "absent"
    <3>1. m = [r EXCEPT !.rest = (d \in S)]
      BY <2>3 DEF RestMembers
    <3>2. QED
      BY <2>2, <3>1 DEF Stays
  <2>4. CASE r.state = "absent" /\ d \in S
    BY <1>3, <2>4 DEF RestMembers, Sources
  <2>5. CASE r.state = "absent" /\ d \notin S
    BY <2>5 DEF RestMembers, Stays
  <2>6. QED
    BY <2>3, <2>4, <2>5
<1>6. LET n == Bind(dests, S, open)[d] IN
        \/ Stays(r, n) /\ (open \/ ~Unsent(n))
        \/ r.state = "absent" /\ open /\ Waits(n)
        \/ (Unclaimed(r) \/ r.state = "queued") /\ Ended(n)
  <2>1. m \in Row
    <3>1. RestMembers(dests, S, open) \in [Dests -> Row]
      BY RowOperations DEF TypeOK
    <3>2. QED
      BY <3>1
  <2>2. LET n == Bind(dests, S, open)[d] IN
          \/ n = m /\ (open \/ ~Unsent(m))
          \/ Unsent(m) /\ Ended(n)
    BY <2>1 DEF Bind, Close, Unsent, Ended, Row
  <2> HIDE DEF m
  <2>3. QED
    BY <1>1, <1>5, <2>1, <2>2 DEF Stays, Waits, Ended, Unsent, Unclaimed, Row
<1>7. QED
  BY <1>4, <1>5, <1>6

\* What a hand-off does to a row of the ledger it starts from.
LEMMA HandoffRows ==
  ASSUME NEW led \in [Dests -> Row], NEW src \in Sources,
         NEW C \in SUBSET Claimable(led, src), NEW id, NEW waiting,
         Handoff(led, C, src, id, waiting), NEW d \in Dests
  PROVE  \/ dests'[d] = led[d]
         \/ led[d].state = "pending" /\ (Claimed(dests'[d]) \/ Ended(dests'[d]))
<1>1. CASE C = {}
  BY <1>1 DEF Handoff
<1>2. CASE C # {}
  <2> DEFINE sent == {e \in C \cap Reach(src) : ~InFlight(e, src)}
             lost == IF Reach(src) = {} /\ ~LegacyIncludes THEN {} ELSE C \ sent
  <2>1. \A e \in C : led[e].state = "pending"
    BY DEF Claimable
  <2>2. lost \subseteq C
    OBVIOUS
  <2>3. \/ dests' = CloseAll(Claim(led, C, src), lost, "no_fallback")
        \/ dests' = CloseAll(led, lost, "no_fallback")
    BY <1>2 DEF Handoff
  <2> DEFINE claimed == Claim(led, C, src)
  <2>4. claimed \in [Dests -> Row]
    BY RowOperations DEF Claimable
  <2>5. claimed[d] = led[d] \/ (d \in C /\ Claimed(claimed[d]))
    BY DEF Claim, Claimed, Row
  <2>6. \A row \in Row : Ended(Close(row, "no_fallback"))
    BY DEF Ended, Close, Row
  <2> HIDE DEF lost, claimed
  <2>7. CASE dests' = CloseAll(claimed, lost, "no_fallback")
    BY <2>1, <2>2, <2>4, <2>5, <2>6, <2>7 DEF CloseAll
  <2>8. CASE dests' = CloseAll(led, lost, "no_fallback")
    BY <2>1, <2>2, <2>6, <2>8 DEF CloseAll
  <2>9. QED
    BY <2>3, <2>7, <2>8 DEF claimed
<1>3. QED
  BY <1>1, <1>2

\* An unchanged row is a row step.
LEMMA UnchangedRow ==
  ASSUME NEW d \in Dests, dests'[d] = dests[d]
  PROVE  RowStep(d)
  BY DEF RowStep, Stays

\* An observation, a release or a fallback moves every row by a row step.
LEMMA RowsObserved ==
  ASSUME Safe,
         \/ SameIngest \/ RestCreate \/ RestBind \/ RestReplay
         \/ DeadlinePasses \/ ReleaseDue \/ \E e \in Dests : RunFallback(e)
  PROVE  PhaseStep /\ \A d \in Dests : RowStep(d)
<1> USE DEF Safe, Core
<1>0. Reach("same") \in SUBSET Dests /\ Reach("rest") \in SUBSET Dests
      /\ "rest" \in Sources /\ "same" \in Sources
  BY DEF Reach, TypeOK, Sources
<1>1. CASE SameIngest
  <2> DEFINE open == phase \in {"none", "initial"}
             id   == IF phase = "none" THEN "same" ELSE canonical
             led  == RecordSame(dests, Reach("same"), open)
             C    == IF open THEN Claimable(led, "same") ELSE {}
  <2>1. open \in BOOLEAN /\ led \in [Dests -> Row]
        /\ C \in SUBSET Claimable(led, "same")
    <3>1. open \in BOOLEAN /\ dests \in [Dests -> Row]
      BY DEF TypeOK
    <3> HIDE DEF open
    <3>2. led \in [Dests -> Row]
      BY <1>0, <3>1, RowOperations
    <3>3. QED
      BY <3>1, <3>2
  <2>2. Handoff(led, C, "same", id, tasks)
    BY <1>1 DEF SameIngest
  <2>3. phase' = (IF phase = "none" THEN "initial" ELSE phase)
    BY <1>1 DEF SameIngest
  <2>4. ASSUME NEW d \in Dests PROVE RowStep(d)
    <3>1. \/ Stays(dests[d], led[d])
          \/ /\ dests[d].state = "absent"
             /\ IF open THEN Waits(led[d]) ELSE Ended(led[d])
      <4>1. open \in BOOLEAN
        BY <2>1
      <4> HIDE DEF open
      <4>2. QED
        BY <1>0, <4>1, ObservedRows
    <3>2. \/ dests'[d] = led[d]
          \/ led[d].state = "pending" /\ (Claimed(dests'[d]) \/ Ended(dests'[d]))
      <4> HIDE DEF led, C, id
      <4>1. QED
        BY <1>0, <2>1, <2>2, HandoffRows
    <3>3. CASE open
      <4>1. phase' = "initial"
        BY <2>3, <3>3
      <4> HIDE DEF led, C, id
      <4>2. QED
        BY <3>1, <3>2, <3>3, <4>1
        DEF RowStep, Stays, Waits, Unclaimed, Claimed, Ended
    <3>4. CASE ~open
      <4>1. dests' = led
        BY <2>2, <3>4 DEF Handoff
      <4> HIDE DEF led, C, id
      <4>2. QED
        BY <3>1, <3>4, <4>1 DEF RowStep, Stays, Unclaimed
    <3>5. QED
      BY <3>3, <3>4
  <2>5. PhaseStep
    BY <2>3 DEF PhaseStep
  <2>6. QED
    BY <2>4, <2>5
<1>2. CASE RestCreate
  <2>1. phase = "none" /\ phase' = "initial"
    BY <1>2 DEF RestCreate
  <2>2. ASSUME NEW d \in Dests PROVE RowStep(d)
    BY <1>0, <1>2, <2>1, ObservedRows DEF RestCreate, RowStep, Unclaimed
  <2>3. QED
    BY <2>1, <2>2 DEF PhaseStep
<1>3. CASE RestBind
  <2> DEFINE led == Bind(dests, Reach("rest"), TRUE)
             C   == Claimable(led, "rest")
  <2>1. led \in [Dests -> Row] /\ C \in SUBSET Claimable(led, "rest")
    BY <1>0, RowOperations DEF TypeOK
  <2>2. Handoff(led, C, "rest", canonical, tasks) /\ phase' = "initial"
        /\ phase = "initial"
    BY <1>3 DEF RestBind
  <2>3. ASSUME NEW d \in Dests PROVE RowStep(d)
    <3>1. \/ Stays(dests[d], led[d])
          \/ dests[d].state = "absent" /\ Waits(led[d])
          \/ (Unclaimed(dests[d]) \/ dests[d].state = "queued") /\ Ended(led[d])
      BY <1>0, ObservedRows
    <3> HIDE DEF led, C
    <3>2. \/ dests'[d] = led[d]
          \/ led[d].state = "pending" /\ (Claimed(dests'[d]) \/ Ended(dests'[d]))
      BY <1>0, <2>1, <2>2, HandoffRows
    <3>3. QED
      BY <2>2, <3>1, <3>2
      DEF RowStep, Stays, Waits, Unclaimed, Claimed, Ended
  <2>4. QED
    BY <2>2, <2>3 DEF PhaseStep
<1>4. CASE RestReplay
  <2>1. phase' = phase
    BY <1>4 DEF RestReplay, candidate
  <2>2. ASSUME NEW d \in Dests PROVE RowStep(d)
    <3> DEFINE open == phase = "initial"
               n    == Bind(dests, Reach("rest"), open)[d]
    <3>1. open \in BOOLEAN /\ dests'[d] = n
      BY <1>4 DEF RestReplay
    <3>2. \/ Stays(dests[d], n)
          \/ dests[d].state = "absent" /\ open /\ Waits(n)
          \/ (Unclaimed(dests[d]) \/ dests[d].state = "queued") /\ Ended(n)
      <4> HIDE DEF open
      <4>1. QED
        BY <1>0, <3>1, ObservedRows
    <3>3. QED
      BY <2>1, <3>1, <3>2 DEF RowStep, Unclaimed
  <2>3. QED
    BY <2>1, <2>2 DEF PhaseStep
<1>5. CASE DeadlinePasses
  BY <1>5, UnchangedRow DEF DeadlinePasses, PhaseStep, durable
<1>6. ASSUME NEW C \in SUBSET Claimable(dests, "rest"), NEW waiting,
             Handoff(dests, C, "rest", "rest", waiting),
             C # {} => phase = "initial", phase' = phase
      PROVE  PhaseStep /\ \A d \in Dests : RowStep(d)
  <2>1. ASSUME NEW d \in Dests PROVE RowStep(d)
    <3>1. CASE C = {}
      BY <1>6, <3>1, UnchangedRow DEF Handoff
    <3>2. CASE C # {}
      BY <1>0, <1>6, <3>2, HandoffRows DEF RowStep, Stays, Unclaimed, TypeOK
    <3>3. QED
      BY <3>1, <3>2
  <2>2. QED
    BY <1>6, <2>1 DEF PhaseStep
<1>7. CASE ReleaseDue
  BY <1>6, <1>7 DEF ReleaseDue, candidate
<1>8. ASSUME NEW e \in Dests, RunFallback(e)
      PROVE  PhaseStep /\ \A d \in Dests : RowStep(d)
  <2> DEFINE C == IF phase = "initial" /\ restFeature # "none"
                  THEN {e} \cap Claimable(dests, "rest") ELSE {}
  <2>1. C \in SUBSET Claimable(dests, "rest") /\ (C # {} => phase = "initial")
    OBVIOUS
  <2>2. Handoff(dests, C, "rest", "rest", tasks \ {e}) /\ phase' = phase
    BY <1>8 DEF RunFallback, candidate
  <2>3. QED
    BY <1>6, <2>1, <2>2
<1>9. QED
  BY <1>1, <1>2, <1>3, <1>4, <1>5, <1>7, <1>8

\* Preparing or delivering a follow-up moves every row by a row step, and
\* closes the waiting and claimed ones when it ends the initial phase.
LEMMA RowsFollowedUp ==
  ASSUME Safe, NEW f \in Followups, PrepareFollowup(f) \/ DeliverFollowup(f)
  PROVE  PhaseStep /\ \A d \in Dests : RowStep(d)
<1> USE DEF Safe, Core
<1>1. CASE DeliverFollowup(f)
  BY <1>1, UnchangedRow DEF DeliverFollowup, PhaseStep, candidate
<1>2. CASE PrepareFollowup(f) /\ phase \in Terminal
  BY <1>2, UnchangedRow DEF PrepareFollowup, PhaseStep
<1>3. CASE PrepareFollowup(f) /\ phase \notin Terminal
  <2> DEFINE led == RestMembers(dests, Recipients(f), FALSE)
             D   == {d \in Dests : Unsent(led[d])}
  <2>1. Recipients(f) \in SUBSET Dests
    <3>1. canonical \in Sources
      BY <1>3 DEF PrepareFollowup, Anchored, TypeOK
    <3>2. QED
      BY <3>1 DEF Recipients, Reach, TypeOK, Sources
  <2>2. led \in [Dests -> Row]
    BY <2>1, RowOperations DEF TypeOK
  <2>3. PhaseAfter(f) \notin {"none", "initial"}
    BY ConstantsAssumption DEF PhaseAfter
  <2>4. dests' = CloseAll(led, D, "superseded") /\ phase' = PhaseAfter(f)
    BY <1>3 DEF PrepareFollowup
  <2>5. ASSUME NEW d \in Dests PROVE RowStep(d) /\ ~Unsent(dests'[d])
    <3>1. \/ Stays(dests[d], led[d])
          \/ dests[d].state = "absent" /\ Ended(led[d])
      BY <2>1, ObservedRows
    <3> HIDE DEF led
    <3>2. dests'[d] = IF Unsent(led[d]) THEN Close(led[d], "superseded")
                      ELSE led[d]
      BY <2>4 DEF CloseAll
    <3>3. \A row \in Row : Ended(Close(row, "superseded"))
      BY DEF Ended, Close, Row
    <3>4. led[d] \in Row
      BY <2>2
    <3>5. CASE Unsent(led[d])
      <4>1. Ended(dests'[d])
        BY <3>2, <3>3, <3>4, <3>5
      <4>2. Unclaimed(dests[d]) \/ dests[d].state = "queued"
        BY <3>1, <3>5 DEF Stays, Unsent, Unclaimed, Ended
      <4>3. QED
        BY <4>1, <4>2 DEF RowStep, Ended, Unsent
    <3>6. CASE ~Unsent(led[d])
      <4>1. dests'[d] = led[d]
        BY <3>2, <3>6
      <4>2. QED
        BY <3>1, <3>6, <4>1 DEF RowStep, Unclaimed
    <3>7. QED
      BY <3>5, <3>6
  <2>6. QED
    BY <2>3, <2>4, <2>5 DEF PhaseStep
<1>4. QED
  BY <1>1, <1>2, <1>3

\* The worker and its results move every row by a row step.
LEMMA RowsSent ==
  ASSUME Safe, NEW a \in live,
         StartSend(a) \/ SendSucceeds(a) \/ SendFails(a)
  PROVE  PhaseStep /\ \A d \in Dests : RowStep(d)
<1> USE DEF Safe, Core
<1>1. PhaseStep
  <2>1. phase' = phase
    BY DEF StartSend, SendSucceeds, SendFails, candidate
  <2>2. QED
    BY <2>1 DEF PhaseStep
<1>2. a \in Attempt
  BY RadioTypes
<1>3. CASE StartSend(a)
  BY <1>1, <1>3, UnchangedRow DEF StartSend, durable
<1>4. CASE SendSucceeds(a)
  <2>1. \/ dests' = dests
        \/ /\ dests[a.dest].state = "queued"
           /\ dests' = [dests EXCEPT ![a.dest].state = "accepted"]
    BY <1>4 DEF SendSucceeds, Accept, Current
  <2>2. \A row \in Row : /\ [row EXCEPT !.state = "accepted"].state = "accepted"
                         /\ [row EXCEPT !.state = "accepted"].source = row.source
    BY DEF Row
  <2>3. ASSUME NEW d \in Dests PROVE RowStep(d)
    <3>1. a.dest \in Dests /\ dests \in [Dests -> Row]
      BY <1>2 DEF TypeOK, Attempt
    <3>2. CASE dests'[d] = dests[d]
      BY <3>2, UnchangedRow
    <3>3. CASE dests'[d] # dests[d]
      <4>1. d = a.dest /\ dests[d].state = "queued"
            /\ dests'[d] = [dests[d] EXCEPT !.state = "accepted"]
        BY <2>1, <3>1, <3>3
      <4>2. QED
        BY <2>2, <3>1, <4>1 DEF RowStep, Delivers
    <3>4. QED
      BY <3>2, <3>3
  <2>4. QED
    BY <1>1, <2>3
<1>5. CASE SendFails(a)
  <2>1. \/ dests' = dests
        \/ /\ dests[a.dest].state = "queued"
           /\ dests' = [dests EXCEPT ![a.dest] =
                          Close(dests[a.dest], AfterFailure(dests[a.dest]))]
    BY <1>5 DEF SendFails
  <2>2. \A row \in Row : LET n == Close(row, AfterFailure(row)) IN
                           Waits(n) \/ Ended(n)
    BY DEF Row, Close, AfterFailure, Waits, Ended
  <2>3. phase' = phase
    BY <1>5 DEF SendFails, candidate
  <2>4. ASSUME NEW d \in Dests PROVE RowStep(d)
    BY <1>2, <2>1, <2>2, <2>3
    DEF RowStep, Stays, OpenOnlyInitially, Unsent, TypeOK, Attempt
  <2>5. QED
    BY <1>1, <2>4
<1>6. QED
  BY <1>3, <1>4, <1>5

\* A reconciliation delivers claims; a restart returns the rest.
LEMMA RowsSettled ==
  ASSUME TypeOK, OpenOnlyInitially, NEW rows, NEW done \in SUBSET Reconciled(rows),
         NEW d \in Dests
  PROVE  LET r == dests[d]
             n == Settled(dests, done)[d]
             q == Requeued(Settled(dests, done))[d]
         IN  /\ Stays(r, n) \/ Delivers(r, n)
             /\ \/ Stays(r, q) /\ q.state # "queued"
                \/ Delivers(r, q)
                \/ r.state = "queued" /\ phase = "initial" /\ Waits(q)
<1> DEFINE n == Settled(dests, done)[d]
<1>1. dests[d] \in Row
  BY DEF TypeOK
<1>2. \A row \in Row : /\ [row EXCEPT !.state = "accepted"].state = "accepted"
                       /\ [row EXCEPT !.state = "accepted"].source = row.source
                       /\ [row EXCEPT !.state = "accepted"] \in Row
  BY DEF Row
<1>3. n \in Row /\ (n = dests[d] \/ Delivers(dests[d], n))
  BY <1>1, <1>2 DEF Settled, Reconciled, Delivers
<1>4. Requeued(Settled(dests, done))[d] =
        IF n.state # "queued" THEN n
        ELSE Close(n, IF phase = "initial" THEN "pending" ELSE "superseded")
  BY DEF Requeued
<1>5. \A row \in Row : Waits(Close(row, "pending"))
  BY DEF Row, Close, Waits
<1> HIDE DEF n
<1>6. QED
  BY <1>1, <1>3, <1>4, <1>5
  DEF Stays, Delivers, OpenOnlyInitially, Unsent, n

\* A restart moves every row by a row step and keeps the phase.
LEMMA RowsRestarted ==
  ASSUME Safe, NEW rows, Restart(rows)
  PROVE  PhaseStep /\ \A d \in Dests : RowStep(d)
<1> DEFINE done == Reconciled(rows)
<1>1. phase' = phase /\ dests' = Requeued(Settled(dests, done))
  BY DEF Restart, candidate
<1>2. ASSUME NEW d \in Dests PROVE RowStep(d)
  <2> DEFINE q == Requeued(Settled(dests, done))[d]
  <2>1. \/ Stays(dests[d], q) \/ Delivers(dests[d], q)
        \/ dests[d].state = "queued" /\ phase = "initial" /\ Waits(q)
    BY RowsSettled DEF Safe, Core
  <2> HIDE DEF q
  <2>2. dests'[d] = q
    BY <1>1 DEF q
  <2>3. QED
    BY <1>1, <2>1, <2>2 DEF RowStep
<1>3. QED
  BY <1>1, <1>2 DEF PhaseStep

\* So do faults, crashes and administrative edits.
LEMMA RowsMishap ==
  ASSUME Safe,
         \/ \E a \in live : AcceptRaises(a) \/ CrashAfterLog(a)
         \/ Crash
         \/ \E src \in Sources, S \in SUBSET Dests : Reroute(src, S)
         \/ \E d \in Dests : ToggleDestination(d)
  PROVE  PhaseStep /\ \A d \in Dests : RowStep(d)
<1>1. ASSUME NEW a \in live, AcceptRaises(a)
      PROVE  PhaseStep /\ \A d \in Dests : RowStep(d)
  <2> DEFINE rows == unsettled \cup {EvidenceOf(a)}
  <2>1. PICK done \in {{}, Reconciled(rows)} : dests' = Settled(dests, done)
    BY <1>1 DEF AcceptRaises
  <2>2. done \in SUBSET Reconciled(rows)
    BY <2>1
  <2>3. \A d \in Dests : RowStep(d)
    BY <2>1, <2>2, RowsSettled DEF RowStep, Safe, Core
  <2>4. phase' = phase
    BY <1>1 DEF AcceptRaises, candidate
  <2>5. QED
    BY <2>3, <2>4 DEF PhaseStep
<1>2. ASSUME NEW a \in live, CrashAfterLog(a)
      PROVE  PhaseStep /\ \A d \in Dests : RowStep(d)
  BY <1>2, RowsRestarted DEF CrashAfterLog
<1>3. CASE Crash
  BY <1>3, RowsRestarted DEF Crash
<1>4. ASSUME NEW src \in Sources, NEW S \in SUBSET Dests, Reroute(src, S)
      PROVE  PhaseStep /\ \A d \in Dests : RowStep(d)
  BY <1>4, UnchangedRow DEF Reroute, PhaseStep, candidate, durable
<1>5. ASSUME NEW e \in Dests, ToggleDestination(e)
      PROVE  PhaseStep /\ \A d \in Dests : RowStep(d)
  BY <1>5, UnchangedRow DEF ToggleDestination, PhaseStep, candidate, durable
<1>6. QED
  BY <1>1, <1>2, <1>3, <1>4, <1>5

\* Every step moves every row by one of the moves above.
LEMMA RowsStep ==
  ASSUME Safe, [Next]_vars
  PROVE  PhaseStep /\ \A d \in Dests : RowStep(d)
<1>1. CASE UNCHANGED vars
  BY <1>1, UnchangedRow DEF vars, candidate, durable, PhaseStep
<1>2. CASE NothingPrepared
  BY <1>2, UnchangedRow DEF NothingPrepared, candidate, durable, PhaseStep
<1>3. CASE \E f \in Followups : PrepareFollowup(f) \/ DeliverFollowup(f)
  BY <1>3, RowsFollowedUp
<1>4. CASE \E a \in live : StartSend(a) \/ SendSucceeds(a) \/ SendFails(a)
  BY <1>4, RowsSent
<1>5. QED
  BY <1>1, <1>2, <1>3, <1>4, NextByGroup, RowsObserved, RowsMishap
----------------------------------------------------------------------------
\* Every step keeps the safety invariant.
LEMMA SafeStep == Safe /\ [Next]_vars => Safe'
<1> SUFFICES ASSUME Safe, [Next]_vars PROVE Safe'
  OBVIOUS
<1>1. Core'
  BY CoreStep DEF Safe
<1>2. ASSUME NEW d \in Dests, Unsent(dests'[d]) PROVE phase' = "initial"
  BY <1>2, RowsStep
  DEF Safe, OpenOnlyInitially, RowStep, PhaseStep, Stays, Delivers, Ended, Unsent
<1>3. OpenOnlyInitially'
  BY <1>2 DEF OpenOnlyInitially, Unsent
<1>4. HeldBySource'
  BY RowsStep DEF Safe, HeldBySource, RowStep, Stays, Waits, Claimed, Ended, Delivers
<1>5. QED
  BY <1>1, <1>3, <1>4 DEF Safe

\* The safety invariant holds initially.
LEMMA SafeInit == Init => Safe
<1> SUFFICES ASSUME Init PROVE Safe
  OBVIOUS
<1>1. \A d \in Dests : dests[d].state = "absent"
  BY DEF Init, Absent
<1>2. OpenOnlyInitially
  BY <1>1 DEF OpenOnlyInitially, Unsent
<1>3. HeldBySource
  BY <1>1 DEF HeldBySource
<1>4. QED
  BY <1>2, <1>3, CoreInit DEF Safe

\* The safety invariant always holds: rows wait or are claimed only in the
\* initial phase, and a claimed row names the source that holds it.
THEOREM SafeInvariant == Spec => []Safe
  BY SafeInit, SafeStep, PTL DEF Spec

\* No late result, replay, fallback task or restart claims an initial
\* delivery once a follow-up has taken the hazard over.
THEOREM NoLateClaim == Spec => []NoClaimAfterFollowup
<1>1. Safe => NoClaimAfterFollowup
  BY DEF Safe, OpenOnlyInitially, NoClaimAfterFollowup
<1>2. QED
  BY <1>1, SafeInvariant, PTL

\* A row step is a move of the abstract ledger.
LEMMA RowStepIsMove ==
  ASSUME TypeOK, TypeOK', NEW d \in Dests, RowStep(d)
  PROVE  Ledger!Moves(View(dests[d]), View(dests'[d]))
<1> DEFINE r == dests[d]
           n == dests'[d]
<1>1. r \in Row /\ n \in Row
  BY DEF TypeOK
<1> HIDE DEF r, n
<1> SUFFICES Ledger!Moves(View(r), View(n))
  BY DEF r, n
<1>2. /\ View(r).by = r.source /\ View(n).by = n.source
      /\ r.state = "absent" => View(r).st = "unknown"
      /\ r.state = "pending" => View(r).st = "waiting"
      /\ r.state = "queued" => View(r).st = "sending"
  BY <1>1 DEF View
<1>3. CASE Stays(r, n)
  BY <1>1, <1>3 DEF Stays, View, Ledger!Moves
<1>4. CASE Unclaimed(r) /\ (Waits(n) \/ Claimed(n))
  <2>1. View(n) \in {Ledger!Free("waiting"), Ledger!Held("same"), Ledger!Held("rest")}
    BY <1>1, <1>4 DEF View, Waits, Claimed, Sources, Ledger!Free, Ledger!Held
  <2>2. QED
    BY <1>2, <1>4, <2>1 DEF Unclaimed, Ledger!Moves, Ledger!Hand
<1>5. CASE r.state = "queued" /\ Waits(n)
  <2>1. View(n) = Ledger!Free("waiting")
    BY <1>1, <1>5 DEF View, Waits, Ledger!Free
  <2>2. QED
    BY <1>2, <1>5, <2>1 DEF Ledger!Moves, Ledger!Return
<1>6. CASE Delivers(r, n)
  <2>1. View(n) = [st |-> "delivered", by |-> View(r).by]
    BY <1>2, <1>6 DEF View, Delivers
  <2>2. QED
    BY <1>2, <1>6, <2>1 DEF Delivers, Ledger!Moves, Ledger!Deliver
<1>7. CASE (Unclaimed(r) \/ r.state = "queued") /\ Ended(n)
  <2>1. View(n) = Ledger!Free("closed")
    BY <1>1, <1>7 DEF View, Ended, Ledger!Free
  <2>2. QED
    BY <1>2, <1>7, <2>1
    DEF Unclaimed, Ledger!Moves, Ledger!Finish, Ledger!Active
<1>8. QED
  BY <1>3, <1>4, <1>5, <1>6, <1>7 DEF RowStep, r, n

\* The arbitration implements the one-shot ledger: a destination's warning
\* is with one source at a time, delivered by its holder, final, and
\* withdrawn when a later product takes the hazard over.
THEOREM ImplementsOneShot == Spec => RefinesOneShot
<1>1. Init => Ledger!Init
  <2> SUFFICES ASSUME Init PROVE Ledger!Init
    OBVIOUS
  <2>1. phase = "none" /\ \A d \in Dests : dests[d] = Absent
    BY DEF Init
  <2>2. View(Absent) = Ledger!Free("unknown")
    BY DEF View, Absent, Ledger!Free
  <2>3. QED
    BY <2>1, <2>2 DEF Ledger!Init
<1>2. Safe /\ Safe' /\ [Next]_vars => [Ledger!Next]_(Ledger!vars)
  <2> SUFFICES ASSUME Safe, Safe', [Next]_vars PROVE Ledger!Next
    OBVIOUS
  <2>1. TypeOK /\ TypeOK'
    BY DEF Safe, Core
  <2>2. PhaseStep /\ \A d \in Dests : RowStep(d)
    BY RowsStep
  <2>3. \A d \in Dests : Ledger!Moves(View(dests[d]), View(dests'[d]))
    BY <2>1, <2>2, RowStepIsMove
  <2>4. ASSUME NEW d \in Dests, phase' \notin {"none", "initial"}
        PROVE  ~Ledger!Active(View(dests'[d]))
    <3>1. ~Unsent(dests'[d])
      BY <2>4 DEF Safe, OpenOnlyInitially, Unsent
    <3>2. QED
      BY <3>1 DEF View, Unsent, Ledger!Active
  <2>5. QED
    BY <2>2, <2>3, <2>4 DEF Ledger!Next, PhaseStep
<1>3. QED
  BY <1>1, <1>2, SafeInvariant, PTL DEF Spec, RefinesOneShot, Ledger!Spec
----------------------------------------------------------------------------
(* No claim is forgotten.  The rules must admit the event: without them    *)
(* WxPoller._process may return without a result.                          *)

CarriedIn(row, d, flying, logged) ==
  \/ \E a \in flying : a.dest = d /\ a.kind = row.source
  \/ \E s \in logged : s.dest = d /\ s.kind = row.source

Carried == \A d \in Dests :
             dests[d].state = "queued" => CarriedIn(dests[d], d, live, unsettled)

\* A step that keeps every attempt and all evidence keeps what they carry.
LEMMA CarriedKept ==
  ASSUME Carried, NEW d \in Dests, dests'[d].state = "queued",
         Stays(dests[d], dests'[d]),
         live \subseteq live', unsettled' = unsettled
  PROVE  CarriedIn(dests'[d], d, live', unsettled')
  BY DEF Carried, CarriedIn, Stays

\* A hand-off puts every row it leaves claimed in a lane.
LEMMA HandoffCarries ==
  ASSUME LegacyIncludes, TypeOK, Carried,
         NEW led \in [Dests -> Row], NEW src \in Sources,
         NEW C \in SUBSET Claimable(led, src), NEW id, NEW waiting,
         Handoff(led, C, src, id, waiting), unsettled' = unsettled,
         \A e \in Dests : led[e].state = "queued" => Stays(dests[e], led[e]),
         NEW d \in Dests, dests'[d].state = "queued"
  PROVE  CarriedIn(dests'[d], d, live', unsettled')
<1>1. CASE C = {}
  BY <1>1, CarriedKept DEF Handoff
<1>2. CASE C # {}
  <2> DEFINE root == IF src = "same" \/ alias = "none" THEN id ELSE alias
             sent == {e \in C \cap Reach(src) : ~InFlight(e, src)}
             lost == C \ sent
             new(E) == {NewAttempt(e, src, root, "sent", "no") : e \in E}
  <2>1. live \subseteq live'
    BY <1>2 DEF Handoff
  <2>2. CASE led[d].state = "queued"
    <3>1. d \notin C
      BY <2>2 DEF Claimable
    <3>2. dests'[d] = led[d]
      BY <1>2, <3>1 DEF Handoff, CloseAll, Claim
    <3>3. QED
      BY <2>1, <2>2, <3>2, CarriedKept
  <2>3. CASE led[d].state # "queued"
    <3>1. \/ /\ dests' = CloseAll(Claim(led, C, src), lost, "no_fallback")
             /\ live' = live \cup new(sent)
          \/ dests' = CloseAll(led, lost, "no_fallback")
      BY <1>2 DEF Handoff
    <3>0. \A row \in Row : Close(row, "no_fallback").state = "no_fallback"
      BY DEF Close, Row
    <3>2. dests' # CloseAll(led, lost, "no_fallback")
      <4> SUFFICES ASSUME dests' = CloseAll(led, lost, "no_fallback") PROVE FALSE
        OBVIOUS
      <4>1. dests'[d] \in {led[d], Close(led[d], "no_fallback")}
        BY DEF CloseAll
      <4>2. QED
        BY <2>3, <3>0, <4>1
    <3>3. d \in sent /\ dests'[d].source = src
      <4>1. Claim(led, C, src) \in [Dests -> Row]
        BY RowOperations DEF Claimable
      <4>3. d \notin lost /\ dests'[d] = Claim(led, C, src)[d]
        BY <3>0, <3>1, <3>2, <4>1 DEF CloseAll
      <4>4. d \in C
        BY <2>3, <4>3 DEF Claim
      <4>5. QED
        BY <4>3, <4>4 DEF Claim, Row
    <3>4. NewAttempt(d, src, root, "sent", "no") \in live'
      BY <3>1, <3>2, <3>3
    <3>5. QED
      BY <3>3, <3>4 DEF CarriedIn, NewAttempt
  <2>4. QED
    BY <2>2, <2>3
<1>3. QED
  BY <1>1, <1>2

\* The observations, and what releases the rows they leave waiting.
LEMMA CarriedObserved ==
  ASSUME LegacyIncludes, Safe, Carried,
         \/ SameIngest \/ RestCreate \/ RestBind \/ RestReplay
         \/ DeadlinePasses \/ ReleaseDue \/ \E e \in Dests : RunFallback(e),
         NEW d \in Dests, dests'[d].state = "queued"
  PROVE  CarriedIn(dests'[d], d, live', unsettled')
<1> USE DEF Safe, Core
<1>1. Reach("same") \in SUBSET Dests /\ Reach("rest") \in SUBSET Dests
      /\ "rest" \in Sources /\ "same" \in Sources
  BY DEF Reach, TypeOK, Sources
<1>2. CASE SameIngest
  <2> DEFINE open == phase \in {"none", "initial"}
             id   == IF phase = "none" THEN "same" ELSE canonical
             led  == RecordSame(dests, Reach("same"), open)
             C    == IF open THEN Claimable(led, "same") ELSE {}
  <2>1. open \in BOOLEAN /\ dests \in [Dests -> Row]
    BY DEF TypeOK
  <2>2. led \in [Dests -> Row] /\ C \in SUBSET Claimable(led, "same")
    <3> HIDE DEF open
    <3>1. QED
      BY <1>1, <2>1, RowOperations
  <2>3. \A e \in Dests : led[e].state = "queued" => Stays(dests[e], led[e])
    <3> HIDE DEF open
    <3>1. QED
      BY <1>1, <2>1, ObservedRows DEF Waits, Ended
  <2>4. Handoff(led, C, "same", id, tasks) /\ unsettled' = unsettled
    BY <1>2 DEF SameIngest
  <2> HIDE DEF led, C, id
  <2>5. QED
    BY <1>1, <2>2, <2>3, <2>4, HandoffCarries
<1>3. CASE RestCreate
  <2>1. Stays(dests[d], dests'[d])
    BY <1>1, <1>3, ObservedRows DEF RestCreate, Waits
  <2>2. QED
    BY <1>3, <2>1, CarriedKept DEF RestCreate, memory
<1>4. CASE RestBind
  <2> DEFINE led == Bind(dests, Reach("rest"), TRUE)
             C   == Claimable(led, "rest")
  <2>1. led \in [Dests -> Row] /\ C \in SUBSET Claimable(led, "rest")
    BY <1>1, RowOperations DEF TypeOK
  <2>2. ASSUME NEW e \in Dests, led[e].state = "queued"
        PROVE  Stays(dests[e], led[e])
    <3>1. \/ Stays(dests[e], led[e]) \/ Waits(led[e]) \/ Ended(led[e])
      BY <1>1, ObservedRows
    <3>2. QED
      BY <2>2, <3>1 DEF Waits, Ended
  <2>3. Handoff(led, C, "rest", canonical, tasks) /\ unsettled' = unsettled
    BY <1>4 DEF RestBind
  <2> HIDE DEF led, C
  <2>4. QED
    BY <1>1, <2>1, <2>2, <2>3, HandoffCarries
<1>5. CASE RestReplay
  <2> DEFINE open == phase = "initial"
  <2>1. open \in BOOLEAN /\ dests' = Bind(dests, Reach("rest"), open)
    BY <1>5 DEF RestReplay
  <2> HIDE DEF open
  <2>2. Stays(dests[d], dests'[d])
    BY <1>1, <2>1, ObservedRows DEF Waits, Ended
  <2>3. QED
    BY <1>5, <2>2, CarriedKept DEF RestReplay, memory
<1>6. CASE DeadlinePasses
  BY <1>6, CarriedKept DEF DeadlinePasses, durable, memory, Stays
<1>7. ASSUME NEW C \in SUBSET Claimable(dests, "rest"), NEW waiting,
             Handoff(dests, C, "rest", "rest", waiting), unsettled' = unsettled
      PROVE  CarriedIn(dests'[d], d, live', unsettled')
  <2>1. \A e \in Dests : Stays(dests[e], dests[e])
    BY DEF Stays
  <2>2. QED
    BY <1>1, <1>7, <2>1, HandoffCarries DEF TypeOK
<1>8. CASE ReleaseDue
  BY <1>7, <1>8 DEF ReleaseDue
<1>9. ASSUME NEW e \in Dests, RunFallback(e)
      PROVE  CarriedIn(dests'[d], d, live', unsettled')
  <2> DEFINE C == IF phase = "initial" /\ restFeature # "none"
                  THEN {e} \cap Claimable(dests, "rest") ELSE {}
  <2>1. C \in SUBSET Claimable(dests, "rest")
    OBVIOUS
  <2>2. Handoff(dests, C, "rest", "rest", tasks \ {e}) /\ unsettled' = unsettled
    BY <1>9 DEF RunFallback
  <2>3. QED
    BY <1>7, <2>1, <2>2
<1>10. QED
  BY <1>2, <1>3, <1>4, <1>5, <1>6, <1>8, <1>9

\* The worker's result settles the row its attempt carries.
LEMMA CarriedSent ==
  ASSUME Safe, Carried, NEW a \in live,
         StartSend(a) \/ SendSucceeds(a) \/ SendFails(a),
         NEW d \in Dests, dests'[d].state = "queued"
  PROVE  CarriedIn(dests'[d], d, live', unsettled')
<1> USE DEF Safe, Core
<1>1. a \in Attempt
  BY RadioTypes
<1>2. CASE StartSend(a)
  <2>1. dests' = dests /\ unsettled' = unsettled
    BY <1>2 DEF StartSend, durable
  <2>2. \A b \in live : \E c \in live' : c.dest = b.dest /\ c.kind = b.kind
    <3>1. LET c == [a EXCEPT !.stage = "air"] IN
            c \in live' /\ c.dest = a.dest /\ c.kind = a.kind
      BY <1>1, <1>2 DEF StartSend, Attempt
    <3>2. \A b \in live \ {a} : b \in live'
      BY <1>2 DEF StartSend
    <3>3. QED
      BY <3>1, <3>2
  <2>3. QED
    BY <2>1, <2>2 DEF Carried, CarriedIn
<1>3. ASSUME NEW ok \in BOOLEAN, Retire(a, ok)
      PROVE  \A b \in live \ {a} :
               \E c \in live' : c.dest = b.dest /\ c.kind = b.kind
  <2>1. \A b \in live : \A x \in {"met", "unmet"} :
          /\ [b EXCEPT !.cond = x].dest = b.dest
          /\ [b EXCEPT !.cond = x].kind = b.kind
    BY DEF TypeOK, Attempt
  <2>2. TAKE b \in live \ {a}
  <2>3. CASE b.cond = "wait" /\ b.root = a.root /\ b.dest = a.dest
    <3> DEFINE x == IF ok THEN "met" ELSE "unmet"
    <3>1. [b EXCEPT !.cond = x] \in live'
      BY <1>3, <2>3 DEF Retire
    <3>2. QED
      BY <2>1, <3>1
  <2>4. CASE ~(b.cond = "wait" /\ b.root = a.root /\ b.dest = a.dest)
    BY <1>3, <2>4 DEF Retire
  <2>5. QED
    BY <2>3, <2>4
<1>4. ASSUME \A b \in live \ {a} :
               \E c \in live' : c.dest = b.dest /\ c.kind = b.kind,
             dests'[d] = dests[d], unsettled' = unsettled,
             ~(a.dest = d /\ a.kind = dests[d].source)
      PROVE  CarriedIn(dests'[d], d, live', unsettled')
  BY <1>4 DEF Carried, CarriedIn
<1>5. dests[d] \in Row
  BY DEF TypeOK
<1>6. CASE SendSucceeds(a)
  <2>1. \/ dests'[d] = dests[d]
        \/ /\ d = a.dest
           /\ dests'[d] = [dests[d] EXCEPT !.state = "accepted"]
    BY <1>6 DEF SendSucceeds, Accept, TypeOK
  <2>2. dests'[d] = dests[d]
    BY <1>5, <2>1 DEF Row
  <2>3. ~(a.dest = d /\ a.kind = dests[d].source)
    <3> SUFFICES ASSUME a.dest = d, a.kind = dests[d].source PROVE FALSE
      OBVIOUS
    <3>1. a.kind \in Sources
      BY <2>2 DEF HeldBySource
    <3>2. Current(a)
      BY <2>2, <3>1 DEF Current, OpenOnlyInitially, Unsent
    <3>3. dests' = [dests EXCEPT ![a.dest].state = "accepted"]
      BY <1>6, <3>1, <3>2 DEF SendSucceeds, Accept
    <3>4. dests'[d].state = "accepted"
      BY <1>5, <3>3 DEF TypeOK, Row
    <3>5. QED
      BY <3>4
  <2>4. unsettled' = unsettled /\ Retire(a, TRUE)
    BY <1>6 DEF SendSucceeds
  <2>5. QED
    BY <1>3, <1>4, <2>2, <2>3, <2>4
<1>7. CASE SendFails(a)
  <2>1. \A row \in Row : Close(row, AfterFailure(row)).state # "queued"
    BY DEF Row, Close, AfterFailure
  <2>2. unsettled' = unsettled /\ Retire(a, FALSE)
    BY <1>7 DEF SendFails
  <2>3. \/ dests' = dests /\ ~(/\ a.kind \in Sources
                               /\ dests[a.dest].state = "queued"
                               /\ dests[a.dest].source = a.kind)
        \/ dests' = [dests EXCEPT ![a.dest] =
                       Close(dests[a.dest], AfterFailure(dests[a.dest]))]
    BY <1>7 DEF SendFails
  <2>4. dests'[d] = dests[d]
    BY <1>5, <2>1, <2>3 DEF TypeOK
  <2>5. ~(a.dest = d /\ a.kind = dests[d].source)
    <3> SUFFICES ASSUME a.dest = d, a.kind = dests[d].source PROVE FALSE
      OBVIOUS
    <3>1. dests[d].state = "queued" /\ a.kind \in Sources
      BY <2>4 DEF HeldBySource
    <3>2. dests'[d] = Close(dests[d], AfterFailure(dests[d]))
      BY <2>3, <3>1 DEF TypeOK
    <3>3. QED
      BY <1>5, <2>1, <2>4, <3>1, <3>2
  <2>6. QED
    BY <1>3, <1>4, <2>2, <2>4, <2>5
<1>8. QED
  BY <1>2, <1>6, <1>7

\* Evidence and claims after a reconciliation: a claim it does not deliver
\* still has its evidence.
LEMMA CarriedSettled ==
  ASSUME Safe, NEW a \in live, NEW d \in Dests,
         CarriedIn(dests[d], d, live, unsettled),
         NEW done \in SUBSET Reconciled(unsettled \cup {EvidenceOf(a)}),
         Retire(a, TRUE),
         unsettled' = (unsettled \cup {EvidenceOf(a)}) \ done,
         Settled(dests, done)[d].state = "queued"
  PROVE  /\ Settled(dests, done)[d] = dests[d]
         /\ CarriedIn(dests[d], d, live', unsettled')
<1> USE DEF Safe, Core
<1>1. a \in Attempt /\ dests[d] \in Row
  BY RadioTypes DEF TypeOK
<1>2. ~\E s \in done : s.dest = d /\ s.kind \in Sources
  <2>1. [dests[d] EXCEPT !.state = "accepted"].state # "queued"
    BY <1>1 DEF Row
  <2>2. QED
    BY <2>1 DEF Settled
<1>3. Settled(dests, done)[d] = dests[d]
  BY <1>2 DEF Settled
<1>4. dests[d].source \in Sources
  BY <1>3 DEF HeldBySource
<1>5. ASSUME NEW s \in unsettled \cup {EvidenceOf(a)},
             s.dest = d, s.kind = dests[d].source
      PROVE  s \in unsettled'
  BY <1>2, <1>4, <1>5
<1>6. ASSUME NEW b \in live, b.dest = d, b.kind = dests[d].source
      PROVE  CarriedIn(dests[d], d, live', unsettled')
  <2>1. CASE b = a
    <3>1. EvidenceOf(a).dest = d /\ EvidenceOf(a).kind = dests[d].source
      BY <1>6, <2>1 DEF EvidenceOf
    <3>2. QED
      BY <1>5, <3>1 DEF CarriedIn
  <2>2. CASE b # a
    <3>1. [b EXCEPT !.cond = "met"].dest = b.dest
          /\ [b EXCEPT !.cond = "met"].kind = b.kind
      BY DEF TypeOK, Attempt
    <3>2. b \in live' \/ [b EXCEPT !.cond = "met"] \in live'
      BY <2>2 DEF Retire
    <3>3. QED
      BY <1>6, <3>1, <3>2 DEF CarriedIn
  <2>3. QED
    BY <2>1, <2>2
<1>7. QED
  BY <1>3, <1>5, <1>6 DEF CarriedIn

\* Faults, crashes and edits leave no claim without a carrier.
LEMMA CarriedMishap ==
  ASSUME Safe, Carried,
         \/ \E a \in live : AcceptRaises(a) \/ CrashAfterLog(a)
         \/ Crash
         \/ \E src \in Sources, S \in SUBSET Dests : Reroute(src, S)
         \/ \E e \in Dests : ToggleDestination(e),
         NEW d \in Dests, dests'[d].state = "queued"
  PROVE  CarriedIn(dests'[d], d, live', unsettled')
<1>1. ASSUME NEW a \in live, AcceptRaises(a)
      PROVE  CarriedIn(dests'[d], d, live', unsettled')
  <2> DEFINE rows == unsettled \cup {EvidenceOf(a)}
  <2>1. PICK done \in {{}, Reconciled(rows)} :
          dests' = Settled(dests, done) /\ unsettled' = rows \ done
    BY <1>1 DEF AcceptRaises
  <2>2. done \in SUBSET Reconciled(rows)
    BY <2>1
  <2>3. dests[d].state = "queued"
    <3>1. Stays(dests[d], dests'[d]) \/ Delivers(dests[d], dests'[d])
      BY <2>1, <2>2, RowsSettled DEF Safe, Core
    <3>2. QED
      BY <3>1 DEF Stays, Delivers
  <2>4. CarriedIn(dests[d], d, live, unsettled)
    BY <2>3 DEF Carried
  <2>5. Retire(a, TRUE)
    BY <1>1 DEF AcceptRaises
  <2>6. QED
    BY <2>1, <2>2, <2>4, <2>5, CarriedSettled
<1>2. ASSUME NEW rows, Restart(rows) PROVE FALSE
  <2> DEFINE done == Reconciled(rows)
             q    == Requeued(Settled(dests, done))[d]
  <2>1. \/ Stays(dests[d], q) /\ q.state # "queued"
        \/ Delivers(dests[d], q) \/ Waits(q)
    BY RowsSettled DEF Safe, Core
  <2>2. dests'[d] = q
    BY <1>2 DEF Restart
  <2>3. QED
    BY <2>1, <2>2 DEF Delivers, Waits
<1>3. ASSUME UNCHANGED <<durable, memory>>
      PROVE  CarriedIn(dests'[d], d, live', unsettled')
  BY <1>3 DEF Carried, CarriedIn, durable, memory
<1>4. QED
  BY <1>1, <1>2, <1>3 DEF CrashAfterLog, Crash, Reroute, ToggleDestination

\* Every step keeps every claim carried.
LEMMA CarriedStep ==
  LegacyIncludes /\ Safe /\ Carried /\ [Next]_vars => Carried'
<1> SUFFICES ASSUME LegacyIncludes, Safe, Carried, [Next]_vars,
                    NEW d \in Dests, dests'[d].state = "queued"
             PROVE  CarriedIn(dests'[d], d, live', unsettled')
  BY DEF Carried, CarriedIn
<1>1. CASE UNCHANGED vars
  BY <1>1 DEF Carried, CarriedIn, vars, durable, memory
<1>2. CASE NothingPrepared
  BY <1>2 DEF NothingPrepared, Carried, CarriedIn, durable
<1>3. ASSUME NEW f \in Followups, PrepareFollowup(f) \/ DeliverFollowup(f)
      PROVE  CarriedIn(dests'[d], d, live', unsettled')
  <2>1. CASE PrepareFollowup(f) /\ phase \in Terminal
    BY <2>1 DEF PrepareFollowup, Carried, CarriedIn
  <2>2. CASE PrepareFollowup(f) /\ phase \notin Terminal
    <3>1. phase' # "initial"
      BY <2>2, ConstantsAssumption DEF PrepareFollowup, PhaseAfter
    <3>2. OpenOnlyInitially'
      BY SafeStep DEF Safe
    <3>3. QED
      BY <3>1, <3>2 DEF OpenOnlyInitially, Unsent
  <2>3. CASE DeliverFollowup(f)
    <3>1. restFeature = f
      BY <2>3, ConstantsAssumption
      DEF DeliverFollowup, Waiting, Safe, Core, OnlyNewestProductMoves
    <3>2. dests' = dests /\ phase # "initial"
      BY <2>3, <3>1 DEF DeliverFollowup, Safe, Core, Anchored
    <3>3. QED
      BY <3>2 DEF Safe, OpenOnlyInitially, Unsent
  <2>4. QED
    BY <1>3, <2>1, <2>2, <2>3
<1>4. CASE \E a \in live : StartSend(a) \/ SendSucceeds(a) \/ SendFails(a)
  BY <1>4, CarriedSent
<1>5. CASE \E f \in Followups : PrepareFollowup(f) \/ DeliverFollowup(f)
  BY <1>3, <1>5
<1>6. QED
  BY <1>1, <1>2, <1>4, <1>5, NextByGroup, CarriedObserved, CarriedMishap

\* Where the rules admit the event, every claimed destination is carried by
\* an attempt of the source that claimed it or by a logged broadcast: no
\* crash, fault or failure leaves a claim behind that nobody will settle.
THEOREM EveryClaimCarried ==
  ASSUME LegacyIncludes
  PROVE  Spec => []EveryClaimIsCarried
<1>1. Init => Carried
  <2> SUFFICES ASSUME Init PROVE Carried
    OBVIOUS
  <2>1. \A d \in Dests : dests[d].state = "absent"
    BY DEF Init, Absent
  <2>2. QED
    BY <2>1 DEF Carried
<1>2. Carried => EveryClaimIsCarried
  BY DEF Carried, CarriedIn, EveryClaimIsCarried, InFlight
<1>3. Safe /\ Carried /\ [Next]_vars => Carried'
  BY CarriedStep
<1>4. QED
  BY <1>1, <1>2, <1>3, SafeInvariant, PTL DEF Spec
=============================================================================
