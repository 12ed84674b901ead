----------------------------- MODULE ChainProofs -----------------------------
(***************************************************************************)
(* Theorems about the chain of a hazard in Arbitration: what is sent       *)
(* behind a broadcast, who is told and who hears the end of it, and when   *)
(* the initial warning is broadcast twice.                                 *)
(***************************************************************************)
EXTENDS LedgerProofs

----------------------------------------------------------------------------
(* What waits behind a broadcast.                                          *)

\* An attempt on the air was free to go, and one that was released heard
\* (h) the broadcast it waited for.
Released(a, h) ==
  /\ a.stage = "air" => a.cond \in {"no", "met"}
  /\ a.cond = "met" => a.dest \in h[a.root]

Behind == \A a \in live : Released(a, heard)

\* What joins a lane has nothing to show for yet.
LEMMA NewIsReleased ==
  ASSUME NEW d, NEW kind, NEW root, NEW disp, NEW cond \in {"no", "wait"}, NEW h
  PROVE  Released(NewAttempt(d, kind, root, disp, cond), h)
  BY DEF Released, NewAttempt

\* Where nothing was retired, only new attempts need to be looked at.
LEMMA BehindGrows ==
  ASSUME Behind, heard' = heard,
         \A b \in live' : b \in live \/ Released(b, heard)
  PROVE  Behind'
  BY DEF Behind, Released

LEMMA HandoffBehind ==
  ASSUME Behind, NEW led, NEW C, NEW src, NEW id, NEW waiting,
         Handoff(led, C, src, id, waiting), heard' = heard
  PROVE  Behind'
<1> DEFINE root == IF src = "same" \/ alias = "none" THEN id ELSE alias
           sent == {d \in C \cap Reach(src) : ~InFlight(d, src)}
           new(E) == {NewAttempt(d, src, root, "sent", "no") : d \in E}
<1>1. \/ live' = live
      \/ \E E \in SUBSET sent : live' = live \cup new(E)
  BY DEF Handoff
<1>2. \A b \in live' : b \in live \/ Released(b, heard)
  BY <1>1, NewIsReleased
<1>3. QED
  BY <1>2, BehindGrows

\* A result releases or skips what waited behind it, and a success is heard.
LEMMA RetireBehind ==
  ASSUME TypeOK, Behind, NEW a \in live, NEW ok \in BOOLEAN, Retire(a, ok),
         \/ ok /\ Aired(a)
         \/ ~ok /\ heard' = heard
  PROVE  Behind'
<1>1. a \in Attempt /\ live \subseteq Attempt
  BY DEF TypeOK
<1>2. \A r \in Sources : heard[r] \subseteq heard'[r]
  BY DEF Aired, TypeOK
<1>3. ok => a.dest \in heard'[a.root]
  BY <1>1 DEF Aired, TypeOK, Attempt
<1>4. ASSUME NEW b \in live, Released(b, heard) PROVE Released(b, heard')
  BY <1>1, <1>2, <1>4 DEF Released, Attempt
<1>5. ASSUME NEW b \in live, b.cond = "wait", b.root = a.root, b.dest = a.dest
      PROVE  Released([b EXCEPT !.cond = IF ok THEN "met" ELSE "unmet"], heard')
  <2> DEFINE x == IF ok THEN "met" ELSE "unmet"
             c == [b EXCEPT !.cond = x]
  <2>1. /\ c.stage = b.stage /\ c.cond = x
        /\ c.dest = b.dest /\ c.root = b.root
    BY <1>1 DEF Attempt
  <2>2. b.stage # "air"
    BY <1>5 DEF Behind, Released
  <2>3. x = "met" => ok
    OBVIOUS
  <2> HIDE DEF c, x
  <2>4. QED
    BY <1>3, <1>5, <2>1, <2>2, <2>3 DEF Released
<1>6. QED
  BY <1>4, <1>5 DEF Retire, Behind

LEMMA BehindStep ==
  ASSUME Safe, Behind, [Next]_vars
  PROVE  Behind'
<1> USE DEF Safe, Core
<1>1. ASSUME live' = live \/ live' = {}, heard' = heard PROVE Behind'
  BY <1>1 DEF Behind
<1>2. CASE UNCHANGED vars
  BY <1>1, <1>2 DEF vars, memory, history
<1>3. CASE \/ SameIngest \/ RestCreate \/ RestBind \/ RestReplay
           \/ DeadlinePasses \/ ReleaseDue \/ \E d \in Dests : RunFallback(d)
  <2>1. CASE SameIngest \/ RestBind \/ ReleaseDue \/ \E d \in Dests : RunFallback(d)
    <3>1. heard' = heard
      BY <2>1 DEF SameIngest, RestBind, ReleaseDue, RunFallback, history
    <3>2. \E led, C, src, id, waiting : Handoff(led, C, src, id, waiting)
      BY <2>1 DEF SameIngest, RestBind, ReleaseDue, RunFallback
    <3>3. QED
      BY <3>1, <3>2, HandoffBehind
  <2>2. CASE RestCreate \/ RestReplay \/ DeadlinePasses
    BY <1>1, <2>2 DEF RestCreate, RestReplay, DeadlinePasses, memory, history
  <2>3. QED
    BY <1>3, <2>1, <2>2
<1>4. CASE NothingPrepared
  BY <1>1, <1>4 DEF NothingPrepared, history
<1>5. ASSUME NEW f \in Followups, PrepareFollowup(f) PROVE Behind'
  BY <1>1, <1>5 DEF PrepareFollowup, history
<1>6. ASSUME NEW f \in Followups, DeliverFollowup(f) PROVE Behind'
  <2>1. heard' = heard
    BY <1>6 DEF DeliverFollowup, history
  <2>2. ASSUME NEW r, NEW E, EnqueueFollowup(f, E, r) PROVE Behind'
    <3>1. \A d \in E : CondOf(f, d, r) \in {"no", "wait"}
      BY DEF CondOf
    <3>2. \A b \in live' : b \in live \/ Released(b, heard)
      BY <2>2, <3>1, NewIsReleased DEF EnqueueFollowup
    <3>3. QED
      BY <2>1, <3>2, BehindGrows
  <2>3. live' = live \/ \E r, E : EnqueueFollowup(f, E, r)
    BY <1>6 DEF DeliverFollowup
  <2>4. QED
    BY <1>1, <2>1, <2>2, <2>3
<1>7. ASSUME NEW a \in live, StartSend(a) PROVE Behind'
  <2>1. a \in Attempt
    BY DEF TypeOK
  <2>2. /\ [a EXCEPT !.stage = "air"].cond = a.cond
        /\ [a EXCEPT !.stage = "air"].dest = a.dest
        /\ [a EXCEPT !.stage = "air"].root = a.root
    BY <2>1 DEF Attempt
  <2>3. Released([a EXCEPT !.stage = "air"], heard)
    BY <1>7, <2>2 DEF Released, Behind, StartSend
  <2>4. QED
    BY <1>7, <2>3, BehindGrows DEF StartSend, history
<1>8. ASSUME NEW a \in live, SendSucceeds(a) \/ AcceptRaises(a) PROVE Behind'
  BY <1>8, RetireBehind DEF SendSucceeds, AcceptRaises
<1>9. ASSUME NEW a \in live, SendFails(a) PROVE Behind'
  BY <1>9, RetireBehind DEF SendFails, history
<1>10. ASSUME NEW a \in live, CrashAfterLog(a) PROVE Behind'
  BY <1>10 DEF CrashAfterLog, Restart, Behind
<1>11. CASE Crash
  BY <1>1, <1>11 DEF Crash, Restart, history
<1>12. CASE \/ \E src \in Sources, S \in SUBSET Dests : Reroute(src, S)
            \/ \E d \in Dests : ToggleDestination(d)
  BY <1>1, <1>12 DEF Reroute, ToggleDestination, memory, history
<1>13. QED
  BY <1>2, <1>3, <1>4, <1>5, <1>6, <1>7, <1>8, <1>9, <1>10, <1>11, <1>12,
     NextByGroup

\* What had to wait for a broadcast of its chain goes on the air only at a
\* destination where that chain has been heard, whatever results, pulls,
\* crashes and reroutes come in between (poller.py:561-584).
THEOREM SentBehindSuccess == Spec => []ConditionalNeedsSuccess
<1>1. Init => Behind
  BY DEF Init, Behind
<1>2. Safe /\ Behind /\ [Next]_vars => Behind'
  BY BehindStep
<1>3. Behind => ConditionalNeedsSuccess
  BY DEF Behind, Released, ConditionalNeedsSuccess
<1>4. QED
  BY <1>1, <1>2, <1>3, SafeInvariant, PTL DEF Spec
----------------------------------------------------------------------------
(* Who is told, and who hears the end of the hazard.                       *)

\* The destinations d whose claim of some kind this step settles, or may.
Accepted(d) ==
  \/ dests[d].state = "queued" /\ dests'[d].state = "accepted"
  \/ \E f \in Followups : outbox[f][d] = "queued" /\ outbox'[f][d] = "accepted"

ToldStep == \A r \in Sources : \A d \in told'[r] \ told[r] : Accepted(d)

\* A reconciliation tells exactly those whose claim it accepts.
LEMMA SettledIsTold ==
  ASSUME TypeOK, NEW rows \in SUBSET Evidence,
         NEW done \in SUBSET Reconciled(rows),
         NEW r \in Sources, NEW d \in ToldBy(done)[r] \ told[r]
  PROVE  /\ d \in Dests
         /\ \/ dests[d].state = "queued" /\ Settled(dests, done)[d].state = "accepted"
            \/ \E f \in Followups : /\ outbox[f][d] = "queued"
                                    /\ SettledOutbox(done)[f][d] = "accepted"
<1>1. PICK s \in done : s.dest = d
  BY DEF ToldBy
<1>2. s \in Evidence /\ s \in Reconciled(rows)
  BY <1>1 DEF Reconciled
<1>3. d \in Dests /\ dests[d] \in Row
  BY <1>1, <1>2 DEF Evidence, TypeOK
<1>4. CASE s.kind \in Sources
  <2>1. dests[d].state = "queued"
    BY <1>1, <1>2, <1>4 DEF Reconciled
  <2>2. Settled(dests, done)[d] = [dests[d] EXCEPT !.state = "accepted"]
    BY <1>1, <1>3, <1>4 DEF Settled
  <2>3. QED
    BY <1>3, <2>1, <2>2 DEF Row
<1>5. CASE s.kind \notin Sources
  <2>1. s.kind \in Followups
    BY <1>2, <1>5 DEF Evidence, Kinds
  <2>2. outbox[s.kind][d] = "queued"
    BY <1>1, <1>2, <1>5 DEF Reconciled
  <2>3. SettledOutbox(done)[s.kind][d] = "accepted"
    BY <1>1, <1>3, <2>1 DEF SettledOutbox
  <2>4. QED
    BY <1>3, <2>1, <2>2, <2>3
<1>6. QED
  BY <1>4, <1>5

\* A result tells a destination when it accepts its claim.
LEMMA ToldSent ==
  ASSUME TypeOK, NEW a \in live, SendSucceeds(a)
  PROVE  ToldStep
<1>1. a \in Attempt
  BY DEF TypeOK
<1>2. SUFFICES ASSUME NEW r \in Sources, NEW d \in told'[r] \ told[r]
               PROVE  Accepted(d)
  BY DEF ToldStep
<1>3. Accept(a) /\ Current(a)
  BY DEF SendSucceeds, Accept
<1>4. d = a.dest /\ d \in Dests
  BY <1>1, <1>3 DEF Accept, TypeOK, Attempt
<1>5. CASE a.kind \in Sources
  <2>1. dests[d].state = "queued" /\ dests[d] \in Row
    BY <1>3, <1>4, <1>5 DEF Current, TypeOK
  <2>2. dests'[d] = [dests[d] EXCEPT !.state = "accepted"]
    BY <1>3, <1>4, <1>5 DEF Accept, TypeOK
  <2>3. QED
    BY <2>1, <2>2 DEF Accepted, Row
<1>6. CASE a.kind \notin Sources
  <2>1. a.kind \in Followups
    BY <1>1, <1>6 DEF Attempt, Kinds
  <2>2. outbox[a.kind][d] = "queued"
    BY <1>3, <1>4, <1>6 DEF Current
  <2>3. outbox'[a.kind][d] = "accepted"
    BY <1>3, <1>4, <1>6, <2>1 DEF Accept, TypeOK
  <2>4. QED
    BY <2>1, <2>2, <2>3 DEF Accepted
<1>7. QED
  BY <1>5, <1>6

\* So do a reconciliation at run time and the one of a restart.
LEMMA ToldReconciled ==
  ASSUME TypeOK, NEW rows \in SUBSET Evidence
  PROVE  /\ \A done \in SUBSET Reconciled(rows) :
              dests' = Settled(dests, done) /\ outbox' = SettledOutbox(done)
              /\ told' = ToldBy(done) => ToldStep
         /\ Restart(rows) => ToldStep
<1>1. ASSUME NEW done \in SUBSET Reconciled(rows),
             dests' = Settled(dests, done), outbox' = SettledOutbox(done),
             told' = ToldBy(done)
      PROVE  ToldStep
  BY <1>1, SettledIsTold DEF ToldStep, Accepted
<1>2. ASSUME Restart(rows) PROVE ToldStep
  <2> DEFINE done == Reconciled(rows)
  <2>1. SUFFICES ASSUME NEW r \in Sources, NEW d \in told'[r] \ told[r]
                 PROVE  Accepted(d)
    BY DEF ToldStep
  <2>2. told' = ToldBy(done) /\ dests' = Requeued(Settled(dests, done))
    BY <1>2 DEF Restart
  <2>3. d \in Dests
        /\ \/ dests[d].state = "queued" /\ Settled(dests, done)[d].state = "accepted"
           \/ \E f \in Followups : /\ outbox[f][d] = "queued"
                                   /\ SettledOutbox(done)[f][d] = "accepted"
    <3> HIDE DEF done
    <3>1. done \subseteq Reconciled(rows)
      BY DEF done
    <3>2. QED
      BY <2>1, <2>2, <3>1, SettledIsTold
  <2>4. ASSUME Settled(dests, done)[d].state = "accepted"
        PROVE  dests'[d].state = "accepted"
    BY <2>2, <2>3, <2>4 DEF Requeued
  <2>5. ASSUME NEW f \in Followups, SettledOutbox(done)[f][d] = "accepted"
        PROVE  outbox'[f][d] = "accepted"
    BY <1>2, <2>3, <2>5 DEF Restart
  <2>6. QED
    BY <2>3, <2>4, <2>5 DEF Accepted
<1>3. QED
  BY <1>1, <1>2

LEMMA ToldGrows ==
  ASSUME TypeOK, [Next]_vars
  PROVE  ToldStep
<1>1. ASSUME told' = told PROVE ToldStep
  BY <1>1 DEF ToldStep
<1>2. ASSUME NEW a \in live
      PROVE  unsettled \cup {EvidenceOf(a)} \in SUBSET Evidence
  BY RadioTypes DEF TypeOK
<1>3. CASE UNCHANGED vars
  BY <1>1, <1>3 DEF vars, durable
<1>4. CASE \/ SameIngest \/ RestCreate \/ RestBind \/ RestReplay
           \/ DeadlinePasses \/ ReleaseDue \/ \E d \in Dests : RunFallback(d)
  BY <1>1, <1>4
  DEF SameIngest, RestCreate, RestBind, RestReplay, DeadlinePasses,
      ReleaseDue, RunFallback, durable
<1>5. CASE NothingPrepared
  BY <1>1, <1>5 DEF NothingPrepared, durable
<1>6. CASE \E f \in Followups : PrepareFollowup(f) \/ DeliverFollowup(f)
  BY <1>1, <1>6 DEF PrepareFollowup, DeliverFollowup
<1>7. ASSUME NEW a \in live, StartSend(a) \/ SendFails(a) PROVE ToldStep
  BY <1>1, <1>7 DEF StartSend, SendFails, durable
<1>8. ASSUME NEW a \in live, SendSucceeds(a) PROVE ToldStep
  BY <1>8, ToldSent
<1>9. ASSUME NEW a \in live, AcceptRaises(a) PROVE ToldStep
  <2> DEFINE rows == unsettled \cup {EvidenceOf(a)}
  <2>1. PICK done \in {{}, Reconciled(rows)} :
          /\ dests' = Settled(dests, done) /\ outbox' = SettledOutbox(done)
          /\ told' = ToldBy(done)
    BY <1>9 DEF AcceptRaises
  <2>2. done \in SUBSET Reconciled(rows) /\ rows \in SUBSET Evidence
    BY <1>2, <2>1
  <2> HIDE DEF rows
  <2>3. QED
    BY <2>1, <2>2, ToldReconciled
<1>10. ASSUME NEW a \in live, CrashAfterLog(a) PROVE ToldStep
  BY <1>2, <1>10, ToldReconciled DEF CrashAfterLog
<1>11. CASE Crash
  BY <1>11, ToldReconciled DEF Crash, TypeOK
<1>12. CASE \/ \E src \in Sources, S \in SUBSET Dests : Reroute(src, S)
            \/ \E d \in Dests : ToggleDestination(d)
  BY <1>1, <1>12 DEF Reroute, ToggleDestination, durable
<1>13. QED
  BY <1>3, <1>4, <1>5, <1>6, <1>7, <1>8, <1>9, <1>10, <1>11, <1>12, NextByGroup

\* The chain state grows only where the ledger accepts a claim in the same
\* step: a late success that lost its claim leaves no trace (accept_*).
THEOREM ToldByAcceptance == Spec => ToldOnlyByAcceptance
<1>1. Core /\ [Next]_vars =>
        [\A r \in Sources : \A d \in told'[r] \ told[r] :
           \/ dests[d].state = "queued" /\ dests'[d].state = "accepted"
           \/ \E f \in Followups :
                outbox[f][d] = "queued" /\ outbox'[f][d] = "accepted"]_vars
  BY ToldGrows DEF Core, ToldStep, Accepted
<1>2. QED
  BY <1>1, CoreInvariant, PTL DEF Spec, ToldOnlyByAcceptance
----------------------------------------------------------------------------
(* Whom the end of the hazard reaches.                                     *)

\* After the initial phase the stored product is a follow-up, and once it is
\* a terminal one, everybody told under the canonical id is in its outbox.
Closed ==
  /\ phase \notin {"none", "initial"} => restFeature \in Followups
  /\ phase \in Terminal =>
       \A d \in told[canonical] : outbox[restFeature][d] # "absent"

\* A destination a product was addressed to stays in its outbox.
StaysAddressed == \A f \in Followups : \A d \in Dests :
                    outbox[f][d] # "absent" => outbox'[f][d] # "absent"

LEMMA AddressedForGood ==
  ASSUME TypeOK, [Next]_vars
  PROVE  StaysAddressed
<1>1. ASSUME outbox' = outbox PROVE StaysAddressed
  BY <1>1 DEF StaysAddressed
<1>2. \A done : \A f \in Followups : \A d \in Dests :
        SettledOutbox(done)[f][d] \in {"accepted", outbox[f][d]}
  BY DEF SettledOutbox
<1>3. CASE UNCHANGED vars
  BY <1>1, <1>3 DEF vars, durable
<1>4. CASE \/ SameIngest \/ RestCreate \/ RestBind \/ RestReplay
           \/ DeadlinePasses \/ ReleaseDue \/ \E d \in Dests : RunFallback(d)
  BY <1>1, <1>4
  DEF SameIngest, RestCreate, RestBind, RestReplay, DeadlinePasses,
      ReleaseDue, RunFallback, durable
<1>5. CASE NothingPrepared
  BY <1>1, <1>5 DEF NothingPrepared, durable
<1>6. ASSUME NEW f \in Followups, PrepareFollowup(f) PROVE StaysAddressed
  <2>1. outbox' = outbox \/ outbox' = OutboxFor(f, Recipients(f))
    BY <1>6 DEF PrepareFollowup
  <2>2. \A ids : \A g \in Followups : \A d \in Dests :
          OutboxFor(f, ids)[g][d] \in {"superseded", "pending", outbox[g][d]}
    BY DEF OutboxFor
  <2>3. QED
    BY <1>1, <2>1, <2>2 DEF StaysAddressed
<1>7. ASSUME NEW f \in Followups, DeliverFollowup(f) PROVE StaysAddressed
  <2>1. PICK carried, back : MarkRows(f, carried, back)
    BY <1>7 DEF DeliverFollowup
  <2>2. \A g \in Followups : \A d \in Dests :
          outbox'[g][d] \in {"pending", "queued", "no_target", outbox[g][d]}
    BY <2>1 DEF MarkRows, TypeOK
  <2>3. QED
    BY <2>2 DEF StaysAddressed
<1>8. ASSUME NEW a \in live, StartSend(a) PROVE StaysAddressed
  BY <1>1, <1>8 DEF StartSend, durable
<1>9. ASSUME NEW a \in live, SendSucceeds(a) \/ SendFails(a)
      PROVE  StaysAddressed
  <2>1. \/ outbox' = outbox
        \/ \E x \in {"accepted", "pending"} :
             outbox' = [outbox EXCEPT ![a.kind][a.dest] = x]
    BY <1>9 DEF SendSucceeds, SendFails, Accept
  <2>2. QED
    BY <1>1, <2>1 DEF StaysAddressed, TypeOK
<1>10. ASSUME NEW a \in live, AcceptRaises(a) PROVE StaysAddressed
  <2>1. PICK done : outbox' = SettledOutbox(done)
    BY <1>10 DEF AcceptRaises
  <2>2. QED
    BY <1>2, <2>1 DEF StaysAddressed
<1>11. ASSUME NEW rows, Restart(rows) PROVE StaysAddressed
  BY <1>2, <1>11 DEF Restart, StaysAddressed
<1>12. CASE Crash \/ \E a \in live : CrashAfterLog(a)
  BY <1>11, <1>12 DEF Crash, CrashAfterLog
<1>13. CASE \/ \E src \in Sources, S \in SUBSET Dests : Reroute(src, S)
            \/ \E d \in Dests : ToggleDestination(d)
  BY <1>1, <1>13 DEF Reroute, ToggleDestination, durable
<1>14. QED
  BY <1>3, <1>4, <1>5, <1>6, <1>7, <1>8, <1>9, <1>10, <1>12, <1>13, NextByGroup

\* What a step may do to the candidate.
CandidateStep ==
  \/ phase' = phase /\ restFeature' = restFeature /\ canonical' = canonical
  \/ phase \in {"none", "initial"} /\ phase' = "initial"
  \/ \E f \in Followups :
       /\ phase \notin {"none"} \cup Terminal
       /\ phase' = PhaseAfter(f) /\ restFeature' = f
       /\ canonical' = canonical /\ told' = told
       /\ outbox' = OutboxFor(f, Recipients(f))

LEMMA CandidateMoves ==
  ASSUME Core, [Next]_vars
  PROVE  CandidateStep
<1> USE DEF Core
<1>1. ASSUME UNCHANGED candidate PROVE CandidateStep
  BY <1>1 DEF CandidateStep, candidate
<1>2. CASE UNCHANGED vars
  BY <1>1, <1>2 DEF vars
<1>3. CASE SameIngest
  <2>1. CASE phase = "none"
    BY <1>3, <2>1 DEF SameIngest, CandidateStep
  <2>2. CASE phase # "none"
    BY <1>3, <2>2 DEF SameIngest, CandidateStep
  <2>3. QED
    BY <2>1, <2>2
<1>4. CASE RestCreate \/ RestBind
  BY <1>4 DEF RestCreate, RestBind, CandidateStep
<1>5. CASE RestReplay \/ ReleaseDue \/ \E d \in Dests : RunFallback(d)
  BY <1>1, <1>5 DEF RestReplay, ReleaseDue, RunFallback
<1>6. CASE DeadlinePasses
  BY <1>6 DEF DeadlinePasses, CandidateStep
<1>7. ASSUME NEW f \in Followups, PrepareFollowup(f) PROVE CandidateStep
  <2>1. CASE phase \in Terminal
    BY <1>7, <2>1 DEF PrepareFollowup, CandidateStep
  <2>2. CASE phase \notin Terminal
    <3>1. phase # "none" /\ canonical' = canonical /\ told' = told
      BY <1>7 DEF PrepareFollowup, Anchored
    <3>2. /\ phase' = PhaseAfter(f) /\ restFeature' = f
          /\ outbox' = OutboxFor(f, Recipients(f))
      BY <1>7, <2>2 DEF PrepareFollowup
    <3>3. QED
      BY <2>2, <3>1, <3>2 DEF CandidateStep
  <2>3. QED
    BY <2>1, <2>2
<1>8. CASE NothingPrepared \/ \E f \in Followups : DeliverFollowup(f)
  BY <1>1, <1>8 DEF NothingPrepared, DeliverFollowup
<1>9. CASE \E a \in live : StartSend(a) \/ SendSucceeds(a) \/ SendFails(a)
  BY <1>1, <1>9 DEF StartSend, SendSucceeds, SendFails
<1>10. CASE \/ \E a \in live : AcceptRaises(a) \/ CrashAfterLog(a)
            \/ Crash
            \/ \E src \in Sources, S \in SUBSET Dests : Reroute(src, S)
            \/ \E d \in Dests : ToggleDestination(d)
  BY <1>1, <1>10
  DEF AcceptRaises, CrashAfterLog, Crash, Restart, Reroute, ToggleDestination
<1>11. QED
  BY <1>2, <1>3, <1>4, <1>5, <1>6, <1>7, <1>8, <1>9, <1>10, NextByGroup

\* A hazard that is over reaches everybody told, also those an acceptance
\* adds after its end.
LEMMA ClosedStep ==
  ASSUME Safe, Closed, [Next]_vars
  PROVE  Closed'
<1> USE DEF Safe, Core
<1>1. CASE phase' = phase /\ restFeature' = restFeature /\ canonical' = canonical
  <2>1. ASSUME phase \in Terminal, NEW d \in told'[canonical]
        PROVE  outbox'[restFeature][d] # "absent"
    <3>1. restFeature \in Followups /\ canonical \in Sources
      BY <2>1 DEF Closed, Terminal, Anchored, TypeOK
    <3>2. CASE d \in told[canonical]
      <4>1. d \in Dests
        BY <3>1, <3>2 DEF TypeOK
      <4>2. outbox[restFeature][d] # "absent"
        BY <2>1, <3>2 DEF Closed
      <4>3. QED
        BY <3>1, <4>1, <4>2, AddressedForGood DEF StaysAddressed
    <3>3. CASE d \notin told[canonical]
      <4>1. Accepted(d) /\ TypeOK'
        BY <2>1, <3>1, <3>3, ToldGrows, SafeStep DEF ToldStep
      <4>2. d \in Dests
        BY <2>1, <3>1, <4>1 DEF TypeOK
      <4>3. dests[d].state # "queued"
        BY <2>1, <4>2 DEF OpenOnlyInitially, Unsent, Terminal
      <4>4. PICK f \in Followups : /\ outbox[f][d] = "queued"
                                   /\ outbox'[f][d] = "accepted"
        BY <4>1, <4>3 DEF Accepted
      <4>5. f = restFeature
        BY <4>2, <4>4 DEF OnlyNewestProductMoves
      <4>6. QED
        BY <4>4, <4>5
    <3>4. QED
      BY <3>2, <3>3
  <2>2. QED
    BY <1>1, <2>1 DEF Closed
<1>2. CASE phase' = "initial"
  BY <1>2 DEF Closed, Terminal
<1>3. ASSUME NEW f \in Followups, phase # "none",
             phase' = PhaseAfter(f), restFeature' = f,
             canonical' = canonical, told' = told,
             outbox' = OutboxFor(f, Recipients(f))
      PROVE  Closed'
  <2>1. ASSUME NEW d \in told[canonical] PROVE outbox'[f][d] # "absent"
    <3>1. d \in Dests
      BY <1>3 DEF Anchored, TypeOK
    <3>2. d \in Recipients(f)
      BY DEF Recipients
    <3>3. QED
      BY <1>3, <3>1, <3>2 DEF OutboxFor
  <2>2. QED
    BY <1>3, <2>1 DEF Closed
<1>4. QED
  BY <1>1, <1>2, <1>3, CandidateMoves DEF CandidateStep

\* Everybody told of the hazard under its canonical id is addressed by its
\* cancellation or expiration, also when the acceptance of its warning or
\* update raced with the terminal product (prepare_followup).
THEOREM ToldIsCancelled == Spec => []CanonicalChainIsCancelled
<1>1. Init => Closed
  BY DEF Init, Closed, Terminal
<1>2. Safe /\ Closed /\ [Next]_vars => Closed'
  BY ClosedStep
<1>3. Closed => CanonicalChainIsCancelled
  BY DEF Closed, CanonicalChainIsCancelled
<1>4. QED
  BY <1>1, <1>2, <1>3, SafeInvariant, PTL DEF Spec
----------------------------------------------------------------------------
(* When the initial warning is broadcast twice.  An exception must not     *)
(* strike between two enqueues: it would release the claim of an attempt   *)
(* that is already in a lane.                                              *)

\* The attempts with the initial warning for d.
Carriers(d, flying) == {a \in flying : a.dest = d /\ a.kind \in Sources}

\* At most one, and only for a row that is claimed by its source, or closed
\* or delivered behind its back.
Sole(row, carriers) ==
  \A a, b \in carriers : /\ a = b
                         /\ ~Unclaimed(row)
                         /\ row.state = "queued" => row.source = a.kind

\* Logged broadcasts to d that the ledger has not settled: those it will
\* find under the canonical id c, and those it never looks for.
Awaited(d, logged, c) ==
  \E s \in logged : s.dest = d /\ s.kind \in Sources /\ s.root = c
Stray(d, logged, c) == \E s \in logged : s.dest = d /\ s.root # c

\* Nothing carries the warning to d any more, and nothing will.
AtRest(d, row, carriers, logged, c) ==
  /\ carriers = {} /\ ~Unclaimed(row)
  /\ row.state = "queued" => Awaited(d, logged, c)

\* Its first broadcast puts the warning to rest, or is a stray.
Once(d, row, carriers, logged, c, n) ==
  /\ Sole(row, carriers)
  /\ n # 0 => Stray(d, logged, c) \/ AtRest(d, row, carriers, logged, c)
  /\ n > 1 => Stray(d, logged, c)

BroadcastOnce ==
  \A d \in Dests : Once(d, dests[d], Carriers(d, live), unsettled, canonical,
                        airings[d])

\* Before the hazard has a candidate nothing is sent.
Silent == canonical = "none" => /\ live = {} /\ unsettled = {}
                                /\ \A d \in Dests : airings[d] = 0

\* What a step keeps for d, the carriers apart.
Keeps(d) ==
  /\ Stray(d, unsettled, canonical) => Stray(d, unsettled', canonical')
  /\ Awaited(d, unsettled, canonical) /\ dests'[d].state = "queued"
       => Awaited(d, unsettled', canonical')
  /\ airings'[d] = airings[d]

\* The same carriers or fewer, as far as the kind goes.
Shrinks(d) ==
  /\ \A c \in Carriers(d, live') : \E b \in Carriers(d, live) : c.kind = b.kind
  /\ \A b, c \in Carriers(d, live') : b = c

OnceAt(d) == Once(d, dests[d], Carriers(d, live), unsettled, canonical, airings[d])
OnceNext(d) ==
  Once(d, dests'[d], Carriers(d, live'), unsettled', canonical', airings'[d])

\* A row that is not handed out or back keeps its warning sent once.
LEMMA OnceKept ==
  ASSUME NEW d \in Dests, OnceAt(d), Keeps(d), Shrinks(d),
         \/ Stays(dests[d], dests'[d])
         \/ Unclaimed(dests[d]) /\ Waits(dests'[d])
         \/ Ended(dests'[d])
         \/ Delivers(dests[d], dests'[d])
  PROVE  OnceNext(d)
<1> DEFINE r == dests[d]
           n == dests'[d]
           C == Carriers(d, live)
           D == Carriers(d, live')
<1>1. /\ Sole(r, C)
      /\ airings[d] # 0 =>
           Stray(d, unsettled, canonical) \/ AtRest(d, r, C, unsettled, canonical)
      /\ airings[d] > 1 => Stray(d, unsettled, canonical)
  BY DEF OnceAt, Once
<1>2. ~Unclaimed(r) => ~Unclaimed(n)
  BY DEF Unclaimed, Stays, Ended, Delivers
<1>3. n.state = "queued" => r.state = "queued" /\ n.source = r.source
  BY DEF Stays, Waits, Ended, Delivers
<1>4. Sole(n, D)
  BY <1>1, <1>2, <1>3 DEF Sole, Shrinks
<1>5. AtRest(d, r, C, unsettled, canonical) =>
        AtRest(d, n, D, unsettled', canonical')
  BY <1>2, <1>3 DEF AtRest, Keeps, Shrinks
<1>6. QED
  BY <1>1, <1>4, <1>5 DEF OnceNext, Once, Keeps

\* A row whose only broadcasts are strays may be handed out, or back.
LEMMA OnceHanded ==
  ASSUME NEW d \in Dests, OnceAt(d), Keeps(d),
         Unclaimed(dests[d]) \/ Carriers(d, live) # {},
         Sole(dests'[d], Carriers(d, live'))
  PROVE  OnceNext(d)
<1>1. airings[d] # 0 => Stray(d, unsettled, canonical)
  BY DEF OnceAt, Once, AtRest
<1>2. airings[d] > 1 => Stray(d, unsettled, canonical)
  BY DEF OnceAt, Once
<1>3. QED
  BY <1>1, <1>2 DEF OnceNext, Once, Keeps

\* The canonical id of a hazard is chosen once.
LEMMA CanonicalFixed ==
  ASSUME Core, [Next]_vars, canonical # "none"
  PROVE  canonical' = canonical
<1> USE DEF Core, Anchored
<1>1. CASE UNCHANGED vars
  BY <1>1 DEF vars, candidate
<1>2. CASE SameIngest \/ RestCreate
  BY <1>2 DEF SameIngest, RestCreate
<1>3. CASE RestBind \/ RestReplay \/ ReleaseDue \/ DeadlinePasses
           \/ \E d \in Dests : RunFallback(d)
  BY <1>3 DEF RestBind, RestReplay, ReleaseDue, DeadlinePasses, RunFallback,
              candidate
<1>4. CASE \/ NothingPrepared
           \/ \E f \in Followups : PrepareFollowup(f) \/ DeliverFollowup(f)
  BY <1>4 DEF NothingPrepared, PrepareFollowup, DeliverFollowup, candidate
<1>5. CASE \E a \in live : StartSend(a) \/ SendSucceeds(a) \/ SendFails(a)
  BY <1>5 DEF StartSend, SendSucceeds, SendFails, candidate
<1>6. CASE \/ \E a \in live : AcceptRaises(a) \/ CrashAfterLog(a)
           \/ Crash
           \/ \E src \in Sources, S \in SUBSET Dests : Reroute(src, S)
           \/ \E d \in Dests : ToggleDestination(d)
  BY <1>6 DEF AcceptRaises, CrashAfterLog, Crash, Restart, Reroute,
              ToggleDestination, candidate
<1>7. QED
  BY <1>1, <1>2, <1>3, <1>4, <1>5, <1>6, NextByGroup

\* A step that settles nothing and logs no warning for d keeps d's evidence.
LEMMA KeepsEvidence ==
  ASSUME Core, Silent, [Next]_vars, NEW d \in Dests,
         unsettled' = unsettled, airings'[d] = airings[d]
  PROVE  Keeps(d)
<1>1. CASE canonical = "none"
  BY <1>1 DEF Silent, Keeps, Stray, Awaited
<1>2. CASE canonical # "none"
  BY <1>2, CanonicalFixed DEF Keeps, Stray, Awaited
<1>3. QED
  BY <1>1, <1>2

\* A hand-off without a fault between two enqueues: the rows it claims get
\* one attempt each, the others keep theirs.
LEMMA HandoffOnce ==
  ASSUME ~PartialFaults, TypeOK,
         NEW led \in [Dests -> Row], NEW src \in Sources,
         NEW C \in SUBSET Claimable(led, src), NEW id, NEW waiting,
         Handoff(led, C, src, id, waiting),
         NEW d \in Dests, OnceAt(d), Keeps(d),
         \/ Stays(dests[d], led[d])
         \/ Unclaimed(dests[d]) /\ Waits(led[d])
         \/ Ended(led[d])
  PROVE  OnceNext(d)
<1> DEFINE root == IF src = "same" \/ alias = "none" THEN id ELSE alias
           sent == {e \in C \cap Reach(src) : ~InFlight(e, src)}
           lost == IF Reach(src) = {} /\ ~LegacyIncludes THEN {} ELSE C \ sent
           new(E) == {NewAttempt(e, src, root, "sent", "no") : e \in E}
           claimed == Claim(led, C, src)
<1>1. \/ live' = live
      \/ /\ C # {} /\ live' = live \cup new(sent)
         /\ dests' = CloseAll(claimed, lost, "no_fallback")
  BY DEF Handoff
<1>2. CASE d \notin C
  <2>1. dests'[d] = led[d]
    BY <1>2 DEF Handoff, CloseAll, Claim
  <2>2. Carriers(d, live') = Carriers(d, live)
    BY <1>1, <1>2 DEF Carriers, NewAttempt
  <2>3. Shrinks(d)
    BY <2>2 DEF Shrinks, OnceAt, Once, Sole
  <2>4. QED
    BY <2>1, <2>3, OnceKept
<1>3. CASE d \in C
  <2>1. led[d].state = "pending"
    BY <1>3 DEF Claimable
  <2>2. Unclaimed(dests[d])
    BY <2>1 DEF Stays, Unclaimed, Ended
  <2>3. Carriers(d, live) = {}
    BY <2>2 DEF OnceAt, Once, Sole
  <2>4. CASE live' = live
    BY <2>2, <2>3, <2>4, OnceHanded DEF Sole
  <2>5. CASE /\ live' = live \cup new(sent)
             /\ dests' = CloseAll(claimed, lost, "no_fallback")
    <3>1. \A c \in Carriers(d, live') :
            c = NewAttempt(d, src, root, "sent", "no") /\ d \in sent
      BY <2>3, <2>5 DEF Carriers, NewAttempt
    <3>2. NewAttempt(d, src, root, "sent", "no").kind = src
      BY DEF NewAttempt
    <3>3. d \in sent => dests'[d].state = "queued" /\ dests'[d].source = src
      BY <1>3, <2>5 DEF CloseAll, Claim, Row
    <3>4. Sole(dests'[d], Carriers(d, live'))
      BY <3>1, <3>2, <3>3 DEF Sole, Unclaimed
    <3>5. QED
      BY <2>2, <3>4, OnceHanded
  <2>6. QED
    BY <1>1, <2>4, <2>5
<1>4. QED
  BY <1>2, <1>3

\* The observations, and what releases the rows they leave waiting.
LEMMA OnceObserved ==
  ASSUME ~PartialFaults, Safe, BroadcastOnce, Silent, [Next]_vars,
         \/ SameIngest \/ RestCreate \/ RestBind \/ RestReplay
         \/ DeadlinePasses \/ ReleaseDue \/ \E e \in Dests : RunFallback(e),
         NEW d \in Dests
  PROVE  OnceNext(d)
<1> USE DEF Safe, Core
<1>1. Reach("same") \in SUBSET Dests /\ Reach("rest") \in SUBSET Dests
      /\ "rest" \in Sources /\ "same" \in Sources
  BY DEF Reach, TypeOK, Sources
<1>2. OnceAt(d)
  BY DEF BroadcastOnce, OnceAt
<1>3. Keeps(d)
  <2>1. unsettled' = unsettled /\ airings' = airings
    BY DEF SameIngest, RestCreate, RestBind, RestReplay, DeadlinePasses,
           ReleaseDue, RunFallback, durable, history
  <2>2. QED
    BY <2>1, KeepsEvidence
<1>4. ASSUME live' = live,
             \/ Stays(dests[d], dests'[d])
             \/ Unclaimed(dests[d]) /\ Waits(dests'[d])
             \/ Ended(dests'[d])
      PROVE  OnceNext(d)
  <2>1. Shrinks(d)
    BY <1>2, <1>4 DEF Shrinks, OnceAt, Once, Sole
  <2>2. QED
    BY <1>2, <1>3, <1>4, <2>1, OnceKept
<1>5. CASE SameIngest
  <2> DEFINE open == phase \in {"none", "initial"}
             id   == IF phase = "none" THEN "same" ELSE canonical
             led  == RecordSame(dests, Reach("same"), open)
             C    == IF open THEN Claimable(led, "same") ELSE {}
  <2>1. open \in BOOLEAN /\ dests \in [Dests -> Row]
    BY DEF TypeOK
  <2>2. led \in [Dests -> Row] /\ C \in SUBSET Claimable(led, "same")
    <3> HIDE DEF open
    <3>1. QED
      BY <1>1, <2>1, RowOperations
  <2>3. \/ Stays(dests[d], led[d])
        \/ Unclaimed(dests[d]) /\ Waits(led[d])
        \/ Ended(led[d])
    <3> HIDE DEF open
    <3>1. QED
      BY <1>1, <2>1, ObservedRows DEF Unclaimed
  <2>4. Handoff(led, C, "same", id, tasks)
    BY <1>5 DEF SameIngest
  <2> HIDE DEF led, C, id
  <2>5. QED
    BY <1>1, <1>2, <1>3, <2>2, <2>3, <2>4, HandoffOnce
<1>6. CASE RestCreate
  BY <1>1, <1>4, <1>6, ObservedRows DEF RestCreate, memory, Unclaimed
<1>7. CASE RestBind
  <2> DEFINE led == Bind(dests, Reach("rest"), TRUE)
             C   == Claimable(led, "rest")
  <2>1. led \in [Dests -> Row] /\ C \in SUBSET Claimable(led, "rest")
    BY <1>1, RowOperations DEF TypeOK
  <2>2. \/ Stays(dests[d], led[d])
        \/ Unclaimed(dests[d]) /\ Waits(led[d])
        \/ Ended(led[d])
    BY <1>1, ObservedRows DEF Unclaimed
  <2>3. Handoff(led, C, "rest", canonical, tasks)
    BY <1>7 DEF RestBind
  <2> HIDE DEF led, C
  <2>4. QED
    BY <1>1, <1>2, <1>3, <2>1, <2>2, <2>3, HandoffOnce
<1>8. CASE RestReplay
  <2> DEFINE open == phase = "initial"
  <2>1. open \in BOOLEAN /\ dests' = Bind(dests, Reach("rest"), open)
    BY <1>8 DEF RestReplay
  <2> HIDE DEF open
  <2>2. QED
    BY <1>1, <1>4, <1>8, <2>1, ObservedRows DEF RestReplay, memory, Unclaimed
<1>9. CASE DeadlinePasses
  BY <1>4, <1>9 DEF DeadlinePasses, durable, memory, Stays
<1>10. ASSUME NEW C \in SUBSET Claimable(dests, "rest"), NEW waiting,
              Handoff(dests, C, "rest", "rest", waiting)
       PROVE  OnceNext(d)
  <2>1. Stays(dests[d], dests[d])
    BY DEF Stays
  <2>2. QED
    BY <1>1, <1>2, <1>3, <1>10, <2>1, HandoffOnce DEF TypeOK
<1>11. CASE ReleaseDue
  BY <1>10, <1>11 DEF ReleaseDue
<1>12. ASSUME NEW e \in Dests, RunFallback(e) PROVE OnceNext(d)
  <2> DEFINE C == IF phase = "initial" /\ restFeature # "none"
                  THEN {e} \cap Claimable(dests, "rest") ELSE {}
  <2>1. C \in SUBSET Claimable(dests, "rest")
    OBVIOUS
  <2>2. Handoff(dests, C, "rest", "rest", tasks \ {e})
    BY <1>12 DEF RunFallback
  <2>3. QED
    BY <1>10, <2>1, <2>2
<1>13. QED
  BY <1>5, <1>6, <1>7, <1>8, <1>9, <1>11, <1>12

\* A follow-up closes rows and brings no attempt of a source.
LEMMA OnceFollowedUp ==
  ASSUME Safe, BroadcastOnce, Silent, [Next]_vars,
         NEW f \in Followups, PrepareFollowup(f) \/ DeliverFollowup(f),
         NEW d \in Dests
  PROVE  OnceNext(d)
<1> USE DEF Safe, Core
<1>1. OnceAt(d)
  BY DEF BroadcastOnce, OnceAt
<1>2. Keeps(d)
  <2>1. unsettled' = unsettled /\ airings' = airings
    BY DEF PrepareFollowup, DeliverFollowup, history
  <2>2. QED
    BY <2>1, KeepsEvidence
<1>3. f \notin Sources
  BY ConstantsAssumption DEF Sources
<1>4. Carriers(d, live') \subseteq Carriers(d, live)
  <2>1. CASE live' = live
    BY <2>1
  <2>2. ASSUME NEW r, NEW E, EnqueueFollowup(f, E, r)
        PROVE  Carriers(d, live') \subseteq Carriers(d, live)
    BY <1>3, <2>2 DEF EnqueueFollowup, Carriers, NewAttempt
  <2>3. live' = live \/ \E r, E : EnqueueFollowup(f, E, r)
    BY DEF PrepareFollowup, DeliverFollowup
  <2>4. QED
    BY <2>1, <2>2, <2>3
<1>5. Shrinks(d)
  BY <1>1, <1>4 DEF Shrinks, OnceAt, Once, Sole
<1>6. \/ Stays(dests[d], dests'[d]) \/ Ended(dests'[d])
      \/ Delivers(dests[d], dests'[d])
  <2>1. CASE dests' = dests
    BY <2>1 DEF Stays
  <2>2. CASE PrepareFollowup(f) /\ phase \notin Terminal
    <3>1. phase' # "initial"
      BY <2>2, ConstantsAssumption DEF PrepareFollowup, PhaseAfter
    <3>2. QED
      BY <3>1, RowsFollowedUp DEF RowStep
  <2>3. QED
    BY <2>1, <2>2 DEF PrepareFollowup, DeliverFollowup
<1>7. QED
  BY <1>1, <1>2, <1>5, <1>6, OnceKept

\* An attempt that leaves memory leaves the carriers of the others alone.
LEMMA RetireShrinks ==
  ASSUME TypeOK, NEW a \in live, NEW ok \in BOOLEAN, Retire(a, ok),
         NEW d \in Dests, OnceAt(d)
  PROVE  /\ Shrinks(d)
         /\ a \in Carriers(d, live) => Carriers(d, live') = {}
<1> DEFINE x == IF ok THEN "met" ELSE "unmet"
           after(b) == IF b.cond = "wait" /\ b.root = a.root /\ b.dest = a.dest
                       THEN [b EXCEPT !.cond = x] ELSE b
<1>1. \A b \in live : [b EXCEPT !.cond = x].dest = b.dest
                      /\ [b EXCEPT !.cond = x].kind = b.kind
  BY DEF TypeOK, Attempt
<1>2. \A b \in live : after(b).dest = b.dest /\ after(b).kind = b.kind
  BY <1>1
<1>3. live' = {after(b) : b \in live \ {a}}
  BY DEF Retire
<1> HIDE DEF after
<1>4. ASSUME NEW c \in Carriers(d, live')
      PROVE  \E b \in Carriers(d, live) \ {a} : c = after(b) /\ c.kind = b.kind
  BY <1>2, <1>3, <1>4 DEF Carriers
<1>5. \A b, c \in Carriers(d, live) : b = c
  BY DEF OnceAt, Once, Sole
<1>6. QED
  BY <1>4, <1>5 DEF Shrinks

\* A second carrier cannot be: what is on the air or failed is the only one.
LEMMA TheCarrier ==
  ASSUME TypeOK, NEW a \in live, NEW d \in Dests, OnceAt(d)
  PROVE  /\ a.kind \in Sources /\ d = a.dest => a \in Carriers(d, live)
         /\ a \in Carriers(d, live) =>
              /\ ~Unclaimed(dests[d])
              /\ dests[d].state = "queued" => dests[d].source = a.kind
              /\ airings[d] # 0 => Stray(d, unsettled, canonical)
         /\ airings[d] > 1 => Stray(d, unsettled, canonical)
  BY DEF Carriers, OnceAt, Once, Sole, AtRest

\* The logged broadcast counts for the destination of a source's attempt.
LEMMA AiredCounts ==
  ASSUME TypeOK, NEW a \in live, Aired(a), NEW d \in Dests
  PROVE  /\ airings[d] \in 0..2 /\ airings'[d] \in 0..2
         /\ ~(a.kind \in Sources /\ d = a.dest) => airings'[d] = airings[d]
         /\ airings[d] = 0 => airings'[d] <= 1
  BY DEF Aired, TypeOK

LEMMA OnceSent ==
  ASSUME Safe, BroadcastOnce, Silent, [Next]_vars, NEW a \in live,
         StartSend(a) \/ SendSucceeds(a) \/ SendFails(a),
         NEW d \in Dests
  PROVE  OnceNext(d)
<1> USE DEF Safe, Core
<1>1. OnceAt(d)
  BY DEF BroadcastOnce, OnceAt
<1>2. a \in Attempt /\ a.dest \in Dests /\ dests[d] \in Row
  BY DEF TypeOK, Attempt
<1>3. unsettled' = unsettled
  BY DEF StartSend, SendSucceeds, SendFails, durable
<1>4. CASE StartSend(a)
  <2> DEFINE b == [a EXCEPT !.stage = "air"]
  <2>1. b.dest = a.dest /\ b.kind = a.kind
    BY <1>2 DEF Attempt
  <2>2. live' = (live \ {a}) \cup {b}
    BY <1>4 DEF StartSend
  <2> HIDE DEF b
  <2>3. \A c, e \in Carriers(d, live) : c = e
    BY <1>1 DEF OnceAt, Once, Sole
  <2>4. Shrinks(d)
    BY <2>1, <2>2, <2>3 DEF Shrinks, Carriers
  <2>5. Keeps(d)
    BY <1>3, <1>4, KeepsEvidence DEF StartSend, history
  <2>6. QED
    BY <1>1, <1>4, <2>4, <2>5, OnceKept DEF StartSend, durable, Stays
<1>5. CASE SendFails(a)
  <2>1. Keeps(d)
    BY <1>3, <1>5, KeepsEvidence DEF SendFails, history
  <2>2. Shrinks(d) /\ (a \in Carriers(d, live) => Carriers(d, live') = {})
    BY <1>1, <1>5, RetireShrinks DEF SendFails
  <2>3. CASE a.kind \in Sources /\ d = a.dest
    <3>1. Carriers(d, live) # {} /\ Carriers(d, live') = {}
      BY <1>1, <2>2, <2>3, TheCarrier
    <3>2. QED
      BY <1>1, <2>1, <3>1, OnceHanded DEF Sole
  <2>4. CASE ~(a.kind \in Sources /\ d = a.dest)
    <3>1. dests'[d] = dests[d]
      BY <1>2, <1>5, <2>4 DEF SendFails, TypeOK
    <3>2. QED
      BY <1>1, <2>1, <2>2, <3>1, OnceKept DEF Stays
  <2>5. QED
    BY <2>3, <2>4
<1>6. CASE SendSucceeds(a)
  <2>1. Shrinks(d) /\ (a \in Carriers(d, live) => Carriers(d, live') = {})
    BY <1>1, <1>6, RetireShrinks DEF SendSucceeds
  <2>2. Aired(a) /\ Accept(a) /\ canonical' = canonical
    BY <1>6 DEF SendSucceeds, candidate
  <2>3. CASE ~(a.kind \in Sources /\ d = a.dest)
    <3>1. Keeps(d)
      BY <1>3, <2>2, <2>3, AiredCounts, KeepsEvidence
    <3>2. dests'[d] = dests[d]
      BY <1>2, <2>2, <2>3 DEF Accept, TypeOK
    <3>3. QED
      BY <1>1, <2>1, <3>1, <3>2, OnceKept DEF Stays
  <2>4. CASE a.kind \in Sources /\ d = a.dest
    <3>1. /\ Carriers(d, live') = {}
          /\ ~Unclaimed(dests[d])
          /\ dests[d].state = "queued" => dests[d].source = a.kind
          /\ airings[d] # 0 => Stray(d, unsettled, canonical)
      BY <1>1, <2>1, <2>4, TheCarrier
    <3>2. Stray(d, unsettled, canonical) => Stray(d, unsettled', canonical')
      BY <1>3, <2>2
    <3>3. ~Unclaimed(dests'[d]) /\ dests'[d].state # "queued"
      <4>1. CASE dests[d].state = "queued"
        <5>1. Current(a)
          BY <2>4, <3>1, <4>1 DEF Current, OpenOnlyInitially, Unsent
        <5>2. dests'[d] = [dests[d] EXCEPT !.state = "accepted"]
          BY <2>2, <2>4, <5>1 DEF Accept, TypeOK
        <5>3. QED
          BY <1>2, <5>2 DEF Row, Unclaimed
      <4>2. CASE dests[d].state # "queued"
        <5>1. dests'[d] = dests[d]
          BY <2>2, <2>4, <4>2 DEF Accept, Current
        <5>2. QED
          BY <3>1, <4>2, <5>1
      <4>3. QED
        BY <4>1, <4>2
    <3>4. airings[d] = 0 => ~(airings'[d] > 1)
      BY <2>2, AiredCounts
    <3>5. QED
      BY <3>1, <3>2, <3>3, <3>4 DEF OnceNext, Once, Sole, AtRest
  <2>5. QED
    BY <2>3, <2>4
<1>7. QED
  BY <1>4, <1>5, <1>6

\* A reconciliation settles what is awaited, and no stray.
LEMMA OnceReconciled ==
  ASSUME TypeOK, NEW rows, unsettled \subseteq rows,
         NEW done \in {{}, Reconciled(rows)}, NEW d \in Dests
  PROVE  LET n == Settled(dests, done)[d] IN
           /\ \A s \in rows : s.dest = d /\ s.root # canonical
                                => Stray(d, rows \ done, canonical)
           /\ Stray(d, unsettled, canonical) => Stray(d, rows \ done, canonical)
           /\ \A s \in rows : s.dest = d /\ s.kind \in Sources
                                /\ s.root = canonical /\ n.state = "queued"
                => done = {} /\ Awaited(d, rows \ done, canonical)
           /\ Awaited(d, unsettled, canonical) /\ n.state = "queued"
                => done = {} /\ Awaited(d, rows \ done, canonical)
<1> DEFINE n == Settled(dests, done)[d]
<1>1. dests[d] \in Row
  BY DEF TypeOK
<1>2. ASSUME NEW s \in rows, s.dest = d, s.root # canonical
      PROVE  Stray(d, rows \ done, canonical)
  BY <1>2 DEF Reconciled, Stray
<1>3. ASSUME NEW s \in rows, s.dest = d, s.kind \in Sources,
             s.root = canonical, n.state = "queued"
      PROVE  done = {} /\ Awaited(d, rows \ done, canonical)
  <2>1. [dests[d] EXCEPT !.state = "accepted"].state # "queued"
    BY <1>1 DEF Row
  <2>2. ~\E x \in done : x.dest = d /\ x.kind \in Sources
    BY <1>3, <2>1 DEF Settled
  <2>3. dests[d].state = "queued"
    BY <1>3, <2>2 DEF Settled
  <2>4. s \in Reconciled(rows)
    BY <1>3, <2>3 DEF Reconciled
  <2>5. done = {}
    BY <1>3, <2>2, <2>4
  <2>6. QED
    BY <1>3, <2>5 DEF Awaited
<1> HIDE DEF n
<1>4. Stray(d, unsettled, canonical) => Stray(d, rows \ done, canonical)
  BY <1>2 DEF Stray
<1>5. Awaited(d, unsettled, canonical) /\ n.state = "queued"
        => done = {} /\ Awaited(d, rows \ done, canonical)
  BY <1>3 DEF Awaited
<1>6. QED
  BY <1>2, <1>3, <1>4, <1>5 DEF n

\* The acceptance raised: the broadcast is settled, awaited or a stray.
LEMMA OnceRaised ==
  ASSUME Safe, BroadcastOnce, NEW a \in live, AcceptRaises(a), NEW d \in Dests
  PROVE  OnceNext(d)
<1> USE DEF Safe, Core
<1> DEFINE rows == unsettled \cup {EvidenceOf(a)}
<1>1. OnceAt(d)
  BY DEF BroadcastOnce, OnceAt
<1>2. PICK done \in {{}, Reconciled(rows)} :
        dests' = Settled(dests, done) /\ unsettled' = rows \ done
  BY DEF AcceptRaises
<1>3. /\ Retire(a, TRUE) /\ Aired(a) /\ canonical' = canonical
      /\ unsettled \subseteq rows /\ EvidenceOf(a) \in rows
  BY DEF AcceptRaises, candidate
<1>4. Stays(dests[d], dests'[d]) \/ Delivers(dests[d], dests'[d])
  <2>1. done \in SUBSET Reconciled(rows)
    BY <1>2
  <2>2. QED
    BY <1>2, <2>1, RowsSettled
<1>5. /\ Stray(d, unsettled, canonical) => Stray(d, unsettled', canonical')
      /\ Awaited(d, unsettled, canonical) /\ dests'[d].state = "queued"
           => Awaited(d, unsettled', canonical')
      /\ \A s \in rows : s.dest = d /\ s.root # canonical
                           => Stray(d, unsettled', canonical')
      /\ \A s \in rows : s.dest = d /\ s.kind \in Sources /\ s.root = canonical
                           /\ dests'[d].state = "queued"
                           => Awaited(d, unsettled', canonical')
  <2> HIDE DEF rows
  <2>1. QED
    BY <1>2, <1>3, OnceReconciled
<1>6. Shrinks(d) /\ (a \in Carriers(d, live) => Carriers(d, live') = {})
  BY <1>1, <1>3, RetireShrinks
<1>7. CASE ~(a.kind \in Sources /\ d = a.dest)
  <2>1. Keeps(d)
    BY <1>3, <1>5, <1>7, AiredCounts DEF Keeps
  <2>2. QED
    BY <1>1, <1>4, <1>6, <2>1, OnceKept
<1>8. CASE a.kind \in Sources /\ d = a.dest
  <2>1. /\ Carriers(d, live') = {}
        /\ ~Unclaimed(dests[d])
        /\ airings[d] # 0 => Stray(d, unsettled, canonical)
    BY <1>1, <1>6, <1>8, TheCarrier
  <2>2. ~Unclaimed(dests'[d])
    BY <1>4, <2>1 DEF Stays, Delivers, Unclaimed
  <2>3. \/ Stray(d, unsettled', canonical')
        \/ dests'[d].state = "queued" => Awaited(d, unsettled', canonical')
    BY <1>3, <1>5, <1>8 DEF EvidenceOf
  <2>4. airings[d] = 0 => ~(airings'[d] > 1)
    BY <1>3, AiredCounts
  <2>5. QED
    BY <1>5, <2>1, <2>2, <2>3, <2>4 DEF OnceNext, Once, Sole, AtRest
<1>9. QED
  BY <1>7, <1>8

\* A restart accepts what it awaits: it hands back only the rows whose
\* broadcasts are strays.  counted: the crash fell after a log entry for d.
LEMMA OnceRestarted ==
  ASSUME Safe, NEW rows, unsettled \subseteq rows, Restart(rows),
         NEW d \in Dests, OnceAt(d),
         \/ airings'[d] = airings[d]
         \/ /\ ~(airings'[d] > 1) \/ Stray(d, unsettled, canonical)
            /\ ~Unclaimed(dests[d])
            /\ \E s \in rows : s.dest = d /\ s.kind \in Sources
  PROVE  OnceNext(d)
<1> USE DEF Safe, Core
<1> DEFINE done == Reconciled(rows)
           n    == Settled(dests, done)[d]
           q    == Requeued(Settled(dests, done))[d]
<1>1. /\ dests'[d] = q /\ unsettled' = rows \ done
      /\ canonical' = canonical /\ live' = {}
  BY DEF Restart, candidate
<1>2. Carriers(d, live') = {}
  BY <1>1 DEF Carriers
<1>3. ASSUME NEW s \in rows, s.dest = d, s.root # canonical
      PROVE  Stray(d, unsettled', canonical')
  BY <1>1, <1>3 DEF Reconciled, Stray
<1>4. Stray(d, unsettled, canonical) => Stray(d, unsettled', canonical')
  BY <1>3 DEF Stray
<1>5. \/ Stays(dests[d], q) /\ q.state # "queued"
      \/ Delivers(dests[d], q)
      \/ dests[d].state = "queued" /\ Waits(q)
  BY RowsSettled
<1>6. ASSUME NEW s \in rows, s.dest = d, s.kind \in Sources, s.root = canonical,
             dests[d].state = "queued"
      PROVE  Delivers(dests[d], q)
  <2>1. s \in done
    BY <1>6 DEF Reconciled
  <2>2. n = [dests[d] EXCEPT !.state = "accepted"]
    BY <1>6, <2>1 DEF Settled
  <2>3. n.state = "accepted" /\ n.source = dests[d].source
    <3>1. dests[d] \in Row
      BY DEF TypeOK
    <3> HIDE DEF n
    <3>2. QED
      BY <2>2, <3>1 DEF Row
  <2>4. q = n
    BY <2>3 DEF Requeued
  <2>5. QED
    BY <1>6, <2>3, <2>4 DEF Delivers
<1> HIDE DEF done, n, q
<1>7. ASSUME ~Unclaimed(dests[d]),
             \/ dests[d].state # "queued"
             \/ \E s \in rows : s.dest = d /\ s.kind \in Sources /\ s.root = canonical
      PROVE  AtRest(d, dests'[d], Carriers(d, live'), unsettled', canonical')
  <2>1. \/ Stays(dests[d], q) /\ q.state # "queued"
        \/ Delivers(dests[d], q)
    BY <1>5, <1>6, <1>7
  <2>2. QED
    BY <1>1, <1>2, <1>7, <2>1 DEF AtRest, Stays, Delivers, Unclaimed
<1>8. airings[d] # 0 =>
        \/ Stray(d, unsettled', canonical')
        \/ AtRest(d, dests'[d], Carriers(d, live'), unsettled', canonical')
  <2>1. airings[d] # 0 => \/ Stray(d, unsettled, canonical)
                          \/ ~Unclaimed(dests[d])
                             /\ (dests[d].state = "queued" =>
                                   Awaited(d, unsettled, canonical))
    BY DEF OnceAt, Once, AtRest
  <2>2. QED
    BY <1>4, <1>7, <2>1 DEF Awaited
<1>9. CASE airings'[d] = airings[d]
  <2>1. airings[d] > 1 => Stray(d, unsettled', canonical')
    BY <1>4 DEF OnceAt, Once
  <2>2. QED
    BY <1>2, <1>8, <1>9, <2>1 DEF OnceNext, Once, Sole
<1>10. CASE /\ ~(airings'[d] > 1) \/ Stray(d, unsettled, canonical)
            /\ ~Unclaimed(dests[d])
            /\ \E s \in rows : s.dest = d /\ s.kind \in Sources
  <2>1. \/ Stray(d, unsettled', canonical')
        \/ AtRest(d, dests'[d], Carriers(d, live'), unsettled', canonical')
    BY <1>3, <1>7, <1>10
  <2>2. QED
    BY <1>2, <1>4, <1>10, <2>1 DEF OnceNext, Once, Sole
<1>11. QED
  BY <1>9, <1>10

\* Faults, crashes and edits.
LEMMA OnceMishap ==
  ASSUME Safe, BroadcastOnce, Silent, [Next]_vars,
         \/ \E a \in live : AcceptRaises(a) \/ CrashAfterLog(a)
         \/ Crash
         \/ \E src \in Sources, S \in SUBSET Dests : Reroute(src, S)
         \/ \E e \in Dests : ToggleDestination(e),
         NEW d \in Dests
  PROVE  OnceNext(d)
<1> USE DEF Safe, Core
<1>1. OnceAt(d)
  BY DEF BroadcastOnce, OnceAt
<1>2. ASSUME NEW a \in live, AcceptRaises(a) PROVE OnceNext(d)
  BY <1>2, OnceRaised
<1>3. ASSUME NEW a \in live, CrashAfterLog(a) PROVE OnceNext(d)
  <2>1. Aired(a) /\ Restart(unsettled \cup {EvidenceOf(a)})
    BY <1>3 DEF CrashAfterLog
  <2>2. CASE ~(a.kind \in Sources /\ d = a.dest)
    BY <1>1, <2>1, <2>2, AiredCounts, OnceRestarted
  <2>3. CASE a.kind \in Sources /\ d = a.dest
    <3>1. ~Unclaimed(dests[d])
          /\ (airings[d] # 0 => Stray(d, unsettled, canonical))
      BY <1>1, <2>3, TheCarrier
    <3>2. airings[d] = 0 => ~(airings'[d] > 1)
      BY <2>1, AiredCounts
    <3>3. \E s \in unsettled \cup {EvidenceOf(a)} :
            s.dest = d /\ s.kind \in Sources
      <4>1. EvidenceOf(a).dest = a.dest /\ EvidenceOf(a).kind = a.kind
        BY DEF EvidenceOf
      <4>2. QED
        BY <2>3, <4>1
    <3>4. QED
      BY <1>1, <2>1, <3>1, <3>2, <3>3, OnceRestarted
  <2>4. QED
    BY <2>2, <2>3
<1>4. CASE Crash
  BY <1>1, <1>4, OnceRestarted DEF Crash, history
<1>5. CASE \/ \E src \in Sources, S \in SUBSET Dests : Reroute(src, S)
           \/ \E e \in Dests : ToggleDestination(e)
  <2>1. UNCHANGED <<durable, memory, history>>
    BY <1>5 DEF Reroute, ToggleDestination
  <2>2. Keeps(d)
    BY <2>1, KeepsEvidence DEF durable, history
  <2>3. Shrinks(d) /\ Stays(dests[d], dests'[d])
    BY <1>1, <2>1 DEF durable, memory, Shrinks, OnceAt, Once, Sole, Stays
  <2>4. QED
    BY <1>1, <2>2, <2>3, OnceKept
<1>6. QED
  BY <1>2, <1>3, <1>4, <1>5

LEMMA OnceStep ==
  ASSUME ~PartialFaults, Safe, BroadcastOnce, Silent, [Next]_vars
  PROVE  BroadcastOnce'
<1> SUFFICES ASSUME NEW d \in Dests PROVE OnceNext(d)
  BY DEF BroadcastOnce, OnceNext
<1>1. CASE UNCHANGED vars \/ NothingPrepared
  <2>1. UNCHANGED <<candidate, durable, live, history>>
    BY <1>1 DEF vars, memory, NothingPrepared
  <2>2. QED
    BY <2>1 DEF BroadcastOnce, OnceNext, candidate, durable, history
<1>2. CASE \E f \in Followups : PrepareFollowup(f) \/ DeliverFollowup(f)
  BY <1>2, OnceFollowedUp
<1>3. CASE \E a \in live : StartSend(a) \/ SendSucceeds(a) \/ SendFails(a)
  BY <1>3, OnceSent
<1>4. QED
  BY <1>1, <1>2, <1>3, NextByGroup, OnceObserved, OnceMishap

\* Nothing is sent before the hazard has a candidate.
LEMMA SilentStep ==
  ASSUME Core, Silent, [Next]_vars
  PROVE  Silent'
<1> USE DEF Core
<1> SUFFICES ASSUME canonical' = "none"
             PROVE  /\ live' = {} /\ unsettled' = {}
                    /\ \A d \in Dests : airings'[d] = 0
  BY DEF Silent
<1>1. canonical = "none" /\ phase = "none"
  BY CanonicalFixed DEF Anchored
<1>2. live = {} /\ unsettled = {} /\ (\A d \in Dests : airings[d] = 0)
  BY <1>1 DEF Silent
<1>3. ~\E f \in Followups : Waiting(f) # {}
  BY <1>1, ConstantsAssumption DEF Waiting, OnlyNewestProductMoves, Anchored
<1>4. UNCHANGED <<live, unsettled, airings>>
  <2>1. CASE UNCHANGED vars \/ NothingPrepared
    BY <2>1 DEF vars, memory, durable, history, NothingPrepared
  <2>2. CASE SameIngest \/ RestCreate
    BY <1>1, <2>2 DEF SameIngest, RestCreate
  <2>3. CASE RestBind \/ ReleaseDue
    BY <1>1, <2>3 DEF RestBind, ReleaseDue
  <2>4. CASE RestReplay \/ DeadlinePasses
    BY <2>4 DEF RestReplay, DeadlinePasses, memory, durable, history
  <2>5. ASSUME NEW d \in Dests, RunFallback(d) PROVE UNCHANGED <<live, unsettled, airings>>
    <3>1. Handoff(dests, {}, "rest", "rest", tasks \ {d})
      BY <1>1, <2>5 DEF RunFallback
    <3>2. QED
      BY <2>5, <3>1 DEF RunFallback, Handoff, history
  <2>6. CASE \E f \in Followups : PrepareFollowup(f) \/ DeliverFollowup(f)
    BY <1>3, <2>6 DEF PrepareFollowup, DeliverFollowup, history
  <2>7. CASE Crash \/ \E a \in live : TRUE
    BY <1>1, <1>2, <2>7 DEF Crash
  <2>8. CASE \/ \E src \in Sources, S \in SUBSET Dests : Reroute(src, S)
             \/ \E d \in Dests : ToggleDestination(d)
    BY <2>8 DEF Reroute, ToggleDestination, memory, durable, history
  <2>9. QED
    BY <2>1, <2>2, <2>3, <2>4, <2>5, <2>6, <2>7, <2>8, NextByGroup
<1>5. QED
  BY <1>2, <1>4

\* Where no exception falls between two enqueues, a destination gets the
\* initial warning on the air twice only beside a logged broadcast that is
\* filed under another id than the canonical one: crashes, fallbacks, late
\* results, raised acceptances and replays never repeat it (README.md:79).
THEOREM OnlyStraysRepeat ==
  ASSUME ~PartialFaults
  PROVE  Spec => []RebroadcastsOnlyStrays
<1>1. Init => BroadcastOnce /\ Silent
  BY DEF Init, BroadcastOnce, Silent, Once, Sole, Carriers
<1>2. Safe /\ BroadcastOnce /\ Silent /\ [Next]_vars => BroadcastOnce' /\ Silent'
  BY OnceStep, SilentStep DEF Safe
<1>3. BroadcastOnce => RebroadcastsOnlyStrays
  BY DEF BroadcastOnce, Once, Stray, RebroadcastsOnlyStrays
<1>4. QED
  BY <1>1, <1>2, <1>3, SafeInvariant, PTL DEF Spec
=============================================================================
