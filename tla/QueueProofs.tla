---------------------------- MODULE QueueProofs ----------------------------
(***************************************************************************)
(* Theorems about TransmitQueue, for any entries, lanes, keys and capacity. *)
(***************************************************************************)
EXTENDS TransmitQueue, FiniteSetTheorems, WellFoundedInduction, TLAPS

\* An entry in a lane or in the worker's hand has joined and is unanswered.
Outstanding ==
  /\ \A e \in queued : answers[e] = <<>> /\ stamp[e] > 0
  /\ hand # None => answers[hand] = <<>> /\ stamp[hand] > 0 /\ hand \notin queued
  /\ \A e \in conditional : stamp[e] > 0

Accepted(k) == \E x \in Entries : Key[x] = k /\ answers[x] = <<"sent">>

\* What the worker knows of a chain is true, and what it holds may be sent.
ChainIsTrue ==
  /\ \A k \in Keys : chain[k] = "sent" => Accepted(k)
  /\ hand \in conditional => Accepted(Key[hand])

Withdrew == \E e \in Entries : answers[e] = <<"superseded">>

\* The worker paces itself in front of an entry, unless it was withdrawn.
PacedBeforeEntry == /\ worker = "gap" /\ queued = {} => Withdrew
                    /\ worker = "dead" => Withdrew

\* So far only finitely many entries joined.
FinitelyMany == IsFiniteSet({e \in Entries : stamp[e] > 0})

QInv == /\ TypeOK /\ FinitelyMany /\ Outstanding /\ AnsweredOnce /\ WithdrawnNeverAirs
        /\ ChainIsTrue /\ ConditionalFollowsSuccess /\ PacedBeforeEntry
----------------------------------------------------------------------------
\* The oldest of some entries is one of them, and as old as any.
LEMMA OldestIsOne ==
  ASSUME TypeOK, NEW S, S \subseteq Entries, S # {}
  PROVE  Oldest(S) \in S
<1> DEFINE T == {stamp[e] : e \in S}
<1>1. T \subseteq Nat /\ T # {}
  BY DEF TypeOK
<1>2. PICK n \in T : \A m \in T : ~ (<<m, n>> \in OpToRel(<, Nat))
  <2> HIDE DEF T
  <2>1. QED
    BY <1>1, NatLessThanWellFounded, WFMin
<1>3. \A m \in T : ~ (m < n)
  BY <1>1, <1>2 DEF OpToRel
<1>4. PICK e \in S : stamp[e] = n
  BY <1>2
<1>5. ASSUME NEW x \in S
      PROVE  stamp[e] <= stamp[x]
  <2>1. stamp[x] \in T
    OBVIOUS
  <2>2. stamp[x] \in Nat /\ n \in Nat /\ ~ (stamp[x] < n)
    BY <1>1, <1>3, <2>1
  <2>3. QED
    BY <1>4, <2>2
<1>6. QED
  BY <1>4, <1>5 DEF Oldest

\* A full lane holds an entry to drop, one of its own.
LEMMA EvictedIsQueued ==
  ASSUME TypeOK, NEW e \in Entries
  PROVE  Evicted(e) \subseteq In(Lane[e])
<1>1. SUFFICES ASSUME Full(Lane[e])
               PROVE  Oldest(In(Lane[e])) \in In(Lane[e])
  BY DEF Evicted
<1>2. In(Lane[e]) # {}
  BY <1>1, FS_EmptySet, QueueAssumption DEF Full
<1>3. QED
  BY <1>2, OldestIsOne DEF In, TypeOK

\* The worker takes a queued entry, from the first lane that has one.
LEMMA NextUpIsQueued ==
  ASSUME TypeOK, queued # {}
  PROVE  NextUp \in queued /\ (Lane[NextUp] # "high" => In("high") = {})
<1> DEFINE S == CASE In("high") # {}   -> In("high")
                  [] In("high") = {} /\ In("detail") # {} -> In("detail")
                  [] OTHER             -> In("low")
<1>1. In("high") \cup In("detail") \cup In("low") = queued
  BY QueueAssumption DEF In, TypeOK, Lanes
<1>2. S # {} /\ S \subseteq queued
  BY <1>1 DEF In
<1>3. S = In("high") \/ In("high") = {}
  OBVIOUS
<1>4. Oldest(S) \in S
  <2> HIDE DEF S
  <2>1. QED
    BY <1>2, OldestIsOne DEF TypeOK
<1>5. NextUp = Oldest(S)
  BY DEF NextUp
<1>6. \A x \in In("high") : Lane[x] = "high"
  BY DEF In
<1> HIDE DEF S
<1>7. QED
  BY <1>2, <1>3, <1>4, <1>5, <1>6

\* Answering unanswered entries gives each one result and leaves the rest.
LEMMA AnswerEffect ==
  ASSUME TypeOK, NEW S, NEW r \in Results, Answer(S, r),
         \A e \in S : e \in Entries => answers[e] = <<>>
  PROVE  /\ answers' \in [Entries -> Seq(Results)]
         /\ \A e \in Entries : /\ e \in S => answers'[e] = <<r>>
                               /\ e \notin S => answers'[e] = answers[e]
<1>1. \A e \in Entries : Append(answers[e], r) \in Seq(Results)
  BY DEF TypeOK
<1>2. Append(<<>>, r) = <<r>>
  OBVIOUS
<1>3. QED
  BY <1>1, <1>2 DEF Answer, TypeOK

\* What an entry was told it stays told, and so do the facts drawn from it.
LEMMA ToldForGood ==
  ASSUME NEW k \in Keys,
         \A e \in Entries : answers[e] # <<>> => answers'[e] = answers[e]
  PROVE  (Withdrew => Withdrew') /\ (Accepted(k) => Accepted(k)')
<1>1. <<"superseded">> # <<>> /\ <<"sent">> # <<>>
  OBVIOUS
<1>2. QED
  BY <1>1 DEF Withdrew, Accepted

\* The invariant holds when the service starts.
LEMMA QInit == Init => QInv
<1> SUFFICES ASSUME Init
             PROVE  QInv
  OBVIOUS
<1>1. TypeOK
  <2>1. answers \in [Entries -> Seq(Results)]
    <3>1. <<>> \in Seq(Results)
      OBVIOUS
    <3>2. QED
      BY <3>1 DEF Init
  <2>2. stamp \in [Entries -> Nat] /\ chain \in [Keys -> {"none", "sent", "failed"}]
    BY DEF Init
  <2>3. QED
    BY <2>1, <2>2 DEF Init, TypeOK, Places
<1>2. FinitelyMany
  <2>1. {e \in Entries : stamp[e] > 0} = {}
    BY DEF Init
  <2>2. QED
    BY <2>1, FS_EmptySet DEF FinitelyMany
<1>3. Outstanding /\ ChainIsTrue /\ PacedBeforeEntry
  BY DEF Init, Outstanding, ChainIsTrue, PacedBeforeEntry
<1>4. AnsweredOnce /\ WithdrawnNeverAirs /\ ConditionalFollowsSuccess
  BY DEF Init, AnsweredOnce, WithdrawnNeverAirs, ConditionalFollowsSuccess
<1>5. QED
  BY <1>1, <1>2, <1>3, <1>4 DEF QInv

\* Steps that tell nobody anything and leave the lanes as they are.
LEMMA QuietStep ==
  ASSUME QInv, UNCHANGED <<lanes, answers, airs>>, UNCHANGED hand,
         chain' = chain \/ (\E k \in Keys : chain' = [chain EXCEPT ![k] = "none"]),
         woken' \in BOOLEAN, worker' \in Places,
         worker' = "send" <=> worker = "send",
         worker' = "gap" => worker = "gap" \/ queued # {},
         worker' = "dead" => worker = "dead" \/ Withdrew
  PROVE  QInv'
<1>1. TypeOK'
  <2>1. chain' \in [Keys -> {"none", "sent", "failed"}]
    BY DEF QInv, TypeOK
  <2>2. QED
    BY <2>1 DEF QInv, TypeOK, lanes
<1>2. FinitelyMany' /\ Outstanding'
  BY DEF QInv, FinitelyMany, Outstanding, lanes
<1>3. ChainIsTrue'
  <2>1. \A k \in Keys : chain'[k] = "sent" => chain[k] = "sent"
    BY DEF QInv, TypeOK
  <2>2. QED
    BY <2>1 DEF QInv, ChainIsTrue, Accepted, lanes
<1>4. PacedBeforeEntry'
  BY DEF QInv, PacedBeforeEntry, Withdrew, lanes
<1>5. AnsweredOnce' /\ WithdrawnNeverAirs' /\ ConditionalFollowsSuccess'
  BY DEF QInv, AnsweredOnce, WithdrawnNeverAirs, ConditionalFollowsSuccess, lanes
<1>6. QED
  BY <1>1, <1>2, <1>3, <1>4, <1>5 DEF QInv

\* Telling callers what is no success disturbs none of the promises made.
LEMMA TellingNoSuccess ==
  ASSUME QInv, NEW S, NEW r \in {"superseded", "refused", "skipped", "dropped"},
         Answer(S, r), \A e \in S : e \in Entries /\ answers[e] = <<>>,
         UNCHANGED <<chain, hand, airs>>,
         \A e \in conditional' :
           e \in Entries /\ (e \in conditional \/ (answers[e] = <<>> /\ e # hand))
  PROVE  /\ answers' \in [Entries -> Seq(Results)]
         /\ \A e \in Entries : /\ e \in S => answers'[e] = <<r>>
                               /\ e \notin S => answers'[e] = answers[e]
         /\ ChainIsTrue' /\ AnsweredOnce' /\ WithdrawnNeverAirs'
         /\ ConditionalFollowsSuccess'
         /\ Withdrew \/ (S # {} /\ r = "superseded") => Withdrew'
<1>1. /\ answers' \in [Entries -> Seq(Results)]
      /\ \A e \in Entries : /\ e \in S => answers'[e] = <<r>>
                            /\ e \notin S => answers'[e] = answers[e]
  <2>1. TypeOK /\ r \in Results
    BY DEF QInv, Results
  <2>2. QED
    BY <2>1, AnswerEffect
<1>2. \A e \in Entries : answers[e] # <<>> => answers'[e] = answers[e]
  BY <1>1
<1>3. <<r>> # <<"sent">> /\ <<r>> # <<"failed">> /\ Len(<<r>>) = 1
  OBVIOUS
<1>4. <<"sent">> # <<>> /\ <<"failed">> # <<>>
  OBVIOUS
<1>5. ChainIsTrue'
  <2>1. \A k \in Keys : Accepted(k) => Accepted(k)'
    BY <1>2, ToldForGood
  <2>2. hand \in conditional' => hand \in conditional /\ Key[hand] \in Keys
    BY QueueAssumption DEF QInv, TypeOK
  <2>3. QED
    BY <2>1, <2>2 DEF QInv, ChainIsTrue, Accepted
<1>6. AnsweredOnce'
  <2> SUFFICES ASSUME NEW e \in Entries
               PROVE  Len(answers'[e]) <= 1
    BY DEF AnsweredOnce
  <2>1. CASE e \in S
    <3>1. answers'[e] = <<r>>
      BY <1>1, <2>1
    <3>2. QED
      BY <1>3, <3>1
  <2>2. CASE e \notin S
    BY <1>1, <2>2 DEF QInv, AnsweredOnce
  <2>3. QED
    BY <2>1, <2>2
<1>7. WithdrawnNeverAirs'
  <2>1. \A e \in airs : e \in Entries /\ answers[e] # <<>>
    BY <1>4 DEF QInv, TypeOK, WithdrawnNeverAirs
  <2>2. QED
    BY <1>2, <2>1 DEF QInv, WithdrawnNeverAirs
<1>8. ConditionalFollowsSuccess'
  <2> SUFFICES ASSUME NEW e \in conditional',
                      e = hand \/ answers'[e] \in {<<"sent">>, <<"failed">>}
               PROVE  \E x \in Entries : x # e /\ Key[x] = Key[e] /\ answers'[x] = <<"sent">>
    BY DEF ConditionalFollowsSuccess
  <2>1. e = hand \/ answers[e] \in {<<"sent">>, <<"failed">>}
    BY <1>1, <1>3
  <2>2. PICK x \in Entries : x # e /\ Key[x] = Key[e] /\ answers[x] = <<"sent">>
    BY <1>4, <2>1 DEF QInv, ConditionalFollowsSuccess
  <2>3. QED
    BY <1>2, <1>4, <2>2
<1>9. Withdrew \/ (S # {} /\ r = "superseded") => Withdrew'
  <2>1. <<"superseded">> # <<>>
    OBVIOUS
  <2>2. QED
    BY <1>1, <1>2, <2>1 DEF Withdrew
<1>10. QED
  BY <1>1, <1>5, <1>6, <1>7, <1>8, <1>9

\* Steps that take entries out of the lanes, or refuse one, and tell so.
LEMMA WithdrawalStep ==
  ASSUME QInv, NEW S, NEW r \in {"superseded", "refused", "skipped"},
         Answer(S, r), \A e \in S : e \in Entries /\ answers[e] = <<>> /\ e # hand,
         queued' = queued \ S, UNCHANGED <<stamp, conditional, chain, hand, airs>>,
         woken' = woken,
         worker' = worker \/ (worker # "send" /\ worker' = "look"),
         r # "superseded" => worker' # "gap" \/ S \cap queued = {}
  PROVE  QInv'
<1>1. /\ answers' \in [Entries -> Seq(Results)]
      /\ \A e \in Entries : /\ e \in S => answers'[e] = <<r>>
                            /\ e \notin S => answers'[e] = answers[e]
      /\ ChainIsTrue' /\ AnsweredOnce' /\ WithdrawnNeverAirs'
      /\ ConditionalFollowsSuccess'
      /\ Withdrew \/ (S # {} /\ r = "superseded") => Withdrew'
  <2>1. \A e \in conditional' : e \in Entries /\ e \in conditional
    BY DEF QInv, TypeOK
  <2>2. QED
    BY <2>1, TellingNoSuccess
<1>2. TypeOK'
  BY <1>1 DEF QInv, TypeOK, Places
<1>3. FinitelyMany'
  BY DEF QInv, FinitelyMany
<1>4. Outstanding'
  BY <1>1 DEF QInv, Outstanding, TypeOK
<1>5. PacedBeforeEntry'
  <2>1. CASE S \cap queued = {}
    <3>1. queued' = queued
      BY <2>1
    <3>2. QED
      BY <1>1, <3>1 DEF QInv, PacedBeforeEntry
  <2>2. CASE S \cap queued # {} /\ r = "superseded"
    BY <1>1, <2>2 DEF PacedBeforeEntry
  <2>3. CASE S \cap queued # {} /\ r # "superseded"
    BY <1>1, <2>3 DEF QInv, PacedBeforeEntry
  <2>4. QED
    BY <2>1, <2>2, <2>3
<1>6. QED
  BY <1>1, <1>2, <1>3, <1>4, <1>5 DEF QInv

\* A new entry takes the place of the oldest in a full lane.
LEMMA SubmitStep ==
  ASSUME QInv, NEW e \in Entries, NEW cond \in BOOLEAN, Submit(e, cond)
  PROVE  QInv'
<1> DEFINE S == Evicted(e)
           old == {x \in Entries : stamp[x] > 0}
<1>1. S \subseteq queued
  BY EvictedIsQueued DEF QInv, In
<1>2. e \notin queued /\ e # hand /\ e \notin S /\ answers[e] = <<>> /\ stamp[e] = 0
  BY <1>1, QueueAssumption DEF QInv, Outstanding, Submit, Fresh, TypeOK
<1>3. /\ answers' \in [Entries -> Seq(Results)]
      /\ \A x \in Entries : /\ x \in S => answers'[x] = <<"dropped">>
                            /\ x \notin S => answers'[x] = answers[x]
      /\ ChainIsTrue' /\ AnsweredOnce' /\ WithdrawnNeverAirs'
      /\ ConditionalFollowsSuccess'
      /\ Withdrew => Withdrew'
  <2>1. Answer(S, "dropped") /\ UNCHANGED <<chain, hand, airs>>
    BY DEF Submit
  <2>2. \A x \in S : x \in Entries /\ answers[x] = <<>>
    BY <1>1 DEF QInv, TypeOK, Outstanding
  <2>3. \A x \in conditional' :
          x \in Entries /\ (x \in conditional \/ (answers[x] = <<>> /\ x # hand))
    BY <1>2 DEF Submit, QInv, TypeOK
  <2> HIDE DEF S
  <2>4. QED
    BY <2>1, <2>2, <2>3, TellingNoSuccess
<1>4. /\ IsFiniteSet({x \in Entries : stamp'[x] > 0})
      /\ stamp' \in [Entries -> Nat] /\ stamp'[e] > 0
      /\ \A x \in Entries : stamp[x] > 0 => stamp'[x] > 0
  <2>1. Joined(Lane[e]) \subseteq old
    BY DEF Joined
  <2>2. IsFiniteSet(Joined(Lane[e]))
    BY <2>1, FS_Subset DEF QInv, FinitelyMany
  <2>3. Cardinality(Joined(Lane[e])) \in Nat
    BY <2>2, FS_CardinalityType
  <2>4. /\ stamp' \in [Entries -> Nat] /\ stamp'[e] > 0
        /\ \A x \in Entries : x # e => stamp'[x] = stamp[x]
    BY <2>3 DEF Submit, QInv, TypeOK
  <2>5. {x \in Entries : stamp'[x] > 0} = old \cup {e}
    BY <2>4
  <2>6. IsFiniteSet(old \cup {e})
    BY FS_AddElement DEF QInv, FinitelyMany
  <2>7. QED
    BY <1>2, <2>4, <2>5, <2>6
<1>5. TypeOK'
  <2>1. queued' \subseteq Entries /\ conditional' \subseteq Entries /\ woken' \in BOOLEAN
    BY DEF Submit, QInv, TypeOK, Signals
  <2>2. QED
    BY <1>3, <1>4, <2>1 DEF Submit, QInv, TypeOK
<1>6. FinitelyMany'
  BY <1>4 DEF FinitelyMany
<1>7. Outstanding'
  <2>1. \A x \in queued' : x \in Entries /\ answers'[x] = <<>> /\ stamp'[x] > 0
    BY <1>1, <1>2, <1>3, <1>4 DEF Submit, QInv, TypeOK, Outstanding
  <2>2. hand' # None => answers'[hand'] = <<>> /\ stamp'[hand'] > 0 /\ hand' \notin queued'
    BY <1>1, <1>2, <1>3, <1>4 DEF Submit, QInv, TypeOK, Outstanding
  <2>3. \A x \in conditional' : stamp'[x] > 0
    BY <1>4 DEF Submit, QInv, TypeOK, Outstanding
  <2>4. QED
    BY <2>1, <2>2, <2>3 DEF Outstanding
<1>8. PacedBeforeEntry'
  <2>1. queued' # {} /\ worker' = worker
    BY DEF Submit
  <2>2. QED
    BY <1>3, <2>1 DEF QInv, PacedBeforeEntry
<1>9. QED
  BY <1>3, <1>5, <1>6, <1>7, <1>8 DEF QInv

\* The worker takes an entry whose condition is met.
LEMMA TakeStep == QInv /\ Take => QInv'
<1> SUFFICES ASSUME QInv, Take
             PROVE  QInv'
  OBVIOUS
<1> DEFINE n == NextUp
<1>1. n \in queued /\ n \in Entries /\ n # None
  BY NextUpIsQueued, QueueAssumption DEF QInv, Take, Ready, TypeOK
<1>2. n \in conditional => Accepted(Key[n])
  BY <1>1, QueueAssumption DEF QInv, Take, Unmet, ChainIsTrue
<1> HIDE DEF n
<1>3. queued' = queued \ {n} /\ hand' = n /\ worker' = "send"
  BY DEF Take, n
<1>4. UNCHANGED <<stamp, conditional, chain, woken, answers, airs>>
  BY DEF Take
<1>5. answers[n] = <<>> /\ stamp[n] > 0
  BY <1>1 DEF QInv, Outstanding
<1>6. TypeOK'
  BY <1>1, <1>3, <1>4 DEF QInv, TypeOK, Places
<1>7. FinitelyMany' /\ Outstanding'
  BY <1>1, <1>3, <1>4, <1>5 DEF QInv, FinitelyMany, Outstanding
<1>8. ChainIsTrue'
  BY <1>2, <1>3, <1>4 DEF QInv, ChainIsTrue, Accepted
<1>9. AnsweredOnce' /\ WithdrawnNeverAirs'
  BY <1>4 DEF QInv, AnsweredOnce, WithdrawnNeverAirs
<1>10. ConditionalFollowsSuccess'
  <2> SUFFICES ASSUME NEW e \in conditional,
                      e = n \/ answers[e] \in {<<"sent">>, <<"failed">>}
               PROVE  \E x \in Entries : x # e /\ Key[x] = Key[e] /\ answers[x] = <<"sent">>
    BY <1>3, <1>4 DEF ConditionalFollowsSuccess
  <2>1. <<"sent">> # <<>>
    OBVIOUS
  <2>2. CASE e = n
    BY <1>2, <1>5, <2>1, <2>2 DEF Accepted
  <2>3. CASE e # n
    BY <2>3 DEF QInv, ConditionalFollowsSuccess
  <2>4. QED
    BY <2>2, <2>3
<1>11. PacedBeforeEntry'
  BY <1>3 DEF PacedBeforeEntry
<1>12. QED
  BY <1>6, <1>7, <1>8, <1>9, <1>10, <1>11 DEF QInv

\* The entry in hand gets the radio's result, and its chain remembers it.
LEMMA FinishStep ==
  ASSUME QInv, NEW r \in {"sent", "failed"}, Finish(r)
  PROVE  QInv'
<1>1. /\ hand \in Entries /\ hand # None /\ answers[hand] = <<>>
      /\ hand \notin queued /\ Key[hand] \in Keys
  BY QueueAssumption DEF QInv, TypeOK, Outstanding, Finish
<1>2. /\ answers' \in [Entries -> Seq(Results)]
      /\ answers'[hand] = <<r>>
      /\ \A e \in Entries : e # hand => answers'[e] = answers[e]
  <2>1. TypeOK /\ r \in Results /\ Answer({hand}, r)
    BY DEF QInv, Results, Finish
  <2>2. QED
    BY <1>1, <2>1, AnswerEffect
<1>3. \A e \in Entries : answers[e] # <<>> => answers'[e] = answers[e]
  BY <1>1, <1>2
<1>4. Len(<<r>>) = 1 /\ <<r>> # <<"superseded">> /\ <<"sent">> # <<>> /\ <<"failed">> # <<>>
  OBVIOUS
<1>5. worker' \in {"look", "backoff"} /\ hand' = None /\ None \notin Entries
  BY QueueAssumption DEF Finish, AfterSend
<1>6. UNCHANGED <<queued, stamp, conditional, woken>> /\ airs' \in {airs, airs \cup {hand}}
  BY DEF Finish, lanes
<1>7. TypeOK'
  <2>1. chain' \in [Keys -> {"none", "sent", "failed"}]
    BY <1>1 DEF QInv, TypeOK, Finish
  <2>2. QED
    BY <1>1, <1>2, <1>5, <1>6, <2>1 DEF QInv, TypeOK, Places
<1>8. FinitelyMany' /\ Outstanding'
  BY <1>1, <1>2, <1>5, <1>6 DEF QInv, TypeOK, FinitelyMany, Outstanding
<1>9. ChainIsTrue'
  <2>1. hand' \notin conditional'
    BY <1>5, <1>6 DEF QInv, TypeOK
  <2>2. ASSUME NEW k \in Keys, chain'[k] = "sent"
        PROVE  Accepted(k)'
    <3>1. CASE k = Key[hand]
      <4>1. r = "sent"
        BY <2>2, <3>1 DEF Finish, QInv, TypeOK
      <4>2. QED
        BY <1>1, <1>2, <3>1, <4>1 DEF Accepted
    <3>2. CASE k # Key[hand]
      <4>1. Accepted(k)
        BY <2>2, <3>2 DEF Finish, QInv, TypeOK, ChainIsTrue
      <4>2. QED
        BY <1>3, <4>1, ToldForGood
    <3>3. QED
      BY <3>1, <3>2
  <2>3. QED
    BY <2>1, <2>2 DEF ChainIsTrue
<1>10. AnsweredOnce'
  <2> SUFFICES ASSUME NEW e \in Entries
               PROVE  Len(answers'[e]) <= 1
    BY DEF AnsweredOnce
  <2>1. CASE e = hand
    <3>1. answers'[e] = <<r>>
      BY <1>2, <2>1
    <3>2. QED
      BY <1>4, <3>1
  <2>2. CASE e # hand
    BY <1>2, <2>2 DEF QInv, AnsweredOnce
  <2>3. QED
    BY <2>1, <2>2
<1>11. WithdrawnNeverAirs'
  <2>1. \A e \in airs : e \in Entries /\ answers[e] # <<>>
    BY <1>4 DEF QInv, TypeOK, WithdrawnNeverAirs
  <2>2. \A e \in airs' : e \in airs \/ e = hand
    BY <1>6
  <2>3. QED
    BY <1>2, <1>3, <2>1, <2>2 DEF QInv, WithdrawnNeverAirs
<1>12. ConditionalFollowsSuccess'
  <2> SUFFICES ASSUME NEW e \in conditional,
                      answers'[e] \in {<<"sent">>, <<"failed">>}
               PROVE  \E x \in Entries : x # e /\ Key[x] = Key[e] /\ answers'[x] = <<"sent">>
    BY <1>5, <1>6 DEF ConditionalFollowsSuccess, QInv, TypeOK
  <2>1. e = hand \/ answers[e] \in {<<"sent">>, <<"failed">>}
    BY <1>2 DEF QInv, TypeOK
  <2>2. PICK x \in Entries : x # e /\ Key[x] = Key[e] /\ answers[x] = <<"sent">>
    BY <2>1 DEF QInv, ConditionalFollowsSuccess
  <2>3. QED
    BY <1>3, <1>4, <2>2
<1>13. PacedBeforeEntry'
  BY <1>5 DEF PacedBeforeEntry
<1>14. QED
  BY <1>7, <1>8, <1>9, <1>10, <1>11, <1>12, <1>13 DEF QInv

\* Every step keeps the invariant.
LEMMA QStep == QInv /\ [Next]_vars => QInv'
<1> SUFFICES ASSUME QInv, [Next]_vars
             PROVE  QInv'
  OBVIOUS
<1> USE DEF lanes
<1>1. ASSUME NEW e \in Entries, NEW cond \in BOOLEAN, Submit(e, cond)
      PROVE  QInv'
  BY <1>1, SubmitStep
<1>2. ASSUME NEW e \in Entries, Refuse(e)
      PROVE  QInv'
  <2>1. e \notin queued /\ e # hand /\ answers[e] = <<>>
    BY <1>2, QueueAssumption DEF QInv, Outstanding, Refuse, Fresh
  <2>2. Answer({e}, "refused") /\ UNCHANGED <<lanes, chain, worker, woken, hand, airs>>
    BY <1>2 DEF Refuse
  <2>3. queued' = queued \ {e} /\ {e} \cap queued = {}
    BY <2>1, <2>2
  <2>4. QED
    BY <2>1, <2>2, <2>3, WithdrawalStep
<1>3. ASSUME NEW k \in Keys, Cancel(k)
      PROVE  QInv'
  <2>1. \A e \in Withdrawn(k) : e \in Entries /\ answers[e] = <<>> /\ e # hand
    BY QueueAssumption DEF QInv, TypeOK, Outstanding, Withdrawn
  <2>2. QED
    BY <1>3, <2>1, WithdrawalStep DEF Cancel
<1>4. ASSUME NEW k \in Keys, Forget(k)
      PROVE  QInv'
  <2>1. woken' \in BOOLEAN /\ worker' \in Places /\ worker' = worker
    BY <1>4 DEF Forget, QInv, TypeOK
  <2>2. worker' = "gap" => worker = "gap" \/ queued # {}
    BY <2>1
  <2>3. QED
    BY <1>4, <2>1, <2>2, QuietStep DEF Forget
<1>5. CASE Look \/ WakeInVain \/ Resume
  <2>1. /\ UNCHANGED <<lanes, answers, airs>> /\ UNCHANGED hand /\ chain' = chain
        /\ woken' \in BOOLEAN /\ worker' \in Places
        /\ worker' = "send" <=> worker = "send"
        /\ worker' = "gap" => worker = "gap" \/ queued # {}
        /\ worker' = "dead" => worker = "dead"
    BY <1>5 DEF Look, WakeInVain, Resume, QInv, TypeOK, Places
  <2>2. QED
    BY <2>1, QuietStep
<1>6. CASE Die
  <2>1. /\ UNCHANGED <<lanes, answers, airs>> /\ UNCHANGED hand /\ chain' = chain
        /\ woken' \in BOOLEAN /\ worker' = "dead" /\ worker # "send" /\ Withdrew
    BY <1>6 DEF Die, QInv, TypeOK, PacedBeforeEntry
  <2>2. worker' \in Places /\ worker' # "send" /\ worker' # "gap"
    BY <2>1 DEF Places
  <2>3. QED
    BY <2>1, <2>2, QuietStep
<1>7. CASE Skip
  <2>1. NextUp \in queued /\ NextUp \in Entries /\ worker # "send"
    BY <1>7, NextUpIsQueued DEF QInv, TypeOK, Skip, Ready
  <2>2. \A e \in {NextUp} : e \in Entries /\ answers[e] = <<>> /\ e # hand
    BY <2>1, QueueAssumption DEF QInv, Outstanding
  <2>3. /\ Answer({NextUp}, "skipped") /\ queued' = queued \ {NextUp}
        /\ UNCHANGED <<stamp, conditional, chain, hand, airs>> /\ woken' = woken
        /\ worker' = "look"
    BY <1>7 DEF Skip
  <2>4. QED
    BY <2>1, <2>2, <2>3, WithdrawalStep
<1>8. CASE Take
  BY <1>8, TakeStep
<1>9. CASE Finish("sent") \/ Finish("failed")
  BY <1>9, FinishStep
<1>10. CASE UNCHANGED vars
  <2>1. woken' \in BOOLEAN /\ worker' \in Places /\ worker' = worker
    BY <1>10 DEF vars, QInv, TypeOK
  <2>2. worker' = "gap" => worker = "gap" \/ queued # {}
    BY <2>1
  <2>3. QED
    BY <1>10, <2>1, <2>2, QuietStep DEF vars
<1>11. QED
  BY <1>1, <1>2, <1>3, <1>4, <1>5, <1>6, <1>7, <1>8, <1>9, <1>10
  DEF Next, WorkerStep
----------------------------------------------------------------------------
\* The inductive invariant holds in every reachable state.
THEOREM QueueInvariant == Spec => []QInv
BY QInit, QStep, PTL DEF Spec

\* The lanes, the worker and its hand keep their types (transmit.py _worker).
THEOREM QueueTypeCorrect == Spec => []TypeOK
<1>1. QInv => TypeOK
  BY DEF QInv
<1>2. QED
  BY <1>1, QueueInvariant, PTL

\* No on_result is called twice, whatever meets in the lanes.
THEOREM EachAnsweredOnce == Spec => []AnsweredOnce
<1>1. QInv => AnsweredOnce
  BY DEF QInv
<1>2. QED
  BY <1>1, QueueInvariant, PTL

\* What was withdrawn, dropped, refused or skipped never goes on the air.
THEOREM NoAiredWithdrawal == Spec => []WithdrawnNeverAirs
<1>1. QInv => WithdrawnNeverAirs
  BY DEF QInv
<1>2. QED
  BY <1>1, QueueInvariant, PTL

\* A conditional entry is sent only after its chain had an acceptance.
THEOREM ConditionalChain == Spec => []ConditionalFollowsSuccess
<1>1. QInv => ConditionalFollowsSuccess
  BY DEF QInv
<1>2. QED
  BY <1>1, QueueInvariant, PTL

\* Nothing but a withdrawal of queued entries ends the worker.
THEOREM NoDeathWithoutCancel == Spec => []OnlyACancelKills
<1>1. QInv => OnlyACancelKills
  BY DEF QInv, PacedBeforeEntry, Withdrew, OnlyACancelKills
<1>2. QED
  BY <1>1, QueueInvariant, PTL

\* The worker takes nothing else while a warning waits.
THEOREM WarningsFirst == Spec => WarningsGoFirst
<1>1. QInv /\ [Next]_vars =>
        [hand' \notin {hand, None} /\ Lane[hand'] # "high" => In("high")' = {}]_vars
  <2> SUFFICES ASSUME QInv, [Next]_vars, hand' \notin {hand, None}, Lane[hand'] # "high"
               PROVE  In("high")' = {}
    OBVIOUS
  <2>1. Take
    BY DEF Next, WorkerStep, Submit, Refuse, Cancel, Forget, Look, WakeInVain, Skip,
           Die, Resume, Finish, vars
  <2>2. NextUp \in queued /\ (Lane[NextUp] # "high" => In("high") = {})
    BY <2>1, NextUpIsQueued DEF QInv, Take, Ready
  <2>3. In("high") = {} /\ queued' \subseteq queued
    BY <2>1, <2>2 DEF Take
  <2>4. QED
    BY <2>3 DEF In
<1>2. QED
  BY <1>1, QueueInvariant, PTL DEF Spec, WarningsGoFirst
=============================================================================
