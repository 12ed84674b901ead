---------------------------- MODULE DeliveryProofs ----------------------------
(***************************************************************************)
(* Theorems about Delivery.                                                *)
(***************************************************************************)
EXTENDS Delivery, FiniteSetTheorems, SequenceTheorems, TLAPS

----------------------------------------------------------------------------
(* Sequences and finite sets.                                              *)

\* A bijection between sets of the same size is all an injection needs to be.
LEMMA SameSizeOnto ==
  ASSUME NEW S, NEW n \in Nat, IsFiniteSet(S), Cardinality(S) = n,
         NEW f \in [S -> 1..n],
         \A x, y \in S : f[x] = f[y] => x = y
  PROVE  \A j \in 1..n : \E x \in S : f[x] = j
<1>1. IsFiniteSet(1..n) /\ Cardinality(1..n) = n
  BY FS_Interval
<1>2. f \in Injection(S, 1..n)
  BY DEF Injection, IsInjective
<1>3. f \in Surjection(S, 1..n)
  BY <1>1, <1>2, FS_Injection
<1>4. QED
  BY <1>3 DEF Surjection

LEMMA SetToSeqFacts ==
  ASSUME NEW S, IsFiniteSet(S)
  PROVE  /\ SetToSeq(S) \in Seq(S)
         /\ ToSet(SetToSeq(S)) = S
         /\ \A i, j \in DOMAIN SetToSeq(S) :
              SetToSeq(S)[i] = SetToSeq(S)[j] => i = j
<1> DEFINE n == Cardinality(S)
<1>1. n \in Nat /\ ExistsBijection(1..n, S)
  BY FS_CardinalityType
<1>2. \E f \in [1..n -> S] : IsInjective(f)
  BY <1>1 DEF ExistsBijection, Bijection, Injection
<1>3. SetToSeq(S) \in [1..n -> S] /\ IsInjective(SetToSeq(S))
  BY <1>2 DEF SetToSeq
<1>4. IsFiniteSet(1..n) /\ Cardinality(1..n) = n
  BY <1>1, FS_Interval
<1>5. SetToSeq(S) \in Injection(1..n, S)
  BY <1>3 DEF Injection
<1>6. SetToSeq(S) \in Surjection(1..n, S)
  BY <1>4, <1>5, FS_Injection
<1> HIDE DEF n
<1>7. \A x \in S : \E i \in 1..n : SetToSeq(S)[i] = x
  BY <1>6 DEF Surjection
<1>8. ToSet(SetToSeq(S)) = S
  BY <1>3, <1>7 DEF ToSet
<1>9. SetToSeq(S) \in Seq(S)
  BY <1>1, <1>3
<1>10. QED
  BY <1>3, <1>8, <1>9 DEF IsInjective

\* What Kept returns: the entries of s in E, each from a place of its own.
LEMMA KeptFacts ==
  ASSUME NEW S, NEW s \in Seq(S), NEW E
  PROVE  /\ Kept(s, E) \in Seq(S)
         /\ ToSet(Kept(s, E)) = ToSet(s) \cap E
         /\ \A j, k \in DOMAIN Kept(s, E) : \E i, l \in DOMAIN s :
              /\ Kept(s, E)[j] = s[i] /\ Kept(s, E)[k] = s[l]
              /\ i = l => j = k
<1> DEFINE I == {i \in DOMAIN s : s[i] \in E}
           n == Cardinality(I)
           Upto(i) == {k \in I : k <= i}
           rank == [i \in I |-> Cardinality(Upto(i))]
           p == [j \in 1..n |-> CHOOSE i \in I : Cardinality(Upto(i)) = j]
<1>1. DOMAIN s = 1..Len(s) /\ Len(s) \in Nat
  OBVIOUS
<1>2. IsFiniteSet(DOMAIN s)
  BY <1>1, FS_Interval
<1>3. I \in SUBSET DOMAIN s /\ \A i : Upto(i) \in SUBSET I
  OBVIOUS
<1> HIDE DEF I
<1>4. IsFiniteSet(I) /\ n \in Nat
  BY <1>2, <1>3, FS_Subset, FS_CardinalityType
<1>5. ASSUME NEW i \in I
      PROVE  /\ IsFiniteSet(Upto(i)) /\ Cardinality(Upto(i)) \in 1..n
             /\ i \in Upto(i)
  <2>1. i \in Upto(i)
    BY <1>1, <1>3
  <2>2. Upto(i) \in SUBSET I
    BY <1>3
  <2> HIDE DEF Upto
  <2>3. IsFiniteSet(Upto(i)) /\ Cardinality(Upto(i)) <= n
    BY <1>4, <2>2, FS_Subset
  <2>4. Cardinality(Upto(i)) \in Nat /\ Cardinality(Upto(i)) # 0
    BY <2>1, <2>3, FS_CardinalityType, FS_EmptySet
  <2>5. QED
    BY <1>4, <2>1, <2>3, <2>4
<1>6. ASSUME NEW i \in I, NEW k \in I, i < k
      PROVE  Cardinality(Upto(i)) # Cardinality(Upto(k))
  <2>1. Upto(i) \in SUBSET Upto(k) /\ k \notin Upto(i)
    BY <1>1, <1>3, <1>6
  <2>2. IsFiniteSet(Upto(k)) /\ k \in Upto(k)
    BY <1>5
  <2> HIDE DEF Upto
  <2>3. QED
    BY <2>1, <2>2, FS_Subset
<1>7. rank \in [I -> 1..n]
  BY <1>5
<1>8. \A i, k \in I : rank[i] = rank[k] => i = k
  <2>1. SUFFICES ASSUME NEW i \in I, NEW k \in I, i # k
                 PROVE  Cardinality(Upto(i)) # Cardinality(Upto(k))
    OBVIOUS
  <2>2. i \in Nat /\ k \in Nat
    BY <1>1, <1>3
  <2>3. i < k \/ k < i
    BY <2>1, <2>2
  <2> HIDE DEF Upto
  <2>4. QED
    BY <1>6, <2>3
<1>9. \A j \in 1..n : \E i \in I : rank[i] = j
  <2> HIDE DEF rank, n
  <2>1. n = Cardinality(I)
    BY DEF n
  <2>2. QED
    BY <1>4, <1>7, <1>8, <2>1, SameSizeOnto
<1>10. \A j \in 1..n : p[j] \in I /\ Cardinality(Upto(p[j])) = j
  <2>1. \A j \in 1..n : \E i \in I : Cardinality(Upto(i)) = j
    BY <1>9
  <2> HIDE DEF Upto, n
  <2>2. QED
    BY <2>1
<1>11. Kept(s, E) = [j \in 1..n |-> s[p[j]]]
  BY DEF Kept, I
<1>12. p \in [1..n -> DOMAIN s]
  BY <1>3, <1>10
<1>13. \A j, k \in 1..n : p[j] = p[k] => j = k
  BY <1>10
<1>14. \A i \in I : \E j \in 1..n : p[j] = i
  <2>1. SUFFICES ASSUME NEW i \in I
                 PROVE  p[rank[i]] = i
    BY <1>7
  <2>2. rank[i] \in 1..n
    BY <1>7
  <2>3. rank[p[rank[i]]] = rank[i] /\ p[rank[i]] \in I
    BY <1>10, <2>2
  <2> HIDE DEF rank, p, n, Upto
  <2>4. QED
    BY <1>8, <2>3
<1> HIDE DEF p, rank, Upto
<1>15. Kept(s, E) \in Seq(S)
  BY <1>1, <1>4, <1>11, <1>12
<1>16. ToSet(Kept(s, E)) = ToSet(s) \cap E
  <2>1. \A j \in 1..n : s[p[j]] \in E
    BY <1>10 DEF I
  <2>2. \A i \in DOMAIN s : s[i] \in E => i \in I
    BY DEF I
  <2> HIDE DEF n
  <2>3. QED
    BY <1>11, <1>12, <1>14, <2>1, <2>2 DEF ToSet
<1>17. ASSUME NEW j \in 1..n, NEW k \in 1..n
       PROVE  /\ p[j] \in DOMAIN s /\ p[k] \in DOMAIN s
              /\ Kept(s, E)[j] = s[p[j]] /\ Kept(s, E)[k] = s[p[k]]
              /\ p[j] = p[k] => j = k
  BY <1>11, <1>12, <1>13
<1>18. DOMAIN Kept(s, E) = 1..n
  BY <1>11
<1> HIDE DEF n
<1>19. QED
  BY ONLY <1>15, <1>16, <1>17, <1>18
----------------------------------------------------------------------------
(* Types.                                                                  *)

Cards == ToSet(cards)
LogEntry == [what : Disps \cup {"detail"}, alert : Alerts,
             areas : SUBSET Counties, known : BOOLEAN]
Scopes == SUBSET Counties
Table == [Chains -> Row \cup {None}]
Results == {"none", "sent", "failed"}

LanesOK == /\ cards \in Seq(Card) /\ details \in Seq(DetailEntry)
           /\ frames \in Seq(Frame)

\* What mesh keeps is left out: no theorem here reads it.
TypeOK ==
  /\ listed \in Nat /\ seen \in Nat
  /\ rules \in [Dests -> SUBSET Counties] /\ enabled \subseteq Dests
  /\ alias \in Ids \cup {"unknown", "no VTEC"}
  /\ rows \in Table
  /\ LanesOK
  /\ air \in Card \cup DetailEntry \cup Frame \cup {None}
  /\ conditional \subseteq Chains /\ result \in [Chains -> Results]
  /\ log \in [Dests -> Seq(LogEntry)]

\* A detail waits only where a card was accepted.
HasRow == \A e \in ToSet(details) \cup OnAir("detail") : rows[ChainOf(e)] # None

Typed == TypeOK /\ HasRow

\* A detail is heard for no counties.
LEMMA NoScope == {} \in Scopes
  BY DEF Scopes

LEMMA CardFields ==
  ASSUME NEW e \in Card
  PROVE  /\ e.kind = "card" /\ e.alert \in Alerts /\ e.dest \in Dests
         /\ e.root \in Ids /\ e.disp \in Disps /\ e.cond \in BOOLEAN
         /\ e.areas \in SUBSET Counties /\ e.areas \in Scopes
         /\ ChainOf(e) \in Chains /\ ChainOf(e)[2] = e.dest
         /\ ChainOf(e)[1] = e.root /\ e # None
<1>1. /\ e.kind = "card" /\ e.alert \in Alerts /\ e.dest \in Dests
      /\ e.root \in Ids /\ e.disp \in Disps /\ e.areas \in SUBSET Counties
  BY DEF Card
<1>2. e.cond \in BOOLEAN
  BY DEF Card
<1>3. e # None
  BY DeliveryAssumption
<1>4. QED
  BY <1>1, <1>2, <1>3 DEF ChainOf, Chains, Scopes

LEMMA DetailFields ==
  ASSUME NEW e \in DetailEntry
  PROVE  /\ e.kind = "detail" /\ e.alert \in Alerts /\ ChainOf(e) \in Chains
         /\ e.dest \in Dests /\ e # None
  BY DeliveryAssumption DEF DetailEntry, ChainOf, Chains

LEMMA FrameFields ==
  ASSUME NEW e \in Frame
  PROVE  e.kind = "frame" /\ e # None
  BY DeliveryAssumption DEF Frame

LEMMA NoElements == ToSet(<<>>) = {} /\ DOMAIN <<>> = {}
<1>1. <<>> \in Seq({}) /\ Len(<<>>) = 0
  BY EmptySeq
<1>2. \A s \in Seq({}) : Len(s) = 0 => DOMAIN s = {}
  OBVIOUS
<1>3. DOMAIN <<>> = {}
  BY <1>1, <1>2
<1>4. QED
  BY <1>3 DEF ToSet

LEMMA SeqElements ==
  ASSUME NEW S, NEW s \in Seq(S)
  PROVE  /\ ToSet(s) \subseteq S
         /\ s # <<>> => /\ Head(s) \in ToSet(s) /\ Tail(s) \in Seq(S)
                        /\ ToSet(s) = ToSet(Tail(s)) \cup {Head(s)}
<1>1. ToSet(s) \subseteq S
  BY DEF ToSet
<1>2. ASSUME s # <<>>
      PROVE  /\ Head(s) \in ToSet(s) /\ Tail(s) \in Seq(S)
             /\ ToSet(s) = ToSet(Tail(s)) \cup {Head(s)}
  <2>1. /\ DOMAIN s = 1..Len(s) /\ Len(s) \in Nat \ {0} /\ Head(s) = s[1]
        /\ Tail(s) \in Seq(S) /\ Len(Tail(s)) = Len(s) - 1
        /\ DOMAIN Tail(s) = 1..(Len(s) - 1)
        /\ \A i \in 1..(Len(s) - 1) : Tail(s)[i] = s[i + 1]
    BY <1>2
  <2>2. /\ Head(s) \in ToSet(s)
        /\ \A i \in 1..(Len(s) - 1) : Tail(s)[i] \in ToSet(s)
    BY <2>1 DEF ToSet
  <2>3. ASSUME NEW x \in ToSet(s), x # Head(s) PROVE x \in ToSet(Tail(s))
    <3>1. PICK i \in 1..Len(s) : s[i] = x
      BY <2>1 DEF ToSet
    <3>2. i - 1 \in 1..(Len(s) - 1) /\ Tail(s)[i - 1] = x
      BY <2>1, <2>3, <3>1
    <3>3. i - 1 \in DOMAIN Tail(s)
      BY <2>1, <3>2
    <3>4. QED
      BY <3>2, <3>3 DEF ToSet
  <2>4. \A x \in ToSet(Tail(s)) : x \in ToSet(s)
    BY <2>1, <2>2 DEF ToSet
  <2>5. QED
    BY <2>1, <2>2, <2>3, <2>4
<1>3. QED
  BY <1>1, <1>2

LEMMA JoinElements ==
  ASSUME NEW S, NEW s \in Seq(S), NEW t \in Seq(S)
  PROVE  s \o t \in Seq(S) /\ ToSet(s \o t) = ToSet(s) \cup ToSet(t)
<1>1. /\ s \o t \in Seq(S) /\ Len(s \o t) = Len(s) + Len(t)
      /\ Len(s) \in Nat /\ Len(t) \in Nat
      /\ DOMAIN s = 1..Len(s) /\ DOMAIN t = 1..Len(t)
      /\ DOMAIN (s \o t) = 1..(Len(s) + Len(t))
      /\ \A i \in 1..Len(s) : (s \o t)[i] = s[i]
      /\ \A i \in 1..Len(t) : (s \o t)[Len(s) + i] = t[i]
  OBVIOUS
<1>2. ToSet(s) \subseteq ToSet(s \o t)
  BY <1>1 DEF ToSet
<1>3. ToSet(t) \subseteq ToSet(s \o t)
  <2>1. \A i \in 1..Len(t) : Len(s) + i \in 1..(Len(s) + Len(t))
    BY <1>1
  <2>2. QED
    BY <1>1, <2>1 DEF ToSet
<1>4. ToSet(s \o t) \subseteq ToSet(s) \cup ToSet(t)
  <2>1. ASSUME NEW i \in 1..(Len(s) + Len(t))
        PROVE  (s \o t)[i] \in ToSet(s) \cup ToSet(t)
    <3>1. CASE i <= Len(s)
      BY <1>1, <3>1 DEF ToSet
    <3>2. CASE i > Len(s)
      <4>1. i - Len(s) \in 1..Len(t) /\ Len(s) + (i - Len(s)) = i
        BY <1>1, <3>2
      <4>2. QED
        BY <1>1, <4>1 DEF ToSet
    <3>3. QED
      BY <1>1, <3>1, <3>2
  <2>2. QED
    BY <1>1, <2>1 DEF ToSet
<1>5. QED
  BY <1>1, <1>2, <1>3, <1>4

LEMMA PendingFields ==
  ASSUME TypeOK
  PROVE  /\ Pending \subseteq Card
         /\ \A e \in OnAir("card") : e = air /\ e \in Card
         /\ \A e \in OnAir("detail") : e = air /\ e \in DetailEntry
         /\ Cards \subseteq Card
<1>1. air \in Card \cup DetailEntry \cup Frame \cup {None}
  BY DEF TypeOK
<1>2. \A e \in OnAir("card") : e = air /\ e \in Card
  BY <1>1, DetailFields, FrameFields DEF OnAir
<1>3. \A e \in OnAir("detail") : e = air /\ e \in DetailEntry
  BY <1>1, CardFields, FrameFields DEF OnAir
<1>4. Cards \subseteq Card
  BY SeqElements DEF TypeOK, LanesOK, Cards
<1>5. QED
  BY <1>2, <1>3, <1>4 DEF Pending, Cards
----------------------------------------------------------------------------
(* The rows.                                                               *)

\* What a detail does to a row: nothing the card wrote there changes.
Alike(r, s) ==
  /\ r = None <=> s = None
  /\ r # None => /\ s.last = r.last /\ s.disp = r.disp
                 /\ s.text = r.text /\ s.areas = r.areas

LEMMA RowFields ==
  ASSUME NEW r \in Row
  PROVE  /\ r.last \in Ids /\ r.disp \in Disps /\ r # None
         /\ r.text \in {Text[a] : a \in Alerts} /\ r.areas \in SUBSET Counties
  BY DeliveryAssumption DEF Row

LEMMA DetailColumns ==
  ASSUME NEW r \in Row, NEW i \in Ids \cup {None},
         NEW x \in {Detail[a] : a \in Alerts} \cup {None},
         NEW st \in {"none", "queued", "accepted", "failed", "superseded"}
  PROVE  /\ [r EXCEPT !.dId = i, !.dText = x, !.dState = st] \in Row
         /\ Alike(r, [r EXCEPT !.dId = i, !.dText = x, !.dState = st])
         /\ [r EXCEPT !.dState = st] \in Row
         /\ Alike(r, [r EXCEPT !.dState = st])
<1>1. /\ [r EXCEPT !.dId = i, !.dText = x, !.dState = st] \in Row
      /\ [r EXCEPT !.dState = st] \in Row
  BY DEF Row
<1>2. QED
  BY <1>1, RowFields DEF Alike, Row

LEMMA IdType ==
  ASSUME TypeOK, NEW a \in Alerts
  PROVE  IdOf(a) \in Ids
  BY DeliveryAssumption DEF IdOf, TypeOK

LEMMA WithDetailsFacts ==
  ASSUME TypeOK, NEW R \in Table, NEW a \in Alerts, NEW S \in SUBSET Chains,
         \A c \in S : R[c] # None
  PROVE  /\ WithDetails(R, a, S) \in Table
         /\ \A c \in Chains : Alike(R[c], WithDetails(R, a, S)[c])
<1>1. ASSUME NEW c \in Chains
      PROVE  /\ WithDetails(R, a, S)[c] \in Row \cup {None}
             /\ Alike(R[c], WithDetails(R, a, S)[c])
  <2>1. CASE c \in S
    <3>1. R[c] \in Row /\ IdOf(a) \in Ids
      BY <2>1, IdType DEF Table
    <3>2. Detail[a] \in {Detail[b] : b \in Alerts} \cup {None}
      OBVIOUS
    <3>3. QED
      BY <2>1, <3>1, <3>2, DetailColumns DEF WithDetails
  <2>2. CASE c \notin S
    BY <2>2 DEF WithDetails, Alike, Table
  <2>3. QED
    BY <2>1, <2>2
<1>2. QED
  BY <1>1 DEF WithDetails, Table

LEMMA SupersededFacts ==
  ASSUME TypeOK, NEW a \in Alerts
  PROVE  /\ RowsSuperseded(a) \in Table
         /\ \A c \in Chains : Alike(rows[c], RowsSuperseded(a)[c])
<1>1. LateDetails(a) \subseteq Prior(a) /\ Prior(a) \subseteq Chains
  BY DEF LateDetails, Prior
<1>2. ASSUME NEW c \in Chains
      PROVE  /\ RowsSuperseded(a)[c] \in Row \cup {None}
             /\ Alike(rows[c], RowsSuperseded(a)[c])
  <2>1. CASE c \in LateDetails(a)
    <3>1. rows[c] \in Row
      BY <1>1, <2>1 DEF Prior, TypeOK, Table
    <3>2. QED
      BY <2>1, <3>1, DetailColumns DEF RowsSuperseded
  <2>2. CASE c \notin LateDetails(a)
    BY <2>2 DEF RowsSuperseded, Alike, TypeOK, Table
  <2>3. QED
    BY <2>1, <2>2
<1>3. QED
  BY <1>2 DEF RowsSuperseded, Table

LEMMA RecordedFacts ==
  ASSUME TypeOK, NEW e \in Card
  PROVE  /\ Recorded(e) \in Table
         /\ \A c \in Chains : c # ChainOf(e) => Recorded(e)[c] = rows[c]
         /\ Recorded(e)[ChainOf(e)] # None
         /\ Recorded(e)[ChainOf(e)].last = IdOf(e.alert)
         /\ Recorded(e)[ChainOf(e)].disp = e.disp
         /\ Recorded(e)[ChainOf(e)].text = Text[e.alert]
         /\ Recorded(e)[ChainOf(e)].areas = e.areas
<1> DEFINE old == rows[ChainOf(e)]
           i == IF old = None THEN None ELSE old.dId
           x == IF old = None THEN None ELSE old.dText
           st == IF old = None THEN "none" ELSE old.dState
           new == [last |-> IdOf(e.alert), disp |-> e.disp,
                   text |-> Text[e.alert], areas |-> e.areas,
                   dId |-> i, dText |-> x, dState |-> st]
<1>1. /\ ChainOf(e) \in Chains /\ e.alert \in Alerts /\ e.disp \in Disps
      /\ IdOf(e.alert) \in Ids /\ e.areas \in SUBSET Counties
  BY CardFields, IdType
<1>2. old \in Row \cup {None}
  BY <1>1 DEF TypeOK, Table
<1>3. /\ i \in Ids \cup {None}
      /\ x \in {Detail[a] : a \in Alerts} \cup {None}
      /\ st \in {"none", "queued", "accepted", "failed", "superseded"}
  BY <1>2 DEF Row
<1> HIDE DEF i, x, st
<1>4. new \in Row
  BY <1>1, <1>3 DEF Row
<1>5. /\ new.last = IdOf(e.alert) /\ new.disp = e.disp
      /\ new.text = Text[e.alert] /\ new.areas = e.areas /\ new # None
  BY <1>4, RowFields
<1>6. Recorded(e) = [rows EXCEPT ![ChainOf(e)] = new]
  BY DEF Recorded, i, x, st
<1> HIDE DEF new
<1>7. QED
  BY <1>1, <1>4, <1>5, <1>6 DEF TypeOK, Table
----------------------------------------------------------------------------
(* Targets and their cards.                                                *)

\* The root of d's chain comes from its rows, else from its pending cards.
LEMMA RootFacts ==
  ASSUME TypeOK, NEW a \in Alerts, NEW d, NEW P \in SUBSET Pending
  PROVE  /\ RootFor(a, d, P) \in Ids
         /\ (\E c \in Prior(a) : c[2] = d) =>
              \E c \in Prior(a) : c[2] = d /\ c[1] = RootFor(a, d, P)
         /\ (~(\E c \in Prior(a) : c[2] = d) /\ \E e \in P : e.dest = d) =>
              \E e \in P : e.dest = d /\ e.root = RootFor(a, d, P)
<1> DEFINE mine  == {c[1] : c \in {x \in Prior(a) : x[2] = d}}
           going == {e.root : e \in {x \in P : x.dest = d}}
           any   == {c[1] : c \in Prior(a)} \cup {e.root : e \in P}
           root  == RootFor(a, d, P)
<1>1. \A c \in Prior(a) : c[1] \in Ids
  BY DEF Prior, Chains
<1>2. \A e \in P : e.root \in Ids
  BY PendingFields, CardFields
<1>3. IdOf(a) \in Ids
  BY IdType
<1>4. /\ mine # {} => root \in mine
      /\ mine = {} /\ going # {} => root \in going
      /\ mine \cup going = {} /\ any # {} => root \in any
      /\ mine \cup going = {} /\ any = {} => root = IdOf(a)
  <2> DEFINE m == mine
             g == going
             y == any
  <2>1. root = CASE m # {} -> CHOOSE r \in m : TRUE
                 [] m = {} /\ g # {} -> CHOOSE r \in g : TRUE
                 [] m \cup g = {} /\ y # {} -> CHOOSE r \in y : TRUE
                 [] OTHER -> IdOf(a)
    BY DEF RootFor
  <2> HIDE DEF m, g, y, root
  <2>2. /\ m # {} => root \in m
        /\ m = {} /\ g # {} => root \in g
        /\ m \cup g = {} /\ y # {} => root \in y
        /\ m \cup g = {} /\ y = {} => root = IdOf(a)
    BY <2>1
  <2>3. QED
    BY <2>2 DEF m, g, y
<1> HIDE DEF root
<1>5. root \in Ids
  BY <1>1, <1>2, <1>3, <1>4
<1>6. QED
  BY <1>4, <1>5 DEF root

LEMMA TargetFields ==
  ASSUME NEW d, NEW root, NEW disp, NEW areas
  PROVE  /\ Target(d, root, disp, areas).dest = d
         /\ Target(d, root, disp, areas).root = root
         /\ Target(d, root, disp, areas).disp = disp
         /\ Target(d, root, disp, areas).areas = areas
  BY DEF Target

\* How the product a reaches d: its cancellation, its first card, an update,
\* the all-clear.
Cancels(a, d, t) ==
  /\ Type[a] = "Cancel" /\ d \in Recipients(a) \cup Going(a)
  /\ \A r \in RowsOf(a, d) : ~(r.last = IdOf(a) /\ r.disp = "cancelled")
  /\ t = Target(d, RootFor(a, d, Active(a)), "cancelled", Snapshot(a, d))
First(a, d, t) ==
  /\ Type[a] # "Cancel" /\ d \in Matches(a) /\ RowsOf(a, d) = {}
  /\ t = Target(d, RootFor(a, d, RelatedPending(a)),
                IF IsChange(a) THEN "update" ELSE "sent", Areas(a, d))
Renews(a, d, t) ==
  /\ Type[a] # "Cancel" /\ d \in Matches(a) /\ RowsOf(a, d) # {}
  /\ \A r \in RowsOf(a, d) : ~(/\ r.disp \in {"sent", "update"}
                               /\ r.text = Text[a] /\ r.areas = Areas(a, d))
  /\ t = Target(d, RootFor(a, d, {}), "update", Areas(a, d))
Clears(a, d, t) ==
  /\ Type[a] # "Cancel" /\ d \notin Matches(a) /\ d \in Recipients(a) \cup Going(a)
  /\ \A r \in RowsOf(a, d) : r.disp \notin {"cleared", "cancelled"}
  /\ t = Target(d, RootFor(a, d, Active(a)), "cleared", Snapshot(a, d))

Aims(a, d, t) == Cancels(a, d, t) \/ First(a, d, t) \/ Renews(a, d, t) \/ Clears(a, d, t)

LEMMA TargetShape ==
  ASSUME NEW a \in Alerts, NEW t \in Targets(a)
  PROVE  \E d \in enabled : Aims(a, d, t)
<1>1. CASE Type[a] = "Cancel"
  <2>1. t \in CancelTargets(a)
    BY <1>1 DEF Targets
  <2>2. PICK d \in (Recipients(a) \cup Going(a)) \cap enabled :
           /\ \A r \in RowsOf(a, d) : ~(r.last = IdOf(a) /\ r.disp = "cancelled")
           /\ t = Target(d, RootFor(a, d, Active(a)), "cancelled", Snapshot(a, d))
    BY <2>1 DEF CancelTargets
  <2>3. Cancels(a, d, t)
    BY <1>1, <2>2 DEF Cancels
  <2>4. QED
    BY <2>2, <2>3 DEF Aims
<1>2. CASE Type[a] # "Cancel" /\ t \in ClearTargets(a)
  <2>1. PICK d \in (Recipients(a) \cup Going(a)) \cap (enabled \ Matches(a)) :
           /\ \A r \in RowsOf(a, d) : r.disp \notin {"cleared", "cancelled"}
           /\ t = Target(d, RootFor(a, d, Active(a)), "cleared", Snapshot(a, d))
    BY <1>2 DEF ClearTargets
  <2>2. Clears(a, d, t)
    BY <1>2, <2>1 DEF Clears
  <2>3. QED
    BY <2>1, <2>2 DEF Aims
<1>3. CASE Type[a] # "Cancel" /\ t \in NewsTargets(a)
  <2>1. PICK d \in Matches(a) :
           \/ /\ RowsOf(a, d) = {}
              /\ t = Target(d, RootFor(a, d, RelatedPending(a)),
                            IF IsChange(a) THEN "update" ELSE "sent", Areas(a, d))
           \/ /\ RowsOf(a, d) # {}
              /\ \A r \in RowsOf(a, d) :
                   ~(/\ r.disp \in {"sent", "update"}
                     /\ r.text = Text[a] /\ r.areas = Areas(a, d))
              /\ t = Target(d, RootFor(a, d, {}), "update", Areas(a, d))
    BY <1>3 DEF NewsTargets
  <2>2. First(a, d, t) \/ Renews(a, d, t)
    BY <1>3, <2>1 DEF First, Renews
  <2>3. d \in enabled
    BY DEF Matches
  <2>4. QED
    BY <2>2, <2>3 DEF Aims
<1>4. QED
  BY <1>1, <1>2, <1>3 DEF Targets

\* The counties of a cancellation or an all-clear are those of a row or card.
LEMMA SnapshotType ==
  ASSUME TypeOK, NEW a \in Alerts, NEW d, d \in Recipients(a) \cup Going(a)
  PROVE  Snapshot(a, d) \in SUBSET Counties
<1>1. CASE RowsOf(a, d) # {}
  <2>1. \A r \in RowsOf(a, d) : r \in Row
    BY DEF RowsOf, Prior, TypeOK, Table
  <2>2. (CHOOSE r \in RowsOf(a, d) : TRUE) \in RowsOf(a, d)
    BY <1>1
  <2>3. QED
    BY <1>1, <2>1, <2>2, RowFields DEF Snapshot
<1>2. CASE RowsOf(a, d) = {}
  <2> DEFINE E == {x \in Active(a) : x.dest = d}
             waiting == Kept(cards, E)
  <2>1. d \notin Recipients(a)
    BY <1>2 DEF RowsOf, Recipients
  <2>2. PICK e \in Active(a) : e.dest = d
    BY <2>1 DEF Going
  <2>3. Active(a) \subseteq Pending /\ Pending \subseteq Card
    BY PendingFields DEF Active, RelatedPending
  <2>4. cards \in Seq(Card)
    BY DEF TypeOK, LanesOK
  <2>5. waiting \in Seq(Card) /\ ToSet(waiting) = ToSet(cards) \cap E
    BY <2>4, KeptFacts
  <2>6. Snapshot(a, d) = (IF waiting = <<>> THEN air ELSE Last(waiting)).areas
    BY <1>2 DEF Snapshot, Newest
  <2>7. e \in E
    BY <2>2
  <2> HIDE DEF E, waiting
  <2>8. CASE waiting = <<>>
    <3>1. ToSet(cards) \cap E = {}
      BY <2>5, <2>8, NoElements
    <3>2. e = air
      BY <2>2, <2>3, <2>7, <3>1, PendingFields DEF Pending
    <3>3. QED
      BY <2>2, <2>3, <2>6, <2>8, <3>2, CardFields
  <2>9. CASE waiting # <<>>
    <3>1. Last(waiting) \in Card
      BY <2>5, <2>9 DEF Last
    <3>2. QED
      BY <2>6, <2>9, <3>1, CardFields
  <2>10. QED
    BY <2>8, <2>9
<1>3. QED
  BY <1>1, <1>2

\* At most one target for a destination.
LEMMA AimsOnce ==
  ASSUME NEW a, NEW d, NEW t, NEW u, Aims(a, d, t), Aims(a, d, u)
  PROVE  t = u
  BY DEF Aims, Cancels, First, Renews, Clears

LEMMA AimFields ==
  ASSUME TypeOK, NEW a \in Alerts, NEW d, NEW t, Aims(a, d, t)
  PROVE  /\ t.dest = d /\ t.root \in Ids /\ t.disp \in Disps
         /\ t.disp \in {"sent", "update"} <=> First(a, d, t) \/ Renews(a, d, t)
         /\ t.disp = "cancelled" <=> Cancels(a, d, t)
         /\ t.disp = "cleared" <=> Clears(a, d, t)
         /\ t.areas \in SUBSET Counties
         /\ Renews(a, d, t) => t.areas = Areas(a, d)
<1>1. /\ Active(a) \in SUBSET Pending /\ RelatedPending(a) \in SUBSET Pending
      /\ {} \in SUBSET Pending
  BY DEF Active, RelatedPending
<1>2. /\ \A P \in SUBSET Pending : RootFor(a, d, P) \in Ids
      /\ d \in Recipients(a) \cup Going(a) => Snapshot(a, d) \in SUBSET Counties
      /\ Areas(a, d) \in SUBSET Counties
  BY RootFacts, SnapshotType, DeliveryAssumption DEF Areas
<1>3. CASE Cancels(a, d, t)
  BY <1>1, <1>2, <1>3, TargetFields DEF Cancels, First, Renews, Clears, Disps
<1>4. CASE First(a, d, t)
  <2>1. /\ t.disp \in {"sent", "update"} /\ t.dest = d /\ t.root \in Ids
        /\ t.areas \in SUBSET Counties
    BY <1>1, <1>2, <1>4, TargetFields DEF First
  <2>2. Type[a] # "Cancel" /\ d \in Matches(a)
    BY <1>4 DEF First
  <2>3. QED
    BY <1>4, <2>1, <2>2 DEF Cancels, First, Renews, Clears, Disps
<1>5. CASE Renews(a, d, t)
  BY <1>1, <1>2, <1>5, TargetFields DEF Cancels, First, Renews, Clears, Disps
<1>6. CASE Clears(a, d, t)
  BY <1>1, <1>2, <1>6, TargetFields DEF Cancels, First, Renews, Clears, Disps
<1>7. QED
  BY <1>3, <1>4, <1>5, <1>6 DEF Aims

LEMMA TargetTypes ==
  ASSUME TypeOK, NEW a \in Alerts, NEW t \in Targets(a)
  PROVE  /\ Aims(a, t.dest, t) /\ t.dest \in enabled /\ t.dest \in Dests
         /\ t.root \in Ids /\ t.disp \in Disps /\ t.areas \in SUBSET Counties
         /\ \A u \in Targets(a) : u.dest = t.dest => u = t
<1>1. PICK d \in enabled : Aims(a, d, t)
  BY TargetShape
<1>2. /\ t.dest = d /\ t.root \in Ids /\ t.disp \in Disps
      /\ t.areas \in SUBSET Counties
  BY <1>1, AimFields
<1>3. ASSUME NEW u \in Targets(a), u.dest = t.dest PROVE u = t
  <2>1. PICK x \in enabled : Aims(a, x, u)
    BY TargetShape
  <2>2. u.dest = x
    BY <2>1, AimFields
  <2>3. QED
    BY <1>1, <1>2, <1>3, <2>1, <2>2, AimsOnce
<1>4. QED
  BY <1>1, <1>2, <1>3 DEF TypeOK

NewCards(a) == {CardFor(a, t) : t \in Targets(a)}

LEMMA CardForFields ==
  ASSUME TypeOK, NEW a \in Alerts, NEW t \in Targets(a)
  PROVE  /\ CardFor(a, t) \in Card
         /\ CardFor(a, t).alert = a /\ CardFor(a, t).dest = t.dest
         /\ CardFor(a, t).root = t.root /\ CardFor(a, t).disp = t.disp
         /\ CardFor(a, t).areas = t.areas /\ CardFor(a, t).cond = NeedsPrior(a, t)
         /\ ChainOf(CardFor(a, t)) = ChainOf(t)
<1>1. /\ CardFor(a, t).alert = a /\ CardFor(a, t).dest = t.dest
      /\ CardFor(a, t).root = t.root /\ CardFor(a, t).disp = t.disp
      /\ CardFor(a, t).areas = t.areas /\ CardFor(a, t).cond = NeedsPrior(a, t)
  BY DEF CardFor
<1>2. NeedsPrior(a, t) \in BOOLEAN
  BY DEF NeedsPrior
<1>3. /\ t.dest \in Dests /\ t.root \in Ids /\ t.disp \in Disps
      /\ t.areas \in SUBSET Counties
  BY TargetTypes
<1>4. CardFor(a, t) \in Card
  BY <1>2, <1>3, Zenon DEF CardFor, Card
<1>5. QED
  BY <1>1, <1>4 DEF ChainOf

LEMMA NewCardFacts ==
  ASSUME TypeOK, NEW a \in Alerts
  PROVE  /\ NewCards(a) \subseteq Card /\ IsFiniteSet(NewCards(a))
         /\ \A e \in NewCards(a) : \E t \in Targets(a) : e = CardFor(a, t)
         /\ \A e, f \in NewCards(a) : e.dest = f.dest => e = f
         /\ \A e \in NewCards(a) : e.alert = a
<1>1. /\ NewCards(a) \subseteq Card
      /\ \A e \in NewCards(a) : \E t \in Targets(a) : e = CardFor(a, t)
      /\ \A e \in NewCards(a) : e.alert = a
  BY CardForFields DEF NewCards
<1>2. ASSUME NEW e \in NewCards(a), NEW f \in NewCards(a), e.dest = f.dest
      PROVE  e = f
  <2>1. PICK t \in Targets(a) : e = CardFor(a, t)
    BY <1>1
  <2>2. PICK u \in Targets(a) : f = CardFor(a, u)
    BY <1>1
  <2>3. t.dest = u.dest
    BY <1>2, <2>1, <2>2, CardForFields
  <2>4. t = u
    BY <2>3, TargetTypes
  <2>5. QED
    BY <2>1, <2>2, <2>4
<1>3. IsFiniteSet(NewCards(a))
  <2> DEFINE g == [e \in NewCards(a) |-> e.dest]
  <2>1. g \in [NewCards(a) -> Dests]
    BY <1>1, CardFields
  <2>2. \A e, f \in NewCards(a) : g[e] = g[f] => e = f
    BY <1>2
  <2> HIDE DEF g
  <2>3. g \in Injection(NewCards(a), Dests)
    BY <2>1, <2>2 DEF Injection, IsInjective
  <2>4. QED
    BY <2>3, FS_Injection, DeliveryAssumption
<1>4. QED
  BY <1>1, <1>2, <1>3
----------------------------------------------------------------------------
(* A product is processed.                                                 *)

\* No two places of the lane s hold cards for the same counties of one
\* destination.
Distinct(s) ==
  \A i, j \in DOMAIN s : s[i].dest = s[j].dest /\ s[i].areas = s[j].areas => i = j

LEMMA RemainingFacts ==
  ASSUME TypeOK, NEW a \in Alerts
  PROVE  /\ Remaining(a) \in Seq(Card)
         /\ ToSet(Remaining(a)) = {e \in Cards : ChainOf(e) \notin Pulled(a)}
         /\ Distinct(cards) => Distinct(Remaining(a))
<1> DEFINE E == {e \in ToSet(cards) : ChainOf(e) \notin Pulled(a)}
<1>1. Remaining(a) = Kept(cards, E)
  BY DEF Remaining
<1>2. cards \in Seq(Card)
  BY DEF TypeOK, LanesOK
<1>3. E \subseteq ToSet(cards) /\ E = {e \in Cards : ChainOf(e) \notin Pulled(a)}
  BY DEF Cards
<1> HIDE DEF E
<1>4. /\ Kept(cards, E) \in Seq(Card) /\ ToSet(Kept(cards, E)) = ToSet(cards) \cap E
  BY ONLY <1>2, KeptFacts
<1>5. ASSUME Distinct(cards) PROVE Distinct(Kept(cards, E))
  <2>1. \A j, k \in DOMAIN Kept(cards, E) : \E i, l \in DOMAIN cards :
          /\ Kept(cards, E)[j] = cards[i] /\ Kept(cards, E)[k] = cards[l]
          /\ i = l => j = k
    BY ONLY <1>2, KeptFacts
  <2>2. QED
    BY <1>5, <2>1 DEF Distinct
<1>6. QED
  BY <1>1, <1>3, <1>4, <1>5

LEMMA FiniteChains ==
  ASSUME NEW S \in SUBSET Chains
  PROVE  IsFiniteSet(S)
BY FS_Product, FS_Subset, DeliveryAssumption DEF Chains

\* A detail for each chain of S.
LEMMA DetailEntriesFacts ==
  ASSUME NEW a \in Alerts, NEW S \in SUBSET Chains
  PROVE  /\ DetailEntries(a, S) \in Seq(DetailEntry)
         /\ \A e \in ToSet(DetailEntries(a, S)) : ChainOf(e) \in S
<1> DEFINE entry(c) == [kind |-> "detail", alert |-> a, root |-> c[1], dest |-> c[2]]
           T == {entry(c) : c \in S}
           g == [c \in S |-> entry(c)]
<1>1. \A c \in S : entry(c) \in DetailEntry /\ ChainOf(entry(c)) = c
  BY DEF DetailEntry, Chains, ChainOf
<1>2. DetailEntries(a, S) = SetToSeq(T)
  BY DEF DetailEntries
<1> HIDE DEF entry
<1>3. g \in Surjection(S, T)
  BY DEF Surjection
<1>4. IsFiniteSet(S)
  BY FiniteChains
<1>5. T \subseteq DetailEntry /\ \A e \in T : ChainOf(e) \in S
  BY <1>1
<1> HIDE DEF g, T
<1>6. IsFiniteSet(T)
  BY <1>3, <1>4, FS_Surjection
<1>7. SetToSeq(T) \in Seq(T) /\ ToSet(SetToSeq(T)) = T
  BY <1>6, SetToSeqFacts
<1>8. QED
  BY <1>2, <1>5, <1>7

LEMMA DeliverFacts ==
  ASSUME TypeOK, NEW a \in Alerts, Deliver(a)
  PROVE  /\ cards' = Remaining(a) \o SetToSeq(NewCards(a))
         /\ cards' \in Seq(Card)
         /\ ToSet(cards') = ToSet(Remaining(a)) \cup NewCards(a)
<1>1. cards' = Remaining(a) \o SetToSeq(NewCards(a))
  BY DEF Deliver, NewCards
<1>2. /\ NewCards(a) \subseteq Card /\ IsFiniteSet(NewCards(a))
      /\ Remaining(a) \in Seq(Card)
  BY NewCardFacts, RemainingFacts
<1>3. /\ SetToSeq(NewCards(a)) \in Seq(NewCards(a))
      /\ ToSet(SetToSeq(NewCards(a))) = NewCards(a)
  BY <1>2, SetToSeqFacts
<1>4. SetToSeq(NewCards(a)) \in Seq(Card)
  BY <1>2, <1>3
<1>5. QED
  BY <1>1, <1>2, <1>3, <1>4, JoinElements

\* What a product does to the rows, and to the lanes it does not deliver by.
LEMMA ProcessRows ==
  ASSUME Typed, NEW a \in Alerts, Process(a)
  PROVE  /\ rows' \in Table /\ \A c \in Chains : Alike(rows[c], rows'[c])
         /\ details' \in Seq(DetailEntry) /\ frames' \in Seq(Frame)
         /\ \A e \in ToSet(details') : rows'[ChainOf(e)] # None
         /\ air' = air /\ log' = log /\ seen' = Nth[a]
         /\ alias' = IF alias = "unknown" THEN Own[a] ELSE alias
<1> USE DEF Typed
<1>1. /\ air' = air /\ log' = log /\ seen' = Nth[a]
      /\ alias' = IF alias = "unknown" THEN Own[a] ELSE alias
  BY DEF Process
<1>2. frames' \in Seq(Frame)
  <2>1. \A E : Kept(frames, E) \in Seq(Frame)
    BY KeptFacts DEF TypeOK, LanesOK
  <2>2. Append(frames, [kind |-> "frame", alert |-> a]) \in Seq(Frame)
    <3>1. [kind |-> "frame", alert |-> a] \in Frame
      BY DEF Frame
    <3>2. frames \in Seq(Frame)
      BY DEF TypeOK, LanesOK
    <3>3. QED
      BY ONLY <3>1, <3>2
  <2>3. \/ frames' = frames
        \/ \E E : frames' = Kept(frames, E)
        \/ frames' = Append(frames, [kind |-> "frame", alert |-> a])
    <3>1. CASE IsChange(a)
      BY <3>1 DEF Process, SettleFrames
    <3>2. CASE ~IsChange(a)
      BY <3>2 DEF Process, SettleFrames, OfferFrame, QueueFrame
    <3>3. QED
      BY <3>1, <3>2
  <2>4. QED
    BY <2>1, <2>2, <2>3 DEF TypeOK, LanesOK
<1>3. CASE Ignored(a)
  <2>1. rows' = rows /\ details' = details
    BY <1>3 DEF Process
  <2>2. \A e \in ToSet(details) : rows[ChainOf(e)] # None
    BY DEF HasRow
  <2>3. QED
    BY <1>1, <1>2, <2>1, <2>2 DEF TypeOK, LanesOK, Alike
<1>4. CASE ~Ignored(a)
  <2> DEFINE R == RowsSuperseded(a)
             S == RetryDetails(a)
             old == DetailsKept(a)
             new == DetailEntries(a, S)
  <2>1. rows' = WithDetails(R, a, S) /\ details' = old \o new
    BY <1>4 DEF Process
  <2>2. R \in Table /\ \A c \in Chains : Alike(rows[c], R[c])
    BY SupersededFacts
  <2>3. S \in SUBSET Chains /\ \A c \in S : rows[c] # None
    BY DEF RetryDetails, Prior
  <2>4. \A c \in S : R[c] # None
    BY <2>2, <2>3 DEF Alike
  <2>5. /\ old \in Seq(DetailEntry) /\ ToSet(old) \subseteq ToSet(details)
    <3>1. details \in Seq(DetailEntry)
      BY DEF TypeOK, LanesOK
    <3>2. ASSUME NEW E PROVE /\ Kept(details, E) \in Seq(DetailEntry)
                             /\ ToSet(Kept(details, E)) = ToSet(details) \cap E
      BY ONLY <3>1, KeptFacts
    <3>3. QED
      BY <3>2 DEF DetailsKept
  <2>6. new \in Seq(DetailEntry) /\ \A e \in ToSet(new) : ChainOf(e) \in S
    BY <2>3, DetailEntriesFacts
  <2> HIDE DEF R, S, old, new
  <2>7. rows' \in Table /\ \A c \in Chains : Alike(R[c], rows'[c])
    BY <2>1, <2>2, <2>3, <2>4, WithDetailsFacts
  <2>8. \A c \in Chains : Alike(rows[c], rows'[c])
    BY <2>2, <2>7 DEF Alike
  <2>9. details' \in Seq(DetailEntry) /\ ToSet(details') = ToSet(old) \cup ToSet(new)
    BY <2>1, <2>5, <2>6, JoinElements
  <2>10. ASSUME NEW e \in ToSet(details') PROVE rows'[ChainOf(e)] # None
    <3>1. e \in DetailEntry /\ ChainOf(e) \in Chains
      BY <2>9, <2>10, SeqElements, DetailFields
    <3>2. rows[ChainOf(e)] # None
      BY <2>3, <2>5, <2>6, <2>9, <2>10 DEF HasRow
    <3>3. QED
      BY <2>8, <3>1, <3>2 DEF Alike
  <2>11. QED
    BY <1>1, <1>2, <2>7, <2>8, <2>9, <2>10
<1>5. QED
  BY <1>3, <1>4

LEMMA ProcessTyped ==
  ASSUME Typed, NEW a \in Alerts, Process(a),
         listed' \in Nat, rules' \in [Dests -> SUBSET Counties],
         enabled' \subseteq Dests
  PROVE  Typed'
<1> USE DEF Typed
<1>1. /\ rows' \in Table /\ \A c \in Chains : Alike(rows[c], rows'[c])
      /\ details' \in Seq(DetailEntry) /\ frames' \in Seq(Frame)
      /\ \A e \in ToSet(details') : rows'[ChainOf(e)] # None
      /\ air' = air /\ log' = log /\ seen' = Nth[a]
      /\ alias' = IF alias = "unknown" THEN Own[a] ELSE alias
  BY ProcessRows
<1>2. HasRow'
  <2>1. \A e \in OnAir("detail") : ChainOf(e) \in Chains
    BY PendingFields, DetailFields
  <2>2. \A e \in OnAir("detail") : rows'[ChainOf(e)] # None
    BY <1>1, <2>1 DEF HasRow, Alike
  <2>3. OnAir("detail")' = OnAir("detail")
    BY <1>1 DEF OnAir
  <2>4. QED
    BY <1>1, <2>2, <2>3 DEF HasRow, ChainOf
<1>3. seen' \in Nat /\ alias' \in Ids \cup {"unknown", "no VTEC"}
  BY <1>1, DeliveryAssumption DEF TypeOK
<1>4. /\ cards' \in Seq(Card) /\ conditional' \subseteq Chains
      /\ result' \in [Chains -> Results]
  <2>1. CASE Ignored(a)
    BY <2>1 DEF Process, TypeOK, LanesOK
  <2>2. CASE ~Ignored(a)
    <3>1. Deliver(a)
      BY <2>2 DEF Process
    <3>2. cards' \in Seq(Card)
      BY <3>1, DeliverFacts
    <3>3. conditional' \subseteq Chains
      <4>1. \A e \in NewCards(a) : ChainOf(e) \in Chains
        BY NewCardFacts, CardFields
      <4>2. conditional' \subseteq conditional \cup {ChainOf(e) : e \in NewCards(a)}
        BY <3>1 DEF Deliver, NewCards
      <4>3. conditional \subseteq Chains
        BY DEF TypeOK
      <4>4. QED
        BY ONLY <4>1, <4>2, <4>3
    <3>4. result' \in [Chains -> Results]
      BY <3>1 DEF Deliver, TypeOK, Results
    <3>5. QED
      BY <3>2, <3>3, <3>4
  <2>3. QED
    BY <2>1, <2>2
<1>5. TypeOK'
  BY <1>1, <1>3, <1>4 DEF TypeOK, LanesOK
<1>6. QED
  BY <1>2, <1>5
----------------------------------------------------------------------------
(* The worker and the world.                                               *)

\* A destination's log grows by one entry, the others stay.
LEMMA HearsFacts ==
  ASSUME TypeOK, NEW e, e.dest \in Dests, e.alert \in Alerts,
         NEW what \in Disps \cup {"detail"}, NEW areas \in Scopes,
         NEW known \in BOOLEAN, Hears(e, what, areas, known)
  PROVE  /\ log' \in [Dests -> Seq(LogEntry)]
         /\ \A d \in Dests : d # e.dest => log'[d] = log[d]
         /\ Len(log[e.dest]) \in Nat
         /\ DOMAIN log[e.dest] = 1..Len(log[e.dest])
         /\ DOMAIN log'[e.dest] = 1..(Len(log[e.dest]) + 1)
         /\ \A i \in DOMAIN log[e.dest] : log'[e.dest][i] = log[e.dest][i]
         /\ log'[e.dest][Len(log[e.dest]) + 1] =
              [what |-> what, alert |-> e.alert, areas |-> areas, known |-> known]
<1> DEFINE new == [what |-> what, alert |-> e.alert, areas |-> areas, known |-> known]
           old == log[e.dest]
<1>1. new \in LogEntry
  BY Zenon DEF LogEntry, Scopes
<1>2. log' = [log EXCEPT ![e.dest] = Append(old, new)]
  BY DEF Hears
<1>3. log \in [Dests -> Seq(LogEntry)] /\ old \in Seq(LogEntry)
  BY DEF TypeOK
<1> HIDE DEF new, old
<1>4. /\ Append(old, new) \in Seq(LogEntry) /\ Len(old) \in Nat
      /\ DOMAIN old = 1..Len(old)
      /\ DOMAIN Append(old, new) = 1..(Len(old) + 1)
      /\ \A i \in DOMAIN old : Append(old, new)[i] = old[i]
      /\ Append(old, new)[Len(old) + 1] = new
  BY <1>1, <1>3
<1>5. /\ log'[e.dest] = Append(old, new)
      /\ log' \in [Dests -> Seq(LogEntry)]
      /\ \A d \in Dests : d # e.dest => log'[d] = log[d]
  BY <1>2, <1>3, <1>4
<1>6. QED
  BY <1>4, <1>5 DEF old, new

\* What a card's result does to the chains.
LEMMA RetireTypes ==
  ASSUME TypeOK, NEW e \in Card, NEW sent \in Results,
         Retire(e, ConditionalAfter(e), sent)
  PROVE  /\ conditional' \subseteq Chains /\ result' \in [Chains -> Results]
         /\ conditional' = IF e.cond THEN conditional \ {ChainOf(e)} ELSE conditional
         /\ \A c \in Chains : c # ChainOf(e) => result'[c] = result[c]
         /\ result'[ChainOf(e)] = IF ChainOf(e) \in conditional' THEN sent ELSE "none"
<1>1. ChainOf(e) \in Chains
  BY CardFields
<1>2. conditional' = IF e.cond THEN conditional \ {ChainOf(e)} ELSE conditional
  BY DEF Retire, ConditionalAfter
<1>3. result' = [result EXCEPT ![ChainOf(e)] = IF ChainOf(e) \in conditional'
                                               THEN sent ELSE "none"]
  BY DEF Retire
<1>4. "none" \in Results
  BY DEF Results
<1>5. QED
  BY <1>1, <1>2, <1>3, <1>4 DEF TypeOK

\* The worker takes a card, or skips one that waited in vain.
LEMMA TakeCardFacts ==
  ASSUME TypeOK, TakeCard
  PROVE  \E e \in Card :
           /\ air = None /\ cards # <<>> /\ e = Head(cards) /\ e \in Cards
           /\ cards' = Tail(cards) /\ cards' \in Seq(Card)
           /\ Cards = ToSet(cards') \cup {e}
           /\ \/ /\ e.cond /\ result[ChainOf(e)] # "sent" /\ air' = None
                 /\ Retire(e, ConditionalAfter(e), result[ChainOf(e)])
              \/ /\ ~(e.cond /\ result[ChainOf(e)] # "sent") /\ air' = e
                 /\ UNCHANGED <<conditional, result>>
<1> DEFINE e == Head(cards)
<1>1. air = None /\ cards # <<>> /\ cards' = Tail(cards)
  BY DEF TakeCard
<1>2. /\ e \in Cards /\ Tail(cards) \in Seq(Card)
      /\ Cards = ToSet(Tail(cards)) \cup {e}
  BY <1>1, SeqElements DEF TypeOK, LanesOK, Cards
<1>3. e \in Card
  BY <1>2, PendingFields
<1>4. \/ /\ e.cond /\ result[ChainOf(e)] # "sent" /\ air' = None
         /\ Retire(e, ConditionalAfter(e), result[ChainOf(e)])
      \/ /\ ~(e.cond /\ result[ChainOf(e)] # "sent") /\ air' = e
         /\ UNCHANGED <<conditional, result>>
  BY <1>1 DEF TakeCard
<1> HIDE DEF e
<1>5. QED
  BY <1>1, <1>2, <1>3, <1>4 DEF e

LEMMA TakeCardTyped ==
  ASSUME Typed, TakeCard
  PROVE  Typed'
<1> USE DEF Typed
<1>1. PICK e \in Card :
           /\ air = None
           /\ cards' \in Seq(Card)
           /\ \/ /\ air' = None
                 /\ Retire(e, ConditionalAfter(e), result[ChainOf(e)])
              \/ air' = e /\ UNCHANGED <<conditional, result>>
  BY TakeCardFacts
<1>2. UNCHANGED <<listed, wired, rules, enabled, alias, rows, mesh, details, frames,
                  seen, log>>
  BY DEF TakeCard, world, store
<1>3. conditional' \subseteq Chains /\ result' \in [Chains -> Results]
  <2>1. result[ChainOf(e)] \in Results
    BY CardFields DEF TypeOK
  <2>2. QED
    BY <1>1, <2>1, RetireTypes DEF TypeOK
<1>4. TypeOK'
  BY <1>1, <1>2, <1>3 DEF TypeOK, LanesOK
<1>5. OnAir("detail")' = {}
  BY <1>1, CardFields DEF OnAir
<1>6. QED
  BY <1>2, <1>4, <1>5 DEF HasRow, ChainOf

LEMMA TakeRestFacts ==
  ASSUME Typed, TakeRest
  PROVE  /\ Typed' /\ air = None /\ OnAir("card")' = {}
         /\ UNCHANGED <<world, alias, rows, cards, conditional, result, seen, log>>
<1> USE DEF Typed
<1>1. /\ air = None
      /\ UNCHANGED <<world, alias, rows, cards, conditional, result, seen, log>>
  BY DEF TakeRest, store
<1>2. /\ details \in Seq(DetailEntry) /\ frames \in Seq(Frame)
  BY DEF TypeOK, LanesOK
<1>3. CASE /\ details # <<>> /\ air' = Head(details) /\ details' = Tail(details)
           /\ frames' = frames
  <2>1. /\ Head(details) \in ToSet(details) /\ Tail(details) \in Seq(DetailEntry)
        /\ ToSet(details') \subseteq ToSet(details)
        /\ air' \in DetailEntry
    BY <1>2, <1>3, SeqElements
  <2>2. OnAir("card")' = {} /\ OnAir("detail")' \subseteq ToSet(details)
    BY <1>3, <2>1, DetailFields DEF OnAir
  <2>3. HasRow'
    BY <1>1, <2>1, <2>2 DEF HasRow, ChainOf
  <2>4. TypeOK'
    BY <1>1, <1>2, <1>3, <2>1 DEF TypeOK, LanesOK, world
  <2>5. QED
    BY <1>1, <2>2, <2>3, <2>4
<1>4. CASE /\ frames # <<>> /\ air' = Head(frames) /\ frames' = Tail(frames)
           /\ details' = details
  <2>1. Tail(frames) \in Seq(Frame) /\ air' \in Frame
    BY <1>2, <1>4, SeqElements
  <2>2. OnAir("card")' = {} /\ OnAir("detail")' = {}
    BY <2>1, FrameFields DEF OnAir
  <2>3. HasRow'
    BY <1>1, <1>4, <2>2 DEF HasRow, ChainOf
  <2>4. TypeOK'
    BY <1>1, <1>2, <1>4, <2>1 DEF TypeOK, LanesOK, world
  <2>5. QED
    BY <1>1, <2>2, <2>3, <2>4
<1>5. QED
  BY <1>3, <1>4 DEF TakeRest

\* An accepted card: its row, whatever details and frames follow.
LEMMA CardSentFacts ==
  ASSUME Typed, CardSent
  PROVE  /\ air \in Card /\ air' = None
         /\ UNCHANGED <<world, alias, cards, seen>>
         /\ rows' \in Table
         /\ \A c \in Chains : c # ChainOf(air) => rows'[c] = rows[c]
         /\ rows'[ChainOf(air)] # None
         /\ rows'[ChainOf(air)].last = IdOf(air.alert)
         /\ rows'[ChainOf(air)].disp = air.disp
         /\ rows'[ChainOf(air)].text = Text[air.alert]
         /\ rows'[ChainOf(air)].areas = air.areas
         /\ Retire(air, ConditionalAfter(air), "sent")
         /\ Hears(air, air.disp, air.areas, TRUE)
         /\ Typed'
<1> USE DEF Typed
<1> DEFINE c == ChainOf(air)
           R == Recorded(air)
           S == IF air.disp \in {"sent", "update"} /\ WantsDetail(R, air.alert, c)
                THEN {c} ELSE {}
           new == DetailEntries(air.alert, S)
<1>1. air \in Card
  BY PendingFields DEF CardSent
<1>2. /\ air' = None /\ UNCHANGED <<world, alias, cards, seen>>
      /\ Retire(air, ConditionalAfter(air), "sent")
      /\ Hears(air, air.disp, air.areas, TRUE)
      /\ rows' = WithDetails(R, air.alert, S) /\ details' = details \o new
  BY DEF CardSent
<1>3. /\ c \in Chains /\ air.alert \in Alerts /\ air.dest \in Dests
      /\ air.disp \in Disps /\ air.areas \in Scopes
  BY <1>1, CardFields
<1>4. /\ R \in Table /\ \A x \in Chains : x # c => R[x] = rows[x]
      /\ R[c] # None /\ R[c].last = IdOf(air.alert)
      /\ R[c].disp = air.disp /\ R[c].text = Text[air.alert]
      /\ R[c].areas = air.areas
  BY <1>1, RecordedFacts
<1>5. S \in SUBSET Chains /\ S \subseteq {c}
  BY <1>3
<1> HIDE DEF S, R, c
<1>6. rows' \in Table /\ \A x \in Chains : Alike(R[x], rows'[x])
  BY <1>2, <1>3, <1>4, <1>5, WithDetailsFacts
<1>7. \A x \in Chains : x # c => rows'[x] = rows[x]
  <2>1. \A x \in Chains : x # c => WithDetails(R, air.alert, S)[x] = R[x]
    BY <1>5 DEF WithDetails
  <2>2. QED
    BY <1>2, <1>4, <2>1
<1>8. /\ rows'[c] # None /\ rows'[c].last = IdOf(air.alert)
      /\ rows'[c].disp = air.disp /\ rows'[c].text = Text[air.alert]
      /\ rows'[c].areas = air.areas
  BY <1>3, <1>4, <1>6 DEF Alike
<1>9. new \in Seq(DetailEntry) /\ \A e \in ToSet(new) : ChainOf(e) \in S
  BY <1>3, <1>5, DetailEntriesFacts
<1> HIDE DEF new
<1>10. /\ details' \in Seq(DetailEntry)
       /\ ToSet(details') = ToSet(details) \cup ToSet(new)
  BY <1>2, <1>9, JoinElements DEF TypeOK, LanesOK
<1>11. HasRow'
  <2>1. OnAir("detail")' = {}
    BY <1>2 DEF OnAir
  <2>2. ASSUME NEW e \in ToSet(details') PROVE rows'[ChainOf(e)] # None
    <3>1. ChainOf(e) \in Chains
      BY <1>10, <2>2, SeqElements, DetailFields
    <3>2. ChainOf(e) = c \/ rows[ChainOf(e)] # None
      BY <1>5, <1>9, <1>10, <2>2 DEF HasRow
    <3>3. QED
      BY <1>7, <1>8, <3>1, <3>2
  <2>3. QED
    BY <2>1, <2>2 DEF HasRow, ChainOf
<1>12. frames' \in Seq(Frame)
  <2>1. [kind |-> "frame", alert |-> air.alert] \in Frame
    BY <1>3 DEF Frame
  <2>2. \/ frames' = frames
        \/ frames' = Append(frames, [kind |-> "frame", alert |-> air.alert])
    BY DEF CardSent, OfferFrame, QueueFrame
  <2>3. frames \in Seq(Frame)
    BY DEF TypeOK, LanesOK
  <2>4. QED
    BY <2>1, <2>2, <2>3
<1>13. conditional' \subseteq Chains /\ result' \in [Chains -> Results]
  <2>1. "sent" \in Results
    BY DEF Results
  <2>2. QED
    BY <1>1, <1>2, <2>1, RetireTypes
<1>14. log' \in [Dests -> Seq(LogEntry)]
  <2>1. PICK known \in BOOLEAN : Hears(air, air.disp, air.areas, known)
    BY <1>2
  <2>2. QED
    BY <1>3, <2>1, HearsFacts
<1>15. TypeOK'
  BY <1>2, <1>6, <1>10, <1>12, <1>13, <1>14 DEF TypeOK, LanesOK, world
<1>16. QED
  BY <1>1, <1>2, <1>6, <1>7, <1>8, <1>11, <1>15 DEF c

LEMMA CardFailedFacts ==
  ASSUME Typed, NEW unsure \in BOOLEAN, CardFailed(unsure)
  PROVE  /\ air \in Card /\ air' = None
         /\ UNCHANGED <<listed, wired, rules, enabled, store, lanes, seen>>
         /\ Retire(air, ConditionalAfter(air), "failed")
         /\ Hears(air, air.disp, air.areas, FALSE) \/ log' = log
         /\ Typed'
<1> USE DEF Typed
<1>1. air \in Card
  BY PendingFields DEF CardFailed
<1>2. /\ air' = None
      /\ UNCHANGED <<listed, wired, rules, enabled, store, lanes, seen>>
      /\ Retire(air, ConditionalAfter(air), "failed")
      /\ Hears(air, air.disp, air.areas, FALSE) \/ log' = log
  BY DEF CardFailed
<1>3. /\ air.alert \in Alerts /\ air.dest \in Dests /\ air.disp \in Disps
      /\ air.areas \in Scopes
  BY <1>1, CardFields
<1>4. conditional' \subseteq Chains /\ result' \in [Chains -> Results]
  <2>1. "failed" \in Results
    BY DEF Results
  <2>2. QED
    BY <1>1, <1>2, <2>1, RetireTypes
<1>5. log' \in [Dests -> Seq(LogEntry)]
  BY <1>2, <1>3, HearsFacts DEF TypeOK
<1>6. TypeOK'
  BY <1>2, <1>4, <1>5 DEF TypeOK, LanesOK, store, lanes
<1>7. HasRow'
  BY <1>2 DEF HasRow, OnAir, ChainOf, store, lanes
<1>8. QED
  BY <1>1, <1>2, <1>6, <1>7
LEMMA DetailDoneFacts ==
  ASSUME Typed, NEW sent \in BOOLEAN, DetailDone(sent)
  PROVE  /\ air \in DetailEntry /\ air' = None
         /\ UNCHANGED <<world, alias, mesh, lanes, conditional, result, seen>>
         /\ rows' \in Table /\ \A c \in Chains : Alike(rows[c], rows'[c])
         /\ Hears(air, "detail", {}, TRUE) \/ log' = log
         /\ Typed'
<1> USE DEF Typed
<1> DEFINE c == ChainOf(air)
           st == IF sent THEN "accepted" ELSE "failed"
<1>1. air \in DetailEntry /\ air \in OnAir("detail")
  BY PendingFields DEF DetailDone
<1>2. c \in Chains /\ air.alert \in Alerts /\ air.dest \in Dests
  BY <1>1, DetailFields
<1>3. rows[c] \in Row
  BY <1>1, <1>2 DEF HasRow, TypeOK, Table
<1>4. /\ air' = None
      /\ UNCHANGED <<world, alias, mesh, lanes, conditional, result, seen>>
      /\ Hears(air, "detail", {}, TRUE) \/ log' = log
      /\ rows' = rows \/ rows' = [rows EXCEPT ![c] = [rows[c] EXCEPT !.dState = st]]
  BY DEF DetailDone
<1>5. st \in {"none", "queued", "accepted", "failed", "superseded"}
  OBVIOUS
<1> HIDE DEF st, c
<1>6. /\ [rows[c] EXCEPT !.dState = st] \in Row
      /\ Alike(rows[c], [rows[c] EXCEPT !.dState = st])
  BY <1>3, <1>5, DetailColumns
<1>7. rows' \in Table /\ \A x \in Chains : Alike(rows[x], rows'[x])
  <2>1. CASE rows' = rows
    BY <2>1 DEF TypeOK, Alike
  <2>2. CASE rows' = [rows EXCEPT ![c] = [rows[c] EXCEPT !.dState = st]]
    <3>1. /\ rows' \in Table /\ rows'[c] = [rows[c] EXCEPT !.dState = st]
          /\ \A x \in Chains : x # c => rows'[x] = rows[x]
      BY <1>2, <1>6, <2>2 DEF TypeOK, Table
    <3>2. QED
      BY <1>6, <3>1 DEF Alike
  <2>3. QED
    BY <1>4, <2>1, <2>2
<1>8. log' \in [Dests -> Seq(LogEntry)]
  BY <1>2, <1>4, NoScope, HearsFacts DEF TypeOK
<1>9. TypeOK'
  BY <1>4, <1>7, <1>8 DEF TypeOK, LanesOK, lanes, world
<1>10. HasRow'
  <2>1. OnAir("detail")' = {} /\ details' = details
    BY <1>4 DEF OnAir, lanes
  <2>2. \A e \in ToSet(details) : ChainOf(e) \in Chains /\ rows[ChainOf(e)] # None
    BY SeqElements, DetailFields DEF TypeOK, LanesOK, HasRow
  <2>3. \A e \in ToSet(details) : rows'[ChainOf(e)] # None
    BY <1>7, <2>2 DEF Alike
  <2>4. QED
    BY <2>1, <2>3 DEF HasRow, ChainOf
<1>11. QED
  BY <1>1, <1>4, <1>7, <1>9, <1>10

LEMMA FrameDoneFacts ==
  ASSUME Typed, NEW sent \in BOOLEAN, FrameDone(sent)
  PROVE  /\ Typed' /\ air' = None /\ OnAir("card") = {}
         /\ UNCHANGED <<world, alias, rows, lanes, conditional, result, seen, log>>
<1> USE DEF Typed
<1>1. /\ air' = None
      /\ UNCHANGED <<world, alias, rows, lanes, conditional, result, seen, log>>
  BY DEF FrameDone
<1>2. OnAir("card") = {}
  BY DEF FrameDone, OnAir
<1>3. TypeOK'
  BY <1>1 DEF TypeOK, LanesOK, lanes, world
<1>4. HasRow'
  BY <1>1 DEF HasRow, OnAir, ChainOf, lanes
<1>5. QED
  BY <1>1, <1>2, <1>3, <1>4

LEMMA CrashFacts ==
  ASSUME Typed, Crash
  PROVE  /\ cards' = <<>> /\ air' = None /\ conditional' = {}
         /\ result' = [c \in Chains |-> "none"]
         /\ UNCHANGED <<listed, wired, rules, enabled, alias, seen>>
         /\ rows' \in Table /\ \A c \in Chains : Alike(rows[c], rows'[c])
         /\ \/ log' = log
            \/ OnAir("card") # {} /\ Hears(air, air.disp, air.areas, FALSE)
         /\ Typed'
<1> USE DEF Typed
<1>1. /\ cards' = <<>> /\ details' = <<>> /\ frames' = <<>>
      /\ air' = None /\ conditional' = {}
      /\ result' = [c \in Chains |-> "none"]
      /\ UNCHANGED <<listed, wired, rules, enabled, alias, seen>>
      /\ \/ log' = log
         \/ OnAir("card") # {} /\ Hears(air, air.disp, air.areas, FALSE)
  BY DEF Crash
<1>2. rows' \in Table /\ \A c \in Chains : Alike(rows[c], rows'[c])
  <2>1. ASSUME NEW c \in Chains
        PROVE  rows'[c] \in Row \cup {None} /\ Alike(rows[c], rows'[c])
    <3>1. rows[c] \in Row \cup {None}
      BY DEF TypeOK, Table
    <3>2. \/ rows'[c] = rows[c]
          \/ rows[c] # None /\ rows'[c] = [rows[c] EXCEPT !.dState = "failed"]
      BY DEF Crash
    <3>3. CASE rows'[c] = rows[c]
      BY <3>1, <3>3 DEF Alike
    <3>4. CASE rows[c] # None /\ rows'[c] = [rows[c] EXCEPT !.dState = "failed"]
      BY <3>1, <3>4, DetailColumns
    <3>5. QED
      BY <3>2, <3>3, <3>4
  <2>2. rows' = [c \in Chains |-> rows'[c]]
    BY DEF Crash
  <2>3. QED
    BY <2>1, <2>2 DEF Table
<1>3. log' \in [Dests -> Seq(LogEntry)]
  <2>1. CASE log' = log
    BY <2>1 DEF TypeOK
  <2>2. CASE OnAir("card") # {} /\ Hears(air, air.disp, air.areas, FALSE)
    <3>1. air \in Card
      BY <2>2, PendingFields
    <3>2. QED
      BY <2>2, <3>1, CardFields, HearsFacts
  <2>3. QED
    BY <1>1, <2>1, <2>2
<1>4. TypeOK'
  <2>1. "none" \in Results
    BY DEF Results
  <2>2. LanesOK'
    BY <1>1, EmptySeq DEF LanesOK
  <2>3. result' \in [Chains -> Results]
    BY <1>1, <2>1
  <2>4. QED
    BY <1>1, <1>2, <1>3, <2>2, <2>3 DEF TypeOK
<1>5. HasRow'
  <2>1. ToSet(details)' = {} /\ OnAir("detail")' = {}
    BY <1>1, NoElements DEF OnAir
  <2>2. QED
    BY <2>1 DEF HasRow
<1>6. QED
  BY <1>1, <1>2, <1>4, <1>5

\* The office and the operator leave the machine alone.
Unmoved == UNCHANGED <<store, lanes, memory, seen, log>>

LEMMA UnmovedTyped ==
  ASSUME Typed, Unmoved, listed' \in Nat,
         rules' \in [Dests -> SUBSET Counties], enabled' \subseteq Dests
  PROVE  Typed'
<1>1. TypeOK'
  BY DEF Typed, TypeOK, LanesOK, Unmoved, store, lanes, memory
<1>2. HasRow'
  BY DEF Typed, HasRow, OnAir, ChainOf, Unmoved, store, lanes, memory
<1>3. QED
  BY <1>1, <1>2 DEF Typed

LEMMA OutsideFacts ==
  ASSUME Typed, \/ Publish
                \/ \E d \in Dests : Edit(d)
                \/ UNCHANGED vars
  PROVE  Typed' /\ Unmoved /\ listed <= listed'
<1>1. listed \in Nat /\ rules \in [Dests -> SUBSET Counties] /\ enabled \subseteq Dests
  BY DEF Typed, TypeOK
<1>2. CASE Publish
  BY <1>1, <1>2, UnmovedTyped DEF Publish, Unmoved
<1>3. ASSUME NEW d \in Dests, Edit(d) PROVE Typed' /\ Unmoved /\ listed <= listed'
  <2>1. /\ Unmoved /\ listed' = listed
        /\ \/ rules' = rules
           \/ \E c \in Counties : rules' = [rules EXCEPT ![d] = Flip(@, c)]
        /\ enabled' = enabled \/ enabled' = Flip(enabled, d)
    BY <1>3 DEF Edit, Unmoved
  <2>2. /\ \A c \in Counties : Flip(rules[d], c) \subseteq Counties
        /\ Flip(enabled, d) \subseteq Dests
    BY <1>1 DEF Flip
  <2>3. rules' \in [Dests -> SUBSET Counties] /\ enabled' \subseteq Dests
    BY <1>1, <2>1, <2>2
  <2>4. QED
    BY <1>1, <2>1, <2>3, UnmovedTyped
<1>4. CASE UNCHANGED vars
  BY <1>1, <1>4, UnmovedTyped DEF vars, world, Unmoved
<1>5. QED
  BY <1>2, <1>3, <1>4

LEMMA TypedStep ==
  ASSUME Typed, [DualNext]_vars
  PROVE  Typed'
<1>1. listed \in Nat /\ rules \in [Dests -> SUBSET Counties] /\ enabled \subseteq Dests
  BY DEF Typed, TypeOK
<1>2. CASE \/ Publish
           \/ \E d \in Dests : Edit(d)
           \/ UNCHANGED vars
  BY <1>2, OutsideFacts
<1>3. CASE Poll \/ \E a \in Wire : Receive(a)
  <2>1. PICK a \in Alerts : Process(a)
    BY <1>3, DeliveryAssumption DEF Poll, Receive
  <2>2. UNCHANGED <<listed, rules, enabled>>
    BY <1>3 DEF Poll, Receive, world
  <2>3. QED
    BY <1>1, <2>1, <2>2, ProcessTyped
<1>4. CASE TakeCard
  BY <1>4, TakeCardTyped
<1>5. CASE TakeRest
  BY <1>5, TakeRestFacts
<1>6. CASE CardSent
  BY <1>6, CardSentFacts
<1>7. CASE \E unsure \in BOOLEAN : CardFailed(unsure)
  BY <1>7, CardFailedFacts
<1>8. CASE \E sent \in BOOLEAN : DetailDone(sent) \/ FrameDone(sent)
  BY <1>8, DetailDoneFacts, FrameDoneFacts
<1>9. CASE Crash
  BY <1>9, CrashFacts
<1>10. QED
  BY <1>2, <1>3, <1>4, <1>5, <1>6, <1>7, <1>8, <1>9 DEF DualNext, Next, Worker

LEMMA TypedInit == Init => Typed
<1> SUFFICES ASSUME Init PROVE Typed
  OBVIOUS
<1>1. alias \in {"unknown", "no VTEC"}
  BY DEF Init
<1>2. TypeOK
  <2>1. LanesOK
    BY EmptySeq DEF Init, LanesOK
  <2>2. log \in [Dests -> Seq(LogEntry)]
    BY EmptySeq DEF Init
  <2>3. rows \in Table /\ result \in [Chains -> Results]
    BY DEF Init, Table, Results
  <2>4. /\ listed \in Nat /\ seen \in Nat /\ air = None /\ conditional = {}
        /\ rules \in [Dests -> SUBSET Counties] /\ enabled = Dests
    BY DeliveryAssumption DEF Init
  <2>5. QED
    BY <1>1, <2>1, <2>2, <2>3, <2>4 DEF TypeOK
<1>3. HasRow
  <2>1. details = <<>> /\ air = None
    BY DEF Init
  <2>2. ToSet(details) = {} /\ OnAir("detail") = {}
    BY <2>1, NoElements DEF OnAir
  <2>3. QED
    BY <2>2 DEF HasRow
<1>4. QED
  BY <1>2, <1>3 DEF Typed

\* The lanes, the tables and the answers keep their types, and a detail
\* waits or is sent only where a row keeps its state.
THEOREM DeliveryTypeCorrect == DualSpec => []Typed
<1>1. Typed /\ [DualNext]_vars => Typed'
  BY TypedStep
<1>2. QED
  BY <1>1, TypedInit, PTL DEF DualSpec
----------------------------------------------------------------------------
(* An all-clear follows a warning.                                         *)

\* A warning is in the log l of d.
Warned(l, d) == \E j \in DOMAIN l[d] : l[d][j].what \in Warnings

\* Where a row, an answer or a card about to end the hazard is, a warning was
\* heard, or the card waits for the answer to one.
WarnInv ==
  /\ \A c \in Chains : rows[c] # None => Warned(log, c[2])
  /\ \A c \in Chains : result[c] = "sent" => Warned(log, c[2])
  /\ \A e \in OnAir("card") : e.disp \notin Warnings => Warned(log, e.dest)
  /\ \A e \in Cards : e.disp \notin Warnings => Warned(log, e.dest) \/ e.cond
  /\ ClearOnlyAfterWarning

\* One more entry: what was heard stays heard, and an all-clear may come
\* after a warning.
LEMMA HearsWarned ==
  ASSUME TypeOK, ClearOnlyAfterWarning, NEW e, e.dest \in Dests, e.alert \in Alerts,
         NEW what \in Disps \cup {"detail"}, NEW areas \in Scopes,
         NEW known \in BOOLEAN, Hears(e, what, areas, known),
         what \in {"cleared", "cancelled"} => Warned(log, e.dest)
  PROVE  /\ ClearOnlyAfterWarning'
         /\ \A d \in Dests : Warned(log, d) => Warned(log', d)
         /\ what \in Warnings => Warned(log', e.dest)
<1> DEFINE n == Len(log[e.dest]) + 1
           new == [what |-> what, alert |-> e.alert, areas |-> areas, known |-> known]
<1>1. /\ log' \in [Dests -> Seq(LogEntry)]
      /\ \A d \in Dests : d # e.dest => log'[d] = log[d]
      /\ n \in Nat \ {0} /\ DOMAIN log[e.dest] = 1..(n - 1)
      /\ DOMAIN log'[e.dest] = 1..n
      /\ \A i \in DOMAIN log[e.dest] : log'[e.dest][i] = log[e.dest][i]
      /\ log'[e.dest][n] = new
  BY HearsFacts
<1>2. new.what = what
  OBVIOUS
<1> HIDE DEF n, new
<1>3. n \in DOMAIN log'[e.dest] /\ log'[e.dest][n].what = what
  BY <1>1, <1>2
<1>4. \A d \in Dests : Warned(log, d) => Warned(log', d)
  <2>1. Warned(log, e.dest) => Warned(log', e.dest)
    <3>1. \A j \in DOMAIN log[e.dest] : j \in DOMAIN log'[e.dest]
      BY <1>1
    <3>2. QED
      BY <1>1, <3>1 DEF Warned
  <2>2. QED
    BY <1>1, <2>1 DEF Warned
<1>5. what \in Warnings => Warned(log', e.dest)
  BY <1>3 DEF Warned
<1>6. ASSUME NEW d \in Dests, NEW i \in DOMAIN log'[d],
             log'[d][i].what \in {"cleared", "cancelled"}
      PROVE  \E j \in 1..(i - 1) : log'[d][j].what \in Warnings
  <2>1. CASE d # e.dest
    BY <1>1, <1>6, <2>1 DEF ClearOnlyAfterWarning
  <2>2. CASE d = e.dest /\ i \in DOMAIN log[d]
    <3>1. log[d][i].what \in {"cleared", "cancelled"}
      BY <1>1, <1>6, <2>2
    <3>2. PICK j \in 1..(i - 1) : log[d][j].what \in Warnings
      BY <2>2, <3>1 DEF ClearOnlyAfterWarning
    <3>3. j \in DOMAIN log[d]
      BY <1>1, <2>2, <3>2
    <3>4. QED
      BY <1>1, <2>2, <3>2, <3>3
  <2>3. CASE d = e.dest /\ i = n
    <3>1. PICK j \in DOMAIN log[d] : log[d][j].what \in Warnings
      BY <1>3, <1>6, <2>3 DEF Warned
    <3>2. j \in 1..(i - 1) /\ log'[d][j].what \in Warnings
      BY <1>1, <2>3, <3>1
    <3>3. QED
      BY <3>2
  <2>4. QED
    BY <1>1, <2>1, <2>2, <2>3
<1>7. QED
  BY <1>4, <1>5, <1>6 DEF ClearOnlyAfterWarning

\* A card that ends the hazard goes to somebody who was warned, or waits.
LEMMA NewCardWarns ==
  ASSUME TypeOK, WarnInv, NEW a \in Alerts, NEW e \in NewCards(a),
         e.disp \notin Warnings
  PROVE  Warned(log, e.dest) \/ e.cond
<1>1. PICK t \in Targets(a) : e = CardFor(a, t)
  BY NewCardFacts
<1> DEFINE d == t.dest
<1>2. /\ e.dest = d /\ e.disp = t.disp /\ e.cond = NeedsPrior(a, t)
      /\ ChainOf(e) = ChainOf(t)
  BY <1>1, CardForFields
<1>3. Aims(a, d, t) /\ t.disp \in Disps
  BY TargetTypes
<1>4. t.disp \in {"cancelled", "cleared"}
  BY <1>2, <1>3 DEF Disps, Warnings
<1>5. /\ d \in Recipients(a) \cup Going(a)
      /\ t.root = RootFor(a, d, Active(a))
  <2>1. Cancels(a, d, t) \/ Clears(a, d, t)
    BY <1>3, <1>4, AimFields
  <2>2. QED
    BY <2>1, TargetFields DEF Cancels, Clears
<1> HIDE DEF d
<1>6. CASE \E c \in Prior(a) : c[2] = d
  <2>1. PICK c \in Chains : rows[c] # None /\ c[2] = d
    BY <1>6 DEF Prior
  <2>2. QED
    BY <1>2, <2>1 DEF WarnInv
<1>7. CASE ~(\E c \in Prior(a) : c[2] = d)
  <2>1. RowsOf(a, d) = {} /\ d \notin Recipients(a)
    BY <1>7 DEF RowsOf, Recipients
  <2>2. \E x \in Active(a) : x.dest = d
    BY <1>5, <2>1 DEF Going
  <2>3. Active(a) \in SUBSET Pending
    BY DEF Active, RelatedPending
  <2>4. \E x \in Active(a) : x.dest = d /\ x.root = t.root
    BY <1>5, <1>7, <2>2, <2>3, RootFacts
  <2>5. \E x \in Active(a) : ChainOf(x) = ChainOf(t)
    BY <2>4 DEF ChainOf, d
  <2>6. NeedsPrior(a, t)
    BY <1>4, <2>1, <2>5 DEF NeedsPrior, d
  <2>7. QED
    BY <1>2, <2>6
<1>8. QED
  BY <1>6, <1>7

LEMMA ProcessWarns ==
  ASSUME Typed, WarnInv, NEW a \in Alerts, Process(a)
  PROVE  WarnInv'
<1> USE DEF Typed
<1>1. /\ \A c \in Chains : Alike(rows[c], rows'[c])
      /\ air' = air /\ log' = log
  BY ProcessRows
<1>2. \A c \in Chains : rows'[c] # None => Warned(log', c[2])
  BY <1>1 DEF WarnInv, Alike
<1>3. \A e \in OnAir("card")' : e.disp \notin Warnings => Warned(log', e.dest)
  BY <1>1 DEF WarnInv, OnAir
<1>4. ClearOnlyAfterWarning'
  BY <1>1 DEF WarnInv, ClearOnlyAfterWarning
<1>5. CASE Ignored(a)
  <2>1. cards' = cards /\ result' = result
    BY <1>5 DEF Process
  <2>2. QED
    BY <1>1, <1>2, <1>3, <1>4, <2>1 DEF WarnInv, Cards
<1>6. CASE ~Ignored(a)
  <2>1. Deliver(a)
    BY <1>6 DEF Process
  <2>2. \A c \in Chains : result'[c] = "none" \/ result'[c] = result[c]
    BY <2>1 DEF Deliver
  <2>3. Cards' \subseteq Cards \cup NewCards(a)
    BY <2>1, DeliverFacts, RemainingFacts DEF Cards
  <2>4. \A e \in Cards' : e.disp \notin Warnings => Warned(log', e.dest) \/ e.cond
    BY <1>1, <2>3, NewCardWarns DEF WarnInv
  <2>5. QED
    BY <1>1, <1>2, <1>3, <1>4, <2>2, <2>4 DEF WarnInv
<1>7. QED
  BY <1>5, <1>6

LEMMA WarnStep ==
  ASSUME Typed, WarnInv, [DualNext]_vars
  PROVE  WarnInv'
<1> USE DEF Typed
<1>1. CASE \/ Publish
           \/ \E d \in Dests : Edit(d)
           \/ UNCHANGED vars
  <2>1. Unmoved
    BY <1>1, OutsideFacts
  <2>2. QED
    BY <2>1 DEF Unmoved, store, lanes, memory, WarnInv, Cards, OnAir,
                ClearOnlyAfterWarning
<1>2. CASE Poll \/ \E a \in Wire : Receive(a)
  BY <1>2, ProcessWarns, DeliveryAssumption DEF Poll, Receive
<1>3. CASE TakeCard
  <2>1. PICK e \in Card :
           /\ e \in Cards /\ Cards = ToSet(cards') \cup {e}
           /\ \/ /\ air' = None
                 /\ Retire(e, ConditionalAfter(e), result[ChainOf(e)])
              \/ /\ ~(e.cond /\ result[ChainOf(e)] # "sent") /\ air' = e
                 /\ UNCHANGED <<conditional, result>>
    BY <1>3, TakeCardFacts
  <2>2. rows' = rows /\ log' = log
    BY <1>3 DEF TakeCard, store
  <2>3. ChainOf(e) \in Chains /\ ChainOf(e)[2] = e.dest /\ e.cond \in BOOLEAN
    BY CardFields
  <2>4. \A c \in Chains : result'[c] = "sent" => result[c] = "sent"
    <3>1. CASE Retire(e, ConditionalAfter(e), result[ChainOf(e)])
      BY <2>3, <3>1, RetireTypes DEF TypeOK
    <3>2. QED
      BY <2>1, <3>1
  <2>5. \A x \in OnAir("card")' : x.disp \notin Warnings => Warned(log, x.dest)
    <3>1. CASE air' = None
      BY <3>1 DEF OnAir
    <3>2. CASE air' = e /\ ~(e.cond /\ result[ChainOf(e)] # "sent")
      <4>1. e.disp \notin Warnings => Warned(log, e.dest)
        BY <2>1, <2>3, <3>2 DEF WarnInv
      <4>2. QED
        BY <3>2, <4>1 DEF OnAir
    <3>3. QED
      BY <2>1, <3>1, <3>2
  <2>6. QED
    BY <2>1, <2>2, <2>4, <2>5 DEF WarnInv, Cards, ClearOnlyAfterWarning
<1>4. CASE TakeRest
  <2>1. /\ OnAir("card")' = {}
        /\ UNCHANGED <<rows, cards, result, log>>
    BY <1>4, TakeRestFacts
  <2>2. QED
    BY <2>1 DEF WarnInv, Cards, ClearOnlyAfterWarning
<1>5. CASE CardSent
  <2>1. /\ air \in Card /\ air' = None /\ cards' = cards
        /\ \A c \in Chains : c # ChainOf(air) => rows'[c] = rows[c]
        /\ Retire(air, ConditionalAfter(air), "sent")
        /\ Hears(air, air.disp, air.areas, TRUE)
    BY <1>5, CardSentFacts
  <2>2. /\ ChainOf(air) \in Chains /\ ChainOf(air)[2] = air.dest
        /\ air.dest \in Dests /\ air.alert \in Alerts /\ air.disp \in Disps
        /\ air.areas \in Scopes
    BY <2>1, CardFields
  <2>3. air \in OnAir("card")
    BY <2>1, CardFields DEF OnAir
  <2>4. air.disp \notin Warnings => Warned(log, air.dest)
    BY <2>3 DEF WarnInv
  <2>5. /\ ClearOnlyAfterWarning'
        /\ \A d \in Dests : Warned(log, d) => Warned(log', d)
        /\ Warned(log', air.dest)
    BY <2>1, <2>2, <2>4, HearsWarned DEF WarnInv, Warnings
  <2>6. \A c \in Chains : c[2] \in Dests
    BY DEF Chains
  <2>7. \A c \in Chains : result'[c] = "sent" => c = ChainOf(air) \/ result[c] = "sent"
    <3>1. "sent" \in Results
      BY DEF Results
    <3>2. QED
      BY <2>1, <3>1, RetireTypes
  <2>8. \A e \in Cards : e.dest \in Dests
    BY PendingFields, CardFields
  <2>9. OnAir("card")' = {}
    BY <2>1 DEF OnAir
  <2>10. \A c \in Chains : rows'[c] # None => Warned(log', c[2])
    BY <2>1, <2>2, <2>5, <2>6 DEF WarnInv
  <2>11. \A c \in Chains : result'[c] = "sent" => Warned(log', c[2])
    BY <2>2, <2>5, <2>6, <2>7 DEF WarnInv
  <2>12. \A e \in Cards' : e.disp \notin Warnings => Warned(log', e.dest) \/ e.cond
    BY <2>1, <2>5, <2>8 DEF WarnInv, Cards
  <2>13. QED
    BY <2>5, <2>9, <2>10, <2>11, <2>12 DEF WarnInv
<1>6. ASSUME log' = log \/ (OnAir("card") # {} /\ Hears(air, air.disp, air.areas, FALSE))
      PROVE  /\ ClearOnlyAfterWarning'
             /\ \A d \in Dests : Warned(log, d) => Warned(log', d)
  <2>1. CASE log' = log
    BY <2>1 DEF WarnInv, ClearOnlyAfterWarning
  <2>2. CASE OnAir("card") # {} /\ Hears(air, air.disp, air.areas, FALSE)
    <3>1. air \in OnAir("card") /\ air \in Card
      BY <2>2, PendingFields
    <3>2. /\ air.dest \in Dests /\ air.alert \in Alerts /\ air.disp \in Disps
          /\ air.areas \in Scopes
      BY <3>1, CardFields
    <3>3. air.disp \in {"cleared", "cancelled"} => Warned(log, air.dest)
      BY <3>1 DEF WarnInv, Warnings
    <3>4. QED
      BY <2>2, <3>2, <3>3, HearsWarned DEF WarnInv
  <2>3. QED
    BY <1>6, <2>1, <2>2
<1>7. ASSUME NEW unsure \in BOOLEAN, CardFailed(unsure) PROVE WarnInv'
  <2>1. /\ air \in Card /\ air' = None /\ cards' = cards /\ rows' = rows
        /\ Retire(air, ConditionalAfter(air), "failed")
        /\ Hears(air, air.disp, air.areas, FALSE) \/ log' = log
    BY <1>7, CardFailedFacts DEF store, lanes
  <2>2. /\ ClearOnlyAfterWarning'
        /\ \A d \in Dests : Warned(log, d) => Warned(log', d)
    <3>1. OnAir("card") # {}
      BY <1>7 DEF CardFailed
    <3>2. QED
      BY <1>6, <2>1, <3>1
  <2>3. \A c \in Chains : c[2] \in Dests
    BY DEF Chains
  <2>4. \A c \in Chains : result'[c] = "sent" => result[c] = "sent"
    <3>1. "failed" \in Results /\ ChainOf(air) \in Chains
      BY <2>1, CardFields DEF Results
    <3>2. QED
      BY <2>1, <3>1, RetireTypes
  <2>5. \A e \in Cards : e.dest \in Dests
    BY PendingFields, CardFields
  <2>6. OnAir("card")' = {}
    BY <2>1 DEF OnAir
  <2>7. QED
    BY <2>1, <2>2, <2>3, <2>4, <2>5, <2>6 DEF WarnInv, Cards
<1>8. ASSUME NEW sent \in BOOLEAN, DetailDone(sent) PROVE WarnInv'
  <2>1. /\ air \in DetailEntry /\ air' = None /\ cards' = cards /\ result' = result
        /\ \A c \in Chains : Alike(rows[c], rows'[c])
        /\ Hears(air, "detail", {}, TRUE) \/ log' = log
    BY <1>8, DetailDoneFacts DEF lanes
  <2>2. /\ ClearOnlyAfterWarning'
        /\ \A d \in Dests : Warned(log, d) => Warned(log', d)
    <3>1. CASE log' = log
      BY <3>1 DEF WarnInv, ClearOnlyAfterWarning
    <3>2. CASE Hears(air, "detail", {}, TRUE)
      BY <2>1, <3>2, DetailFields, NoScope, HearsWarned DEF WarnInv
    <3>3. QED
      BY <2>1, <3>1, <3>2
  <2>3. \A c \in Chains : c[2] \in Dests
    BY DEF Chains
  <2>4. \A e \in Cards : e.dest \in Dests
    BY PendingFields, CardFields
  <2>5. OnAir("card")' = {}
    BY <2>1 DEF OnAir
  <2>6. QED
    BY <2>1, <2>2, <2>3, <2>4, <2>5 DEF WarnInv, Cards, Alike
<1>9. ASSUME NEW sent \in BOOLEAN, FrameDone(sent) PROVE WarnInv'
  <2>1. air' = None /\ UNCHANGED <<rows, lanes, result, log>>
    BY <1>9, FrameDoneFacts
  <2>2. OnAir("card")' = {}
    BY <2>1 DEF OnAir
  <2>3. QED
    BY <2>1, <2>2 DEF WarnInv, Cards, lanes, ClearOnlyAfterWarning
<1>10. CASE Crash
  <2>1. /\ cards' = <<>> /\ air' = None /\ result' = [c \in Chains |-> "none"]
        /\ \A c \in Chains : Alike(rows[c], rows'[c])
        /\ log' = log \/ (OnAir("card") # {} /\ Hears(air, air.disp, air.areas, FALSE))
    BY <1>10, CrashFacts
  <2>2. /\ ClearOnlyAfterWarning'
        /\ \A d \in Dests : Warned(log, d) => Warned(log', d)
    BY <1>6, <2>1
  <2>3. \A c \in Chains : c[2] \in Dests
    BY DEF Chains
  <2>4. OnAir("card")' = {} /\ Cards' = {}
    BY <2>1, NoElements DEF OnAir, Cards
  <2>5. QED
    BY <2>1, <2>2, <2>3, <2>4 DEF WarnInv, Alike
<1>11. QED
  BY <1>1, <1>2, <1>3, <1>4, <1>5, <1>7, <1>8, <1>9, <1>10 DEF DualNext, Next, Worker

\* With one feed or both, an all-clear or a cancellation is heard only where
\* a warning was: the chain of _delivery_targets and the conditional cards of
\* _process and _worker.
THEOREM ClearAfterWarning == DualSpec => []ClearOnlyAfterWarning
<1>1. Init => WarnInv
  BY NoElements DEF Init, WarnInv, OnAir, Cards, ClearOnlyAfterWarning
<1>2. Typed /\ WarnInv /\ [DualNext]_vars => WarnInv'
  BY WarnStep
<1>3. WarnInv => ClearOnlyAfterWarning
  BY DEF WarnInv
<1>4. QED
  BY <1>1, <1>2, <1>3, DeliveryTypeCorrect, PTL DEF DualSpec
----------------------------------------------------------------------------
(* One feed: what a poll sees of the chain, and what the rest leaves alone. *)

Rest == Alerts \ Wire

PollOf(a) == a \in Rest /\ Nth[a] = listed /\ Process(a) /\ UNCHANGED world

\* The row r is the one that the card e leaves.
RowOf(r, e) ==
  /\ r # None /\ r.last = IdOf(e.alert) /\ r.disp = e.disp
  /\ r.text = Text[e.alert] /\ r.areas = e.areas

RowsKept == \A c \in Chains : Alike(rows[c], rows'[c])

\* What the log and the rows may do while no product is processed: nothing,
\* a detail is heard, a card is heard and its answer lost, a card is accepted.
Quiet == log' = log /\ RowsKept
HearsDetail == air \in DetailEntry /\ Hears(air, "detail", {}, TRUE) /\ RowsKept
Unanswered ==
  /\ air \in Card /\ Pending' \subseteq Cards
  /\ Hears(air, air.disp, air.areas, FALSE) /\ RowsKept
Accepted ==
  /\ air \in Card /\ Pending' \subseteq Cards
  /\ Hears(air, air.disp, air.areas, TRUE)
  /\ \A c \in Chains : c # ChainOf(air) => rows'[c] = rows[c]
  /\ RowOf(rows'[ChainOf(air)], air)

Between ==
  /\ alias' = alias /\ seen' = seen /\ listed' \in Nat /\ listed <= listed'
  /\ Cards' \subseteq Cards /\ Pending' \subseteq Pending
  /\ Quiet \/ HearsDetail \/ Unanswered \/ Accepted

LEMMA SameRowsKept == rows' = rows => RowsKept
  BY DEF RowsKept, Alike

LEMMA Steps ==
  ASSUME Typed, [Next]_vars
  PROVE  Between \/ \E a \in Rest : PollOf(a)
<1> USE DEF Typed
<1>1. listed \in Nat /\ listed <= listed
  <2>1. listed \in Nat
    BY DEF TypeOK
  <2>2. QED
    BY ONLY <2>1
<1>2. CASE \/ Publish
           \/ \E d \in Dests : Edit(d)
           \/ UNCHANGED vars
  <2>1. Unmoved /\ listed <= listed' /\ listed' \in Nat
    BY <1>2, OutsideFacts DEF TypeOK
  <2>2. rows' = rows /\ log' = log /\ cards' = cards /\ air' = air
        /\ alias' = alias /\ seen' = seen
    BY <2>1 DEF Unmoved, store, lanes, memory
  <2>3. Cards' = Cards /\ Pending' = Pending
    BY <2>2 DEF Cards, Pending, OnAir
  <2>4. QED
    BY <2>1, <2>2, <2>3, SameRowsKept DEF Between, Quiet
<1>3. CASE Poll
  BY <1>3 DEF Poll, PollOf, Rest
<1>4. CASE TakeCard
  <2>1. UNCHANGED <<listed, alias, rows, seen, log>>
    BY <1>4 DEF TakeCard, world, store
  <2>2. PICK e \in Card : /\ e \in Cards /\ Cards = ToSet(cards') \cup {e}
                          /\ air' = None \/ air' = e
    BY <1>4, TakeCardFacts
  <2>3. OnAir("card")' \subseteq {e}
    BY <2>2 DEF OnAir
  <2>4. Cards' \subseteq Cards /\ Pending' \subseteq Pending
    BY <2>2, <2>3 DEF Cards, Pending
  <2>5. QED
    BY <1>1, <2>1, <2>4, SameRowsKept DEF Between, Quiet
<1>5. CASE TakeRest
  <2>1. /\ OnAir("card")' = {}
        /\ UNCHANGED <<listed, alias, rows, cards, seen, log>>
    BY <1>5, TakeRestFacts DEF world
  <2>2. Cards' = Cards /\ Pending' \subseteq Pending
    BY <2>1 DEF Cards, Pending
  <2>3. QED
    BY <1>1, <2>1, <2>2, SameRowsKept DEF Between, Quiet
<1>6. ASSUME air' = None, Cards' \subseteq Cards
      PROVE  Pending' \subseteq Cards /\ Pending' \subseteq Pending
  BY <1>6 DEF Pending, OnAir, Cards
<1>7. CASE CardSent
  <2>1. /\ air \in Card /\ air' = None
        /\ UNCHANGED <<listed, alias, cards, seen>>
        /\ \A c \in Chains : c # ChainOf(air) => rows'[c] = rows[c]
        /\ RowOf(rows'[ChainOf(air)], air)
        /\ Hears(air, air.disp, air.areas, TRUE)
    BY <1>7, CardSentFacts DEF world, RowOf
  <2>2. Cards' = Cards
    BY <2>1 DEF Cards
  <2>3. QED
    BY <1>1, <1>6, <2>1, <2>2 DEF Between, Accepted
<1>8. ASSUME NEW unsure \in BOOLEAN, CardFailed(unsure) PROVE Between
  <2>1. /\ air \in Card /\ air' = None
        /\ UNCHANGED <<listed, alias, rows, cards, seen>>
        /\ Hears(air, air.disp, air.areas, FALSE) \/ log' = log
    BY <1>8, CardFailedFacts DEF store, lanes
  <2>2. Cards' = Cards
    BY <2>1 DEF Cards
  <2>3. QED
    BY <1>1, <1>6, <2>1, <2>2, SameRowsKept DEF Between, Quiet, Unanswered
<1>9. ASSUME NEW sent \in BOOLEAN, DetailDone(sent) PROVE Between
  <2>1. /\ air \in DetailEntry /\ air' = None
        /\ UNCHANGED <<listed, alias, cards, seen>>
        /\ RowsKept
        /\ Hears(air, "detail", {}, TRUE) \/ log' = log
    BY <1>9, DetailDoneFacts DEF world, lanes, RowsKept
  <2>2. Cards' = Cards
    BY <2>1 DEF Cards
  <2>3. QED
    BY <1>1, <1>6, <2>1, <2>2 DEF Between, Quiet, HearsDetail
<1>10. ASSUME NEW sent \in BOOLEAN, FrameDone(sent) PROVE Between
  <2>1. /\ air' = None
        /\ UNCHANGED <<listed, alias, rows, cards, seen, log>>
    BY <1>10, FrameDoneFacts DEF world, lanes
  <2>2. Cards' = Cards
    BY <2>1 DEF Cards
  <2>3. QED
    BY <1>1, <1>6, <2>1, <2>2, SameRowsKept DEF Between, Quiet
<1>11. CASE Crash
  <2>1. /\ cards' = <<>> /\ air' = None
        /\ UNCHANGED <<listed, alias, seen>> /\ RowsKept
        /\ \/ log' = log
           \/ OnAir("card") # {} /\ Hears(air, air.disp, air.areas, FALSE)
    BY <1>11, CrashFacts DEF RowsKept
  <2>2. Cards' \subseteq Cards
    BY <2>1, NoElements DEF Cards
  <2>3. OnAir("card") # {} => air \in Card
    BY PendingFields
  <2>4. QED
    BY <1>1, <1>6, <2>1, <2>2, <2>3 DEF Between, Quiet, Unanswered
<1>12. QED
  BY <1>2, <1>3, <1>4, <1>5, <1>7, <1>8, <1>9, <1>10, <1>11 DEF Next, Worker

\* Nothing on its way is newer than the product processed last, the lane
\* holds its cards only, and every row carries the id of a listed product.
FeedInv ==
  /\ seen <= listed
  /\ \A e \in Pending : e.alert \in Rest /\ Nth[e.alert] <= seen
  /\ WaitingIsCurrent
  /\ alias = "unknown" => Pending = {} /\ \A c \in Chains : rows[c] = None
  /\ \A c \in Chains : rows[c] # None =>
       \E b \in Rest : Nth[b] <= seen /\ rows[c].last = IdOf(b)

LEMMA RestTypes ==
  ASSUME NEW a \in Rest
  PROVE  a \in Alerts /\ Nth[a] \in Nat
  BY DeliveryAssumption DEF Rest

\* A product knows the ids of those before it.
LEMMA KnowsEarlier ==
  ASSUME NEW a \in Rest, NEW b \in Rest, Nth[b] <= Nth[a]
  PROVE  /\ IdOf(b) \in Related(a)
         /\ b # a => Nth[b] < Nth[a] /\ IsChange(a)
<1>1. Nth[a] \in Nat /\ Nth[b] \in Nat
  BY RestTypes
<1>2. b # a => Nth[b] < Nth[a] /\ Own[b] \in Refs[a]
  BY <1>1, FeedAssumption DEF Rest
<1>3. QED
  BY <1>2 DEF IdOf, Related, IsChange

\* A poll sees every row and every card of the chain; a change withdraws the
\* whole lane, and the first product finds only its own cards.
LEMMA PollSees ==
  ASSUME TypeOK, FeedInv, NEW a \in Rest, Nth[a] = listed
  PROVE  /\ Prior(a) = {c \in Chains : rows[c] # None}
         /\ RelatedPending(a) = Pending
         /\ IsChange(a) => ToSet(Remaining(a)) = {} /\ Withdrawn(a) = Cards
         /\ ~IsChange(a) => /\ ToSet(Remaining(a)) = Cards /\ Withdrawn(a) = {}
                            /\ \A e \in Pending : e.alert = a
<1>1. listed \in Nat /\ seen \in Nat /\ seen <= listed /\ a \in Alerts
  BY RestTypes DEF TypeOK, FeedInv
<1>2. \A b \in Rest : Nth[b] <= seen => Nth[b] <= Nth[a]
  BY <1>1, RestTypes
<1>3. Prior(a) = {c \in Chains : rows[c] # None}
  BY <1>2, KnowsEarlier DEF FeedInv, Prior
<1>4. \A e \in Pending : e.alert \in Rest /\ Nth[e.alert] <= Nth[a]
  BY <1>2 DEF FeedInv
<1>5. RelatedPending(a) = Pending
  BY <1>4, KnowsEarlier DEF RelatedPending
<1>6. Cards \subseteq Pending
  BY DEF Cards, Pending
<1>7. ToSet(Remaining(a)) = {e \in Cards : ChainOf(e) \notin Pulled(a)}
  BY <1>1, RemainingFacts
<1>8. Withdrawn(a) = Cards \ ToSet(Remaining(a))
  BY DEF Withdrawn, Cards
<1>9. CASE IsChange(a)
  <2>1. \A e \in Cards : ChainOf(e) \in Pulled(a)
    BY <1>5, <1>6, <1>9 DEF Pulled
  <2>2. QED
    BY <1>3, <1>5, <1>7, <1>8, <1>9, <2>1
<1>10. CASE ~IsChange(a)
  <2>1. Pulled(a) = {}
    BY <1>10 DEF Pulled
  <2>2. \A e \in Pending : e.alert = a
    BY <1>4, <1>10, KnowsEarlier
  <2>3. QED
    BY <1>3, <1>5, <1>7, <1>8, <1>10, <2>1, <2>2
<1>11. QED
  BY <1>9, <1>10

\* What is pending after a poll, and that the hazard has its id then.
LEMMA PollPending ==
  ASSUME Typed, FeedInv, NEW a \in Rest, PollOf(a)
  PROVE  /\ alias' # "unknown" /\ (alias # "unknown" => alias' = alias)
         /\ Cards' \subseteq (Cards \cup NewCards(a))
         /\ Pending' \subseteq (Pending \cup NewCards(a))
         /\ \A e \in Cards' : Nth[e.alert] = Nth[a]
<1> USE DEF Typed
<1>1. /\ a \in Alerts /\ Nth[a] = listed /\ Process(a) /\ Nth[a] \in Nat
  BY RestTypes DEF PollOf
<1>2. air' = air /\ alias' = IF alias = "unknown" THEN Own[a] ELSE alias
  BY <1>1, ProcessRows
<1>3. alias' # "unknown" /\ (alias # "unknown" => alias' = alias)
  BY <1>1, <1>2, DeliveryAssumption
<1>4. /\ Cards' \subseteq (Cards \cup NewCards(a))
      /\ \A e \in Cards' : Nth[e.alert] = Nth[a]
  <2>1. CASE Ignored(a)
    <3>1. Cards' = Cards
      BY <1>1, <2>1 DEF Process, Cards
    <3>2. Cards # {} => ~IsChange(a)
      BY <1>1, <2>1, PollSees DEF Ignored, Pending, Cards
    <3>3. \A e \in Cards : e.alert = a
      BY <1>1, <3>2, PollSees DEF Pending, Cards
    <3>4. QED
      BY <3>1, <3>3
  <2>2. CASE ~Ignored(a)
    <3>1. Cards' = ToSet(Remaining(a)) \cup NewCards(a)
      BY <1>1, <2>2, DeliverFacts DEF Process, Cards
    <3>2. \A e \in NewCards(a) : e.alert = a
      BY <1>1, NewCardFacts
    <3>3. \A e \in ToSet(Remaining(a)) : e \in Cards /\ e.alert = a
      BY <1>1, PollSees DEF Pending, Cards
    <3>4. QED
      BY <3>1, <3>2, <3>3
  <2>3. QED
    BY <2>1, <2>2
<1>5. Pending' \subseteq (Pending \cup NewCards(a))
  BY <1>2, <1>4 DEF Pending, OnAir, Cards
<1>6. QED
  BY <1>3, <1>4, <1>5

LEMMA FeedStep ==
  ASSUME Typed, FeedInv, [Next]_vars
  PROVE  FeedInv'
<1> USE DEF Typed
<1>1. seen \in Nat /\ listed \in Nat
  BY DEF TypeOK
<1>2. ASSUME NEW a \in Rest, PollOf(a) PROVE FeedInv'
  <2>1. /\ Nth[a] = listed /\ a \in Alerts /\ listed' = listed /\ seen' = Nth[a]
        /\ seen <= seen' /\ RowsKept
    BY <1>2, RestTypes, ProcessRows DEF PollOf, world, FeedInv, RowsKept
  <2>2. /\ alias' # "unknown" /\ (alias # "unknown" => alias' = alias)
        /\ Pending' \subseteq (Pending \cup NewCards(a))
        /\ \A e \in Cards' : Nth[e.alert] = Nth[a]
    BY <1>2, PollPending
  <2>3. \A b \in Rest : Nth[b] <= seen => Nth[b] <= seen'
    BY <1>1, <2>1, RestTypes
  <2>4. \A e \in Pending' : e.alert \in Rest /\ Nth[e.alert] <= seen'
    BY <1>1, <2>1, <2>2, <2>3, NewCardFacts DEF FeedInv
  <2>5. WaitingIsCurrent'
    BY <2>1, <2>2 DEF WaitingIsCurrent, Cards
  <2>6. ASSUME NEW c \in Chains, rows'[c] # None
        PROVE  \E b \in Rest : Nth[b] <= seen' /\ rows'[c].last = IdOf(b)'
    <3>1. rows[c] # None /\ rows'[c].last = rows[c].last
      BY <2>1, <2>6 DEF RowsKept, Alike
    <3>2. alias' = alias
      BY <2>2, <3>1 DEF FeedInv
    <3>3. QED
      BY <2>3, <3>1, <3>2 DEF FeedInv, IdOf
  <2>7. QED
    BY <1>1, <2>1, <2>2, <2>4, <2>5, <2>6 DEF FeedInv
<1>3. CASE Between
  <2>1. /\ alias' = alias /\ seen' = seen /\ listed' \in Nat /\ listed <= listed'
        /\ Cards' \subseteq Cards /\ Pending' \subseteq Pending
    BY <1>3 DEF Between
  <2>2. ASSUME NEW c \in Chains, rows'[c] # None
        PROVE  \/ rows[c] # None /\ rows'[c].last = rows[c].last
               \/ air \in Pending /\ rows'[c].last = IdOf(air.alert)
    <3>1. CASE RowsKept
      BY <2>2, <3>1 DEF RowsKept, Alike
    <3>2. CASE Accepted
      <4>1. air \in Pending
        BY <3>2, CardFields DEF Accepted, Pending, OnAir
      <4>2. QED
        BY <2>2, <3>2, <4>1 DEF Accepted, RowOf
    <3>3. QED
      BY <1>3, <3>1, <3>2 DEF Between, Quiet, HearsDetail, Unanswered
  <2>3. alias = "unknown" => Pending = {} /\ \A c \in Chains : rows'[c] = None
    BY <2>2 DEF FeedInv
  <2>4. \A c \in Chains : rows'[c] # None =>
          \E b \in Rest : Nth[b] <= seen' /\ rows'[c].last = IdOf(b)'
    BY <2>1, <2>2 DEF FeedInv, IdOf
  <2>5. WaitingIsCurrent'
    BY <2>1 DEF FeedInv, WaitingIsCurrent, Cards
  <2>6. QED
    BY <1>1, <2>1, <2>3, <2>4, <2>5 DEF FeedInv
<1>4. QED
  BY <1>2, <1>3, Steps

LEMMA FeedInit == Init => FeedInv
<1> SUFFICES ASSUME Init PROVE FeedInv
  OBVIOUS
<1>1. Pending = {}
  BY NoElements DEF Init, Pending, OnAir
<1>2. WaitingIsCurrent
  BY NoElements DEF Init, WaitingIsCurrent
<1>3. \A c \in Chains : rows[c] = None
  BY DEF Init
<1>4. seen = 0 /\ listed = 0
  BY DEF Init
<1>5. QED
  BY <1>1, <1>2, <1>3, <1>4 DEF FeedInv

LEMMA TypedAlways == Spec => []Typed
<1>1. Next => DualNext
  BY DEF DualNext
<1>2. Typed /\ [Next]_vars => Typed'
  BY <1>1, TypedStep
<1>3. QED
  BY <1>2, TypedInit, PTL DEF Spec

\* Cards of the product processed last only: what a change found in the lane
\* it withdrew, in cancel_queued_correlation.
THEOREM NothingOutdatedWaits == Spec => []WaitingIsCurrent
<1>1. Typed /\ FeedInv /\ [Next]_vars => FeedInv'
  BY FeedStep
<1>2. FeedInv => WaitingIsCurrent
  BY DEF FeedInv
<1>3. QED
  BY <1>1, <1>2, FeedInit, TypedAlways, PTL DEF Spec
----------------------------------------------------------------------------
(* One card for a destination, and an answer for a card that waits.        *)

\* The lane holds one card for a destination and the counties it names, and
\* not the product that is on the air for them.
Apart ==
  /\ Distinct(cards)
  /\ \A e \in Cards, f \in OnAir("card") :
       e.dest = f.dest /\ e.areas = f.areas => e.alert # f.alert

\* A conditional card on the air, and a chain with an answer, have a row.
AnswerInv ==
  /\ NoStaleAnswer
  /\ \A f \in OnAir("card") : f.cond => rows[ChainOf(f)] # None
  /\ \A c \in Chains : result[c] = "sent" => rows[c] # None

LEMMA TailDistinct ==
  ASSUME NEW s \in Seq(Card), s # <<>>, Distinct(s)
  PROVE  /\ Distinct(Tail(s))
         /\ \A e \in ToSet(Tail(s)) : e.dest # Head(s).dest \/ e.areas # Head(s).areas
<1>1. /\ DOMAIN s = 1..Len(s) /\ Len(s) \in Nat \ {0} /\ Head(s) = s[1]
      /\ DOMAIN Tail(s) = 1..(Len(s) - 1)
      /\ \A i \in 1..(Len(s) - 1) : Tail(s)[i] = s[i + 1]
  <2>1. Len(s) \in Nat \ {0} /\ Tail(s) \in Seq(Card) /\ Len(Tail(s)) = Len(s) - 1
    BY EmptySeq
  <2>2. QED
    BY <2>1
<1>2. \A i \in 1..(Len(s) - 1) : i + 1 \in DOMAIN s /\ i + 1 # 1
  BY <1>1
<1>3. 1 \in DOMAIN s
  BY <1>1
<1>4. Distinct(Tail(s))
  <2>1. ASSUME NEW i \in 1..(Len(s) - 1), NEW j \in 1..(Len(s) - 1),
               Tail(s)[i].dest = Tail(s)[j].dest, Tail(s)[i].areas = Tail(s)[j].areas
        PROVE  i = j
    <3>1. i + 1 = j + 1
      BY <1>1, <1>2, <2>1 DEF Distinct
    <3>2. QED
      BY <3>1
  <2>2. QED
    BY <1>1, <2>1 DEF Distinct
<1>5. \A i \in 1..(Len(s) - 1) : \/ Tail(s)[i].dest # Head(s).dest
                                \/ Tail(s)[i].areas # Head(s).areas
  BY <1>1, <1>2, <1>3 DEF Distinct
<1>6. QED
  BY <1>1, <1>4, <1>5 DEF ToSet

LEMMA JoinDistinct ==
  ASSUME NEW s \in Seq(Card), NEW t \in Seq(Card), Distinct(s), Distinct(t),
         \A e \in ToSet(s), f \in ToSet(t) : e.dest # f.dest \/ e.areas # f.areas
  PROVE  Distinct(s \o t)
<1>1. /\ Len(s) \in Nat /\ Len(t) \in Nat
      /\ DOMAIN s = 1..Len(s) /\ DOMAIN t = 1..Len(t)
      /\ DOMAIN (s \o t) = 1..(Len(s) + Len(t))
      /\ \A i \in 1..Len(s) : (s \o t)[i] = s[i]
      /\ \A i \in 1..Len(t) : (s \o t)[Len(s) + i] = t[i]
  OBVIOUS
<1>2. \A i \in 1..(Len(s) + Len(t)) :
        \/ i \in 1..Len(s) /\ (s \o t)[i] = s[i]
        \/ i - Len(s) \in 1..Len(t) /\ (s \o t)[i] = t[i - Len(s)]
  <2>1. ASSUME NEW i \in 1..(Len(s) + Len(t)), ~(i \in 1..Len(s))
        PROVE  i - Len(s) \in 1..Len(t) /\ Len(s) + (i - Len(s)) = i
    BY <1>1, <2>1
  <2>2. QED
    BY <1>1, <2>1
<1>3. \A i \in 1..Len(s), j \in 1..Len(t) : \/ s[i].dest # t[j].dest
                                          \/ s[i].areas # t[j].areas
  BY <1>1 DEF ToSet
<1>4. ASSUME NEW i \in 1..(Len(s) + Len(t)), NEW j \in 1..(Len(s) + Len(t)),
             (s \o t)[i].dest = (s \o t)[j].dest,
             (s \o t)[i].areas = (s \o t)[j].areas
      PROVE  i = j
  <2>1. CASE i \in 1..Len(s) /\ j \in 1..Len(s)
    BY <1>1, <1>4, <2>1 DEF Distinct
  <2>2. CASE i \notin 1..Len(s) /\ j \notin 1..Len(s)
    <3>0. /\ i - Len(s) \in DOMAIN t /\ j - Len(s) \in DOMAIN t
          /\ t[i - Len(s)].dest = t[j - Len(s)].dest
          /\ t[i - Len(s)].areas = t[j - Len(s)].areas
      BY <1>1, <1>2, <1>4, <2>2
    <3>1. i - Len(s) = j - Len(s)
      BY <3>0 DEF Distinct
    <3>2. QED
      BY <1>1, <3>1
  <2>3. CASE i \in 1..Len(s) /\ j \notin 1..Len(s)
    BY <1>1, <1>2, <1>3, <1>4, <2>3
  <2>4. CASE i \notin 1..Len(s) /\ j \in 1..Len(s)
    BY <1>1, <1>2, <1>3, <1>4, <2>4
  <2>5. QED
    BY <2>1, <2>2, <2>3, <2>4
<1>5. QED
  BY <1>1, <1>4 DEF Distinct

\* Whose card of the product is pending already is no target for its counties.
LEMMA NotAgain ==
  ASSUME NEW a, NEW t \in Targets(a), NEW e \in Pending \ Withdrawn(a), e.alert = a
  PROVE  e.dest # t.dest \/ e.areas # t.areas
  BY DEF Targets

\* The lane after a poll.
LEMMA PollLane ==
  ASSUME Typed, FeedInv, Apart, NEW a \in Rest, PollOf(a), ~Ignored(a)
  PROVE  /\ Apart' /\ air' = air
         /\ Cards' = ToSet(Remaining(a)) \cup NewCards(a)
         /\ Pending' = ToSet(Remaining(a)) \cup NewCards(a) \cup OnAir("card")
<1> USE DEF Typed
<1>1. a \in Alerts /\ Nth[a] = listed /\ Process(a) /\ Deliver(a)
  BY RestTypes DEF PollOf, Process
<1>2. air' = air
  BY <1>1, ProcessRows
<1>3. /\ cards' = Remaining(a) \o SetToSeq(NewCards(a))
      /\ Cards' = ToSet(Remaining(a)) \cup NewCards(a)
  BY <1>1, DeliverFacts DEF Cards
<1>4. Pending' = ToSet(Remaining(a)) \cup NewCards(a) \cup OnAir("card")
  BY <1>2, <1>3 DEF Pending, Cards, OnAir
<1>5. /\ NewCards(a) \subseteq Card /\ IsFiniteSet(NewCards(a))
      /\ \A e \in NewCards(a) : \E t \in Targets(a) : e = CardFor(a, t)
      /\ \A e, f \in NewCards(a) : e.dest = f.dest => e = f
      /\ \A e \in NewCards(a) : e.alert = a
  BY <1>1, NewCardFacts
<1>6. ASSUME NEW x \in Pending \ Withdrawn(a), x.alert = a, NEW e \in NewCards(a)
      PROVE  x.dest # e.dest \/ x.areas # e.areas
  <2>1. PICK t \in Targets(a) : e = CardFor(a, t)
    BY <1>5
  <2>2. e.dest = t.dest /\ e.areas = t.areas
    BY <1>1, <2>1, CardForFields
  <2>3. QED
    BY <1>6, <2>2, NotAgain
<1>7. Distinct(cards')
  <2> DEFINE s == Remaining(a)
             t == SetToSeq(NewCards(a))
  <2>1. s \in Seq(Card) /\ Distinct(s)
    BY <1>1, RemainingFacts DEF Apart
  <2>2. /\ t \in Seq(NewCards(a)) /\ ToSet(t) = NewCards(a)
        /\ \A i, j \in DOMAIN t : t[i] = t[j] => i = j
    BY <1>5, SetToSeqFacts
  <2>3. ASSUME NEW e \in ToSet(s), NEW f \in NewCards(a)
        PROVE  e.dest # f.dest \/ e.areas # f.areas
    <3>1. ~IsChange(a)
      BY <1>1, <2>3, PollSees
    <3>2. e \in Pending \ Withdrawn(a) /\ e.alert = a
      BY <1>1, <2>3, <3>1, PollSees DEF Cards, Pending
    <3>3. QED
      BY <1>6, <3>2
  <2> HIDE DEF s, t
  <2>4. t \in Seq(Card)
    BY <1>5, <2>2
  <2>5. \A i \in DOMAIN t : t[i] \in NewCards(a)
    BY <2>2
  <2>6. Distinct(t)
    BY <1>5, <2>2, <2>5 DEF Distinct
  <2>7. Distinct(s \o t)
    BY <2>1, <2>2, <2>3, <2>4, <2>6, JoinDistinct
  <2>8. QED
    BY <1>3, <2>7 DEF s, t
<1>8. ASSUME NEW e \in Cards', NEW f \in OnAir("card"),
             e.dest = f.dest, e.areas = f.areas
      PROVE  e.alert # f.alert
  <2>1. CASE e \in Cards
    BY <1>8, <2>1 DEF Apart
  <2>2. CASE e \in NewCards(a)
    <3>1. f \in Pending /\ f \notin Cards
      BY DEF Pending, Apart
    <3>2. f \notin Withdrawn(a)
      BY <3>1 DEF Withdrawn, Cards
    <3>3. QED
      BY <1>5, <1>6, <1>8, <2>2, <3>1, <3>2
  <2>3. ToSet(Remaining(a)) \subseteq Cards
    BY <1>1, RemainingFacts
  <2>4. QED
    BY <1>3, <2>1, <2>2, <2>3
<1>9. Apart'
  BY <1>2, <1>7, <1>8 DEF Apart, OnAir
<1>10. QED
  BY <1>2, <1>3, <1>4, <1>9

LEMMA PollApart ==
  ASSUME Typed, FeedInv, Apart, NEW a \in Rest, PollOf(a)
  PROVE  Apart'
<1>1. CASE Ignored(a)
  <2>1. cards' = cards /\ air' = air
    BY <1>1, ProcessRows, RestTypes DEF PollOf, Process
  <2>2. QED
    BY <2>1 DEF Apart, Cards, OnAir
<1>2. CASE ~Ignored(a)
  BY <1>2, PollLane
<1>3. QED
  BY <1>1, <1>2

\* The chains whose answers the cards in E wait for.
Awaited(E) == {ChainOf(e) : e \in {x \in E : x.cond}}

LEMMA PollAnswers ==
  ASSUME Typed, FeedInv, Apart, AnswerInv, NEW a \in Rest, PollOf(a)
  PROVE  AnswerInv'
<1> USE DEF Typed
<1>1. /\ a \in Alerts /\ Nth[a] = listed /\ Process(a)
      /\ RowsKept /\ air' = air
  BY RestTypes, ProcessRows DEF PollOf, RowsKept
<1>2. OnAir("card")' = OnAir("card")
  BY <1>1 DEF OnAir
<1>3. \A f \in OnAir("card") : ChainOf(f) \in Chains /\ f \in Pending
  BY PendingFields, CardFields DEF Pending
<1>4. \A f \in OnAir("card")' : f.cond => rows'[ChainOf(f)] # None
  BY <1>1, <1>2, <1>3 DEF AnswerInv, RowsKept, Alike
<1>5. CASE Ignored(a)
  <2>1. cards' = cards /\ conditional' = conditional /\ result' = result
    BY <1>1, <1>5 DEF Process
  <2>2. Cards' = Cards /\ Pending' = Pending
    BY <1>2, <2>1 DEF Cards, Pending
  <2>3. NoStaleAnswer'
    BY <2>1, <2>2 DEF AnswerInv, NoStaleAnswer, ChainOf
  <2>4. QED
    BY <1>1, <1>2, <1>4, <2>1, <2>2, <2>3 DEF AnswerInv, RowsKept, Alike
<1>6. CASE ~Ignored(a)
  <2> DEFINE N == NewCards(a)
             W == Withdrawn(a)
             gone == {ChainOf(e) : e \in W}
             kept == conditional \ Awaited(W)
  <2>1. Deliver(a)
    BY <1>1, <1>6 DEF Process
  <2>2. /\ conditional' = kept \cup Awaited(N)
        /\ \A c \in Chains : result'[c] = IF c \in gone \ kept THEN "none" ELSE result[c]
    BY <2>1 DEF Deliver, NewCards, Awaited
  <2>3. /\ Cards' = ToSet(Remaining(a)) \cup N
        /\ Pending' = ToSet(Remaining(a)) \cup N \cup OnAir("card")
    BY <1>6, PollLane
  <2>4. conditional \subseteq Awaited(Cards \cup OnAir("card"))
    BY DEF AnswerInv, NoStaleAnswer, Awaited, Pending, Cards
  <2>5. Cards \subseteq ToSet(Remaining(a)) \cup W
    BY DEF Withdrawn, Cards
  <2>6. conditional' \subseteq Awaited(Pending')
    BY <2>2, <2>3, <2>4, <2>5 DEF Awaited
  <2>7. \A c \in Chains : result'[c] # "none" => c \in conditional'
    <3>1. Awaited(W) \subseteq gone
      BY DEF Awaited
    <3>2. ASSUME NEW c \in Chains, result'[c] # "none" PROVE c \in conditional'
      <4>1. result[c] # "none" /\ c \notin gone \ kept
        BY <2>2, <3>2
      <4>2. c \in conditional
        BY <4>1 DEF AnswerInv, NoStaleAnswer
      <4>3. QED
        BY <2>2, <3>1, <4>1, <4>2
    <3>3. QED
      BY <3>2
  <2>8. NoStaleAnswer'
    BY <2>6, <2>7 DEF NoStaleAnswer, Awaited, ChainOf
  <2>9. \A c \in Chains : result'[c] = "sent" => rows'[c] # None
    BY <1>1, <2>2 DEF AnswerInv, RowsKept, Alike
  <2>10. QED
    BY <1>2, <1>4, <2>8, <2>9 DEF AnswerInv, ChainOf
<1>7. QED
  BY <1>5, <1>6

\* A card leaves with its answer, the lane as it was.
LEMMA RetireAnswers ==
  ASSUME Typed, Apart, AnswerInv, air \in Card, air' = None, cards' = cards,
         RowsKept \/ \A c \in Chains : rows'[c] = None => rows[c] = None,
         NEW sent \in Results, Retire(air, ConditionalAfter(air), sent),
         sent = "sent" => rows'[ChainOf(air)] # None
  PROVE  Apart' /\ AnswerInv'
<1> USE DEF Typed
<1> DEFINE c == ChainOf(air)
<1>1. /\ c \in Chains /\ air.cond \in BOOLEAN /\ OnAir("card") = {air}
  BY CardFields DEF OnAir
<1>2. OnAir("card")' = {} /\ Cards' = Cards /\ Pending' = Cards
  BY DEF OnAir, Cards, Pending
<1>3. Apart'
  BY <1>2 DEF Apart, Cards
<1>4. /\ conditional' = IF air.cond THEN conditional \ {c} ELSE conditional
      /\ \A x \in Chains : x # c => result'[x] = result[x]
      /\ result'[c] = IF c \in conditional' THEN sent ELSE "none"
  BY RetireTypes
<1>5. conditional \subseteq Awaited(Cards \cup {air})
  BY <1>1 DEF AnswerInv, NoStaleAnswer, Awaited, Pending, Cards
<1>6. conditional' \subseteq Awaited(Cards)
  BY <1>4, <1>5 DEF Awaited
<1> HIDE DEF c
<1>7. \A x \in Chains : result'[x] # "none" => x \in conditional'
  BY <1>4 DEF AnswerInv, NoStaleAnswer
<1>8. NoStaleAnswer'
  BY <1>2, <1>6, <1>7 DEF NoStaleAnswer, Awaited, ChainOf
<1>9. \A x \in Chains : result'[x] = "sent" => rows'[x] # None
  BY <1>4 DEF AnswerInv, RowsKept, Alike, c
<1>10. QED
  BY <1>2, <1>3, <1>8, <1>9 DEF AnswerInv

LEMMA TakeCardAnswers ==
  ASSUME Typed, Apart, AnswerInv, TakeCard
  PROVE  Apart' /\ AnswerInv'
<1> USE DEF Typed
<1>1. PICK e \in Card :
           /\ air = None /\ cards # <<>> /\ e = Head(cards) /\ e \in Cards
           /\ cards' = Tail(cards) /\ Cards = ToSet(cards') \cup {e}
           /\ \/ /\ e.cond /\ result[ChainOf(e)] # "sent" /\ air' = None
                 /\ Retire(e, ConditionalAfter(e), result[ChainOf(e)])
              \/ /\ ~(e.cond /\ result[ChainOf(e)] # "sent") /\ air' = e
                 /\ UNCHANGED <<conditional, result>>
  BY TakeCardFacts
<1>2. rows' = rows
  BY DEF TakeCard, store
<1>3. Distinct(cards') /\ \A x \in Cards' : x.dest # e.dest \/ x.areas # e.areas
  BY <1>1, TailDistinct DEF Apart, TypeOK, LanesOK, Cards
<1>4. Cards' = ToSet(cards') /\ OnAir("card") = {}
  BY <1>1 DEF Cards, OnAir
<1>5. conditional \subseteq Awaited(Cards' \cup {e})
  <2>1. Pending = Cards' \cup {e}
    BY <1>1, <1>4 DEF Pending, Cards
  <2>2. QED
    BY <2>1 DEF AnswerInv, NoStaleAnswer, Awaited
<1>6. ChainOf(e) \in Chains /\ e.cond \in BOOLEAN /\ e # None /\ e.kind = "card"
  BY CardFields
<1>7. CASE /\ e.cond /\ result[ChainOf(e)] # "sent" /\ air' = None
           /\ Retire(e, ConditionalAfter(e), result[ChainOf(e)])
  <2>1. OnAir("card")' = {} /\ Pending' = Cards'
    BY <1>4, <1>7 DEF OnAir, Pending, Cards
  <2>2. result[ChainOf(e)] \in Results
    BY <1>6 DEF TypeOK
  <2>3. /\ conditional' = conditional \ {ChainOf(e)}
        /\ \A x \in Chains : x # ChainOf(e) => result'[x] = result[x]
        /\ result'[ChainOf(e)] = "none"
    BY <1>7, <2>2, RetireTypes
  <2>4. conditional' \subseteq Awaited(Cards')
    BY <1>5, <1>7, <2>3 DEF Awaited
  <2>5. \A x \in Chains : result'[x] # "none" => x \in conditional'
    BY <2>3 DEF AnswerInv, NoStaleAnswer
  <2>6. NoStaleAnswer'
    BY <2>1, <2>4, <2>5 DEF NoStaleAnswer, Awaited, ChainOf
  <2>7. \A x \in Chains : result'[x] = "sent" => rows'[x] # None
    BY <1>2, <2>3 DEF AnswerInv
  <2>8. QED
    BY <1>3, <2>1, <2>6, <2>7 DEF Apart, AnswerInv
<1>8. CASE /\ ~(e.cond /\ result[ChainOf(e)] # "sent") /\ air' = e
           /\ UNCHANGED <<conditional, result>>
  <2>1. OnAir("card")' = {e} /\ Pending' = Cards' \cup {e}
    BY <1>4, <1>6, <1>8 DEF OnAir, Pending, Cards
  <2>2. NoStaleAnswer'
    BY <1>5, <1>8, <2>1 DEF AnswerInv, NoStaleAnswer, Awaited, ChainOf
  <2>3. e.cond => rows'[ChainOf(e)] # None
    BY <1>2, <1>6, <1>8 DEF AnswerInv
  <2>4. \A x \in Chains : result'[x] = "sent" => rows'[x] # None
    BY <1>2, <1>8 DEF AnswerInv
  <2>5. AnswerInv'
    BY <2>1, <2>2, <2>3, <2>4 DEF AnswerInv, ChainOf
  <2>6. Apart'
    BY <1>3, <2>1 DEF Apart
  <2>7. QED
    BY <2>5, <2>6
<1>9. QED
  BY <1>1, <1>7, <1>8

LEMMA AnswerStep ==
  ASSUME Typed, FeedInv, Apart, AnswerInv, [Next]_vars
  PROVE  Apart' /\ AnswerInv'
<1> USE DEF Typed
<1>1. ASSUME cards' = cards, OnAir("card")' = OnAir("card"), RowsKept,
             UNCHANGED <<conditional, result>>
      PROVE  Apart' /\ AnswerInv'
  <2>1. Cards' = Cards /\ Pending' = Pending
    BY <1>1 DEF Cards, Pending
  <2>2. Apart'
    BY <1>1, <2>1 DEF Apart
  <2>3. NoStaleAnswer'
    BY <1>1, <2>1 DEF AnswerInv, NoStaleAnswer, ChainOf
  <2>4. \A f \in OnAir("card") : ChainOf(f) \in Chains
    BY PendingFields, CardFields
  <2>5. \A f \in OnAir("card")' : f.cond => rows'[ChainOf(f)] # None
    BY <1>1, <2>4 DEF AnswerInv, RowsKept, Alike
  <2>6. \A c \in Chains : result'[c] = "sent" => rows'[c] # None
    BY <1>1 DEF AnswerInv, RowsKept, Alike
  <2>7. QED
    BY <1>1, <2>1, <2>2, <2>3, <2>5, <2>6 DEF AnswerInv, ChainOf
<1>2. CASE \/ Publish
           \/ \E d \in Dests : Edit(d)
           \/ UNCHANGED vars
  <2>1. Unmoved
    BY <1>2, OutsideFacts
  <2>2. QED
    BY <1>1, <2>1, SameRowsKept DEF Unmoved, store, lanes, memory, OnAir
<1>3. CASE Poll
  <2>1. PICK a \in Rest : PollOf(a)
    BY <1>3 DEF Poll, PollOf, Rest
  <2>2. QED
    BY <2>1, PollApart, PollAnswers
<1>4. CASE TakeCard
  BY <1>4, TakeCardAnswers
<1>5. CASE TakeRest
  <2>1. /\ air = None /\ OnAir("card")' = {}
        /\ UNCHANGED <<rows, cards, conditional, result>>
    BY <1>5, TakeRestFacts
  <2>2. QED
    BY <1>1, <2>1, SameRowsKept DEF OnAir
<1>6. CASE CardSent
  <2>1. /\ air \in Card /\ air' = None /\ cards' = cards
        /\ \A c \in Chains : c # ChainOf(air) => rows'[c] = rows[c]
        /\ rows'[ChainOf(air)] # None
        /\ Retire(air, ConditionalAfter(air), "sent")
    BY <1>6, CardSentFacts
  <2>2. \A c \in Chains : rows'[c] = None => rows[c] = None
    BY <2>1
  <2>3. "sent" \in Results
    BY DEF Results
  <2>4. QED
    BY <2>1, <2>2, <2>3, RetireAnswers
<1>7. ASSUME NEW unsure \in BOOLEAN, CardFailed(unsure) PROVE Apart' /\ AnswerInv'
  <2>1. /\ air \in Card /\ air' = None /\ cards' = cards /\ rows' = rows
        /\ Retire(air, ConditionalAfter(air), "failed")
    BY <1>7, CardFailedFacts DEF store, lanes
  <2>2. "failed" \in Results /\ "failed" # "sent"
    BY DEF Results
  <2>3. QED
    BY <2>1, <2>2, SameRowsKept, RetireAnswers
<1>8. ASSUME NEW sent \in BOOLEAN, DetailDone(sent) PROVE Apart' /\ AnswerInv'
  <2>1. /\ air \in DetailEntry /\ air' = None /\ RowsKept
        /\ UNCHANGED <<cards, conditional, result>>
    BY <1>8, DetailDoneFacts DEF lanes, RowsKept
  <2>2. OnAir("card") = {} /\ OnAir("card")' = {}
    BY <2>1, DetailFields DEF OnAir
  <2>3. QED
    BY <1>1, <2>1, <2>2
<1>9. ASSUME NEW sent \in BOOLEAN, FrameDone(sent) PROVE Apart' /\ AnswerInv'
  <2>1. /\ air' = None /\ OnAir("card") = {}
        /\ UNCHANGED <<rows, cards, conditional, result>>
    BY <1>9, FrameDoneFacts DEF lanes
  <2>2. OnAir("card")' = {}
    BY <2>1 DEF OnAir
  <2>3. QED
    BY <1>1, <2>1, <2>2, SameRowsKept
<1>10. CASE Crash
  <2>1. /\ cards' = <<>> /\ air' = None /\ conditional' = {}
        /\ result' = [c \in Chains |-> "none"]
    BY <1>10, CrashFacts
  <2>2. /\ Cards' = {} /\ OnAir("card")' = {} /\ Pending' = {}
        /\ DOMAIN cards' = {}
    BY <2>1, NoElements DEF Cards, OnAir, Pending
  <2>3. Apart'
    BY <2>2 DEF Apart, Distinct
  <2>4. NoStaleAnswer'
    BY <2>1, <2>2 DEF NoStaleAnswer
  <2>5. \A c \in Chains : result'[c] = "none"
    BY <2>1
  <2>6. QED
    BY <2>2, <2>3, <2>4, <2>5 DEF AnswerInv
<1>11. QED
  BY <1>2, <1>3, <1>4, <1>5, <1>6, <1>7, <1>8, <1>9, <1>10 DEF Next, Worker

LEMMA AnswerInit == Init => Apart /\ AnswerInv
<1> SUFFICES ASSUME Init PROVE Apart /\ AnswerInv
  OBVIOUS
<1>1. /\ cards = <<>> /\ air = None /\ conditional = {}
      /\ \A c \in Chains : result[c] = "none"
  BY DEF Init
<1>2. Cards = {} /\ OnAir("card") = {} /\ Pending = {} /\ DOMAIN cards = {}
  BY <1>1, NoElements DEF Cards, OnAir, Pending
<1>3. Apart
  BY <1>2 DEF Apart, Distinct
<1>4. NoStaleAnswer
  BY <1>1, <1>2 DEF NoStaleAnswer
<1>5. QED
  BY <1>1, <1>2, <1>3, <1>4 DEF AnswerInv

\* An answer is kept only for a chain in which a conditional card waits for
\* it: _conditional_chains and _discard_chain_result.
THEOREM AnswersAreAwaited == Spec => []NoStaleAnswer
<1>1. Typed /\ FeedInv /\ [Next]_vars => FeedInv'
  BY FeedStep
<1>2. Typed /\ FeedInv /\ Apart /\ AnswerInv /\ [Next]_vars => Apart' /\ AnswerInv'
  BY AnswerStep
<1>3. AnswerInv => NoStaleAnswer
  BY DEF AnswerInv
<1>4. QED
  BY <1>1, <1>2, <1>3, FeedInit, AnswerInit, TypedAlways, PTL DEF Spec
----------------------------------------------------------------------------
(* What was heard is not heard again.                                      *)

\* The entry x is a detail, or of a product no newer than the n-th and than
\* the cards in P, and a cancellation if that product is.
Dated(x, n, P) ==
  x.what # "detail" =>
    /\ x.alert \in Rest /\ Nth[x.alert] <= n
    /\ x.what = "cancelled" <=> Type[x.alert] = "Cancel"
    /\ \A e \in P : Nth[x.alert] <= Nth[e.alert]

\* The cards heard are of products processed, none newer than one on its way.
LogInv ==
  \A d \in Dests : \A i \in DOMAIN log[d] : Dated(log[d][i], seen, Pending)

PendInv == \A e \in Pending : e.disp = "cancelled" <=> Type[e.alert] = "Cancel"

\* The i-th entry of l was answered, and neither an all-clear nor a card for
\* other counties came after it.
Stands(l, i) ==
  /\ l[i].known
  /\ \A k \in DOMAIN l : (k > i /\ l[k].what # "detail") =>
       l[k].what # "cleared" /\ l[k].areas = l[i].areas

\* A row of d says what the product b said there of its counties.
RowSays(d, what, b, areas) ==
  \E c \in Chains :
    /\ c[2] = d /\ rows[c] # None
    /\ \/ /\ what \in Warnings /\ rows[c].disp \in Warnings
          /\ rows[c].text = Text[b] /\ rows[c].areas = areas
       \/ what = "cancelled" /\ rows[c].disp = "cancelled" /\ rows[c].last = IdOf(b)

\* The k-th entry of l is an all-clear, or for other counties than the i-th.
Else(l, i, k) == l[k].what = "cleared" \/ l[k].areas # l[i].areas

\* HeardOnce, said of the log l of one destination.
OnceIn(l) ==
  \A i, j \in DOMAIN l :
    (/\ i < j /\ Nth[l[i].alert] = Nth[l[j].alert] /\ l[i].areas = l[j].areas
     /\ {l[i].what, l[j].what} \subseteq Warnings
        \/ {l[i].what, l[j].what} = {"cancelled"}) =>
      \/ ~l[i].known
      \/ \E k \in i..j : l[k].what # "detail" /\ Else(l, i, k)

LEMMA HeardOnceIn == /\ HeardOnce <=> \A d \in Dests : OnceIn(log[d])
                     /\ HeardOnce' <=> \A d \in Dests : OnceIn(log'[d])
<1>1. HeardOnce <=> \A d \in Dests : OnceIn(log[d])
  BY Zenon DEF HeardOnce, OnceIn, Else
<1>2. HeardOnce' <=> \A d \in Dests : OnceIn(log'[d])
  BY Zenon DEF HeardOnce, OnceIn, Else
<1>3. QED
  BY <1>1, <1>2

\* What stands in the log is behind the product processed last or in a row;
\* another card of it is on its way only as an all-clear.
HeardInv ==
  /\ \A d \in Dests : \A i \in DOMAIN log[d] :
       (Stands(log[d], i) /\ log[d][i].what \in Warnings \cup {"cancelled"}) =>
         /\ \/ seen > Nth[log[d][i].alert]
            \/ RowSays(d, log[d][i].what, log[d][i].alert, log[d][i].areas)
         /\ \A e \in Pending :
              (e.dest = d /\ e.alert = log[d][i].alert /\ e.areas = log[d][i].areas)
                => e.disp = "cleared"
  /\ HeardOnce

\* A new card is a cancellation if its product is.
LEMMA NewCardKind ==
  ASSUME TypeOK, NEW a \in Alerts, NEW e \in NewCards(a)
  PROVE  e.disp = "cancelled" <=> Type[a] = "Cancel"
<1>1. PICK t \in Targets(a) : e = CardFor(a, t)
  BY NewCardFacts
<1>2. e.disp = t.disp /\ Aims(a, t.dest, t)
  BY <1>1, CardForFields, TargetTypes
<1>3. t.disp = "cancelled" <=> Cancels(a, t.dest, t)
  BY <1>2, AimFields
<1>4. QED
  BY <1>2, <1>3 DEF Aims, Cancels, First, Renews, Clears

LEMMA PollHeard ==
  ASSUME Typed, FeedInv, LogInv, PendInv, HeardInv, NEW a \in Rest, PollOf(a)
  PROVE  LogInv' /\ PendInv' /\ HeardInv'
<1> USE DEF Typed
<1>1. /\ a \in Alerts /\ Nth[a] = listed /\ Nth[a] \in Nat /\ seen' = Nth[a]
      /\ log' = log /\ RowsKept /\ seen \in Nat /\ seen <= seen'
  BY RestTypes, ProcessRows DEF PollOf, RowsKept, FeedInv, TypeOK
<1>2. /\ alias' # "unknown" /\ (alias # "unknown" => alias' = alias)
      /\ Pending' \subseteq (Pending \cup NewCards(a))
  BY <1>1, PollPending
<1>3. \A e \in NewCards(a) : e.alert = a
  BY <1>1, NewCardFacts
<1>4. PendInv'
  BY <1>1, <1>2, <1>3, NewCardKind DEF PendInv
<1>5. \A b \in Rest : Nth[b] <= seen => Nth[b] <= seen' /\ Nth[b] <= Nth[a]
  BY <1>1, RestTypes
<1>6. LogInv'
  <2>1. \A x : Dated(x, seen, Pending) => Dated(x, seen', Pending')
    BY <1>1, <1>2, <1>3, <1>5 DEF Dated
  <2>2. QED
    BY <1>1, <2>1 DEF LogInv
<1>7. ASSUME NEW d \in Dests, NEW what, NEW b \in Rest, NEW areas,
             RowSays(d, what, b, areas)
      PROVE  RowSays(d, what, b, areas)'
  <2>1. PICK c \in Chains :
          /\ c[2] = d /\ rows[c] # None
          /\ \/ /\ what \in Warnings /\ rows[c].disp \in Warnings
                /\ rows[c].text = Text[b] /\ rows[c].areas = areas
             \/ what = "cancelled" /\ rows[c].disp = "cancelled" /\ rows[c].last = IdOf(b)
    BY <1>7 DEF RowSays
  <2>2. alias' = alias
    BY <1>2, <2>1 DEF FeedInv
  <2>3. Alike(rows[c], rows'[c])
    BY <1>1 DEF RowsKept
  <2>4. QED
    BY <2>1, <2>2, <2>3 DEF RowSays, Alike, IdOf
<1>8. ASSUME NEW d \in Dests, NEW i \in DOMAIN log[d], Stands(log[d], i),
             log[d][i].what \in Warnings \cup {"cancelled"}
      PROVE  /\ seen' > Nth[log[d][i].alert]
                \/ RowSays(d, log[d][i].what, log[d][i].alert, log[d][i].areas)'
             /\ \A e \in Pending' :
                  (e.dest = d /\ e.alert = log[d][i].alert /\ e.areas = log[d][i].areas)
                    => e.disp = "cleared"
  <2> DEFINE b == log[d][i].alert
             what == log[d][i].what
             areas == log[d][i].areas
  <2>1. /\ what # "detail" /\ b \in Rest /\ Nth[b] \in Nat
        /\ what = "cancelled" <=> Type[b] = "Cancel"
    BY <1>8, RestTypes DEF LogInv, Dated, Warnings
  <2>2. /\ seen > Nth[b] \/ RowSays(d, what, b, areas)
        /\ \A e \in Pending : (e.dest = d /\ e.alert = b /\ e.areas = areas) => e.disp = "cleared"
    BY <1>8 DEF HeardInv
  <2>3. /\ what \in Warnings \cup {"cancelled"}
        /\ b' = b /\ what' = what /\ areas' = areas
    BY <1>1, <1>8
  <2> HIDE DEF b, what, areas
  <2>4. seen' > Nth[b] \/ RowSays(d, what, b, areas)'
    <3>1. RowSays(d, what, b, areas) => RowSays(d, what, b, areas)'
      BY <1>7, <2>1, <2>3
    <3>2. seen > Nth[b] => seen' > Nth[b]
      BY <1>1, <2>1
    <3>3. QED
      BY <2>2, <3>1, <3>2
  <2>5. ASSUME NEW e \in NewCards(a), e.dest = d, e.alert = b, e.areas = areas
        PROVE  e.disp = "cleared"
    <3>1. a = b /\ ~(seen > Nth[b])
      BY <1>1, <1>3, <2>1, <2>5
    <3>2. PICK c \in Chains :
            /\ c[2] = d /\ rows[c] # None
            /\ \/ /\ what \in Warnings /\ rows[c].disp \in Warnings
                  /\ rows[c].text = Text[b] /\ rows[c].areas = areas
               \/ what = "cancelled" /\ rows[c].disp = "cancelled" /\ rows[c].last = IdOf(b)
      BY <2>2, <3>1 DEF RowSays
    <3>3. rows[c] \in RowsOf(a, d)
      BY <1>1, <3>2, PollSees DEF RowsOf
    <3>4. PICK t \in Targets(a) : e = CardFor(a, t)
      BY <1>1, <2>5, NewCardFacts
    <3>5. t.dest = d /\ e.disp = t.disp /\ t.areas = areas /\ Aims(a, d, t)
      BY <1>1, <2>5, <3>4, CardForFields, TargetTypes
    <3>6. ~Cancels(a, d, t)
      BY <2>1, <3>1, <3>2, <3>3 DEF Cancels, Warnings
    <3>7. ~First(a, d, t)
      BY <3>3 DEF First
    <3>8. ~Renews(a, d, t)
      <4>1. Renews(a, d, t) => t.areas = Areas(a, d)
        BY <1>1, <3>5, AimFields
      <4>2. QED
        BY <2>1, <3>1, <3>2, <3>3, <3>5, <4>1 DEF Renews, Warnings
    <3>9. Clears(a, d, t)
      BY <3>5, <3>6, <3>7, <3>8 DEF Aims
    <3>10. QED
      BY <1>1, <3>5, <3>9, AimFields
  <2>6. \A e \in Pending' : (e.dest = d /\ e.alert = b /\ e.areas = areas) => e.disp = "cleared"
    BY <1>2, <2>2, <2>5
  <2>7. QED
    BY <2>4, <2>6 DEF b, what, areas
<1>9. HeardOnce'
  <2>1. HeardOnce
    BY DEF HeardInv
  <2>2. QED
    BY <1>1, <2>1, HeardOnceIn
<1>10. HeardInv'
  BY <1>1, <1>8, <1>9 DEF HeardInv
<1>11. QED
  BY <1>4, <1>6, <1>10

LEMMA LogDomain ==
  ASSUME TypeOK, NEW d \in Dests
  PROVE  DOMAIN log[d] = 1..Len(log[d]) /\ Len(log[d]) \in Nat
<1>1. log[d] \in Seq(LogEntry)
  BY DEF TypeOK
<1>2. QED
  BY <1>1

\* An entry of the log after one more was heard: an old one, and what stands
\* stood before, or the new one.
LEMMA OneMore ==
  ASSUME TypeOK, NEW e, e.dest \in Dests, e.alert \in Alerts,
         NEW what \in Disps \cup {"detail"}, NEW areas \in Scopes,
         NEW known \in BOOLEAN, Hears(e, what, areas, known)
  PROVE  \A d \in Dests :
           /\ \A k \in DOMAIN log[d] : log'[d][k] = log[d][k]
           /\ \A i \in DOMAIN log'[d] :
                \/ /\ i \in DOMAIN log[d] /\ log'[d][i] = log[d][i]
                   /\ Stands(log'[d], i) => Stands(log[d], i)
                   /\ (Stands(log'[d], i) /\ d = e.dest /\ what # "detail") =>
                        what # "cleared" /\ areas = log[d][i].areas
                \/ /\ d = e.dest /\ i \notin DOMAIN log[d] /\ i = Len(log[d]) + 1
                   /\ \A k \in DOMAIN log[d] : k < i
                   /\ log'[d][i].what = what /\ log'[d][i].alert = e.alert
                   /\ log'[d][i].known = known /\ log'[d][i].areas = areas
<1> DEFINE n == Len(log[e.dest]) + 1
           new == [what |-> what, alert |-> e.alert, areas |-> areas, known |-> known]
<1>1. /\ \A d \in Dests : d # e.dest => log'[d] = log[d]
      /\ n \in Nat \ {0} /\ DOMAIN log[e.dest] = 1..(n - 1)
      /\ DOMAIN log'[e.dest] = 1..n
      /\ \A i \in DOMAIN log[e.dest] : log'[e.dest][i] = log[e.dest][i]
      /\ log'[e.dest][n] = new
  BY HearsFacts
<1>2. new.what = what /\ new.alert = e.alert /\ new.areas = areas
  OBVIOUS
<1>3. new.known = known
  BY Zenon
<1> HIDE DEF n, new
<1>4. \A i \in 1..n : i = n \/ (i \in 1..(n - 1) /\ n > i)
  BY <1>1
<1>5. \A i \in 1..(n - 1) : i \in 1..n /\ i < n /\ i # n
  BY <1>1
<1>6. ASSUME NEW d \in Dests, d # e.dest, NEW i \in DOMAIN log'[d]
      PROVE  /\ i \in DOMAIN log[d] /\ log'[d][i] = log[d][i]
             /\ Stands(log'[d], i) => Stands(log[d], i)
  BY <1>1, <1>6
<1>7. ASSUME NEW i \in 1..(n - 1)
      PROVE  /\ Stands(log'[e.dest], i) => Stands(log[e.dest], i)
             /\ (Stands(log'[e.dest], i) /\ what # "detail") =>
                  what # "cleared" /\ areas = log[e.dest][i].areas
  <2>1. Stands(log'[e.dest], i) => Stands(log[e.dest], i)
    BY <1>1, <1>5, <1>7 DEF Stands
  <2>2. n \in 1..n /\ n > i
    BY <1>1, <1>5
  <2>3. QED
    BY <1>1, <1>2, <2>1, <2>2 DEF Stands
<1>8. n \notin 1..(n - 1) /\ n = Len(log[e.dest]) + 1
  BY <1>5 DEF n
<1>9. ASSUME NEW i \in 1..n
      PROVE  \/ /\ i \in 1..(n - 1) /\ log'[e.dest][i] = log[e.dest][i]
                /\ Stands(log'[e.dest], i) => Stands(log[e.dest], i)
                /\ (Stands(log'[e.dest], i) /\ what # "detail") =>
                     what # "cleared" /\ areas = log[e.dest][i].areas
             \/ /\ i = n
                /\ log'[e.dest][i].what = what /\ log'[e.dest][i].alert = e.alert
                /\ log'[e.dest][i].known = known /\ log'[e.dest][i].areas = areas
  BY <1>1, <1>2, <1>3, <1>4, <1>7
<1>10. SUFFICES ASSUME NEW d \in Dests
       PROVE  /\ \A k \in DOMAIN log[d] : log'[d][k] = log[d][k]
              /\ \A i \in DOMAIN log'[d] :
                   \/ /\ i \in DOMAIN log[d] /\ log'[d][i] = log[d][i]
                      /\ Stands(log'[d], i) => Stands(log[d], i)
                      /\ (Stands(log'[d], i) /\ d = e.dest /\ what # "detail") =>
                           what # "cleared" /\ areas = log[d][i].areas
                   \/ /\ d = e.dest /\ i \notin DOMAIN log[d] /\ i = Len(log[d]) + 1
                      /\ \A k \in DOMAIN log[d] : k < i
                      /\ log'[d][i].what = what /\ log'[d][i].alert = e.alert
                      /\ log'[d][i].known = known /\ log'[d][i].areas = areas
  OBVIOUS
<1>11. CASE d # e.dest
  BY <1>1, <1>6, <1>11
<1>12. CASE d = e.dest
  <2>1. \A k \in DOMAIN log[d] : log'[d][k] = log[d][k]
    BY <1>1, <1>12
  <2>2. \A k \in DOMAIN log[d] : k < n
    BY <1>1, <1>5, <1>12
  <2>3. QED
    BY <1>1, <1>8, <1>9, <1>12, <2>1, <2>2
<1>13. QED
  BY <1>11, <1>12

\* Two entries that were there before are no repetition now.
LEMMA OldPairs ==
  ASSUME TypeOK, HeardOnce, NEW d \in Dests,
         \A k \in DOMAIN log[d] : log'[d][k] = log[d][k],
         NEW i \in DOMAIN log[d], NEW j \in DOMAIN log[d],
         i < j, Nth[log'[d][i].alert] = Nth[log'[d][j].alert],
         log'[d][i].areas = log'[d][j].areas,
         \/ {log'[d][i].what, log'[d][j].what} \subseteq Warnings
         \/ {log'[d][i].what, log'[d][j].what} = {"cancelled"}
  PROVE  \/ ~log'[d][i].known
         \/ \E k \in i..j : log'[d][k].what # "detail" /\ Else(log'[d], i, k)
<1>1. OnceIn(log[d])
  BY HeardOnceIn
<1>2. /\ Nth[log[d][i].alert] = Nth[log[d][j].alert]
      /\ log[d][i].areas = log[d][j].areas
      /\ \/ {log[d][i].what, log[d][j].what} \subseteq Warnings
         \/ {log[d][i].what, log[d][j].what} = {"cancelled"}
  <2>1. log'[d][i] = log[d][i] /\ log'[d][j] = log[d][j]
    OBVIOUS
  <2>2. QED
    BY <2>1
<1>3. ~log[d][i].known \/ \E k \in i..j : log[d][k].what # "detail" /\ Else(log[d], i, k)
  BY <1>1, <1>2, Zenon DEF OnceIn
<1>4. \A k \in i..j : k \in DOMAIN log[d]
  BY LogDomain
<1>5. QED
  BY <1>3, <1>4 DEF Else

\* One more entry, of the card on the air, no repetition.
LEMMA HearsOnce ==
  ASSUME Typed, LogInv, HeardInv, FeedInv, air \in Card, NEW known \in BOOLEAN,
         Hears(air, air.disp, air.areas, known)
  PROVE  HeardOnce'
<1> USE DEF Typed
<1>1. /\ air.alert \in Alerts /\ air.dest \in Dests /\ air.disp \in Disps
      /\ air \in Pending /\ air.alert \in Rest /\ air.areas \in Scopes
  <2>1. air \in Pending
    BY CardFields DEF Pending, OnAir
  <2>2. QED
    BY <2>1, CardFields DEF FeedInv
<1>2. \A d \in Dests :
        /\ \A k \in DOMAIN log[d] : log'[d][k] = log[d][k]
        /\ \A i \in DOMAIN log'[d] :
             \/ i \in DOMAIN log[d] /\ log'[d][i] = log[d][i]
             \/ /\ d = air.dest /\ i \notin DOMAIN log[d] /\ i = Len(log[d]) + 1
                /\ \A k \in DOMAIN log[d] : k < i
                /\ log'[d][i].what = air.disp /\ log'[d][i].alert = air.alert
                /\ log'[d][i].areas = air.areas
  BY <1>1, OneMore DEF Disps
<1>3. \A d \in Dests : DOMAIN log[d] = 1..Len(log[d]) /\ Len(log[d]) \in Nat
  BY LogDomain
<1>4. SUFFICES ASSUME NEW d \in Dests, NEW i \in DOMAIN log'[d], NEW j \in DOMAIN log'[d],
                      i < j, Nth[log'[d][i].alert] = Nth[log'[d][j].alert],
                      log'[d][i].areas = log'[d][j].areas,
                      \/ {log'[d][i].what, log'[d][j].what} \subseteq Warnings
                      \/ {log'[d][i].what, log'[d][j].what} = {"cancelled"}
               PROVE  \/ ~log'[d][i].known
                      \/ \E k \in i..j : log'[d][k].what # "detail" /\ Else(log'[d], i, k)
  BY HeardOnceIn DEF OnceIn
<1>5. i \in DOMAIN log[d] /\ log'[d][i] = log[d][i] /\ i \in Nat
  <2>1. \/ j \in 1..Len(log[d]) \/ j = Len(log[d]) + 1
    BY <1>2, <1>3
  <2>2. i # Len(log[d]) + 1
    BY <1>3, <1>4, <2>1
  <2>3. QED
    BY <1>2, <1>3, <2>2
<1>6. CASE j \in DOMAIN log[d]
  BY <1>2, <1>4, <1>5, <1>6, OldPairs DEF HeardInv
<1>7. CASE j \notin DOMAIN log[d]
  <2>1. /\ j = Len(log[d]) + 1
        /\ d = air.dest /\ log'[d][j].what = air.disp /\ log'[d][j].alert = air.alert
        /\ log'[d][j].areas = air.areas
        /\ \A k \in DOMAIN log[d] : k < j /\ log'[d][k] = log[d][k]
    BY <1>2, <1>7
  <2>2. /\ log[d][i].what \in Warnings \cup {"cancelled"}
        /\ air.disp \in Warnings \cup {"cancelled"}
        /\ Nth[log[d][i].alert] = Nth[air.alert] /\ air.areas = log[d][i].areas
    BY <1>4, <1>5, <2>1
  <2>3. log[d][i].alert \in Rest
    BY <1>5, <2>2 DEF LogInv, Dated, Warnings
  <2>4. log[d][i].alert = air.alert
    BY <1>1, <2>2, <2>3, FeedAssumption DEF Rest
  <2>5. ~Stands(log[d], i)
    <3>1. air.disp # "cleared"
      BY <2>2 DEF Warnings
    <3>2. QED
      BY <1>1, <1>5, <2>1, <2>2, <2>4, <3>1 DEF HeardInv
  <2>6. CASE \E k \in DOMAIN log[d] :
               k > i /\ log[d][k].what # "detail" /\ Else(log[d], i, k)
    <3>1. PICK k \in DOMAIN log[d] :
            k > i /\ log[d][k].what # "detail" /\ Else(log[d], i, k)
      BY <2>6
    <3>2. k < j /\ log'[d][k] = log[d][k] /\ k \in Nat
      BY <1>3, <2>1, <3>1
    <3>3. k \in i..j
      BY ONLY <1>3, <1>5, <2>1, <3>1, <3>2
    <3>4. QED
      BY <1>5, <3>1, <3>2, <3>3 DEF Else
  <2>7. QED
    BY <1>5, <2>5, <2>6 DEF Stands, Else
<1>8. QED
  BY <1>6, <1>7

LEMMA BetweenLog ==
  ASSUME Typed, FeedInv, LogInv, PendInv, Between
  PROVE  LogInv' /\ PendInv'
<1> USE DEF Typed
<1>1. seen' = seen /\ Pending' \subseteq Pending /\ seen \in Nat
  BY DEF Between, TypeOK
<1>2. PendInv'
  BY <1>1 DEF PendInv
<1>3. \A x : Dated(x, seen, Pending) => Dated(x, seen', Pending')
  BY <1>1 DEF Dated
<1>4. CASE Quiet
  BY <1>2, <1>3, <1>4 DEF Quiet, LogInv
<1>5. CASE HearsDetail
  <2>1. PICK known \in BOOLEAN : Hears(air, "detail", {}, known)
    BY <1>5 DEF HearsDetail
  <2>2. air.dest \in Dests /\ air.alert \in Alerts
    BY <1>5, DetailFields DEF HearsDetail
  <2>3. \A d \in Dests : \A i \in DOMAIN log'[d] :
          \/ i \in DOMAIN log[d] /\ log'[d][i] = log[d][i]
          \/ log'[d][i].what = "detail"
    BY <2>1, <2>2, NoScope, OneMore DEF Disps
  <2>4. \A x : x.what = "detail" => Dated(x, seen', Pending')
    BY DEF Dated
  <2>5. QED
    BY <1>2, <1>3, <2>3, <2>4 DEF LogInv
<1>6. CASE Unanswered \/ Accepted
  <2>1. PICK known \in BOOLEAN : Hears(air, air.disp, air.areas, known)
    BY <1>6 DEF Unanswered, Accepted
  <2>2. /\ air.alert \in Alerts /\ air.dest \in Dests /\ air.disp \in Disps
        /\ air \in Pending /\ Pending' \subseteq Cards /\ air.areas \in Scopes
    <3>1. air \in Card /\ Pending' \subseteq Cards
      BY <1>6 DEF Unanswered, Accepted
    <3>2. air \in Pending
      BY <3>1, CardFields DEF Pending, OnAir
    <3>3. QED
      BY <3>1, <3>2, CardFields
  <2>3. \A d \in Dests : \A i \in DOMAIN log'[d] :
          \/ i \in DOMAIN log[d] /\ log'[d][i] = log[d][i]
          \/ log'[d][i].what = air.disp /\ log'[d][i].alert = air.alert
    BY <2>1, <2>2, OneMore DEF Disps
  <2>4. /\ air.alert \in Rest /\ Nth[air.alert] <= seen
        /\ air.disp = "cancelled" <=> Type[air.alert] = "Cancel"
    BY <2>2 DEF FeedInv, PendInv
  <2>5. \A e \in Pending' : Nth[e.alert] = seen
    BY <2>2 DEF FeedInv, WaitingIsCurrent, Cards
  <2>6. \A x : x.what = air.disp /\ x.alert = air.alert => Dated(x, seen', Pending')
    BY <1>1, <2>4, <2>5 DEF Dated
  <2>7. QED
    BY <1>2, <1>3, <2>3, <2>6 DEF LogInv
<1>7. QED
  BY <1>4, <1>5, <1>6 DEF Between

\* The rows still say what they said when none was rewritten.
LEMMA StillSays ==
  ASSUME RowsKept, alias' = alias, NEW d \in Dests, NEW what, NEW b \in Rest, NEW areas,
         RowSays(d, what, b, areas)
  PROVE  \E c \in Chains :
           /\ c[2] = d /\ rows'[c] # None
           /\ \/ /\ what \in Warnings /\ rows'[c].disp \in Warnings
                 /\ rows'[c].text = Text[b] /\ rows'[c].areas = areas
              \/ /\ what = "cancelled" /\ rows'[c].disp = "cancelled"
                 /\ rows'[c].last = IdOf(b)'
<1>1. IdOf(b)' = IdOf(b)
  BY DEF IdOf
<1>2. QED
  BY <1>1 DEF RowSays, RowsKept, Alike

\* A worker's step, or a crash: what stands stays behind, or in its row.
LEMMA BetweenHeard ==
  ASSUME Typed, FeedInv, Apart, LogInv, HeardInv, Between
  PROVE  HeardInv'
<1> USE DEF Typed
<1>1. /\ seen' = seen /\ alias' = alias /\ Pending' \subseteq Pending /\ seen \in Nat
  BY DEF Between, TypeOK
<1>2. ASSUME NEW d \in Dests, NEW i \in DOMAIN log[d],
             log[d][i].what \in Warnings \cup {"cancelled"}
      PROVE  log[d][i].alert \in Rest /\ Nth[log[d][i].alert] \in Nat
  BY <1>2, RestTypes DEF LogInv, Dated, Warnings
<1>3. ASSUME RowsKept,
             \A d \in Dests : \A i \in DOMAIN log'[d] :
               \/ /\ i \in DOMAIN log[d] /\ log'[d][i] = log[d][i]
                  /\ Stands(log'[d], i) => Stands(log[d], i)
               \/ ~log'[d][i].known
               \/ log'[d][i].what = "detail"
      PROVE  \A d \in Dests : \A i \in DOMAIN log'[d] :
               (Stands(log'[d], i) /\ log'[d][i].what \in Warnings \cup {"cancelled"}) =>
                 /\ \/ seen' > Nth[log'[d][i].alert]
                    \/ RowSays(d, log[d][i].what, log[d][i].alert, log[d][i].areas)'
                 /\ \A e \in Pending' :
                      (e.dest = d /\ e.alert = log'[d][i].alert
                         /\ e.areas = log'[d][i].areas) => e.disp = "cleared"
  <2>1. SUFFICES ASSUME NEW d \in Dests, NEW i \in DOMAIN log'[d], Stands(log'[d], i),
                        log'[d][i].what \in Warnings \cup {"cancelled"}
                 PROVE  /\ \/ seen' > Nth[log'[d][i].alert]
                           \/ RowSays(d, log[d][i].what, log[d][i].alert, log[d][i].areas)'
                        /\ \A e \in Pending' :
                             (e.dest = d /\ e.alert = log'[d][i].alert
                                /\ e.areas = log'[d][i].areas) => e.disp = "cleared"
    OBVIOUS
  <2>2. /\ i \in DOMAIN log[d] /\ log'[d][i] = log[d][i] /\ Stands(log[d], i)
        /\ log[d][i].what \in Warnings \cup {"cancelled"}
    BY <1>3, <2>1 DEF Stands, Warnings
  <2> DEFINE b == log[d][i].alert
             what == log[d][i].what
             areas == log[d][i].areas
  <2>3. /\ seen > Nth[b] \/ RowSays(d, what, b, areas)
        /\ \A e \in Pending : (e.dest = d /\ e.alert = b /\ e.areas = areas) => e.disp = "cleared"
    BY <2>2 DEF HeardInv
  <2>4. b \in Rest /\ b' = b /\ what' = what /\ areas' = areas
    BY <1>2, <2>2
  <2> HIDE DEF b, what, areas
  <2>5. RowSays(d, what, b, areas) => RowSays(d, what, b, areas)'
    <3>1. SUFFICES ASSUME RowSays(d, what, b, areas) PROVE RowSays(d, what, b, areas)'
      OBVIOUS
    <3>2. \E c \in Chains :
            /\ c[2] = d /\ rows'[c] # None
            /\ \/ /\ what \in Warnings /\ rows'[c].disp \in Warnings
                  /\ rows'[c].text = Text[b] /\ rows'[c].areas = areas
               \/ /\ what = "cancelled" /\ rows'[c].disp = "cancelled"
                  /\ rows'[c].last = IdOf(b)'
      BY <1>1, <1>3, <2>4, <3>1, StillSays
    <3>3. QED
      BY <2>4, <3>2 DEF RowSays, IdOf
  <2>6. seen' > Nth[b] \/ RowSays(d, what, b, areas)'
    BY <1>1, <2>3, <2>5
  <2>7. \A e \in Pending' : (e.dest = d /\ e.alert = b /\ e.areas = areas) => e.disp = "cleared"
    BY <1>1, <2>3
  <2>8. log'[d][i].alert = b /\ log'[d][i].areas = areas
    BY <2>2 DEF b, areas
  <2>9. QED
    BY <2>6, <2>7, <2>8 DEF b, what, areas
<1>4. CASE Quiet
  <2>1. HeardOnce'
    BY <1>4, HeardOnceIn DEF Quiet, HeardInv
  <2>2. QED
    BY <1>3, <1>4, <2>1 DEF Quiet, HeardInv
<1>5. CASE HearsDetail
  <2>1. PICK known \in BOOLEAN : Hears(air, "detail", {}, known)
    BY <1>5 DEF HearsDetail
  <2>2. air.dest \in Dests /\ air.alert \in Alerts /\ RowsKept
    BY <1>5, DetailFields DEF HearsDetail
  <2>3. \A d \in Dests :
          /\ \A k \in DOMAIN log[d] : log'[d][k] = log[d][k]
          /\ \A i \in DOMAIN log'[d] :
               \/ /\ i \in DOMAIN log[d] /\ log'[d][i] = log[d][i]
                  /\ Stands(log'[d], i) => Stands(log[d], i)
               \/ log'[d][i].what = "detail"
    BY <2>1, <2>2, NoScope, OneMore DEF Disps
  <2>4. HeardOnce'
    <3>1. SUFFICES ASSUME NEW d \in Dests, NEW i \in DOMAIN log'[d], NEW j \in DOMAIN log'[d],
                          i < j, Nth[log'[d][i].alert] = Nth[log'[d][j].alert],
                          log'[d][i].areas = log'[d][j].areas,
                          \/ {log'[d][i].what, log'[d][j].what} \subseteq Warnings
                          \/ {log'[d][i].what, log'[d][j].what} = {"cancelled"}
                   PROVE  \/ ~log'[d][i].known
                          \/ \E k \in i..j :
                               log'[d][k].what # "detail" /\ Else(log'[d], i, k)
      BY HeardOnceIn DEF OnceIn
    <3>2. log'[d][i].what # "detail" /\ log'[d][j].what # "detail"
      BY <3>1 DEF Warnings
    <3>3. i \in DOMAIN log[d] /\ j \in DOMAIN log[d]
      BY <2>3, <3>2
    <3>4. QED
      BY <2>3, <3>1, <3>3, OldPairs DEF HeardInv
  <2>5. QED
    BY <1>3, <2>2, <2>3, <2>4 DEF HeardInv
<1>6. ASSUME Unanswered \/ Accepted
      PROVE  /\ air \in Card /\ air \in Pending /\ Pending' \subseteq Cards
             /\ air.dest \in Dests /\ air.alert \in Alerts /\ air.disp \in Disps
             /\ air.areas \in Scopes
             /\ ChainOf(air) \in Chains /\ ChainOf(air)[2] = air.dest
             /\ HeardOnce'
  <2>1. air \in Card /\ Pending' \subseteq Cards
    BY <1>6 DEF Unanswered, Accepted
  <2>2. air \in Pending
    BY <2>1, CardFields DEF Pending, OnAir
  <2>3. PICK known \in BOOLEAN : Hears(air, air.disp, air.areas, known)
    BY <1>6 DEF Unanswered, Accepted
  <2>4. HeardOnce'
    BY <2>1, <2>3, HearsOnce
  <2>5. QED
    BY <2>1, <2>2, <2>4, CardFields
<1>7. CASE Unanswered
  <2>1. PICK known \in BOOLEAN : ~known /\ Hears(air, air.disp, air.areas, known) /\ RowsKept
    BY <1>7 DEF Unanswered
  <2>2. \A d \in Dests : \A i \in DOMAIN log'[d] :
          \/ /\ i \in DOMAIN log[d] /\ log'[d][i] = log[d][i]
             /\ Stands(log'[d], i) => Stands(log[d], i)
          \/ ~log'[d][i].known
    BY <1>6, <1>7, <2>1, OneMore DEF Disps
  <2>3. QED
    BY <1>3, <1>6, <1>7, <2>1, <2>2 DEF HeardInv
<1>8. CASE Accepted
  <2>1. /\ \A c \in Chains : c # ChainOf(air) => rows'[c] = rows[c]
        /\ RowOf(rows'[ChainOf(air)], air)
    BY <1>8 DEF Accepted
  <2>2. PICK known \in BOOLEAN : Hears(air, air.disp, air.areas, known)
    BY <1>8 DEF Accepted
  <2>3. \A d \in Dests : \A i \in DOMAIN log'[d] :
          \/ /\ i \in DOMAIN log[d] /\ log'[d][i] = log[d][i]
             /\ Stands(log'[d], i) => Stands(log[d], i)
             /\ (Stands(log'[d], i) /\ d = air.dest) =>
                  air.disp # "cleared" /\ air.areas = log[d][i].areas
          \/ /\ d = air.dest /\ log'[d][i].areas = air.areas
             /\ log'[d][i].what = air.disp /\ log'[d][i].alert = air.alert
    BY <1>6, <1>8, <2>2, OneMore DEF Disps
  <2>4. SUFFICES ASSUME NEW d \in Dests, NEW i \in DOMAIN log'[d], Stands(log'[d], i),
                        log'[d][i].what \in Warnings \cup {"cancelled"}
                 PROVE  /\ \/ seen' > Nth[log'[d][i].alert]
                           \/ RowSays(d, log[d][i].what, log[d][i].alert, log[d][i].areas)'
                        /\ \A e \in Pending' :
                             (e.dest = d /\ e.alert = log'[d][i].alert
                                /\ e.areas = log'[d][i].areas) => e.disp = "cleared"
    BY <1>6, <1>8 DEF HeardInv
  <2>5. CASE /\ i \in DOMAIN log[d] /\ log'[d][i] = log[d][i] /\ Stands(log[d], i)
             /\ d = air.dest => air.disp # "cleared" /\ air.areas = log[d][i].areas
    <3> DEFINE b == log[d][i].alert
               what == log[d][i].what
               areas == log[d][i].areas
    <3>1. /\ seen > Nth[b] \/ RowSays(d, what, b, areas)
          /\ \A e \in Pending : (e.dest = d /\ e.alert = b /\ e.areas = areas) => e.disp = "cleared"
          /\ what \in Warnings \cup {"cancelled"} /\ b \in Rest /\ Nth[b] \in Nat
      BY <1>2, <2>4, <2>5 DEF HeardInv
    <3>2. /\ b' = b /\ what' = what /\ areas' = areas
          /\ Nth[b] <= seen /\ \A e \in Pending : Nth[b] <= Nth[e.alert]
      BY <2>4, <2>5 DEF LogInv, Dated, Warnings
    <3> HIDE DEF b, what, areas
    <3>3. d = air.dest => seen > Nth[b]
      <4>1. SUFFICES ASSUME d = air.dest, ~(seen > Nth[b]) PROVE FALSE
        OBVIOUS
      <4>2. /\ air.alert \in Rest /\ Nth[air.alert] <= seen /\ Nth[air.alert] \in Nat
            /\ Nth[b] <= Nth[air.alert]
        BY <1>6, <1>8, <3>2, RestTypes DEF FeedInv
      <4>3. Nth[air.alert] = Nth[b]
        BY <1>1, <3>1, <4>1, <4>2
      <4>4. air.alert = b
        BY <3>1, <4>2, <4>3, FeedAssumption DEF Rest
      <4>5. air.areas = areas /\ air.disp # "cleared"
        BY <2>5, <4>1 DEF areas
      <4>6. QED
        BY <1>6, <1>8, <3>1, <4>1, <4>4, <4>5
    <3>4. RowSays(d, what, b, areas) /\ d # air.dest => RowSays(d, what, b, areas)'
      <4>1. IdOf(b)' = IdOf(b)
        BY <1>1, <3>2 DEF IdOf
      <4>2. QED
        BY <1>6, <1>8, <2>1, <3>2, <4>1 DEF RowSays
    <3>5. seen' > Nth[b] \/ RowSays(d, what, b, areas)'
      BY <1>1, <3>1, <3>3, <3>4
    <3>6. \A e \in Pending' : (e.dest = d /\ e.alert = b /\ e.areas = areas) => e.disp = "cleared"
      BY <1>1, <3>1
    <3>7. log'[d][i].alert = b /\ log'[d][i].areas = areas
      BY <2>5 DEF b, areas
    <3>8. QED
      BY <3>5, <3>6, <3>7 DEF b, what, areas
  <2>6. CASE /\ d = air.dest /\ log'[d][i].areas = air.areas
             /\ log'[d][i].what = air.disp /\ log'[d][i].alert = air.alert
    <3>1. air.disp \in Warnings \cup {"cancelled"}
      BY <2>4, <2>6
    <3>2. \E c \in Chains :
            /\ c[2] = d /\ rows'[c] # None
            /\ \/ /\ log'[d][i].what \in Warnings /\ rows'[c].disp \in Warnings
                  /\ rows'[c].text = Text[log'[d][i].alert]
                  /\ rows'[c].areas = log'[d][i].areas
               \/ /\ log'[d][i].what = "cancelled" /\ rows'[c].disp = "cancelled"
                  /\ rows'[c].last = IdOf(air.alert)
      BY <1>6, <1>8, <2>1, <2>6, <3>1 DEF RowOf
    <3>3. RowSays(d, log[d][i].what, log[d][i].alert, log[d][i].areas)'
      BY <1>1, <2>6, <3>2 DEF RowSays, IdOf
    <3>4. \A e \in Pending' : e.dest = d /\ e.areas = air.areas => e.alert # air.alert
      BY <1>6, <1>8, <2>6, CardFields DEF Apart, OnAir
    <3>5. QED
      BY <2>6, <3>3, <3>4
  <2>7. QED
    BY <2>3, <2>4, <2>5, <2>6
<1>9. QED
  BY <1>4, <1>5, <1>7, <1>8 DEF Between

LEMMA HeardInit == Init => LogInv /\ PendInv /\ HeardInv
<1> SUFFICES ASSUME Init PROVE LogInv /\ PendInv /\ HeardInv
  OBVIOUS
<1>1. Pending = {} /\ \A d \in Dests : DOMAIN log[d] = {}
  BY NoElements DEF Init, Pending, OnAir
<1>2. HeardOnce
  BY <1>1 DEF HeardOnce
<1>3. QED
  BY <1>1, <1>2 DEF LogInv, PendInv, HeardInv

LEMMA HeardAlways == Spec => []LogInv /\ []HeardOnce
<1> DEFINE Inv == Apart /\ AnswerInv /\ LogInv /\ PendInv /\ HeardInv
<1>1. Typed /\ FeedInv /\ [Next]_vars => FeedInv'
  BY FeedStep
<1>2. Typed /\ FeedInv /\ Inv /\ [Next]_vars => Inv'
  <2>1. Typed /\ FeedInv /\ Inv /\ [Next]_vars => Apart' /\ AnswerInv'
    BY AnswerStep
  <2>2. Typed /\ FeedInv /\ Inv /\ [Next]_vars => LogInv' /\ PendInv' /\ HeardInv'
    BY Steps, PollHeard, BetweenLog, BetweenHeard
  <2>3. QED
    BY <2>1, <2>2
<1>3. Inv => LogInv /\ HeardOnce
  BY DEF HeardInv
<1>4. Init => Inv
  BY AnswerInit, HeardInit
<1> HIDE DEF Inv
<1>5. QED
  BY <1>1, <1>2, <1>3, <1>4, FeedInit, TypedAlways, PTL DEF Spec

\* A product's warning, and its cancellation, is heard once for the same
\* counties by a destination whose radio answered, unless an all-clear or a
\* card for other counties came between: the comparison of _delivery_targets
\* with the row and with the pending cards.
THEOREM NotHeardAgain == Spec => []HeardOnce
  BY HeardAlways, PTL
----------------------------------------------------------------------------
(* When no poll finds a target, everyone has been told.                    *)

\* One chain for a destination: of its row, and of its pending cards.
RootInv ==
  /\ \A b, c \in Chains : (rows[b] # None /\ rows[c] # None /\ b[2] = c[2]) => b = c
  /\ \A e \in Pending, c \in Chains :
       (rows[c] # None /\ c[2] = e.dest) => c = ChainOf(e)
  /\ \A e, f \in Pending : e.dest = f.dest => e.root = f.root

\* A new card joins the chain of the row, and that of the pending cards.
LEMMA NewCardRoot ==
  ASSUME TypeOK, FeedInv, RootInv, NEW a \in Rest, Nth[a] = listed, NEW e \in NewCards(a)
  PROVE  /\ \A c \in Chains : (rows[c] # None /\ c[2] = e.dest) => c = ChainOf(e)
         /\ \A f \in Pending : f.dest = e.dest => f.root = e.root
<1>1. a \in Alerts
  BY RestTypes
<1>2. PICK t \in Targets(a) : e = CardFor(a, t)
  BY <1>1, NewCardFacts
<1> DEFINE d == t.dest
<1>3. e.dest = d /\ e.root = t.root /\ Aims(a, d, t)
  BY <1>1, <1>2, CardForFields, TargetTypes
<1> HIDE DEF d
<1>4. /\ Prior(a) = {c \in Chains : rows[c] # None}
      /\ RelatedPending(a) = Pending
  BY <1>1, PollSees
<1>5. PICK P \in SUBSET Pending :
        /\ t.root = RootFor(a, d, P)
        /\ \/ \E c \in Prior(a) : c[2] = d
           \/ \E f \in P : f.dest = d
           \/ P = Pending
  <2>1. Active(a) \in SUBSET Pending /\ {} \in SUBSET Pending /\ Pending \in SUBSET Pending
    BY DEF Active, RelatedPending
  <2>2. d \in Recipients(a) \cup Going(a) =>
          (\E c \in Prior(a) : c[2] = d) \/ (\E f \in Active(a) : f.dest = d)
    BY DEF Recipients, Going
  <2>3. CASE Cancels(a, d, t) \/ Clears(a, d, t)
    <3>1. t.root = RootFor(a, d, Active(a)) /\ d \in Recipients(a) \cup Going(a)
      BY <2>3, TargetFields DEF Cancels, Clears
    <3>2. QED
      BY <2>1, <2>2, <3>1
  <2>4. CASE First(a, d, t)
    <3>1. t.root = RootFor(a, d, Pending)
      BY <1>4, <2>4, TargetFields DEF First
    <3>2. QED
      BY <2>1, <3>1
  <2>5. CASE Renews(a, d, t)
    <3>1. t.root = RootFor(a, d, {}) /\ \E c \in Prior(a) : c[2] = d
      BY <2>5, TargetFields DEF Renews, RowsOf
    <3>2. QED
      BY <2>1, <3>1
  <2>6. QED
    BY <1>3, <2>3, <2>4, <2>5 DEF Aims
<1>6. ChainOf(e) = <<t.root, d>>
  BY <1>3 DEF ChainOf
<1>7. CASE \E c \in Prior(a) : c[2] = d
  <2>1. PICK c \in Prior(a) : c[2] = d /\ c[1] = t.root
    BY <1>1, <1>5, <1>7, RootFacts
  <2>2. c \in Chains /\ rows[c] # None /\ c = ChainOf(e)
    BY <1>4, <1>6, <2>1 DEF Chains
  <2>3. \A f \in Pending : f.dest = d => c = ChainOf(f)
    BY <2>1, <2>2 DEF RootInv
  <2>4. \A f \in Pending : ChainOf(f)[1] = f.root
    BY DEF ChainOf
  <2>5. QED
    BY <1>3, <2>1, <2>2, <2>3, <2>4 DEF RootInv
<1>8. CASE ~(\E c \in Prior(a) : c[2] = d)
  <2>1. \A c \in Chains : rows[c] # None => c[2] # d
    BY <1>4, <1>8
  <2>2. (\E f \in P : f.dest = d) => \E f \in P : f.dest = d /\ f.root = t.root
    BY <1>1, <1>5, <1>8, RootFacts
  <2>3. \A f \in Pending : f.dest = d => f.root = t.root
    BY <1>5, <1>8, <2>2 DEF RootInv
  <2>4. QED
    BY <1>3, <2>1, <2>3
<1>9. QED
  BY <1>7, <1>8

LEMMA RootStep ==
  ASSUME Typed, FeedInv, RootInv, [Next]_vars
  PROVE  RootInv'
<1> USE DEF Typed
<1>1. ASSUME NEW a \in Rest, PollOf(a) PROVE RootInv'
  <2>1. /\ a \in Alerts /\ Nth[a] = listed /\ RowsKept
        /\ Pending' \subseteq (Pending \cup NewCards(a))
    BY <1>1, RestTypes, ProcessRows, PollPending DEF PollOf, RowsKept
  <2>2. \A c \in Chains : rows'[c] # None => rows[c] # None
    BY <2>1 DEF RowsKept, Alike
  <2>3. \A e \in NewCards(a) :
          /\ \A c \in Chains : (rows[c] # None /\ c[2] = e.dest) => c = ChainOf(e)
          /\ \A f \in Pending : f.dest = e.dest => f.root = e.root
    BY <2>1, NewCardRoot
  <2>4. \A e, f \in NewCards(a) : e.dest = f.dest => e = f
    BY <2>1, NewCardFacts
  <2>5. QED
    BY <2>1, <2>2, <2>3, <2>4 DEF RootInv, ChainOf
<1>2. CASE Between
  <2>1. Pending' \subseteq Pending
    BY <1>2 DEF Between
  <2>2. CASE RowsKept
    <3>1. \A c \in Chains : rows'[c] # None => rows[c] # None
      BY <2>2 DEF RowsKept, Alike
    <3>2. QED
      BY <2>1, <3>1 DEF RootInv, ChainOf
  <2>3. CASE Accepted
    <3>1. /\ air \in Pending /\ ChainOf(air) \in Chains /\ ChainOf(air)[2] = air.dest
          /\ ChainOf(air)[1] = air.root
      BY <2>3, CardFields DEF Accepted, Pending, OnAir
    <3>2. \A c \in Chains : rows'[c] # None => c = ChainOf(air) \/ rows[c] # None
      BY <2>3 DEF Accepted
    <3>3. \A b, c \in Chains : (rows'[b] # None /\ rows'[c] # None /\ b[2] = c[2]) => b = c
      BY <3>1, <3>2 DEF RootInv
    <3>4. \A e \in Pending : e.dest = air.dest => ChainOf(e) = ChainOf(air)
      BY <3>1 DEF RootInv, ChainOf
    <3>5. \A e \in Pending, c \in Chains :
            (rows'[c] # None /\ c[2] = e.dest) => c = ChainOf(e)
      BY <3>1, <3>2, <3>4 DEF RootInv
    <3>6. QED
      BY <2>1, <3>3, <3>5 DEF RootInv, ChainOf
  <2>4. QED
    BY <1>2, <2>2, <2>3 DEF Between, Quiet, HearsDetail, Unanswered
<1>3. QED
  BY <1>1, <1>2, Steps

\* The x-th entry is a card whose answer arrived; the i-th is the last one.
Answered(x) == x.known /\ x.what # "detail"
Latest(l, i) == /\ i \in DOMAIN l /\ Answered(l[i])
                /\ \A k \in DOMAIN l : Answered(l[k]) => k <= i

\* A destination heard no card and has no row, or has the row of the last one.
LastInv ==
  \A d \in Dests :
    \/ /\ \A i \in DOMAIN log[d] : ~Answered(log[d][i])
       /\ \A c \in Chains : c[2] = d => rows[c] = None
    \/ \E i \in DOMAIN log[d], c \in Chains :
         /\ Latest(log[d], i) /\ c[2] = d /\ rows[c] # None
         /\ rows[c].disp = log[d][i].what /\ rows[c].text = Text[log[d][i].alert]
         /\ rows[c].areas = log[d][i].areas

LEMMA LastKept ==
  ASSUME LastInv, RowsKept,
         \A d \in Dests :
           /\ \A k \in DOMAIN log[d] : k \in DOMAIN log'[d] /\ log'[d][k] = log[d][k]
           /\ \A i \in DOMAIN log'[d] : i \in DOMAIN log[d] \/ ~Answered(log'[d][i])
  PROVE  LastInv'
<1>1. SUFFICES ASSUME NEW d \in Dests
               PROVE  \/ /\ \A i \in DOMAIN log'[d] : ~Answered(log'[d][i])
                         /\ \A c \in Chains : c[2] = d => rows'[c] = None
                      \/ \E i \in DOMAIN log'[d], c \in Chains :
                           /\ Latest(log'[d], i) /\ c[2] = d /\ rows'[c] # None
                           /\ rows'[c].disp = log'[d][i].what
                           /\ rows'[c].text = Text[log'[d][i].alert]
                           /\ rows'[c].areas = log'[d][i].areas
  BY DEF LastInv
<1>2. CASE /\ \A i \in DOMAIN log[d] : ~Answered(log[d][i])
           /\ \A c \in Chains : c[2] = d => rows[c] = None
  BY <1>2 DEF RowsKept, Alike
<1>3. CASE \E i \in DOMAIN log[d], c \in Chains :
             /\ Latest(log[d], i) /\ c[2] = d /\ rows[c] # None
             /\ rows[c].disp = log[d][i].what /\ rows[c].text = Text[log[d][i].alert]
             /\ rows[c].areas = log[d][i].areas
  <2>1. PICK i \in DOMAIN log[d], c \in Chains :
             /\ Latest(log[d], i) /\ c[2] = d /\ rows[c] # None
             /\ rows[c].disp = log[d][i].what /\ rows[c].text = Text[log[d][i].alert]
             /\ rows[c].areas = log[d][i].areas
    BY <1>3
  <2>2. Latest(log'[d], i) /\ log'[d][i] = log[d][i]
    BY <2>1 DEF Latest
  <2>3. Alike(rows[c], rows'[c])
    BY DEF RowsKept
  <2>4. QED
    BY <2>1, <2>2, <2>3 DEF Alike, Latest
<1>4. QED
  BY <1>2, <1>3 DEF LastInv

\* One more entry: all that was there, and the new one at the end.
LEMMA LogGrows ==
  ASSUME TypeOK, NEW e, e.dest \in Dests, e.alert \in Alerts,
         NEW what \in Disps \cup {"detail"}, NEW areas \in Scopes,
         NEW known \in BOOLEAN, Hears(e, what, areas, known)
  PROVE  /\ \A d \in Dests : \A k \in DOMAIN log[d] :
              k \in DOMAIN log'[d] /\ log'[d][k] = log[d][k]
         /\ \A d \in Dests : \A i \in DOMAIN log'[d] :
              \/ i \in DOMAIN log[d]
              \/ /\ d = e.dest /\ log'[d][i].what = what /\ log'[d][i].known = known
         /\ \E n \in DOMAIN log'[e.dest] :
              /\ \A k \in DOMAIN log'[e.dest] : k <= n
              /\ log'[e.dest][n].what = what /\ log'[e.dest][n].known = known
              /\ log'[e.dest][n].alert = e.alert /\ log'[e.dest][n].areas = areas
<1> DEFINE n == Len(log[e.dest]) + 1
           new == [what |-> what, alert |-> e.alert, areas |-> areas, known |-> known]
<1>1. /\ \A d \in Dests : d # e.dest => log'[d] = log[d]
      /\ n \in Nat \ {0} /\ DOMAIN log[e.dest] = 1..(n - 1)
      /\ DOMAIN log'[e.dest] = 1..n
      /\ \A i \in DOMAIN log[e.dest] : log'[e.dest][i] = log[e.dest][i]
      /\ log'[e.dest][n] = new
  BY HearsFacts
<1>2. new.what = what /\ new.alert = e.alert /\ new.areas = areas
  OBVIOUS
<1>3. new.known = known
  BY Zenon
<1> HIDE DEF n, new
<1>4. /\ n \in 1..n /\ \A k \in 1..n : k <= n
      /\ \A k \in 1..(n - 1) : k \in 1..n
      /\ \A k \in 1..n : k \in 1..(n - 1) \/ k = n
  BY <1>1
<1>5. \A d \in Dests : \A k \in DOMAIN log[d] :
        k \in DOMAIN log'[d] /\ log'[d][k] = log[d][k]
  BY <1>1, <1>4
<1>6. \A d \in Dests : \A i \in DOMAIN log'[d] :
        \/ i \in DOMAIN log[d]
        \/ d = e.dest /\ i = n
  BY <1>1, <1>4
<1>7. QED
  BY <1>1, <1>2, <1>3, <1>4, <1>5, <1>6

LEMMA LastStep ==
  ASSUME Typed, LastInv, [Next]_vars
  PROVE  LastInv'
<1> USE DEF Typed
<1>1. ASSUME NEW a \in Rest, PollOf(a) PROVE LastInv'
  <2>1. log' = log /\ RowsKept
    BY <1>1, RestTypes, ProcessRows DEF PollOf, RowsKept
  <2>2. QED
    BY <2>1, LastKept
<1>2. CASE Quiet
  BY <1>2, LastKept DEF Quiet
<1>3. CASE HearsDetail
  <2>1. PICK known \in BOOLEAN : Hears(air, "detail", {}, known)
    BY <1>3 DEF HearsDetail
  <2>2. air.dest \in Dests /\ air.alert \in Alerts /\ RowsKept
    BY <1>3, DetailFields DEF HearsDetail
  <2>3. \A d \in Dests :
           /\ \A k \in DOMAIN log[d] : k \in DOMAIN log'[d] /\ log'[d][k] = log[d][k]
           /\ \A i \in DOMAIN log'[d] : i \in DOMAIN log[d] \/ log'[d][i].what = "detail"
    BY <2>1, <2>2, NoScope, LogGrows DEF Disps
  <2>4. QED
    BY <2>2, <2>3, LastKept DEF Answered
<1>4. ASSUME air \in Card
      PROVE  /\ ChainOf(air) \in Chains /\ ChainOf(air)[2] = air.dest
             /\ air.dest \in Dests /\ air.alert \in Alerts /\ air.disp \in Disps
             /\ air.areas \in Scopes
  BY <1>4, CardFields
<1>5. CASE Unanswered
  <2>1. PICK known \in BOOLEAN : ~known /\ Hears(air, air.disp, air.areas, known)
    BY <1>5 DEF Unanswered
  <2>2. air \in Card /\ RowsKept
    BY <1>5 DEF Unanswered
  <2>3. \A d \in Dests :
           /\ \A k \in DOMAIN log[d] : k \in DOMAIN log'[d] /\ log'[d][k] = log[d][k]
           /\ \A i \in DOMAIN log'[d] : i \in DOMAIN log[d] \/ ~log'[d][i].known
    BY <1>4, <2>1, <2>2, LogGrows DEF Disps
  <2>4. QED
    BY <2>2, <2>3, LastKept DEF Answered
<1>6. CASE Accepted
  <2>1. /\ air \in Card /\ \A c \in Chains : c # ChainOf(air) => rows'[c] = rows[c]
        /\ RowOf(rows'[ChainOf(air)], air)
    BY <1>6 DEF Accepted
  <2>2. PICK known \in BOOLEAN : known /\ Hears(air, air.disp, air.areas, known)
    BY <1>6 DEF Accepted
  <2>3. /\ \A d \in Dests : d # air.dest => log'[d] = log[d]
        /\ \E n \in DOMAIN log'[air.dest] :
              /\ \A k \in DOMAIN log'[air.dest] : k <= n
              /\ log'[air.dest][n].what = air.disp /\ log'[air.dest][n].known
              /\ log'[air.dest][n].alert = air.alert
              /\ log'[air.dest][n].areas = air.areas
    <3>1. air.disp \in Disps \cup {"detail"}
      BY <1>4, <2>1
    <3>2. \A d \in Dests : d # air.dest => log'[d] = log[d]
      BY <1>4, <2>1, <2>2, <3>1, HearsFacts
    <3>3. \E n \in DOMAIN log'[air.dest] :
            /\ \A k \in DOMAIN log'[air.dest] : k <= n
            /\ log'[air.dest][n].what = air.disp /\ log'[air.dest][n].known = known
            /\ log'[air.dest][n].alert = air.alert
            /\ log'[air.dest][n].areas = air.areas
      <4>1. /\ TypeOK /\ air.areas \in Scopes /\ air.dest \in Dests /\ air.alert \in Alerts
            /\ known \in BOOLEAN /\ Hears(air, air.disp, air.areas, known)
        BY <1>4, <2>1, <2>2
      <4>2. QED
        BY ONLY <3>1, <4>1, LogGrows, SMTT(60)
    <3>4. QED
      BY <2>2, <3>2, <3>3
  <2>4. ASSUME NEW d \in Dests, d # air.dest
        PROVE  log'[d] = log[d] /\ \A c \in Chains : c[2] = d => rows'[c] = rows[c]
    BY <1>4, <2>1, <2>3, <2>4
  <2>5. \E n \in DOMAIN log'[air.dest], c \in Chains :
          /\ Latest(log'[air.dest], n) /\ c[2] = air.dest /\ rows'[c] # None
          /\ rows'[c].disp = log'[air.dest][n].what
          /\ rows'[c].text = Text[log'[air.dest][n].alert]
          /\ rows'[c].areas = log'[air.dest][n].areas
    <3>1. air.disp # "detail"
      BY <1>4, <2>1 DEF Disps
    <3>2. QED
      BY <1>4, <2>1, <2>3, <3>1 DEF Latest, Answered, RowOf
  <2>6. QED
    BY <2>4, <2>5 DEF LastInv
<1>7. QED
  BY <1>1, <1>2, <1>3, <1>5, <1>6, Steps DEF Between

LEMMA QuietInit == Init => RootInv /\ LastInv
<1> SUFFICES ASSUME Init PROVE RootInv /\ LastInv
  OBVIOUS
<1>1. /\ Pending = {} /\ \A d \in Dests : DOMAIN log[d] = {}
      /\ \A c \in Chains : rows[c] = None
  BY NoElements DEF Init, Pending, OnAir
<1>2. QED
  BY <1>1 DEF RootInv, LastInv

\* The last card a destination is known to have heard, and its row.
LEMMA LatestIsMax ==
  ASSUME TypeOK, LastInv, NEW d \in Dests
  PROVE  \/ KnownCards(d) = {} /\ \A c \in Chains : c[2] = d => rows[c] = None
         \/ KnownCards(d) # {} /\ \E c \in Chains :
              /\ c[2] = d /\ rows[c] # None
              /\ rows[c].disp = log[d][Max(KnownCards(d))].what
              /\ rows[c].text = Text[log[d][Max(KnownCards(d))].alert]
              /\ rows[c].areas = log[d][Max(KnownCards(d))].areas
<1>1. KnownCards(d) = {i \in DOMAIN log[d] : Answered(log[d][i])}
  BY DEF KnownCards, Answered
<1>2. CASE /\ \A i \in DOMAIN log[d] : ~Answered(log[d][i])
           /\ \A c \in Chains : c[2] = d => rows[c] = None
  BY <1>1, <1>2
<1>3. CASE \E i \in DOMAIN log[d], c \in Chains :
             /\ Latest(log[d], i) /\ c[2] = d /\ rows[c] # None
             /\ rows[c].disp = log[d][i].what /\ rows[c].text = Text[log[d][i].alert]
             /\ rows[c].areas = log[d][i].areas
  <2>1. PICK i \in DOMAIN log[d], c \in Chains :
             /\ Latest(log[d], i) /\ c[2] = d /\ rows[c] # None
             /\ rows[c].disp = log[d][i].what /\ rows[c].text = Text[log[d][i].alert]
             /\ rows[c].areas = log[d][i].areas
    BY <1>3
  <2> DEFINE K == KnownCards(d)
  <2>2. i \in K /\ K \subseteq Nat /\ \A k \in K : k <= i
    BY <1>1, <2>1, LogDomain DEF Latest
  <2> HIDE DEF K
  <2>3. Max(K) \in K /\ \A k \in K : Max(K) >= k
    <3>1. \A k \in K : i >= k
      BY <2>2
    <3>2. QED
      BY <2>2, <3>1 DEF Max
  <2>4. Max(K) = i
    <3>1. /\ Max(K) \in Nat /\ i \in Nat
          /\ Max(K) <= i /\ Max(K) >= i
      BY <2>2, <2>3
    <3>2. QED
      BY ONLY <3>1
  <2>5. QED
    BY <2>1, <2>2, <2>4 DEF K
<1>4. QED
  BY <1>2, <1>3 DEF LastInv

\* Where no target is left, the row of d says what the product says there.
LEMMA NoTargetTold ==
  ASSUME Typed, FeedInv, RootInv, LastInv, NEW a \in Rest, Nth[a] = listed,
         Pending = {}, Targets(a) = {}, NEW d \in enabled
  PROVE  Told(d, a)
<1> USE DEF Typed
<1> DEFINE K == KnownCards(d)
           latest == log[d][Max(K)]
<1>1. a \in Alerts /\ d \in Dests
  BY RestTypes DEF TypeOK
<1>2. \/ K = {} /\ \A c \in Chains : c[2] = d => rows[c] = None
      \/ K # {} /\ \E c \in Chains :
           /\ c[2] = d /\ rows[c] # None
           /\ rows[c].disp = latest.what /\ rows[c].text = Text[latest.alert]
           /\ rows[c].areas = latest.areas
  BY <1>1, LatestIsMax
<1>3. /\ Prior(a) = {c \in Chains : rows[c] # None}
  BY <1>1, PollSees
<1>4. \A r \in RowsOf(a, d), s \in RowsOf(a, d) : r = s
  BY <1>3 DEF RowsOf, RootInv
<1>5. /\ Type[a] = "Cancel" => CancelTargets(a) = {}
      /\ Type[a] # "Cancel" => NewsTargets(a) = {} /\ ClearTargets(a) = {}
  BY DEF Targets
<1>6. K # {} => \E r \in RowsOf(a, d) :
        /\ r.disp = latest.what /\ r.text = Text[latest.alert]
        /\ r.areas = latest.areas /\ d \in Recipients(a)
  BY <1>2, <1>3 DEF RowsOf, Recipients
<1>7. RowsOf(a, d) # {} => K # {}
  BY <1>2, <1>3 DEF RowsOf
<1>8. Told(d, a) <=>
        CASE Type[a] = "Cancel" -> K = {} \/ latest.what = "cancelled"
          [] Type[a] # "Cancel" /\ d \in Matches(a) ->
               /\ K # {} /\ latest.what \in Warnings
               /\ Text[latest.alert] = Text[a] /\ latest.areas = Areas(a, d)
          [] OTHER -> ~(K # {} /\ latest.what \in Warnings)
  BY DEF Told
<1> HIDE DEF K, latest
<1>9. CASE Type[a] = "Cancel"
  <2>1. SUFFICES ASSUME K # {} PROVE latest.what = "cancelled"
    BY <1>8, <1>9
  <2>2. PICK r \in RowsOf(a, d) : r.disp = latest.what /\ d \in Recipients(a)
    BY <1>6, <2>1
  <2>3. \E s \in RowsOf(a, d) : s.last = IdOf(a) /\ s.disp = "cancelled"
    BY <1>5, <1>9, <2>2 DEF CancelTargets
  <2>4. QED
    BY <1>4, <2>2, <2>3
<1>10. CASE Type[a] # "Cancel" /\ d \in Matches(a)
  <2>1. RowsOf(a, d) # {}
    BY <1>5, <1>10 DEF NewsTargets
  <2>2. PICK s \in RowsOf(a, d) : /\ s.disp \in {"sent", "update"}
                                 /\ s.text = Text[a] /\ s.areas = Areas(a, d)
    BY <1>5, <1>10, <2>1 DEF NewsTargets
  <2>3. PICK r \in RowsOf(a, d) : /\ r.disp = latest.what
                                 /\ r.text = Text[latest.alert]
                                 /\ r.areas = latest.areas
    BY <1>6, <1>7, <2>1
  <2>4. /\ K # {} /\ latest.what \in Warnings
        /\ Text[latest.alert] = Text[a] /\ latest.areas = Areas(a, d)
    BY <1>4, <1>7, <2>1, <2>2, <2>3 DEF Warnings
  <2>5. QED
    BY <1>8, <1>10, <2>4
<1>11. CASE Type[a] # "Cancel" /\ d \notin Matches(a)
  <2>1. SUFFICES ASSUME K # {}, latest.what \in Warnings PROVE FALSE
    BY <1>8, <1>11
  <2>2. PICK r \in RowsOf(a, d) : r.disp = latest.what /\ d \in Recipients(a)
    BY <1>6, <2>1
  <2>3. \A s \in RowsOf(a, d) : s.disp \notin {"cleared", "cancelled"}
    BY <1>4, <2>1, <2>2 DEF Warnings
  <2>4. QED
    BY <1>5, <1>11, <2>2, <2>3 DEF ClearTargets
<1>12. QED
  BY <1>9, <1>10, <1>11

\* When nothing is on its way and a poll of the listed product finds no
\* target, every enabled destination has been told of it: _delivery_targets
\* reads from the rows what the radios are known to have taken.
THEOREM QuietIsTold == Spec => []QuietMeansTold
<1> DEFINE Inv == RootInv /\ LastInv
<1>1. Typed /\ FeedInv /\ [Next]_vars => FeedInv'
  BY FeedStep
<1>2. Typed /\ FeedInv /\ Inv /\ [Next]_vars => Inv'
  BY RootStep, LastStep
<1>3. Typed /\ FeedInv /\ Inv => QuietMeansTold
  BY NoTargetTold DEF QuietMeansTold, Rest
<1>4. Init => Inv
  BY QuietInit
<1> HIDE DEF Inv
<1>5. QED
  BY <1>1, <1>2, <1>3, <1>4, FeedInit, TypedAlways, PTL DEF Spec
----------------------------------------------------------------------------
(* A detail is heard once.                                                 *)

\* The details on their way.
Due == ToSet(details) \cup OnAir("detail")

\* The log l holds the detail of the product x.
HeardDetail(l, x) == \E i \in DOMAIN l : l[i].what = "detail" /\ l[i].alert = x

\* The detail of x may be queued for d again: a poll may find x, or its card
\* is on its way.
Live(x, d) == Nth[x] = listed \/ \E e \in Pending : e.alert = x /\ e.dest = d

Touched(x, d) == HeardDetail(log[d], x) \/ \E e \in Due : e.alert = x /\ e.dest = d

\* A row that waits for the detail of x, whose id is id, or has seen it accepted.
AsksFor(r, id, x) ==
  r # None /\ r.dText = Detail[x] /\ r.dState = "queued" /\ r.dId = id
Took(r, x) == r # None /\ r.dText = Detail[x] /\ r.dState = "accepted"

\* No two places of the lane s hold one product for one destination.
OneEach(s) ==
  \A i, j \in DOMAIN s : (s[i].alert = s[j].alert /\ s[i].dest = s[j].dest) => i = j

\* One detail of a product for a destination is on its way.
DueApart ==
  /\ OneEach(details)
  /\ \A e \in ToSet(details), f \in OnAir("detail") : e.dest = f.dest => e.alert # f.alert

\* Details are of products processed, and no older card is on its way.
TouchInv ==
  \A d \in Dests, x \in Alerts : Touched(x, d) =>
    /\ x \in Rest /\ Nth[x] <= seen /\ Detail[x] # None
    /\ \A f \in Pending : f.dest = d => Nth[x] <= Nth[f.alert]

OnceDetail(l) ==
  \A i, j \in DOMAIN l :
    (i < j /\ l[i].what = "detail" /\ l[j].what = "detail") => l[i].alert # l[j].alert

\* While its detail may be queued again, the row knows what became of it.
DetailInv ==
  /\ \A e \in Due : ~HeardDetail(log[e.dest], e.alert)
  /\ \A e \in Due : Live(e.alert, e.dest) =>
       AsksFor(rows[ChainOf(e)], IdOf(e.alert), e.alert)
  /\ \A d \in Dests, x \in Alerts : (HeardDetail(log[d], x) /\ Live(x, d)) =>
       \E c \in Chains : c[2] = d /\ Took(rows[c], x)
  /\ \A d \in Dests : OnceDetail(log[d])

DetailsOK == DueApart /\ TouchInv /\ DetailInv

LEMMA DueFields ==
  ASSUME TypeOK
  PROVE  Due \subseteq DetailEntry /\ ToSet(details) \subseteq DetailEntry
         /\ \A e \in DetailEntry : /\ e.alert \in Alerts /\ e.dest \in Dests
                                   /\ ChainOf(e) \in Chains /\ ChainOf(e)[2] = e.dest
<1>1. ToSet(details) \subseteq DetailEntry
  BY SeqElements DEF TypeOK, LanesOK
<1>2. \A e \in DetailEntry : ChainOf(e)[2] = e.dest
  BY DEF ChainOf
<1>3. QED
  BY <1>1, <1>2, PendingFields, DetailFields DEF Due

\* A card heard changes nothing about details.
LEMMA CardInLog ==
  ASSUME TypeOK, air \in Card, NEW known \in BOOLEAN, Hears(air, air.disp, air.areas, known)
  PROVE  /\ \A d \in Dests, x \in Alerts :
              HeardDetail(log'[d], x) <=> HeardDetail(log[d], x)
         /\ \A d \in Dests : OnceDetail(log[d]) => OnceDetail(log'[d])
<1>1. /\ air.dest \in Dests /\ air.alert \in Alerts /\ air.disp \in Disps
      /\ air.areas \in Scopes
  BY CardFields
<1>2. air.disp \in Disps \cup {"detail"} /\ air.disp # "detail"
  BY <1>1 DEF Disps
<1>3. \A d \in Dests :
         /\ \A k \in DOMAIN log[d] : k \in DOMAIN log'[d] /\ log'[d][k] = log[d][k]
         /\ \A i \in DOMAIN log'[d] : i \in DOMAIN log[d] \/ log'[d][i].what = air.disp
  BY <1>1, <1>2, LogGrows
<1>4. \A d \in Dests, x \in Alerts :
        HeardDetail(log'[d], x) <=> HeardDetail(log[d], x)
  BY <1>2, <1>3 DEF HeardDetail
<1>5. \A d \in Dests : OnceDetail(log[d]) => OnceDetail(log'[d])
  BY <1>2, <1>3 DEF OnceDetail
<1>6. QED
  BY <1>4, <1>5

\* What is alive after a step that adds no card was before.
LEMMA LiveBefore ==
  ASSUME Typed, FeedInv, TouchInv, listed' \in Nat, listed <= listed',
         Pending' \subseteq Pending
  PROVE  \A x \in Alerts, d \in Dests : Touched(x, d) /\ Live(x, d)' => Live(x, d)
<1> USE DEF Typed
<1>1. SUFFICES ASSUME NEW x \in Alerts, NEW d \in Dests, Touched(x, d), Live(x, d)'
               PROVE  Live(x, d)
  OBVIOUS
<1>2. listed \in Nat /\ seen \in Nat /\ seen <= listed
  BY DEF TypeOK, FeedInv
<1>3. x \in Rest /\ Nth[x] <= seen /\ Nth[x] \in Nat
  BY <1>1, RestTypes DEF TouchInv
<1>4. CASE Nth[x] = listed'
  <2>1. Nth[x] = listed
    BY <1>2, <1>3, <1>4
  <2>2. QED
    BY <2>1 DEF Live
<1>5. CASE \E e \in Pending' : e.alert = x /\ e.dest = d
  BY <1>5 DEF Live
<1>6. QED
  BY <1>1, <1>4, <1>5 DEF Live

\* A step that queues no detail, and leaves the rows that matter alone.
LEMMA DetailsKeep ==
  ASSUME Typed, FeedInv, TouchInv, DetailInv,
         seen' = seen, alias' = alias, listed' \in Nat, listed <= listed',
         Pending' \subseteq Pending, Due' \subseteq Due,
         \A d \in Dests, x \in Alerts :
           HeardDetail(log'[d], x) <=> HeardDetail(log[d], x),
         \A d \in Dests : OnceDetail(log'[d]),
         \A c \in Chains, x \in Alerts :
           /\ Due' # {} /\ AsksFor(rows[c], IdOf(x), x) => AsksFor(rows'[c], IdOf(x), x)
           /\ Took(rows[c], x) => Took(rows'[c], x)
  PROVE  TouchInv' /\ DetailInv'
<1> USE DEF Typed
<1>1. listed \in Nat /\ seen \in Nat /\ seen <= listed
  BY DEF TypeOK, FeedInv
<1>2. \A x \in Alerts, d \in Dests : Touched(x, d)' => Touched(x, d)
  BY DEF Touched
<1>3. TouchInv'
  BY <1>2 DEF TouchInv
<1>4. \A x \in Alerts, d \in Dests : Touched(x, d) /\ Live(x, d)' => Live(x, d)
  BY LiveBefore
<1>5. ASSUME NEW e \in Due'
      PROVE  /\ ~HeardDetail(log'[e.dest], e.alert)
             /\ Live(e.alert, e.dest)' => AsksFor(rows'[ChainOf(e)], IdOf(e.alert), e.alert)
  <2>1. e \in Due /\ e.alert \in Alerts /\ e.dest \in Dests /\ ChainOf(e) \in Chains
    BY <1>5, DueFields
  <2>2. Touched(e.alert, e.dest)
    BY <2>1 DEF Touched
  <2>3. QED
    BY <1>4, <1>5, <2>1, <2>2 DEF DetailInv
<1>6. ASSUME NEW d \in Dests, NEW x \in Alerts, HeardDetail(log'[d], x), Live(x, d)'
      PROVE  \E c \in Chains : c[2] = d /\ Took(rows'[c], x)
  <2>1. HeardDetail(log[d], x) /\ Live(x, d)
    BY <1>4, <1>6 DEF Touched
  <2>2. QED
    BY <2>1 DEF DetailInv
<1>7. \A x : IdOf(x)' = IdOf(x)
  BY DEF IdOf
<1>8. DetailInv'
  BY <1>5, <1>6, <1>7 DEF DetailInv, ChainOf, IdOf
<1>9. QED
  BY <1>3, <1>8

LEMMA TailOneEach ==
  ASSUME NEW s \in Seq(DetailEntry), s # <<>>, OneEach(s)
  PROVE  /\ OneEach(Tail(s))
         /\ \A e \in ToSet(Tail(s)) : e.dest = Head(s).dest => e.alert # Head(s).alert
<1>1. /\ DOMAIN s = 1..Len(s) /\ Len(s) \in Nat \ {0} /\ Head(s) = s[1]
      /\ DOMAIN Tail(s) = 1..(Len(s) - 1)
      /\ \A i \in 1..(Len(s) - 1) : Tail(s)[i] = s[i + 1]
  <2>1. Len(s) \in Nat \ {0} /\ Tail(s) \in Seq(DetailEntry) /\ Len(Tail(s)) = Len(s) - 1
    BY EmptySeq
  <2>2. QED
    BY <2>1
<1>2. \A i \in 1..(Len(s) - 1) : i + 1 \in DOMAIN s /\ i + 1 # 1
  BY <1>1
<1>3. 1 \in DOMAIN s
  BY <1>1
<1>4. OneEach(Tail(s))
  <2>1. ASSUME NEW i \in 1..(Len(s) - 1), NEW j \in 1..(Len(s) - 1),
               Tail(s)[i].alert = Tail(s)[j].alert, Tail(s)[i].dest = Tail(s)[j].dest
        PROVE  i = j
    <3>1. i + 1 = j + 1
      BY <1>1, <1>2, <2>1 DEF OneEach
    <3>2. QED
      BY <3>1
  <2>2. QED
    BY <1>1, <2>1 DEF OneEach
<1>5. \A i \in 1..(Len(s) - 1) :
        Tail(s)[i].dest = Head(s).dest => Tail(s)[i].alert # Head(s).alert
  BY <1>1, <1>2, <1>3 DEF OneEach
<1>6. QED
  BY <1>1, <1>4, <1>5 DEF ToSet

LEMMA JoinOneEach ==
  ASSUME NEW s \in Seq(DetailEntry), NEW t \in Seq(DetailEntry), OneEach(s), OneEach(t),
         \A e \in ToSet(s), f \in ToSet(t) : e.dest = f.dest => e.alert # f.alert
  PROVE  OneEach(s \o t)
<1>1. /\ Len(s) \in Nat /\ Len(t) \in Nat
      /\ DOMAIN s = 1..Len(s) /\ DOMAIN t = 1..Len(t)
      /\ DOMAIN (s \o t) = 1..(Len(s) + Len(t))
      /\ \A i \in 1..Len(s) : (s \o t)[i] = s[i]
      /\ \A i \in 1..Len(t) : (s \o t)[Len(s) + i] = t[i]
  OBVIOUS
<1>2. \A i \in 1..(Len(s) + Len(t)) :
        \/ i \in 1..Len(s) /\ (s \o t)[i] = s[i]
        \/ i - Len(s) \in 1..Len(t) /\ (s \o t)[i] = t[i - Len(s)]
  <2>1. ASSUME NEW i \in 1..(Len(s) + Len(t)), ~(i \in 1..Len(s))
        PROVE  i - Len(s) \in 1..Len(t) /\ Len(s) + (i - Len(s)) = i
    BY <1>1, <2>1
  <2>2. QED
    BY <1>1, <2>1
<1>3. \A i \in 1..Len(s), j \in 1..Len(t) :
        s[i].dest = t[j].dest => s[i].alert # t[j].alert
  BY <1>1 DEF ToSet
<1>4. ASSUME NEW i \in 1..(Len(s) + Len(t)), NEW j \in 1..(Len(s) + Len(t)),
             (s \o t)[i].alert = (s \o t)[j].alert, (s \o t)[i].dest = (s \o t)[j].dest
      PROVE  i = j
  <2>1. CASE i \in 1..Len(s) /\ j \in 1..Len(s)
    BY <1>1, <1>4, <2>1 DEF OneEach
  <2>2. CASE i \notin 1..Len(s) /\ j \notin 1..Len(s)
    <3>1. /\ i - Len(s) \in DOMAIN t /\ j - Len(s) \in DOMAIN t
          /\ t[i - Len(s)].dest = t[j - Len(s)].dest
          /\ t[i - Len(s)].alert = t[j - Len(s)].alert
      BY <1>1, <1>2, <1>4, <2>2
    <3>2. i - Len(s) = j - Len(s)
      BY <3>1 DEF OneEach
    <3>3. QED
      BY <1>1, <3>2
  <2>3. CASE i \in 1..Len(s) /\ j \notin 1..Len(s)
    BY <1>2, <1>3, <1>4, <2>3
  <2>4. CASE i \notin 1..Len(s) /\ j \in 1..Len(s)
    BY <1>2, <1>3, <1>4, <2>4
  <2>5. QED
    BY <2>1, <2>2, <2>3, <2>4
<1>5. QED
  BY <1>1, <1>4 DEF OneEach

\* A step that changes no row and hears no detail.
LEMMA RowsStay ==
  ASSUME Typed, FeedInv, TouchInv, DetailInv, Between, rows' = rows, Due' \subseteq Due,
         \/ log' = log
         \/ air \in Card /\ \E known \in BOOLEAN : Hears(air, air.disp, air.areas, known)
  PROVE  TouchInv' /\ DetailInv'
<1> USE DEF Typed
<1>1. /\ \A d \in Dests, x \in Alerts : HeardDetail(log'[d], x) <=> HeardDetail(log[d], x)
      /\ \A d \in Dests : OnceDetail(log[d]) => OnceDetail(log'[d])
  BY CardInLog
<1>2. \A d \in Dests : OnceDetail(log'[d])
  BY <1>1 DEF DetailInv
<1>3. /\ seen' = seen /\ alias' = alias /\ listed' \in Nat /\ listed <= listed'
      /\ Pending' \subseteq Pending
  BY DEF Between
<1>4. QED
  BY <1>1, <1>2, <1>3, DetailsKeep

\* Every step but a poll's, an accepted card's and a detail's answer.
LEMMA OtherDetails ==
  ASSUME Typed, FeedInv, DetailsOK, Between,
         \/ TakeCard \/ TakeRest \/ Crash \/ Unmoved
         \/ \E unsure \in BOOLEAN : CardFailed(unsure)
         \/ \E sent \in BOOLEAN : FrameDone(sent)
  PROVE  DetailsOK'
<1> USE DEF Typed, DetailsOK
<1>1. ASSUME details' = details, OnAir("detail")' \subseteq OnAir("detail")
      PROVE  DueApart' /\ Due' \subseteq Due
  BY <1>1 DEF DueApart, Due
<1>2. ASSUME air' = None \/ air' \in Card
      PROVE  OnAir("detail")' = {}
  BY <1>2, CardFields DEF OnAir
<1>3. CASE Unmoved
  <2>1. rows' = rows /\ log' = log /\ details' = details /\ air' = air
    BY <1>3 DEF Unmoved, store, lanes, memory
  <2>2. OnAir("detail")' = OnAir("detail")
    BY <2>1 DEF OnAir
  <2>3. QED
    BY <1>1, <2>1, <2>2, RowsStay
<1>4. CASE TakeCard
  <2>1. rows' = rows /\ log' = log /\ details' = details
    BY <1>4 DEF TakeCard, store
  <2>2. air' = None \/ air' \in Card
    BY <1>4, TakeCardFacts
  <2>3. QED
    BY <1>1, <1>2, <2>1, <2>2, RowsStay
<1>5. CASE TakeRest
  <2>1. rows' = rows /\ log' = log /\ OnAir("detail") = {}
    BY <1>5, TakeRestFacts DEF OnAir
  <2>2. CASE details # <<>> /\ air' = Head(details) /\ details' = Tail(details)
    <3>1. details \in Seq(DetailEntry)
      BY DEF TypeOK, LanesOK
    <3>2. ToSet(details) = ToSet(details') \cup {Head(details)}
      BY <2>2, <3>1, SeqElements
    <3>3. OnAir("detail")' \subseteq {Head(details)}
      BY <2>2 DEF OnAir
    <3>4. Due' \subseteq Due
      BY <3>2, <3>3 DEF Due
    <3>5. /\ OneEach(Tail(details))
          /\ \A e \in ToSet(Tail(details)) :
               e.dest = Head(details).dest => e.alert # Head(details).alert
      BY <2>2, <3>1, TailOneEach DEF DueApart
    <3>6. DueApart'
      BY <2>2, <3>3, <3>5 DEF DueApart
    <3>7. QED
      BY <2>1, <3>4, <3>6, RowsStay
  <2>3. CASE frames # <<>> /\ air' = Head(frames) /\ details' = details
    <3>1. air' \in Frame
      BY <2>3, SeqElements DEF TypeOK, LanesOK
    <3>2. OnAir("detail")' = {}
      BY <3>1, FrameFields DEF OnAir
    <3>3. QED
      BY <1>1, <2>1, <2>3, <3>2, RowsStay
  <2>4. QED
    BY <1>5, <2>2, <2>3 DEF TakeRest
<1>6. ASSUME NEW unsure \in BOOLEAN, CardFailed(unsure) PROVE DetailsOK'
  <2>1. /\ air \in Card /\ air' = None /\ rows' = rows /\ details' = details
        /\ Hears(air, air.disp, air.areas, FALSE) \/ log' = log
    BY <1>6, CardFailedFacts DEF store, lanes
  <2>2. QED
    BY <1>1, <1>2, <2>1, RowsStay
<1>7. ASSUME NEW sent \in BOOLEAN, FrameDone(sent) PROVE DetailsOK'
  <2>1. air' = None /\ rows' = rows /\ details' = details /\ log' = log
    BY <1>7, FrameDoneFacts DEF lanes
  <2>2. QED
    BY <1>1, <1>2, <2>1, RowsStay
<1>8. CASE Crash
  <2>1. /\ details' = <<>> /\ air' = None
        /\ \/ log' = log
           \/ OnAir("card") # {} /\ Hears(air, air.disp, air.areas, FALSE)
        /\ rows' = [c \in Chains |-> IF rows[c] # None /\ rows[c].dState = "queued"
                               THEN [rows[c] EXCEPT !.dState = "failed"] ELSE rows[c]]
    BY <1>8 DEF Crash
  <2>2. Due' = {} /\ DueApart'
    BY <1>2, <2>1, NoElements DEF Due, DueApart, OneEach
  <2>3. \A c \in Chains, x \in Alerts : Took(rows[c], x) => Took(rows'[c], x)
    BY <2>1 DEF Took
  <2>4. OnAir("card") # {} => air \in Card
    BY PendingFields
  <2>5. \A d \in Dests, x \in Alerts : HeardDetail(log'[d], x) <=> HeardDetail(log[d], x)
    BY <2>1, <2>4, CardInLog
  <2>6. \A d \in Dests : OnceDetail(log'[d])
    BY <2>1, <2>4, CardInLog DEF DetailInv
  <2>7. /\ seen' = seen /\ alias' = alias /\ listed' \in Nat /\ listed <= listed'
        /\ Pending' \subseteq Pending
    BY DEF Between
  <2>8. TouchInv' /\ DetailInv'
    BY <2>2, <2>3, <2>5, <2>6, <2>7, DetailsKeep
  <2>9. QED
    BY <2>2, <2>8
<1>9. QED
  BY <1>3, <1>4, <1>5, <1>6, <1>7, <1>8

\* An answer to a detail ends it, in the row that waits for it.
LEMMA AnswerDetails ==
  ASSUME Typed, FeedInv, OwnContent, DetailsOK, Between,
         NEW sent \in BOOLEAN, DetailDone(sent)
  PROVE  DetailsOK'
<1> USE DEF Typed, DetailsOK
<1> DEFINE c == ChainOf(air)
           x == air.alert
           current == AsksFor(rows[c], IdOf(x), x)
           st == IF sent THEN "accepted" ELSE "failed"
<1>1. /\ air \in DetailEntry /\ air' = None /\ details' = details
      /\ alias' = alias /\ seen' = seen
      /\ listed' \in Nat /\ listed <= listed' /\ Pending' \subseteq Pending
  BY DetailDoneFacts DEF lanes, Between
<1>2. /\ c \in Chains /\ c[2] = air.dest /\ x \in Alerts /\ air.dest \in Dests
      /\ air \in OnAir("detail")
  BY <1>1, DueFields, DetailFields DEF OnAir
<1>3. rows[c] # None /\ rows \in Table
  BY <1>2 DEF HasRow, TypeOK
<1>4. /\ current => rows' = [rows EXCEPT ![c].dState = st]
      /\ ~current => rows' = rows
  BY <1>3 DEF DetailDone, AsksFor
<1>5. (sent /\ Hears(air, "detail", {}, TRUE)) \/ log' = log
  BY DEF DetailDone
<1>6. /\ air \in Due /\ Due' = ToSet(details) /\ DueApart'
      /\ \A e \in Due' : e \in Due /\ (e.dest = air.dest => e.alert # x)
  BY <1>1, <1>2 DEF Due, OnAir, DueApart
<1>7. Touched(x, air.dest) /\ ~HeardDetail(log[air.dest], x)
  BY <1>6 DEF Touched, DetailInv
<1>8. x \in Rest /\ Detail[x] # None
  BY <1>2, <1>7 DEF TouchInv
<1>9. \A y \in Alerts, d \in Dests : Touched(y, d) /\ Live(y, d)' => Live(y, d)
  BY <1>1, LiveBefore
<1>10. \A y : IdOf(y)' = IdOf(y)
  BY <1>1 DEF IdOf
<1>11. /\ \A b \in Chains : b # c \/ ~current => rows'[b] = rows[b]
       /\ current /\ sent => Took(rows'[c], x)
  <2>1. rows[c] \in Row
    BY <1>2, <1>3 DEF Table
  <2>2. rows[c].dText = Detail[x] => Took([rows[c] EXCEPT !.dState = "accepted"], x)
    <3>1. [rows[c] EXCEPT !.dState = "accepted"] \in Row
      BY <2>1, DetailColumns
    <3>2. [rows[c] EXCEPT !.dState = "accepted"] # None
      BY <3>1, RowFields
    <3>3. /\ [rows[c] EXCEPT !.dState = "accepted"].dText = rows[c].dText
          /\ [rows[c] EXCEPT !.dState = "accepted"].dState = "accepted"
      BY <2>1 DEF Row
    <3>4. QED
      BY <3>2, <3>3 DEF Took
  <2>3. current /\ sent => rows'[c] = [rows[c] EXCEPT !.dState = "accepted"]
    BY <1>2, <1>3, <1>4 DEF Table
  <2>4. \A b \in Chains : b # c \/ ~current => rows'[b] = rows[b]
    BY <1>2, <1>3, <1>4 DEF Table
  <2>5. QED
    BY <2>2, <2>3, <2>4 DEF AsksFor
<1> HIDE DEF current, st
<1>12. ASSUME NEW e \in Due'
       PROVE  /\ ~(sent /\ e.dest = air.dest /\ e.alert = x)
              /\ ~HeardDetail(log[e.dest], e.alert)
              /\ Live(e.alert, e.dest)' =>
                   AsksFor(rows'[ChainOf(e)], IdOf(e.alert), e.alert)
  <2>1. /\ e \in Due /\ e.alert \in Alerts /\ e.dest \in Dests
        /\ ChainOf(e) \in Chains /\ ChainOf(e)[2] = e.dest
    BY <1>6, <1>12, DueFields
  <2>2. Touched(e.alert, e.dest)
    BY <2>1 DEF Touched
  <2>3. e.alert \in Rest /\ Detail[e.alert] # None
    BY <2>1, <2>2 DEF TouchInv
  <2>4. ASSUME AsksFor(rows[c], IdOf(e.alert), e.alert), current PROVE e.alert = x
    <3>1. Detail[e.alert] = Detail[x]
      BY <2>4 DEF AsksFor, current
    <3>2. QED
      BY <1>8, <2>3, <3>1 DEF OwnContent, Rest
  <2>5. Live(e.alert, e.dest)' => AsksFor(rows[ChainOf(e)], IdOf(e.alert), e.alert)
    BY <1>9, <2>1, <2>2 DEF DetailInv
  <2>6. QED
    BY <1>2, <1>6, <1>11, <1>12, <2>1, <2>4, <2>5 DEF DetailInv
<1>13. /\ \A d \in Dests, y \in Alerts : HeardDetail(log'[d], y) =>
            HeardDetail(log[d], y) \/ (sent /\ d = air.dest /\ y = x)
       /\ \A d \in Dests : OnceDetail(log'[d])
  <2>1. CASE log' = log
    BY <2>1 DEF DetailInv
  <2>2. CASE sent /\ Hears(air, "detail", {}, TRUE)
    <3>1. air.dest \in Dests /\ air.alert \in Alerts
      BY <1>2
    <3>2. \A d \in Dests :
            /\ \A k \in DOMAIN log[d] : log'[d][k] = log[d][k]
            /\ \A i \in DOMAIN log'[d] :
                 \/ i \in DOMAIN log[d] /\ log'[d][i] = log[d][i]
                 \/ /\ d = air.dest /\ i = Len(log[d]) + 1
                    /\ \A k \in DOMAIN log[d] : k < i
                    /\ log'[d][i].alert = air.alert
      <4>1. PICK known \in BOOLEAN : Hears(air, "detail", {}, known)
        BY <2>2
      <4>2. QED
        BY <3>1, <4>1, NoScope, OneMore DEF Disps
    <3>3. ASSUME NEW d \in Dests PROVE OnceDetail(log'[d])
      <4>1. SUFFICES ASSUME NEW i \in DOMAIN log'[d], NEW j \in DOMAIN log'[d], i < j,
                            log'[d][i].what = "detail", log'[d][j].what = "detail"
                     PROVE  log'[d][i].alert # log'[d][j].alert
        BY DEF OnceDetail
      <4>2. DOMAIN log[d] \subseteq Nat /\ Len(log[d]) \in Nat
        BY LogDomain
      <4>3. i \in DOMAIN log[d] /\ log'[d][i] = log[d][i]
        BY <3>2, <4>1, <4>2
      <4>4. CASE j \in DOMAIN log[d] /\ log'[d][j] = log[d][j]
        BY <4>1, <4>3, <4>4 DEF DetailInv, OnceDetail
      <4>5. CASE d = air.dest /\ log'[d][j].alert = air.alert
        BY <1>7, <4>1, <4>3, <4>5 DEF HeardDetail
      <4>6. QED
        BY <3>2, <4>4, <4>5
    <3>4. QED
      BY <2>2, <3>2, <3>3 DEF HeardDetail
  <2>3. QED
    BY <1>5, <2>1, <2>2
<1>14. \A d \in Dests, y \in Alerts : Touched(y, d)' => Touched(y, d)
  BY <1>6, <1>7, <1>13 DEF Touched
<1>15. TouchInv'
  BY <1>1, <1>14 DEF TouchInv
<1>16. ASSUME NEW d \in Dests, NEW y \in Alerts, HeardDetail(log'[d], y), Live(y, d)'
       PROVE  \E b \in Chains : b[2] = d /\ Took(rows'[b], y)
  <2>1. CASE HeardDetail(log[d], y)
    <3>1. Live(y, d)
      BY <1>9, <1>16, <2>1 DEF Touched
    <3>2. PICK b \in Chains : b[2] = d /\ Took(rows[b], y)
      BY <2>1, <3>1 DEF DetailInv
    <3>3. b # c \/ ~current
      BY <3>2 DEF Took, current, AsksFor
    <3>4. QED
      BY <1>11, <3>2, <3>3
  <2>2. CASE sent /\ d = air.dest /\ y = x
    <3>1. Live(x, air.dest)
      BY <1>2, <1>7, <1>9, <1>16, <2>2
    <3>2. current
      BY <1>6, <3>1 DEF DetailInv, current
    <3>3. QED
      BY <1>2, <1>11, <2>2, <3>2
  <2>3. QED
    BY <1>13, <1>16, <2>1, <2>2
<1>17. \A e \in Due' : ~HeardDetail(log'[e.dest], e.alert)
  <2>1. \A e \in Due' : e.alert \in Alerts /\ e.dest \in Dests
    BY <1>6, DueFields
  <2>2. QED
    BY <1>12, <1>13, <2>1
<1>18. DetailInv'
  BY <1>10, <1>12, <1>13, <1>16, <1>17 DEF DetailInv, ChainOf, IdOf
<1>19. QED
  BY <1>6, <1>15, <1>18

\* The entries for the chains in S, one for a destination.
LEMMA DetailEntriesApart ==
  ASSUME NEW a \in Alerts, NEW S \in SUBSET Chains,
         \A b, c \in S : b[2] = c[2] => b = c
  PROVE  /\ \A e \in ToSet(DetailEntries(a, S)) : e.alert = a /\ ChainOf(e) \in S
         /\ OneEach(DetailEntries(a, S))
<1> DEFINE entry(c) == [kind |-> "detail", alert |-> a, root |-> c[1], dest |-> c[2]]
           T == {entry(c) : c \in S}
           g == [c \in S |-> entry(c)]
           s == SetToSeq(T)
<1>1. DetailEntries(a, S) = s
  BY DEF DetailEntries
<1>2. \A c \in S : entry(c).alert = a /\ entry(c).dest = c[2] /\ ChainOf(entry(c)) = c
  BY DEF Chains, ChainOf
<1> HIDE DEF entry
<1>3. \A e \in T : e.alert = a /\ ChainOf(e) \in S
  BY <1>2
<1>4. \A e, f \in T : e.dest = f.dest => e = f
  BY <1>2
<1>5. g \in Surjection(S, T)
  BY DEF Surjection
<1>6. IsFiniteSet(S)
  BY FiniteChains
<1> HIDE DEF g, T
<1>7. IsFiniteSet(T)
  BY <1>5, <1>6, FS_Surjection
<1>8. ToSet(s) = T /\ \A i, j \in DOMAIN s : s[i] = s[j] => i = j
  BY <1>7, SetToSeqFacts
<1> HIDE DEF s
<1>9. \A i \in DOMAIN s : s[i] \in T
  BY <1>8 DEF ToSet
<1>10. OneEach(s)
  BY <1>4, <1>8, <1>9 DEF OneEach
<1>11. QED
  BY <1>1, <1>3, <1>8, <1>10

\* An accepted card leaves the detail's columns of its row alone.
LEMMA RecordedColumns ==
  ASSUME TypeOK, NEW e \in Card
  PROVE  /\ \A c \in Chains : \A id, x :
              AsksFor(rows[c], id, x) => AsksFor(Recorded(e)[c], id, x)
         /\ \A c \in Chains : \A x : Took(rows[c], x) => Took(Recorded(e)[c], x)
<1> DEFINE c == ChainOf(e)
<1>1. c \in Chains /\ Recorded(e) \in Table /\ Recorded(e)[c] # None
      /\ \A b \in Chains : b # c => Recorded(e)[b] = rows[b]
  BY CardFields, RecordedFacts
<1>2. rows[c] # None =>
        /\ Recorded(e)[c].dId = rows[c].dId /\ Recorded(e)[c].dText = rows[c].dText
        /\ Recorded(e)[c].dState = rows[c].dState
  BY <1>1 DEF Recorded, TypeOK, Table
<1>3. /\ \A id, x : AsksFor(rows[c], id, x) => AsksFor(Recorded(e)[c], id, x)
      /\ \A x : Took(rows[c], x) => Took(Recorded(e)[c], x)
  BY <1>1, <1>2 DEF AsksFor, Took
<1>4. QED
  BY <1>1, <1>3

\* What a row says is not wanted again.
LEMMA NotWanted ==
  ASSUME NEW R, NEW a, NEW c, AsksFor(R[c], IdOf(a), a) \/ Took(R[c], a)
  PROVE  ~WantsDetail(R, a, c)
  BY DEF AsksFor, Took, WantsDetail

\* The rows and columns of the chains in S ask for the detail of a.
LEMMA WithDetailsAsk ==
  ASSUME TypeOK, NEW R \in Table, NEW a \in Alerts, NEW S \in SUBSET Chains,
         \A c \in S : R[c] # None
  PROVE  /\ \A c \in S : AsksFor(WithDetails(R, a, S)[c], IdOf(a), a)
         /\ \A c \in Chains : c \notin S => WithDetails(R, a, S)[c] = R[c]
<1>1. ASSUME NEW c \in S PROVE AsksFor(WithDetails(R, a, S)[c], IdOf(a), a)
  <2> DEFINE r == [R[c] EXCEPT !.dId = IdOf(a), !.dText = Detail[a], !.dState = "queued"]
  <2>1. R[c] \in Row
    BY DEF Table
  <2>2. r.dId = IdOf(a) /\ r.dText = Detail[a] /\ r.dState = "queued"
    BY <2>1 DEF Row
  <2>3. WithDetails(R, a, S)[c] = r
    BY DEF WithDetails
  <2>4. WithDetails(R, a, S)[c] # None
    BY WithDetailsFacts DEF Alike
  <2>5. QED
    BY <2>2, <2>3, <2>4 DEF AsksFor
<1>2. \A c \in Chains : c \notin S => WithDetails(R, a, S)[c] = R[c]
  BY DEF WithDetails
<1>3. QED
  BY <1>1, <1>2

\* An accepted card queues the detail of its product, if it is new.
LEMMA AcceptedDetails ==
  ASSUME Typed, FeedInv, RootInv, DetailsOK, Between, CardSent
  PROVE  DetailsOK'
<1> USE DEF Typed, DetailsOK
<1> DEFINE c == ChainOf(air)
           a == air.alert
           R == Recorded(air)
           S == IF air.disp \in {"sent", "update"} /\ WantsDetail(R, a, c)
                THEN {c} ELSE {}
           new == DetailEntries(a, S)
<1>1. /\ air \in Card /\ air' = None /\ cards' = cards
      /\ alias' = alias /\ seen' = seen /\ listed' = listed
      /\ Hears(air, air.disp, air.areas, TRUE)
      /\ rows' = WithDetails(R, a, S) /\ details' = details \o new
  BY CardSentFacts DEF CardSent, world
<1>2. /\ c \in Chains /\ c[2] = air.dest /\ a \in Alerts /\ air.dest \in Dests
      /\ air \in Pending
  BY <1>1, CardFields DEF Pending, OnAir
<1>3. /\ R \in Table /\ R[c] # None
      /\ \A b \in Chains : \A id, x : AsksFor(rows[b], id, x) => AsksFor(R[b], id, x)
      /\ \A b \in Chains : \A x : Took(rows[b], x) => Took(R[b], x)
  BY <1>1, RecordedFacts, RecordedColumns
<1>4. S \in SUBSET Chains /\ S \subseteq {c} /\ \A b \in S : R[b] # None /\ WantsDetail(R, a, b)
  BY <1>2, <1>3
<1>5. /\ listed' \in Nat /\ listed <= listed' /\ Pending' \subseteq Pending
  BY DEF Between
<1>6. /\ \A d \in Dests, x \in Alerts : HeardDetail(log'[d], x) <=> HeardDetail(log[d], x)
      /\ \A d \in Dests : OnceDetail(log'[d])
  <2>1. TRUE \in BOOLEAN
    OBVIOUS
  <2>2. /\ \A d \in Dests, x \in Alerts : HeardDetail(log'[d], x) <=> HeardDetail(log[d], x)
        /\ \A d \in Dests : OnceDetail(log[d]) => OnceDetail(log'[d])
    BY <1>1, <2>1, CardInLog
  <2>3. QED
    BY <2>2 DEF DetailInv
<1> HIDE DEF S, R
<1>7. /\ \A b \in S : AsksFor(rows'[b], IdOf(a), a)
      /\ \A b \in Chains : b \notin S => rows'[b] = R[b]
  BY <1>1, <1>2, <1>3, <1>4, WithDetailsAsk
<1>8. /\ new \in Seq(DetailEntry) /\ OneEach(new)
      /\ \A e \in ToSet(new) : e.alert = a /\ ChainOf(e) \in S
  <2>1. \A b, e \in S : b[2] = e[2] => b = e
    BY <1>4
  <2>2. QED
    BY <1>2, <1>4, <2>1, DetailEntriesFacts, DetailEntriesApart
<1> HIDE DEF new
<1>9. details \in Seq(DetailEntry) /\ ToSet(details) \subseteq Due
  BY DEF TypeOK, LanesOK, Due
<1>10. /\ OnAir("detail")' = {} /\ Due' = ToSet(details')
       /\ ToSet(details') = ToSet(details) \cup ToSet(new)
  BY <1>1, <1>8, <1>9, JoinElements DEF OnAir, Due
<1>11. ASSUME S # {} PROVE ~Touched(a, air.dest)
  <2>1. Live(a, air.dest)
    BY <1>2 DEF Live
  <2>2. WantsDetail(R, a, c)
    BY <1>4, <1>11
  <2>3. ~(\E b \in Chains : b[2] = air.dest
            /\ (AsksFor(rows[b], IdOf(a), a) \/ Took(rows[b], a)))
    <3>1. \A b \in Chains : rows[b] # None /\ b[2] = air.dest => b = c
      BY <1>2 DEF RootInv
    <3>2. ~AsksFor(rows[c], IdOf(a), a) /\ ~Took(rows[c], a)
      BY <1>2, <1>3, <2>2, NotWanted
    <3>3. QED
      BY <3>1, <3>2 DEF AsksFor, Took
  <2>4. ~HeardDetail(log[air.dest], a)
    BY <1>2, <2>1, <2>3 DEF DetailInv
  <2>5. \A e \in Due : ChainOf(e) \in Chains /\ ChainOf(e)[2] = e.dest
    BY DueFields
  <2>6. QED
    BY <1>2, <2>1, <2>3, <2>4, <2>5 DEF DetailInv, Touched
<1>12. \A e \in ToSet(new) : /\ e.alert = a /\ e.dest = air.dest /\ ChainOf(e) = c
                             /\ S = {c}
  <2>1. \A e \in ToSet(new) : e \in DetailEntry
    BY <1>8, SeqElements
  <2>2. \A e \in DetailEntry : ChainOf(e)[2] = e.dest
    BY DueFields
  <2>3. QED
    BY <1>2, <1>4, <1>8, <2>1, <2>2
<1>13. DueApart'
  <2>1. \A e \in ToSet(details), f \in ToSet(new) : e.dest = f.dest => e.alert # f.alert
    BY <1>9, <1>11, <1>12 DEF Touched
  <2>2. OneEach(details \o new)
    BY <1>8, <1>9, <2>1, JoinOneEach DEF DueApart
  <2>3. QED
    BY <1>1, <1>10, <2>2 DEF DueApart
<1>14. \A d \in Dests, x \in Alerts :
         Touched(x, d)' => Touched(x, d) \/ (x = a /\ d = air.dest /\ S = {c})
  BY <1>6, <1>9, <1>10, <1>12 DEF Touched
<1>15. /\ a \in Rest /\ Nth[a] \in Nat /\ Nth[a] <= seen
       /\ seen \in Nat /\ listed \in Nat /\ seen <= listed
  BY <1>2, RestTypes DEF FeedInv, TypeOK
<1>16. \A f \in Pending' : f \in Cards /\ f.alert \in Rest /\ Nth[f.alert] = seen
  BY <1>1, <1>5 DEF Pending, OnAir, Cards, FeedInv, WaitingIsCurrent
<1>17. TouchInv'
  <2>1. S = {c} => Detail[a] # None
    BY <1>4 DEF WantsDetail
  <2>2. QED
    BY <1>1, <1>5, <1>14, <1>15, <1>16, <2>1 DEF TouchInv
<1>18. \A x \in Alerts, d \in Dests : Touched(x, d) /\ Live(x, d)' => Live(x, d)
  BY <1>5, LiveBefore
<1>19. ASSUME NEW x \in Alerts, NEW d \in Dests, d = air.dest,
              Touched(x, d), Live(x, d)'
       PROVE  x = a
  <2>1. x \in Rest /\ Nth[x] <= Nth[a] /\ Nth[x] \in Nat
    BY <1>2, <1>19, RestTypes DEF TouchInv
  <2>2. Nth[x] = listed \/ Nth[x] = seen
    BY <1>1, <1>16, <1>19 DEF Live
  <2>3. Nth[x] = Nth[a]
    BY <1>15, <2>1, <2>2
  <2>4. QED
    BY <1>15, <2>1, <2>3, FeedAssumption DEF Rest
<1>20. \A x : IdOf(x)' = IdOf(x)
  BY <1>1 DEF IdOf
<1>21. ASSUME NEW x \in Alerts, NEW d \in Dests, Touched(x, d), Live(x, d)', NEW b \in Chains,
              b[2] = d
       PROVE  b \notin S
  <2>1. SUFFICES ASSUME b \in S PROVE FALSE
    OBVIOUS
  <2>2. d = air.dest /\ S # {}
    BY <1>2, <1>4, <1>21, <2>1
  <2>3. x = a
    BY <1>19, <1>21, <2>2
  <2>4. QED
    BY <1>11, <1>21, <2>2, <2>3
<1>22. ASSUME NEW e \in Due'
       PROVE  /\ ~HeardDetail(log'[e.dest], e.alert)
              /\ Live(e.alert, e.dest)' =>
                   AsksFor(rows'[ChainOf(e)], IdOf(e.alert), e.alert)
  <2>1. CASE e \in ToSet(details)
    <3>1. /\ e \in Due /\ e.alert \in Alerts /\ e.dest \in Dests
          /\ ChainOf(e) \in Chains /\ ChainOf(e)[2] = e.dest
      BY <1>9, <2>1, DueFields
    <3>2. Touched(e.alert, e.dest)
      BY <3>1 DEF Touched
    <3>3. QED
      BY <1>3, <1>6, <1>7, <1>18, <1>21, <3>1, <3>2 DEF DetailInv
  <2>2. CASE e \in ToSet(new)
    <3>1. e.alert = a /\ e.dest = air.dest /\ ChainOf(e) \in S /\ S # {}
      BY <1>8, <1>12, <2>2
    <3>2. ~HeardDetail(log[air.dest], a)
      BY <1>11, <3>1 DEF Touched
    <3>3. QED
      BY <1>2, <1>6, <1>7, <3>1, <3>2
  <2>3. QED
    BY <1>10, <1>22, <2>1, <2>2
<1>23. ASSUME NEW d \in Dests, NEW x \in Alerts, HeardDetail(log'[d], x), Live(x, d)'
       PROVE  \E b \in Chains : b[2] = d /\ Took(rows'[b], x)
  <2>1. HeardDetail(log[d], x) /\ Touched(x, d)
    BY <1>6, <1>23 DEF Touched
  <2>2. PICK b \in Chains : b[2] = d /\ Took(rows[b], x)
    BY <1>18, <1>23, <2>1 DEF DetailInv
  <2>3. b \notin S
    BY <1>21, <1>23, <2>1, <2>2
  <2>4. QED
    BY <1>3, <1>7, <2>2, <2>3
<1>24. DetailInv'
  BY <1>6, <1>20, <1>22, <1>23 DEF DetailInv, ChainOf, IdOf
<1>25. QED
  BY <1>13, <1>17, <1>24

\* A poll queues a detail where it is neither on its way nor heard, and no
\* older card is on the air.
LEMMA RetryFacts ==
  ASSUME Typed, FeedInv, RootInv, LogInv, LastInv, OwnContent, DetailInv,
         NEW a \in Rest, Nth[a] = listed, NEW c \in RetryDetails(a)
  PROVE  /\ c \in Chains /\ c[2] \in Dests /\ rows[c] # None /\ Detail[a] # None
         /\ ~Touched(a, c[2])
         /\ \A f \in OnAir("card") : f.dest = c[2] => f.alert = a
<1> USE DEF Typed
<1>1. /\ a \in Alerts /\ Nth[a] \in Nat /\ seen \in Nat /\ listed \in Nat /\ seen <= listed
  BY RestTypes DEF FeedInv, TypeOK
<1>2. /\ c \in Prior(a) /\ c[2] \in Matches(a) /\ rows[c].disp \in {"sent", "update"}
      /\ WantsDetail(RowsSuperseded(a), a, c) /\ Targets(a) = {} /\ Type[a] # "Cancel"
  BY DEF RetryDetails
<1>3. c \in Chains /\ c[2] \in Dests /\ rows[c] # None
  BY <1>2 DEF Prior, Chains
<1>4. Detail[a] # None
  BY <1>2 DEF WantsDetail
<1>5. \A b \in Chains : rows[b] # None /\ b[2] = c[2] => b = c
  BY <1>3 DEF RootInv
<1>6. ~AsksFor(rows[c], IdOf(a), a) /\ ~Took(rows[c], a)
  <2>1. ASSUME AsksFor(rows[c], IdOf(a), a) \/ Took(rows[c], a) PROVE FALSE
    <3>1. c \notin LateDetails(a)
      BY <2>1 DEF AsksFor, Took, LateDetails
    <3>2. RowsSuperseded(a)[c] = rows[c]
      BY <1>3, <3>1 DEF RowsSuperseded
    <3>3. AsksFor(RowsSuperseded(a)[c], IdOf(a), a) \/ Took(RowsSuperseded(a)[c], a)
      BY <2>1, <3>2
    <3>4. QED
      BY <1>2, <3>3, NotWanted
  <2>2. QED
    BY <2>1
<1>7. ~Touched(a, c[2])
  <2>1. Live(a, c[2])
    BY DEF Live
  <2>2. \A b \in Chains : b[2] = c[2] =>
          ~AsksFor(rows[b], IdOf(a), a) /\ ~Took(rows[b], a)
    BY <1>5, <1>6 DEF AsksFor, Took
  <2>3. \A e \in Due : ChainOf(e) \in Chains /\ ChainOf(e)[2] = e.dest
    BY DueFields
  <2>4. ~HeardDetail(log[c[2]], a)
    BY <1>1, <1>3, <2>1, <2>2 DEF DetailInv
  <2>5. \A e \in Due : ~(e.alert = a /\ e.dest = c[2])
    BY <1>3, <2>1, <2>2, <2>3 DEF DetailInv
  <2>6. QED
    BY <2>4, <2>5 DEF Touched
<1>8. ASSUME NEW f \in OnAir("card"), f.dest = c[2] PROVE f.alert = a
  <2>1. f \in Pending /\ f = air /\ f.alert \in Rest /\ Nth[f.alert] <= seen
    BY <1>8, PendingFields DEF Pending, FeedInv
  <2>2. Nth[f.alert] \in Nat /\ f.alert \in Alerts /\ Nth[f.alert] <= Nth[a]
    BY <1>1, <2>1, RestTypes
  <2>3. CASE rows[c].text = Text[a]
    <3>1. PICK i \in DOMAIN log[c[2]], b \in Chains :
            /\ Latest(log[c[2]], i) /\ b[2] = c[2] /\ rows[b] # None
            /\ rows[b].text = Text[log[c[2]][i].alert]
      BY <1>3 DEF LastInv
    <3>2. Text[log[c[2]][i].alert] = Text[a]
      BY <1>5, <2>3, <3>1
    <3>3. log[c[2]][i].alert \in Rest /\ Nth[log[c[2]][i].alert] <= Nth[f.alert]
      BY <1>3, <2>1, <3>1 DEF LogInv, Dated, Latest, Answered
    <3>4. log[c[2]][i].alert = a
      BY <3>2, <3>3 DEF OwnContent, Rest
    <3>5. Nth[a] = Nth[f.alert]
      BY <1>1, <2>2, <3>3, <3>4
    <3>6. QED
      BY <2>1, <3>5, FeedAssumption DEF Rest
  <2>4. CASE rows[c].text # Text[a]
    <3>1. \A r \in RowsOf(a, c[2]) : r = rows[c]
      BY <1>5 DEF RowsOf, Prior
    <3>2. RowsOf(a, c[2]) # {}
      BY <1>2 DEF RowsOf
    <3>3. Target(c[2], RootFor(a, c[2], {}), "update", Areas(a, c[2]))
            \in NewsTargets(a)
      BY <1>2, <2>4, <3>1, <3>2 DEF NewsTargets
    <3>4. PICK e \in Pending \ Withdrawn(a) :
            e.dest = c[2] /\ Text[e.alert] = Text[a]
      BY <1>2, <3>3, TargetFields DEF Targets
    <3>5. e.alert \in Rest /\ e.alert = a
      BY <3>4 DEF OwnContent, Rest, FeedInv
    <3>6. CASE IsChange(a)
      <4>1. e \notin Cards
        BY <1>1, <3>4, <3>6, PollSees
      <4>2. QED
        BY <2>1, <3>4, <3>5, <4>1, PendingFields DEF Pending, Cards
    <3>7. CASE ~IsChange(a)
      BY <1>1, <2>1, <3>7, PollSees
    <3>8. QED
      BY <3>6, <3>7
  <2>5. QED
    BY <2>3, <2>4
<1>9. QED
  BY <1>3, <1>4, <1>7, <1>8

\* What a poll does to details: the chains in S ask for that of a, those in L
\* lose what they asked for.
LEMMA PollDetailLane ==
  ASSUME Typed, FeedInv, RootInv, DueApart, NEW a \in Rest, PollOf(a),
         \A c \in RetryDetails(a) : c \in Chains /\ rows[c] # None /\ ~Touched(a, c[2])
  PROVE  \E S \in SUBSET RetryDetails(a), L \in SUBSET LateDetails(a) :
           /\ \A c \in Chains : c \notin S \cup L => rows'[c] = rows[c]
           /\ \A c \in S : AsksFor(rows'[c], IdOf(a), a)
           /\ \A e \in ToSet(details') :
                \/ e \in ToSet(details) /\ ChainOf(e) \notin L
                \/ e.alert = a /\ ChainOf(e) \in S
           /\ DueApart'
<1> USE DEF Typed
<1>1. a \in Alerts /\ Process(a) /\ air' = air
  BY RestTypes, ProcessRows DEF PollOf
<1>2. OnAir("detail")' = OnAir("detail")
  BY <1>1 DEF OnAir
<1>3. CASE Ignored(a)
  <2>1. rows' = rows /\ details' = details
    BY <1>1, <1>3 DEF Process
  <2>2. DueApart'
    BY <1>2, <2>1 DEF DueApart
  <2>3. {} \in SUBSET RetryDetails(a) /\ {} \in SUBSET LateDetails(a)
    OBVIOUS
  <2>4. QED
    BY <2>1, <2>2, <2>3
<1>4. CASE ~Ignored(a)
  <2> DEFINE S == RetryDetails(a)
             L == LateDetails(a)
             R == RowsSuperseded(a)
             old == DetailsKept(a)
             new == DetailEntries(a, S)
  <2>1. rows' = WithDetails(R, a, S) /\ details' = old \o new
    BY <1>1, <1>4 DEF Process
  <2>2. R \in Table /\ \A c \in Chains : Alike(rows[c], R[c])
    BY <1>1, SupersededFacts
  <2>3. \A c \in Chains : c \notin L => R[c] = rows[c]
    BY DEF RowsSuperseded
  <2>4. S \in SUBSET Chains /\ \A c \in S : R[c] # None
    BY <2>2 DEF Alike
  <2>5. \A b, c \in S : b[2] = c[2] => b = c
    BY DEF RootInv
  <2>6. /\ old \in Seq(DetailEntry) /\ OneEach(old)
        /\ \A e \in ToSet(old) : e \in ToSet(details) /\ ChainOf(e) \notin L
    <3>1. details \in Seq(DetailEntry) /\ OneEach(details)
      BY DEF TypeOK, LanesOK, DueApart
    <3>2. ASSUME NEW E
          PROVE  /\ Kept(details, E) \in Seq(DetailEntry)
                 /\ ToSet(Kept(details, E)) = ToSet(details) \cap E
                 /\ OneEach(Kept(details, E))
      <4>1. /\ Kept(details, E) \in Seq(DetailEntry)
            /\ ToSet(Kept(details, E)) = ToSet(details) \cap E
            /\ \A j, k \in DOMAIN Kept(details, E) : \E i, l \in DOMAIN details :
                 /\ Kept(details, E)[j] = details[i] /\ Kept(details, E)[k] = details[l]
                 /\ i = l => j = k
        BY ONLY <3>1, KeptFacts
      <4>2. OneEach(Kept(details, E))
        BY <3>1, <4>1 DEF OneEach
      <4>3. QED
        BY <4>1, <4>2
    <3>3. QED
      BY <3>2 DEF DetailsKept
  <2> HIDE DEF S, L, R, old
  <2>7. /\ new \in Seq(DetailEntry) /\ OneEach(new)
        /\ \A e \in ToSet(new) : e.alert = a /\ ChainOf(e) \in S
    BY <1>1, <2>4, <2>5, DetailEntriesFacts, DetailEntriesApart
  <2> HIDE DEF new
  <2>8. ToSet(details') = ToSet(old) \cup ToSet(new)
    BY <2>1, <2>6, <2>7, JoinElements
  <2>9. \A c \in S : AsksFor(rows'[c], IdOf(a), a)
    BY <1>1, <2>1, <2>2, <2>4, WithDetailsAsk
  <2>10. \A c \in Chains : c \notin S \cup L => rows'[c] = rows[c]
    BY <1>1, <2>1, <2>2, <2>3, <2>4, WithDetailsAsk
  <2>11. \A e \in ToSet(new), f \in Due : e.dest = f.dest => f.alert # a
    <3>1. \A e \in ToSet(new) : e \in DetailEntry
      BY <2>7, SeqElements
    <3>2. \A e \in ToSet(new) : ~Touched(a, e.dest)
      BY <2>7, <3>1, DueFields DEF S
    <3>3. QED
      BY <3>2 DEF Touched
  <2>12. \A e \in ToSet(old), f \in ToSet(new) : e.dest = f.dest => e.alert # f.alert
    BY <2>6, <2>7, <2>11 DEF Due
  <2>13. OneEach(old \o new)
    BY <2>6, <2>7, <2>12, JoinOneEach
  <2>14. \A e \in ToSet(details'), f \in OnAir("detail") : e.dest = f.dest => e.alert # f.alert
    BY <2>6, <2>7, <2>8, <2>11 DEF DueApart, Due
  <2>15. DueApart'
    BY <1>2, <2>1, <2>13, <2>14 DEF DueApart
  <2>16. S \in SUBSET RetryDetails(a) /\ L \in SUBSET LateDetails(a)
    BY DEF S, L
  <2>17. QED
    BY <2>6, <2>7, <2>8, <2>9, <2>10, <2>15, <2>16
<1>5. QED
  BY <1>3, <1>4

\* A poll queues again what was lost, and nothing that is on its way or heard.
LEMMA PollDetails ==
  ASSUME Typed, FeedInv, FeedInv', RootInv, LogInv, LastInv, OwnContent, DetailsOK,
         NEW a \in Rest, PollOf(a)
  PROVE  DetailsOK'
<1> USE DEF Typed, DetailsOK
<1>1. /\ a \in Alerts /\ Nth[a] = listed /\ listed' = listed /\ seen' = Nth[a]
      /\ Nth[a] \in Nat /\ seen \in Nat /\ seen <= listed
      /\ air' = air /\ log' = log
  BY RestTypes, ProcessRows DEF PollOf, world, FeedInv, TypeOK
<1>2. \A c \in RetryDetails(a) :
        /\ c \in Chains /\ c[2] \in Dests /\ rows[c] # None /\ Detail[a] # None
        /\ ~Touched(a, c[2])
        /\ \A f \in OnAir("card") : f.dest = c[2] => f.alert = a
  BY <1>1, RetryFacts
<1>3. PICK S \in SUBSET RetryDetails(a), L \in SUBSET LateDetails(a) :
           /\ \A c \in Chains : c \notin S \cup L => rows'[c] = rows[c]
           /\ \A c \in S : AsksFor(rows'[c], IdOf(a), a)
           /\ \A e \in ToSet(details') :
                \/ e \in ToSet(details) /\ ChainOf(e) \notin L
                \/ e.alert = a /\ ChainOf(e) \in S
           /\ DueApart'
  BY <1>2, PollDetailLane
<1>4. OnAir("detail")' = OnAir("detail") /\ OnAir("card")' = OnAir("card")
  BY <1>1 DEF OnAir
<1>5. /\ \A e \in Cards' : e.alert = a
      /\ alias # "unknown" => \A x : IdOf(x)' = IdOf(x)
  <2>1. /\ \A e \in Cards' : Nth[e.alert] = Nth[a]
        /\ alias # "unknown" => alias' = alias
    BY PollPending
  <2>2. \A e \in Cards' : e.alert \in Rest
    BY DEF FeedInv, Pending, Cards
  <2>3. \A e \in Cards' : e.alert = a
    BY <2>1, <2>2, FeedAssumption DEF Rest
  <2>4. QED
    BY <2>1, <2>3 DEF IdOf
<1>6. \A f \in Pending' : f.alert = a \/ f \in OnAir("card")
  BY <1>4, <1>5 DEF Pending, Cards
<1>7. \A c \in Chains : rows[c] # None => alias # "unknown"
  BY DEF FeedInv
<1>8. \A e \in Due' :
        \/ e \in Due /\ (ChainOf(e) \notin L \/ e \in OnAir("detail"))
        \/ e.alert = a /\ ChainOf(e) \in S
  BY <1>3, <1>4 DEF Due
<1>9. Typed'
  <2>1. DualNext
    BY <1>1 DEF PollOf, Poll, Next, DualNext, Rest
  <2>2. QED
    BY <2>1, TypedStep
<1>10. \A e \in Due' : /\ e.alert \in Alerts /\ e.dest \in Dests /\ ChainOf(e) \in Chains
                       /\ ChainOf(e)[2] = e.dest
  <2>1. details' \in Seq(DetailEntry)
    BY <1>9 DEF TypeOK, LanesOK
  <2>2. ToSet(details') \subseteq DetailEntry
    BY <2>1, SeqElements
  <2>3. Due' \subseteq DetailEntry
    BY <1>4, <2>2, DueFields DEF Due
  <2>4. QED
    BY <2>3, DueFields
<1>11. \A d \in Dests, x \in Alerts :
         Touched(x, d)' => Touched(x, d) \/ (x = a /\ \E c \in S : c[2] = d)
  BY <1>1, <1>8, <1>10 DEF Touched
<1>12. TouchInv'
  <2>1. ASSUME NEW d \in Dests, NEW x \in Alerts, Touched(x, d)'
        PROVE  /\ x \in Rest /\ Nth[x] <= seen' /\ Detail[x] # None
               /\ \A f \in Pending' : f.dest = d => Nth[x] <= Nth[f.alert]
    <3>1. CASE Touched(x, d)
      <4>1. /\ x \in Rest /\ Nth[x] <= seen /\ Detail[x] # None /\ Nth[x] \in Nat
            /\ \A f \in Pending : f.dest = d => Nth[x] <= Nth[f.alert]
        BY <3>1, RestTypes DEF TouchInv
      <4>2. Nth[x] <= Nth[a]
        BY <1>1, <4>1
      <4>3. QED
        BY <1>1, <1>6, <4>1, <4>2 DEF Pending
    <3>2. CASE x = a /\ \E c \in S : c[2] = d
      <4>1. PICK c \in S : c[2] = d
        BY <3>2
      <4>2. Detail[a] # None /\ \A f \in OnAir("card") : f.dest = d => f.alert = a
        BY <1>2, <1>3, <4>1
      <4>3. \A f \in Pending' : f.dest = d => f.alert = a
        BY <1>6, <4>2
      <4>4. Nth[a] <= Nth[a]
        BY <1>1
      <4>5. QED
        BY <1>1, <3>2, <4>2, <4>3, <4>4
    <3>3. QED
      BY <1>11, <2>1, <3>1, <3>2
  <2>2. QED
    BY <2>1 DEF TouchInv
<1>13. ASSUME NEW x \in Alerts, NEW d \in Dests, Touched(x, d), Live(x, d)'
       PROVE  /\ Live(x, d)
              /\ x = a \/ \E f \in OnAir("card") : f.alert = x /\ f.dest = d
              /\ \A c \in S : c[2] # d
  <2>1. x \in Rest
    BY <1>13 DEF TouchInv
  <2>2. x = a \/ \E f \in OnAir("card") : f.alert = x /\ f.dest = d
    <3>1. CASE Nth[x] = listed'
      BY <1>1, <2>1, <3>1, FeedAssumption DEF Rest
    <3>2. CASE \E f \in Pending' : f.alert = x /\ f.dest = d
      BY <1>6, <3>2
    <3>3. QED
      BY <1>13, <3>1, <3>2 DEF Live
  <2>3. Live(x, d)
    BY <1>1, <2>2 DEF Live, Pending
  <2>4. ASSUME NEW c \in S, c[2] = d PROVE FALSE
    <3>1. x # a
      BY <1>2, <1>3, <1>13, <2>4
    <3>2. QED
      BY <1>2, <1>3, <2>2, <2>4, <3>1
  <2>5. QED
    BY <2>2, <2>3, <2>4
<1>14. ASSUME NEW e \in Due'
       PROVE  /\ ~HeardDetail(log'[e.dest], e.alert)
              /\ Live(e.alert, e.dest)' =>
                   AsksFor(rows'[ChainOf(e)], IdOf(e.alert)', e.alert)
  <2> DEFINE c == ChainOf(e)
  <2>1. /\ e.alert \in Alerts /\ e.dest \in Dests /\ c \in Chains /\ c[2] = e.dest
    BY <1>10, <1>14
  <2>2. CASE e.alert = a /\ c \in S
    <3>1. AsksFor(rows'[c], IdOf(a), a) /\ rows[c] # None /\ ~Touched(a, e.dest)
      BY <1>2, <1>3, <2>1, <2>2
    <3>2. IdOf(a)' = IdOf(a)
      BY <1>5, <1>7, <2>1, <3>1
    <3>3. QED
      BY <1>1, <2>2, <3>1, <3>2 DEF Touched
  <2>3. CASE e \in Due /\ (c \notin L \/ e \in OnAir("detail"))
    <3>1. Touched(e.alert, e.dest) /\ ~HeardDetail(log[e.dest], e.alert)
      BY <2>3 DEF Touched, DetailInv
    <3>2. ASSUME Live(e.alert, e.dest)'
          PROVE  AsksFor(rows'[c], IdOf(e.alert)', e.alert)
      <4>1. /\ Live(e.alert, e.dest) /\ c \notin S
            /\ e.alert = a \/ OnAir("card") # {}
        BY <1>13, <2>1, <3>1, <3>2
      <4>2. AsksFor(rows[c], IdOf(e.alert), e.alert)
        BY <2>3, <4>1 DEF DetailInv
      <4>3. IdOf(e.alert)' = IdOf(e.alert)
        BY <1>5, <1>7, <2>1, <4>2 DEF AsksFor
      <4>4. c \notin L
        <5>1. CASE e.alert = a
          BY <4>2, <5>1 DEF AsksFor, LateDetails
        <5>2. CASE OnAir("card") # {}
          <6>1. OnAir("detail") = {}
            BY <5>2 DEF OnAir
          <6>2. QED
            BY <2>3, <6>1
        <5>3. QED
          BY <4>1, <5>1, <5>2
      <4>5. QED
        BY <1>3, <2>1, <4>1, <4>2, <4>3, <4>4
    <3>3. QED
      BY <1>1, <3>1, <3>2
  <2>4. QED
    BY <1>8, <1>14, <2>2, <2>3
<1>15. ASSUME NEW d \in Dests, NEW x \in Alerts, HeardDetail(log'[d], x), Live(x, d)'
       PROVE  \E c \in Chains : c[2] = d /\ Took(rows'[c], x)
  <2>1. HeardDetail(log[d], x) /\ Touched(x, d)
    BY <1>1, <1>15 DEF Touched
  <2>2. Live(x, d) /\ \A c \in S : c[2] # d
    BY <1>13, <1>15, <2>1
  <2>3. PICK c \in Chains : c[2] = d /\ Took(rows[c], x)
    BY <2>1, <2>2 DEF DetailInv
  <2>4. c \notin L
    BY <2>3 DEF Took, LateDetails
  <2>5. QED
    BY <1>3, <2>2, <2>3, <2>4
<1>16. \A d \in Dests : OnceDetail(log'[d])
  BY <1>1 DEF DetailInv
<1>17. DetailInv'
  BY <1>14, <1>15, <1>16 DEF DetailInv, ChainOf
<1>18. QED
  BY <1>3, <1>12, <1>17

LEMMA DetailsStep ==
  ASSUME Typed, FeedInv, RootInv, LogInv, LastInv, OwnContent, DetailsOK, [Next]_vars
  PROVE  DetailsOK'
<1>1. ASSUME NEW a \in Rest, PollOf(a) PROVE DetailsOK'
  BY <1>1, FeedStep, PollDetails
<1>2. CASE Between
  <2>1. CASE Poll
    BY <1>1, <2>1 DEF Poll, PollOf, Rest
  <2>2. CASE CardSent
    BY <1>2, <2>2, AcceptedDetails
  <2>3. ASSUME NEW sent \in BOOLEAN, DetailDone(sent) PROVE DetailsOK'
    BY <1>2, <2>3, AnswerDetails
  <2>4. CASE Publish \/ (\E d \in Dests : Edit(d)) \/ UNCHANGED vars
    BY <1>2, <2>4, OutsideFacts, OtherDetails
  <2>5. CASE \/ TakeCard \/ TakeRest \/ Crash
             \/ \E unsure \in BOOLEAN : CardFailed(unsure)
             \/ \E sent \in BOOLEAN : FrameDone(sent)
    BY <1>2, <2>5, OtherDetails
  <2>6. QED
    BY <2>1, <2>2, <2>3, <2>4, <2>5 DEF Next, Worker
<1>3. QED
  BY <1>1, <1>2, Steps

LEMMA DetailsInit == Init => DetailsOK
<1> SUFFICES ASSUME Init PROVE DetailsOK
  OBVIOUS
<1>1. Due = {} /\ DOMAIN details = {} /\ \A d \in Dests : DOMAIN log[d] = {}
  BY NoElements DEF Init, Due, OnAir
<1>2. \A d \in Dests : \A x : ~HeardDetail(log[d], x) /\ ~Touched(x, d)
  BY <1>1 DEF HeardDetail, Touched
<1>3. QED
  BY <1>1, <1>2 DEF DetailsOK, DueApart, OneEach, TouchInv, DetailInv, OnceDetail, Due

\* While no two products have one text or one detail, a product's detail is
\* accepted by a destination's radio, with its answer arrived, once:
\* _queue_detail_if_needed and _retry_detail_if_needed read from the row what
\* is on its way or was accepted.
THEOREM DetailTakenOnce == Spec => []DetailHeardOnce
<1> DEFINE Inv == RootInv /\ LastInv
           Once == OwnContent => DetailsOK
<1>1. Typed /\ FeedInv /\ [Next]_vars => FeedInv'
  BY FeedStep
<1>2. Typed /\ FeedInv /\ Inv /\ [Next]_vars => Inv'
  BY RootStep, LastStep
<1>3. Typed /\ FeedInv /\ Inv /\ LogInv /\ Once /\ [Next]_vars => Once'
  <2>1. OwnContent' = OwnContent
    BY DEF OwnContent
  <2>2. QED
    BY <2>1, DetailsStep
<1>4. Once => DetailHeardOnce
  BY DEF DetailHeardOnce, DetailsOK, DetailInv, OnceDetail
<1>5. Init => Inv /\ Once
  BY QuietInit, DetailsInit
<1> HIDE DEF Inv, Once
<1>6. QED
  BY <1>1, <1>2, <1>3, <1>4, <1>5, FeedInit, TypedAlways, HeardAlways, PTL DEF Spec
=============================================================================
