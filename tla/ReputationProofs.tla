------------------------- MODULE ReputationProofs -------------------------
(***************************************************************************)
(* Theorems about Reputation, for any entities, deals, settled escrows,    *)
(* ratings and configurations.  What a history counts for is a fold over   *)
(* its positions; the proofs turn it into sums over the escrows on it.     *)
(***************************************************************************)
EXTENDS Reputation, SumLemmas, SequenceTheorems

-----------------------------------------------------------------------------
(* What a history counts for. *)

(* The counts of an entity, and those of its records that are gone. *)
Counts ==
  [total : Nat, successful : Nat, disputed : Nat, score : {0}, rating : {0}, updated : {0}]

LEMMA SameCounts ==
  ASSUME NEW r \in Counts, NEW q \in Counts,
         r.total = q.total, r.successful = q.successful, r.disputed = q.disputed
  PROVE  r = q
  BY DEF Counts

(* r with these three counts. *)
WithCounts(r, t, a, b) == [r EXCEPT !.total = t, !.successful = a, !.disputed = b]

LEMMA CountsSet ==
  ASSUME NEW r \in Counts, NEW t \in Nat, NEW a \in Nat, NEW b \in Nat
  PROVE  /\ WithCounts(r, t, a, b) \in Counts
         /\ WithCounts(r, t, a, b).total = t
         /\ WithCounts(r, t, a, b).successful = a
         /\ WithCounts(r, t, a, b).disputed = b
  BY DEF Counts, WithCounts

LEMMA CountedOne ==
  ASSUME NEW r \in Counts, NEW o
  PROVE  /\ Counted(r, o) \in Counts
         /\ Counted(r, o).total = r.total + 1
         /\ Counted(r, o).successful = r.successful + One(Successful(o))
         /\ Counted(r, o).disputed = r.disputed + One(o = "Disputed")
<1> DEFINE t == r.total + 1
           a == r.successful + One(Successful(o))
           b == r.disputed + One(o = "Disputed")
<1>1. t \in Nat /\ a \in Nat /\ b \in Nat
  BY DEF One, Counts
<1>2. Counted(r, o) = WithCounts(r, t, a, b)
  BY DEF Counted, WithCounts
<1> HIDE DEF t, a, b
<1>3. /\ WithCounts(r, t, a, b) \in Counts
      /\ WithCounts(r, t, a, b).total = t
      /\ WithCounts(r, t, a, b).successful = a
      /\ WithCounts(r, t, a, b).disputed = b
  BY <1>1, CountsSet
<1> QED
  BY <1>2, <1>3 DEF t, a, b

(* One level of the recursion of the fold. *)
CountUnfolded(g, c, ids) ==
  [s \in SUBSET (DOMAIN ids) |->
     IF s = {} THEN c
     ELSE Counted(g[s \ {Max(s)}], record[ids[Max(s)]].outcome)]

LEMMA CountsUnfold ==
  ASSUME NEW c, NEW ids
  PROVE  PrunedCounts(c, ids) = (CHOOSE g : g = CountUnfolded(g, c, ids))[DOMAIN ids]
  BY DEF PrunedCounts, FoldLeft, MapThenFoldSet, CountUnfolded

(* The last position of some. *)
LEMMA MaxIsIn ==
  ASSUME NEW s, IsFiniteSet(s), s \subseteq Nat, s # {}
  PROVE  Max(s) \in s
<1> DEFINE F == {{y \in s : y >= x} : x \in s}
<1>0. IsFiniteSet(s) /\ F \in SUBSET (SUBSET s) /\ F # {}
  OBVIOUS
<1>1. \A z \in s : {y \in s : y >= z} \in F
  OBVIOUS
<1>2. PICK T \in F : \A U \in F : U \subseteq T => U = T
  <2> HIDE DEF F
  <2> QED
    BY ONLY <1>0, MinimalSubset
<1>3. PICK x \in s : T = {y \in s : y >= x}
  BY <1>2
<1> HIDE DEF F
<1>4. ASSUME NEW z \in s, z > x PROVE FALSE
  <2> DEFINE U == {y \in s : y >= z}
  <2>1. x \in Nat /\ z \in Nat /\ \A y \in s : y \in Nat
    OBVIOUS
  <2>2. \A y \in s : y >= z => y >= x
    BY <1>4, <2>1
  <2>3. x >= x /\ ~(x >= z)
    BY <1>4, <2>1
  <2>4. U \subseteq T /\ x \in T /\ x \notin U
    BY ONLY <1>3, <2>2, <2>3
  <2> QED
    BY <1>1, <1>2, <2>4
<1>5. \A z \in s : x >= z
  BY <1>4
<1> QED
  BY <1>5 DEF Max

-----------------------------------------------------------------------------
(* The fold is three sums over the positions. *)

All(ids) == [i \in DOMAIN ids |-> 1]
Won(ids) == [i \in DOMAIN ids |-> One(Successful(record[ids[i]].outcome))]
Lost(ids) == [i \in DOMAIN ids |-> One(record[ids[i]].outcome = "Disputed")]

(* What the positions in s add to c. *)
Added(c, ids, s) ==
  [total |-> c.total + SumFunctionOnSet(All(ids), s),
   successful |-> c.successful + SumFunctionOnSet(Won(ids), s),
   disputed |-> c.disputed + SumFunctionOnSet(Lost(ids), s),
   score |-> 0, rating |-> 0, updated |-> 0]

LEMMA PositionValues ==
  ASSUME NEW ids, NEW i \in DOMAIN ids
  PROVE  /\ All(ids)[i] = 1
         /\ Won(ids)[i] = One(Successful(record[ids[i]].outcome))
         /\ Lost(ids)[i] = One(record[ids[i]].outcome = "Disputed")
         /\ All(ids)[i] \in Nat /\ Won(ids)[i] \in Nat /\ Lost(ids)[i] \in Nat
  BY DEF All, Won, Lost, One

LEMMA AddedType ==
  ASSUME NEW c \in Counts, NEW ids, NEW s, IsFiniteSet(s), s \subseteq DOMAIN ids
  PROVE  Added(c, ids, s) \in Counts
<1>1. /\ SumFunctionOnSet(All(ids), s) \in Nat
      /\ SumFunctionOnSet(Won(ids), s) \in Nat
      /\ SumFunctionOnSet(Lost(ids), s) \in Nat
  BY PositionValues, SumType
<1> DEFINE t == c.total + SumFunctionOnSet(All(ids), s)
           a == c.successful + SumFunctionOnSet(Won(ids), s)
           b == c.disputed + SumFunctionOnSet(Lost(ids), s)
<1>2. t \in Nat /\ a \in Nat /\ b \in Nat
  BY <1>1 DEF Counts
<1>3. Added(c, ids, s) = [total |-> t, successful |-> a, disputed |-> b,
                          score |-> 0, rating |-> 0, updated |-> 0]
  BY DEF Added
<1> HIDE DEF t, a, b
<1> QED
  BY <1>2, <1>3 DEF Counts

(* One position more. *)
LEMMA AddedOne ==
  ASSUME NEW c \in Counts, NEW ids, NEW s, IsFiniteSet(s), s \subseteq DOMAIN ids, NEW i \in s
  PROVE  Added(c, ids, s) = Counted(Added(c, ids, s \ {i}), record[ids[i]].outcome)
<1> DEFINE rest == Added(c, ids, s \ {i})
           o == record[ids[i]].outcome
<1>1. IsFiniteSet(s \ {i}) /\ s \ {i} \subseteq DOMAIN ids /\ i \in DOMAIN ids
  BY FS_RemoveElement
<1>2. rest \in Counts /\ Added(c, ids, s) \in Counts
  BY <1>1, AddedType
<1>3. /\ \A j \in s : All(ids)[j] \in Int /\ Won(ids)[j] \in Int /\ Lost(ids)[j] \in Int
      /\ \A j \in s \ {i} : All(ids)[j] \in Int /\ Won(ids)[j] \in Int /\ Lost(ids)[j] \in Int
  BY PositionValues
<1>4. /\ SumFunctionOnSet(All(ids), s) = All(ids)[i] + SumFunctionOnSet(All(ids), s \ {i})
      /\ SumFunctionOnSet(Won(ids), s) = Won(ids)[i] + SumFunctionOnSet(Won(ids), s \ {i})
      /\ SumFunctionOnSet(Lost(ids), s) = Lost(ids)[i] + SumFunctionOnSet(Lost(ids), s \ {i})
  BY <1>3, SumWithout
<1>5. /\ SumFunctionOnSet(All(ids), s \ {i}) \in Int
      /\ SumFunctionOnSet(Won(ids), s \ {i}) \in Int
      /\ SumFunctionOnSet(Lost(ids), s \ {i}) \in Int
  BY <1>1, <1>3, SumType
<1>6. /\ All(ids)[i] = 1 /\ Won(ids)[i] = One(Successful(o)) /\ Lost(ids)[i] = One(o = "Disputed")
      /\ One(Successful(o)) \in Int /\ One(o = "Disputed") \in Int
  BY <1>1, PositionValues DEF One
<1>7. c.total \in Int /\ c.successful \in Int /\ c.disputed \in Int
  BY DEF Counts
<1>8. /\ rest.total = c.total + SumFunctionOnSet(All(ids), s \ {i})
      /\ rest.successful = c.successful + SumFunctionOnSet(Won(ids), s \ {i})
      /\ rest.disputed = c.disputed + SumFunctionOnSet(Lost(ids), s \ {i})
      /\ Added(c, ids, s).total = c.total + SumFunctionOnSet(All(ids), s)
      /\ Added(c, ids, s).successful = c.successful + SumFunctionOnSet(Won(ids), s)
      /\ Added(c, ids, s).disputed = c.disputed + SumFunctionOnSet(Lost(ids), s)
  BY DEF Added
<1> HIDE DEF rest, o
<1>9. /\ Added(c, ids, s).total = rest.total + 1
      /\ Added(c, ids, s).successful = rest.successful + One(Successful(o))
      /\ Added(c, ids, s).disputed = rest.disputed + One(o = "Disputed")
  BY <1>4, <1>5, <1>6, <1>7, <1>8
<1>10. Added(c, ids, s) = Counted(rest, o)
  BY <1>2, <1>9, CountedOne, SameCounts
<1> QED
  BY <1>10 DEF rest, o

LEMMA AddedNone == ASSUME NEW c \in Counts, NEW ids PROVE Added(c, ids, {}) = c
<1>1. Added(c, ids, {}) \in Counts
  BY AddedType, FS_EmptySet
<1>2. /\ SumFunctionOnSet(All(ids), {}) = 0
      /\ SumFunctionOnSet(Won(ids), {}) = 0
      /\ SumFunctionOnSet(Lost(ids), {}) = 0
  BY SumOfNone
<1>3. c.total \in Nat /\ c.successful \in Nat /\ c.disputed \in Nat
  BY DEF Counts
<1> QED
  BY <1>1, <1>2, <1>3, SameCounts DEF Added

(* The fold is the only function that unfolds like this one. *)
LEMMA FoldIsAdded ==
  ASSUME NEW c \in Counts, NEW ids, IsFiniteSet(DOMAIN ids), DOMAIN ids \subseteq Nat
  PROVE  PrunedCounts(c, ids) = Added(c, ids, DOMAIN ids)
<1> DEFINE D == DOMAIN ids
           h == [s \in SUBSET D |-> Added(c, ids, s)]
           g == CHOOSE g : g = CountUnfolded(g, c, ids)
<1>1. ASSUME NEW s \in SUBSET D
      PROVE  /\ IsFiniteSet(s)
             /\ s # {} => Max(s) \in s /\ s \ {Max(s)} \in SUBSET D
             /\ h[s] = IF s = {} THEN c ELSE Counted(h[s \ {Max(s)}], record[ids[Max(s)]].outcome)
  <2>1. IsFiniteSet(s)
    BY FS_Subset
  <2>2. ASSUME s # {}
        PROVE  Max(s) \in s /\ s \ {Max(s)} \in SUBSET D
    BY <2>1, <2>2, MaxIsIn
  <2>3. CASE s = {}
    BY <2>1, <2>3, AddedNone
  <2>4. CASE s # {}
    <3>1. h[s] = Added(c, ids, s) /\ h[s \ {Max(s)}] = Added(c, ids, s \ {Max(s)})
      BY <2>2, <2>4
    <3>2. Added(c, ids, s) = Counted(Added(c, ids, s \ {Max(s)}), record[ids[Max(s)]].outcome)
      BY <2>1, <2>2, <2>4, AddedOne
    <3> HIDE DEF h
    <3> QED
      BY <2>1, <2>2, <2>4, <3>1, <3>2
  <2> QED
    BY <2>3, <2>4
<1>2. h = CountUnfolded(h, c, ids)
  <2>1. CountUnfolded(h, c, ids) =
          [s \in SUBSET D |->
             IF s = {} THEN c ELSE Counted(h[s \ {Max(s)}], record[ids[Max(s)]].outcome)]
    BY DEF CountUnfolded
  <2>2. h = [s \in SUBSET D |-> h[s]]
    OBVIOUS
  <2> HIDE DEF h
  <2> QED
    BY <1>1, <2>1, <2>2
<1>3. g = CountUnfolded(g, c, ids)
  <2> HIDE DEF h
  <2> QED
    BY <1>2
<1>4. PrunedCounts(c, ids) = g[D]
  BY CountsUnfold
<1> HIDE DEF g, h
<1>5. ASSUME NEW s \in SUBSET D
      PROVE  g[s] = IF s = {} THEN c ELSE Counted(g[s \ {Max(s)}], record[ids[Max(s)]].outcome)
  BY <1>3 DEF CountUnfolded
<1> DEFINE F == {s \in SUBSET D : g[s] # h[s]}
<1>6. ASSUME F # {} PROVE FALSE
  <2>0. F \in SUBSET (SUBSET D)
    OBVIOUS
  <2>1. PICK T \in F : \A U \in F : U \subseteq T => U = T
    <3> HIDE DEF F
    <3> QED
      BY <1>6, <2>0, MinimalSubset
  <2>2. T \in SUBSET D /\ g[T] # h[T]
    BY <2>1
  <2>3. T # {}
    BY <1>1, <1>5, <2>2
  <2>4. T \ {Max(T)} \in SUBSET D /\ T \ {Max(T)} \notin F
    BY <1>1, <2>1, <2>2, <2>3
  <2>5. g[T \ {Max(T)}] = h[T \ {Max(T)}]
    BY <2>4
  <2> QED
    BY <1>1, <1>5, <2>2, <2>3, <2>5
<1>7. g[D] = h[D]
  BY <1>6
<1> QED
  BY <1>4, <1>7 DEF h

-----------------------------------------------------------------------------
(* The inductive invariant. *)

Held(x) == Range(history[x])

RecordType ==
  [entity : Entities \cup {NoOne}, counterparty : Entities \cup {NoOne},
   outcome : TransactionOutcome \cup {"None"}, rating : Ratings \cup {NoRating}, at : Nat]

RecordsFit ==
  /\ now \in Nat
  /\ record \in [Escrows -> RecordType]
  /\ \A e \in Escrows : OnFile(e) => record[e].entity \in Entities

(* Every escrow is on one history at most, and, unless a review disturbed  *)
(* it, on that of the entity its record is about.                          *)
HistoriesFit ==
  /\ history \in [Entities -> Seq(Escrows)]
  /\ \A x \in Entities : IsInjective(history[x])
  /\ \A x, y \in Entities : x # y => Held(x) \cap Held(y) = {}
  /\ \A x \in Entities : \A e \in Held(x) :
       OnFile(e) /\ (x \notin disturbed => record[e].entity = x)
  /\ \A e \in Escrows :
       OnFile(e) /\ record[e].entity \notin disturbed => e \in Held(record[e].entity)

Fields == {"total", "successful", "disputed", "score", "rating", "updated"}

(* What the counts of a score are; the score itself is of no concern here. *)
HasCounts(r) ==
  /\ r = [f \in Fields |-> r[f]]
  /\ r.total \in Nat /\ r.successful \in Nat /\ r.disputed \in Nat

CountsFit ==
  /\ rep = [x \in Entities |-> rep[x]]
  /\ \A x \in Entities : HasCounts(rep[x])
  /\ gone \in [Entities -> Counts]

RanksFit ==
  /\ merchants \in Seq(Entities) /\ IsInjective(merchants)
  /\ \A x \in Entities : x \in Range(merchants) <=> rep[x].total > 0

(* What each escrow counts for. *)
OneEach == [e \in Escrows |-> 1]
WonOn(records) == [e \in Escrows |-> One(Successful(records[e].outcome))]
LostOn(records) == [e \in Escrows |-> One(records[e].outcome = "Disputed")]

CountsAre(r, c, ids, records) ==
  /\ r.total = c.total + SumFunctionOnSet(OneEach, ids)
  /\ r.successful = c.successful + SumFunctionOnSet(WonOn(records), ids)
  /\ r.disputed = c.disputed + SumFunctionOnSet(LostOn(records), ids)

CountsAreSums ==
  \A x \in Entities \ disturbed : CountsAre(rep[x], gone[x], Held(x), record)

ReputationInv == RecordsFit /\ HistoriesFit /\ CountsFit /\ RanksFit /\ CountsAreSums

(* Whoever is named on a rated record is on the list of those who rated it,*)
(* unless a relay has put the name there.                                  *)
RatingsFit ==
  \A e \in Escrows \ renamed :
    OnFile(e) /\ record[e].rating # NoRating => <<record[e].counterparty, e>> \in rated

-----------------------------------------------------------------------------
(* Lemmas about counts. *)

LEMMA CountValues ==
  ASSUME NEW records, NEW e \in Escrows
  PROVE  /\ OneEach[e] = 1 /\ OneEach[e] \in Nat
         /\ WonOn(records)[e] = One(Successful(records[e].outcome))
         /\ LostOn(records)[e] = One(records[e].outcome = "Disputed")
         /\ WonOn(records)[e] \in Nat /\ LostOn(records)[e] \in Nat
  BY DEF OneEach, WonOn, LostOn, One

LEMMA SeqIsFinite ==
  ASSUME NEW S, NEW ids \in Seq(S)
  PROVE  /\ DOMAIN ids = 1..Len(ids) /\ IsFiniteSet(DOMAIN ids) /\ DOMAIN ids \subseteq Nat
         /\ Len(ids) \in Nat /\ \A i \in DOMAIN ids : ids[i] \in S
<1>1. DOMAIN ids = 1..Len(ids) /\ Len(ids) \in Nat /\ \A i \in 1..Len(ids) : ids[i] \in S
  BY ElementOfSeq, LenProperties
<1> QED
  BY <1>1, FS_Interval

(* What a history counts for, as sums over the escrows on it. *)
LEMMA HistoryCounts ==
  ASSUME NEW c \in Counts, NEW ids \in Seq(Escrows), IsInjective(ids)
  PROVE  /\ IsFiniteSet(Range(ids)) /\ Range(ids) \subseteq Escrows
         /\ PrunedCounts(c, ids) \in Counts
         /\ CountsAre(PrunedCounts(c, ids), c, Range(ids), record)
<1>1. IsFiniteSet(DOMAIN ids) /\ DOMAIN ids \subseteq Nat /\ \A i \in DOMAIN ids : ids[i] \in Escrows
  BY SeqIsFinite
<1>2. PrunedCounts(c, ids) = Added(c, ids, DOMAIN ids)
  BY <1>1, FoldIsAdded
<1>3. \A i \in DOMAIN ids :
        /\ OneEach[ids[i]] \in Int /\ All(ids)[i] = OneEach[ids[i]]
        /\ WonOn(record)[ids[i]] \in Int /\ Won(ids)[i] = WonOn(record)[ids[i]]
        /\ LostOn(record)[ids[i]] \in Int /\ Lost(ids)[i] = LostOn(record)[ids[i]]
  BY <1>1, CountValues, PositionValues
<1>4. /\ IsFiniteSet(Range(ids))
      /\ SumFunctionOnSet(All(ids), DOMAIN ids) = SumFunctionOnSet(OneEach, Range(ids))
  BY <1>1, <1>3, SumOverRange
<1>5. SumFunctionOnSet(Won(ids), DOMAIN ids) = SumFunctionOnSet(WonOn(record), Range(ids))
  BY <1>1, <1>3, SumOverRange
<1>6. SumFunctionOnSet(Lost(ids), DOMAIN ids) = SumFunctionOnSet(LostOn(record), Range(ids))
  BY <1>1, <1>3, SumOverRange
<1>7. Added(c, ids, DOMAIN ids) \in Counts
  BY <1>1, AddedType
<1>8. CountsAre(Added(c, ids, DOMAIN ids), c, Range(ids), record)
  BY <1>4, <1>5, <1>6 DEF CountsAre, Added
<1>9. Range(ids) \subseteq Escrows
  BY <1>1 DEF Range
<1> QED
  BY <1>2, <1>4, <1>7, <1>8, <1>9

(* A list without repetition names everyone once at most. *)
LEMMA NamedOnce ==
  ASSUME NEW S, NEW m \in Seq(S), IsInjective(m), NEW x
  PROVE  Cardinality({i \in DOMAIN m : m[i] = x}) = One(x \in Range(m))
<1>1. CASE x \in Range(m)
  <2>1. PICK i \in DOMAIN m : m[i] = x
    BY <1>1 DEF Range
  <2>2. {j \in DOMAIN m : m[j] = x} = {i}
    BY <2>1 DEF IsInjective
  <2> QED
    BY <1>1, <2>2, FS_Singleton DEF One
<1>2. CASE x \notin Range(m)
  <2>1. {j \in DOMAIN m : m[j] = x} = {}
    BY <1>2 DEF Range
  <2> QED
    BY <1>2, <2>1, FS_EmptySet DEF One
<1> QED
  BY <1>1, <1>2

LEMMA SetCounts ==
  ASSUME NEW r, HasCounts(r), NEW t \in Nat, NEW a \in Nat, NEW b \in Nat
  PROVE  LET q == WithCounts(r, t, a, b)
         IN  HasCounts(q) /\ q.total = t /\ q.successful = a /\ q.disputed = b
  BY DEF HasCounts, WithCounts, Fields

SameCountsAs(q, r) ==
  q.total = r.total /\ q.successful = r.successful /\ q.disputed = r.disputed

WithScore(r, s, g, u) == [r EXCEPT !.score = s, !.rating = g, !.updated = u]

LEMMA SetScore ==
  ASSUME NEW r, HasCounts(r), NEW s, NEW g, NEW u
  PROVE  HasCounts(WithScore(r, s, g, u)) /\ SameCountsAs(WithScore(r, s, g, u), r)
  BY DEF HasCounts, Fields, WithScore, SameCountsAs

LEMMA ScoredKeeps ==
  ASSUME NEW r, HasCounts(r), NEW a
  PROVE  HasCounts(Scored(r, a)) /\ SameCountsAs(Scored(r, a), r)
<1> DEFINE base == IF a.weight > 0 THEN a.value \div a.weight ELSE 0
           s == Clamp(base - a.disputed * config.penalty)
           g == IF a.ratingWeight > 0 THEN Clamp(a.ratingValue \div a.ratingWeight) ELSE 0
<1>1. Scored(r, a) = WithScore(r, s, g, now)
  BY Zenon DEF Scored, WithScore
<1> HIDE DEF base, s, g
<1> QED
  BY <1>1, SetScore

LEMMA CountedHas ==
  ASSUME NEW r, HasCounts(r), NEW o
  PROVE  /\ HasCounts(Counted(r, o))
         /\ Counted(r, o).total = r.total + 1
         /\ Counted(r, o).successful = r.successful + One(Successful(o))
         /\ Counted(r, o).disputed = r.disputed + One(o = "Disputed")
<1> DEFINE t == r.total + 1
           a == r.successful + One(Successful(o))
           b == r.disputed + One(o = "Disputed")
<1>1. t \in Nat /\ a \in Nat /\ b \in Nat
  BY DEF One, HasCounts
<1>2. Counted(r, o) = WithCounts(r, t, a, b)
  BY DEF Counted, WithCounts
<1> HIDE DEF t, a, b
<1>3. /\ HasCounts(WithCounts(r, t, a, b))
      /\ WithCounts(r, t, a, b).total = t
      /\ WithCounts(r, t, a, b).successful = a
      /\ WithCounts(r, t, a, b).disputed = b
  BY <1>1, SetCounts
<1> QED
  BY <1>2, <1>3 DEF t, a, b

(* An outcome that was counted is exchanged for another one. *)
Exchanged(q, r, prior, o) ==
  /\ q.total = r.total
  /\ q.successful = (r.successful - One(Successful(prior))) + One(Successful(o))
  /\ q.disputed = (r.disputed - One(prior = "Disputed")) + One(o = "Disputed")

LEMMA RecountedHas ==
  ASSUME NEW r, HasCounts(r), NEW prior, NEW o
  PROVE  /\ HasCounts(Recounted(r, prior, o))
         /\ Recounted(r, prior, o).total = r.total
         /\ /\ Successful(prior) => r.successful > 0
            /\ prior = "Disputed" => r.disputed > 0
            => Exchanged(Recounted(r, prior, o), r, prior, o)
<1> DEFINE successful == IF Successful(prior) THEN Less(r.successful) ELSE r.successful
           disputed == IF prior = "Disputed" THEN Less(r.disputed) ELSE r.disputed
           t == r.total
           a == successful + One(Successful(o))
           b == disputed + One(o = "Disputed")
<1>1. /\ t \in Nat /\ a \in Nat /\ b \in Nat
      /\ (Successful(prior) => r.successful > 0) =>
            a = (r.successful - One(Successful(prior))) + One(Successful(o))
      /\ (prior = "Disputed" => r.disputed > 0) =>
            b = (r.disputed - One(prior = "Disputed")) + One(o = "Disputed")
  BY DEF One, Less, HasCounts
<1>2. Recounted(r, prior, o) = WithCounts(r, t, a, b)
  <2>1. [r EXCEPT !.total = r.total] = r
    BY DEF HasCounts, Fields
  <2> QED
    BY <2>1, Zenon DEF Recounted, WithCounts
<1> HIDE DEF t, a, b
<1>3. /\ HasCounts(WithCounts(r, t, a, b))
      /\ WithCounts(r, t, a, b).total = t
      /\ WithCounts(r, t, a, b).successful = a
      /\ WithCounts(r, t, a, b).disputed = b
  BY <1>1, SetCounts
<1>4. t = r.total
  BY DEF t
<1> QED
  BY <1>1, <1>2, <1>3, <1>4 DEF Exchanged

-----------------------------------------------------------------------------
(* Sums and scores from one step to the next. *)

LEMMA ValuesAreInts ==
  ASSUME NEW records, NEW ids \in SUBSET Escrows
  PROVE  \A e \in ids : /\ OneEach[e] \in Int /\ OneEach[e] \in Nat
                        /\ WonOn(records)[e] \in Int /\ WonOn(records)[e] \in Nat
                        /\ LostOn(records)[e] \in Int /\ LostOn(records)[e] \in Nat
  BY CountValues

LEMMA SumsAreNat ==
  ASSUME NEW records, NEW ids \in SUBSET Escrows, IsFiniteSet(ids)
  PROVE  /\ SumFunctionOnSet(OneEach, ids) \in Nat
         /\ SumFunctionOnSet(WonOn(records), ids) \in Nat
         /\ SumFunctionOnSet(LostOn(records), ids) \in Nat
  BY ValuesAreInts, SumType

(* Records that are not counted may change. *)
LEMMA CountsOfTheSame ==
  ASSUME NEW r, NEW c, NEW ids \in SUBSET Escrows, IsFiniteSet(ids), NEW old, NEW new,
         \A e \in ids : old[e].outcome = new[e].outcome,
         CountsAre(r, c, ids, old)
  PROVE  CountsAre(r, c, ids, new)
<1>1. \A e \in ids : WonOn(old)[e] = WonOn(new)[e] /\ LostOn(old)[e] = LostOn(new)[e]
  BY CountValues
<1>2. /\ SumFunctionOnSet(WonOn(old), ids) = SumFunctionOnSet(WonOn(new), ids)
      /\ SumFunctionOnSet(LostOn(old), ids) = SumFunctionOnSet(LostOn(new), ids)
  BY <1>1, SumOfSame
<1> QED
  BY <1>2 DEF CountsAre

(* One of the records that are counted ends otherwise. *)
LEMMA CountsOfOneChanged ==
  ASSUME NEW r, NEW q, NEW c \in Counts, NEW ids \in SUBSET Escrows, IsFiniteSet(ids),
         NEW old, NEW new, NEW e \in ids,
         \A y \in ids \ {e} : old[y].outcome = new[y].outcome,
         CountsAre(r, c, ids, old), Exchanged(q, r, old[e].outcome, new[e].outcome)
  PROVE  CountsAre(q, c, ids, new)
<1>1. \A y \in ids \ {e} : WonOn(old)[y] = WonOn(new)[y] /\ LostOn(old)[y] = LostOn(new)[y]
  BY CountValues
<1>2. /\ SumFunctionOnSet(WonOn(new), ids) =
           SumFunctionOnSet(WonOn(old), ids) + WonOn(new)[e] - WonOn(old)[e]
      /\ SumFunctionOnSet(LostOn(new), ids) =
           SumFunctionOnSet(LostOn(old), ids) + LostOn(new)[e] - LostOn(old)[e]
  <2>1. \A y \in ids : /\ WonOn(old)[y] \in Int /\ WonOn(new)[y] \in Int
                       /\ LostOn(old)[y] \in Int /\ LostOn(new)[y] \in Int
    BY ValuesAreInts
  <2>2. SumFunctionOnSet(WonOn(new), ids) =
          SumFunctionOnSet(WonOn(old), ids) + WonOn(new)[e] - WonOn(old)[e]
    BY <1>1, <2>1, SumChange
  <2>3. SumFunctionOnSet(LostOn(new), ids) =
          SumFunctionOnSet(LostOn(old), ids) + LostOn(new)[e] - LostOn(old)[e]
    BY <1>1, <2>1, SumChange
  <2> QED
    BY <2>2, <2>3
<1>3. /\ WonOn(new)[e] = One(Successful(new[e].outcome))
      /\ WonOn(old)[e] = One(Successful(old[e].outcome))
      /\ LostOn(new)[e] = One(new[e].outcome = "Disputed")
      /\ LostOn(old)[e] = One(old[e].outcome = "Disputed")
      /\ WonOn(new)[e] \in Int /\ WonOn(old)[e] \in Int
      /\ LostOn(new)[e] \in Int /\ LostOn(old)[e] \in Int
  BY CountValues
<1>4. /\ SumFunctionOnSet(WonOn(old), ids) \in Int /\ SumFunctionOnSet(LostOn(old), ids) \in Int
      /\ c.successful \in Int /\ c.disputed \in Int
  BY SumsAreNat DEF Counts
<1> QED
  BY <1>2, <1>3, <1>4 DEF CountsAre, Exchanged

(* A record is counted that was not. *)
LEMMA CountsOfOneMore ==
  ASSUME NEW r, NEW q, NEW c \in Counts, NEW ids \in SUBSET Escrows, IsFiniteSet(ids),
         NEW old, NEW new, NEW e \in Escrows, e \notin ids,
         \A y \in ids : old[y].outcome = new[y].outcome,
         CountsAre(r, c, ids, old),
         q.total = r.total + 1,
         q.successful = r.successful + One(Successful(new[e].outcome)),
         q.disputed = r.disputed + One(new[e].outcome = "Disputed")
  PROVE  CountsAre(q, c, ids \cup {e}, new)
<1> DEFINE more == ids \cup {e}
<1>1. IsFiniteSet(more) /\ more \in SUBSET Escrows /\ e \in more /\ more \ {e} = ids
  BY FS_AddElement
<1>2. CountsAre(r, c, ids, new)
  BY CountsOfTheSame
<1> HIDE DEF more
<1>3. /\ SumFunctionOnSet(OneEach, more) = OneEach[e] + SumFunctionOnSet(OneEach, ids)
      /\ SumFunctionOnSet(WonOn(new), more) = WonOn(new)[e] + SumFunctionOnSet(WonOn(new), ids)
      /\ SumFunctionOnSet(LostOn(new), more) = LostOn(new)[e] + SumFunctionOnSet(LostOn(new), ids)
  BY <1>1, ValuesAreInts, SumWithout
<1>4. /\ OneEach[e] = 1
      /\ WonOn(new)[e] = One(Successful(new[e].outcome))
      /\ LostOn(new)[e] = One(new[e].outcome = "Disputed")
      /\ WonOn(new)[e] \in Int /\ LostOn(new)[e] \in Int
  BY CountValues
<1>5. /\ SumFunctionOnSet(OneEach, ids) \in Int
      /\ SumFunctionOnSet(WonOn(new), ids) \in Int /\ SumFunctionOnSet(LostOn(new), ids) \in Int
      /\ c.total \in Int /\ c.successful \in Int /\ c.disputed \in Int
  BY SumsAreNat DEF Counts
<1>6. CountsAre(q, c, more, new)
  BY <1>2, <1>3, <1>4, <1>5 DEF CountsAre
<1> QED
  BY <1>6 DEF more

(* The first of the records that are counted are gone. *)
LEMMA CountsOfTheRest ==
  ASSUME NEW r, NEW c \in Counts, NEW g \in Counts,
         NEW ids \in SUBSET Escrows, IsFiniteSet(ids), NEW pruned \in SUBSET ids,
         NEW old, NEW new, \A y \in ids \ pruned : old[y].outcome = new[y].outcome,
         CountsAre(r, c, ids, old), CountsAre(g, c, pruned, old)
  PROVE  CountsAre(r, g, ids \ pruned, new)
<1> DEFINE rest == ids \ pruned
<1>1. /\ IsFiniteSet(rest) /\ IsFiniteSet(pruned)
      /\ rest \in SUBSET Escrows /\ pruned \in SUBSET Escrows
  BY FS_Subset
<1>2. /\ SumFunctionOnSet(OneEach, ids) =
           SumFunctionOnSet(OneEach, pruned) + SumFunctionOnSet(OneEach, rest)
      /\ SumFunctionOnSet(WonOn(old), ids) =
           SumFunctionOnSet(WonOn(old), pruned) + SumFunctionOnSet(WonOn(old), rest)
      /\ SumFunctionOnSet(LostOn(old), ids) =
           SumFunctionOnSet(LostOn(old), pruned) + SumFunctionOnSet(LostOn(old), rest)
  BY ValuesAreInts, SumOfParts
<1> HIDE DEF rest
<1>3. /\ SumFunctionOnSet(OneEach, rest) \in Int /\ SumFunctionOnSet(OneEach, pruned) \in Int
      /\ SumFunctionOnSet(WonOn(old), rest) \in Int
      /\ SumFunctionOnSet(WonOn(old), pruned) \in Int
      /\ SumFunctionOnSet(LostOn(old), rest) \in Int
      /\ SumFunctionOnSet(LostOn(old), pruned) \in Int
      /\ c.total \in Int /\ c.successful \in Int /\ c.disputed \in Int
  BY <1>1, SumsAreNat DEF Counts
<1>4. CountsAre(r, g, rest, old)
  BY <1>2, <1>3 DEF CountsAre
<1>5. CountsAre(r, g, rest, new)
  BY <1>1, <1>4, CountsOfTheSame DEF rest
<1> QED
  BY <1>5 DEF rest

(* Whichever way the score is computed, the counts are those of r. *)
LEMMA IncrementalScores ==
  ASSUME NEW x, NEW r, NEW ids, NEW records, IncrementalScoreUpdate(x, r, ids, records)
  PROVE  \E a : rep' = [rep EXCEPT ![x] = Scored(r, a)]
<1> DEFINE fresh == acc[x] = NoAccumulator /\ Len(ids) = 1
           a == IncrementalSums(IF fresh THEN Sums(config.window) ELSE acc[x], ids, records)
<1>1. \/ rep' = [rep EXCEPT ![x] = Scored(r, a)]
      \/ RecomputeScore(x, r, ids, records)
  BY Zenon DEF IncrementalScoreUpdate
<1>2. RecomputeScore(x, r, ids, records) =>
        rep' = [rep EXCEPT ![x] = Scored(r, FullSums(ids, records))]
  BY Zenon DEF RecomputeScore
<1> HIDE DEF a
<1> QED
  BY <1>1, <1>2, Zenon

LEMMA ScoreStep ==
  ASSUME rep = [y \in Entities |-> rep[y]], \A y \in Entities : HasCounts(rep[y]),
         NEW x \in Entities, NEW r, HasCounts(r),
         \E a : rep' = [rep EXCEPT ![x] = Scored(r, a)]
  PROVE  /\ rep' = [y \in Entities |-> rep'[y]]
         /\ \A y \in Entities : HasCounts(rep'[y])
         /\ SameCountsAs(rep'[x], r)
         /\ \A y \in Entities \ {x} : rep'[y] = rep[y]
<1>1. PICK a : rep' = [rep EXCEPT ![x] = Scored(r, a)]
  OBVIOUS
<1>2. HasCounts(Scored(r, a)) /\ SameCountsAs(Scored(r, a), r)
  BY ScoredKeeps
<1>3. rep'[x] = Scored(r, a) /\ \A y \in Entities \ {x} : rep'[y] = rep[y]
  BY <1>1
<1>4. rep' = [y \in Entities |-> rep'[y]]
  BY <1>1
<1> QED
  BY <1>2, <1>3, <1>4

LEMMA CountsOfSameCounts ==
  ASSUME NEW r, NEW q, NEW c, NEW ids, NEW records, SameCountsAs(q, r),
         CountsAre(r, c, ids, records)
  PROVE  CountsAre(q, c, ids, records)
  BY DEF SameCountsAs, CountsAre

-----------------------------------------------------------------------------
(* Lists without repetition. *)

LEMMA AppendListed ==
  ASSUME NEW S, NEW s \in Seq(S), IsInjective(s), NEW e \in S, e \notin Range(s)
  PROVE  /\ Append(s, e) \in Seq(S) /\ IsInjective(Append(s, e))
         /\ Range(Append(s, e)) = Range(s) \cup {e}
<1> DEFINE t == Append(s, e)
           n == Len(s)
<1>1. /\ t \in Seq(S) /\ Len(t) = n + 1 /\ t[n + 1] = e
      /\ \A i \in 1..n : t[i] = s[i]
  BY AppendProperties
<1>2. n \in Nat /\ DOMAIN s = 1..n /\ DOMAIN t = 1..(n + 1)
  BY <1>1, SeqIsFinite
<1> HIDE DEF t, n
<1>3. \A i \in 1..(n + 1) : i \in 1..n \/ i = n + 1
  BY <1>2
<1>4. \A i \in 1..n : s[i] # e /\ i \in 1..(n + 1)
  BY <1>2 DEF Range
<1>5. IsInjective(t)
  BY <1>1, <1>2, <1>3, <1>4 DEF IsInjective
<1>6. Range(t) = Range(s) \cup {e}
  <2>1. n + 1 \in DOMAIN t
    BY <1>2
  <2> QED
    BY <1>1, <1>2, <1>3, <1>4, <2>1 DEF Range
<1> QED
  BY <1>1, <1>5, <1>6 DEF t

(* What follows the first k. *)
LEMMA TailAt ==
  ASSUME NEW S, NEW s \in Seq(S), NEW k \in 0..Len(s)
  PROVE  LET rest == SubSeq(s, k + 1, Len(s))
         IN  /\ rest \in Seq(S) /\ Len(rest) = Len(s) - k
             /\ \A i \in 1..(Len(s) - k) : rest[i] = s[k + i]
<1> DEFINE n == Len(s)
           rest == SubSeq(s, k + 1, n)
<1>1. /\ n \in Nat /\ k \in Nat /\ k <= n /\ \A i \in 1..n : s[i] \in S
  BY SeqIsFinite
<1>2. k + 1 \in Int /\ n \in Int /\ \A i \in (k + 1)..n : s[i] \in S
  BY <1>1
<1>3. /\ rest \in Seq(S)
      /\ Len(rest) = IF k + 1 <= n THEN n - (k + 1) + 1 ELSE 0
      /\ \A i \in 1..(n - (k + 1) + 1) : rest[i] = s[k + 1 + i - 1]
  BY <1>2, SubSeqProperties
<1> HIDE DEF n, rest
<1>4. (IF k + 1 <= n THEN n - (k + 1) + 1 ELSE 0) = n - k /\ n - (k + 1) + 1 = n - k
  BY ONLY <1>1
<1>5. ASSUME NEW i \in 1..(n - k) PROVE rest[i] = s[k + i]
  <2>1. k + 1 + i - 1 = k + i
    BY ONLY <1>1
  <2>2. rest[i] = s[k + 1 + i - 1]
    BY <1>3, <1>4
  <2> QED
    BY <2>1, <2>2
<1> QED
  BY <1>3, <1>4, <1>5 DEF n, rest

LEMMA PrunedLists ==
  ASSUME NEW S, NEW s \in Seq(S), IsInjective(s), NEW k \in 0..Len(s)
  PROVE  LET first == SubSeq(s, 1, k)
             rest == SubSeq(s, k + 1, Len(s))
         IN  /\ first \in Seq(S) /\ IsInjective(first)
             /\ rest \in Seq(S) /\ IsInjective(rest)
             /\ Range(first) \subseteq Range(s)
             /\ Range(rest) = Range(s) \ Range(first)
<1> DEFINE first == SubSeq(s, 1, k)
           rest == SubSeq(s, k + 1, Len(s))
           n == Len(s)
<1>1. /\ n \in Nat /\ k \in Nat /\ k <= n /\ DOMAIN s = 1..n
      /\ \A i \in 1..n : s[i] \in S
  BY SeqIsFinite
<1>2. /\ first \in Seq(S) /\ Len(first) = k
      /\ \A i \in 1..k : first[i] = s[i]
  <2>1. 1 \in Int /\ k \in Int /\ \A i \in 1..k : s[i] \in S
    BY <1>1
  <2>2. /\ SubSeq(s, 1, k) \in Seq(S)
        /\ Len(SubSeq(s, 1, k)) = IF 1 <= k THEN k - 1 + 1 ELSE 0
        /\ \A i \in 1..(k - 1 + 1) : SubSeq(s, 1, k)[i] = s[1 + i - 1]
    BY <2>1, SubSeqProperties
  <2>3. (IF 1 <= k THEN k - 1 + 1 ELSE 0) = k /\ \A i \in 1..k : i \in 1..(k - 1 + 1) /\ 1 + i - 1 = i
    BY <1>1
  <2> QED
    BY <2>2, <2>3
<1>3. /\ rest \in Seq(S) /\ Len(rest) = n - k
      /\ \A i \in 1..(n - k) : rest[i] = s[k + i]
  BY TailAt
<1> HIDE DEF first, rest, n
<1>4. DOMAIN first = 1..k /\ DOMAIN rest = 1..(n - k)
  BY <1>2, <1>3, SeqIsFinite
<1>5. \A i \in 1..k : i \in 1..n
  BY <1>1
<1>6. /\ \A i \in 1..(n - k) : k + i \in 1..n /\ k + i \notin 1..k /\ i \in Nat
      /\ \A i, j \in 1..(n - k) : k + i = k + j => i = j
      /\ \A j \in 1..n : j \in 1..k \/ (j - k \in 1..(n - k) /\ k + (j - k) = j)
  BY <1>1
<1>7. IsInjective(first)
  BY <1>1, <1>2, <1>4, <1>5 DEF IsInjective
<1>8. IsInjective(rest)
  <2>1. ASSUME NEW i \in 1..(n - k), NEW j \in 1..(n - k), rest[i] = rest[j]
        PROVE  i = j
    <3>1. s[k + i] = s[k + j] /\ k + i \in 1..n /\ k + j \in 1..n
      BY <1>3, <1>6, <2>1
    <3>2. k + i = k + j
      BY <1>1, <3>1 DEF IsInjective
    <3> QED
      BY <1>6, <3>2
  <2> QED
    BY <1>4, <2>1 DEF IsInjective
<1>9. Range(first) \subseteq Range(s)
  BY <1>1, <1>2, <1>4, <1>5 DEF Range
<1>10. ASSUME NEW y \in Range(rest) PROVE y \in Range(s) /\ y \notin Range(first)
  <2>1. PICK i \in 1..(n - k) : y = s[k + i]
    BY <1>3, <1>4 DEF Range
  <2>2. k + i \in 1..n /\ k + i \notin 1..k
    BY <1>6
  <2>3. \A j \in 1..k : s[j] # y
    BY <1>1, <1>5, <2>1, <2>2 DEF IsInjective
  <2> QED
    BY <1>1, <1>2, <1>4, <2>1, <2>2, <2>3 DEF Range
<1>11. ASSUME NEW y \in Range(s), y \notin Range(first) PROVE y \in Range(rest)
  <2>1. PICK j \in 1..n : y = s[j]
    BY <1>1 DEF Range
  <2>2. j \notin 1..k
    BY <1>2, <1>4, <1>11, <2>1 DEF Range
  <2>3. j - k \in 1..(n - k) /\ k + (j - k) = j
    BY <1>6, <2>2
  <2>4. rest[j - k] = y
    BY <1>3, <2>1, <2>3
  <2> QED
    BY <1>4, <2>3, <2>4 DEF Range
<1> QED
  BY <1>2, <1>3, <1>7, <1>8, <1>9, <1>10, <1>11 DEF first, rest, n

(* Being on a list. *)
LEMMA ContainsIsRange ==
  ASSUME NEW S, NEW s \in Seq(S), NEW e
  PROVE  Contains(s, e) <=> e \in Range(s)
  BY SeqIsFinite DEF Contains, Range

-----------------------------------------------------------------------------
(* The steps that change a record. *)

LEMMA NoRecordIsNoOnes ==
  /\ NoRecord.entity = NoOne /\ NoOne \notin Entities
  /\ \A r : r.entity \in Entities => r # NoRecord
<1>1. NoRecord.entity = NoOne
  BY DEF NoRecord
<1>2. NoOne \notin Entities
  BY ReputationAssumption
<1> QED
  BY <1>1, <1>2

LEMMA HeldAreFinite ==
  ASSUME HistoriesFit, NEW x \in Entities
  PROVE  IsFiniteSet(Held(x)) /\ Held(x) \in SUBSET Escrows
<1>1. history[x] \in Seq(Escrows) /\ IsInjective(history[x])
  BY DEF HistoriesFit
<1>2. NoReputation \in Counts
  BY DEF NoReputation, Counts
<1> QED
  BY <1>1, <1>2, HistoryCounts DEF Held

(* A record on file gives way to another one, in place. *)
LEMMA OverwriteStep ==
  ASSUME ReputationInv, NEW e \in Escrows, OnFile(e),
         NEW r \in RecordType, NEW x \in Entities, r.entity = x,
         record' = [record EXCEPT ![e] = r],
         NEW q, HasCounts(q), q.total = rep[x].total,
         \E a : rep' = [rep EXCEPT ![x] = Scored(q, a)],
         disturbed \subseteq disturbed',
         record[e].entity # x => {record[e].entity, x} \subseteq disturbed',
         x \notin disturbed' => Exchanged(q, rep[x], record[e].outcome, r.outcome),
         UNCHANGED <<now, history, merchants, gone>>
  PROVE  ReputationInv'
<1>1. /\ record'[e] = r /\ \A y \in Escrows \ {e} : record'[y] = record[y]
      /\ record' \in [Escrows -> RecordType]
  BY DEF ReputationInv, RecordsFit
<1>2. r # NoRecord
  BY NoRecordIsNoOnes
<1>3. RecordsFit'
  BY <1>1 DEF ReputationInv, RecordsFit, RecordType, OnFile
<1>4. HistoriesFit'
  <2>1. /\ history' \in [Entities -> Seq(Escrows)]
        /\ \A y \in Entities : IsInjective(history'[y])
        /\ \A y, z \in Entities : y # z => Range(history'[y]) \cap Range(history'[z]) = {}
    BY DEF ReputationInv, HistoriesFit, Held
  <2>2. ASSUME NEW y \in Entities, NEW f \in Range(history'[y])
        PROVE  record'[f] # NoRecord /\ (y \notin disturbed' => record'[f].entity = y)
    <3>1. f \in Held(y) /\ f \in Escrows
      BY HeldAreFinite DEF Held, ReputationInv
    <3>2. OnFile(f) /\ (y \notin disturbed => record[f].entity = y)
      BY <3>1 DEF ReputationInv, HistoriesFit
    <3> QED
      BY <1>1, <1>2, <3>1, <3>2 DEF OnFile
  <2>3. ASSUME NEW f \in Escrows, record'[f] # NoRecord, record'[f].entity \notin disturbed'
        PROVE  f \in Range(history'[record'[f].entity])
    <3>1. record[f] # NoRecord /\ record[f].entity = record'[f].entity
      BY <1>1, <2>3 DEF OnFile
    <3>2. record[f].entity \notin disturbed
      BY <2>3, <3>1
    <3>3. f \in Held(record[f].entity)
      BY <3>1, <3>2 DEF ReputationInv, HistoriesFit, OnFile
    <3> QED
      BY <3>1, <3>3 DEF Held
  <2> QED
    BY <2>1, <2>2, <2>3 DEF HistoriesFit, Held, OnFile
<1>5. /\ rep' = [y \in Entities |-> rep'[y]]
      /\ \A y \in Entities : HasCounts(rep'[y])
      /\ SameCountsAs(rep'[x], q)
      /\ \A y \in Entities \ {x} : rep'[y] = rep[y]
  BY ScoreStep DEF ReputationInv, CountsFit
<1>6. CountsFit'
  BY <1>5 DEF ReputationInv, CountsFit, HasCounts
<1>7. RanksFit'
  <2>1. \A y \in Entities : rep'[y].total = rep[y].total
    BY <1>5 DEF SameCountsAs
  <2> QED
    BY <2>1 DEF ReputationInv, RanksFit
<1>8. ASSUME NEW y \in Entities \ disturbed'
      PROVE  CountsAre(rep'[y], gone[y], Held(y), record')
  <2>1. /\ y \in Entities /\ y \notin disturbed /\ gone[y] \in Counts
        /\ CountsAre(rep[y], gone[y], Held(y), record)
        /\ IsFiniteSet(Held(y)) /\ Held(y) \in SUBSET Escrows
    BY HeldAreFinite DEF ReputationInv, CountsAreSums, CountsFit
  <2>2. CASE e \in Held(y)
    <3>1. record[e].entity = y
      BY <2>1, <2>2 DEF ReputationInv, HistoriesFit
    <3>2. y = x
      BY <3>1, <1>8
    <3>3. Exchanged(q, rep[y], record[e].outcome, record'[e].outcome)
      BY <1>1, <3>2, <1>8
    <3>4. \A f \in Held(y) \ {e} : record[f].outcome = record'[f].outcome
      BY <1>1, <2>1
    <3>5. CountsAre(q, gone[y], Held(y), record')
      BY ONLY <2>1, <2>2, <3>3, <3>4, CountsOfOneChanged
    <3> QED
      BY <1>5, <3>2, <3>5, CountsOfSameCounts
  <2>3. CASE e \notin Held(y)
    <3>1. \A f \in Held(y) : record[f].outcome = record'[f].outcome
      BY <1>1, <2>1, <2>3
    <3>2. y # x
      <4>1. ASSUME y = x PROVE FALSE
        <5>1. record[e].entity = x
          BY <4>1, <1>8
        <5> QED
          BY <2>1, <2>3, <4>1, <5>1 DEF ReputationInv, HistoriesFit
      <4> QED
        BY <4>1
    <3>3. rep'[y] = rep[y]
      BY <1>5, <2>1, <3>2
    <3> QED
      BY <2>1, <3>1, <3>3, CountsOfTheSame
  <2> QED
    BY <2>2, <2>3
<1>9. CountsAreSums'
  <2>1. \A y \in Entities \ disturbed' :
          CountsAre(rep'[y], gone'[y], Range(history'[y]), record')
    BY <1>8 DEF Held
  <2> QED
    BY <2>1 DEF CountsAreSums, Held
<1> QED
  BY <1>3, <1>4, <1>6, <1>7, <1>9 DEF ReputationInv

(* The outcome of a record that is counted has been counted. *)
LEMMA CountedOutcome ==
  ASSUME ReputationInv, NEW e \in Escrows, OnFile(e), record[e].entity \notin disturbed
  PROVE  LET r == rep[record[e].entity]
         IN  /\ Successful(record[e].outcome) => r.successful > 0
             /\ record[e].outcome = "Disputed" => r.disputed > 0
<1> DEFINE x == record[e].entity
<1>1. x \in Entities /\ x \notin disturbed /\ e \in Held(x)
  BY DEF ReputationInv, RecordsFit, HistoriesFit
<1>2. /\ CountsAre(rep[x], gone[x], Held(x), record) /\ gone[x] \in Counts
      /\ IsFiniteSet(Held(x)) /\ Held(x) \in SUBSET Escrows
  BY <1>1, HeldAreFinite DEF ReputationInv, CountsAreSums, CountsFit
<1> HIDE DEF x
<1>3. \A f \in Held(x) : WonOn(record)[f] \in Nat /\ LostOn(record)[f] \in Nat
  BY <1>2, ValuesAreInts
<1>4. ASSUME Successful(record[e].outcome) PROVE rep[x].successful > 0
  <2>1. WonOn(record)[e] > 0
    BY <1>4, CountValues DEF One
  <2>2. SumFunctionOnSet(WonOn(record), Held(x)) > 0
    BY <1>1, <1>2, <1>3, <2>1, SumPositive
  <2>3. SumFunctionOnSet(WonOn(record), Held(x)) \in Nat /\ gone[x].successful \in Nat
    BY <1>2, SumsAreNat DEF Counts
  <2> QED
    BY <1>2, <2>2, <2>3 DEF CountsAre
<1>5. ASSUME record[e].outcome = "Disputed" PROVE rep[x].disputed > 0
  <2>1. LostOn(record)[e] > 0
    BY <1>5, CountValues DEF One
  <2>2. SumFunctionOnSet(LostOn(record), Held(x)) > 0
    BY <1>1, <1>2, <1>3, <2>1, SumPositive
  <2>3. SumFunctionOnSet(LostOn(record), Held(x)) \in Nat /\ gone[x].disputed \in Nat
    BY <1>2, SumsAreNat DEF Counts
  <2> QED
    BY <1>2, <2>2, <2>3 DEF CountsAre
<1> QED
  BY <1>4, <1>5 DEF x

(* Rescoring leaves the choice of the sums to the code. *)
LEMMA RecomputedScores ==
  ASSUME NEW x, NEW r, NEW ids, NEW records, RecomputeScore(x, r, ids, records)
  PROVE  \E a : rep' = [rep EXCEPT ![x] = Scored(r, a)]
  BY Zenon DEF RecomputeScore

LEMMA DealTypes ==
  /\ \A d \in Deals : d.id \in Escrows /\ d.entity \in Entities /\ d.counterparty \in Entities
  /\ Outcomes \subseteq TransactionOutcome
  /\ \A s \in Ratings : s \in Int /\ s # NoRating
  BY ReputationAssumption DEF Escrows, NoRating, Scale

LEMMA UpdateStep ==
  ASSUME ReputationInv, NEW d \in Deals, NEW o \in Outcomes, UpdateTransaction(d, o)
  PROVE  ReputationInv'
<1> DEFINE e == d.id
           x == d.entity
           r == [record[e] EXCEPT !.counterparty = d.counterparty, !.outcome = o, !.at = now]
           q == Recounted(rep[x], record[e].outcome, o)
<1>1. e \in Escrows /\ x \in Entities /\ d.counterparty \in Entities /\ o \in TransactionOutcome
  BY DealTypes
<1>2. /\ OnFile(e) /\ record[e].entity = x
      /\ record' = [record EXCEPT ![e] = r]
      /\ UNCHANGED <<now, history, merchants, gone, disturbed>>
  BY DEF UpdateTransaction, traceVars
<1>3. \E a : rep' = [rep EXCEPT ![x] = Scored(q, a)]
  <2>1. RecomputeScore(x, q, history[x], record')
    BY Zenon, <1>2 DEF UpdateTransaction
  <2> QED
    BY <2>1, RecomputedScores
<1>4. record[e] \in RecordType /\ now \in Nat /\ HasCounts(rep[x])
  BY <1>1 DEF ReputationInv, RecordsFit, CountsFit
<1>5. r \in RecordType /\ r.entity = x /\ r.outcome = o
  BY <1>1, <1>2, <1>4 DEF RecordType
<1> HIDE DEF r
<1>6. HasCounts(q) /\ q.total = rep[x].total
  BY <1>4, RecountedHas
<1>7. x \notin disturbed => Exchanged(q, rep[x], record[e].outcome, o)
  BY <1>1, <1>2, <1>4, CountedOutcome, RecountedHas
<1> HIDE DEF q, e, x
<1> QED
  BY <1>1, <1>2, <1>3, <1>5, <1>6, <1>7, OverwriteStep

(* The same outcome, or another one that counts as much. *)
LEMMA ExchangedAlike ==
  ASSUME NEW r, HasCounts(r), NEW prior, NEW o,
         Successful(prior) <=> Successful(o), prior = "Disputed" <=> o = "Disputed"
  PROVE  Exchanged(r, r, prior, o)
  BY DEF Exchanged, HasCounts, One

LEMMA RateStep ==
  ASSUME ReputationInv, NEW e \in Escrows, NEW s \in Ratings, RateEntity(e, s)
  PROVE  ReputationInv'
<1> DEFINE x == record[e].entity
           r == [record[e] EXCEPT !.rating = s]
<1>1. /\ OnFile(e) /\ x \in Entities /\ HasCounts(rep[x]) /\ record[e] \in RecordType
  BY DEF RateEntity, ReputationInv, RecordsFit, CountsFit
<1>2. /\ record' = [record EXCEPT ![e] = r]
      /\ UNCHANGED <<now, history, merchants, gone, disturbed>>
  BY <1>1 DEF RateEntity, ReputationInv, RecordsFit
<1>3. \E a : rep' = [rep EXCEPT ![x] = Scored(rep[x], a)]
  <2>1. RecomputeScore(x, rep[x], history[x], record')
    BY Zenon DEF RateEntity
  <2> QED
    BY <2>1, RecomputedScores
<1>4. r \in RecordType /\ r.entity = x /\ r.outcome = record[e].outcome
  BY <1>1 DEF RecordType
<1>5. Exchanged(rep[x], rep[x], record[e].outcome, r.outcome)
  BY <1>1, <1>4, ExchangedAlike
<1> HIDE DEF r, x
<1>6. record[e].entity = x
  BY DEF x
<1> QED
  BY <1>1, <1>2, <1>3, <1>4, <1>5, <1>6, OverwriteStep

LEMMA ReviewedType ==
  ASSUME NEW rater \in Entities, NEW x \in Entities, NEW s \in Ratings, now \in Nat
  PROVE  /\ Reviewed(rater, x, s) \in RecordType
         /\ Reviewed(rater, x, s).entity = x
         /\ Reviewed(rater, x, s).outcome = "Released"
  BY DEF Reviewed, RecordType, TransactionOutcome

LEMMA ReviewOnFileStep ==
  ASSUME ReputationInv, NEW e \in Escrows, NEW rater \in Entities, NEW x \in Entities,
         NEW s \in Ratings, ReviewOnFile(e, rater, x, s)
  PROVE  ReputationInv'
<1> DEFINE r == Reviewed(rater, x, s)
           prior == record[e]
<1>1. /\ OnFile(e)
      /\ record' = [record EXCEPT ![e] = r]
      /\ UNCHANGED <<now, history, merchants, gone>>
  BY DEF ReviewOnFile
<1>0. disturbed' = disturbed \cup IF prior.entity # x THEN {prior.entity, x}
                                 ELSE IF Successful(prior.outcome) THEN {} ELSE {x}
  BY DEF ReviewOnFile
<1>2. \E a : rep' = [rep EXCEPT ![x] = Scored(rep[x], a)]
  <2>1. RecomputeScore(x, rep[x], history[x], record')
    BY Zenon DEF ReviewOnFile
  <2> QED
    BY <2>1, RecomputedScores
<1>3. /\ r \in RecordType /\ r.entity = x /\ r.outcome = "Released"
      /\ HasCounts(rep[x]) /\ rep[x].total = rep[x].total
  BY ReviewedType DEF ReputationInv, RecordsFit, CountsFit
<1>4. ASSUME x \notin disturbed'
      PROVE  Exchanged(rep[x], rep[x], prior.outcome, r.outcome)
  <2>1. Successful(prior.outcome)
    BY <1>0, <1>4
  <2>2. Successful("Released") /\ prior.outcome # "Disputed"
    BY <2>1 DEF Successful
  <2> QED
    BY <1>3, <2>1, <2>2, ExchangedAlike
<1>5. disturbed \subseteq disturbed' /\ (prior.entity # x => {prior.entity, x} \subseteq disturbed')
  BY <1>0
<1>6. prior = record[e]
  OBVIOUS
<1> HIDE DEF r, prior
<1> QED
  BY <1>1, <1>2, <1>3, <1>4, <1>5, <1>6, OverwriteStep

(* A record comes onto the end of the history of its entity. *)
LEMMA AddStep ==
  ASSUME ReputationInv, NEW e \in Escrows, ~OnFile(e),
         NEW r \in RecordType, r.entity \in Entities,
         AddRecord(e, r), UNCHANGED <<now, gone, disturbed>>
  PROVE  ReputationInv'
<1> DEFINE x == r.entity
           ids == Append(history[x], e)
           q == Counted(rep[x], r.outcome)
<1>1. /\ record' = [record EXCEPT ![e] = r]
      /\ history' = [history EXCEPT ![x] = ids]
      /\ merchants' = IF Contains(merchants, x) THEN merchants ELSE Append(merchants, x)
      /\ IncrementalScoreUpdate(x, q, ids, record')
  BY Zenon DEF AddRecord
<1>2. /\ x \in Entities /\ r # NoRecord
      /\ record'[e] = r /\ \A y \in Escrows \ {e} : record'[y] = record[y]
      /\ record' \in [Escrows -> RecordType]
  BY <1>1, NoRecordIsNoOnes DEF ReputationInv, RecordsFit
<1>3. RecordsFit'
  BY <1>2 DEF ReputationInv, RecordsFit, RecordType, OnFile
<1>4. \A y \in Entities : e \notin Held(y) /\ IsFiniteSet(Held(y)) /\ Held(y) \in SUBSET Escrows
  BY HeldAreFinite DEF ReputationInv, HistoriesFit
<1>5. /\ ids \in Seq(Escrows) /\ IsInjective(ids) /\ Range(ids) = Held(x) \cup {e}
  <2>1. history[x] \in Seq(Escrows) /\ IsInjective(history[x]) /\ e \notin Range(history[x])
    BY <1>2, <1>4 DEF Held, ReputationInv, HistoriesFit
  <2> QED
    BY <2>1, AppendListed DEF Held
<1> HIDE DEF ids, q
<1>6. /\ history' \in [Entities -> Seq(Escrows)]
      /\ history'[x] = ids /\ \A y \in Entities \ {x} : history'[y] = history[y]
  BY <1>1, <1>2, <1>5 DEF ReputationInv, HistoriesFit
<1>7. /\ Range(history'[x]) = Held(x) \cup {e}
      /\ \A y \in Entities \ {x} : Range(history'[y]) = Held(y)
  BY <1>5, <1>6 DEF Held
<1>8. HistoriesFit'
  <2>1. \A y \in Entities : IsInjective(history'[y])
    BY <1>5, <1>6 DEF ReputationInv, HistoriesFit
  <2>2. \A y, z \in Entities : y # z => Range(history'[y]) \cap Range(history'[z]) = {}
    <3>1. \A y, z \in Entities : y # z => Held(y) \cap Held(z) = {}
      BY DEF ReputationInv, HistoriesFit
    <3> QED
      BY <1>4, <1>7, <3>1
  <2>3. ASSUME NEW y \in Entities, NEW f \in Range(history'[y])
        PROVE  record'[f] # NoRecord /\ (y \notin disturbed' => record'[f].entity = y)
    <3>1. CASE f = e
      <4>1. y = x
        BY <1>4, <1>7, <3>1
      <4> QED
        BY <1>2, <3>1, <4>1
    <3>2. CASE f # e
      <4>1. f \in Held(y) /\ f \in Escrows
        BY <1>4, <1>7, <3>2
      <4>2. OnFile(f) /\ (y \notin disturbed => record[f].entity = y)
        BY <4>1 DEF ReputationInv, HistoriesFit
      <4> QED
        BY <1>2, <3>2, <4>1, <4>2 DEF OnFile
    <3> QED
      BY <3>1, <3>2
  <2>4. ASSUME NEW f \in Escrows, record'[f] # NoRecord, record'[f].entity \notin disturbed'
        PROVE  f \in Range(history'[record'[f].entity])
    <3>1. CASE f = e
      BY <1>2, <1>7, <3>1
    <3>2. CASE f # e
      <4>1. record[f] = record'[f]
        BY <1>2, <3>2
      <4>2. record[f].entity \in Entities /\ f \in Held(record[f].entity)
        BY <2>4, <4>1 DEF ReputationInv, RecordsFit, HistoriesFit, OnFile
      <4> QED
        BY <1>7, <4>1, <4>2
    <3> QED
      BY <3>1, <3>2
  <2> QED
    BY <1>6, <2>1, <2>2, <2>3, <2>4 DEF HistoriesFit, Held, OnFile
<1>9. /\ HasCounts(q) /\ q.total = rep[x].total + 1
      /\ q.successful = rep[x].successful + One(Successful(r.outcome))
      /\ q.disputed = rep[x].disputed + One(r.outcome = "Disputed")
  BY <1>2, CountedHas DEF q, ReputationInv, CountsFit
<1>10. /\ rep' = [y \in Entities |-> rep'[y]]
       /\ \A y \in Entities : HasCounts(rep'[y])
       /\ SameCountsAs(rep'[x], q)
       /\ \A y \in Entities \ {x} : rep'[y] = rep[y]
  <2>1. \E a : rep' = [rep EXCEPT ![x] = Scored(q, a)]
    BY <1>1, IncrementalScores
  <2> HIDE DEF x
  <2> QED
    BY <1>2, <1>9, <2>1, ScoreStep DEF ReputationInv, CountsFit
<1>11. CountsFit'
  BY <1>10 DEF ReputationInv, CountsFit, HasCounts
<1>12. RanksFit'
  <2>1. /\ merchants \in Seq(Entities) /\ IsInjective(merchants)
        /\ \A y \in Entities : y \in Range(merchants) <=> rep[y].total > 0
    BY DEF ReputationInv, RanksFit
  <2>2. /\ merchants' \in Seq(Entities) /\ IsInjective(merchants')
        /\ Range(merchants') = Range(merchants) \cup {x}
    <3>1. CASE x \in Range(merchants)
      BY <1>1, <2>1, <3>1, ContainsIsRange
    <3>2. CASE x \notin Range(merchants)
      <4>1. merchants' = Append(merchants, x)
        BY <1>1, <2>1, <3>2, ContainsIsRange
      <4> QED
        BY <1>2, <2>1, <3>2, <4>1, AppendListed
    <3> QED
      BY <3>1, <3>2
  <2>3. rep'[x].total > 0 /\ \A y \in Entities \ {x} : rep'[y].total = rep[y].total
    <3>1. rep[x].total \in Nat
      BY <1>2 DEF ReputationInv, CountsFit, HasCounts
    <3> QED
      BY <1>9, <1>10, <3>1 DEF SameCountsAs
  <2>4. \A y \in Entities : y \in Range(merchants') <=> rep'[y].total > 0
    BY <2>1, <2>2, <2>3
  <2> QED
    BY <2>2, <2>4 DEF RanksFit
<1>13. ASSUME NEW y \in Entities \ disturbed'
       PROVE  CountsAre(rep'[y], gone[y], Range(history'[y]), record')
  <2>1. /\ y \in Entities /\ gone[y] \in Counts
        /\ CountsAre(rep[y], gone[y], Held(y), record)
        /\ IsFiniteSet(Held(y)) /\ Held(y) \in SUBSET Escrows
    BY HeldAreFinite DEF ReputationInv, CountsAreSums, CountsFit
  <2>2. \A f \in Held(y) : record[f].outcome = record'[f].outcome
    BY <1>2, <1>4, <2>1
  <2>3. CASE y = x
    <3>1. /\ q.total = rep[y].total + 1
          /\ q.successful = rep[y].successful + One(Successful(record'[e].outcome))
          /\ q.disputed = rep[y].disputed + One(record'[e].outcome = "Disputed")
      BY <1>2, <1>9, <2>3
    <3>2. e \in Escrows /\ e \notin Held(y)
      BY <1>4, <2>1
    <3>3. CountsAre(q, gone[y], Held(y) \cup {e}, record')
      BY ONLY <2>1, <2>2, <3>1, <3>2, CountsOfOneMore
    <3> QED
      BY <1>7, <1>10, <2>3, <3>3, CountsOfSameCounts
  <2>4. CASE y # x
    <3>1. CountsAre(rep[y], gone[y], Held(y), record')
      BY <2>1, <2>2, CountsOfTheSame
    <3> QED
      BY <1>7, <1>10, <2>1, <2>4, <3>1
  <2> QED
    BY <2>3, <2>4
<1>14. CountsAreSums'
  <2>1. \A y \in Entities \ disturbed' :
          CountsAre(rep'[y], gone'[y], Range(history'[y]), record')
    BY <1>13
  <2> QED
    BY <2>1 DEF CountsAreSums, Held
<1> QED
  BY <1>3, <1>8, <1>11, <1>12, <1>14 DEF ReputationInv

LEMMA RecordStep ==
  ASSUME ReputationInv, NEW d \in Deals, NEW o \in Outcomes, RecordTransaction(d, o)
  PROVE  ReputationInv'
<1> DEFINE r == [entity |-> d.entity, counterparty |-> d.counterparty,
                 outcome |-> o, rating |-> NoRating, at |-> now]
<1>1. ~OnFile(d.id) /\ AddRecord(d.id, r) /\ UNCHANGED <<now, gone, disturbed>>
  BY DEF RecordTransaction
<1>2. d.id \in Escrows /\ r \in RecordType /\ r.entity \in Entities
  BY DealTypes DEF RecordType, ReputationInv, RecordsFit
<1> HIDE DEF r
<1> QED
  BY <1>1, <1>2, AddStep

LEMMA ReviewStep ==
  ASSUME ReputationInv, NEW e \in Escrows, NEW rater \in Entities, NEW x \in Entities,
         NEW s \in Ratings, ReviewTransaction(e, rater, x, s)
  PROVE  ReputationInv'
<1>1. /\ ~OnFile(e) /\ AddRecord(e, Reviewed(rater, x, s))
      /\ UNCHANGED <<now, gone, disturbed>>
  BY DEF ReviewTransaction
<1>2. Reviewed(rater, x, s) \in RecordType /\ Reviewed(rater, x, s).entity \in Entities
  BY ReviewedType DEF ReputationInv, RecordsFit
<1> QED
  BY <1>1, <1>2, AddStep

(* The least of three. *)
LEMMA LeastOfThree ==
  ASSUME NEW a \in Int, NEW b \in Int, NEW c \in Int
  PROVE  Min({a, b, c}) \in {a, b, c} /\ Min({a, b, c}) <= c
<1> DEFINE Least(m) == m \in {a, b, c} /\ \A y \in {a, b, c} : m <= y
<1>1. \E m : Least(m)
  <2>1. CASE a <= b /\ a <= c
    BY <2>1
  <2>2. CASE b <= a /\ b <= c
    BY <2>2
  <2>3. CASE c <= a /\ c <= b
    BY <2>3
  <2> QED
    BY <2>1, <2>2, <2>3
<1>2. Min({a, b, c}) = CHOOSE m : Least(m)
  BY DEF Min
<1> QED
  BY <1>1, <1>2

(* The oldest records of a history go. *)
LEMMA PruneStep ==
  ASSUME ReputationInv, NEW x \in Entities, NEW n \in 1..MaxPrune, PruneEntityHistory(x, n)
  PROVE  ReputationInv'
<1> DEFINE excess == Min({n, MaxPrune, Len(history[x]) - ScoreWindow})
           first == SubSeq(history[x], 1, excess)
           rest == SubSeq(history[x], excess + 1, Len(history[x]))
<1>1. /\ Len(history[x]) > ScoreWindow
      /\ record' = [e \in Escrows |-> IF Contains(first, e) THEN NoRecord ELSE record[e]]
      /\ history' = [history EXCEPT ![x] = rest]
      /\ gone' = [gone EXCEPT ![x] = PrunedCounts(@, first)]
      /\ UNCHANGED <<now, rep, merchants, disturbed>>
  BY DEF PruneEntityHistory, scoreVars
<1>2. history[x] \in Seq(Escrows) /\ IsInjective(history[x]) /\ gone[x] \in Counts
  BY DEF ReputationInv, HistoriesFit, CountsFit
<1>3. excess \in 0..Len(history[x])
  <2>1. /\ ScoreWindow \in Nat /\ MaxPrune \in Nat \ {0} /\ Len(history[x]) \in Nat
        /\ n \in Nat /\ n > 0
    BY <1>2, SeqIsFinite, ReputationAssumption
  <2> DEFINE k == Len(history[x]) - ScoreWindow
  <2>2. k \in Int /\ k > 0 /\ k <= Len(history[x])
    BY <1>1, <2>1
  <2> HIDE DEF k
  <2>3. Min({n, MaxPrune, k}) \in {n, MaxPrune, k} /\ Min({n, MaxPrune, k}) <= k
    BY <2>1, <2>2, LeastOfThree
  <2> DEFINE m == Min({n, MaxPrune, k})
  <2>4. m \in Nat /\ m <= Len(history[x])
    <3> HIDE DEF m
    <3>1. m \in {n, MaxPrune, k} /\ m <= k
      BY <2>3 DEF m
    <3> QED
      BY <2>1, <2>2, <3>1
  <2>5. excess = m
    BY DEF k
  <2> HIDE DEF m, excess
  <2> QED
    BY <2>1, <2>4, <2>5
<1> HIDE DEF excess
<1>4. /\ first \in Seq(Escrows) /\ IsInjective(first)
      /\ rest \in Seq(Escrows) /\ IsInjective(rest)
      /\ Range(first) \subseteq Held(x)
      /\ Range(rest) = Held(x) \ Range(first)
  BY <1>2, <1>3, PrunedLists DEF Held
<1> HIDE DEF first, rest
<1>5. /\ history' \in [Entities -> Seq(Escrows)]
      /\ history'[x] = rest /\ \A y \in Entities \ {x} : history'[y] = history[y]
  BY <1>1, <1>4 DEF ReputationInv, HistoriesFit
<1>6. /\ Range(history'[x]) = Held(x) \ Range(first)
      /\ \A y \in Entities \ {x} : Range(history'[y]) = Held(y)
  BY <1>4, <1>5 DEF Held
<1>7. /\ \A e \in Escrows : record'[e] = IF e \in Range(first) THEN NoRecord ELSE record[e]
      /\ record' = [e \in Escrows |-> record'[e]]
  BY <1>1, <1>4, ContainsIsRange
<1>8. \A y \in Entities : IsFiniteSet(Held(y)) /\ Held(y) \in SUBSET Escrows
  BY HeldAreFinite DEF ReputationInv
<1>9. /\ \A y, z \in Entities : y # z => Held(y) \cap Held(z) = {}
      /\ \A y \in Entities : \A f \in Held(y) :
           record[f] # NoRecord /\ (y \notin disturbed => record[f].entity = y)
      /\ \A f \in Escrows :
           record[f] # NoRecord /\ record[f].entity \notin disturbed => f \in Held(record[f].entity)
      /\ \A y \in Entities : IsInjective(history[y])
  BY DEF ReputationInv, HistoriesFit, OnFile
<1>10. RecordsFit'
  <2>1. NoRecord \in RecordType
    BY DEF NoRecord, RecordType
  <2>2. /\ now \in Nat /\ record \in [Escrows -> RecordType]
        /\ \A e \in Escrows : record[e] # NoRecord => record[e].entity \in Entities
    BY DEF ReputationInv, RecordsFit, OnFile
  <2>3. /\ record' \in [Escrows -> RecordType]
        /\ \A e \in Escrows : record'[e] # NoRecord => record'[e].entity \in Entities
    BY <1>7, <2>1, <2>2
  <2> QED
    BY <1>1, <2>2, <2>3 DEF RecordsFit, OnFile, RecordType
<1>11. HistoriesFit'
  <2>1. \A y \in Entities : IsInjective(history'[y])
    BY <1>4, <1>5, <1>9
  <2>2. \A y, z \in Entities : y # z => Range(history'[y]) \cap Range(history'[z]) = {}
    BY <1>6, <1>9
  <2>3. \A y \in Entities : Range(history'[y]) \subseteq Held(y) \ Range(first)
    BY <1>4, <1>6, <1>9
  <2>4. ASSUME NEW y \in Entities, NEW f \in Range(history'[y])
        PROVE  record'[f] # NoRecord /\ (y \notin disturbed' => record'[f].entity = y)
    BY <1>1, <1>7, <1>8, <1>9, <2>3
  <2>5. ASSUME NEW f \in Escrows, record'[f] # NoRecord, record'[f].entity \notin disturbed'
        PROVE  f \in Range(history'[record'[f].entity])
    <3>1. f \notin Range(first) /\ record'[f] = record[f]
      BY <1>7, <2>5
    <3>2. record[f].entity \in Entities /\ f \in Held(record[f].entity)
      BY <1>1, <1>9, <2>5, <3>1 DEF ReputationInv, RecordsFit, OnFile
    <3> QED
      BY <1>6, <3>1, <3>2
  <2> QED
    BY <1>5, <2>1, <2>2, <2>4, <2>5 DEF HistoriesFit, Held, OnFile
<1>12. /\ PrunedCounts(gone[x], first) \in Counts
       /\ CountsAre(PrunedCounts(gone[x], first), gone[x], Range(first), record)
  BY <1>2, <1>4, HistoryCounts
<1>13. /\ gone' \in [Entities -> Counts] /\ gone'[x] = PrunedCounts(gone[x], first)
       /\ \A y \in Entities \ {x} : gone'[y] = gone[y]
  BY <1>1, <1>12 DEF ReputationInv, CountsFit
<1>14. CountsFit' /\ RanksFit'
  BY <1>1, <1>13 DEF ReputationInv, CountsFit, RanksFit, HasCounts
<1>15. ASSUME NEW y \in Entities \ disturbed'
       PROVE  CountsAre(rep[y], gone'[y], Range(history'[y]), record')
  <2>1. /\ y \in Entities /\ gone[y] \in Counts
        /\ CountsAre(rep[y], gone[y], Held(y), record)
        /\ IsFiniteSet(Held(y)) /\ Held(y) \in SUBSET Escrows
    BY <1>1, <1>8 DEF ReputationInv, CountsAreSums, CountsFit
  <2>2. CASE y = x
    <3>1. \A f \in Held(y) \ Range(first) : record[f].outcome = record'[f].outcome
      BY <1>7, <2>1
    <3>2. gone'[y] \in Counts /\ CountsAre(gone'[y], gone[y], Range(first), record)
      BY <1>12, <1>13, <2>2
    <3>3. Range(first) \in SUBSET Held(y)
      BY <1>4, <2>2
    <3>4. CountsAre(rep[y], gone'[y], Held(y) \ Range(first), record')
      BY ONLY <2>1, <3>1, <3>2, <3>3, CountsOfTheRest
    <3> QED
      BY <1>6, <2>2, <3>4
  <2>3. CASE y # x
    <3>1. \A f \in Held(y) : record[f].outcome = record'[f].outcome
      BY <1>4, <1>7, <1>9, <2>1, <2>3
    <3>2. CountsAre(rep[y], gone[y], Held(y), record')
      BY <2>1, <3>1, CountsOfTheSame
    <3> QED
      BY <1>6, <1>13, <2>1, <2>3, <3>2
  <2> QED
    BY <2>2, <2>3
<1>16. CountsAreSums'
  <2>1. \A y \in Entities \ disturbed' :
          CountsAre(rep'[y], gone'[y], Range(history'[y]), record')
    BY <1>1, <1>15
  <2> QED
    BY <2>1 DEF CountsAreSums, Held
<1> QED
  BY <1>10, <1>11, <1>14, <1>16 DEF ReputationInv

(* What moves no record, count, history or rank. *)
LEMMA OtherStep ==
  ASSUME ReputationInv, UNCHANGED <<record, history, rep, merchants, gone, disturbed>>, now' \in Nat
  PROVE  ReputationInv'
  BY DEF ReputationInv, RecordsFit, OnFile, HistoriesFit, Held, CountsFit, HasCounts, RanksFit,
         CountsAreSums, CountsAre, RecordType

-----------------------------------------------------------------------------
(* The counters. *)

LEMMA ReputationInvInit == ReputationInit => ReputationInv
<1> SUFFICES ASSUME ReputationInit PROVE ReputationInv
  OBVIOUS
<1>1. RecordsFit
  BY DEF ReputationInit, RecordsFit, RecordType, NoRecord, OnFile
<1>2. /\ history = [x \in Entities |-> <<>>] /\ <<>> \in Seq(Escrows) /\ <<>> \in Seq(Entities)
      /\ DOMAIN <<>> = {} /\ \A x \in Entities : history[x] = <<>>
  BY EmptySeq DEF ReputationInit
<1>3. Range(<<>>) = {} /\ IsInjective(<<>>)
  BY <1>2 DEF Range, IsInjective
<1>4. \A e \in Escrows : record[e] = NoRecord
  BY DEF ReputationInit
<1>5. HistoriesFit
  BY <1>2, <1>3, <1>4 DEF HistoriesFit, Held, OnFile
<1>6. /\ \A x \in Entities : rep[x] = NoReputation /\ gone[x] = NoReputation
      /\ rep = [x \in Entities |-> rep[x]] /\ gone = [x \in Entities |-> gone[x]]
  BY DEF ReputationInit
<1>7. HasCounts(NoReputation) /\ NoReputation \in Counts
  BY DEF NoReputation, HasCounts, Fields, Counts
<1>8. CountsFit
  BY <1>6, <1>7 DEF CountsFit
<1>9. RanksFit
  BY <1>2, <1>3, <1>6 DEF RanksFit, ReputationInit, NoReputation
<1>10. CountsAreSums
  <2>1. CountsAre(NoReputation, NoReputation, {}, record)
    BY SumOfNone DEF CountsAre, NoReputation
  <2> QED
    BY <1>2, <1>3, <1>6, <2>1 DEF CountsAreSums, Held
<1> QED
  BY <1>1, <1>5, <1>8, <1>9, <1>10 DEF ReputationInv

LEMMA ReputationInvStep ==
  ReputationInv /\ [ReputationNext]_reputationVars => ReputationInv'
<1> SUFFICES ASSUME ReputationInv, [ReputationNext]_reputationVars PROVE ReputationInv'
  OBVIOUS
<1>0. now \in Nat
  BY DEF ReputationInv, RecordsFit
<1>1. ASSUME NEW d \in Deals, NEW o \in Outcomes, RecordTransaction(d, o) PROVE ReputationInv'
  BY <1>1, RecordStep
<1>2. ASSUME NEW d \in Deals, NEW o \in Outcomes, UpdateTransaction(d, o) PROVE ReputationInv'
  BY <1>2, UpdateStep
<1>3. ASSUME NEW e \in Escrows, NEW s \in Ratings, RateEntity(e, s) PROVE ReputationInv'
  BY <1>3, RateStep
<1>4. ASSUME NEW e \in Escrows, NEW s \in Ratings, NEW rater \in Entities, NEW x \in Entities,
             ReviewTransaction(e, rater, x, s)
      PROVE  ReputationInv'
  BY <1>4, ReviewStep
<1>5. ASSUME NEW e \in Escrows, NEW s \in Ratings, NEW rater \in Entities, NEW x \in Entities,
             ReviewOnFile(e, rater, x, s)
      PROVE  ReputationInv'
  BY <1>5, ReviewOnFileStep
<1>6. ASSUME NEW x \in Entities, NEW r \in Reporters, FlagEntity(r, x) \/ ResolveFlag(r, x)
      PROVE  ReputationInv'
  BY <1>0, <1>6, OtherStep DEF FlagEntity, ResolveFlag, traceVars, scoreVars
<1>7. ASSUME NEW x \in Entities, FreezeEntity(x) \/ UnfreezeEntity(x) PROVE ReputationInv'
  BY <1>0, <1>7, OtherStep DEF FreezeEntity, UnfreezeEntity, traceVars, scoreVars
<1>8. ASSUME NEW x \in Entities, NEW n \in 1..MaxPrune, PruneEntityHistory(x, n)
      PROVE  ReputationInv'
  BY <1>8, PruneStep
<1>9. ASSUME NEW c \in Configs, UpdateConfig(c) PROVE ReputationInv'
  BY <1>0, <1>9, OtherStep DEF UpdateConfig, traceVars, scoreVars
<1>10. CASE Tick
  BY <1>0, <1>10, OtherStep DEF Tick, traceVars, scoreVars
<1>11. CASE UNCHANGED reputationVars
  BY <1>0, <1>11, OtherStep DEF reputationVars, traceVars, scoreVars
<1> QED
  BY <1>1, <1>2, <1>3, <1>4, <1>5, <1>6, <1>7, <1>8, <1>9, <1>10, <1>11 DEF ReputationNext

(* The histories and the ranks are lists without repetition, every record  *)
(* on file is on one of them, and the counters are sums over them.         *)
THEOREM ReputationInvariant == ReputationSpec => []ReputationInv
<1> QED
  BY ReputationInvInit, ReputationInvStep, PTL DEF ReputationSpec

LEMMA SumsAreExact == ReputationInv => LifetimeCountsAreExact
<1> SUFFICES ASSUME ReputationInv, NEW x \in Entities \ disturbed
             PROVE  LET counts == PrunedCounts(gone[x], history[x])
                    IN  /\ rep[x].total = counts.total
                        /\ rep[x].successful = counts.successful
                        /\ rep[x].disputed = counts.disputed
                        /\ Cardinality({i \in DOMAIN merchants : merchants[i] = x}) =
                             One(counts.total > 0)
  BY Zenon DEF LifetimeCountsAreExact
<1> DEFINE counts == PrunedCounts(gone[x], history[x])
<1>1. /\ x \in Entities /\ history[x] \in Seq(Escrows) /\ IsInjective(history[x])
      /\ gone[x] \in Counts /\ CountsAre(rep[x], gone[x], Held(x), record)
      /\ merchants \in Seq(Entities) /\ IsInjective(merchants)
      /\ x \in Range(merchants) <=> rep[x].total > 0
  BY DEF ReputationInv, HistoriesFit, CountsFit, CountsAreSums, RanksFit
<1>2. CountsAre(counts, gone[x], Held(x), record)
  BY <1>1, HistoryCounts DEF Held
<1>3. Cardinality({i \in DOMAIN merchants : merchants[i] = x}) = One(x \in Range(merchants))
  BY <1>1, NamedOnce
<1> HIDE DEF counts
<1>4. /\ rep[x].total = counts.total
      /\ rep[x].successful = counts.successful
      /\ rep[x].disputed = counts.disputed
  BY <1>1, <1>2 DEF CountsAre
<1>5. One(x \in Range(merchants)) = One(counts.total > 0)
  BY <1>1, <1>4 DEF One
<1> QED
  BY <1>3, <1>4, <1>5 DEF counts

(* The counters that every call adjusts by itself are those of the records *)
(* on file and of the pruned ones, whatever the order of relayed outcomes, *)
(* reviews and prunings, except where a review has overwritten a record.   *)
THEOREM LifetimeCounts == ReputationSpec => []LifetimeCountsAreExact
<1> QED
  BY ReputationInvariant, SumsAreExact, PTL

-----------------------------------------------------------------------------
(* Ratings. *)

RatingInv == RecordsFit /\ RatingsFit

(* What is fine about the record of one escrow. *)
RatingFits(r, e, rs, except) ==
  r # NoRecord /\ r.rating # NoRating /\ e \notin except => <<r.counterparty, e>> \in rs

LEMMA OneRecordChanges ==
  ASSUME RatingsFit, NEW e \in Escrows, \A f \in Escrows \ {e} : record'[f] = record[f],
         RatingFits(record'[e], e, rated', renamed'), rated \subseteq rated', renamed \subseteq renamed'
  PROVE  RatingsFit'
<1>1. ASSUME NEW f \in Escrows PROVE RatingFits(record'[f], f, rated', renamed')
  <2>1. CASE f = e
    BY <2>1
  <2>2. CASE f # e
    BY <2>2 DEF RatingsFit, RatingFits, OnFile
  <2> QED
    BY <2>1, <2>2
<1> QED
  BY <1>1 DEF RatingsFit, RatingFits, OnFile

LEMMA RatingsInit == ReputationInit => RatingsFit
  BY DEF ReputationInit, RatingsFit, OnFile

(* A rating may only change with the record it is on, and what is rated    *)
(* for the first time is put on the list of its rater.                     *)
LEMMA RatingsStep ==
  ASSUME RatingInv, [ReputationNext]_reputationVars
  PROVE  /\ RatingsFit'
         /\ \A e \in Escrows \ renamed' :
              OnFile(e) /\ record[e].rating # NoRating /\ OnFile(e)' => Rated(e)' = Rated(e)
<1> DEFINE Stands == \A e \in Escrows \ renamed' :
             record[e] # NoRecord /\ record[e].rating # NoRating /\ record'[e] # NoRecord =>
               /\ record'[e].entity = record[e].entity
               /\ record'[e].counterparty = record[e].counterparty
               /\ record'[e].rating = record[e].rating
           Goal == RatingsFit' /\ Stands
<1>0. /\ RatingsFit /\ record \in [Escrows -> RecordType]
      /\ \A e \in Escrows : RatingFits(record[e], e, rated, renamed)
  BY DEF RatingInv, RecordsFit, RatingsFit, RatingFits, OnFile
<1>1. ASSUME NEW d \in Deals, NEW o \in Outcomes, RecordTransaction(d, o) PROVE Goal
  <2> DEFINE r == [entity |-> d.entity, counterparty |-> d.counterparty,
                   outcome |-> o, rating |-> NoRating, at |-> now]
  <2>1. /\ record[d.id] = NoRecord /\ record' = [record EXCEPT ![d.id] = r]
        /\ rated' = rated /\ renamed' = renamed
    BY <1>1, Zenon DEF RecordTransaction, AddRecord, OnFile, ratingVars
  <2>2. d.id \in Escrows /\ r.rating = NoRating
    BY DealTypes
  <2> HIDE DEF r
  <2>3. record'[d.id] = r /\ \A f \in Escrows \ {d.id} : record'[f] = record[f]
    BY <1>0, <2>1, <2>2
  <2>4. RatingFits(r, d.id, rated, renamed)
    BY <2>2 DEF RatingFits
  <2>5. RatingsFit'
    BY <1>0, <2>1, <2>2, <2>3, <2>4, OneRecordChanges
  <2>6. Stands
    BY <2>1, <2>3
  <2> QED
    BY <2>5, <2>6
<1>2. ASSUME NEW d \in Deals, NEW o \in Outcomes, UpdateTransaction(d, o) PROVE Goal
  <2> DEFINE r == [record[d.id] EXCEPT !.counterparty = d.counterparty, !.outcome = o, !.at = now]
  <2>1. /\ record[d.id] # NoRecord /\ record[d.id].entity = d.entity
        /\ record' = [record EXCEPT ![d.id] = r] /\ rated' = rated
        /\ renamed' = renamed \cup
             IF record[d.id].rating # NoRating /\ d.counterparty # record[d.id].counterparty
             THEN {d.id} ELSE {}
    BY <1>2 DEF UpdateTransaction, OnFile
  <2>2. d.id \in Escrows
    BY DealTypes
  <2>3. /\ r.rating = record[d.id].rating /\ r.entity = record[d.id].entity
        /\ r.counterparty = d.counterparty
    BY <1>0, <2>2 DEF RecordType
  <2> HIDE DEF r
  <2>4. record'[d.id] = r /\ \A f \in Escrows \ {d.id} : record'[f] = record[f]
    BY <1>0, <2>1, <2>2
  <2>5. /\ renamed \subseteq renamed'
        /\ d.id \notin renamed' /\ record[d.id].rating # NoRating =>
             d.id \notin renamed /\ d.counterparty = record[d.id].counterparty
    BY <2>1
  <2>6. RatingFits(r, d.id, rated, renamed')
    BY <1>0, <2>1, <2>2, <2>3, <2>5 DEF RatingFits
  <2>7. RatingsFit'
    BY <1>0, <2>1, <2>2, <2>4, <2>5, <2>6, OneRecordChanges
  <2>8. Stands
    BY <2>3, <2>4, <2>5
  <2> QED
    BY <2>7, <2>8
<1>3. ASSUME NEW e \in Escrows, NEW s \in Ratings, RateEntity(e, s) PROVE Goal
  <2> DEFINE r == [record[e] EXCEPT !.rating = s]
  <2>1. /\ record[e] # NoRecord /\ <<record[e].counterparty, e>> \notin rated
        /\ record' = [record EXCEPT ![e] = r] /\ renamed' = renamed
        /\ rated' = rated \cup {<<record[e].counterparty, e>>}
    BY <1>0, <1>3 DEF RateEntity, OnFile
  <2>2. r.rating = s /\ r.counterparty = record[e].counterparty
    BY <1>0 DEF RecordType
  <2>3. e \notin renamed => record[e].rating = NoRating
    BY <1>0, <2>1 DEF RatingFits
  <2> HIDE DEF r
  <2>4. record'[e] = r /\ \A f \in Escrows \ {e} : record'[f] = record[f]
    BY <1>0, <2>1
  <2>5. RatingFits(r, e, rated', renamed')
    BY <2>1, <2>2 DEF RatingFits
  <2>6. RatingsFit'
    BY <1>0, <2>1, <2>4, <2>5, OneRecordChanges
  <2>7. Stands
    BY <2>1, <2>3, <2>4
  <2> QED
    BY <2>6, <2>7
<1>4. ASSUME NEW e \in Escrows, NEW s \in Ratings, NEW rater \in Entities, NEW x \in Entities,
             ReviewTransaction(e, rater, x, s) \/ ReviewOnFile(e, rater, x, s)
      PROVE  Goal
  <2> DEFINE r == Reviewed(rater, x, s)
  <2>1. /\ record' = [record EXCEPT ![e] = r] /\ renamed' = renamed
        /\ rated' = rated \cup {<<rater, e>>}
    BY <1>4, Zenon DEF ReviewTransaction, ReviewOnFile, AddRecord
  <2>2. record[e] = NoRecord \/ record[e].rating = NoRating
    BY <1>4 DEF ReviewTransaction, ReviewOnFile, OnFile
  <2>3. RatingFits(r, e, rated', renamed')
    BY <2>1 DEF RatingFits, Reviewed
  <2> HIDE DEF r
  <2>4. record'[e] = r /\ \A f \in Escrows \ {e} : record'[f] = record[f]
    BY <1>0, <2>1
  <2>5. RatingsFit'
    BY <1>0, <2>1, <2>3, <2>4, OneRecordChanges
  <2>6. Stands
    BY <2>2, <2>4
  <2> QED
    BY <2>5, <2>6
<1>5. ASSUME NEW x \in Entities, NEW n \in 1..MaxPrune, PruneEntityHistory(x, n) PROVE Goal
  <2> DEFINE pruned == SubSeq(history[x], 1, Min({n, MaxPrune, Len(history[x]) - ScoreWindow}))
  <2>1. /\ rated' = rated
        /\ record' = [e \in Escrows |-> IF Contains(pruned, e) THEN NoRecord ELSE record[e]]
        /\ renamed' = renamed \ {e \in Escrows : Contains(pruned, e)}
    BY <1>5, Zenon DEF PruneEntityHistory
  <2> HIDE DEF pruned
  <2>2. ASSUME NEW e \in Escrows
        PROVE  \/ record'[e] = NoRecord
               \/ record'[e] = record[e] /\ (e \in renamed => e \in renamed')
    BY <2>1
  <2>3. RatingsFit'
    BY <1>0, <2>1, <2>2 DEF RatingsFit, OnFile
  <2>4. Stands
    BY <2>2
  <2> QED
    BY <2>3, <2>4
<1>6. ASSUME UNCHANGED <<record, rated, renamed>> PROVE Goal
  BY <1>0, <1>6 DEF RatingsFit, OnFile
<1>7. \/ \E x \in Entities, r \in Reporters : FlagEntity(r, x) \/ ResolveFlag(r, x)
      \/ \E x \in Entities : FreezeEntity(x) \/ UnfreezeEntity(x)
      \/ \E c \in Configs : UpdateConfig(c)
      \/ Tick \/ UNCHANGED reputationVars
      => UNCHANGED <<record, rated, renamed>>
  BY DEF FlagEntity, ResolveFlag, FreezeEntity, UnfreezeEntity, UpdateConfig, Tick,
         reputationVars, traceVars, ratingVars
<1> HIDE DEF Goal
<1>8. Goal
  BY <1>1, <1>2, <1>3, <1>4, <1>5, <1>6, <1>7 DEF ReputationNext
<1> QED
  BY <1>8 DEF Goal, Rated, OnFile

(* Once rated, an escrow keeps who was rated, by whom and how, in whatever *)
(* order it is rated, reviewed, relayed again and pruned, unless a relay   *)
(* has named another counterparty than the one who had rated it.           *)
THEOREM RatingsStand == ReputationSpec => RatingStands
<1>1. ReputationInit => RatingInv
  BY ReputationInvInit, RatingsInit DEF RatingInv, ReputationInv
<1>2. ReputationInv /\ RatingInv /\ [ReputationNext]_reputationVars => RatingInv'
  BY ReputationInvStep, RatingsStep DEF RatingInv, ReputationInv
<1>3. RatingInv /\ [ReputationNext]_reputationVars =>
        [\A e \in Escrows \ renamed' :
          OnFile(e) /\ record[e].rating # NoRating /\ OnFile(e)' => Rated(e)' = Rated(e)]_reputationVars
  BY RatingsStep
<1> QED
  BY <1>1, <1>2, <1>3, ReputationInvariant, PTL DEF ReputationSpec, RatingStands

-----------------------------------------------------------------------------
(* Weights only fall: powers of two, quotients, and the line between them. *)

(* A power of two is the number of subsets. *)
LEMMA PowerIsSubsets == ASSUME NEW h \in Nat PROVE 2 ^ h = Cardinality(SUBSET (1..h))
<1>1. IsFiniteSet(1..h) /\ Cardinality(1..h) = h
  BY FS_Interval
<1>2. Cardinality(SUBSET (1..h)) = 2 ^ Cardinality(1..h)
  BY <1>1, FS_SUBSET, Zenon
<1> QED
  BY <1>1, <1>2, Zenon

(* One element more makes two subsets of each. *)
LEMMA SubsetsDouble ==
  ASSUME NEW h \in Nat
  PROVE  /\ Cardinality(SUBSET (1..h)) \in Nat \ {0}
         /\ Cardinality(SUBSET (1..(h + 1))) = 2 * Cardinality(SUBSET (1..h))
<1> DEFINE m == h + 1
           S == 1..h
           A == SUBSET S
           B == {s \cup {m} : s \in A}
<1>0. IsFiniteSet(S) /\ m \notin S /\ 1..m = S \cup {m}
  BY FS_Interval
<1> HIDE DEF m, S
<1>1. IsFiniteSet(A)
  BY <1>0, FS_SUBSET
<1>2. ExistsBijection(A, B)
  <2> DEFINE f == [s \in A |-> s \cup {m}]
  <2>1. f \in [A -> B]
    OBVIOUS
  <2>2. \A s, t \in A : f[s] = f[t] => s = t
    BY <1>0
  <2>3. \A b \in B : \E s \in A : f[s] = b
    OBVIOUS
  <2> HIDE DEF f, A, B
  <2>4. f \in Bijection(A, B)
    BY <2>1, <2>2, <2>3 DEF Bijection, Injection, Surjection, IsInjective
  <2> QED
    BY <2>4 DEF ExistsBijection
<1>3. IsFiniteSet(B) /\ Cardinality(B) = Cardinality(A)
  BY <1>1, <1>2, FS_Bijection
<1>4. A \cap B = {}
  BY <1>0
<1>5. SUBSET (1..m) = A \cup B
  <2>1. ASSUME NEW s \in SUBSET (1..m) PROVE s \in A \cup B
    <3>1. CASE m \in s
      <4>1. s \ {m} \in A /\ s = (s \ {m}) \cup {m}
        BY <1>0, <3>1
      <4> QED
        BY <4>1
    <3>2. CASE m \notin s
      BY <1>0, <3>2
    <3> QED
      BY <3>1, <3>2
  <2> QED
    BY <1>0, <2>1
<1>6. {} \in A
  OBVIOUS
<1> HIDE DEF A, B
<1>7. Cardinality(A) \in Nat /\ Cardinality(A) # 0
  BY <1>1, <1>6, FS_CardinalityType, FS_EmptySet
<1>8. Cardinality(A \cup B) = Cardinality(A) + Cardinality(B) - Cardinality(A \cap B)
  BY <1>1, <1>3, FS_Union
<1>9. Cardinality(A \cap B) = 0
  BY <1>4, FS_EmptySet
<1>10. Cardinality(A \cup B) = 2 * Cardinality(A)
  BY <1>3, <1>7, <1>8, <1>9
<1> QED
  BY <1>5, <1>7, <1>10 DEF A, S, m

Power(h) == 2 ^ h
LEMMA PowerDoubles ==
  ASSUME NEW h \in Nat
  PROVE  Power(h) \in Nat \ {0} /\ Power(h + 1) = 2 * Power(h)
<1>1. h + 1 \in Nat
  OBVIOUS
<1>2. Power(h) = Cardinality(SUBSET (1..h))
  BY PowerIsSubsets, Zenon DEF Power
<1>3. Power(h + 1) = Cardinality(SUBSET (1..(h + 1)))
  BY <1>1, PowerIsSubsets, Zenon DEF Power
<1> QED
  BY <1>2, <1>3, SubsetsDouble

(* What a quotient is. *)
LEMMA QuotientBelow ==
  ASSUME NEW a \in Nat, NEW d \in Nat \ {0}
  PROVE  /\ a \div d \in Nat /\ a % d \in 0..(d - 1)
         /\ a = d * (a \div d) + (a % d)
         /\ d * (a \div d) <= a
<1>1. /\ a \div d \in Nat /\ a % d \in 0..(d - 1)
      /\ a = d * (a \div d) + (a % d)
  OBVIOUS
<1>2. d * (a \div d) \in Int
  BY <1>1
<1> QED
  BY <1>1, <1>2

LEMMA QuotientAbove ==
  ASSUME NEW a \in Nat, NEW d \in Nat \ {0}, NEW k \in Nat, d * k <= a
  PROVE  k <= a \div d
<1>1. /\ a \div d \in Nat /\ a % d \in 0..(d - 1)
      /\ a = d * (a \div d) + (a % d)
  OBVIOUS
<1>2. ASSUME ~(k <= a \div d) PROVE FALSE
  <2>1. d * ((a \div d) + 1) <= d * k
    BY <1>1, <1>2
  <2>2. d * ((a \div d) + 1) = d * (a \div d) + d
    BY <1>1
  <2> QED
    BY <1>1, <2>1, <2>2
<1> QED
  BY <1>2

Base(h) == Scale \div Power(h)
LEMMA BaseHalves ==
  ASSUME NEW h \in Nat
  PROVE  Base(h) \in Nat /\ Base(h + 1) \in Nat /\ 2 * Base(h + 1) <= Base(h)
<1> DEFINE p == Power(h)
           d == 2 * p
           b == Scale \div p
           q == Scale \div d
<1>1. p \in Nat \ {0} /\ Power(h + 1) = d /\ d \in Nat \ {0} /\ Scale \in Nat
  BY PowerDoubles DEF Scale
<1>2. Base(h + 1) = q /\ Base(h) = b
  BY <1>1 DEF Base
<1> HIDE DEF p, d
<1>3. q \in Nat /\ b \in Nat /\ d * q <= Scale
  BY <1>1, QuotientBelow, Zenon
<1> HIDE DEF q
<1>4. p * (2 * q) = d * q /\ 2 * q \in Nat
  BY <1>1, <1>3 DEF d
<1>5. p * (2 * q) <= Scale
  BY <1>3, <1>4
<1>6. 2 * q <= Scale \div p
  BY <1>1, <1>4, <1>5, QuotientAbove, Zenon
<1> QED
  BY <1>2, <1>3, <1>6

(* What a weight has lost within a window. *)
Faded(b, r, w) == (b * r) \div (2 * w)
LEMMA FadingGrows ==
  ASSUME NEW b \in Nat, NEW w \in Nat \ {0}, NEW r \in 0..(w - 1)
  PROVE  /\ Faded(b, r, w) \in Nat /\ 2 * Faded(b, r, w) <= b
         /\ \A s \in 0..r : Faded(b, s, w) \in Nat /\ Faded(b, s, w) <= Faded(b, r, w)
<1> DEFINE d == 2 * w
           l == Faded(b, r, w)
<1>1. d \in Nat \ {0} /\ r \in Nat /\ r <= w /\ b * r \in Nat /\ b * r <= b * w
  OBVIOUS
<1>2. l = (b * r) \div d
  BY DEF Faded
<1> HIDE DEF d
<1>3. l \in Nat /\ d * l <= b * r
  BY <1>1, <1>2, QuotientBelow, Zenon
<1> HIDE DEF l
<1>4. (2 * l) * w <= b * w
  BY <1>1, <1>3 DEF d
<1>5. 2 * l <= b
  BY <1>3, <1>4
<1>6. ASSUME NEW s \in 0..r PROVE Faded(b, s, w) \in Nat /\ Faded(b, s, w) <= l
  <2> DEFINE k == Faded(b, s, w)
  <2>1. b * s \in Nat /\ b * s <= b * r
    BY <1>1
  <2>2. k = (b * s) \div d
    BY DEF Faded, d
  <2>3. k \in Nat /\ d * k <= b * s
    BY <1>1, <2>1, <2>2, QuotientBelow, Zenon
  <2>4. d * k <= b * r
    <3> HIDE DEF k
    <3>1. d * k \in Nat
      BY <1>1, <2>3
    <3> QED
      BY <1>1, <2>1, <2>3, <3>1
  <2> HIDE DEF k
  <2>5. k <= l
    BY <1>1, <1>2, <2>3, <2>4, QuotientAbove, Zenon
  <2> QED
    BY <2>3, <2>5 DEF k
<1> QED
  BY <1>3, <1>5, <1>6 DEF l

(* The weight of what is n old, under windows of length w. *)
WeightOf(n, w) ==
  IF n \div w >= MaxHalvings THEN 0
  ELSE Base(n \div w) - Faded(Base(n \div w), n % w, w)

(* A day later it is the next day of the same window, or the first of the next. *)
LEMMA NextAge ==
  ASSUME NEW n \in Nat, NEW w \in Nat \ {0}
  PROVE  \/ (n + 1) \div w = n \div w /\ (n + 1) % w = (n % w) + 1
         \/ (n + 1) \div w = (n \div w) + 1 /\ (n + 1) % w = 0
<1> DEFINE q == n \div w
           r == n % w
<1>1. q \in Nat /\ r \in 0..(w - 1) /\ n = w * q + r
  BY QuotientBelow
<1> HIDE DEF q, r
<1>2. CASE r + 1 < w
  <2>1. n + 1 = w * q + (r + 1) /\ r + 1 \in 0..(w - 1)
    BY <1>1, <1>2
  <2>2. q = (n + 1) \div w /\ r + 1 = (n + 1) % w
    BY <1>1, <2>1
  <2> QED
    BY <2>2 DEF q, r
<1>3. CASE r + 1 = w
  <2>1. n + 1 = w * (q + 1) + 0 /\ 0 \in 0..(w - 1) /\ q + 1 \in Nat
    BY <1>1, <1>3
  <2>2. q + 1 = (n + 1) \div w /\ 0 = (n + 1) % w
    BY <2>1
  <2> QED
    BY <2>2 DEF q, r
<1> QED
  BY <1>1, <1>2, <1>3

LEMMA WeightFalls ==
  ASSUME NEW n \in Nat, NEW w \in Nat \ {0}
  PROVE  /\ WeightOf(n, w) \in Nat /\ WeightOf(n + 1, w) \in Nat
         /\ WeightOf(n + 1, w) <= WeightOf(n, w)
<1> DEFINE h == n \div w
           r == n % w
           b == Base(h)
           c == Base(h + 1)
<1>0. MaxHalvings \in Nat
  BY ReputationAssumption
<1>1. h \in Nat /\ r \in 0..(w - 1)
  BY QuotientBelow
<1>2. b \in Nat /\ c \in Nat /\ 2 * c <= b
  BY <1>1, BaseHalves
<1>3. Faded(b, r, w) \in Nat /\ 2 * Faded(b, r, w) <= b
  BY <1>1, <1>2, FadingGrows
<1>4. WeightOf(n, w) = IF h >= MaxHalvings THEN 0 ELSE b - Faded(b, r, w)
  BY DEF WeightOf
<1> HIDE DEF h, r, b, c
<1>5. WeightOf(n, w) \in Nat
  BY <1>0, <1>1, <1>2, <1>3, <1>4
<1>6. CASE (n + 1) \div w = h /\ (n + 1) % w = r + 1
  <2>1. WeightOf(n + 1, w) = IF h >= MaxHalvings THEN 0 ELSE b - Faded(b, r + 1, w)
    BY <1>6 DEF WeightOf, b
  <2>2. r + 1 \in 0..(w - 1) /\ r \in 0..(r + 1)
    <3>1. (n + 1) % w \in 0..(w - 1)
      BY QuotientBelow
    <3> QED
      BY <1>1, <1>6, <3>1
  <2>3. /\ Faded(b, r + 1, w) \in Nat /\ 2 * Faded(b, r + 1, w) <= b
        /\ Faded(b, r, w) <= Faded(b, r + 1, w)
    BY <1>2, <2>2, FadingGrows
  <2> QED
    BY <1>0, <1>1, <1>2, <1>3, <1>4, <1>5, <2>1, <2>3
<1>7. CASE (n + 1) \div w = h + 1 /\ (n + 1) % w = 0
  <2>1. WeightOf(n + 1, w) = IF h + 1 >= MaxHalvings THEN 0 ELSE c - Faded(c, 0, w)
    BY <1>7 DEF WeightOf, c
  <2>2. Faded(c, 0, w) \in Nat /\ 2 * Faded(c, 0, w) <= c
    BY <1>2, FadingGrows
  <2> QED
    BY <1>0, <1>1, <1>2, <1>3, <1>4, <1>5, <2>1, <2>2
<1> QED
  BY <1>5, <1>6, <1>7, NextAge DEF h, r

LEMMA WeightIs ==
  ASSUME NEW at
  PROVE  Weight(at) = WeightOf(now - at, config.window)
  BY Zenon DEF Weight, WeightOf, Base, Power, Faded

-----------------------------------------------------------------------------
(* What a record adds to the sums of its entity. *)

SumsType ==
  [window : Nat, value : Int, weight : Int, ratingValue : Int, ratingWeight : Int, disputed : Int]
Parts == {"value", "weight", "ratingValue", "ratingWeight", "disputed"}

LEMMA SameSums ==
  ASSUME NEW a \in SumsType, NEW b \in SumsType, a.window = b.window,
         \A f \in Parts : a[f] = b[f]
  PROVE  a = b
  BY DEF SumsType, Parts

(* What r contributes at t, under windows of length w. *)
Pull(r, t, w) ==
  LET weight == WeightOf(t - r.at, w)
      noRating == r.rating = NoRating
  IN  [value |-> weight * OutcomeValue(r.outcome), weight |-> weight,
       ratingValue |-> IF noRating THEN 0 ELSE weight * r.rating,
       ratingWeight |-> IF noRating THEN 0 ELSE weight,
       disputed |-> IF r.outcome = "Disputed" /\ weight # 0 THEN 1 ELSE 0]

Weighable(r, t) == r \in RecordType /\ r.outcome \in TransactionOutcome /\ r.at <= t

LEMMA OutcomeValues ==
  ASSUME NEW o \in TransactionOutcome
  PROVE  OutcomeValue(o) \in Nat
  BY DEF TransactionOutcome, OutcomeValue

LEMMA WeighableType ==
  ASSUME NEW r, NEW t \in Nat, Weighable(r, t)
  PROVE  /\ r.at \in Nat /\ t - r.at \in Nat /\ OutcomeValue(r.outcome) \in Nat
         /\ r.rating = NoRating \/ r.rating \in Nat
<1>1. r.at \in Nat /\ r.at <= t /\ r.outcome \in TransactionOutcome
      /\ r.rating \in Ratings \cup {NoRating}
  BY DEF Weighable, RecordType
<1>2. \A s \in Ratings : s \in Nat
  <2>1. \A s \in Ratings : s \in 0..Scale
    BY ReputationAssumption, Zenon
  <2>2. \A s \in 0..Scale : s \in Nat
    BY DEF Scale
  <2> QED
    BY <2>1, <2>2, Zenon
<1> QED
  BY <1>1, <1>2, OutcomeValues

(* A larger weight contributes more. *)
LEMMA MoreWeight ==
  ASSUME NEW v \in Nat, NEW a \in Nat, NEW b \in Nat, a <= b
  PROVE  a * v \in Nat /\ b * v \in Nat /\ a * v <= b * v
  OBVIOUS

LEMMA PullFalls ==
  ASSUME NEW r, NEW t \in Nat, NEW w \in Nat \ {0}, Weighable(r, t)
  PROVE  \A f \in Parts : /\ Pull(r, t, w)[f] \in Nat /\ Pull(r, t + 1, w)[f] \in Nat
                          /\ Pull(r, t + 1, w)[f] <= Pull(r, t, w)[f]
<1> DEFINE n == t - r.at
           b == WeightOf(n, w)
           c == WeightOf(n + 1, w)
           v == OutcomeValue(r.outcome)
           g == r.rating
<1>1. n \in Nat /\ (t + 1) - r.at = n + 1 /\ v \in Nat /\ (g = NoRating \/ g \in Nat)
  BY WeighableType
<1>2. b \in Nat /\ c \in Nat /\ c <= b
  BY <1>1, WeightFalls
<1>3. Pull(r, t, w) =
        [value |-> b * v, weight |-> b, ratingValue |-> IF g = NoRating THEN 0 ELSE b * g,
         ratingWeight |-> IF g = NoRating THEN 0 ELSE b,
         disputed |-> IF r.outcome = "Disputed" /\ b # 0 THEN 1 ELSE 0]
  BY DEF Pull
<1>4. Pull(r, t + 1, w) =
        [value |-> c * v, weight |-> c, ratingValue |-> IF g = NoRating THEN 0 ELSE c * g,
         ratingWeight |-> IF g = NoRating THEN 0 ELSE c,
         disputed |-> IF r.outcome = "Disputed" /\ c # 0 THEN 1 ELSE 0]
  <2>1. WeightOf((t + 1) - r.at, w) = c
    BY <1>1, Zenon
  <2> HIDE DEF c
  <2> QED
    BY <2>1, Zenon DEF Pull
<1> HIDE DEF n, b, c, v, g
<1>5. b * v \in Nat /\ c * v \in Nat /\ c * v <= b * v
  BY <1>1, <1>2, MoreWeight
<1>6. g # NoRating => b * g \in Nat /\ c * g \in Nat /\ c * g <= b * g
  BY <1>1, <1>2, MoreWeight
<1> DEFINE bv == b * v
           cv == c * v
           bg == IF g = NoRating THEN 0 ELSE b * g
           cg == IF g = NoRating THEN 0 ELSE c * g
<1>7. bv \in Nat /\ cv \in Nat /\ cv <= bv /\ bg \in Nat /\ cg \in Nat /\ cg <= bg
  BY <1>5, <1>6
<1> HIDE DEF bv, cv, bg, cg
<1>8. Pull(r, t, w) =
        [value |-> bv, weight |-> b, ratingValue |-> bg,
         ratingWeight |-> IF g = NoRating THEN 0 ELSE b,
         disputed |-> IF r.outcome = "Disputed" /\ b # 0 THEN 1 ELSE 0]
  BY <1>3, Zenon DEF bv, bg
<1>9. Pull(r, t + 1, w) =
        [value |-> cv, weight |-> c, ratingValue |-> cg,
         ratingWeight |-> IF g = NoRating THEN 0 ELSE c,
         disputed |-> IF r.outcome = "Disputed" /\ c # 0 THEN 1 ELSE 0]
  BY <1>4, Zenon DEF cv, cg
<1> QED
  BY <1>2, <1>7, <1>8, <1>9 DEF Parts

(* The sums with these values. *)
WithSums(a, v, wt, d, rv, rw) ==
  [a EXCEPT !.value = v, !.weight = wt, !.disputed = d, !.ratingValue = rv, !.ratingWeight = rw]

LEMMA SetSums ==
  ASSUME NEW a \in SumsType, NEW v \in Int, NEW wt \in Int, NEW d \in Int,
         NEW rv \in Int, NEW rw \in Int
  PROVE  LET b == WithSums(a, v, wt, d, rv, rw)
         IN  /\ b \in SumsType /\ b.window = a.window
             /\ b.value = v /\ b.weight = wt /\ b.disputed = d
             /\ b.ratingValue = rv /\ b.ratingWeight = rw
  BY DEF WithSums, SumsType

(* A contribution taken away is the one added now, with the other sign. *)
LEMMA TakenAway ==
  ASSUME NEW b \in Int, NEW v \in Int, NEW p \in Int
  PROVE  /\ p + (1 * b) * v = p + b * v /\ p + (1 * b) = p + b
         /\ p + ((-1) * b) * v = p - b * v /\ p + ((-1) * b) = p - b
         /\ b * v \in Int /\ (1 * b = 0 <=> b = 0) /\ ((-1) * b = 0 <=> b = 0)
  OBVIOUS

LEMMA ShiftUp ==
  ASSUME NEW a \in SumsType, NEW r, now \in Nat, config.window \in Nat \ {0}, Weighable(r, now)
  PROVE  /\ Shift(a, r, 1) \in SumsType /\ Shift(a, r, 1).window = a.window
         /\ \A f \in Parts : Shift(a, r, 1)[f] = a[f] + Pull(r, now, config.window)[f]
<1> DEFINE b == WeightOf(now - r.at, config.window)
           o == OutcomeValue(r.outcome)
           g == r.rating
           weight == 1 * Weight(r.at)
           v == a.value + weight * o
           wt == a.weight + weight
           d == a.disputed + IF r.outcome = "Disputed" /\ weight # 0 THEN 1 ELSE 0
           rv == a.ratingValue + IF g = NoRating THEN 0 ELSE weight * g
           rw == a.ratingWeight + IF g = NoRating THEN 0 ELSE weight
           p == Pull(r, now, config.window)
<1>1. b \in Nat /\ o \in Nat /\ (g = NoRating \/ g \in Nat)
  BY WeighableType, WeightFalls
<1>2. weight = 1 * b
  BY WeightIs
<1>3. Shift(a, r, 1) = WithSums(a, v, wt, d, rv, rw)
  BY Zenon DEF Shift, WithSums
<1>4. /\ p.value = b * o /\ p.weight = b
      /\ p.ratingValue = (IF g = NoRating THEN 0 ELSE b * g)
      /\ p.ratingWeight = (IF g = NoRating THEN 0 ELSE b)
      /\ p.disputed = (IF r.outcome = "Disputed" /\ b # 0 THEN 1 ELSE 0)
  BY DEF Pull
<1>5. /\ a.value \in Int /\ a.weight \in Int /\ a.ratingValue \in Int
      /\ a.ratingWeight \in Int /\ a.disputed \in Int
  BY DEF SumsType
<1> HIDE DEF b, o, g, p, weight
<1>6. /\ v = a.value + p.value /\ v \in Int
      /\ wt = a.weight + p.weight /\ wt \in Int
      /\ d = a.disputed + p.disputed /\ d \in Int
  BY <1>1, <1>2, <1>4, <1>5, TakenAway
<1>7. /\ rv = a.ratingValue + p.ratingValue /\ rv \in Int
      /\ rw = a.ratingWeight + p.ratingWeight /\ rw \in Int
  BY <1>1, <1>2, <1>4, <1>5, TakenAway
<1> HIDE DEF v, wt, d, rv, rw
<1>8. LET c == Shift(a, r, 1)
      IN  /\ c \in SumsType /\ c.window = a.window
          /\ c.value = v /\ c.weight = wt /\ c.disputed = d
          /\ c.ratingValue = rv /\ c.ratingWeight = rw
  BY <1>3, <1>6, <1>7, SetSums
<1>9. \A f \in Parts : Shift(a, r, 1)[f] = a[f] + p[f]
  BY <1>6, <1>7, <1>8 DEF Parts
<1> QED
  BY <1>8, <1>9 DEF p

LEMMA ShiftDown ==
  ASSUME NEW a \in SumsType, NEW r, now \in Nat, config.window \in Nat \ {0}, Weighable(r, now)
  PROVE  /\ Shift(a, r, -1) \in SumsType /\ Shift(a, r, -1).window = a.window
         /\ \A f \in Parts : Shift(a, r, -1)[f] = a[f] - Pull(r, now, config.window)[f]
<1> DEFINE b == WeightOf(now - r.at, config.window)
           o == OutcomeValue(r.outcome)
           g == r.rating
           weight == (-1) * Weight(r.at)
           v == a.value + weight * o
           wt == a.weight + weight
           d == a.disputed + IF r.outcome = "Disputed" /\ weight # 0 THEN -1 ELSE 0
           rv == a.ratingValue + IF g = NoRating THEN 0 ELSE weight * g
           rw == a.ratingWeight + IF g = NoRating THEN 0 ELSE weight
           p == Pull(r, now, config.window)
<1>1. b \in Nat /\ o \in Nat /\ (g = NoRating \/ g \in Nat)
  BY WeighableType, WeightFalls
<1>2. weight = (-1) * b
  BY WeightIs
<1>3. Shift(a, r, -1) = WithSums(a, v, wt, d, rv, rw)
  BY Zenon DEF Shift, WithSums
<1>4. /\ p.value = b * o /\ p.weight = b
      /\ p.ratingValue = (IF g = NoRating THEN 0 ELSE b * g)
      /\ p.ratingWeight = (IF g = NoRating THEN 0 ELSE b)
      /\ p.disputed = (IF r.outcome = "Disputed" /\ b # 0 THEN 1 ELSE 0)
  BY DEF Pull
<1>5. /\ a.value \in Int /\ a.weight \in Int /\ a.ratingValue \in Int
      /\ a.ratingWeight \in Int /\ a.disputed \in Int
  BY DEF SumsType
<1> HIDE DEF b, o, g, p, weight
<1>6. /\ v = a.value - p.value /\ v \in Int
      /\ wt = a.weight - p.weight /\ wt \in Int
      /\ d = a.disputed - p.disputed /\ d \in Int
  <2>1. v = a.value - b * o /\ b * o \in Int /\ wt = a.weight - b /\ (weight # 0 <=> b # 0)
    BY <1>1, <1>2, <1>5, TakenAway
  <2>2. v = a.value - p.value /\ v \in Int /\ wt = a.weight - p.weight /\ wt \in Int
    <3> HIDE DEF v, wt
    <3> QED
      BY <1>1, <1>4, <1>5, <2>1
  <2>3. d = a.disputed - p.disputed /\ d \in Int
    BY <1>4, <1>5, <2>1
  <2> QED
    BY <2>2, <2>3
<1>7. /\ rv = a.ratingValue - p.ratingValue /\ rv \in Int
      /\ rw = a.ratingWeight - p.ratingWeight /\ rw \in Int
  BY <1>1, <1>2, <1>4, <1>5, TakenAway
<1> HIDE DEF v, wt, d, rv, rw
<1>8. LET c == Shift(a, r, -1)
      IN  /\ c \in SumsType /\ c.window = a.window
          /\ c.value = v /\ c.weight = wt /\ c.disputed = d
          /\ c.ratingValue = rv /\ c.ratingWeight = rw
  BY <1>3, <1>6, <1>7, SetSums
<1>9. \A f \in Parts : Shift(a, r, -1)[f] = a[f] - p[f]
  BY <1>6, <1>7, <1>8 DEF Parts
<1> QED
  BY <1>8, <1>9 DEF p

-----------------------------------------------------------------------------
(* The sums of a history are sums over the escrows on it. *)

(* One level of the recursion of the fold. *)
SumsUnfolded(g, c, ids, records) ==
  [s \in SUBSET (DOMAIN ids) |->
     IF s = {} THEN c ELSE Shift(g[s \ {Max(s)}], records[ids[Max(s)]], 1)]

ShiftedThrough(c, ids, records) == FoldLeft(LAMBDA a, e : Shift(a, records[e], 1), c, ids)

LEMMA SumsUnfold ==
  ASSUME NEW c, NEW ids, NEW records
  PROVE  ShiftedThrough(c, ids, records) =
           (CHOOSE g : g = SumsUnfolded(g, c, ids, records))[DOMAIN ids]
  BY DEF ShiftedThrough, FoldLeft, MapThenFoldSet, SumsUnfolded

(* What the positions of a list contribute now. *)
PullAt(f, ids, records) ==
  [i \in DOMAIN ids |-> Pull(records[ids[i]], now, config.window)[f]]

PulledIn(c, ids, records, s) ==
  [window |-> c.window,
   value |-> c.value + SumFunctionOnSet(PullAt("value", ids, records), s),
   weight |-> c.weight + SumFunctionOnSet(PullAt("weight", ids, records), s),
   ratingValue |-> c.ratingValue + SumFunctionOnSet(PullAt("ratingValue", ids, records), s),
   ratingWeight |-> c.ratingWeight + SumFunctionOnSet(PullAt("ratingWeight", ids, records), s),
   disputed |-> c.disputed + SumFunctionOnSet(PullAt("disputed", ids, records), s)]

CanWeigh(ids, records) ==
  /\ now \in Nat /\ config.window \in Nat \ {0}
  /\ \A i \in DOMAIN ids : Weighable(records[ids[i]], now)

LEMMA PullAtType ==
  ASSUME NEW ids, NEW records, CanWeigh(ids, records)
  PROVE  \A f \in Parts : \A i \in DOMAIN ids :
           /\ PullAt(f, ids, records)[i] = Pull(records[ids[i]], now, config.window)[f]
           /\ PullAt(f, ids, records)[i] \in Int /\ PullAt(f, ids, records)[i] \in Nat
  BY PullFalls DEF CanWeigh, PullAt

LEMMA PulledInType ==
  ASSUME NEW ids, NEW records, CanWeigh(ids, records), NEW c \in SumsType,
         NEW s, IsFiniteSet(s), s \subseteq DOMAIN ids
  PROVE  /\ PulledIn(c, ids, records, s) \in SumsType
         /\ PulledIn(c, ids, records, s).window = c.window
         /\ \A f \in Parts : /\ PulledIn(c, ids, records, s)[f] =
                               c[f] + SumFunctionOnSet(PullAt(f, ids, records), s)
                           /\ SumFunctionOnSet(PullAt(f, ids, records), s) \in Nat
                           /\ c[f] \in Int
<1> DEFINE S(f) == SumFunctionOnSet(PullAt(f, ids, records), s)
<1>1. \A f \in Parts : S(f) \in Nat
  <2> SUFFICES ASSUME NEW f \in Parts PROVE S(f) \in Nat
    OBVIOUS
  <2>1. \A i \in s : PullAt(f, ids, records)[i] \in Nat
    BY PullAtType
  <2> QED
    BY <2>1, SumType
<1>2. PulledIn(c, ids, records, s) =
        [window |-> c.window, value |-> c.value + S("value"), weight |-> c.weight + S("weight"),
         ratingValue |-> c.ratingValue + S("ratingValue"),
         ratingWeight |-> c.ratingWeight + S("ratingWeight"),
         disputed |-> c.disputed + S("disputed")]
  BY DEF PulledIn
<1> HIDE DEF S
<1>3. \A f \in Parts : c[f] \in Int
  BY DEF SumsType, Parts
<1> DEFINE q == PulledIn(c, ids, records, s)
<1>4. /\ q.window = c.window
      /\ q.value = c.value + S("value") /\ q.weight = c.weight + S("weight")
      /\ q.ratingValue = c.ratingValue + S("ratingValue")
      /\ q.ratingWeight = c.ratingWeight + S("ratingWeight")
      /\ q.disputed = c.disputed + S("disputed")
  BY <1>2
<1>5. \A f \in Parts : q[f] = c[f] + S(f)
  <2> HIDE DEF q
  <2> QED
    BY <1>4 DEF Parts
<1>6. /\ c.value + S("value") \in Int /\ c.weight + S("weight") \in Int
      /\ c.ratingValue + S("ratingValue") \in Int /\ c.ratingWeight + S("ratingWeight") \in Int
      /\ c.disputed + S("disputed") \in Int /\ c.window \in Nat
  BY <1>1, <1>3 DEF Parts, SumsType
<1>7. q \in SumsType
  <2> DEFINE v == c.value + S("value")
             wt == c.weight + S("weight")
             rv == c.ratingValue + S("ratingValue")
             rw == c.ratingWeight + S("ratingWeight")
             d == c.disputed + S("disputed")
  <2>1. q = [window |-> c.window, value |-> v, weight |-> wt, ratingValue |-> rv,
             ratingWeight |-> rw, disputed |-> d]
    BY <1>2
  <2>2. v \in Int /\ wt \in Int /\ rv \in Int /\ rw \in Int /\ d \in Int
    BY <1>6
  <2> HIDE DEF v, wt, rv, rw, d, q
  <2> QED
    BY <1>6, <2>1, <2>2 DEF SumsType
<1> QED
  BY <1>1, <1>3, <1>4, <1>5, <1>7 DEF S

(* One position more. *)
LEMMA PulledInOne ==
  ASSUME NEW ids, NEW records, CanWeigh(ids, records), NEW c \in SumsType,
         NEW s, IsFiniteSet(s), s \subseteq DOMAIN ids, NEW i \in s
  PROVE  PulledIn(c, ids, records, s) = Shift(PulledIn(c, ids, records, s \ {i}), records[ids[i]], 1)
<1> DEFINE z == s \ {i}
           rest == PulledIn(c, ids, records, z)
           q == PulledIn(c, ids, records, s)
           r == records[ids[i]]
<1>1. IsFiniteSet(z) /\ z \subseteq DOMAIN ids /\ i \in DOMAIN ids
  BY FS_RemoveElement
<1> HIDE DEF z
<1>2. /\ rest \in SumsType /\ rest.window = c.window
      /\ \A f \in Parts : /\ rest[f] = c[f] + SumFunctionOnSet(PullAt(f, ids, records), z)
                         /\ SumFunctionOnSet(PullAt(f, ids, records), z) \in Nat
                         /\ c[f] \in Int
  <2>1. /\ PulledIn(c, ids, records, z) \in SumsType
        /\ PulledIn(c, ids, records, z).window = c.window
        /\ \A f \in Parts : /\ PulledIn(c, ids, records, z)[f] =
                              c[f] + SumFunctionOnSet(PullAt(f, ids, records), z)
                           /\ SumFunctionOnSet(PullAt(f, ids, records), z) \in Nat
                           /\ c[f] \in Int
    BY <1>1, PulledInType
  <2> QED
    BY <2>1
<1>3. /\ q \in SumsType /\ q.window = c.window
      /\ \A f \in Parts : q[f] = c[f] + SumFunctionOnSet(PullAt(f, ids, records), s)
  BY PulledInType
<1>4. now \in Nat /\ config.window \in Nat \ {0} /\ Weighable(r, now)
  BY <1>1 DEF CanWeigh
<1> HIDE DEF rest, q, r
<1>5. /\ Shift(rest, r, 1) \in SumsType /\ Shift(rest, r, 1).window = rest.window
      /\ \A f \in Parts : Shift(rest, r, 1)[f] = rest[f] + Pull(r, now, config.window)[f]
  BY <1>2, <1>4, ShiftUp
<1>6. ASSUME NEW f \in Parts PROVE q[f] = Shift(rest, r, 1)[f]
  <2>1. \A j \in s : PullAt(f, ids, records)[j] \in Int
    BY PullAtType
  <2>2. PullAt(f, ids, records)[i] = Pull(r, now, config.window)[f] /\ PullAt(f, ids, records)[i] \in Int
    BY <1>1, PullAtType DEF r
  <2>3. SumFunctionOnSet(PullAt(f, ids, records), s) =
          PullAt(f, ids, records)[i] + SumFunctionOnSet(PullAt(f, ids, records), z)
    BY <2>1, SumWithout DEF z
  <2> QED
    BY <1>2, <1>3, <1>5, <2>2, <2>3
<1>7. q = Shift(rest, r, 1)
  BY <1>2, <1>3, <1>5, <1>6, SameSums
<1> QED
  BY <1>7 DEF q, rest, r, z

LEMMA PulledInNone ==
  ASSUME NEW ids, NEW records, CanWeigh(ids, records), NEW c \in SumsType
  PROVE  PulledIn(c, ids, records, {}) = c
<1>1. /\ PulledIn(c, ids, records, {}) \in SumsType
      /\ PulledIn(c, ids, records, {}).window = c.window
      /\ \A f \in Parts : /\ PulledIn(c, ids, records, {})[f] =
                            c[f] + SumFunctionOnSet(PullAt(f, ids, records), {})
                         /\ c[f] \in Int
  BY PulledInType, FS_EmptySet
<1>2. \A f \in Parts : PulledIn(c, ids, records, {})[f] = c[f]
  BY <1>1, SumOfNone
<1> QED
  BY <1>1, <1>2, SameSums

(* This fold, too, is the only function that unfolds like it. *)
LEMMA FoldIsPulledIn ==
  ASSUME NEW c \in SumsType, NEW ids, NEW records, CanWeigh(ids, records),
         IsFiniteSet(DOMAIN ids), DOMAIN ids \subseteq Nat
  PROVE  ShiftedThrough(c, ids, records) = PulledIn(c, ids, records, DOMAIN ids)
<1> DEFINE D == DOMAIN ids
           h == [s \in SUBSET D |-> PulledIn(c, ids, records, s)]
           g == CHOOSE g : g = SumsUnfolded(g, c, ids, records)
<1>1. ASSUME NEW s \in SUBSET D
      PROVE  /\ IsFiniteSet(s)
             /\ s # {} => Max(s) \in s /\ s \ {Max(s)} \in SUBSET D
             /\ h[s] = IF s = {} THEN c ELSE Shift(h[s \ {Max(s)}], records[ids[Max(s)]], 1)
  <2>1. IsFiniteSet(s)
    BY FS_Subset
  <2>2. ASSUME s # {}
        PROVE  Max(s) \in s /\ s \ {Max(s)} \in SUBSET D
    BY <2>1, <2>2, MaxIsIn
  <2>3. CASE s = {}
    BY <2>1, <2>3, PulledInNone
  <2>4. CASE s # {}
    <3>1. h[s] = PulledIn(c, ids, records, s) /\ h[s \ {Max(s)}] = PulledIn(c, ids, records, s \ {Max(s)})
      BY <2>2, <2>4
    <3>2. PulledIn(c, ids, records, s) = Shift(PulledIn(c, ids, records, s \ {Max(s)}), records[ids[Max(s)]], 1)
      BY <2>1, <2>2, <2>4, PulledInOne
    <3> HIDE DEF h
    <3> QED
      BY <2>1, <2>2, <2>4, <3>1, <3>2
  <2> QED
    BY <2>3, <2>4
<1>2. h = SumsUnfolded(h, c, ids, records)
  <2>1. SumsUnfolded(h, c, ids, records) =
          [s \in SUBSET D |->
             IF s = {} THEN c ELSE Shift(h[s \ {Max(s)}], records[ids[Max(s)]], 1)]
    BY DEF SumsUnfolded
  <2>2. h = [s \in SUBSET D |-> h[s]]
    OBVIOUS
  <2> HIDE DEF h
  <2> QED
    BY <1>1, <2>1, <2>2
<1>3. g = SumsUnfolded(g, c, ids, records)
  <2> HIDE DEF h
  <2> QED
    BY <1>2
<1>4. ShiftedThrough(c, ids, records) = g[D]
  BY SumsUnfold
<1> HIDE DEF g, h
<1>5. ASSUME NEW s \in SUBSET D
      PROVE  g[s] = IF s = {} THEN c ELSE Shift(g[s \ {Max(s)}], records[ids[Max(s)]], 1)
  BY <1>3 DEF SumsUnfolded
<1> DEFINE F == {s \in SUBSET D : g[s] # h[s]}
<1>6. ASSUME F # {} PROVE FALSE
  <2>0. F \in SUBSET (SUBSET D)
    OBVIOUS
  <2>1. PICK T \in F : \A U \in F : U \subseteq T => U = T
    <3> HIDE DEF F
    <3> QED
      BY <1>6, <2>0, MinimalSubset
  <2>2. T \in SUBSET D /\ g[T] # h[T]
    BY <2>1
  <2>3. T # {}
    BY <1>1, <1>5, <2>2
  <2>4. T \ {Max(T)} \in SUBSET D /\ T \ {Max(T)} \notin F
    BY <1>1, <2>1, <2>2, <2>3
  <2>5. g[T \ {Max(T)}] = h[T \ {Max(T)}]
    BY <2>4
  <2> QED
    BY <1>1, <1>5, <2>2, <2>3, <2>5
<1>7. g[D] = h[D]
  BY <1>6
<1> QED
  BY <1>4, <1>7 DEF h

-----------------------------------------------------------------------------
(* The records the score sees: those at the end of a history. *)

KeptFrom(ids) == IF Len(ids) > ScoreWindow THEN Len(ids) - ScoreWindow ELSE 0
KeptOf(ids) == SubSeq(ids, KeptFrom(ids) + 1, Len(ids))
Kept(ids) == Range(KeptOf(ids))

(* What each escrow contributes at t, under windows of length w. *)
PullOn(f, records, t, w) == [e \in Escrows |-> Pull(records[e], t, w)[f]]
KeptSum(f, ids, records, t, w) == SumFunctionOnSet(PullOn(f, records, t, w), Kept(ids))

(* The sums a count at least what the records at the end of ids do at t,   *)
(* and exactly that if they were made at t.                                *)
Tracks(a, at, ids, records, t) ==
  a.window > 0 =>
    \A f \in Parts : /\ a[f] >= KeptSum(f, ids, records, t, a.window)
                     /\ at = t => a[f] = KeptSum(f, ids, records, t, a.window)

AccInv ==
  /\ config \in Configs
  /\ \A e \in Escrows : OnFile(e) => Weighable(record[e], now)
  /\ acc \in [Entities -> SumsType]
  /\ exactAt \in [Entities -> Nat] /\ \A x \in Entities : exactAt[x] <= now
  /\ \A x \in Entities \ disturbed : Tracks(acc[x], exactAt[x], history[x], record, now)

(* The positions it keeps. *)
LEMMA KeptAre ==
  ASSUME NEW ids \in Seq(Escrows), IsInjective(ids)
  PROVE  /\ KeptFrom(ids) \in 0..Len(ids) /\ Len(ids) \in Nat /\ ScoreWindow \in Nat \ {0}
         /\ Kept(ids) = {ids[i] : i \in (KeptFrom(ids) + 1)..Len(ids)}
         /\ KeptOf(ids) \in Seq(Escrows) /\ IsInjective(KeptOf(ids))
         /\ Kept(ids) \subseteq Range(ids) /\ Kept(ids) \subseteq Escrows
         /\ IsFiniteSet(Kept(ids))
<1> DEFINE n == Len(ids)
           k == KeptFrom(ids)
           rest == KeptOf(ids)
<1>1. n \in Nat /\ DOMAIN ids = 1..n /\ \A i \in 1..n : ids[i] \in Escrows
  BY SeqIsFinite
<1>2. ScoreWindow \in Nat \ {0}
  BY ReputationAssumption
<1>3. k \in 0..n /\ k \in Nat
  BY <1>1, <1>2 DEF KeptFrom
<1> HIDE DEF n, k
<1>4. rest = SubSeq(ids, k + 1, n)
  BY DEF KeptOf, k, n
<1>5. /\ rest \in Seq(Escrows) /\ IsInjective(rest)
      /\ Range(rest) \subseteq Range(ids)
  BY <1>3, <1>4, PrunedLists DEF n
<1>6. Len(rest) = n - k /\ \A i \in 1..(n - k) : rest[i] = ids[k + i]
  BY <1>3, <1>4, TailAt DEF n
<1>7. DOMAIN rest = 1..(n - k)
  BY <1>5, <1>6, SeqIsFinite
<1> HIDE DEF rest
<1>8. Range(rest) = {ids[i] : i \in (k + 1)..n}
  <2>1. \A i \in 1..(n - k) : k + i \in (k + 1)..n
    BY <1>1, <1>3
  <2>2. \A j \in (k + 1)..n : j - k \in 1..(n - k) /\ k + (j - k) = j
    BY <1>1, <1>3
  <2>3. ASSUME NEW y \in Range(rest) PROVE y \in {ids[i] : i \in (k + 1)..n}
    <3>1. PICK i \in 1..(n - k) : y = ids[k + i]
      BY <1>6, <1>7 DEF Range
    <3> QED
      BY <2>1, <3>1
  <2>4. ASSUME NEW j \in (k + 1)..n PROVE ids[j] \in Range(rest)
    <3>1. rest[j - k] = ids[j] /\ j - k \in DOMAIN rest
      BY <1>6, <1>7, <2>2
    <3> QED
      BY <3>1 DEF Range
  <2> QED
    BY <2>3, <2>4
<1>9. Range(rest) \subseteq Escrows
  BY <1>1, <1>3, <1>8
<1>10. IsFiniteSet(Range(rest))
  <2>1. NoReputation \in Counts
    BY DEF NoReputation, Counts
  <2> QED
    BY <1>5, <2>1, HistoryCounts
<1> QED
  BY <1>1, <1>2, <1>3, <1>5, <1>8, <1>9, <1>10 DEF Kept, k, n, rest

(* A record at the end pushes out the oldest one once the window is full. *)
LEMMA KeptAppend ==
  ASSUME NEW ids \in Seq(Escrows), IsInjective(ids), NEW e \in Escrows, e \notin Range(ids),
         NEW more, more = Append(ids, e)
  PROVE  LET out == more[Len(more) - ScoreWindow]
         IN  /\ Len(more) = Len(ids) + 1 /\ more[Len(more)] = e
             /\ IF Len(more) > ScoreWindow
                THEN out \in Kept(ids) /\ Kept(more) = (Kept(ids) \ {out}) \cup {e}
                ELSE Kept(more) = Kept(ids) \cup {e}
<1> DEFINE n == Len(ids)
           W == ScoreWindow
<1>1. /\ more \in Seq(Escrows) /\ IsInjective(more) /\ Range(more) = Range(ids) \cup {e}
      /\ Len(more) = n + 1 /\ more[n + 1] = e /\ \A i \in 1..n : more[i] = ids[i]
  BY AppendListed, AppendProperties
<1>2. n \in Nat /\ W \in Nat \ {0} /\ DOMAIN ids = 1..n /\ DOMAIN more = 1..(n + 1)
  BY <1>1, SeqIsFinite, ReputationAssumption
<1>3. /\ Kept(ids) = {ids[i] : i \in (KeptFrom(ids) + 1)..n}
      /\ Kept(more) = {more[i] : i \in (KeptFrom(more) + 1)..(n + 1)}
  BY <1>1, KeptAre
<1>4. /\ KeptFrom(ids) = IF n > W THEN n - W ELSE 0
      /\ KeptFrom(more) = IF n + 1 > W THEN (n + 1) - W ELSE 0
  BY <1>1 DEF KeptFrom
<1> HIDE DEF n
<1>5. CASE n + 1 > W
  <2> DEFINE c == (n + 1) - W
  <2>1. /\ c \in 1..n /\ KeptFrom(ids) + 1 = c /\ KeptFrom(more) + 1 = c + 1
    BY <1>2, <1>4, <1>5
  <2> HIDE DEF c
  <2>2. Kept(ids) = {ids[i] : i \in c..n} /\ Kept(more) = {more[i] : i \in (c + 1)..(n + 1)}
    BY <1>3, <2>1
  <2>3. \A i \in c..n : i \in 1..n /\ more[i] = ids[i] /\ i \in DOMAIN more
    BY <1>1, <1>2, <2>1
  <2>4. \A i \in (c + 1)..(n + 1) : (i \in c..n /\ i # c) \/ i = n + 1
    BY <1>2, <2>1
  <2>5. \A i \in c..n : i # c => i \in (c + 1)..(n + 1)
    BY <1>2, <2>1
  <2>6. c \in c..n /\ n + 1 \in (c + 1)..(n + 1)
    BY <1>2, <2>1
  <2>7. more[c] \in Kept(ids)
    BY <2>2, <2>3, <2>6
  <2>8. \A i \in c..n : i # c => more[i] # more[c]
    BY <1>1, <2>3, <2>6 DEF IsInjective
  <2>9. ASSUME NEW y \in Kept(more) PROVE y \in (Kept(ids) \ {more[c]}) \cup {e}
    <3>1. PICK i \in (c + 1)..(n + 1) : y = more[i]
      BY <2>2
    <3> QED
      BY <1>1, <2>2, <2>3, <2>4, <2>8, <3>1
  <2>10. ASSUME NEW y \in Kept(ids), y # more[c] PROVE y \in Kept(more)
    <3>1. PICK i \in c..n : y = ids[i]
      BY <2>2
    <3>2. i # c /\ y = more[i]
      BY <2>3, <2>10, <3>1
    <3> QED
      BY <2>2, <2>5, <3>2
  <2>11. e \in Kept(more)
    BY <1>1, <2>2, <2>6
  <2>12. Kept(more) = (Kept(ids) \ {more[c]}) \cup {e}
    BY <2>9, <2>10, <2>11
  <2> QED
    BY <1>1, <1>5, <2>7, <2>12 DEF c, n
<1>6. CASE ~(n + 1 > W)
  <2>1. KeptFrom(ids) + 1 = 1 /\ KeptFrom(more) + 1 = 1
    BY <1>2, <1>4, <1>6
  <2>2. Kept(ids) = {ids[i] : i \in 1..n} /\ Kept(more) = {more[i] : i \in 1..(n + 1)}
    BY <1>3, <2>1
  <2>3. Kept(ids) = Range(ids) /\ Kept(more) = Range(more)
    BY <1>2, <2>2 DEF Range
  <2> QED
    BY <1>1, <1>6, <2>3 DEF n
<1> QED
  BY <1>5, <1>6

(* Pruning takes nothing from the window. *)
LEMMA KeptPruned ==
  ASSUME NEW ids \in Seq(Escrows), IsInjective(ids), Len(ids) > ScoreWindow,
         NEW k \in 0..(Len(ids) - ScoreWindow)
  PROVE  Kept(SubSeq(ids, k + 1, Len(ids))) = Kept(ids)
<1> DEFINE n == Len(ids)
           W == ScoreWindow
           rest == SubSeq(ids, k + 1, n)
<1>1. n \in Nat /\ W \in Nat \ {0} /\ DOMAIN ids = 1..n /\ \A i \in 1..n : ids[i] \in Escrows
  BY SeqIsFinite, ReputationAssumption
<1>2. k \in Nat /\ k \in 0..n /\ n > W /\ k <= n - W
  BY <1>1
<1> HIDE DEF n
<1>3. rest \in Seq(Escrows) /\ IsInjective(rest)
  BY <1>2, PrunedLists DEF n
<1>4. Len(rest) = n - k /\ \A i \in 1..(n - k) : rest[i] = ids[k + i]
  BY <1>2, TailAt DEF n
<1> HIDE DEF rest
<1>5. /\ KeptFrom(ids) = n - W
      /\ KeptFrom(rest) = (n - k) - W
  <2>1. /\ KeptFrom(ids) = IF n > W THEN n - W ELSE 0
        /\ KeptFrom(rest) = IF n - k > W THEN (n - k) - W ELSE 0
    BY <1>4 DEF KeptFrom, n
  <2> QED
    BY ONLY <1>1, <1>2, <2>1
<1> DEFINE c == (n - W) + 1
           d == ((n - k) - W) + 1
<1>6. Kept(ids) = {ids[i] : i \in c..n} /\ Kept(rest) = {rest[i] : i \in d..(n - k)}
  <2>1. Kept(ids) = {ids[i] : i \in (KeptFrom(ids) + 1)..n}
    BY KeptAre DEF n
  <2>2. Kept(rest) = {rest[i] : i \in (KeptFrom(rest) + 1)..(n - k)}
    BY <1>3, <1>4, KeptAre
  <2> QED
    BY <1>5, <2>1, <2>2
<1>7. /\ \A i \in d..(n - k) : i \in 1..(n - k) /\ k + i \in c..n
      /\ \A j \in c..n : j - k \in d..(n - k) /\ j - k \in 1..(n - k) /\ k + (j - k) = j
  BY <1>1, <1>2
<1> HIDE DEF c, d
<1>8. \A y \in Kept(rest) : y \in Kept(ids)
  BY <1>4, <1>6, <1>7
<1>9. \A y \in Kept(ids) : y \in Kept(rest)
  BY <1>4, <1>6, <1>7
<1> QED
  BY <1>8, <1>9 DEF rest, n

-----------------------------------------------------------------------------
(* Their sums. *)

AllWeighable(ids, records, t) == \A e \in Kept(ids) : Weighable(records[e], t)

LEMMA PullOnType ==
  ASSUME NEW ids \in Seq(Escrows), IsInjective(ids), NEW records, NEW t \in Nat,
         NEW w \in Nat \ {0}, AllWeighable(ids, records, t), NEW f \in Parts
  PROVE  /\ \A e \in Kept(ids) : /\ PullOn(f, records, t, w)[e] = Pull(records[e], t, w)[f]
                                 /\ PullOn(f, records, t, w)[e] \in Nat
                                 /\ PullOn(f, records, t, w)[e] \in Int
         /\ KeptSum(f, ids, records, t, w) \in Nat
<1>1. IsFiniteSet(Kept(ids)) /\ Kept(ids) \subseteq Escrows
  BY KeptAre
<1>2. ASSUME NEW e \in Kept(ids)
      PROVE  /\ PullOn(f, records, t, w)[e] = Pull(records[e], t, w)[f]
             /\ PullOn(f, records, t, w)[e] \in Nat
  <2>1. PullOn(f, records, t, w)[e] = Pull(records[e], t, w)[f]
    BY <1>1 DEF PullOn
  <2>2. Pull(records[e], t, w)[f] \in Nat
    BY PullFalls DEF AllWeighable
  <2> QED
    BY <2>1, <2>2
<1>3. KeptSum(f, ids, records, t, w) \in Nat
  BY <1>1, <1>2, SumType DEF KeptSum
<1> QED
  BY <1>2, <1>3

(* Records outside the window may change. *)
LEMMA KeptSumOfSame ==
  ASSUME NEW ids \in Seq(Escrows), IsInjective(ids), NEW old, NEW new, NEW t, NEW w,
         \A e \in Kept(ids) : old[e] = new[e], NEW f
  PROVE  KeptSum(f, ids, old, t, w) = KeptSum(f, ids, new, t, w)
<1>1. IsFiniteSet(Kept(ids)) /\ Kept(ids) \subseteq Escrows
  BY KeptAre
<1>2. \A e \in Kept(ids) : PullOn(f, old, t, w)[e] = PullOn(f, new, t, w)[e]
  BY <1>1 DEF PullOn
<1> QED
  BY <1>1, <1>2, SumOfSame DEF KeptSum

(* Time takes weight from them. *)
LEMMA KeptSumFalls ==
  ASSUME NEW ids \in Seq(Escrows), IsInjective(ids), NEW records, NEW t \in Nat,
         NEW w \in Nat \ {0}, AllWeighable(ids, records, t), NEW f \in Parts
  PROVE  /\ KeptSum(f, ids, records, t + 1, w) \in Nat /\ KeptSum(f, ids, records, t, w) \in Nat
         /\ KeptSum(f, ids, records, t + 1, w) <= KeptSum(f, ids, records, t, w)
<1>1. IsFiniteSet(Kept(ids)) /\ Kept(ids) \subseteq Escrows
  BY KeptAre
<1>2. AllWeighable(ids, records, t + 1)
  BY WeighableType DEF AllWeighable, Weighable
<1>3. KeptSum(f, ids, records, t + 1, w) \in Nat /\ KeptSum(f, ids, records, t, w) \in Nat
  BY <1>2, PullOnType
<1>4. \A e \in Kept(ids) :
        /\ PullOn(f, records, t + 1, w)[e] \in Int /\ PullOn(f, records, t, w)[e] \in Int
        /\ PullOn(f, records, t + 1, w)[e] <= PullOn(f, records, t, w)[e]
  <2> SUFFICES ASSUME NEW e \in Kept(ids)
               PROVE  /\ PullOn(f, records, t + 1, w)[e] \in Int /\ PullOn(f, records, t, w)[e] \in Int
                      /\ PullOn(f, records, t + 1, w)[e] <= PullOn(f, records, t, w)[e]
    OBVIOUS
  <2>1. /\ Pull(records[e], t, w)[f] \in Nat /\ Pull(records[e], t + 1, w)[f] \in Nat
        /\ Pull(records[e], t + 1, w)[f] <= Pull(records[e], t, w)[f]
    BY PullFalls DEF AllWeighable
  <2>2. /\ PullOn(f, records, t, w)[e] = Pull(records[e], t, w)[f]
        /\ PullOn(f, records, t + 1, w)[e] = Pull(records[e], t + 1, w)[f]
    BY <1>1 DEF PullOn
  <2> QED
    BY <2>1, <2>2
<1> QED
  BY <1>1, <1>3, <1>4, SumOfSmaller DEF KeptSum

(* A recomputation yields exactly these sums. *)
LEMMA FullIsSum ==
  ASSUME NEW ids \in Seq(Escrows), IsInjective(ids), NEW records, now \in Nat,
         config.window \in Nat \ {0}, AllWeighable(ids, records, now)
  PROVE  /\ FullSums(ids, records) \in SumsType
         /\ FullSums(ids, records).window = config.window
         /\ \A f \in Parts :
              FullSums(ids, records)[f] = KeptSum(f, ids, records, now, config.window)
<1> DEFINE kept == KeptOf(ids)
           zero == Sums(config.window)
<1>1. /\ kept \in Seq(Escrows) /\ IsInjective(kept) /\ Kept(ids) = Range(kept)
      /\ Len(ids) \in Nat /\ ScoreWindow \in Nat \ {0}
  BY KeptAre DEF Kept
<1>2. FullSums(ids, records) = ShiftedThrough(zero, kept, records)
  <2>1. KeptFrom(ids) + 1 = IF Len(ids) > ScoreWindow THEN Len(ids) - ScoreWindow + 1 ELSE 1
    BY <1>1 DEF KeptFrom
  <2> QED
    BY <2>1, Zenon DEF FullSums, ShiftedThrough, KeptOf
<1>3. zero \in SumsType /\ zero.window = config.window /\ \A f \in Parts : zero[f] = 0
  BY DEF Sums, SumsType, Parts
<1> HIDE DEF kept, zero
<1>4. IsFiniteSet(DOMAIN kept) /\ DOMAIN kept \subseteq Nat
  BY <1>1, SeqIsFinite
<1>5. \A i \in DOMAIN kept : kept[i] \in Kept(ids)
  BY <1>1 DEF Range
<1>6. CanWeigh(kept, records)
  BY <1>5 DEF CanWeigh, AllWeighable
<1>7. FullSums(ids, records) = PulledIn(zero, kept, records, DOMAIN kept)
  BY <1>2, <1>3, <1>4, <1>6, FoldIsPulledIn
<1>8. /\ PulledIn(zero, kept, records, DOMAIN kept) \in SumsType
      /\ PulledIn(zero, kept, records, DOMAIN kept).window = zero.window
      /\ \A f \in Parts : /\ PulledIn(zero, kept, records, DOMAIN kept)[f] =
                            zero[f] + SumFunctionOnSet(PullAt(f, kept, records), DOMAIN kept)
                         /\ SumFunctionOnSet(PullAt(f, kept, records), DOMAIN kept) \in Nat
  BY <1>3, <1>4, <1>6, PulledInType
<1>9. ASSUME NEW f \in Parts
      PROVE  SumFunctionOnSet(PullAt(f, kept, records), DOMAIN kept) =
               KeptSum(f, ids, records, now, config.window)
  <2> DEFINE on == PullOn(f, records, now, config.window)
             at == PullAt(f, kept, records)
  <2>1. \A e \in Kept(ids) : on[e] = Pull(records[e], now, config.window)[f] /\ on[e] \in Int
    BY PullOnType
  <2>2. \A i \in DOMAIN kept : at[i] = Pull(records[kept[i]], now, config.window)[f]
    BY <1>6, PullAtType
  <2> HIDE DEF on, at
  <2>3. \A i \in DOMAIN kept : on[kept[i]] \in Int /\ at[i] = on[kept[i]]
    BY <1>5, <2>1, <2>2
  <2>4. SumFunctionOnSet(at, DOMAIN kept) = SumFunctionOnSet(on, Range(kept))
    BY <1>1, <1>4, <2>3, SumOverRange
  <2> QED
    BY <1>1, <2>4 DEF on, at, KeptSum
<1> QED
  BY <1>3, <1>7, <1>8, <1>9

LEMMA FullTracks ==
  ASSUME NEW ids \in Seq(Escrows), IsInjective(ids), NEW records, now \in Nat,
         config.window \in Nat \ {0}, AllWeighable(ids, records, now)
  PROVE  /\ FullSums(ids, records) \in SumsType
         /\ Tracks(FullSums(ids, records), now, ids, records, now)
<1>1. /\ FullSums(ids, records) \in SumsType
      /\ FullSums(ids, records).window = config.window
      /\ \A f \in Parts :
           FullSums(ids, records)[f] = KeptSum(f, ids, records, now, config.window)
  BY FullIsSum
<1>2. \A f \in Parts : KeptSum(f, ids, records, now, config.window) \in Nat
  BY PullOnType
<1> HIDE DEF FullSums
<1> QED
  BY <1>1, <1>2 DEF Tracks

(* b is to a what the sums over the window of more are to those of ids. *)
Moved(b, a, ids, more, records, t, w) ==
  /\ b \in SumsType /\ b.window = a.window
  /\ \A f \in Parts : \E m \in Int :
       /\ b[f] = a[f] + m
       /\ KeptSum(f, more, records, t, w) = KeptSum(f, ids, records, t, w) + m

(* The increment moves the sums as the window moves. *)
LEMMA IncrementIsMove ==
  ASSUME NEW ids \in Seq(Escrows), IsInjective(ids), NEW e \in Escrows, e \notin Range(ids),
         NEW more, more = Append(ids, e), NEW records, now \in Nat,
         config.window \in Nat \ {0}, AllWeighable(ids, records, now), Weighable(records[e], now),
         NEW a \in SumsType
  PROVE  Moved(IncrementalSums(a, more, records), a, ids, more, records, now, config.window)
<1> DEFINE w == config.window
           b == IncrementalSums(a, more, records)
           out == more[Len(more) - ScoreWindow]
           added == Shift(a, records[e], 1)
           In(f) == Pull(records[e], now, w)[f]
           Out(f) == Pull(records[out], now, w)[f]
<1>1. /\ more \in Seq(Escrows) /\ IsInjective(more)
  BY AppendListed
<1>2. /\ more[Len(more)] = e
      /\ IF Len(more) > ScoreWindow
         THEN out \in Kept(ids) /\ Kept(more) = (Kept(ids) \ {out}) \cup {e}
         ELSE Kept(more) = Kept(ids) \cup {e}
  BY KeptAppend
<1>3. b = IF Len(more) > ScoreWindow THEN Shift(added, records[out], -1) ELSE added
  BY <1>2, Zenon DEF IncrementalSums
<1>4. /\ added \in SumsType /\ added.window = a.window
      /\ \A f \in Parts : added[f] = a[f] + In(f)
  BY ShiftUp
<1>5. /\ e \notin Kept(ids) /\ IsFiniteSet(Kept(ids)) /\ Kept(ids) \subseteq Escrows
      /\ IsFiniteSet(Kept(more)) /\ Kept(more) \subseteq Escrows
  BY <1>1, KeptAre
<1>6. AllWeighable(more, records, now) /\ w \in Nat \ {0}
  BY <1>2 DEF AllWeighable
<1> HIDE DEF b, added, In, Out, w, out
<1>7. ASSUME NEW f \in Parts
      PROVE  /\ In(f) \in Int
             /\ KeptSum(f, ids, records, now, w) \in Int /\ a[f] \in Int
             /\ \A y \in Kept(ids) \cup Kept(more) :
                  /\ PullOn(f, records, now, w)[y] = Pull(records[y], now, w)[f]
                  /\ PullOn(f, records, now, w)[y] \in Int
  <2>1. /\ \A y \in Kept(ids) : /\ PullOn(f, records, now, w)[y] = Pull(records[y], now, w)[f]
                                /\ PullOn(f, records, now, w)[y] \in Int
        /\ KeptSum(f, ids, records, now, w) \in Nat
    BY <1>6, PullOnType
  <2>2. \A y \in Kept(more) : /\ PullOn(f, records, now, w)[y] = Pull(records[y], now, w)[f]
                              /\ PullOn(f, records, now, w)[y] \in Int
    <3> SUFFICES ASSUME NEW y \in Kept(more)
                 PROVE  /\ PullOn(f, records, now, w)[y] = Pull(records[y], now, w)[f]
                        /\ PullOn(f, records, now, w)[y] \in Int
      OBVIOUS
    <3>1. PullOn(f, records, now, w)[y] = Pull(records[y], now, w)[f]
      BY <1>5 DEF PullOn
    <3>2. Weighable(records[y], now)
      BY <1>6 DEF AllWeighable
    <3>3. Pull(records[y], now, w)[f] \in Nat
      BY <1>6, <3>2, PullFalls
    <3> QED
      BY <3>1, <3>3
  <2>3. In(f) \in Int
    BY PullFalls DEF In, w
  <2>4. a[f] \in Int
    BY DEF SumsType, Parts
  <2> QED
    BY <2>1, <2>2, <2>3, <2>4
<1>8. CASE Len(more) > ScoreWindow
  <2>1. out \in Kept(ids) /\ Kept(more) = (Kept(ids) \ {out}) \cup {e} /\ e \in Kept(more)
        /\ Kept(more) \ {e} = Kept(ids) \ {out}
    BY <1>2, <1>5, <1>8
  <2>2. Weighable(records[out], now)
    BY <2>1 DEF AllWeighable
  <2>3. b = Shift(added, records[out], -1)
    BY <1>3, <1>8
  <2>4. /\ b \in SumsType /\ b.window = a.window
        /\ \A f \in Parts : b[f] = added[f] - Out(f)
    BY <1>4, <2>2, <2>3, ShiftDown DEF Out, w
  <2>5. ASSUME NEW f \in Parts
        PROVE  \E m \in Int :
                 /\ b[f] = a[f] + m
                 /\ KeptSum(f, more, records, now, w) = KeptSum(f, ids, records, now, w) + m
    <3> DEFINE p == PullOn(f, records, now, w)
               rest == SumFunctionOnSet(p, Kept(ids) \ {out})
    <3>1. /\ p[e] = In(f) /\ p[out] = Out(f) /\ p[out] \in Int
          /\ \A y \in Kept(ids) : p[y] \in Int
          /\ \A y \in Kept(more) : p[y] \in Int
      BY <1>7, <2>1 DEF In, Out
    <3> HIDE DEF p
    <3>2. SumFunctionOnSet(p, Kept(ids)) = p[out] + rest
      BY <1>5, <2>1, <3>1, SumWithout
    <3>3. SumFunctionOnSet(p, Kept(more)) = p[e] + rest
      <4>1. SumFunctionOnSet(p, Kept(more)) = p[e] + SumFunctionOnSet(p, Kept(more) \ {e})
        BY ONLY <1>5, <2>1, <3>1, SumWithout
      <4> QED
        BY <2>1, <4>1
    <3>4. rest \in Int
      <4>1. IsFiniteSet(Kept(ids) \ {out}) /\ \A y \in Kept(ids) \ {out} : p[y] \in Int
        BY <1>5, <3>1, FS_RemoveElement
      <4> QED
        BY <4>1, SumType
    <3> HIDE DEF rest
    <3>5. KeptSum(f, ids, records, now, w) = p[out] + rest
          /\ KeptSum(f, more, records, now, w) = p[e] + rest
      BY <3>2, <3>3 DEF KeptSum, p
    <3>6. /\ In(f) - Out(f) \in Int /\ b[f] = a[f] + (In(f) - Out(f))
          /\ p[e] + rest = (p[out] + rest) + (In(f) - Out(f))
      <4> DEFINE i == In(f)
                 o == Out(f)
                 v == a[f]
                 u == b[f]
                 g == added[f]
      <4>1. i \in Int /\ o \in Int /\ v \in Int /\ p[e] = i /\ p[out] = o
        BY <1>7, <3>1
      <4>2. u = g - o /\ g = v + i
        BY <1>4, <2>4
      <4> HIDE DEF i, o, v, u, g
      <4>3. /\ i - o \in Int /\ u = v + (i - o)
            /\ i + rest = (o + rest) + (i - o)
        BY ONLY <3>4, <4>1, <4>2
      <4> QED
        BY <4>1, <4>3 DEF i, o, v, u
    <3> QED
      BY <3>5, <3>6
  <2> QED
    BY <2>4, <2>5 DEF b, w, Moved
<1>9. CASE ~(Len(more) > ScoreWindow)
  <2>1. Kept(more) = Kept(ids) \cup {e} /\ e \in Kept(more) /\ Kept(more) \ {e} = Kept(ids)
    BY <1>2, <1>5, <1>9
  <2>2. b = added
    BY <1>3, <1>9
  <2>3. ASSUME NEW f \in Parts
        PROVE  \E m \in Int :
                 /\ b[f] = a[f] + m
                 /\ KeptSum(f, more, records, now, w) = KeptSum(f, ids, records, now, w) + m
    <3> DEFINE p == PullOn(f, records, now, w)
    <3>1. p[e] = In(f) /\ \A y \in Kept(more) : p[y] \in Int
      BY <1>7, <2>1 DEF In
    <3> HIDE DEF p
    <3>2. SumFunctionOnSet(p, Kept(more)) = p[e] + SumFunctionOnSet(p, Kept(ids))
      <4>1. SumFunctionOnSet(p, Kept(more)) = p[e] + SumFunctionOnSet(p, Kept(more) \ {e})
        BY ONLY <1>5, <2>1, <3>1, SumWithout
      <4> QED
        BY <2>1, <4>1
    <3>3. KeptSum(f, more, records, now, w) = KeptSum(f, ids, records, now, w) + In(f)
      BY <1>7, <3>1, <3>2 DEF KeptSum, p
    <3> QED
      BY <1>4, <1>7, <2>2, <3>3
  <2> QED
    BY <1>4, <2>2, <2>3 DEF b, w, Moved
<1> QED
  BY <1>8, <1>9

LEMMA MoveTracks ==
  ASSUME NEW ids \in Seq(Escrows), IsInjective(ids), NEW e \in Escrows, e \notin Range(ids),
         NEW more, more = Append(ids, e), NEW records, now \in Nat,
         config.window \in Nat \ {0}, AllWeighable(ids, records, now), Weighable(records[e], now),
         NEW a \in SumsType, a.window = config.window, NEW at, Tracks(a, at, ids, records, now)
  PROVE  Tracks(IncrementalSums(a, more, records), at, more, records, now)
<1> DEFINE b == IncrementalSums(a, more, records)
           w == config.window
<1>1. /\ b \in SumsType /\ b.window = w
      /\ \A f \in Parts : \E m \in Int :
           /\ b[f] = a[f] + m
           /\ KeptSum(f, more, records, now, w) = KeptSum(f, ids, records, now, w) + m
  <2>1. Moved(b, a, ids, more, records, now, w)
    BY IncrementIsMove
  <2> HIDE DEF b, w
  <2>2. a.window = w
    BY DEF w
  <2> QED
    BY <2>1, <2>2 DEF Moved
<1>2. w \in Nat \ {0} /\ a.window = w
  OBVIOUS
<1> HIDE DEF b, w
<1>3. ASSUME NEW f \in Parts
      PROVE  /\ b[f] >= KeptSum(f, more, records, now, w)
             /\ at = now => b[f] = KeptSum(f, more, records, now, w)
  <2>1. PICK m \in Int : /\ b[f] = a[f] + m
                         /\ KeptSum(f, more, records, now, w) = KeptSum(f, ids, records, now, w) + m
    BY <1>1
  <2>2. KeptSum(f, ids, records, now, w) \in Nat
    BY <1>2, PullOnType
  <2>3. a[f] \in Int
    BY DEF SumsType, Parts
  <2>4. a[f] >= KeptSum(f, ids, records, now, w) /\ (at = now => a[f] = KeptSum(f, ids, records, now, w))
    BY <1>2 DEF Tracks
  <2> QED
    BY <2>1, <2>2, <2>3, <2>4
<1>4. Tracks(b, at, more, records, now)
  BY <1>1, <1>3 DEF Tracks
<1> QED
  BY <1>4 DEF b

-----------------------------------------------------------------------------
(* The sums from one step to the next. *)

LEMMA WindowIsPositive == ASSUME NEW c \in Configs PROVE c.window \in Nat \ {0}
  BY ReputationAssumption

LEMMA HeldAreWeighable ==
  ASSUME ReputationInv, AccInv, NEW x \in Entities
  PROVE  /\ history[x] \in Seq(Escrows) /\ IsInjective(history[x])
         /\ \A e \in Held(x) : OnFile(e) /\ e \in Escrows /\ Weighable(record[e], now)
         /\ Kept(history[x]) \subseteq Held(x)
         /\ AllWeighable(history[x], record, now)
<1>1. history[x] \in Seq(Escrows) /\ IsInjective(history[x])
  BY DEF ReputationInv, HistoriesFit
<1>2. Kept(history[x]) \subseteq Held(x) /\ Held(x) \subseteq Escrows
  BY <1>1, KeptAre, HeldAreFinite DEF Held, ReputationInv
<1>3. \A e \in Held(x) : OnFile(e) /\ e \in Escrows /\ Weighable(record[e], now)
  BY <1>2 DEF ReputationInv, HistoriesFit, AccInv
<1> QED
  BY <1>1, <1>2, <1>3 DEF AllWeighable

(* Sums that track go on tracking while the records of the window stand. *)
LEMMA TracksTheSame ==
  ASSUME NEW ids \in Seq(Escrows), IsInjective(ids), NEW a, NEW at, NEW old, NEW new, NEW t,
         \A e \in Kept(ids) : old[e] = new[e], Tracks(a, at, ids, old, t)
  PROVE  Tracks(a, at, ids, new, t)
<1>1. \A f \in Parts : KeptSum(f, ids, old, t, a.window) = KeptSum(f, ids, new, t, a.window)
  BY KeptSumOfSame
<1> QED
  BY <1>1 DEF Tracks

(* The sums of x are made anew; nobody else's records change. *)
LEMMA ScoreAccStep ==
  ASSUME ReputationInv, AccInv, UNCHANGED <<now, config>>, NEW x \in Entities,
         NEW a \in SumsType, acc' = [acc EXCEPT ![x] = a],
         NEW t \in Nat, t <= now, exactAt' = [exactAt EXCEPT ![x] = t],
         disturbed \subseteq disturbed',
         x \notin disturbed' => Tracks(a, t, history'[x], record', now),
         \A y \in Entities \ {x} : history'[y] = history[y],
         \A y \in Entities \ {x} : y \notin disturbed' => \A e \in Held(y) : record'[e] = record[e],
         \A e \in Escrows : record'[e] # NoRecord => Weighable(record'[e], now)
  PROVE  AccInv'
<1>1. /\ acc' \in [Entities -> SumsType] /\ acc'[x] = a
      /\ \A y \in Entities \ {x} : acc'[y] = acc[y]
  BY DEF AccInv
<1>2. /\ exactAt' \in [Entities -> Nat] /\ exactAt'[x] = t
      /\ \A y \in Entities \ {x} : exactAt'[y] = exactAt[y]
      /\ \A y \in Entities : exactAt'[y] <= now
  BY DEF AccInv
<1>3. ASSUME NEW y \in Entities \ disturbed'
      PROVE  Tracks(acc'[y], exactAt'[y], history'[y], record', now)
  <2>1. CASE y = x
    BY <1>1, <1>2, <1>3, <2>1
  <2>2. CASE y # x
    <3>1. /\ history[y] \in Seq(Escrows) /\ IsInjective(history[y])
          /\ Kept(history[y]) \subseteq Held(y)
      BY HeldAreWeighable
    <3>2. \A e \in Kept(history[y]) : record[e] = record'[e]
      BY <2>2, <3>1
    <3>3. Tracks(acc[y], exactAt[y], history[y], record, now)
      BY DEF AccInv
    <3>4. Tracks(acc[y], exactAt[y], history[y], record', now)
      BY <3>1, <3>2, <3>3, TracksTheSame
    <3>5. acc'[y] = acc[y] /\ exactAt'[y] = exactAt[y] /\ history'[y] = history[y]
      BY <1>1, <1>2, <2>2
    <3> QED
      BY <3>4, <3>5
  <2> QED
    BY <2>1, <2>2
<1>4. config' \in Configs
  BY DEF AccInv
<1> QED
  BY <1>1, <1>2, <1>3, <1>4 DEF AccInv, OnFile

(* A record on file gives way to another one and the score is recomputed. *)
LEMMA OverwriteAccStep ==
  ASSUME ReputationInv, AccInv, NEW e \in Escrows, OnFile(e), NEW r, Weighable(r, now),
         NEW x \in Entities, record' = [record EXCEPT ![e] = r], NEW q,
         RecomputeScore(x, q, history[x], record'),
         disturbed \subseteq disturbed', record[e].entity # x => record[e].entity \in disturbed',
         UNCHANGED <<now, config, history>>
  PROVE  AccInv'
<1> DEFINE a == FullSums(history[x], record')
<1>1. /\ record'[e] = r /\ \A f \in Escrows \ {e} : record'[f] = record[f]
  BY DEF ReputationInv, RecordsFit
<1>2. acc' = [acc EXCEPT ![x] = a] /\ exactAt' = [exactAt EXCEPT ![x] = now]
  BY Zenon DEF RecomputeScore
<1>3. /\ now \in Nat /\ config.window \in Nat \ {0}
  BY WindowIsPositive DEF ReputationInv, RecordsFit, AccInv
<1>4. \A f \in Escrows : record'[f] # NoRecord => Weighable(record'[f], now)
  BY <1>1 DEF AccInv, OnFile
<1>5. AllWeighable(history[x], record', now)
  <2>1. \A f \in Kept(history[x]) : f \in Escrows /\ Weighable(record[f], now)
    BY HeldAreWeighable
  <2> QED
    BY <1>1, <2>1 DEF AllWeighable
<1>6. history[x] \in Seq(Escrows) /\ IsInjective(history[x])
  BY HeldAreWeighable
<1>7. a \in SumsType /\ Tracks(a, now, history[x], record', now)
  BY <1>3, <1>5, <1>6, FullTracks
<1>8. ASSUME NEW y \in Entities \ {x}, y \notin disturbed', NEW f \in Held(y)
      PROVE  record'[f] = record[f]
  <2>1. f \in Escrows
    BY HeldAreWeighable
  <2>2. y \notin disturbed /\ record[f].entity = y
    BY <1>8 DEF ReputationInv, HistoriesFit
  <2>3. f # e
    BY <1>8, <2>2
  <2> QED
    BY <1>1, <2>1, <2>3
<1> HIDE DEF a
<1>9. now <= now /\ history' = history
  BY <1>3
<1> QED
  BY <1>2, <1>3, <1>4, <1>7, <1>8, <1>9, ScoreAccStep

(* A record comes onto the end of the history of its entity. *)
LEMMA AddAccStep ==
  ASSUME ReputationInv, AccInv, NEW e \in Escrows, ~OnFile(e),
         NEW r, Weighable(r, now), r.entity \in Entities,
         AddRecord(e, r), UNCHANGED <<now, config, disturbed>>
  PROVE  AccInv'
<1> DEFINE x == r.entity
           ids == history[x]
           more == Append(ids, e)
           q == Counted(rep[x], r.outcome)
           fresh == acc[x] = NoAccumulator /\ Len(more) = 1
           w == config.window
<1>1. /\ record' = [record EXCEPT ![e] = r]
      /\ history' = [history EXCEPT ![x] = more]
      /\ IncrementalScoreUpdate(x, q, more, record')
  BY Zenon DEF AddRecord
<1>2. x \in Entities /\ record'[e] = r /\ \A y \in Escrows \ {e} : record'[y] = record[y]
  BY <1>1 DEF ReputationInv, RecordsFit
<1>3. now \in Nat /\ w \in Nat \ {0}
  BY WindowIsPositive DEF ReputationInv, RecordsFit, AccInv
<1>4. \A y \in Entities : e \notin Held(y) /\ Held(y) \subseteq Escrows
  BY HeldAreFinite DEF ReputationInv, HistoriesFit
<1>5. /\ ids \in Seq(Escrows) /\ IsInjective(ids) /\ Range(ids) = Held(x)
      /\ Kept(ids) \subseteq Held(x)
      /\ \A f \in Held(x) : f \in Escrows /\ Weighable(record[f], now)
  BY <1>2, HeldAreWeighable DEF Held
<1> HIDE DEF ids, q
<1>6. more \in Seq(Escrows) /\ IsInjective(more) /\ Range(more) = Held(x) \cup {e}
  BY <1>4, <1>2, <1>5, AppendListed
<1> HIDE DEF more
<1>7. \A f \in Held(x) : record'[f] = record[f]
  BY <1>2, <1>4
<1>8. \A f \in Range(more) : Weighable(record'[f], now)
  BY <1>2, <1>5, <1>6, <1>7
<1>9. AllWeighable(ids, record', now) /\ AllWeighable(more, record', now) /\ Weighable(record'[e], now)
  <2>1. Kept(more) \subseteq Range(more)
    BY <1>6, KeptAre
  <2> QED
    BY <1>2, <1>5, <1>6, <1>8, <2>1 DEF AllWeighable
<1>10. /\ history'[x] = more /\ \A y \in Entities \ {x} : history'[y] = history[y]
  BY <1>1, <1>2 DEF ReputationInv, HistoriesFit
<1>11. \A y \in Entities \ {x} : \A f \in Held(y) : record'[f] = record[f]
  BY <1>2, <1>4
<1>12. \A f \in Escrows : record'[f] # NoRecord => Weighable(record'[f], now)
  BY <1>2 DEF AccInv, OnFile
<1>13. e \notin Range(ids) /\ more = Append(ids, e)
  BY <1>2, <1>4, <1>5 DEF more
<1>14. /\ acc[x] \in SumsType /\ exactAt[x] \in Nat /\ exactAt[x] <= now
       /\ exactAt = [exactAt EXCEPT ![x] = exactAt[x]]
       /\ x \notin disturbed => Tracks(acc[x], exactAt[x], ids, record, now)
  BY <1>2 DEF AccInv, ids
<1> DEFINE Goal(a, t) == /\ acc' = [acc EXCEPT ![x] = a] /\ exactAt' = [exactAt EXCEPT ![x] = t]
                         /\ a \in SumsType /\ t \in Nat /\ t <= now
                         /\ x \notin disturbed => Tracks(a, t, more, record', now)
<1>15. ASSUME fresh PROVE \E a, t : Goal(a, t)
  <2> DEFINE zero == Sums(w)
             a == IncrementalSums(zero, more, record')
  <2>1. acc' = [acc EXCEPT ![x] = a] /\ exactAt' = [exactAt EXCEPT ![x] = now]
    BY <1>1, <1>15, Zenon DEF IncrementalScoreUpdate
  <2>2. zero \in SumsType /\ zero.window = w /\ \A f \in Parts : zero[f] = 0
    BY <1>3 DEF Sums, SumsType, Parts
  <2> HIDE DEF zero
  <2>3. Kept(ids) = {}
    <3>1. Len(more) = Len(ids) + 1 /\ Len(ids) \in Nat
      BY <1>5, <1>13, AppendProperties, SeqIsFinite
    <3>0. Len(more) = 1
      BY <1>15
    <3>2. Len(ids) = 0
      BY ONLY <3>0, <3>1
    <3>3. Kept(ids) \subseteq Range(ids) /\ DOMAIN ids = 1..0
      BY <1>5, <3>2, KeptAre, SeqIsFinite
    <3> QED
      BY <3>3 DEF Range
  <2>4. \A f \in Parts : KeptSum(f, ids, record', now, w) = 0
    BY <2>3, SumOfNone DEF KeptSum
  <2>5. Tracks(zero, now, ids, record', now)
    <3>1. \A f \in Parts : zero[f] = 0 /\ KeptSum(f, ids, record', now, w) = 0
      BY <2>2, <2>4
    <3> HIDE DEF w
    <3> QED
      BY <2>2, <3>1 DEF Tracks
  <2>6. Moved(a, zero, ids, more, record', now, w)
    BY <1>3, <1>5, <1>9, <1>13, <2>2, IncrementIsMove
  <2>7. Tracks(a, now, more, record', now)
    BY <1>3, <1>5, <1>9, <1>13, <2>2, <2>5, MoveTracks
  <2>8. a \in SumsType
    BY <2>6 DEF Moved
  <2>9. Goal(a, now)
    BY <1>3, <2>1, <2>7, <2>8
  <2> HIDE DEF Goal, a
  <2> QED
    BY <2>9, Zenon
<1>16. ASSUME ~fresh, acc[x].window = w PROVE \E a, t : Goal(a, t)
  <2> DEFINE a == IncrementalSums(acc[x], more, record')
  <2>1. acc' = [acc EXCEPT ![x] = a] /\ exactAt' = exactAt
    BY <1>1, <1>16, Zenon DEF IncrementalScoreUpdate
  <2>2. Moved(a, acc[x], ids, more, record', now, w)
    BY <1>3, <1>5, <1>9, <1>13, <1>14, IncrementIsMove
  <2>3. ASSUME x \notin disturbed PROVE Tracks(a, exactAt[x], more, record', now)
    <3>1. \A f \in Kept(ids) : record[f] = record'[f]
      BY <1>5, <1>7
    <3>2. Tracks(acc[x], exactAt[x], ids, record', now)
      BY <1>5, <1>14, <2>3, <3>1, TracksTheSame
    <3> QED
      BY <1>3, <1>5, <1>9, <1>13, <1>14, <1>16, <3>2, MoveTracks
  <2>4. a \in SumsType
    BY <2>2 DEF Moved
  <2> QED
    BY <1>14, <2>1, <2>3, <2>4
<1>17. ASSUME ~fresh, acc[x].window # w PROVE \E a, t : Goal(a, t)
  <2> DEFINE a == FullSums(more, record')
  <2>1. RecomputeScore(x, q, more, record')
    BY <1>1, <1>17, Zenon DEF IncrementalScoreUpdate
  <2>2. acc' = [acc EXCEPT ![x] = a] /\ exactAt' = [exactAt EXCEPT ![x] = now]
    BY <2>1, Zenon DEF RecomputeScore
  <2>3. a \in SumsType /\ Tracks(a, now, more, record', now)
    BY <1>3, <1>6, <1>9, FullTracks
  <2>4. Goal(a, now)
    BY <1>3, <2>2, <2>3
  <2> HIDE DEF Goal, a
  <2> QED
    BY <2>4, Zenon
<1> HIDE DEF fresh, w
<1>18. PICK a, t : Goal(a, t)
  BY <1>15, <1>16, <1>17
<1>19. x \notin disturbed' => Tracks(a, t, history'[x], record', now)
  BY <1>10, <1>18
<1> HIDE DEF x
<1>20. a \in SumsType /\ t \in Nat /\ t <= now
       /\ acc' = [acc EXCEPT ![x] = a] /\ exactAt' = [exactAt EXCEPT ![x] = t]
  BY <1>18
<1> QED
  BY <1>2, <1>10, <1>11, <1>12, <1>19, <1>20, ScoreAccStep

(* The oldest records of a history go; those of its window stay. *)
LEMMA PruneAccStep ==
  ASSUME ReputationInv, AccInv, NEW x \in Entities, NEW n \in 1..MaxPrune,
         PruneEntityHistory(x, n)
  PROVE  AccInv'
<1> DEFINE ids == history[x]
           excess == Min({n, MaxPrune, Len(ids) - ScoreWindow})
           first == SubSeq(ids, 1, excess)
           rest == SubSeq(ids, excess + 1, Len(ids))
<1>1. /\ Len(ids) > ScoreWindow
      /\ record' = [e \in Escrows |-> IF Contains(first, e) THEN NoRecord ELSE record[e]]
      /\ history' = [history EXCEPT ![x] = rest]
      /\ UNCHANGED <<now, config, acc, exactAt, disturbed>>
  BY DEF PruneEntityHistory, scoreVars
<1>2. ids \in Seq(Escrows) /\ IsInjective(ids) /\ Kept(ids) \subseteq Held(x) /\ Range(ids) = Held(x)
  BY HeldAreWeighable DEF Held
<1>3. excess \in 0..(Len(ids) - ScoreWindow) /\ excess \in 0..Len(ids)
  <2>1. /\ ScoreWindow \in Nat /\ MaxPrune \in Nat \ {0} /\ Len(ids) \in Nat
        /\ n \in Nat /\ n > 0
    BY <1>2, SeqIsFinite, ReputationAssumption
  <2> DEFINE k == Len(ids) - ScoreWindow
  <2>2. k \in Int /\ k > 0 /\ k <= Len(ids)
    BY <1>1, <2>1
  <2> HIDE DEF k
  <2>3. Min({n, MaxPrune, k}) \in {n, MaxPrune, k} /\ Min({n, MaxPrune, k}) <= k
    BY <2>1, <2>2, LeastOfThree
  <2> DEFINE m == Min({n, MaxPrune, k})
  <2>4. m \in 0..k /\ m \in 0..Len(ids)
    <3> HIDE DEF m, ids
    <3>1. m \in {n, MaxPrune, k} /\ m <= k
      BY <2>3 DEF m
    <3> QED
      BY <2>1, <2>2, <3>1
  <2>5. excess = m
    BY DEF k
  <2> HIDE DEF m, excess
  <2> QED
    BY <2>4, <2>5 DEF k
<1> HIDE DEF excess, ids
<1>4. /\ first \in Seq(Escrows) /\ Range(first) \subseteq Range(ids)
      /\ rest \in Seq(Escrows) /\ IsInjective(rest) /\ Range(rest) = Range(ids) \ Range(first)
  BY <1>2, <1>3, PrunedLists
<1>5. Kept(rest) = Kept(ids) /\ Kept(rest) \subseteq Range(rest)
  <2>1. Kept(rest) = Kept(ids)
    BY <1>1, <1>2, <1>3, KeptPruned
  <2> HIDE DEF rest
  <2> QED
    BY <1>4, <2>1, KeptAre
<1> HIDE DEF first, rest
<1>6. /\ history'[x] = rest /\ \A y \in Entities \ {x} : history'[y] = history[y]
  BY <1>1 DEF ReputationInv, HistoriesFit
<1>7. \A e \in Escrows : record'[e] = IF e \in Range(first) THEN NoRecord ELSE record[e]
  BY <1>1, <1>4, ContainsIsRange
<1>8. ASSUME NEW y \in Entities
      PROVE  /\ Kept(history'[y]) = Kept(history[y])
             /\ \A e \in Kept(history[y]) : record[e] = record'[e]
  <2>1. Kept(history[y]) \subseteq Held(y) /\ \A e \in Held(y) : e \in Escrows
    BY HeldAreWeighable
  <2>2. CASE y = x
    BY <1>4, <1>5, <1>6, <1>7, <2>1, <2>2 DEF ids
  <2>3. CASE y # x
    <3>1. Held(y) \cap Held(x) = {}
      BY <2>3 DEF ReputationInv, HistoriesFit
    <3> QED
      BY <1>2, <1>4, <1>6, <1>7, <2>1, <2>3, <3>1
  <2> QED
    BY <2>2, <2>3
<1>9. ASSUME NEW y \in Entities \ disturbed'
      PROVE  Tracks(acc'[y], exactAt'[y], history'[y], record', now)
  <2>1. Tracks(acc[y], exactAt[y], history[y], record, now)
    BY <1>1 DEF AccInv
  <2>2. history[y] \in Seq(Escrows) /\ IsInjective(history[y])
    BY HeldAreWeighable
  <2>3. Tracks(acc[y], exactAt[y], history[y], record', now)
    BY <1>8, <2>1, <2>2, TracksTheSame
  <2>4. \A f : KeptSum(f, history'[y], record', now, acc[y].window) =
                 KeptSum(f, history[y], record', now, acc[y].window)
    BY <1>8 DEF KeptSum
  <2>5. Tracks(acc[y], exactAt[y], history'[y], record', now)
    BY <2>3, <2>4 DEF Tracks
  <2> QED
    BY <1>1, <2>5
<1>10. \A e \in Escrows : record'[e] # NoRecord => Weighable(record'[e], now)
  BY <1>7 DEF AccInv, OnFile
<1>11. /\ config' \in Configs /\ acc' \in [Entities -> SumsType]
       /\ exactAt' \in [Entities -> Nat] /\ \A y \in Entities : exactAt'[y] <= now
  BY <1>1 DEF AccInv
<1> QED
  BY <1>1, <1>9, <1>10, <1>11 DEF AccInv, OnFile

(* As time passes, the records only lose weight. *)
LEMMA TickAccStep ==
  ASSUME ReputationInv, AccInv, Tick
  PROVE  AccInv'
<1>1. /\ now' = now + 1 /\ now \in Nat
      /\ UNCHANGED <<config, record, history, acc, exactAt, disturbed>>
  BY DEF Tick, scoreVars, traceVars, ReputationInv, RecordsFit
<1>2. ASSUME NEW x \in Entities, x \notin disturbed
      PROVE  Tracks(acc[x], exactAt[x], history[x], record, now + 1)
  <2>1. /\ Tracks(acc[x], exactAt[x], history[x], record, now) /\ acc[x] \in SumsType
        /\ exactAt[x] \in Nat /\ exactAt[x] <= now
    BY <1>2 DEF AccInv
  <2>2. /\ history[x] \in Seq(Escrows) /\ IsInjective(history[x])
        /\ AllWeighable(history[x], record, now)
    BY HeldAreWeighable
  <2> DEFINE w == acc[x].window
             new(f) == KeptSum(f, history[x], record, now + 1, w)
             old(f) == KeptSum(f, history[x], record, now, w)
  <2>3. CASE w > 0
    <3>1. w \in Nat \ {0}
      BY <2>1, <2>3 DEF SumsType
    <3> HIDE DEF w
    <3>2. \A f \in Parts : new(f) \in Nat /\ old(f) \in Nat /\ new(f) <= old(f)
      BY <1>1, <2>2, <3>1, KeptSumFalls
    <3>3. \A f \in Parts : acc[x][f] >= old(f) /\ acc[x][f] \in Int
      BY <2>1, <2>3 DEF Tracks, SumsType, Parts, w
    <3>4. exactAt[x] # now + 1
      BY <1>1, <2>1
    <3> HIDE DEF old, new
    <3>5. \A f \in Parts : acc[x][f] >= new(f)
      BY <3>2, <3>3
    <3> QED
      BY <3>4, <3>5 DEF Tracks, new, w
  <2>4. CASE ~(w > 0)
    BY <2>4 DEF Tracks
  <2> QED
    BY <2>3, <2>4
<1>3. \A e \in Escrows : OnFile(e) => Weighable(record[e], now + 1)
  <2> SUFFICES ASSUME NEW e \in Escrows, OnFile(e) PROVE Weighable(record[e], now + 1)
    OBVIOUS
  <2>1. Weighable(record[e], now)
    BY DEF AccInv
  <2>2. record[e].at \in Nat
    BY <1>1, <2>1, WeighableType
  <2> QED
    BY <1>1, <2>1, <2>2 DEF Weighable
<1>4. /\ config \in Configs /\ acc \in [Entities -> SumsType] /\ exactAt \in [Entities -> Nat]
      /\ \A x \in Entities : exactAt[x] <= now + 1
  BY <1>1 DEF AccInv
<1> QED
  BY <1>1, <1>2, <1>3, <1>4 DEF AccInv, OnFile

-----------------------------------------------------------------------------
(* The accumulator. *)

LEMMA AccInvInit == ReputationInit => AccInv
<1> SUFFICES ASSUME ReputationInit PROVE AccInv
  OBVIOUS
<1>1. NoAccumulator \in SumsType /\ NoAccumulator.window = 0
  BY DEF NoAccumulator, Sums, SumsType
<1>2. \A x \in Entities : acc[x] = NoAccumulator
  BY DEF ReputationInit
<1>3. \A x \in Entities : Tracks(acc[x], exactAt[x], history[x], record, now)
  BY <1>1, <1>2 DEF Tracks
<1> QED
  BY <1>1, <1>3 DEF ReputationInit, AccInv, OnFile

LEMMA AccInvStep ==
  ReputationInv /\ AccInv /\ [ReputationNext]_reputationVars => AccInv'
<1> SUFFICES ASSUME ReputationInv, AccInv, [ReputationNext]_reputationVars PROVE AccInv'
  OBVIOUS
<1>0. now \in Nat /\ now <= now /\ record \in [Escrows -> RecordType]
  BY DEF ReputationInv, RecordsFit
<1>1. ASSUME NEW d \in Deals, NEW o \in Outcomes, RecordTransaction(d, o) PROVE AccInv'
  <2> DEFINE r == [entity |-> d.entity, counterparty |-> d.counterparty,
                   outcome |-> o, rating |-> NoRating, at |-> now]
  <2>1. ~OnFile(d.id) /\ AddRecord(d.id, r) /\ UNCHANGED <<now, config, disturbed>>
    BY <1>1 DEF RecordTransaction
  <2>2. d.id \in Escrows /\ Weighable(r, now) /\ r.entity \in Entities
    BY <1>0, DealTypes DEF RecordType, Weighable
  <2> HIDE DEF r
  <2> QED
    BY <2>1, <2>2, AddAccStep
<1>2. ASSUME NEW d \in Deals, NEW o \in Outcomes, UpdateTransaction(d, o) PROVE AccInv'
  <2> DEFINE r == [record[d.id] EXCEPT !.counterparty = d.counterparty, !.outcome = o, !.at = now]
             q == Recounted(rep[d.entity], record[d.id].outcome, o)
  <2>1. /\ OnFile(d.id) /\ record[d.id].entity = d.entity
        /\ record' = [record EXCEPT ![d.id] = r]
        /\ UNCHANGED <<now, config, history, disturbed>>
    BY <1>2 DEF UpdateTransaction
  <2>2. RecomputeScore(d.entity, q, history[d.entity], record')
    BY <1>2, <2>1, Zenon DEF UpdateTransaction
  <2>3. d.id \in Escrows /\ d.entity \in Entities /\ Weighable(r, now)
    BY <1>0, DealTypes DEF RecordType, Weighable
  <2> HIDE DEF r, q
  <2> QED
    BY <2>1, <2>2, <2>3, OverwriteAccStep
<1>3. ASSUME NEW e \in Escrows, NEW s \in Ratings, RateEntity(e, s) PROVE AccInv'
  <2> DEFINE x == record[e].entity
             r == [record[e] EXCEPT !.rating = s]
  <2>1. /\ OnFile(e) /\ x \in Entities
        /\ record' = [record EXCEPT ![e] = r]
        /\ UNCHANGED <<now, config, history, disturbed>>
    BY <1>0, <1>3 DEF RateEntity, ReputationInv, RecordsFit
  <2>2. RecomputeScore(x, rep[x], history[x], record')
    BY <1>3, Zenon DEF RateEntity
  <2>3. Weighable(r, now)
    <3>1. Weighable(record[e], now)
      BY <2>1 DEF AccInv
    <3> QED
      BY <3>1 DEF Weighable, RecordType
  <2> HIDE DEF r
  <2> QED
    BY <2>1, <2>2, <2>3, OverwriteAccStep
<1>4. ASSUME NEW e \in Escrows, NEW s \in Ratings, NEW rater \in Entities, NEW x \in Entities,
             ReviewTransaction(e, rater, x, s)
      PROVE  AccInv'
  <2>1. /\ ~OnFile(e) /\ AddRecord(e, Reviewed(rater, x, s))
        /\ UNCHANGED <<now, config, disturbed>>
    BY <1>4 DEF ReviewTransaction
  <2>2. Weighable(Reviewed(rater, x, s), now) /\ Reviewed(rater, x, s).entity \in Entities
    BY <1>0, ReviewedType DEF Weighable, Reviewed, TransactionOutcome
  <2> QED
    BY <2>1, <2>2, AddAccStep
<1>5. ASSUME NEW e \in Escrows, NEW s \in Ratings, NEW rater \in Entities, NEW x \in Entities,
             ReviewOnFile(e, rater, x, s)
      PROVE  AccInv'
  <2> DEFINE r == Reviewed(rater, x, s)
  <2>1. /\ OnFile(e) /\ record' = [record EXCEPT ![e] = r]
        /\ UNCHANGED <<now, config, history>>
    BY <1>5 DEF ReviewOnFile
  <2>2. RecomputeScore(x, rep[x], history[x], record')
    BY <1>5, Zenon DEF ReviewOnFile
  <2>3. /\ disturbed \subseteq disturbed'
        /\ record[e].entity # x => record[e].entity \in disturbed'
    BY <1>5 DEF ReviewOnFile
  <2>4. Weighable(r, now)
    BY <1>0, ReviewedType DEF Weighable, Reviewed, TransactionOutcome
  <2> HIDE DEF r
  <2> QED
    BY <2>1, <2>2, <2>3, <2>4, OverwriteAccStep
<1>6. ASSUME NEW x \in Entities, NEW n \in 1..MaxPrune, PruneEntityHistory(x, n) PROVE AccInv'
  BY <1>6, PruneAccStep
<1>7. CASE Tick
  BY <1>7, TickAccStep
<1>8. ASSUME config' \in Configs, UNCHANGED <<now, record, history, acc, exactAt, disturbed>>
      PROVE  AccInv'
  BY <1>8 DEF AccInv, OnFile
<1>9. \/ \E x \in Entities, r \in Reporters : FlagEntity(r, x) \/ ResolveFlag(r, x)
      \/ \E x \in Entities : FreezeEntity(x) \/ UnfreezeEntity(x)
      \/ \E c \in Configs : UpdateConfig(c)
      \/ UNCHANGED reputationVars
      => config' \in Configs /\ UNCHANGED <<now, record, history, acc, exactAt, disturbed>>
  BY DEF FlagEntity, ResolveFlag, FreezeEntity, UnfreezeEntity, UpdateConfig, AccInv,
         reputationVars, traceVars, scoreVars
<1> QED
  BY <1>1, <1>2, <1>3, <1>4, <1>5, <1>6, <1>7, <1>8, <1>9 DEF ReputationNext

LEMMA TrackedSums == ReputationInv /\ AccInv => AccumulatorTracksRecords
<1> SUFFICES ASSUME ReputationInv, AccInv, NEW x \in Entities \ disturbed,
                    acc[x].window = config.window
             PROVE  LET full == FullSums(history[x], record)
                    IN  /\ exactAt[x] = now => acc[x] = full
                        /\ acc[x].value >= full.value /\ acc[x].weight >= full.weight
                        /\ acc[x].ratingValue >= full.ratingValue
                        /\ acc[x].ratingWeight >= full.ratingWeight
                        /\ acc[x].disputed >= full.disputed
  BY Zenon DEF AccumulatorTracksRecords
<1> DEFINE full == FullSums(history[x], record)
<1>1. now \in Nat /\ config.window \in Nat \ {0}
  BY WindowIsPositive DEF ReputationInv, RecordsFit, AccInv
<1>2. /\ history[x] \in Seq(Escrows) /\ IsInjective(history[x])
      /\ AllWeighable(history[x], record, now)
  BY HeldAreWeighable
<1>3. /\ full \in SumsType /\ full.window = config.window
      /\ \A f \in Parts : full[f] = KeptSum(f, history[x], record, now, config.window)
  BY <1>1, <1>2, FullIsSum
<1>4. acc[x] \in SumsType /\ Tracks(acc[x], exactAt[x], history[x], record, now)
  BY DEF AccInv
<1> HIDE DEF full
<1>5. \A f \in Parts : acc[x][f] >= full[f] /\ (exactAt[x] = now => acc[x][f] = full[f])
  BY <1>1, <1>3, <1>4 DEF Tracks
<1>6. exactAt[x] = now => acc[x] = full
  BY <1>3, <1>4, <1>5, SameSums
<1> QED
  BY <1>5, <1>6 DEF Parts, full

(* Deriving the score from the accumulator, as adding a record does, comes *)
(* to the same as recomputing it from the records of the window for as     *)
(* long as no time passes, and afterwards never counts less than they do,  *)
(* in whatever order records are added, rated, relayed again, reviewed,    *)
(* pushed out of the window and pruned, and configurations exchanged.      *)
THEOREM AccumulatorTracks == ReputationSpec => []AccumulatorTracksRecords
<1> QED
  BY ReputationInvariant, AccInvInit, AccInvStep, TrackedSums, PTL DEF ReputationSpec

=============================================================================
