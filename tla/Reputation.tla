---------------------------- MODULE Reputation ----------------------------
(***************************************************************************)
(* The reputation contract (reputation/src/lib.rs): the admin relays how   *)
(* escrows ended, counterparties rate each other, and every entity has     *)
(* lifetime counts and a score that weighs its recent records by age.  The *)
(* score is either recomputed from the records, or, when a record is added *)
(* at the end of the history, derived from an accumulator of the sums.     *)
(*                                                                         *)
(* Left out: amounts (no score depends on them), who the admin is, and the *)
(* read-only views, which prolong storage and change nothing else.  Every  *)
(* record of a history is on file: a call that needs an archived entry     *)
(* fails before it starts.                                                 *)
(***************************************************************************)
EXTENDS Integers, FiniteSets, SequencesExt

CONSTANTS
  Entities,     \* addresses that trade and rate
  Admin,        \* the admin, as a reporter of flags
  Deals,        \* what the admin relays: [id, entity, counterparty]
  Outcomes,     \* the outcomes it reports
  Settled,      \* [id, parties]: escrows the contracts named in proofs report Released
  Ratings,      \* ratings given, in basis points
  Configs,      \* configurations: [window, penalty, freeze]
  Reporters,    \* addresses that raise flags
  ScoreWindow,  \* SCORE_WINDOW
  MaxHalvings,  \* MAX_HALVINGS
  MaxPrune,     \* the cap on max_records_to_prune
  MaxGone,      \* bound: records pruned, per entity
  MaxTime       \* bound on the clock

Scale == 10000  \* BPS_SCALE
Escrows == {d.id : d \in Deals} \cup {s.id : s \in Settled}
TransactionOutcome == {"Released", "Refunded", "Disputed", "ResolvedSeller", "ResolvedBuyer"}
NoOne == "none"
NoRating == -1

ASSUME ReputationAssumption ==
  /\ NoOne \notin Entities \cup {Admin}
  /\ \A d \in Deals : {d.entity, d.counterparty} \subseteq Entities
  /\ \A s \in Settled : s.parties \subseteq Entities /\ Cardinality(s.parties) = 2
  /\ Outcomes \subseteq TransactionOutcome
  /\ Ratings \subseteq 0..Scale
  /\ \A c \in Configs : /\ c.window \in Nat \ {0} /\ c.freeze \in Nat \ {0}
                        /\ c.penalty \in 0..Scale
  /\ Reporters \subseteq Entities \cup {Admin}
  /\ {ScoreWindow, MaxPrune} \subseteq Nat \ {0}
  /\ {MaxHalvings, MaxGone, MaxTime} \subseteq Nat

VARIABLES
  now,         \* ledger timestamp
  config,      \* ReputationConfig
  record,      \* TransactionRecord of each escrow
  history,     \* TransactionHistory: the escrows of each entity, oldest first
  rep,         \* ReputationScore of each entity
  acc,         \* ScoreAccumulator of each entity
  merchants,   \* MerchantEntity: entities in the order of their merchant_id
  transacted,  \* Transacted: pairs that traded, as sets of two
  rated,       \* RatedEscrows: <<rater, escrow>>
  reviewed,    \* VerifiedEscrowReview
  renamed,     \* ghost: rated escrows a relay gave another counterparty
  flagged,     \* Flags: who has an unresolved flag against each entity
  frozen,      \* FrozenStatus
  gone,        \* ghost: what the pruned records of each entity counted for
  exactAt,     \* ghost: when the accumulator last was the sum of the records
  disturbed    \* ghost: entities whose records a review has overwritten

scoreVars == <<rep, acc, exactAt>>
traceVars == <<record, history, merchants, transacted, gone, disturbed>>
ratingVars == <<rated, reviewed, renamed>>
flagVars == <<flagged, frozen>>
reputationVars == <<now, config, scoreVars, traceVars, ratingVars, flagVars>>

NoRecord == [entity |-> NoOne, counterparty |-> NoOne, outcome |-> "None",
             rating |-> NoRating, at |-> 0]
NoReputation == [total |-> 0, successful |-> 0, disputed |-> 0,
                 score |-> 0, rating |-> 0, updated |-> 0]
Sums(window) == [window |-> window, value |-> 0, weight |-> 0,
                 ratingValue |-> 0, ratingWeight |-> 0, disputed |-> 0]
NoAccumulator == Sums(0)

-----------------------------------------------------------------------------
(***************************************************************************)
(* The score.                                                              *)
(***************************************************************************)
OutcomeValue(outcome) ==
  CASE outcome = "Released" -> 10000
    [] outcome = "ResolvedSeller" -> 8000
    [] outcome \in {"Refunded", "ResolvedBuyer"} -> 2000
    [] outcome = "Disputed" -> 0

Successful(outcome) == outcome \in {"Released", "ResolvedSeller"}

(* A weight halves with every window that passes, linearly in between.     *)
Weight(at) ==
  LET elapsed == now - at
      halvings == elapsed \div config.window
      base == Scale \div 2 ^ halvings
  IN  IF halvings >= MaxHalvings THEN 0
      ELSE base - (base * (elapsed % config.window)) \div (2 * config.window)

(* The sums with the contribution a record has now, added (sign 1) or      *)
(* taken away (sign -1).                                                   *)
Shift(a, r, sign) ==
  LET weight == sign * Weight(r.at)
  IN  [a EXCEPT !.value = @ + weight * OutcomeValue(r.outcome),
                !.weight = @ + weight,
                !.disputed = @ + IF r.outcome = "Disputed" /\ weight # 0 THEN sign ELSE 0,
                !.ratingValue = @ + IF r.rating = NoRating THEN 0 ELSE weight * r.rating,
                !.ratingWeight = @ + IF r.rating = NoRating THEN 0 ELSE weight]

Clamp(n) == IF n < 0 THEN 0 ELSE IF n > Scale THEN Scale ELSE n

Scored(r, a) ==
  LET base == IF a.weight > 0 THEN a.value \div a.weight ELSE 0
  IN  [r EXCEPT
         !.score = Clamp(base - a.disputed * config.penalty),
         !.rating = IF a.ratingWeight > 0 THEN Clamp(a.ratingValue \div a.ratingWeight) ELSE 0,
         !.updated = now]

(* The sums over the records a history ends with, as they weigh now.       *)
FullSums(ids, records) ==
  FoldLeft(LAMBDA a, e : Shift(a, records[e], 1), Sums(config.window),
           SubSeq(ids, IF Len(ids) > ScoreWindow THEN Len(ids) - ScoreWindow + 1 ELSE 1, Len(ids)))

(* x has the counts of r, the records are as given, and the score follows. *)
RecomputeScore(x, r, ids, records) ==
  LET a == FullSums(ids, records)
  IN  /\ rep' = [rep EXCEPT ![x] = Scored(r, a)]
      /\ acc' = [acc EXCEPT ![x] = a]
      /\ exactAt' = [exactAt EXCEPT ![x] = now]

(* Mutant: the record after the one that leaves the window is evicted. *)
EvictOneTooFar(a, ids, records) ==
  LET added == Shift(a, records[ids[Len(ids)]], 1)
  IN  IF Len(ids) > ScoreWindow
      THEN Shift(added, records[ids[Len(ids) - ScoreWindow + 1]], -1)
      ELSE added

(* The last of ids has just been added: its record comes into the sums,    *)
(* and the one it pushes out of the window leaves them.                    *)
IncrementalSums(a, ids, records) ==
  LET added == Shift(a, records[ids[Len(ids)]], 1)
  IN  IF Len(ids) > ScoreWindow
      THEN Shift(added, records[ids[Len(ids) - ScoreWindow]], -1)
      ELSE added

IncrementalScoreUpdate(x, r, ids, records) ==
  LET fresh == acc[x] = NoAccumulator /\ Len(ids) = 1
      a == IncrementalSums(IF fresh THEN Sums(config.window) ELSE acc[x], ids, records)
  IN  IF fresh \/ acc[x].window = config.window
      THEN /\ rep' = [rep EXCEPT ![x] = Scored(r, a)]
           /\ acc' = [acc EXCEPT ![x] = a]
           /\ exactAt' = IF fresh THEN [exactAt EXCEPT ![x] = now] ELSE exactAt
      ELSE RecomputeScore(x, r, ids, records)

-----------------------------------------------------------------------------
(***************************************************************************)
(* Counts.                                                                 *)
(***************************************************************************)
One(holds) == IF holds THEN 1 ELSE 0
Less(n) == IF n = 0 THEN 0 ELSE n - 1

(* apply_new_transaction_counts *)
Counted(r, outcome) ==
  [r EXCEPT !.total = @ + 1,
            !.successful = @ + One(Successful(outcome)),
            !.disputed = @ + One(outcome = "Disputed")]

(* Mutant: the prior outcome is not taken back. *)
RecountedUpOnly(r, prior, outcome) ==
  [r EXCEPT !.successful = @ + One(Successful(outcome)),
            !.disputed = @ + One(outcome = "Disputed")]

(* apply_outcome_change_counts *)
Recounted(r, prior, outcome) ==
  LET successful == IF Successful(prior) THEN Less(r.successful) ELSE r.successful
      disputed == IF prior = "Disputed" THEN Less(r.disputed) ELSE r.disputed
  IN  [r EXCEPT !.successful = successful + One(Successful(outcome)),
                !.disputed = disputed + One(outcome = "Disputed")]

-----------------------------------------------------------------------------
(***************************************************************************)
(* Recording.                                                              *)
(***************************************************************************)
OnFile(e) == record[e] # NoRecord

ReputationInit ==
  /\ now = 0 /\ config \in Configs
  /\ record = [e \in Escrows |-> NoRecord]
  /\ history = [x \in Entities |-> <<>>]
  /\ rep = [x \in Entities |-> NoReputation]
  /\ acc = [x \in Entities |-> NoAccumulator]
  /\ merchants = <<>> /\ transacted = {} /\ rated = {} /\ reviewed = {} /\ renamed = {}
  /\ flagged = [x \in Entities |-> {}] /\ frozen = {}
  /\ gone = [x \in Entities |-> NoReputation]
  /\ exactAt = [x \in Entities |-> 0]
  /\ disturbed = {}

(* A record that was not on file: it ends the history of its entity.       *)
AddRecord(e, r) ==
  LET x == r.entity
      ids == Append(history[x], e)
      records == [record EXCEPT ![e] = r]
  IN  /\ record' = records
      /\ history' = [history EXCEPT ![x] = ids]
      /\ transacted' = transacted \cup {{x, r.counterparty}}
      /\ merchants' = IF Contains(merchants, x) THEN merchants ELSE Append(merchants, x)
      /\ IncrementalScoreUpdate(x, Counted(rep[x], r.outcome), ids, records)

(* record_transaction for an escrow that is not on file. *)
RecordTransaction(d, outcome) ==
  /\ ~OnFile(d.id) /\ d.entity \notin frozen
  /\ AddRecord(d.id, [entity |-> d.entity, counterparty |-> d.counterparty,
                      outcome |-> outcome, rating |-> NoRating, at |-> now])
  /\ UNCHANGED <<now, config, ratingVars, flagVars, gone, disturbed>>

(* record_transaction for one that is: frozen or not, in place. *)
UpdateTransaction(d, outcome) ==
  LET x == d.entity
      prior == record[d.id]
      records == [record EXCEPT ![d.id] =
                    [prior EXCEPT !.counterparty = d.counterparty,
                                  !.outcome = outcome, !.at = now]]
  IN  /\ OnFile(d.id) /\ prior.entity = x
      /\ record' = records
      /\ RecomputeScore(x, Recounted(rep[x], prior.outcome, outcome), history[x], records)
      /\ renamed' = renamed \cup
           IF prior.rating # NoRating /\ d.counterparty # prior.counterparty THEN {d.id} ELSE {}
      /\ UNCHANGED <<now, config, history, merchants, transacted, rated, reviewed, flagVars,
                     gone, disturbed>>

(* Mutant: an escrow that was rated is rated again. *)
RateAgain(e, rating) ==
  LET x == record[e].entity
      rater == record[e].counterparty
      records == [record EXCEPT ![e].rating = rating]
  IN  /\ OnFile(e) /\ x \notin frozen
      /\ record[e].outcome # "Disputed"
      /\ rated' = rated \cup {<<rater, e>>}
      /\ record' = records
      /\ RecomputeScore(x, rep[x], history[x], records)
      /\ UNCHANGED <<now, config, history, merchants, transacted, reviewed, renamed, flagVars,
                     gone, disturbed>>

(* rate_entity: the counterparty on file rates what is not in dispute. *)
RateEntity(e, rating) ==
  LET x == record[e].entity
      rater == record[e].counterparty
      records == [record EXCEPT ![e].rating = rating]
  IN  /\ OnFile(e) /\ x \notin frozen
      /\ record[e].outcome # "Disputed"
      /\ <<rater, e>> \notin rated
      /\ rated' = rated \cup {<<rater, e>>}
      /\ record' = records
      /\ RecomputeScore(x, rep[x], history[x], records)
      /\ UNCHANGED <<now, config, history, merchants, transacted, reviewed, renamed, flagVars,
                     gone, disturbed>>

(* submit_verified_review: one party of an escrow the escrow contract      *)
(* reports as Released rates the other one.                                *)
Reviewable(e, rater, x) ==
  /\ rater # x /\ x \notin frozen
  /\ e \notin reviewed
  /\ \E s \in Settled : s.id = e /\ s.parties = {rater, x}

Reviewed(rater, x, rating) ==
  [entity |-> x, counterparty |-> rater, outcome |-> "Released", rating |-> rating, at |-> now]

ReviewTransaction(e, rater, x, rating) ==
  /\ Reviewable(e, rater, x) /\ ~OnFile(e)
  /\ reviewed' = reviewed \cup {e}
  /\ rated' = rated \cup {<<rater, e>>}
  /\ AddRecord(e, Reviewed(rater, x, rating))
  /\ UNCHANGED <<now, config, renamed, flagVars, gone, disturbed>>

(* The record on file, whoever it is about and however it ended, gives way *)
(* to that of the review; the counts and the history stay as they were.    *)
ReviewOnFile(e, rater, x, rating) ==
  LET prior == record[e]
      records == [record EXCEPT ![e] = Reviewed(rater, x, rating)]
  IN  /\ Reviewable(e, rater, x) /\ OnFile(e)
      /\ prior.rating = NoRating
      /\ reviewed' = reviewed \cup {e}
      /\ rated' = rated \cup {<<rater, e>>}
      /\ record' = records
      /\ RecomputeScore(x, rep[x], history[x], records)
      /\ disturbed' = disturbed \cup
           IF prior.entity # x THEN {prior.entity, x}
           ELSE IF Successful(prior.outcome) THEN {} ELSE {x}
      /\ UNCHANGED <<now, config, history, merchants, transacted, renamed, flagVars, gone>>

-----------------------------------------------------------------------------
(***************************************************************************)
(* Flags, and what the admin does.                                         *)
(***************************************************************************)
FlagEntity(reporter, x) ==
  /\ reporter = Admin \/ {reporter, x} \in transacted
  /\ reporter \notin flagged[x]
  /\ flagged' = [flagged EXCEPT ![x] = @ \cup {reporter}]
  /\ frozen' = IF Cardinality(flagged[x]) + 1 >= config.freeze THEN frozen \cup {x} ELSE frozen
  /\ UNCHANGED <<now, config, scoreVars, traceVars, ratingVars>>

ResolveFlag(reporter, x) ==
  /\ reporter \in flagged[x]
  /\ flagged' = [flagged EXCEPT ![x] = @ \ {reporter}]
  /\ UNCHANGED <<now, config, scoreVars, traceVars, ratingVars, frozen>>

FreezeEntity(x) ==
  /\ frozen' = frozen \cup {x}
  /\ UNCHANGED <<now, config, scoreVars, traceVars, ratingVars, flagged>>

UnfreezeEntity(x) ==
  /\ frozen' = frozen \ {x}
  /\ UNCHANGED <<now, config, scoreVars, traceVars, ratingVars, flagged>>

(* What a record counts for when it goes. *)
PrunedCounts(counts, ids) ==
  FoldLeft(LAMBDA r, e : Counted(r, record[e].outcome), counts, ids)

(* The oldest records outside the window go, n of them at most. *)
PruneEntityHistory(x, n) ==
  LET excess == Min({n, MaxPrune, Len(history[x]) - ScoreWindow})
      pruned == SubSeq(history[x], 1, excess)
  IN  /\ Len(history[x]) > ScoreWindow
      /\ gone[x].total + excess <= MaxGone
      /\ record' = [e \in Escrows |-> IF Contains(pruned, e) THEN NoRecord ELSE record[e]]
      /\ history' = [history EXCEPT ![x] = SubSeq(@, excess + 1, Len(@))]
      /\ gone' = [gone EXCEPT ![x] = PrunedCounts(@, pruned)]
      /\ renamed' = renamed \ {e \in Escrows : Contains(pruned, e)}
      /\ UNCHANGED <<now, config, scoreVars, merchants, transacted, rated, reviewed, flagVars,
                     disturbed>>

UpdateConfig(c) ==
  /\ config' = c
  /\ UNCHANGED <<now, scoreVars, traceVars, ratingVars, flagVars>>

Tick ==
  /\ now < MaxTime
  /\ now' = now + 1
  /\ UNCHANGED <<config, scoreVars, traceVars, ratingVars, flagVars>>

ReputationNext ==
  \/ \E d \in Deals, o \in Outcomes : RecordTransaction(d, o) \/ UpdateTransaction(d, o)
  \/ \E e \in Escrows, s \in Ratings :
       \/ RateEntity(e, s)
       \/ \E rater, x \in Entities : ReviewTransaction(e, rater, x, s) \/ ReviewOnFile(e, rater, x, s)
  \/ \E x \in Entities :
       \/ \E r \in Reporters : FlagEntity(r, x) \/ ResolveFlag(r, x)
       \/ FreezeEntity(x) \/ UnfreezeEntity(x)
       \/ \E n \in 1..MaxPrune : PruneEntityHistory(x, n)
  \/ \E c \in Configs : UpdateConfig(c)
  \/ Tick

ReputationSpec == ReputationInit /\ [][ReputationNext]_reputationVars

-----------------------------------------------------------------------------
(***************************************************************************)
(* Properties.                                                             *)
(***************************************************************************)

(* The counters, which every call adjusts by itself, are those of the      *)
(* records on file and of those that were pruned, and the entities that    *)
(* have any are the ranked ones.  Except where a review has overwritten a  *)
(* record that was about the other party, or had another outcome.          *)
LifetimeCountsAreExact ==
  \A x \in Entities \ disturbed :
    LET counts == PrunedCounts(gone[x], history[x])
    IN  /\ rep[x].total = counts.total
        /\ rep[x].successful = counts.successful
        /\ rep[x].disputed = counts.disputed
        /\ Cardinality({i \in DOMAIN merchants : merchants[i] = x}) = One(counts.total > 0)

(* As long as no time has passed since the sums were made from the         *)
(* records, the incremental update yields what a recomputation would,      *)
(* whatever was added, rated, pruned or pushed out of the window.  As time *)
(* passes the sums keep weights the records no longer have, but they never *)
(* miss a rating, an outcome or a dispute of a record in the window.       *)
AccumulatorTracksRecords ==
  \A x \in Entities \ disturbed :
    acc[x].window = config.window =>
      LET full == FullSums(history[x], record)
      IN  /\ exactAt[x] = now => acc[x] = full
          /\ acc[x].value >= full.value /\ acc[x].weight >= full.weight
          /\ acc[x].ratingValue >= full.ratingValue /\ acc[x].ratingWeight >= full.ratingWeight
          /\ acc[x].disputed >= full.disputed

(* Once rated, an escrow keeps who was rated, by whom and how, whoever     *)
(* rates or reviews it and however it is relayed afterwards, as long as    *)
(* its record is on file: an escrow is rated at most once                  *)
(* (reputation/src/lib.rs:812).  Except where a relay has named another    *)
(* counterparty for it than the one who had rated it.                      *)
Rated(e) == <<record[e].entity, record[e].counterparty, record[e].rating>>
RatingStands ==
  [][\A e \in Escrows \ renamed' :
       OnFile(e) /\ record[e].rating # NoRating /\ OnFile(e)' => Rated(e)' = Rated(e)]_reputationVars
=============================================================================
