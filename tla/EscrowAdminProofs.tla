------------------------- MODULE EscrowAdminProofs -------------------------
(***************************************************************************)
(* Proofs about the queue of AdminActions, for any rates, treasuries,      *)
(* tokens, guardians and delays, and from them about EscrowAdmin, for any  *)
(* finite set of users and any orders, destinations and thresholds.        *)
(***************************************************************************)
EXTENDS EscrowAdmin, FiniteSetTheorems, SequenceTheorems, TLAPS

-----------------------------------------------------------------------------
(* The queue. *)

Proposal == {NoProposal} \cup [action : AdminAction, unlock : Nat, vetoed : BOOLEAN]

QueueTypes ==
  /\ ledger \in Nat
  /\ lastId \in Nat
  /\ proposal \in [Ids -> Proposal]
  /\ current \in [AdminAction -> 0..MaxId]

(* Ids are handed out in order, once each. *)
IdsAreFresh == \A id \in Ids : Stored(id) => id <= lastId

(* The id kept for an action is that of a proposal of this very action, if *)
(* it is still stored, and no proposal was on view before it was queued.   *)
CurrentIsOwn ==
  \A a \in AdminAction : current[a] # 0 =>
    /\ current[a] <= lastId
    /\ Stored(current[a]) => proposal[current[a]].action = a

ViewsHaveBegun == \A id \in Ids : Stored(id) => proposal[id].unlock >= ReviewDelay

QueueInv == QueueTypes /\ IdsAreFresh /\ CurrentIsOwn /\ ViewsHaveBegun /\ LiveIsCurrent

LEMMA ActionConstants == ReviewDelay \in Nat /\ MaxId \in Nat /\ Ids \subseteq Nat \ {0}
  BY ActionAssumption DEF Ids

(* An action has a name, so that it is never the empty one of NoProposal.  *)
LEMMA ActionsAreNamed == \A a \in AdminAction : a # <<>>
  BY DEF AdminAction

LEMMA NewProposal ==
  ASSUME NEW a \in AdminAction, QueueTypes
  PROVE  LET p == [action |-> a, unlock |-> ledger + ReviewDelay, vetoed |-> FALSE]
         IN  p \in Proposal /\ p # NoProposal
<1>1. ledger + ReviewDelay \in Nat
  BY ActionConstants DEF QueueTypes
<1> QED
  BY <1>1, ActionsAreNamed DEF Proposal, NoProposal

LEMMA QueueStep ==
  ASSUME QueueInv, NEW a \in AdminAction, QueueAdminAction(a)
  PROVE  QueueInv'
<1> DEFINE n == lastId + 1
           p == [action |-> a, unlock |-> ledger + ReviewDelay, vetoed |-> FALSE]
<1>0. /\ QueueTypes /\ n \in Ids /\ lastId \in Nat /\ n \in Nat
      /\ ledger' = ledger /\ lastId' = n
  BY ActionConstants DEF QueueInv, QueueTypes, QueueAdminAction, Ids
<1>1. p \in Proposal /\ p # NoProposal
  BY <1>0, NewProposal
<1>2. /\ proposal' = [proposal EXCEPT ![n] = p]
      /\ current' = [current EXCEPT ![a] = n]
  BY DEF QueueAdminAction
<1> HIDE DEF p
<1>3. QueueTypes'
  BY <1>0, <1>1, <1>2 DEF QueueTypes, Ids
<1>4. ~Stored(n)
  BY <1>0 DEF QueueInv, IdsAreFresh
<1>5. \A id \in Ids : proposal'[id] = IF id = n THEN p ELSE proposal[id]
  BY <1>0, <1>2 DEF QueueTypes
<1>6. \A b \in AdminAction : current'[b] = IF b = a THEN n ELSE current[b]
  BY <1>0, <1>2 DEF QueueTypes
<1>7. IdsAreFresh'
  BY <1>0, <1>5, ActionConstants DEF QueueInv, IdsAreFresh, Stored
<1>8. \A b \in AdminAction : current[b] # 0 => current[b] \in Ids /\ current[b] # n
  BY <1>0 DEF QueueInv, QueueTypes, CurrentIsOwn, Ids
<1>9. p.action = a /\ p.unlock = ledger + ReviewDelay
  BY DEF p
<1>10. CurrentIsOwn'
  BY <1>0, <1>5, <1>6, <1>8, <1>9 DEF QueueInv, CurrentIsOwn, Stored, QueueTypes
<1>11. ViewsHaveBegun'
  <2>1. p.unlock >= ReviewDelay
    BY <1>0, <1>9, ActionConstants DEF QueueTypes
  <2>2. \A id \in Ids : Stored(id)' /\ id # n => Stored(id) /\ proposal'[id] = proposal[id]
    BY <1>5 DEF Stored
  <2> QED
    BY <1>5, <2>1, <2>2 DEF QueueInv, ViewsHaveBegun
<1>12. ASSUME NEW id \in Ids, Live(id)'
       PROVE  current'[proposal'[id].action] = id
  <2>1. CASE id = n
    BY <1>5, <1>6, <1>9, <2>1
  <2>2. CASE id # n
    <3>1. Live(id) /\ proposal'[id] = proposal[id]
      BY <1>5, <1>12, <2>2 DEF Live, Stored
    <3>2. current[proposal[id].action] = id /\ proposal[id].action \in AdminAction
      BY <3>1 DEF QueueInv, LiveIsCurrent, QueueTypes, Proposal, Live, Stored
    <3>3. proposal[id].action # a
      BY <3>1, <3>2, ActionConstants DEF QueueAdminAction
    <3> QED
      BY <1>6, <3>1, <3>2, <3>3
  <2> QED
    BY <2>1, <2>2
<1> QED
  BY <1>3, <1>7, <1>10, <1>11, <1>12 DEF QueueInv, LiveIsCurrent

LEMMA VetoStep ==
  ASSUME QueueInv, NEW id \in Ids, VetoAdminAction(id)
  PROVE  QueueInv'
<1>1. /\ proposal' = [proposal EXCEPT ![id].vetoed = TRUE]
      /\ UNCHANGED <<ledger, lastId, current>>
      /\ proposal[id] \in Proposal /\ Stored(id)
  BY DEF VetoAdminAction, QueueInv, QueueTypes
<1>2. /\ [proposal[id] EXCEPT !.vetoed = TRUE] \in Proposal
      /\ [proposal[id] EXCEPT !.vetoed = TRUE].action = proposal[id].action
      /\ [proposal[id] EXCEPT !.vetoed = TRUE].unlock = proposal[id].unlock
      /\ [proposal[id] EXCEPT !.vetoed = TRUE].vetoed
  BY <1>1 DEF Proposal, Stored
<1>3. \A j \in Ids : proposal'[j] = IF j = id THEN [proposal[id] EXCEPT !.vetoed = TRUE]
                                                ELSE proposal[j]
  BY <1>1 DEF QueueInv, QueueTypes
<1>4. QueueTypes'
  BY <1>1, <1>2 DEF QueueInv, QueueTypes
<1>5. \A j \in Ids : (Stored(j)' => Stored(j)) /\ (Live(j)' => Live(j) /\ j # id)
  BY <1>1, <1>2, <1>3 DEF Stored, Live
<1>6. \A j \in Ids : /\ proposal'[j].action = proposal[j].action
                     /\ proposal'[j].unlock = proposal[j].unlock
  BY <1>2, <1>3
<1>7. IdsAreFresh' /\ ViewsHaveBegun' /\ LiveIsCurrent'
  BY <1>1, <1>5, <1>6 DEF QueueInv, IdsAreFresh, ViewsHaveBegun, LiveIsCurrent
<1>8. \A b \in AdminAction : current[b] # 0 => current[b] \in Ids
  BY DEF QueueInv, QueueTypes, Ids
<1>9. CurrentIsOwn'
  BY <1>1, <1>5, <1>6, <1>8 DEF QueueInv, CurrentIsOwn
<1> QED
  BY <1>4, <1>7, <1>9 DEF QueueInv

LEMMA ConsumeStep ==
  ASSUME QueueInv, NEW a \in AdminAction, Consume(a), UNCHANGED ledger
  PROVE  QueueInv'
<1> DEFINE id == current[a]
<1>0. id \in Ids /\ Live(id) /\ QueueTypes /\ proposal[id].action = a
  BY DEF QueueInv, QueueTypes, CurrentIsOwn, Consume, Ids, Live
<1>1. /\ proposal' = [proposal EXCEPT ![id] = NoProposal]
      /\ current' = [current EXCEPT ![a] = 0]
      /\ UNCHANGED <<ledger, lastId>>
  BY DEF Consume
<1>2. \A j \in Ids : proposal'[j] = IF j = id THEN NoProposal ELSE proposal[j]
  BY <1>0, <1>1 DEF QueueTypes
<1>3. \A b \in AdminAction : current'[b] = IF b = a THEN 0 ELSE current[b]
  BY <1>0, <1>1 DEF QueueTypes
<1>4. QueueTypes'
  BY <1>0, <1>1, ActionConstants DEF QueueTypes, Proposal
<1>5. \A j \in Ids : Stored(j)' => Stored(j) /\ j # id /\ proposal'[j] = proposal[j]
  BY <1>2 DEF Stored
<1>6. IdsAreFresh' /\ ViewsHaveBegun'
  BY <1>1, <1>5 DEF QueueInv, IdsAreFresh, ViewsHaveBegun
<1>7. \A b \in AdminAction : current[b] # 0 => current[b] \in Ids
  BY <1>0 DEF QueueTypes, Ids
<1>8. CurrentIsOwn'
  BY <1>1, <1>3, <1>5, <1>7 DEF QueueInv, CurrentIsOwn
<1>9. ASSUME NEW j \in Ids, Live(j)'
      PROVE  current'[proposal'[j].action] = j
  <2>1. Live(j) /\ j # id /\ proposal'[j] = proposal[j]
    BY <1>5, <1>9 DEF Live
  <2>2. current[proposal[j].action] = j /\ proposal[j].action \in AdminAction
    BY <1>0, <2>1 DEF QueueInv, LiveIsCurrent, QueueTypes, Proposal, Live, Stored
  <2> QED
    BY <1>3, <2>1, <2>2
<1> QED
  BY <1>4, <1>6, <1>8, <1>9 DEF QueueInv, LiveIsCurrent

LEMMA QueueStays ==
  ASSUME QueueInv, UNCHANGED queueVars, ledger' \in Nat
  PROVE  QueueInv'
  BY DEF QueueInv, QueueTypes, IdsAreFresh, CurrentIsOwn, ViewsHaveBegun, LiveIsCurrent, Live,
         Stored, queueVars

(* What is executed by its id is the current proposal of its action. *)
LEMMA ExecutedIsAnAction ==
  ASSUME QueueInv, NEW id \in Ids, ExecuteAdminAction(id)
  PROVE  /\ proposal[id].action \in AdminAction
         /\ Consume(proposal[id].action) /\ Apply(proposal[id].action) /\ UNCHANGED ledger
  BY DEF QueueInv, QueueTypes, Proposal, ExecuteAdminAction, Live, Stored

LEMMA QueueInit == ActionInit => QueueInv
  BY ActionConstants DEF ActionInit, QueueInv, QueueTypes, IdsAreFresh, CurrentIsOwn,
     ViewsHaveBegun, LiveIsCurrent, Live, Stored, Proposal, Ids

LEMMA QueueNext ==
  ASSUME QueueInv, [ActionNext]_actionVars
  PROVE  QueueInv'
<1>1. CASE UNCHANGED actionVars
  BY <1>1, QueueStays DEF actionVars, QueueInv, QueueTypes
<1>2. CASE CloseLedger
  BY <1>2, QueueStays DEF CloseLedger, QueueInv, QueueTypes
<1>3. ASSUME NEW g \in Guardians, SetSecurityGuardian(g)
      PROVE  QueueInv'
  BY <1>3, QueueStays DEF SetSecurityGuardian, QueueInv, QueueTypes
<1>4. ASSUME NEW a \in AdminAction, QueueAdminAction(a)
      PROVE  QueueInv'
  BY <1>4, QueueStep
<1>5. ASSUME NEW a \in AdminAction, ExecuteByArguments(a)
      PROVE  QueueInv'
  BY <1>5, ConsumeStep DEF ExecuteByArguments
<1>6. ASSUME NEW id \in Ids, VetoAdminAction(id)
      PROVE  QueueInv'
  BY <1>6, VetoStep
<1>7. ASSUME NEW id \in Ids, ExecuteAdminAction(id)
      PROVE  QueueInv'
  BY <1>7, ExecutedIsAnAction, ConsumeStep
<1> QED
  BY <1>1, <1>2, <1>3, <1>4, <1>5, <1>6, <1>7 DEF ActionNext

(* The inductive invariant of the queue (queue_admin_action, consume,      *)
(* veto_admin_action): ids are fresh, and the two ways to find a proposal, *)
(* Proposal and Current, agree.                                            *)
THEOREM ActionQueue == ActionSpec => []QueueInv
  BY QueueInit, QueueNext, PTL DEF ActionSpec

(* A live proposal is the current one of its action, so executing it by    *)
(* its id and by its arguments is the same (execute_admin_action, consume).*)
THEOREM ActionLiveIsCurrent == ActionSpec => []LiveIsCurrent
<1>1. QueueInv => LiveIsCurrent
  BY DEF QueueInv
<1> QED
  BY <1>1, ActionQueue, PTL

(* A veto permanently prevents execution (admin_actions.rs:37). *)
THEOREM ActionVetoStands == ActionSpec => VetoStands
<1>1. QueueInv /\ [ActionNext]_actionVars
      => [\A id \in Ids : Stored(id) /\ proposal[id].vetoed
            => proposal'[id] = proposal[id]]_actionVars
  <2> SUFFICES ASSUME QueueInv, [ActionNext]_actionVars,
                      NEW id \in Ids, Stored(id), proposal[id].vetoed,
                      proposal' # proposal
               PROVE  proposal'[id] = proposal[id]
    OBVIOUS
  <2>0. proposal \in [Ids -> Proposal] /\ ~Live(id) /\ id <= lastId /\ lastId \in Nat
    BY DEF QueueInv, QueueTypes, IdsAreFresh, Live
  <2>1. ASSUME NEW a \in AdminAction, QueueAdminAction(a)
        PROVE  proposal'[id] = proposal[id]
    <3>1. id # lastId + 1
      BY <2>0, ActionConstants
    <3> QED
      BY <2>0, <2>1, <3>1 DEF QueueAdminAction
  <2>2. ASSUME NEW a \in AdminAction, Consume(a)
        PROVE  proposal'[id] = proposal[id]
    BY <2>0, <2>2 DEF Consume
  <2>3. ASSUME NEW j \in Ids, VetoAdminAction(j)
        PROVE  proposal'[id] = proposal[id]
    <3>1. proposal[id] = [proposal[id] EXCEPT !.vetoed = TRUE]
      BY <2>0 DEF Proposal, Stored
    <3> QED
      BY <2>0, <2>3, <3>1 DEF VetoAdminAction
  <2> QED
    BY <2>1, <2>2, <2>3, ExecutedIsAnAction
    DEF ActionNext, actionVars, queueVars, CloseLedger, SetSecurityGuardian, ExecuteByArguments
<1> QED
  BY <1>1, ActionQueue, PTL DEF ActionSpec, VetoStands

-----------------------------------------------------------------------------
(* The whitelist. *)

ListInv == tokens \in Seq(Tokens) /\ place \in [Tokens -> Nat] /\ WhitelistIsIndexed

(* A list q and the index p of its elements agree. *)
Indexed(q, p) ==
  /\ \A i \in DOMAIN q : p[q[i]] = i
  /\ \A t \in DOMAIN p : p[t] # 0 => p[t] \in DOMAIN q /\ q[p[t]] = t

LEMMA ElementAdded ==
  ASSUME NEW S, NEW q \in Seq(S), NEW p \in [S -> Nat], Indexed(q, p), NEW t \in S, p[t] = 0
  PROVE  /\ Append(q, t) \in Seq(S) /\ [p EXCEPT ![t] = Len(q) + 1] \in [S -> Nat]
         /\ Indexed(Append(q, t), [p EXCEPT ![t] = Len(q) + 1])
<1> DEFINE n == Len(q)
<1>0. PICK r, s : r = Append(q, t) /\ s = [p EXCEPT ![t] = Len(q) + 1]
  OBVIOUS
<1>1. /\ n \in Nat /\ DOMAIN q = 1..n /\ \A i \in 1..n : q[i] \in S
      /\ r \in Seq(S) /\ Len(r) = n + 1
      /\ r[n + 1] = t /\ \A i \in 1..n : r[i] = q[i]
  BY <1>0, AppendProperties, LenProperties, ElementOfSeq
<1>2. DOMAIN r = 1..(n + 1)
  BY <1>1, LenProperties
<1>i. \A i \in 1..n : p[q[i]] = i
  BY <1>1 DEF Indexed
<1> HIDE DEF n
<1>3. /\ s \in [S -> Nat] /\ DOMAIN s = S /\ s[t] = n + 1
      /\ \A x \in S : x # t => s[x] = p[x]
  BY <1>0, <1>1 DEF n
<1>4. ASSUME NEW i \in 1..(n + 1)
      PROVE  s[r[i]] = i
  <2>1. CASE i = n + 1
    BY <1>1, <1>3, <2>1
  <2>2. CASE i # n + 1
    <3>1. i \in 1..n
      BY <1>1, <2>2
    <3>2. p[q[i]] = i /\ q[i] \in S /\ r[i] = q[i] /\ i # 0
      BY <1>1, <1>i, <3>1
    <3>3. q[i] # t
      BY <3>2
    <3> QED
      BY <1>3, <3>2, <3>3
  <2> QED
    BY <2>1, <2>2
<1>5. ASSUME NEW x \in S, s[x] # 0
      PROVE  s[x] \in 1..(n + 1) /\ r[s[x]] = x
  <2>1. CASE x = t
    BY <1>1, <1>3, <2>1
  <2>2. CASE x # t
    <3>1. s[x] = p[x] /\ p[x] \in 1..n /\ q[p[x]] = x
      BY <1>1, <1>3, <1>5, <2>2 DEF Indexed
    <3> QED
      BY <1>1, <3>1
  <2> QED
    BY <2>1, <2>2
<1> QED
  BY <1>0, <1>1, <1>2, <1>3, <1>4, <1>5 DEF Indexed

LEMMA ElementRemoved ==
  ASSUME NEW S, NEW q \in Seq(S), NEW p \in [S -> Nat], Indexed(q, p), NEW t \in S, p[t] # 0,
         NEW n, n = Len(q)
  PROVE  /\ SubSeq([q EXCEPT ![p[t]] = q[n]], 1, n - 1) \in Seq(S)
         /\ [p EXCEPT ![q[n]] = p[t], ![t] = 0] \in [S -> Nat]
         /\ Indexed(SubSeq([q EXCEPT ![p[t]] = q[n]], 1, n - 1),
                    [p EXCEPT ![q[n]] = p[t], ![t] = 0])
<1>0. PICK r, s : /\ r = SubSeq([q EXCEPT ![p[t]] = q[n]], 1, n - 1)
                  /\ s = [p EXCEPT ![q[n]] = p[t], ![t] = 0]
  OBVIOUS
<1>1. n \in Nat /\ DOMAIN q = 1..n /\ \A i \in 1..n : q[i] \in S /\ p[q[i]] = i
  <2>1. n \in Nat /\ DOMAIN q = 1..n /\ \A i \in 1..n : q[i] \in S
    BY LenProperties, ElementOfSeq
  <2> QED
    BY <2>1 DEF Indexed
<1>2. PICK k : k = p[t] /\ k \in 1..n /\ q[k] = t
  BY <1>1 DEF Indexed
<1>3. n \in 1..n /\ q[n] \in S
  BY <1>1, <1>2
<1>4. PICK m : m = [q EXCEPT ![k] = q[n]]
  OBVIOUS
<1>5. /\ \A i \in 1..(n - 1) : m[i] \in S
      /\ \A i \in 1..(n - 1) : m[i] = IF i = k THEN q[n] ELSE q[i]
  BY <1>1, <1>2, <1>3, <1>4
<1>6. r = SubSeq(m, 1, n - 1)
  BY <1>0, <1>2, <1>4
<1>7. /\ r \in Seq(S) /\ Len(r) = n - 1
      /\ \A i \in 1..(n - 1) : r[i] = m[i]
  <2>1. n - 1 \in Int /\ n >= 1 /\ 1 \in Int
    BY <1>1, <1>2
  <2>2. /\ SubSeq(m, 1, n - 1) \in Seq(S)
        /\ Len(SubSeq(m, 1, n - 1)) = IF 1 <= n - 1 THEN n - 1 - 1 + 1 ELSE 0
        /\ \A i \in 1..(n - 1 - 1 + 1) : SubSeq(m, 1, n - 1)[i] = m[1 + i - 1]
    BY <1>5, <2>1, SubSeqProperties
  <2> QED
    BY <1>6, <2>1, <2>2
<1>8. DOMAIN r = 1..(n - 1)
  BY <1>7, LenProperties
<1>9. /\ s \in [S -> Nat] /\ DOMAIN s = S /\ s[t] = 0
      /\ q[n] # t => s[q[n]] = k
      /\ \A x \in S : x # t /\ x # q[n] => s[x] = p[x]
  BY <1>0, <1>1, <1>2, <1>3
<1>10. ASSUME NEW i \in 1..(n - 1)
       PROVE  s[r[i]] = i
  <2>1. CASE i = k
    <3>1. r[i] = q[n]
      BY <1>5, <1>7, <2>1
    <3>2. p[q[n]] = n /\ k # n
      BY <1>1, <1>3, <2>1
    <3>3. q[n] # t
      BY <1>2, <3>2
    <3> QED
      BY <1>9, <2>1, <3>1, <3>3
  <2>2. CASE i # k
    <3>1. i \in 1..n /\ i # n
      BY <1>1
    <3>2. r[i] = q[i] /\ q[i] \in S /\ p[q[i]] = i /\ q[i] # t /\ q[i] # q[n]
      BY <1>1, <1>2, <1>3, <1>5, <1>7, <2>2, <3>1
    <3> QED
      BY <1>9, <3>2
  <2> QED
    BY <2>1, <2>2
<1>11. ASSUME NEW x \in S, s[x] # 0
       PROVE  s[x] \in 1..(n - 1) /\ r[s[x]] = x
  <2>1. x # t
    BY <1>9, <1>11
  <2>2. CASE x = q[n]
    <3>1. s[x] = k /\ k # n
      BY <1>2, <1>9, <2>1, <2>2
    <3>2. k \in 1..(n - 1)
      BY <1>1, <1>2, <3>1
    <3> QED
      BY <1>5, <1>7, <2>2, <3>1, <3>2
  <2>3. CASE x # q[n]
    <3>1. s[x] = p[x] /\ p[x] \in 1..n /\ q[p[x]] = x
      BY <1>1, <1>9, <1>11, <2>1, <2>3 DEF Indexed
    <3>2. p[x] # n /\ p[x] # k
      BY <1>2, <2>1, <2>3, <3>1
    <3>3. p[x] \in 1..(n - 1)
      BY <1>1, <3>1, <3>2
    <3> QED
      BY <1>5, <1>7, <3>1, <3>2, <3>3
  <2> QED
    BY <2>2, <2>3
<1>12. Indexed(r, s)
  BY <1>8, <1>9, <1>10, <1>11 DEF Indexed
<1>13. r \in Seq(S) /\ s \in [S -> Nat]
  BY <1>7, <1>9
<1> QED
  BY <1>0, <1>12, <1>13

LEMMA ListIsIndexed == ListInv <=> tokens \in Seq(Tokens) /\ place \in [Tokens -> Nat]
                                   /\ Indexed(tokens, place)
  BY DEF ListInv, WhitelistIsIndexed, Indexed

LEMMA ApplyKeepsTheList ==
  ASSUME ListInv, NEW a \in AdminAction, Apply(a)
  PROVE  ListInv'
<1>1. tokens \in Seq(Tokens) /\ place \in [Tokens -> Nat] /\ Indexed(tokens, place)
  BY ListIsIndexed
<1>2. CASE UNCHANGED <<tokens, place>>
  BY <1>2 DEF ListInv, WhitelistIsIndexed
<1>3. CASE a[1] \in {"token_add", "token_del"}
  <2>1. a[2] \in Tokens
    BY <1>3 DEF AdminAction
  <2>0. PICK t, q, p, q1, p1 : /\ t = a[2] /\ q = tokens /\ p = place
                               /\ q1 = tokens' /\ p1 = place'
    OBVIOUS
  <2>q. t \in Tokens /\ q \in Seq(Tokens) /\ p \in [Tokens -> Nat] /\ Indexed(q, p)
    BY <1>1, <2>0, <2>1
  <2>2. CASE AddToken(a[2]) /\ place[a[2]] = 0
    <3>1. q1 = Append(q, t) /\ p1 = [p EXCEPT ![t] = Len(q) + 1] /\ p[t] = 0
      BY <2>0, <2>2 DEF AddToken
    <3>2. q1 \in Seq(Tokens) /\ p1 \in [Tokens -> Nat] /\ Indexed(q1, p1)
      <4>1. /\ Append(q, t) \in Seq(Tokens) /\ [p EXCEPT ![t] = Len(q) + 1] \in [Tokens -> Nat]
            /\ Indexed(Append(q, t), [p EXCEPT ![t] = Len(q) + 1])
        BY <2>q, <3>1, ElementAdded
      <4> QED
        BY <3>1, <4>1
    <3> QED
      BY <2>0, <3>2 DEF ListInv, WhitelistIsIndexed, Indexed
  <2>3. CASE RemoveToken(a[2]) /\ place[a[2]] # 0
    <3>1. PICK n : n = Len(q)
      OBVIOUS
    <3>2. /\ q1 = SubSeq([q EXCEPT ![p[t]] = q[n]], 1, n - 1)
          /\ p1 = [p EXCEPT ![q[n]] = p[t], ![t] = 0] /\ p[t] # 0
      BY <2>0, <2>3, <3>1 DEF RemoveToken
    <3>3. q1 \in Seq(Tokens) /\ p1 \in [Tokens -> Nat] /\ Indexed(q1, p1)
      <4>1. /\ SubSeq([q EXCEPT ![p[t]] = q[n]], 1, n - 1) \in Seq(Tokens)
            /\ [p EXCEPT ![q[n]] = p[t], ![t] = 0] \in [Tokens -> Nat]
            /\ Indexed(SubSeq([q EXCEPT ![p[t]] = q[n]], 1, n - 1),
                       [p EXCEPT ![q[n]] = p[t], ![t] = 0])
        BY <2>q, <3>1, <3>2, ElementRemoved
      <4> QED
        BY <3>2, <4>1
    <3> QED
      BY <2>0, <3>3 DEF ListInv, WhitelistIsIndexed, Indexed
  <2> QED
    BY <1>2, <1>3, <2>2, <2>3 DEF Apply, AddToken, RemoveToken
<1> QED
  BY <1>2, <1>3
  DEF Apply, UpdateFee, SetFeeConfig, SetFeeDistribution, AddToken, RemoveToken, RotateGuardian

(* The whitelist's list and its index agree whatever is added and removed  *)
(* in whatever order (add_token, remove_token).                            *)
THEOREM ActionWhitelist == ActionSpec => []WhitelistIsIndexed
<1>1. ActionInit => ListInv
  BY EmptySeq DEF ActionInit, ListInv, WhitelistIsIndexed
<1>2. ASSUME ListInv, QueueInv, [ActionNext]_actionVars
      PROVE  ListInv'
  <2>1. CASE UNCHANGED <<tokens, place>>
    BY <1>2, <2>1 DEF ListInv, WhitelistIsIndexed
  <2>2. ASSUME NEW a \in AdminAction, ExecuteByArguments(a)
        PROVE  ListInv'
    BY <1>2, <2>2, ApplyKeepsTheList DEF ExecuteByArguments
  <2>3. ASSUME NEW id \in Ids, ExecuteAdminAction(id)
        PROVE  ListInv'
    <3>1. proposal[id].action \in AdminAction
      BY <1>2, <2>3, ExecutedIsAnAction
    <3> QED
      BY <1>2, <2>3, <3>1, ApplyKeepsTheList DEF ExecuteAdminAction
  <2> QED
    BY <1>2, <2>1, <2>2, <2>3
    DEF ActionNext, actionVars, settingVars, CloseLedger, SetSecurityGuardian, QueueAdminAction,
        VetoAdminAction
<1>3. ListInv => WhitelistIsIndexed
  BY DEF ListInv
<1> QED
  BY <1>1, <1>2, <1>3, ActionQueue, PTL DEF ActionSpec

(* Every variable of the queue holds a value of its storage type. *)
THEOREM ActionTypes == ActionSpec => []ActionTypeOK
<1>1. QueueInv => ActionTypeOK
  BY DEF QueueInv, QueueTypes, ActionTypeOK, Proposal, Stored
<1> QED
  BY <1>1, ActionQueue, PTL

-----------------------------------------------------------------------------
(* The review (Timelock). *)

LEMMA OnViewIs ==
  \A a \in AdminAction :
    OnView[a] = IF current[a] # 0 /\ Live(current[a])
                THEN proposal[current[a]].unlock - ReviewDelay ELSE -1
  BY DEF OnView

LEMMA SameView ==
  ASSUME UNCHANGED queueVars
  PROVE  UNCHANGED OnView
  BY DEF queueVars, OnView, Live, Stored

LEMMA SameSettings ==
  ASSUME UNCHANGED settingVars
  PROVE  UNCHANGED Settings
  BY DEF settingVars, Settings

LEMMA ViewStep ==
  ASSUME NEW a \in AdminAction, NEW t,
         \A b \in AdminAction : OnView'[b] = IF b = a THEN t ELSE OnView[b]
  PROVE  OnView' = [OnView EXCEPT ![a] = t]
  BY DEF OnView

(* Queueing an action puts it on view. *)
LEMMA QueueAnnounces ==
  ASSUME QueueInv, NEW a \in AdminAction, QueueAdminAction(a)
  PROVE  Review!Announce(a)
<1> DEFINE n == lastId + 1
<1>0. QueueTypes /\ lastId \in Nat /\ n \in Ids /\ UNCHANGED <<ledger, settingVars>>
  BY ActionConstants DEF QueueInv, QueueTypes, QueueAdminAction, Ids
<1>1. OnView[a] = -1
  BY OnViewIs DEF QueueAdminAction
<1>2. /\ \A id \in Ids : id # n => proposal'[id] = proposal[id]
      /\ proposal'[n].unlock = ledger + ReviewDelay
      /\ ~proposal'[n].vetoed
      /\ proposal'[n].action = a
      /\ \A b \in AdminAction : current'[b] = IF b = a THEN n ELSE current[b]
  BY <1>0 DEF QueueAdminAction, QueueTypes
<1>3. proposal'[n] # NoProposal
  BY <1>2, ActionsAreNamed DEF NoProposal
<1>4. \A b \in AdminAction : current[b] # 0 => current[b] \in Ids /\ current[b] # n
  BY <1>0 DEF QueueInv, QueueTypes, CurrentIsOwn, Ids
<1>5. OnView'[a] = ledger
  <2>1. current'[a] = n /\ n # 0
    BY <1>0, <1>2, ActionConstants
  <2>2. OnView'[a] = proposal'[n].unlock - ReviewDelay
    BY <1>2, <1>3, <2>1 DEF OnView, Live, Stored
  <2> QED
    BY <1>0, <1>2, <2>2, ActionConstants DEF QueueTypes
<1>6. ASSUME NEW b \in AdminAction, b # a
      PROVE  OnView'[b] = OnView[b]
  BY <1>2, <1>4, <1>6 DEF OnView, Live, Stored
<1>7. OnView' = [OnView EXCEPT ![a] = ledger]
  BY <1>5, <1>6, ViewStep
<1> QED
  BY <1>0, <1>1, <1>7, SameSettings DEF Review!Announce, Review!Never

(* When the current proposal of an action goes, no other view is lost. *)
LEMMA OneViewEnds ==
  ASSUME QueueInv, NEW a \in AdminAction, current[a] # 0, Live(current[a]),
         ~Live(current[a])' \/ current'[a] = 0,
         \A id \in Ids : id # current[a] => proposal'[id] = proposal[id],
         \A b \in AdminAction : current'[b] = current[b] \/ (b = a /\ current'[b] = 0)
  PROVE  OnView' = [OnView EXCEPT ![a] = -1]
<1>1. \A b \in AdminAction : current[b] # 0 => current[b] \in Ids
  BY DEF QueueInv, QueueTypes, Ids
<1>2. \A b \in AdminAction : b # a /\ current[b] # 0 => current[b] # current[a]
  BY DEF QueueInv, CurrentIsOwn, Live
<1>3. OnView'[a] = -1
  BY DEF OnView, Live, Stored
<1>4. ASSUME NEW b \in AdminAction, b # a
      PROVE  OnView'[b] = OnView[b]
  BY <1>1, <1>2, <1>4 DEF OnView, Live, Stored
<1> QED
  BY <1>3, <1>4, ViewStep

LEMMA CurrentIsOnView ==
  ASSUME QueueInv, NEW a \in AdminAction, current[a] # 0, Live(current[a])
  PROVE  /\ OnView[a] = proposal[current[a]].unlock - ReviewDelay
         /\ proposal[current[a]].unlock \in Nat
         /\ OnView[a] # -1
<1>1. current[a] \in Ids
  BY DEF QueueInv, QueueTypes, Ids
<1>2. proposal[current[a]].unlock >= ReviewDelay /\ proposal[current[a]].unlock \in Nat
  BY <1>1 DEF QueueInv, ViewsHaveBegun, QueueTypes, Proposal, Live, Stored
<1>3. OnView[a] = proposal[current[a]].unlock - ReviewDelay
  BY OnViewIs
<1> QED
  BY <1>2, <1>3, ActionConstants

(* A veto withdraws the action, or changes nothing. *)
LEMMA VetoWithdraws ==
  ASSUME QueueInv, NEW id \in Ids, VetoAdminAction(id)
  PROVE  \/ \E a \in AdminAction : Review!Withdraw(a)
         \/ UNCHANGED <<ledger, OnView, Settings>>
<1>1. /\ proposal \in [Ids -> Proposal] /\ proposal[id] \in Proposal /\ Stored(id)
      /\ proposal' = [proposal EXCEPT ![id] = [proposal[id] EXCEPT !.vetoed = TRUE]]
      /\ UNCHANGED <<ledger, lastId, current, settingVars>>
  BY DEF VetoAdminAction, QueueInv, QueueTypes
<1>2. CASE Live(id)
  <2> DEFINE a == proposal[id].action
  <2>1. a \in AdminAction /\ current[a] = id
    BY <1>1, <1>2 DEF QueueInv, LiveIsCurrent, Proposal, Live, Stored
  <2>2. ~Live(id)'
    BY <1>1 DEF Live, Proposal, Stored
  <2>3. OnView' = [OnView EXCEPT ![a] = -1]
    BY <1>1, <1>2, <2>1, <2>2, OneViewEnds, ActionConstants
  <2>4. OnView[a] # -1
    BY <1>2, <2>1, CurrentIsOnView, ActionConstants
  <2> QED
    BY <1>1, <2>1, <2>3, <2>4, SameSettings DEF Review!Withdraw, Review!Never
<1>3. CASE ~Live(id)
  <2>1. [proposal[id] EXCEPT !.vetoed = TRUE] = proposal[id]
    BY <1>1, <1>3 DEF Live, Proposal, Stored
  <2>2. UNCHANGED proposal
    BY <1>1, <2>1
  <2> QED
    BY <1>1, <2>2, SameView, SameSettings DEF queueVars
<1> QED
  BY <1>2, <1>3

(* What an action changes is the setting it is about. *)
LEMMA ApplyKeepsToItsTopic ==
  ASSUME NEW a \in AdminAction, Apply(a)
  PROVE  Review!Others(TopicOf[a])
<1> DEFINE t == TopicOf[a]
<1>1. \/ a[1] = "fee" /\ UpdateFee(a[2])
      \/ a[1] = "fee_cfg" /\ SetFeeConfig(a[2], a[3])
      \/ a[1] = "fee_dist" /\ SetFeeDistribution(a[2])
      \/ a[1] = "token_add" /\ AddToken(a[2])
      \/ a[1] = "token_del" /\ RemoveToken(a[2])
      \/ a[1] = "guardian" /\ RotateGuardian(a[2])
  BY DEF Apply
<1>2. /\ t # "fee" => UNCHANGED fee
      /\ t # "split" => UNCHANGED split
      /\ t # "tokens" => UNCHANGED <<tokens, place>>
      /\ t # "guardian" => UNCHANGED guardian
  BY <1>1 DEF TopicOf, UpdateFee, SetFeeConfig, SetFeeDistribution, AddToken, RemoveToken,
              RotateGuardian
<1>3. /\ Settings["fee"] = fee /\ Settings'["fee"] = fee'
      /\ Settings["split"] = split /\ Settings'["split"] = split'
      /\ Settings["tokens"] = <<tokens, place>> /\ Settings'["tokens"] = <<tokens', place'>>
      /\ Settings["guardian"] = guardian /\ Settings'["guardian"] = guardian'
  BY DEF Settings
<1> HIDE DEF t
<1> QED
  BY <1>2, <1>3 DEF Review!Others, t

LEMMA ConsumeEnacts ==
  ASSUME QueueInv, NEW a \in AdminAction, Consume(a), Apply(a), UNCHANGED ledger
  PROVE  Review!Enact(a)
<1>1. /\ current[a] \in Ids /\ current[a] # 0 /\ Live(current[a]) /\ ledger \in Nat
      /\ ledger >= proposal[current[a]].unlock
      /\ proposal \in [Ids -> Proposal] /\ current \in [AdminAction -> 0..MaxId]
      /\ proposal' = [proposal EXCEPT ![current[a]] = NoProposal]
      /\ current' = [current EXCEPT ![a] = 0]
  BY DEF Consume, QueueInv, QueueTypes, Ids
<1>2. OnView' = [OnView EXCEPT ![a] = -1]
  BY <1>1, OneViewEnds
<1>3. OnView[a] # -1 /\ ledger >= OnView[a] + ReviewDelay
  BY <1>1, CurrentIsOnView, ActionConstants
<1> QED
  BY <1>2, <1>3, ApplyKeepsToItsTopic DEF Review!Enact, Review!Never

LEMMA FirstGuardian ==
  ASSUME NEW g \in Guardians, SetSecurityGuardian(g)
  PROVE  Review!Appoint("guardian")
<1>1. UNCHANGED <<ledger, OnView>> /\ UNCHANGED <<fee, split, tokens, place>> /\ guardian = <<>>
  BY SameView DEF SetSecurityGuardian
<1>2. /\ Settings["fee"] = fee /\ Settings'["fee"] = fee'
      /\ Settings["split"] = split /\ Settings'["split"] = split'
      /\ Settings["tokens"] = <<tokens, place>> /\ Settings'["tokens"] = <<tokens', place'>>
      /\ Settings["guardian"] = guardian
  BY DEF Settings
<1> QED
  BY <1>1, <1>2 DEF Review!Appoint, Review!Others

LEMMA ReviewInit == ActionInit => Review!Init
  BY DEF ActionInit, OnView, Review!Init, Review!Never

LEMMA ReviewNext ==
  ASSUME QueueInv, [ActionNext]_actionVars
  PROVE  [Review!Next]_<<ledger, OnView, Settings>>
<1>1. CASE UNCHANGED actionVars
  BY <1>1, SameView, SameSettings DEF actionVars
<1>2. CASE CloseLedger
  <2>1. ledger' > ledger /\ UNCHANGED <<OnView, Settings>>
    BY <1>2, SameView, SameSettings DEF CloseLedger, QueueInv, QueueTypes
  <2> QED
    BY <2>1 DEF Review!Next, Review!Tick
<1>3. ASSUME NEW g \in Guardians, SetSecurityGuardian(g)
      PROVE  Review!Next
  BY <1>3, FirstGuardian DEF Review!Next
<1>4. ASSUME NEW a \in AdminAction, QueueAdminAction(a)
      PROVE  Review!Next
  BY <1>4, QueueAnnounces DEF Review!Next
<1>5. ASSUME NEW a \in AdminAction, ExecuteByArguments(a)
      PROVE  Review!Next
  BY <1>5, ConsumeEnacts DEF Review!Next, ExecuteByArguments
<1>6. ASSUME NEW id \in Ids, VetoAdminAction(id)
      PROVE  [Review!Next]_<<ledger, OnView, Settings>>
  BY <1>6, VetoWithdraws DEF Review!Next
<1>7. ASSUME NEW id \in Ids, ExecuteAdminAction(id)
      PROVE  Review!Next
  BY <1>7, ExecutedIsAnAction, ConsumeEnacts DEF Review!Next
<1> QED
  BY <1>1, <1>2, <1>3, <1>4, <1>5, <1>6, <1>7 DEF ActionNext

(* The queue implements the review it promises (admin_actions.rs:4-7):     *)
(* every step of it is one of the abstract timelock.                       *)
THEOREM ActionKeepsReview == ActionSpec => KeepsReview
<1>1. QueueInv /\ [ActionNext]_actionVars => [Review!Next]_<<ledger, OnView, Settings>>
  BY ReviewNext
<1> QED
  BY <1>1, ReviewInit, ActionQueue, PTL DEF ActionSpec, KeepsReview, Review!Spec

-----------------------------------------------------------------------------
(***************************************************************************)
(* The whole administration.  The invariant has a part for each group of   *)
(* variables, which only the steps of that group can disturb.              *)
(***************************************************************************)

(* The invariant. *)

Option(S) == {<<>>} \cup {<<x>> : x \in S}

(* Before it is deployed the contract has neither co-admins nor settings;  *)
(* deployed once, it has a primary admin who is no co-admin.               *)
SignerInv ==
  /\ admin \in Option(Users) /\ nominee \in Option(Users)
  /\ coAdmins \subseteq Users
  /\ admin = <<>> => coAdmins = {} /\ nominee = <<>> /\ fee = <<>>
  /\ ~redeployed /\ admin # <<>> => admin[1] \notin coAdmins

UpgradeRecord == [hash : Hashes, at : Nat, approvals : SUBSET Users, executed : BOOLEAN]

(* The threshold is the one the pending upgrade was proposed under. *)
UpgradeInv ==
  /\ threshold \in Nat /\ bar \in Nat
  /\ upgrade \in Option(UpgradeRecord)
  /\ PendingUpgrade => bar = threshold

RescueRecord == [to : Destinations, at : Nat, approvals : SUBSET Users, executed : BOOLEAN]

(* What is approved was signed for, at the destination of the proposal. *)
SignedInv ==
  /\ rescue \in [Orders -> Option(RescueRecord)]
  /\ consent \in [Orders -> [Destinations -> [by : SUBSET Users, at : Nat]]]
  /\ \A e \in Orders : rescue[e] # <<>> =>
       /\ rescue[e][1].approvals \subseteq consent[e][rescue[e][1].to].by
       /\ rescue[e][1].at = consent[e][rescue[e][1].to].at

OrderRecord ==
  [status : {"Funded", "Disputed", "Released", "Refunded"},
   amount : Nat, released : Nat, refunded : Nat]

(* While it can be released or rescued, an order has paid what it says. *)
PaidInv ==
  /\ order \in [Orders -> OrderRecord]
  /\ paid \in [Orders -> Nat]
  /\ \A e \in Orders :
       /\ Rescuable(e) => /\ order[e].refunded = 0
                          /\ paid[e] = order[e].released
                          /\ order[e].released <= order[e].amount
       /\ ~Rescuable(e) => paid[e] = order[e].amount

AdminInv == QueueInv /\ SignerInv /\ UpgradeInv /\ SignedInv /\ PaidInv

LEMMA AdminConstants ==
  IsFiniteSet(Users) /\ Principal \in Nat /\ MinThreshold \in Nat
  BY AdminAssumption

LEMMA Options == \A S : \A o \in Option(S) : o # <<>> => o[1] \in S /\ o = <<o[1]>>
  BY DEF Option

LEMMA OptionWith ==
  ASSUME NEW x, NEW y, NEW o, o = <<x>>
  PROVE  [o EXCEPT ![1] = y] = <<y>>
  OBVIOUS

LEMMA AdminInitOk == AdminInit => AdminInv
<1> SUFFICES ASSUME AdminInit
             PROVE  AdminInv
  OBVIOUS
<1>1. QueueInv
  BY QueueInit DEF AdminInit
<1>2. SignerInv
  BY DEF AdminInit, ActionInit, SignerInv, Option
<1>3. UpgradeInv
  BY AdminConstants DEF AdminInit, UpgradeInv, PendingUpgrade, Option
<1>4. SignedInv
  BY DEF AdminInit, SignedInv, Unsigned, Option
<1>5. PaidInv
  BY AdminConstants DEF AdminInit, PaidInv, OrderRecord, Rescuable
<1> QED
  BY <1>1, <1>2, <1>3, <1>4, <1>5 DEF AdminInv

-----------------------------------------------------------------------------
(* What a step leaves alone. *)

LEMMA SignersStay ==
  ASSUME SignerInv, UNCHANGED signerVars, UNCHANGED fee \/ admin # <<>>
  PROVE  SignerInv'
  BY DEF SignerInv, signerVars

LEMMA UpgradesStay ==
  ASSUME UpgradeInv, UNCHANGED upgradeVars
  PROVE  UpgradeInv'
  BY DEF UpgradeInv, upgradeVars, PendingUpgrade

LEMMA RescuesStay ==
  ASSUME SignedInv, UNCHANGED <<rescue, consent>>
  PROVE  SignedInv'
  BY DEF SignedInv

LEMMA OrdersStay ==
  ASSUME PaidInv, UNCHANGED <<order, paid>>
  PROVE  PaidInv'
  BY DEF PaidInv, Rescuable

(* A reviewed change needs a deployed contract. *)
LEMMA ReviewedIsAnAction ==
  ASSUME SignerInv, ReviewedStep
  PROVE  /\ ActionNext /\ UNCHANGED adminVars
         /\ UNCHANGED fee \/ admin # <<>>
<1>1. Admins # {} => admin # <<>>
  BY DEF SignerInv, Admins
<1> QED
  BY <1>1 DEF ReviewedStep, ActionNext, SetSecurityGuardian, VetoAdminAction, settingVars

-----------------------------------------------------------------------------
(* Each group of steps. *)

LEMMA SignerStepInv ==
  ASSUME AdminInv, SignerStep
  PROVE  SignerInv' /\ QueueInv' /\ UNCHANGED <<upgradeVars, rescueVars>>
<1>0. SignerInv /\ QueueInv /\ ledger \in Nat
  BY DEF AdminInv, QueueInv, QueueTypes
<1>1. ASSUME NEW u \in Users, NEW bps \in Rates, NEW treasury \in Treasuries,
             Constructor(u, bps, treasury)
      PROVE  SignerInv' /\ QueueInv' /\ UNCHANGED <<upgradeVars, rescueVars>>
  <2>1. QueueInv'
    BY <1>0, <1>1, QueueStays DEF Constructor
  <2>2. SignerInv'
    BY <1>0, <1>1 DEF Constructor, SignerInv, Option
  <2> QED
    BY <1>1, <2>1, <2>2 DEF Constructor
<1>2. ASSUME NEW u \in Users, ProposeAdmin(u) \/ AddCoAdmin(u) \/ RemoveCoAdmin(u)
      PROVE  SignerInv' /\ QueueInv' /\ UNCHANGED <<upgradeVars, rescueVars>>
  <2>1. QueueInv' /\ UNCHANGED <<upgradeVars, rescueVars>>
    BY <1>0, <1>2, QueueStays DEF ProposeAdmin, AddCoAdmin, RemoveCoAdmin, actionVars
  <2>2. CASE ProposeAdmin(u)
    BY <1>0, <2>1, <2>2 DEF ProposeAdmin, SignerInv, Option
  <2>3. CASE AddCoAdmin(u)
    <3>1. admin[1] # u
      BY <1>0, <2>3, Options DEF AddCoAdmin, Admins, SignerInv
    <3> QED
      BY <1>0, <2>1, <2>3, <3>1 DEF AddCoAdmin, SignerInv
  <2>4. CASE RemoveCoAdmin(u)
    BY <1>0, <2>1, <2>4 DEF RemoveCoAdmin, SignerInv
  <2> QED
    BY <1>2, <2>1, <2>2, <2>3, <2>4
<1>3. CASE AcceptAdmin
  <2>1. QueueInv' /\ UNCHANGED <<upgradeVars, rescueVars>>
    BY <1>0, <1>3, QueueStays DEF AcceptAdmin, actionVars
  <2>2. SignerInv'
    BY <1>0, <1>3 DEF AcceptAdmin, SignerInv, Option
  <2> QED
    BY <2>1, <2>2
<1>4. CASE CancelAdminTransfer
  <2>1. QueueInv' /\ UNCHANGED <<upgradeVars, rescueVars>>
    BY <1>0, <1>4, QueueStays DEF CancelAdminTransfer, actionVars
  <2>2. SignerInv'
    BY <1>0, <1>4 DEF CancelAdminTransfer, SignerInv, Option, actionVars, settingVars
  <2> QED
    BY <2>1, <2>2
<1> QED
  BY <1>1, <1>2, <1>3, <1>4 DEF SignerStep, Initialize

LEMMA UpgradeStepInv ==
  ASSUME AdminInv, UpgradeStep
  PROVE  UpgradeInv' /\ UNCHANGED <<actionVars, signerVars, rescueVars>>
<1>0. UpgradeInv /\ ledger \in Nat /\ IsFiniteSet(Users)
  BY AdminConstants DEF AdminInv, QueueInv, QueueTypes
<1>a. Admins \subseteq Users
  BY DEF AdminInv, SignerInv, Admins
<1>b. PendingUpgrade => upgrade[1] \in UpgradeRecord
  BY <1>0, Options DEF UpgradeInv, PendingUpgrade
<1>1. ASSUME NEW n \in 0..Cardinality(Users), SetUpgradeThreshold(n)
      PROVE  UpgradeInv'
  <2>1. n \in Nat
    BY <1>0, FS_CardinalityType
  <2> QED
    BY <1>0, <1>1, <2>1 DEF UpgradeInv, SetUpgradeThreshold, PendingUpgrade
<1>2. ASSUME NEW u \in Users, NEW hash \in Hashes, ProposeUpgrade(u, hash)
      PROVE  UpgradeInv'
  <2> DEFINE r == [hash |-> hash, at |-> ledger, approvals |-> {u}, executed |-> FALSE]
  <2>1. r \in UpgradeRecord
    BY <1>0 DEF UpgradeRecord
  <2>2. upgrade' = <<r>> /\ bar' = threshold /\ threshold' = threshold
    BY <1>2 DEF ProposeUpgrade
  <2> QED
    BY <1>0, <2>1, <2>2 DEF UpgradeInv, Option, PendingUpgrade
<1>3. ASSUME NEW u \in Users, ApproveUpgrade(u)
      PROVE  UpgradeInv'
  <2> DEFINE r == [upgrade[1] EXCEPT !.approvals = @ \cup {u}]
  <2>1. r \in UpgradeRecord
    BY <1>b, <1>3 DEF UpgradeRecord, ApproveUpgrade
  <2>2. upgrade' = <<r>> /\ PendingUpgrade /\ UNCHANGED <<bar, threshold>>
    BY <1>3 DEF ApproveUpgrade
  <2> QED
    BY <1>0, <2>1, <2>2 DEF UpgradeInv, Option
<1>4. ASSUME NEW u \in Users, CancelUpgrade(u)
      PROVE  UpgradeInv'
  BY <1>0, <1>4 DEF UpgradeInv, Option, CancelUpgrade, PendingUpgrade
<1>5. ASSUME NEW u \in Users, Upgrade(u)
      PROVE  UpgradeInv'
  <2> DEFINE r == [upgrade[1] EXCEPT !.executed = TRUE]
  <2>1. r \in UpgradeRecord
    BY <1>b, <1>5 DEF UpgradeRecord, Upgrade
  <2>2. upgrade' = <<r>> /\ PendingUpgrade /\ UNCHANGED <<bar, threshold>>
    BY <1>5 DEF Upgrade
  <2> QED
    BY <1>0, <2>1, <2>2 DEF UpgradeInv, Option
<1> QED
  BY <1>1, <1>2, <1>3, <1>4, <1>5
  DEF UpgradeStep, SetUpgradeThreshold, ProposeUpgrade, ApproveUpgrade, CancelUpgrade, Upgrade,
      rescueVars, signerVars

-----------------------------------------------------------------------------
(* Rescues. *)

LEMMA ReleasePartInv ==
  ASSUME PaidInv, NEW e \in Orders, NEW x \in Nat, ReleasePart(e, x)
  PROVE  PaidInv'
<1>1. /\ order[e] \in OrderRecord /\ paid[e] \in Nat /\ Rescuable(e)
      /\ order[e].refunded = 0 /\ paid[e] = order[e].released
      /\ x <= order[e].amount - order[e].released
  BY DEF PaidInv, ReleasePart, Rescuable, Remaining, OrderRecord
<1>2. PICK s \in {"Funded", "Released"} :
        /\ s = IF x = Remaining(e) THEN "Released" ELSE order[e].status
        /\ s = "Released" <=> order[e].released + x = order[e].amount
  BY <1>1 DEF ReleasePart, Remaining, OrderRecord
<1> DEFINE r == [order[e] EXCEPT !.released = order[e].released + x, !.status = s]
<1>3. /\ r \in OrderRecord /\ r.released = order[e].released + x
      /\ r.amount = order[e].amount /\ r.refunded = 0 /\ r.status = s
  <2>1. order[e].released + x \in Nat /\ s \in {"Funded", "Disputed", "Released", "Refunded"}
    BY <1>1, <1>2 DEF OrderRecord
  <2>2. order[e] \in OrderRecord
    BY <1>1
  <2> QED
    BY <2>1, <2>2, <1>1 DEF OrderRecord
<1>4. order \in [Orders -> OrderRecord] /\ paid \in [Orders -> Nat]
  BY DEF PaidInv
<1>5. /\ order' = [order EXCEPT ![e] = r]
      /\ paid' = [paid EXCEPT ![e] = paid[e] + x]
  <2>1. order' = [order EXCEPT ![e].released = order[e].released + x, ![e].status = s]
    BY <1>1, <1>2, <1>4 DEF ReleasePart, OrderRecord
  <2>2. [order EXCEPT ![e].released = order[e].released + x, ![e].status = s]
        = [order EXCEPT ![e] = r]
    BY <1>4
  <2> QED
    BY <2>1, <2>2 DEF ReleasePart
<1>6. /\ \A f \in Orders : order'[f] = IF f = e THEN r ELSE order[f]
      /\ \A f \in Orders : paid'[f] = IF f = e THEN paid[e] + x ELSE paid[f]
      /\ order' \in [Orders -> OrderRecord] /\ paid' \in [Orders -> Nat]
  BY <1>1, <1>3, <1>4, <1>5
<1> HIDE DEF r
<1>7. ASSUME NEW f \in Orders
      PROVE  /\ Rescuable(f)' => /\ order'[f].refunded = 0
                                 /\ paid'[f] = order'[f].released
                                 /\ order'[f].released <= order'[f].amount
             /\ ~Rescuable(f)' => paid'[f] = order'[f].amount
  <2>1. CASE f = e
    BY <1>1, <1>2, <1>3, <1>6, <2>1 DEF Rescuable, OrderRecord
  <2>2. CASE f # e
    BY <1>6, <2>2 DEF Rescuable, PaidInv
  <2> QED
    BY <2>1, <2>2
<1> QED
  BY <1>6, <1>7 DEF PaidInv

LEMMA DisputeInv ==
  ASSUME PaidInv, NEW e \in Orders, Dispute(e)
  PROVE  PaidInv'
  BY DEF Dispute, PaidInv, Rescuable, OrderRecord

LEMMA RescueIsPaid ==
  ASSUME PaidInv, NEW e \in Orders, NEW u, EmergencyRescueStalledEscrow(u, e)
  PROVE  PaidInv'
<1>1. /\ order[e] \in OrderRecord /\ paid[e] \in Nat /\ Rescuable(e)
      /\ order[e].refunded = 0 /\ paid[e] = order[e].released
      /\ order[e].released <= order[e].amount
  BY DEF PaidInv, EmergencyRescueStalledEscrow
<1> DEFINE r == [order[e] EXCEPT !.status = "Refunded", !.refunded = order[e].amount]
<1>2. r \in OrderRecord /\ r.status = "Refunded" /\ r.amount = order[e].amount
  BY <1>1 DEF OrderRecord
<1>3. paid[e] + Remaining(e) = order[e].amount
  BY <1>1 DEF Remaining, OrderRecord
<1>4. /\ \A f \in Orders : order'[f] = IF f = e THEN r ELSE order[f]
      /\ \A f \in Orders : paid'[f] = IF f = e THEN order[e].amount ELSE paid[f]
      /\ order' \in [Orders -> OrderRecord] /\ paid' \in [Orders -> Nat]
  BY <1>1, <1>2, <1>3 DEF EmergencyRescueStalledEscrow, PaidInv, OrderRecord
<1> HIDE DEF r
<1> QED
  BY <1>2, <1>4 DEF PaidInv, Rescuable

LEMMA ProposalIsSigned ==
  ASSUME AdminInv, NEW u \in Users, NEW e \in Orders, NEW d \in Destinations,
         ProposeEmergencyRescue(u, e, d)
  PROVE  SignedInv'
<1> DEFINE r == [to |-> d, at |-> ledger, approvals |-> {u}, executed |-> FALSE]
           c == [by |-> consent[e][d].by \cup {u}, at |-> ledger]
<1>0. SignedInv /\ ledger \in Nat
  BY DEF AdminInv, QueueInv, QueueTypes
<1>1. r \in RescueRecord /\ c \in [by : SUBSET Users, at : Nat]
  BY <1>0 DEF RescueRecord, SignedInv
<1>2. /\ rescue' = [rescue EXCEPT ![e] = <<r>>]
      /\ consent' = [consent EXCEPT ![e] = [consent[e] EXCEPT ![d] = c]]
  BY DEF ProposeEmergencyRescue
<1> HIDE DEF c
<1>3. consent' \in [Orders -> [Destinations -> [by : SUBSET Users, at : Nat]]]
  BY <1>0, <1>1, <1>2 DEF SignedInv
<1>4. rescue' \in [Orders -> Option(RescueRecord)]
  BY <1>0, <1>1, <1>2 DEF SignedInv, Option
<1>5. consent'[e][d] = c /\ rescue'[e] = <<r>>
  BY <1>0, <1>2 DEF SignedInv
<1>6. \A f \in Orders : f # e => rescue'[f] = rescue[f] /\ consent'[f] = consent[f]
  BY <1>0, <1>2 DEF SignedInv
<1>7. \A f \in Orders : rescue'[f] # <<>> =>
        /\ rescue'[f][1].approvals \subseteq consent'[f][rescue'[f][1].to].by
        /\ rescue'[f][1].at = consent'[f][rescue'[f][1].to].at
  <2>1. /\ rescue'[e][1].approvals \subseteq consent'[e][rescue'[e][1].to].by
        /\ rescue'[e][1].at = consent'[e][rescue'[e][1].to].at
    BY <1>5 DEF c
  <2> QED
    BY <1>0, <1>6, <2>1 DEF SignedInv
<1> QED
  BY <1>3, <1>4, <1>7 DEF SignedInv

LEMMA ApprovalIsSigned ==
  ASSUME SignedInv, NEW u \in Users, NEW e \in Orders, ApproveEmergencyRescue(u, e)
  PROVE  SignedInv'
<1> DEFINE d == rescue[e][1].to
           r == [rescue[e][1] EXCEPT !.approvals = rescue[e][1].approvals \cup {u}]
           c == [consent[e][d] EXCEPT !.by = consent[e][d].by \cup {u}]
<1>1. rescue[e] = <<rescue[e][1]>> /\ rescue[e][1] \in RescueRecord /\ d \in Destinations
  BY Options DEF SignedInv, ApproveEmergencyRescue, RescueRecord
<1>2. r \in RescueRecord /\ r.to = d /\ r.at = rescue[e][1].at
      /\ r.approvals = rescue[e][1].approvals \cup {u}
  BY <1>1 DEF RescueRecord
<1>3. c \in [by : SUBSET Users, at : Nat] /\ c.at = consent[e][d].at
      /\ c.by = consent[e][d].by \cup {u}
  BY <1>1 DEF SignedInv
<1>4. /\ rescue' = [rescue EXCEPT ![e] = [rescue[e] EXCEPT ![1] = r]]
      /\ consent' = [consent EXCEPT ![e] = [consent[e] EXCEPT ![d] = c]]
  BY DEF ApproveEmergencyRescue
<1>5. [rescue[e] EXCEPT ![1] = r] = <<r>>
  BY <1>1, OptionWith
<1> HIDE DEF c, r
<1>6. consent' \in [Orders -> [Destinations -> [by : SUBSET Users, at : Nat]]]
  BY <1>1, <1>3, <1>4 DEF SignedInv
<1>7. rescue' \in [Orders -> Option(RescueRecord)]
  BY <1>2, <1>4, <1>5 DEF SignedInv, Option
<1>8. consent'[e][d] = c /\ rescue'[e] = <<r>>
  BY <1>1, <1>4, <1>5 DEF SignedInv
<1>9. \A f \in Orders : f # e => rescue'[f] = rescue[f] /\ consent'[f] = consent[f]
  BY <1>4 DEF SignedInv
<1>10. /\ rescue[e][1].approvals \subseteq consent[e][d].by
       /\ rescue[e][1].at = consent[e][d].at
  BY DEF SignedInv, ApproveEmergencyRescue
<1>11. /\ rescue'[e][1].approvals \subseteq consent'[e][rescue'[e][1].to].by
       /\ rescue'[e][1].at = consent'[e][rescue'[e][1].to].at
  BY <1>2, <1>3, <1>8, <1>10
<1> QED
  BY <1>6, <1>7, <1>9, <1>11 DEF SignedInv

LEMMA RescueIsSigned ==
  ASSUME SignedInv, NEW u, NEW e \in Orders, EmergencyRescueStalledEscrow(u, e)
  PROVE  SignedInv' /\ rescue'[e] # <<>>
<1> DEFINE r == [rescue[e][1] EXCEPT !.executed = TRUE]
<1>1. rescue[e] = <<rescue[e][1]>> /\ rescue[e][1] \in RescueRecord
  BY Options DEF SignedInv, EmergencyRescueStalledEscrow
<1>2. r \in RescueRecord /\ r.to = rescue[e][1].to /\ r.at = rescue[e][1].at
      /\ r.approvals = rescue[e][1].approvals
  BY <1>1 DEF RescueRecord
<1>3. /\ rescue' = [rescue EXCEPT ![e] = [rescue[e] EXCEPT ![1] = r]]
      /\ UNCHANGED consent
  BY DEF EmergencyRescueStalledEscrow
<1>4. [rescue[e] EXCEPT ![1] = r] = <<r>>
  BY <1>1, OptionWith
<1> HIDE DEF r
<1>5. rescue' \in [Orders -> Option(RescueRecord)]
  BY <1>2, <1>3, <1>4 DEF SignedInv, Option
<1>6. rescue'[e] = <<r>> /\ \A f \in Orders : f # e => rescue'[f] = rescue[f]
  BY <1>3, <1>4 DEF SignedInv
<1>7. \A f \in Orders : rescue'[f] # <<>> =>
        /\ rescue[f] # <<>>
        /\ rescue'[f][1].approvals = rescue[f][1].approvals
        /\ rescue'[f][1].to = rescue[f][1].to
        /\ rescue'[f][1].at = rescue[f][1].at
  BY <1>1, <1>2, <1>6
<1> QED
  BY <1>3, <1>5, <1>6, <1>7 DEF SignedInv

LEMMA RescueStepInv ==
  ASSUME AdminInv, RescueStep
  PROVE  SignedInv' /\ PaidInv' /\ UNCHANGED <<actionVars, signerVars, upgradeVars>>
<1>0. SignedInv /\ PaidInv
  BY DEF AdminInv
<1>1. ASSUME NEW e \in Orders, NEW x \in 1..Principal, ReleasePart(e, x)
      PROVE  SignedInv' /\ PaidInv'
  <2>1. x \in Nat
    BY AdminConstants
  <2> QED
    BY <1>0, <1>1, <2>1, ReleasePartInv, RescuesStay DEF ReleasePart
<1>2. ASSUME NEW e \in Orders, Dispute(e)
      PROVE  SignedInv' /\ PaidInv'
  BY <1>0, <1>2, DisputeInv, RescuesStay DEF Dispute
<1>3. ASSUME NEW u \in Users, NEW e \in Orders, NEW d \in Destinations,
             ProposeEmergencyRescue(u, e, d)
      PROVE  SignedInv' /\ PaidInv'
  BY <1>0, <1>3, ProposalIsSigned, OrdersStay DEF ProposeEmergencyRescue
<1>4. ASSUME NEW u \in Users, NEW e \in Orders, ApproveEmergencyRescue(u, e)
      PROVE  SignedInv' /\ PaidInv'
  BY <1>0, <1>4, ApprovalIsSigned, OrdersStay DEF ApproveEmergencyRescue
<1>5. ASSUME NEW u \in Users, NEW e \in Orders, EmergencyRescueStalledEscrow(u, e)
      PROVE  SignedInv' /\ PaidInv'
  BY <1>0, <1>5, RescueIsSigned, RescueIsPaid
<1>6. UNCHANGED <<actionVars, signerVars, upgradeVars>>
  BY DEF RescueStep, ReleasePart, Dispute, ProposeEmergencyRescue, ApproveEmergencyRescue,
         EmergencyRescueStalledEscrow
<1> QED
  BY <1>1, <1>2, <1>3, <1>4, <1>5, <1>6 DEF RescueStep

-----------------------------------------------------------------------------
(* The invariant is inductive. *)

LEMMA AdminNextInv ==
  ASSUME AdminInv, [AdminNext]_vars
  PROVE  AdminInv'
<1>0. QueueInv /\ SignerInv /\ UpgradeInv /\ SignedInv /\ PaidInv
  BY DEF AdminInv
<1>1. ASSUME UNCHANGED adminVars, [ActionNext]_actionVars, UNCHANGED fee \/ admin # <<>>
      PROVE  AdminInv'
  BY <1>0, <1>1, QueueNext, SignersStay, UpgradesStay, RescuesStay, OrdersStay
  DEF AdminInv, adminVars, rescueVars
<1>2. CASE UNCHANGED vars
  BY <1>1, <1>2 DEF vars, actionVars, settingVars
<1>3. CASE CloseLedger /\ UNCHANGED adminVars
  BY <1>1, <1>3 DEF ActionNext, CloseLedger, settingVars
<1>4. CASE ReviewedStep
  BY <1>0, <1>1, <1>4, ReviewedIsAnAction
<1>5. CASE SignerStep
  BY <1>0, <1>5, SignerStepInv, UpgradesStay, RescuesStay, OrdersStay DEF AdminInv, rescueVars
<1>6. CASE UpgradeStep
  <2>1. UpgradeInv' /\ UNCHANGED <<actionVars, signerVars, rescueVars>>
    BY <1>6, UpgradeStepInv
  <2>2. QueueInv'
    BY <1>0, <2>1, QueueStays DEF actionVars, QueueInv, QueueTypes
  <2> QED
    BY <1>0, <2>1, <2>2, SignersStay, RescuesStay, OrdersStay
    DEF AdminInv, rescueVars, actionVars, settingVars
<1>7. CASE RescueStep
  <2>1. SignedInv' /\ PaidInv' /\ UNCHANGED <<actionVars, signerVars, upgradeVars>>
    BY <1>7, RescueStepInv
  <2>2. QueueInv'
    BY <1>0, <2>1, QueueStays DEF actionVars, QueueInv, QueueTypes
  <2> QED
    BY <1>0, <2>1, <2>2, SignersStay, UpgradesStay DEF AdminInv, actionVars, settingVars
<1> QED
  BY <1>2, <1>3, <1>4, <1>5, <1>6, <1>7 DEF AdminNext

(* The inductive invariant of the administration. *)
THEOREM AdminInvariant == AdminSpec => []AdminInv
  BY AdminInitOk, AdminNextInv, PTL DEF AdminSpec

(* Every variable holds a value of its storage type, in any order of       *)
(* hand-overs, deployments, upgrades and rescues.                          *)
THEOREM AdminTypes == AdminSpec => []AdminTypeOK
<1>1. AdminInv => AdminTypeOK
  <2> SUFFICES ASSUME SignerInv, UpgradeInv
               PROVE  AdminTypeOK
    BY DEF AdminInv
  <2>1. upgrade # <<>> => upgrade[1] \in UpgradeRecord /\ upgrade = <<upgrade[1]>>
    BY Options DEF UpgradeInv
  <2> QED
    BY <2>1 DEF SignerInv, UpgradeInv, UpgradeRecord, AdminTypeOK, Option
<1> QED
  BY <1>1, AdminInvariant, PTL

-----------------------------------------------------------------------------
(* What follows from it. *)

LEMMA NobodyTwice == SignerInv => SignersAreCounted
<1> SUFFICES ASSUME SignerInv, ~redeployed
             PROVE  UpgradeSignerCount = Cardinality(Admins)
  BY DEF SignersAreCounted
<1>1. IsFiniteSet(coAdmins)
  BY AdminConstants, FS_Subset DEF SignerInv
<1>2. Cardinality(coAdmins) \in Nat
  BY <1>1, FS_CardinalityType
<1>3. CASE admin = <<>>
  <2>1. Admins = coAdmins /\ Len(admin) = 0
    BY <1>3 DEF Admins
  <2> QED
    BY <1>2, <2>1 DEF UpgradeSignerCount
<1>4. CASE admin # <<>>
  <2>1. admin[1] \in Users /\ admin = <<admin[1]>> /\ admin[1] \notin coAdmins
    BY <1>4, Options DEF SignerInv
  <2>2. Admins = coAdmins \cup {admin[1]} /\ Len(admin) = 1
    BY <2>1 DEF Admins
  <2> QED
    BY <1>1, <2>1, <2>2, FS_AddElement DEF UpgradeSignerCount
<1> QED
  BY <1>3, <1>4

(* No admin is counted twice against the upgrade threshold (accept_admin,  *)
(* add_co_admin and remove_co_admin keep the two storages apart).          *)
THEOREM AdminSignersAreCounted == AdminSpec => []SignersAreCounted
<1>1. AdminInv => SignersAreCounted
  BY NobodyTwice DEF AdminInv
<1> QED
  BY <1>1, AdminInvariant, PTL

(* No order pays more than it holds, whatever its rescued record says      *)
(* (emergency_rescue_stalled_escrow).                                      *)
THEOREM AdminRescuePaysWhatIsLeft == AdminSpec => []RescuePaysWhatIsLeft
<1>1. AdminInv => RescuePaysWhatIsLeft
  BY DEF AdminInv, PaidInv, RescuePaysWhatIsLeft, Rescuable, OrderRecord
<1> QED
  BY <1>1, AdminInvariant, PTL

(* Only an upgrade changes the code, and it has met the bar it was         *)
(* proposed under (upgrade, set_upgrade_threshold).                        *)
THEOREM AdminUpgradeMeetsItsBar == AdminSpec => UpgradeMeetsItsBar
<1>1. AdminInv /\ [AdminNext]_vars
      => [code' # code =>
            /\ Cardinality(upgrade[1].approvals \cap Admins) >= bar
            /\ ledger >= upgrade[1].at + UpgradeDelay]_vars
  <2> SUFFICES ASSUME AdminInv, [AdminNext]_vars, code' # code
               PROVE  /\ Cardinality(upgrade[1].approvals \cap Admins) >= bar
                      /\ ledger >= upgrade[1].at + UpgradeDelay
    OBVIOUS
  <2>1. \E u \in Users : Upgrade(u)
    <3>1. UpgradeStep
      BY SignerStepInv, RescueStepInv
      DEF AdminNext, vars, adminVars, upgradeVars, ReviewedStep
    <3> QED
      BY <3>1 DEF UpgradeStep, SetUpgradeThreshold, ProposeUpgrade, ApproveUpgrade, CancelUpgrade
  <2>2. PendingUpgrade => bar = threshold
    BY DEF AdminInv, UpgradeInv
  <2> QED
    BY <2>1, <2>2 DEF Upgrade, ValidUpgradeApprovals
<1> QED
  BY <1>1, AdminInvariant, PTL DEF AdminSpec, UpgradeMeetsItsBar

(* A rescue is what enough admins have signed for, announced long enough   *)
(* before (propose_emergency_rescue starts the signatures anew).           *)
THEOREM AdminRescueIsWhatWasSigned == AdminSpec => RescueIsWhatWasSigned
<1> DEFINE Signed(e) ==
             LET signed == consent[e][rescue[e][1].to]
             IN  Cardinality(signed.by) >= threshold /\ ledger >= signed.at + RescueDelay
           Ok == \A e \in Orders :
                   rescue[e] # <<>> /\ rescue'[e] # rescue[e] /\ rescue'[e][1].executed => Signed(e)
<1>1. ASSUME AdminInv, [AdminNext]_vars
      PROVE  [Ok]_vars
  <2> SUFFICES ASSUME NEW e \in Orders, rescue[e] # <<>>, rescue'[e] # rescue[e],
                      rescue'[e][1].executed
               PROVE  Signed(e)
    OBVIOUS
  <2>0. SignedInv
    BY <1>1 DEF AdminInv
  <2>1. RescueStep
    BY <1>1, SignerStepInv, UpgradeStepInv DEF AdminNext, vars, adminVars, rescueVars, ReviewedStep
  <2>2. \E u \in Users : EmergencyRescueStalledEscrow(u, e)
    <3>1. ASSUME NEW u \in Users, NEW f \in Orders, NEW d \in Destinations,
                 ProposeEmergencyRescue(u, f, d)
          PROVE  FALSE
      <4>1. f = e
        BY <2>0, <3>1 DEF ProposeEmergencyRescue, SignedInv
      <4>2. rescue'[e] = <<[to |-> d, at |-> ledger, approvals |-> {u}, executed |-> FALSE]>>
        BY <2>0, <3>1, <4>1 DEF ProposeEmergencyRescue, SignedInv
      <4> QED
        BY <4>2
    <3>2. ASSUME NEW u \in Users, NEW f \in Orders, ApproveEmergencyRescue(u, f)
          PROVE  FALSE
      <4>1. f = e
        BY <2>0, <3>2 DEF ApproveEmergencyRescue, SignedInv
      <4>2. rescue[e] = <<rescue[e][1]>> /\ rescue[e][1] \in RescueRecord
        BY <2>0, Options DEF SignedInv
      <4>3. rescue'[e][1].executed = rescue[e][1].executed
        BY <2>0, <3>2, <4>1, <4>2 DEF ApproveEmergencyRescue, SignedInv, RescueRecord
      <4> QED
        BY <3>2, <4>1, <4>3 DEF ApproveEmergencyRescue
    <3>3. ASSUME NEW u \in Users, NEW f \in Orders, EmergencyRescueStalledEscrow(u, f)
          PROVE  f = e
      BY <2>0, <3>3 DEF EmergencyRescueStalledEscrow, SignedInv
    <3> QED
      BY <2>1, <3>1, <3>2, <3>3 DEF RescueStep, ReleasePart, Dispute
  <2>3. rescue[e][1] \in RescueRecord
    BY <2>0, Options DEF SignedInv
  <2>4. LET signed == consent[e][rescue[e][1].to]
        IN  /\ rescue[e][1].approvals \subseteq signed.by
            /\ rescue[e][1].at = signed.at
            /\ signed.by \subseteq Users
    BY <2>0, <2>3 DEF SignedInv, RescueRecord
  <2>5. LET signed == consent[e][rescue[e][1].to]
        IN  /\ Cardinality(rescue[e][1].approvals) <= Cardinality(signed.by)
            /\ Cardinality(rescue[e][1].approvals) \in Nat /\ Cardinality(signed.by) \in Nat
    BY <2>4, AdminConstants, FS_Subset, FS_CardinalityType
  <2>6. threshold \in Nat
    BY <1>1 DEF AdminInv, UpgradeInv
  <2> QED
    BY <2>2, <2>4, <2>5, <2>6 DEF EmergencyRescueStalledEscrow
<1> QED
  BY <1>1, AdminInvariant, PTL DEF AdminSpec, RescueIsWhatWasSigned

(* The review is kept whoever the admins are, until the constructor runs   *)
(* again (ReviewNext lifted to this module's steps).                       *)
THEOREM AdminKeepsReview == AdminSpec => KeepsReviewSinceDeployed
<1>1. AdminInit => Review!Init
  BY ReviewInit DEF AdminInit
<1>2. ASSUME AdminInv, [AdminNext]_vars
      PROVE  [redeployed' \/ Review!Next]_<<ledger, OnView, Settings>>
  <2>0. QueueInv /\ SignerInv
    BY <1>2 DEF AdminInv
  <2>1. CASE UNCHANGED actionVars
    BY <2>1, SameView, SameSettings DEF actionVars
  <2>2. CASE CloseLedger \/ ReviewedStep
    <3>1. ActionNext
      BY <2>0, <2>2, ReviewedIsAnAction DEF ActionNext
    <3> QED
      BY <2>0, <3>1, ReviewNext
  <2>3. ASSUME NEW u \in Users, NEW bps \in Rates, NEW treasury \in Treasuries,
               Constructor(u, bps, treasury), ~redeployed'
        PROVE  Review!Next
    <3>1. fee = <<>> /\ UNCHANGED <<ledger, OnView>> /\ UNCHANGED <<split, tokens, place, guardian>>
      BY <2>0, <2>3, SameView DEF Constructor, SetFeeConfig, SignerInv
    <3>2. /\ Settings["fee"] = fee
          /\ Settings["split"] = split /\ Settings'["split"] = split'
          /\ Settings["tokens"] = <<tokens, place>> /\ Settings'["tokens"] = <<tokens', place'>>
          /\ Settings["guardian"] = guardian /\ Settings'["guardian"] = guardian'
      BY DEF Settings
    <3>3. Review!Appoint("fee")
      BY <3>1, <3>2 DEF Review!Appoint, Review!Others
    <3> QED
      BY <3>3 DEF Review!Next
  <2>4. CASE SignerStep
    BY <2>1, <2>3, <2>4
    DEF SignerStep, Initialize, ProposeAdmin, AddCoAdmin, RemoveCoAdmin, AcceptAdmin,
        CancelAdminTransfer
  <2> QED
    BY <1>2, <2>1, <2>2, <2>4, UpgradeStepInv, RescueStepInv DEF AdminNext, vars
<1> QED
  BY <1>1, <1>2, AdminInvariant, PTL DEF AdminSpec, KeepsReviewSinceDeployed

=============================================================================
