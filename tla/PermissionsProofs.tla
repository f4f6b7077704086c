------------------------- MODULE PermissionsProofs -------------------------
(***************************************************************************)
(* Theorems about the two halves of the permissions contract.              *)
(*                                                                         *)
(* Of Permissions, for any pairs, terms, changes, sessions, lanes, delays  *)
(* and bounds.  None of them looks into a walk along the links (Above,     *)
(* Nearest, Below): what they need is what the records on the walk are     *)
(* tested for, not which records those are.                                *)
(*                                                                         *)
(* Of QuorumGrants, for any finite set of owners and any terms, amounts,   *)
(* windows and bounds.                                                     *)
(***************************************************************************)
EXTENDS Permissions, QuorumGrants, SumLemmas, SequenceTheorems

(* What a step writes to a record is a record, and changes the fields it   *)
(* names only.                                                             *)
SameMoney(r, old) == r.limit = old.limit /\ r.spent = old.spent
SameLife(r, old) == r.status = old.status /\ r.parent = old.parent

LEMMA StatusOK ==
  ASSUME NEW r \in Permission, NEW s \in {"Active", "Paused", "Revoked", "Expired"}
  PROVE  LET n == [r EXCEPT !.status = s]
         IN  n \in Permission /\ SameMoney(n, r) /\ n.status = s /\ n.parent = r.parent
BY DEF Permission, SameMoney

LEMMA MovedOK ==
  ASSUME NEW r \in Permission, NEW at \in Nat
  PROVE  LET n == [r EXCEPT !.status = "Active", !.created = at]
         IN  n \in Permission /\ SameMoney(n, r)
BY DEF Permission, SameMoney

LEMMA ExpiryOK ==
  ASSUME NEW r \in Permission, NEW at \in Nat
  PROVE  LET n == [r EXCEPT !.expires = at]
         IN  n \in Permission /\ SameMoney(n, r) /\ SameLife(n, r)
BY DEF Permission, SameMoney, SameLife

LEMMA RaiseOK ==
  ASSUME NEW r \in Permission, NEW x \in Nat
  PROVE  LET n == [r EXCEPT !.limit = @ + x]
         IN  n \in Permission /\ n.limit = r.limit + x /\ n.spent = r.spent /\ SameLife(n, r)
BY DEF Permission, SameLife

LEMMA LowerOK ==
  ASSUME NEW r \in Permission, NEW x \in Nat, r.limit - x >= r.spent
  PROVE  LET n == [r EXCEPT !.limit = @ - x]
         IN  n \in Permission /\ n.limit = r.limit - x /\ n.spent = r.spent /\ SameLife(n, r)
BY DEF Permission, SameLife

OwnSpend(r, at, x) ==
  [r EXCEPT !.spent = x + IF at > r.reset THEN 0 ELSE @, !.reset = at]

LEMMA OwnSpendOK ==
  ASSUME NEW r \in Permission, NEW at \in Nat, NEW x \in Nat
  PROVE  LET n == OwnSpend(r, at, x)
         IN  /\ n \in Permission /\ n.limit = r.limit /\ SameLife(n, r)
             /\ (n.spent = x \/ n.spent = r.spent + x)
<1>1. x + (IF at > r.reset THEN 0 ELSE r.spent) \in Nat
  BY DEF Permission
<1>2. LET y == x + (IF at > r.reset THEN 0 ELSE r.spent)
         IN  y = x \/ y = r.spent + x
  BY DEF Permission
<1> QED
  BY <1>1, <1>2 DEF OwnSpend, Permission, SameLife

(* A spend leaves its mark on the record of the spender. *)
LEMMA OwnSpendMoves ==
  ASSUME NEW r \in Permission, NEW at \in Nat, NEW x \in Nat \ {0}
  PROVE  OwnSpend(r, at, x) # r
<1>1. CASE at > r.reset
  <2>1. OwnSpend(r, at, x).reset = at /\ r.reset \in Nat
    BY DEF OwnSpend, Permission
  <2> QED
    BY <1>1, <2>1
<1>2. CASE ~(at > r.reset)
  <2>1. OwnSpend(r, at, x).spent = r.spent + x /\ r.spent \in Nat
    <3>1. OwnSpend(r, at, x).spent = x + r.spent
      BY <1>2 DEF OwnSpend, Permission
    <3> QED
      BY <3>1 DEF Permission
  <2> QED
    BY <2>1
<1> QED
  BY <1>1, <1>2

LEMMA ChargeOK ==
  ASSUME NEW r \in Permission, NEW x \in Nat
  PROVE  LET n == [r EXCEPT !.spent = @ + x]
         IN  /\ n \in Permission /\ n.limit = r.limit /\ SameLife(n, r)
             /\ n.spent = r.spent + x
<1>1. r.spent + x \in Nat
  BY DEF Permission
<1> QED
  BY <1>1 DEF Permission, SameLife

LEMMA NothingOK ==
  /\ NoPermission \in Permission
  /\ NoDecrease \in [amount : Nat, at : Nat]
  /\ NoSession \in [cap : Nat, spent : Nat, until : Nat]
BY DEF NoPermission, NoDecrease, NoSession, NoParent, Permission

LEMMA TermsOK ==
  ASSUME NEW t \in Terms
  PROVE  /\ t.limit \in Nat /\ t.perTx \in Nat /\ t.perTx > 0 /\ t.ttl \in Nat
BY TermsAssumption

LEMMA ConstantsOK ==
  /\ Timelock \in Nat /\ MaxNonce \in Nat /\ MaxEpoch \in Nat
  /\ \A x \in Changes : x \in Nat
  /\ Expiries \subseteq Nat
  /\ \A s \in Sessions : s.cap \in Nat /\ s.ttl \in Nat
  /\ Signed \subseteq Pairs
BY PermissionAssumption

LEMMA FreshOK ==
  ASSUME NEW t \in Terms, ledger \in Nat, NEW expires \in Nat,
         NEW parent \in Pairs \cup {NoParent}
  PROVE  LET n == Fresh(t, expires, parent)
         IN  /\ n \in Permission /\ n.spent = 0 /\ n.limit = t.limit
             /\ n.status = "Active" /\ n.parent = parent
BY TermsOK DEF Fresh, Permission, NoParent

(* Starting a new epoch. *)
LEMMA BumpOK ==
  ASSUME NEW p \in Pairs, PermissionTypeOK, BumpExecutionEpoch(p)
  PROVE  /\ epoch' \in [Pairs -> Nat]
         /\ nonce' \in [Pairs -> [Lanes -> Nat]]
         /\ reborn' \subseteq Signed
<1>1. CASE p \in Signed
  <2>1. epoch[p] + 1 \in Nat
    BY DEF PermissionTypeOK
  <2> QED
    BY <1>1, <2>1 DEF BumpExecutionEpoch, PermissionTypeOK
<1>2. CASE p \notin Signed
  BY <1>2 DEF BumpExecutionEpoch, PermissionTypeOK, signatureVars
<1> QED
  BY <1>1, <1>2

(* A step keeps every variable of its type. *)
LEMMA TypeStep ==
  ASSUME PermissionTypeOK, [PermissionNext]_permissionVars
  PROVE  PermissionTypeOK'
<1>1. CASE UNCHANGED permissionVars
  BY <1>1 DEF permissionVars, PermissionTypeOK, hierarchyVars, signatureVars
<1>2. CASE CloseLedger
  BY <1>2 DEF CloseLedger, PermissionTypeOK, hierarchyVars, signatureVars
<1>3. ASSUME NEW p \in Pairs, NEW t \in Terms,
             Grant(p, t)
      PROVE  PermissionTypeOK'
  <2>1. Fresh(t, ledger + t.ttl, NoParent) \in Permission
    BY FreshOK, TermsOK DEF PermissionTypeOK
  <2> QED
    BY <1>3, <2>1 DEF Grant, PermissionTypeOK, hierarchyVars, signatureVars
<1>4. ASSUME NEW p \in Pairs, NEW q \in Pairs, NEW t \in Terms,
             GrantChild(p, q, t)
      PROVE  PermissionTypeOK'
  <2>1. perm[p].expires \in Nat
    BY DEF PermissionTypeOK, Permission
  <2>2. (IF ledger + t.ttl < perm[p].expires THEN ledger + t.ttl ELSE perm[p].expires) \in Nat
    BY <2>1, TermsOK DEF PermissionTypeOK
  <2> QED
    BY <1>4, <2>2, FreshOK DEF GrantChild, PermissionTypeOK, hierarchyVars, signatureVars
<1>5. ASSUME NEW p \in Pairs, NEW q \in Pairs,
             TransferPermission(p, q)
      PROVE  PermissionTypeOK'
  BY <1>5, MovedOK, StatusOK, NothingOK DEF TransferPermission, PermissionTypeOK, hierarchyVars, signatureVars
<1>6. ASSUME NEW p \in Pairs, NEW s \in Sessions,
             GrantEphemeralSession(p, s)
      PROVE  PermissionTypeOK'
  <2>1. [cap |-> s.cap, spent |-> 0, until |-> ledger + s.ttl] \in [cap : Nat, spent : Nat, until : Nat]
    BY ConstantsOK DEF PermissionTypeOK
  <2> QED
    BY <1>6, <2>1 DEF GrantEphemeralSession, PermissionTypeOK, hierarchyVars, signatureVars
<1>7. ASSUME NEW p \in Pairs,
             EvictSession(p)
      PROVE  PermissionTypeOK'
  BY <1>7, NothingOK DEF EvictSession, PermissionTypeOK, hierarchyVars, signatureVars
<1>8. ASSUME NEW p \in Pairs,
             Revoke(p)
      PROVE  PermissionTypeOK'
  BY <1>8, StatusOK, NothingOK DEF Revoke, PermissionTypeOK, hierarchyVars, signatureVars
<1>9. ASSUME NEW p \in Pairs,
             Pause(p)
      PROVE  PermissionTypeOK'
  BY <1>9, StatusOK, BumpOK DEF Pause, PermissionTypeOK, hierarchyVars, signatureVars
<1>10. ASSUME NEW p \in Pairs,
             Resume(p)
      PROVE  PermissionTypeOK'
  BY <1>10, StatusOK, BumpOK DEF Resume, PermissionTypeOK, hierarchyVars, signatureVars
<1>11. ASSUME NEW p \in Pairs, NEW expires \in Expiries,
             UpdateExpiry(p, expires)
      PROVE  PermissionTypeOK'
  BY <1>11, ExpiryOK, PermissionAssumption DEF UpdateExpiry, PermissionTypeOK, hierarchyVars, signatureVars
<1>12. ASSUME NEW p \in Pairs, NEW x \in Changes,
             IncreaseAllowance(p, x)
      PROVE  PermissionTypeOK'
  BY <1>12, RaiseOK, PermissionAssumption DEF IncreaseAllowance, PermissionTypeOK, hierarchyVars, signatureVars
<1>13. ASSUME NEW p \in Pairs, NEW x \in Changes,
             DecreaseAllowance(p, x)
      PROVE  PermissionTypeOK'
  <2>1. [amount |-> x, at |-> ledger + Timelock] \in [amount : Nat, at : Nat]
    BY ConstantsOK DEF PermissionTypeOK
  <2> QED
    BY <1>13, <2>1 DEF DecreaseAllowance, PermissionTypeOK, hierarchyVars, signatureVars
<1>14. ASSUME NEW p \in Pairs,
             ExecuteDecreaseAllowance(p)
      PROVE  PermissionTypeOK'
  BY <1>14, LowerOK, NothingOK DEF ExecuteDecreaseAllowance, PermissionTypeOK, hierarchyVars, signatureVars
<1>15. ASSUME NEW p \in Pairs,
             SweepInactive(p)
      PROVE  PermissionTypeOK'
  BY <1>15, StatusOK, NothingOK DEF SweepInactive, PermissionTypeOK, hierarchyVars, signatureVars
<1>16. ASSUME NEW p \in Pairs,
             SweepExpired(p)
      PROVE  PermissionTypeOK'
  BY <1>16, StatusOK DEF SweepExpired, PermissionTypeOK, hierarchyVars, signatureVars
<1>17. ASSUME NEW p \in Pairs,
             PruneExpiredPermission(p)
      PROVE  PermissionTypeOK'
  BY <1>17, NothingOK DEF PruneExpiredPermission, PermissionTypeOK, hierarchyVars, signatureVars
<1>18. ASSUME NEW p \in Pairs, NEW x \in 1..perm[p].perTx,
             ExecuteSpend(p, x)
      PROVE  PermissionTypeOK'
  <2> DEFINE charged(q) == IF q = p THEN OwnSpend(perm[p], ledger, x)
                           ELSE IF q \in Above(p) THEN [perm[q] EXCEPT !.spent = @ + x]
                           ELSE perm[q]
  <2>1. x \in Nat /\ perm[p] \in Permission
    BY DEF PermissionTypeOK, Permission
  <2>2. \A q \in Pairs : charged(q) \in Permission
    BY <2>1, OwnSpendOK, ChargeOK DEF PermissionTypeOK
  <2>3. perm' = [q \in Pairs |-> charged(q)]
    BY <1>18 DEF ExecuteSpend, ApplySpend, OwnSpend
  <2>4. perm' \in [Pairs -> Permission]
    BY <2>2, <2>3
  <2> QED
    BY <1>18, <2>4 DEF ExecuteSpend, PermissionTypeOK, hierarchyVars, signatureVars
<1>19. ASSUME NEW p \in Pairs, NEW x \in 1..session[p].cap,
             SpendInSession(p, x)
      PROVE  PermissionTypeOK'
  <2>1. [session[p] EXCEPT !.spent = @ + x] \in [cap : Nat, spent : Nat, until : Nat]
    BY DEF PermissionTypeOK
  <2> QED
    BY <1>19, <2>1 DEF SpendInSession, PermissionTypeOK, hierarchyVars, signatureVars
<1>20. ASSUME NEW p \in Pairs, NEW lane \in Lanes, NEW x \in 1..perm[p].perTx,
             ExecuteSpendViaRelayer(p, lane, x)
      PROVE  PermissionTypeOK'
  <2> DEFINE charged(q) == IF q = p THEN OwnSpend(perm[p], ledger, x)
                           ELSE IF q \in Above(p) THEN [perm[q] EXCEPT !.spent = @ + x]
                           ELSE perm[q]
  <2>1. x \in Nat /\ perm[p] \in Permission
    BY DEF PermissionTypeOK, Permission
  <2>2. \A q \in Pairs : charged(q) \in Permission
    BY <2>1, OwnSpendOK, ChargeOK DEF PermissionTypeOK
  <2>3. perm' = [q \in Pairs |-> charged(q)]
    BY <1>20 DEF ExecuteSpendViaRelayer, ApplySpend, OwnSpend
  <2>4. perm' \in [Pairs -> Permission]
    BY <2>2, <2>3
  <2>5. [nonce[p] EXCEPT ![lane] = @ + 1] \in [Lanes -> Nat]
    BY DEF PermissionTypeOK
  <2> QED
    BY <1>20, <2>4, <2>5 DEF ExecuteSpendViaRelayer, PermissionTypeOK, hierarchyVars, signatureVars
<1>21. ASSUME NEW p \in Pairs, NEW n \in 0..MaxNonce,
             CancelNonce(p, n)
      PROVE  PermissionTypeOK'
  <2>1. n + 1 \in Nat
    BY ConstantsOK
  <2>2. nonce[p] \in [Lanes -> Nat]
    BY DEF PermissionTypeOK
  <2>3. [nonce[p] EXCEPT ![Plain] = n + 1] \in [Lanes -> Nat]
    BY <2>1, <2>2
  <2> QED
    BY <1>21, <2>3 DEF CancelNonce, PermissionTypeOK, hierarchyVars, signatureVars
<1> QED
  BY <1>1, <1>2, <1>3, <1>4, <1>5, <1>6, <1>7, <1>8, <1>9, <1>10,
     <1>11, <1>12, <1>13, <1>14, <1>15, <1>16, <1>17, <1>18, <1>19,
     <1>20, <1>21
     DEF PermissionNext, GrantStep, LifeStep, SpendStep

THEOREM TypeCorrect == PermissionSpec => []PermissionTypeOK
<1>1. PermissionInit => PermissionTypeOK
  BY NothingOK DEF PermissionInit, PermissionTypeOK
<1>2. PermissionTypeOK /\ [PermissionNext]_permissionVars => PermissionTypeOK'
  BY TypeStep
<1> QED
  BY <1>1, <1>2, PTL DEF PermissionSpec

(* No step overdraws an allowance or charges a lapsed record from near: a  *)
(* spend is tested against what is left of every record it charges and     *)
(* against the expiry of the nearest, a decrease against what was spent by *)
(* the time it is executed.                                                *)
MoneyIsKept ==
  /\ AllowanceHolds'
  /\ \A q \in Pairs :
       Exists(q) /\ perm'[q].spent > perm[q].spent =>
         ledger < perm[q].expires \/ \E r \in Pairs : ChargedFromAfar(q, r)

LEMMA MoneyStep ==
  ASSUME PermissionTypeOK, AllowanceHolds, [PermissionNext]_permissionVars
  PROVE  MoneyIsKept
<1>0. \A q \in Pairs : perm[q].spent \in Nat /\ perm[q].limit \in Nat
  BY DEF PermissionTypeOK, Permission
<1>1. CASE UNCHANGED permissionVars
  BY <1>0, <1>1 DEF permissionVars, MoneyIsKept, AllowanceHolds, Exists
<1>2. CASE CloseLedger
  BY <1>0, <1>2 DEF CloseLedger, MoneyIsKept, AllowanceHolds, Exists
<1>3. ASSUME NEW p \in Pairs, NEW t \in Terms,
             Grant(p, t)
      PROVE  MoneyIsKept
  <2>1. ledger + t.ttl \in Nat
    BY TermsOK DEF PermissionTypeOK
  <2>2. perm'[p].spent = 0 /\ perm'[p].limit = t.limit
    BY <1>3, <2>1, FreshOK DEF Grant, PermissionTypeOK
  <2>3. \A r \in Pairs \ {p} : perm'[r] = perm[r]
    BY <1>3 DEF Grant, PermissionTypeOK
  <2> QED
    BY <1>0, <2>2, <2>3, TermsOK DEF MoneyIsKept, AllowanceHolds
<1>4. ASSUME NEW p \in Pairs, NEW q \in Pairs, NEW t \in Terms,
             GrantChild(p, q, t)
      PROVE  MoneyIsKept
  <2>1. perm[p].expires \in Nat
    BY DEF PermissionTypeOK, Permission
  <2>2. (IF ledger + t.ttl < perm[p].expires THEN ledger + t.ttl ELSE perm[p].expires) \in Nat
    BY <2>1, TermsOK DEF PermissionTypeOK
  <2>3. perm'[q].spent = 0 /\ perm'[q].limit = t.limit
    BY <1>4, <2>2, FreshOK DEF GrantChild, PermissionTypeOK
  <2>4. \A r \in Pairs \ {q} : perm'[r] = perm[r]
    BY <1>4 DEF GrantChild, PermissionTypeOK
  <2> QED
    BY <1>0, <2>3, <2>4, TermsOK DEF MoneyIsKept, AllowanceHolds
<1>5. ASSUME NEW p \in Pairs, NEW q \in Pairs,
             TransferPermission(p, q)
      PROVE  MoneyIsKept
  <2>1. perm[p] \in Permission /\ ledger \in Nat
    BY DEF PermissionTypeOK
  <2>2. SameMoney(perm'[q], perm[p]) /\ SameMoney(perm'[p], perm[p])
    BY <1>5, <2>1, MovedOK, StatusOK DEF TransferPermission, PermissionTypeOK
  <2>3. \A r \in Pairs \ {p, q} : perm'[r] = perm[r]
    BY <1>5 DEF TransferPermission, PermissionTypeOK
  <2>4. AllowanceHolds'
    BY <2>2, <2>3 DEF AllowanceHolds, SameMoney
  <2>5. ~Exists(q) /\ perm'[p].spent = perm[p].spent
    BY <1>5, <2>2 DEF TransferPermission, SameMoney
  <2>6. \A r \in Pairs : Exists(r) => perm'[r].spent = perm[r].spent
    BY <2>3, <2>5
  <2> QED
    BY <1>0, <2>4, <2>6 DEF MoneyIsKept
<1>6. ASSUME NEW p \in Pairs, NEW s \in Sessions,
             GrantEphemeralSession(p, s)
      PROVE  MoneyIsKept
  BY <1>0, <1>6 DEF GrantEphemeralSession, MoneyIsKept, AllowanceHolds, Exists
<1>7. ASSUME NEW p \in Pairs,
             EvictSession(p)
      PROVE  MoneyIsKept
  BY <1>0, <1>7 DEF EvictSession, MoneyIsKept, AllowanceHolds, Exists
<1>8. ASSUME NEW p \in Pairs,
             Revoke(p)
      PROVE  MoneyIsKept
  <2>1. \A q \in Pairs : perm[q] \in Permission
    BY DEF PermissionTypeOK
  <2>2. \A q \in Pairs : SameMoney(perm'[q], perm[q])
    BY <1>8, <2>1, StatusOK DEF Revoke, PermissionTypeOK, SameMoney
  <2> QED
    BY <1>0, <2>2 DEF MoneyIsKept, AllowanceHolds, SameMoney
<1>9. ASSUME NEW p \in Pairs,
             Pause(p)
      PROVE  MoneyIsKept
  <2>1. perm[p] \in Permission
    BY DEF PermissionTypeOK
  <2>2. SameMoney(perm'[p], perm[p])
    BY <1>9, <2>1, StatusOK DEF Pause, PermissionTypeOK
  <2>3. \A q \in Pairs \ {p} : perm'[q] = perm[q]
    BY <1>9 DEF Pause, PermissionTypeOK
  <2> QED
    BY <1>0, <2>2, <2>3 DEF MoneyIsKept, AllowanceHolds, SameMoney
<1>10. ASSUME NEW p \in Pairs,
             Resume(p)
      PROVE  MoneyIsKept
  <2>1. perm[p] \in Permission
    BY DEF PermissionTypeOK
  <2>2. SameMoney(perm'[p], perm[p])
    BY <1>10, <2>1, StatusOK DEF Resume, PermissionTypeOK
  <2>3. \A q \in Pairs \ {p} : perm'[q] = perm[q]
    BY <1>10 DEF Resume, PermissionTypeOK
  <2> QED
    BY <1>0, <2>2, <2>3 DEF MoneyIsKept, AllowanceHolds, SameMoney
<1>11. ASSUME NEW p \in Pairs, NEW expires \in Expiries,
             UpdateExpiry(p, expires)
      PROVE  MoneyIsKept
  <2>1. perm[p] \in Permission /\ expires \in Nat
    BY ConstantsOK DEF PermissionTypeOK
  <2>2. SameMoney(perm'[p], perm[p])
    BY <1>11, <2>1, ExpiryOK DEF UpdateExpiry, PermissionTypeOK
  <2>3. \A q \in Pairs \ {p} : perm'[q] = perm[q]
    BY <1>11 DEF UpdateExpiry, PermissionTypeOK
  <2> QED
    BY <1>0, <2>2, <2>3 DEF MoneyIsKept, AllowanceHolds, SameMoney
<1>12. ASSUME NEW p \in Pairs, NEW x \in Changes,
             IncreaseAllowance(p, x)
      PROVE  MoneyIsKept
  <2>1. perm[p] \in Permission /\ x \in Nat
    BY ConstantsOK DEF PermissionTypeOK
  <2>2. perm'[p].limit = perm[p].limit + x /\ perm'[p].spent = perm[p].spent
    BY <1>12, <2>1, RaiseOK DEF IncreaseAllowance, PermissionTypeOK
  <2>3. perm[p].limit \in Nat /\ perm[p].spent \in Nat
    BY <2>1 DEF Permission
  <2>4. \A q \in Pairs \ {p} : perm'[q] = perm[q]
    BY <1>12 DEF IncreaseAllowance, PermissionTypeOK
  <2> QED
    BY <1>0, <2>1, <2>2, <2>4 DEF MoneyIsKept, AllowanceHolds
<1>13. ASSUME NEW p \in Pairs, NEW x \in Changes,
             DecreaseAllowance(p, x)
      PROVE  MoneyIsKept
  BY <1>0, <1>13 DEF DecreaseAllowance, MoneyIsKept, AllowanceHolds, Exists
<1>14. ASSUME NEW p \in Pairs,
             ExecuteDecreaseAllowance(p)
      PROVE  MoneyIsKept
  <2>1. perm[p] \in Permission /\ pending[p].amount \in Nat
    BY DEF PermissionTypeOK
  <2>2. /\ perm'[p].limit = perm[p].limit - pending[p].amount
        /\ perm'[p].spent = perm[p].spent
    BY <1>14, <2>1, LowerOK DEF ExecuteDecreaseAllowance, PermissionTypeOK
  <2>3. \A q \in Pairs \ {p} : perm'[q] = perm[q]
    BY <1>14 DEF ExecuteDecreaseAllowance, PermissionTypeOK
  <2> QED
    BY <1>0, <1>14, <2>2, <2>3 DEF ExecuteDecreaseAllowance, MoneyIsKept, AllowanceHolds
<1>15. ASSUME NEW p \in Pairs,
             SweepInactive(p)
      PROVE  MoneyIsKept
  <2>1. perm[p] \in Permission
    BY DEF PermissionTypeOK
  <2>2. SameMoney(perm'[p], perm[p])
    BY <1>15, <2>1, StatusOK DEF SweepInactive, PermissionTypeOK
  <2>3. \A q \in Pairs \ {p} : perm'[q] = perm[q]
    BY <1>15 DEF SweepInactive, PermissionTypeOK
  <2> QED
    BY <1>0, <2>2, <2>3 DEF MoneyIsKept, AllowanceHolds, SameMoney
<1>16. ASSUME NEW p \in Pairs,
             SweepExpired(p)
      PROVE  MoneyIsKept
  <2>1. perm[p] \in Permission
    BY DEF PermissionTypeOK
  <2>2. SameMoney(perm'[p], perm[p])
    BY <1>16, <2>1, StatusOK DEF SweepExpired, PermissionTypeOK
  <2>3. \A q \in Pairs \ {p} : perm'[q] = perm[q]
    BY <1>16 DEF SweepExpired, PermissionTypeOK
  <2> QED
    BY <1>0, <2>2, <2>3 DEF MoneyIsKept, AllowanceHolds, SameMoney
<1>17. ASSUME NEW p \in Pairs,
             PruneExpiredPermission(p)
      PROVE  MoneyIsKept
  <2>1. perm'[p].spent = 0 /\ perm'[p].limit = 0
    BY <1>17 DEF PruneExpiredPermission, NoPermission, PermissionTypeOK
  <2>2. \A q \in Pairs \ {p} : perm'[q] = perm[q]
    BY <1>17 DEF PruneExpiredPermission, PermissionTypeOK
  <2> QED
    BY <1>0, <2>1, <2>2 DEF MoneyIsKept, AllowanceHolds
<1>18. ASSUME NEW p \in Pairs, NEW x \in 1..perm[p].perTx,
             ExecuteSpend(p, x)
      PROVE  MoneyIsKept
  <2>1. \A q \in Pairs : perm[q].spent \in Nat /\ perm[q].limit \in Nat /\ perm[q].spent <= perm[q].limit
    BY DEF AllowanceHolds, PermissionTypeOK, Permission
  <2>2. \A q \in (Above(p) \cup {p}) \cap Pairs : perm[q].spent + x <= perm[q].limit
    BY <1>18, <2>1 DEF ExecuteSpend, MaySpend, Remaining
  <2>3. ASSUME NEW q \in Pairs
        PROVE  /\ perm'[q].limit = perm[q].limit /\ perm'[q].spent <= perm[q].limit
               /\ q \notin Above(p) \cup {p} => perm'[q] = perm[q]
    <3>0. perm[q] \in Permission /\ ledger \in Nat /\ x \in Nat
      <4>1. perm[p].perTx \in Nat
        BY DEF PermissionTypeOK, Permission
      <4> QED
        BY <4>1 DEF PermissionTypeOK
    <3>1. CASE q = p
      <4>1. perm'[q] = OwnSpend(perm[q], ledger, x)
        BY <1>18, <3>1 DEF ExecuteSpend, ApplySpend, OwnSpend
      <4>2. /\ OwnSpend(perm[q], ledger, x).limit = perm[q].limit
            /\ \/ OwnSpend(perm[q], ledger, x).spent = x
               \/ OwnSpend(perm[q], ledger, x).spent = perm[q].spent + x
        BY <3>0, OwnSpendOK
      <4>3. /\ perm'[q].limit = perm[q].limit
            /\ perm'[q].spent = x \/ perm'[q].spent = perm[q].spent + x
        BY <4>1, <4>2
      <4> QED
        BY <2>1, <2>2, <3>0, <3>1, <4>3
    <3>2. CASE q # p /\ q \in Above(p)
      <4>1. perm'[q] = [perm[q] EXCEPT !.spent = @ + x]
        BY <1>18, <3>2 DEF ExecuteSpend, ApplySpend
      <4>2. perm'[q].limit = perm[q].limit /\ perm'[q].spent = perm[q].spent + x
        BY <3>0, <4>1, ChargeOK
      <4> QED
        BY <2>1, <2>2, <3>2, <4>2
    <3>3. CASE q # p /\ q \notin Above(p)
      BY <1>18, <2>1, <3>3 DEF ExecuteSpend, ApplySpend
    <3> QED
      BY <3>1, <3>2, <3>3
  <2>4. ASSUME NEW q \in Pairs, perm'[q].spent > perm[q].spent
        PROVE  ledger < perm[q].expires \/ \E r \in Pairs : ChargedFromAfar(q, r)
    <3>1. CASE q \in Nearest(p) \cup {p}
      BY <1>18, <3>1 DEF ExecuteSpend, MaySpend
    <3>2. CASE q \notin Nearest(p) \cup {p}
      <4>1. perm[p] \in Permission /\ ledger \in Nat /\ x \in Nat \ {0}
        <5>1. perm[p].perTx \in Nat
          BY DEF PermissionTypeOK, Permission
        <5> QED
          BY <5>1 DEF PermissionTypeOK
      <4>2. perm'[q] # perm[q]
        BY <2>1, <2>4
      <4>3. q \in Above(p) \ Nearest(p)
        BY <2>3, <3>2, <4>2
      <4>4. perm'[p] = OwnSpend(perm[p], ledger, x)
        BY <1>18 DEF ExecuteSpend, ApplySpend, OwnSpend
      <4>5. perm'[p] # perm[p]
        BY <4>1, <4>4, OwnSpendMoves
      <4>6. ChargedFromAfar(q, p)
        BY <4>3, <4>5 DEF ChargedFromAfar
      <4> QED
        BY <4>6
    <3> QED
      BY <3>1, <3>2
  <2> QED
    BY <1>0, <2>3, <2>4 DEF MoneyIsKept, AllowanceHolds
<1>19. ASSUME NEW p \in Pairs, NEW x \in 1..session[p].cap,
             SpendInSession(p, x)
      PROVE  MoneyIsKept
  BY <1>0, <1>19 DEF SpendInSession, MoneyIsKept, AllowanceHolds, Exists
<1>20. ASSUME NEW p \in Pairs, NEW lane \in Lanes, NEW x \in 1..perm[p].perTx,
             ExecuteSpendViaRelayer(p, lane, x)
      PROVE  MoneyIsKept
  <2>1. \A q \in Pairs : perm[q].spent \in Nat /\ perm[q].limit \in Nat /\ perm[q].spent <= perm[q].limit
    BY DEF AllowanceHolds, PermissionTypeOK, Permission
  <2>2. \A q \in (Above(p) \cup {p}) \cap Pairs : perm[q].spent + x <= perm[q].limit
    BY <1>20, <2>1 DEF ExecuteSpendViaRelayer, MaySpend, Remaining
  <2>3. ASSUME NEW q \in Pairs
        PROVE  /\ perm'[q].limit = perm[q].limit /\ perm'[q].spent <= perm[q].limit
               /\ q \notin Above(p) \cup {p} => perm'[q] = perm[q]
    <3>0. perm[q] \in Permission /\ ledger \in Nat /\ x \in Nat
      <4>1. perm[p].perTx \in Nat
        BY DEF PermissionTypeOK, Permission
      <4> QED
        BY <4>1 DEF PermissionTypeOK
    <3>1. CASE q = p
      <4>1. perm'[q] = OwnSpend(perm[q], ledger, x)
        BY <1>20, <3>1 DEF ExecuteSpendViaRelayer, ApplySpend, OwnSpend
      <4>2. /\ OwnSpend(perm[q], ledger, x).limit = perm[q].limit
            /\ \/ OwnSpend(perm[q], ledger, x).spent = x
               \/ OwnSpend(perm[q], ledger, x).spent = perm[q].spent + x
        BY <3>0, OwnSpendOK
      <4>3. /\ perm'[q].limit = perm[q].limit
            /\ perm'[q].spent = x \/ perm'[q].spent = perm[q].spent + x
        BY <4>1, <4>2
      <4> QED
        BY <2>1, <2>2, <3>0, <3>1, <4>3
    <3>2. CASE q # p /\ q \in Above(p)
      <4>1. perm'[q] = [perm[q] EXCEPT !.spent = @ + x]
        BY <1>20, <3>2 DEF ExecuteSpendViaRelayer, ApplySpend
      <4>2. perm'[q].limit = perm[q].limit /\ perm'[q].spent = perm[q].spent + x
        BY <3>0, <4>1, ChargeOK
      <4> QED
        BY <2>1, <2>2, <3>2, <4>2
    <3>3. CASE q # p /\ q \notin Above(p)
      BY <1>20, <2>1, <3>3 DEF ExecuteSpendViaRelayer, ApplySpend
    <3> QED
      BY <3>1, <3>2, <3>3
  <2>4. ASSUME NEW q \in Pairs, perm'[q].spent > perm[q].spent
        PROVE  ledger < perm[q].expires \/ \E r \in Pairs : ChargedFromAfar(q, r)
    <3>1. CASE q \in Nearest(p) \cup {p}
      BY <1>20, <3>1 DEF ExecuteSpendViaRelayer, MaySpend
    <3>2. CASE q \notin Nearest(p) \cup {p}
      <4>1. perm[p] \in Permission /\ ledger \in Nat /\ x \in Nat \ {0}
        <5>1. perm[p].perTx \in Nat
          BY DEF PermissionTypeOK, Permission
        <5> QED
          BY <5>1 DEF PermissionTypeOK
      <4>2. perm'[q] # perm[q]
        BY <2>1, <2>4
      <4>3. q \in Above(p) \ Nearest(p)
        BY <2>3, <3>2, <4>2
      <4>4. perm'[p] = OwnSpend(perm[p], ledger, x)
        BY <1>20 DEF ExecuteSpendViaRelayer, ApplySpend, OwnSpend
      <4>5. perm'[p] # perm[p]
        BY <4>1, <4>4, OwnSpendMoves
      <4>6. ChargedFromAfar(q, p)
        BY <4>3, <4>5 DEF ChargedFromAfar
      <4> QED
        BY <4>6
    <3> QED
      BY <3>1, <3>2
  <2> QED
    BY <1>0, <2>3, <2>4 DEF MoneyIsKept, AllowanceHolds
<1>21. ASSUME NEW p \in Pairs, NEW n \in 0..MaxNonce,
             CancelNonce(p, n)
      PROVE  MoneyIsKept
  BY <1>0, <1>21 DEF CancelNonce, MoneyIsKept, AllowanceHolds, Exists
<1> QED
  BY <1>1, <1>2, <1>3, <1>4, <1>5, <1>6, <1>7, <1>8, <1>9, <1>10,
     <1>11, <1>12, <1>13, <1>14, <1>15, <1>16, <1>17, <1>18, <1>19,
     <1>20, <1>21
     DEF PermissionNext, GrantStep, LifeStep, SpendStep

(* No allowance is ever overdrawn (validate_chain, apply_spend and         *)
(* execute_decrease_allowance of permissions/src/lib.rs).                  *)
THEOREM AllowanceIsKept == PermissionSpec => []AllowanceHolds
<1>1. PermissionInit => AllowanceHolds
  BY DEF PermissionInit, AllowanceHolds, NoPermission
<1>2. PermissionTypeOK /\ AllowanceHolds /\ [PermissionNext]_permissionVars => AllowanceHolds'
  BY MoneyStep DEF MoneyIsKept
<1> QED
  BY <1>1, <1>2, TypeCorrect, PTL DEF PermissionSpec

(* Whatever an allowance is charged with, it is charged before it lapses   *)
(* (effective_expiry), also by those it was handed on to, unless they are  *)
(* farther below than that walk goes.                                      *)
THEOREM LapsedIsNotCharged == PermissionSpec => LapsedPaysNothing
<1>1. PermissionTypeOK /\ AllowanceHolds /\ [PermissionNext]_permissionVars
      => [\A p \in Pairs :
            Exists(p) /\ perm'[p].spent > perm[p].spent =>
              ledger < perm[p].expires \/ \E q \in Pairs : ChargedFromAfar(p, q)]_permissionVars
  BY MoneyStep DEF MoneyIsKept
<1> QED
  BY <1>1, TypeCorrect, AllowanceIsKept, PTL DEF PermissionSpec, LapsedPaysNothing

(* A session key beside a grant comes from a transfer or from above. *)
LEMMA SessionStep ==
  ASSUME PermissionTypeOK, SessionsStandAlone, [PermissionNext]_permissionVars
  PROVE  SessionsStandAlone'
<1>1. CASE UNCHANGED permissionVars
  BY <1>1 DEF permissionVars, SessionsStandAlone, InSession, Exists
<1>2. CASE CloseLedger
  BY <1>2 DEF CloseLedger, SessionsStandAlone, InSession, Exists
<1>3. ASSUME NEW p \in Pairs, NEW t \in Terms,
             Grant(p, t)
      PROVE  SessionsStandAlone'
  <2>1. session' = session /\ moved' = moved \ {p} /\ ~InSession(p)
    BY <1>3 DEF Grant
  <2>2. \A q \in Pairs \ {p} : perm'[q] = perm[q]
    BY <1>3 DEF Grant, PermissionTypeOK
  <2> QED
    BY <2>1, <2>2 DEF SessionsStandAlone, InSession, Exists
<1>4. ASSUME NEW p \in Pairs, NEW q \in Pairs, NEW t \in Terms,
             GrantChild(p, q, t)
      PROVE  SessionsStandAlone'
  <2>1. session' = session /\ moved' = moved \ {q}
    BY <1>4 DEF GrantChild
  <2>2. perm'[q].parent = p /\ \A r \in Pairs \ {q} : perm'[r] = perm[r]
    BY <1>4 DEF GrantChild, Fresh, PermissionTypeOK
  <2>3. p # NoParent
    BY PermissionAssumption DEF NoParent
  <2> QED
    BY <2>1, <2>2, <2>3 DEF SessionsStandAlone, InSession, Exists
<1>5. ASSUME NEW p \in Pairs, NEW q \in Pairs,
             TransferPermission(p, q)
      PROVE  SessionsStandAlone'
  <2>1. session' = session /\ moved' = moved \cup {q} /\ Exists(p) /\ perm[p] \in Permission
    BY <1>5 DEF TransferPermission, Exists, PermissionTypeOK
  <2>2. perm'[p].parent = perm[p].parent /\ \A r \in Pairs \ {p, q} : perm'[r] = perm[r]
    BY <1>5, <2>1, StatusOK DEF TransferPermission, PermissionTypeOK
  <2> QED
    BY <2>1, <2>2 DEF SessionsStandAlone, InSession, Exists
<1>6. ASSUME NEW p \in Pairs, NEW s \in Sessions,
             GrantEphemeralSession(p, s)
      PROVE  SessionsStandAlone'
  <2>1. \A q \in Pairs \ {p} : session'[q] = session[q]
    BY <1>6 DEF GrantEphemeralSession, PermissionTypeOK
  <2>2. perm' = perm /\ moved' = moved
    BY <1>6 DEF GrantEphemeralSession
  <2> QED
    BY <1>6, <2>1, <2>2 DEF GrantEphemeralSession, SessionsStandAlone, InSession, Exists
<1>7. ASSUME NEW p \in Pairs,
             EvictSession(p)
      PROVE  SessionsStandAlone'
  BY <1>7 DEF EvictSession, NoSession, SessionsStandAlone, InSession, Exists, PermissionTypeOK
<1>8. ASSUME NEW p \in Pairs,
             Revoke(p)
      PROVE  SessionsStandAlone'
  <2>1. \A q \in Pairs : perm[q] \in Permission
    BY DEF PermissionTypeOK
  <2>2. session' = session /\ moved' = moved
    BY <1>8 DEF Revoke
  <2>3. \A q \in Pairs : perm'[q].parent = perm[q].parent /\ (Exists(q)' => Exists(q))
    BY <1>8, <2>1, StatusOK DEF Revoke, Below, Exists, PermissionTypeOK
  <2> QED
    BY <1>8, <2>2, <2>3 DEF Revoke, SessionsStandAlone, InSession
<1>9. ASSUME NEW p \in Pairs,
             Pause(p)
      PROVE  SessionsStandAlone'
  <2>1. perm[p] \in Permission
    BY ConstantsOK DEF PermissionTypeOK
  <2>2. perm'[p].parent = perm[p].parent /\ (Exists(p)' => Exists(p))
    BY <1>9, <2>1, StatusOK DEF Pause, Exists, SameLife, PermissionTypeOK
  <2>3. \A q \in Pairs \ {p} : perm'[q] = perm[q]
    BY <1>9 DEF Pause, PermissionTypeOK
  <2>4. session' = session /\ moved' = moved
    BY <1>9 DEF Pause
  <2> QED
    BY <2>2, <2>3, <2>4 DEF SessionsStandAlone, InSession, Exists
<1>10. ASSUME NEW p \in Pairs,
             Resume(p)
      PROVE  SessionsStandAlone'
  <2>1. perm[p] \in Permission
    BY ConstantsOK DEF PermissionTypeOK
  <2>2. perm'[p].parent = perm[p].parent /\ (Exists(p)' => Exists(p))
    BY <1>10, <2>1, StatusOK DEF Resume, Exists, SameLife, PermissionTypeOK
  <2>3. \A q \in Pairs \ {p} : perm'[q] = perm[q]
    BY <1>10 DEF Resume, PermissionTypeOK
  <2>4. session' = session /\ moved' = moved
    BY <1>10 DEF Resume
  <2> QED
    BY <2>2, <2>3, <2>4 DEF SessionsStandAlone, InSession, Exists
<1>11. ASSUME NEW p \in Pairs, NEW expires \in Expiries,
             UpdateExpiry(p, expires)
      PROVE  SessionsStandAlone'
  <2>1. perm[p] \in Permission /\ expires \in Nat
    BY ConstantsOK DEF PermissionTypeOK
  <2>2. perm'[p].parent = perm[p].parent /\ (Exists(p)' => Exists(p))
    BY <1>11, <2>1, ExpiryOK DEF UpdateExpiry, Exists, SameLife, PermissionTypeOK
  <2>3. \A q \in Pairs \ {p} : perm'[q] = perm[q]
    BY <1>11 DEF UpdateExpiry, PermissionTypeOK
  <2>4. session' = session /\ moved' = moved
    BY <1>11 DEF UpdateExpiry
  <2> QED
    BY <2>2, <2>3, <2>4 DEF SessionsStandAlone, InSession, Exists
<1>12. ASSUME NEW p \in Pairs, NEW x \in Changes,
             IncreaseAllowance(p, x)
      PROVE  SessionsStandAlone'
  <2>1. perm[p] \in Permission /\ x \in Nat
    BY ConstantsOK DEF PermissionTypeOK
  <2>2. perm'[p].parent = perm[p].parent /\ (Exists(p)' => Exists(p))
    BY <1>12, <2>1, RaiseOK DEF IncreaseAllowance, Exists, SameLife, PermissionTypeOK
  <2>3. \A q \in Pairs \ {p} : perm'[q] = perm[q]
    BY <1>12 DEF IncreaseAllowance, PermissionTypeOK
  <2>4. session' = session /\ moved' = moved
    BY <1>12 DEF IncreaseAllowance
  <2> QED
    BY <2>2, <2>3, <2>4 DEF SessionsStandAlone, InSession, Exists
<1>13. ASSUME NEW p \in Pairs, NEW x \in Changes,
             DecreaseAllowance(p, x)
      PROVE  SessionsStandAlone'
  BY <1>13 DEF DecreaseAllowance, SessionsStandAlone, InSession, Exists
<1>14. ASSUME NEW p \in Pairs,
             ExecuteDecreaseAllowance(p)
      PROVE  SessionsStandAlone'
  <2>1. perm[p] \in Permission /\ pending[p].amount \in Nat
    BY ConstantsOK DEF PermissionTypeOK
  <2>2. perm'[p].parent = perm[p].parent /\ (Exists(p)' => Exists(p))
    BY <1>14, <2>1, LowerOK DEF ExecuteDecreaseAllowance, Exists, SameLife, PermissionTypeOK
  <2>3. \A q \in Pairs \ {p} : perm'[q] = perm[q]
    BY <1>14 DEF ExecuteDecreaseAllowance, PermissionTypeOK
  <2>4. session' = session /\ moved' = moved
    BY <1>14 DEF ExecuteDecreaseAllowance
  <2> QED
    BY <2>2, <2>3, <2>4 DEF SessionsStandAlone, InSession, Exists
<1>15. ASSUME NEW p \in Pairs,
             SweepInactive(p)
      PROVE  SessionsStandAlone'
  <2>1. perm[p] \in Permission
    BY ConstantsOK DEF PermissionTypeOK
  <2>2. perm'[p].parent = perm[p].parent /\ (Exists(p)' => Exists(p))
    BY <1>15, <2>1, StatusOK DEF SweepInactive, Exists, SameLife, PermissionTypeOK
  <2>3. \A q \in Pairs \ {p} : perm'[q] = perm[q]
    BY <1>15 DEF SweepInactive, PermissionTypeOK
  <2>4. session' = session /\ moved' = moved
    BY <1>15 DEF SweepInactive
  <2> QED
    BY <2>2, <2>3, <2>4 DEF SessionsStandAlone, InSession, Exists
<1>16. ASSUME NEW p \in Pairs,
             SweepExpired(p)
      PROVE  SessionsStandAlone'
  <2>1. perm[p] \in Permission
    BY ConstantsOK DEF PermissionTypeOK
  <2>2. perm'[p].parent = perm[p].parent /\ (Exists(p)' => Exists(p))
    BY <1>16, <2>1, StatusOK DEF SweepExpired, Exists, SameLife, PermissionTypeOK
  <2>3. \A q \in Pairs \ {p} : perm'[q] = perm[q]
    BY <1>16 DEF SweepExpired, PermissionTypeOK
  <2>4. session' = session /\ moved' = moved
    BY <1>16 DEF SweepExpired
  <2> QED
    BY <2>2, <2>3, <2>4 DEF SessionsStandAlone, InSession, Exists
<1>17. ASSUME NEW p \in Pairs,
             PruneExpiredPermission(p)
      PROVE  SessionsStandAlone'
  <2>1. session' = session /\ moved' = moved \ {p}
    BY <1>17 DEF PruneExpiredPermission
  <2>2. perm'[p].status = "None" /\ \A q \in Pairs \ {p} : perm'[q] = perm[q]
    BY <1>17 DEF PruneExpiredPermission, NoPermission, PermissionTypeOK
  <2> QED
    BY <2>1, <2>2 DEF SessionsStandAlone, InSession, Exists
<1>18. ASSUME NEW p \in Pairs, NEW x \in 1..perm[p].perTx,
             ExecuteSpend(p, x)
      PROVE  SessionsStandAlone'
  <2>1. \A q \in Pairs : perm[q] \in Permission
    BY DEF PermissionTypeOK
  <2>2. ledger \in Nat /\ x \in Nat
    BY <2>1 DEF PermissionTypeOK, Permission
  <2>3. ASSUME NEW q \in Pairs
        PROVE  SameLife(perm'[q], perm[q])
    <3>1. CASE q = p
      <4>1. perm'[q] = OwnSpend(perm[q], ledger, x)
        BY <1>18, <3>1 DEF ExecuteSpend, ApplySpend, OwnSpend
      <4>2. SameLife(OwnSpend(perm[q], ledger, x), perm[q])
        BY <2>1, <2>2, OwnSpendOK
      <4> QED
        BY <4>1, <4>2
    <3>2. CASE q # p /\ q \in Above(p)
      <4>1. perm'[q] = [perm[q] EXCEPT !.spent = @ + x]
        BY <1>18, <3>2 DEF ExecuteSpend, ApplySpend
      <4> QED
        BY <2>1, <2>2, <4>1, ChargeOK
    <3>3. CASE q # p /\ q \notin Above(p)
      BY <1>18, <3>3 DEF ExecuteSpend, ApplySpend, SameLife
    <3> QED
      BY <3>1, <3>2, <3>3
  <2>4. session' = session /\ moved' = moved
    BY <1>18 DEF ExecuteSpend
  <2> QED
    BY <2>3, <2>4 DEF SessionsStandAlone, InSession, Exists, SameLife
<1>19. ASSUME NEW p \in Pairs, NEW x \in 1..session[p].cap,
             SpendInSession(p, x)
      PROVE  SessionsStandAlone'
  <2>1. InSession(p) /\ perm' = perm /\ moved' = moved
    BY <1>19 DEF SpendInSession
  <2>2. \A q \in Pairs \ {p} : session'[q] = session[q]
    BY <1>19 DEF SpendInSession, PermissionTypeOK
  <2> QED
    BY <2>1, <2>2 DEF SessionsStandAlone, InSession, Exists
<1>20. ASSUME NEW p \in Pairs, NEW lane \in Lanes, NEW x \in 1..perm[p].perTx,
             ExecuteSpendViaRelayer(p, lane, x)
      PROVE  SessionsStandAlone'
  <2>1. \A q \in Pairs : perm[q] \in Permission
    BY DEF PermissionTypeOK
  <2>2. ledger \in Nat /\ x \in Nat
    BY <2>1 DEF PermissionTypeOK, Permission
  <2>3. ASSUME NEW q \in Pairs
        PROVE  SameLife(perm'[q], perm[q])
    <3>1. CASE q = p
      <4>1. perm'[q] = OwnSpend(perm[q], ledger, x)
        BY <1>20, <3>1 DEF ExecuteSpendViaRelayer, ApplySpend, OwnSpend
      <4>2. SameLife(OwnSpend(perm[q], ledger, x), perm[q])
        BY <2>1, <2>2, OwnSpendOK
      <4> QED
        BY <4>1, <4>2
    <3>2. CASE q # p /\ q \in Above(p)
      <4>1. perm'[q] = [perm[q] EXCEPT !.spent = @ + x]
        BY <1>20, <3>2 DEF ExecuteSpendViaRelayer, ApplySpend
      <4> QED
        BY <2>1, <2>2, <4>1, ChargeOK
    <3>3. CASE q # p /\ q \notin Above(p)
      BY <1>20, <3>3 DEF ExecuteSpendViaRelayer, ApplySpend, SameLife
    <3> QED
      BY <3>1, <3>2, <3>3
  <2>4. session' = session /\ moved' = moved
    BY <1>20 DEF ExecuteSpendViaRelayer
  <2> QED
    BY <2>3, <2>4 DEF SessionsStandAlone, InSession, Exists, SameLife
<1>21. ASSUME NEW p \in Pairs, NEW n \in 0..MaxNonce,
             CancelNonce(p, n)
      PROVE  SessionsStandAlone'
  BY <1>21 DEF CancelNonce, SessionsStandAlone, InSession, Exists
<1> QED
  BY <1>1, <1>2, <1>3, <1>4, <1>5, <1>6, <1>7, <1>8, <1>9, <1>10,
     <1>11, <1>12, <1>13, <1>14, <1>15, <1>16, <1>17, <1>18, <1>19,
     <1>20, <1>21
     DEF PermissionNext, GrantStep, LifeStep, SpendStep

(* A delegate has a session key or a grant of the same owner, not both     *)
(* (grant_impl and grant_ephemeral_session refuse), but for the two ways   *)
(* of getting a grant that do not ask.                                     *)
THEOREM SessionsAreAlone == PermissionSpec => []SessionsStandAlone
<1>1. PermissionInit => SessionsStandAlone
  BY DEF PermissionInit, SessionsStandAlone, InSession, NoSession
<1>2. PermissionTypeOK /\ SessionsStandAlone /\ [PermissionNext]_permissionVars => SessionsStandAlone'
  BY SessionStep
<1> QED
  BY <1>1, <1>2, TypeCorrect, PTL DEF PermissionSpec

(* Why a dead message stays dead: it lags behind the epoch of its pair or  *)
(* behind the nonce of its lane, and neither ever goes back, but for what  *)
(* pruning does to the nonces and a child's grant to the epoch.            *)
DeadSignature == [pair : Pairs, lane : Lanes, epoch : Nat, nonce : Nat]

Behind(s) == s.epoch < epoch[s.pair] \/ s.nonce < nonce[s.pair][s.lane]

DeadAreBehind ==
  \A s \in dead :
    s \in DeadSignature /\ (s.pair \in Signed \ reborn => Behind(s))

LEMMA SilentStep ==
  ASSUME DeadAreBehind, UNCHANGED signatureVars
  PROVE  DeadAreBehind'
BY DEF DeadAreBehind, Behind, signatureVars

LEMMA NewEpochStep ==
  ASSUME PermissionTypeOK, DeadAreBehind, NEW p \in Pairs, BumpExecutionEpoch(p)
  PROVE  DeadAreBehind'
<1>1. CASE p \notin Signed
  BY <1>1, SilentStep DEF BumpExecutionEpoch
<1>2. CASE p \in Signed
  <2>1. /\ dead' = dead \cup Outlived(p)
        /\ nonce' = nonce /\ reborn' = reborn
    BY <1>2 DEF BumpExecutionEpoch
  <2>2. epoch[p] \in Nat /\ epoch'[p] = epoch[p] + 1
    BY <1>2 DEF BumpExecutionEpoch, PermissionTypeOK
  <2>3. \A q \in Pairs \ {p} : epoch'[q] = epoch[q]
    BY <1>2 DEF BumpExecutionEpoch, PermissionTypeOK
  <2>4. ASSUME NEW s \in dead
        PROVE  s \in DeadSignature /\ (s.pair \in Signed \ reborn => Behind(s)')
    <3>1. s \in DeadSignature /\ (s.pair \in Signed \ reborn => Behind(s))
      BY DEF DeadAreBehind
    <3>2. s.pair \in Pairs /\ s.epoch \in Nat
      BY <3>1 DEF DeadSignature
    <3>3. CASE s.pair = p
      BY <2>1, <2>2, <3>1, <3>2, <3>3 DEF Behind
    <3>4. CASE s.pair # p
      BY <2>1, <2>3, <3>1, <3>2, <3>4 DEF Behind
    <3> QED
      BY <3>3, <3>4
  <2>5. ASSUME NEW s \in Outlived(p)
        PROVE  s \in DeadSignature /\ Behind(s)'
    <3>1. s \in DeadSignature /\ s.pair = p /\ s.epoch = epoch[p]
      BY ConstantsOK DEF Outlived, Signature, DeadSignature
    <3> QED
      BY <2>2, <3>1 DEF Behind
  <2> QED
    BY <2>1, <2>4, <2>5 DEF DeadAreBehind
<1> QED
  BY <1>1, <1>2

LEMMA SignatureStep ==
  ASSUME PermissionTypeOK, DeadAreBehind, [PermissionNext]_permissionVars
  PROVE  DeadAreBehind'
<1>1. CASE UNCHANGED permissionVars
  BY SilentStep, <1>1 DEF permissionVars
<1>2. CASE CloseLedger
  BY SilentStep, <1>2 DEF CloseLedger
<1>3. ASSUME NEW p \in Pairs, NEW t \in Terms,
             Grant(p, t)
      PROVE  DeadAreBehind'
  BY SilentStep, <1>3 DEF Grant
<1>4. ASSUME NEW p \in Pairs, NEW q \in Pairs, NEW t \in Terms,
             GrantChild(p, q, t)
      PROVE  DeadAreBehind'
  <2>1. /\ dead' = dead /\ nonce' = nonce /\ reborn' = reborn \cup ({q} \cap Signed)
        /\ \A r \in Pairs \ {q} : epoch'[r] = epoch[r]
    BY <1>4 DEF GrantChild, PermissionTypeOK
  <2> QED
    BY <2>1 DEF DeadAreBehind, DeadSignature, Behind
<1>5. ASSUME NEW p \in Pairs, NEW q \in Pairs,
             TransferPermission(p, q)
      PROVE  DeadAreBehind'
  BY SilentStep, <1>5 DEF TransferPermission
<1>6. ASSUME NEW p \in Pairs, NEW s \in Sessions,
             GrantEphemeralSession(p, s)
      PROVE  DeadAreBehind'
  BY SilentStep, <1>6 DEF GrantEphemeralSession
<1>7. ASSUME NEW p \in Pairs,
             EvictSession(p)
      PROVE  DeadAreBehind'
  BY SilentStep, <1>7 DEF EvictSession
<1>8. ASSUME NEW p \in Pairs,
             Revoke(p)
      PROVE  DeadAreBehind'
  BY SilentStep, <1>8 DEF Revoke
<1>9. ASSUME NEW p \in Pairs,
             Pause(p)
      PROVE  DeadAreBehind'
  BY <1>9, NewEpochStep DEF Pause
<1>10. ASSUME NEW p \in Pairs,
             Resume(p)
      PROVE  DeadAreBehind'
  BY <1>10, NewEpochStep DEF Resume
<1>11. ASSUME NEW p \in Pairs, NEW expires \in Expiries,
             UpdateExpiry(p, expires)
      PROVE  DeadAreBehind'
  BY SilentStep, <1>11 DEF UpdateExpiry
<1>12. ASSUME NEW p \in Pairs, NEW x \in Changes,
             IncreaseAllowance(p, x)
      PROVE  DeadAreBehind'
  BY SilentStep, <1>12 DEF IncreaseAllowance
<1>13. ASSUME NEW p \in Pairs, NEW x \in Changes,
             DecreaseAllowance(p, x)
      PROVE  DeadAreBehind'
  BY SilentStep, <1>13 DEF DecreaseAllowance
<1>14. ASSUME NEW p \in Pairs,
             ExecuteDecreaseAllowance(p)
      PROVE  DeadAreBehind'
  BY SilentStep, <1>14 DEF ExecuteDecreaseAllowance
<1>15. ASSUME NEW p \in Pairs,
             SweepInactive(p)
      PROVE  DeadAreBehind'
  BY SilentStep, <1>15 DEF SweepInactive
<1>16. ASSUME NEW p \in Pairs,
             SweepExpired(p)
      PROVE  DeadAreBehind'
  BY SilentStep, <1>16 DEF SweepExpired
<1>17. ASSUME NEW p \in Pairs,
             PruneExpiredPermission(p)
      PROVE  DeadAreBehind'
  <2>1. /\ dead' = dead /\ epoch' = epoch /\ reborn' = reborn \cup ({p} \cap Signed)
        /\ \A r \in Pairs \ {p} : nonce'[r] = nonce[r]
    BY <1>17 DEF PruneExpiredPermission, PermissionTypeOK
  <2> QED
    BY <2>1 DEF DeadAreBehind, DeadSignature, Behind
<1>18. ASSUME NEW p \in Pairs, NEW x \in 1..perm[p].perTx,
             ExecuteSpend(p, x)
      PROVE  DeadAreBehind'
  BY SilentStep, <1>18 DEF ExecuteSpend
<1>19. ASSUME NEW p \in Pairs, NEW x \in 1..session[p].cap,
             SpendInSession(p, x)
      PROVE  DeadAreBehind'
  BY SilentStep, <1>19 DEF SpendInSession
<1>20. ASSUME NEW p \in Pairs, NEW lane \in Lanes, NEW x \in 1..perm[p].perTx,
             ExecuteSpendViaRelayer(p, lane, x)
      PROVE  DeadAreBehind'
  <2>1. /\ dead' = dead \cup {Upcoming(p, lane)}
        /\ epoch' = epoch /\ reborn' = reborn
    BY <1>20 DEF ExecuteSpendViaRelayer
  <2>2. nonce'[p][lane] = nonce[p][lane] + 1 /\ nonce[p][lane] \in Nat /\ epoch[p] \in Nat
    BY <1>20 DEF ExecuteSpendViaRelayer, PermissionTypeOK
  <2>3. \A r \in Pairs, l \in Lanes : nonce'[r][l] \in {nonce[r][l], nonce[r][l] + 1}
    BY <1>20 DEF ExecuteSpendViaRelayer, PermissionTypeOK
  <2>4. ASSUME NEW s \in dead
        PROVE  s \in DeadSignature /\ (s.pair \in Signed \ reborn => Behind(s)')
    <3>1. s \in DeadSignature /\ (s.pair \in Signed \ reborn => Behind(s))
      BY DEF DeadAreBehind
    <3>2. nonce[s.pair][s.lane] \in Nat /\ nonce'[s.pair][s.lane] \in {nonce[s.pair][s.lane], nonce[s.pair][s.lane] + 1}
      BY <2>3, <3>1 DEF DeadSignature, PermissionTypeOK
    <3>3. s.nonce \in Nat
      BY <3>1 DEF DeadSignature
    <3> QED
      BY <2>1, <3>1, <3>2, <3>3 DEF Behind
  <2>5. ASSUME NEW s \in {Upcoming(p, lane)}
        PROVE  s \in DeadSignature /\ Behind(s)'
    BY <2>2 DEF Upcoming, DeadSignature, Behind
  <2> QED
    BY <2>1, <2>4, <2>5 DEF DeadAreBehind
<1>21. ASSUME NEW p \in Pairs, NEW n \in 0..MaxNonce,
             CancelNonce(p, n)
      PROVE  DeadAreBehind'
  <2> DEFINE voided == {s \in Signature : s.pair = p /\ s.lane = Plain /\ s.nonce <= n}
  <2>1. dead' = dead \cup voided /\ epoch' = epoch /\ reborn' = reborn
    BY <1>21 DEF CancelNonce
  <2>2. n \in Nat /\ \A r \in Pairs : nonce[r] \in [Lanes -> Nat]
    BY ConstantsOK DEF PermissionTypeOK
  <2>3. Plain \in Lanes => n >= nonce[p][Plain] /\ nonce'[p][Plain] = n + 1
    BY <1>21 DEF CancelNonce, PermissionTypeOK
  <2>4. \A r \in Pairs, l \in Lanes : r # p \/ l # Plain => nonce'[r][l] = nonce[r][l]
    BY <1>21 DEF CancelNonce, PermissionTypeOK
  <2>5. ASSUME NEW s \in dead
        PROVE  s \in DeadSignature /\ (s.pair \in Signed \ reborn => Behind(s)')
    <3>1. s \in DeadSignature /\ (s.pair \in Signed \ reborn => Behind(s))
      BY DEF DeadAreBehind
    <3>2. s.pair \in Pairs /\ s.lane \in Lanes /\ s.nonce \in Nat
      BY <3>1 DEF DeadSignature
    <3>3. CASE s.pair = p /\ s.lane = Plain
      <4>1. nonce[p][Plain] \in Nat
        BY <2>2, <3>2, <3>3
      <4> QED
        BY <2>1, <2>2, <2>3, <3>1, <3>2, <3>3, <4>1 DEF Behind
    <3>4. CASE s.pair # p \/ s.lane # Plain
      BY <2>1, <2>4, <3>1, <3>2, <3>4 DEF Behind
    <3> QED
      BY <3>3, <3>4
  <2>6. ASSUME NEW s \in voided
        PROVE  s \in DeadSignature /\ Behind(s)'
    <3>1. s \in DeadSignature /\ s.pair = p /\ s.lane = Plain /\ s.nonce <= n
      BY ConstantsOK DEF Signature, DeadSignature
    <3>2. s.nonce \in Nat /\ Plain \in Lanes
      BY <3>1 DEF DeadSignature
    <3> QED
      BY <2>2, <2>3, <3>1, <3>2 DEF Behind
  <2> HIDE DEF voided
  <2> QED
    BY <2>1, <2>5, <2>6 DEF DeadAreBehind
<1> QED
  BY <1>1, <1>2, <1>3, <1>4, <1>5, <1>6, <1>7, <1>8, <1>9, <1>10,
     <1>11, <1>12, <1>13, <1>14, <1>15, <1>16, <1>17, <1>18, <1>19,
     <1>20, <1>21
     DEF PermissionNext, GrantStep, LifeStep, SpendStep

(* What was used, cancelled or outlived by a pause is never what the       *)
(* contract accepts next (execute_spend_via_relayer, cancel_nonce,         *)
(* bump_execution_epoch), unless its record was pruned or granted as a     *)
(* child since.                                                            *)
THEOREM DeadSignaturesAreRefused == PermissionSpec => []DeadSignaturesStayDead
<1>1. PermissionInit => DeadAreBehind
  BY DEF PermissionInit, DeadAreBehind
<1>2. PermissionTypeOK /\ DeadAreBehind /\ [PermissionNext]_permissionVars => DeadAreBehind'
  BY SignatureStep
<1>3. PermissionTypeOK /\ DeadAreBehind => DeadSignaturesStayDead
  <2> SUFFICES ASSUME PermissionTypeOK, DeadAreBehind,
                      NEW p \in Signed \ reborn, NEW lane \in Lanes, Upcoming(p, lane) \in dead
               PROVE  FALSE
    BY DEF DeadSignaturesStayDead
  <2>1. Behind(Upcoming(p, lane))
    BY DEF DeadAreBehind, Upcoming
  <2>2. epoch[p] < epoch[p] \/ nonce[p][lane] < nonce[p][lane]
    BY <2>1 DEF Behind, Upcoming
  <2> QED
    BY <2>2, ConstantsOK DEF PermissionTypeOK
<1> QED
  BY <1>1, <1>2, <1>3, TypeCorrect, PTL DEF PermissionSpec

-----------------------------------------------------------------------------
(***************************************************************************)
(* Grants of several owners (QuorumGrants).                                *)
(***************************************************************************)

(* The invariant. *)

GrantRecord ==
  [owners : SUBSET Owners, threshold : Nat, limit : Nat, perTx : Nat, spent : Int,
   expires : Nat]

SpendRecord ==
  [amount : Int, approvals : Seq(Owners), expires : Nat, executed : BOOLEAN,
   primary : {<<p>> : p \in Owners}, threshold : Nat]

GrantInv ==
  /\ grant \in [Owners -> GrantRecord]
  /\ QuorumIsReachable
  /\ SharedLimitHolds

SpendTypes ==
  /\ proposal \in [Ids -> SpendRecord \cup {NoProposal}]
  /\ lastId \in 0..MaxId
  /\ queue \subseteq 1..lastId
  /\ vouched \in [Ids -> SUBSET Owners]

(* Whoever is counted as an approval has signed, and is counted once. *)
DistinctSigners ==
  \A id \in Ids :
    /\ Range(proposal[id].approvals) \subseteq vouched[id]
    /\ Len(proposal[id].approvals) <= Cardinality(Range(proposal[id].approvals))

SpendInv == SpendTypes /\ DistinctSigners /\ OpenSpendsAreQueued

LiveQueue == {id \in queue : Live(id)}

QuorumInv == ledger \in Nat /\ GrantInv /\ SpendInv

LEMMA QuorumConstants ==
  /\ IsFiniteSet(Owners)
  /\ MaxPending \in Nat /\ ProposalTtl \in Nat /\ MaxId \in Nat
  /\ Ids \subseteq Nat \ {0} /\ IsFiniteSet(Ids)
<1>1. IsFiniteSet(1..MaxId)
  BY QuorumAssumption, FS_Interval
<1> QED
  BY <1>1, QuorumAssumption DEF Ids

LEMMA EmptyGrant == NoGrant \in GrantRecord /\ NoGrant.spent = 0 /\ NoGrant.limit = 0
  BY DEF NoGrant, GrantRecord

LEMMA EmptyProposal == NoProposal.approvals = <<>> /\ NoProposal.executed = FALSE
  BY DEF NoProposal

LEMMA NoSigners ==
  \A s, v : s = <<>> => Range(s) \subseteq v /\ Len(s) <= Cardinality(Range(s))
<1>1. Range(<<>>) = {} /\ Len(<<>>) = 0
  BY DEF Range
<1> QED
  BY <1>1, FS_EmptySet

LEMMA QueuedIds == SpendTypes => queue \subseteq Ids
<1> SUFFICES ASSUME SpendTypes, NEW id \in queue
             PROVE  id \in Ids
  OBVIOUS
<1>1. lastId \in 0..MaxId /\ id \in 1..lastId /\ MaxId \in Nat
  BY QuorumConstants DEF SpendTypes
<1> QED
  BY <1>1 DEF Ids

(* An open proposal is a record of its own. *)
LEMMA OpenRecords == SpendTypes => \A id \in Ids : Open(id) => proposal[id] \in SpendRecord
  BY DEF SpendTypes, Open, Stored

LEMMA QueueBound == OpenSpendsAreQueued <=> /\ \A id \in Ids : Open(id) => id \in queue
                                            /\ Cardinality(LiveQueue) <= MaxPending
  BY DEF OpenSpendsAreQueued, LiveQueue

(* A queue whose live part shrinks keeps its bound. *)
LEMMA QueueShrinks ==
  ASSUME SpendInv, SpendTypes', \A id \in Ids : Open(id)' => id \in queue',
         LiveQueue' \subseteq LiveQueue
  PROVE  OpenSpendsAreQueued'
<1>1. LiveQueue \subseteq Ids /\ Cardinality(LiveQueue) <= MaxPending
  BY QueuedIds, QueueBound DEF SpendInv, LiveQueue
<1>2. IsFiniteSet(LiveQueue)
  BY <1>1, QuorumConstants, FS_Subset
<1>3. /\ Cardinality(LiveQueue') <= Cardinality(LiveQueue)
      /\ Cardinality(LiveQueue') \in Nat /\ Cardinality(LiveQueue) \in Nat
  BY <1>2, FS_Subset, FS_CardinalityType
<1>4. Cardinality(LiveQueue)' <= MaxPending
  BY <1>1, <1>3, QuorumConstants
<1> QED
  BY <1>4 DEF OpenSpendsAreQueued, LiveQueue

LEMMA QuorumInitOk == QuorumInit => QuorumInv
<1> SUFFICES ASSUME QuorumInit
             PROVE  QuorumInv
  OBVIOUS
<1>1. GrantInv
  BY EmptyGrant DEF QuorumInit, GrantInv, QuorumIsReachable, SharedLimitHolds, Granted
<1>2. SpendTypes
  BY QuorumConstants DEF QuorumInit, SpendTypes
<1>3. \A id \in Ids : proposal[id].approvals = <<>>
  BY EmptyProposal DEF QuorumInit
<1>4. DistinctSigners
  BY <1>3, NoSigners DEF DistinctSigners
<1>5. OpenSpendsAreQueued
  <2>1. LiveQueue = {} /\ \A id \in Ids : ~Open(id)
    BY DEF QuorumInit, Open, Stored, LiveQueue
  <2> QED
    BY <2>1, FS_EmptySet, QuorumConstants, QueueBound
<1> QED
  BY <1>1, <1>2, <1>4, <1>5 DEF QuorumInv, SpendInv, QuorumInit

-----------------------------------------------------------------------------
(* What a step leaves alone. *)

LEMMA GrantsStay ==
  ASSUME GrantInv, UNCHANGED grant
  PROVE  GrantInv'
  BY DEF GrantInv, QuorumIsReachable, SharedLimitHolds, Granted

(* Time only shortens the list of live proposals. *)
LEMMA SpendsStay ==
  ASSUME SpendInv, UNCHANGED proposalVars, ledger \in Nat, ledger' \in Nat, ledger' >= ledger
  PROVE  SpendInv'
<1>1. SpendTypes' /\ DistinctSigners'
  BY DEF SpendInv, SpendTypes, DistinctSigners, proposalVars
<1>2. \A id \in Ids : Open(id)' <=> Open(id)
  BY DEF Open, Stored, proposalVars
<1>3. ASSUME NEW id \in LiveQueue'
      PROVE  id \in LiveQueue
  <2>1. id \in queue /\ id \in Ids /\ Open(id) /\ ledger' < proposal[id].expires
    BY <1>2, <1>3, QueuedIds DEF SpendInv, LiveQueue, Live, proposalVars
  <2>2. proposal[id].expires \in Nat
    BY <2>1, OpenRecords DEF SpendInv, SpendRecord
  <2> QED
    BY <2>1, <2>2 DEF LiveQueue, Live
<1>4. \A id \in Ids : Open(id)' => id \in queue'
  BY <1>2 DEF SpendInv, OpenSpendsAreQueued, proposalVars
<1>5. OpenSpendsAreQueued'
  BY <1>1, <1>3, <1>4, QueueShrinks
<1> QED
  BY <1>1, <1>5 DEF SpendInv

-----------------------------------------------------------------------------
(* Grants. *)

LEMMA NewGrant ==
  ASSUME GrantInv, ledger \in Nat, NEW p \in Owners, NEW owners \in SUBSET Owners,
         NEW n, NEW t \in Terms, GrantMultiOwner(p, owners, n, t)
  PROVE  GrantInv'
<1> DEFINE g == [owners |-> owners, threshold |-> n, limit |-> t.limit, perTx |-> t.perTx,
                 spent |-> 0, expires |-> ledger + t.ttl]
<1>1. /\ p \in owners /\ n \in 1..Cardinality(owners)
      /\ grant' = [grant EXCEPT ![p] = g]
  BY DEF GrantMultiOwner
<1>2. n \in Nat
  BY <1>1, QuorumConstants, FS_Subset, FS_CardinalityType
<1>3. g \in GrantRecord
  BY <1>2, TermsAssumption DEF GrantRecord
<1>4. g.spent <= g.limit /\ g.owners = owners /\ g.threshold = n
  BY TermsAssumption
<1> HIDE DEF g
<1> QED
  BY <1>1, <1>3, <1>4 DEF GrantInv, QuorumIsReachable, SharedLimitHolds, Granted

LEMMA NewQuorum ==
  ASSUME GrantInv, NEW p \in Owners, NEW owners \in SUBSET Owners, NEW signers,
         NEW n, MigrateQuorumThreshold(p, owners, n, signers)
  PROVE  GrantInv'
<1> DEFINE g == [grant[p] EXCEPT !.owners = owners, !.threshold = n]
<1>1. /\ p \in owners /\ n \in 1..Cardinality(owners)
      /\ grant[p] \in GrantRecord /\ grant[p].spent <= grant[p].limit
  BY DEF MigrateQuorumThreshold, GrantInv, SharedLimitHolds
<1>2. n \in Nat
  BY <1>1, QuorumConstants, FS_Subset, FS_CardinalityType
<1>3. /\ g \in GrantRecord /\ g.spent = grant[p].spent /\ g.limit = grant[p].limit
      /\ g.owners = owners /\ g.threshold = n
  BY <1>1, <1>2 DEF GrantRecord
<1>4. grant' = [grant EXCEPT ![p] = g]
  BY DEF MigrateQuorumThreshold, GrantInv
<1> HIDE DEF g
<1> QED
  BY <1>1, <1>3, <1>4 DEF GrantInv, QuorumIsReachable, SharedLimitHolds, Granted

(* A charge the grant allows stays within its limit. *)
LEMMA Charged ==
  ASSUME GrantInv, NEW p \in Owners, NEW x \in Int, GrantAllows(p, x), Charge(p, x)
  PROVE  GrantInv'
<1> DEFINE g == [grant[p] EXCEPT !.spent = grant[p].spent + x]
<1>1. grant[p] \in GrantRecord /\ p \in Granted
  BY DEF GrantInv, GrantAllows, Granted
<1>2. /\ g \in GrantRecord /\ g.owners = grant[p].owners /\ g.threshold = grant[p].threshold
      /\ g.spent <= g.limit
  BY <1>1 DEF GrantRecord, GrantAllows
<1>3. grant' = [grant EXCEPT ![p] = g]
  BY DEF Charge
<1> HIDE DEF g
<1> QED
  BY <1>1, <1>2, <1>3 DEF GrantInv, QuorumIsReachable, SharedLimitHolds, Granted

-----------------------------------------------------------------------------
(* Proposals. *)

(* A new proposal takes the place that the reaping has left. *)
LEMMA NewSpend ==
  ASSUME QuorumInv, NEW p \in Owners, NEW x \in Int, ProposeSpend(p, x)
  PROVE  SpendInv'
<1> DEFINE live == queue \ Reaped
<1>0. PICK n : n = lastId + 1
  OBVIOUS
<1>1. /\ SpendTypes /\ DistinctSigners /\ ledger \in Nat /\ grant[p] \in GrantRecord
      /\ lastId \in Nat /\ n \in Ids /\ n \in Nat /\ queue \subseteq Ids /\ queue \subseteq 1..lastId
      /\ lastId' = n /\ n <= MaxId /\ UNCHANGED <<ledger, vouched>>
  BY <1>0, QuorumConstants, QueuedIds DEF QuorumInv, SpendInv, SpendTypes, GrantInv, ProposeSpend, Ids
<1> DEFINE s == [amount |-> x, approvals |-> <<>>, expires |-> ledger + ProposalTtl,
                 executed |-> FALSE, primary |-> <<p>>, threshold |-> grant[p].threshold]
<1>2. s \in SpendRecord /\ s.approvals = <<>> /\ ~s.executed
  BY <1>1, QuorumConstants DEF SpendRecord, GrantRecord
<1>3. /\ proposal' = [ReapedProposals EXCEPT ![n] = s]
      /\ queue' = live \cup {n}
  BY <1>0 DEF ProposeSpend
<1>4. ReapedProposals \in [Ids -> SpendRecord \cup {NoProposal}]
  BY <1>1 DEF ReapedProposals, SpendTypes
<1> HIDE DEF s
<1>5. SpendTypes'
  <2>1. \A id \in queue' : id \in 1..n
    BY <1>0, <1>1, <1>3
  <2>2. proposal' \in [Ids -> SpendRecord \cup {NoProposal}]
    BY <1>1, <1>2, <1>3, <1>4
  <2>3. lastId' \in 0..MaxId
    BY <1>1, QuorumConstants
  <2> QED
    BY <1>1, <2>1, <2>2, <2>3 DEF SpendTypes
<1>6. \A id \in Ids : proposal'[id] = IF id = n THEN s
                                      ELSE IF id \in Reaped /\ Open(id) THEN NoProposal
                                      ELSE proposal[id]
  BY <1>3, <1>4 DEF ReapedProposals
<1>7. DistinctSigners'
  <2>1. \A id \in Ids : \/ proposal'[id].approvals = <<>>
                        \/ proposal'[id] = proposal[id] /\ vouched'[id] = vouched[id]
    BY <1>1, <1>2, <1>6, EmptyProposal
  <2> QED
    BY <1>1, <2>1, NoSigners DEF DistinctSigners
<1>8. ASSUME NEW id \in Ids, Open(id)'
      PROVE  id \in queue'
  <2>1. CASE id = n
    BY <1>3, <2>1
  <2>2. CASE id # n
    <3>1. Open(id) /\ id \notin Reaped
      BY <1>6, <1>8, <2>2 DEF Open, Stored
    <3> QED
      BY <1>3, <3>1 DEF QuorumInv, SpendInv, OpenSpendsAreQueued
  <2> QED
    BY <2>1, <2>2
<1>9. Cardinality(LiveQueue)' <= MaxPending
  <2>0. n \notin queue
    BY <1>0, <1>1
  <2>1. IsFiniteSet(live) /\ n \notin live /\ Cardinality(live) \in Nat
    BY <1>1, <2>0, QuorumConstants, FS_Subset, FS_CardinalityType
  <2>2. Cardinality(live \cup {n}) = Cardinality(live) + 1 /\ IsFiniteSet(live \cup {n})
    BY <2>1, FS_AddElement
  <2>3. LiveQueue' \subseteq live \cup {n}
    BY <1>3 DEF LiveQueue
  <2>4. Cardinality(LiveQueue') <= Cardinality(live \cup {n}) /\ Cardinality(LiveQueue') \in Nat
    BY <2>2, <2>3, FS_Subset, FS_CardinalityType
  <2>5. Cardinality(live) < MaxPending
    BY DEF ProposeSpend
  <2> QED
    BY <2>1, <2>2, <2>4, <2>5, QuorumConstants
<1>10. OpenSpendsAreQueued'
  BY <1>8, <1>9 DEF OpenSpendsAreQueued, LiveQueue
<1> QED
  BY <1>5, <1>7, <1>10 DEF SpendInv

(* What a signature adds to the list of those who have signed. *)
LEMMA OneMoreSigner ==
  ASSUME NEW s \in Seq(Owners), NEW u \in Owners, u \notin Range(s),
         Len(s) <= Cardinality(Range(s))
  PROVE  /\ Range(Append(s, u)) = Range(s) \cup {u}
         /\ Len(Append(s, u)) <= Cardinality(Range(Append(s, u)))
         /\ Range(Append(s, u)) \subseteq Owners
         /\ Append(s, u) \in Seq(Owners)
<1>1. Range(Append(s, u)) = Range(s) \cup {u}
  <2>1. /\ DOMAIN s = 1..Len(s) /\ Len(s) \in Nat
        /\ DOMAIN Append(s, u) = 1..(Len(s) + 1)
        /\ \A i \in 1..Len(s) : Append(s, u)[i] = s[i]
        /\ Append(s, u)[Len(s) + 1] = u
    BY AppendProperties, LenProperties
  <2>2. Range(Append(s, u)) \subseteq Range(s) \cup {u}
    BY <2>1 DEF Range
  <2>3. Range(s) \subseteq Range(Append(s, u))
    BY <2>1 DEF Range
  <2>4. u \in Range(Append(s, u))
    BY <2>1 DEF Range
  <2> QED
    BY <2>2, <2>3, <2>4
<1>2. Range(s) \subseteq Owners
  BY DEF Range
<1>3. IsFiniteSet(Range(s)) /\ Cardinality(Range(s)) \in Nat
  BY <1>2, QuorumConstants, FS_Subset, FS_CardinalityType
<1>4. Cardinality(Range(s) \cup {u}) = Cardinality(Range(s)) + 1
  BY <1>3, FS_AddElement
<1> QED
  BY <1>1, <1>2, <1>3, <1>4

LEMMA NewApproval ==
  ASSUME QuorumInv, NEW id \in Ids, NEW u \in Owners, ApproveSpendProposal(id, u)
  PROVE  /\ SpendInv' /\ GrantInv'
         /\ Len(Append(proposal[id].approvals, u)) <= Cardinality(vouched'[id])
<1> DEFINE s == Append(proposal[id].approvals, u)
           q == Len(s) >= proposal[id].threshold
           r == [proposal[id] EXCEPT !.approvals = s, !.executed = q]
<1>1. /\ SpendTypes /\ DistinctSigners /\ OpenSpendsAreQueued /\ GrantInv
      /\ proposal[id] \in SpendRecord /\ Open(id)
      /\ u \notin Range(proposal[id].approvals)
      /\ UNCHANGED <<ledger, lastId, queue>>
  BY OpenRecords DEF QuorumInv, SpendInv, SpendTypes, ApproveSpendProposal, Live
<1>2. /\ s \in Seq(Owners) /\ Range(s) = Range(proposal[id].approvals) \cup {u}
      /\ Len(s) <= Cardinality(Range(s)) /\ Range(s) \subseteq Owners
  <2>1. /\ proposal[id].approvals \in Seq(Owners)
        /\ Len(proposal[id].approvals) <= Cardinality(Range(proposal[id].approvals))
    BY <1>1 DEF SpendRecord, DistinctSigners
  <2> QED
    BY <1>1, <2>1, OneMoreSigner
<1>a. q \in BOOLEAN
  OBVIOUS
<1> HIDE DEF s, q
<1>3. /\ r \in SpendRecord /\ r.approvals = s /\ r.executed = q /\ r.expires = proposal[id].expires
  BY <1>1, <1>2, <1>a DEF SpendRecord
<1>4. /\ proposal' = [proposal EXCEPT ![id] = r]
      /\ vouched' = [vouched EXCEPT ![id] = vouched[id] \cup {u}]
  BY <1>1 DEF ApproveSpendProposal, SpendTypes, s, q
<1> HIDE DEF r
<1>5. /\ \A j \in Ids : proposal'[j] = IF j = id THEN r ELSE proposal[j]
      /\ \A j \in Ids : vouched'[j] = IF j = id THEN vouched[id] \cup {u} ELSE vouched[j]
  BY <1>1, <1>4 DEF SpendTypes
<1>6. SpendTypes'
  BY <1>1, <1>3, <1>4 DEF SpendTypes
<1>7. DistinctSigners'
  BY <1>1, <1>2, <1>3, <1>5 DEF DistinctSigners
<1>8. \A j \in Ids : (Open(j)' => Open(j)) /\ (Live(j)' => Live(j))
  <2>1. \A j \in Ids : Open(j)' => Open(j)
    BY <1>1, <1>5 DEF Open, Stored
  <2>2. \A j \in Ids : proposal'[j].expires = proposal[j].expires
    BY <1>3, <1>5
  <2> QED
    BY <1>1, <2>1, <2>2 DEF Live
<1>9. OpenSpendsAreQueued'
  <2>1. LiveQueue' \subseteq LiveQueue
    BY <1>1, <1>8, QueuedIds DEF LiveQueue
  <2>2. \A j \in Ids : Open(j)' => j \in queue'
    BY <1>1, <1>8 DEF OpenSpendsAreQueued
  <2> QED
    BY <1>1, <1>6, <2>1, <2>2, QueueShrinks DEF SpendInv
<1>10. GrantInv'
  <2>1. PICK p \in Owners : proposal[id].primary = <<p>>
    BY <1>1 DEF SpendRecord
  <2>2. CASE q
    <3>1. /\ GrantAllows(p, proposal[id].amount) /\ Charge(p, proposal[id].amount)
          /\ proposal[id].amount \in Int
      BY <1>1, <2>1, <2>2 DEF ApproveSpendProposal, SpendRecord, q, s
    <3> QED
      BY <1>1, <3>1, Charged
  <2>3. CASE ~q
    <3>1. UNCHANGED grant
      BY <2>3 DEF ApproveSpendProposal, q, s
    <3> QED
      BY <1>1, <3>1, GrantsStay
  <2> QED
    BY <2>2, <2>3
<1>11. Len(s) <= Cardinality(vouched'[id])
  <2>1. /\ Range(s) \subseteq vouched'[id] /\ IsFiniteSet(vouched'[id])
    BY <1>1, <1>2, <1>5, <1>6, QuorumConstants, FS_Subset DEF DistinctSigners, SpendTypes
  <2>2. /\ Cardinality(Range(s)) <= Cardinality(vouched'[id])
        /\ Cardinality(Range(s)) \in Nat /\ Cardinality(vouched'[id]) \in Nat
    BY <2>1, FS_Subset, FS_CardinalityType
  <2> QED
    BY <1>2, <2>2, LenProperties
<1> QED
  BY <1>6, <1>7, <1>9, <1>10, <1>11 DEF SpendInv, s

LEMMA Cancelled ==
  ASSUME QuorumInv, NEW id \in Ids, CancelSpendProposal(id)
  PROVE  SpendInv'
<1>1. /\ SpendTypes /\ DistinctSigners /\ OpenSpendsAreQueued
      /\ proposal' = [proposal EXCEPT ![id] = NoProposal]
      /\ queue' = queue \ {id} /\ UNCHANGED <<ledger, lastId, vouched>>
  BY DEF QuorumInv, SpendInv, CancelSpendProposal
<1>2. \A j \in Ids : proposal'[j] = IF j = id THEN NoProposal ELSE proposal[j]
  BY <1>1 DEF SpendTypes
<1>3. SpendTypes'
  BY <1>1 DEF SpendTypes
<1>4. DistinctSigners'
  <2>1. \A j \in Ids : \/ proposal'[j].approvals = <<>>
                       \/ proposal'[j] = proposal[j] /\ vouched'[j] = vouched[j]
    BY <1>1, <1>2, EmptyProposal
  <2> QED
    BY <1>1, <2>1, NoSigners DEF DistinctSigners
<1>5. \A j \in Ids : (Open(j)' => Open(j) /\ j # id) /\ (Live(j)' => Live(j))
  BY <1>1, <1>2 DEF Open, Stored, Live
<1>6. LiveQueue' \subseteq LiveQueue
  BY <1>1, <1>5, QueuedIds DEF LiveQueue
<1>7. \A j \in Ids : Open(j)' => j \in queue'
  BY <1>1, <1>5 DEF OpenSpendsAreQueued
<1>8. OpenSpendsAreQueued'
  BY <1>1, <1>3, <1>6, <1>7, QueueShrinks DEF SpendInv
<1> QED
  BY <1>3, <1>4, <1>8 DEF SpendInv

-----------------------------------------------------------------------------
(* The invariant is inductive. *)

LEMMA OwnerStepInv ==
  ASSUME QuorumInv, NEW p \in Owners, OwnerStep(p)
  PROVE  QuorumInv'
<1>0. ledger \in Nat /\ GrantInv /\ SpendInv
  BY DEF QuorumInv
<1>1. ASSUME NEW owners \in SUBSET Owners, NEW n, NEW t \in Terms,
             GrantMultiOwner(p, owners, n, t)
      PROVE  QuorumInv'
  <2>1. GrantInv'
    BY <1>0, <1>1, NewGrant
  <2>2. UNCHANGED <<ledger, proposalVars>>
    BY <1>1 DEF GrantMultiOwner
  <2> QED
    BY <1>0, <2>1, <2>2, SpendsStay DEF QuorumInv
<1>2. ASSUME NEW owners \in SUBSET Owners, NEW signers, NEW n,
             MigrateQuorumThreshold(p, owners, n, signers)
      PROVE  QuorumInv'
  <2>1. GrantInv'
    BY <1>0, <1>2, NewQuorum
  <2>2. UNCHANGED <<ledger, proposalVars>>
    BY <1>2 DEF MigrateQuorumThreshold
  <2> QED
    BY <1>0, <2>1, <2>2, SpendsStay DEF QuorumInv
<1>3. ASSUME NEW signers, NEW x \in Amounts, ExecuteSpendMulti(p, signers, x)
      PROVE  QuorumInv'
  <2>1. x \in Int
    BY QuorumAssumption
  <2> QED
    BY <1>0, <1>3, <2>1, Charged, SpendsStay DEF QuorumInv, ExecuteSpendMulti
<1>4. ASSUME NEW x \in Amounts, ProposeSpend(p, x)
      PROVE  QuorumInv'
  <2>1. x \in Int
    BY QuorumAssumption
  <2> QED
    BY <1>0, <1>4, <2>1, NewSpend, GrantsStay DEF QuorumInv, ProposeSpend
<1>5. ASSUME NEW x \in Amounts, SpendAlone(p, x)
      PROVE  QuorumInv'
  BY <1>0, <1>5, GrantsStay, SpendsStay DEF QuorumInv, SpendAlone
<1> QED
  BY <1>1, <1>2, <1>3, <1>4, <1>5 DEF OwnerStep

LEMMA QuorumNextInv ==
  ASSUME QuorumInv, [QuorumNext]_quorumVars
  PROVE  QuorumInv'
<1>0. ledger \in Nat /\ GrantInv /\ SpendInv
  BY DEF QuorumInv
<1>1. CASE UNCHANGED quorumVars
  BY <1>0, <1>1, GrantsStay, SpendsStay DEF QuorumInv, quorumVars
<1>2. CASE NextLedger
  BY <1>0, <1>2, GrantsStay, SpendsStay DEF QuorumInv, NextLedger
<1>3. ASSUME NEW w, SetRollingWindowLimit(w)
      PROVE  QuorumInv'
  BY <1>0, <1>3, GrantsStay, SpendsStay DEF QuorumInv, SetRollingWindowLimit
<1>4. ASSUME NEW p \in Owners, OwnerStep(p)
      PROVE  QuorumInv'
  BY <1>4, OwnerStepInv
<1>5. ASSUME NEW id \in Ids, NEW u \in Owners, ApproveSpendProposal(id, u)
      PROVE  QuorumInv'
  BY <1>0, <1>5, NewApproval DEF QuorumInv, ApproveSpendProposal
<1>6. ASSUME NEW id \in Ids, CancelSpendProposal(id)
      PROVE  QuorumInv'
  BY <1>0, <1>6, Cancelled, GrantsStay DEF QuorumInv, CancelSpendProposal
<1> QED
  BY <1>1, <1>2, <1>3, <1>4, <1>5, <1>6 DEF QuorumNext, ProposalStep

(* The inductive invariant of the grants and of the queued spends. *)
THEOREM QuorumInvariant == QuorumSpec => []QuorumInv
  BY QuorumInitOk, QuorumNextInv, PTL DEF QuorumSpec

(* Every storage of the multi-owner grants holds values of its type. *)
THEOREM QuorumTypes == QuorumSpec => []QuorumTypeOK
<1> DEFINE Wide == [amount : Int, approvals : Seq(Owners), expires : Nat, executed : BOOLEAN,
                     primary : {<<>>} \cup {<<p>> : p \in Owners}, threshold : Nat]
<1>1. SpendRecord \cup {NoProposal} \subseteq Wide
  <2>1. NoProposal \in Wide
    BY DEF NoProposal
  <2>2. SpendRecord \subseteq Wide
    BY DEF SpendRecord
  <2> QED
    BY <2>1, <2>2
<1>2. ASSUME QuorumInv
      PROVE  QuorumTypeOK
  <2>1. proposal \in [Ids -> Wide]
    BY <1>1, <1>2 DEF QuorumInv, SpendInv, SpendTypes
  <2>2. queue \subseteq Ids
    BY <1>2, QueuedIds DEF QuorumInv, SpendInv
  <2> QED
    BY <1>2, <2>1, <2>2
    DEF QuorumInv, GrantInv, SpendInv, SpendTypes, QuorumTypeOK, GrantRecord
<1> QED
  BY <1>2, QuorumInvariant, PTL

(* No quorum locks its grant (grant_multi_owner, migrate_quorum_threshold).*)
THEOREM QuorumStaysReachable == QuorumSpec => []QuorumIsReachable
<1>1. QuorumInv => QuorumIsReachable
  BY DEF QuorumInv, GrantInv
<1> QED
  BY <1>1, QuorumInvariant, PTL

(* The shared allowance is never overdrawn, by a quorum at once or by the  *)
(* proposals of the queue (check_multi_owner_spend at both).               *)
THEOREM QuorumLimitHolds == QuorumSpec => []SharedLimitHolds
<1>1. QuorumInv => SharedLimitHolds
  BY DEF QuorumInv, GrantInv
<1> QED
  BY <1>1, QuorumInvariant, PTL

(* What can still be signed is in the queue, which keeps its bound         *)
(* (propose_spend reaps before it counts).                                 *)
THEOREM QuorumOpenSpends == QuorumSpec => []OpenSpendsAreQueued
<1>1. QuorumInv => OpenSpendsAreQueued
  BY DEF QuorumInv, SpendInv
<1> QED
  BY <1>1, QuorumInvariant, PTL

(* A queued spend settles on distinct people, owners when they signed, and *)
(* on a grant that can pay it (approve_spend_proposal).                    *)
THEOREM QuorumSettledByDistinctOwners == QuorumSpec => SettledByDistinctOwners
<1> DEFINE Ok == \A id \in Ids : proposal'[id].executed /\ ~proposal[id].executed =>
                   /\ Cardinality(vouched'[id]) >= proposal[id].threshold
                   /\ GrantAllows(proposal[id].primary[1], proposal[id].amount)
<1>1. ASSUME QuorumInv, [QuorumNext]_quorumVars
      PROVE  [Ok]_quorumVars
  <2> SUFFICES ASSUME NEW id \in Ids, proposal'[id].executed, ~proposal[id].executed
               PROVE  /\ Cardinality(vouched'[id]) >= proposal[id].threshold
                      /\ GrantAllows(proposal[id].primary[1], proposal[id].amount)
    OBVIOUS
  <2>0. proposal \in [Ids -> SpendRecord \cup {NoProposal}] /\ vouched \in [Ids -> SUBSET Owners]
    BY <1>1 DEF QuorumInv, SpendInv, SpendTypes
  <2>1. ASSUME NEW p \in Owners, NEW x \in Amounts, ProposeSpend(p, x)
        PROVE  FALSE
    <3>1. PICK n : n = lastId + 1
      OBVIOUS
    <3>2. PICK s : s.executed = FALSE /\ proposal' = [ReapedProposals EXCEPT ![n] = s]
      BY <2>1, <3>1 DEF ProposeSpend
    <3>3. proposal'[id] \in {s, NoProposal, proposal[id]}
      BY <3>2 DEF ReapedProposals
    <3> QED
      BY <3>2, <3>3, EmptyProposal
  <2>2. ASSUME NEW j \in Ids, CancelSpendProposal(j)
        PROVE  FALSE
    BY <2>0, <2>2, EmptyProposal DEF CancelSpendProposal
  <2>3. ASSUME NEW j \in Ids, NEW u \in Owners, ApproveSpendProposal(j, u)
        PROVE  /\ Cardinality(vouched'[id]) >= proposal[id].threshold
               /\ GrantAllows(proposal[id].primary[1], proposal[id].amount)
    <3>1. j = id
      BY <2>0, <2>3 DEF ApproveSpendProposal
    <3>a. proposal[id] \in SpendRecord
      BY <1>1, <2>3, <3>1, OpenRecords DEF QuorumInv, SpendInv, ApproveSpendProposal, Live
    <3>2. Len(Append(proposal[id].approvals, u)) >= proposal[id].threshold
      BY <2>0, <2>3, <3>1, <3>a DEF ApproveSpendProposal, SpendRecord
    <3>3. Len(Append(proposal[id].approvals, u)) <= Cardinality(vouched'[id])
      BY <1>1, <2>3, <3>1, NewApproval
    <3>4. /\ Len(Append(proposal[id].approvals, u)) \in Nat /\ proposal[id].threshold \in Nat
          /\ Cardinality(vouched'[id]) \in Nat
      <4>1. vouched'[id] \subseteq Owners
        BY <2>0, <2>3 DEF ApproveSpendProposal
      <4>2. Append(proposal[id].approvals, u) \in Seq(Owners)
        BY <3>a DEF SpendRecord
      <4> QED
        BY <3>a, <4>1, <4>2, QuorumConstants, FS_Subset, FS_CardinalityType, LenProperties
        DEF SpendRecord
    <3> QED
      BY <2>3, <3>1, <3>2, <3>3, <3>4 DEF ApproveSpendProposal
  <2> QED
    BY <1>1, <2>1, <2>2, <2>3
    DEF QuorumNext, OwnerStep, ProposalStep, quorumVars, proposalVars, NextLedger,
        SetRollingWindowLimit, GrantMultiOwner, MigrateQuorumThreshold, ExecuteSpendMulti,
        SpendAlone
<1> QED
  BY <1>1, QuorumInvariant, PTL DEF QuorumSpec, SettledByDistinctOwners

-----------------------------------------------------------------------------
(* The rolling window.  A bucket starts over, so what is spent in as many  *)
(* ledgers as it is long can straddle two of them: the one that is running *)
(* and the ledgers just before it, each within the cap.                    *)

Ledgers == 0..MaxLedger
From(start) == {l \in Ledgers : l >= start}
Before(start, length) == {l \in Ledgers : l > start - length /\ l < start}
Idle(f) == \A l \in Ledgers : f[l] = 0

Bucket == [spend : Int, start : Nat]

(* Bucket b of a window w accounts for the flow f. *)
Covers(f, b, w) ==
  /\ \A l \in Ledgers : l >= b.start + w.length => f[l] = 0
  /\ SumFunctionOnSet(f, From(b.start)) <= b.spend
  /\ SumFunctionOnSet(f, From(b.start)) <= w.cap
  /\ SumFunctionOnSet(f, Before(b.start, w.length)) <= w.cap

WindowTypes ==
  /\ ledger \in Ledgers
  /\ limit.length \in Nat /\ limit.cap \in Nat /\ (limit.cap > 0 => limit.length > 0)
  /\ window \in [Owners -> {<<>>} \cup {<<b>> : b \in Bucket}]
  /\ flow \in [Owners -> [Ledgers -> Nat]]

(* A pair that has never been reversed, its bucket and its flow. *)
PairInv(p) ==
  /\ \A l \in Ledgers : l > ledger => flow[p][l] = 0
  /\ window[p] = <<>> /\ limit.cap > 0 => Idle(flow[p])
  /\ window[p] # <<>> =>
       /\ window[p][1].spend >= 0
       /\ window[p][1].start <= ledger
       /\ limit.cap > 0 => Covers(flow[p], window[p][1], limit)

WindowInv == WindowTypes /\ \A p \in Owners \ reversed : PairInv(p)

LEMMA LedgersFinite ==
  /\ MaxLedger \in Nat /\ Ledgers \subseteq Nat
  /\ \A S \in SUBSET Ledgers : IsFiniteSet(S)
<1>1. MaxLedger \in Nat
  BY TermsAssumption
<1>2. IsFiniteSet(Ledgers)
  BY <1>1, FS_Interval DEF Ledgers
<1>3. ASSUME NEW S \in SUBSET Ledgers
      PROVE  IsFiniteSet(S)
  BY <1>2, FS_Subset
<1>4. Ledgers \subseteq Nat
  BY <1>1 DEF Ledgers
<1> QED
  BY <1>1, <1>3, <1>4

LEMMA PartsOfLedgers ==
  ASSUME NEW s, NEW n
  PROVE  From(s) \in SUBSET Ledgers /\ Before(s, n) \in SUBSET Ledgers
  BY DEF From, Before

(* A bucket accounts for a pair that has spent nothing. *)
LEMMA IdleIsCovered ==
  ASSUME NEW f, Idle(f), NEW b \in Bucket, b.spend >= 0, NEW w, w.cap \in Nat
  PROVE  Covers(f, b, w)
<1>1. ASSUME NEW S \in SUBSET Ledgers
      PROVE  SumFunctionOnSet(f, S) = 0
  BY LedgersFinite, SumOfZeros DEF Idle
<1>2. b.spend \in Int
  BY DEF Bucket
<1> QED
  BY <1>1, <1>2, PartsOfLedgers DEF Covers, Idle

(* The bucket a spend is charged to, at its first look of the ledger. *)
LEMMA Rolled ==
  ASSUME WindowTypes, NEW p \in Owners, PairInv(p)
  PROVE  /\ RollingWindow(p) \in Bucket
         /\ RollingWindow(p).spend >= 0
         /\ RollingWindow(p).start <= ledger
         /\ limit.cap > 0 => /\ ledger < RollingWindow(p).start + limit.length
                             /\ Covers(flow[p], RollingWindow(p), limit)
<1> DEFINE fresh == [spend |-> 0, start |-> ledger]
<1>1. /\ ledger \in Nat /\ limit.length \in Nat /\ limit.cap \in Nat
      /\ limit.cap > 0 => limit.length > 0
      /\ flow[p] \in [Ledgers -> Nat]
      /\ window[p] # <<>> => window[p][1] \in Bucket
  BY LedgersFinite DEF WindowTypes
<1>2. fresh \in Bucket /\ fresh.spend = 0 /\ fresh.start = ledger
  BY <1>1 DEF Bucket
<1>3. CASE window[p] = <<>>
  <2>1. RollingWindow(p) = fresh
    BY <1>3 DEF RollingWindow
  <2>2. limit.cap > 0 => Covers(flow[p], fresh, limit)
    BY <1>1, <1>2, <1>3, IdleIsCovered DEF PairInv
  <2> HIDE DEF fresh
  <2> QED
    BY <1>1, <1>2, <2>1, <2>2
<1>4. CASE window[p] # <<>> /\ ~(limit.length > 0 /\ ledger >= window[p][1].start + limit.length)
  <2>1. RollingWindow(p) = window[p][1]
    BY <1>4 DEF RollingWindow
  <2>2. window[p][1].start \in Nat
    BY <1>1, <1>4 DEF Bucket
  <2> QED
    BY <1>1, <1>4, <2>1, <2>2 DEF PairInv
<1>5. CASE window[p] # <<>> /\ limit.length > 0 /\ ledger >= window[p][1].start + limit.length
  <2> DEFINE b == window[p][1]
             s == b.start
             f == flow[p]
  <2>1. RollingWindow(p) = fresh
    BY <1>5 DEF RollingWindow
  <2>2. ASSUME limit.cap > 0
        PROVE  Covers(f, fresh, limit)
    <3>1. /\ Covers(f, b, limit) /\ s \in Nat /\ s + limit.length <= ledger
          /\ \A l \in Ledgers : l > ledger => f[l] = 0
      BY <1>1, <1>5, <2>2 DEF PairInv, Bucket
    <3> HIDE DEF b, s, f
    <3>2. SumFunctionOnSet(f, From(ledger)) = 0
      <4>1. \A l \in From(ledger) : f[l] = 0
        BY <1>1, <3>1, LedgersFinite DEF Covers, From, s
      <4> QED
        BY <4>1, LedgersFinite, PartsOfLedgers, SumOfZeros
    <3>3. SumFunctionOnSet(f, Before(ledger, limit.length)) <= SumFunctionOnSet(f, From(s))
      <4>1. ASSUME NEW l \in Ledgers, l > ledger - limit.length
            PROVE  l >= s
        BY <1>1, <3>1, <4>1, LedgersFinite
      <4>2. Before(ledger, limit.length) \in SUBSET From(s)
        BY <4>1 DEF Before, From
      <4>3. \A l \in From(s) : f[l] \in Nat
        BY <1>1 DEF From, f
      <4> QED
        BY <4>2, <4>3, LedgersFinite, PartsOfLedgers, SumOfMore
    <3>4. /\ SumFunctionOnSet(f, From(s)) \in Nat
          /\ SumFunctionOnSet(f, Before(ledger, limit.length)) \in Nat
      <4>1. \A l \in Ledgers : f[l] \in Nat
        BY <1>1 DEF f
      <4> QED
        BY <4>1, LedgersFinite, PartsOfLedgers, SumType
    <3>5. SumFunctionOnSet(f, From(s)) <= limit.cap
      BY <3>1 DEF Covers, s
    <3>6. \A l \in Ledgers : l >= ledger + limit.length => f[l] = 0
      BY <1>1, <1>5, <3>1, LedgersFinite
    <3> HIDE DEF fresh
    <3> QED
      BY <1>1, <1>2, <3>2, <3>3, <3>4, <3>5, <3>6 DEF Covers
  <2> HIDE DEF fresh
  <2> QED
    BY <1>1, <1>2, <1>5, <2>1, <2>2
<1> QED
  BY <1>3, <1>4, <1>5

(* What the window allows leaves it covering what has flowed. *)
LEMMA Recorded ==
  ASSUME WindowInv, NEW p \in Owners, NEW x \in Int, WindowAllows(p, x),
         RecordWindowSpend(p, x), UNCHANGED <<ledger, limit>>
  PROVE  WindowInv'
<1> DEFINE w == RollingWindow(p)
           b == [w EXCEPT !.spend = w.spend + x]
           f == flow[p]
           more == [f EXCEPT ![ledger] = f[ledger] + x]
<1>1. /\ WindowTypes /\ ledger \in Nat /\ ledger \in Ledgers
      /\ limit.length \in Nat /\ limit.cap \in Nat /\ (limit.cap > 0 => limit.length > 0)
      /\ f \in [Ledgers -> Nat]
  BY LedgersFinite DEF WindowInv, WindowTypes
<1>2. w \in Bucket
  <2>1. window[p] # <<>> => window[p][1] \in Bucket
    BY <1>1 DEF WindowTypes
  <2> QED
    BY <1>1, <2>1 DEF RollingWindow, Bucket
<1> HIDE DEF w
<1>3. b \in Bucket /\ b.spend = w.spend + x /\ b.start = w.start
      /\ w.spend \in Int /\ w.start \in Nat
  BY <1>2 DEF Bucket
<1>4. /\ window' = IF limit.length = 0 THEN window ELSE [window EXCEPT ![p] = <<b>>]
      /\ flow' = IF x > 0 /\ limit.cap > 0 /\ p \notin reversed
                 THEN [flow EXCEPT ![p] = more] ELSE flow
      /\ reversed' = IF x < 0 THEN reversed \cup {p} ELSE reversed
  BY <1>1 DEF RecordWindowSpend, w, WindowTypes
<1> HIDE DEF b
<1>5. x > 0 => more \in [Ledgers -> Nat]
  <2>1. x > 0 => f[ledger] + x \in Nat
    BY <1>1
  <2> HIDE DEF f
  <2> QED
    BY <1>1, <2>1
<1>6. WindowTypes'
  <2> HIDE DEF f, more
  <2>1. window' \in [Owners -> {<<>>} \cup {<<c>> : c \in Bucket}]
    BY <1>1, <1>3, <1>4 DEF WindowTypes
  <2>2. flow' \in [Owners -> [Ledgers -> Nat]]
    BY <1>1, <1>4, <1>5 DEF WindowTypes
  <2> QED
    BY <1>1, <2>1, <2>2 DEF WindowTypes
<1>7. ASSUME NEW q \in Owners \ reversed', q # p
      PROVE  PairInv(q)'
  <2>1. window'[q] = window[q] /\ flow'[q] = flow[q] /\ q \notin reversed
    BY <1>1, <1>4, <1>7 DEF WindowTypes
  <2>2. PairInv(q)
    BY <2>1 DEF WindowInv
  <2> QED
    BY <2>1, <2>2 DEF PairInv
<1>8. ASSUME p \notin reversed'
      PROVE  PairInv(p)'
  <2>1. x >= 0 /\ p \notin reversed
    BY <1>4, <1>8
  <2>2. PairInv(p)
    BY <2>1 DEF WindowInv
  <2>3. /\ w.spend >= 0 /\ w.start <= ledger
        /\ limit.cap > 0 => ledger < w.start + limit.length /\ Covers(f, w, limit)
    BY <1>1, <2>2, Rolled DEF w
  <2>4. CASE limit.cap = 0
    <3>1. flow'[p] = flow[p]
      BY <1>4, <2>4
    <3>2. \/ window'[p] = window[p]
          \/ window'[p] = <<b>> /\ <<b>>[1] = b
      BY <1>1, <1>4 DEF WindowTypes
    <3>3. b.spend >= 0 /\ b.start <= ledger
      BY <1>3, <2>1, <2>3
    <3> QED
      BY <2>2, <2>4, <3>1, <3>2, <3>3 DEF PairInv
  <2>5. CASE limit.cap > 0
    <3>1. window'[p] = <<b>> /\ <<b>>[1] = b /\ <<b>> # <<>>
      BY <1>1, <1>4, <2>5 DEF WindowTypes
    <3>2. CASE x = 0
      <4>1. flow'[p] = f /\ b.spend = w.spend /\ b.start = w.start
        BY <1>3, <1>4, <3>2
      <4>2. Covers(f, b, limit)
        BY <2>3, <2>5, <4>1 DEF Covers
      <4> QED
        BY <1>3, <2>2, <2>3, <3>1, <4>1, <4>2 DEF PairInv
    <3>3. CASE x > 0
      <4>1. flow'[p] = more
        BY <1>1, <1>4, <2>1, <2>5, <3>3 DEF WindowTypes
      <4>2. /\ \A l \in Ledgers : f[l] \in Nat
            /\ \A l \in Ledgers : more[l] \in Nat
            /\ \A l \in Ledgers \ {ledger} : more[l] = f[l]
            /\ more[ledger] = f[ledger] + x
        BY <1>1, <1>5, <3>3
      <4> HIDE DEF more, f
      <4> DEFINE since == SumFunctionOnSet(f, From(w.start))
                 now == SumFunctionOnSet(more, From(w.start))
      <4>3. now = since + x
        <5> DEFINE S == From(w.start)
        <5>1. ledger \in S /\ IsFiniteSet(S) /\ \A l \in S : l \in Ledgers
          BY <1>1, <2>3, LedgersFinite, PartsOfLedgers DEF From
        <5>2. now = SumFunctionOnSet(more, S) /\ since = SumFunctionOnSet(f, S)
          OBVIOUS
        <5> HIDE DEF S, since, now
        <5>a. /\ \A l \in S : f[l] \in Int /\ more[l] \in Int
              /\ \A l \in S \ {ledger} : f[l] = more[l]
          BY <4>2, <5>1
        <5>3. SumFunctionOnSet(more, S) = SumFunctionOnSet(f, S) + more[ledger] - f[ledger]
          BY ONLY <5>1, <5>a, SumChange
        <5>4. since \in Int
          BY <5>1, <5>2, <5>a, SumType
        <5>5. f[ledger] \in Int /\ more[ledger] = f[ledger] + x
          BY <1>1, <4>2
        <5> QED
          BY <5>2, <5>3, <5>4, <5>5
      <4>4. since \in Int
        <5>1. \A l \in From(w.start) : f[l] \in Int
          BY <4>2 DEF From
        <5> QED
          BY <5>1, LedgersFinite, PartsOfLedgers, SumType
      <4>5. SumFunctionOnSet(more, Before(w.start, limit.length))
              = SumFunctionOnSet(f, Before(w.start, limit.length))
        <5>1. \A l \in Before(w.start, limit.length) : more[l] = f[l]
          BY <1>1, <1>3, <2>3, <4>2, LedgersFinite DEF Before
        <5> QED
          BY <5>1, LedgersFinite, PartsOfLedgers, SumOfSame
      <4>6. \A l \in Ledgers : l >= w.start + limit.length => more[l] = 0
        BY <1>1, <1>3, <2>3, <2>5, <4>2, LedgersFinite DEF Covers
      <4>7. w.spend + x <= limit.cap
        BY <1>1, <2>5, <3>3 DEF WindowAllows, w
      <4>8. since <= w.spend /\ SumFunctionOnSet(f, Before(w.start, limit.length)) <= limit.cap
        BY <2>3, <2>5 DEF Covers
      <4>9. now <= b.spend /\ now <= limit.cap
        <5> HIDE DEF since, now
        <5> QED
          BY <1>1, <1>3, <4>3, <4>4, <4>7, <4>8
      <4>10. Covers(more, b, limit)
        BY <1>3, <4>5, <4>6, <4>8, <4>9 DEF Covers
      <4>11. \A l \in Ledgers : l > ledger => more[l] = 0
        BY <1>1, <2>2, <4>2, LedgersFinite DEF PairInv, f
      <4>12. b.spend >= 0 /\ b.start <= ledger
        BY <1>3, <2>3, <3>3
      <4> QED
        BY <3>1, <4>1, <4>10, <4>11, <4>12 DEF PairInv
    <3> QED
      BY <2>1, <3>2, <3>3
  <2> QED
    BY <1>1, <2>4, <2>5
<1> QED
  BY <1>6, <1>7, <1>8 DEF WindowInv

(* Time, and what has nothing to do with the window. *)
LEMMA WindowStays ==
  ASSUME WindowInv, UNCHANGED <<windowVars, limit>>, ledger' \in Ledgers, ledger' >= ledger
  PROVE  WindowInv'
<1>1. WindowTypes /\ UNCHANGED <<window, flow, reversed, limit>> /\ ledger \in Nat
      /\ ledger' \in Nat
  BY LedgersFinite DEF WindowInv, WindowTypes, windowVars
<1>2. WindowTypes'
  BY <1>1 DEF WindowTypes
<1>3. ASSUME NEW p \in Owners \ reversed'
      PROVE  PairInv(p)'
  <2>1. PairInv(p)
    BY <1>1, <1>3 DEF WindowInv
  <2>2. window[p] # <<>> => window[p][1].start \in Nat
    BY <1>1 DEF WindowTypes, Bucket
  <2>3. \A l \in Ledgers : l > ledger' => l > ledger
    BY <1>1, LedgersFinite
  <2> QED
    BY <1>1, <2>1, <2>2, <2>3 DEF PairInv
<1> QED
  BY <1>2, <1>3 DEF WindowInv

(* A new limit counts from now on; the buckets that run are kept. *)
LEMMA NewLimit ==
  ASSUME WindowInv, NEW v \in Windows, SetRollingWindowLimit(v)
  PROVE  WindowInv'
<1>1. /\ WindowTypes /\ UNCHANGED <<ledger, window, reversed>> /\ limit' = v
      /\ flow' = [p \in Owners |-> [l \in Ledgers |-> 0]]
  BY DEF WindowInv, SetRollingWindowLimit, Ledgers
<1>2. /\ v.length \in Nat /\ v.cap \in Nat /\ (v.cap > 0 => v.length > 0)
  BY QuorumAssumption
<1>3. WindowTypes'
  BY <1>1, <1>2 DEF WindowTypes
<1>4. ASSUME NEW p \in Owners \ reversed'
      PROVE  PairInv(p)'
  <2>1. PairInv(p)
    BY <1>1, <1>4 DEF WindowInv
  <2>2. Idle(flow'[p])
    BY <1>1 DEF Idle
  <2>3. window[p] # <<>> => window[p][1] \in Bucket
    BY <1>1 DEF WindowTypes
  <2>4. window[p] # <<>> => Covers(flow'[p], window[p][1], v)
    BY <1>2, <2>1, <2>2, <2>3, IdleIsCovered DEF PairInv
  <2> QED
    BY <1>1, <2>1, <2>2, <2>4 DEF PairInv, Idle
<1> QED
  BY <1>3, <1>4 DEF WindowInv

LEMMA WindowInitOk == QuorumInit => WindowInv
<1> SUFFICES ASSUME QuorumInit
             PROVE  WindowInv
  OBVIOUS
<1>1. /\ ledger = 0 /\ limit.length = 0 /\ limit.cap = 0
      /\ window = [p \in Owners |-> <<>>]
      /\ flow = [p \in Owners |-> [l \in Ledgers |-> 0]]
  BY DEF QuorumInit, Ledgers
<1>2. 0 \in Ledgers
  BY LedgersFinite DEF Ledgers
<1> QED
  BY <1>1, <1>2 DEF WindowInv, WindowTypes, PairInv, Idle

LEMMA WindowNextInv ==
  ASSUME QuorumInv, WindowInv, [QuorumNext]_quorumVars
  PROVE  WindowInv'
<1>1. ledger \in Ledgers /\ ledger \in Nat
  BY LedgersFinite DEF WindowInv, WindowTypes
<1>2. CASE NextLedger
  <2>1. ledger' \in Ledgers /\ ledger' >= ledger
    BY <1>1, <1>2, LedgersFinite DEF NextLedger, Ledgers
  <2> QED
    BY <1>2, <2>1, WindowStays DEF NextLedger
<1>3. CASE UNCHANGED <<ledger, windowVars, limit>>
  BY <1>1, <1>3, WindowStays
<1>4. ASSUME NEW v \in Windows, SetRollingWindowLimit(v)
      PROVE  WindowInv'
  BY <1>4, NewLimit
<1>5. ASSUME NEW p \in Owners, OwnerStep(p)
      PROVE  WindowInv'
  <2>1. ASSUME NEW x \in Amounts, SpendAlone(p, x)
        PROVE  WindowInv'
    <3>1. x \in Int
      BY QuorumAssumption
    <3> QED
      BY <2>1, <3>1, Recorded DEF SpendAlone
  <2>2. ASSUME NEW x \in Amounts, NEW signers, ExecuteSpendMulti(p, signers, x)
        PROVE  WindowInv'
    <3>1. x \in Int
      BY QuorumAssumption
    <3> QED
      BY <2>2, <3>1, Recorded DEF ExecuteSpendMulti, Charge
  <2>3. ASSUME NEW owners, NEW n, NEW t, GrantMultiOwner(p, owners, n, t)
        PROVE  WindowInv'
    BY <1>3, <2>3 DEF GrantMultiOwner
  <2>4. ASSUME NEW owners, NEW n, NEW signers, MigrateQuorumThreshold(p, owners, n, signers)
        PROVE  WindowInv'
    BY <1>3, <2>4 DEF MigrateQuorumThreshold
  <2>5. ASSUME NEW x, ProposeSpend(p, x)
        PROVE  WindowInv'
    BY <1>3, <2>5 DEF ProposeSpend
  <2> QED
    BY <1>5, <2>1, <2>2, <2>3, <2>4, <2>5 DEF OwnerStep
<1>6. ASSUME NEW id \in Ids, NEW u \in Owners, ApproveSpendProposal(id, u)
      PROVE  WindowInv'
  <2>1. proposal[id] \in SpendRecord
    BY <1>6, OpenRecords DEF QuorumInv, SpendInv, ApproveSpendProposal, Live
  <2>2. PICK p \in Owners : proposal[id].primary = <<p>>
    BY <2>1 DEF SpendRecord
  <2>3. proposal[id].amount \in Int /\ proposal[id].primary[1] = p
    BY <2>1, <2>2 DEF SpendRecord
  <2>4. /\ UNCHANGED <<ledger, limit>> /\ WindowAllows(p, proposal[id].amount)
        /\ \/ Charge(p, proposal[id].amount)
           \/ UNCHANGED windowVars
    BY <1>6, <2>3 DEF ApproveSpendProposal
  <2> QED
    BY <1>3, <2>3, <2>4, Recorded DEF Charge
<1>7. ASSUME NEW id \in Ids, CancelSpendProposal(id)
      PROVE  WindowInv'
  BY <1>3, <1>7 DEF CancelSpendProposal
<1>8. CASE UNCHANGED quorumVars
  BY <1>3, <1>8 DEF quorumVars
<1> QED
  BY <1>2, <1>4, <1>5, <1>6, <1>7, <1>8 DEF QuorumNext, ProposalStep

(* The last "length" ledgers lie in the running bucket and just behind it. *)
LEMMA WindowInvHolds == WindowInv => WindowHolds
<1> SUFFICES ASSUME WindowInv, NEW p \in Owners \ reversed, limit.cap > 0
             PROVE  SumFunctionOnSet(flow[p],
                      {l \in 0..MaxLedger : l <= ledger /\ l > ledger - limit.length})
                        <= 2 * limit.cap
  BY DEF WindowHolds
<1> DEFINE last == {l \in Ledgers : l <= ledger /\ l > ledger - limit.length}
           f == flow[p]
<1>1. /\ ledger \in Nat /\ limit.length \in Nat /\ limit.cap \in Nat
      /\ f \in [Ledgers -> Nat] /\ PairInv(p)
      /\ window[p] # <<>> => window[p][1] \in Bucket
  BY LedgersFinite DEF WindowInv, WindowTypes
<1>2. CASE window[p] = <<>>
  <2>1. \A l \in last : f[l] = 0
    BY <1>1, <1>2 DEF PairInv, Idle
  <2>2. SumFunctionOnSet(f, last) = 0
    <3>1. last \in SUBSET Ledgers
      OBVIOUS
    <3> QED
      BY <2>1, <3>1, LedgersFinite, SumOfZeros
  <2> QED
    BY <1>1, <2>2 DEF Ledgers
<1>3. CASE window[p] # <<>>
  <2> DEFINE s == window[p][1].start
             now == From(s)
             old == Before(s, limit.length)
  <2>1. s \in Nat /\ s <= ledger /\ Covers(f, window[p][1], limit)
    BY <1>1, <1>3 DEF PairInv, Bucket
  <2>a. ASSUME NEW l \in last
        PROVE  l \in now \/ l \in old
    <3>1. l \in Ledgers /\ l \in Nat /\ l <= ledger /\ l > ledger - limit.length
      BY LedgersFinite
    <3>2. l >= s \/ (l < s /\ l > s - limit.length)
      BY ONLY <1>1, <2>1, <3>1
    <3> QED
      BY <3>1, <3>2 DEF From, Before
  <2>b. now \cap old = {}
    <3> SUFFICES ASSUME NEW l \in now, l \in old
                 PROVE  FALSE
      OBVIOUS
    <3>1. l >= s /\ l < s /\ l \in Nat
      BY LedgersFinite DEF From, Before
    <3> QED
      BY ONLY <2>1, <3>1
  <2>c. now \in SUBSET Ledgers /\ old \in SUBSET Ledgers
    BY PartsOfLedgers
  <2> HIDE DEF now, old, last
  <2>2. /\ last \in SUBSET (now \cup old)
        /\ now \cup old \in SUBSET Ledgers /\ (now \cup old) \ now = old
        /\ now \in SUBSET (now \cup old)
    BY <2>a, <2>b, <2>c
  <2> HIDE DEF f, s
  <2>3. \A l \in Ledgers : f[l] \in Nat /\ f[l] \in Int
    BY <1>1
  <2>4. SumFunctionOnSet(f, last) <= SumFunctionOnSet(f, now \cup old)
    BY <2>2, <2>3, LedgersFinite, SumOfMore
  <2>5. SumFunctionOnSet(f, now \cup old) = SumFunctionOnSet(f, now) + SumFunctionOnSet(f, old)
    <3>1. IsFiniteSet(now \cup old) /\ \A l \in now \cup old : f[l] \in Int
      BY <2>2, <2>3, LedgersFinite
    <3>2. SumFunctionOnSet(f, now \cup old)
            = SumFunctionOnSet(f, now) + SumFunctionOnSet(f, (now \cup old) \ now)
      BY <2>2, <3>1, SumOfParts
    <3> QED
      BY <2>2, <3>2
  <2>6. SumFunctionOnSet(f, now) <= limit.cap /\ SumFunctionOnSet(f, old) <= limit.cap
    BY <2>1 DEF Covers, now, old, s
  <2>7. /\ SumFunctionOnSet(f, now) \in Nat /\ SumFunctionOnSet(f, old) \in Nat
        /\ SumFunctionOnSet(f, last) \in Nat
    <3>1. now \in SUBSET Ledgers /\ old \in SUBSET Ledgers /\ last \in SUBSET Ledgers
      BY <2>2
    <3> QED
      BY <2>3, <3>1, LedgersFinite, SumType
  <2>8. SumFunctionOnSet(f, last) <= 2 * limit.cap
    BY <1>1, <2>4, <2>5, <2>6, <2>7
  <2> QED
    BY <2>8 DEF Ledgers, last, f
<1> QED
  BY <1>2, <1>3

(* However spends of one owner, of a quorum and from the queue alternate,  *)
(* a pair never spends more than twice the cap in as many ledgers as the   *)
(* window is long (check_and_roll, record_rolling_window_spend).           *)
THEOREM QuorumWindowHolds == QuorumSpec => []WindowHolds
  BY QuorumInvariant, WindowInitOk, WindowNextInv, WindowInvHolds, PTL DEF QuorumSpec

=============================================================================
