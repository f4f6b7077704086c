---------------------------- MODULE Permissions ----------------------------
(***************************************************************************)
(* Delegated spending (permissions/src/lib.rs): an owner grants a delegate *)
(* an allowance, the delegate hands parts of it on, and all of them spend: *)
(* in person, through a relayer who submits signed messages, or with a     *)
(* session key.  A grant is stored under its pair <<owner, delegate>>.     *)
(*                                                                         *)
(* Every call is one transaction.  Checks that refuse a spend whatever has *)
(* happened before (merchant lists, function scopes, hours of the day, the *)
(* switch that pauses new grants) are left out, and so are the rate limits *)
(* and the grants of several owners.  Every grant has the epoch Daily: no  *)
(* call sets another, and a daily allowance starts afresh with each ledger.*)
(***************************************************************************)
EXTENDS GrantTerms, FiniteSets

CONSTANTS
  Pairs,           \* the <<owner, delegate>> pairs considered
  SelfDelegation,  \* AllowSelfDelegation
  Expiries,        \* ledgers an expiry is moved to
  Changes,         \* amounts an allowance is increased or decreased by
  Sessions,        \* terms of a session key: [cap, ttl]
  Signed,          \* pairs whose delegate has registered a relayer key
  Lanes,           \* nonce lanes: "plain" is RelayerNonce, the rest channels
  MaxDepth,        \* MAX_HIERARCHY_DEPTH
  MaxHops,         \* how far effective_expiry walks up
  Timelock,        \* DecreaseTimelockSecs
  Inactivity,      \* InactivityThreshold, 0 when it is not set
  PruneAfter,      \* PRUNE_EXPIRATION_THRESHOLD_LEDGERS
  MaxLimit,        \* bound on what an allowance is increased to
  MaxEpoch,        \* bound on the execution epoch
  MaxNonce         \* bound on every nonce

ASSUME PermissionAssumption ==
  /\ IsFiniteSet(Pairs)
  /\ SelfDelegation \in BOOLEAN
  /\ \A p \in Pairs : p = <<p[1], p[2]>> /\ p # <<>>
  /\ Expiries \subseteq Nat /\ Changes \subseteq Nat \ {0}
  /\ \A s \in Sessions : s.cap \in Nat \ {0} /\ s.ttl \in Nat
  /\ Signed \subseteq Pairs
  /\ {MaxDepth, Timelock, Inactivity, PruneAfter} \subseteq Nat
  /\ {MaxLimit, MaxEpoch, MaxNonce} \subseteq Nat
  /\ MaxHops \in Nat \ {0}

VARIABLES
  perm,      \* Permission: the record of each pair
  children,  \* Children: the delegates each pair has handed parts on to
  depth,     \* HierarchyMetadata.depth_level, 0 when there is none
  pending,   \* PendingDecrement: [amount, at], amount 0 when there is none
  epoch,     \* ExecutionEpoch, of the signed pairs (compared with nothing else)
  nonce,     \* RelayerNonce and ChannelNonce of each pair
  session,   \* EphemeralSession: [cap, spent, until], cap 0 when there is none
  moved,     \* ghost: pairs whose record a transfer has put there
  dead,      \* ghost: signatures used, cancelled or of an epoch that is over
  reborn     \* ghost: pairs pruned, or granted as a child, since they signed

hierarchyVars == <<children, depth>>
signatureVars == <<epoch, nonce, dead, reborn>>
permissionVars == <<ledger, perm, hierarchyVars, pending, session, moved, signatureVars>>

Permission ==
  [status  : {"None", "Active", "Paused", "Revoked", "Expired"},
   limit   : Nat,
   perTx   : Nat,
   spent   : Nat,
   expires : Nat,
   created : Nat,
   reset   : Nat,
   parent  : Pairs \cup {<<>>}]

NoParent == <<>>
NoPermission ==
  [status |-> "None", limit |-> 0, perTx |-> 0, spent |-> 0, expires |-> 0,
   created |-> 0, reset |-> 0, parent |-> NoParent]
Plain == "plain"
NoDecrease == [amount |-> 0, at |-> 0]
NoSession == [cap |-> 0, spent |-> 0, until |-> 0]

Signature == [pair : Pairs, lane : Lanes, epoch : 0..MaxEpoch, nonce : 0..MaxNonce]

PermissionInit ==
  /\ ledger = 1
  /\ perm = [p \in Pairs |-> NoPermission]
  /\ children = [p \in Pairs |-> {}]
  /\ depth = [p \in Pairs |-> 0]
  /\ pending = [p \in Pairs |-> NoDecrease]
  /\ epoch = [p \in Pairs |-> 0]
  /\ nonce = [p \in Pairs |-> [lane \in Lanes |-> 0]]
  /\ session = [p \in Pairs |-> NoSession]
  /\ moved = {}
  /\ dead = {}
  /\ reborn = {}

Exists(p) == perm[p].status # "None"
Remaining(p) == perm[p].limit - perm[p].spent
InSession(p) == session[p].cap > 0
MayHold(p) == SelfDelegation \/ p[1] # p[2]

-----------------------------------------------------------------------------
(* The hierarchy, seen from below (the parent links of the records, which  *)
(* spending follows) and from above (the lists of children, which revoking *)
(* follows).                                                               *)

Parents == [p \in Pairs |-> {perm[p].parent} \cap Pairs]

Kids == [p \in Pairs |->
          {q \in Pairs : q[1] = p[2] /\ q[2] \in children[p] /\ Exists(q)}]

(* What a walk along the links meets, from p (excluded) on, in a number of *)
(* hops, and when nothing but its end stops it.                            *)
Within(hops, links, p) ==
  LET steps[n \in Nat] ==
        IF n = 0 THEN {}
        ELSE LET met == steps[n - 1] IN met \cup UNION {links[q] : q \in met \cup {p}}
  IN  steps[hops]

Reach(links, p) == Within(Cardinality(Pairs), links, p)

Above(p) == Reach(Parents, p)
Nearest(p) == Within(MaxHops, Parents, p)
Below(p) == {q \in Reach(Kids, p) : Exists(q)}   \* Kids meets no other

(* A walk that never ends; the transaction that takes it fails. *)
Endless(links, p) == \E q \in Reach(links, p) \cup {p} : q \in Reach(links, q)

-----------------------------------------------------------------------------
(* Signed messages.  A message of a pair is good for one lane, one epoch   *)
(* and one nonce.                                                          *)

Outlived(p) == {s \in Signature : s.pair = p /\ s.epoch = epoch[p]}

(* bump_execution_epoch *)
BumpExecutionEpoch(p) ==
  IF p \in Signed
  THEN /\ epoch[p] < MaxEpoch
       /\ epoch' = [epoch EXCEPT ![p] = @ + 1]
       /\ dead' = dead \cup Outlived(p)
       /\ UNCHANGED <<nonce, reborn>>
  ELSE UNCHANGED signatureVars

-----------------------------------------------------------------------------
(* Granting. *)

Fresh(t, expires, parent) ==
  [status |-> "Active", limit |-> t.limit, perTx |-> t.perTx, spent |-> 0,
   expires |-> expires, created |-> ledger, reset |-> ledger, parent |-> parent]

(* grant_impl.  A live record is replaced by re_grant only, any other one  *)
(* by grant as well, with the same effect.  What hung on the old record    *)
(* (children, depth, decrease, nonces, epoch) stays.                       *)
Grant(p, t) ==
  /\ MayHold(p)
  /\ ~InSession(p)
  /\ perm' = [perm EXCEPT ![p] = Fresh(t, ledger + t.ttl, NoParent)]
  /\ moved' = moved \ {p}
  /\ UNCHANGED <<ledger, hierarchyVars, pending, session, signatureVars>>

(* grant_child: a delegate hands on a part of what is left at this moment. *)
(* The record of the new pair is replaced, whatever it was.                *)
GrantChild(p, q, t) ==
  /\ q[1] = p[2]
  /\ MayHold(q)
  /\ perm[p].status = "Active"
  /\ ledger < perm[p].expires
  /\ t.limit <= Remaining(p) /\ t.perTx <= perm[p].perTx
  /\ depth[p] + 1 < MaxDepth
  /\ LET expires == IF ledger + t.ttl < perm[p].expires THEN ledger + t.ttl ELSE perm[p].expires
     IN  perm' = [perm EXCEPT ![q] = Fresh(t, expires, p)]
  /\ children' = [children EXCEPT ![p] = @ \cup {q[2]}]
  /\ depth' = [depth EXCEPT ![q] = depth[p] + 1]
  /\ epoch' = [epoch EXCEPT ![q] = 0]
  /\ reborn' = reborn \cup ({q} \cap Signed)
  /\ moved' = moved \ {q}
  /\ UNCHANGED <<ledger, pending, session, nonce, dead>>

(* transfer_permission: the owner gives the grant, with what it has spent  *)
(* and the parent it has, to another delegate.  Neither the children of    *)
(* the old pair nor the list of its parent follow.                         *)
TransferPermission(p, q) ==
  /\ q[1] = p[1] /\ q # p
  /\ MayHold(q)
  /\ perm[p].status \notin {"None", "Revoked"}
  /\ ~Exists(q)
  /\ perm' = [perm EXCEPT ![q] = [perm[p] EXCEPT !.status = "Active", !.created = ledger],
                          ![p].status = "Revoked"]
  /\ pending' = [pending EXCEPT ![p] = NoDecrease]
  /\ moved' = moved \cup {q}
  /\ UNCHANGED <<ledger, hierarchyVars, session, signatureVars>>

(* Mutant: a record takes the place of nothing. *)
GrantSessionBeside(p, s) ==
  /\ p[1] # p[2]
  /\ ~InSession(p)
  /\ session' = [session EXCEPT ![p] = [cap |-> s.cap, spent |-> 0, until |-> ledger + s.ttl]]
  /\ UNCHANGED <<ledger, perm, hierarchyVars, pending, moved, signatureVars>>

(* grant_ephemeral_session *)
GrantEphemeralSession(p, s) ==
  /\ p[1] # p[2]
  /\ ~Exists(p)
  /\ ~InSession(p)
  /\ session' = [session EXCEPT ![p] = [cap |-> s.cap, spent |-> 0, until |-> ledger + s.ttl]]
  /\ UNCHANGED <<ledger, perm, hierarchyVars, pending, moved, signatureVars>>

(* The network drops a temporary entry some time after its last ledger. *)
EvictSession(p) ==
  /\ InSession(p)
  /\ ledger > session[p].until
  /\ session' = [session EXCEPT ![p] = NoSession]
  /\ UNCHANGED <<ledger, perm, hierarchyVars, pending, moved, signatureVars>>

-----------------------------------------------------------------------------
(* The life of a grant. *)

(* Mutant: the direct children only. *)
RevokeNearest(p) ==
  /\ Exists(p)
  /\ ~Endless(Kids, p)
  /\ perm' = [q \in Pairs |->
                IF q \in Kids[p] \cup {p} THEN [perm[q] EXCEPT !.status = "Revoked"] ELSE perm[q]]
  /\ pending' = [pending EXCEPT ![p] = NoDecrease]
  /\ UNCHANGED <<ledger, hierarchyVars, session, moved, signatureVars>>

(* revoke, and with it every record in the children's lists below. *)
Revoke(p) ==
  /\ Exists(p)
  /\ LET gone == Below(p) \cup {p}
     IN  perm' = [q \in Pairs |->
                    IF q \in gone THEN [perm[q] EXCEPT !.status = "Revoked"] ELSE perm[q]]
  /\ ~Endless(Kids, p)
  /\ pending' = [pending EXCEPT ![p] = NoDecrease]
  /\ UNCHANGED <<ledger, hierarchyVars, session, moved, signatureVars>>

Pause(p) ==
  /\ perm[p].status = "Active"
  /\ perm' = [perm EXCEPT ![p].status = "Paused"]
  /\ BumpExecutionEpoch(p)
  /\ UNCHANGED <<ledger, hierarchyVars, pending, session, moved>>

(* Mutant: only pausing starts a new epoch, and resuming ends it. *)
ResumeOldEpoch(p) ==
  /\ perm[p].status \notin {"None", "Active"}
  /\ perm' = [perm EXCEPT ![p].status = "Active"]
  /\ epoch' = [epoch EXCEPT ![p] = IF @ > 0 THEN @ - 1 ELSE 0]
  /\ UNCHANGED <<ledger, hierarchyVars, pending, session, moved, nonce, dead, reborn>>

(* resume: from whatever status that is not Active. *)
Resume(p) ==
  /\ perm[p].status \notin {"None", "Active"}
  /\ perm' = [perm EXCEPT ![p].status = "Active"]
  /\ BumpExecutionEpoch(p)
  /\ UNCHANGED <<ledger, hierarchyVars, pending, session, moved>>

(* update_expiry, and renew_permission, which adds to an expiry to come. *)
UpdateExpiry(p, expires) ==
  /\ perm[p].status \notin {"None", "Revoked"}
  /\ expires > ledger
  /\ perm' = [perm EXCEPT ![p].expires = expires]
  /\ UNCHANGED <<ledger, hierarchyVars, pending, session, moved, signatureVars>>

IncreaseAllowance(p, x) ==
  /\ Exists(p)
  /\ perm[p].limit + x <= MaxLimit
  /\ perm' = [perm EXCEPT ![p].limit = @ + x]
  /\ UNCHANGED <<ledger, hierarchyVars, pending, session, moved, signatureVars>>

DecreaseAllowance(p, x) ==
  /\ Exists(p)
  /\ pending[p] = NoDecrease
  /\ perm[p].limit - x >= perm[p].spent
  /\ pending' = [pending EXCEPT ![p] = [amount |-> x, at |-> ledger + Timelock]]
  /\ UNCHANGED <<ledger, perm, hierarchyVars, session, moved, signatureVars>>

(* Mutant: what was checked at the request is not checked again. *)
ExecuteDecreaseUnchecked(p) ==
  /\ pending[p] # NoDecrease
  /\ ledger >= pending[p].at
  /\ Exists(p)
  /\ perm' = [perm EXCEPT ![p].limit = @ - pending[p].amount]
  /\ pending' = [pending EXCEPT ![p] = NoDecrease]
  /\ UNCHANGED <<ledger, hierarchyVars, session, moved, signatureVars>>

(* execute_decrease_allowance: the owner, once the request is old enough.  *)
ExecuteDecreaseAllowance(p) ==
  /\ pending[p] # NoDecrease
  /\ ledger >= pending[p].at
  /\ Exists(p)
  /\ perm[p].limit - pending[p].amount >= perm[p].spent
  /\ perm' = [perm EXCEPT ![p].limit = @ - pending[p].amount]
  /\ pending' = [pending EXCEPT ![p] = NoDecrease]
  /\ UNCHANGED <<ledger, hierarchyVars, session, moved, signatureVars>>

(* sweep_inactive: anyone, for a grant nothing was ever spent of. *)
SweepInactive(p) ==
  /\ Inactivity > 0
  /\ perm[p].status = "Active"
  /\ perm[p].spent = 0
  /\ ledger >= perm[p].created + Inactivity
  /\ perm' = [perm EXCEPT ![p].status = "Revoked"]
  /\ pending' = [pending EXCEPT ![p] = NoDecrease]
  /\ UNCHANGED <<ledger, hierarchyVars, session, moved, signatureVars>>

(* sweep_expired: anyone. *)
SweepExpired(p) ==
  /\ perm[p].status = "Active"
  /\ ledger >= perm[p].expires
  /\ perm' = [perm EXCEPT ![p].status = "Expired"]
  /\ UNCHANGED <<ledger, hierarchyVars, pending, session, moved, signatureVars>>

(* prune_expired_permission: any keeper, long after the expiry.  The nonces*)
(* go, the epoch, the depth and the lists of children stay.                *)
PruneExpiredPermission(p) ==
  /\ Exists(p)
  /\ ledger - perm[p].expires > PruneAfter
  /\ perm' = [perm EXCEPT ![p] = NoPermission]
  /\ pending' = [pending EXCEPT ![p] = NoDecrease]
  /\ nonce' = [nonce EXCEPT ![p] = [lane \in Lanes |-> 0]]
  /\ reborn' = reborn \cup ({p} \cap Signed)
  /\ moved' = moved \ {p}
  /\ UNCHANGED <<ledger, hierarchyVars, session, epoch, dead>>

-----------------------------------------------------------------------------
(* Spending. *)

(* Mutant: the expiry of the ancestors is not looked at. *)
MaySpendOnOwnTerm(p, x) ==
  /\ perm[p].status = "Active"
  /\ ledger < perm[p].expires
  /\ x <= perm[p].perTx
  /\ \A q \in Above(p) \cup {p} : Exists(q) /\ x <= Remaining(q)

(* Mutant: the allowance of the ancestors is not looked at. *)
MaySpendOnOwnAllowance(p, x) ==
  /\ perm[p].status = "Active"
  /\ x <= perm[p].perTx
  /\ \A q \in Nearest(p) \cup {p} : ledger < perm[q].expires
  /\ \A q \in Above(p) \cup {p} : Exists(q)
  /\ x <= Remaining(p)

(* can_spend: what is left is what is stored, before any reset.  Of the    *)
(* ancestors it wants the allowance (validate_chain), of the nearest also  *)
(* the expiry (effective_expiry), and never the status.                    *)
MaySpend(p, x) ==
  /\ perm[p].status = "Active"
  /\ x <= perm[p].perTx
  /\ \A q \in Nearest(p) \cup {p} : ledger < perm[q].expires
  /\ \A q \in Above(p) \cup {p} : Exists(q) /\ x <= Remaining(q)

(* apply_spend: the first spend of a ledger resets the count of its own    *)
(* record; every ancestor is charged as well.                              *)
ApplySpend(p, x) ==
  /\ ~Endless(Parents, p)
  /\ LET charged == Above(p)
     IN  perm' = [q \in Pairs |->
           IF q = p THEN [perm[p] EXCEPT !.spent = x + IF ledger > perm[p].reset THEN 0 ELSE @,
                                         !.reset = ledger]
           ELSE IF q \in charged THEN [perm[q] EXCEPT !.spent = @ + x]
           ELSE perm[q]]

(* execute_spend, without a session. *)
ExecuteSpend(p, x) ==
  /\ ~InSession(p)
  /\ MaySpend(p, x)
  /\ ApplySpend(p, x)
  /\ UNCHANGED <<ledger, hierarchyVars, pending, session, moved, signatureVars>>

(* execute_spend with a session: nothing but the session counts. *)
SpendInSession(p, x) ==
  /\ InSession(p)
  /\ ledger <= session[p].until
  /\ session[p].spent + x <= session[p].cap
  /\ session' = [session EXCEPT ![p].spent = @ + x]
  /\ UNCHANGED <<ledger, perm, hierarchyVars, pending, moved, signatureVars>>

(* The message the contract accepts next in a lane. *)
Upcoming(p, lane) == [pair |-> p, lane |-> lane, epoch |-> epoch[p], nonce |-> nonce[p][lane]]

(* execute_spend_via_relayer (lane "plain") and execute_spend_via_channel: *)
(* the delegate may have signed any message, at any time.                  *)
ExecuteSpendViaRelayer(p, lane, x) ==
  /\ p \in Signed
  /\ ~InSession(p)
  /\ nonce[p][lane] < MaxNonce
  /\ MaySpend(p, x)
  /\ ApplySpend(p, x)
  /\ nonce' = [nonce EXCEPT ![p][lane] = @ + 1]
  /\ dead' = dead \cup {Upcoming(p, lane)}
  /\ UNCHANGED <<ledger, hierarchyVars, pending, session, moved, epoch, reborn>>

(* cancel_nonce and invalidate_nonce_range: the owner voids the nonces up  *)
(* to n, of the plain lane.                                                *)
CancelNonce(p, n) ==
  /\ p \in Signed
  /\ Exists(p)
  /\ n >= nonce[p][Plain] /\ n < MaxNonce
  /\ nonce' = [nonce EXCEPT ![p][Plain] = n + 1]
  /\ dead' = dead \cup {s \in Signature : s.pair = p /\ s.lane = Plain /\ s.nonce <= n}
  /\ UNCHANGED <<ledger, perm, hierarchyVars, pending, session, moved, epoch, reborn>>

CloseLedger ==
  /\ ledger < MaxLedger
  /\ ledger' = ledger + 1
  /\ UNCHANGED <<perm, hierarchyVars, pending, session, moved, signatureVars>>

-----------------------------------------------------------------------------

GrantStep(p) ==
  \/ \E t \in Terms : Grant(p, t)
  \/ \E q \in Pairs, t \in Terms : GrantChild(p, q, t)
  \/ \E q \in Pairs : TransferPermission(p, q)
  \/ \E s \in Sessions : GrantEphemeralSession(p, s)
  \/ EvictSession(p)

LifeStep(p) ==
  \/ Revoke(p) \/ Pause(p) \/ Resume(p)
  \/ \E expires \in Expiries : UpdateExpiry(p, expires)
  \/ \E x \in Changes : IncreaseAllowance(p, x) \/ DecreaseAllowance(p, x)
  \/ ExecuteDecreaseAllowance(p)
  \/ SweepInactive(p) \/ SweepExpired(p) \/ PruneExpiredPermission(p)

SpendStep(p) ==
  \/ \E x \in 1..perm[p].perTx : ExecuteSpend(p, x)
  \/ \E x \in 1..session[p].cap : SpendInSession(p, x)
  \/ \E x \in 1..perm[p].perTx, lane \in Lanes : ExecuteSpendViaRelayer(p, lane, x)
  \/ \E n \in 0..MaxNonce : CancelNonce(p, n)

PermissionNext ==
  \/ CloseLedger
  \/ \E p \in Pairs : GrantStep(p) \/ LifeStep(p) \/ SpendStep(p)

PermissionSpec == PermissionInit /\ [][PermissionNext]_permissionVars

-----------------------------------------------------------------------------

(* Every variable holds a value of its storage type. *)
PermissionTypeOK ==
  /\ ledger \in Nat
  /\ perm \in [Pairs -> Permission]
  /\ DOMAIN children = Pairs
  /\ depth \in [Pairs -> Nat]
  /\ pending \in [Pairs -> [amount : Nat, at : Nat]]
  /\ epoch \in [Pairs -> Nat]
  /\ nonce \in [Pairs -> [Lanes -> Nat]]
  /\ session \in [Pairs -> [cap : Nat, spent : Nat, until : Nat]]
  /\ moved \subseteq Pairs
  /\ reborn \subseteq Signed

(* No allowance is ever overdrawn: not by the delegates below who draw on  *)
(* the same one, not by a decrease requested before and executed after a   *)
(* spend, not by a decrease that outlived the grant it was requested for.  *)
AllowanceHolds == \A p \in Pairs : perm[p].spent <= perm[p].limit

(* p is charged for a spend of q from farther below than the walk for the  *)
(* expiry goes.                                                            *)
ChargedFromAfar(p, q) == perm'[q] # perm[q] /\ p \in Above(q) \ Nearest(q)

(* A lapsed grant pays nothing, neither for its delegate nor for anyone    *)
(* its allowance was handed on to, however long their own terms were made, *)
(* unless a chain that was regranted or transferred in its middle has      *)
(* grown longer than the walk (permissions/src/lib.rs:2788).               *)
LapsedPaysNothing ==
  [][\A p \in Pairs : Exists(p) /\ perm'[p].spent > perm[p].spent =>
       ledger < perm[p].expires \/ \E q \in Pairs : ChargedFromAfar(p, q)]_permissionVars

(* A link from p up to above that no transfer has made. *)
GrantedBelow(p, above) ==
  above \in Above(p) /\ \A q \in (Above(p) \cup {p}) \cap moved : above \notin Above(q)

(* Revoking a grant revokes all that was handed on of it, over any number  *)
(* of hands (permissions/src/lib.rs:2288), unless a transfer has put it    *)
(* where the list of the parent does not name it.                          *)
RevokeReachesBelow ==
  [][\A p \in {r \in Pairs : perm'[r].status = "Revoked"},
        q \in {r \in Pairs : perm'[r].status # "Revoked" /\ perm[r].parent # NoParent} :
       GrantedBelow(q, p) => ~Revoke(p)]_permissionVars

(* The message the contract would accept next was never used, cancelled or *)
(* outlived by a pause, unless the record was pruned (which forgets the    *)
(* nonces and keeps the epoch) or granted as a child (the other way round).*)
DeadSignaturesStayDead ==
  \A p \in Signed \ reborn, lane \in Lanes : Upcoming(p, lane) \notin dead

(* A delegate holds a session key or a grant of the same owner, never both,*)
(* unless the grant was transferred or handed on to the pair.              *)
SessionsStandAlone ==
  \A p \in Pairs : InSession(p) /\ Exists(p) => p \in moved \/ perm[p].parent # NoParent

=============================================================================
