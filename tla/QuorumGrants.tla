---------------------------- MODULE QuorumGrants ----------------------------
(***************************************************************************)
(* Allowances of several owners (permissions/src/lib.rs): a quorum of the  *)
(* owners spends at once, or signs one by one a spend the delegate has     *)
(* queued; the quorum itself may be migrated; and the rolling window that  *)
(* limits the rate of every pair's spends.                                 *)
(*                                                                         *)
(* There is one delegate, who is no owner.  A grant is stored under its    *)
(* first owner, the primary one, and nothing ends it but its expiry: no    *)
(* call pauses or revokes it.  A spend of an ordinary grant of the same    *)
(* pair (see Permissions) counts in the same window, and is one action     *)
(* here.  What only refuses is left out: the list of merchants, and the    *)
(* interval between the spends of an ordinary grant, which the spends of   *)
(* several owners neither look at nor restart.                             *)
(***************************************************************************)
EXTENDS GrantTerms, FiniteSets, Sequences, Functions

CONSTANTS
  Owners,         \* users who may own a grant
  Amounts,        \* amounts asked for, not all of them positive
  Windows,        \* rolling windows that are set: [length, cap]
  MaxPending,     \* MAX_PENDING_SPEND_PROPOSALS
  ProposalTtl,    \* SPEND_PROPOSAL_TTL_LEDGERS
  MaxId,          \* bound on the ids handed out
  MaxNegative     \* bound on how far negative spends go below zero

ASSUME QuorumAssumption ==
  /\ IsFiniteSet(Owners)
  /\ Amounts \subseteq Int
  /\ \A w \in Windows : w.length \in Nat /\ w.cap \in Nat /\ (w.cap > 0 => w.length > 0)
  /\ {MaxPending, ProposalTtl, MaxId, MaxNegative} \subseteq Nat

VARIABLES
  grant,      \* MultiPermission, by primary owner
  proposal,   \* SpendProposal
  lastId,     \* SpendProposalCounter
  queue,      \* DelegateSpendProposals
  limit,      \* RollingWindowConfig
  window,     \* RollingWindowState of each primary owner, an option
  vouched,    \* ghost: who has signed a proposal while an owner of its grant
  flow,       \* ghost: what each pair, until reversed, spent in each ledger under the limit
  reversed    \* ghost: pairs that have "spent" a negative amount

proposalVars == <<proposal, lastId, queue, vouched>>
windowVars == <<window, flow, reversed>>
quorumVars == <<ledger, grant, proposalVars, windowVars, limit>>

Ids == 1..MaxId

NoGrant == [owners |-> {}, threshold |-> 0, limit |-> 0, perTx |-> 0, spent |-> 0, expires |-> 0]
NoProposal ==
  [amount |-> 0, approvals |-> <<>>, expires |-> 0, executed |-> FALSE, primary |-> <<>>,
   threshold |-> 0]

Granted == {p \in Owners : grant[p] # NoGrant}
Stored(id) == proposal[id] # NoProposal
Open(id) == Stored(id) /\ ~proposal[id].executed
Live(id) == Open(id) /\ ledger < proposal[id].expires

QuorumInit ==
  /\ ledger = 0
  /\ grant = [p \in Owners |-> NoGrant]
  /\ proposal = [id \in Ids |-> NoProposal]
  /\ lastId = 0
  /\ queue = {}
  /\ limit = [length |-> 0, cap |-> 0]
  /\ window = [p \in Owners |-> <<>>]
  /\ vouched = [id \in Ids |-> {}]
  /\ flow = [p \in Owners |-> [l \in 0..MaxLedger |-> 0]]
  /\ reversed = {}

NextLedger ==
  /\ ledger < MaxLedger
  /\ ledger' = ledger + 1
  /\ UNCHANGED <<grant, proposalVars, windowVars, limit>>

-----------------------------------------------------------------------------
(* The rolling window: a bucket that starts over, at the first look at it, *)
(* once its length has passed.                                             *)

RollingWindow(p) ==
  LET started == IF window[p] = <<>> THEN [spend |-> 0, start |-> ledger] ELSE window[p][1]
  IN  IF limit.length > 0 /\ ledger >= started.start + limit.length
      THEN [spend |-> 0, start |-> ledger] ELSE started

WindowAllows(p, x) ==
  limit.length > 0 /\ limit.cap > 0 /\ x > 0 => RollingWindow(p).spend + x <= limit.cap

(* record_rolling_window_spend, and the ghosts beside it. *)
RecordWindowSpend(p, x) ==
  /\ window' = IF limit.length = 0 THEN window
               ELSE [window EXCEPT ![p] = <<[RollingWindow(p) EXCEPT !.spend = @ + x]>>]
  /\ flow' = IF x > 0 /\ limit.cap > 0 /\ p \notin reversed
             THEN [flow EXCEPT ![p][ledger] = @ + x] ELSE flow
  /\ reversed' = IF x < 0 THEN reversed \cup {p} ELSE reversed

SetRollingWindowLimit(w) ==
  /\ limit' = w
  /\ flow' = [p \in Owners |-> [l \in 0..MaxLedger |-> 0]]
  /\ UNCHANGED <<ledger, grant, proposalVars, window, reversed>>

(* execute_spend, by relayer or channel as well, of an ordinary grant of   *)
(* the pair; its own allowance is the concern of Permissions.              *)
SpendAlone(p, x) ==
  /\ x > 0
  /\ WindowAllows(p, x)
  /\ RecordWindowSpend(p, x)
  /\ UNCHANGED <<ledger, grant, proposalVars, limit>>

-----------------------------------------------------------------------------
(* The grant and its quorum. *)

(* grant_multi_owner: any of the owners named, in place of what there was. *)
GrantMultiOwner(p, owners, n, t) ==
  /\ p \in owners
  /\ n \in 1..Cardinality(owners)
  /\ grant' = [grant EXCEPT ![p] = [owners |-> owners, threshold |-> n, limit |-> t.limit,
                                    perTx |-> t.perTx, spent |-> 0,
                                    expires |-> ledger + t.ttl]]
  /\ UNCHANGED <<ledger, proposalVars, windowVars, limit>>

(* migrate_quorum_threshold: enough of the owners of today replace the     *)
(* quorum; the primary owner stays, the proposals in the queue do not know.*)
MigrateQuorumThreshold(p, owners, n, signers) ==
  /\ grant[p] # NoGrant
  /\ p \in owners
  /\ n \in 1..Cardinality(owners)
  /\ Cardinality(signers \cap grant[p].owners) >= grant[p].threshold
  /\ grant' = [grant EXCEPT ![p].owners = owners, ![p].threshold = n]
  /\ UNCHANGED <<ledger, proposalVars, windowVars, limit>>

(* check_multi_owner_spend *)
GrantAllows(p, x) ==
  /\ grant[p] # NoGrant
  /\ ledger < grant[p].expires
  /\ x <= grant[p].perTx
  /\ x <= grant[p].limit - grant[p].spent

(* The allowance and the window are charged. *)
Charge(p, x) ==
  /\ grant' = [grant EXCEPT ![p].spent = @ + x]
  /\ RecordWindowSpend(p, x)

(* execute_spend_multi: enough owners sign the same transaction.  The sign *)
(* of the amount is not looked at.                                         *)
ExecuteSpendMulti(p, signers, x) ==
  /\ GrantAllows(p, x)
  /\ Cardinality(signers \cap grant[p].owners) >= grant[p].threshold
  /\ WindowAllows(p, x)
  /\ x < 0 => -MaxNegative <= grant[p].spent + x /\ -MaxNegative <= RollingWindow(p).spend + x
  /\ Charge(p, x)
  /\ UNCHANGED <<ledger, proposalVars, limit>>

-----------------------------------------------------------------------------
(* Spends signed one by one. *)

(* reap_spend_proposals: what is executed or expired leaves the queue, and *)
(* what is expired the store.                                              *)
Reaped == {id \in queue : ~Live(id)}
ReapedProposals == [id \in Ids |-> IF id \in Reaped /\ Open(id) THEN NoProposal ELSE proposal[id]]

(* propose_spend: the delegate, of the only grant it has, once the queue   *)
(* is reaped; the proposal keeps the threshold of this moment.             *)
ProposeSpend(p, x) ==
  /\ x > 0
  /\ Granted = {p}
  /\ GrantAllows(p, x)
  /\ WindowAllows(p, x)
  /\ Cardinality(queue \ Reaped) < MaxPending
  /\ lastId < MaxId
  /\ lastId' = lastId + 1
  /\ queue' = (queue \ Reaped) \cup {lastId + 1}
  /\ proposal' = [ReapedProposals EXCEPT ![lastId + 1] =
       [amount |-> x, approvals |-> <<>>, expires |-> ledger + ProposalTtl, executed |-> FALSE,
        primary |-> <<p>>, threshold |-> grant[p].threshold]]
  /\ UNCHANGED <<ledger, grant, vouched, windowVars, limit>>

(* Mutants: an owner is counted once more; the window is not looked at. *)
ApproveTwice(id, u) ==
  /\ Live(id)
  /\ LET p == proposal[id].primary[1]
         x == proposal[id].amount
         signed == Append(proposal[id].approvals, u)
         quorum == Len(signed) >= proposal[id].threshold
     IN  /\ u \in grant[p].owners
         /\ GrantAllows(p, x) /\ WindowAllows(p, x)
         /\ proposal' = [proposal EXCEPT ![id].approvals = signed, ![id].executed = quorum]
         /\ IF quorum THEN Charge(p, x) ELSE UNCHANGED <<grant, windowVars>>
  /\ vouched' = [vouched EXCEPT ![id] = @ \cup {u}]
  /\ UNCHANGED <<ledger, lastId, queue, limit>>
ApproveOutsideWindow(id, u) ==
  /\ Live(id)
  /\ LET p == proposal[id].primary[1]
         x == proposal[id].amount
         signed == Append(proposal[id].approvals, u)
         quorum == Len(signed) >= proposal[id].threshold
     IN  /\ u \in grant[p].owners
         /\ u \notin Range(proposal[id].approvals)
         /\ GrantAllows(p, x)
         /\ proposal' = [proposal EXCEPT ![id].approvals = signed, ![id].executed = quorum]
         /\ IF quorum THEN Charge(p, x) ELSE UNCHANGED <<grant, windowVars>>
  /\ vouched' = [vouched EXCEPT ![id] = @ \cup {u}]
  /\ UNCHANGED <<ledger, lastId, queue, limit>>

(* approve_spend_proposal: an owner of today signs; the signature that     *)
(* completes the quorum of the day of the proposal settles the spend.  The *)
(* settled proposal stays in the queue until the next reaping.             *)
ApproveSpendProposal(id, u) ==
  /\ Live(id)
  /\ LET p == proposal[id].primary[1]
         x == proposal[id].amount
         signed == Append(proposal[id].approvals, u)
         quorum == Len(signed) >= proposal[id].threshold
     IN  /\ u \in grant[p].owners
         /\ u \notin Range(proposal[id].approvals)
         /\ GrantAllows(p, x) /\ WindowAllows(p, x)
         /\ proposal' = [proposal EXCEPT ![id].approvals = signed, ![id].executed = quorum]
         /\ IF quorum THEN Charge(p, x) ELSE UNCHANGED <<grant, windowVars>>
  /\ vouched' = [vouched EXCEPT ![id] = @ \cup {u}]
  /\ UNCHANGED <<ledger, lastId, queue, limit>>

(* cancel_spend_proposal: the delegate or an owner, expired or not. *)
CancelSpendProposal(id) ==
  /\ Open(id)
  /\ proposal' = [proposal EXCEPT ![id] = NoProposal]
  /\ queue' = queue \ {id}
  /\ UNCHANGED <<ledger, grant, lastId, vouched, windowVars, limit>>

-----------------------------------------------------------------------------

OwnerStep(p) ==
  \/ \E owners \in SUBSET Owners, n \in 1..Cardinality(Owners), t \in Terms :
        GrantMultiOwner(p, owners, n, t)
  \/ \E owners, signers \in SUBSET Owners, n \in 1..Cardinality(Owners) :
        MigrateQuorumThreshold(p, owners, n, signers)
  \/ \E signers \in SUBSET Owners, x \in Amounts : ExecuteSpendMulti(p, signers, x)
  \/ \E x \in Amounts : ProposeSpend(p, x) \/ SpendAlone(p, x)

ProposalStep(id) ==
  \/ \E u \in Owners : ApproveSpendProposal(id, u)
  \/ CancelSpendProposal(id)

QuorumNext ==
  \/ NextLedger
  \/ \E w \in Windows : SetRollingWindowLimit(w)
  \/ \E p \in Owners : OwnerStep(p)
  \/ \E id \in Ids : ProposalStep(id)

QuorumSpec == QuorumInit /\ [][QuorumNext]_quorumVars

-----------------------------------------------------------------------------

(* Every variable holds a value of its storage type. *)
QuorumTypeOK ==
  /\ ledger \in Nat
  /\ grant \in [Owners -> [owners : SUBSET Owners, threshold : Nat, limit : Nat, perTx : Nat,
                           spent : Int, expires : Nat]]
  /\ proposal \in [Ids -> [amount : Int, approvals : Seq(Owners), expires : Nat,
                           executed : BOOLEAN, primary : {<<>>} \cup {<<p>> : p \in Owners},
                           threshold : Nat]]
  /\ lastId \in 0..MaxId
  /\ queue \subseteq Ids
  /\ vouched \in [Ids -> SUBSET Owners]

(* No quorum locks its grant: whatever was granted over it or migrated,    *)
(* the primary owner is among the owners and there are enough of them.     *)
QuorumIsReachable ==
  \A p \in Granted :
    p \in grant[p].owners /\ grant[p].threshold \in 1..Cardinality(grant[p].owners)

(* The owners' allowance is never overdrawn: not by queued spends that fit *)
(* one by one when they were proposed, not after a grant of less.          *)
SharedLimitHolds == \A p \in Owners : grant[p].spent <= grant[p].limit

(* A queued spend settles on distinct people, as many as the grant asked   *)
(* for when it was proposed, each of them an owner when signing, and on a  *)
(* grant that can pay it today, whatever became of grant and owners.       *)
SettledByDistinctOwners ==
  [][\A id \in Ids : proposal'[id].executed /\ ~proposal[id].executed =>
       /\ Cardinality(vouched'[id]) >= proposal[id].threshold
       /\ GrantAllows(proposal[id].primary[1], proposal[id].amount)]_quorumVars

(* Every spend that can still be signed is in the delegate's queue, which  *)
(* never has more of them than it may.                                     *)
OpenSpendsAreQueued ==
  /\ \A id \in Ids : Open(id) => id \in queue
  /\ Cardinality({id \in queue : Live(id)}) <= MaxPending

(* What the window really bounds: spends of the pair, of a quorum or of    *)
(* one owner, settled at once or from the queue, are at most twice the cap *)
(* in as many ledgers as the window is long, unless one was negative.      *)
WindowHolds ==
  \A p \in Owners \ reversed :
    limit.cap > 0 =>
      SumFunctionOnSet(flow[p],
        {l \in 0..MaxLedger : l <= ledger /\ l > ledger - limit.length}) <= 2 * limit.cap

=============================================================================
