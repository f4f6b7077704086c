# Delego contracts in TLA+

This directory holds the formal model of the Delego smart contracts: TLA+
modules written from the Rust sources, TLC configurations that check them on
small instances, and TLAPS proofs of the theorems that hold for every instance.
`PROJECT.json` is the machine-readable index: components, runs, mutants, the map
from definitions to source lines, findings, hazards and theorems.

## The system

Delego is a set of Soroban (Stellar) contracts for commerce by delegated agents:
a buyer gives an agent a bounded right to spend, the agent pays a merchant, the
money waits in escrow until the order is done or disputed, and both sides leave
a reputation behind.

| Crate | State | Operations | Hard behaviour |
|---|---|---|---|
| `escrow` custody core | one `EscrowRecord` per order (status, principal, released, refunded, timeout), the cancel guard, milestone schedule, shipment proof, release gate, the contract's token balance | create, fund, deposit, batches, accept, cancel, release, refund, milestones, extend timeout, keeper bump, archive | one balance for all orders; payments in parts by different callers; deadlines that move; permissionless sweeps |
| `escrow` disputes | `DisputeDeadline`, quorum config and votes, arbiter stakes, `DisputeAppeal` with bond and deadline, per-item allocations | dispute, vote, resolve (admin, split, quorum, per item), appeal, finalize, extend by quorum, slash | several settlement paths over the same record; rulings that wait for an appeal window |
| `escrow` dual control, pool and other ways out | `DualControlConfig` with its answer and deadline, swap configuration, liquidity pool, slippage bounds, Merkle roots, oracle panel and its votes, voucher nonce | configure, approve, time out, release with swap, fund, withdraw and settle from the pool, pay along a path, publish a root, release with a proof, attest, extend by mutual signatures | a second key that never answers; approvals and votes given for a configuration that is replaced; two purposes of one balance |
| `escrow` administration | admin set, upgrade approvals, rescue proposal, fee table, limits, pause, typed `AdminAction`s with a delay and a guardian | propose, approve, veto, execute, rescue | approvals counted after the admin set changed; delays |
| `delegation_registry` | delegation records, append-only history, keyed snapshots, owner index, sub-accounts, admin | create, pause, resume, revoke, update, re-key, roll back, sweep, sub-accounts, lazy migration | rollbacks across other changes; ids reissued; stale indexes |
| `permissions` | grants and their children, allowances, relayer keys, nonces and epochs, multi-owner quorums, spend proposals, rate limits | grant, spend (direct, relayer, channel, multi), pause, revoke, transfer, renew, sweep, prune | replays, quotas at their limit, hierarchies that outlive a parent |
| `marketplace` | merchants and their lifecycle, verifier sets, deposits, appeals and bonds, categories | register, verify, suspend, ban, close, deregister, prune, appeal | counters kept in step with statuses; grace periods; a ruling on an appeal whose merchant has moved on |
| `reputation` | transaction log per entity, incremental score, flags, freezes | record, rate, review, flag, freeze, prune, recompute | an incrementally maintained sum against its definition |

How they meet. `escrow` asks `marketplace` (the merchant registry) at creation
whether the seller trades, and reports opened and settled escrows to it through
a reporter; `permissions` spends a delegate's allowance and emits the payment;
`marketplace` reads `reputation` for its thresholds; a yield integration of
`escrow` talks to the lending pool of `interfaces`. All of these are calls in one
transaction, so what crosses a boundary is atomic; what interleaves is
transactions of different parties and the passing of ledgers.

### What makes each component correct

- Custody core: an order pays out what came in for it and no more; a settled order
  holds nothing and never moves again; a seller cannot cancel before the window the
  buyer was given; a buyer who wants the money back gets it once the timeout has
  passed, unless somebody moves the timeout or keepers were paid with it; an order with
  a schedule pays its seller by milestones, but for three ways that do not look.
- Disputes: disputed money moves by a settlement only; a ruling waits for its appeal
  window and is then carried out, for the winner it named; settlements do not add
  up to more than the order; nobody is slashed who voted.
- Dual control, pool and the rest: no release without its second key, its proof or
  enough fresh votes; a second key that never answers does not lock the money; an
  order is paid from its own tokens or from the pool's, never from another order's.
- Administration: nobody is counted twice; an upgrade takes approvals of those who
  are admins when it is executed, a rescue takes what was signed for, and a reviewed
  change has been on view for its whole delay.
- Delegation registry: history, snapshots and record tell the same story; what has
  lapsed does not come back; indexes and sub-accounts point to their owner.
- Permissions: no allowance is overdrawn, by whomever it was handed on to; lapsing
  and revoking stop all that hangs below; a signed message counts once; a queued
  spend settles on enough distinct owners, and on a grant that can still pay.
- Marketplace: counters equal what they count; a merchant with open escrows does not
  leave; stock is neither made nor lost.
- Reputation: the incremental score is the recomputed one; an escrow counts once.

### The execution model

A Soroban entry point runs as one atomic transaction: it either commits all of
its writes or, when it returns an error or panics, none of them. One action of
the model is therefore one entry point, including every internal call it makes.
There are no threads, no callbacks into the caller and no messages in flight; the
nondeterminism of the models is which transaction comes next, with which
arguments, and when the ledger closes (`CloseLedger`). Ledger sequence and
timestamp advance together in the network; one clock, `ledger`, stands for both,
and every window (timeout, grace period, retention, lockout) is counted on it.
`require_auth` is modelled by the role a caller may play: buyer, seller, admin,
owner, anyone.

### Reading policy for the sources

`escrow/src/lib.rs` carries scars of unresolved merges (unbalanced braces, hunks
pasted one after the other) and does not compile as it stands. A function whose
text is well-formed Rust is modelled literally, merged or not. Where the text is
not well-formed, the model takes the last complete hunk of the function, which is
the one in checks-effects-interactions order. In the core this concerns
`execute_release_inner` (`released_amount` is added to in two hunks of which one
belongs to a body without its end; one addition is modelled),
`verify_received_deposit_delta` and the fee helpers. In the disputes it concerns
`resolve_dispute_quorum` (lines 3928 to 3943 begin the payout twice; one payout is
modelled), `claim_inspection_auto_release` and `resolve_sub_item_dispute` (the body
of the first stands inside the second, lines 8949 to 8985; each is modelled with
its own body) and the end of `verify_delivery_and_release`, which a merge moved to
lines 8122 to 8124: what is left of it is well-formed and modelled as it stands,
without the unlocking. `resolve_dispute` is well-formed, but two versions of it run
one after the other; `EscrowDisputes` covers the text as it stands and its first
half alone, which is what its comment and its tests describe (`Readings`).
`permissions`, `delegation_registry` and `reputation` are clean. In `marketplace`,
`deregister_merchant` matches a status without an arm for `Inactive`: `close_merchant`
has one, and the model uses its table for both (`Retired`). The functions for
maintenance windows and stock stand inside a test module since a merge; no build has
them, so neither has the model, and the status `Maintenance` is never reached.

## The modules

### Custody core of the escrow contract

`Custody.tla` is what an escrow promises whatever its entry points are: an
order's money is a box that is filled once, gives out a part at a time, never
more than went in, is shut exactly when it has been emptied (or because nothing
was ever put in), and stays shut.

`EscrowCore.tla` is the detailed model. Its variables are the contract's storage
(`escrow`, `guard`, `shipped`, `gated`, `milestones`, `bumped`, `lockout`), the
token balance (`vault`), the clock, and four ghost counters of the tokens that
came in and left (`deposited`, `toSeller`, `toBuyer`, `bounties`), which no guard
reads. An id with no stored record is `Unused` or, once swept, `Archived`.

| Action | Code | What to know |
|---|---|---|
| `Create`, `Deposit`, `Fund`, `BatchCreate`, `CreateMilestoneEscrow` | create, deposit, fund, batch_create_escrows, create_milestone_escrow | the principal becomes what actually arrived (a `Surplus` over the amount asked); the batch pulls one aggregate and keeps the amounts asked |
| `AcceptOrder`, `AgreeCancel`, `Cancel`, `SetCancelLockout` | accept_order, agree_cancel, cancel, set_cancel_lockout | the deadline restarts at acceptance with the window snapshotted at creation |
| `PartialRelease`, `ReleaseMilestone` | partial_release, release, release_milestone, batch_release | below the dual-control threshold only; `ExecuteRelease` is their common tail, fee and net counted together |
| `PartialRefund` | partial_refund, refund, batch_refund | `MayRefund` is the table of who may refund when; no milestone check, as in the code |
| `ExtendTimeout`, `KeeperBump` | extend_timeout, bump_ttl_with_bounty | a keeper is paid from the shared balance |
| `RecordShipmentProof`, `SetRequireReleaseCondition`, `Archive` | same | archiving leaves the cancel guard and the milestone schedule behind, as in the code |

`release`, `refund`, `batch_release` and `batch_refund` are `PartialRelease` and
`PartialRefund` with the remaining amount, one after the other. `CreateMilestoneEscrow`
gives a principal of the schedule's total plus the surplus, as the code does.

Left out of the core: checks that only refuse a call whatever the state of the
order (pause flag, allowed tokens, limits, metadata, merchant registry), fees
(fee and net leave together, and both count as the seller's side), and yield
(`compute_yield` is called after the released and refunded amounts have been
updated, so at settlement it always computes zero).

### Delegation registry

`DelegationRegistry.tla` models every operation of the registry that changes
state: creation (plain and scoped), pause, resume, revoke (by owner and by
admin), permission flags, key revocation, sweep, rollback, the lazy migration of
snapshots, sub-accounts, the late `initialize` and the two-step change of admin.
`Legacies` are the
histories a contract upgraded from a build without keyed snapshots may start
from. `initialize` resets the id counter as the code does, so ids can be handed
out twice; `reissued` remembers which, and the properties say what survives.

### Delivery, inspection and disputes

`EscrowDisputes.tla` EXTENDS the core: the order's record, the pool of tokens and
the clock are the core's, and the operations of the core are steps of the larger
system too (`CoreStep`, `GuardedRelease`, `ArchiveWithVotes`), with the release
guard and the vote lists they touch.

| State | Storage | Actions that write it |
|---|---|---|
| `locked` | ReleaseGuard | `VerifyDelivery` |
| `inspection` | InspectionPeriodConfig | `SetInspectionConfig`, `VerifyDelivery` |
| `dueBy` | DisputeDeadline | `Dispute` |
| `panel`, `votes` | QuorumConfig, DisputeVotes | `SetQuorumConfig`, `VoteDispute`, `ResolveDisputeQuorum`, `PruneDisputeVotes`, `ArchiveWithVotes` |
| `extensions` | TimeoutExtensionVotes | `ExtendTimeoutViaQuorum`, and the three above that clear votes |
| `stake` | ArbiterStakingRecord | `RegisterArbiter`, `SlashDelinquentArbiters` |
| `appeal` | DisputeAppealRecord | `ResolveDispute`, `FileDisputeAppeal`, `FinalizeDisputeAppeal`, `FinalizeUncontestedRuling` |
| `items`, `settled` | SubOrderItems, SubItemResolution | `SetSubOrderItems`, `ResolveSubItem` |

`ReleaseOnInspectionPassed`, `ClaimInspectionAutoRelease` and `ResolveDisputeSplit`
write the record only. `penalties` and `heard` are ghosts. Who sits on the appeals
council and which key the oracle signs with are configuration that no property
looks at: the council may name either side, and a delivery may be confirmed at any
time.

The rulings pay the principal and leave the record's amounts alone, so the books of
the core do not hold for a ruled order; `RulingsPayThePrincipal` says exactly what
holds instead, and `escrow_overpaid` that the documented bound does not.

### Second approver, pool and other ways out

`EscrowControls.tla` EXTENDS the core as well: the order, the balance and the clock
are the core's, and what opens one order, pays it or archives it (`OpenStep`, `PayStep`,
`ArchiveWithApproval`) is a step beside these. The core's batches, shipment proofs,
release gate, keeper bumps, admin timeouts and changes of the lockout are not.

| Action | Code | What to know |
|---|---|---|
| `SetDualControlConfig`, `SetDualControlTimeout`, `ApproveRelease` | same | naming an approver voids the approval before; the approver answers before its deadline |
| `HandleDualControlTimeout` | handle_dual_control_timeout | anyone; refunds or disputes, as the admin chose |
| `SetCrossCurrencySwapConfig`, `ReleaseWithSwap` | same | the only way out that asks for the second approver |
| `FundPool`, `WithdrawFromPool`, `SettleFromPool` | same | the pool lives in the contract's one balance; a settled order's own tokens stay behind (`advanced`); a schedule is not looked at |
| `SetSlippageBounds`, `ExecutePathPayment` | same | bounds only tighten; the router answers within them and within what remains; a schedule is not looked at |
| `PublishMerkleRoot`, `ReleaseWithMerkleProof` | same | a root is the set of orders its tree holds |
| `SetMultiOracleConfig`, `SubmitOracleAttestation` | same | another panel starts the votes anew; the completing vote pays, with a schedule or without |
| `ExtendTimeoutWithMutualSignatures` | same | the voucher's nonce goes up only |

`signed`, `swapped`, `advanced` and `aside` are ghosts; `aside` is what the seller of an
order got through `settle_from_pool`, `execute_path_payment` and
`submit_oracle_attestation`, the three ways that do not call
`ensure_not_milestone_escrow`. `MilestonesMatchReleases` is checked here and not of the
core alone, where nothing else could pay the seller. The predicates of `invariants.rs`,
which no entry point calls, are definitions of this module and are checked of every
way out together (`RecordsMoveByTheTable`).

### Administration of the escrow contract

`Timelock.tla` is what the review of a change promises to those who watch: the change
has been on view for a whole delay without a break, a withdrawn one starts from
nothing, and a change touches the setting it is about and no other. `AdminActions.tla`
is the queue that keeps it (`admin_actions.rs`), with what each kind of action
changes; a proposal is found by its id or by the digest of its arguments, and the
digest of an action is the action itself. `EscrowAdmin.tla` EXTENDS it with who the
admins are, and with the two things several of them do together.

| Action | Code | What to know |
|---|---|---|
| `SetSecurityGuardian`, `QueueAdminAction`, `VetoAdminAction` | same, schedule_fee_update | one live proposal of an action at a time; a veto is for ever, a new proposal gets a new id |
| `ExecuteAdminAction`, `ExecuteByArguments` | execute_admin_action; update_fee, set_fee_distribution, add_token, remove_token | both consume by the digest (`Consume`) |
| `Constructor`, `Initialize` | same | the constructor may run again and replaces the admin and the fee (`redeployed`) |
| `ProposeAdmin`, `AcceptAdmin`, `CancelAdminTransfer`, `AddCoAdmin`, `RemoveCoAdmin` | same | a nominee who is a co-admin gives that seat up when accepting |
| `SetUpgradeThreshold`, `ProposeUpgrade`, `ApproveUpgrade`, `CancelUpgrade`, `Upgrade` | same | approvals of former admins do not count; the threshold stands still meanwhile |
| `ProposeEmergencyRescue`, `ApproveEmergencyRescue`, `EmergencyRescueStalledEscrow` | same | approvals of former admins do count; the record says the whole principal was refunded |

The orders of this module are those of the core reduced to what a rescue reads
(`ReleasePart`, `Dispute`). `bar` (the threshold when an upgrade was proposed),
`consent` (who signed for which destination), `paid` and `redeployed` are ghosts.

### Permissions

`Permissions.tla` models grants of one owner: granting and granting anew,
handing parts on (`GrantChild`), transfer, session keys, pausing, resuming, expiry,
allowance changes with their timelock, the two sweeps, pruning, and the three ways
to spend. Records are kept by their `<<owner, delegate>>` pair, as in storage. The
hierarchy is walked in two directions that can disagree: spending follows the
parent links of the records (`Above`), revoking the lists of children (`Below`).
Revoking and the walk for the allowances have no bound in the code; a transaction
whose walk does not end fails (`Endless`). The walk for the expiry (`Nearest`) stops
after 32 hops, here after `MaxHops`.

| Action | Code | What to know |
|---|---|---|
| `Grant` | grant, re_grant, batch_grant and the rest over grant_impl | children, depth, pending decrease, nonces and epoch of the pair stay |
| `GrantChild`, `TransferPermission` | grant_child, transfer_permission | overwrite the child's pair whatever it is; do not look for a session key |
| `GrantEphemeralSession`, `EvictSession`, `SpendInSession` | grant_ephemeral_session, apply_ephemeral_session_spend | with a session nothing but the session counts |
| `Revoke`, `Pause`, `Resume` | same | revoking cascades; resuming asks only that the record is not Active |
| `UpdateExpiry`, `IncreaseAllowance`, `DecreaseAllowance`, `ExecuteDecreaseAllowance` | same, renew_permission | a decrease is checked when requested and again when executed |
| `SweepInactive`, `SweepExpired`, `PruneExpiredPermission` | same | anyone may call them |
| `ExecuteSpend`, `ExecuteSpendViaRelayer` | execute_spend, batch_execute_spend, execute_spend_via_relayer, execute_spend_via_channel | `MaySpend` looks at the stored counter, `ApplySpend` resets it and charges every ancestor |
| `CancelNonce` | cancel_nonce, invalidate_nonce_range | the plain lane only |

`dead` is the set of signed messages that must never count again, `reborn` the
pairs for which the code forgets half of what makes them dead, `moved` the records
a transfer has put in their place. No guard reads them.

### Grants of several owners

`QuorumGrants.tla` models the multi-owner grants (their terms are those of
`GrantTerms.tla`, as for grants of one owner), the delegate's queue of spends that
owners sign one by one, and the rolling window, which a spend of an ordinary grant
of the same pair counts in as well (`SpendAlone`).

| Action | Code | What to know |
|---|---|---|
| `GrantMultiOwner`, `MigrateQuorumThreshold` | same | granting anew replaces what there was; a migration leaves the queue as it is |
| `ExecuteSpendMulti` | execute_spend_multi | enough owners at once; the sign of the amount is not looked at |
| `ProposeSpend` | propose_spend, reap_spend_proposals | reaps the queue first; keeps the threshold of this moment |
| `ApproveSpendProposal` | approve_spend_proposal | an owner of today; the completing signature checks the grant and the window again and pays |
| `CancelSpendProposal` | same | expired or not |
| `SetRollingWindowLimit`, `SpendAlone` | set_rolling_window_limit, check and record of the window in the spends of Permissions | a bucket that restarts when its length has passed |

`vouched` (who signed while an owner), `flow` (what each pair spent in each ledger
under the limit) and `reversed` (the pairs that spent a negative amount) are ghosts.

### Reputation

`Reputation.tla` models the records of escrows (`record`, `history`), the lifetime
counters and the score of each entity (`rep`), the stored sums the score is derived
from when a record is appended (`acc`), ratings and reviews, flags, freezing and
pruning. Weights, sums and scores are computed as the code computes them, in integers
(`Weight`, `Shift`, `Scored`).

| Action | Code | What to know |
|---|---|---|
| `RecordTransaction` | record_transaction, a new escrow | `AddRecord` appends; `IncrementalScoreUpdate` adds the new record to the sums and takes out the one that leaves the window |
| `UpdateTransaction` | record_transaction, an escrow on file | the outcome changes in place, the rating stays, the score is recomputed |
| `RateEntity`, `ReviewTransaction`, `ReviewOnFile` | rate_entity, submit_verified_review | a review overwrites a record without a rating, whoever it was about; its proof is what the contract the caller names reports (`Settled`) |
| `FlagEntity`, `ResolveFlag`, `FreezeEntity`, `UnfreezeEntity` | same | only who traded with an entity may flag it; enough flags freeze |
| `PruneEntityHistory`, `UpdateConfig` | same | the counters keep what is pruned; new half-lives make the sums stale |

`gone` counts what the pruned records counted for, `exactAt` is when the sums were
last those of the records, `disturbed` names the entities whose records a review has
overwritten, `renamed` the rated escrows for which a relay has named another
counterparty. No guard reads them.

### Marketplace

`Marketplace.tla` models the merchant record and its life from registration to
Closed, the indexes that escrows and buyers look up (`ownerOf`, `nameOf`, `listed`,
`shelf`), the statistics, the verifiers with their policies and grace periods, the
deposits and appeal bonds (`vault` is what the contract holds), and the count of open
escrows. Names and categories are members of small sets; `Normal` says which spelling
of a category is the normalised one.

| Action | Code | What to know |
|---|---|---|
| `RegisterMerchant`, `UpdateMerchantProfile` | same | registering normalises the category, updating does not |
| `AddVerifier`, `RemoveVerifier`, `VerifyMerchant`, `RevokeVerification` | same | verifications are kept while a verifier comes and goes |
| `SetVerificationPolicy`, `RevalidateMerchantStatus` | same | a raised policy starts a grace period; anyone may have the status re-evaluated |
| `SuspendMerchant`, `UnsuspendMerchant`, `BanMerchant`, `DeactivateMerchant` | same | each moves the merchant from one counter to another and points the owner's index entry at it |
| `FileAppeal`, `UpholdAppeal`, `RejectAppeal` | file_merchant_suspension_appeal, resolve_merchant_appeal | the ruling pays the bond whatever has become of the merchant since |
| `ReportEscrowOpened`, `ReportEscrowSettled`, `SetActiveEscrowCount` | same | closing by the admin waits for zero |
| `CloseMerchant`, `DeregisterMerchant`, `PruneClosedMerchants` | same | deregistering asks for the deposit only |

`repointed` names the owners of whom a Closed storefront was closed again.

### Runs

| Run | Module, config | Expect | Properties | Shows |
|---|---|---|---|---|
| `escrow_order` | `MCEscrowCore`, `EscrowOrder.cfg` | pass | `BooksMatchTokens`, `CancelHonoursWindow`, `BuyerCanExit` | One order through every operation of the escrow core, long enough for the cancel window, the timeout, the grace period and the retention to lapse in every order: the record accounts exactly for the tokens, the cancel window cannot be shortened, and a persistent buyer gets out after the timeout as long as the contract still holds what remains of the order (a keeper's bounty may have taken part of it). |
| `escrow_pair` | `MCEscrowCore`, `EscrowPair.cfg` | pass | `OnlyBountiesLeak`, `KeepsCustody` | Two orders that share the contract's balance, with the batch operations: the pool and the keeper bounties add up to what is owed to all open orders, and the detailed core implements the abstract Custody specification: boxes filled once, emptied for good, and forgotten only when empty. |
| `escrow_disputes` | `MCEscrowDisputes`, `EscrowDisputes.cfg` | pass | `RulingsPayThePrincipal`, `PoolIsAccountedFor`, `ConflictNeedsALaxPanel`, `OnlySilentAreSlashed`, `DisputeHoldsMoney`, `RulingIsFrozen`, `RulingTakesEffect` | An order that is inspected, disputed and settled in every way the contract has, in both readings of resolve_dispute, beside another order whose tokens fill the pool: what a ruling pays, who can be slashed, what a panel can be deadlocked by, and that nothing but a settlement moves disputed money. |
| `escrow_overpaid` | `MCEscrowDisputes`, `EscrowOverpaid.cfg` | violation | `NoOrderOverpaid` | A ruling pays the whole principal of an order that had already paid a part, with the tokens of another order. |
| `delegation_registry` | `MCDelegationRegistry`, `DelegationRegistry.cfg` | pass | `TrailMatchesRecord`, `SubAccountsFollowOwner`, `LapsedStaysDead` | Two owners, an admin who may initialise late, keepers and the clock over every operation of the registry, fresh or with a history to migrate: the two version trails agree with the record, sub-accounts stay with their owner unless an id was reissued, and nothing that lapsed authorises again. |
| `permission_tree` | `MCPermissions`, `PermissionTree.cfg` | pass | `AllowanceHolds`, `LapsedPaysNothing`, `RevokeReachesBelow` | An allowance handed on over up to four hands, one more than the walk for the expiry goes, and to two siblings, while records are revoked, resumed, transferred, renewed, pruned and spent of from every level: no level is overdrawn, a lapsed level stops all below it that the walk reaches it from, and revoking reaches every hand. |
| `permission_signed` | `MCPermissions`, `PermissionSigned.cfg` | pass | `AllowanceHolds`, `DeadSignaturesStayDead`, `SessionsStandAlone` | One grant spent in person, over two lanes of signed messages and by session keys, while its owner pauses, resumes, increases, decreases, cancels, transfers and grants anew: late decreases never undercut a spend, and a used, cancelled or outlived message is not accepted again. |
| `reputation` | `MCReputation`, `Reputation.cfg` | pass | `LifetimeCountsAreExact`, `AccumulatorTracksRecords`, `RatingStands` | A seller, a buyer and a third party whose own contract reports an escrow under the same id, two escrows, two ratings, a window of one record, two half-lives, the clock, and every call that records, rates, reviews, flags, freezes or prunes: the counters agree with the records except where a review overwrote one, the incremental sums agree with a recomputation until time passes and never miss a contribution afterwards, and a rating stands except where a relay has named another rater. |
| `marketplace` | `MCMarketplace`, `Marketplace.cfg` | pass | `StatsMatchStatuses`, `IndexesFollowMerchants`, `VaultHoldsDepositsAndBonds`, `VerifiedIsEarned` | Two storefronts, of two owners or of one after the other, two verifiers, an admin who changes policies, suspends, bans, closes, hears appeals and prunes: the counters are the numbers of merchants in each status whatever the way into it, the indexes follow the records, and every token is a deposit or a pending bond. |
| `escrow_admin` | `MCEscrowAdmin`, `EscrowAdmin.cfg` | pass | `SignersAreCounted`, `KeepsReviewSinceDeployed`, `UpgradeMeetsItsBar`, `RescueIsWhatWasSigned` | Three users who become, stay and cease to be admins queue, veto and carry out changes, upgrade the code and rescue a disputed or half-released order: what takes effect was on view for its whole delay and is what enough of them signed. |
| `permission_quorum` | `MCQuorumGrants`, `QuorumGrants.cfg` | pass | `WindowHolds`, `SettledByDistinctOwners` | Two owners grant, replace and migrate quorums while spends are signed at once, or one by one from the delegate's queue, under a rolling window that is switched on and off: queued spends settle on distinct people and on a grant that can pay today, and the window lets through at most twice its cap. |
| `escrow_controls` | `MCEscrowControls`, `EscrowControls.cfg` | pass | `PoolIsBacked`, `MilestonesMatchReleases`, `SwapNeedsItsCosigner`, `ConsensusIsFresh`, `RecordsMoveByTheTable`, `SilentApproverIsBypassed` | One order, small, large or with a schedule of milestones, under every pair of the second approver, the swap at release, the pool, the path payment, the Merkle proof, the oracle panel and the mutual voucher: one balance backs them all, approvals and votes count only for the configuration they were given under, a silent approver holds nobody, and an order with a schedule has released what its milestones earned and what the three ways that do not ask for a schedule paid. |

Bounds. A run of one order needs few distinct numbers: an amount of 2 allows a
partial payment and the rest, in both directions; two windows of different
lengths allow each to lapse before the other; `MaxLedger` is one ledger past the
last deadline a run can set, so that every `>=` is seen from both sides. Two
orders are what it takes for one to be paid from the other's tokens. Two owners,
two ids and four versions are what it takes for an id to be reissued and for a
rollback to skip a version. In `EscrowOrder.cfg` and `EscrowPair.cfg` the keeper bounty
is 1, so that a bump in time takes part of what an order holds. No refund of the whole
rest succeeds then: `BuyerCanExit` is about the orders whose rest the contract holds
(`Payable`), and the bounties are a finding of their own.

The disputes run adds to the core an order `e1` that may be disputed; the other
order only fills the pool (it is deposited first, so that a ruling has someone
else's tokens to pay with). Arbiters are left out of an order that is inspected,
because a confirmed delivery leaves the guard locked and no quorum can resolve it,
and of one that is itemised; extensions are bounded by `MaxLedger`. Two arbiters
and three panels are what it takes for a panel to change between two votes.

The permissions runs share terms of one unit and one ledger. Four pairs make a
chain of three hands and a sibling (`permission_tree`). A part may be handed on twice
(`MaxDepth` is 3) and the walk for the expiry is two hops long, so, as in the code, a
chain that was only ever handed on is within the walk, and one that was transferred
in its middle, which here may have four hands, is not. `MCHandedOn` leaves
out the states in which a record is paused or swept as expired, more than one has
been transferred, a middle man grants of his own, "b" and "c" stand above each other
in a ring, or all four records live into the third ledger: they multiply the states, and what a status does to a spend does not
depend on the depth. The third ledger is what it takes for a record to be pruned. `permission_signed`
has one signed pair, two lanes, two epochs and two nonces, and a second pair that
only receives what is transferred and is not decreased (`MCMovedBeside`).

Two escrows with a window of one record are what it takes for a record to be pushed
out of the window, pruned, and reported again, while the other is reviewed. Half-lives
of one and two units let a weight be halved, interpolated and gone before `MaxTime`.
Two ratings are what it takes to see a rating change. `submit_verified_review` asks
whatever contract the caller names, so a third party reports the seller's first escrow
as its own (`MCSettled`); it is not rated itself, the seller alone is ever frozen,
and the second escrow has one rating (`MCSellerOnTrial`): what freezing stops is seen
on the seller, and a third entity that trades adds nothing to two.

In the marketplace there are two storefronts, of two owners side by side, because a
counter that is at zero anyway hides that it was counted down once too often
(`saturating_sub`), or of one owner one after the other, because an index entry can
only be wrong when there is an earlier one to confuse it with. Two verifiers make a policy that can be raised above what was collected. The second
storefront is kept plain (`MCSecondIsPlain`): it is opened in the first moment, after
a first one nobody vouched for, with no open escrow and no appeal of its own; the
first goes through everything.

`MCEscrowControls` puts one order under any two of its seven controls (`TwoControls`),
on the ways of the core that an order without a gate has; what could go
wrong between three of them goes wrong between two, since all they share is the
record and the balance. The amounts 1 and 3 lie on both sides of the dual-control
threshold, and two milestones of 1 below it are what it takes for a path payment to pay
one half of a schedule and a milestone the other; two approvers and two panels are what it takes for an approval or a vote
to outlive the configuration it was given under. `MCEscrowAdmin` has three users, so
that two may sign while the third comes or goes, and looks at queue, upgrade and
rescue one at a time (`MCOneConcern`): what they share is who the admins are.
`MCQuorumGrants` has two owners and two queued spends of which one may be live, and
looks at the window with a grant of one owner (`MCInTurns`), because the window does
not know how many have signed.

Fairness. `CoreFairSpec` assumes that ledgers keep closing (the network's
business) and that the buyer, who wants the money back, keeps asking for the
rest. No seller, admin, arbiter or keeper is assumed to do anything. Weak
fairness is enough: once the timeout has passed, `partial_refund` of all that remains
stays enabled for the buyer until the escrow leaves `Funded`, somebody moves the timeout,
or a keeper of another order is paid with the tokens.
`SmallFairSpec` of the disputes assumes that somebody calls
`finalize_uncontested_ruling`, which anyone may and the winner of the ruling wants to;
`RulingTakesEffect` starts when the window is over, so it needs nothing of the clock.
`ControlsFairSpec`, and `FewFairSpec` on the instance, assume that somebody calls
`handle_dual_control_timeout` once it can be called: anyone may, and the parties want
their money. No admin, approver, router or oracle is assumed to act.
Deadlock checking is off where the model stops at its bounds (`MaxLedger`, the
finite set of ids): the contracts themselves never have to move.

## What is proved

Every modelled component has its theorems; each proof module EXTENDS the module it is
about. `PROJECT.json` lists the theorems; what follows is the argument of each.

`SumLemmas.tla` holds what the invariants that count tokens need. The sums of the
community modules are folds, that is recursive functions, and the induction theorems
of the library cannot be instantiated here; but the subsets of a finite set are well
founded under inclusion, so a property that fails for some subset fails for a minimal
one (`MinimalSubset`). From that follow what a sum is when one summand changes
(`SumChange`), when two functions are added (`SumOfBoth`), over a part of the set
(`SumOfParts`, `SumOfMore`), and when every summand falls (`SumOfSmaller`).

`EscrowCoreProofs.tla` proves for every set of orders, amounts, terms, windows
and schedules that satisfies `CoreAssumption` that the types hold, that every
record is an exact account of the tokens that moved for it
(`CoreBooksMatchTokens`), that an open order always still holds money and a
settled one never does (`CoreStatusMatchesBalance`), and that nothing is
archived before it is paid out (`CoreArchivedIsPaidOut`). None of the three is
inductive alone: a payment preserves the books because the status says that the
record is open, and the status because the books say what remains. `CoreInv`
conjoins them with the types, with what a fresh id looks like (no tokens have
moved for it), and with the cancel guard (a deadline is never earlier than
creation plus the snapshotted window). From it follow the action properties
(`CoreTerminalIsFinal`, `CoreCancelHonoursWindow`) and that `CoreSpec` implements
`Custody!Spec` under the mapping `BoxOf` (`CoreImplementsCustody`): one lemma per
action shows that the step is a fill, a draw, a drop or a stutter.
`CoreOnlyBountiesLeak` is a sum: every action is shown to change what one order is owed
by what it takes out of the pool; a batch opens fresh orders, which are owed nothing
before. It is kept as the difference of the two sides (`Slack`), which the actions that
extend the core keep as well. So is what milestones earn: marking one more adds its
amount (`OneMoreEarned`), and `Schedule` says of one order that its record has released
what they earned and a given number beside.

`EscrowExtensionsProofs.tla` extends these proofs to the two modules beside the core.
For the other ways out, with any approvers, panels, bounds, pools and vouchers,
`ControlsInv` conjoins the core's invariant with three parts of its own: an approval
on file is one of the approver named (`DualInv`), the votes on file are of members of
the panel of the day, each once, none older than the first (`PanelInv`), and the
settings have their types. From it follow that the record stays an exact account of
the tokens (`ControlsKeepTheBooks`), the predicates of `invariants.rs`
(`ControlsRecordsMoveByTheTable`), and the two properties of configurations that are
replaced (`ControlsSwapNeedsItsCosigner`, `ControlsConsensusIsFresh`; the latter
counts the members who voted by an injection from the votes). `ControlsPoolIsBacked`
says that what the contract holds beyond the balances of its orders is the pool and
what it advanced (`PoolInv`). `ControlsMilestonesMatchReleases` takes `aside` for the
number in `Schedule`: the ways that ask for a schedule find none, and the three that do
not add to both sides what they pay.

For the disputes the invariant of the core does not hold, because rulings pay by
another rule. `DisputeInv` is the types and `DisputeBooks`, a table: which amounts,
tokens paid and state of the appeal go with each status. The proof never goes through
all actions for it: each of them, the core's operations included, is shown to be one
of ten ways an order may move in one call (`Moves`: it begins, is funded, turns,
pays, is ruled, is appealed, is settled ...), at most one order at a time, and each
such move keeps the table. `DisputeRulingsPayThePrincipal`, `DisputesHoldMoney` and
`DisputeRulingIsFrozen` are read off the table and the moves. `VotesInv` (each arbiter
has one vote in a dispute, and whoever spoke has it on file until the order is closed)
gives `DisputeOnlySilentAreSlashed` and, by counting disjoint sets of voters,
`DisputeConflictNeedsALaxPanel`. `DisputePoolIsAccountedFor` adds the bonds of appeals
to the sum over the orders (`PoolBalance`).

`DelegationRegistryProofs.tla` proves the types, that the version trail and the
keyed snapshots agree with each other and with the record (`RegistryTrail`), and
that a lapsed delegation never authorises again, rollback included
(`RegistryLapsedStaysDead`). The inductive invariant adds that all versions of
one trail belong to one life of the id: same owner, contract and expiry.
`RegistrySubAccounts` keeps every sub-account on an id that exists (`SubAccountsHang`);
its owner can only be another's once the trail shows the id handed out again.

`PermissionsProofs.tla` proves for any pairs, terms, delays and bounds the types,
that no allowance is overdrawn (`AllowanceIsKept`), that no step charges a lapsed
grant but from farther below than the walk for the expiry goes, however far that is
(`LapsedIsNotCharged`), that a session key and a grant exclude each other but
for the two ways that do not ask (`SessionsAreAlone`), and that a dead message is
never the next one accepted (`DeadSignaturesAreRefused`). The hierarchy may have any
shape, rings included: the proofs use what the records on a walk are tested for and
never which records those are. The last theorem needs a strengthening
(`DeadAreBehind`): a dead message is of an epoch that is over, or of the current
one and behind the nonce of its lane; its case for pausing needs that no message is
ahead of the epoch.

The second half of `PermissionsProofs.tla` is about the grants of several owners: the
shared allowance is not overdrawn, quorums stay reachable, open spends are in the
bounded queue, and queued spends settle on distinct owners. The strengthening is `DistinctSigners`: the
signatures on a proposal are no more than the people behind them, and each has
signed as an owner. `QuorumWindowHolds` is about all stretches of ledgers and not
about buckets, so its invariant (`WindowInv`) says what the running bucket stands for:
what flowed since it started, and what flowed in a window's length before it started,
are each within the cap. A stretch as long as the window is covered by the two.

`EscrowAdminProofs.tla` begins with the queue: a live proposal is the current one
of its action (`ActionLiveIsCurrent`), a veto stands (`ActionVetoStands`),
the list and the index of the token whitelist agree (`ActionWhitelist`), and the
queue implements `Timelock` (`ActionKeepsReview`). `QueueInv` needs all of this
together: consuming by the digest removes the proposal the id names only because ids
are fresh and the kept id is of the same action. The rest lifts it to
the whole administration (`AdminKeepsReview`) and proves that no signer is counted
twice, that upgrades meet the bar they were proposed under and rescues are what was
signed, and that a rescue pays what is left. `AdminInv` conjoins the queue with the
signers (the primary admin is no co-admin), the pending upgrade (the threshold is the
bar), the signatures (an approval on file was given for the destination on file) and
the accounts (an order that can still be rescued has paid what it says).

`MarketplaceProofs.tla` proves for any merchants, owners, names, verifiers, policies
and deposits the types, with what an id has before it is registered (`MarketTypes`),
and on top of them the four properties the runs check. `MarketStatsMatch`: every call
moves one merchant from one counter to another, or to none (`TallyMoves`), and no
counter that is counted down is at zero, so that `saturating_sub` never hides
anything. `MarketIndexesFollow` is not inductive alone: an index entry that is taken
out must have been the merchant's own (`PointersHit`). `MarketVaultIsOwed` is one
change of one summand per call, however often the merchant has changed hands, status
and appeal. `MarketVerifiedIsEarned` follows merchant by merchant.

`ReputationProofs.tla` is about folds: what a history counts for is `FoldLeft` over
its positions. `FoldIsAdded` shows, again by least counterexample, that the fold is
three sums over positions, and `SumOverRange` turns them into sums over the escrows on
the history, which is a list without repetition. `ReputationInv` then says that
histories are disjoint, that an escrow on file is on the history of the entity its
record is about unless a review disturbed it, and that every counter is what is gone
plus a sum over the history. Each call appends one escrow, exchanges one outcome, or
moves the oldest escrows from one side to the other, which gives `LifetimeCounts`. It
also shows that the counters taken back with `saturating_sub` are never at zero.
`RatingsStand` assumes nothing of the admin or of the contracts named in proofs: its
invariant (`RatingsFit`) says that whoever is named on a rated record is on the list of
those who have rated it, unless a relay has put the name there (`renamed`).

`AccumulatorTracks` is about weights. A power of two is the number of subsets of a set
(`PowerIsSubsets`), which is how it doubles (`PowerDoubles`) without an induction; with
what a quotient is (`QuotientBelow`, `QuotientAbove`) this gives that a weight never
rises with age, neither within a window nor at its end (`WeightFalls`). The stored sums
are a fold of `Shift` over the end of the history; `FoldIsPulledIn` makes it five sums
of what each record pulls, and `IncrementIsMove` shows that adding a record and taking
out the one it pushes from the window changes the stored sums by what it changes those
five by. The inductive invariant `AccInv` says of the sums of every half-life, not of the
configured one alone, that they are at least those of the records and equal to them if
no time has passed (`Tracks`): a configuration may come back, and the property, which is
about the configured half-life, then holds again of sums made long before. That the
record pushed out is taken away with today's weight is what keeps the inequality; that
`disturbed` entities are left out is needed where a review takes a record from the
history of somebody else.

Some invariants are proved and no longer run, because a proof says more than a run:
the type invariants, `StatusMatchesBalance`, `ArchivedIsPaidOut` and `TerminalIsFinal`
of the core, `LiveIsCurrent`, `VetoStands` and `WhitelistIsIndexed` of the queue,
`RescuePaysWhatIsLeft`, and `QuorumIsReachable`, `SharedLimitHolds` and
`OpenSpendsAreQueued` of the multi-owner grants. The assumptions of all proofs are
the `ASSUME`s of the modules, which TLC evaluates on every instance.

Only model-checked: `RevokeReachesBelow`, which is about what a walk reaches, and a
walk is a recursive function that may not end; and the liveness properties
(`BuyerCanExit`, `RulingTakesEffect`, `SilentApproverIsBypassed`). Every invariant a
passing run checks has its theorem.

## What the code does not keep

The violation run shows one statement of the docs, comments or tests that the code
does not keep; `PROJECT.json` quotes the statement beside it and lists the others,
which the definitions keep as the code has them.

- `escrow_overpaid`: a ruling pays the principal whatever was paid before, and an
  appeal window left open by a ruling that has paid pays it again.

Without a run of their own, escrow: one confirmed delivery locks the release guard
for good; keepers are paid with the money of orders; a rescued order says that its
whole principal was refunded whatever it had released, and its approvals are counted
with those of former admins; the constructor can be called again on a deployed
contract; the second approver is asked for by some ways out only; the pool's
settlement leaves the order's own tokens behind; an order with a schedule is also paid
by the oracles of a panel, a path of swaps, the pool, an inspection and a ruling, which
do not look at the milestones; a path payment pays twice over;
`split_release` pays every share twice. Permissions: a delegate resumes what a
revocation of its own grant had revoked; a grant whose term is over is
charged from more than 32 hands below, in a chain a transfer or a renewed grant in
its middle has made that long; two users who make each other's grant the
parent of their own can neither be spent from nor revoked; signatures of former
owners count against the threshold of the day of the proposal; negative spends raise
an allowance; the rolling window lets through twice its cap. Elsewhere: a rollback
restores a revoked key nonce; a review overwrites a record of the other party, and an escrow that was
rated is rated again by whom a later relay names; an old
accumulator keeps its weights; a ranked page skips a merchant; a merchant leaves with
the deposit while escrows are open; closing a closed storefront hides the owner's
live one.

The passing properties name these exceptions (`Ruled`, `bounties`, `reissued`,
`reborn`, `moved`, `disturbed`, `renamed`, `repointed`, `redeployed`, `advanced`,
`aside`, `Payable`, `reversed`) instead of looking away from them, so that they say what still holds.

## Not modelled

Events, time-to-live of storage entries, pagination of plain lists, labels and
metadata; checks that refuse a call whatever has happened before (pause switches,
allow lists, limits of one call); arithmetic overflow, which the contracts check
and answer with an error; the token contract, which delivers what was asked; the
lending pool, whose yield is zero whenever it is computed at settlement; the
maintenance windows and stock of the marketplace, which no build has; the
`src/delegation` fragment, which is not part of the workspace and does not refer to
existing code.

Of the escrow contract, also `split_release`, whose two merged bodies pay every share
twice and which no reading makes one function; `set_release_condition` and
`clear_release_condition`, which ask a price oracle outside; the configuration of
yield and of volume tiers, and the setters of limits and pause flags, which store a
number no modelled guard reads. Of the permissions, the interval between two spends,
which only refuses, and the administration.

## Plan

Done: the custody core, the registry, disputes, permissions, reputation and the
marketplace; the second approver, pool and proofs; the administration with its
review, upgrades and rescues; the grants of several owners and the rolling window;
theorems of all of these.

Left, in this order:

1. `Trade`: the escrow core composed with the marketplace's count of open escrows and
   the reports that keep it.
2. `RevokeReachesBelow`, for pairs whose parents form no cycle.
