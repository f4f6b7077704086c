---------------------------- MODULE AdminActions ----------------------------
(***************************************************************************)
(* The escrow contract's typed administrative actions                      *)
(* (escrow/src/admin_actions.rs): a change of the fees, of the token       *)
(* whitelist or of the security guardian is queued, may be vetoed by the   *)
(* guardian, and is carried out once its review period is over.  Each call *)
(* is one transaction.  That the caller is an admin is a guard of the      *)
(* module that composes this one with the set of admins.                   *)
(*                                                                         *)
(* A live proposal is found in two ways: by its id (Proposal) and by the   *)
(* digest of its arguments (Current), here the action itself.  Options are *)
(* sequences of at most one element.  "ledger" is the sequence number and  *)
(* the timestamp: the two delays are one day each.                         *)
(***************************************************************************)
EXTENDS Integers, Sequences, Functions

CONSTANTS
  Rates,         \* fee rates asked for
  Treasuries,    \* addresses fees are sent to
  Splits,        \* distributions asked for: the share of each treasury
  Tokens,        \* token contracts
  Guardians,     \* addresses that may be guardian
  MaxFee,        \* 1000 basis points
  MaxTreasuries, \* MAX_TREASURIES
  ReviewDelay,   \* ADMIN_ACTION_DELAY_SECONDS and ADMIN_ACTION_DELAY_LEDGERS
  MaxId,         \* bound on the ids handed out
  MaxLedger      \* bound on the clock

ASSUME ActionAssumption ==
  /\ Rates \subseteq Nat
  /\ Splits \subseteq Seq(Nat)
  /\ {MaxFee, MaxTreasuries, ReviewDelay, MaxId, MaxLedger} \subseteq Nat

(* AdminAction: the discriminant and the arguments. *)
AdminAction ==
  ({"fee"} \X Rates) \cup ({"fee_cfg"} \X Rates \X Treasuries)
  \cup ({"fee_dist"} \X Splits)
  \cup ({"token_add", "token_del"} \X Tokens)
  \cup ({"guardian"} \X Guardians)

VARIABLES
  ledger,
  guardian,    \* Guardian
  lastId,      \* LastId
  proposal,    \* Proposal: [action, unlock, vetoed], NoProposal when none
  current,     \* Current: the id queued last for an action, 0 when none
  fee,         \* FeeConfig
  split,       \* FeeDistribution
  tokens,      \* AllowedTokenAt: the whitelist as it is enumerated
  place        \* AllowedToken: the index of a token, 0 when it is not allowed

queueVars == <<lastId, proposal, current>>
settingVars == <<guardian, fee, split, tokens, place>>
actionVars == <<ledger, queueVars, settingVars>>

Ids == 1..MaxId
NoProposal == [action |-> <<>>, unlock |-> 0, vetoed |-> FALSE]
Stored(id) == proposal[id] # NoProposal
Live(id) == Stored(id) /\ ~proposal[id].vetoed

ActionInit ==
  /\ ledger = 0
  /\ guardian = <<>>
  /\ lastId = 0
  /\ proposal = [id \in Ids |-> NoProposal]
  /\ current = [a \in AdminAction |-> 0]
  /\ fee = <<>>
  /\ split = <<>>
  /\ tokens = <<>>
  /\ place = [t \in Tokens |-> 0]

CloseLedger ==
  /\ ledger < MaxLedger
  /\ ledger' = ledger + 1
  /\ UNCHANGED <<queueVars, settingVars>>

-----------------------------------------------------------------------------
(* Queueing and review. *)

Valid(a) ==
  /\ a[1] \in {"fee", "fee_cfg"} => a[2] <= MaxFee
  /\ a[1] = "fee_dist" =>
       /\ Len(a[2]) <= MaxTreasuries
       /\ \A i \in DOMAIN a[2] : a[2][i] > 0
       /\ SumFunction(a[2]) <= MaxFee

(* set_security_guardian: once, with the consent of the guardian. *)
SetSecurityGuardian(g) ==
  /\ guardian = <<>>
  /\ guardian' = <<g>>
  /\ UNCHANGED <<ledger, queueVars, fee, split, tokens, place>>

(* queue_admin_action, and schedule_fee_update for a "fee_cfg": one live   *)
(* proposal of an action at a time; a vetoed one is queued anew, under a   *)
(* new id.                                                                 *)
QueueAdminAction(a) ==
  /\ guardian # <<>>
  /\ Valid(a)
  /\ current[a] # 0 => ~Live(current[a])
  /\ lastId < MaxId
  /\ lastId' = lastId + 1
  /\ proposal' = [proposal EXCEPT ![lastId + 1] =
                    [action |-> a, unlock |-> ledger + ReviewDelay, vetoed |-> FALSE]]
  /\ current' = [current EXCEPT ![a] = lastId + 1]
  /\ UNCHANGED <<ledger, settingVars>>

(* veto_admin_action: the guardian of today, until it has been executed. *)
VetoAdminAction(id) ==
  /\ guardian # <<>>
  /\ Stored(id)
  /\ proposal' = [proposal EXCEPT ![id].vetoed = TRUE]
  /\ UNCHANGED <<ledger, lastId, current, settingVars>>

-----------------------------------------------------------------------------
(* Carrying a change out. *)

(* Mutant: the review period is not waited for. *)
ConsumeEarly(a) ==
  LET id == current[a]
  IN  /\ id # 0
      /\ Live(id)
      /\ current' = [current EXCEPT ![a] = 0]
      /\ proposal' = [proposal EXCEPT ![id] = NoProposal]
      /\ UNCHANGED lastId

(* consume: by the digest of the arguments. *)
Consume(a) ==
  LET id == current[a]
  IN  /\ id # 0
      /\ Live(id)
      /\ ledger >= proposal[id].unlock
      /\ current' = [current EXCEPT ![a] = 0]
      /\ proposal' = [proposal EXCEPT ![id] = NoProposal]
      /\ UNCHANGED lastId

UpdateFee(bps) ==
  /\ fee # <<>>
  /\ fee' = <<[fee[1] EXCEPT !.bps = bps]>>
  /\ UNCHANGED <<guardian, split, tokens, place>>

SetFeeConfig(bps, treasury) ==
  /\ fee' = <<[bps |-> bps, treasury |-> treasury]>>
  /\ UNCHANGED <<guardian, split, tokens, place>>

SetFeeDistribution(shares) ==
  /\ split' = shares
  /\ UNCHANGED <<guardian, fee, tokens, place>>

AddToken(t) ==
  /\ IF place[t] # 0 THEN UNCHANGED <<tokens, place>>
     ELSE /\ tokens' = Append(tokens, t)
          /\ place' = [place EXCEPT ![t] = Len(tokens) + 1]
  /\ UNCHANGED <<guardian, fee, split>>

(* remove_token: the last token of the list takes the place. *)
RemoveToken(t) ==
  /\ IF place[t] = 0 THEN UNCHANGED <<tokens, place>>
     ELSE LET last == Len(tokens)
          IN  /\ tokens' = SubSeq([tokens EXCEPT ![place[t]] = tokens[last]], 1, last - 1)
              /\ place' = [place EXCEPT ![tokens[last]] = place[t], ![t] = 0]
  /\ UNCHANGED <<guardian, fee, split>>

RotateGuardian(g) ==
  /\ guardian' = <<g>>
  /\ UNCHANGED <<fee, split, tokens, place>>

Apply(a) ==
  \/ a[1] = "fee" /\ UpdateFee(a[2])
  \/ a[1] = "fee_cfg" /\ SetFeeConfig(a[2], a[3])
  \/ a[1] = "fee_dist" /\ SetFeeDistribution(a[2])
  \/ a[1] = "token_add" /\ AddToken(a[2])
  \/ a[1] = "token_del" /\ RemoveToken(a[2])
  \/ a[1] = "guardian" /\ RotateGuardian(a[2])

(* execute_admin_action names an id and consumes by the digest. *)
ExecuteAdminAction(id) ==
  /\ Live(id)
  /\ Consume(proposal[id].action)
  /\ Apply(proposal[id].action)
  /\ UNCHANGED ledger

(* update_fee, set_fee_distribution, add_token and remove_token may still  *)
(* be called with the arguments, and consume the proposal of these.        *)
ExecuteByArguments(a) ==
  /\ a[1] \in {"fee", "fee_dist", "token_add", "token_del"}
  /\ a[1] \in {"fee", "fee_dist"} => Valid(a)
  /\ Consume(a)
  /\ Apply(a)
  /\ UNCHANGED ledger

-----------------------------------------------------------------------------

ActionNext ==
  \/ CloseLedger
  \/ \E g \in Guardians : SetSecurityGuardian(g)
  \/ \E a \in AdminAction : QueueAdminAction(a) \/ ExecuteByArguments(a)
  \/ \E id \in Ids : VetoAdminAction(id) \/ ExecuteAdminAction(id)

ActionSpec == ActionInit /\ [][ActionNext]_actionVars

-----------------------------------------------------------------------------

ActionTypeOK ==
  /\ ledger \in Nat
  /\ lastId \in Nat
  /\ \A id \in Ids : Stored(id) =>
       /\ proposal[id].action \in AdminAction
       /\ proposal[id].unlock \in Nat
       /\ proposal[id].vetoed \in BOOLEAN
  /\ current \in [AdminAction -> 0..MaxId]

(* Looking a proposal up by its id and by its arguments never disagree: a  *)
(* proposal that is neither executed nor vetoed is the current one of its  *)
(* action, so executing an id consumes that id and no other.               *)
LiveIsCurrent ==
  \A id \in Ids : Live(id) => current[proposal[id].action] = id

(* A veto is for ever (escrow/src/admin_actions.rs:37): whatever is queued *)
(* again, the vetoed proposal stays on the books as it was.                *)
VetoStands ==
  [][\A id \in Ids : Stored(id) /\ proposal[id].vetoed => proposal'[id] = proposal[id]]_actionVars

(* The whitelist's two storages agree after any order of additions and of  *)
(* removals (which move the last token): each token is where its index     *)
(* says, and no other token is listed.                                     *)
WhitelistIsIndexed ==
  /\ \A i \in DOMAIN tokens : place[tokens[i]] = i
  /\ \A t \in Tokens : place[t] # 0 => place[t] \in DOMAIN tokens /\ tokens[place[t]] = t

(* The settings, and since when a change of them has been on view. *)
Settings ==
  [fee |-> fee, split |-> split, tokens |-> <<tokens, place>>, guardian |-> guardian]

TopicOf ==
  [a \in AdminAction |->
     CASE a[1] \in {"fee", "fee_cfg"} -> "fee"
       [] a[1] = "fee_dist" -> "split"
       [] a[1] \in {"token_add", "token_del"} -> "tokens"
       [] OTHER -> "guardian"]

OnView ==
  [a \in AdminAction |->
     IF current[a] # 0 /\ Live(current[a])
     THEN proposal[current[a]].unlock - ReviewDelay ELSE -1]

Review == INSTANCE Timelock
  WITH Changes <- AdminAction, Topics <- {"fee", "split", "tokens", "guardian"},
       Topic <- TopicOf, Free <- {"fee", "guardian"}, Delay <- ReviewDelay,
       clock <- ledger, notice <- OnView, settings <- Settings

(* The queue implements the review it promises (escrow/src/admin_actions.rs*)
(* 4-7, 283-284): through no path, by id or by arguments, is a setting     *)
(* changed that was not on view, unvetoed, for the whole period.           *)
KeepsReview == Review!Spec

=============================================================================
