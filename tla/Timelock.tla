------------------------------ MODULE Timelock ------------------------------
(***************************************************************************)
(* What a reviewed change promises to those who watch the contract: no     *)
(* setting changes unless precisely that change has been on view for a     *)
(* whole review period, without a break; a change that is withdrawn starts *)
(* again from nothing; a change touches the setting it is about, no other. *)
(* A setting that was never made may be made at once.                      *)
(***************************************************************************)
EXTENDS Integers

CONSTANTS
  Changes,   \* the changes that can be asked for
  Topics,    \* the settings
  Topic,     \* the setting each change is about
  Free,      \* the settings that may be unmade: <<>>
  Delay      \* the review period

VARIABLES
  clock,
  notice,    \* since when each change has been on view
  settings   \* the value of each setting

Never == -1

Others(t) == \A u \in Topics \ {t} : settings'[u] = settings[u]

Init == notice = [c \in Changes |-> Never]

Announce(c) ==
  /\ notice[c] = Never
  /\ notice' = [notice EXCEPT ![c] = clock]
  /\ UNCHANGED <<clock, settings>>

Withdraw(c) ==
  /\ notice[c] # Never
  /\ notice' = [notice EXCEPT ![c] = Never]
  /\ UNCHANGED <<clock, settings>>

Enact(c) ==
  /\ notice[c] # Never
  /\ clock >= notice[c] + Delay
  /\ notice' = [notice EXCEPT ![c] = Never]
  /\ Others(Topic[c])
  /\ UNCHANGED clock

Appoint(t) ==
  /\ settings[t] = <<>>
  /\ Others(t)
  /\ UNCHANGED <<clock, notice>>

Tick ==
  /\ clock' > clock
  /\ UNCHANGED <<notice, settings>>

Next ==
  \/ Tick
  \/ \E c \in Changes : Announce(c) \/ Withdraw(c) \/ Enact(c)
  \/ \E t \in Free : Appoint(t)

Spec == Init /\ [][Next]_<<clock, notice, settings>>

=============================================================================
