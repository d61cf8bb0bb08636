--------------------------- MODULE WithdrawPromise ---------------------------
(***************************************************************************)
(* What a withdrawal promises, whatever the relayer, the chain, the bridge *)
(* and the process do: its amount is held from the moment it is requested  *)
(* until it has left the wallet or never can; it leaves at most once, only *)
(* while it is held; and a withdrawal that was called off never pays.      *)
(***************************************************************************)
EXTENDS Naturals

CONSTANT Keys    \* withdrawals, by idempotency key

VARIABLES
    phase,   \* [Keys -> {"none", "held", "released", "away", "closed"}]
    moved    \* [Keys -> how often the amount left the wallet]

vars == <<phase, moved>>

Init == /\ phase = [k \in Keys |-> "none"]
        /\ moved = [k \in Keys |-> 0]

Turn(k, from, to) == phase[k] = from /\ phase' = [phase EXCEPT ![k] = to]

Hold(k) == Turn(k, "none", "held") /\ UNCHANGED moved

\* The amount leaves the wallet.
Leave(k) == /\ phase[k] = "held" /\ moved[k] = 0
            /\ moved' = [moved EXCEPT ![k] = 1]
            /\ UNCHANGED phase

Release(k) == Turn(k, "held", "released") /\ moved[k] = 0 /\ UNCHANGED moved
Notice(k) == Turn(k, "held", "away") /\ moved[k] = 1 /\ UNCHANGED moved
Close(k) == Turn(k, "away", "closed") /\ UNCHANGED moved

Next == \E k \in Keys : Hold(k) \/ Leave(k) \/ Release(k) \/ Notice(k) \/ Close(k)
Spec == Init /\ [][Next]_vars
=============================================================================
