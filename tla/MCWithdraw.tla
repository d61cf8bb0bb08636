------------------------------ MODULE MCWithdraw ------------------------------
(* TLC instances of Withdraw.                                              *)
EXTENDS Withdraw, TLC

\* Every withdrawal belongs to one user, or each to a user of its own.
OneOwner == [k \in Keys |-> "user"]
EachItsOwn == [k \in Keys |-> k]

\* Sound with OneOwner and with EachItsOwn: neither tells two keys apart.
Symmetry == Permutations(Keys) \cup Permutations(Taps)
=============================================================================
