------------------------------ MODULE MCCopyPass ------------------------------
(* TLC instances of CopyPass.                                              *)
EXTENDS CopyPass

\* Dollar for dollar, two dollars a position.
TwoDollars == [ratio |-> 1, maxPos |-> 2, exposure |-> 2, maxOpen |-> 1, minLeader |-> 1, dust |-> 1]

\* With one token every property is void once its row was raced.
NothingRaced == raced = {}
\* Bound: a list cut short drops a token from _no_backfill after the last leader
\* trade and for a user with no shares yet; the fast path may still be handed the
\* trades, and every order is still to come.
NoShares == [t \in Tokens |-> 0]
CutLate ==
    (\E t \in preexisting \ preexisting' : view[t] > 0) =>
       moves = MaxMoves /\ funds = <<NoShares, Wealth>>
\* Without external closes.
NoExternalClose == ~Busy("external")
=============================================================================
