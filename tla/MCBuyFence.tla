------------------------------ MODULE MCBuyFence ------------------------------
(* TLC instances of BuyFence.                                              *)
EXTENDS BuyFence, TLC

\* Claim ids are uuids: only which of them are equal matters.  Tokens differ in
\* nothing but their name.
Symmetry == Permutations(Ids) \cup Permutations(Tokens)

\* An order whose id nothing refers to any more is final and its id is fresh:
\* Reserve overwrites it, and no action or property reads it before that.
LiveOrders == [i \in Ids |-> IF Fresh(i) THEN NoOrder ELSE order[i]]
View == <<db, process, LiveOrders, wallet, indexed, seen, waived>>

\* After an operator overrode the facts every property is void for that token.
\* Only OperatorClear leaves these states, and no fairness asks for it, so the
\* behaviours that stay inside are closed under every fair action.
NothingWaived == waived = {}

\* Two tokens meet in the limits only: beside the one whose whole life is explored
\* another one is bought, a dollar at most, while nothing else goes on.
Unused(t) ==
    /\ claim[t] = NoClaim /\ scan[t] = NoScan /\ wallet[t] = 0 /\ indexed[t] = 0 /\ seen[t]
    /\ row[t] = [status |-> "none", shares |-> 0, age |-> "old"]
Calm == /\ crashes = 0 /\ rev = 0 /\ ack = "none" /\ ~paused
        /\ \A t \in Tokens : row[t].status # "closing"
OneAtATime ==
    \/ \E t \in Tokens : \A u \in Tokens \ {t} : Unused(u)
    \/ Calm /\ \E t \in Tokens : claim[t].reserved <= 1 /\ row[t].shares <= 1
Bounded == NothingWaived /\ OneAtATime
=============================================================================
