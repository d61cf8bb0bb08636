------------------------------ MODULE BuyPromise ------------------------------
(***************************************************************************)
(* What the fenced BUYs of one user promise, whatever the exchange, the    *)
(* indexer, the reconciler and the process do.  A token has at most one    *)
(* BUY out at a time.  It delivers at most once, at most what was set      *)
(* aside for it.  Each share it delivers is booked exactly once, and the   *)
(* token is free for the next BUY only when none is due.  Booked shares    *)
(* leave by a sale and by nothing else.  An operator may overrule all this *)
(* for one token; nothing is promised about it afterwards.                 *)
(***************************************************************************)
EXTENDS Integers

CONSTANTS Tokens, Budgets

VARIABLES
    stage,   \* [Tokens -> {"free", "out", "bought", "overruled"}]
    budget,  \* [Tokens -> what the BUY that is out may deliver at most]
    due,     \* [Tokens -> shares delivered that are not booked]
    booked   \* [Tokens -> shares booked and not sold]

vars == <<stage, budget, due, booked>>

Init == /\ stage = [t \in Tokens |-> "free"]
        /\ budget = [t \in Tokens |-> 0]
        /\ due = [t \in Tokens |-> 0]
        /\ booked = [t \in Tokens |-> 0]

Turn(t, from, to) == stage[t] \in from /\ stage' = [stage EXCEPT ![t] = to]

Reserve(t) ==
    /\ Turn(t, {"free"}, "out")
    /\ \E b \in Budgets : budget' = [budget EXCEPT ![t] = b]
    /\ UNCHANGED <<due, booked>>

\* The BUY is matched: its shares are in the wallet and in no row yet.
Deliver(t) ==
    /\ Turn(t, {"out"}, "bought")
    /\ \E n \in 0..budget[t] : due' = [due EXCEPT ![t] = n]
    /\ UNCHANGED <<budget, booked>>

\* Some of what is due moves into the books; the fence stays.
Book(t) ==
    /\ stage[t] = "bought"
    /\ \E n \in 1..due[t] : /\ due' = [due EXCEPT ![t] = @ - n]
                            /\ booked' = [booked EXCEPT ![t] = @ + n]
    /\ UNCHANGED <<stage, budget>>

\* The fence goes, and all that was due is booked.
Settle(t) ==
    /\ Turn(t, {"out", "bought"}, "free")
    /\ booked' = [booked EXCEPT ![t] = @ + due[t]]
    /\ due' = [due EXCEPT ![t] = 0]
    /\ budget' = [budget EXCEPT ![t] = 0]

Sell(t) ==
    /\ stage[t] # "overruled"
    /\ \E n \in 1..booked[t] : booked' = [booked EXCEPT ![t] = @ - n]
    /\ UNCHANGED <<stage, budget, due>>

Overrule(t) ==
    /\ Turn(t, {"out", "bought"}, "overruled")
    /\ booked' = [booked EXCEPT ![t] = 0]
    /\ due' = [due EXCEPT ![t] = 0]
    /\ budget' = [budget EXCEPT ![t] = 0]

Next == \E t \in Tokens :
    Reserve(t) \/ Deliver(t) \/ Book(t) \/ Settle(t) \/ Sell(t) \/ Overrule(t)
Spec == Init /\ [][Next]_vars
=============================================================================
