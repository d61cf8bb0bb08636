------------------------------ MODULE Collateral ------------------------------
(***************************************************************************)
(* The engine's cache of one user's available collateral: decisions of the *)
(* fast path and of the reconciler read it together, orders and            *)
(* withdrawals drop it.  A balance is named by the second it was true in.  *)
(* The drop and the spend are not one step: an order drops the entry before *)
(* it is sent (_note_submitted), the exchange debits it later, and a filled *)
(* BUY drops nothing.  So a read that overlaps the order, or begins between *)
(* the two, caches the balance from before the spend; what is promised of   *)
(* it is how long it lives, over any order of drops, reads and spends.      *)
(***************************************************************************)
EXTENDS Integers

CONSTANTS
    Decisions,  \* decisions that size a copy
    NoBalance,  \* nothing cached, nothing read
    Ttl,        \* COLLATERAL_CACHE_SECONDS; 0 turns the cache off
    ReadMax,    \* assumption: the client's timeout, how long a read takes
    CollateralTime  \* bound: seconds

ASSUME CollateralAssumption == {Ttl, ReadMax, CollateralTime} \subseteq Nat /\ NoBalance \notin Nat

VARIABLES
    balanceNow,
    balanceCache,   \* _collateral_cache: [moment, deadline], or NoBalance
    decision        \* [Decisions -> the decision]

collateralVars == <<balanceNow, balanceCache, decision>>

CollateralTimes == 0..CollateralTime
NotBegun == [pc |-> "idle", since |-> 0, got |-> NoBalance]

CollateralTypeOK ==
    /\ balanceNow \in CollateralTimes
    /\ balanceCache \in [moment: CollateralTimes, deadline: 0..CollateralTime + Ttl] \cup {NoBalance}
    /\ decision \in [Decisions -> [pc: {"idle", "reads", "done"}, since: CollateralTimes,
                                   got: CollateralTimes \cup {NoBalance}]]

CollateralInit ==
    /\ balanceNow = 0 /\ balanceCache = NoBalance
    /\ decision = [d \in Decisions |-> NotBegun]

Reading == {d \in Decisions : decision[d].pc = "reads"}

CollateralSecond ==
    /\ balanceNow < CollateralTime /\ \A d \in Reading : balanceNow - decision[d].since < ReadMax
    /\ balanceNow' = balanceNow + 1 /\ UNCHANGED <<balanceCache, decision>>

\* Mutant: the deadline is not looked at.
CachedForever == IF Ttl > 0 THEN balanceCache ELSE NoBalance
\* _cached_collateral; an entry past its deadline is dropped.
CachedBalance ==
    IF Ttl > 0 /\ balanceCache # NoBalance /\ balanceCache.deadline > balanceNow
    THEN balanceCache ELSE NoBalance

Decide(d) ==
    /\ decision[d].pc = "idle" /\ balanceCache' = CachedBalance
    /\ decision' = [decision EXCEPT ![d] =
          IF CachedBalance # NoBalance
          THEN [@ EXCEPT !.pc = "done", !.since = balanceNow, !.got = CachedBalance.moment]
          ELSE [@ EXCEPT !.pc = "reads", !.since = balanceNow]]
    /\ UNCHANGED balanceNow

\* The transport fails: the client is rebuilt and the balance read once more.
Again(d) ==
    /\ d \in Reading /\ decision' = [decision EXCEPT ![d].since = balanceNow]
    /\ UNCHANGED <<balanceNow, balanceCache>>

BalanceLands(d) ==
    /\ d \in Reading
    /\ \E moment \in decision[d].since..balanceNow :
         /\ decision' = [decision EXCEPT ![d].pc = "done", ![d].got = moment]
         /\ balanceCache' = IF Ttl = 0 THEN balanceCache
                     ELSE [moment |-> moment, deadline |-> balanceNow + Ttl]
    /\ UNCHANGED balanceNow
BalanceFails(d) ==
    /\ d \in Reading /\ decision' = [decision EXCEPT ![d] = NotBegun]
    /\ UNCHANGED <<balanceNow, balanceCache>>
DecisionEnds(d) ==
    /\ decision[d].pc = "done" /\ decision' = [decision EXCEPT ![d] = NotBegun]
    /\ UNCHANGED <<balanceNow, balanceCache>>

\* _invalidate_collateral: an order about to be sent, a SELL that filled, a
\* withdrawal.  A read under way is not told.
Invalidate ==
    /\ balanceCache' = NoBalance /\ UNCHANGED <<balanceNow, decision>>

CollateralNext ==
    \/ CollateralSecond \/ Invalidate
    \/ \E d \in Decisions : Decide(d) \/ Again(d) \/ BalanceLands(d) \/ BalanceFails(d) \/ DecisionEnds(d)

CollateralSpec == CollateralInit /\ [][CollateralNext]_collateralVars

-----------------------------------------------------------------------------
(* The balance a decision uses was the wallet's within one lifetime of the  *)
(* cache and one read, though reads overlap, are tried again and an older    *)
(* one may land last.  So a balance from before a spend is used for at most  *)
(* Ttl + ReadMax seconds after it, which is less than the code claims: its   *)
(* next decision sizes against a fresh balance (copy_engine.py:2410).        *)
BalanceRecent ==
    \A d \in Decisions : decision[d].pc = "done" /\ decision[d].got # NoBalance =>
       decision[d].got + Ttl + ReadMax >= decision[d].since
=============================================================================
