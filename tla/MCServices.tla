------------------------------ MODULE MCServices ------------------------------
(***************************************************************************)
(* The services of the process that share no state in these models, in one *)
(* instance for TLC.  Their steps commute and no guard of one reads        *)
(* another, so the interleaving of two shows nothing that the two do not   *)
(* show alone: `part` names the one that runs, the others stay where they  *)
(* start.                                                                  *)
(***************************************************************************)
EXTENDS WalletCreation, LeaderCashReader, Collateral, Deposits, Redeem, KeyedLocks,
        Detection, TLC

VARIABLE part

Parts == {"wallet", "leader", "collateral", "deposits", "redeem", "locks", "detection"}

MCInit ==
    /\ part \in Parts
    /\ Init /\ CashInit /\ CollateralInit /\ DepositsInit
    /\ RedeemInit /\ LocksInit /\ DetectionInit
    /\ part # "detection" => source = "chain"
    /\ part # "redeem" => managed = {} /\ holding = [u \in Users |-> [m \in Markets |-> "wins"]]

\* A step of part p leaves the others where they are.
In(p) == part = p
Rest(p) ==
    /\ part' = p
    /\ IF p = "wallet" THEN TRUE ELSE UNCHANGED vars
    /\ IF p = "leader" THEN TRUE ELSE UNCHANGED cashVars
    /\ IF p = "collateral" THEN TRUE ELSE UNCHANGED collateralVars
    /\ IF p = "deposits" THEN TRUE ELSE UNCHANGED depositsVars
    /\ IF p = "redeem" THEN TRUE ELSE UNCHANGED redeemVars
    /\ IF p = "locks" THEN TRUE ELSE UNCHANGED lockVars
    /\ IF p = "detection" THEN TRUE ELSE UNCHANGED detectionVars

WalletStep ==
    \/ \E r \in Requests :
         \/ In("wallet") /\ Begin(r) /\ Rest("wallet")
         \/ In("wallet") /\ Acquire(r) /\ Rest("wallet")
         \/ In("wallet") /\ Prepare(r) /\ Rest("wallet")
         \/ In("wallet") /\ Resume(r) /\ Rest("wallet")
         \/ In("wallet") /\ LocalFailure(r) /\ Rest("wallet")
         \/ In("wallet") /\ Abandon(r) /\ Rest("wallet")
         \/ In("wallet") /\ SdkStart(r) /\ Rest("wallet")
         \/ In("wallet") /\ SdkDeploys(r) /\ Rest("wallet")
         \/ In("wallet") /\ SdkAnswers(r) /\ Rest("wallet")
         \/ In("wallet") /\ Release(r) /\ Rest("wallet")
         \/ In("wallet") /\ Persist(r) /\ Rest("wallet")
         \/ In("wallet") /\ Dies(r) /\ Rest("wallet")
         \/ In("wallet") /\ SdkStops(r) /\ Rest("wallet")
    \/ In("wallet") /\ Age /\ Rest("wallet")
    \/ \E w \in Legacy : In("wallet") /\ Link(w) /\ Rest("wallet")

LeaderStep ==
    \/ In("leader") /\ CashSecond /\ Rest("leader")
    \/ \E c \in Calls :
         \/ \E after \in 0..cashNow \cup {NoCash} : In("leader") /\ CashUsd(c, after) /\ Rest("leader")
         \/ In("leader") /\ ReadSucceeds(c) /\ Rest("leader")
         \/ In("leader") /\ ReadFails(c) /\ Rest("leader")

CollateralStep ==
    \/ In("collateral") /\ CollateralSecond /\ Rest("collateral")
    \/ In("collateral") /\ Invalidate /\ Rest("collateral")
    \/ \E d \in Decisions :
         \/ In("collateral") /\ Decide(d) /\ Rest("collateral")
         \/ In("collateral") /\ Again(d) /\ Rest("collateral")
         \/ In("collateral") /\ BalanceLands(d) /\ Rest("collateral")
         \/ In("collateral") /\ BalanceFails(d) /\ Rest("collateral")
         \/ In("collateral") /\ DecisionEnds(d) /\ Rest("collateral")

DepositsStep ==
    \/ \E paid \in SUBSET Wallets : In("deposits") /\ Finalize(paid) /\ Rest("deposits")
    \/ \E w \in Wallets : In("deposits") /\ Join(w) /\ Rest("deposits")
    \/ \E p \in Passes :
         \/ In("deposits") /\ PassHead(p) /\ Rest("deposits")
         \/ In("deposits") /\ PassFirst(p) /\ Rest("deposits")
         \/ In("deposits") /\ PassCursor(p) /\ Rest("deposits")
         \/ In("deposits") /\ PassWallets(p) /\ Rest("deposits")
         \/ In("deposits") /\ PassScan(p) /\ Rest("deposits")
         \/ In("deposits") /\ PassRecord(p) /\ Rest("deposits")
         \/ In("deposits") /\ PassAdvance(p) /\ Rest("deposits")
         \/ In("deposits") /\ PassEnds(p) /\ Rest("deposits")
         \/ In("deposits") /\ PassFails(p) /\ Rest("deposits")
    \/ In("deposits") /\ Deliver /\ Rest("deposits")
    \/ In("deposits") /\ GiveUp /\ Rest("deposits")
    \/ In("deposits") /\ ProcessRestart /\ Rest("deposits")

RedeemStep ==
    \/ \E m \in Markets : In("redeem") /\ Resolve(m) /\ Rest("redeem")
    \/ \E x \in Pairs :
         \/ In("redeem") /\ Ledger(x) /\ Rest("redeem")
         \/ In("redeem") /\ Warm(x) /\ Rest("redeem")
         \/ In("redeem") /\ Lands(x) /\ Rest("redeem")
    \/ In("redeem") /\ RedeemRestart /\ Rest("redeem")
    \/ In("redeem") /\ SweepStart /\ Rest("redeem")
    \/ In("redeem") /\ SweepEnds /\ Rest("redeem")
    \/ \E u \in Users :
         \/ In("redeem") /\ TurnStart(u) /\ Rest("redeem")
         \/ In("redeem") /\ ReadLedger(u) /\ Rest("redeem")
         \/ In("redeem") /\ Prove(u) /\ Rest("redeem")
         \/ In("redeem") /\ Submit(u) /\ Rest("redeem")
         \/ In("redeem") /\ Refused(u) /\ Rest("redeem")
         \/ In("redeem") /\ NotConfirmed(u) /\ Rest("redeem")
         \/ In("redeem") /\ Confirmed(u) /\ Rest("redeem")
         \/ In("redeem") /\ TurnFails(u) /\ Rest("redeem")

LocksStep ==
    \E t \in Tasks :
       \/ \E k \in Keys : In("locks") /\ Hold(t, k) /\ Rest("locks")
       \/ In("locks") /\ Enter(t) /\ Rest("locks")
       \/ In("locks") /\ Leave(t) /\ Rest("locks")
       \/ In("locks") /\ Cancelled(t) /\ Rest("locks")

DetectionStep ==
    \/ In("detection") /\ Second /\ Rest("detection")
    \/ In("detection") /\ LeaderFills /\ Rest("detection")
    \/ \E i \in Fill : In("detection") /\ Publish(i) /\ Rest("detection")
    \/ \E u \in Followers :
         \/ In("detection") /\ Follow(u) /\ Rest("detection")
         \/ In("detection") /\ Unfollow(u) /\ Rest("detection")
         \/ In("detection") /\ Apply(u) /\ Rest("detection")
    \/ In("detection") /\ EngineRestart /\ Rest("detection")
    \/ In("detection") /\ TickStart /\ Rest("detection")
    \/ In("detection") /\ FetchActivity /\ Rest("detection")
    \/ In("detection") /\ ScanChain /\ Rest("detection")
    \/ In("detection") /\ FetchFails /\ Rest("detection")

MCNext ==
    \/ WalletStep \/ LeaderStep \/ CollateralStep
    \/ DepositsStep \/ RedeemStep \/ LocksStep \/ DetectionStep

MCSpec ==
    MCInit /\ [][MCNext]_<<part, vars, cashVars, collateralVars, depositsVars,
                           redeemVars, lockVars, detectionVars>>

\* What is hard about the activity feed is the order of its fills, about the chain
\* the blocks between two scans.  The third fill of the feed meets one follower,
\* the third block of the deposit scan one pass at a time.
Bounded ==
    /\ IF source = "activity"
       THEN clock <= 3 /\ (Len(fills) = 3 => \E u \in Followers : u \notin follows /\ begun[u] = 0)
       ELSE Len(fills) <= 2
    /\ Len(chain) = 3 => \A p, q \in Passes : p = q \/ NoPass \in {run[p], run[q]}
\* Followers differ in nothing but their name, nor do the users of the redeem job.
Alike == Permutations(Followers) \cup Permutations(Users)

-----------------------------------------------------------------------------
(* The state of every service has its type. *)
ServicesTypeOK ==
    CASE part = "wallet" -> TypeOK
      [] part = "leader" -> CashTypeOK
      [] part = "collateral" -> CollateralTypeOK
      [] part = "deposits" -> DepositsTypeOK
      [] part = "redeem" -> RedeemTypeOK
      [] part = "locks" -> LocksTypeOK
      [] part = "detection" -> DetectionTypeOK
=============================================================================
