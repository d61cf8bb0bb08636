------------------------------- MODULE Withdraw -------------------------------
(***************************************************************************)
(* Withdrawals: pUSD leaves a deposit wallet through the relayer to a      *)
(* bridge address, and the bridge pays native USDC to the destination.     *)
(*     requested -> submitting -> submitted -> bridging -> confirmed       *)
(*     requested, submitting, submitted -> failed                          *)
(*     bridging -> attention -> confirmed, refunded                        *)
(* A withdrawal is the row of one (user, idempotency key); taps are the    *)
(* shielded requests that carry the key.  A follow task moves the row on;  *)
(* the reconciler moves the rows nobody follows.  Each may die or fail     *)
(* anywhere.  All rows have one destination and one amount, the case in    *)
(* which transfers and payments are hardest to tell apart.                 *)
(***************************************************************************)
EXTENDS Integers, FiniteSets

CONSTANTS
    Keys,        \* idempotency keys
    Owner,       \* [Keys -> users]
    Taps,        \* request tasks that may run at once
    None,
    Brake,       \* ATTENTION_BRAKE
    MaxCrashes   \* bound: process restarts

ASSUME ConstantsAssumption ==
    /\ None \notin Keys
    /\ Brake \in Nat \ {0} /\ MaxCrashes \in Nat

VARIABLES
    row,      \* [Keys -> withdrawals row]
    age,      \* [Keys -> "new", "old"]: past the cut-off of the row's status
    \* the process
    halted,   \* the relayer refused on policy
    busy,     \* rows a request or its follow task is moving
    task,     \* [Taps -> request()]
    follow,   \* [Keys -> _follow task and the payment it is about to settle]
    rec,      \* the reconciler: its rows as read, the row at hand, the payment
    crashes,
    \* relayer, chain and bridge
    pend,     \* [Keys -> accepted batches that may still execute]
    moved,    \* [Keys -> pUSD transfers executed]
    since,    \* [Keys -> transfers and payments older than the row's submit_block]
    bridge,   \* [Keys -> what the bridge reports of the transfer]
    paid      \* [Keys -> USDC payment for the transfer: "no", "full", "short"]

table == <<row, age>>
process == <<halted, busy, task, follow, rec, crashes>>
outside == <<pend, moved, since, bridge, paid>>
vars == <<row, age, halted, busy, task, follow, rec, crashes,
          pend, moved, since, bridge, paid>>

-----------------------------------------------------------------------------
HOLDING == {"requested", "submitting", "submitted"}
OPEN == HOLDING \cup {"bridging", "attention"}
InProgress == HOLDING \cup {"bridging"}
Statuses == OPEN \cup {"none", "confirmed", "failed", "refunded"}

\* delivery: delivery_tx_hash, named by the transfer it pays for.
\* refused: bridge_status is FAILED.  byHand: operator_note of resolve.
Rows == [status: Statuses, delivery: Keys \cup {None}, refused: BOOLEAN, byHand: BOOLEAN]
NoRow == [status |-> "none", delivery |-> None, refused |-> FALSE, byHand |-> FALSE]
Locked == {"reserved", "ready", "sending"}
Tasks == [pc: Locked \cup {"idle", "checked"}, key: Keys \cup {None}, accepted: BOOLEAN]
Done == [pc |-> "idle", key |-> None, accepted |-> FALSE]
Follows == [on: BOOLEAN, found: Keys \cup {None}]
NoFollow == [on |-> FALSE, found |-> None]
Recs == [snap: [Keys -> Statuses], key: Keys \cup {None}, found: Keys \cup {None}]
NoPass == [snap |-> [k \in Keys |-> "none"], key |-> None, found |-> None]

TypeOK ==
    /\ row \in [Keys -> Rows]
    /\ age \in [Keys -> {"new", "old"}]
    /\ halted \in BOOLEAN
    /\ busy \subseteq Keys
    /\ task \in [Taps -> Tasks]
    /\ follow \in [Keys -> Follows]
    /\ rec \in Recs
    /\ crashes \in 0..MaxCrashes
    /\ pend \in [Keys -> 0..1]
    /\ moved \in [Keys -> 0..1]
    /\ since \in [Keys -> SUBSET ({"sent", "paid"} \X Keys)]
    /\ bridge \in [Keys -> {"none", "COMPLETED", "FAILED"}]
    /\ paid \in [Keys -> {"no", "full", "short"}]

Init ==
    /\ row = [k \in Keys |-> NoRow] /\ age = [k \in Keys |-> "new"]
    /\ halted = FALSE /\ busy = {} /\ crashes = 0
    /\ task = [q \in Taps |-> Done]
    /\ follow = [k \in Keys |-> NoFollow]
    /\ rec = NoPass
    /\ pend = [k \in Keys |-> 0] /\ moved = [k \in Keys |-> 0]
    /\ since = [k \in Keys |-> {}]
    /\ bridge = [k \in Keys |-> "none"] /\ paid = [k \in Keys |-> "no"]

-----------------------------------------------------------------------------
\* _move: compare-and-set.  submitted keeps the clock of submitting.
Move(k, from, to) ==
    IF row[k].status \in from
    THEN /\ row' = [row EXCEPT ![k].status = to]
         /\ age' = IF to = "submitted" THEN age ELSE [age EXCEPT ![k] = "new"]
    ELSE UNCHANGED table

InAttention == Cardinality({k \in Keys : row[k].status = "attention"})
Siblings(k) == {j \in Keys : Owner[j] = Owner[k]}

(* The request.                                                            *)

\* _require_available, then the replay check; a known key is only read back.
TapStart(q, k) ==
    /\ task[q] = Done
    /\ ~halted /\ InAttention < Brake
    /\ row[k].status = "none"
    /\ task' = [task EXCEPT ![q].pc = "checked", ![q].key = k]
    /\ UNCHANGED table /\ UNCHANGED outside
    /\ UNCHANGED <<halted, busy, follow, rec, crashes>>

\* A refusal or a failed read before the row exists.
TapRefused(q) ==
    /\ task[q].pc = "checked"
    /\ task' = [task EXCEPT ![q] = Done]
    /\ UNCHANGED table /\ UNCHANGED outside
    /\ UNCHANGED <<halted, busy, follow, rec, crashes>>

LockFree(q) == \A p \in Taps : task[p].pc \in Locked => Owner[task[p].key] # Owner[task[q].key]

\* One open withdrawal per user (also a unique index), one row per key.
MayInsert(k) == /\ \A j \in Siblings(k) : row[j].status \notin OPEN
                /\ row[k].status = "none"

\* What the chain's logs show by now.
OnChain == ({"sent"} \X {j \in Keys : moved[j] > 0})
           \cup ({"paid"} \X {j \in Keys : paid[j] # "no"})

\* _reserve, under the user's lock.  submit_block is the head read before it.
TapReserve(q) ==
    LET k == task[q].key IN
    /\ task[q].pc = "checked" /\ LockFree(q) /\ MayInsert(k)
    /\ row' = [row EXCEPT ![k] = [NoRow EXCEPT !.status = "requested"]]
    /\ age' = [age EXCEPT ![k] = "new"]
    /\ busy' = busy \cup {k}
    /\ task' = [task EXCEPT ![q].pc = "reserved"]
    /\ since' = [since EXCEPT ![k] = OnChain]
    /\ UNCHANGED <<halted, follow, rec, crashes, pend, moved, bridge, paid>>

\* The request returns without a handle: the row is no longer busy.
Return(q) == /\ task' = [task EXCEPT ![q] = Done]
             /\ busy' = busy \ {task[q].key}

\* _prepare_bridge: an address we can send to, or the row fails.
PrepareBridge(q) ==
    /\ task[q].pc = "reserved"
    /\ task' = [task EXCEPT ![q].pc = "ready"]
    /\ UNCHANGED table /\ UNCHANGED outside
    /\ UNCHANGED <<halted, busy, follow, rec, crashes>>

NoBridge(q) ==
    /\ task[q].pc = "reserved"
    /\ Move(task[q].key, {"requested"}, "failed") /\ Return(q)
    /\ UNCHANGED outside /\ UNCHANGED <<halted, follow, rec, crashes>>

\* A failed write ends the request before it sends; its row stays requested.
TapFails(q) ==
    /\ task[q].pc \in {"reserved", "ready"} /\ Return(q)
    /\ UNCHANGED table /\ UNCHANGED outside /\ UNCHANGED <<halted, follow, rec, crashes>>

\* _send starts: requested -> submitting, or the row was taken away.
SendStart(q) ==
    LET k == task[q].key IN
    /\ task[q].pc = "ready"
    /\ Move(k, {"requested"}, "submitting")
    /\ IF row[k].status = "requested"
       THEN task' = [task EXCEPT ![q].pc = "sending"] /\ UNCHANGED busy
       ELSE Return(q)
    /\ UNCHANGED outside /\ UNCHANGED <<halted, follow, rec, crashes>>

\* The relayer takes the batch; it may execute until its deadline.
RelayerAccepts(q) ==
    LET k == task[q].key IN
    /\ task[q].pc = "sending" /\ ~task[q].accepted
    /\ task' = [task EXCEPT ![q].accepted = TRUE]
    /\ pend' = [pend EXCEPT ![k] = @ + 1]
    /\ UNCHANGED table
    /\ UNCHANGED <<halted, busy, follow, rec, crashes, moved, since, bridge, paid>>

\* A handle: submitted, and a follow task keeps the row busy.
AnswerHandle(q) ==
    LET k == task[q].key IN
    /\ task[q].pc = "sending" /\ task[q].accepted
    /\ Move(k, {"submitting"}, "submitted")
    /\ task' = [task EXCEPT ![q] = Done]
    /\ follow' = [follow EXCEPT ![k] = [on |-> TRUE, found |-> None]]
    /\ UNCHANGED outside /\ UNCHANGED <<halted, busy, rec, crashes>>

\* UserInputError, RateLimitError or RequestRejectedError past its retries:
\* nothing was accepted.  A refusal on policy also halts withdrawals.
AnswerRefused(q, policy) ==
    /\ task[q].pc = "sending" /\ ~task[q].accepted
    /\ halted' = (halted \/ policy)
    /\ Move(task[q].key, {"submitting"}, "failed") /\ Return(q)
    /\ UNCHANGED outside /\ UNCHANGED <<follow, rec, crashes>>

\* Mutant: the unknown outcome is retried like a busy wallet.
AnswerUnknownRetries(q) ==
    /\ task[q].pc = "sending"
    /\ task' = [task EXCEPT ![q].accepted = FALSE]
    /\ UNCHANGED table /\ UNCHANGED outside
    /\ UNCHANGED <<halted, busy, follow, rec, crashes>>
\* Mutant: the row stays busy although nothing moves it any more.
AnswerUnknownStaysBusy(q) ==
    /\ task[q].pc = "sending"
    /\ task' = [task EXCEPT ![q] = Done]
    /\ UNCHANGED table /\ UNCHANGED outside
    /\ UNCHANGED <<halted, busy, follow, rec, crashes>>
\* Any other exception: only the chain can tell.
AnswerUnknown(q) ==
    /\ task[q].pc = "sending" /\ Return(q)
    /\ UNCHANGED table /\ UNCHANGED outside /\ UNCHANGED <<halted, follow, rec, crashes>>

-----------------------------------------------------------------------------
(* Moving a row forward: _advance, for the follow task and the reconciler. *)

\* Transfers of this wallet, amount and bridge address past the submit block.
Found(k) == \E j \in Siblings(k) : moved[j] > 0 /\ <<"sent", j>> \notin since[k]

\* Mutant: a transfer not found yet is taken for one that never executes.
ExpiredAtOnce(k) == ~Found(k)
\* The batch is past its deadline and the chain does not show the transfer.
Expired(k) == ~Found(k) /\ age[k] = "old"

\* _check_send, when it decides.
CheckSend(k) ==
    \/ Found(k) /\ Move(k, {"submitting", "submitted"}, "bridging")
    \/ Expired(k) /\ Move(k, {"submitting", "submitted"}, "failed")

\* Stale request: the process that was about to send it is gone.
CheckRequest(k) == age[k] = "old" /\ Move(k, {"requested"}, "failed")

\* No other withdrawal claims this payment.
Unclaimed(k, p) == \A j \in Keys \ {k} : row[j].delivery # p

\* _delivery: the transaction the bridge names, if it pays the destination at
\* all; else a payment since the submit block, of at least the minimum, that no
\* other row claims.
Deliveries(k) == IF bridge[k] # "COMPLETED" THEN {}
                 ELSE {p \in Keys : \/ p = k /\ paid[p] # "no"
                                    \/ /\ paid[p] = "full" /\ Unclaimed(k, p)
                                       /\ <<"paid", p>> \notin since[k]}

\* _check_bridge, when it gives up: out of time, or reported failed.  s is the
\* status the row had when it was read.
CheckBridge(k, s) ==
    \/ /\ s = "bridging" /\ age[k] = "old"
       /\ Move(k, {"bridging"}, "attention")
    \/ /\ bridge[k] = "FAILED"
       /\ row' = [row EXCEPT ![k].refused = TRUE,
                             ![k].status = IF @ = "bridging" THEN "attention" ELSE @]
       /\ age' = IF row[k].status = "bridging" THEN [age EXCEPT ![k] = "new"] ELSE age

\* Mutant: whatever the bridge delivered confirms the withdrawal.
EnoughAnyway(p) == paid[p] # "no"
\* The payment is at least the quoted minimum.
Enough(p) == paid[p] = "full"

\* _settle_delivery.  A short delivery goes to the operator, on record.
SettleDelivery(k, s, p) ==
    IF Enough(p)
    THEN IF row[k].status = s
         THEN /\ row' = [row EXCEPT ![k].status = "confirmed", ![k].delivery = p]
              /\ age' = [age EXCEPT ![k] = "new"]
         ELSE UNCHANGED table
    ELSE IF s = "attention"
         THEN row' = [row EXCEPT ![k].delivery = p] /\ UNCHANGED age
    ELSE IF row[k].status = "bridging"
         THEN /\ row' = [row EXCEPT ![k].status = "attention", ![k].delivery = p]
              /\ age' = [age EXCEPT ![k] = "new"]
         ELSE UNCHANGED table

\* _advance for a row read with status s, up to the payment it may settle.
Advance(k, s) ==
    CASE s = "requested" -> CheckRequest(k)
      [] s \in {"submitting", "submitted"} -> CheckSend(k)
      [] s \in {"bridging", "attention"} -> CheckBridge(k, s)

-----------------------------------------------------------------------------
(* _follow: it re-reads its row each round.                                *)

FollowMoves(k) ==
    /\ follow[k] = [on |-> TRUE, found |-> None] /\ row[k].status \in InProgress
    /\ Advance(k, row[k].status)
    /\ UNCHANGED process /\ UNCHANGED outside

FollowFinds(k, p) ==
    /\ follow[k] = [on |-> TRUE, found |-> None] /\ row[k].status = "bridging"
    /\ p \in Deliveries(k)
    /\ follow' = [follow EXCEPT ![k].found = p]
    /\ UNCHANGED table /\ UNCHANGED outside
    /\ UNCHANGED <<halted, busy, task, rec, crashes>>

FollowSettles(k) ==
    /\ follow[k].found # None
    /\ SettleDelivery(k, "bridging", follow[k].found)
    /\ follow' = [follow EXCEPT ![k].found = None]
    /\ UNCHANGED outside /\ UNCHANGED <<halted, busy, task, rec, crashes>>

\* The row needs it no more, an error, or its own deadline.
FollowEnds(k) ==
    /\ follow[k].on
    /\ follow' = [follow EXCEPT ![k] = NoFollow]
    /\ busy' = busy \ {k}
    /\ UNCHANGED table /\ UNCHANGED outside /\ UNCHANGED <<halted, task, rec, crashes>>

-----------------------------------------------------------------------------
(* reconcile: one read of the open rows, then one row after the other.     *)

Eligible(k) ==
    \/ row[k].status \in InProgress
    \/ row[k].status = "attention" /\ row[k].delivery = None /\ ~row[k].refused

RecRead ==
    /\ rec = NoPass /\ \E k \in Keys : Eligible(k)
    /\ rec' = [rec EXCEPT !.snap =
                  [k \in Keys |-> IF Eligible(k) THEN row[k].status ELSE "none"]]
    /\ UNCHANGED table /\ UNCHANGED outside
    /\ UNCHANGED <<halted, busy, task, follow, crashes>>

RecTake(k) ==
    /\ rec.key = None /\ rec.snap[k] # "none"
    /\ k \notin busy /\ ~(rec.snap[k] = "attention" /\ age[k] = "old")
    /\ rec' = [rec EXCEPT !.key = k]
    /\ UNCHANGED table /\ UNCHANGED outside
    /\ UNCHANGED <<halted, busy, task, follow, crashes>>

\* Busy, or not due for a recheck.
RecSkip(k) ==
    /\ rec.key = None /\ rec.snap[k] # "none"
    /\ k \in busy \/ rec.snap[k] = "attention"
    /\ rec' = [rec EXCEPT !.snap[k] = "none"]
    /\ UNCHANGED table /\ UNCHANGED outside
    /\ UNCHANGED <<halted, busy, task, follow, crashes>>

RecNext(k) == rec' = [snap |-> [rec.snap EXCEPT ![k] = "none"], key |-> None, found |-> None]

RecMoves(k) ==
    /\ rec.key = k /\ rec.found = None
    /\ Advance(k, rec.snap[k]) /\ RecNext(k)
    /\ UNCHANGED outside /\ UNCHANGED <<halted, busy, task, follow, crashes>>

RecFinds(k, p) ==
    /\ rec.key = k /\ rec.found = None /\ rec.snap[k] \in {"bridging", "attention"}
    /\ p \in Deliveries(k)
    /\ rec' = [rec EXCEPT !.found = p]
    /\ UNCHANGED table /\ UNCHANGED outside
    /\ UNCHANGED <<halted, busy, task, follow, crashes>>

RecSettles(k) ==
    /\ rec.key = k /\ rec.found # None
    /\ SettleDelivery(k, rec.snap[k], rec.found) /\ RecNext(k)
    /\ UNCHANGED outside /\ UNCHANGED <<halted, busy, task, follow, crashes>>

\* Nothing to decide yet, nothing visible yet, or a read failed.
RecPasses(k) ==
    /\ rec.key = k /\ RecNext(k)
    /\ UNCHANGED table /\ UNCHANGED outside
    /\ UNCHANGED <<halted, busy, task, follow, crashes>>

-----------------------------------------------------------------------------
\* resolve_withdrawal: delivered, by a transaction that pays the destination.
ResolveDelivered(k, p) ==
    /\ row[k].status = "attention" /\ paid[p] # "no"
    /\ row' = [row EXCEPT ![k].status = "confirmed", ![k].delivery = p, ![k].byHand = TRUE]
    /\ age' = [age EXCEPT ![k] = "new"]
    /\ UNCHANGED process /\ UNCHANGED outside

ResolveRefunded(k) ==
    /\ row[k].status = "attention"
    /\ row' = [row EXCEPT ![k].status = "refunded", ![k].byHand = TRUE]
    /\ age' = [age EXCEPT ![k] = "new"]
    /\ UNCHANGED process /\ UNCHANGED outside

-----------------------------------------------------------------------------
(* Relayer, chain and bridge; time; restarts.                              *)

Execute(k) ==
    /\ pend[k] > 0
    /\ pend' = [pend EXCEPT ![k] = @ - 1] /\ moved' = [moved EXCEPT ![k] = @ + 1]
    /\ UNCHANGED table /\ UNCHANGED process /\ UNCHANGED <<since, bridge, paid>>

\* The batch failed, or its deadline passed.
Drop(k) ==
    /\ pend[k] > 0 /\ pend' = [pend EXCEPT ![k] = @ - 1]
    /\ UNCHANGED table /\ UNCHANGED process /\ UNCHANGED <<moved, since, bridge, paid>>

Report(k, st) ==
    /\ moved[k] > 0 /\ bridge[k] = "none"
    /\ st = "FAILED" => paid[k] = "no"
    /\ bridge' = [bridge EXCEPT ![k] = st]
    /\ UNCHANGED table /\ UNCHANGED process /\ UNCHANGED <<pend, moved, since, paid>>

Pay(k, size) ==
    /\ moved[k] > 0 /\ bridge[k] # "FAILED" /\ paid[k] = "no"
    /\ paid' = [paid EXCEPT ![k] = size]
    /\ UNCHANGED table /\ UNCHANGED process /\ UNCHANGED <<pend, moved, since, bridge>>

\* The cut-off of the status passes: 2 min, 15 min, the bridge timeout, a day.
\* 15 min outlast the batch: it was signed within 90 s of submitting for 600 s,
\* and an executed transfer is visible within the rest.
AgeRow(k) ==
    /\ age[k] = "new" /\ row[k].status \in OPEN
    /\ row[k].status \in {"submitting", "submitted"} =>
          /\ pend[k] = 0
          /\ \A q \in Taps : ~(task[q].pc = "sending" /\ task[q].key = k)
    /\ age' = [age EXCEPT ![k] = "old"]
    /\ UNCHANGED row /\ UNCHANGED process /\ UNCHANGED outside

Crash ==
    /\ crashes < MaxCrashes /\ crashes' = crashes + 1
    /\ halted' = FALSE /\ busy' = {}
    /\ task' = [q \in Taps |-> Done]
    /\ follow' = [k \in Keys |-> NoFollow]
    /\ rec' = NoPass
    /\ UNCHANGED table /\ UNCHANGED outside

-----------------------------------------------------------------------------
Answer(q) == AnswerHandle(q) \/ AnswerUnknown(q) \/ \E policy \in BOOLEAN : AnswerRefused(q, policy)
Request(q) ==
    \/ \E k \in Keys : TapStart(q, k)
    \/ TapRefused(q) \/ TapReserve(q) \/ PrepareBridge(q) \/ NoBridge(q)
    \/ TapFails(q) \/ SendStart(q) \/ RelayerAccepts(q) \/ Answer(q)

Follow(k) == FollowMoves(k) \/ FollowSettles(k) \/ FollowEnds(k)
             \/ \E p \in Keys : FollowFinds(k, p)

ReconcileRow(k) == RecTake(k) \/ RecSkip(k) \/ RecMoves(k) \/ RecSettles(k) \/ RecPasses(k)
                   \/ \E p \in Keys : RecFinds(k, p)
Reconcile == RecRead \/ \E k \in Keys : ReconcileRow(k)

Operator == \E k \in Keys : ResolveRefunded(k) \/ \E p \in Keys : ResolveDelivered(k, p)

World ==
    \/ \E k \in Keys : \/ Execute(k) \/ Drop(k) \/ AgeRow(k)
                        \/ \E st \in {"COMPLETED", "FAILED"} : Report(k, st)
                        \/ \E size \in {"full", "short"} : Pay(k, size)
    \/ Crash

Next == (\E q \in Taps : Request(q)) \/ (\E k \in Keys : Follow(k))
        \/ Reconcile \/ Operator \/ World
Spec == Init /\ [][Next]_vars

\* Calls return, follow tasks have a deadline, batches one too, the withdrawal
\* loop comes round, and not every pass fails for ever to read the chain.
Fairness ==
    /\ \A q \in Taps : WF_vars(PrepareBridge(q) \/ NoBridge(q) \/ SendStart(q) \/ Answer(q))
    /\ \A k \in Keys : /\ WF_vars(FollowEnds(k)) /\ SF_vars(RecMoves(k))
                       /\ WF_vars(Execute(k) \/ Drop(k)) /\ WF_vars(AgeRow(k))
    /\ WF_vars(Reconcile)
FairSpec == Spec /\ Fairness

-----------------------------------------------------------------------------
(* Properties.                                                             *)

Phase(s) == CASE s = "none" -> "none"
              [] s \in HOLDING -> "held"
              [] s = "failed" -> "released"
              [] s \in {"bridging", "attention"} -> "away"
              [] s \in {"confirmed", "refunded"} -> "closed"

Promise == INSTANCE WithdrawPromise WITH phase <- [k \in Keys |-> Phase(row[k].status)]

\* The detailed protocol keeps the promise: the amount leaves at most once, only
\* while the row holds it, and a failed row was never and will never be paid.
KeepsPromise == Promise!Spec

\* A withdrawal the program confirmed by itself names a payment of at least its
\* minimum; a short one is left to the operator.
ConfirmedIsPaid ==
    \A k \in Keys : row[k].status = "confirmed" /\ ~row[k].byHand
                      => row[k].delivery # None /\ paid[row[k].delivery] = "full"

\* Whoever dies or fails to read, a row does not stay in progress for ever: it
\* is failed, confirmed, or handed to the operator.
InProgressEnds ==
    \A k \in Keys : row[k].status \in InProgress ~> row[k].status \notin InProgress

\* withdraw.py: a delivery is found "in a transaction no other withdrawal
\* claims", so no two withdrawals are confirmed by one payment.
PaymentsNotShared ==
    \A j, k \in Keys :
        j # k /\ row[j].status = "confirmed" /\ row[k].status = "confirmed"
              /\ ~row[j].byHand /\ ~row[k].byHand
        => row[j].delivery # row[k].delivery

\* withdraw.py: "Set once the relayer refuses on policy: no send after that."
NoSendOnceHalted ==
    [][halted => \A q \in Taps : task[q].pc # "sending" => task'[q].pc # "sending"]_vars

=============================================================================
