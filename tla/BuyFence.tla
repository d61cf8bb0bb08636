------------------------------- MODULE BuyFence -------------------------------
(***************************************************************************)
(* How the copy engine spends one user's money exactly once.               *)
(*                                                                         *)
(* A BUY is fenced by a row of copy_open_claims, keyed by (user, token):   *)
(*     reserved -> submitting -> (deleted | uncertain -> deleted)          *)
(* The tracked shares live in copy_positions, whose status open -> closing *)
(* fences SELLs.  The exchange answers late, wrongly or not at all, the    *)
(* indexer lags, and the one process may die between any two awaits.       *)
(*                                                                         *)
(* Data is abstracted to what the properties tell apart.  A share costs    *)
(* one dollar, so shares, notional and spend are one number.  One source   *)
(* is copied: the per-source and per-account exposure limits are one.  Age *)
(* is what the code's cut-offs distinguish: "new" (younger than the first  *)
(* cut-off that applies), "due" (past it: 2 min in flight, 3 min           *)
(* uncertain, 10 min closing), "old" (past the 15 min of on-chain          *)
(* evidence).  Markets in scope stay unresolved.                           *)
(***************************************************************************)
EXTENDS Integers, FiniteSets, FiniteSetsExt

CONSTANTS
    Tokens,       \* outcome tokens the user may copy
    Ids,          \* claim ids; an id is reused only once no trace of it is left
    None,         \* no token, no id
    MaxPerTrade,  \* followed_traders.max_position_usd
    MaxTotal,     \* max_total_exposure_usd
    MaxOpen,      \* max_open_positions
    MaxRev,       \* bound: risk_revision counts modulo MaxRev + 1
    MaxCrashes    \* bound: process restarts

ASSUME ConstantsAssumption ==
    /\ IsFiniteSet(Tokens) /\ None \notin Tokens
    /\ None \notin Ids
    /\ MaxPerTrade \in Nat /\ MaxTotal \in Nat /\ MaxOpen \in Nat
    /\ MaxRev \in Nat \ {0} /\ MaxCrashes \in Nat

VARIABLES
    \* the database
    claim,        \* [Tokens -> copy_open_claims row or NoClaim]
    row,          \* [Tokens -> live copy_positions row; its age outlives it]
    paused,       \* users.paused or followed_traders.paused / not is_active
    rev,          \* users.risk_revision
    \* the process
    worker,       \* the BUY that holds the user's risk lock, or Idle
    seller,       \* [Tokens -> the SELL that owns the closing fence]
    scan,         \* [Tokens -> the reconciler's evidence for one claim]
    ack,          \* a settings request: "none", "pending", "acked" (answered 200)
    crashes,
    \* the exchange, the chain and the data-api
    order,        \* [Ids -> the BUY order sent under that claim]
    wallet,       \* [Tokens -> shares the deposit wallet holds]
    indexed,      \* [Tokens -> shares the data-api shows]
    seen,         \* [Tokens -> indexed was refreshed after the row's last stamp or SELL]
    \* history
    waived        \* tokens whose fence an operator removed against the facts

db == <<claim, row, paused, rev>>
process == <<worker, seller, scan, ack, crashes>>
outside == <<order, wallet, indexed, seen>>
vars == <<claim, row, paused, rev, worker, seller, scan, ack, crashes,
          order, wallet, indexed, seen, waived>>

-----------------------------------------------------------------------------
Ages == {"new", "due", "old"}
Kinds == {"open", "resize"}
Amounts == 1..MaxPerTrade

Claims == [state: {"none", "reserved", "submitting", "uncertain"},
           id: Ids \cup {None}, kind: Kinds, reserved: Nat, rev: Nat, age: Ages]
NoClaim == [state |-> "none", id |-> None, kind |-> "open",
            reserved |-> 0, rev |-> 0, age |-> "new"]
Rows == [status: {"none", "open", "closing"}, shares: Nat, age: Ages]
Gone == [status |-> "none", shares |-> 0, age |-> "new"]
Orders == [st: {"none", "wire", "filled", "dead"},
           tok: Tokens \cup {None}, size: Nat]
NoOrder == [st |-> "none", tok |-> None, size |-> 0]
Workers == [pc: {"idle", "reserved", "verified", "calling"},
            tok: Tokens \cup {None}, id: Ids \cup {None}, kind: Kinds, amt: Nat]
Idle == [pc |-> "idle", tok |-> None, id |-> None, kind |-> "open", amt |-> 0]
Sellers == [waiting: BOOLEAN, st: {"none", "wire", "filled", "dead"}, amt: Nat]
NoSell == [waiting |-> FALSE, st |-> "none", amt |-> 0]
Scans == [id: Ids \cup {None}, held: Nat, chain: Nat \cup {-1}]
NoScan == [id |-> None, held |-> 0, chain |-> -1]

TypeOK ==
    /\ claim \in [Tokens -> Claims]
    /\ row \in [Tokens -> Rows]
    /\ paused \in BOOLEAN
    /\ rev \in 0..MaxRev
    /\ worker \in Workers
    /\ seller \in [Tokens -> Sellers]
    /\ scan \in [Tokens -> Scans]
    /\ ack \in {"none", "pending", "acked"}
    /\ crashes \in 0..MaxCrashes
    /\ order \in [Ids -> Orders]
    /\ wallet \in [Tokens -> Nat]
    /\ indexed \in [Tokens -> Nat]
    /\ seen \in [Tokens -> BOOLEAN]
    /\ waived \subseteq Tokens

-----------------------------------------------------------------------------
Live(t) == row[t].status # "none"
Sold(t) == IF seller[t].st = "filled" THEN seller[t].amt ELSE 0

\* Mutant: claims are left out of the exposure.
AtRiskRowsOnly(t) == row[t].shares
\* Dollars at risk as _prepare_buy counts them: live rows plus every claim.
AtRisk(t) == row[t].shares + claim[t].reserved
Exposure == MapThenSumSet(AtRisk, Tokens)
\* Slots of max_open_positions: live rows plus claims of kind open.
SlotsUsed == Cardinality({t \in Tokens : Live(t)})
             + Cardinality({t \in Tokens : claim[t].state # "none" /\ claim[t].kind = "open"})

\* The exchange can still change this order: it is on the wire, or the call
\* that sends it has not returned.
Pending(i) == order[i].st = "wire" \/ (worker.pc = "calling" /\ worker.id = i)
\* uuid4: an id that nothing refers to any more stands for a fresh one.
Fresh(i) == /\ \A t \in Tokens : claim[t].id # i /\ scan[t].id # i
            /\ worker.id # i /\ ~Pending(i)

Release(t, i) == claim' = IF claim[t].id = i
                          THEN [claim EXCEPT ![t] = NoClaim] ELSE claim
\* Mutant: an order whose outcome is unknown is treated as not sent.
MarkUncertainForgotten(t, i) == Release(t, i)
MarkUncertain(t, i) ==
    claim' = IF claim[t].id = i
             THEN [claim EXCEPT ![t].state = "uncertain", ![t].age = "new"] ELSE claim

Init ==
    /\ claim = [t \in Tokens |-> NoClaim]
    /\ row = [t \in Tokens |-> [status |-> "none", shares |-> 0, age |-> "old"]]
    /\ paused = FALSE /\ rev = 0 /\ ack = "none" /\ crashes = 0
    /\ worker = Idle
    /\ seller = [t \in Tokens |-> NoSell]
    /\ scan = [t \in Tokens |-> NoScan]
    /\ order = [i \in Ids |-> NoOrder]
    /\ wallet = [t \in Tokens |-> 0]
    /\ indexed = [t \in Tokens |-> 0]
    /\ seen = [t \in Tokens |-> TRUE]
    /\ waived = {}

-----------------------------------------------------------------------------
(* The BUY: _execute_buy, one per user at a time under the risk lock.      *)

\* Mutant: a claim whose outcome is uncertain no longer fences its token.
UnclaimedInFlight(t) == claim[t].state \notin {"reserved", "submitting"}
\* INSERT INTO copy_open_claims ... ON CONFLICT DO NOTHING: no claim, no BUY.
Unclaimed(t) == claim[t].state = "none"

Reserve(t, k, i, amt) ==
    /\ claim' = [claim EXCEPT ![t] = [state |-> "reserved", id |-> i, kind |-> k,
                                      reserved |-> amt, rev |-> rev, age |-> "new"]]
    /\ worker' = [pc |-> "reserved", tok |-> t, id |-> i, kind |-> k, amt |-> amt]
    /\ order' = [order EXCEPT ![i] = NoOrder]
    /\ UNCHANGED <<row, paused, rev, seller, scan, ack, crashes,
                   wallet, indexed, seen, waived>>

PrepareOpen(t, i, amt) ==
    /\ worker = Idle /\ ~paused /\ Fresh(i) /\ Unclaimed(t)
    /\ ~Live(t) /\ SlotsUsed < MaxOpen
    /\ Exposure + amt <= MaxTotal
    /\ Reserve(t, "open", i, amt)

PrepareResize(t, i, amt) ==
    /\ worker = Idle /\ ~paused /\ Fresh(i) /\ Unclaimed(t)
    /\ row[t].status = "open"
    /\ row[t].shares + amt <= MaxPerTrade
    /\ Exposure + amt <= MaxTotal
    /\ Reserve(t, "resize", i, amt)

\* _clamp_to_verified_position.  The wallet is read through the indexer; what
\* was submitted lately only lowers the result, hence any smaller amount.
Headroom(t) == MaxPerTrade - (IF indexed[t] > row[t].shares
                              THEN indexed[t] ELSE row[t].shares)
Clamp(amt) ==
    /\ worker.pc = "reserved"
    /\ amt <= worker.amt /\ amt <= Headroom(worker.tok)
    /\ worker' = [worker EXCEPT !.pc = "verified", !.amt = amt]
    /\ UNCHANGED db /\ UNCHANGED outside /\ UNCHANGED <<seller, scan, ack, crashes, waived>>

\* The compare-and-set of _mark_claim_submitting.
CanSubmit(t, i) == /\ claim[t].id = i /\ claim[t].state = "reserved"
                   /\ claim[t].rev = rev /\ ~paused

MarkSubmitting ==
    LET t == worker.tok IN
    /\ worker.pc = "verified" /\ CanSubmit(t, worker.id)
    /\ claim' = [claim EXCEPT ![t].state = "submitting", ![t].age = "new"]
    /\ worker' = [worker EXCEPT !.pc = "calling"]
    /\ UNCHANGED outside /\ UNCHANGED <<row, paused, rev, seller, scan, ack, crashes, waived>>

\* No headroom, an unreadable wallet, or a lost compare-and-set.
GiveUp ==
    /\ \/ worker.pc = "reserved"
       \/ worker.pc = "verified" /\ ~CanSubmit(worker.tok, worker.id)
    /\ Release(worker.tok, worker.id)
    /\ worker' = Idle
    /\ UNCHANGED outside /\ UNCHANGED <<row, paused, rev, seller, scan, ack, crashes, waived>>

\* place_market_order past its preflight checks: the order is sent once.
SendOrder ==
    /\ worker.pc = "calling" /\ order[worker.id].st = "none"
    /\ order' = [order EXCEPT ![worker.id] =
                    [st |-> "wire", tok |-> worker.tok, size |-> worker.amt]]
    /\ UNCHANGED db /\ UNCHANGED process /\ UNCHANGED <<wallet, indexed, seen, waived>>

\* PreflightError or a refusal before sending; or exchange_rejection, which
\* only a BUY the exchange killed outright gets.
NotFilledFor(st) == st \in {"none", "dead"}
AnswerNotFilled ==
    /\ worker.pc = "calling" /\ NotFilledFor(order[worker.id].st)
    /\ Release(worker.tok, worker.id)
    /\ worker' = Idle
    /\ UNCHANGED outside /\ UNCHANGED <<row, paused, rev, seller, scan, ack, crashes, waived>>

\* submission_uncertain, an exception past sending, or a fill whose
\* transaction failed to commit.
AnswerUnknown ==
    /\ worker.pc = "calling"
    /\ MarkUncertain(worker.tok, worker.id)
    /\ worker' = Idle
    /\ UNCHANGED outside /\ UNCHANGED <<row, paused, rev, seller, scan, ack, crashes, waived>>

\* Mutant: a late answer books a fill the reconciler has adopted meanwhile.
CanRecordTwice(t, i) == (worker.kind = "open") = ~Live(t) /\ row[t].status # "closing"
\* _record_open / _record_resize: one transaction that books the fill and
\* deletes the claim, and rolls back unless the claim is still submitting.
CanRecord(t, i) == /\ claim[t].id = i /\ claim[t].state = "submitting"
                   /\ (worker.kind = "open") = ~Live(t)
                   /\ row[t].status # "closing"

AnswerFilled ==
    LET t == worker.tok IN
    /\ worker.pc = "calling" /\ order[worker.id].st = "filled"
    /\ worker' = Idle
    /\ IF CanRecord(t, worker.id)
       THEN /\ claim' = [claim EXCEPT ![t] = NoClaim]
            /\ row' = [row EXCEPT ![t].status = "open",
                                  ![t].shares = @ + order[worker.id].size,
                                  ![t].age = IF worker.kind = "open" THEN "new" ELSE @]
            /\ seen' = [seen EXCEPT ![t] = @ /\ worker.kind # "open"]
       ELSE MarkUncertain(t, worker.id) /\ UNCHANGED <<row, seen>>
    /\ UNCHANGED <<paused, rev, seller, scan, ack, crashes, order, wallet, indexed, waived>>

-----------------------------------------------------------------------------
(* The exchange.  BUYs are fill-or-kill.                                   *)

Fill(i) ==
    /\ order[i].st = "wire"
    /\ order' = [order EXCEPT ![i].st = "filled"]
    /\ wallet' = [wallet EXCEPT ![order[i].tok] = @ + order[i].size]
    /\ UNCHANGED db /\ UNCHANGED process /\ UNCHANGED <<indexed, seen, waived>>

Kill(i) ==
    /\ order[i].st = "wire"
    /\ order' = [order EXCEPT ![i].st = "dead"]
    /\ UNCHANGED db /\ UNCHANGED process /\ UNCHANGED <<wallet, indexed, seen, waived>>

IndexerCatchUp(t) ==
    /\ indexed[t] # wallet[t] \/ ~seen[t]
    /\ indexed' = [indexed EXCEPT ![t] = wallet[t]]
    /\ seen' = [seen EXCEPT ![t] = TRUE]
    /\ UNCHANGED db /\ UNCHANGED process /\ UNCHANGED <<order, wallet, waived>>

-----------------------------------------------------------------------------
(* SELLs of a tracked row: engine close, trim, or the user's Close.  The   *)
(* caller's copy of the row is current here; SellFence drops that.         *)

\* Database.claim_managed_sell: an in-flight BUY blocks it, an uncertain one
\* does not.
SellAllowed(t) == claim[t].state \notin {"reserved", "submitting"}
\* Mutant: the amount comes from the wallet, not from the tracked row.
SellClaimFromWallet(t, amt) ==
    /\ row[t].status = "open" /\ amt <= wallet[t] /\ SellAllowed(t)
    /\ row' = [row EXCEPT ![t].status = "closing", ![t].age = "new"]
    /\ seen' = [seen EXCEPT ![t] = FALSE]
    /\ seller' = [seller EXCEPT ![t] = [waiting |-> TRUE, st |-> "none", amt |-> amt]]
    /\ UNCHANGED <<claim, paused, rev, worker, scan, ack, crashes,
                   order, wallet, indexed, waived>>
SellClaim(t, amt) ==
    /\ row[t].status = "open" /\ amt <= row[t].shares /\ SellAllowed(t)
    /\ row' = [row EXCEPT ![t].status = "closing", ![t].age = "new"]
    /\ seen' = [seen EXCEPT ![t] = FALSE]
    /\ seller' = [seller EXCEPT ![t] = [waiting |-> TRUE, st |-> "none", amt |-> amt]]
    /\ UNCHANGED <<claim, paused, rev, worker, scan, ack, crashes,
                   order, wallet, indexed, waived>>

SellSend(t) ==
    /\ seller[t].waiting /\ seller[t].st = "none"
    /\ seller' = [seller EXCEPT ![t].st = "wire"]
    /\ UNCHANGED db /\ UNCHANGED outside /\ UNCHANGED <<worker, scan, ack, crashes, waived>>

SellFill(t) ==
    /\ seller[t].st = "wire" /\ wallet[t] >= seller[t].amt
    /\ seller' = [seller EXCEPT ![t].st = "filled"]
    /\ wallet' = [wallet EXCEPT ![t] = @ - seller[t].amt]
    /\ seen' = [seen EXCEPT ![t] = FALSE]
    /\ UNCHANGED db /\ UNCHANGED <<worker, scan, ack, crashes, order, indexed, waived>>

SellKill(t) ==
    /\ seller[t].st = "wire"
    /\ seller' = [seller EXCEPT ![t].st = "dead"]
    /\ UNCHANGED db /\ UNCHANGED outside /\ UNCHANGED <<worker, scan, ack, crashes, waived>>

\* Raised before sending: try_transition closing -> open.
SellNotSent(t) ==
    /\ seller[t].waiting /\ seller[t].st = "none"
    /\ row' = [row EXCEPT ![t].status = "open"]
    /\ seller' = [seller EXCEPT ![t] = NoSell]
    /\ UNCHANGED outside /\ UNCHANGED <<claim, paused, rev, worker, scan, ack, crashes, waived>>

\* A SELL the exchange refuses is never a proven non-fill: it stays closing.
SellUncertain(t) ==
    /\ seller[t].waiting
    /\ seller' = [seller EXCEPT ![t].waiting = FALSE]
    /\ UNCHANGED db /\ UNCHANGED outside /\ UNCHANGED <<worker, scan, ack, crashes, waived>>

\* _close_row, or the partial update back to open.
SellRecord(t) ==
    /\ seller[t].waiting /\ seller[t].st = "filled"
    /\ row' = IF seller[t].amt = row[t].shares
              THEN [row EXCEPT ![t] = Gone]
              ELSE [row EXCEPT ![t].status = "open", ![t].shares = @ - seller[t].amt]
    /\ seen' = [seen EXCEPT ![t] = @ /\ seller[t].amt # row[t].shares]
    /\ seller' = [seller EXCEPT ![t] = NoSell]
    /\ UNCHANGED <<claim, paused, rev, worker, scan, ack, crashes,
                   order, wallet, indexed, waived>>

\* _recover_stuck_closings: reopen when the wallet still shows every share,
\* finalize from the SELL history when it shows none, else leave it.
RecoverClosing(t) ==
    /\ row[t].status = "closing" /\ row[t].age # "new"
    /\ \/ /\ indexed[t] >= row[t].shares
          /\ row' = [row EXCEPT ![t].status = "open"]
          /\ UNCHANGED seen
       \/ /\ indexed[t] = 0 /\ seller[t].st = "filled"
          /\ row' = [row EXCEPT ![t] = Gone]
          /\ seen' = [seen EXCEPT ![t] = FALSE]
    /\ seller' = [seller EXCEPT ![t] = NoSell]
    /\ UNCHANGED <<claim, paused, rev, worker, scan, ack, crashes,
                   order, wallet, indexed, waived>>

-----------------------------------------------------------------------------
(* The reconciler.                                                         *)

RecoverStale(t) ==
    /\ claim[t].age = "due" /\ claim[t].state \in {"reserved", "submitting"}
    /\ claim' = [claim EXCEPT ![t] =
                    IF @.state = "reserved" THEN NoClaim
                    ELSE [@ EXCEPT !.state = "uncertain", !.age = "new"]]
    /\ UNCHANGED process /\ UNCHANGED outside /\ UNCHANGED <<row, paused, rev, waived>>

\* get_all_positions: one read of the wallet through the indexer.
Scan(t) ==
    /\ claim[t].state = "uncertain" /\ claim[t].age # "new" /\ scan[t] = NoScan
    /\ scan' = [scan EXCEPT ![t] = [id |-> claim[t].id, held |-> indexed[t], chain |-> -1]]
    /\ UNCHANGED db /\ UNCHANGED outside /\ UNCHANGED <<worker, seller, ack, crashes, waived>>

\* ctf.balance at a head block, once _evidence_due.
ReadChain(t) ==
    /\ scan[t] # NoScan /\ scan[t].chain = -1
    /\ claim[t].age = "old"
    /\ scan' = [scan EXCEPT ![t].chain = wallet[t]]
    /\ UNCHANGED db /\ UNCHANGED outside /\ UNCHANGED <<worker, seller, ack, crashes, waived>>

\* Mutant: the chain can prove a fill but never a non-fill.
ChainVerdictNeverReleases(t) ==
    LET s == scan[t] IN
    IF row[t].status = "closing" \/ claim[t].age # "old" \/ row[t].age # "old" THEN "retain"
    ELSE IF s.chain <= row[t].shares \/ s.held # s.chain THEN "retain" ELSE "adopt"
\* chain_verdict, with the row and the claim as the transaction finds them.
ChainVerdict(t) ==
    LET s == scan[t] IN
    IF row[t].status = "closing" \/ claim[t].age # "old" \/ row[t].age # "old" THEN "retain"
    ELSE IF s.chain <= row[t].shares
         THEN (IF s.held > row[t].shares THEN "retain" ELSE "release")
    ELSE IF s.held # s.chain THEN "retain" ELSE "adopt"

\* Mutant: a token the indexer does not show was never bought.
IndexerVerdictTrustsAbsence(t) ==
    IF scan[t].held = 0 THEN "release" ELSE "adopt"
\* Mutant: the holding is compared with a row that has just been sold from.
IndexerVerdictUngated(t) ==
    IF scan[t].held = 0 \/ row[t].status = "closing" THEN "retain" ELSE "adopt"
\* _settle_uncertain_claim without on-chain evidence.
IndexerVerdict(t) ==
    IF scan[t].held = 0 THEN "retain"
    ELSE IF claim[t].kind = "open" THEN "adopt"
    ELSE IF row[t].age = "new" \/ row[t].status = "closing" THEN "retain"
    ELSE "adopt"

Verdict(t) == IF claim[t].kind = "open" /\ Live(t) THEN "release"
              ELSE IF scan[t].chain # -1 THEN ChainVerdict(t)
              ELSE IndexerVerdict(t)

\* A holding is adopted only when it exceeds the row by no more than the
\* claim's budget (its 2 % tolerance is for prices, which are all 1 here); a
\* larger one is quarantined.
Adoptable(t) == /\ scan[t].held > row[t].shares
                /\ scan[t].held - row[t].shares <= claim[t].reserved

\* _release_on_evidence, _adopt_uncertain_fill, _adopt_uncertain_resize: each
\* deletes the claim by id and state in the transaction that re-checks the row.
Settle(t) ==
    /\ scan[t] # NoScan
    /\ scan' = [scan EXCEPT ![t] = NoScan]
    /\ IF claim[t].id # scan[t].id \/ claim[t].state # "uncertain"
       THEN UNCHANGED <<claim, row, seen>>
       ELSE CASE Verdict(t) = "release" ->
                   claim' = [claim EXCEPT ![t] = NoClaim] /\ UNCHANGED <<row, seen>>
              [] Verdict(t) = "adopt" /\ Adoptable(t) ->
                   /\ claim' = [claim EXCEPT ![t] = NoClaim]
                   /\ row' = [row EXCEPT ![t] =
                                [status |-> "open", shares |-> scan[t].held,
                                 age |-> IF Live(t) THEN @.age ELSE "new"]]
                   /\ seen' = [seen EXCEPT ![t] = @ /\ Live(t)]
              [] OTHER -> UNCHANGED <<claim, row, seen>>
    /\ UNCHANGED <<paused, rev, worker, seller, ack, crashes,
                   order, wallet, indexed, waived>>

\* fences.clear_fence --yes.  Without --force the chain must not show more
\* than is tracked.  The operator answers for a BUY that was still pending.
Unbooked(t) == wallet[t] > row[t].shares - Sold(t) \/ Pending(claim[t].id)
OperatorClear(t, force) ==
    /\ claim[t].state = "uncertain"
    /\ wallet[t] <= row[t].shares \/ force
    /\ waived' = IF Unbooked(t) THEN waived \cup {t} ELSE waived
    /\ claim' = [claim EXCEPT ![t] = NoClaim]
    /\ UNCHANGED process /\ UNCHANGED outside /\ UNCHANGED <<row, paused, rev>>

-----------------------------------------------------------------------------
(* Settings writes take the same risk lock, then wait for submissions.     *)

\* Mutant: a settings write does not wait for the user's BUY in flight.
NoRiskLock == TRUE
LockFree == worker = Idle

SettingsWrite(v) ==
    /\ LockFree /\ ack # "pending"
    /\ paused' = v /\ rev' = (rev + 1) % (MaxRev + 1) /\ ack' = "pending"
    /\ UNCHANGED outside /\ UNCHANGED <<claim, row, worker, seller, scan, crashes, waived>>

SettingsAck ==
    /\ ack = "pending"
    /\ \A t \in Tokens : claim[t].state # "submitting"
    /\ ack' = "acked"
    /\ UNCHANGED db /\ UNCHANGED outside /\ UNCHANGED <<worker, seller, scan, crashes, waived>>

\* 503: the write stands, nobody was told it took effect.
SettingsTimeout ==
    /\ ack = "pending" /\ ack' = "none"
    /\ \E t \in Tokens : claim[t].state = "submitting"
    /\ UNCHANGED db /\ UNCHANGED outside /\ UNCHANGED <<worker, seller, scan, crashes, waived>>

-----------------------------------------------------------------------------
(* Time and crashes.                                                       *)

\* What the cut-offs rely on.  A reconcile pass is shorter than the shortest
\* of them.  The indexer shows a change before it is "due".  A SELL call has
\* ended before its row is "due", a BUY order is final before its claim is
\* "old".  An OPEN claim is younger than the last stamp of its token.
AgeClaim(t) ==
    /\ claim[t].state # "none" /\ scan[t] = NoScan
    /\ \/ /\ claim[t].age = "new"
          /\ claim[t].state = "uncertain" /\ claim[t].kind = "open" => row[t].age # "new"
          /\ claim' = [claim EXCEPT ![t].age = "due"]
       \/ /\ claim[t].age = "due" /\ claim[t].state = "uncertain"
          /\ claim[t].kind = "open" => row[t].age = "old"
          /\ ~Pending(claim[t].id)
          /\ claim' = [claim EXCEPT ![t].age = "old"]
    /\ UNCHANGED process /\ UNCHANGED outside /\ UNCHANGED <<row, paused, rev, waived>>

AgeRow(t) ==
    /\ scan[t] = NoScan
    /\ \/ /\ row[t].age = "new" /\ seen[t]
          /\ ~seller[t].waiting /\ seller[t].st # "wire"
          /\ row' = [row EXCEPT ![t].age = "due"]
       \/ /\ row[t].age = "due"
          /\ row' = [row EXCEPT ![t].age = "old"]
    /\ UNCHANGED process /\ UNCHANGED outside /\ UNCHANGED <<claim, paused, rev, waived>>

Crash ==
    /\ crashes < MaxCrashes /\ crashes' = crashes + 1
    /\ worker' = Idle
    /\ seller' = [t \in Tokens |-> [seller[t] EXCEPT !.waiting = FALSE]]
    /\ scan' = [t \in Tokens |-> NoScan]
    /\ ack' = IF ack = "pending" THEN "none" ELSE ack
    /\ UNCHANGED db /\ UNCHANGED outside /\ UNCHANGED waived

-----------------------------------------------------------------------------
Buying ==
    \/ \E t \in Tokens, i \in Ids, amt \in Amounts :
          PrepareOpen(t, i, amt) \/ PrepareResize(t, i, amt)
    \/ \E amt \in Amounts : Clamp(amt)
    \/ MarkSubmitting \/ GiveUp \/ SendOrder
    \/ AnswerNotFilled \/ AnswerUnknown \/ AnswerFilled

Selling == \E t \in Tokens :
    \/ \E amt \in Amounts : SellClaim(t, amt)
    \/ SellSend(t) \/ SellNotSent(t) \/ SellUncertain(t) \/ SellRecord(t)
    \/ RecoverClosing(t)

Reconciling == \E t \in Tokens :
    \/ RecoverStale(t) \/ Scan(t) \/ ReadChain(t) \/ Settle(t)
    \/ \E force \in BOOLEAN : OperatorClear(t, force)

Settings == (\E v \in BOOLEAN : SettingsWrite(v)) \/ SettingsAck \/ SettingsTimeout

World ==
    \/ \E i \in Ids : Fill(i) \/ Kill(i)
    \/ \E t \in Tokens : \/ SellFill(t) \/ SellKill(t) \/ IndexerCatchUp(t)
                         \/ AgeClaim(t) \/ AgeRow(t)
    \/ Crash

Next == Buying \/ Selling \/ Reconciling \/ Settings \/ World
Spec == Init /\ [][Next]_vars

\* Time passes, the exchange decides, the indexer catches up, calls return
\* (their timeouts are finite) and the reconcile loop comes round again.  A
\* pass may fail to reach the chain, but not every pass for ever.
Fairness ==
    /\ \A t \in Tokens :
        /\ SF_vars(AgeClaim(t)) /\ SF_vars(AgeRow(t)) /\ WF_vars(IndexerCatchUp(t))
        /\ WF_vars(RecoverStale(t)) /\ WF_vars(Scan(t)) /\ SF_vars(ReadChain(t))
        /\ WF_vars(Settle(t))
    /\ \A i \in Ids : WF_vars(Fill(i) \/ Kill(i))
    /\ WF_vars(GiveUp) /\ WF_vars(MarkSubmitting)
    /\ WF_vars(AnswerNotFilled \/ AnswerUnknown \/ AnswerFilled)
FairSpec == Spec /\ Fairness

-----------------------------------------------------------------------------
(* Properties.                                                             *)

Tracked(t) == row[t].shares - Sold(t)
OnWire(t) == MapThenSumSet(LAMBDA i : order[i].size,
                {i \in Ids : order[i].st = "wire" /\ order[i].tok = t})

\* The fence and the books of one token, as BuyPromise speaks of them: what the
\* wallet holds beyond the tracked shares is due.
Stage(t) == CASE t \in waived -> "overruled"
              [] t \notin waived /\ claim[t].state = "none" -> "free"
              [] OTHER -> IF order[claim[t].id].st = "filled" THEN "bought" ELSE "out"
Promised(t, n) == IF t \in waived THEN 0 ELSE n
Books == INSTANCE BuyPromise WITH
    Budgets <- Amounts,
    stage <- [t \in Tokens |-> Stage(t)],
    budget <- [t \in Tokens |-> Promised(t, claim[t].reserved)],
    due <- [t \in Tokens |-> Promised(t, wallet[t] - Tracked(t))],
    booked <- [t \in Tokens |-> Promised(t, Tracked(t))]

\* Every share a BUY delivers is booked exactly once, by the answer, by the
\* reconciler or by a row that reopens, before its token can be bought again, and
\* tracked shares leave by a SELL only: the fences implement BuyPromise.
KeepsBooks == Books!Spec

\* A BUY the exchange may still execute is fenced by its own claim, so no
\* second BUY of the token can be reserved (uq (user_id, token_id)).
LiveOrderFenced ==
    \A i \in Ids : order[i].st = "wire" /\ order[i].tok \notin waived
                    => claim[order[i].tok].id = i

\* Once a token carries no claim, the ledger is the wallet: every share a BUY
\* delivered is in a tracked row, whatever answer, crash or evidence settled it.
UnfencedIsBooked ==
    \A t \in Tokens : t \notin waived /\ claim[t].state = "none" => wallet[t] = Tracked(t)

\* A row open to SELLs never promises shares the wallet does not hold.
OpenRowBacked ==
    \A t \in Tokens : t \notin waived /\ row[t].status = "open" => row[t].shares <= wallet[t]

\* Money really at risk, held or on its way, stays inside both limits.
Held(t) == wallet[t] + OnWire(t)
MoneyWithinLimits ==
    waived = {} => /\ \A t \in Tokens : Held(t) <= MaxPerTrade
                   /\ MapThenSumSet(Held, Tokens) <= MaxTotal

\* A pause that was answered 200 is in force: no order call is running, and no
\* claim of a BUY that outlived its process is still in flight.
AckedPauseHolds ==
    ack = "acked" /\ paused => /\ worker.pc # "calling"
                              /\ \A t \in Tokens : claim[t].state # "submitting"

\* An uncertain claim does not fence its token for ever: the reconciler releases
\* or adopts it, unless the row is closing or an operator overrode the facts.
UncertainSettles ==
    \A t \in Tokens :
        claim[t].state = "uncertain"
        ~> claim[t].state # "uncertain" \/ row[t].status = "closing" \/ t \in waived

\* getting-started.md: "cap concurrent copies per source".
OpenRowsWithinSlots == Cardinality({t \in Tokens : Live(t)}) <= MaxOpen

=============================================================================
