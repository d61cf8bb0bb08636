------------------------------- MODULE CopyPass -------------------------------
(***************************************************************************)
(* One user's copies of one leader while the world moves between a         *)
(* decision and its order.  Four actors sell the same rows:                *)
(*   pass      _reconcile_tick / _sync_user, which reads rows, cash and    *)
(*             the leader's positions once and then executes its plan;     *)
(*   fast      _handle_leader_trade, one detected leader trade at a time;  *)
(*   manual    POST /positions/{id}/close;                                 *)
(*   external  POST /positions/close-external, for shares without a row.   *)
(* What they share is the row, its status (the closing fence) and the BUY  *)
(* claim; what each works from is its own copy of the row.                 *)
(*                                                                         *)
(* BUYs are fenced by claims whose life after an unknown outcome is        *)
(* BuyFence's; here a BUY fills or does not.  Detection delivers a leader  *)
(* trade at most once (Detection), and may lose it.                        *)
(***************************************************************************)
EXTENDS CopyPlan

CONSTANTS
    Ids,          \* row ids; an id is reused once nothing refers to it
    None,         \* no token, no id, no actor
    MaxSize,      \* bound: the largest leader position
    Wealth,       \* the user's dollars at the start
    Own,          \* bound: shares of a token the user may hold without a row
    MaxAttempts,  \* MAX_FILL_ATTEMPTS
    MaxMoves,     \* bound: leader trades
    MaxFaults     \* bound: SELLs that raise or whose outcome stays unknown

ASSUME PassAssumption ==
    /\ None \notin Tokens /\ None \notin Ids /\ None \notin {"pass", "fast", "manual", "external"}
    /\ {MaxSize, Wealth, Own, MaxMoves, MaxFaults} \subseteq Nat
    /\ MaxAttempts \in Nat \ {0}

VARIABLES
    \* the leader
    leader,       \* [Tokens -> shares the leader holds]
    view,         \* [Tokens -> shares the data-api shows for the leader]
    feed,         \* leader trades the detector has not handed over yet
    moves,        \* leader trades so far
    resolved,     \* tokens whose market has resolved
    \* the database
    row,          \* [Tokens -> the live copy_positions row]
    claim,        \* [Tokens -> the actor whose BUY claim fences the token]
    \* the process
    pass,         \* the reconcile pass: what it read, and the rest of its plan
    job,          \* [Actors -> the order the actor is working on]
    attempts,     \* CopyEngine._attempts: [Tokens -> [kind -> non-fills, anchor]]
    preexisting,  \* CopyEngine._no_backfill
    \* the user's wallet
    wallet, cash,
    faults,
    \* history
    raced         \* tokens whose row was sold from an outdated copy, or reopened
                  \* while its order could still execute

leaders == <<leader, view, feed, moves, resolved>>
funds == <<wallet, cash>>
vars == <<leader, view, feed, moves, resolved, row, claim, pass, job, attempts,
          preexisting, wallet, cash, faults, raced>>

-----------------------------------------------------------------------------
Actors == {"pass", "fast", "manual", "external"}
Kinds == {"open", "increase", "decrease", "close"}

NoRow == [st |-> "none", id |-> None, shares |-> 0, anchor |-> 0, mine |-> TRUE, dated |-> TRUE]
Rows == [st: {"none", "open", "closing", "review"}, id: Ids \cup {None}, shares: Nat,
         anchor: Nat, mine: BOOLEAN,  \* mine: not a MANUAL_TRADER row
         dated: BOOLEAN]              \* closing_at is set
Idle == [pc |-> "idle", kind |-> "close", tok |-> None, row |-> NoRow, amt |-> 0, anchor |-> 0]
Jobs == [pc: {"idle", "read", "sent"}, kind: Kinds, tok: Tokens \cup {None}, row: Rows,
         amt: Nat, anchor: Nat]
NoRows == [t \in Tokens |-> NoRow]
Resting == [pc |-> "idle", rows |-> NoRows, cash |-> 0, acts |-> <<>>]
Trades == [tok: Tokens, side: {"BUY", "SELL"}, size: Nat]

TypeOK ==
    /\ leader \in [Tokens -> 0..MaxSize] /\ view \in [Tokens -> 0..MaxSize]
    /\ feed \in Seq(Trades) /\ moves \in 0..MaxMoves
    /\ resolved \subseteq Tokens
    /\ row \in [Tokens -> Rows]
    /\ claim \in [Tokens -> Actors \cup {None}]
    /\ job \in [Actors -> Jobs]
    /\ attempts \in [Tokens \X Kinds -> [n: 0..MaxAttempts, print: Nat]]
    /\ preexisting \subseteq Tokens /\ raced \subseteq Tokens
    /\ wallet \in [Tokens -> Nat] /\ cash \in Nat
    /\ faults \in 0..MaxFaults

Live(t) == row[t].st # "none"
Busy(w) == job[w].pc # "idle"
Fresh(i) == /\ \A t \in Tokens : row[t].id # i
            /\ \A w \in Actors : job[w].row.id # i
            /\ \A t \in Tokens : pass.rows[t].id # i
            /\ \A k \in DOMAIN pass.acts : pass.acts[k].row.id # i
IdLeft == \E i \in Ids : Fresh(i)
NewId == CHOOSE i \in Ids : Fresh(i)

Init ==
    /\ leader \in [Tokens -> 0..MaxSize] /\ view = leader
    /\ feed = <<>> /\ moves = 0 /\ resolved = {}
    /\ row = NoRows
    /\ claim = [t \in Tokens |-> None]
    /\ pass = Resting /\ job = [w \in Actors |-> Idle]
    /\ attempts = [k \in Tokens \X Kinds |-> [n |-> 0, print |-> 0]]
    /\ preexisting = {t \in Tokens : leader[t] > 0}   \* the follow's first pass is over
    /\ wallet \in [Tokens -> 0..Own] /\ cash = Wealth
    /\ faults = 0 /\ raced = {}

-----------------------------------------------------------------------------
(* The leader, the data-api and the market.                                *)

LeaderTrades(t, n) ==
    /\ moves < MaxMoves /\ n # leader[t] /\ t \notin resolved
    /\ leader' = [leader EXCEPT ![t] = n]
    /\ feed' = Append(feed, IF n > leader[t]
                            THEN [tok |-> t, side |-> "BUY", size |-> n - leader[t]]
                            ELSE [tok |-> t, side |-> "SELL", size |-> leader[t] - n])
    /\ moves' = moves + 1
    /\ UNCHANGED <<view, resolved, row, claim, pass, job, attempts, preexisting, wallet, cash, faults, raced>>

Index(t) ==
    /\ view[t] # leader[t]
    /\ view' = [view EXCEPT ![t] = leader[t]]
    /\ UNCHANGED <<leader, feed, moves, resolved, row, claim, pass, job, attempts, preexisting, wallet, cash, faults, raced>>

\* The detector never hands a trade over: an outage, a restart, a skipped block.
LoseTrade ==
    /\ feed # <<>> /\ feed' = Tail(feed)
    /\ UNCHANGED <<leader, view, moves, resolved, row, claim, pass, job, attempts, preexisting, wallet, cash, faults, raced>>

Resolve(t) ==
    /\ t \notin resolved /\ resolved' = resolved \cup {t}
    /\ UNCHANGED <<leader, view, feed, moves, row, claim, pass, job, attempts, preexisting, wallet, cash, faults, raced>>

-----------------------------------------------------------------------------
(* Orders.  A market order fills whole or not at all.                      *)

\* claim_managed_sell: this very row is open and no BUY is in flight.
\* Mutant: the SELL does not check which row it takes.
MayClaimAnyRow(j) == row[j.tok].st = "open" /\ claim[j.tok] = None
MayClaim(j) == row[j.tok].st = "open" /\ row[j.tok].id = j.row.id /\ claim[j.tok] = None

Outdated(j) == row[j.tok].shares # j.row.shares

\* Actor w takes the fence of the row it read and sends its SELL.
ClaimSell(w, j) ==
    /\ row' = [row EXCEPT ![j.tok].st = "closing", ![j.tok].dated = TRUE]
    /\ job' = [job EXCEPT ![w] = [j EXCEPT !.pc = "sent"]]
    /\ raced' = IF Outdated(j) THEN raced \cup {j.tok} ELSE raced

\* The row a SELL leaves behind: _close_row, or the partial update back to open.
\* Mutants: a partial SELL keeps the shares of the row; or leaves it closed.
LeftoverKept(j) == IF j.kind = "close" THEN NoRow
                   ELSE [row[j.tok] EXCEPT !.st = "open", !.anchor = j.anchor]
LeftoverClosed(j) ==
    IF j.kind = "close" THEN NoRow
    ELSE [row[j.tok] EXCEPT !.st = "closed", !.anchor = j.anchor,
                            !.shares = Max({0, j.row.shares - j.amt})]
Leftover(j) ==
    IF j.kind = "close" THEN NoRow
    ELSE [row[j.tok] EXCEPT !.st = "open", !.anchor = j.anchor,
                            !.shares = Max({0, j.row.shares - j.amt})]

\* The finalizing UPDATE matches the row by id and status 'closing'.
StillFenced(j) == row[j.tok].st = "closing" /\ row[j.tok].id = j.row.id

CanFill(j) == j.amt > 0 /\ j.amt <= wallet[j.tok] /\ j.tok \notin resolved
TakeShares(j) == /\ wallet' = [wallet EXCEPT ![j.tok] = @ - j.amt]
                 /\ cash' = cash + j.amt

Counted(t, kind, print) ==
    [attempts EXCEPT ![<<t, kind>>] = [n |-> Min({@.n + 1, MaxAttempts}), print |-> print]]
Forgotten(t, kind) == [attempts EXCEPT ![<<t, kind>>] = [n |-> 0, print |-> 0]]
\* The check drops the count of another intent.
Rearmed(a) == IF attempts[<<a.tok, a.kind>>].print = a.anchor THEN attempts
              ELSE Forgotten(a.tok, a.kind)
\* _intent_fingerprint: the leader's size the action was planned for.  A close
\* carries none: its trader_shares is the default, 0.
Exhausted(a) == LET s == attempts[<<a.tok, a.kind>>] IN s.n >= MaxAttempts /\ s.print = a.anchor

\* Answered: filled and booked.  Without its fence the finalization raises.
SellFilled(w) ==
    LET j == job[w] IN
    /\ j.pc = "sent" /\ ~(j.kind \in {"open", "increase"}) /\ CanFill(j)
    /\ TakeShares(j)
    /\ row' = IF StillFenced(j) THEN [row EXCEPT ![j.tok] = Leftover(j)] ELSE row
    /\ attempts' = IF w = "pass" THEN Forgotten(j.tok, j.kind) ELSE attempts
    /\ job' = [job EXCEPT ![w] = Idle]
    /\ UNCHANGED leaders /\ UNCHANGED <<claim, pass, preexisting, faults, raced>>

\* Failed before it was sent (a wide spread, no book): closing -> open, and for
\* an external row DELETE.  The pass counts it as a non-fill.
SellNotSent(w) ==
    LET j == job[w] IN
    /\ j.pc = "sent" /\ ~(j.kind \in {"open", "increase"})
    /\ row' = IF ~StillFenced(j) THEN row
              ELSE IF w = "external" THEN [row EXCEPT ![j.tok] = NoRow]
              ELSE [row EXCEPT ![j.tok].st = "open"]
    /\ attempts' = IF w = "pass" THEN Counted(j.tok, j.kind, j.anchor) ELSE attempts
    /\ job' = [job EXCEPT ![w] = Idle]
    /\ UNCHANGED leaders /\ UNCHANGED funds
    /\ UNCHANGED <<claim, pass, preexisting, faults, raced>>

\* submission_uncertain: executed or not, the row stays closing.
SellUnknown(w) ==
    LET j == job[w] IN
    /\ j.pc = "sent" /\ ~(j.kind \in {"open", "increase"}) /\ faults < MaxFaults
    /\ faults' = faults + 1
    /\ \/ CanFill(j) /\ TakeShares(j)
       \/ UNCHANGED funds
    /\ job' = [job EXCEPT ![w] = Idle]
    /\ UNCHANGED leaders /\ UNCHANGED <<row, claim, pass, attempts, preexisting, raced>>

\* The book of a close answers 404: _resolve_departed books the resolution, asks
\* for review when the row names no market, or leaves the row closing.
BookGone ==
    LET j == job["pass"] IN
    /\ j.pc = "sent" /\ j.kind = "close" /\ j.tok \in resolved
    /\ \/ row' = IF StillFenced(j) THEN [row EXCEPT ![j.tok] = NoRow] ELSE row
       \/ row' = IF StillFenced(j) THEN [row EXCEPT ![j.tok].st = "review"] ELSE row
       \/ UNCHANGED row
    /\ job' = [job EXCEPT !["pass"] = Idle]
    /\ UNCHANGED leaders /\ UNCHANGED funds
    /\ UNCHANGED <<claim, pass, attempts, preexisting, faults, raced>>

\* _prepare_buy under the risk lock: no claim, the row the action names (or no
\* row for an open), and what the follow's limits leave.  They count this
\* trader's rows; the account's own limit is BuyFence's.
Copied(t) == Live(t) /\ row[t].mine
AtRisk == MapThenSumSet(LAMBDA t : IF Copied(t) THEN row[t].shares ELSE 0, Tokens)
Slots == Cardinality({t \in Tokens : Copied(t)})
RiskLockFree == \A t \in Tokens : claim[t] = None
\* Mutant: the planned amount is sent as it is.
BuyAmountAsPlanned(j) == j.amt
BuyAmount(j) ==
    Min({j.amt, Settings.exposure - AtRisk,
         Settings.maxPos - Max({row[j.tok].shares, wallet[j.tok]})})
MayBuy(j) ==
    /\ claim[j.tok] = None
    /\ IF j.kind = "open" THEN ~Live(j.tok) /\ Slots < Settings.maxOpen
       ELSE row[j.tok].st = "open" /\ row[j.tok].id = j.row.id
    /\ WorthIt(BuyAmount(j))

BuyPrepare(w) ==
    LET j == job[w] IN
    /\ j.pc = "read" /\ j.kind \in {"open", "increase"} /\ RiskLockFree
    /\ IF MayBuy(j)
       THEN /\ claim' = [claim EXCEPT ![j.tok] = w]
            /\ job' = [job EXCEPT ![w].pc = "sent", ![w].amt = BuyAmount(j)]
       ELSE job' = [job EXCEPT ![w] = Idle] /\ UNCHANGED claim
    /\ UNCHANGED leaders /\ UNCHANGED funds
    /\ UNCHANGED <<row, pass, attempts, preexisting, faults, raced>>

\* _record_open / _record_resize(increase) add to the row as it is now.
BuyFilled(w) ==
    LET j == job[w] IN
    /\ j.pc = "sent" /\ j.kind \in {"open", "increase"}
    /\ j.amt <= cash /\ j.tok \notin resolved
    /\ wallet' = [wallet EXCEPT ![j.tok] = @ + j.amt] /\ cash' = cash - j.amt
    /\ IF j.kind = "open"
       THEN IdLeft /\ row' = [row EXCEPT ![j.tok] =
               [NoRow EXCEPT !.st = "open", !.id = NewId, !.shares = j.amt, !.anchor = j.anchor]]
       ELSE row' = [row EXCEPT ![j.tok].shares = @ + j.amt, ![j.tok].anchor = j.anchor]
    /\ claim' = [claim EXCEPT ![j.tok] = None]
    /\ attempts' = Forgotten(j.tok, j.kind)
    /\ job' = [job EXCEPT ![w] = Idle]
    /\ UNCHANGED leaders /\ UNCHANGED <<pass, preexisting, faults, raced>>

BuyNotFilled(w) ==
    LET j == job[w] IN
    /\ j.pc = "sent" /\ j.kind \in {"open", "increase"}
    /\ claim' = [claim EXCEPT ![j.tok] = None]
    /\ attempts' = Counted(j.tok, j.kind, j.anchor)
    /\ job' = [job EXCEPT ![w] = Idle]
    /\ UNCHANGED leaders /\ UNCHANGED funds
    /\ UNCHANGED <<row, pass, preexisting, faults, raced>>

\* Any other failure before the SELL was sent reopens the row and, in the pass,
\* ends it without counting.
SellRaised(w) ==
    LET j == job[w] IN
    /\ w \in {"pass", "fast"} /\ j.pc = "sent" /\ ~(j.kind \in {"open", "increase"})
    /\ faults < MaxFaults /\ faults' = faults + 1
    /\ row' = IF StillFenced(j) THEN [row EXCEPT ![j.tok].st = "open"] ELSE row
    /\ pass' = IF w = "pass" THEN Resting ELSE pass
    /\ job' = [job EXCEPT ![w] = Idle]
    /\ UNCHANGED leaders /\ UNCHANGED funds
    /\ UNCHANGED <<claim, attempts, preexisting, raced>>

-----------------------------------------------------------------------------
(* The reconcile pass: _sync_user for one follow.                          *)

\* Every copy of this leader, and the spendable cash, read once.
PassRead ==
    /\ pass.pc = "idle"
    /\ pass' = [Resting EXCEPT !.pc = "read", !.cash = cash,
                               !.rows = [t \in Tokens |-> IF row[t].mine THEN row[t] ELSE NoRow]]
    /\ UNCHANGED leaders /\ UNCHANGED funds
    /\ UNCHANGED <<row, claim, job, attempts, preexisting, faults, raced>>

\* Without the opens of what the leader held before the follow.
Wanted(acts) ==
    FoldLeft(LAMBDA kept, a : IF a.kind = "open" /\ a.tok \in preexisting THEN kept ELSE Append(kept, a),
             <<>>, acts)

\* The leader's list: every held token, or some of them when it was cut short
\* (get_all_positions stops at its last page).
Lists(complete) ==
    LET held == {t \in Tokens : view[t] > 0} IN IF complete THEN {held} ELSE SUBSET held

\* The leader's positions, read after an await, and the plan.  A token the list
\* lacks leaves _no_backfill, also when the list was cut short.
PassInput(blocked, complete, listed) ==
    [mode |-> "position", rows |-> pass.rows, cash |-> pass.cash,
     pos |-> [t \in Tokens |-> [size |-> IF t \in listed THEN view[t] ELSE 0, inBand |-> TRUE,
                               redeemable |-> t \in resolved]],
     blocked |-> blocked, complete |-> complete, leaderCash |-> Unknown, recent |-> {}]

PassPlan(complete) ==
    /\ pass.pc = "read"
    /\ \E listed \in Lists(complete), blocked \in BOOLEAN, order \in SetToSeqs(Tokens) :
          /\ preexisting' = preexisting \cap listed
          /\ pass' = [Resting EXCEPT !.pc = "run",
                 !.acts = Wanted(PlanActions(PassInput(blocked, complete, listed), order))]
    /\ UNCHANGED leaders /\ UNCHANGED funds
    /\ UNCHANGED <<row, claim, job, attempts, faults, raced>>

\* _reanchor: raises the anchor of an open row, never lowers it.
Reanchored(a) ==
    IF row[a.tok].st = "open" /\ row[a.tok].id = a.row.id /\ row[a.tok].anchor < a.anchor
    THEN [row EXCEPT ![a.tok].anchor = a.anchor] ELSE row

Ready(a) == /\ pass.pc = "run" /\ pass.acts # <<>> /\ ~Busy("pass") /\ a = Head(pass.acts)
            /\ pass' = [pass EXCEPT !.acts = Tail(@)]
Gives(a, kind) == [Idle EXCEPT !.pc = "read", !.kind = kind, !.tok = a.tok, !.row = a.row,
                               !.amt = a.amt, !.anchor = a.anchor]

\* _execute: a budget that is spent drops the action; an increase re-anchors.
PassDrops ==
    /\ pass.acts # <<>> /\ LET a == Head(pass.acts) IN
       /\ Ready(a) /\ a.kind \in Kinds /\ Exhausted(a)
       /\ row' = IF a.kind = "increase" THEN Reanchored(a) ELSE row
    /\ UNCHANGED leaders /\ UNCHANGED funds
    /\ UNCHANGED <<claim, job, attempts, preexisting, faults, raced>>

PassReanchors ==
    /\ pass.acts # <<>> /\ LET a == Head(pass.acts) IN
       Ready(a) /\ a.kind = "reanchor" /\ row' = Reanchored(a)
    /\ UNCHANGED leaders /\ UNCHANGED funds
    /\ UNCHANGED <<claim, job, attempts, preexisting, faults, raced>>

\* try_transition open -> closing, then _realize_resolution.
PassResolves ==
    /\ pass.acts # <<>> /\ LET a == Head(pass.acts) IN
       /\ Ready(a) /\ a.kind = "resolve"
       /\ row' = IF row[a.tok].st = "open" /\ row[a.tok].id = a.row.id
                 THEN [row EXCEPT ![a.tok] = NoRow] ELSE row
    /\ UNCHANGED leaders /\ UNCHANGED funds
    /\ UNCHANGED <<claim, job, attempts, preexisting, faults, raced>>

PassBuys ==
    /\ pass.acts # <<>> /\ LET a == Head(pass.acts) IN
       /\ Ready(a) /\ IsBuy(a) /\ ~Exhausted(a)
       /\ job' = [job EXCEPT !["pass"] = Gives(a, a.kind)] /\ attempts' = Rearmed(a)
    /\ UNCHANGED leaders /\ UNCHANGED funds
    /\ UNCHANGED <<row, claim, preexisting, faults, raced>>

PassSells ==
    /\ pass.acts # <<>> /\ LET a == Head(pass.acts) IN
       /\ Ready(a) /\ IsSell(a) /\ ~Exhausted(a) /\ attempts' = Rearmed(a)
       /\ LET j == Gives(a, a.kind) IN
          IF MayClaim(j) THEN ClaimSell("pass", j) ELSE UNCHANGED <<row, job, raced>>
    /\ UNCHANGED leaders /\ UNCHANGED funds
    /\ UNCHANGED <<claim, preexisting, faults>>

PassEnds ==
    /\ pass.pc = "run" /\ pass.acts = <<>> /\ ~Busy("pass")
    /\ pass' = Resting
    /\ UNCHANGED leaders /\ UNCHANGED funds
    /\ UNCHANGED <<row, claim, job, attempts, preexisting, faults, raced>>

PassStep == \/ PassDrops \/ PassReanchors \/ PassResolves \/ PassBuys \/ PassSells \/ PassEnds

-----------------------------------------------------------------------------
(* The fast path: _handle_leader_trade for the oldest detected trade.      *)

Trade == Head(feed)
TakeTrade == feed # <<>> /\ ~Busy("fast") /\ feed' = Tail(feed)

\* A BUY opens a copy of the leader's whole position (the trade alone when the
\* position cannot be read or is not indexed); an existing copy is left to the
\* pass.  Trades the filters refuse are LoseTrade.
FastBuys ==
    /\ TakeTrade /\ Trade.side = "BUY" /\ row[Trade.tok].st # "open"
    /\ Slots < Settings.maxOpen
    /\ \E total \in {Trade.size} \cup ({view[Trade.tok]} \ {0}) :
         LET t == Trade.tok
             amt == Min({total * Settings.ratio, Settings.maxPos, cash,
                         Max({0, Settings.exposure - AtRisk})})
             a == Action("open", t, amt, total, NoRow)
         IN /\ WorthIt(amt) /\ ~Exhausted(a)
            /\ job' = [job EXCEPT !["fast"] = Gives(a, "open")] /\ attempts' = Rearmed(a)
    /\ UNCHANGED <<leader, view, moves, resolved, row, claim, pass, preexisting, wallet, cash, faults, raced>>

\* A SELL sells the copy's shares in proportion to the leader's, measured from
\* the anchor; 95% is everything.  A leader who visibly holds a quarter more
\* than the anchor is left to the pass, unless the look-up fails (0).
Deferred(t, size, held) == 4 * held > 5 * row[t].anchor /\ 20 * size < 19 * held
FastReadsSell ==
    LET t == Trade.tok
        size == Trade.size
        base == row[t].anchor
        full == base = 0 \/ 20 * size >= 19 * base
        j == [pc |-> "read", tok |-> t, row |-> row[t],
              kind |-> IF full THEN "close" ELSE "decrease",
              amt |-> IF full THEN row[t].shares ELSE (row[t].shares * size) \div base,
              anchor |-> IF full THEN 0 ELSE base - size]
    IN /\ TakeTrade /\ Trade.side = "SELL" /\ row[t].st = "open"
       /\ \E held \in {view[t], 0} : base > 0 => ~Deferred(t, size, held)
       /\ job' = [job EXCEPT !["fast"] = j]
       /\ UNCHANGED <<leader, view, moves, resolved, row, claim, pass, attempts, preexisting, wallet, cash, faults, raced>>

\* claim_managed_sell after the awaits of the lookup and the client.
Claims(w) ==
    LET j == job[w] IN
    /\ j.pc = "read" /\ ~(j.kind \in {"open", "increase"}) /\ w # "external"
    /\ IF MayClaim(j) THEN ClaimSell(w, j)
       ELSE job' = [job EXCEPT ![w] = Idle] /\ UNCHANGED <<row, raced>>
    /\ UNCHANGED leaders /\ UNCHANGED funds
    /\ UNCHANGED <<claim, pass, attempts, preexisting, faults>>

-----------------------------------------------------------------------------
(* The user's Close, with and without a row.                               *)

ManualReads(t) ==
    /\ ~Busy("manual") /\ row[t].st = "open"
    /\ job' = [job EXCEPT !["manual"] = [Idle EXCEPT !.pc = "read", !.tok = t, !.row = row[t],
                                                     !.amt = row[t].shares]]
    /\ UNCHANGED leaders /\ UNCHANGED funds
    /\ UNCHANGED <<row, claim, pass, attempts, preexisting, faults, raced>>

ExternalReads(t) ==
    /\ ~Busy("external") /\ wallet[t] > 0 /\ t \notin resolved
    /\ job' = [job EXCEPT !["external"] = [Idle EXCEPT !.pc = "read", !.tok = t, !.amt = wallet[t]]]
    /\ UNCHANGED leaders /\ UNCHANGED funds
    /\ UNCHANGED <<row, claim, pass, attempts, preexisting, faults, raced>>

\* One transaction: no BUY claim and no live row, then INSERT ... 'closing',
\* without a closing_at.
\* Mutant: the insert does not look for a live row.
UntrackedUnchecked(t) == claim[t] = None
Untracked(t) == claim[t] = None /\ ~Live(t)
ExternalClaims ==
    LET j == job["external"]
        r == [st |-> "closing", id |-> NewId, shares |-> j.amt, anchor |-> 0,
              mine |-> FALSE, dated |-> FALSE]
    IN /\ j.pc = "read"
       /\ IF Untracked(j.tok)
          THEN /\ IdLeft
               /\ row' = [row EXCEPT ![j.tok] = r]
               /\ job' = [job EXCEPT !["external"].pc = "sent", !["external"].row = r]
          ELSE job' = [job EXCEPT !["external"] = Idle] /\ UNCHANGED row
       /\ UNCHANGED leaders /\ UNCHANGED funds
       /\ UNCHANGED <<claim, pass, attempts, preexisting, faults, raced>>

-----------------------------------------------------------------------------
(* _recover_stuck_closings.  A dated row is old enough only when its order *)
(* is final and indexed (BuyFence); a row without closing_at always is,    *)
(* and the wallet the data-api shows may still hold what was just sold.    *)

InFlight(t) == \E w \in Actors : /\ job[w].pc = "sent" /\ job[w].row.id = row[t].id
                                 /\ ~(job[w].kind \in {"open", "increase"})
\* Mutant: the age gate is gone.
StuckAtOnce(t) == row[t].st = "closing"
Stuck(t) == row[t].st = "closing" /\ (row[t].dated => ~InFlight(t))
Shown(t) == IF row[t].dated THEN {wallet[t]} ELSE {wallet[t], Max({wallet[t], row[t].shares})}

RecoverReopens(t) ==
    /\ Stuck(t) /\ t \notin resolved
    /\ \E held \in Shown(t) :
         /\ held >= row[t].shares
         /\ raced' = IF ~row[t].dated /\ (InFlight(t) \/ held > wallet[t]) THEN raced \cup {t} ELSE raced
    /\ row' = [row EXCEPT ![t].st = "open"]
    /\ UNCHANGED leaders /\ UNCHANGED funds
    /\ UNCHANGED <<claim, pass, job, attempts, preexisting, faults>>

\* Gone from the wallet: finalized from the SELL history or the resolution; a
\* resolved position still held is booked as resolved.
RecoverFinalizes(t) ==
    /\ Stuck(t) /\ (wallet[t] = 0 \/ t \in resolved)
    /\ row' = [row EXCEPT ![t] = NoRow]
    /\ raced' = IF ~row[t].dated /\ InFlight(t) THEN raced \cup {t} ELSE raced
    /\ UNCHANGED leaders /\ UNCHANGED funds
    /\ UNCHANGED <<claim, pass, job, attempts, preexisting, faults>>

-----------------------------------------------------------------------------
Answers(w) == \/ SellFilled(w) \/ SellNotSent(w) \/ SellUnknown(w) \/ SellRaised(w)
              \/ BuyFilled(w) \/ BuyNotFilled(w) \/ (w = "pass" /\ BookGone)
Proceeds(w) == BuyPrepare(w) \/ Claims(w) \/ (w = "external" /\ ExternalClaims)
Recover(t) == RecoverReopens(t) \/ RecoverFinalizes(t)

Next ==
    \/ \E t \in Tokens, n \in 0..MaxSize : LeaderTrades(t, n)
    \/ \E t \in Tokens : Index(t) \/ Resolve(t) \/ ManualReads(t) \/ ExternalReads(t) \/ Recover(t)
    \/ LoseTrade \/ FastBuys \/ FastReadsSell
    \/ \E w \in Actors : Answers(w) \/ Proceeds(w)
    \/ PassRead \/ (\E complete \in BOOLEAN : PassPlan(complete)) \/ PassStep

Spec == Init /\ [][Next]_vars

-----------------------------------------------------------------------------
(* An open row never promises shares the wallet lacks.  The code says only *)
(* one caller wins the status flip, so that no two SELLs take the same     *)
(* shares (copy_engine.py:1296).                                           *)
RowBacked == \A t \in Tokens : row[t].st = "open" => row[t].shares <= wallet[t]

(* RowBacked breaks in two ways only: a SELL is sized from a copy of the   *)
(* row older than its last change, or an external close's row is reopened  *)
(* while its order is out.  Without them, whatever the order of pass, fast *)
(* path, manual and external close, recovery and unknown outcomes, every   *)
(* open row is backed.                                                     *)
RowBackedUnlessRaced ==
    \A t \in Tokens \ raced : row[t].st = "open" => row[t].shares <= wallet[t]

(* While a SELL is out its row stays fenced under its own id, no BUY of    *)
(* the token is claimed, and no second SELL is out (claim_managed_sell).   *)
SellsExclusive ==
    \A w \in Actors :
       (job[w].pc = "sent" /\ job[w].kind \in {"decrease", "close"} /\ job[w].tok \notin raced) =>
          /\ StillFenced(job[w]) /\ claim[job[w].tok] = None
          /\ \A v \in Actors \ {w} : ~(job[v].pc = "sent" /\ job[v].tok = job[w].tok)

(* An external close that is out is not touched by stuck-closing recovery: *)
(* "age-gated so a legitimately in-flight close is never touched"          *)
(* (copy_engine.py:878).                                                   *)
InFlightCloseUntouched ==
    [][\A t \in Tokens : Recover(t) => ~InFlight(t)]_vars

(* Whatever a pass or the fast path planned from older rows, what the user *)
(* holds of a token and the BUY on its way together stay within the limit  *)
(* per position, shares without a row included: _prepare_buy sizes every   *)
(* BUY again from the row and the wallet as they are.                      *)
HoldingWithinLimit ==
    \A t \in Tokens :
       wallet[t] + (IF claim[t] # None THEN job[claim[t]].amt ELSE 0)
          <= Max({Settings.maxPos, Own})
===============================================================================
