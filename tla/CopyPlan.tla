------------------------------- MODULE CopyPlan -------------------------------
(***************************************************************************)
(* plan_actions: the orders that turn a user's copies into an image of one *)
(* leader's positions.  Pure operators; CopyLoop and CopyPass run them.    *)
(*                                                                         *)
(* A share costs one dollar, so a position's size is its value, a row's    *)
(* shares are its notional, and an amount is dollars and shares at once.   *)
(* A fraction of a holding is rounded down to a unit.                      *)
(***************************************************************************)
EXTENDS Integers, Sequences, FiniteSets, FiniteSetsExt, SequencesExt

CONSTANTS
    Tokens,     \* outcome tokens
    Settings    \* the follow's limits and sizing, see SettingsType

SettingsType ==
    [ratio: Nat,        \* copy_ratio_pct or capital_multiplier, as a whole factor
     maxPos: Nat,       \* max_position_usd
     exposure: Nat,     \* max_total_exposure_usd
     maxOpen: Nat,      \* max_open_positions
     minLeader: Nat,    \* min_leader_usd
     dust: Nat]         \* ignore_below_usd

ASSUME SettingsAssumption == Settings \in SettingsType /\ IsFiniteSet(Tokens)

Unknown == -1    \* no reading of the leader's cash

\* A leader's position (size 0: not held) and a user's copy of it.
Positions == [size: Nat, redeemable: BOOLEAN, inBand: BOOLEAN]
Tracked(row) == row.st \in {"open", "closing", "review"}

Action(kind, t, amt, anchor, row) ==
    [kind |-> kind, tok |-> t, amt |-> amt, anchor |-> anchor, row |-> row]
IsBuy(a) == a.kind \in {"open", "increase"}
IsSell(a) == a.kind \in {"decrease", "close"}

-----------------------------------------------------------------------------
\* cash_share(bet, leader_cash) of the user's cash, times the multiplier.
CashShare(bet, leaderCash, cash) ==
    (bet * cash * Settings.ratio) \div (leaderCash + bet)
Weighed(bet, leaderCash) == leaderCash # Unknown /\ bet > 0

\* The leader's size that the copy was last measured against.
Base(p, row) == IF row.anchor > 0 THEN row.anchor ELSE p.size
Grew(p, row) == 4 * p.size > 5 * Base(p, row)
Shrank(p, row) == 4 * p.size < 3 * Base(p, row)

\* Inputs of one plan: pos and rows by token, the sizing mode, available cash,
\* whether opens are blocked, whether the leader's list is complete, the leader's
\* cash, and the tokens the leader bought recently.
MayOpen(in, st, t) ==
    LET p == in.pos[t] IN
    /\ ~in.blocked
    /\ st.count < Settings.maxOpen
    /\ p.size >= Settings.minLeader
    /\ p.inBand
    /\ in.mode = "capital" => t \in in.recent /\ Weighed(p.size, in.leaderCash)

OpenAmount(in, st, t) ==
    LET p == in.pos[t]
        target == IF in.mode = "capital"
                  THEN CashShare(p.size, in.leaderCash, st.cash)
                  ELSE p.size * Settings.ratio
    IN Min({target, Settings.maxPos, st.left})

IncreaseAmount(in, st, t) ==
    LET p == in.pos[t]
        row == in.rows[t]
        base == Base(p, row)
        target == IF in.mode = "capital"
                  THEN CashShare(p.size - base, in.leaderCash, st.cash)
                  ELSE (row.shares * (p.size - base)) \div base
    IN IF in.blocked THEN 0
       ELSE Min({target, st.left, Settings.maxPos - row.shares})

WorthIt(amt) == amt > 0 /\ amt >= Settings.dust

\* Mutant: a planned BUY leaves the pass's budget as it was.
BuyForgotten(st, a) == [st EXCEPT !.acts = Append(@, a), !.count = @ + 1]
\* A planned BUY takes its amount from what the rest of the plan may spend.
Buy(st, a) == [st EXCEPT !.acts = Append(@, a),
                         !.left = @ - a.amt, !.cash = @ - a.amt,
                         !.count = IF a.kind = "open" THEN @ + 1 ELSE @]
Plan(st, a) == [st EXCEPT !.acts = Append(@, a)]

PlanNew(in, st, t) ==
    LET amt == OpenAmount(in, st, t) IN
    IF MayOpen(in, st, t) /\ WorthIt(amt)
    THEN Buy(st, Action("open", t, amt, in.pos[t].size, in.rows[t])) ELSE st

\* Mutant: an increase that cannot be followed leaves the anchor behind.
PlanGrowthUnanchored(in, st, t) ==
    LET p == in.pos[t]
        row == in.rows[t]
        amt == IncreaseAmount(in, st, t)
    IN IF WorthIt(amt) /\ (in.mode = "capital" => in.leaderCash # Unknown)
       THEN Buy(st, Action("increase", t, amt, p.size, row)) ELSE st
PlanGrowth(in, st, t) ==
    LET p == in.pos[t]
        row == in.rows[t]
        amt == IncreaseAmount(in, st, t)
    IN IF in.mode = "capital" /\ ~in.blocked
            /\ ~Weighed(p.size - Base(p, row), in.leaderCash)
       THEN st                           \* no reading: keep the anchor
       ELSE IF WorthIt(amt) THEN Buy(st, Action("increase", t, amt, p.size, row))
            ELSE Plan(st, Action("reanchor", t, 0, p.size, row))

PlanTrim(in, st, t) ==
    LET p == in.pos[t]
        row == in.rows[t]
        base == Base(p, row)
    IN Plan(st, Action("decrease", t, (row.shares * (base - p.size)) \div base, p.size, row))

\* One token of the leader's list.
PlanHeld(in, st, t) ==
    LET p == in.pos[t]
        row == in.rows[t]
        copied == ~p.redeemable /\ Tracked(row)
    IN CASE p.size = 0 -> st
         [] p.size > 0 /\ p.redeemable ->
               IF Tracked(row) THEN Plan(st, Action("resolve", t, 0, 0, row)) ELSE st
         [] p.size > 0 /\ ~p.redeemable /\ ~Tracked(row) -> PlanNew(in, st, t)
         [] p.size > 0 /\ copied /\ Grew(p, row) -> PlanGrowth(in, st, t)
         [] p.size > 0 /\ copied /\ Shrank(p, row) -> PlanTrim(in, st, t)
         [] OTHER -> st                  \* within the band: hold

Outlay(rows) == MapThenSumSet(LAMBDA t : rows[t].shares, {t \in Tokens : Tracked(rows[t])})

\* A copy the leader has left, if the leader's list was complete.
PlanGone(in, st, t) ==
    LET row == in.rows[t] IN
    IF in.complete /\ Tracked(row) /\ in.pos[t].size = 0
    THEN Plan(st, Action("close", t, row.shares, 0, row)) ELSE st

\* What the plan may spend, and the places it may still fill.
Budget(in) ==
    [left |-> Min({in.cash, Max({0, Settings.exposure - Outlay(in.rows)})}),
     cash |-> in.cash,
     count |-> Cardinality({t \in Tokens : Tracked(in.rows[t])}),
     acts |-> <<>>]

\* plan_actions over the leader's list in the order the data-api gave it, then the
\* copies that are not on it.
Followed(in, order) == FoldLeft(LAMBDA st, t : PlanHeld(in, st, t), Budget(in), order)
Planned(in, order) == FoldLeft(LAMBDA st, t : PlanGone(in, st, t), Followed(in, order), order)
PlanActions(in, order) == Planned(in, order).acts
=============================================================================
