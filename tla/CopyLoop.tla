------------------------------- MODULE CopyLoop -------------------------------
(***************************************************************************)
(* The reconcile loop as it would be if a pass were one step: the leader   *)
(* moves, then a whole plan is carried out with exact fills.  It shows     *)
(* what plan_actions itself promises; CopyPass lets the world move between *)
(* the plan and its orders.                                                *)
(***************************************************************************)
EXTENDS CopyPlan

CONSTANTS
    MaxSize,    \* bound: the largest leader position
    LeaderCash, \* the one reading of the leader's free cash
    Wealth      \* the user's dollars at the start

ASSUME LoopAssumption == MaxSize \in Nat /\ LeaderCash \in Nat /\ Wealth \in Nat

VARIABLES
    pos,    \* [Tokens -> the leader's position]
    rows,   \* [Tokens -> the copy_positions row]
    cash    \* the user's free dollars

vars == <<pos, rows, cash>>

NoRow == [st |-> "none", shares |-> 0, anchor |-> 0]
Rows == [st: {"none", "open"}, shares: Nat, anchor: Nat]
Flat == [size |-> 0, redeemable |-> FALSE, inBand |-> TRUE]

TypeOK ==
    /\ pos \in [Tokens -> Positions]
    /\ rows \in [Tokens -> Rows]
    /\ cash \in Nat

Init ==
    /\ pos = [t \in Tokens |-> Flat]
    /\ rows = [t \in Tokens |-> NoRow]
    /\ cash = Wealth

\* What _sync_user hands to plan_actions, beside the rows and the positions.
PositionInputs ==
    [mode: {"position"}, pos: {pos}, rows: {rows}, cash: {cash}, blocked: BOOLEAN,
     complete: BOOLEAN, leaderCash: {Unknown}, recent: {{}}]
CapitalInputs ==
    [mode: {"capital"}, pos: {pos}, rows: {rows}, cash: {cash}, blocked: BOOLEAN,
     complete: BOOLEAN, leaderCash: {Unknown, LeaderCash}, recent: {{}, Tokens}]
Inputs == PositionInputs \cup CapitalInputs
Orders == {s \in [1..Cardinality(Tokens) -> Tokens] : \A t \in Tokens : \E i \in DOMAIN s : s[i] = t}

\* Mutant: a trim leaves the anchor at the old size.
TrimKeepsAnchor(w, a) ==
    [w EXCEPT !.rows[a.tok].shares = @ - a.amt, !.cash = @ + a.amt]
Trim(w, a) ==
    [w EXCEPT !.rows[a.tok].shares = @ - a.amt, !.rows[a.tok].anchor = a.anchor, !.cash = @ + a.amt]

\* One action of a plan with an exact fill; a market resolves at a dollar.
Perform(w, a) ==
    CASE a.kind = "open" ->
            [w EXCEPT !.rows[a.tok] = [st |-> "open", shares |-> a.amt, anchor |-> a.anchor],
                      !.cash = @ - a.amt]
      [] a.kind = "increase" ->
            [w EXCEPT !.rows[a.tok].shares = @ + a.amt, !.rows[a.tok].anchor = a.anchor,
                      !.cash = @ - a.amt]
      [] a.kind = "reanchor" ->
            [w EXCEPT !.rows[a.tok].anchor = IF @ < a.anchor THEN a.anchor ELSE @]
      [] a.kind = "decrease" -> Trim(w, a)
      [] OTHER -> [w EXCEPT !.rows[a.tok] = NoRow, !.cash = @ + a.row.shares]

Done(acts) == FoldLeft(Perform, [rows |-> rows, cash |-> cash], acts)

LeaderMoves ==
    /\ \E t \in Tokens, n \in 0..MaxSize, inBand \in BOOLEAN :
          pos' = [pos EXCEPT ![t] = [size |-> n, redeemable |-> FALSE, inBand |-> inBand]]
    /\ UNCHANGED <<rows, cash>>

MarketResolves ==
    /\ \E t \in Tokens : pos[t].size > 0 /\ pos' = [pos EXCEPT ![t].redeemable = TRUE]
    /\ UNCHANGED <<rows, cash>>

Pass ==
    /\ \E in \in Inputs, order \in Orders :
          LET done == Done(PlanActions(in, order)) IN rows' = done.rows /\ cash' = done.cash
    /\ UNCHANGED pos

Next == LeaderMoves \/ MarketResolves \/ Pass

Spec == Init /\ [][Next]_vars

-----------------------------------------------------------------------------
Spent(acts) == FoldLeft(LAMBDA sum, a : IF IsBuy(a) THEN sum + a.amt ELSE sum, 0, acts)
Opens(acts) == Cardinality({i \in DOMAIN acts : acts[i].kind = "open"})

(* However many orders one plan holds, its BUYs together fit the cash and    *)
(* the limits: the exposure cap (unless the copies already exceed it), the   *)
(* cap per position and the number of open copies (plan_actions).            *)
PlanWithinLimits ==
    \A in \in Inputs, order \in Orders :
      LET acts == PlanActions(in, order)
          held == {t \in Tokens : Tracked(rows[t])}
      IN /\ Spent(acts) <= cash
         /\ Spent(acts) > 0 => Outlay(rows) + Spent(acts) <= Settings.exposure
         /\ Opens(acts) > 0 => Cardinality(held) + Opens(acts) <= Settings.maxOpen
         /\ \A i \in DOMAIN acts : IsBuy(acts[i]) =>
               acts[i].amt + rows[acts[i].tok].shares <= Settings.maxPos

(* A plan is finished when it is carried out: planning again for a leader    *)
(* who did not move sells nothing, trades no token the first plan traded and *)
(* moves no anchor.  A copy that never settles pays the spread every pass.   *)
PlanSettles ==
    \A in \in Inputs, order \in Orders :
      LET acts == PlanActions(in, order)
          done == Done(acts)
          traded == {acts[i].tok : i \in DOMAIN acts}
          again == PlanActions([in EXCEPT !.rows = done.rows, !.cash = done.cash], order)
      IN \A i \in DOMAIN again : again[i].kind = "open" /\ again[i].tok \notin traded
=============================================================================
