---------------------------- MODULE CopyPlan_proofs ----------------------------
(***************************************************************************)
(* What plan_actions returns, for every list of positions and every set of *)
(* rows: the folds of CopyPlan followed one token at a time.               *)
(***************************************************************************)
EXTENDS CopyPlan, FoldFacts, TLAPS

PlannedKinds == {"open", "increase", "decrease", "close", "resolve", "reanchor"}
PlannedOver(R) == [kind: PlannedKinds, tok: Tokens, amt: Nat, anchor: Nat, row: R]
PlanStates(R) == [left: Int, cash: Int, count: Int, acts: Seq(PlannedOver(R))]

\* Rows hold numbers; the inputs of a plan over such rows.
RowsOver(R) == \A r \in R : r.shares \in Nat /\ r.anchor \in Nat
InputOver(in, R) ==
    /\ in.rows \in [Tokens -> R] /\ in.pos \in [Tokens -> Positions] /\ in.cash \in Nat
    /\ in.mode \in {"position", "capital"} /\ in.leaderCash \in Nat \cup {Unknown}
    /\ in.blocked \in BOOLEAN

-----------------------------------------------------------------------------
(* Arithmetic.                                                             *)

LEMMA Quotient ==
    ASSUME NEW a \in Int, NEW b \in Nat, b > 0
    PROVE  a \div b \in Int /\ (a >= 0 => a \div b \in Nat)
OBVIOUS

LEMMA Fraction ==
    ASSUME NEW a \in Nat, NEW c \in Nat, NEW b \in Nat, b > 0, c <= b
    PROVE  (a * c) \div b <= a
<1> DEFINE q == (a * c) \div b
<1>1. a * c \in Nat /\ a * b \in Nat
  OBVIOUS
<1>2. q \in Nat /\ q * b <= a * c
  BY <1>1
<1>3. a * c <= a * b
  OBVIOUS
<1> HIDE DEF q
<1>4. q * b <= a * b
  BY <1>1, <1>2, <1>3
<1>5. q <= a
  BY <1>2, <1>4
<1> QED
  BY <1>5 DEF q

LEMMA Product ==
    ASSUME NEW a \in Int, NEW b \in Int
    PROVE  a * b \in Int /\ (a >= 0 /\ b >= 0 => a * b \in Nat)
OBVIOUS

LEMMA LeastOfThree ==
    ASSUME NEW a \in Int, NEW b \in Int, NEW c \in Int
    PROVE  /\ Min({a, b, c}) \in Int
           /\ Min({a, b, c}) <= a /\ Min({a, b, c}) <= b /\ Min({a, b, c}) <= c
<1>1. \E x \in {a, b, c} : \A y \in {a, b, c} : x <= y
  OBVIOUS
<1> QED
  BY <1>1 DEF Min

LEMMA LeastOfTwo ==
    ASSUME NEW a \in Int, NEW b \in Int
    PROVE  Min({a, b}) \in {a, b} /\ Min({a, b}) <= a /\ Min({a, b}) <= b
<1>1. \E x \in {a, b} : \A y \in {a, b} : x <= y
  OBVIOUS
<1> QED
  BY <1>1 DEF Min

LEMMA GreatestOfTwo ==
    ASSUME NEW a \in Int, NEW b \in Int
    PROVE  Max({a, b}) \in {a, b} /\ Max({a, b}) >= a /\ Max({a, b}) >= b
<1>1. \E x \in {a, b} : \A y \in {a, b} : x >= y
  OBVIOUS
<1> QED
  BY <1>1 DEF Max

-----------------------------------------------------------------------------
(* One token's part of a plan.                                             *)

\* A BUY is paid from the budget and stays within the limits per position and on the
\* number of positions.
Affordable(in, st, a) ==
    /\ a.amt > 0 /\ a.amt <= st.left
    /\ a.kind = "open" => st.count < Settings.maxOpen /\ a.amt <= Settings.maxPos
                          /\ ~Tracked(in.rows[a.tok])
    /\ a.kind = "increase" => a.amt + in.rows[a.tok].shares <= Settings.maxPos
                              /\ Tracked(in.rows[a.tok])

\* A step of a plan adds one action for the token, or none; a trim leaves no less than
\* nothing.
Adds(in, R, st, t, next) ==
    \E a \in PlannedOver(R) :
       /\ a.tok = t /\ a.row = in.rows[t]
       /\ a.kind = "decrease" => a.amt <= in.rows[t].shares
       /\ \/ next = Plan(st, a) /\ ~IsBuy(a)
          \/ next = Buy(st, a) /\ IsBuy(a) /\ Affordable(in, st, a)
PlanStep(in, R, st, t, next) == next = st \/ Adds(in, R, st, t, next)

LEMMA Targets ==
    ASSUME NEW R, RowsOver(R), NEW in, InputOver(in, R), NEW st \in PlanStates(R), NEW t \in Tokens
    PROVE  /\ MayOpen(in, st, t) => OpenAmount(in, st, t) \in Int
           /\ MayOpen(in, st, t) => OpenAmount(in, st, t) <= st.left
           /\ MayOpen(in, st, t) => OpenAmount(in, st, t) <= Settings.maxPos
<1> SUFFICES ASSUME MayOpen(in, st, t)
             PROVE  /\ OpenAmount(in, st, t) \in Int
                    /\ OpenAmount(in, st, t) <= st.left
                    /\ OpenAmount(in, st, t) <= Settings.maxPos
  OBVIOUS
<1> DEFINE size == in.pos[t].size
           target == IF in.mode = "capital" THEN CashShare(size, in.leaderCash, st.cash)
                     ELSE size * Settings.ratio
<1>1. /\ size \in Nat /\ Settings.ratio \in Nat /\ Settings.maxPos \in Nat
      /\ st.left \in Int /\ st.cash \in Int
  BY SettingsAssumption DEF InputOver, Positions, PlanStates, SettingsType
<1>2. target \in Int
  <2>1. CASE in.mode = "capital"
    <3>1. size > 0 /\ in.leaderCash \in Nat
      BY <2>1 DEF MayOpen, Weighed, InputOver
    <3>2. size * st.cash * Settings.ratio \in Int
      BY <1>1, Product
    <3>3. in.leaderCash + size \in Nat /\ in.leaderCash + size > 0
      BY <1>1, <3>1
    <3> HIDE DEF size
    <3>4. (size * st.cash * Settings.ratio) \div (in.leaderCash + size) \in Int
      BY <3>2, <3>3, Quotient
    <3> QED
      BY <2>1, <3>4 DEF CashShare
  <2>2. CASE in.mode # "capital"
    <3> HIDE DEF size
    <3> QED
      BY <1>1, <2>2, Product
  <2> QED
    BY <2>1, <2>2
<1>3. OpenAmount(in, st, t) = Min({target, Settings.maxPos, st.left})
  BY DEF OpenAmount
<1> HIDE DEF target, size
<1>4. /\ Min({target, Settings.maxPos, st.left}) \in Int
      /\ Min({target, Settings.maxPos, st.left}) <= Settings.maxPos
      /\ Min({target, Settings.maxPos, st.left}) <= st.left
  <2>1. Settings.maxPos \in Int /\ st.left \in Int
    BY <1>1
  <2> QED
    BY <1>2, <2>1, LeastOfThree
<1> QED
  BY <1>3, <1>4

LEMMA Growths ==
    ASSUME NEW R, RowsOver(R), NEW in, InputOver(in, R), NEW st \in PlanStates(R), NEW t \in Tokens,
           Grew(in.pos[t], in.rows[t]),
           in.mode = "capital" /\ ~in.blocked =>
              Weighed(in.pos[t].size - Base(in.pos[t], in.rows[t]), in.leaderCash)
    PROVE  /\ IncreaseAmount(in, st, t) \in Int
           /\ WorthIt(IncreaseAmount(in, st, t)) =>
                 /\ IncreaseAmount(in, st, t) <= st.left
                 /\ IncreaseAmount(in, st, t) + in.rows[t].shares <= Settings.maxPos
<1> DEFINE size == in.pos[t].size
           base == Base(in.pos[t], in.rows[t])
           shares == in.rows[t].shares
           target == IF in.mode = "capital" THEN CashShare(size - base, in.leaderCash, st.cash)
                     ELSE (shares * (size - base)) \div base
<1>1. /\ size \in Nat /\ shares \in Nat /\ Settings.ratio \in Nat /\ Settings.maxPos \in Nat
      /\ st.left \in Int /\ st.cash \in Int
  BY SettingsAssumption DEF InputOver, Positions, PlanStates, SettingsType, RowsOver
<1>2. base \in Nat /\ base > 0 /\ size - base \in Nat
  <2>1. in.rows[t].anchor \in Nat
    BY DEF InputOver, RowsOver
  <2>2. base = (IF in.rows[t].anchor > 0 THEN in.rows[t].anchor ELSE size) /\ 4 * size > 5 * base
    BY DEF Base, Grew
  <2> HIDE DEF base, size
  <2> QED
    BY <1>1, <2>1, <2>2
<1>3. ASSUME ~in.blocked PROVE target \in Int
  <2>1. CASE in.mode = "capital"
    <3>1. size - base > 0 /\ in.leaderCash \in Nat
      BY <1>3, <2>1 DEF Weighed, InputOver
    <3> HIDE DEF size, base
    <3>2. (size - base) * st.cash * Settings.ratio \in Int
      BY <1>1, <1>2, Product
    <3>3. in.leaderCash + (size - base) \in Nat /\ in.leaderCash + (size - base) > 0
      BY <1>1, <1>2, <3>1
    <3>4. ((size - base) * st.cash * Settings.ratio) \div (in.leaderCash + (size - base)) \in Int
      BY <3>2, <3>3, Quotient
    <3> QED
      BY <2>1, <3>4 DEF CashShare
  <2>2. CASE in.mode # "capital"
    <3> HIDE DEF size, base, shares
    <3>1. shares * (size - base) \in Int
      BY <1>1, <1>2, Product
    <3> QED
      BY <1>2, <2>2, <3>1, Quotient
  <2> QED
    BY <2>1, <2>2
<1>4. IncreaseAmount(in, st, t) = IF in.blocked THEN 0
                                  ELSE Min({target, st.left, Settings.maxPos - shares})
  BY DEF IncreaseAmount
<1> HIDE DEF target, size, base, shares
<1>5. CASE in.blocked
  <2>1. IncreaseAmount(in, st, t) = 0
    BY <1>4, <1>5
  <2> QED
    BY <2>1 DEF WorthIt
<1>6. CASE ~in.blocked
  <2>1. st.left \in Int /\ Settings.maxPos - shares \in Int /\ target \in Int
    BY <1>1, <1>3, <1>6
  <2>2. LET m == Min({target, st.left, Settings.maxPos - shares})
        IN  m \in Int /\ m <= st.left /\ m <= Settings.maxPos - shares
    BY <2>1, LeastOfThree
  <2>3. IncreaseAmount(in, st, t) = Min({target, st.left, Settings.maxPos - shares})
    BY <1>4, <1>6
  <2> DEFINE m == Min({target, st.left, Settings.maxPos - shares})
  <2>4. m \in Int /\ m <= st.left /\ m + shares <= Settings.maxPos
    BY <1>1, <2>1, <2>2
  <2> HIDE DEF m
  <2>5. IncreaseAmount(in, st, t) = m
    BY <2>3 DEF m
  <2> QED
    BY <2>4, <2>5 DEF shares
<1> QED
  BY <1>5, <1>6

LEMMA Trims ==
    ASSUME NEW R, RowsOver(R), NEW in, InputOver(in, R), NEW t \in Tokens,
           Shrank(in.pos[t], in.rows[t])
    PROVE  LET base == Base(in.pos[t], in.rows[t])
           IN  /\ (in.rows[t].shares * (base - in.pos[t].size)) \div base \in Nat
               /\ (in.rows[t].shares * (base - in.pos[t].size)) \div base <= in.rows[t].shares
<1> DEFINE size == in.pos[t].size
           base == Base(in.pos[t], in.rows[t])
           shares == in.rows[t].shares
<1>1. size \in Nat /\ shares \in Nat /\ in.rows[t].anchor \in Nat
  BY DEF InputOver, Positions, RowsOver
<1>2. base = (IF in.rows[t].anchor > 0 THEN in.rows[t].anchor ELSE size) /\ 4 * size < 3 * base
  BY DEF Base, Shrank
<1> HIDE DEF base, size, shares
<1>3. base \in Nat /\ base > 0 /\ base - size \in Nat /\ base - size <= base
  BY <1>1, <1>2
<1>4. shares * (base - size) \in Nat
  BY <1>1, <1>3, Product
<1>5. (shares * (base - size)) \div base \in Nat
  BY <1>3, <1>4, Quotient
<1>6. (shares * (base - size)) \div base <= shares
  BY <1>1, <1>3, Fraction
<1> QED
  BY <1>5, <1>6 DEF base, size, shares

LEMMA PlanHeldStep ==
    ASSUME NEW R, RowsOver(R), NEW in, InputOver(in, R), NEW st \in PlanStates(R), NEW t \in Tokens
    PROVE  PlanStep(in, R, st, t, PlanHeld(in, st, t))
<1> DEFINE p == in.pos[t]
           row == in.rows[t]
           next == PlanHeld(in, st, t)
<1>1. /\ p \in Positions /\ row \in R /\ p.size \in Nat
      /\ p.redeemable \in BOOLEAN /\ st.left \in Int
  BY DEF InputOver, Positions, PlanStates
<1>2. \A kind \in PlannedKinds, amt \in Nat, anchor \in Nat :
         /\ Action(kind, t, amt, anchor, row) \in PlannedOver(R)
         /\ Action(kind, t, amt, anchor, row).tok = t
         /\ Action(kind, t, amt, anchor, row).row = row
         /\ Action(kind, t, amt, anchor, row).kind = kind
         /\ Action(kind, t, amt, anchor, row).amt = amt
  BY <1>1 DEF Action, PlannedOver
<1>3. ASSUME NEW kind \in PlannedKinds, kind \notin {"open", "increase"}, NEW amt \in Nat, NEW anchor \in Nat,
             kind = "decrease" => amt <= row.shares
      PROVE  Adds(in, R, st, t, Plan(st, Action(kind, t, amt, anchor, row)))
  <2> DEFINE a == Action(kind, t, amt, anchor, row)
  <2>1. /\ a \in PlannedOver(R) /\ a.tok = t /\ a.row = row /\ ~IsBuy(a)
        /\ a.kind = "decrease" => a.amt <= row.shares
    BY <1>2, <1>3 DEF IsBuy
  <2> HIDE DEF a
  <2>2. Adds(in, R, st, t, Plan(st, a))
    BY <2>1 DEF Adds
  <2> QED
    BY <2>2 DEF a
<1>4. CASE p.size = 0
  BY <1>1, <1>4 DEF PlanHeld, PlanStep
<1> DEFINE held == p.size > 0
<1>5. CASE held /\ p.redeemable
  <2>1. next = IF Tracked(row) THEN Plan(st, Action("resolve", t, 0, 0, row)) ELSE st
    BY <1>1, <1>5 DEF PlanHeld
  <2>2. Adds(in, R, st, t, Plan(st, Action("resolve", t, 0, 0, row)))
    BY <1>3 DEF PlannedKinds
  <2> QED
    BY <2>1, <2>2 DEF PlanStep
<1>6. CASE held /\ ~p.redeemable /\ ~Tracked(row)
  <2> DEFINE amt == OpenAmount(in, st, t)
             a == Action("open", t, amt, p.size, row)
  <2>1. next = PlanNew(in, st, t)
    BY <1>1, <1>6 DEF PlanHeld
  <2>2. next = IF MayOpen(in, st, t) /\ WorthIt(amt) THEN Buy(st, a) ELSE st
    BY <2>1 DEF PlanNew
  <2>3. ASSUME MayOpen(in, st, t), WorthIt(amt)
        PROVE  a \in PlannedOver(R) /\ a.tok = t /\ a.row = row /\ IsBuy(a) /\ Affordable(in, st, a)
    <3>1. amt \in Int /\ amt <= st.left /\ amt <= Settings.maxPos /\ amt > 0
      BY <2>3, Targets DEF WorthIt
    <3>2. amt \in Nat
      BY <3>1
    <3>3. /\ a \in PlannedOver(R) /\ a.tok = t /\ a.row = row /\ a.kind = "open" /\ a.amt = amt
      BY <1>1, <1>2, <3>2 DEF PlannedKinds
    <3>4. st.count < Settings.maxOpen
      BY <2>3 DEF MayOpen
    <3> HIDE DEF a, amt
    <3> QED
      BY <1>6, <3>1, <3>3, <3>4 DEF Affordable, IsBuy
  <2> SUFFICES PlanStep(in, R, st, t, next)
    OBVIOUS
  <2> HIDE DEF a, amt, next
  <2>4. CASE MayOpen(in, st, t) /\ WorthIt(amt)
    <3>1. next = Buy(st, a)
      BY <2>2, <2>4
    <3> QED
      BY <2>3, <2>4, <3>1 DEF PlanStep, Adds, IsBuy
  <2>5. CASE ~(MayOpen(in, st, t) /\ WorthIt(amt))
    BY <2>2, <2>5 DEF PlanStep
  <2> QED
    BY <2>4, <2>5
<1>7. CASE held /\ ~p.redeemable /\ Tracked(row) /\ Grew(p, row)
  <2> DEFINE amt == IncreaseAmount(in, st, t)
             a == Action("increase", t, amt, p.size, row)
             blind == in.mode = "capital" /\ ~in.blocked /\ ~Weighed(p.size - Base(p, row), in.leaderCash)
  <2>1. next = PlanGrowth(in, st, t)
    <3>1. ~Shrank(p, row)
      <4>1. Base(p, row) \in Nat
        BY <1>1 DEF Base, RowsOver
      <4> HIDE DEF p, row
      <4> QED
        BY <1>1, <1>7, <4>1 DEF Grew, Shrank
    <3> QED
      BY <1>1, <1>7, <3>1 DEF PlanHeld
  <2>2. next = IF blind THEN st ELSE IF WorthIt(amt) THEN Buy(st, a)
               ELSE Plan(st, Action("reanchor", t, 0, p.size, row))
    BY <2>1 DEF PlanGrowth
  <2>3. Adds(in, R, st, t, Plan(st, Action("reanchor", t, 0, p.size, row)))
    BY <1>1, <1>3 DEF PlannedKinds
  <2>4. ASSUME ~blind, WorthIt(amt)
        PROVE  a \in PlannedOver(R) /\ a.tok = t /\ a.row = row /\ IsBuy(a) /\ Affordable(in, st, a)
    <3>1. /\ amt \in Int /\ amt <= st.left /\ amt + row.shares <= Settings.maxPos /\ amt > 0
      BY <1>7, <2>4, Growths DEF WorthIt
    <3>2. amt \in Nat /\ Tracked(row)
      BY <1>7, <3>1
    <3>3. /\ a \in PlannedOver(R) /\ a.tok = t /\ a.row = row /\ a.kind = "increase" /\ a.amt = amt
      BY <1>1, <1>2, <3>2 DEF PlannedKinds
    <3> HIDE DEF a, amt
    <3> QED
      BY <3>1, <3>2, <3>3 DEF Affordable, IsBuy
  <2> SUFFICES PlanStep(in, R, st, t, next)
    OBVIOUS
  <2> HIDE DEF a, amt, next, blind
  <2>5. CASE ~blind /\ WorthIt(amt)
    <3>1. next = Buy(st, a)
      BY <2>2, <2>5
    <3> QED
      BY <2>4, <2>5, <3>1 DEF PlanStep, Adds, IsBuy
  <2>6. CASE blind \/ ~WorthIt(amt)
    BY <2>2, <2>3, <2>6 DEF PlanStep
  <2> QED
    BY <2>5, <2>6
<1>8. CASE held /\ ~p.redeemable /\ Tracked(row) /\ Shrank(p, row)
  <2> DEFINE amt == (row.shares * (Base(p, row) - p.size)) \div Base(p, row)
  <2>1. next = PlanTrim(in, st, t)
    <3>1. ~Grew(p, row)
      <4>1. Base(p, row) \in Nat
        BY <1>1 DEF Base, RowsOver
      <4> HIDE DEF p, row
      <4> QED
        BY <1>1, <1>8, <4>1 DEF Grew, Shrank
    <3> QED
      BY <1>1, <1>8, <3>1 DEF PlanHeld
  <2>2. next = Plan(st, Action("decrease", t, amt, p.size, row))
    BY <2>1 DEF PlanTrim
  <2>3. amt \in Nat /\ amt <= row.shares
    BY <1>8, Trims
  <2> HIDE DEF amt
  <2>4. Adds(in, R, st, t, Plan(st, Action("decrease", t, amt, p.size, row)))
    BY <1>1, <1>3, <2>3 DEF PlannedKinds
  <2> QED
    BY <2>2, <2>4 DEF PlanStep
<1>9. CASE held /\ ~p.redeemable /\ Tracked(row) /\ ~Grew(p, row) /\ ~Shrank(p, row)
  BY <1>1, <1>9 DEF PlanHeld, PlanStep
<1> QED
  BY <1>1, <1>4, <1>5, <1>6, <1>7, <1>8, <1>9

LEMMA PlanGoneStep ==
    ASSUME NEW R, RowsOver(R), NEW in, InputOver(in, R), NEW st, NEW t \in Tokens
    PROVE  PlanStep(in, R, st, t, PlanGone(in, st, t))
<1> DEFINE row == in.rows[t]
           a == Action("close", t, row.shares, 0, row)
<1>1. a \in PlannedOver(R) /\ a.tok = t /\ a.row = row /\ ~IsBuy(a) /\ a.kind # "decrease"
  BY DEF Action, PlannedOver, PlannedKinds, RowsOver, InputOver, IsBuy
<1>2. PlanGone(in, st, t) = st \/ PlanGone(in, st, t) = Plan(st, a)
  BY DEF PlanGone
<1> HIDE DEF a
<1> QED
  BY <1>1, <1>2 DEF PlanStep, Adds

LEMMA BuyTakes ==
    ASSUME NEW R, NEW st \in PlanStates(R), NEW a
    PROVE  Buy(st, a) = [left |-> st.left - a.amt, cash |-> st.cash - a.amt,
                         count |-> IF a.kind = "open" THEN st.count + 1 ELSE st.count,
                         acts |-> Append(st.acts, a)]
<1>1. st = [left |-> st.left, cash |-> st.cash, count |-> st.count, acts |-> st.acts]
  BY DEF PlanStates
<1> DEFINE acts == Append(st.acts, a)
           left == st.left - a.amt
           money == st.cash - a.amt
           count == IF a.kind = "open" THEN st.count + 1 ELSE st.count
<1>2. Buy(st, a) = [st EXCEPT !.acts = acts, !.left = left, !.cash = money, !.count = count]
  BY DEF Buy, PlanStates
<1> HIDE DEF acts, left, money, count
<1>3. Buy(st, a) = [left |-> left, cash |-> money, count |-> count, acts |-> acts]
  BY <1>1, <1>2 DEF PlanStates
<1> QED
  BY <1>3 DEF acts, left, money, count

LEMMA PlanStepTyped ==
    ASSUME NEW R, NEW in, NEW st \in PlanStates(R), NEW t, NEW next, PlanStep(in, R, st, t, next)
    PROVE  next \in PlanStates(R)
<1>1. CASE next = st
  BY <1>1
<1>2. CASE Adds(in, R, st, t, next)
  <2>1. PICK a \in PlannedOver(R) : next = Plan(st, a) \/ next = Buy(st, a)
    BY <1>2 DEF Adds
  <2>2. Append(st.acts, a) \in Seq(PlannedOver(R))
    BY DEF PlanStates
  <2>3. a.amt \in Int /\ st.left \in Int /\ st.cash \in Int /\ st.count \in Int
    BY DEF PlanStates, PlannedOver
  <2>4. Plan(st, a) \in PlanStates(R)
    BY <2>2 DEF PlanStates, Plan
  <2>5. Buy(st, a) \in PlanStates(R)
    <3>1. (IF a.kind = "open" THEN st.count + 1 ELSE st.count) \in Int
      BY <2>3
    <3> QED
      <4> DEFINE count == IF a.kind = "open" THEN st.count + 1 ELSE st.count
      <4>1. Buy(st, a) = [left |-> st.left - a.amt, cash |-> st.cash - a.amt, count |-> count,
                          acts |-> Append(st.acts, a)]
        BY BuyTakes
      <4>2. count \in Int
        BY <3>1
      <4> HIDE DEF count
      <4> QED
        BY <2>2, <2>3, <4>1, <4>2 DEF PlanStates
  <2> QED
    BY <2>1, <2>4, <2>5
<1> QED
  BY <1>1, <1>2 DEF PlanStep

-----------------------------------------------------------------------------
(* The whole plan.                                                         *)

\* The tokens on the leader's list.
Listed(in) == {t \in Tokens : in.pos[t].size > 0}

\* What the plan adds for one token, on the leader's list or off it.
ForToken(in, st, t) == IF t \in Listed(in) THEN PlanHeld(in, st, t) ELSE PlanGone(in, st, t)

\* The plan states g goes through over the tokens of s, adding actions for tokens of T only.
Goes(in, R, T, s, g) ==
    \A i \in 1..Len(s) : /\ PlanStep(in, R, g[i - 1], s[i], g[i])
                         /\ g[i] = IF s[i] \in T THEN ForToken(in, g[i - 1], s[i]) ELSE g[i - 1]
Passes(in, R, T, b, s, result) ==
    \E g \in [0..Len(s) -> PlanStates(R)] :
       g[0] = b /\ g[Len(s)] = result /\ Goes(in, R, T, s, g)

\* The leader's list brings no action for a token that is not on it, the rest of the plan
\* none for a token that is.
LEMMA OnlyListed ==
    ASSUME NEW R, NEW in, InputOver(in, R), NEW st, NEW t \in Tokens
    PROVE  /\ t \notin Listed(in) => PlanHeld(in, st, t) = st
           /\ t \in Listed(in) => PlanGone(in, st, t) = st
<1>1. in.pos[t].size \in Nat
  BY DEF InputOver, Positions
<1>2. ASSUME t \notin Listed(in) PROVE in.pos[t].size = 0
  BY <1>1, <1>2 DEF Listed
<1>3. t \notin Listed(in) => PlanHeld(in, st, t) = st
  BY <1>2 DEF PlanHeld
<1> QED
  BY <1>1, <1>3 DEF Listed, PlanGone

LEMMA FollowedPasses ==
    ASSUME NEW R, RowsOver(R), NEW in, InputOver(in, R), NEW s \in Seq(Tokens),
           Budget(in) \in PlanStates(R)
    PROVE  Passes(in, R, Listed(in), Budget(in), s, Followed(in, s))
<1> DEFINE n == Len(s)
           b == Budget(in)
           V == PlanStates(R)
           G == [p \in V \X Tokens |-> PlanHeld(in, p[1], p[2])]
           P(h) == h = [r \in SUBSET (DOMAIN s) |->
                          IF r = {} THEN b ELSE PlanHeld(in, h[r \ {Max(r)}], s[Max(r)])]
<1>1. n \in Nat /\ DOMAIN s = 1..n /\ s \in [1..n -> Tokens]
  OBVIOUS
<1>2. \A st \in V, t \in Tokens : G[<<st, t>>] = PlanHeld(in, st, t)
  OBVIOUS
<1>3. G \in [V \X Tokens -> V]
  BY PlanHeldStep, PlanStepTyped
<1>4. Followed(in, s) = (CHOOSE h : P(h))[DOMAIN s]
  BY DEF Followed, FoldLeft, MapThenFoldSet
<1> HIDE DEF G, V, b
<1>5. \E h : P(h)
  <2>1. PICK h \in [SUBSET (1..n) -> V] : Folds(G, b, n, s, h)
    <3>1. b \in V
      BY DEF b, V
    <3>2. n \in Nat /\ s \in [1..n -> Tokens]
      BY <1>1
    <3> HIDE DEF P, n
    <3> QED
      BY <1>3, <3>1, <3>2, FoldExists DEF Computable
  <2>2. \A r \in SUBSET (1..n) : r # {} =>
           G[<<h[r \ {Max(r)}], s[Max(r)]>>] = PlanHeld(in, h[r \ {Max(r)}], s[Max(r)])
    <3> TAKE r \in SUBSET (1..n)
    <3> HAVE r # {}
    <3>1. Max(r) \in 1..n
      BY <1>1, MaxOfPlaces
    <3>2. h[r \ {Max(r)}] \in V /\ s[Max(r)] \in Tokens
      BY <1>1, <3>1
    <3> QED
      BY <1>2, <3>2
  <2>3. h = [r \in SUBSET (DOMAIN s) |->
               IF r = {} THEN b ELSE PlanHeld(in, h[r \ {Max(r)}], s[Max(r)])]
    BY <1>1, <2>1, <2>2 DEF Folds
  <2> QED
    BY <2>3
<1>6. P(CHOOSE h : P(h))
  <2> HIDE DEF P
  <2> QED
    BY <1>5
<1>7. PICK h : P(h) /\ Followed(in, s) = h[1..n]
  BY <1>1, <1>4, <1>6
<1>8. FoldsUp(G, V, b, n, s, h)
  <2>1. h[{}] = b
    BY <1>7
  <2>2. ASSUME NEW r \in SUBSET (1..n), r # {}, h[r \ {Max(r)}] \in V
        PROVE  h[r] = G[<<h[r \ {Max(r)}], s[Max(r)]>>]
    <3>1. h[r] = PlanHeld(in, h[r \ {Max(r)}], s[Max(r)])
      BY <1>1, <1>7, <2>2
    <3>2. Max(r) \in 1..n
      BY <1>1, <2>2, MaxOfPlaces
    <3>3. s[Max(r)] \in Tokens
      BY <1>1, <3>2
    <3> QED
      BY <1>2, <2>2, <3>1, <3>3
  <2> HIDE DEF P
  <2> QED
    BY <2>1, <2>2 DEF FoldsUp
<1>9. PICK g \in [0..n -> V] : Trace(G, b, n, s, g) /\ g[n] = h[1..n]
  <2> HIDE DEF P, n
  <2>1. b \in V
    BY DEF b, V
  <2> QED
    <3>1. n \in Nat /\ s \in [1..n -> Tokens]
      BY <1>1
    <3>2. Traced(G, V, b, n, s, h[1..n])
      BY <1>3, <1>8, <2>1, <3>1, FoldTrace
    <3> QED
      BY <3>2 DEF Traced
<1>10. \A i \in 1..n : /\ PlanStep(in, R, g[i - 1], s[i], g[i])
                       /\ g[i] = IF s[i] \in Listed(in) THEN ForToken(in, g[i - 1], s[i])
                                 ELSE g[i - 1]
  <2> TAKE i \in 1..n
  <2>1. i - 1 \in 0..n /\ g[i - 1] \in V /\ s[i] \in Tokens
    BY <1>1
  <2>2. g[i] = PlanHeld(in, g[i - 1], s[i])
    BY <1>2, <1>9, <2>1 DEF Trace
  <2> QED
    BY <2>1, <2>2, PlanHeldStep, OnlyListed DEF V, ForToken
<1>11. g[0] = b /\ g[n] = Followed(in, s)
  BY <1>7, <1>9 DEF Trace
<1> QED
  BY <1>9, <1>10, <1>11 DEF Passes, Goes, b, V

LEMMA GonePasses ==
    ASSUME NEW R, RowsOver(R), NEW in, InputOver(in, R), NEW s \in Seq(Tokens),
           Followed(in, s) \in PlanStates(R)
    PROVE  Passes(in, R, Tokens \ Listed(in), Followed(in, s), s, Planned(in, s))
<1> DEFINE n == Len(s)
           b == Followed(in, s)
           V == PlanStates(R)
           G == [p \in V \X Tokens |-> PlanGone(in, p[1], p[2])]
           P(h) == h = [r \in SUBSET (DOMAIN s) |->
                          IF r = {} THEN b ELSE PlanGone(in, h[r \ {Max(r)}], s[Max(r)])]
<1>1. n \in Nat /\ DOMAIN s = 1..n /\ s \in [1..n -> Tokens]
  OBVIOUS
<1>2. \A st \in V, t \in Tokens : G[<<st, t>>] = PlanGone(in, st, t)
  OBVIOUS
<1>3. G \in [V \X Tokens -> V]
  BY PlanGoneStep, PlanStepTyped
<1>4. Planned(in, s) = (CHOOSE h : P(h))[DOMAIN s]
  BY DEF Planned, FoldLeft, MapThenFoldSet
<1> HIDE DEF G, V, b
<1>5. \E h : P(h)
  <2>1. PICK h \in [SUBSET (1..n) -> V] : Folds(G, b, n, s, h)
    <3>1. b \in V
      BY DEF b, V
    <3>2. n \in Nat /\ s \in [1..n -> Tokens]
      BY <1>1
    <3> HIDE DEF P, n
    <3> QED
      BY <1>3, <3>1, <3>2, FoldExists DEF Computable
  <2>2. \A r \in SUBSET (1..n) : r # {} =>
           G[<<h[r \ {Max(r)}], s[Max(r)]>>] = PlanGone(in, h[r \ {Max(r)}], s[Max(r)])
    <3> TAKE r \in SUBSET (1..n)
    <3> HAVE r # {}
    <3>1. Max(r) \in 1..n
      BY <1>1, MaxOfPlaces
    <3>2. h[r \ {Max(r)}] \in V /\ s[Max(r)] \in Tokens
      BY <1>1, <3>1
    <3> QED
      BY <1>2, <3>2
  <2>3. h = [r \in SUBSET (DOMAIN s) |->
               IF r = {} THEN b ELSE PlanGone(in, h[r \ {Max(r)}], s[Max(r)])]
    BY <1>1, <2>1, <2>2 DEF Folds
  <2> QED
    BY <2>3
<1>6. P(CHOOSE h : P(h))
  <2> HIDE DEF P
  <2> QED
    BY <1>5
<1>7. PICK h : P(h) /\ Planned(in, s) = h[1..n]
  BY <1>1, <1>4, <1>6
<1>8. FoldsUp(G, V, b, n, s, h)
  <2>1. h[{}] = b
    BY <1>7
  <2>2. ASSUME NEW r \in SUBSET (1..n), r # {}, h[r \ {Max(r)}] \in V
        PROVE  h[r] = G[<<h[r \ {Max(r)}], s[Max(r)]>>]
    <3>1. h[r] = PlanGone(in, h[r \ {Max(r)}], s[Max(r)])
      BY <1>1, <1>7, <2>2
    <3>2. Max(r) \in 1..n
      BY <1>1, <2>2, MaxOfPlaces
    <3>3. s[Max(r)] \in Tokens
      BY <1>1, <3>2
    <3> QED
      BY <1>2, <2>2, <3>1, <3>3
  <2> HIDE DEF P
  <2> QED
    BY <2>1, <2>2 DEF FoldsUp
<1>9. PICK g \in [0..n -> V] : Trace(G, b, n, s, g) /\ g[n] = h[1..n]
  <2> HIDE DEF P, n
  <2>1. b \in V
    BY DEF b, V
  <2> QED
    <3>1. n \in Nat /\ s \in [1..n -> Tokens]
      BY <1>1
    <3>2. Traced(G, V, b, n, s, h[1..n])
      BY <1>3, <1>8, <2>1, <3>1, FoldTrace
    <3> QED
      BY <3>2 DEF Traced
<1>10. \A i \in 1..n : /\ PlanStep(in, R, g[i - 1], s[i], g[i])
                       /\ g[i] = IF s[i] \in Tokens \ Listed(in) THEN ForToken(in, g[i - 1], s[i])
                                 ELSE g[i - 1]
  <2> TAKE i \in 1..n
  <2>1. i - 1 \in 0..n /\ g[i - 1] \in V /\ s[i] \in Tokens
    BY <1>1
  <2>2. g[i] = PlanGone(in, g[i - 1], s[i])
    BY <1>2, <1>9, <2>1 DEF Trace
  <2> QED
    BY <2>1, <2>2, PlanGoneStep, OnlyListed DEF V, ForToken
<1>11. g[0] = b /\ g[n] = Planned(in, s)
  BY <1>7, <1>9 DEF Trace
<1> QED
  BY <1>9, <1>10, <1>11 DEF Passes, Goes, b, V

\* The sum of the shares is a number.
LEMMA OutlayTyped ==
    ASSUME NEW R, RowsOver(R), NEW rows \in [Tokens -> R]
    PROVE  Outlay(rows) \in Nat
<1> DEFINE S == {t \in Tokens : Tracked(rows[t])}
           F == [t \in S |-> rows[t].shares]
           P(h) == h = [s \in SUBSET S |->
                          IF s = {} THEN 0
                          ELSE rows[CHOOSE x \in s : TRUE].shares + h[s \ {CHOOSE x \in s : TRUE}]]
<1>1. IsFiniteSet(S) /\ F \in [S -> Nat]
  BY FS_Subset, SettingsAssumption DEF RowsOver
<1>2. \A h : SumsUp(F, S, h) <=> P(h)
  <2>1. \A s \in SUBSET S : s # {} => F[CHOOSE x \in s : TRUE] = rows[CHOOSE x \in s : TRUE].shares
    <3>1. \A s \in SUBSET S : s # {} => (CHOOSE x \in s : TRUE) \in S
      OBVIOUS
    <3>2. \A x \in S : F[x] = rows[x].shares
      OBVIOUS
    <3> HIDE DEF F, S
    <3> QED
      BY <3>1, <3>2
  <2> SUFFICES ASSUME NEW h PROVE SumsUp(F, S, h) <=> P(h)
    OBVIOUS
  <2> DEFINE VF == [s \in SUBSET S |->
                      IF s = {} THEN 0 ELSE F[CHOOSE x \in s : TRUE] + h[s \ {CHOOSE x \in s : TRUE}]]
             VR == [s \in SUBSET S |->
                      IF s = {} THEN 0
                      ELSE rows[CHOOSE x \in s : TRUE].shares + h[s \ {CHOOSE x \in s : TRUE}]]
  <2>2. SumsUp(F, S, h) <=> h = VF
    BY Zenon DEF SumsUp, Pick
  <2>3. P(h) <=> h = VR
    OBVIOUS
  <2> HIDE DEF P, F, S
  <2>4. \A s \in SUBSET S :
           (IF s = {} THEN 0 ELSE F[CHOOSE x \in s : TRUE] + h[s \ {CHOOSE x \in s : TRUE}])
           = (IF s = {} THEN 0
              ELSE rows[CHOOSE x \in s : TRUE].shares + h[s \ {CHOOSE x \in s : TRUE}])
    BY <2>1
  <2>5. VF = VR
    BY <2>4
  <2> HIDE DEF VF, VR
  <2> QED
    BY <2>2, <2>3, <2>5
<1>3. Outlay(rows) = (CHOOSE h : P(h))[S]
  BY DEF Outlay, MapThenSumSet, MapThenFoldSet
<1>4. P(CHOOSE h : P(h))
  <2> HIDE DEF P, F, S
  <2>1. \E h : P(h)
    BY <1>1, <1>2, SumExists
  <2> QED
    BY <2>1
<1> HIDE DEF P, F, S
<1>5. PICK h : SumsUp(F, S, h) /\ Outlay(rows) = h[S]
  BY <1>2, <1>3, <1>4
<1> QED
  BY <1>1, <1>5, SumGrows

LEMMA BudgetTyped ==
    ASSUME NEW R, RowsOver(R), NEW in, InputOver(in, R)
    PROVE  /\ Budget(in) \in PlanStates(R)
           /\ Budget(in).acts = <<>> /\ Budget(in).left >= 0 /\ Budget(in).left <= in.cash
           /\ Budget(in).count = Cardinality({t \in Tokens : Tracked(in.rows[t])})
           /\ Budget(in).left > 0 => Outlay(in.rows) + Budget(in).left <= Settings.exposure
<1> DEFINE spare == Max({0, Settings.exposure - Outlay(in.rows)})
           left == Min({in.cash, spare})
           count == Cardinality({t \in Tokens : Tracked(in.rows[t])})
<1>1. /\ Outlay(in.rows) \in Nat /\ Settings.exposure \in Nat /\ in.cash \in Nat
      /\ Settings.exposure - Outlay(in.rows) \in Int
  BY OutlayTyped, SettingsAssumption DEF InputOver, SettingsType
<1>2. spare \in Int /\ spare \in {0, Settings.exposure - Outlay(in.rows)} /\ spare >= 0
  <2> DEFINE room == Settings.exposure - Outlay(in.rows)
  <2>1. room \in Int /\ 0 \in Int
    BY <1>1
  <2> HIDE DEF room
  <2>2. Max({0, room}) \in {0, room} /\ Max({0, room}) >= 0
    BY <2>1, GreatestOfTwo
  <2> QED
    BY <2>1, <2>2 DEF room
<1>3. left \in Int /\ left >= 0 /\ left <= in.cash /\ left <= spare
  <2> HIDE DEF spare
  <2>1. in.cash \in Int
    BY <1>1
  <2> QED
    BY <1>1, <1>2, <2>1, LeastOfTwo
<1>4. count \in Int
  BY FS_Subset, FS_CardinalityType, SettingsAssumption
<1>5. Budget(in) = [left |-> left, cash |-> in.cash, count |-> count, acts |-> <<>>]
  BY DEF Budget
<1>6. <<>> \in Seq(PlannedOver(R))
  OBVIOUS
<1> HIDE DEF spare, left, count
<1>7. Budget(in) \in PlanStates(R)
  BY <1>1, <1>3, <1>4, <1>5, <1>6 DEF PlanStates
<1>8. left > 0 => Outlay(in.rows) + left <= Settings.exposure
  BY <1>1, <1>2, <1>3
<1>9. Budget(in).count = Cardinality({t \in Tokens : Tracked(in.rows[t])})
  BY <1>5 DEF count
<1> QED
  BY <1>3, <1>5, <1>7, <1>8, <1>9

\* Whatever is planned is an order over the inputs' tokens and rows.
THEOREM PlanTyped ==
    ASSUME NEW R, RowsOver(R), NEW in, InputOver(in, R), NEW s \in Seq(Tokens)
    PROVE  PlanActions(in, s) \in Seq(PlannedOver(R))
<1>1. Len(s) \in Nat
  OBVIOUS
<1>2. ASSUME NEW T, NEW b, NEW result, Passes(in, R, T, b, s, result) PROVE result \in PlanStates(R)
  BY <1>1, <1>2 DEF Passes
<1>3. Followed(in, s) \in PlanStates(R)
  BY <1>2, BudgetTyped, FollowedPasses
<1>4. Planned(in, s) \in PlanStates(R)
  BY <1>2, <1>3, GonePasses
<1> QED
  BY <1>4 DEF PlanActions, PlanStates
=============================================================================
