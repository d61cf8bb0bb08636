---------------------------- MODULE CopyLoop_proofs ----------------------------
(***************************************************************************)
(* Whatever the leader holds, the orders of one plan fit the user's cash   *)
(* and limits together, and carrying them out leaves a book of whole rows  *)
(* and unspent dollars: the plan is followed order by order, through what  *)
(* its orders spend, how many copies they open and what they leave behind. *)
(***************************************************************************)
EXTENDS CopyLoop, CopyPlan_proofs, SequenceTheorems

\* The orders of a plan over the rows, and the book while they are carried out.
Orderings == PlannedOver(Rows)
Books == [rows: [Tokens -> [st: {"none", "open"}, shares: Int, anchor: Nat]], cash: Int]
Book == [rows |-> rows, cash |-> cash]

\* A row that is not open holds nothing.
NoneEmpty == \A t \in Tokens : rows[t].st = "none" => rows[t].shares = 0
LoopInv == TypeOK /\ NoneEmpty

-----------------------------------------------------------------------------
(* The folds of a plan's orders.                                           *)

SpendStep == [p \in Nat \X Orderings |-> IF IsBuy(p[2]) THEN p[1] + p[2].amt ELSE p[1]]
PerformStep == [p \in Books \X Orderings |-> Perform(p[1], p[2])]

LEMMA SpentFolds ==
    ASSUME NEW acts \in Seq(Orderings)
    PROVE  Traced(SpendStep, Nat, 0, Len(acts), acts, Spent(acts))
<1> DEFINE n == Len(acts)
           G == SpendStep
           Op(sum, a) == IF IsBuy(a) THEN sum + a.amt ELSE sum
           P(h) == h = [r \in SUBSET (DOMAIN acts) |->
                          IF r = {} THEN 0 ELSE Op(h[r \ {Max(r)}], acts[Max(r)])]
<1>1. n \in Nat /\ DOMAIN acts = 1..n /\ acts \in [1..n -> Orderings]
  BY LenProperties
<1>2. \A sum \in Nat, a \in Orderings : G[<<sum, a>>] = Op(sum, a)
  BY DEF SpendStep
<1>3. G \in [Nat \X Orderings -> Nat]
  <2>1. \A a \in Orderings : a.amt \in Nat
    BY DEF Orderings, PlannedOver
  <2> QED
    BY <2>1 DEF SpendStep
<1>4. Spent(acts) = (CHOOSE h : P(h))[DOMAIN acts]
  BY DEF Spent, FoldLeft, MapThenFoldSet
<1> HIDE DEF G, Op
<1>5. \E h : P(h)
  <2>1. PICK h \in [SUBSET (1..n) -> Nat] : Folds(G, 0, n, acts, h)
    <3> HIDE DEF P, n
    <3> QED
      BY <1>1, <1>3, FoldExists DEF Computable
  <2>2. \A r \in SUBSET (1..n) : r # {} =>
           G[<<h[r \ {Max(r)}], acts[Max(r)]>>] = Op(h[r \ {Max(r)}], acts[Max(r)])
    <3> TAKE r \in SUBSET (1..n)
    <3> HAVE r # {}
    <3>1. Max(r) \in 1..n
      BY <1>1, MaxOfPlaces
    <3>2. h[r \ {Max(r)}] \in Nat /\ acts[Max(r)] \in Orderings
      BY <1>1, <3>1
    <3> QED
      BY <1>2, <3>2
  <2>3. h = [r \in SUBSET (DOMAIN acts) |->
               IF r = {} THEN 0 ELSE Op(h[r \ {Max(r)}], acts[Max(r)])]
    BY <1>1, <2>1, <2>2 DEF Folds
  <2> QED
    BY <2>3
<1>6. P(CHOOSE h : P(h))
  <2> HIDE DEF P
  <2> QED
    BY <1>5
<1>7. PICK h : P(h) /\ Spent(acts) = h[1..n]
  BY <1>1, <1>4, <1>6
<1>8. FoldsUp(G, Nat, 0, n, acts, h)
  <2>1. h[{}] = 0
    BY <1>7
  <2>2. ASSUME NEW r \in SUBSET (1..n), r # {}, h[r \ {Max(r)}] \in Nat
        PROVE  h[r] = G[<<h[r \ {Max(r)}], acts[Max(r)]>>]
    <3>1. h[r] = Op(h[r \ {Max(r)}], acts[Max(r)])
      BY <1>1, <1>7, <2>2
    <3>2. Max(r) \in 1..n
      BY <1>1, <2>2, MaxOfPlaces
    <3>3. acts[Max(r)] \in Orderings
      BY <1>1, <3>2
    <3> QED
      BY <1>2, <2>2, <3>1, <3>3
  <2> HIDE DEF P
  <2> QED
    BY <2>1, <2>2 DEF FoldsUp
<1> HIDE DEF P, n
<1>9. Traced(G, Nat, 0, n, acts, h[1..n])
  BY <1>1, <1>3, <1>8, FoldTrace
<1> QED
  BY <1>7, <1>9 DEF G, n

\* A change of a row's shares and anchor, field by field.
LEMMA RowChange ==
    ASSUME NEW x \in [st: {"none", "open"}, shares: Int, anchor: Nat], NEW n \in Int, NEW k \in Nat
    PROVE  /\ [x EXCEPT !.shares = n, !.anchor = k] = [st |-> x.st, shares |-> n, anchor |-> k]
           /\ [x EXCEPT !.shares = n, !.anchor = k] \in [st: {"none", "open"}, shares: Int, anchor: Nat]
<1>1. x = [st |-> x.st, shares |-> x.shares, anchor |-> x.anchor] /\ x.st \in {"none", "open"}
  OBVIOUS
<1>2. [x EXCEPT !.shares = n, !.anchor = k] = [st |-> x.st, shares |-> n, anchor |-> k]
  <2> DEFINE y == [x EXCEPT !.shares = n, !.anchor = k]
  <2>1. y = [z \in DOMAIN x |-> IF z = "anchor" THEN k ELSE IF z = "shares" THEN n ELSE x[z]]
    OBVIOUS
  <2>2. DOMAIN x = {"st", "shares", "anchor"}
    OBVIOUS
  <2> QED
    BY <2>1, <2>2
<1> QED
  BY <1>1, <1>2

\* Carrying out an order leaves a book.
LEMMA PerformTyped ==
    ASSUME NEW w \in Books, NEW a \in Orderings
    PROVE  Perform(w, a) \in Books
<1>1. /\ a.tok \in Tokens /\ a.amt \in Nat /\ a.anchor \in Nat /\ a.row.shares \in Nat
      /\ w.cash \in Int /\ w.rows[a.tok].shares \in Int /\ w.rows[a.tok].anchor \in Nat
      /\ w.rows[a.tok].st \in {"none", "open"}
  BY DEF Orderings, PlannedOver, Books, Rows
<1> DEFINE MidRow == [st: {"none", "open"}, shares: Int, anchor: Nat]
<1>2. w.rows \in [Tokens -> MidRow] /\ w = [rows |-> w.rows, cash |-> w.cash]
  BY DEF Books
<1>3. \A r \in MidRow, c \in Int :
         [rows |-> [w.rows EXCEPT ![a.tok] = r], cash |-> c] \in Books
  BY <1>1, <1>2 DEF Books
<1>4. CASE a.kind = "open"
  <2> DEFINE r == [st |-> "open", shares |-> a.amt, anchor |-> a.anchor]
  <2>1. Perform(w, a) = [rows |-> [w.rows EXCEPT ![a.tok] = r], cash |-> w.cash - a.amt]
    BY <1>2, <1>4 DEF Perform
  <2>2. r \in MidRow /\ w.cash - a.amt \in Int
    BY <1>1
  <2> HIDE DEF r, MidRow
  <2> QED
    BY <1>3, <2>1, <2>2
<1>5. CASE a.kind = "increase"
  <2> DEFINE r == [w.rows[a.tok] EXCEPT !.shares = @ + a.amt, !.anchor = a.anchor]
  <2>1. Perform(w, a) = [rows |-> [w.rows EXCEPT ![a.tok] = r], cash |-> w.cash - a.amt]
    BY <1>1, <1>2, <1>5 DEF Perform
  <2>2. r \in MidRow /\ w.cash - a.amt \in Int
    <3>1. w.rows[a.tok] \in MidRow
      BY <1>1, <1>2
    <3>2. w.rows[a.tok].shares + a.amt \in Int
      BY <1>1
    <3>3. r \in MidRow
      BY <1>1, <3>1, <3>2, RowChange
    <3> QED
      BY <1>1, <3>3
  <2> HIDE DEF r, MidRow
  <2> QED
    BY <1>3, <2>1, <2>2
<1>6. CASE a.kind = "reanchor"
  <2> DEFINE r == [w.rows[a.tok] EXCEPT !.anchor = IF @ < a.anchor THEN a.anchor ELSE @]
  <2>1. Perform(w, a) = [rows |-> [w.rows EXCEPT ![a.tok] = r], cash |-> w.cash]
    BY <1>1, <1>2, <1>6 DEF Perform
  <2>2. r \in MidRow /\ w.cash \in Int
    BY <1>1, <1>2
  <2> HIDE DEF r, MidRow
  <2> QED
    BY <1>3, <2>1, <2>2
<1>7. CASE a.kind = "decrease"
  <2> DEFINE r == [w.rows[a.tok] EXCEPT !.shares = @ - a.amt, !.anchor = a.anchor]
  <2>1. Perform(w, a) = [rows |-> [w.rows EXCEPT ![a.tok] = r], cash |-> w.cash + a.amt]
    BY <1>1, <1>2, <1>7 DEF Perform, Trim
  <2>2. r \in MidRow /\ w.cash + a.amt \in Int
    <3>1. w.rows[a.tok] \in MidRow
      BY <1>1, <1>2
    <3>2. w.rows[a.tok].shares - a.amt \in Int
      BY <1>1
    <3>3. r \in MidRow
      BY <1>1, <3>1, <3>2, RowChange
    <3> QED
      BY <1>1, <3>3
  <2> HIDE DEF r, MidRow
  <2> QED
    BY <1>3, <2>1, <2>2
<1>8. CASE a.kind \notin {"open", "increase", "reanchor", "decrease"}
  <2>1. Perform(w, a) = [rows |-> [w.rows EXCEPT ![a.tok] = NoRow], cash |-> w.cash + a.row.shares]
    BY <1>2, <1>8 DEF Perform
  <2>2. NoRow \in MidRow /\ w.cash + a.row.shares \in Int
    BY <1>1 DEF NoRow
  <2> HIDE DEF MidRow
  <2> QED
    BY <1>3, <2>1, <2>2
<1> QED
  BY <1>4, <1>5, <1>6, <1>7, <1>8

LEMMA DoneFolds ==
    ASSUME TypeOK, NEW acts \in Seq(Orderings)
    PROVE  Traced(PerformStep, Books, Book, Len(acts), acts, Done(acts))
<1> DEFINE n == Len(acts)
           b == Book
           G == PerformStep
           P(h) == h = [r \in SUBSET (DOMAIN acts) |->
                          IF r = {} THEN b ELSE Perform(h[r \ {Max(r)}], acts[Max(r)])]
<1>1. n \in Nat /\ DOMAIN acts = 1..n /\ acts \in [1..n -> Orderings]
  BY LenProperties
<1>2. \A w \in Books, a \in Orderings : G[<<w, a>>] = Perform(w, a)
  BY DEF PerformStep
<1>3. G \in [Books \X Orderings -> Books]
  BY PerformTyped DEF PerformStep
<1>0. b \in Books
  BY DEF TypeOK, Book, Books, Rows
<1>4. Done(acts) = (CHOOSE h : P(h))[DOMAIN acts]
  BY DEF Done, FoldLeft, MapThenFoldSet, Book
<1> HIDE DEF G, b
<1>5. \E h : P(h)
  <2>1. PICK h \in [SUBSET (1..n) -> Books] : Folds(G, b, n, acts, h)
    <3> HIDE DEF P, n
    <3> QED
      BY <1>0, <1>1, <1>3, FoldExists DEF Computable
  <2>2. \A r \in SUBSET (1..n) : r # {} =>
           G[<<h[r \ {Max(r)}], acts[Max(r)]>>] = Perform(h[r \ {Max(r)}], acts[Max(r)])
    <3> TAKE r \in SUBSET (1..n)
    <3> HAVE r # {}
    <3>1. Max(r) \in 1..n
      BY <1>1, MaxOfPlaces
    <3>2. h[r \ {Max(r)}] \in Books /\ acts[Max(r)] \in Orderings
      BY <1>1, <3>1
    <3> QED
      BY <1>2, <3>2
  <2>3. h = [r \in SUBSET (DOMAIN acts) |->
               IF r = {} THEN b ELSE Perform(h[r \ {Max(r)}], acts[Max(r)])]
    BY <1>1, <2>1, <2>2 DEF Folds
  <2> QED
    BY <2>3
<1>6. P(CHOOSE h : P(h))
  <2> HIDE DEF P
  <2> QED
    BY <1>5
<1>7. PICK h : P(h) /\ Done(acts) = h[1..n]
  BY <1>1, <1>4, <1>6
<1>8. FoldsUp(G, Books, b, n, acts, h)
  <2>1. h[{}] = b
    BY <1>7
  <2>2. ASSUME NEW r \in SUBSET (1..n), r # {}, h[r \ {Max(r)}] \in Books
        PROVE  h[r] = G[<<h[r \ {Max(r)}], acts[Max(r)]>>]
    <3>1. h[r] = Perform(h[r \ {Max(r)}], acts[Max(r)])
      BY <1>1, <1>7, <2>2
    <3>2. Max(r) \in 1..n
      BY <1>1, <2>2, MaxOfPlaces
    <3>3. acts[Max(r)] \in Orderings
      BY <1>1, <3>2
    <3> QED
      BY <1>2, <2>2, <3>1, <3>3
  <2> HIDE DEF P
  <2> QED
    BY <2>1, <2>2 DEF FoldsUp
<1> HIDE DEF P, n
<1>9. Traced(G, Books, b, n, acts, h[1..n])
  BY <1>0, <1>1, <1>3, <1>8, FoldTrace
<1> QED
  BY <1>7, <1>9 DEF G, n, b

\* One more order: what it spends, what it does to the book, whether it opens a copy.
LEMMA OneMore ==
    ASSUME NEW acts \in Seq(Orderings), NEW a \in Orderings
    PROVE  /\ Append(acts, a) \in Seq(Orderings)
           /\ Len(Append(acts, a)) = Len(acts) + 1 /\ Len(acts) \in Nat
           /\ DOMAIN acts = 1..Len(acts) /\ DOMAIN Append(acts, a) = 1..(Len(acts) + 1)
           /\ \A i \in 1..Len(acts) : Append(acts, a)[i] = acts[i]
           /\ Append(acts, a)[Len(acts) + 1] = a
BY LenProperties, AppendProperties

LEMMA SpentAppend ==
    ASSUME NEW acts \in Seq(Orderings), NEW a \in Orderings
    PROVE  /\ Spent(acts) \in Nat
           /\ Spent(Append(acts, a)) = IF IsBuy(a) THEN Spent(acts) + a.amt ELSE Spent(acts)
<1> DEFINE n == Len(acts)
           u == Append(acts, a)
<1>1. u \in Seq(Orderings) /\ n \in Nat /\ Len(u) = n + 1 /\ u[n + 1] = a
  BY OneMore
<1>2. \A i \in 1..n : u[i] = acts[i]
  BY OneMore
<1>3. Traced(SpendStep, Nat, 0, n, acts, Spent(acts))
  BY SpentFolds
<1>4. Traced(SpendStep, Nat, 0, n + 1, u, Spent(u))
  <2> HIDE DEF n, u
  <2> QED
    BY <1>1, SpentFolds
<1> HIDE DEF n, u
<1>5. Spent(acts) \in Nat /\ Spent(u) = SpendStep[<<Spent(acts), u[n + 1]>>]
  BY <1>1, <1>2, <1>3, <1>4, FoldAppend
<1> QED
  BY <1>1, <1>5 DEF SpendStep, u

LEMMA DoneAppend ==
    ASSUME TypeOK, NEW acts \in Seq(Orderings), NEW a \in Orderings
    PROVE  Done(acts) \in Books /\ Done(Append(acts, a)) = Perform(Done(acts), a)
<1> DEFINE n == Len(acts)
           u == Append(acts, a)
<1>1. u \in Seq(Orderings) /\ n \in Nat /\ Len(u) = n + 1 /\ u[n + 1] = a
  BY OneMore
<1>2. \A i \in 1..n : u[i] = acts[i]
  BY OneMore
<1>3. Traced(PerformStep, Books, Book, n, acts, Done(acts))
  BY DoneFolds
<1>4. Traced(PerformStep, Books, Book, n + 1, u, Done(u))
  <2> HIDE DEF n, u
  <2> QED
    BY <1>1, DoneFolds
<1> HIDE DEF n, u
<1>5. Done(acts) \in Books /\ Done(u) = PerformStep[<<Done(acts), u[n + 1]>>]
  BY <1>1, <1>2, <1>3, <1>4, FoldAppend
<1> QED
  BY <1>1, <1>5 DEF PerformStep, u

LEMMA SpentTyped ==
    ASSUME NEW acts \in Seq(Orderings)
    PROVE  Spent(acts) \in Nat
<1>1. Traced(SpendStep, Nat, 0, Len(acts), acts, Spent(acts)) /\ Len(acts) \in Nat
  BY SpentFolds, LenProperties
<1> QED
  BY <1>1 DEF Traced

LEMMA DoneTyped ==
    ASSUME TypeOK, NEW acts \in Seq(Orderings)
    PROVE  Done(acts) \in Books
<1>1. Traced(PerformStep, Books, Book, Len(acts), acts, Done(acts)) /\ Len(acts) \in Nat
  BY DoneFolds, LenProperties
<1> QED
  BY <1>1 DEF Traced

LEMMA OpensAppend ==
    ASSUME NEW acts \in Seq(Orderings), NEW a \in Orderings
    PROVE  /\ Opens(acts) \in Nat
           /\ Opens(Append(acts, a)) = IF a.kind = "open" THEN Opens(acts) + 1 ELSE Opens(acts)
<1> DEFINE n == Len(acts)
           u == Append(acts, a)
           S == {i \in 1..n : acts[i].kind = "open"}
           U == {i \in 1..(n + 1) : u[i].kind = "open"}
<1>1. n \in Nat /\ DOMAIN acts = 1..n /\ DOMAIN u = 1..(n + 1) /\ u[n + 1] = a
  BY OneMore
<1>2. \A i \in 1..n : u[i] = acts[i]
  BY OneMore
<1>3. Opens(acts) = Cardinality(S) /\ Opens(u) = Cardinality(U)
  BY <1>1, Zenon DEF Opens
<1> HIDE DEF n, u
<1>4. U = IF a.kind = "open" THEN S \cup {n + 1} ELSE S
  BY <1>1, <1>2
<1>5. IsFiniteSet(S) /\ n + 1 \notin S
  <2>1. IsFiniteSet(1..n)
    BY <1>1, FS_Interval
  <2> QED
    BY <1>1, <2>1, FS_Subset
<1>6. Cardinality(S) \in Nat /\ Cardinality(S \cup {n + 1}) = Cardinality(S) + 1
  <2> HIDE DEF S
  <2> QED
    BY <1>5, FS_CardinalityType, FS_AddElement
<1> QED
  BY <1>3, <1>4, <1>6 DEF u

\* A plan without orders spends nothing and changes nothing.
LEMMA NoOrders ==
    ASSUME TypeOK
    PROVE  Spent(<<>>) = 0 /\ Done(<<>>) = Book /\ Opens(<<>>) = 0
<1>1. <<>> \in Seq(Orderings) /\ Len(<<>>) = 0 /\ DOMAIN <<>> = {}
  BY EmptySeq
<1>2. Traced(SpendStep, Nat, 0, 0, <<>>, Spent(<<>>))
  BY <1>1, SpentFolds
<1>3. Traced(PerformStep, Books, Book, 0, <<>>, Done(<<>>))
  BY <1>1, DoneFolds
<1>4. Opens(<<>>) = 0
  BY <1>1, FS_EmptySet DEF Opens
<1> QED
  BY <1>2, <1>3, <1>4 DEF Traced, Trace

-----------------------------------------------------------------------------
(* What holds after every order of a plan.                                 *)

\* The orders so far fit the budget, the places and the cap per position.
Within(in, st) ==
    /\ st \in PlanStates(Rows)
    /\ st.left >= 0 /\ st.left = Budget(in).left - Spent(st.acts)
    /\ st.count = Budget(in).count + Opens(st.acts)
    /\ Opens(st.acts) > 0 => st.count <= Settings.maxOpen
    /\ \A i \in DOMAIN st.acts : IsBuy(st.acts[i]) =>
          st.acts[i].amt + in.rows[st.acts[i].tok].shares <= Settings.maxPos

\* Carried out, they leave whole rows, touch the tokens of T only, and pay for no more
\* than they spend.
Leaves(st, T) ==
    /\ \A t \in Tokens : /\ Done(st.acts).rows[t] \in Rows
                         /\ Done(st.acts).rows[t].st = "none" => Done(st.acts).rows[t].shares = 0
    /\ \A t \in Tokens \ T : Done(st.acts).rows[t] = rows[t]
    /\ Done(st.acts).cash >= cash - Spent(st.acts)

\* A plan made over the rows and the cash as they are.
Current(in) == InputOver(in, Rows) /\ in.rows = rows /\ in.cash = cash

LEMMA RowsOverRows == RowsOver(Rows)
BY DEF RowsOver, Rows

LEMMA WithinStep ==
    ASSUME LoopInv, NEW in, Current(in), NEW st, Within(in, st), NEW t \in Tokens, NEW next,
           PlanStep(in, Rows, st, t, next)
    PROVE  Within(in, next)
<1>1. CASE next = st
  BY <1>1
<1>2. CASE Adds(in, Rows, st, t, next)
  <2>1. PICK a \in Orderings :
           /\ a.tok = t
           /\ \/ next = Plan(st, a) /\ ~IsBuy(a)
              \/ next = Buy(st, a) /\ IsBuy(a) /\ Affordable(in, st, a)
    BY <1>2 DEF Adds, Orderings
  <2>2. /\ st \in PlanStates(Rows) /\ st.acts \in Seq(Orderings) /\ st.left \in Int /\ st.count \in Int
        /\ a.amt \in Nat /\ a.tok \in Tokens
    BY <2>1 DEF Within, PlanStates, Orderings, PlannedOver
  <2>3. next \in PlanStates(Rows)
    BY <1>2, <2>2, PlanStepTyped DEF PlanStep
  <2>0. Buy(st, a) = [left |-> st.left - a.amt, cash |-> st.cash - a.amt,
                      count |-> IF a.kind = "open" THEN st.count + 1 ELSE st.count,
                      acts |-> Append(st.acts, a)]
    BY <2>2, BuyTakes
  <2>4. next.acts = Append(st.acts, a)
    BY <2>0, <2>1, <2>2 DEF Plan, PlanStates
  <2>5. /\ Spent(next.acts) = IF IsBuy(a) THEN Spent(st.acts) + a.amt ELSE Spent(st.acts)
        /\ Opens(next.acts) = IF a.kind = "open" THEN Opens(st.acts) + 1 ELSE Opens(st.acts)
        /\ Spent(st.acts) \in Nat /\ Opens(st.acts) \in Nat
    BY <2>2, <2>4, SpentAppend, OpensAppend
  <2>6. ASSUME NEW i \in DOMAIN next.acts, IsBuy(next.acts[i])
        PROVE  next.acts[i].amt + in.rows[next.acts[i].tok].shares <= Settings.maxPos
    <3>1. i \in 1..(Len(st.acts) + 1) /\ Len(st.acts) \in Nat
      BY <2>2, <2>4, <2>6, OneMore
    <3>2. CASE i \in 1..Len(st.acts)
      <4>1. next.acts[i] = st.acts[i] /\ i \in DOMAIN st.acts
        BY <2>2, <2>4, <3>2, OneMore
      <4> QED
        BY <2>6, <4>1 DEF Within
    <3>3. CASE i = Len(st.acts) + 1
      <4>1. next.acts[i] = a
        BY <2>2, <2>4, <3>3, OneMore
      <4>2. Affordable(in, st, a)
        BY <2>1, <2>6, <4>1
      <4>3. CASE a.kind = "open"
        <5>1. a.amt <= Settings.maxPos /\ ~Tracked(rows[t]) /\ in.rows[t] = rows[t]
          BY <2>1, <4>2, <4>3 DEF Affordable, Current
        <5>2. rows[t].st = "none" /\ rows[t].shares = 0
          BY <5>1 DEF LoopInv, TypeOK, NoneEmpty, Rows, Tracked
        <5>3. Settings.maxPos \in Nat
          BY SettingsAssumption DEF SettingsType
        <5> QED
          BY <2>1, <2>2, <4>1, <5>1, <5>2, <5>3
      <4>4. CASE a.kind = "increase"
        BY <4>1, <4>2, <4>4 DEF Affordable
      <4> QED
        BY <2>6, <4>1, <4>3, <4>4 DEF IsBuy
    <3> QED
      BY <3>1, <3>2, <3>3
  <2>7. Settings.maxOpen \in Nat
    BY SettingsAssumption DEF SettingsType
  <2>8. Budget(in).left \in Int /\ Budget(in).count \in Int
    BY RowsOverRows, BudgetTyped DEF Current, PlanStates
  <2>9. CASE next = Plan(st, a) /\ ~IsBuy(a)
    <3>1. next.left = st.left /\ next.count = st.count /\ a.kind # "open"
      BY <2>2, <2>9 DEF Plan, PlanStates, IsBuy
    <3>2. Spent(next.acts) = Spent(st.acts) /\ Opens(next.acts) = Opens(st.acts)
      BY <2>5, <2>9, <3>1
    <3> QED
      BY <2>3, <2>6, <3>1, <3>2 DEF Within
  <2>10. CASE next = Buy(st, a) /\ IsBuy(a) /\ Affordable(in, st, a)
    <3>1. /\ next.left = st.left - a.amt
          /\ next.count = IF a.kind = "open" THEN st.count + 1 ELSE st.count
      BY <2>0, <2>10
    <3>2. next.left >= 0 /\ next.left = Budget(in).left - Spent(next.acts)
      <4>1. a.amt <= st.left /\ Spent(next.acts) = Spent(st.acts) + a.amt
        BY <2>5, <2>10 DEF Affordable
      <4>2. st.left = Budget(in).left - Spent(st.acts)
        BY DEF Within
      <4> QED
        BY <2>2, <2>5, <2>8, <3>1, <4>1, <4>2
    <3>3. next.count = Budget(in).count + Opens(next.acts)
      <4>1. st.count = Budget(in).count + Opens(st.acts)
        BY DEF Within
      <4> QED
        BY <2>2, <2>5, <2>8, <3>1, <4>1
    <3>4. Opens(next.acts) > 0 => next.count <= Settings.maxOpen
      BY <2>2, <2>5, <2>7, <2>10, <3>1 DEF Within, Affordable
    <3> QED
      BY <2>3, <2>6, <3>2, <3>3, <3>4 DEF Within
  <2> QED
    BY <2>1, <2>9, <2>10
<1> QED
  BY <1>1, <1>2 DEF PlanStep

\* Carrying out one order on a book changes the row of its token.
Changes(w, a, r, c) == Perform(w, a) = [rows |-> [w.rows EXCEPT ![a.tok] = r], cash |-> c]

LEMMA LeavesStep ==
    ASSUME LoopInv, NEW in, Current(in), NEW st, Within(in, st), NEW T, Leaves(st, T),
           NEW t \in Tokens \ T, NEW next, PlanStep(in, Rows, st, t, next)
    PROVE  Leaves(next, T \cup {t})
<1>1. CASE next = st
  BY <1>1 DEF Leaves
<1>2. CASE Adds(in, Rows, st, t, next)
  <2>1. PICK a \in Orderings :
           /\ a.tok = t /\ a.row = in.rows[t]
           /\ a.kind = "decrease" => a.amt <= in.rows[t].shares
           /\ \/ next = Plan(st, a) /\ ~IsBuy(a)
              \/ next = Buy(st, a) /\ IsBuy(a) /\ Affordable(in, st, a)
    BY <1>2 DEF Adds, Orderings
  <2>2. /\ st \in PlanStates(Rows) /\ st.acts \in Seq(Orderings)
        /\ a.amt \in Nat /\ a.anchor \in Nat /\ a.tok \in Tokens /\ TypeOK
    BY <2>1 DEF Within, PlanStates, Orderings, PlannedOver, LoopInv
  <2>0. Buy(st, a) = [left |-> st.left - a.amt, cash |-> st.cash - a.amt,
                      count |-> IF a.kind = "open" THEN st.count + 1 ELSE st.count,
                      acts |-> Append(st.acts, a)]
    BY <2>2, BuyTakes
  <2>3. next.acts = Append(st.acts, a)
    BY <2>0, <2>1, <2>2 DEF Plan, PlanStates
  <2> DEFINE w == Done(st.acts)
             d == Done(next.acts)
  <2>4. w \in Books /\ d = Perform(w, a)
    BY <2>2, <2>3, DoneAppend
  <2>5. /\ Spent(next.acts) = IF IsBuy(a) THEN Spent(st.acts) + a.amt ELSE Spent(st.acts)
        /\ Spent(st.acts) \in Nat /\ cash \in Nat
    BY <2>2, <2>3, SpentAppend DEF TypeOK
  <2>6. /\ \A x \in Tokens : w.rows[x] \in Rows /\ (w.rows[x].st = "none" => w.rows[x].shares = 0)
        /\ \A x \in Tokens \ T : w.rows[x] = rows[x]
        /\ w.cash >= cash - Spent(st.acts)
    BY DEF Leaves
  <2>7. w.rows[t] = rows[t] /\ rows[t] \in Rows /\ a.row = rows[t] /\ in.rows[t] = rows[t]
    BY <2>1, <2>2, <2>6 DEF Current, TypeOK
  <2>8. (\A r, c : Changes(w, a, r, c) =>
            (r \in Rows /\ (r.st = "none" => r.shares = 0) /\ c >= cash - Spent(next.acts)
               => Leaves(next, T \cup {t})))
    <3> SUFFICES ASSUME NEW r, NEW c, Changes(w, a, r, c), r \in Rows, r.st = "none" => r.shares = 0,
                        c >= cash - Spent(next.acts)
                 PROVE  Leaves(next, T \cup {t})
      OBVIOUS
    <3>1. d.rows = [w.rows EXCEPT ![t] = r] /\ d.cash = c
      BY <2>1, <2>4 DEF Changes
    <3>2. w.rows \in [Tokens -> [st: {"none", "open"}, shares: Int, anchor: Nat]]
      BY <2>4 DEF Books
    <3> HIDE DEF w
    <3>3. \A x \in Tokens : d.rows[x] = IF x = t THEN r ELSE w.rows[x]
      BY <3>1, <3>2
    <3> HIDE DEF d
    <3>4. \A x \in Tokens : d.rows[x] \in Rows /\ (d.rows[x].st = "none" => d.rows[x].shares = 0)
      BY <2>6, <3>3
    <3>5. \A x \in Tokens \ (T \cup {t}) : d.rows[x] = rows[x]
      BY <2>6, <3>3
    <3> QED
      BY <3>1, <3>4, <3>5 DEF Leaves, d
  <2>9. /\ w.rows[t].st \in {"none", "open"} /\ w.rows[t].shares \in Nat /\ w.rows[t].anchor \in Nat
        /\ w.cash \in Int /\ w = [rows |-> w.rows, cash |-> w.cash]
        /\ w.rows[t] \in [st: {"none", "open"}, shares: Int, anchor: Nat]
    BY <2>1, <2>2, <2>4, <2>6 DEF Books, Rows
  <2> HIDE DEF w, d
  <2>10. CASE a.kind = "open"
    <3> DEFINE r == [st |-> "open", shares |-> a.amt, anchor |-> a.anchor]
    <3>1. Changes(w, a, r, w.cash - a.amt)
      BY <2>9, <2>10 DEF Perform, Changes
    <3>2. r \in Rows /\ r.st = "open"
      BY <2>2 DEF Rows
    <3> HIDE DEF r
    <3>3. w.cash - a.amt >= cash - Spent(next.acts)
      BY <2>2, <2>5, <2>6, <2>9, <2>10 DEF IsBuy
    <3> QED
      BY <2>8, <3>1, <3>2, <3>3
  <2>11. CASE a.kind = "increase"
    <3> DEFINE n == w.rows[t].shares + a.amt
               r == [w.rows[t] EXCEPT !.shares = n, !.anchor = a.anchor]
    <3>1. Changes(w, a, r, w.cash - a.amt)
      BY <2>1, <2>9, <2>11 DEF Perform, Changes
    <3>2. r = [st |-> w.rows[t].st, shares |-> n, anchor |-> a.anchor]
      <4>1. n \in Int
        BY <2>2, <2>9
      <4> DEFINE x == w.rows[t]
                 k == a.anchor
      <4>2. x \in [st: {"none", "open"}, shares: Int, anchor: Nat] /\ k \in Nat
        BY <2>2, <2>9
      <4>3. r = [x EXCEPT !.shares = n, !.anchor = k]
        OBVIOUS
      <4> HIDE DEF n, x, k, r
      <4>4. r = [st |-> x.st, shares |-> n, anchor |-> k]
        BY <4>1, <4>2, <4>3, RowChange
      <4> QED
        BY <4>4 DEF x, k
    <3>3. n \in Nat /\ w.rows[t].st = "open"
      <4>1. Tracked(rows[t])
        BY <2>1, <2>7, <2>11 DEF Affordable, IsBuy
      <4> QED
        BY <2>2, <2>7, <2>9, <4>1 DEF Tracked
    <3> HIDE DEF r, n
    <3>4. r \in Rows /\ r.st = "open"
      BY <2>2, <3>2, <3>3 DEF Rows
    <3>5. w.cash - a.amt >= cash - Spent(next.acts)
      BY <2>2, <2>5, <2>6, <2>9, <2>11 DEF IsBuy
    <3> QED
      BY <2>8, <3>1, <3>4, <3>5
  <2>12. CASE a.kind = "reanchor"
    <3> DEFINE r == [w.rows[t] EXCEPT !.anchor = IF @ < a.anchor THEN a.anchor ELSE @]
    <3>1. Changes(w, a, r, w.cash)
      BY <2>1, <2>9, <2>12 DEF Perform, Changes
    <3>2. r \in Rows /\ r.st = w.rows[t].st /\ r.shares = w.rows[t].shares
      BY <2>2, <2>9 DEF Rows
    <3> HIDE DEF r
    <3>3. w.cash >= cash - Spent(next.acts)
      BY <2>5, <2>6, <2>12 DEF IsBuy
    <3> QED
      BY <2>6, <2>8, <3>1, <3>2, <3>3
  <2>13. CASE a.kind = "decrease"
    <3> DEFINE n == w.rows[t].shares - a.amt
               r == [w.rows[t] EXCEPT !.shares = n, !.anchor = a.anchor]
    <3>1. Changes(w, a, r, w.cash + a.amt)
      BY <2>1, <2>9, <2>13 DEF Perform, Changes, Trim
    <3>2. r = [st |-> w.rows[t].st, shares |-> n, anchor |-> a.anchor]
      <4>1. n \in Int
        BY <2>2, <2>9
      <4> DEFINE x == w.rows[t]
                 k == a.anchor
      <4>2. x \in [st: {"none", "open"}, shares: Int, anchor: Nat] /\ k \in Nat
        BY <2>2, <2>9
      <4>3. r = [x EXCEPT !.shares = n, !.anchor = k]
        OBVIOUS
      <4> HIDE DEF n, x, k, r
      <4>4. r = [st |-> x.st, shares |-> n, anchor |-> k]
        BY <4>1, <4>2, <4>3, RowChange
      <4> QED
        BY <4>4 DEF x, k
    <3>3. n \in Nat /\ (w.rows[t].st = "none" => n = 0)
      <4>1. a.amt <= w.rows[t].shares
        BY <2>1, <2>7, <2>13
      <4>2. w.rows[t].st = "none" => w.rows[t].shares = 0
        BY <2>1, <2>2, <2>6
      <4> QED
        BY <2>2, <2>9, <4>1, <4>2
    <3> HIDE DEF r, n
    <3>4. r \in Rows /\ (r.st = "none" => r.shares = 0)
      BY <2>2, <2>9, <3>2, <3>3 DEF Rows
    <3>5. w.cash + a.amt >= cash - Spent(next.acts)
      BY <2>2, <2>5, <2>6, <2>9, <2>13 DEF IsBuy
    <3> QED
      BY <2>8, <3>1, <3>4, <3>5
  <2>14. CASE a.kind \notin {"open", "increase", "reanchor", "decrease"}
    <3>1. Changes(w, a, NoRow, w.cash + a.row.shares)
      BY <2>9, <2>14 DEF Perform, Changes
    <3>2. NoRow \in Rows /\ NoRow.shares = 0
      BY DEF NoRow, Rows
    <3>3. w.cash + a.row.shares >= cash - Spent(next.acts)
      <4>1. a.row.shares \in Nat
        BY <2>7 DEF Rows
      <4> QED
        BY <2>5, <2>6, <2>9, <2>14, <4>1 DEF IsBuy
    <3> QED
      BY <2>8, <3>1, <3>2, <3>3
  <2> QED
    BY <2>10, <2>11, <2>12, <2>13, <2>14
<1> QED
  BY <1>1, <1>2 DEF PlanStep

-----------------------------------------------------------------------------
(* A copy that was just ordered asks for nothing more.                     *)

\* The row an order leaves.
After(x, a) ==
    CASE a.kind = "open" -> [st |-> "open", shares |-> a.amt, anchor |-> a.anchor]
      [] a.kind = "increase" -> [x EXCEPT !.shares = @ + a.amt, !.anchor = a.anchor]
      [] a.kind = "reanchor" -> [x EXCEPT !.anchor = IF @ < a.anchor THEN a.anchor ELSE @]
      [] a.kind = "decrease" -> [x EXCEPT !.shares = @ - a.amt, !.anchor = a.anchor]
      [] OTHER -> NoRow

LEMMA PerformRow ==
    ASSUME NEW w \in Books, NEW a \in Orderings
    PROVE  Perform(w, a).rows = [w.rows EXCEPT ![a.tok] = After(w.rows[a.tok], a)]
<1>1. /\ a.tok \in Tokens /\ w = [rows |-> w.rows, cash |-> w.cash]
      /\ w.rows[a.tok] \in [st: {"none", "open"}, shares: Int, anchor: Nat]
      /\ w.rows \in [Tokens -> [st: {"none", "open"}, shares: Int, anchor: Nat]]
  BY DEF Orderings, PlannedOver, Books
<1>2. CASE a.kind = "open"
  BY <1>1, <1>2 DEF Perform, After
<1>3. CASE a.kind = "increase"
  BY <1>1, <1>3 DEF Perform, After
<1>4. CASE a.kind = "reanchor"
  BY <1>1, <1>4 DEF Perform, After
<1>5. CASE a.kind = "decrease"
  BY <1>1, <1>5 DEF Perform, After, Trim
<1>6. CASE a.kind \notin {"open", "increase", "reanchor", "decrease"}
  BY <1>1, <1>6 DEF Perform, After
<1> QED
  BY <1>2, <1>3, <1>4, <1>5, <1>6

\* Without a reading of the leader's cash a growth is not followed.
Blind(in, p, r) ==
    in.mode = "capital" /\ ~in.blocked /\ ~Weighed(p.size - Base(p, r), in.leaderCash)

\* A plan over the row r neither sells, resolves, grows nor re-anchors the copy of t.
Quiet(in, t, r) ==
    Tracked(r) => \/ in.pos[t].size = 0 /\ ~in.complete
                  \/ /\ in.pos[t].size > 0 /\ ~in.pos[t].redeemable
                     /\ ~Shrank(in.pos[t], r)
                     /\ Grew(in.pos[t], r) => Blind(in, in.pos[t], r)

\* Nor does it open one.
Shut(in, t, r) == Tracked(r) \/ in.pos[t].size = 0 \/ in.pos[t].redeemable

\* A copy measured against the leader's present size is settled.
LEMMA Anchored ==
    ASSUME NEW in, InputOver(in, Rows), NEW t \in Listed(in), ~in.pos[t].redeemable,
           NEW r, Tracked(r), r.anchor = in.pos[t].size
    PROVE  Quiet(in, t, r) /\ Shut(in, t, r)
<1>1. in.pos[t].size \in Nat /\ in.pos[t].size > 0
  BY DEF InputOver, Positions, Listed
<1>2. Base(in.pos[t], r) = in.pos[t].size
  BY <1>1 DEF Base
<1>3. ~Grew(in.pos[t], r) /\ ~Shrank(in.pos[t], r)
  BY <1>1, <1>2 DEF Grew, Shrank
<1> QED
  BY <1>1, <1>3 DEF Quiet, Shut

\* What a plan adds for a token settles it; a token it leaves alone is settled but may be
\* opened later.
LEMMA Settles ==
    ASSUME NEW in, InputOver(in, Rows), NEW st \in PlanStates(Rows), NEW t \in Tokens
    PROVE  \/ ForToken(in, st, t) = st /\ Quiet(in, t, in.rows[t])
           \/ \E a : /\ a.tok = t
                     /\ ForToken(in, st, t) = Plan(st, a) \/ ForToken(in, st, t) = Buy(st, a)
                     /\ Quiet(in, t, After(in.rows[t], a)) /\ Shut(in, t, After(in.rows[t], a))
<1> DEFINE p == in.pos[t]
           row == in.rows[t]
           next == ForToken(in, st, t)
           Left == next = st /\ Quiet(in, t, row)
           Put(a) == /\ a.tok = t
                     /\ next = Plan(st, a) \/ next = Buy(st, a)
                     /\ Quiet(in, t, After(row, a)) /\ Shut(in, t, After(row, a))
<1> SUFFICES Left \/ \E a : Put(a)
  OBVIOUS
<1>1. /\ p.size \in Nat /\ p.redeemable \in BOOLEAN /\ row.anchor \in Nat /\ row \in Rows
      /\ Base(p, row) \in Nat
  BY DEF InputOver, Positions, Rows, Base
<1>2. \A kind, amt, anchor :
         /\ Action(kind, t, amt, anchor, row).tok = t
         /\ Action(kind, t, amt, anchor, row).kind = kind
         /\ Action(kind, t, amt, anchor, row).amt = amt
         /\ Action(kind, t, amt, anchor, row).anchor = anchor
  BY DEF Action
<1>3. ~Tracked(NoRow)
  BY DEF Tracked, NoRow
<1>4. CASE t \notin Listed(in)
  <2>1. p.size = 0 /\ next = PlanGone(in, st, t)
    BY <1>1, <1>4 DEF Listed, ForToken
  <2> DEFINE a == Action("close", t, row.shares, 0, row)
  <2>2. CASE in.complete /\ Tracked(row)
    <3>1. next = Plan(st, a) /\ After(row, a) = NoRow
      BY <1>2, <2>1, <2>2 DEF PlanGone, After
    <3>2. Put(a)
      BY <1>2, <1>3, <2>1, <3>1 DEF Quiet, Shut
    <3> HIDE DEF a, next
    <3> QED
      BY <3>2
  <2>3. CASE ~(in.complete /\ Tracked(row))
    BY <2>1, <2>3 DEF PlanGone, Quiet
  <2> QED
    BY <2>2, <2>3
<1>5. CASE t \in Listed(in) /\ p.redeemable
  <2>1. p.size > 0 /\ next = IF Tracked(row) THEN Plan(st, Action("resolve", t, 0, 0, row)) ELSE st
    BY <1>1, <1>5 DEF Listed, ForToken, PlanHeld
  <2> DEFINE a == Action("resolve", t, 0, 0, row)
  <2>2. CASE Tracked(row)
    <3>1. next = Plan(st, a) /\ After(row, a) = NoRow
      BY <1>2, <2>1, <2>2 DEF After
    <3>2. Put(a)
      BY <1>2, <1>3, <1>5, <3>1 DEF Quiet, Shut
    <3> HIDE DEF a, next
    <3> QED
      BY <3>2
  <2>3. CASE ~Tracked(row)
    BY <2>1, <2>3 DEF Quiet
  <2> QED
    BY <2>2, <2>3
<1>6. CASE t \in Listed(in) /\ ~p.redeemable /\ ~Tracked(row)
  <2>1. next = PlanNew(in, st, t)
    BY <1>1, <1>6 DEF Listed, ForToken, PlanHeld
  <2> DEFINE a == Action("open", t, OpenAmount(in, st, t), p.size, row)
  <2>2. CASE next = Buy(st, a)
    <3>1. After(row, a).anchor = p.size /\ Tracked(After(row, a))
      BY <1>2 DEF After, Tracked
    <3>2. Quiet(in, t, After(row, a)) /\ Shut(in, t, After(row, a))
      <4> HIDE DEF a
      <4> QED
        BY <1>6, <3>1, Anchored
    <3>3. Put(a)
      BY <1>2, <2>2, <3>2
    <3> HIDE DEF a, next
    <3> QED
      BY <3>3
  <2>3. CASE next = st
    BY <1>6, <2>3 DEF Quiet
  <2> QED
    BY <2>1, <2>2, <2>3 DEF PlanNew
<1>7. CASE t \in Listed(in) /\ ~p.redeemable /\ Tracked(row) /\ Grew(p, row)
  <2>1. ~Shrank(p, row) /\ p.size > 0
    <3> HIDE DEF p, row
    <3> QED
      BY <1>1, <1>7 DEF Grew, Shrank
  <2>2. next = PlanGrowth(in, st, t)
    BY <1>1, <1>7, <2>1 DEF Listed, ForToken, PlanHeld
  <2> DEFINE a == Action("increase", t, IncreaseAmount(in, st, t), p.size, row)
             c == Action("reanchor", t, 0, p.size, row)
  <2>3. CASE Blind(in, p, row)
    BY <1>7, <2>1, <2>2, <2>3 DEF PlanGrowth, Blind, Quiet
  <2>4. CASE next = Buy(st, a)
    <3>1. After(row, a).anchor = p.size /\ After(row, a).st = row.st
      BY <1>1, <1>2 DEF After, Rows
    <3>2. Tracked(After(row, a))
      BY <1>7, <3>1 DEF Tracked
    <3>3. Quiet(in, t, After(row, a)) /\ Shut(in, t, After(row, a))
      <4> HIDE DEF a
      <4> QED
        BY <1>7, <3>1, <3>2, Anchored
    <3>4. Put(a)
      BY <1>2, <2>4, <3>3
    <3> HIDE DEF a, next
    <3> QED
      BY <3>4
  <2>5. CASE next = Plan(st, c)
    <3>1. row.anchor < p.size
      <4>1. Base(p, row) < p.size
        <5> HIDE DEF p, row
        <5> QED
          BY <1>1, <1>7 DEF Grew
      <4> QED
        BY <1>1, <4>1 DEF Base
    <3>2. After(row, c).anchor = p.size /\ After(row, c).st = row.st
      BY <1>1, <1>2, <3>1 DEF After, Rows
    <3>3. Tracked(After(row, c))
      BY <1>7, <3>2 DEF Tracked
    <3>4. Quiet(in, t, After(row, c)) /\ Shut(in, t, After(row, c))
      <4> HIDE DEF c
      <4> QED
        BY <1>7, <3>2, <3>3, Anchored
    <3>5. Put(c)
      BY <1>2, <2>5, <3>4
    <3> HIDE DEF c, next
    <3> QED
      BY <3>5
  <2> QED
    BY <2>2, <2>3, <2>4, <2>5 DEF PlanGrowth, Blind
<1>8. CASE t \in Listed(in) /\ ~p.redeemable /\ Tracked(row) /\ ~Grew(p, row) /\ Shrank(p, row)
  <2>1. next = PlanTrim(in, st, t)
    BY <1>1, <1>8 DEF Listed, ForToken, PlanHeld
  <2> DEFINE amt == (row.shares * (Base(p, row) - p.size)) \div Base(p, row)
             a == Action("decrease", t, amt, p.size, row)
  <2>2. next = Plan(st, a)
    BY <2>1 DEF PlanTrim
  <2> HIDE DEF amt
  <2>3. After(row, a).anchor = p.size /\ After(row, a).st = row.st
    BY <1>1, <1>2 DEF After, Rows
  <2>4. Tracked(After(row, a))
    BY <1>8, <2>3 DEF Tracked
  <2>5. Quiet(in, t, After(row, a)) /\ Shut(in, t, After(row, a))
    <3> HIDE DEF a
    <3> QED
      BY <1>8, <2>3, <2>4, Anchored
  <2>6. Put(a)
    BY <1>2, <2>2, <2>5
  <2> HIDE DEF a, next
  <2> QED
    BY <2>6
<1>9. CASE t \in Listed(in) /\ ~p.redeemable /\ Tracked(row) /\ ~Grew(p, row) /\ ~Shrank(p, row)
  <2>1. p.size > 0 /\ next = st
    BY <1>1, <1>9 DEF Listed, ForToken, PlanHeld
  <2> QED
    BY <1>9, <2>1 DEF Quiet
<1> QED
  BY <1>1, <1>4, <1>5, <1>6, <1>7, <1>8, <1>9

\* A settled copy is left alone, unless it may be opened.
LEMMA QuietPlan ==
    ASSUME NEW in, InputOver(in, Rows), NEW st, NEW t \in Tokens, Quiet(in, t, in.rows[t])
    PROVE  \/ ForToken(in, st, t) = st
           \/ /\ ~Shut(in, t, in.rows[t])
              /\ \E a : a.tok = t /\ a.kind = "open" /\ ForToken(in, st, t) = Buy(st, a)
<1> DEFINE p == in.pos[t]
           row == in.rows[t]
<1>1. p.size \in Nat /\ p.redeemable \in BOOLEAN /\ Base(p, row) \in Nat
  BY DEF InputOver, Positions, Rows, Base
<1>2. CASE t \notin Listed(in)
  <2>1. p.size = 0
    BY <1>1, <1>2 DEF Listed
  <2> QED
    BY <1>2, <2>1 DEF ForToken, PlanGone, Quiet
<1>3. CASE t \in Listed(in) /\ ~Tracked(row)
  <2>1. p.size > 0
    BY <1>3 DEF Listed
  <2>2. CASE p.redeemable
    BY <1>1, <1>3, <2>1, <2>2 DEF ForToken, PlanHeld
  <2>3. CASE ~p.redeemable
    <3>1. ForToken(in, st, t) = PlanNew(in, st, t)
      BY <1>1, <1>3, <2>1, <2>3 DEF ForToken, PlanHeld
    <3>2. ~Shut(in, t, row)
      BY <1>1, <1>3, <2>1, <2>3 DEF Shut
    <3> DEFINE a == Action("open", t, OpenAmount(in, st, t), p.size, row)
    <3>3. a.tok = t /\ a.kind = "open"
      BY DEF Action
    <3>4. PlanNew(in, st, t) = st \/ PlanNew(in, st, t) = Buy(st, a)
      BY DEF PlanNew
    <3> HIDE DEF a
    <3> QED
      BY <3>1, <3>2, <3>3, <3>4
  <2> QED
    BY <2>2, <2>3
<1>4. CASE t \in Listed(in) /\ Tracked(row)
  <2>1. p.size > 0 /\ p.size # 0
    BY <1>1, <1>4 DEF Listed
  <2>2. ~p.redeemable /\ ~Shrank(p, row) /\ (Grew(p, row) => Blind(in, p, row))
    BY <1>4, <2>1 DEF Quiet
  <2>3. CASE Grew(p, row)
    <3>1. ForToken(in, st, t) = PlanGrowth(in, st, t)
      BY <1>4, <2>1, <2>2, <2>3 DEF ForToken, PlanHeld
    <3> QED
      BY <2>2, <2>3, <3>1 DEF PlanGrowth, Blind
  <2>4. CASE ~Grew(p, row)
    BY <1>4, <2>1, <2>2, <2>4 DEF ForToken, PlanHeld
  <2> QED
    BY <2>3, <2>4
<1> QED
  BY <1>2, <1>3, <1>4

\* The plan so far acted for tokens of T only, and leaves every one of them settled.
Settled(in, st, T) ==
    /\ \A i \in DOMAIN st.acts : st.acts[i].tok \in T
    /\ \A t \in T : Quiet(in, t, Done(st.acts).rows[t])
    /\ \A i \in DOMAIN st.acts : Shut(in, st.acts[i].tok, Done(st.acts).rows[st.acts[i].tok])

LEMMA SettledStep ==
    ASSUME LoopInv, NEW in, Current(in), NEW st, Within(in, st), NEW T \in SUBSET Tokens,
           Leaves(st, T), Settled(in, st, T), NEW t \in Tokens \ T,
           PlanStep(in, Rows, st, t, ForToken(in, st, t))
    PROVE  Settled(in, ForToken(in, st, t), T \cup {t})
<1> DEFINE next == ForToken(in, st, t)
           w == Done(st.acts)
           d == Done(next.acts)
<1>1. /\ InputOver(in, Rows) /\ st \in PlanStates(Rows) /\ st.acts \in Seq(Orderings)
      /\ in.rows[t] = rows[t] /\ w.rows[t] = rows[t] /\ TypeOK
  BY DEF Current, Within, PlanStates, Orderings, Leaves, LoopInv
<1> HIDE DEF next
<1>2. ASSUME next = st, Quiet(in, t, in.rows[t]) PROVE Settled(in, next, T \cup {t})
  <2>1. Quiet(in, t, w.rows[t])
    BY <1>1, <1>2
  <2>2. Settled(in, st, T \cup {t})
    BY <2>1 DEF Settled
  <2> QED
    BY <1>2, <2>2
<1>3. ASSUME NEW a, a.tok = t, next = Plan(st, a) \/ next = Buy(st, a),
             Quiet(in, t, After(in.rows[t], a)), Shut(in, t, After(in.rows[t], a))
      PROVE  Settled(in, next, T \cup {t})
  <2>1. \A e : Plan(st, e).acts = Append(st.acts, e) /\ Buy(st, e).acts = Append(st.acts, e)
    <3> TAKE e
    <3>1. Buy(st, e) = [left |-> st.left - e.amt, cash |-> st.cash - e.amt,
                        count |-> IF e.kind = "open" THEN st.count + 1 ELSE st.count,
                        acts |-> Append(st.acts, e)]
      BY <1>1, BuyTakes
    <3> QED
      BY <1>1, <3>1 DEF Plan, PlanStates
  <2>2. next.acts = Append(st.acts, a)
    BY <1>3, <2>1
  <2>3. next # st
    <3> DEFINE S == Orderings \cup {a}
    <3>1. st.acts \in Seq(S) /\ a \in S
      BY <1>1, SeqMonotonic
    <3>2. Len(Append(st.acts, a)) = Len(st.acts) + 1 /\ Len(st.acts) \in Nat
      <4> HIDE DEF S
      <4> QED
        BY <3>1, AppendProperties
    <3> QED
      BY <2>2, <3>2
  <2>4. PICK c \in Orderings : c.tok = t /\ (next = Plan(st, c) \/ next = Buy(st, c))
    BY <2>3 DEF PlanStep, Adds, Orderings, next
  <2>5. next.acts = Append(st.acts, a) /\ next.acts = Append(st.acts, c)
    BY <2>1, <2>2, <2>4
  <2>6. a = c
    <3> DEFINE S == Orderings \cup {a}
    <3>1. st.acts \in Seq(S) /\ a \in S /\ c \in S
      BY <1>1, SeqMonotonic
    <3>2. Append(st.acts, a)[Len(st.acts) + 1] = a /\ Append(st.acts, c)[Len(st.acts) + 1] = c
      <4> HIDE DEF S
      <4> QED
        BY <3>1, AppendProperties
    <3> QED
      BY <2>5, <3>2
  <2>7. d = Perform(w, a) /\ w \in Books /\ a \in Orderings
    BY <1>1, <2>5, <2>6, DoneAppend
  <2>8. d.rows = [w.rows EXCEPT ![t] = After(rows[t], a)]
    BY <1>1, <1>3, <2>7, PerformRow
  <2>9. \A x \in Tokens : d.rows[x] = IF x = t THEN After(rows[t], a) ELSE w.rows[x]
    BY <2>7, <2>8 DEF Books
  <2>10. /\ Len(st.acts) \in Nat /\ DOMAIN st.acts = 1..Len(st.acts)
        /\ DOMAIN next.acts = 1..(Len(st.acts) + 1) /\ next.acts[Len(st.acts) + 1] = a
        /\ \A i \in 1..Len(st.acts) : next.acts[i] = st.acts[i]
    <3>1. /\ Len(st.acts) \in Nat /\ DOMAIN st.acts = 1..Len(st.acts)
          /\ DOMAIN Append(st.acts, a) = 1..(Len(st.acts) + 1)
          /\ Append(st.acts, a)[Len(st.acts) + 1] = a
          /\ \A i \in 1..Len(st.acts) : Append(st.acts, a)[i] = st.acts[i]
      BY <1>1, <2>7, OneMore
    <3> QED
      BY <2>2, <3>1
  <2> HIDE DEF w, d
  <2>11. \A i \in DOMAIN st.acts : st.acts[i].tok \in T /\ st.acts[i].tok \in Tokens /\ st.acts[i].tok # t
    BY DEF Settled
  <2>12. \A x \in T \cup {t} : Quiet(in, x, d.rows[x])
    BY <1>1, <1>3, <2>9 DEF Settled, w
  <2>13. ASSUME NEW i \in DOMAIN next.acts
         PROVE  /\ next.acts[i].tok \in T \cup {t}
                /\ Shut(in, next.acts[i].tok, d.rows[next.acts[i].tok])
    <3>1. CASE i \in DOMAIN st.acts
      <4>1. next.acts[i] = st.acts[i]
        BY <2>10, <3>1
      <4>2. Shut(in, st.acts[i].tok, w.rows[st.acts[i].tok])
        BY <3>1 DEF Settled, w
      <4> QED
        BY <2>9, <2>11, <3>1, <4>1, <4>2
    <3>2. CASE i = Len(st.acts) + 1
      <4>1. next.acts[i].tok = t
        BY <1>3, <2>10, <3>2
      <4> QED
        BY <1>1, <1>3, <2>9, <4>1
    <3> QED
      BY <2>10, <2>13, <3>1, <3>2
  <2> QED
    BY <2>12, <2>13 DEF Settled, d
<1> QED
  <2>1. \/ next = st /\ Quiet(in, t, in.rows[t])
        \/ \E a : /\ a.tok = t /\ (next = Plan(st, a) \/ next = Buy(st, a))
                  /\ Quiet(in, t, After(in.rows[t], a)) /\ Shut(in, t, After(in.rows[t], a))
    BY <1>1, Settles DEF next
  <2>2. Settled(in, next, T \cup {t})
    <3> HIDE DEF w, d
    <3>1. CASE next = st /\ Quiet(in, t, in.rows[t])
      BY <1>2, <3>1
    <3>2. CASE ~ (next = st /\ Quiet(in, t, in.rows[t]))
      <4>1. PICK a : /\ a.tok = t /\ (next = Plan(st, a) \/ next = Buy(st, a))
                     /\ Quiet(in, t, After(in.rows[t], a)) /\ Shut(in, t, After(in.rows[t], a))
        BY <2>1, <3>2
      <4> QED
        BY <1>3, <4>1
    <3> QED
      BY <3>1, <3>2
  <2> QED
    BY <2>2 DEF next

-----------------------------------------------------------------------------
(* The whole plan.                                                         *)

Distinct(s) == \A i, j \in DOMAIN s : s[i] = s[j] => i = j
Covers(s) == \A t \in Tokens : \E i \in DOMAIN s : s[i] = t

\* The leader's list names every token once.
LEMMA OrdersDistinct ==
    ASSUME NEW order \in Orders
    PROVE  order \in Seq(Tokens) /\ Distinct(order) /\ Covers(order)
<1> DEFINE n == Cardinality(Tokens)
<1>1. n \in Nat /\ IsFiniteSet(Tokens)
  BY FS_CardinalityType, SettingsAssumption
<1>2. order \in [1..n -> Tokens] /\ \A t \in Tokens : \E i \in DOMAIN order : order[i] = t
  BY DEF Orders
<1> HIDE DEF n
<1>3. order \in Seq(Tokens)
  BY <1>1, <1>2, SeqDef
<1>4. IsFiniteSet(1..n) /\ Cardinality(1..n) = n
  BY <1>1, FS_Interval
<1>5. order \in Surjection(1..n, Tokens)
  BY <1>2 DEF Surjection
<1>6. order \in Injection(1..n, Tokens)
  <2>1. Cardinality(1..n) = Cardinality(Tokens)
    BY <1>4 DEF n
  <2> QED
    BY <1>1, <1>4, <1>5, <2>1, FS_SurjSameCardinalityImpliesInj
<1> QED
  BY <1>2, <1>3, <1>6 DEF Injection, IsInjective, Distinct, Covers

\* A part of the plan that acts for the tokens of X, after one that acted for others.
LEMMA PassKeeps ==
    ASSUME LoopInv, NEW in, Current(in), NEW s \in Seq(Tokens), Distinct(s), Covers(s),
           NEW D \in SUBSET Tokens, NEW X \in SUBSET Tokens, D \cap X = {}, NEW b, NEW result,
           Passes(in, Rows, X, b, s, result), Within(in, b), Leaves(b, D), Settled(in, b, D)
    PROVE  Within(in, result) /\ Leaves(result, D \cup X) /\ Settled(in, result, D \cup X)
<1> DEFINE n == Len(s)
           T(i) == D \cup ({s[j] : j \in 1..i} \cap X)
<1>1. n \in Nat /\ DOMAIN s = 1..n /\ \A i \in 1..n : s[i] \in Tokens
  BY LenProperties
<1>2. PICK g \in [0..n -> PlanStates(Rows)] :
        g[0] = b /\ g[n] = result /\ Goes(in, Rows, X, s, g)
  BY DEF Passes
<1> DEFINE Good(i) == Within(in, g[i]) /\ Leaves(g[i], T(i)) /\ Settled(in, g[i], T(i))
           B == {i \in 0..n : ~ Good(i)}
<1>3. Good(0)
  <2>1. T(0) = D
    OBVIOUS
  <2> HIDE DEF T
  <2> QED
    BY <1>2, <2>1
<1>4. ASSUME NEW i \in 1..n, Good(i - 1) PROVE Good(i)
  <2>1. /\ PlanStep(in, Rows, g[i - 1], s[i], g[i])
        /\ g[i] = IF s[i] \in X THEN ForToken(in, g[i - 1], s[i]) ELSE g[i - 1]
    BY <1>2 DEF Goes
  <2>2. s[i] \in Tokens
    BY <1>1
  <2>3. {s[j] : j \in 1..i} = {s[j] : j \in 1..(i - 1)} \cup {s[i]}
    OBVIOUS
  <2>4. CASE s[i] \notin X
    <3>1. T(i) = T(i - 1)
      BY <2>3, <2>4
    <3> HIDE DEF T
    <3> QED
      BY <1>4, <2>1, <2>4, <3>1
  <2>5. CASE s[i] \in X
    <3>1. T(i) = T(i - 1) \cup {s[i]}
      BY <2>3, <2>5
    <3>2. s[i] \notin {s[j] : j \in 1..(i - 1)}
      BY <1>1 DEF Distinct
    <3>3. s[i] \notin T(i - 1)
      BY <2>5, <3>2
    <3>7. T(i - 1) \in SUBSET Tokens
      OBVIOUS
    <3> HIDE DEF T
    <3>4. Within(in, g[i])
      BY <1>4, <2>1, <2>2, WithinStep
    <3>5. Leaves(g[i], T(i - 1) \cup {s[i]})
      <4>1. s[i] \in Tokens \ T(i - 1)
        BY <2>2, <3>3
      <4> QED
        BY <1>4, <2>1, <4>1, LeavesStep
    <3>6. Settled(in, g[i], T(i - 1) \cup {s[i]})
      <4>1. s[i] \in Tokens \ T(i - 1) /\ T(i - 1) \in SUBSET Tokens
        BY <2>2, <3>3, <3>7
      <4>2. g[i] = ForToken(in, g[i - 1], s[i])
        BY <2>1, <2>5
      <4> QED
        BY <1>4, <2>1, <4>1, <4>2, SettledStep
    <3> QED
      BY <3>1, <3>4, <3>5, <3>6
  <2> QED
    BY <2>4, <2>5
<1>5. B = {}
  <2> SUFFICES ASSUME B # {} PROVE FALSE
    OBVIOUS
  <2>1. B \subseteq Nat /\ \A i \in B : i \in 0..n /\ ~ Good(i)
    OBVIOUS
  <2>2. \A i \in 0..n : i \notin B => Good(i)
    OBVIOUS
  <2> HIDE DEF B, Good
  <2>3. PICK m \in B : \A j \in B : m <= j
    BY <2>1, Least
  <2>4. m \in 1..n /\ m - 1 \in 0..n /\ ~ (m <= m - 1)
    BY <1>3, <2>1
  <2> QED
    BY <1>4, <2>1, <2>2, <2>3, <2>4
<1>6. n \in 0..n /\ Good(n)
  BY <1>1, <1>5
<1>7. T(n) = D \cup X
  BY <1>1 DEF Covers
<1> HIDE DEF T
<1> QED
  BY <1>2, <1>6, <1>7

LEMMA InputsCurrent ==
    ASSUME LoopInv, NEW in \in Inputs
    PROVE  Current(in)
<1>1. /\ in.rows = rows /\ in.cash = cash /\ in.pos = pos /\ in.blocked \in BOOLEAN
      /\ in.mode \in {"position", "capital"} /\ in.leaderCash \in {Unknown, LeaderCash}
  BY DEF Inputs, PositionInputs, CapitalInputs
<1>2. LeaderCash \in Nat
  BY LoopAssumption
<1> QED
  BY <1>1, <1>2 DEF Current, InputOver, LoopInv, TypeOK

\* A whole plan fits the budget and leaves a book of whole rows.
LEMMA PlanKeeps ==
    ASSUME LoopInv, NEW in \in Inputs, NEW order \in Orders
    PROVE  /\ Within(in, Planned(in, order)) /\ Leaves(Planned(in, order), Tokens)
           /\ Settled(in, Planned(in, order), Tokens)
<1>1. Current(in) /\ InputOver(in, Rows) /\ RowsOver(Rows)
  BY InputsCurrent, RowsOverRows DEF Current
<1>2. order \in Seq(Tokens) /\ Distinct(order) /\ Covers(order)
  BY OrdersDistinct
<1> DEFINE b == Budget(in)
<1>3. b \in PlanStates(Rows) /\ b.acts = <<>> /\ b.left >= 0 /\ b.left \in Int /\ b.count \in Int
  BY <1>1, BudgetTyped DEF PlanStates
<1> HIDE DEF b
<1>4. Spent(b.acts) = 0 /\ Done(b.acts) = Book /\ Opens(b.acts) = 0
  BY <1>3, NoOrders DEF LoopInv
<1>5. Within(in, b)
  <2>1. DOMAIN b.acts = {}
    BY <1>3, EmptySeq
  <2>2. b.left = Budget(in).left - 0 /\ b.count = Budget(in).count + 0
    BY <1>3 DEF b
  <2> QED
    BY <1>3, <1>4, <2>1, <2>2 DEF Within
<1>6. Leaves(b, {}) /\ Settled(in, b, {})
  <2>1. DOMAIN b.acts = {}
    BY <1>3, EmptySeq
  <2> QED
    BY <1>4, <2>1 DEF Leaves, LoopInv, TypeOK, NoneEmpty, Book, Settled
<1>7. Passes(in, Rows, Listed(in), b, order, Followed(in, order))
  BY <1>1, <1>2, <1>3, FollowedPasses DEF b
<1>8. /\ Within(in, Followed(in, order)) /\ Leaves(Followed(in, order), {} \cup Listed(in))
      /\ Settled(in, Followed(in, order), {} \cup Listed(in))
  <2>1. {} \cap Listed(in) = {} /\ {} \in SUBSET Tokens /\ Listed(in) \in SUBSET Tokens
    BY DEF Listed
  <2> QED
    BY <1>1, <1>2, <1>5, <1>6, <1>7, <2>1, PassKeeps
<1>9. Passes(in, Rows, Tokens \ Listed(in), Followed(in, order), order, Planned(in, order))
  BY <1>1, <1>2, <1>8, GonePasses DEF Within
<1>10. Leaves(Followed(in, order), Listed(in)) /\ Settled(in, Followed(in, order), Listed(in))
  <2>1. {} \cup Listed(in) = Listed(in)
    OBVIOUS
  <2> QED
    BY <1>8, <2>1
<1>11. /\ Within(in, Planned(in, order))
       /\ Leaves(Planned(in, order), Listed(in) \cup (Tokens \ Listed(in)))
       /\ Settled(in, Planned(in, order), Listed(in) \cup (Tokens \ Listed(in)))
  <2>1. Listed(in) \cap (Tokens \ Listed(in)) = {} /\ Listed(in) \in SUBSET Tokens
    BY DEF Listed
  <2> QED
    BY <1>1, <1>2, <1>8, <1>9, <1>10, <2>1, PassKeeps
<1>12. Listed(in) \cup (Tokens \ Listed(in)) = Tokens
  BY DEF Listed
<1> QED
  BY <1>11, <1>12

\* What fits the budget fits the cash and the exposure cap.
LEMMA SpendsCash ==
    ASSUME NEW in, Current(in), NEW st, Within(in, st)
    PROVE  /\ Spent(st.acts) \in Nat /\ Spent(st.acts) <= cash
           /\ Spent(st.acts) > 0 => Outlay(rows) + Spent(st.acts) <= Settings.exposure
<1>1. /\ Budget(in).left \in Int /\ Budget(in).left <= in.cash
      /\ Budget(in).left > 0 => Outlay(in.rows) + Budget(in).left <= Settings.exposure
  BY RowsOverRows, BudgetTyped DEF Current, PlanStates
<1>2. st.left >= 0 /\ st.left \in Int /\ st.left = Budget(in).left - Spent(st.acts)
  BY DEF Within, PlanStates
<1>3. Spent(st.acts) \in Nat
  BY SpentTyped DEF Within, PlanStates, Orderings
<1>4. Outlay(rows) \in Nat /\ in.cash \in Nat /\ Settings.exposure \in Nat
  BY OutlayTyped, RowsOverRows, SettingsAssumption DEF Current, InputOver, SettingsType
<1>5. in.cash = cash /\ in.rows = rows
  BY DEF Current
<1> QED
  BY <1>1, <1>2, <1>3, <1>4, <1>5

\* A plan carried out leaves whole rows and no debt.
LEMMA PlanLeaves ==
    ASSUME LoopInv, NEW in \in Inputs, NEW order \in Orders
    PROVE  LET w == Done(Planned(in, order).acts)
           IN  /\ w.rows \in [Tokens -> Rows] /\ w.cash \in Nat
               /\ \A t \in Tokens : w.rows[t].st = "none" => w.rows[t].shares = 0
<1> DEFINE st == Planned(in, order)
           w == Done(st.acts)
<1>1. Within(in, st) /\ Leaves(st, Tokens)
  BY PlanKeeps
<1>2. st.acts \in Seq(Orderings)
  BY <1>1 DEF Within, PlanStates, Orderings
<1> HIDE DEF st
<1>3. w \in Books
  BY <1>2, DoneTyped DEF LoopInv
<1>4. w.rows \in [Tokens -> Rows] /\ \A t \in Tokens : w.rows[t].st = "none" => w.rows[t].shares = 0
  BY <1>1, <1>3 DEF Leaves, Books
<1>5. w.cash \in Nat
  <2>1. Spent(st.acts) <= cash /\ Spent(st.acts) \in Nat
    BY <1>1, InputsCurrent, SpendsCash
  <2>2. w.cash \in Int /\ cash \in Nat /\ w.cash >= cash - Spent(st.acts)
    BY <1>1, <1>3 DEF Books, Leaves, LoopInv, TypeOK
  <2> HIDE DEF w
  <2> QED
    BY <2>1, <2>2
<1> QED
  BY <1>4, <1>5 DEF st

-----------------------------------------------------------------------------
(* The invariant.                                                          *)

LEMMA LoopInit == Init => LoopInv
BY LoopAssumption DEF Init, LoopInv, TypeOK, NoneEmpty, Flat, Positions, NoRow, Rows

LEMMA LoopStep == LoopInv /\ [Next]_vars => LoopInv'
<1> SUFFICES ASSUME LoopInv, [Next]_vars PROVE LoopInv'
  OBVIOUS
<1>1. CASE LeaderMoves
  <2>1. PICK t \in Tokens, n \in 0..MaxSize, inBand \in BOOLEAN :
           pos' = [pos EXCEPT ![t] = [size |-> n, redeemable |-> FALSE, inBand |-> inBand]]
    BY <1>1 DEF LeaderMoves
  <2>2. [size |-> n, redeemable |-> FALSE, inBand |-> inBand] \in Positions
    BY LoopAssumption DEF Positions
  <2>3. pos' \in [Tokens -> Positions]
    BY <2>1, <2>2 DEF LoopInv, TypeOK
  <2> QED
    BY <1>1, <2>3 DEF LeaderMoves, LoopInv, TypeOK, NoneEmpty
<1>2. CASE MarketResolves
  <2>1. PICK t \in Tokens : pos' = [pos EXCEPT ![t].redeemable = TRUE]
    BY <1>2 DEF MarketResolves
  <2>2. [pos[t] EXCEPT !.redeemable = TRUE] \in Positions
    BY DEF LoopInv, TypeOK, Positions
  <2>3. pos' \in [Tokens -> Positions]
    BY <2>1, <2>2 DEF LoopInv, TypeOK
  <2> QED
    BY <1>2, <2>3 DEF MarketResolves, LoopInv, TypeOK, NoneEmpty
<1>3. CASE Pass
  <2>1. PICK in \in Inputs, order \in Orders :
           /\ rows' = Done(Planned(in, order).acts).rows
           /\ cash' = Done(Planned(in, order).acts).cash
           /\ pos' = pos
    BY <1>3 DEF Pass, PlanActions
  <2> DEFINE st == Planned(in, order)
             w == Done(st.acts)
  <2>2. w.rows \in [Tokens -> Rows] /\ \A t \in Tokens : w.rows[t].st = "none" => w.rows[t].shares = 0
    BY PlanLeaves
  <2>3. w.cash \in Nat
    BY PlanLeaves
  <2>4. rows' = w.rows /\ cash' = w.cash /\ pos' = pos
    BY <2>1 DEF st
  <2> HIDE DEF w
  <2> QED
    BY <2>2, <2>3, <2>4 DEF LoopInv, TypeOK, NoneEmpty
<1>4. CASE UNCHANGED vars
  BY <1>4 DEF vars, LoopInv, TypeOK, NoneEmpty
<1> QED
  BY <1>1, <1>2, <1>3, <1>4 DEF Next

\* Every pass of the loop leaves a book of whole, non-negative holdings, whatever the
\* leader's list and its order.
THEOREM LoopTypes == Spec => []TypeOK
<1>1. Init => LoopInv
  BY LoopInit
<1>2. LoopInv /\ [Next]_vars => LoopInv'
  BY LoopStep
<1>3. LoopInv => TypeOK
  BY DEF LoopInv
<1> QED
  BY <1>1, <1>2, <1>3, PTL DEF Spec

LEMMA PlanFits == LoopInv => PlanWithinLimits
<1> SUFFICES ASSUME LoopInv, NEW in \in Inputs, NEW order \in Orders
             PROVE  LET acts == PlanActions(in, order)
                        held == {t \in Tokens : Tracked(rows[t])}
                    IN /\ Spent(acts) <= cash
                       /\ Spent(acts) > 0 => Outlay(rows) + Spent(acts) <= Settings.exposure
                       /\ Opens(acts) > 0 => Cardinality(held) + Opens(acts) <= Settings.maxOpen
                       /\ \A i \in DOMAIN acts : IsBuy(acts[i]) =>
                             acts[i].amt + rows[acts[i].tok].shares <= Settings.maxPos
  BY DEF PlanWithinLimits
<1> DEFINE st == Planned(in, order)
<1>1. Within(in, st) /\ Current(in) /\ PlanActions(in, order) = st.acts
  BY PlanKeeps, InputsCurrent DEF PlanActions
<1>2. Budget(in).count = Cardinality({t \in Tokens : Tracked(rows[t])}) /\ in.rows = rows
  BY <1>1, RowsOverRows, BudgetTyped DEF Current
<1> HIDE DEF st
<1>3. /\ Spent(st.acts) <= cash
      /\ Spent(st.acts) > 0 => Outlay(rows) + Spent(st.acts) <= Settings.exposure
  BY <1>1, SpendsCash
<1>4. Opens(st.acts) > 0 => Cardinality({t \in Tokens : Tracked(rows[t])}) + Opens(st.acts) <= Settings.maxOpen
  BY <1>1, <1>2 DEF Within
<1>5. \A i \in DOMAIN st.acts : IsBuy(st.acts[i]) =>
         st.acts[i].amt + rows[st.acts[i].tok].shares <= Settings.maxPos
  BY <1>1, <1>2 DEF Within
<1> QED
  BY <1>1, <1>3, <1>4, <1>5

\* However many orders one plan holds, its BUYs together fit the cash, the exposure cap,
\* the number of open copies and the cap per position (plan_actions).
THEOREM PlansStayWithinLimits == Spec => []PlanWithinLimits
<1>1. Init => LoopInv
  BY LoopInit
<1>2. LoopInv /\ [Next]_vars => LoopInv'
  BY LoopStep
<1>3. LoopInv => PlanWithinLimits
  BY PlanFits
<1> QED
  BY <1>1, <1>2, <1>3, PTL DEF Spec

-----------------------------------------------------------------------------
(* Planning again.                                                         *)

OnlyOpens(acts, K) == \A i \in DOMAIN acts : acts[i].kind = "open" /\ acts[i].tok \notin K

\* Over settled copies the plan opens new ones and does nothing else.
LEMMA PassOpens ==
    ASSUME NEW in, InputOver(in, Rows), NEW K, NEW s \in Seq(Tokens),
           \A t \in Tokens : Quiet(in, t, in.rows[t]) /\ (t \in K => Shut(in, t, in.rows[t])),
           NEW X, NEW b, NEW result, Passes(in, Rows, X, b, s, result), OnlyOpens(b.acts, K)
    PROVE  OnlyOpens(result.acts, K)
<1> DEFINE n == Len(s)
<1>1. n \in Nat /\ DOMAIN s = 1..n /\ \A i \in 1..n : s[i] \in Tokens
  BY LenProperties
<1>2. PICK g \in [0..n -> PlanStates(Rows)] :
        g[0] = b /\ g[n] = result /\ Goes(in, Rows, X, s, g)
  BY DEF Passes
<1> DEFINE Good(i) == OnlyOpens(g[i].acts, K)
           B == {i \in 0..n : ~ Good(i)}
<1>3. Good(0)
  BY <1>2
<1>4. ASSUME NEW i \in 1..n, Good(i - 1) PROVE Good(i)
  <2> DEFINE st == g[i - 1]
             t == s[i]
  <2>1. st \in PlanStates(Rows) /\ t \in Tokens /\ g[i] = IF t \in X THEN ForToken(in, st, t) ELSE st
    BY <1>1, <1>2 DEF Goes
  <2>2. st.acts \in Seq(Orderings) /\ OnlyOpens(st.acts, K)
    BY <1>4, <2>1 DEF PlanStates, Orderings
  <2> SUFFICES OnlyOpens(g[i].acts, K)
    OBVIOUS
  <2> HIDE DEF st, t, Good
  <2>3. CASE g[i] = st
    BY <2>2, <2>3
  <2>4. ASSUME NEW a, a.tok = t, a.kind = "open", ~Shut(in, t, in.rows[t]), g[i] = Buy(st, a)
        PROVE  OnlyOpens(g[i].acts, K)
    <3>1. t \notin K
      BY <2>1, <2>4
    <3>2. g[i].acts = Append(st.acts, a)
      <4>1. Buy(st, a) = [left |-> st.left - a.amt, cash |-> st.cash - a.amt,
                          count |-> IF a.kind = "open" THEN st.count + 1 ELSE st.count,
                          acts |-> Append(st.acts, a)]
        BY <2>1, BuyTakes
      <4> QED
        BY <2>4, <4>1
    <3> DEFINE S == Orderings \cup {a}
    <3>3. st.acts \in Seq(S) /\ a \in S
      BY <2>2, SeqMonotonic
    <3> HIDE DEF S
    <3>4. /\ DOMAIN st.acts = 1..Len(st.acts) /\ Len(st.acts) \in Nat
          /\ Append(st.acts, a) \in Seq(S)
          /\ Len(Append(st.acts, a)) = Len(st.acts) + 1
          /\ Append(st.acts, a)[Len(st.acts) + 1] = a
          /\ \A j \in 1..Len(st.acts) : Append(st.acts, a)[j] = st.acts[j]
      BY <3>3, LenProperties, AppendProperties
    <3>5. DOMAIN g[i].acts = 1..(Len(st.acts) + 1)
      BY <3>2, <3>4, LenProperties
    <3>6. ASSUME NEW j \in DOMAIN g[i].acts PROVE g[i].acts[j].kind = "open" /\ g[i].acts[j].tok \notin K
      <4>1. CASE j \in 1..Len(st.acts)
        BY <2>2, <3>2, <3>4, <4>1 DEF OnlyOpens
      <4>2. CASE j = Len(st.acts) + 1
        BY <2>4, <3>1, <3>2, <3>4, <4>2
      <4> QED
        BY <3>4, <3>5, <3>6, <4>1, <4>2
    <3> QED
      BY <3>6 DEF OnlyOpens
  <2>5. \/ ForToken(in, st, t) = st
        \/ /\ ~Shut(in, t, in.rows[t])
           /\ \E a : a.tok = t /\ a.kind = "open" /\ ForToken(in, st, t) = Buy(st, a)
    BY <2>1, QuietPlan
  <2> QED
    BY <2>1, <2>3, <2>4, <2>5
<1>5. B = {}
  <2> SUFFICES ASSUME B # {} PROVE FALSE
    OBVIOUS
  <2>1. B \subseteq Nat /\ \A i \in B : i \in 0..n /\ ~ Good(i)
    OBVIOUS
  <2>2. \A i \in 0..n : i \notin B => Good(i)
    OBVIOUS
  <2> HIDE DEF B, Good
  <2>3. PICK m \in B : \A j \in B : m <= j
    BY <2>1, Least
  <2>4. m \in 1..n /\ m - 1 \in 0..n /\ ~ (m <= m - 1)
    BY <1>3, <2>1
  <2> QED
    BY <1>4, <2>1, <2>2, <2>3, <2>4
<1>6. n \in 0..n /\ Good(n)
  BY <1>1, <1>5
<1> QED
  BY <1>2, <1>6

\* Only the rows and the cash of the inputs changed.
LEMMA SameLeader ==
    ASSUME LoopInv, NEW in \in Inputs, NEW R \in [Tokens -> Rows], NEW c \in Nat
    PROVE  LET next == [in EXCEPT !.rows = R, !.cash = c]
           IN  /\ InputOver(next, Rows) /\ next.rows = R
               /\ \A t, r : /\ Quiet(in, t, r) => Quiet(next, t, r)
                            /\ Shut(in, t, r) => Shut(next, t, r)
<1> DEFINE next == [in EXCEPT !.rows = R, !.cash = c]
<1>1. InputOver(in, Rows)
  BY InputsCurrent DEF Current
<1>2. /\ next.rows = R /\ next.cash = c /\ next.pos = in.pos /\ next.mode = in.mode
      /\ next.blocked = in.blocked /\ next.complete = in.complete
      /\ next.leaderCash = in.leaderCash
  BY DEF Inputs, PositionInputs, CapitalInputs
<1> HIDE DEF next
<1>3. InputOver(next, Rows)
  BY <1>1, <1>2 DEF InputOver
<1>4. \A t, r : Quiet(in, t, r) => Quiet(next, t, r)
  BY <1>2 DEF Quiet, Blind
<1>5. \A t, r : Shut(in, t, r) => Shut(next, t, r)
  BY <1>2 DEF Shut
<1> QED
  BY <1>2, <1>3, <1>4, <1>5 DEF next

LEMMA PlanRests == LoopInv => PlanSettles
<1> SUFFICES ASSUME LoopInv, NEW in \in Inputs, NEW order \in Orders
             PROVE  LET acts == PlanActions(in, order)
                        done == Done(acts)
                        traded == {acts[i].tok : i \in DOMAIN acts}
                        again == PlanActions([in EXCEPT !.rows = done.rows, !.cash = done.cash], order)
                    IN \A i \in DOMAIN again : again[i].kind = "open" /\ again[i].tok \notin traded
  BY DEF PlanSettles
<1> DEFINE acts == PlanActions(in, order)
           done == Done(acts)
           traded == {acts[i].tok : i \in DOMAIN acts}
           next == [in EXCEPT !.rows = done.rows, !.cash = done.cash]
<1>1. acts = Planned(in, order).acts
  BY DEF PlanActions
<1>2. done.rows \in [Tokens -> Rows] /\ done.cash \in Nat
  BY <1>1, PlanLeaves
<1>3. /\ \A t \in Tokens : Quiet(in, t, done.rows[t])
      /\ \A i \in DOMAIN acts : Shut(in, acts[i].tok, done.rows[acts[i].tok])
  BY <1>1, PlanKeeps DEF Settled
<1> HIDE DEF acts, done
<1>4. \A t \in traded : Shut(in, t, done.rows[t])
  BY <1>3
<1>5. /\ InputOver(next, Rows) /\ next.rows = done.rows
      /\ \A t, r : (Quiet(in, t, r) => Quiet(next, t, r)) /\ (Shut(in, t, r) => Shut(next, t, r))
  BY <1>2, SameLeader
<1> HIDE DEF next, traded
<1>6. \A t \in Tokens : Quiet(next, t, next.rows[t]) /\ (t \in traded => Shut(next, t, next.rows[t]))
  BY <1>3, <1>4, <1>5
<1>7. order \in Seq(Tokens) /\ RowsOver(Rows)
  BY OrdersDistinct, RowsOverRows
<1>8. Budget(next) \in PlanStates(Rows) /\ OnlyOpens(Budget(next).acts, traded)
  <2>1. Budget(next) \in PlanStates(Rows) /\ Budget(next).acts = <<>>
    BY <1>5, <1>7, BudgetTyped
  <2>2. DOMAIN <<>> = {}
    BY EmptySeq
  <2> QED
    BY <2>1, <2>2 DEF OnlyOpens
<1>9. /\ Passes(next, Rows, Listed(next), Budget(next), order, Followed(next, order))
      /\ Followed(next, order) \in PlanStates(Rows)
  <2>1. Passes(next, Rows, Listed(next), Budget(next), order, Followed(next, order))
    BY <1>5, <1>7, <1>8, FollowedPasses
  <2>2. Len(order) \in Nat
    BY <1>7, LenProperties
  <2> QED
    BY <2>1, <2>2 DEF Passes
<1>10. OnlyOpens(Followed(next, order).acts, traded)
  BY <1>5, <1>6, <1>7, <1>8, <1>9, PassOpens
<1>11. Passes(next, Rows, Tokens \ Listed(next), Followed(next, order), order, Planned(next, order))
  BY <1>5, <1>7, <1>9, GonePasses
<1>12. OnlyOpens(Planned(next, order).acts, traded)
  BY <1>5, <1>6, <1>7, <1>10, <1>11, PassOpens
<1>13. \A i \in DOMAIN PlanActions(next, order) :
          PlanActions(next, order)[i].kind = "open" /\ PlanActions(next, order)[i].tok \notin traded
  BY <1>12 DEF PlanActions, OnlyOpens
<1> QED
  BY <1>13 DEF acts, done, next, traded

\* A plan that was carried out has nothing left to do but open copies it had no means for:
\* the follower of a resting leader does not pay the spread pass after pass.
THEOREM PlansSettle == Spec => []PlanSettles
<1>1. Init => LoopInv
  BY LoopInit
<1>2. LoopInv /\ [Next]_vars => LoopInv'
  BY LoopStep
<1>3. LoopInv => PlanSettles
  BY PlanRests
<1> QED
  BY <1>1, <1>2, <1>3, PTL DEF Spec
=============================================================================
