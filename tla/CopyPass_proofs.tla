---------------------------- MODULE CopyPass_proofs ----------------------------
(***************************************************************************)
(* Proofs about the copies of one leader: types, exclusive SELLs, backed   *)
(* rows and the limit per position, for any tokens, rows, limits and       *)
(* bounds.                                                                 *)
(***************************************************************************)
EXTENDS CopyPass, CopyPlan_proofs

Planned1 == PlannedOver(Rows)
Passes1 == [pc: {"idle", "read", "run"}, rows: [Tokens -> Rows], cash: Nat, acts: Seq(Planned1)]

SentSell(w) == job[w].pc = "sent" /\ job[w].kind \in {"decrease", "close"}
SentBuy(w) == job[w].pc = "sent" /\ job[w].kind \in {"open", "increase"}

\* Every value has its type; a busy actor works on a token.
Typed == /\ TypeOK /\ pass \in Passes1
         /\ \A w \in Actors : Busy(w) => job[w].tok \in Tokens

\* A claim fences exactly the BUY that is out; an external order is a close.
Claimed ==
    /\ \A w \in Actors : SentBuy(w) => claim[job[w].tok] = w
    /\ \A t \in Tokens, v \in Actors : claim[t] = v => SentBuy(v) /\ job[v].tok = t
    /\ job["external"].kind = "close"

\* The SELL of a row that was not raced was sized from the row as it is, and the wallet
\* holds what the row promises.
Backed ==
    \A w \in Actors \ {"external"} :
       (SentSell(w) /\ job[w].tok \notin raced) =>
          /\ row[job[w].tok].shares = job[w].row.shares
          /\ row[job[w].tok].shares <= wallet[job[w].tok]

Safe == Claimed /\ SellsExclusive /\ Backed /\ RowBackedUnlessRaced /\ HoldingWithinLimit
IInv == Typed /\ Safe

-----------------------------------------------------------------------------
(* Types.                                                                  *)

LEMMA RowsAreRows == RowsOver(Rows) /\ NoRow \in Rows
BY PassAssumption DEF RowsOver, Rows, NoRow

LEMMA WantedTyped ==
    ASSUME NEW s \in Seq(Planned1)
    PROVE  Wanted(s) \in Seq(Planned1)
<1> DEFINE n == Len(s)
           V == Seq(Planned1)
           K(kept, a) == IF a.kind = "open" /\ a.tok \in preexisting THEN kept ELSE Append(kept, a)
           G == [p \in V \X Planned1 |-> K(p[1], p[2])]
           P(h) == h = [r \in SUBSET (DOMAIN s) |->
                          IF r = {} THEN <<>> ELSE K(h[r \ {Max(r)}], s[Max(r)])]
<1>1. n \in Nat /\ DOMAIN s = 1..n /\ s \in [1..n -> Planned1]
  OBVIOUS
<1>2. \A kept \in V, a \in Planned1 : G[<<kept, a>>] = K(kept, a)
  OBVIOUS
<1>3. G \in [V \X Planned1 -> V]
  OBVIOUS
<1>4. Wanted(s) = (CHOOSE h : P(h))[DOMAIN s]
  BY DEF Wanted, FoldLeft, MapThenFoldSet
<1>b. <<>> \in V
  OBVIOUS
<1> HIDE DEF G, V, K
<1>5. \E h : P(h)
  <2>1. PICK h \in [SUBSET (1..n) -> V] : Folds(G, <<>>, n, s, h)
    <3>1. n \in Nat /\ s \in [1..n -> Planned1]
      BY <1>1
    <3> HIDE DEF P, n
    <3> QED
      BY <1>3, <1>b, <3>1, FoldExists DEF Computable
  <2>2. \A r \in SUBSET (1..n) : r # {} =>
           G[<<h[r \ {Max(r)}], s[Max(r)]>>] = K(h[r \ {Max(r)}], s[Max(r)])
    <3> TAKE r \in SUBSET (1..n)
    <3> HAVE r # {}
    <3>1. Max(r) \in 1..n
      BY <1>1, MaxOfPlaces
    <3>2. h[r \ {Max(r)}] \in V /\ s[Max(r)] \in Planned1
      BY <1>1, <3>1
    <3> QED
      BY <1>2, <3>2
  <2>3. h = [r \in SUBSET (DOMAIN s) |->
               IF r = {} THEN <<>> ELSE K(h[r \ {Max(r)}], s[Max(r)])]
    BY <1>1, <2>1, <2>2 DEF Folds
  <2> QED
    BY <2>3
<1>6. P(CHOOSE h : P(h))
  <2> HIDE DEF P
  <2> QED
    BY <1>5
<1>7. PICK h : P(h) /\ Wanted(s) = h[1..n]
  BY <1>1, <1>4, <1>6
<1>8. FoldsUp(G, V, <<>>, n, s, h)
  <2>1. h[{}] = <<>>
    BY <1>7
  <2>2. ASSUME NEW r \in SUBSET (1..n), r # {}, h[r \ {Max(r)}] \in V
        PROVE  h[r] = G[<<h[r \ {Max(r)}], s[Max(r)]>>]
    <3>1. h[r] = K(h[r \ {Max(r)}], s[Max(r)])
      BY <1>1, <1>7, <2>2
    <3>2. Max(r) \in 1..n
      BY <1>1, <2>2, MaxOfPlaces
    <3>3. s[Max(r)] \in Planned1
      BY <1>1, <3>2
    <3> QED
      BY <1>2, <2>2, <3>1, <3>3
  <2> HIDE DEF P
  <2> QED
    BY <2>1, <2>2 DEF FoldsUp
<1>9. Traced(G, V, <<>>, n, s, h[1..n])
  <2> HIDE DEF P, n
  <2>1. n \in Nat /\ s \in [1..n -> Planned1]
    BY <1>1 DEF n
  <2> QED
    BY <1>3, <1>8, <1>b, <2>1, FoldTrace
<1>10. h[1..n] \in V
  BY <1>1, <1>9 DEF Traced
<1> QED
  BY <1>7, <1>10 DEF V

\* What the user's rows have at risk is a number.
LEMMA AtRiskTyped ==
    ASSUME row \in [Tokens -> Rows]
    PROVE  AtRisk \in Nat
<1> DEFINE risk(t) == IF Copied(t) THEN row[t].shares ELSE 0
           F == [t \in Tokens |-> risk(t)]
           P(h) == h = [s \in SUBSET Tokens |->
                          IF s = {} THEN 0
                          ELSE risk(CHOOSE x \in s : TRUE) + h[s \ {CHOOSE x \in s : TRUE}]]
<1>1. IsFiniteSet(Tokens) /\ F \in [Tokens -> Nat]
  BY SettingsAssumption DEF Rows
<1>2. AtRisk = (CHOOSE h : P(h))[Tokens]
  BY DEF AtRisk, MapThenSumSet, MapThenFoldSet
<1>3. \A x \in Tokens : F[x] = risk(x)
  OBVIOUS
<1> HIDE DEF F, risk
<1>4. \A h : SumsUp(F, Tokens, h) <=> P(h)
  <2>1. \A s \in SUBSET Tokens : s # {} => F[CHOOSE x \in s : TRUE] = risk(CHOOSE x \in s : TRUE)
    <3>1. \A s \in SUBSET Tokens : s # {} => (CHOOSE x \in s : TRUE) \in Tokens
      OBVIOUS
    <3> QED
      BY <1>3, <3>1
  <2> SUFFICES ASSUME NEW h PROVE SumsUp(F, Tokens, h) <=> P(h)
    OBVIOUS
  <2> DEFINE VF == [s \in SUBSET Tokens |->
                      IF s = {} THEN 0 ELSE F[CHOOSE x \in s : TRUE] + h[s \ {CHOOSE x \in s : TRUE}]]
             VR == [s \in SUBSET Tokens |->
                      IF s = {} THEN 0
                      ELSE risk(CHOOSE x \in s : TRUE) + h[s \ {CHOOSE x \in s : TRUE}]]
  <2>2. SumsUp(F, Tokens, h) <=> h = VF
    BY Zenon DEF SumsUp, Pick
  <2>3. P(h) <=> h = VR
    OBVIOUS
  <2> HIDE DEF P
  <2>4. \A s \in SUBSET Tokens :
           (IF s = {} THEN 0 ELSE F[CHOOSE x \in s : TRUE] + h[s \ {CHOOSE x \in s : TRUE}])
           = (IF s = {} THEN 0
              ELSE risk(CHOOSE x \in s : TRUE) + h[s \ {CHOOSE x \in s : TRUE}])
    BY <2>1
  <2>5. VF = VR
    BY <2>4
  <2> HIDE DEF VF, VR
  <2> QED
    BY <2>2, <2>3, <2>5
<1>5. P(CHOOSE h : P(h))
  <2> HIDE DEF P
  <2>1. \E h : P(h)
    BY <1>1, <1>4, SumExists
  <2> QED
    BY <2>1
<1> HIDE DEF P
<1>6. PICK h : SumsUp(F, Tokens, h) /\ AtRisk = h[Tokens]
  BY <1>2, <1>4, <1>5
<1> QED
  BY <1>1, <1>6, SumGrows

\* The step keeps the types.
Types == TypeOK' /\ pass' \in Passes1 /\ \A w \in Actors : Busy(w)' => job'[w].tok \in Tokens

\* One actor's job changes.
LEMMA JobTyped ==
    ASSUME Typed, NEW w \in Actors, NEW j \in Jobs, j.pc # "idle" => j.tok \in Tokens,
           job' = [job EXCEPT ![w] = j]
    PROVE  job' \in [Actors -> Jobs] /\ \A v \in Actors : Busy(v)' => job'[v].tok \in Tokens
BY DEF Typed, TypeOK, Busy

LEMMA IdleTyped == Idle \in Jobs /\ Idle.pc = "idle"
BY RowsAreRows DEF Idle, Jobs, Kinds

LEMMA RestingTyped == Resting \in Passes1
<1>1. <<>> \in Seq(Planned1)
  OBVIOUS
<1>2. NoRows \in [Tokens -> Rows]
  BY RowsAreRows DEF NoRows
<1> QED
  BY <1>1, <1>2 DEF Resting, Passes1

LEMMA LeaderTypes ==
    ASSUME Typed,
           \/ \E t \in Tokens, n \in 0..MaxSize : LeaderTrades(t, n)
           \/ \E t \in Tokens : Index(t) \/ Resolve(t)
           \/ LoseTrade
    PROVE  Types
<1>1. MaxSize \in Nat /\ MaxMoves \in Nat
  BY PassAssumption
<1>u. UNCHANGED <<row, claim, pass, job, attempts, preexisting, wallet, cash, faults, raced>>
  BY DEF LeaderTrades, Index, Resolve, LoseTrade
<1>2. ASSUME NEW t \in Tokens, NEW n \in 0..MaxSize, LeaderTrades(t, n)
      PROVE  leader' \in [Tokens -> 0..MaxSize] /\ feed' \in Seq(Trades) /\ moves' \in 0..MaxMoves
             /\ view' = view /\ resolved' = resolved
  <2>1. leader' \in [Tokens -> 0..MaxSize] /\ view' = view /\ resolved' = resolved
    BY <1>2 DEF LeaderTrades, Typed, TypeOK
  <2>2. moves' \in 0..MaxMoves
    BY <1>1, <1>2 DEF LeaderTrades, Typed, TypeOK
  <2>3. leader[t] \in 0..MaxSize /\ n # leader[t] /\ feed \in Seq(Trades)
    BY <1>2 DEF LeaderTrades, Typed, TypeOK
  <2>4. CASE n > leader[t]
    <3>1. [tok |-> t, side |-> "BUY", size |-> n - leader[t]] \in Trades
      BY <1>1, <2>3, <2>4 DEF Trades
    <3>2. feed' = Append(feed, [tok |-> t, side |-> "BUY", size |-> n - leader[t]])
      BY <1>2, <2>4 DEF LeaderTrades
    <3> QED
      BY <2>1, <2>2, <2>3, <3>1, <3>2
  <2>5. CASE ~(n > leader[t])
    <3>1. [tok |-> t, side |-> "SELL", size |-> leader[t] - n] \in Trades
      BY <1>1, <2>3, <2>5 DEF Trades
    <3>2. feed' = Append(feed, [tok |-> t, side |-> "SELL", size |-> leader[t] - n])
      BY <1>2, <2>5 DEF LeaderTrades
    <3> QED
      BY <2>1, <2>2, <2>3, <3>1, <3>2
  <2> QED
    BY <2>4, <2>5
<1>3. ASSUME NEW t \in Tokens, Index(t)
      PROVE  view' \in [Tokens -> 0..MaxSize] /\ UNCHANGED <<leader, feed, moves, resolved>>
  BY <1>3 DEF Index, Typed, TypeOK
<1>4. ASSUME NEW t \in Tokens, Resolve(t)
      PROVE  resolved' \subseteq Tokens /\ UNCHANGED <<leader, feed, moves, view>>
  BY <1>4 DEF Resolve, Typed, TypeOK
<1>5. ASSUME LoseTrade
      PROVE  feed' \in Seq(Trades) /\ UNCHANGED <<leader, view, moves, resolved>>
  BY <1>5 DEF LoseTrade, Typed, TypeOK
<1>6. /\ leader' \in [Tokens -> 0..MaxSize] /\ view' \in [Tokens -> 0..MaxSize]
      /\ feed' \in Seq(Trades) /\ moves' \in 0..MaxMoves /\ resolved' \subseteq Tokens
  BY <1>2, <1>3, <1>4, <1>5 DEF Typed, TypeOK
<1> QED
  BY <1>6, <1>u DEF Types, Typed, TypeOK, Busy

\* What the other steps leave alone.
LEMMA RestTypes ==
    ASSUME Typed, UNCHANGED <<leader, view, moves, resolved>>, feed' \in Seq(Trades),
           row' \in [Tokens -> Rows], claim' \in [Tokens -> Actors \cup {None}],
           job' \in [Actors -> Jobs], \A w \in Actors : Busy(w)' => job'[w].tok \in Tokens,
           attempts' \in [Tokens \X Kinds -> [n: 0..MaxAttempts, print: Nat]],
           preexisting' \subseteq Tokens, raced' \subseteq Tokens,
           wallet' \in [Tokens -> Nat], cash' \in Nat, faults' \in 0..MaxFaults,
           pass' \in Passes1
    PROVE  Types
BY DEF Types, Typed, TypeOK

\* The edits of a row keep its type.
LEMMA RowEdits ==
    ASSUME NEW r \in Rows
    PROVE  /\ \A st \in {"open", "closing", "review"} : [r EXCEPT !.st = st] \in Rows
           /\ [r EXCEPT !.st = "closing", !.dated = TRUE] \in Rows
           /\ \A n \in Nat : [r EXCEPT !.anchor = n] \in Rows
           /\ \A n \in Nat, k \in Nat : [r EXCEPT !.st = "open", !.anchor = n, !.shares = k] \in Rows
           /\ \A n \in Nat, k \in Nat : [r EXCEPT !.shares = k, !.anchor = n] \in Rows
BY DEF Rows

LEMMA RowSet ==
    ASSUME row \in [Tokens -> Rows], NEW t \in Tokens, NEW r \in Rows
    PROVE  [row EXCEPT ![t] = r] \in [Tokens -> Rows]
OBVIOUS

LEMMA JobFields ==
    ASSUME Typed, NEW w \in Actors
    PROVE  /\ job[w] \in Jobs /\ job[w].kind \in Kinds /\ job[w].row \in Rows
           /\ job[w].amt \in Nat /\ job[w].anchor \in Nat
           /\ job[w].pc # "idle" => job[w].tok \in Tokens
BY DEF Typed, TypeOK, Jobs, Busy

LEMMA RowFields ==
    ASSUME Typed, NEW t \in Tokens
    PROVE  /\ row[t] \in Rows /\ row[t].shares \in Nat /\ row[t].anchor \in Nat
           /\ wallet[t] \in Nat /\ cash \in Nat
BY DEF Typed, TypeOK, Rows

LEMMA CountTypes ==
    ASSUME Typed, NEW t \in Tokens, NEW kind \in Kinds, NEW print \in Nat
    PROVE  /\ Counted(t, kind, print) \in [Tokens \X Kinds -> [n: 0..MaxAttempts, print: Nat]]
           /\ Forgotten(t, kind) \in [Tokens \X Kinds -> [n: 0..MaxAttempts, print: Nat]]
<1>1. MaxAttempts \in Nat /\ 0 \in 0..MaxAttempts
  BY PassAssumption
<1>2. attempts \in [Tokens \X Kinds -> [n: 0..MaxAttempts, print: Nat]]
  BY DEF Typed, TypeOK
<1> DEFINE next == attempts[<<t, kind>>].n + 1
           m == Min({next, MaxAttempts})
<1>3. m \in 0..MaxAttempts
  <2>1. attempts[<<t, kind>>].n \in 0..MaxAttempts
    BY <1>2
  <2>2. next \in Nat /\ MaxAttempts \in Int
    BY <1>1, <2>1
  <2> HIDE DEF next
  <2>3. Min({next, MaxAttempts}) \in {next, MaxAttempts} /\ Min({next, MaxAttempts}) <= MaxAttempts
    BY <2>2, LeastOfTwo
  <2> QED
    BY <1>1, <2>2, <2>3
<1>4. Counted(t, kind, print) = [attempts EXCEPT ![<<t, kind>>] = [n |-> m, print |-> print]]
  BY DEF Counted
<1>5. Forgotten(t, kind) = [attempts EXCEPT ![<<t, kind>>] = [n |-> 0, print |-> 0]]
  BY DEF Forgotten
<1> HIDE DEF m
<1>6. /\ [n |-> m, print |-> print] \in [n: 0..MaxAttempts, print: Nat]
      /\ [n |-> 0, print |-> 0] \in [n: 0..MaxAttempts, print: Nat]
  BY <1>1, <1>3
<1> QED
  BY <1>2, <1>4, <1>5, <1>6

LEMMA LeftoverTyped ==
    ASSUME Typed, NEW j \in Jobs, j.tok \in Tokens
    PROVE  /\ Leftover(j) \in Rows
           /\ j.kind # "close" => Leftover(j).shares = Max({0, j.row.shares - j.amt})
<1>1. row[j.tok] \in Rows /\ j.anchor \in Nat /\ j.row.shares - j.amt \in Int
  BY DEF Typed, TypeOK, Jobs, Rows
<1>2. Max({0, j.row.shares - j.amt}) \in Nat
  <2> DEFINE d == j.row.shares - j.amt
  <2>1. d \in Int /\ 0 \in Int
    BY <1>1
  <2> HIDE DEF d
  <2>2. Max({0, d}) \in {0, d} /\ Max({0, d}) >= 0
    BY <2>1, GreatestOfTwo
  <2>3. Max({0, d}) \in Nat
    BY <2>1, <2>2
  <2> QED
    BY <2>3 DEF d
<1>3. j.kind # "close" =>
         Leftover(j) = [row[j.tok] EXCEPT !.st = "open", !.anchor = j.anchor,
                                          !.shares = Max({0, j.row.shares - j.amt})]
  BY DEF Leftover
<1>4. j.kind = "close" => Leftover(j) = NoRow
  BY DEF Leftover
<1> DEFINE k == Max({0, j.row.shares - j.amt})
<1> HIDE DEF k
<1>5. [row[j.tok] EXCEPT !.st = "open", !.anchor = j.anchor, !.shares = k] \in Rows
  BY <1>1, <1>2, RowEdits DEF k
<1>6. [row[j.tok] EXCEPT !.st = "open", !.anchor = j.anchor, !.shares = k].shares = k
  BY <1>1 DEF Rows
<1> QED
  BY <1>3, <1>4, <1>5, <1>6, RowsAreRows DEF k

SellEnds(w) == \/ SellFilled(w) \/ SellNotSent(w) \/ SellUnknown(w) \/ SellRaised(w)
               \/ (w = "pass" /\ BookGone)

LEMMA SellTypes ==
    ASSUME Typed, NEW w \in Actors, SellEnds(w)
    PROVE  Types
<1> DEFINE j == job[w]
<1>1. /\ j \in Jobs /\ j.kind \in Kinds /\ j.amt \in Nat /\ j.anchor \in Nat
      /\ j.tok \in Tokens
  <2>1. j.pc = "sent"
    BY DEF SellEnds, SellFilled, SellNotSent, SellUnknown, SellRaised, BookGone
  <2> QED
    BY <2>1, JobFields
<1>2. job' = [job EXCEPT ![w] = Idle]
  BY DEF SellEnds, SellFilled, SellNotSent, SellUnknown, SellRaised, BookGone
<1>3. job' \in [Actors -> Jobs] /\ \A v \in Actors : Busy(v)' => job'[v].tok \in Tokens
  BY <1>2, JobTyped, IdleTyped
<1>4. row' \in [Tokens -> Rows]
  <2>1. row \in [Tokens -> Rows] /\ row[j.tok] \in Rows /\ Leftover(j) \in Rows /\ NoRow \in Rows
    BY <1>1, LeftoverTyped, RowsAreRows DEF Typed, TypeOK
  <2>2. \/ row' = row
        \/ row' = [row EXCEPT ![j.tok] = Leftover(j)]
        \/ row' = [row EXCEPT ![j.tok] = NoRow]
        \/ row' = [row EXCEPT ![j.tok].st = "open"]
        \/ row' = [row EXCEPT ![j.tok].st = "review"]
    BY DEF SellEnds, SellFilled, SellNotSent, SellUnknown, SellRaised, BookGone
  <2>3. /\ [row[j.tok] EXCEPT !.st = "open"] \in Rows
        /\ [row[j.tok] EXCEPT !.st = "review"] \in Rows
    BY <2>1, RowEdits
  <2> QED
    BY <1>1, <2>1, <2>2, <2>3
<1>5. attempts' \in [Tokens \X Kinds -> [n: 0..MaxAttempts, print: Nat]]
  <2>1. \/ attempts' = attempts
        \/ attempts' = Counted(j.tok, j.kind, j.anchor)
        \/ attempts' = Forgotten(j.tok, j.kind)
    BY DEF SellEnds, SellFilled, SellNotSent, SellUnknown, SellRaised, BookGone
  <2>2. attempts \in [Tokens \X Kinds -> [n: 0..MaxAttempts, print: Nat]]
    BY DEF Typed, TypeOK
  <2> HIDE DEF j
  <2>3. /\ Counted(j.tok, j.kind, j.anchor) \in [Tokens \X Kinds -> [n: 0..MaxAttempts, print: Nat]]
        /\ Forgotten(j.tok, j.kind) \in [Tokens \X Kinds -> [n: 0..MaxAttempts, print: Nat]]
    BY <1>1, CountTypes
  <2> QED
    BY <2>1, <2>2, <2>3
<1>6. wallet' \in [Tokens -> Nat] /\ cash' \in Nat
  <2>1. (CanFill(j) /\ TakeShares(j)) \/ UNCHANGED <<wallet, cash>>
    BY DEF SellEnds, SellFilled, SellNotSent, SellUnknown, SellRaised, BookGone, funds
  <2>2. wallet \in [Tokens -> Nat] /\ cash \in Nat
    BY DEF Typed, TypeOK
  <2> HIDE DEF j
  <2>3. CASE CanFill(j) /\ TakeShares(j)
    <3>1. wallet[j.tok] - j.amt \in Nat /\ cash + j.amt \in Nat
      BY <1>1, <2>2, <2>3 DEF CanFill
    <3> QED
      BY <1>1, <2>2, <2>3, <3>1 DEF TakeShares
  <2> QED
    BY <2>1, <2>2, <2>3
<1>7. /\ UNCHANGED <<claim, preexisting, raced, leader, view, feed, moves, resolved>>
      /\ pass' = pass \/ pass' = Resting
      /\ faults' = faults \/ (faults < MaxFaults /\ faults' = faults + 1)
  BY DEF SellEnds, SellFilled, SellNotSent, SellUnknown, SellRaised, BookGone, leaders
<1>8. faults' \in 0..MaxFaults /\ pass' \in Passes1
  BY <1>7, RestingTyped, PassAssumption DEF Typed, TypeOK
<1> QED
  BY <1>3, <1>4, <1>5, <1>6, <1>7, <1>8, RestTypes DEF Typed, TypeOK

\* What _prepare_buy leaves of an order.
LEMMA BuyAmountTyped ==
    ASSUME Typed, NEW j \in Jobs, j.tok \in Tokens
    PROVE  /\ BuyAmount(j) \in Int
           /\ BuyAmount(j) + wallet[j.tok] <= Settings.maxPos
<1> DEFINE taken == Max({row[j.tok].shares, wallet[j.tok]})
           room == Settings.maxPos - taken
           spare == Settings.exposure - AtRisk
<1>1. /\ row[j.tok].shares \in Nat /\ wallet[j.tok] \in Nat /\ j.amt \in Nat
      /\ Settings.maxPos \in Nat /\ Settings.exposure \in Nat /\ AtRisk \in Nat
  BY AtRiskTyped, SettingsAssumption DEF Typed, TypeOK, Rows, Jobs, SettingsType
<1>2. taken \in Int /\ taken >= wallet[j.tok]
  <2> DEFINE n == row[j.tok].shares
             m == wallet[j.tok]
  <2>1. n \in Int /\ m \in Int
    BY <1>1
  <2> HIDE DEF n, m
  <2>2. Max({n, m}) \in {n, m} /\ Max({n, m}) >= m
    BY <2>1, GreatestOfTwo
  <2> QED
    BY <2>1, <2>2 DEF n, m
<1> HIDE DEF taken
<1>3. room \in Int /\ spare \in Int /\ room + wallet[j.tok] <= Settings.maxPos
  BY <1>1, <1>2
<1>4. BuyAmount(j) = Min({j.amt, spare, room})
  BY DEF BuyAmount, taken
<1> HIDE DEF room, spare
<1>5. j.amt \in Int
  BY <1>1
<1>6. Min({j.amt, spare, room}) \in Int /\ Min({j.amt, spare, room}) <= room
  BY <1>3, <1>5, LeastOfThree
<1> QED
  BY <1>1, <1>3, <1>4, <1>6

LEMMA BuyTypes ==
    ASSUME Typed, NEW w \in Actors, BuyPrepare(w) \/ BuyFilled(w) \/ BuyNotFilled(w)
    PROVE  Types
<1> DEFINE j == job[w]
<1>1. /\ j \in Jobs /\ j.kind \in Kinds /\ j.amt \in Nat /\ j.anchor \in Nat
      /\ j.tok \in Tokens
  <2>1. j.pc # "idle"
    BY DEF BuyPrepare, BuyFilled, BuyNotFilled
  <2> QED
    BY <2>1, JobFields
<1>2. job' \in [Actors -> Jobs] /\ \A v \in Actors : Busy(v)' => job'[v].tok \in Tokens
  <2>1. CASE job' = [job EXCEPT ![w] = Idle]
    BY <2>1, JobTyped, IdleTyped
  <2>2. CASE job' # [job EXCEPT ![w] = Idle]
    <3>1. MayBuy(j) /\ job' = [job EXCEPT ![w].pc = "sent", ![w].amt = BuyAmount(j)]
      BY <2>2 DEF BuyPrepare, BuyFilled, BuyNotFilled
    <3>2. BuyAmount(j) \in Int /\ BuyAmount(j) > 0
      BY <1>1, <3>1, BuyAmountTyped DEF MayBuy, WorthIt
    <3> DEFINE m == BuyAmount(j)
               k == [j EXCEPT !.pc = "sent", !.amt = m]
    <3>3. job' = [job EXCEPT ![w] = k]
      BY <3>1 DEF Typed, TypeOK
    <3>4. m \in Nat
      BY <3>2
    <3> HIDE DEF m
    <3>5. k \in Jobs /\ k.tok \in Tokens
      BY <1>1, <3>4 DEF Jobs
    <3> HIDE DEF k
    <3> QED
      BY <3>3, <3>5, JobTyped
  <2> QED
    BY <2>1, <2>2
<1>3. row' \in [Tokens -> Rows]
  <2>1. row \in [Tokens -> Rows] /\ row[j.tok] \in Rows
    BY <1>1 DEF Typed, TypeOK
  <2>2. CASE row' = row
    BY <2>1, <2>2
  <2>3. CASE BuyFilled(w) /\ j.kind = "open"
    <3> DEFINE r == [NoRow EXCEPT !.st = "open", !.id = NewId, !.shares = j.amt, !.anchor = j.anchor]
    <3>1. NewId \in Ids
      BY <2>3 DEF BuyFilled, IdLeft, NewId
    <3>2. r \in Rows
      <4> HIDE DEF j
      <4> QED
        BY <1>1, <3>1 DEF NoRow, Rows
    <3>3. row' = [row EXCEPT ![j.tok] = r]
      BY <2>3 DEF BuyFilled
    <3> HIDE DEF r
    <3> QED
      BY <1>1, <2>1, <3>2, <3>3
  <2>4. CASE BuyFilled(w) /\ j.kind # "open"
    <3> DEFINE k == row[j.tok].shares + j.amt
    <3>1. row' = [row EXCEPT ![j.tok].shares = k, ![j.tok].anchor = j.anchor]
      BY <2>1, <2>4 DEF BuyFilled
    <3>2. k \in Nat
      BY <1>1, <2>1 DEF Rows
    <3> HIDE DEF k
    <3> DEFINE r == [row[j.tok] EXCEPT !.shares = k, !.anchor = j.anchor]
    <3>3. row' = [row EXCEPT ![j.tok] = r]
      BY <1>1, <2>1, <3>1
    <3>4. r \in Rows
      BY <1>1, <2>1, <3>2, RowEdits
    <3> HIDE DEF r
    <3> QED
      BY <1>1, <2>1, <3>3, <3>4
  <2>5. row' = row \/ BuyFilled(w)
    BY DEF BuyPrepare, BuyNotFilled
  <2> QED
    BY <2>2, <2>3, <2>4, <2>5
<1>4. attempts' \in [Tokens \X Kinds -> [n: 0..MaxAttempts, print: Nat]]
  <2>1. \/ attempts' = attempts
        \/ attempts' = Counted(j.tok, j.kind, j.anchor)
        \/ attempts' = Forgotten(j.tok, j.kind)
    BY DEF BuyPrepare, BuyFilled, BuyNotFilled
  <2>2. attempts \in [Tokens \X Kinds -> [n: 0..MaxAttempts, print: Nat]]
    BY DEF Typed, TypeOK
  <2> HIDE DEF j
  <2>3. /\ Counted(j.tok, j.kind, j.anchor) \in [Tokens \X Kinds -> [n: 0..MaxAttempts, print: Nat]]
        /\ Forgotten(j.tok, j.kind) \in [Tokens \X Kinds -> [n: 0..MaxAttempts, print: Nat]]
    BY <1>1, CountTypes
  <2> QED
    BY <2>1, <2>2, <2>3
<1>5. wallet' \in [Tokens -> Nat] /\ cash' \in Nat
  <2>1. wallet \in [Tokens -> Nat] /\ cash \in Nat
    BY DEF Typed, TypeOK
  <2>2. \/ UNCHANGED <<wallet, cash>>
        \/ /\ j.amt <= cash /\ wallet' = [wallet EXCEPT ![j.tok] = @ + j.amt]
           /\ cash' = cash - j.amt
    BY DEF BuyPrepare, BuyFilled, BuyNotFilled, funds
  <2> HIDE DEF j
  <2> QED
    BY <1>1, <2>1, <2>2
<1>6. claim' \in [Tokens -> Actors \cup {None}]
  <2>1. \/ claim' = claim \/ claim' = [claim EXCEPT ![j.tok] = w]
        \/ claim' = [claim EXCEPT ![j.tok] = None]
    BY DEF BuyPrepare, BuyFilled, BuyNotFilled
  <2> QED
    BY <1>1, <2>1 DEF Typed, TypeOK
<1>7. UNCHANGED <<pass, preexisting, faults, raced, leader, view, feed, moves, resolved>>
  BY DEF BuyPrepare, BuyFilled, BuyNotFilled, leaders
<1> QED
  BY <1>2, <1>3, <1>4, <1>5, <1>6, <1>7, RestTypes DEF Typed, TypeOK

-----------------------------------------------------------------------------
(* The types of the pass.                                                  *)

LEMMA ReanchoredTyped ==
    ASSUME Typed, NEW a \in Planned1
    PROVE  Reanchored(a) \in [Tokens -> Rows]
<1>1. row \in [Tokens -> Rows] /\ a.tok \in Tokens /\ a.anchor \in Nat /\ row[a.tok] \in Rows
  BY DEF Typed, TypeOK, PlannedOver, Planned1
<1>2. [row[a.tok] EXCEPT !.anchor = a.anchor] \in Rows
  BY <1>1, RowEdits
<1>3. Reanchored(a) = row \/ Reanchored(a) = [row EXCEPT ![a.tok].anchor = a.anchor]
  BY DEF Reanchored
<1> QED
  BY <1>1, <1>2, <1>3

LEMMA GivesTyped ==
    ASSUME NEW a \in Planned1, NEW kind \in Kinds
    PROVE  /\ Gives(a, kind) \in Jobs /\ Gives(a, kind).tok = a.tok /\ a.tok \in Tokens
           /\ Gives(a, kind).pc = "read" /\ Gives(a, kind).kind = kind /\ Gives(a, kind).row = a.row
           /\ [Gives(a, kind) EXCEPT !.pc = "sent"] \in Jobs
           /\ [Gives(a, kind) EXCEPT !.pc = "sent"].tok = a.tok
           /\ [Gives(a, kind) EXCEPT !.pc = "sent"].pc = "sent"
           /\ [Gives(a, kind) EXCEPT !.pc = "sent"].kind = kind
           /\ [Gives(a, kind) EXCEPT !.pc = "sent"].row = a.row
<1>1. /\ a.tok \in Tokens /\ a.row \in Rows /\ a.amt \in Nat /\ a.anchor \in Nat
  BY DEF PlannedOver, Planned1
<1>2. Gives(a, kind) = [pc |-> "read", kind |-> kind, tok |-> a.tok, row |-> a.row,
                        amt |-> a.amt, anchor |-> a.anchor]
  <2> DEFINE t == a.tok
             r == a.row
             m == a.amt
             n == a.anchor
  <2>1. Gives(a, kind) = [Idle EXCEPT !.pc = "read", !.kind = kind, !.tok = t, !.row = r,
                                      !.amt = m, !.anchor = n]
    BY DEF Gives
  <2> HIDE DEF t, r, m, n
  <2>2. Idle = [pc |-> "idle", kind |-> "close", tok |-> None, row |-> NoRow, amt |-> 0, anchor |-> 0]
    BY DEF Idle
  <2>3. Gives(a, kind) = [pc |-> "read", kind |-> kind, tok |-> t, row |-> r, amt |-> m, anchor |-> n]
    BY <2>1, <2>2
  <2> QED
    BY <2>3 DEF t, r, m, n
<1> QED
  BY <1>1, <1>2 DEF Jobs

LEMMA RearmedTyped ==
    ASSUME Typed, NEW a \in Planned1, a.kind \in Kinds
    PROVE  Rearmed(a) \in [Tokens \X Kinds -> [n: 0..MaxAttempts, print: Nat]]
<1>1. a.tok \in Tokens
  BY DEF PlannedOver, Planned1
<1>2. Forgotten(a.tok, a.kind) \in [Tokens \X Kinds -> [n: 0..MaxAttempts, print: Nat]]
  <2>1. 0 \in Nat
    OBVIOUS
  <2> QED
    BY <1>1, <2>1, CountTypes
<1> QED
  BY <1>2 DEF Rearmed, Typed, TypeOK

LEMMA HeadTyped ==
    ASSUME Typed, pass.acts # <<>>
    PROVE  /\ Head(pass.acts) \in Planned1 /\ [pass EXCEPT !.acts = Tail(@)] \in Passes1
<1>1. pass.acts \in Seq(Planned1)
  BY DEF Typed, Passes1
<1>2. Head(pass.acts) \in Planned1 /\ Tail(pass.acts) \in Seq(Planned1)
  BY <1>1
<1>3. [pass EXCEPT !.acts = Tail(@)] = [pass EXCEPT !.acts = Tail(pass.acts)]
  BY DEF Typed, Passes1
<1> HIDE DEF Planned1
<1> QED
  BY <1>2, <1>3 DEF Typed, Passes1

\* The inputs a pass plans from.
LEMMA PlanInputs ==
    ASSUME Typed, NEW blocked \in BOOLEAN, NEW complete \in BOOLEAN, NEW listed
    PROVE  InputOver(PassInput(blocked, complete, listed), Rows)
<1> DEFINE pos == [t \in Tokens |-> [size |-> IF t \in listed THEN view[t] ELSE 0, inBand |-> TRUE,
                                   redeemable |-> t \in resolved]]
<1>1. pass.rows \in [Tokens -> Rows] /\ pass.cash \in Nat
  BY DEF Typed, Passes1
<1>2. pos \in [Tokens -> Positions]
  <2>1. \A t \in Tokens : view[t] \in Nat
    BY PassAssumption DEF Typed, TypeOK
  <2> QED
    BY <2>1 DEF Positions
<1> DEFINE in == [mode |-> "position", rows |-> pass.rows, cash |-> pass.cash, pos |-> pos,
                  blocked |-> blocked, complete |-> complete, leaderCash |-> Unknown, recent |-> {}]
<1>3. /\ in.rows = pass.rows /\ in.cash = pass.cash /\ in.pos = pos /\ in.mode = "position"
      /\ in.blocked = blocked /\ in.leaderCash = Unknown
  OBVIOUS
<1> HIDE DEF in, pos
<1>4. InputOver(in, Rows)
  BY <1>1, <1>2, <1>3 DEF InputOver
<1> QED
  BY <1>4 DEF in, pos, PassInput

LEMMA OrdersAreSequences ==
    ASSUME NEW order \in SetToSeqs(Tokens)
    PROVE  order \in Seq(Tokens)
<1>1. Cardinality(Tokens) \in Nat
  BY FS_CardinalityType, SettingsAssumption
<1>2. order \in [1..Cardinality(Tokens) -> Tokens]
  BY DEF SetToSeqs
<1> QED
  BY <1>1, <1>2

LEMMA PassTyped ==
    ASSUME Typed, PassRead \/ (\E complete \in BOOLEAN : PassPlan(complete)) \/ PassEnds
    PROVE  Types
<1>1. /\ UNCHANGED <<row, claim, job, attempts, faults, raced, leader, view, feed, moves, resolved, wallet, cash>>
      /\ preexisting' \subseteq preexisting
  BY DEF PassRead, PassPlan, PassEnds, leaders, funds
<1>2. pass' \in Passes1
  <2>1. CASE PassRead
    <3> DEFINE rows == [t \in Tokens |-> IF row[t].mine THEN row[t] ELSE NoRow]
    <3>1. rows \in [Tokens -> Rows] /\ cash \in Nat
      BY RowsAreRows DEF Typed, TypeOK
    <3>2. pass' = [Resting EXCEPT !.pc = "read", !.cash = cash, !.rows = rows]
      BY <2>1 DEF PassRead
    <3> HIDE DEF rows
    <3> QED
      BY <3>1, <3>2, RestingTyped DEF Passes1
  <2>2. CASE PassEnds
    BY <2>2, RestingTyped DEF PassEnds
  <2>3. ASSUME NEW complete \in BOOLEAN, PassPlan(complete)
        PROVE  pass' \in Passes1
    <3>1. PICK listed \in Lists(complete), blocked \in BOOLEAN, order \in SetToSeqs(Tokens) :
             pass' = [Resting EXCEPT !.pc = "run",
                        !.acts = Wanted(PlanActions(PassInput(blocked, complete, listed), order))]
      BY <2>3 DEF PassPlan
    <3> DEFINE in == PassInput(blocked, complete, listed)
               acts == PlanActions(in, order)
    <3>2. InputOver(in, Rows)
      BY PlanInputs
    <3>3. pass' = [Resting EXCEPT !.pc = "run", !.acts = Wanted(acts)]
      BY <3>1
    <3> HIDE DEF in
    <3>4. acts \in Seq(Planned1)
      BY <3>2, OrdersAreSequences, RowsAreRows, PlanTyped DEF Planned1
    <3> HIDE DEF acts
    <3>5. Wanted(acts) \in Seq(Planned1)
      BY <3>4, WantedTyped
    <3> HIDE DEF Planned1
    <3> QED
      BY <3>3, <3>5, RestingTyped DEF Passes1
  <2> QED
    BY <2>1, <2>2, <2>3
<1> QED
  BY <1>1, <1>2, RestTypes DEF Typed, TypeOK, Busy

LEMMA StepsTyped ==
    ASSUME Typed, PassDrops \/ PassReanchors \/ PassResolves
    PROVE  Types
<1> DEFINE a == Head(pass.acts)
<1>1. /\ pass.acts # <<>> /\ pass' = [pass EXCEPT !.acts = Tail(@)]
      /\ UNCHANGED <<claim, job, attempts, preexisting, faults, raced, leader, view, feed, moves,
                    resolved, wallet, cash>>
      /\ row' = row \/ row' = Reanchored(a) \/ row' = [row EXCEPT ![a.tok] = NoRow]
  BY DEF PassDrops, PassReanchors, PassResolves, Ready, leaders, funds
<1>2. a \in Planned1 /\ pass' \in Passes1
  BY <1>1, HeadTyped
<1> HIDE DEF a
<1>3. row' \in [Tokens -> Rows]
  BY <1>1, <1>2, ReanchoredTyped, RowsAreRows DEF Typed, TypeOK
<1> QED
  BY <1>1, <1>2, <1>3, RestTypes DEF Typed, TypeOK, Busy

LEMMA PassBuysTyped ==
    ASSUME Typed, PassBuys
    PROVE  Types
<1> DEFINE a == Head(pass.acts)
<1>1. /\ pass.acts # <<>> /\ pass' = [pass EXCEPT !.acts = Tail(@)] /\ IsBuy(a)
      /\ job' = [job EXCEPT !["pass"] = Gives(a, a.kind)] /\ attempts' = Rearmed(a)
      /\ UNCHANGED <<row, claim, preexisting, faults, raced, leader, view, feed, moves,
                    resolved, wallet, cash>>
  BY DEF PassBuys, Ready, leaders, funds
<1>2. a \in Planned1 /\ pass' \in Passes1
  BY <1>1, HeadTyped
<1> HIDE DEF a
<1>3. a.kind \in Kinds /\ "pass" \in Actors
  BY <1>1 DEF IsBuy, Kinds, Actors
<1>4. job' \in [Actors -> Jobs] /\ \A v \in Actors : Busy(v)' => job'[v].tok \in Tokens
  <2> DEFINE j == Gives(a, a.kind)
  <2>1. j \in Jobs /\ j.tok \in Tokens
    BY <1>2, <1>3, GivesTyped
  <2> HIDE DEF j
  <2>2. job' = [job EXCEPT !["pass"] = j]
    BY <1>1 DEF j
  <2> QED
    BY <1>3, <2>1, <2>2, JobTyped
<1>5. attempts' \in [Tokens \X Kinds -> [n: 0..MaxAttempts, print: Nat]]
  BY <1>1, <1>2, <1>3, RearmedTyped
<1> QED
  BY <1>1, <1>2, <1>4, <1>5, RestTypes DEF Typed, TypeOK

\* A fence that is taken.
LEMMA ClaimTyped ==
    ASSUME Typed, NEW w \in Actors, NEW j \in Jobs, j.tok \in Tokens, ClaimSell(w, j)
    PROVE  /\ row' \in [Tokens -> Rows] /\ raced' \subseteq Tokens
           /\ job' \in [Actors -> Jobs] /\ \A v \in Actors : Busy(v)' => job'[v].tok \in Tokens
<1> DEFINE k == [j EXCEPT !.pc = "sent"]
<1>1. k \in Jobs /\ k.tok \in Tokens /\ job' = [job EXCEPT ![w] = k]
  BY DEF Jobs, ClaimSell
<1> HIDE DEF k
<1>2. job' \in [Actors -> Jobs] /\ \A v \in Actors : Busy(v)' => job'[v].tok \in Tokens
  BY <1>1, JobTyped
<1>3. row \in [Tokens -> Rows] /\ row[j.tok] \in Rows /\ raced \subseteq Tokens
  BY DEF Typed, TypeOK
<1>4. row' = [row EXCEPT ![j.tok] = [row[j.tok] EXCEPT !.st = "closing", !.dated = TRUE]]
  BY <1>3 DEF ClaimSell
<1>5. [row[j.tok] EXCEPT !.st = "closing", !.dated = TRUE] \in Rows
  BY <1>3, RowEdits
<1>6. raced' \subseteq Tokens
  BY <1>3 DEF ClaimSell
<1> QED
  BY <1>2, <1>3, <1>4, <1>5, <1>6

LEMMA PassSellsTyped ==
    ASSUME Typed, PassSells
    PROVE  Types
<1> DEFINE a == Head(pass.acts)
           j == Gives(a, a.kind)
<1>1. /\ pass.acts # <<>> /\ pass' = [pass EXCEPT !.acts = Tail(@)] /\ IsSell(a)
      /\ attempts' = Rearmed(a)
      /\ ClaimSell("pass", j) \/ UNCHANGED <<row, job, raced>>
      /\ UNCHANGED <<claim, preexisting, faults, leader, view, feed, moves, resolved, wallet, cash>>
  BY DEF PassSells, Ready, leaders, funds
<1>2. a \in Planned1 /\ pass' \in Passes1
  BY <1>1, HeadTyped
<1> HIDE DEF a
<1>3. a.kind \in Kinds /\ "pass" \in Actors
  BY <1>1 DEF IsSell, Kinds, Actors
<1>4. j \in Jobs /\ j.tok \in Tokens
  BY <1>2, <1>3, GivesTyped
<1>5. attempts' \in [Tokens \X Kinds -> [n: 0..MaxAttempts, print: Nat]]
  BY <1>1, <1>2, <1>3, RearmedTyped
<1> HIDE DEF j
<1>6. /\ row' \in [Tokens -> Rows] /\ raced' \subseteq Tokens
      /\ job' \in [Actors -> Jobs] /\ \A v \in Actors : Busy(v)' => job'[v].tok \in Tokens
  <2>1. CASE ClaimSell("pass", j)
    BY <1>3, <1>4, <2>1, ClaimTyped
  <2>2. CASE UNCHANGED <<row, job, raced>>
    BY <2>2 DEF Typed, TypeOK, Busy
  <2> QED
    BY <1>1, <2>1, <2>2
<1> QED
  BY <1>1, <1>2, <1>5, <1>6, RestTypes DEF Typed, TypeOK

-----------------------------------------------------------------------------
(* The types of the fast path, the user's closes and recovery.             *)

LEMMA TradeTyped ==
    ASSUME Typed, feed # <<>>
    PROVE  /\ Trade.tok \in Tokens /\ Trade.size \in Nat /\ Tail(feed) \in Seq(Trades)
<1>1. Head(feed) \in Trades /\ Tail(feed) \in Seq(Trades)
  BY DEF Typed, TypeOK
<1> QED
  BY <1>1 DEF Trade, Trades

LEMMA FastBuysTyped ==
    ASSUME Typed, FastBuys
    PROVE  Types
<1>1. /\ feed # <<>> /\ feed' = Tail(feed)
      /\ UNCHANGED <<leader, view, moves, resolved, row, claim, pass, preexisting, wallet, cash, faults, raced>>
  BY DEF FastBuys, TakeTrade
<1> DEFINE spare == Max({0, Settings.exposure - AtRisk})
<1>2. PICK total \in {Trade.size} \cup ({view[Trade.tok]} \ {0}) :
         LET amt == Min({total * Settings.ratio, Settings.maxPos, cash, spare})
             a == Action("open", Trade.tok, amt, total, NoRow)
         IN  WorthIt(amt) /\ job' = [job EXCEPT !["fast"] = Gives(a, "open")] /\ attempts' = Rearmed(a)
  BY DEF FastBuys
<1> DEFINE amt == Min({total * Settings.ratio, Settings.maxPos, cash, spare})
           a == Action("open", Trade.tok, amt, total, NoRow)
<1>3. Trade.tok \in Tokens /\ total \in Nat /\ feed' \in Seq(Trades)
  <2>1. Trade.tok \in Tokens /\ Trade.size \in Nat /\ Tail(feed) \in Seq(Trades)
    BY <1>1, TradeTyped
  <2>2. view[Trade.tok] \in Nat
    BY <2>1, PassAssumption DEF Typed, TypeOK
  <2> QED
    BY <1>1, <2>1, <2>2
<1>4. amt \in Int
  <2>1. total * Settings.ratio \in Int /\ Settings.maxPos \in Int /\ cash \in Int
    BY <1>3, Product, SettingsAssumption DEF SettingsType, Typed, TypeOK
  <2>2. spare \in Int
    <3> DEFINE d == Settings.exposure - AtRisk
    <3>1. d \in Int /\ 0 \in Int
      BY AtRiskTyped, SettingsAssumption DEF SettingsType, Typed, TypeOK
    <3> HIDE DEF d
    <3>2. Max({0, d}) \in {0, d}
      BY <3>1, GreatestOfTwo
    <3>3. Max({0, d}) \in Int
      BY <3>1, <3>2
    <3> QED
      BY <3>3 DEF d
  <2> DEFINE x == total * Settings.ratio
             y == Settings.maxPos
  <2>3. x \in Int /\ y \in Int
    BY <2>1
  <2> HIDE DEF x, y, spare
  <2>4. \E m \in {x, y, cash, spare} : \A n \in {x, y, cash, spare} : m <= n
    BY <2>1, <2>2, <2>3
  <2>5. Min({x, y, cash, spare}) \in {x, y, cash, spare}
    BY <2>4 DEF Min
  <2>6. Min({x, y, cash, spare}) \in Int
    BY <2>1, <2>2, <2>3, <2>5
  <2> QED
    BY <2>6 DEF x, y
<1> HIDE DEF amt, spare
<1>5. WorthIt(amt) /\ job' = [job EXCEPT !["fast"] = Gives(a, "open")] /\ attempts' = Rearmed(a)
  BY <1>2 DEF amt
<1>6. amt \in Nat
  BY <1>4, <1>5 DEF WorthIt
<1>7. a \in Planned1 /\ a.kind = "open"
  BY <1>3, <1>6, RowsAreRows DEF Action, Planned1, PlannedOver, PlannedKinds
<1> HIDE DEF a
<1>8. a.kind \in Kinds /\ "open" \in Kinds /\ "fast" \in Actors
  BY <1>7 DEF Kinds, Actors
<1>9. job' \in [Actors -> Jobs] /\ \A v \in Actors : Busy(v)' => job'[v].tok \in Tokens
  <2> DEFINE j == Gives(a, "open")
  <2>1. j \in Jobs /\ j.tok \in Tokens
    BY <1>7, <1>8, GivesTyped
  <2> HIDE DEF j
  <2>2. job' = [job EXCEPT !["fast"] = j]
    BY <1>5 DEF j
  <2> QED
    BY <1>8, <2>1, <2>2, JobTyped
<1>10. attempts' \in [Tokens \X Kinds -> [n: 0..MaxAttempts, print: Nat]]
  BY <1>5, <1>7, <1>8, RearmedTyped
<1> QED
  BY <1>1, <1>3, <1>9, <1>10, RestTypes DEF Typed, TypeOK

\* The job a detected SELL gives.
SellJob ==
    LET t == Trade.tok
        size == Trade.size
        base == row[t].anchor
        full == base = 0 \/ 20 * size >= 19 * base
    IN  [pc |-> "read", tok |-> t, row |-> row[t],
         kind |-> IF full THEN "close" ELSE "decrease",
         amt |-> IF full THEN row[t].shares ELSE (row[t].shares * size) \div base,
         anchor |-> IF full THEN 0 ELSE base - size]

LEMMA SellJobTyped ==
    ASSUME Typed, feed # <<>>
    PROVE  /\ SellJob \in Jobs /\ SellJob.tok \in Tokens /\ SellJob.pc = "read"
<1> DEFINE t == Trade.tok
           size == Trade.size
           base == row[t].anchor
           shares == row[t].shares
           full == base = 0 \/ 20 * size >= 19 * base
           amt == IF full THEN shares ELSE (shares * size) \div base
           kind == IF full THEN "close" ELSE "decrease"
           anchor == IF full THEN 0 ELSE base - size
<1>1. t \in Tokens /\ size \in Nat /\ base \in Nat /\ shares \in Nat /\ row[t] \in Rows
  BY TradeTyped, RowFields
<1>2. SellJob = [pc |-> "read", tok |-> t, row |-> row[t], kind |-> kind, amt |-> amt, anchor |-> anchor]
  BY DEF SellJob
<1> HIDE DEF size, base, shares
<1>3. amt \in Nat
  <2>1. CASE full
    BY <1>1, <2>1
  <2>2. CASE ~full
    <3>1. base > 0
      BY <1>1, <2>2
    <3>2. shares * size \in Nat
      BY <1>1, Product
    <3>3. (shares * size) \div base \in Nat
      BY <1>1, <3>1, <3>2, Quotient
    <3> QED
      BY <2>2, <3>3
  <2> QED
    BY <2>1, <2>2
<1>4. anchor \in Nat /\ kind \in Kinds
  BY <1>1 DEF Kinds
<1> HIDE DEF amt, kind, anchor, t
<1> QED
  BY <1>1, <1>2, <1>3, <1>4 DEF Jobs

LEMMA FastSellTyped ==
    ASSUME Typed, FastReadsSell
    PROVE  Types
<1>1. /\ feed # <<>> /\ feed' = Tail(feed) /\ job' = [job EXCEPT !["fast"] = SellJob]
      /\ UNCHANGED <<leader, view, moves, resolved, row, claim, pass, attempts, preexisting, wallet,
                    cash, faults, raced>>
  BY DEF FastReadsSell, TakeTrade, SellJob
<1>2. "fast" \in Actors
  BY DEF Actors
<1>3. job' \in [Actors -> Jobs] /\ \A v \in Actors : Busy(v)' => job'[v].tok \in Tokens
  BY <1>1, <1>2, SellJobTyped, JobTyped
<1>4. feed' \in Seq(Trades)
  BY <1>1, TradeTyped
<1> QED
  BY <1>1, <1>3, <1>4, RestTypes DEF Typed, TypeOK

LEMMA ClaimsTyped ==
    ASSUME Typed, NEW w \in Actors, Claims(w)
    PROVE  Types
<1> DEFINE j == job[w]
<1>1. /\ j.pc = "read"
      /\ ClaimSell(w, j) \/ (job' = [job EXCEPT ![w] = Idle] /\ UNCHANGED <<row, raced>>)
      /\ UNCHANGED <<claim, pass, attempts, preexisting, faults, leader, view, feed, moves, resolved,
                    wallet, cash>>
  BY DEF Claims, leaders, funds
<1>2. j \in Jobs /\ j.tok \in Tokens
  BY <1>1, JobFields
<1> HIDE DEF j
<1>3. /\ row' \in [Tokens -> Rows] /\ raced' \subseteq Tokens
      /\ job' \in [Actors -> Jobs] /\ \A v \in Actors : Busy(v)' => job'[v].tok \in Tokens
  <2>1. CASE ClaimSell(w, j)
    BY <1>2, <2>1, ClaimTyped
  <2>2. CASE job' = [job EXCEPT ![w] = Idle] /\ UNCHANGED <<row, raced>>
    <3>1. job' \in [Actors -> Jobs] /\ \A v \in Actors : Busy(v)' => job'[v].tok \in Tokens
      BY <2>2, JobTyped, IdleTyped
    <3> QED
      BY <2>2, <3>1 DEF Typed, TypeOK
  <2> QED
    BY <1>1, <2>1, <2>2
<1> QED
  BY <1>1, <1>3, RestTypes DEF Typed, TypeOK

\* What the user closes.
ManualJob(t) == [Idle EXCEPT !.pc = "read", !.tok = t, !.row = row[t], !.amt = row[t].shares]
ExternalJob(t) == [Idle EXCEPT !.pc = "read", !.tok = t, !.amt = wallet[t]]

LEMMA CloseJobsTyped ==
    ASSUME Typed, NEW t \in Tokens
    PROVE  /\ ManualJob(t) \in Jobs /\ ManualJob(t).tok = t /\ ManualJob(t).pc = "read"
           /\ ExternalJob(t) \in Jobs /\ ExternalJob(t).tok = t /\ ExternalJob(t).pc = "read"
           /\ ExternalJob(t).kind = "close" /\ ManualJob(t).kind = "close"
<1>1. /\ row[t] \in Rows /\ row[t].shares \in Nat /\ wallet[t] \in Nat
  BY RowFields
<1>2. Idle = [pc |-> "idle", kind |-> "close", tok |-> None, row |-> NoRow, amt |-> 0, anchor |-> 0]
  BY DEF Idle
<1> DEFINE r == row[t]
           n == row[t].shares
           m == wallet[t]
<1>3. ManualJob(t) = [Idle EXCEPT !.pc = "read", !.tok = t, !.row = r, !.amt = n]
  BY DEF ManualJob
<1>4. ExternalJob(t) = [Idle EXCEPT !.pc = "read", !.tok = t, !.amt = m]
  BY DEF ExternalJob
<1>5. r \in Rows /\ n \in Nat /\ m \in Nat
  BY <1>1
<1> HIDE DEF r, n, m
<1>6. ManualJob(t) = [pc |-> "read", kind |-> "close", tok |-> t, row |-> r, amt |-> n, anchor |-> 0]
  BY <1>2, <1>3
<1>7. ExternalJob(t) = [pc |-> "read", kind |-> "close", tok |-> t, row |-> NoRow, amt |-> m, anchor |-> 0]
  BY <1>2, <1>4
<1> QED
  BY <1>5, <1>6, <1>7, RowsAreRows DEF Jobs, Kinds

LEMMA ReadsTyped ==
    ASSUME Typed, NEW t \in Tokens, ManualReads(t) \/ ExternalReads(t)
    PROVE  Types
<1>1. UNCHANGED <<row, claim, pass, attempts, preexisting, faults, raced, leader, view, feed, moves,
                  resolved, wallet, cash>>
  BY DEF ManualReads, ExternalReads, leaders, funds
<1>2. \/ job' = [job EXCEPT !["manual"] = ManualJob(t)]
      \/ job' = [job EXCEPT !["external"] = ExternalJob(t)]
  BY DEF ManualReads, ExternalReads, ManualJob, ExternalJob
<1>3. "manual" \in Actors /\ "external" \in Actors
  BY DEF Actors
<1>4. job' \in [Actors -> Jobs] /\ \A v \in Actors : Busy(v)' => job'[v].tok \in Tokens
  <2>1. ManualJob(t) \in Jobs /\ ManualJob(t).tok \in Tokens
    BY CloseJobsTyped
  <2>2. ExternalJob(t) \in Jobs /\ ExternalJob(t).tok \in Tokens
    BY CloseJobsTyped
  <2> QED
    BY <1>2, <1>3, <2>1, <2>2, JobTyped
<1> QED
  BY <1>1, <1>4, RestTypes DEF Typed, TypeOK

\* The row an external close inserts.
ExternalRow == [st |-> "closing", id |-> NewId, shares |-> job["external"].amt, anchor |-> 0,
                mine |-> FALSE, dated |-> FALSE]

LEMMA ExternalTyped ==
    ASSUME Typed, ExternalClaims
    PROVE  Types
<1> DEFINE j == job["external"]
           r == ExternalRow
<1>1. /\ j.pc = "read"
      /\ \/ /\ IdLeft /\ row' = [row EXCEPT ![j.tok] = r]
            /\ job' = [job EXCEPT !["external"].pc = "sent", !["external"].row = r]
         \/ job' = [job EXCEPT !["external"] = Idle] /\ UNCHANGED row
      /\ UNCHANGED <<claim, pass, attempts, preexisting, faults, raced, leader, view, feed, moves,
                    resolved, wallet, cash>>
  BY DEF ExternalClaims, leaders, funds, ExternalRow
<1>2. j \in Jobs /\ j.tok \in Tokens /\ j.amt \in Nat /\ "external" \in Actors
  BY <1>1, JobFields DEF Actors
<1>3. IdLeft => r \in Rows
  BY <1>2 DEF IdLeft, NewId, ExternalRow, Rows
<1> HIDE DEF r
<1>4. /\ row' \in [Tokens -> Rows]
      /\ job' \in [Actors -> Jobs] /\ \A v \in Actors : Busy(v)' => job'[v].tok \in Tokens
  <2>1. CASE job' = [job EXCEPT !["external"] = Idle] /\ UNCHANGED row
    <3>1. job' \in [Actors -> Jobs] /\ \A v \in Actors : Busy(v)' => job'[v].tok \in Tokens
      BY <1>2, <2>1, JobTyped, IdleTyped
    <3> QED
      BY <2>1, <3>1 DEF Typed, TypeOK
  <2>2. CASE /\ IdLeft /\ row' = [row EXCEPT ![j.tok] = r]
             /\ job' = [job EXCEPT !["external"].pc = "sent", !["external"].row = r]
    <3> DEFINE k == [j EXCEPT !.pc = "sent", !.row = r]
    <3>1. job' = [job EXCEPT !["external"] = k]
      BY <2>2 DEF Typed, TypeOK
    <3>2. k \in Jobs /\ k.tok \in Tokens
      BY <1>2, <1>3, <2>2 DEF Jobs
    <3> HIDE DEF k
    <3>3. job' \in [Actors -> Jobs] /\ \A v \in Actors : Busy(v)' => job'[v].tok \in Tokens
      BY <1>2, <3>1, <3>2, JobTyped
    <3> QED
      BY <1>2, <1>3, <2>2, <3>3 DEF Typed, TypeOK
  <2> QED
    BY <1>1, <2>1, <2>2
<1> QED
  BY <1>1, <1>4, RestTypes DEF Typed, TypeOK

LEMMA RecoverTyped ==
    ASSUME Typed, NEW t \in Tokens, Recover(t)
    PROVE  Types
<1>1. /\ UNCHANGED <<claim, pass, job, attempts, preexisting, faults, leader, view, feed, moves,
                    resolved, wallet, cash>>
      /\ raced' = raced \/ raced' = raced \cup {t}
      /\ row' = [row EXCEPT ![t].st = "open"] \/ row' = [row EXCEPT ![t] = NoRow]
  BY DEF Recover, RecoverReopens, RecoverFinalizes, leaders, funds
<1>2. row \in [Tokens -> Rows] /\ row[t] \in Rows /\ [row[t] EXCEPT !.st = "open"] \in Rows
  BY RowEdits DEF Typed, TypeOK
<1>3. row' \in [Tokens -> Rows]
  BY <1>1, <1>2, RowsAreRows
<1> QED
  BY <1>1, <1>3, RestTypes DEF Typed, TypeOK, Busy

LEMMA TypedNext == Typed /\ [Next]_vars => Typed'
<1> SUFFICES ASSUME Typed, [Next]_vars PROVE Types
  BY DEF Types, Typed
<1>1. CASE UNCHANGED vars
  BY <1>1, RestTypes DEF vars, Typed, TypeOK, Busy
<1>2. CASE \/ \E t \in Tokens, n \in 0..MaxSize : LeaderTrades(t, n)
           \/ \E t \in Tokens : Index(t) \/ Resolve(t)
           \/ LoseTrade
  BY <1>2, LeaderTypes
<1>3. CASE \E t \in Tokens : ManualReads(t) \/ ExternalReads(t) \/ Recover(t)
  BY <1>3, ReadsTyped, RecoverTyped
<1>4. CASE FastBuys \/ FastReadsSell
  BY <1>4, FastBuysTyped, FastSellTyped
<1>5. ASSUME NEW w \in Actors, Answers(w) PROVE Types
  BY <1>5, SellTypes, BuyTypes DEF Answers, SellEnds
<1>6. ASSUME NEW w \in Actors, Proceeds(w) PROVE Types
  BY <1>6, BuyTypes, ClaimsTyped, ExternalTyped DEF Proceeds
<1>7. CASE PassRead \/ (\E complete \in BOOLEAN : PassPlan(complete)) \/ PassStep
  BY <1>7, PassTyped, StepsTyped, PassBuysTyped, PassSellsTyped DEF PassStep
<1> QED
  BY <1>1, <1>2, <1>3, <1>4, <1>5, <1>6, <1>7 DEF Next

LEMMA TypedInit == Init => Typed
<1> SUFFICES ASSUME Init PROVE Typed
  OBVIOUS
<1>1. 0 \in 0..MaxMoves /\ 0 \in 0..MaxAttempts /\ 0 \in 0..MaxFaults /\ Own \in Nat /\ Wealth \in Nat
  BY PassAssumption
<1>2. /\ leader \in [Tokens -> 0..MaxSize] /\ view \in [Tokens -> 0..MaxSize]
      /\ moves \in 0..MaxMoves /\ resolved \subseteq Tokens /\ faults \in 0..MaxFaults
      /\ preexisting \subseteq Tokens /\ raced \subseteq Tokens /\ cash \in Nat
      /\ wallet \in [Tokens -> Nat]
  BY <1>1 DEF Init
<1>3. feed \in Seq(Trades)
  BY DEF Init
<1>4. row \in [Tokens -> Rows] /\ claim \in [Tokens -> Actors \cup {None}]
  BY RowsAreRows DEF Init, NoRows
<1>5. attempts \in [Tokens \X Kinds -> [n: 0..MaxAttempts, print: Nat]]
  BY <1>1 DEF Init
<1>6. job \in [Actors -> Jobs] /\ pass \in Passes1 /\ \A w \in Actors : ~Busy(w)
  BY IdleTyped, RestingTyped DEF Init, Busy
<1> QED
  BY <1>2, <1>3, <1>4, <1>5, <1>6 DEF Typed, TypeOK

\* TypeOK: every variable of the pass, its jobs, rows and claims keeps its type.
THEOREM CopyTypes == Spec => []TypeOK
<1>1. Spec => []Typed
  BY TypedInit, TypedNext, PTL DEF Spec
<1>2. Typed => TypeOK
  BY DEF Typed
<1> QED
  BY <1>1, <1>2, PTL

-----------------------------------------------------------------------------
(* The fences.                                                             *)

SameRow(t) == row'[t].st = row[t].st /\ row'[t].id = row[t].id /\ row'[t].shares = row[t].shares
NoSellOut(t) == \A w \in Actors : SentSell(w) => job[w].tok # t
Elsewhere(t) == \A u \in Tokens \ {t} : row'[u] = row[u] /\ wallet'[u] = wallet[u]
                                        /\ (u \in raced' <=> u \in raced)

\* A job that is not out is neither SELL nor BUY; one that is out has a token.
LEMMA OutJobs ==
    ASSUME Typed, NEW w \in Actors
    PROVE  /\ SentSell(w) => ~SentBuy(w) /\ job[w].tok \in Tokens /\ job[w].pc # "idle"
           /\ SentBuy(w) => job[w].tok \in Tokens /\ job[w].pc # "idle"
           /\ job[w].pc = "sent" => SentSell(w) \/ SentBuy(w)
BY JobFields DEF SentSell, SentBuy, Kinds

\* The new jobs, when one actor's changes.
LEMMA JobChange ==
    ASSUME Typed, NEW w \in Actors, NEW k, job' = [job EXCEPT ![w] = k]
    PROVE  job'[w] = k /\ \A v \in Actors \ {w} : job'[v] = job[v]
BY DEF Typed, TypeOK

\* A step that changes at most an anchor, or the job of an actor that has no BUY out,
\* and sends nothing.
LEMMA CalmSafe ==
    ASSUME Typed, Safe, NEW w \in Actors, NEW k, job' = [job EXCEPT ![w] = k],
           k = job[w] \/ (k.pc # "sent" /\ ~SentBuy(w)), w = "external" => k.kind = "close",
           UNCHANGED <<claim, wallet, raced>>, \A t \in Tokens : SameRow(t)
    PROVE  Safe'
<1>1. job'[w] = k /\ \A v \in Actors \ {w} : job'[v] = job[v]
  BY JobChange
<1>2. \A v \in Actors : job'[v] = job[v] \/ (v = w /\ job'[v].pc # "sent" /\ ~SentBuy(v))
  BY <1>1
<1>3. \A v \in Actors : SentSell(v)' => SentSell(v) /\ job'[v] = job[v]
  BY <1>2 DEF SentSell
<1>4. \A v \in Actors : /\ SentBuy(v)' => SentBuy(v) /\ job'[v] = job[v]
                        /\ SentBuy(v) => SentBuy(v)' /\ job'[v] = job[v]
  BY <1>2 DEF SentBuy
<1>5. Claimed'
  <2>1. job'["external"].kind = "close"
    BY <1>1 DEF Safe, Claimed, Actors
  <2>2. \A v \in Actors : SentBuy(v)' => claim'[job'[v].tok] = v
    BY <1>4 DEF Safe, Claimed
  <2>3. \A t \in Tokens, v \in Actors : claim'[t] = v => SentBuy(v)' /\ job'[v].tok = t
    BY <1>4 DEF Safe, Claimed
  <2> QED
    BY <2>1, <2>2, <2>3 DEF Claimed, SentBuy
<1>6. SellsExclusive'
  <2> SUFFICES ASSUME NEW v \in Actors, SentSell(v)', job'[v].tok \notin raced'
               PROVE  /\ StillFenced(job[v])' /\ claim'[job'[v].tok] = None
                      /\ \A u \in Actors \ {v} : ~(job'[u].pc = "sent" /\ job'[u].tok = job'[v].tok)
    BY DEF SellsExclusive, SentSell
  <2>1. SentSell(v) /\ job'[v] = job[v] /\ job[v].tok \notin raced /\ job[v].tok \in Tokens
    BY <1>3, OutJobs
  <2>2. /\ StillFenced(job[v]) /\ claim[job[v].tok] = None
        /\ \A u \in Actors \ {v} : ~(job[u].pc = "sent" /\ job[u].tok = job[v].tok)
    BY <2>1 DEF Safe, SellsExclusive, SentSell
  <2>3. StillFenced(job[v])'
    BY <2>1, <2>2 DEF StillFenced, SameRow
  <2> QED
    BY <1>2, <2>1, <2>2, <2>3
<1>7. Backed'
  <2> SUFFICES ASSUME NEW v \in Actors \ {"external"}, SentSell(v)', job'[v].tok \notin raced'
               PROVE  /\ row'[job'[v].tok].shares = job'[v].row.shares
                      /\ row'[job'[v].tok].shares <= wallet'[job'[v].tok]
    BY DEF Backed, SentSell
  <2>1. SentSell(v) /\ job'[v] = job[v] /\ job[v].tok \notin raced /\ job[v].tok \in Tokens
    BY <1>3, OutJobs
  <2>2. /\ row[job[v].tok].shares = job[v].row.shares
        /\ row[job[v].tok].shares <= wallet[job[v].tok]
    BY <2>1 DEF Safe, Backed
  <2> QED
    BY <2>1, <2>2 DEF SameRow
<1>8. RowBackedUnlessRaced'
  BY DEF Safe, RowBackedUnlessRaced, SameRow
<1>9. HoldingWithinLimit'
  <2> SUFFICES ASSUME NEW t \in Tokens
               PROVE  wallet'[t] + (IF claim'[t] # None THEN job'[claim'[t]].amt ELSE 0)
                         <= Max({Settings.maxPos, Own})
    BY DEF HoldingWithinLimit
  <2>1. wallet[t] + (IF claim[t] # None THEN job[claim[t]].amt ELSE 0) <= Max({Settings.maxPos, Own})
    BY DEF Safe, HoldingWithinLimit
  <2>2. claim[t] # None => claim[t] \in Actors /\ SentBuy(claim[t])
    BY DEF Safe, Claimed, Typed, TypeOK
  <2>3. claim[t] # None => job'[claim[t]] = job[claim[t]]
    BY <1>4, <2>2
  <2> QED
    BY <2>1, <2>3
<1> QED
  BY <1>5, <1>6, <1>7, <1>8, <1>9 DEF Safe

\* A row changes while no SELL of it is out, and is backed afterwards if it is open.
LEMMA RowSafe ==
    ASSUME Typed, Safe, NEW t \in Tokens, Elsewhere(t), UNCHANGED <<claim, job, wallet>>,
           t \notin raced' => t \notin raced /\ NoSellOut(t),
           t \notin raced' /\ row'[t].st = "open" => row'[t].shares <= wallet[t]
    PROVE  Safe'
<1>1. \A v \in Actors : (SentSell(v)' <=> SentSell(v)) /\ (SentBuy(v)' <=> SentBuy(v))
  BY DEF SentSell, SentBuy
<1>2. Claimed'
  BY <1>1 DEF Safe, Claimed
<1>3. ASSUME NEW v \in Actors, SentSell(v), job[v].tok \notin raced'
      PROVE  /\ job[v].tok \in Tokens \ {t} /\ row'[job[v].tok] = row[job[v].tok]
             /\ job[v].tok \notin raced
  <2>1. job[v].tok \in Tokens
    BY <1>3, OutJobs
  <2>2. job[v].tok # t
    BY <1>3 DEF NoSellOut
  <2> QED
    BY <1>3, <2>1, <2>2 DEF Elsewhere
<1>4. SellsExclusive'
  <2> SUFFICES ASSUME NEW v \in Actors, SentSell(v), job[v].tok \notin raced'
               PROVE  /\ StillFenced(job[v])' /\ claim'[job[v].tok] = None
                      /\ \A u \in Actors \ {v} : ~(job[u].pc = "sent" /\ job[u].tok = job[v].tok)
    BY DEF SellsExclusive, SentSell
  <2>1. /\ StillFenced(job[v]) /\ claim[job[v].tok] = None
        /\ \A u \in Actors \ {v} : ~(job[u].pc = "sent" /\ job[u].tok = job[v].tok)
    BY <1>3 DEF Safe, SellsExclusive, SentSell
  <2>2. StillFenced(job[v])'
    BY <1>3, <2>1 DEF StillFenced
  <2> QED
    BY <2>1, <2>2
<1>5. Backed'
  BY <1>1, <1>3 DEF Safe, Backed
<1>6. RowBackedUnlessRaced'
  BY DEF Safe, RowBackedUnlessRaced, Elsewhere
<1>7. HoldingWithinLimit'
  BY DEF Safe, HoldingWithinLimit
<1> QED
  BY <1>2, <1>4, <1>5, <1>6, <1>7 DEF Safe

\* An actor sends its SELL with the fence of a row nobody is buying or selling.
LEMMA FenceSafe ==
    ASSUME Typed, Safe, NEW w \in Actors, NEW k, NEW t \in Tokens,
           job' = [job EXCEPT ![w] = k], job[w].pc # "sent",
           k.pc = "sent", k.kind \in {"decrease", "close"}, k.tok = t,
           w = "external" => k.kind = "close",
           UNCHANGED <<claim, wallet>>, Elsewhere(t), claim[t] = None,
           row'[t].st = "closing", row'[t].id = k.row.id,
           t \notin raced' => t \notin raced /\ NoSellOut(t),
           t \notin raced' /\ w # "external" => row'[t].shares = k.row.shares /\ row'[t].shares <= wallet[t]
    PROVE  Safe'
<1>1. job'[w] = k /\ \A v \in Actors \ {w} : job'[v] = job[v]
  BY JobChange
<1>2. SentSell(w)' /\ ~SentBuy(w)' /\ ~SentBuy(w) /\ ~SentSell(w)
  BY <1>1 DEF SentSell, SentBuy
<1>3. \A v \in Actors \ {w} : (SentSell(v)' <=> SentSell(v)) /\ (SentBuy(v)' <=> SentBuy(v))
  BY <1>1 DEF SentSell, SentBuy
<1>4. Claimed'
  <2>1. job'["external"].kind = "close"
    BY <1>1 DEF Safe, Claimed, Actors
  <2>2. \A v \in Actors : SentBuy(v)' => claim'[job'[v].tok] = v
    BY <1>1, <1>2, <1>3 DEF Safe, Claimed
  <2>3. \A u \in Tokens, v \in Actors : claim'[u] = v => SentBuy(v)' /\ job'[v].tok = u
    BY <1>1, <1>2, <1>3 DEF Safe, Claimed
  <2> QED
    BY <2>1, <2>2, <2>3 DEF Claimed, SentBuy
<1>5. ASSUME NEW v \in Actors \ {w}, SentSell(v)', job'[v].tok \notin raced'
      PROVE  /\ SentSell(v) /\ job'[v] = job[v] /\ job[v].tok \in Tokens \ {t}
             /\ row'[job[v].tok] = row[job[v].tok] /\ wallet'[job[v].tok] = wallet[job[v].tok]
             /\ job[v].tok \notin raced
  <2>1. SentSell(v) /\ job'[v] = job[v] /\ job[v].tok \in Tokens
    BY <1>1, <1>3, <1>5, OutJobs
  <2>2. job[v].tok # t
    BY <1>5, <2>1 DEF NoSellOut
  <2> QED
    BY <1>5, <2>1, <2>2 DEF Elsewhere
<1>6. SellsExclusive'
  <2> SUFFICES ASSUME NEW v \in Actors, SentSell(v)', job'[v].tok \notin raced'
               PROVE  /\ StillFenced(job[v])' /\ claim'[job'[v].tok] = None
                      /\ \A u \in Actors \ {v} : ~(job'[u].pc = "sent" /\ job'[u].tok = job'[v].tok)
    BY DEF SellsExclusive, SentSell
  <2>1. CASE v = w
    <3>1. StillFenced(job[v])' /\ claim'[job'[v].tok] = None
      BY <1>1, <2>1 DEF StillFenced
    <3>2. ASSUME NEW u \in Actors \ {v}, job'[u].pc = "sent", job'[u].tok = t
          PROVE  FALSE
      <4>1. job[u].pc = "sent" /\ job[u].tok = t
        BY <1>1, <2>1, <3>2
      <4>2. SentSell(u) \/ SentBuy(u)
        BY <4>1, OutJobs
      <4>3. ~SentBuy(u)
        BY <4>1, PassAssumption DEF Safe, Claimed, Actors
      <4>4. ~SentSell(u)
        BY <1>1, <2>1, <4>1 DEF NoSellOut
      <4> QED
        BY <4>2, <4>3, <4>4
    <3> QED
      BY <1>1, <2>1, <3>1, <3>2
  <2>2. CASE v # w
    <3>1. /\ SentSell(v) /\ job'[v] = job[v] /\ job[v].tok \in Tokens \ {t}
          /\ row'[job[v].tok] = row[job[v].tok] /\ job[v].tok \notin raced
      BY <1>5, <2>2
    <3>2. /\ StillFenced(job[v]) /\ claim[job[v].tok] = None
          /\ \A u \in Actors \ {v} : ~(job[u].pc = "sent" /\ job[u].tok = job[v].tok)
      BY <3>1 DEF Safe, SellsExclusive, SentSell
    <3>3. StillFenced(job[v])'
      BY <3>1, <3>2 DEF StillFenced
    <3> QED
      BY <1>1, <3>1, <3>2, <3>3
  <2> QED
    BY <2>1, <2>2
<1>7. Backed'
  <2> SUFFICES ASSUME NEW v \in Actors \ {"external"}, SentSell(v)', job'[v].tok \notin raced'
               PROVE  /\ row'[job'[v].tok].shares = job'[v].row.shares
                      /\ row'[job'[v].tok].shares <= wallet'[job'[v].tok]
    BY DEF Backed, SentSell
  <2>1. CASE v = w
    BY <1>1, <2>1
  <2>2. CASE v # w
    BY <1>5, <2>2 DEF Safe, Backed
  <2> QED
    BY <2>1, <2>2
<1>8. RowBackedUnlessRaced'
  BY DEF Safe, RowBackedUnlessRaced, Elsewhere
<1>9. HoldingWithinLimit'
  <2> SUFFICES ASSUME NEW u \in Tokens
               PROVE  wallet'[u] + (IF claim'[u] # None THEN job'[claim'[u]].amt ELSE 0)
                         <= Max({Settings.maxPos, Own})
    BY DEF HoldingWithinLimit
  <2>1. wallet[u] + (IF claim[u] # None THEN job[claim[u]].amt ELSE 0) <= Max({Settings.maxPos, Own})
    BY DEF Safe, HoldingWithinLimit
  <2>2. claim[u] # None => claim[u] \in Actors /\ SentBuy(claim[u])
    BY DEF Safe, Claimed, Typed, TypeOK
  <2>3. claim[u] # None => job'[claim[u]] = job[claim[u]]
    BY <1>1, <1>2, <2>2
  <2> QED
    BY <2>1, <2>3
<1> QED
  BY <1>4, <1>6, <1>7, <1>8, <1>9 DEF Safe

\* A SELL ends.
LEMMA EndSafe ==
    ASSUME Typed, Safe, NEW w \in Actors, SentSell(w), NEW t, t = job[w].tok,
           job' = [job EXCEPT ![w] = Idle], UNCHANGED <<claim, raced>>, Elsewhere(t),
           wallet'[t] <= wallet[t], wallet'[t] \in Nat,
           t \notin raced /\ row'[t].st = "open" => row'[t].shares <= wallet'[t]
    PROVE  Safe'
<1>1. job'[w] = Idle /\ \A v \in Actors \ {w} : job'[v] = job[v]
  BY JobChange
<1>2. ~SentSell(w)' /\ ~SentBuy(w)' /\ ~SentBuy(w) /\ t \in Tokens /\ job'[w].pc = "idle"
  BY <1>1, OutJobs DEF SentSell, SentBuy, Idle
<1>3. \A v \in Actors \ {w} : (SentSell(v)' <=> SentSell(v)) /\ (SentBuy(v)' <=> SentBuy(v))
  BY <1>1 DEF SentSell, SentBuy
<1>4. Claimed'
  <2>1. job'["external"].kind = "close"
    BY <1>1 DEF Safe, Claimed, Actors, Idle
  <2>2. \A v \in Actors : SentBuy(v)' => claim'[job'[v].tok] = v
    BY <1>1, <1>2, <1>3 DEF Safe, Claimed
  <2>3. \A u \in Tokens, v \in Actors : claim'[u] = v => SentBuy(v)' /\ job'[v].tok = u
    BY <1>1, <1>2, <1>3 DEF Safe, Claimed
  <2> QED
    BY <2>1, <2>2, <2>3 DEF Claimed, SentBuy
<1>5. ASSUME NEW v \in Actors, SentSell(v)', job'[v].tok \notin raced'
      PROVE  /\ v # w /\ SentSell(v) /\ job'[v] = job[v] /\ job[v].tok \in Tokens \ {t}
             /\ row'[job[v].tok] = row[job[v].tok] /\ wallet'[job[v].tok] = wallet[job[v].tok]
             /\ job[v].tok \notin raced
  <2>1. v # w /\ SentSell(v) /\ job'[v] = job[v] /\ job[v].tok \in Tokens /\ job[v].tok \notin raced
    BY <1>1, <1>2, <1>3, <1>5, OutJobs
  <2>2. job[v].tok # t
    <3>1. \A u \in Actors \ {v} : ~(job[u].pc = "sent" /\ job[u].tok = job[v].tok)
      BY <2>1 DEF Safe, SellsExclusive, SentSell
    <3> QED
      BY <2>1, <3>1 DEF SentSell
  <2> QED
    BY <2>1, <2>2 DEF Elsewhere
<1>6. SellsExclusive'
  <2> SUFFICES ASSUME NEW v \in Actors, SentSell(v)', job'[v].tok \notin raced'
               PROVE  /\ StillFenced(job[v])' /\ claim'[job'[v].tok] = None
                      /\ \A u \in Actors \ {v} : ~(job'[u].pc = "sent" /\ job'[u].tok = job'[v].tok)
    BY DEF SellsExclusive, SentSell
  <2>1. /\ v # w /\ SentSell(v) /\ job'[v] = job[v] /\ job[v].tok \in Tokens \ {t}
        /\ row'[job[v].tok] = row[job[v].tok] /\ job[v].tok \notin raced
    BY <1>5
  <2>2. /\ StillFenced(job[v]) /\ claim[job[v].tok] = None
        /\ \A u \in Actors \ {v} : ~(job[u].pc = "sent" /\ job[u].tok = job[v].tok)
    BY <2>1 DEF Safe, SellsExclusive, SentSell
  <2>3. StillFenced(job[v])'
    BY <2>1, <2>2 DEF StillFenced
  <2> QED
    BY <1>1, <1>2, <2>1, <2>2, <2>3
<1>7. Backed'
  <2> SUFFICES ASSUME NEW v \in Actors \ {"external"}, SentSell(v)', job'[v].tok \notin raced'
               PROVE  /\ row'[job'[v].tok].shares = job'[v].row.shares
                      /\ row'[job'[v].tok].shares <= wallet'[job'[v].tok]
    BY DEF Backed, SentSell
  <2> QED
    BY <1>5 DEF Safe, Backed
<1>8. RowBackedUnlessRaced'
  BY DEF Safe, RowBackedUnlessRaced, Elsewhere
<1>9. HoldingWithinLimit'
  <2> SUFFICES ASSUME NEW u \in Tokens
               PROVE  wallet'[u] + (IF claim'[u] # None THEN job'[claim'[u]].amt ELSE 0)
                         <= Max({Settings.maxPos, Own})
    BY DEF HoldingWithinLimit
  <2> DEFINE limit == Max({Settings.maxPos, Own})
             out == IF claim[u] # None THEN job[claim[u]].amt ELSE 0
  <2>1. wallet[u] + out <= limit
    BY DEF Safe, HoldingWithinLimit
  <2>2. claim[u] # None => claim[u] \in Actors /\ SentBuy(claim[u])
    BY DEF Safe, Claimed, Typed, TypeOK
  <2>3. claim[u] # None => job'[claim[u]] = job[claim[u]] /\ job[claim[u]].amt \in Nat
    BY <1>1, <1>2, <2>2, JobFields
  <2>4. wallet'[u] <= wallet[u] /\ wallet[u] \in Nat /\ wallet'[u] \in Nat
    BY <1>2, RowFields DEF Elsewhere
  <2>5. out \in Nat /\ (IF claim'[u] # None THEN job'[claim'[u]].amt ELSE 0) = out
    BY <2>3
  <2>6. limit \in Int
    <3>1. Settings.maxPos \in Int /\ Own \in Int
      BY SettingsAssumption, PassAssumption DEF SettingsType
    <3> DEFINE m == Settings.maxPos
    <3> HIDE DEF m
    <3>2. Max({m, Own}) \in {m, Own}
      BY <3>1, GreatestOfTwo DEF m
    <3> QED
      BY <3>1, <3>2 DEF m
  <2> HIDE DEF out, limit
  <2>7. wallet'[u] + out <= limit
    BY <2>1, <2>4, <2>5, <2>6
  <2> QED
    BY <2>5, <2>7 DEF limit
<1> QED
  BY <1>4, <1>6, <1>7, <1>8, <1>9 DEF Safe

LEMMA LimitTyped == Max({Settings.maxPos, Own}) \in Int /\ Settings.maxPos <= Max({Settings.maxPos, Own})
<1> DEFINE m == Settings.maxPos
<1>1. m \in Int /\ Own \in Int
  BY SettingsAssumption, PassAssumption DEF SettingsType
<1> HIDE DEF m
<1>2. Max({m, Own}) \in {m, Own} /\ Max({m, Own}) >= m
  BY <1>1, GreatestOfTwo
<1>3. Max({m, Own}) \in Int /\ m <= Max({m, Own})
  BY <1>1, <1>2
<1> QED
  BY <1>3 DEF m

\* An unraced SELL that is out has its row fenced, and no claim.
LEMMA OutFenced ==
    ASSUME Typed, Safe, NEW v \in Actors, SentSell(v), job[v].tok \notin raced
    PROVE  row[job[v].tok].st = "closing" /\ claim[job[v].tok] = None /\ job[v].tok \in Tokens
BY OutJobs DEF Safe, SellsExclusive, SentSell, StillFenced

\* A BUY takes its claim.
LEMMA BuySafe ==
    ASSUME Typed, Safe, NEW w \in Actors, NEW k, NEW t \in Tokens,
           job' = [job EXCEPT ![w] = k], job[w].pc # "sent", w # "external",
           k.pc = "sent", k.kind \in {"open", "increase"}, k.tok = t, k.amt \in Nat,
           wallet[t] + k.amt <= Settings.maxPos,
           claim[t] = None, claim' = [claim EXCEPT ![t] = w], row[t].st # "closing",
           UNCHANGED <<row, wallet, raced>>
    PROVE  Safe'
<1>1. job'[w] = k /\ \A v \in Actors \ {w} : job'[v] = job[v]
  BY JobChange
<1>2. SentBuy(w)' /\ ~SentSell(w)' /\ ~SentBuy(w)
  BY <1>1 DEF SentSell, SentBuy
<1>3. \A v \in Actors \ {w} : (SentSell(v)' <=> SentSell(v)) /\ (SentBuy(v)' <=> SentBuy(v))
  BY <1>1 DEF SentSell, SentBuy
<1>4. claim'[t] = w /\ \A u \in Tokens \ {t} : claim'[u] = claim[u]
  BY DEF Typed, TypeOK
<1>5. None \notin Actors
  BY PassAssumption DEF Actors
<1>6. Claimed'
  <2>1. job'["external"].kind = "close"
    BY <1>1 DEF Safe, Claimed, Actors
  <2>2. ASSUME NEW v \in Actors, SentBuy(v)' PROVE claim'[job'[v].tok] = v
    <3>1. CASE v = w
      BY <1>1, <1>4, <3>1
    <3>2. CASE v # w
      <4>1. SentBuy(v) /\ job'[v] = job[v] /\ claim[job[v].tok] = v /\ job[v].tok \in Tokens
        BY <1>1, <1>3, <2>2, <3>2, OutJobs DEF Safe, Claimed
      <4> QED
        BY <1>4, <1>5, <4>1
    <3> QED
      BY <3>1, <3>2
  <2>3. \A u \in Tokens, v \in Actors : claim'[u] = v => SentBuy(v)' /\ job'[v].tok = u
    BY <1>1, <1>2, <1>3, <1>4 DEF Safe, Claimed
  <2> QED
    BY <2>1, <2>2, <2>3 DEF Claimed, SentBuy
<1>7. ASSUME NEW v \in Actors, SentSell(v)', job'[v].tok \notin raced'
      PROVE  /\ v # w /\ SentSell(v) /\ job'[v] = job[v] /\ job[v].tok \in Tokens \ {t}
             /\ job[v].tok \notin raced
  <2>1. v # w /\ SentSell(v) /\ job'[v] = job[v] /\ job[v].tok \notin raced
    BY <1>1, <1>2, <1>3, <1>7
  <2> QED
    BY <2>1, OutFenced
<1>8. SellsExclusive'
  <2> SUFFICES ASSUME NEW v \in Actors, SentSell(v)', job'[v].tok \notin raced'
               PROVE  /\ StillFenced(job[v])' /\ claim'[job'[v].tok] = None
                      /\ \A u \in Actors \ {v} : ~(job'[u].pc = "sent" /\ job'[u].tok = job'[v].tok)
    BY DEF SellsExclusive, SentSell
  <2>1. /\ v # w /\ SentSell(v) /\ job'[v] = job[v] /\ job[v].tok \in Tokens \ {t}
        /\ job[v].tok \notin raced
    BY <1>7
  <2>2. /\ StillFenced(job[v]) /\ claim[job[v].tok] = None
        /\ \A u \in Actors \ {v} : ~(job[u].pc = "sent" /\ job[u].tok = job[v].tok)
    BY <2>1 DEF Safe, SellsExclusive, SentSell
  <2>3. StillFenced(job[v])'
    BY <2>1, <2>2 DEF StillFenced
  <2> QED
    BY <1>1, <1>4, <2>1, <2>2, <2>3
<1>9. Backed'
  <2> SUFFICES ASSUME NEW v \in Actors \ {"external"}, SentSell(v)', job'[v].tok \notin raced'
               PROVE  /\ row'[job'[v].tok].shares = job'[v].row.shares
                      /\ row'[job'[v].tok].shares <= wallet'[job'[v].tok]
    BY DEF Backed, SentSell
  <2> QED
    BY <1>7 DEF Safe, Backed
<1>10. RowBackedUnlessRaced'
  BY DEF Safe, RowBackedUnlessRaced
<1>11. HoldingWithinLimit'
  <2> SUFFICES ASSUME NEW u \in Tokens
               PROVE  wallet'[u] + (IF claim'[u] # None THEN job'[claim'[u]].amt ELSE 0)
                         <= Max({Settings.maxPos, Own})
    BY DEF HoldingWithinLimit
  <2>1. CASE u = t
    <3>1. wallet[t] + k.amt <= Max({Settings.maxPos, Own})
      <4>1. wallet[t] \in Nat /\ Settings.maxPos \in Nat
        BY RowFields, SettingsAssumption DEF SettingsType
      <4> DEFINE limit == Max({Settings.maxPos, Own})
      <4>2. limit \in Int /\ Settings.maxPos <= limit
        BY LimitTyped
      <4> HIDE DEF limit
      <4>3. wallet[t] + k.amt <= limit
        BY <4>1, <4>2
      <4> QED
        BY <4>3 DEF limit
    <3> QED
      BY <1>1, <1>4, <1>5, <2>1, <3>1
  <2>2. CASE u # t
    <3>1. wallet[u] + (IF claim[u] # None THEN job[claim[u]].amt ELSE 0) <= Max({Settings.maxPos, Own})
      BY DEF Safe, HoldingWithinLimit
    <3>2. claim[u] # None => claim[u] \in Actors /\ SentBuy(claim[u])
      BY DEF Safe, Claimed, Typed, TypeOK
    <3>3. claim[u] # None => job'[claim[u]] = job[claim[u]]
      BY <1>1, <1>2, <3>2
    <3> QED
      BY <1>4, <2>2, <3>1, <3>3
  <2> QED
    BY <2>1, <2>2
<1> QED
  BY <1>6, <1>8, <1>9, <1>10, <1>11 DEF Safe

\* A BUY ends, filled or not.
LEMMA BuyEndSafe ==
    ASSUME Typed, Safe, NEW w \in Actors, SentBuy(w), NEW t, t = job[w].tok,
           job' = [job EXCEPT ![w] = Idle], claim' = [claim EXCEPT ![t] = None],
           raced' = raced, Elsewhere(t),
           wallet'[t] \in Nat, wallet'[t] <= wallet[t] + job[w].amt,
           t \notin raced /\ row'[t].st = "open" => row'[t].shares <= wallet'[t]
    PROVE  Safe'
<1>1. job'[w] = Idle /\ \A v \in Actors \ {w} : job'[v] = job[v]
  BY JobChange
<1>2. ~SentSell(w)' /\ ~SentBuy(w)' /\ ~SentSell(w) /\ t \in Tokens /\ job'[w].pc = "idle" /\ claim[t] = w
  BY <1>1, OutJobs DEF SentSell, SentBuy, Idle, Safe, Claimed
<1>3. \A v \in Actors \ {w} : (SentSell(v)' <=> SentSell(v)) /\ (SentBuy(v)' <=> SentBuy(v))
  BY <1>1 DEF SentSell, SentBuy
<1>4. claim'[t] = None /\ \A u \in Tokens \ {t} : claim'[u] = claim[u]
  BY <1>2 DEF Typed, TypeOK
<1>5. None \notin Actors
  BY PassAssumption DEF Actors
<1>6. Claimed'
  <2>1. job'["external"].kind = "close"
    BY <1>1 DEF Safe, Claimed, Actors, Idle
  <2>2. ASSUME NEW v \in Actors, SentBuy(v)' PROVE claim'[job'[v].tok] = v
    <3>1. v # w /\ SentBuy(v) /\ job'[v] = job[v] /\ claim[job[v].tok] = v /\ job[v].tok \in Tokens
      BY <1>1, <1>2, <1>3, <2>2, OutJobs DEF Safe, Claimed
    <3> QED
      BY <1>2, <1>4, <3>1
  <2>3. ASSUME NEW u \in Tokens, NEW v \in Actors, claim'[u] = v PROVE SentBuy(v)' /\ job'[v].tok = u
    <3>1. u # t /\ claim[u] = v
      BY <1>4, <1>5, <2>3
    <3>2. SentBuy(v) /\ job[v].tok = u
      BY <3>1 DEF Safe, Claimed
    <3> QED
      BY <1>1, <1>3, <3>1, <3>2
  <2> QED
    BY <2>1, <2>2, <2>3 DEF Claimed, SentBuy
<1>7. ASSUME NEW v \in Actors, SentSell(v)', job'[v].tok \notin raced'
      PROVE  /\ v # w /\ SentSell(v) /\ job'[v] = job[v] /\ job[v].tok \in Tokens \ {t}
             /\ job[v].tok \notin raced /\ row'[job[v].tok] = row[job[v].tok]
             /\ wallet'[job[v].tok] = wallet[job[v].tok]
  <2>1. v # w /\ SentSell(v) /\ job'[v] = job[v] /\ job[v].tok \notin raced
    BY <1>1, <1>2, <1>3, <1>7
  <2>2. job[v].tok \in Tokens \ {t}
    BY <1>2, <1>5, <2>1, OutFenced
  <2> QED
    BY <2>1, <2>2 DEF Elsewhere
<1>8. SellsExclusive'
  <2> SUFFICES ASSUME NEW v \in Actors, SentSell(v)', job'[v].tok \notin raced'
               PROVE  /\ StillFenced(job[v])' /\ claim'[job'[v].tok] = None
                      /\ \A u \in Actors \ {v} : ~(job'[u].pc = "sent" /\ job'[u].tok = job'[v].tok)
    BY DEF SellsExclusive, SentSell
  <2>1. /\ v # w /\ SentSell(v) /\ job'[v] = job[v] /\ job[v].tok \in Tokens \ {t}
        /\ job[v].tok \notin raced /\ row'[job[v].tok] = row[job[v].tok]
    BY <1>7
  <2>2. /\ StillFenced(job[v]) /\ claim[job[v].tok] = None
        /\ \A u \in Actors \ {v} : ~(job[u].pc = "sent" /\ job[u].tok = job[v].tok)
    BY <2>1 DEF Safe, SellsExclusive, SentSell
  <2>3. StillFenced(job[v])'
    BY <2>1, <2>2 DEF StillFenced
  <2> QED
    BY <1>1, <1>2, <1>4, <2>1, <2>2, <2>3
<1>9. Backed'
  <2> SUFFICES ASSUME NEW v \in Actors \ {"external"}, SentSell(v)', job'[v].tok \notin raced'
               PROVE  /\ row'[job'[v].tok].shares = job'[v].row.shares
                      /\ row'[job'[v].tok].shares <= wallet'[job'[v].tok]
    BY DEF Backed, SentSell
  <2> QED
    BY <1>7 DEF Safe, Backed
<1>10. RowBackedUnlessRaced'
  BY DEF Safe, RowBackedUnlessRaced, Elsewhere
<1>11. HoldingWithinLimit'
  <2> SUFFICES ASSUME NEW u \in Tokens
               PROVE  wallet'[u] + (IF claim'[u] # None THEN job'[claim'[u]].amt ELSE 0)
                         <= Max({Settings.maxPos, Own})
    BY DEF HoldingWithinLimit
  <2>0. wallet[u] + (IF claim[u] # None THEN job[claim[u]].amt ELSE 0) <= Max({Settings.maxPos, Own})
    BY DEF Safe, HoldingWithinLimit
  <2>1. CASE u = t
    <3> DEFINE limit == Max({Settings.maxPos, Own})
    <3>1. wallet[t] + job[w].amt <= limit
      BY <1>2, <1>5, <2>0, <2>1
    <3>2. wallet[t] \in Nat /\ limit \in Int /\ job[w].amt \in Nat
      BY <1>2, RowFields, LimitTyped, JobFields
    <3>3. (IF claim'[t] # None THEN job'[claim'[t]].amt ELSE 0) = 0
      BY <1>4
    <3> HIDE DEF limit
    <3>4. wallet'[t] + 0 <= limit
      BY <3>1, <3>2
    <3> QED
      BY <2>1, <3>3, <3>4 DEF limit
  <2>2. CASE u # t
    <3>1. claim[u] # None => claim[u] \in Actors /\ job[claim[u]].tok = u
      BY DEF Safe, Claimed, Typed, TypeOK
    <3>2. claim[u] # None => job'[claim[u]] = job[claim[u]]
      BY <1>1, <2>2, <3>1
    <3> QED
      BY <1>4, <2>0, <2>2, <3>2 DEF Elsewhere
  <2> QED
    BY <2>1, <2>2
<1> QED
  BY <1>6, <1>8, <1>9, <1>10, <1>11 DEF Safe

-----------------------------------------------------------------------------
(* The actions.                                                            *)

\* A step that leaves jobs, claims, rows, wallet and history alone.
LEMMA UntouchedSafe ==
    ASSUME Typed, Safe, UNCHANGED <<job, claim, wallet, raced>>, \A t \in Tokens : SameRow(t)
    PROVE  Safe'
<1>1. job' = [job EXCEPT !["pass"] = job["pass"]] /\ "pass" \in Actors
  BY DEF Typed, TypeOK, Actors
<1>2. job["pass"] = job["pass"] /\ "pass" # "external"
  OBVIOUS
<1> QED
  BY <1>1, <1>2, CalmSafe

LEMMA UnchangedRow == row' = row => \A t \in Tokens : SameRow(t)
BY DEF SameRow

LEMMA LeaderSafe ==
    ASSUME Typed, Safe,
           \/ \E t \in Tokens, n \in 0..MaxSize : LeaderTrades(t, n)
           \/ \E t \in Tokens : Index(t) \/ Resolve(t)
           \/ LoseTrade \/ PassRead \/ (\E complete \in BOOLEAN : PassPlan(complete)) \/ PassEnds
    PROVE  Safe'
<1>1. UNCHANGED <<job, claim, wallet, raced>> /\ row' = row
  BY DEF LeaderTrades, Index, Resolve, LoseTrade, PassRead, PassPlan, PassEnds, leaders, funds
<1> QED
  BY <1>1, UntouchedSafe, UnchangedRow

\* An anchor that rises leaves the rest of its row.
LEMMA ReanchoredSame ==
    ASSUME Typed, NEW a \in Planned1, row' = Reanchored(a)
    PROVE  \A t \in Tokens : SameRow(t)
<1>1. row \in [Tokens -> Rows] /\ a.tok \in Tokens
  BY DEF Typed, TypeOK, PlannedOver, Planned1
<1> DEFINE n == a.anchor
<1>2. row' = row \/ row' = [row EXCEPT ![a.tok].anchor = n]
  BY DEF Reanchored
<1> HIDE DEF n
<1> QED
  BY <1>1, <1>2 DEF SameRow, Rows

LEMMA StepsSafe ==
    ASSUME Typed, Safe, PassDrops \/ PassReanchors \/ PassResolves
    PROVE  Safe'
<1> DEFINE a == Head(pass.acts)
<1>1. /\ pass.acts # <<>> /\ UNCHANGED <<claim, job, raced, wallet>>
      /\ \/ row' = row \/ row' = Reanchored(a)
         \/ row[a.tok].st = "open" /\ row' = [row EXCEPT ![a.tok] = NoRow]
  BY DEF PassDrops, PassReanchors, PassResolves, funds
<1>2. a \in Planned1 /\ a.tok \in Tokens
  BY <1>1, HeadTyped DEF PlannedOver, Planned1
<1> HIDE DEF a
<1>3. CASE row' = row \/ row' = Reanchored(a)
  BY <1>1, <1>2, <1>3, UntouchedSafe, UnchangedRow, ReanchoredSame
<1>4. CASE row[a.tok].st = "open" /\ row' = [row EXCEPT ![a.tok] = NoRow]
  <2>1. row'[a.tok] = NoRow /\ Elsewhere(a.tok)
    BY <1>1, <1>2, <1>4 DEF Typed, TypeOK, Elsewhere
  <2>2. row'[a.tok].st # "open"
    BY <2>1 DEF NoRow
  <2>3. a.tok \notin raced => NoSellOut(a.tok)
    BY <1>4, OutFenced DEF NoSellOut
  <2> QED
    BY <1>1, <1>2, <2>1, <2>2, <2>3, RowSafe
<1> QED
  BY <1>1, <1>3, <1>4

\* An actor that reads, or gives up, sends nothing.
LEMMA JobSafe ==
    ASSUME Typed, Safe, NEW w \in Actors, NEW k, job' = [job EXCEPT ![w] = k],
           k.pc # "sent", job[w].pc # "sent", w = "external" => k.kind = "close",
           UNCHANGED <<row, claim, wallet, raced>>
    PROVE  Safe'
<1>1. ~SentBuy(w)
  BY DEF SentBuy
<1> QED
  BY <1>1, CalmSafe, UnchangedRow

LEMMA IdleCloses == Idle.kind = "close" /\ Idle.pc # "sent"
BY DEF Idle

LEMMA ReadsSafe ==
    ASSUME Typed, Safe, PassBuys \/ FastBuys \/ FastReadsSell
                        \/ (\E t \in Tokens : ManualReads(t) \/ ExternalReads(t))
    PROVE  Safe'
<1>1. UNCHANGED <<row, claim, wallet, raced>>
  BY DEF PassBuys, FastBuys, FastReadsSell, ManualReads, ExternalReads, funds
<1>2. CASE PassBuys
  <2> DEFINE a == Head(pass.acts)
             k == Gives(a, a.kind)
  <2>1. /\ pass.acts # <<>> /\ IsBuy(a) /\ job' = [job EXCEPT !["pass"] = k] /\ job["pass"].pc = "idle"
    BY <1>2 DEF PassBuys, Ready, Busy
  <2>2. a \in Planned1 /\ a.kind \in Kinds /\ "pass" \in Actors
    BY <2>1, HeadTyped DEF IsBuy, Kinds, Actors
  <2>3. k.pc = "read"
    BY <2>2, GivesTyped
  <2> HIDE DEF k
  <2> QED
    BY <1>1, <2>1, <2>2, <2>3, JobSafe
<1>3. CASE FastBuys
  <2>1. PICK a : job' = [job EXCEPT !["fast"] = Gives(a, "open")]
    BY <1>3 DEF FastBuys
  <2> DEFINE k == Gives(a, "open")
  <2>2. k.pc = "read" /\ "fast" \in Actors
    BY DEF Gives, Idle, Actors
  <2>3. job["fast"].pc = "idle"
    BY <1>3 DEF FastBuys, TakeTrade, Busy
  <2>4. job' = [job EXCEPT !["fast"] = k]
    BY <2>1
  <2> HIDE DEF k
  <2> QED
    BY <1>1, <2>2, <2>3, <2>4, JobSafe
<1>4. CASE FastReadsSell
  <2>1. feed # <<>> /\ job' = [job EXCEPT !["fast"] = SellJob] /\ job["fast"].pc = "idle"
    BY <1>4 DEF FastReadsSell, TakeTrade, SellJob, Busy
  <2>2. SellJob.pc = "read" /\ "fast" \in Actors
    BY <2>1, SellJobTyped DEF Actors
  <2> QED
    BY <1>1, <2>1, <2>2, JobSafe
<1>5. ASSUME NEW t \in Tokens, ManualReads(t) PROVE Safe'
  <2>1. job' = [job EXCEPT !["manual"] = ManualJob(t)] /\ job["manual"].pc = "idle" /\ "manual" \in Actors
    BY <1>5 DEF ManualReads, ManualJob, Busy, Actors
  <2>2. ManualJob(t).pc = "read"
    BY CloseJobsTyped
  <2> QED
    BY <1>1, <2>1, <2>2, JobSafe
<1>6. ASSUME NEW t \in Tokens, ExternalReads(t) PROVE Safe'
  <2>1. /\ job' = [job EXCEPT !["external"] = ExternalJob(t)] /\ job["external"].pc = "idle"
        /\ "external" \in Actors
    BY <1>6 DEF ExternalReads, ExternalJob, Busy, Actors
  <2>2. ExternalJob(t).pc = "read" /\ ExternalJob(t).kind = "close"
    BY CloseJobsTyped
  <2> QED
    BY <1>1, <2>1, <2>2, JobSafe
<1> QED
  BY <1>2, <1>3, <1>4, <1>5, <1>6

\* claim_managed_sell takes the fence of the very row the actor read.
LEMMA ClaimSafe ==
    ASSUME Typed, Safe, NEW w \in Actors, NEW j \in Jobs, j.tok \in Tokens, job[w].pc # "sent",
           j.kind \in {"decrease", "close"}, w # "external",
           MayClaim(j), ClaimSell(w, j), UNCHANGED <<claim, wallet>>
    PROVE  Safe'
<1> DEFINE k == [j EXCEPT !.pc = "sent"]
           t == j.tok
<1>1. /\ job' = [job EXCEPT ![w] = k] /\ k.pc = "sent" /\ k.kind = j.kind /\ k.tok = t /\ k.row = j.row
  BY DEF ClaimSell, Jobs
<1>2. row[t].st = "open" /\ row[t].id = j.row.id /\ claim[t] = None
  BY DEF MayClaim
<1>3. /\ row'[t].st = "closing" /\ row'[t].id = row[t].id /\ row'[t].shares = row[t].shares
      /\ \A u \in Tokens \ {t} : row'[u] = row[u]
  BY DEF ClaimSell, Typed, TypeOK, Rows
<1>4. t \notin raced' => t \notin raced /\ row[t].shares = j.row.shares
  BY DEF ClaimSell, Outdated
<1>5. \A u \in Tokens \ {t} : u \in raced' <=> u \in raced
  BY DEF ClaimSell
<1>6. t \notin raced' => NoSellOut(t)
  BY <1>2, <1>4, OutFenced DEF NoSellOut
<1>7. t \notin raced' => row'[t].shares = j.row.shares /\ row'[t].shares <= wallet[t]
  BY <1>2, <1>3, <1>4 DEF Safe, RowBackedUnlessRaced
<1>8. Elsewhere(t)
  BY <1>3, <1>5 DEF Elsewhere
<1> HIDE DEF k, t
<1> QED
  BY <1>1, <1>2, <1>3, <1>4, <1>6, <1>7, <1>8, FenceSafe DEF t

LEMMA PassSellsSafe ==
    ASSUME Typed, Safe, PassSells
    PROVE  Safe'
<1> DEFINE a == Head(pass.acts)
           j == Gives(a, a.kind)
<1>1. /\ pass.acts # <<>> /\ IsSell(a) /\ job["pass"].pc = "idle" /\ UNCHANGED <<claim, wallet>>
      /\ (MayClaim(j) /\ ClaimSell("pass", j)) \/ UNCHANGED <<row, job, raced>>
  BY DEF PassSells, Ready, Busy, funds
<1>2. a \in Planned1 /\ a.kind \in {"decrease", "close"} /\ a.kind \in Kinds /\ "pass" \in Actors
  BY <1>1, HeadTyped DEF IsSell, Kinds, Actors
<1>3. j \in Jobs /\ j.tok \in Tokens /\ j.kind = a.kind
  BY <1>2, GivesTyped
<1> HIDE DEF j, a
<1>4. CASE MayClaim(j) /\ ClaimSell("pass", j)
  BY <1>1, <1>2, <1>3, <1>4, ClaimSafe
<1>5. CASE UNCHANGED <<row, job, raced>>
  BY <1>1, <1>5, UntouchedSafe, UnchangedRow
<1> QED
  BY <1>1, <1>4, <1>5

LEMMA ClaimsSafe ==
    ASSUME Typed, Safe, NEW w \in Actors, Claims(w)
    PROVE  Safe'
<1> DEFINE j == job[w]
<1>1. /\ j.pc = "read" /\ ~(j.kind \in {"open", "increase"}) /\ w # "external" /\ UNCHANGED <<claim, wallet>>
      /\ (MayClaim(j) /\ ClaimSell(w, j)) \/ (job' = [job EXCEPT ![w] = Idle] /\ UNCHANGED <<row, raced>>)
  BY DEF Claims, funds
<1>2. j \in Jobs /\ j.tok \in Tokens /\ j.kind \in {"decrease", "close"}
  BY <1>1, JobFields DEF Kinds
<1>3. CASE MayClaim(j) /\ ClaimSell(w, j)
  BY <1>1, <1>2, <1>3, ClaimSafe
<1>4. CASE job' = [job EXCEPT ![w] = Idle] /\ UNCHANGED <<row, raced>>
  BY <1>1, <1>4, JobSafe, IdleCloses
<1> QED
  BY <1>1, <1>3, <1>4

LEMMA ExternalSafe ==
    ASSUME Typed, Safe, ExternalClaims
    PROVE  Safe'
<1> DEFINE j == job["external"]
           t == j.tok
           k == [j EXCEPT !.pc = "sent", !.row = ExternalRow]
<1>1. j.pc = "read" /\ UNCHANGED <<claim, wallet, raced>> /\ "external" \in Actors
  BY DEF ExternalClaims, funds, Actors
<1>2. j \in Jobs /\ t \in Tokens /\ j.kind = "close"
  BY <1>1, JobFields DEF Safe, Claimed
<1>3. CASE job' = [job EXCEPT !["external"] = Idle] /\ UNCHANGED row
  BY <1>1, <1>3, JobSafe, IdleCloses
<1>4. CASE /\ Untracked(t) /\ row' = [row EXCEPT ![t] = ExternalRow]
           /\ job' = [job EXCEPT !["external"].pc = "sent", !["external"].row = ExternalRow]
  <2>1. job' = [job EXCEPT !["external"] = k]
    BY <1>4 DEF Typed, TypeOK
  <2>2. k.pc = "sent" /\ k.kind = "close" /\ k.tok = t /\ k.row = ExternalRow
    BY <1>2 DEF Jobs
  <2>3. row'[t] = ExternalRow /\ ExternalRow.st = "closing" /\ Elsewhere(t)
    BY <1>1, <1>2, <1>4 DEF Typed, TypeOK, Elsewhere, ExternalRow
  <2>4. claim[t] = None /\ row[t].st = "none"
    BY <1>4 DEF Untracked, Live
  <2>5. t \notin raced => NoSellOut(t)
    BY <2>4, OutFenced DEF NoSellOut
  <2> HIDE DEF k, t
  <2> QED
    BY <1>1, <1>2, <2>1, <2>2, <2>3, <2>4, <2>5, FenceSafe
<1>5. \/ job' = [job EXCEPT !["external"] = Idle] /\ UNCHANGED row
      \/ /\ Untracked(t) /\ row' = [row EXCEPT ![t] = ExternalRow]
         /\ job' = [job EXCEPT !["external"].pc = "sent", !["external"].row = ExternalRow]
  BY DEF ExternalClaims, ExternalRow
<1> QED
  BY <1>3, <1>4, <1>5

\* What an unraced SELL that ends knows of its row.
LEMMA OutBacked ==
    ASSUME Typed, Safe, NEW w \in Actors, SentSell(w), job[w].tok \notin raced
    PROVE  /\ StillFenced(job[w]) /\ row[job[w].tok].st = "closing"
           /\ w # "external" => /\ row[job[w].tok].shares = job[w].row.shares
                                /\ row[job[w].tok].shares <= wallet[job[w].tok]
           /\ w = "external" => job[w].kind = "close"
<1>1. StillFenced(job[w])
  BY DEF Safe, SellsExclusive, SentSell
<1>2. w # "external" => /\ row[job[w].tok].shares = job[w].row.shares
                        /\ row[job[w].tok].shares <= wallet[job[w].tok]
  BY DEF Safe, Backed
<1> QED
  BY <1>1, <1>2 DEF StillFenced, Safe, Claimed

LEMMA SellFilledSafe ==
    ASSUME Typed, Safe, NEW w \in Actors, SellFilled(w)
    PROVE  Safe'
<1> DEFINE j == job[w]
           t == j.tok
<1>1. /\ SentSell(w) /\ j.amt <= wallet[t] /\ job' = [job EXCEPT ![w] = Idle] /\ UNCHANGED <<claim, raced>>
      /\ wallet' = [wallet EXCEPT ![t] = @ - j.amt]
      /\ row' = IF StillFenced(j) THEN [row EXCEPT ![t] = Leftover(j)] ELSE row
  BY JobFields DEF SellFilled, SentSell, CanFill, TakeShares, Kinds
<1>2. t \in Tokens /\ j \in Jobs /\ j.amt \in Nat /\ wallet[t] \in Nat
  BY <1>1, OutJobs, JobFields, RowFields
<1>3. wallet'[t] = wallet[t] - j.amt /\ wallet'[t] \in Nat /\ wallet'[t] <= wallet[t]
  BY <1>1, <1>2 DEF Typed, TypeOK
<1>4. Elsewhere(t)
  BY <1>1 DEF Elsewhere, Typed, TypeOK
<1>5. ASSUME t \notin raced, row'[t].st = "open" PROVE row'[t].shares <= wallet'[t]
  <2>1. StillFenced(j) /\ (w # "external" => j.row.shares <= wallet[t]) /\ (w = "external" => j.kind = "close")
    BY <1>1, <1>5, OutBacked
  <2>2. row'[t] = Leftover(j)
    BY <1>1, <1>2, <2>1 DEF Typed, TypeOK
  <2>3. j.kind # "close"
    BY <1>5, <2>2 DEF Leftover, NoRow
  <2>4. row'[t].shares = Max({0, j.row.shares - j.amt})
    BY <1>2, <2>2, <2>3, LeftoverTyped
  <2>5. j.row.shares \in Nat /\ j.row.shares <= wallet[t]
    BY <1>2, <2>1, <2>3 DEF Jobs, Rows
  <2> DEFINE d == j.row.shares - j.amt
  <2>6. d \in Int /\ 0 \in Int /\ d <= wallet'[t]
    BY <1>2, <1>3, <2>5
  <2> HIDE DEF d
  <2>7. Max({0, d}) \in {0, d}
    BY <2>6, GreatestOfTwo
  <2>8. Max({0, d}) <= wallet'[t]
    BY <1>3, <2>6, <2>7
  <2> QED
    BY <2>4, <2>8 DEF d
<1> HIDE DEF j
<1> QED
  BY <1>1, <1>3, <1>4, <1>5, EndSafe DEF j

LEMMA SellEndsSafe ==
    ASSUME Typed, Safe, NEW w \in Actors,
           SellNotSent(w) \/ SellUnknown(w) \/ SellRaised(w) \/ (w = "pass" /\ BookGone)
    PROVE  Safe'
<1> DEFINE j == job[w]
           t == j.tok
<1>1. /\ SentSell(w) /\ job' = [job EXCEPT ![w] = Idle] /\ UNCHANGED <<claim, raced>>
      /\ wallet' = wallet \/ (j.amt <= wallet[t] /\ wallet' = [wallet EXCEPT ![t] = @ - j.amt] /\ row' = row)
  BY JobFields DEF SellNotSent, SellUnknown, SellRaised, BookGone, SentSell, CanFill, TakeShares, Kinds, funds
<1>2. \/ row' = row
      \/ StillFenced(j) /\ row' = [row EXCEPT ![t] = NoRow]
      \/ StillFenced(j) /\ row' = [row EXCEPT ![t].st = "review"]
      \/ StillFenced(j) /\ w # "external" /\ row' = [row EXCEPT ![t].st = "open"] /\ wallet' = wallet
  BY DEF SellNotSent, SellUnknown, SellRaised, BookGone, funds
<1>3. t \in Tokens /\ j.amt \in Nat /\ wallet[t] \in Nat /\ row[t] \in Rows
  BY <1>1, OutJobs, JobFields, RowFields
<1>4. wallet'[t] \in Nat /\ wallet'[t] <= wallet[t]
  BY <1>1, <1>3 DEF Typed, TypeOK
<1>5. Elsewhere(t)
  BY <1>1, <1>2 DEF Elsewhere, Typed, TypeOK
<1>6. ASSUME t \notin raced, row'[t].st = "open" PROVE row'[t].shares <= wallet'[t]
  <2>1. row[t].st = "closing" /\ (w # "external" => row[t].shares <= wallet[t])
    BY <1>1, <1>6, OutBacked
  <2>2. w # "external" /\ row' = [row EXCEPT ![t].st = "open"] /\ wallet' = wallet
    BY <1>2, <1>3, <1>6, <2>1 DEF Typed, TypeOK, NoRow, Rows
  <2>3. row'[t].shares = row[t].shares
    BY <1>3, <2>2 DEF Typed, TypeOK, Rows
  <2> QED
    BY <2>1, <2>2, <2>3
<1> HIDE DEF j
<1> QED
  BY <1>1, <1>4, <1>5, <1>6, EndSafe DEF j

LEMMA BuyPrepareSafe ==
    ASSUME Typed, Safe, NEW w \in Actors, BuyPrepare(w)
    PROVE  Safe'
<1> DEFINE j == job[w]
           t == j.tok
           m == BuyAmount(j)
           k == [j EXCEPT !.pc = "sent", !.amt = m]
<1>1. j.pc = "read" /\ j.kind \in {"open", "increase"} /\ RiskLockFree /\ UNCHANGED <<row, wallet, raced>>
  BY DEF BuyPrepare, funds
<1>2. j \in Jobs /\ t \in Tokens /\ w # "external"
  BY <1>1, JobFields DEF Safe, Claimed
<1>3. CASE job' = [job EXCEPT ![w] = Idle] /\ UNCHANGED claim
  BY <1>1, <1>3, JobSafe, IdleCloses
<1>4. CASE /\ MayBuy(j) /\ claim' = [claim EXCEPT ![t] = w]
           /\ job' = [job EXCEPT ![w].pc = "sent", ![w].amt = m]
  <2>1. job' = [job EXCEPT ![w] = k]
    BY <1>4 DEF Typed, TypeOK
  <2>2. m \in Int /\ m > 0 /\ m + wallet[t] <= Settings.maxPos
    BY <1>2, <1>4, BuyAmountTyped DEF MayBuy, WorthIt
  <2>3. row[t].st # "closing" /\ claim[t] = None
    BY <1>1, <1>2, <1>4 DEF MayBuy, Live, RiskLockFree
  <2>4. wallet[t] \in Nat /\ Settings.maxPos \in Nat
    BY <1>2, RowFields, SettingsAssumption DEF SettingsType
  <2> HIDE DEF m
  <2>5. m \in Nat /\ wallet[t] + m <= Settings.maxPos
    BY <2>2, <2>4
  <2>6. k.pc = "sent" /\ k.kind = j.kind /\ k.tok = t /\ k.amt = m
    BY <1>2 DEF Jobs
  <2> HIDE DEF k, t
  <2> QED
    BY <1>1, <1>2, <1>4, <2>1, <2>3, <2>5, <2>6, BuySafe
<1>5. \/ job' = [job EXCEPT ![w] = Idle] /\ UNCHANGED claim
      \/ /\ MayBuy(j) /\ claim' = [claim EXCEPT ![t] = w]
         /\ job' = [job EXCEPT ![w].pc = "sent", ![w].amt = m]
  BY DEF BuyPrepare
<1> QED
  BY <1>3, <1>4, <1>5

LEMMA BuyEndsSafe ==
    ASSUME Typed, Safe, NEW w \in Actors, BuyFilled(w) \/ BuyNotFilled(w)
    PROVE  Safe'
<1> DEFINE j == job[w]
           t == j.tok
<1>1. /\ SentBuy(w) /\ job' = [job EXCEPT ![w] = Idle] /\ claim' = [claim EXCEPT ![t] = None]
      /\ raced' = raced
  BY DEF BuyFilled, BuyNotFilled, SentBuy
<1>2. t \in Tokens /\ j.amt \in Nat /\ wallet[t] \in Nat /\ row[t] \in Rows /\ row[t].shares \in Nat
  BY <1>1, OutJobs, JobFields, RowFields
<1>3. CASE BuyNotFilled(w)
  <2>1. row' = row /\ wallet' = wallet
    BY <1>3 DEF BuyNotFilled, funds
  <2>2. Elsewhere(t)
    BY <1>1, <2>1 DEF Elsewhere
  <2>3. t \notin raced /\ row'[t].st = "open" => row'[t].shares <= wallet'[t]
    BY <1>2, <2>1 DEF Safe, RowBackedUnlessRaced
  <2>4. wallet'[t] \in Nat /\ wallet'[t] <= wallet[t] + j.amt
    BY <1>2, <2>1
  <2> HIDE DEF j
  <2> QED
    BY <1>1, <2>2, <2>3, <2>4, BuyEndSafe DEF j
<1>4. CASE BuyFilled(w)
  <2>1. /\ wallet' = [wallet EXCEPT ![t] = @ + j.amt]
        /\ j.kind = "open" => row' = [row EXCEPT ![t] = [NoRow EXCEPT !.st = "open", !.id = NewId,
                                                                      !.shares = j.amt, !.anchor = j.anchor]]
        /\ j.kind # "open" => row' = [row EXCEPT ![t].shares = @ + j.amt, ![t].anchor = j.anchor]
    BY <1>4 DEF BuyFilled
  <2>2. wallet'[t] = wallet[t] + j.amt /\ wallet'[t] \in Nat
    BY <1>2, <2>1 DEF Typed, TypeOK
  <2>3. Elsewhere(t)
    BY <1>1, <2>1 DEF Elsewhere, Typed, TypeOK
  <2>4. ASSUME t \notin raced, row'[t].st = "open" PROVE row'[t].shares <= wallet'[t]
    <3>1. CASE j.kind = "open"
      <4> DEFINE n == j.amt
                 b == j.anchor
      <4>1. row' = [row EXCEPT ![t] = [NoRow EXCEPT !.st = "open", !.id = NewId, !.shares = n, !.anchor = b]]
        BY <2>1, <3>1
      <4> HIDE DEF n, b
      <4>2. row'[t].shares = n
        BY <1>2, <4>1 DEF Typed, TypeOK, NoRow
      <4>3. row'[t].shares = j.amt
        BY <4>2 DEF n
      <4> QED
        BY <1>2, <2>2, <4>3
    <3>2. CASE j.kind # "open"
      <4> DEFINE n == row[t].shares + j.amt
                 b == j.anchor
      <4>1. row' = [row EXCEPT ![t].shares = n, ![t].anchor = b]
        BY <1>2, <2>1, <3>2 DEF Typed, TypeOK
      <4> HIDE DEF n, b
      <4>2. row'[t].shares = n /\ row'[t].st = row[t].st
        BY <1>2, <4>1 DEF Typed, TypeOK, Rows
      <4>3. row'[t].shares = row[t].shares + j.amt /\ row[t].st = "open"
        BY <2>4, <4>2 DEF n
      <4>4. row[t].shares <= wallet[t]
        BY <1>2, <2>4, <4>3 DEF Safe, RowBackedUnlessRaced
      <4> QED
        BY <1>2, <2>2, <4>3, <4>4
    <3> QED
      BY <3>1, <3>2
  <2>5. wallet'[t] <= wallet[t] + j.amt
    BY <1>2, <2>2
  <2> HIDE DEF j
  <2> QED
    BY <1>1, <2>2, <2>3, <2>4, <2>5, BuyEndSafe DEF j
<1> QED
  BY <1>3, <1>4

\* No order can still execute for a stuck row that recovery takes without a race.
LEMMA RecoverSafe ==
    ASSUME Typed, Safe, NEW t \in Tokens, Recover(t)
    PROVE  Safe'
<1>1. UNCHANGED <<claim, job, wallet>> /\ Stuck(t) /\ row[t] \in Rows
  BY RowFields DEF Recover, RecoverReopens, RecoverFinalizes, funds
<1>2. row[t].shares \in Nat /\ wallet[t] \in Nat
  BY RowFields
<1>3. /\ \A u \in Tokens \ {t} : row'[u] = row[u]
      /\ raced' = raced \/ raced' = raced \cup {t}
  BY DEF Recover, RecoverReopens, RecoverFinalizes, Typed, TypeOK
<1>4. Elsewhere(t)
  BY <1>1, <1>3 DEF Elsewhere
<1>5. ASSUME t \notin raced'
      PROVE  t \notin raced /\ ~InFlight(t) /\ (row'[t].st = "open" => row'[t].shares <= wallet[t])
  <2>1. t \notin raced
    BY <1>3, <1>5
  <2>2. CASE RecoverReopens(t)
    <3>1. PICK held \in Shown(t) :
             /\ held >= row[t].shares
             /\ raced' = IF ~row[t].dated /\ (InFlight(t) \/ held > wallet[t]) THEN raced \cup {t} ELSE raced
      BY <2>2 DEF RecoverReopens
    <3>2. row[t].dated \/ (~InFlight(t) /\ ~(held > wallet[t]))
      BY <1>5, <3>1
    <3>3. row[t].dated => held = wallet[t] /\ ~InFlight(t)
      BY <1>1, <3>1 DEF Shown, Stuck
    <3>4. held \in Int
      <4> DEFINE n == row[t].shares
                 m == wallet[t]
      <4>1. n \in Int /\ m \in Int
        BY <1>2
      <4>2. held \in {m, Max({m, n})}
        BY <3>1 DEF Shown
      <4> HIDE DEF n, m
      <4>3. Max({m, n}) \in {m, n}
        BY <4>1, GreatestOfTwo
      <4> QED
        BY <4>1, <4>2, <4>3
    <3>5. held <= wallet[t] /\ ~InFlight(t)
      BY <1>2, <3>2, <3>3, <3>4
    <3>6. row'[t].shares = row[t].shares
      BY <2>2 DEF RecoverReopens, Typed, TypeOK, Rows
    <3>7. row[t].shares <= wallet[t]
      BY <1>2, <3>1, <3>4, <3>5
    <3> QED
      BY <2>1, <3>5, <3>6, <3>7
  <2>3. CASE RecoverFinalizes(t)
    <3>1. row'[t] = NoRow /\ ~InFlight(t)
      BY <1>5, <2>3 DEF RecoverFinalizes, Stuck, Typed, TypeOK
    <3> QED
      BY <2>1, <3>1 DEF NoRow
  <2> QED
    BY <2>2, <2>3 DEF Recover
<1>6. ASSUME t \notin raced' PROVE NoSellOut(t)
  <2> SUFFICES ASSUME NEW w \in Actors, SentSell(w), job[w].tok = t PROVE FALSE
    BY DEF NoSellOut
  <2>1. row[t].id = job[w].row.id
    BY <1>5, <1>6, OutBacked DEF StillFenced
  <2>2. InFlight(t)
    BY <2>1 DEF InFlight, SentSell
  <2> QED
    BY <1>5, <1>6, <2>2
<1> QED
  BY <1>1, <1>4, <1>5, <1>6, RowSafe

LEMMA SafeNext == IInv /\ [Next]_vars => Safe'
<1> SUFFICES ASSUME Typed, Safe, [Next]_vars PROVE Safe'
  BY DEF IInv
<1>1. CASE UNCHANGED vars
  BY <1>1, UntouchedSafe, UnchangedRow DEF vars
<1>2. CASE \/ \E t \in Tokens, n \in 0..MaxSize : LeaderTrades(t, n)
           \/ \E t \in Tokens : Index(t) \/ Resolve(t)
           \/ LoseTrade \/ PassRead \/ (\E complete \in BOOLEAN : PassPlan(complete)) \/ PassEnds
  BY <1>2, LeaderSafe
<1>3. CASE \E t \in Tokens : ManualReads(t) \/ ExternalReads(t) \/ Recover(t)
  BY <1>3, ReadsSafe, RecoverSafe
<1>4. CASE FastBuys \/ FastReadsSell \/ PassBuys
  BY <1>4, ReadsSafe
<1>5. ASSUME NEW w \in Actors, Answers(w) PROVE Safe'
  BY <1>5, SellFilledSafe, SellEndsSafe, BuyEndsSafe DEF Answers
<1>6. ASSUME NEW w \in Actors, Proceeds(w) PROVE Safe'
  BY <1>6, BuyPrepareSafe, ClaimsSafe, ExternalSafe DEF Proceeds
<1>7. CASE PassDrops \/ PassReanchors \/ PassResolves \/ PassSells
  BY <1>7, StepsSafe, PassSellsSafe
<1> QED
  BY <1>1, <1>2, <1>3, <1>4, <1>5, <1>6, <1>7 DEF Next, PassStep

LEMMA SafeInit == Init => Safe
<1> SUFFICES ASSUME Init PROVE Safe
  OBVIOUS
<1>1. \A w \in Actors : ~SentSell(w) /\ ~SentBuy(w) /\ job[w].pc # "sent"
  BY DEF Init, Idle, SentSell, SentBuy
<1>2. Claimed
  BY <1>1, PassAssumption DEF Init, Idle, Claimed, Actors
<1>3. SellsExclusive /\ Backed
  BY <1>1 DEF SellsExclusive, Backed, SentSell
<1>4. RowBackedUnlessRaced
  BY DEF Init, RowBackedUnlessRaced, NoRows, NoRow
<1>5. HoldingWithinLimit
  <2> SUFFICES ASSUME NEW t \in Tokens
               PROVE  wallet[t] + (IF claim[t] # None THEN job[claim[t]].amt ELSE 0)
                         <= Max({Settings.maxPos, Own})
    BY DEF HoldingWithinLimit
  <2> DEFINE m == Settings.maxPos
  <2>1. m \in Int /\ Own \in Int /\ wallet[t] \in Int /\ wallet[t] <= Own
    BY SettingsAssumption, PassAssumption DEF Init, SettingsType
  <2>2. claim[t] = None
    BY DEF Init
  <2> HIDE DEF m
  <2>3. Max({m, Own}) \in {m, Own} /\ Max({m, Own}) >= Own
    BY <2>1, GreatestOfTwo
  <2>4. wallet[t] + 0 <= Max({m, Own})
    BY <2>1, <2>3
  <2> QED
    BY <2>2, <2>4 DEF m
<1> QED
  BY <1>2, <1>3, <1>4, <1>5 DEF Safe

\* The inductive invariant of the copies: types, claims that name exactly the BUYs that are
\* out, exclusive SELLs, unraced SELLs sized from their row as it is with a wallet that holds
\* what the row promises, backed open rows, and holdings within their limit.
THEOREM CopyInvariance == Spec => []IInv
<1>1. Init => IInv
  BY TypedInit, SafeInit DEF IInv
<1>2. IInv /\ [Next]_vars => IInv'
  BY TypedNext, SafeNext DEF IInv
<1> QED
  BY <1>1, <1>2, PTL DEF Spec

\* SellsExclusive: while a SELL is out its row stays fenced under its own id, no BUY of the
\* token is claimed and no second SELL is out (claim_managed_sell), whoever sells.
THEOREM SellsStayExclusive == Spec => []SellsExclusive
<1>1. IInv => SellsExclusive
  BY DEF IInv, Safe
<1> QED
  BY <1>1, CopyInvariance, PTL

\* RowBackedUnlessRaced: an open row never promises shares the wallet lacks, whatever the
\* order of the pass, the fast path, the user's closes, recovery and unknown outcomes, unless
\* a SELL was sized from an outdated copy or a row was reopened under its own order.
THEOREM RowsStayBacked == Spec => []RowBackedUnlessRaced
<1>1. IInv => RowBackedUnlessRaced
  BY DEF IInv, Safe
<1> QED
  BY <1>1, CopyInvariance, PTL

\* HoldingWithinLimit: what the user holds of a token and the BUY on its way together stay
\* within the limit per position, because _prepare_buy sizes every BUY again from the row and
\* the wallet as they are.
THEOREM HoldingsStayWithinLimit == Spec => []HoldingWithinLimit
<1>1. IInv => HoldingWithinLimit
  BY DEF IInv, Safe
<1> QED
  BY <1>1, CopyInvariance, PTL
=============================================================================
