--------------------------- MODULE Detection_proofs ---------------------------
(***************************************************************************)
(* What holds of Detection for every number of followers, fills, seconds   *)
(* and remembered transactions.                                            *)
(***************************************************************************)
EXTENDS Detection, FiniteSetTheorems, SequenceTheorems, TLAPS

-----------------------------------------------------------------------------
(* The operators the model is built from.                                  *)

\* The larger of two integers.
LEMMA MaxOfTwo ==
    ASSUME NEW a \in Int, NEW b \in Int
    PROVE  Max({a, b}) = IF a >= b THEN a ELSE b
<1>1. \E m \in {a, b} : \A y \in {a, b} : m >= y
  OBVIOUS
<1> QED
  BY <1>1 DEF Max

\* What may be sorted by time: finitely many fills, each with one time.
Sortable(found) ==
    /\ IsFiniteSet(found)
    /\ \A x \in found : x.ts \in Nat /\ x.i \in Nat
    /\ \A x, y \in found : x.i = y.i => x = y

\* The place of a fill among the found ones.
Rank(x, found) == Cardinality({y \in found : Earlier(y, x)}) + 1

\* Two fills are ranked in the order of their times.
LEMMA RankOrder ==
    ASSUME NEW found, Sortable(found), NEW x \in found, NEW y \in found
    PROVE  /\ Rank(x, found) \in 1..Cardinality(found)
           /\ Earlier(x, y) => Rank(x, found) < Rank(y, found)
<1> DEFINE Before(z) == {v \in found : Earlier(v, z)}
<1>1. IsFiniteSet(found) /\ Cardinality(found) \in Nat
  BY FS_CardinalityType DEF Sortable
<1>2. \A z \in found : ~ Earlier(z, z)
  BY DEF Sortable, Earlier
<1>3. ASSUME NEW z \in found
      PROVE  /\ IsFiniteSet(Before(z)) /\ Cardinality(Before(z)) \in Nat
             /\ Cardinality(Before(z)) < Cardinality(found)
  <2>1. Before(z) \in SUBSET found /\ Before(z) # found
    BY <1>2
  <2> HIDE DEF Before
  <2>2. IsFiniteSet(Before(z)) /\ Cardinality(Before(z)) <= Cardinality(found)
        /\ Cardinality(Before(z)) # Cardinality(found)
    BY <1>1, <2>1, FS_Subset
  <2>3. Cardinality(Before(z)) \in Nat
    BY <2>2, FS_CardinalityType
  <2> QED
    BY <1>1, <2>2, <2>3
<1>4. ASSUME Earlier(x, y) PROVE Cardinality(Before(x)) < Cardinality(Before(y))
  <2>1. Before(x) \in SUBSET Before(y)
    BY <1>4 DEF Sortable, Earlier
  <2>2. x \in Before(y) /\ x \notin Before(x)
    BY <1>2, <1>4
  <2>3. IsFiniteSet(Before(y)) /\ Cardinality(Before(y)) \in Nat /\ Cardinality(Before(x)) \in Nat
    BY <1>3
  <2> HIDE DEF Before
  <2>4. Cardinality(Before(x)) <= Cardinality(Before(y)) /\ Cardinality(Before(x)) # Cardinality(Before(y))
    BY <2>1, <2>2, <2>3, FS_Subset
  <2> QED
    BY <2>3, <2>4
<1>5. Rank(x, found) = Cardinality(Before(x)) + 1 /\ Rank(y, found) = Cardinality(Before(y)) + 1
  BY DEF Rank
<1> HIDE DEF Before
<1> QED
  BY <1>1, <1>3, <1>4, <1>5

\* ByTime lists every found fill once, in time order.
LEMMA ByTimeLists ==
    ASSUME NEW found, Sortable(found)
    PROVE  /\ ByTime(found) \in Seq(found)
           /\ \A x \in found : \E k \in DOMAIN ByTime(found) : ByTime(found)[k] = x
           /\ \A k, l \in DOMAIN ByTime(found) : k < l => Earlier(ByTime(found)[k], ByTime(found)[l])
<1> DEFINE n == Cardinality(found)
           r == [x \in found |-> Rank(x, found)]
           Lists(s) == /\ s \in [1..n -> found]
                       /\ \A k, l \in DOMAIN s : k < l => Earlier(s[k], s[l])
<1>1. IsFiniteSet(found) /\ n \in Nat
  BY FS_CardinalityType DEF Sortable
<1>2. IsFiniteSet(1..n) /\ Cardinality(1..n) = n
  BY <1>1, FS_Interval
<1>3. \A x, y \in found : x = y \/ Earlier(x, y) \/ Earlier(y, x)
  BY DEF Sortable, Earlier
<1>4. \A x \in found : r[x] \in 1..n
  BY RankOrder
<1>5. \A x, y \in found : Earlier(x, y) => r[x] < r[y]
  BY RankOrder
<1>6. r \in [found -> 1..n]
  BY <1>4
<1> HIDE DEF r
<1>7. r \in Injection(found, 1..n)
  BY <1>3, <1>4, <1>5, <1>6 DEF Injection, IsInjective
<1>8. r \in Surjection(found, 1..n)
  BY <1>1, <1>2, <1>7, FS_Injection
<1> DEFINE inverse == [k \in 1..n |-> CHOOSE x \in found : r[x] = k]
<1>9. \A k \in 1..n : inverse[k] \in found /\ r[inverse[k]] = k
  BY <1>8 DEF Surjection
<1>10. Lists(inverse)
  <2>1. inverse \in [1..n -> found]
    BY <1>9
  <2>2. ASSUME NEW k \in 1..n, NEW l \in 1..n, k < l
        PROVE  Earlier(inverse[k], inverse[l])
    <3> HIDE DEF inverse
    <3>1. ~ (r[inverse[l]] < r[inverse[k]]) /\ inverse[k] # inverse[l]
      BY <1>9, <2>2
    <3> QED
      BY <1>3, <1>5, <1>9, <3>1
  <2> QED
    BY <2>1, <2>2
<1>11. ByTime(found) = CHOOSE s : Lists(s)
  BY DEF ByTime
<1>12. Lists(ByTime(found))
  <2> HIDE DEF Lists
  <2> QED
    BY <1>10, <1>11
<1> DEFINE s == ByTime(found)
<1>13. s \in [1..n -> found] /\ \A k, l \in 1..n : k < l => Earlier(s[k], s[l])
  BY <1>12
<1> HIDE DEF s, n
<1>14. s \in Injection(1..n, found)
  <2>1. ASSUME NEW k \in 1..n, NEW l \in 1..n, s[k] = s[l] PROVE k = l
    <3>1. s[k] \in found
      BY <1>13
    <3>2. ~ Earlier(s[k], s[k])
      BY <3>1 DEF Sortable, Earlier
    <3> QED
      BY <1>1, <1>13, <2>1, <3>2
  <2> QED
    BY <1>13, <2>1 DEF Injection, IsInjective
<1>15. s \in Surjection(1..n, found)
  BY <1>1, <1>2, <1>14, FS_Injection DEF n
<1>16. s \in Seq(found) /\ DOMAIN s = 1..n
  BY <1>1, <1>13
<1> QED
  BY <1>13, <1>15, <1>16 DEF s, Surjection

-----------------------------------------------------------------------------
(* The inductive invariant.                                                *)

Sec(i) == fills[i].sec
Tx(i) == fills[i].tx
InSecond(c) == {i \in DOMAIN fills : Sec(i) = c}

\* The log: a transaction is named by its first fill and happens in one second,
\* which holds at most PerSecond fills.
LogFill(i) ==
    /\ Sec(i) <= clock
    /\ Tx(i) # Unset => Tx(i) \in DOMAIN fills /\ Sec(Tx(i)) = Sec(i) /\ Tx(Tx(i)) = Tx(i)
    /\ source = "chain" => Tx(i) # Unset
LogInv ==
    /\ \A i \in DOMAIN fills : LogFill(i)
    /\ \A c \in 1..MaxTime : Cardinality(InSecond(c)) <= PerSecond

\* Only a tick that applies has something to apply.
TickInv ==
    /\ tick.at <= clock
    /\ tick.pc # "apply" => \A u \in Followers : todo[u] = <<>>
    /\ tick.pc # "idle" => \A u \in tick.pending : cursors[u] # Unset

\* The cursor starts in the present; without one there is nothing to remember.
CursorInv(u) ==
    /\ cursors[u] # Unset => 1 <= cursors[u] /\ cursors[u] <= clock
    /\ cursors[u] = Unset => seen[u] = <<>> /\ todo[u] = <<>>

\* A task's fills are in time order, with the second they happened in or none,
\* and what it has not applied yet is behind its base or not behind its cursor.
TodoInv(u) ==
    /\ todo[u] # <<>> => 1 <= base[u] /\ base[u] <= cursors[u]
    /\ \A k \in DOMAIN todo[u] :
        /\ todo[u][k].i \in DOMAIN fills
        /\ todo[u][k].ts \in {0, Sec(todo[u][k].i)}
        /\ todo[u][k].ts < base[u] \/ cursors[u] <= todo[u][k].ts
    /\ \A k, l \in DOMAIN todo[u] : k < l => Earlier(todo[u][k], todo[u][l])

\* The transactions seen are distinct, in time order, and not after the cursor.
SeenInv(u) ==
    /\ \A k \in DOMAIN seen[u] : seen[u][k] \in DOMAIN fills /\ Sec(seen[u][k]) <= cursors[u]
    /\ \A k, l \in DOMAIN seen[u] :
        k < l => seen[u][k] # seen[u][l] /\ Sec(seen[u][k]) <= Sec(seen[u][l])

\* A handled fill is not after the cursor, and in the cursor's second its
\* transaction is remembered or it has none; then it is only met again in the
\* second the task started from.
InSeen(u, i) == Tx(i) # Unset => Tx(i) \in ToSet(seen[u])
HandledInv(u) ==
    \A i \in Fill : handled[u][i] > 0 =>
        /\ handled[u][i] = 1 /\ i \in DOMAIN fills
        /\ cursors[u] = Unset => Sec(i) <= tick.at
        /\ cursors[u] # Unset => Sec(i) <= cursors[u]
        /\ cursors[u] = Sec(i) => InSeen(u, i)
        /\ \A k \in DOMAIN todo[u] :
              todo[u][k].i = i /\ todo[u][k].ts >= base[u] /\ Tx(i) = Unset => todo[u][k].ts = base[u]

\* A fill missed is behind whatever a later follow starts from.
MissedInv(u) ==
    \A i \in missed[u] :
        /\ i \in DOMAIN fills /\ Sec(i) < clock
        /\ cursors[u] = Unset => Sec(i) < tick.at
        /\ cursors[u] # Unset => Sec(i) < cursors[u]
        /\ todo[u] # <<>> => Sec(i) < base[u]

\* On chain: a follower has handled every scanned fill later than its cursor's
\* first value, or has it still to apply.
HandledOne(u, tx) == \E j \in DOMAIN fills : Tx(j) = tx /\ handled[u][j] > 0
ToApply(u, i) == \E k \in DOMAIN todo[u] : todo[u][k] = [i |-> i, ts |-> Sec(i)] /\ base[u] <= Sec(i)
ScanInv(u) ==
    /\ lastBlock # Unset => lastBlock < clock
    /\ todo[u] # <<>> => lastBlock # Unset /\ \A k \in DOMAIN todo[u] : Sec(todo[u][k].i) <= lastBlock
    /\ cursors[u] # Unset => cursors[u] = begun[u] \/ (lastBlock # Unset /\ cursors[u] <= lastBlock)
    /\ \A k \in DOMAIN seen[u] : HandledOne(u, seen[u][k])
    /\ lastBlock # Unset /\ cursors[u] # Unset =>
          \A i \in DOMAIN fills \ (lost \cup overtaken[u]) :
             begun[u] < Sec(i) /\ Sec(i) <= lastBlock => HandledOne(u, Tx(i)) \/ ToApply(u, i)

FollowerInv(u) == CursorInv(u) /\ TodoInv(u) /\ SeenInv(u) /\ HandledInv(u) /\ MissedInv(u)
ChainInv == source = "chain" => \A u \in Followers : ScanInv(u)

DetectionInv == /\ DetectionTypeOK /\ LogInv /\ TickInv
                /\ \A u \in Followers : FollowerInv(u)
                /\ ChainInv

-----------------------------------------------------------------------------
(* The result of a tick.                                                   *)

\* What a detector finds: fills of the log, each with its second or with 0.
Found(found) ==
    /\ Sortable(found) /\ found \subseteq [i: Fill, ts: 0..MaxTime]
    /\ \A x \in found : x.i \in DOMAIN fills /\ x.ts \in {0, Sec(x.i)}

\* The log is a sequence of typed fills.
LEMMA LogTyped ==
    ASSUME DetectionTypeOK
    PROVE  /\ Len(fills) \in Nat /\ DOMAIN fills = 1..Len(fills) /\ Len(fills) <= MaxFills
           /\ IsFiniteSet(DOMAIN fills)
           /\ \A i \in DOMAIN fills : /\ i \in Fill /\ i \in Nat /\ fills[i] \in [sec: 1..MaxTime, tx: Txs]
                                     /\ Sec(i) \in 1..MaxTime /\ Sec(i) \in Nat /\ Tx(i) \in Txs
<1>1. /\ fills \in Seq([sec: 1..MaxTime, tx: Txs]) /\ Len(fills) <= MaxFills
      /\ MaxTime \in Nat /\ MaxFills \in Nat
  BY DetectionAssumption DEF DetectionTypeOK
<1>2. Len(fills) \in Nat /\ DOMAIN fills = 1..Len(fills)
  BY <1>1
<1>3. IsFiniteSet(1..Len(fills))
  BY <1>2, FS_Interval
<1>4. ASSUME NEW i \in DOMAIN fills
      PROVE  /\ i \in Fill /\ i \in Nat /\ fills[i] \in [sec: 1..MaxTime, tx: Txs]
             /\ Sec(i) \in 1..MaxTime /\ Sec(i) \in Nat /\ Tx(i) \in Txs
  <2>1. fills[i] \in [sec: 1..MaxTime, tx: Txs]
    BY <1>1, <1>2, ElementOfSeq
  <2>2. fills[i].sec \in 1..MaxTime /\ fills[i].tx \in Txs
    BY <2>1
  <2>3. i \in Fill /\ i \in Nat
    BY <1>1, <1>2 DEF Fill
  <2> QED
    BY <1>1, <2>1, <2>2, <2>3 DEF Sec, Tx
<1> QED
  BY <1>1, <1>2, <1>3, <1>4

\* Finitely many fills of the log with one time each are such a result.
LEMMA FoundFills ==
    ASSUME DetectionTypeOK, NEW D \in SUBSET (DOMAIN fills),
           NEW time \in [D -> Nat], \A i \in D : time[i] \in {0, Sec(i)}
    PROVE  Found({[i |-> i, ts |-> time[i]] : i \in D})
<1> DEFINE found == {[i |-> i, ts |-> time[i]] : i \in D}
           f == [i \in D |-> [i |-> i, ts |-> time[i]]]
<1>1. MaxTime \in Nat /\ MaxFills \in Nat /\ IsFiniteSet(D)
  BY LogTyped, FS_Subset, DetectionAssumption
<1>4. \A i \in D : i \in Fill /\ i \in DOMAIN fills /\ Sec(i) \in 1..MaxTime
  BY LogTyped
<1>5. f \in Surjection(D, found)
  BY DEF Surjection
<1>6. IsFiniteSet(found)
  <2> HIDE DEF f, found
  <2> QED
    BY <1>1, <1>5, FS_Surjection
<1>7. ASSUME NEW x \in found
      PROVE  /\ x \in [i: Fill, ts: 0..MaxTime] /\ x.i \in DOMAIN fills
             /\ x.ts \in {0, Sec(x.i)} /\ x.ts \in Nat /\ x.i \in Nat
  <2>1. PICK i \in D : x = [i |-> i, ts |-> time[i]]
    OBVIOUS
  <2>2. i \in Fill /\ i \in DOMAIN fills /\ Sec(i) \in 1..MaxTime /\ time[i] \in {0, Sec(i)}
    BY <1>4
  <2> QED
    BY <1>1, <2>1, <2>2 DEF Fill
<1>8. \A x, y \in found : x.i = y.i => x = y
  OBVIOUS
<1> QED
  BY <1>6, <1>7, <1>8 DEF Found, Sortable

\* Its list in time order is a list of such fills.
LEMMA ListedFills ==
    ASSUME NEW found, Found(found)
    PROVE  /\ ByTime(found) \in Seq([i: Fill, ts: 0..MaxTime])
           /\ \A k \in DOMAIN ByTime(found) :
                 ByTime(found)[k] \in found /\ ByTime(found)[k].i \in DOMAIN fills
                 /\ ByTime(found)[k].ts \in {0, Sec(ByTime(found)[k].i)}
           /\ \A x \in found : \E k \in DOMAIN ByTime(found) : ByTime(found)[k] = x
           /\ \A k, l \in DOMAIN ByTime(found) : k < l => Earlier(ByTime(found)[k], ByTime(found)[l])
           /\ found = {} => ByTime(found) = <<>>
<1> DEFINE s == ByTime(found)
<1>1. /\ s \in Seq(found) /\ \A x \in found : \E k \in DOMAIN s : s[k] = x
      /\ \A k, l \in DOMAIN s : k < l => Earlier(s[k], s[l])
  BY ByTimeLists DEF Found
<1> HIDE DEF s
<1>2. \A k \in DOMAIN s : s[k] \in found
  BY <1>1
<1>3. s \in Seq([i: Fill, ts: 0..MaxTime])
  <2>1. Len(s) \in Nat /\ s \in [1..Len(s) -> found]
    BY <1>1
  <2>2. s \in [1..Len(s) -> [i: Fill, ts: 0..MaxTime]]
    BY <2>1 DEF Found
  <2> QED
    BY <2>1, <2>2, SeqDef
<1>4. ASSUME found = {} PROVE s = <<>>
  BY <1>1, <1>4
<1> QED
  BY <1>1, <1>2, <1>3, <1>4 DEF Found, s

\* Every fetch hands such a result to Fan.
LEMMA FetchFinds ==
    ASSUME DetectionInv, FetchActivity \/ ScanChain \/ FetchFails
    PROVE  \E found : Found(found) /\ Fan(found)
<1>1. /\ fills \in Seq([sec: 1..MaxTime, tx: Txs]) /\ Len(fills) <= MaxFills
      /\ published \subseteq DOMAIN fills /\ MaxTime \in Nat
  BY DetectionAssumption DEF DetectionInv, DetectionTypeOK
<1>2. \A i \in DOMAIN fills : Sec(i) \in 1..MaxTime
  BY LogTyped DEF DetectionInv
<1>3. ASSUME NEW D \in SUBSET (DOMAIN fills), NEW old \in SUBSET D
      PROVE  Found({[i |-> i, ts |-> TimeOrZero(i, old)] : i \in D})
  <2> DEFINE time == [i \in D |-> TimeOrZero(i, old)]
  <2>1. time \in [D -> Nat] /\ \A i \in D : time[i] \in {0, Sec(i)}
    BY <1>2 DEF TimeOrZero, Sec
  <2>2. {[i |-> i, ts |-> TimeOrZero(i, old)] : i \in D} = {[i |-> i, ts |-> time[i]] : i \in D}
    OBVIOUS
  <2> HIDE DEF time
  <2> QED
    BY <2>1, <2>2, FoundFills DEF DetectionInv
<1>4. Found({})
  BY FS_EmptySet DEF Found, Sortable
<1>5. CASE FetchActivity
  <2>1. PICK D \in SUBSET (DOMAIN fills) : Fan({[i |-> i, ts |-> fills[i].sec] : i \in D})
    BY <1>1, <1>5 DEF FetchActivity
  <2>2. {[i |-> i, ts |-> fills[i].sec] : i \in D} = {[i |-> i, ts |-> TimeOrZero(i, {})] : i \in D}
    BY DEF TimeOrZero
  <2> QED
    BY <1>3, <2>1, <2>2
<1>6. CASE ScanChain
  <2>1. CASE lastBlock = Unset
    BY <1>4, <1>6, <2>1 DEF ScanChain
  <2>2. CASE lastBlock # Unset
    <3> DEFINE D == {i \in {j \in {k \in DOMAIN fills : fills[k].sec <= clock - 1} : fills[j].sec > lastBlock} :
                       fills[i].sec >= clock - 1 - Span}
    <3>1. PICK old \in SUBSET D : Fan({[i |-> i, ts |-> TimeOrZero(i, old)] : i \in D})
      BY <1>6, <2>2, Zenon DEF ScanChain
    <3>2. D \in SUBSET (DOMAIN fills)
      OBVIOUS
    <3> HIDE DEF D
    <3> QED
      BY <1>3, <3>1, <3>2
  <2> QED
    BY <2>1, <2>2
<1> QED
  BY <1>4, <1>5, <1>6 DEF FetchFails

-----------------------------------------------------------------------------
(* Types.                                                                  *)

\* Every initial state satisfies the invariant.
LEMMA DetectionInitInv == DetectionInit => DetectionInv
<1> SUFFICES ASSUME DetectionInit PROVE DetectionInv
  OBVIOUS
<1> USE DetectionAssumption
<1>1. DetectionTypeOK
  <2>1. fills \in Seq([sec: 1..MaxTime, tx: Txs]) /\ Len(fills) = 0
    BY DEF DetectionInit
  <2>2. /\ \A u \in Followers : seen[u] = <<>> /\ todo[u] = <<>>
        /\ seen \in [Followers -> Seq(Fill)]
        /\ todo \in [Followers -> Seq([i: Fill, ts: 0..MaxTime])]
    BY DEF DetectionInit, NothingTodo
  <2>3. \A u \in Followers : Len(seen[u]) <= SeenMax
    BY <2>2
  <2>4. tick \in [pc: {"idle", "fetch", "apply"}, at: 0..MaxTime, pending: SUBSET Followers]
    BY DEF DetectionInit, NoTick
  <2>5. /\ cursors \in [Followers -> 0..MaxTime \cup {Unset}] /\ base \in [Followers -> 0..MaxTime]
        /\ handled \in [Followers -> [Fill -> Nat]]
        /\ missed \in [Followers -> SUBSET Fill] /\ lost \subseteq Fill
        /\ begun \in [Followers -> 0..MaxTime] /\ overtaken \in [Followers -> SUBSET Fill]
    BY DEF DetectionInit
  <2> QED
    BY <2>1, <2>2, <2>3, <2>4, <2>5 DEF DetectionInit, DetectionTypeOK
<1>2. LogInv
  <2>1. DOMAIN fills = {}
    BY DEF DetectionInit
  <2>2. ASSUME NEW c \in 1..MaxTime PROVE Cardinality(InSecond(c)) <= PerSecond
    <3>1. InSecond(c) = {}
      BY <2>1 DEF InSecond
    <3> QED
      BY <3>1, FS_EmptySet
  <2> QED
    BY <2>1, <2>2 DEF LogInv
<1>3. TickInv
  BY DEF TickInv, DetectionInit, NoTick, NothingTodo
<1>4. ASSUME NEW u \in Followers PROVE FollowerInv(u)
  <2>1. /\ cursors[u] = Unset /\ seen[u] = <<>> /\ todo[u] = <<>> /\ missed[u] = {}
        /\ \A i \in Fill : handled[u][i] = 0
    BY DEF DetectionInit, NothingTodo
  <2> QED
    BY <2>1 DEF FollowerInv, CursorInv, TodoInv, SeenInv, HandledInv, MissedInv
<1>5. ChainInv
  <2>1. \A u \in Followers : seen[u] = <<>> /\ todo[u] = <<>> /\ cursors[u] = Unset /\ lastBlock = Unset
    BY DEF DetectionInit, NothingTodo
  <2> QED
    BY <2>1 DEF ChainInv, ScanInv
<1> QED
  BY <1>1, <1>2, <1>3, <1>4, <1>5 DEF DetectionInv

\* What a fetch makes of the tasks keeps its types.
LEMMA FanTypes ==
    ASSUME DetectionInv, tick.pc = "fetch", NEW found, Found(found), Fan(found)
    PROVE  /\ todo' \in [Followers -> Seq([i: Fill, ts: 0..MaxTime])]
           /\ base' \in [Followers -> 0..MaxTime]
           /\ tick' \in [pc: {"idle", "fetch", "apply"}, at: 0..MaxTime, pending: SUBSET Followers]
           /\ tick'.at = tick.at /\ tick'.pending = tick.pending
           /\ tick'.pc = IF found = {} THEN "idle" ELSE "apply"
<1> USE DetectionAssumption
<1>1. /\ cursors \in [Followers -> 0..MaxTime \cup {Unset}] /\ base \in [Followers -> 0..MaxTime]
      /\ tick \in [pc: {"idle", "fetch", "apply"}, at: 0..MaxTime, pending: SUBSET Followers]
  BY DEF DetectionInv, DetectionTypeOK
<1>2. \A u \in tick.pending : cursors[u] # Unset
  BY DEF DetectionInv, TickInv
<1>3. ByTime(found) \in Seq([i: Fill, ts: 0..MaxTime]) /\ <<>> \in Seq([i: Fill, ts: 0..MaxTime])
  <2>1. ByTime(found) \in Seq([i: Fill, ts: 0..MaxTime])
    BY ListedFills
  <2> QED
    BY <2>1, EmptySeq
<1>4. todo' \in [Followers -> Seq([i: Fill, ts: 0..MaxTime])]
  BY <1>3 DEF Fan
<1>5. base' \in [Followers -> 0..MaxTime]
  BY <1>1, <1>2 DEF Fan
<1> QED
  BY <1>1, <1>4, <1>5 DEF Fan

\* Every step keeps the types.
LEMMA DetectionTypeStep == DetectionInv /\ [DetectionNext]_detectionVars => DetectionTypeOK'
<1> SUFFICES ASSUME DetectionInv, [DetectionNext]_detectionVars PROVE DetectionTypeOK'
  OBVIOUS
<1> USE DetectionAssumption
<1>0. DetectionTypeOK
  BY DEF DetectionInv
<1>1. CASE Second
  <2>1. clock' \in 1..MaxTime
    BY <1>0, <1>1 DEF Second, DetectionTypeOK
  <2> QED
    BY <1>0, <1>1, <2>1 DEF Second, DetectionTypeOK, follow
<1>2. CASE LeaderFills
  <2>1. PICK tx \in {Len(fills) + 1} \cup {fills[i].tx : i \in Now} \cup {Unset} :
           fills' = Append(fills, [sec |-> clock, tx |-> tx])
    BY <1>2 DEF LeaderFills
  <2>2. Len(fills) \in Nat /\ Len(fills) < MaxFills /\ clock \in 1..MaxTime
    BY <1>0, <1>2, LogTyped DEF LeaderFills, DetectionTypeOK
  <2>3. tx \in Txs
    BY <1>0, <2>1, <2>2, LogTyped, SMTT(30) DEF Now, Txs, Fill, Tx
  <2>4. fills \in Seq([sec: 1..MaxTime, tx: Txs]) /\ [sec |-> clock, tx |-> tx] \in [sec: 1..MaxTime, tx: Txs]
    BY <1>0, <2>2, <2>3 DEF DetectionTypeOK
  <2>5. fills' \in Seq([sec: 1..MaxTime, tx: Txs]) /\ Len(fills') = Len(fills) + 1
    BY <2>1, <2>4, AppendProperties
  <2>6. DOMAIN fills = 1..Len(fills) /\ DOMAIN fills' = 1..Len(fills) + 1
    BY <2>4, <2>5, LenProperties
  <2>7. published' \subseteq DOMAIN fills' /\ Len(fills') <= MaxFills
    BY <1>0, <1>2, <2>2, <2>5, <2>6, SMTT(30) DEF LeaderFills, DetectionTypeOK
  <2> QED
    BY <1>0, <1>2, <2>5, <2>7 DEF LeaderFills, DetectionTypeOK, follow
<1>3. ASSUME NEW i \in Fill, Publish(i) PROVE DetectionTypeOK'
  BY <1>0, <1>3 DEF Publish, DetectionTypeOK, follow
<1>4. CASE EngineRestart
  <2>1. cursors' \in [Followers -> 0..MaxTime \cup {Unset}] /\ lastBlock' = Unset
    BY <1>4 DEF EngineRestart
  <2>2. /\ seen' \in [Followers -> Seq(Fill)] /\ \A u \in Followers : Len(seen'[u]) <= SeenMax
        /\ todo' \in [Followers -> Seq([i: Fill, ts: 0..MaxTime])]
    BY <1>4 DEF EngineRestart, NothingTodo
  <2>3. tick' \in [pc: {"idle", "fetch", "apply"}, at: 0..MaxTime, pending: SUBSET Followers]
    <3>1. clock \in 0..MaxTime
      BY <1>0 DEF DetectionTypeOK
    <3>2. tick' = [pc |-> "idle", at |-> clock, pending |-> {}]
      BY <1>4 DEF EngineRestart, NoTick
    <3> QED
      BY <3>1, <3>2
  <2> QED
    BY <1>0, <1>4, <2>1, <2>2, <2>3 DEF EngineRestart, DetectionTypeOK
<1>5. ASSUME NEW u \in Followers, Follow(u) \/ Unfollow(u) PROVE DetectionTypeOK'
  BY <1>0, <1>5 DEF Follow, Unfollow, DetectionTypeOK
<1>6. CASE TickStart
  <2>1. clock \in 1..MaxTime /\ cursors \in [Followers -> 0..MaxTime \cup {Unset}]
        /\ begun \in [Followers -> 0..MaxTime] /\ follows \subseteq Followers
        /\ seen \in [Followers -> Seq(Fill)] /\ \A u \in Followers : Len(seen[u]) <= SeenMax
        /\ missed \in [Followers -> SUBSET Fill]
    BY <1>0 DEF DetectionTypeOK
  <2>2. cursors' \in [Followers -> 0..MaxTime \cup {Unset}]
    BY <1>6, <2>1 DEF TickStart, NextCursor
  <2>3. begun' \in [Followers -> 0..MaxTime]
    BY <1>6, <2>1 DEF TickStart
  <2>4. seen' \in [Followers -> Seq(Fill)] /\ \A u \in Followers : Len(seen'[u]) <= SeenMax
    BY <1>6, <2>1 DEF TickStart
  <2>5. tick' \in [pc: {"idle", "fetch", "apply"}, at: 0..MaxTime, pending: SUBSET Followers]
    BY <1>6, <2>1 DEF TickStart
  <2>6. missed' \in [Followers -> SUBSET Fill]
    <3>1. \A i \in DOMAIN fills : i \in Fill
      BY <1>0, LogTyped
    <3> QED
      BY <1>6, <2>1, <3>1 DEF TickStart
  <2> QED
    BY <1>0, <1>6, <2>2, <2>3, <2>4, <2>5, <2>6 DEF TickStart, DetectionTypeOK
<1>7. CASE FetchActivity \/ ScanChain \/ FetchFails
  <2>1. PICK found : Found(found) /\ Fan(found)
    BY <1>7, FetchFinds
  <2>2. tick.pc = "fetch"
    BY <1>7 DEF FetchActivity, ScanChain, FetchFails
  <2>3. /\ todo' \in [Followers -> Seq([i: Fill, ts: 0..MaxTime])]
        /\ base' \in [Followers -> 0..MaxTime]
        /\ tick' \in [pc: {"idle", "fetch", "apply"}, at: 0..MaxTime, pending: SUBSET Followers]
    BY <2>1, <2>2, FanTypes
  <2>4. lastBlock' \in 0..MaxTime \cup {Unset} /\ lost' \subseteq Fill /\ overtaken' \in [Followers -> SUBSET Fill]
    <3>1. \A i \in DOMAIN fills : i \in Fill
      BY <1>0, LogTyped
    <3>2. CASE ScanChain
      <4>1. lastBlock' = clock - 1 /\ lost' \subseteq lost \cup DOMAIN fills
        BY <3>2 DEF ScanChain
      <4>2. \/ overtaken' = overtaken
            \/ \E new \in SUBSET (DOMAIN fills) :
                  overtaken' = [u \in Followers |-> IF cursors[u] # Unset /\ u \notin tick.pending
                                               THEN overtaken[u] \cup new ELSE overtaken[u]]
        BY <3>2 DEF ScanChain
      <4>3. overtaken' \in [Followers -> SUBSET Fill]
        <5>1. overtaken \in [Followers -> SUBSET Fill]
          BY <1>0 DEF DetectionTypeOK
        <5>2. ASSUME NEW new \in SUBSET (DOMAIN fills),
                     overtaken' = [u \in Followers |-> IF cursors[u] # Unset /\ u \notin tick.pending
                                                  THEN overtaken[u] \cup new ELSE overtaken[u]]
              PROVE  overtaken' \in [Followers -> SUBSET Fill]
          <6>1. new \subseteq Fill
            BY <3>1
          <6> QED
            BY <5>1, <5>2, <6>1
        <5> QED
          BY <4>2, <5>1, <5>2
      <4> QED
        BY <1>0, <3>1, <4>1, <4>3 DEF DetectionTypeOK
    <3>3. CASE FetchActivity \/ FetchFails
      BY <1>0, <3>3 DEF FetchActivity, FetchFails, DetectionTypeOK
    <3> QED
      BY <1>7, <3>2, <3>3
  <2> QED
    BY <1>0, <2>1, <2>3, <2>4 DEF Fan, follow, DetectionTypeOK
<1>8. ASSUME NEW u \in Followers, Apply(u) PROVE DetectionTypeOK'
  <2> DEFINE x == Head(todo[u])
  <2>1. todo[u] \in Seq([i: Fill, ts: 0..MaxTime]) /\ todo[u] # <<>>
    BY <1>0, <1>8 DEF DetectionTypeOK, Apply
  <2>2. x \in [i: Fill, ts: 0..MaxTime] /\ x = todo[u][1] /\ 1 \in DOMAIN todo[u]
        /\ Tail(todo[u]) \in Seq([i: Fill, ts: 0..MaxTime])
    <3>1. Len(todo[u]) \in Nat \ {0} /\ DOMAIN todo[u] = 1..Len(todo[u])
      BY <2>1, EmptySeq, LenProperties
    <3>2. x \in [i: Fill, ts: 0..MaxTime] /\ Tail(todo[u]) \in Seq([i: Fill, ts: 0..MaxTime])
      BY <2>1, HeadTailProperties
    <3>3. x = todo[u][1]
      BY <2>1
    <3> QED
      BY <3>1, <3>2, <3>3
  <2>3. x.i \in Fill /\ x.ts \in 0..MaxTime /\ x.i \in DOMAIN fills
    BY <2>2 DEF DetectionInv, FollowerInv, TodoInv
  <2>4. todo' \in [Followers -> Seq([i: Fill, ts: 0..MaxTime])]
    BY <1>0, <1>8, <2>2 DEF Apply, DetectionTypeOK
  <2>5. tick' \in [pc: {"idle", "fetch", "apply"}, at: 0..MaxTime, pending: SUBSET Followers]
    BY <1>0, <1>8 DEF Apply, DetectionTypeOK
  <2>6. CASE Skipped(u, x)
    BY <1>0, <1>8, <2>4, <2>5, <2>6 DEF Apply, DetectionTypeOK
  <2>7. CASE ~ Skipped(u, x)
    <3> DEFINE tx == fills[x.i].tx
    <3>0. tx \in Txs
      BY <1>0, <2>3, LogTyped DEF Tx
    <3>1. /\ handled' = [handled EXCEPT ![u][x.i] = @ + 1]
          /\ seen' = IF tx = Unset THEN seen ELSE [seen EXCEPT ![u] = Forget(Append(@, tx))]
          /\ cursors' = [cursors EXCEPT ![u] = Max({@, x.ts})]
      BY <1>8, <2>7 DEF Apply
    <3> HIDE DEF x
    <3>2. handled' \in [Followers -> [Fill -> Nat]]
      <4>1. handled \in [Followers -> [Fill -> Nat]] /\ handled[u] \in [Fill -> Nat]
        BY <1>0 DEF DetectionTypeOK
      <4>2. [handled[u] EXCEPT ![x.i] = @ + 1] \in [Fill -> Nat]
        <5> DEFINE h == handled[u]
                   i == x.i
        <5>1. h \in [Fill -> Nat] /\ i \in Fill
          BY <2>3, <4>1
        <5> HIDE DEF h, i
        <5>2. [h EXCEPT ![i] = h[i] + 1] \in [Fill -> Nat]
          BY <5>1
        <5> QED
          BY <5>2 DEF h, i
      <4>3. handled' = [handled EXCEPT ![u] = [handled[u] EXCEPT ![x.i] = @ + 1]]
        BY <3>1
      <4> QED
        BY <4>1, <4>2, <4>3
    <3>3. cursors[u] \in 0..MaxTime
      BY <1>0, <2>1 DEF DetectionInv, FollowerInv, CursorInv, DetectionTypeOK
    <3>4. cursors' \in [Followers -> 0..MaxTime \cup {Unset}]
      <4>1. Max({cursors[u], x.ts}) \in 0..MaxTime
        BY <2>3, <3>3, MaxOfTwo
      <4> QED
        BY <1>0, <3>1, <4>1 DEF DetectionTypeOK
    <3>5. seen' \in [Followers -> Seq(Fill)] /\ \A v \in Followers : Len(seen'[v]) <= SeenMax
      <4>1. seen \in [Followers -> Seq(Fill)] /\ \A v \in Followers : Len(seen[v]) <= SeenMax
        BY <1>0 DEF DetectionTypeOK
      <4>2. CASE tx = Unset
        BY <3>1, <4>1, <4>2
      <4>3. CASE tx # Unset
        <5> DEFINE s == Append(seen[u], tx)
        <5>1. tx \in Fill
          BY <3>0, <4>3 DEF Txs
        <5>2. s \in Seq(Fill) /\ Len(s) <= SeenMax + 1 /\ Len(s) \in Nat
          BY <4>1, <5>1
        <5> HIDE DEF s
        <5>3. Forget(s) \in Seq(Fill) /\ Len(Forget(s)) <= SeenMax
          <6>1. CASE Len(s) <= SeenMax
            BY <5>2, <6>1 DEF Forget
          <6>2. CASE Len(s) > SeenMax
            <7>1. Forget(s) = SubSeq(s, SeenDrop + 1, Len(s))
              BY <6>2 DEF Forget
            <7>2. SeenDrop + 1 \in Int /\ \A k \in SeenDrop + 1 .. Len(s) : s[k] \in Fill
              BY <5>2, ElementOfSeq
            <7>3. /\ SubSeq(s, SeenDrop + 1, Len(s)) \in Seq(Fill)
                  /\ Len(SubSeq(s, SeenDrop + 1, Len(s)))
                       = IF SeenDrop + 1 <= Len(s) THEN Len(s) - (SeenDrop + 1) + 1 ELSE 0
              BY <5>2, <7>2, SubSeqProperties
            <7> QED
              BY <5>2, <6>2, <7>1, <7>3
          <6> QED
            BY <5>2, <6>1, <6>2
        <5> QED
          BY <3>1, <4>1, <4>3, <5>3 DEF s
      <4> QED
        BY <4>2, <4>3
    <3> QED
      BY <1>0, <1>8, <2>4, <2>5, <3>2, <3>4, <3>5 DEF Apply, DetectionTypeOK
  <2> QED
    BY <2>6, <2>7
<1>9. CASE UNCHANGED detectionVars
  BY <1>0, <1>9 DEF detectionVars, follow, DetectionTypeOK
<1> QED
  BY <1>1, <1>2, <1>3, <1>4, <1>5, <1>6, <1>7, <1>8, <1>9 DEF DetectionNext

-----------------------------------------------------------------------------
(* Steps of the world: time, the log, the indexer and the follows.         *)

\* Only the clock moves and the log grows by fills of the running second.
WorldMoves ==
    /\ UNCHANGED <<source, cursors, seen, lastBlock, tick, todo, base, handled, missed, lost, begun, overtaken>>
    /\ clock <= clock' /\ DOMAIN fills \subseteq DOMAIN fills'
    /\ \A i \in DOMAIN fills : fills'[i] = fills[i]
    /\ \A i \in DOMAIN fills' \ DOMAIN fills : fills'[i].sec = clock

\* The values the parts of the invariant compare.
LEMMA ValuesTyped ==
    ASSUME DetectionTypeOK
    PROVE  /\ clock \in Nat /\ tick.at \in Nat /\ lastBlock \in Nat \cup {Unset} /\ Unset \notin Nat
           /\ \A u \in Followers :
                /\ cursors[u] \in Nat \cup {Unset} /\ base[u] \in Nat /\ begun[u] \in Nat
                /\ seen[u] \in Seq(Fill) /\ DOMAIN seen[u] = 1..Len(seen[u]) /\ Len(seen[u]) \in Nat
                /\ todo[u] \in Seq([i: Fill, ts: 0..MaxTime])
                /\ DOMAIN todo[u] = 1..Len(todo[u]) /\ Len(todo[u]) \in Nat
                /\ \A k \in DOMAIN todo[u] : /\ todo[u][k].ts \in Nat /\ todo[u][k].i \in Nat
                                            /\ todo[u][k] = [i |-> todo[u][k].i, ts |-> todo[u][k].ts]
                /\ \A i \in Fill : handled[u][i] \in Nat
<1> USE DetectionAssumption
<1>1. clock \in Nat /\ tick.at \in Nat /\ lastBlock \in Nat \cup {Unset} /\ Unset \notin Nat
  BY DEF DetectionTypeOK
<1>2. ASSUME NEW u \in Followers
      PROVE  /\ cursors[u] \in Nat \cup {Unset} /\ base[u] \in Nat /\ begun[u] \in Nat
             /\ seen[u] \in Seq(Fill) /\ todo[u] \in Seq([i: Fill, ts: 0..MaxTime])
             /\ \A i \in Fill : handled[u][i] \in Nat
  <2>1. /\ cursors[u] \in 0..MaxTime \cup {Unset} /\ base[u] \in 0..MaxTime /\ begun[u] \in 0..MaxTime
        /\ seen[u] \in Seq(Fill) /\ todo[u] \in Seq([i: Fill, ts: 0..MaxTime])
    BY DEF DetectionTypeOK
  <2>2. handled[u] \in [Fill -> Nat]
    BY DEF DetectionTypeOK
  <2>3. \A i \in Fill : handled[u][i] \in Nat
    BY <2>2
  <2> QED
    BY <2>1, <2>3
<1>3. ASSUME NEW u \in Followers
      PROVE  /\ DOMAIN seen[u] = 1..Len(seen[u]) /\ Len(seen[u]) \in Nat
             /\ DOMAIN todo[u] = 1..Len(todo[u]) /\ Len(todo[u]) \in Nat
  BY <1>2, LenProperties
<1>4. ASSUME NEW u \in Followers, NEW k \in DOMAIN todo[u]
      PROVE  /\ todo[u][k].ts \in Nat /\ todo[u][k].i \in Nat
             /\ todo[u][k] = [i |-> todo[u][k].i, ts |-> todo[u][k].ts]
  <2>1. todo[u][k] \in [i: Fill, ts: 0..MaxTime]
    BY <1>2, <1>3, ElementOfSeq
  <2> QED
    BY <2>1 DEF Fill
<1> QED
  BY <1>1, <1>2, <1>3, <1>4

\* Such a step keeps the invariant.
LEMMA WorldStep ==
    ASSUME DetectionInv, DetectionTypeOK', LogInv', WorldMoves
    PROVE  DetectionInv'
<1>0. DetectionTypeOK
  BY DEF DetectionInv
<1>1. clock \in Nat /\ clock' \in Nat /\ clock <= clock' /\ tick.at \in Nat
  BY <1>0, ValuesTyped DEF DetectionTypeOK, WorldMoves
<1>2. \A i \in DOMAIN fills : i \in DOMAIN fills' /\ Sec(i)' = Sec(i) /\ Tx(i)' = Tx(i) /\ Sec(i) \in Nat
  BY <1>0, LogTyped DEF Sec, Tx, WorldMoves
<1>3. TickInv'
  BY <1>1 DEF TickInv, WorldMoves, DetectionInv
<1>4. ASSUME NEW u \in Followers PROVE FollowerInv(u)'
  <2>0. FollowerInv(u) /\ cursors[u] \in Nat \cup {Unset}
    BY <1>0, ValuesTyped DEF DetectionInv
  <2>1. CursorInv(u)'
    BY <1>1, <2>0 DEF FollowerInv, CursorInv, WorldMoves
  <2>2. TodoInv(u)'
    BY <1>2, <2>0 DEF FollowerInv, TodoInv, WorldMoves
  <2>3. SeenInv(u)'
    BY <1>2, <2>0 DEF FollowerInv, SeenInv, WorldMoves
  <2>4. HandledInv(u)'
    BY <1>2, <2>0 DEF FollowerInv, HandledInv, InSeen, WorldMoves
  <2>5. MissedInv(u)'
    BY <1>1, <1>2, <2>0 DEF FollowerInv, MissedInv, WorldMoves
  <2> QED
    BY <2>1, <2>2, <2>3, <2>4, <2>5 DEF FollowerInv
<1>5. ChainInv'
  <2>1. ASSUME NEW u \in Followers, source = "chain" PROVE ScanInv(u)'
    <3>0. /\ ScanInv(u) /\ SeenInv(u) /\ TodoInv(u)
          /\ UNCHANGED <<lastBlock, todo, cursors, seen, handled, begun, lost, overtaken, base>>
      BY <2>1 DEF DetectionInv, ChainInv, FollowerInv, WorldMoves
    <3>1. \A tx \in Fill \cup {Unset} : HandledOne(u, tx) => HandledOne(u, tx)'
      BY <1>2, <3>0 DEF HandledOne
    <3>2. \A i \in DOMAIN fills : Tx(i) \in Fill \cup {Unset}
      BY <1>0, LogTyped DEF Txs
    <3>3. ASSUME NEW i \in DOMAIN fills, ToApply(u, i) PROVE ToApply(u, i)'
      BY <1>2, <3>0, <3>3 DEF ToApply
    <3>4. ASSUME lastBlock # Unset, cursors[u] # Unset, NEW i \in DOMAIN fills' \ (lost \cup overtaken[u]),
                 begun[u] < Sec(i)', Sec(i)' <= lastBlock
          PROVE  HandledOne(u, Tx(i))' \/ ToApply(u, i)'
      <4>1. lastBlock \in Nat /\ lastBlock < clock
        BY <1>0, <3>0, <3>4, ValuesTyped DEF ScanInv
      <4>2. i \in DOMAIN fills
        BY <1>1, <3>4, <4>1 DEF WorldMoves, Sec
      <4>3. HandledOne(u, Tx(i)) \/ ToApply(u, i)
        BY <1>2, <3>0, <3>4, <4>2 DEF ScanInv
      <4> QED
        BY <1>2, <3>1, <3>2, <3>3, <4>2, <4>3
    <3>5. \A k \in DOMAIN seen[u] : seen[u][k] \in Fill
      BY <1>0, <3>0, LogTyped DEF SeenInv
    <3>6. lastBlock # Unset => lastBlock < clock'
      BY <1>0, <1>1, <3>0, ValuesTyped DEF ScanInv
    <3>7. \A k \in DOMAIN seen[u] : HandledOne(u, seen[u][k])'
      BY <3>0, <3>1, <3>5 DEF ScanInv
    <3>8. todo[u] # <<>> => lastBlock # Unset /\ \A k \in DOMAIN todo[u] : Sec(todo[u][k].i)' <= lastBlock
      BY <1>2, <3>0 DEF ScanInv, TodoInv
    <3> QED
      BY <3>0, <3>4, <3>6, <3>7, <3>8 DEF ScanInv
  <2> QED
    BY <2>1 DEF ChainInv, WorldMoves
<1> QED
  BY <1>3, <1>4, <1>5 DEF DetectionInv, WorldMoves

\* A step that leaves the log alone.
LEMMA QuietStep ==
    ASSUME DetectionInv, DetectionTypeOK', clock' >= clock,
           UNCHANGED <<source, fills, cursors, seen, lastBlock, tick, todo, base, handled, missed, lost, begun, overtaken>>
    PROVE  DetectionInv'
<1>0. DetectionTypeOK
  BY DEF DetectionInv
<1>1. clock \in Nat /\ clock' \in Nat /\ \A i \in DOMAIN fills : Sec(i) \in Nat
  <2>1. clock \in 1..MaxTime /\ (clock \in 1..MaxTime)'
    BY <1>0, Zenon DEF DetectionTypeOK
  <2> QED
    BY <1>0, <2>1, LogTyped
<1>2. LogInv'
  BY <1>1 DEF DetectionInv, LogInv, LogFill, Sec, Tx, InSecond
<1>3. WorldMoves
  BY <1>1 DEF WorldMoves
<1> QED
  BY <1>2, <1>3, WorldStep

\* A new fill is in a transaction of its own or one of this second, and it is
\* only logged while the second has room.
LEMMA LeaderFillsStep ==
    ASSUME DetectionInv, DetectionTypeOK', LeaderFills
    PROVE  DetectionInv'
<1> USE DetectionAssumption
<1> SUFFICES ASSUME NEW n, n = Len(fills) PROVE DetectionInv'
  OBVIOUS
<1>0. DetectionTypeOK /\ LogInv
  BY DEF DetectionInv
<1>1. /\ n \in Nat /\ DOMAIN fills = 1..n /\ clock \in Nat /\ clock \in 1..MaxTime
      /\ fills \in Seq([sec: 1..MaxTime, tx: Txs]) /\ n < MaxFills /\ MaxFills \in Nat
      /\ \A i \in DOMAIN fills : i \in Fill /\ Sec(i) \in Nat /\ Tx(i) \in Txs
      /\ IsFiniteSet(DOMAIN fills)
  <2>1. clock \in 1..MaxTime /\ fills \in Seq([sec: 1..MaxTime, tx: Txs]) /\ n < MaxFills
    BY <1>0 DEF DetectionTypeOK, LeaderFills
  <2> QED
    BY <1>0, <2>1, LogTyped
<1>2. PICK tx \in {n + 1} \cup {fills[i].tx : i \in Now} \cup (IF source = "activity" THEN {Unset} ELSE {}) :
         fills' = Append(fills, [sec |-> clock, tx |-> tx])
  BY DEF LeaderFills
<1>3. tx \in Txs
  BY <1>1, <1>2, SMTT(30) DEF Now, Txs, Fill, Tx
<1>4. /\ DOMAIN fills' = 1..n+1 /\ fills'[n + 1] = [sec |-> clock, tx |-> tx]
      /\ \A i \in 1..n : fills'[i] = fills[i]
  <2>1. [sec |-> clock, tx |-> tx] \in [sec: 1..MaxTime, tx: Txs]
    BY <1>1, <1>3
  <2>2. /\ Append(fills, [sec |-> clock, tx |-> tx]) \in Seq([sec: 1..MaxTime, tx: Txs])
        /\ Len(Append(fills, [sec |-> clock, tx |-> tx])) = n + 1
        /\ \A i \in 1..n : Append(fills, [sec |-> clock, tx |-> tx])[i] = fills[i]
        /\ Append(fills, [sec |-> clock, tx |-> tx])[n + 1] = [sec |-> clock, tx |-> tx]
    BY <1>1, <2>1, AppendProperties
  <2> QED
    BY <1>2, <2>2, LenProperties
<1>5. DOMAIN fills' = DOMAIN fills \cup {n + 1} /\ n + 1 \notin DOMAIN fills
  BY <1>1, <1>4
<1>6. /\ \A i \in DOMAIN fills : Sec(i)' = Sec(i) /\ Tx(i)' = Tx(i)
      /\ Sec(n + 1)' = clock /\ Tx(n + 1)' = tx
  BY <1>1, <1>4, SMTT(30) DEF Sec, Tx
<1>7. UNCHANGED <<source, clock, cursors, seen, lastBlock, tick, todo, base, handled, missed, lost, begun, overtaken>>
  BY DEF LeaderFills, follow
<1>8. LogInv'
  <2>1. tx = n + 1 \/ (tx = Unset /\ source = "activity") \/ \E i \in DOMAIN fills : Sec(i) = clock /\ tx = Tx(i)
    <3>1. CASE tx \in {fills[i].tx : i \in Now}
      BY <3>1 DEF Now, Sec, Tx
    <3>2. CASE tx \in (IF source = "activity" THEN {Unset} ELSE {})
      BY <3>2
    <3>3. \/ tx \in {n + 1} \/ tx \in {fills[i].tx : i \in Now}
          \/ tx \in (IF source = "activity" THEN {Unset} ELSE {})
      BY <1>2, Zenon
    <3>4. CASE tx \in {n + 1}
      BY <3>4
    <3> QED
      BY <3>1, <3>2, <3>3, <3>4, Zenon
  <2>2. /\ source = "chain" => tx # Unset
        /\ tx # Unset => tx \in DOMAIN fills' /\ Sec(tx)' = clock /\ Tx(tx)' = tx
    <3>1. Unset # n + 1
      BY <1>1
    <3>2. CASE tx = n + 1
      BY <1>5, <1>6, <3>1, <3>2
    <3>3. CASE tx = Unset /\ source = "activity"
      BY <3>3
    <3>4. CASE \E i \in DOMAIN fills : Sec(i) = clock /\ tx = Tx(i)
      BY <1>0, <1>5, <1>6, <3>4 DEF LogInv, LogFill
    <3> QED
      BY <2>1, <3>2, <3>3, <3>4
  <2>3. ASSUME NEW i \in DOMAIN fills' PROVE LogFill(i)'
    <3>1. CASE i = n + 1
      BY <1>1, <1>6, <1>7, <2>2, <3>1 DEF LogFill, Sec, Tx
    <3>2. CASE i \in DOMAIN fills
      BY <1>0, <1>5, <1>6, <1>7, <3>2, SMTT(30) DEF LogInv, LogFill, Sec, Tx
    <3> QED
      BY <1>5, <2>3, <3>1, <3>2
  <2>4. ASSUME NEW c \in 1..MaxTime PROVE Cardinality(InSecond(c)') <= PerSecond
    <3>1. Cardinality(InSecond(c)) <= PerSecond /\ PerSecond \in Nat
      BY <1>0 DEF LogInv
    <3>2. InSecond(c) \subseteq DOMAIN fills /\ IsFiniteSet(InSecond(c)) /\ Cardinality(InSecond(c)) \in Nat
      <4>1. InSecond(c) \in SUBSET (DOMAIN fills)
        BY DEF InSecond
      <4> QED
        BY <1>1, <4>1, FS_Subset, FS_CardinalityType
    <3>3. CASE c # clock
      <4>1. InSecond(c)' = InSecond(c)
        BY <1>5, <1>6, <3>3 DEF InSecond
      <4> QED
        BY <3>1, <4>1
    <3>4. CASE c = clock
      <4>1. InSecond(c)' = InSecond(c) \cup {n + 1}
        BY <1>5, <1>6, <3>4 DEF InSecond
      <4>2. InSecond(c) = Now /\ Cardinality(Now) < PerSecond
        BY <3>4 DEF InSecond, Now, Sec, LeaderFills
      <4>3. Cardinality(InSecond(c) \cup {n + 1}) = Cardinality(InSecond(c)) + 1
        BY <1>5, <3>2, FS_AddElement
      <4> QED
        BY <3>1, <3>2, <4>1, <4>2, <4>3
    <3> QED
      BY <3>3, <3>4
  <2> QED
    BY <2>3, <2>4 DEF LogInv
<1>9. WorldMoves
  BY <1>1, <1>4, <1>5, <1>6, <1>7, SMTT(30) DEF WorldMoves, Sec
<1> QED
  BY <1>8, <1>9, WorldStep

-----------------------------------------------------------------------------
(* Steps of the engine that start or end everything.                       *)

\* The log's invariant is about the log.
LEMMA LogQuiet == LogInv /\ UNCHANGED <<source, clock, fills>> => LogInv'
  BY DEF LogInv, LogFill, Sec, Tx, InSecond

\* After a restart nothing is remembered and no tick starts in this second.
LEMMA EngineRestartStep ==
    ASSUME DetectionInv, DetectionTypeOK', EngineRestart
    PROVE  DetectionInv'
<1>0. /\ DetectionTypeOK /\ LogInv /\ UNCHANGED <<source, clock, fills, handled, missed, lost, begun, overtaken>>
      /\ lastBlock' = Unset /\ tick'.pc = "idle" /\ tick'.at = clock
      /\ \A u \in Followers : cursors'[u] = Unset /\ seen'[u] = <<>> /\ todo'[u] = <<>>
  BY DEF DetectionInv, EngineRestart, NoTick, NothingTodo
<1>1. clock \in Nat /\ Unset \notin Nat /\ \A i \in DOMAIN fills : Sec(i) \in Nat /\ Sec(i) <= clock
  BY <1>0, LogTyped, ValuesTyped DEF LogInv, LogFill
<1>2. LogInv'
  BY <1>0, LogQuiet
<1>3. TickInv'
  BY <1>0, <1>1 DEF TickInv
<1>4. ASSUME NEW u \in Followers PROVE FollowerInv(u)'
  <2>1. FollowerInv(u)
    BY DEF DetectionInv
  <2>2. CursorInv(u)' /\ TodoInv(u)' /\ SeenInv(u)'
    BY <1>0 DEF CursorInv, TodoInv, SeenInv
  <2>3. HandledInv(u)'
    BY <1>0, <1>1, <2>1 DEF FollowerInv, HandledInv, Sec
  <2>4. MissedInv(u)'
    BY <1>0, <2>1 DEF FollowerInv, MissedInv, Sec
  <2> QED
    BY <2>2, <2>3, <2>4 DEF FollowerInv
<1>5. ChainInv'
  <2>1. \A u \in Followers : ScanInv(u)'
    BY <1>0 DEF ScanInv
  <2> QED
    BY <2>1 DEF ChainInv
<1> QED
  BY <1>2, <1>3, <1>4, <1>5 DEF DetectionInv

\* A tick starts after everything handled or missed before it.
LEMMA TickStartStep ==
    ASSUME DetectionInv, DetectionTypeOK', TickStart
    PROVE  DetectionInv'
<1>0. /\ DetectionTypeOK /\ LogInv /\ TickInv
      /\ UNCHANGED <<source, clock, fills, follows, lastBlock, todo, base, handled, lost, overtaken>>
      /\ tick.pc = "idle" /\ tick.at < clock /\ tick'.at = clock
      /\ \A u \in Followers : todo[u] = <<>>
  BY DEF DetectionInv, TickStart, TickInv
<1>1. /\ clock \in Nat /\ tick.at \in Nat /\ Unset \notin Nat
      /\ \A i \in DOMAIN fills : i \in Fill /\ Sec(i) \in Nat /\ Sec(i) <= clock
      /\ \A u \in Followers : cursors[u] \in Nat \cup {Unset} /\ begun[u] \in Nat
      /\ lastBlock \in Nat \cup {Unset}
  BY <1>0, LogTyped, ValuesTyped DEF LogInv, LogFill
<1>2. ASSUME NEW u \in Followers
      PROVE  /\ u \notin follows => cursors'[u] = Unset /\ seen'[u] = <<>> /\ begun'[u] = begun[u]
             /\ u \in follows /\ cursors[u] = Unset =>
                  cursors'[u] = clock /\ seen'[u] = seen[u] /\ begun'[u] = clock
             /\ u \in follows /\ cursors[u] # Unset =>
                  cursors'[u] = cursors[u] /\ seen'[u] = seen[u] /\ begun'[u] = begun[u]
             /\ u \in follows => missed'[u] = missed[u]
             /\ u \notin follows => missed'[u] = {i \in DOMAIN fills : fills[i].sec < clock}
  BY DEF TickStart, NextCursor
<1>3. LogInv'
  BY <1>0, LogQuiet
<1>4. TickInv'
  <2>1. follows \subseteq Followers /\ tick'.pending = {u \in follows : cursors[u] # Unset}
    BY <1>0 DEF DetectionTypeOK, TickStart
  <2>2. \A u \in tick'.pending : cursors'[u] # Unset
    BY <1>2, <2>1
  <2> QED
    BY <1>0, <1>1, <2>2 DEF TickInv
<1>5. ASSUME NEW u \in Followers PROVE FollowerInv(u)'
  <2>1. FollowerInv(u) /\ todo'[u] = <<>>
    BY <1>0 DEF DetectionInv
  <2>2. CursorInv(u)'
    <3>1. CASE u \notin follows
      BY <1>2, <2>1, <3>1 DEF CursorInv
    <3>2. CASE u \in follows /\ cursors[u] = Unset
      <4>1. clock \in 1..MaxTime /\ MaxTime \in Nat
        BY <1>0, DetectionAssumption, Zenon DEF DetectionTypeOK
      <4> QED
        BY <1>0, <1>1, <1>2, <2>1, <3>2, <4>1 DEF CursorInv
    <3>3. CASE u \in follows /\ cursors[u] # Unset
      BY <1>0, <1>2, <2>1, <3>3 DEF FollowerInv, CursorInv
    <3> QED
      BY <3>1, <3>2, <3>3
  <2>3. TodoInv(u)'
    BY <2>1 DEF TodoInv
  <2>4. SeenInv(u)'
    <3>1. CASE seen'[u] = <<>>
      BY <3>1 DEF SeenInv
    <3>2. CASE seen'[u] = seen[u] /\ cursors'[u] = cursors[u]
      BY <1>0, <2>1, <3>2 DEF FollowerInv, SeenInv, Sec
    <3> QED
      BY <1>2, <2>1, <3>1, <3>2 DEF FollowerInv, CursorInv
  <2>5. HandledInv(u)'
    <3>1. ASSUME NEW i \in Fill, handled[u][i] > 0
          PROVE  /\ handled[u][i] = 1 /\ i \in DOMAIN fills
                 /\ cursors[u] = Unset => Sec(i) < clock
                 /\ cursors[u] # Unset => Sec(i) <= cursors[u]
                 /\ cursors[u] = Sec(i) => InSeen(u, i)
      BY <1>0, <1>1, <2>1, <3>1 DEF FollowerInv, HandledInv
    <3>2. ASSUME NEW i \in Fill, handled[u][i] > 0
          PROVE  /\ cursors'[u] = Unset => Sec(i) <= clock
                 /\ cursors'[u] # Unset => Sec(i) <= cursors'[u]
                 /\ cursors'[u] = Sec(i) => InSeen(u, i)'
      <4>1. CASE u \notin follows
        BY <1>1, <1>2, <3>1, <3>2, <4>1
      <4>2. CASE u \in follows /\ cursors[u] = Unset
        BY <1>1, <1>2, <3>1, <3>2, <4>2
      <4>3. CASE u \in follows /\ cursors[u] # Unset
        BY <1>0, <1>1, <1>2, <3>1, <3>2, <4>3 DEF InSeen, Tx
      <4> QED
        BY <4>1, <4>2, <4>3
    <3> QED
      BY <1>0, <2>1, <3>1, <3>2 DEF HandledInv, Sec
  <2>6. MissedInv(u)'
    <3>1. CASE u \notin follows
      BY <1>0, <1>2, <2>1, <3>1 DEF MissedInv, Sec
    <3>2. CASE u \in follows
      <4>1. ASSUME NEW i \in missed[u]
            PROVE  /\ i \in DOMAIN fills /\ Sec(i) < clock
                   /\ cursors'[u] # Unset => Sec(i) < cursors'[u]
        <5>1. /\ i \in DOMAIN fills /\ Sec(i) < clock
              /\ cursors[u] = Unset => Sec(i) < tick.at
              /\ cursors[u] # Unset => Sec(i) < cursors[u]
          BY <2>1 DEF FollowerInv, MissedInv
        <5> QED
          BY <1>2, <3>2, <5>1
      <4>2. cursors'[u] # Unset
        BY <1>1, <1>2, <3>2
      <4> QED
        BY <1>0, <1>2, <2>1, <3>2, <4>1, <4>2 DEF MissedInv, Sec
    <3> QED
      BY <3>1, <3>2
  <2> QED
    BY <2>2, <2>3, <2>4, <2>5, <2>6 DEF FollowerInv
<1>6. ChainInv'
  <2>1. ASSUME NEW u \in Followers, source = "chain" PROVE ScanInv(u)'
    <3>1. ScanInv(u) /\ todo'[u] = todo[u] /\ base'[u] = base[u] /\ todo[u] = <<>>
      BY <1>0, <2>1 DEF DetectionInv, ChainInv
    <3>2. \A tx : HandledOne(u, tx)' <=> HandledOne(u, tx)
      BY <1>0 DEF HandledOne, Tx
    <3>3. \A i : ToApply(u, i)' <=> ToApply(u, i)
      BY <1>0 DEF ToApply, Sec
    <3>4. (\A k \in DOMAIN seen[u] : HandledOne(u, seen[u][k]))'
      <4>1. CASE seen'[u] = <<>>
        BY <4>1
      <4>2. CASE seen'[u] = seen[u]
        BY <3>1, <3>2, <4>2 DEF ScanInv
      <4> QED
        BY <1>2, <4>1, <4>2
    <3>5. cursors'[u] # Unset => cursors'[u] = begun'[u] \/ (lastBlock # Unset /\ cursors'[u] <= lastBlock)
      BY <1>2, <3>1 DEF ScanInv
    <3>6. ASSUME lastBlock # Unset, cursors'[u] # Unset, NEW i \in DOMAIN fills \ (lost \cup overtaken[u]),
                 begun'[u] < Sec(i), Sec(i) <= lastBlock
          PROVE  HandledOne(u, Tx(i)) \/ ToApply(u, i)
      <4>1. CASE u \in follows /\ cursors[u] = Unset
        BY <1>1, <1>2, <3>1, <3>6, <4>1 DEF ScanInv
      <4>2. CASE u \in follows /\ cursors[u] # Unset
        BY <1>2, <3>1, <3>6, <4>2 DEF ScanInv
      <4> QED
        BY <1>2, <3>6, <4>1, <4>2
    <3>7. \A i : Sec(i)' = Sec(i) /\ Tx(i)' = Tx(i)
      BY <1>0 DEF Sec, Tx
    <3>8. lastBlock # Unset => lastBlock < clock
      BY <3>1 DEF ScanInv
    <3>9. ASSUME lastBlock # Unset, cursors'[u] # Unset, NEW i \in DOMAIN fills \ (lost \cup overtaken[u]),
                 begun'[u] < Sec(i)', Sec(i)' <= lastBlock
          PROVE  HandledOne(u, Tx(i))' \/ ToApply(u, i)'
      BY <3>2, <3>3, <3>6, <3>7, <3>9
    <3> QED
      BY <1>0, <3>1, <3>4, <3>5, <3>8, <3>9 DEF ScanInv
  <2> QED
    BY <1>0, <2>1 DEF ChainInv
<1> QED
  BY <1>3, <1>4, <1>5, <1>6 DEF DetectionInv

-----------------------------------------------------------------------------
(* Steps that fetch.                                                       *)

\* The tasks a fetch hands out, per follower.
LEMMA FanTasks ==
    ASSUME DetectionInv, tick.pc = "fetch", NEW found, Found(found), Fan(found), NEW u \in Followers
    PROVE  /\ todo[u] = <<>>
           /\ u \in tick.pending => todo'[u] = ByTime(found) /\ base'[u] = cursors[u] /\ cursors[u] # Unset
           /\ u \notin tick.pending => todo'[u] = <<>> /\ base'[u] = base[u]
           /\ UNCHANGED <<source, clock, fills, cursors, seen, handled, missed, begun>>
  BY DEF DetectionInv, TickInv, Fan, Receivers, follow

\* A fetch keeps everything but what relates the tasks to the chain's cursor.
LEMMA FanStep ==
    ASSUME DetectionInv, DetectionTypeOK', tick.pc = "fetch", NEW found, Found(found), Fan(found)
    PROVE  LogInv' /\ TickInv' /\ \A u \in Followers : FollowerInv(u)'
<1>0. DetectionTypeOK /\ LogInv /\ TickInv /\ UNCHANGED <<source, clock, fills, cursors, seen, handled, missed>>
  BY DEF DetectionInv, Fan, follow
<1>1. \A i \in DOMAIN fills : i \in Fill /\ Sec(i) \in Nat /\ Sec(i) >= 1
  BY <1>0, LogTyped
<1>2. LogInv'
  BY <1>0, LogQuiet
<1>3. TickInv'
  <2>1. tick'.at = tick.at /\ tick'.pending = tick.pending /\ tick'.pc = IF found = {} THEN "idle" ELSE "apply"
    BY FanTypes
  <2>2. ASSUME tick'.pc # "apply", NEW u \in Followers PROVE todo'[u] = <<>>
    <3>1. ByTime(found) = <<>>
      BY <2>1, <2>2, ListedFills
    <3> QED
      BY <3>1, FanTasks
  <2> QED
    BY <1>0, <2>1, <2>2 DEF TickInv
<1>4. ASSUME NEW u \in Followers PROVE FollowerInv(u)'
  <2>0. FollowerInv(u) /\ cursors[u] \in Nat \cup {Unset} /\ Unset \notin Nat
    BY <1>0, ValuesTyped DEF DetectionInv
  <2>1. CASE u \notin tick.pending
    <3>1. todo'[u] = <<>>
      BY <2>1, FanTasks
    <3>2. CursorInv(u)' /\ TodoInv(u)' /\ SeenInv(u)'
      BY <1>0, <2>0, <3>1 DEF FollowerInv, CursorInv, TodoInv, SeenInv, Sec
    <3>3. HandledInv(u)'
      <4>1. \A i : Sec(i)' = Sec(i) /\ (InSeen(u, i)' <=> InSeen(u, i))
        BY <1>0 DEF InSeen, Sec, Tx
      <4>2. tick'.at = tick.at
        BY FanTypes
      <4>3. HandledInv(u) /\ DOMAIN todo'[u] = {}
        BY <2>0, <3>1 DEF FollowerInv
      <4> QED
        BY <1>0, <4>1, <4>2, <4>3 DEF HandledInv
    <3>4. MissedInv(u)'
      BY <1>0, <2>0, <3>1, FanTypes DEF FollowerInv, MissedInv, Sec
    <3> QED
      BY <3>2, <3>3, <3>4 DEF FollowerInv
  <2>2. CASE u \in tick.pending
    <3>1. todo'[u] = ByTime(found) /\ base'[u] = cursors[u] /\ cursors[u] \in Nat /\ cursors[u] >= 1
      BY <2>0, <2>2, FanTasks DEF FollowerInv, CursorInv
    <3>2. /\ \A k \in DOMAIN todo'[u] : todo'[u][k].i \in DOMAIN fills /\ todo'[u][k].ts \in {0, Sec(todo'[u][k].i)}
          /\ \A k, l \in DOMAIN todo'[u] : k < l => Earlier(todo'[u][k], todo'[u][l])
      BY <3>1, ListedFills
    <3>3. \A k \in DOMAIN todo'[u] : todo'[u][k].ts \in Nat
      BY <1>1, <3>2
    <3>4. CursorInv(u)' /\ SeenInv(u)'
      BY <1>0, <2>0, <3>1 DEF FollowerInv, CursorInv, SeenInv, Sec
    <3>5. TodoInv(u)'
      BY <1>0, <3>1, <3>2, <3>3 DEF TodoInv, Sec
    <3>6. HandledInv(u)'
      <4>1. ASSUME NEW i \in Fill, handled[u][i] > 0
            PROVE  /\ handled[u][i] = 1 /\ i \in DOMAIN fills /\ Sec(i) <= cursors[u]
                   /\ cursors[u] = Sec(i) => InSeen(u, i)
        BY <2>0, <3>1, <4>1 DEF FollowerInv, HandledInv
      <4>2. ASSUME NEW i \in Fill, handled[u][i] > 0, NEW k \in DOMAIN todo'[u],
                   todo'[u][k].i = i, todo'[u][k].ts >= base'[u]
            PROVE  todo'[u][k].ts = base'[u]
        BY <1>1, <3>1, <3>2, <4>1, <4>2
      <4>3. \A i : InSeen(u, i)' <=> InSeen(u, i)
        BY <1>0 DEF InSeen, Tx
      <4> QED
        BY <1>0, <2>0, <3>1, <4>1, <4>2, <4>3 DEF HandledInv, Sec, Tx
    <3>7. MissedInv(u)'
      BY <1>0, <2>0, <3>1 DEF FollowerInv, MissedInv, Sec
    <3> QED
      BY <3>4, <3>5, <3>6, <3>7 DEF FollowerInv
  <2> QED
    BY <2>1, <2>2
<1> QED
  BY <1>2, <1>3, <1>4

\* A fetch that fails, or finds nothing, loses nothing.
LEMMA NothingFetched ==
    ASSUME DetectionInv, DetectionTypeOK', tick.pc = "fetch", Fan({}),
           lastBlock' = lastBlock, lost' = lost, overtaken' = overtaken
    PROVE  ChainInv'
<1>0. DetectionTypeOK /\ Found({})
  BY FS_EmptySet DEF DetectionInv, Found, Sortable
<1>1. ASSUME NEW u \in Followers, source = "chain" PROVE ScanInv(u)'
  <2>1. ScanInv(u) /\ todo[u] = <<>> /\ UNCHANGED <<source, clock, fills, cursors, seen, handled, begun>>
    BY <1>0, <1>1, FanTasks DEF DetectionInv, ChainInv
  <2>2. todo'[u] = <<>>
    BY <1>0, FanTasks, ListedFills
  <2>3. \A tx : HandledOne(u, tx)' <=> HandledOne(u, tx)
    BY <2>1 DEF HandledOne, Tx
  <2>4. \A i : Sec(i)' = Sec(i) /\ Tx(i)' = Tx(i)
    BY <2>1 DEF Sec, Tx
  <2>5. \A i : ~ ToApply(u, i)
    BY <2>1 DEF ToApply
  <2>6. (\A k \in DOMAIN seen[u] : HandledOne(u, seen[u][k]))'
    BY <2>1, <2>3 DEF ScanInv
  <2>7. ASSUME lastBlock # Unset, cursors[u] # Unset, NEW i \in DOMAIN fills \ (lost \cup overtaken[u]),
               begun[u] < Sec(i)', Sec(i)' <= lastBlock
        PROVE  HandledOne(u, Tx(i))'
    BY <2>1, <2>3, <2>4, <2>5, <2>7 DEF ScanInv
  <2> QED
    BY <2>1, <2>2, <2>6, <2>7 DEF ScanInv
<1>2. UNCHANGED source
  BY DEF Fan
<1> QED
  BY <1>1, <1>2 DEF ChainInv

\* The result of a scan reaches every follower the tick has pending; the others
\* lose it, and the readable fills within the span are all that is not lost.
LEMMA ScanFetched ==
    ASSUME DetectionInv, DetectionTypeOK', ScanChain
    PROVE  ChainInv'
<1>0. DetectionTypeOK /\ tick.pc = "fetch" /\ lastBlock' = clock - 1
  BY DEF DetectionInv, ScanChain
<1>1. /\ clock \in Nat /\ lastBlock \in Nat \cup {Unset} /\ Unset \notin Nat
      /\ \A i \in DOMAIN fills : i \in Fill /\ Sec(i) \in Nat /\ Sec(i) >= 1
      /\ \A u \in Followers : cursors[u] \in Nat \cup {Unset} /\ begun[u] \in Nat
  BY <1>0, LogTyped, ValuesTyped
<1>5. clock - 1 \in Nat
  <2>1. clock \in 1..MaxTime /\ MaxTime \in Nat
    BY <1>0, DetectionAssumption, Zenon DEF DetectionTypeOK
  <2> QED
    BY <2>1
<1> DEFINE new == {i \in DOMAIN fills : Sec(i) <= clock - 1 /\ Sec(i) > lastBlock}
<1>2. PICK found, scanned :
         /\ Found(found) /\ Fan(found)
         /\ \A x \in found : Sec(x.i) <= clock - 1
         /\ \A i \in scanned : [i |-> i, ts |-> Sec(i)] \in found
         /\ lastBlock = Unset => {i \in DOMAIN fills : Sec(i) <= clock - 1} \subseteq lost'
         /\ lastBlock # Unset => new \ scanned \subseteq lost'
         /\ lastBlock # Unset =>
               overtaken' = [u \in Followers |-> IF cursors[u] # Unset /\ u \notin tick.pending
                                            THEN overtaken[u] \cup new ELSE overtaken[u]]
         /\ lost \subseteq lost' /\ (lastBlock = Unset => overtaken' = overtaken)
  <2>1. CASE lastBlock = Unset
    <3>1. Fan({}) /\ lost' = lost \cup {i \in DOMAIN fills : Sec(i) <= clock - 1} /\ overtaken' = overtaken
      BY <2>1 DEF ScanChain, Sec
    <3>2. Found({})
      BY FS_EmptySet DEF Found, Sortable
    <3> QED
      BY <2>1, <3>1, <3>2
  <2>2. CASE lastBlock # Unset
    <3> DEFINE later == {i \in {j \in DOMAIN fills : fills[j].sec <= clock - 1} : fills[i].sec > lastBlock}
               D == {i \in later : fills[i].sec >= clock - 1 - Span}
    <3>0. new = later
      BY DEF Sec
    <3>1a. PICK old \in SUBSET D :
             /\ Fan({[i |-> i, ts |-> TimeOrZero(i, old)] : i \in D})
             /\ lost' = lost \cup old \cup (later \ D)
             /\ overtaken' = [u \in Followers |-> IF cursors[u] # Unset /\ u \notin tick.pending
                                             THEN overtaken[u] \cup later ELSE overtaken[u]]
      BY <2>2, Zenon DEF ScanChain
    <3>1. /\ Fan({[i |-> i, ts |-> TimeOrZero(i, old)] : i \in D})
          /\ lost' = lost \cup old \cup (new \ D)
          /\ overtaken' = [u \in Followers |-> IF cursors[u] # Unset /\ u \notin tick.pending
                                           THEN overtaken[u] \cup new ELSE overtaken[u]]
      BY <3>0, <3>1a, Zenon
    <3>2. D \in SUBSET (DOMAIN fills) /\ \A i \in D : Sec(i) <= clock - 1
      BY DEF Sec
    <3> HIDE DEF D, new
    <3> DEFINE time == [i \in D |-> TimeOrZero(i, old)]
               found == {[i |-> i, ts |-> time[i]] : i \in D}
    <3>3. time \in [D -> Nat] /\ \A i \in D : time[i] \in {0, Sec(i)}
      BY <1>1, <3>2 DEF TimeOrZero, Sec
    <3>4. \A i \in D \ old : time[i] = Sec(i)
      BY DEF TimeOrZero, Sec
    <3>5. found = {[i |-> i, ts |-> TimeOrZero(i, old)] : i \in D}
      OBVIOUS
    <3>6. \A x \in found : Sec(x.i) <= clock - 1
      BY <3>2
    <3>7. \A i \in D \ old : [i |-> i, ts |-> Sec(i)] \in found
      BY <3>4
    <3>8. Found(found)
      <4> HIDE DEF time
      <4> QED
        BY <1>0, <3>2, <3>3, FoundFills
    <3>9. new \ (D \ old) \subseteq lost' /\ D \ old \in SUBSET (DOMAIN fills) /\ lost \subseteq lost'
      BY <3>1, <3>2
    <3> HIDE DEF found
    <3>10. Fan(found)
      BY <3>1, <3>5
    <3> QED
      BY <2>2, <3>1, <3>6, <3>7, <3>8, <3>9, <3>10
  <2> QED
    BY <2>1, <2>2
<1>3. ASSUME NEW u \in Followers, source = "chain" PROVE ScanInv(u)'
  <2>1. /\ ScanInv(u) /\ todo[u] = <<>> /\ CursorInv(u)
        /\ UNCHANGED <<source, clock, fills, cursors, seen, handled, begun>>
        /\ u \in tick.pending => todo'[u] = ByTime(found) /\ base'[u] = cursors[u]
        /\ u \notin tick.pending => todo'[u] = <<>>
    BY <1>0, <1>2, <1>3, FanTasks DEF DetectionInv, ChainInv, FollowerInv
  <2>2. \A tx : HandledOne(u, tx)' <=> HandledOne(u, tx)
    BY <2>1 DEF HandledOne, Tx
  <2>3. \A i : Sec(i)' = Sec(i) /\ Tx(i)' = Tx(i)
    BY <2>1 DEF Sec, Tx
  <2>4. \A k \in DOMAIN todo'[u] : todo'[u][k] \in found
    BY <1>2, <2>1, ListedFills
  <2>5. (\A k \in DOMAIN todo[u] : Sec(todo[u][k].i) <= lastBlock)'
    BY <1>0, <1>2, <2>1, <2>4 DEF Sec
  <2>6. (\A k \in DOMAIN seen[u] : HandledOne(u, seen[u][k]))'
    BY <2>1, <2>2 DEF ScanInv
  <2>7. cursors[u] # Unset => cursors[u] = begun[u] \/ cursors[u] <= clock - 1
    BY <1>1, <2>1 DEF ScanInv
  <2>8. ASSUME cursors[u] # Unset, NEW i \in DOMAIN fills \ (lost' \cup overtaken'[u]),
               begun[u] < Sec(i), Sec(i) <= clock - 1
        PROVE  HandledOne(u, Tx(i)) \/ ToApply(u, i)'
    <3>1. lastBlock # Unset
      BY <1>2, <2>8
    <3>2. i \notin overtaken[u] /\ i \notin lost
      BY <1>2, <2>8, <3>1
    <3>3. CASE Sec(i) <= lastBlock
      <4>1. ~ ToApply(u, i)
        BY <2>1 DEF ToApply
      <4> QED
        BY <2>1, <2>8, <3>1, <3>2, <3>3, <4>1 DEF ScanInv
    <3>4. CASE ~ (Sec(i) <= lastBlock)
      <4>1. i \in new
        BY <1>1, <2>8, <3>1, <3>4
      <4>2. i \in scanned /\ u \in tick.pending
        BY <1>2, <2>8, <3>1, <4>1
      <4>3. PICK k \in DOMAIN todo'[u] : todo'[u][k] = [i |-> i, ts |-> Sec(i)]
        BY <1>2, <2>1, <4>2, ListedFills
      <4>4. cursors[u] <= Sec(i) /\ base'[u] = cursors[u]
        BY <1>1, <2>1, <2>8, <3>1, <3>4, <4>2 DEF ScanInv
      <4> QED
        BY <2>3, <4>3, <4>4 DEF ToApply
    <3> QED
      BY <3>3, <3>4
  <2> QED
    BY <1>0, <1>1, <1>5, <2>1, <2>2, <2>3, <2>5, <2>6, <2>7, <2>8 DEF ScanInv
<1>4. UNCHANGED source
  BY DEF ScanChain, Fan
<1> QED
  BY <1>3, <1>4 DEF ChainInv

\* Every fetch keeps the invariant.
LEMMA FetchStep ==
    ASSUME DetectionInv, DetectionTypeOK', FetchActivity \/ ScanChain \/ FetchFails
    PROVE  DetectionInv'
<1>1. PICK found : Found(found) /\ Fan(found)
  BY FetchFinds
<1>2. tick.pc = "fetch"
  BY DEF FetchActivity, ScanChain, FetchFails
<1>3. LogInv' /\ TickInv' /\ \A u \in Followers : FollowerInv(u)'
  BY <1>1, <1>2, FanStep
<1>4. ChainInv'
  <2>1. CASE FetchActivity
    BY <2>1 DEF FetchActivity, Fan, ChainInv
  <2>2. CASE FetchFails
    BY <1>2, <2>2, NothingFetched DEF FetchFails
  <2> QED
    BY <2>1, <2>2, ScanFetched
<1> QED
  BY <1>3, <1>4 DEF DetectionInv

-----------------------------------------------------------------------------
(* The bounded memory of transactions.                                     *)

\* The size of an interval.
LEMMA IntervalSize ==
    ASSUME NEW a \in Int, NEW b \in Int, a <= b
    PROVE  IsFiniteSet(a..b) /\ Cardinality(a..b) = b - a + 1
<1>1. IsFiniteSet(a..b) /\ Cardinality(a..b) = IF a > b THEN 0 ELSE b - a + 1
  BY FS_Interval
<1> QED
  BY <1>1

\* Forgetting drops the oldest entries, and only when there are too many.
LEMMA ForgetShifts ==
    ASSUME NEW s \in Seq(Fill)
    PROVE  /\ Forget(s) \in Seq(Fill)
           /\ \E d \in 0..SeenDrop :
              /\ d > 0 => Len(s) > SeenMax
              /\ DOMAIN Forget(s) = 1..(Len(s) - d)
              /\ \A k \in DOMAIN Forget(s) : Forget(s)[k] = s[k + d]
<1> USE DetectionAssumption
<1>1. Len(s) \in Nat /\ DOMAIN s = 1..Len(s)
  BY LenProperties
<1>2. CASE Len(s) <= SeenMax
  BY <1>1, <1>2 DEF Forget
<1>3. CASE Len(s) > SeenMax
  <2>1. Forget(s) = SubSeq(s, SeenDrop + 1, Len(s))
    BY <1>3 DEF Forget
  <2>2. \A k \in SeenDrop + 1 .. Len(s) : s[k] \in Fill
    BY <1>1, ElementOfSeq
  <2>3. /\ Forget(s) \in Seq(Fill) /\ Len(Forget(s)) = Len(s) - SeenDrop
        /\ \A k \in 1..(Len(s) - SeenDrop) : Forget(s)[k] = s[k + SeenDrop]
    <3> DEFINE m == SeenDrop + 1
               n == Len(s)
    <3>1. m \in Int /\ n \in Int /\ m <= n
      BY <1>1, <1>3
    <3> HIDE DEF m, n
    <3>2. /\ SubSeq(s, m, n) \in Seq(Fill) /\ Len(SubSeq(s, m, n)) = n - m + 1
          /\ \A i \in 1..(n - m + 1) : SubSeq(s, m, n)[i] = s[m + i - 1]
      <4>1. \A i \in m..n : s[i] \in Fill
        BY <2>2 DEF m, n
      <4> QED
        BY <3>1, <4>1, SubSeqProperties, SMTT(30)
    <3>3. n - m + 1 = Len(s) - SeenDrop /\ \A i \in 1..(n - m + 1) : m + i - 1 = i + SeenDrop
      BY <3>1 DEF m, n
    <3> QED
      BY <2>1, <3>2, <3>3 DEF m, n
  <2>4. DOMAIN Forget(s) = 1..(Len(s) - SeenDrop)
    BY <2>3, LenProperties
  <2>5. SeenDrop \in 0..SeenDrop /\ Len(s) > SeenMax
    BY <1>3
  <2> HIDE DEF Forget
  <2> QED
    BY <2>3, <2>4, <2>5
<1> QED
  BY <1>1, <1>2, <1>3

\* Transactions in the order of their seconds, the last second being c.
InOrder(s, c) ==
    /\ s \in Seq(Fill)
    /\ \A k \in DOMAIN s : s[k] \in DOMAIN fills /\ Sec(s[k]) <= c
    /\ \A k, l \in DOMAIN s : k < l => s[k] # s[l] /\ Sec(s[k]) <= Sec(s[l])

\* Forgetting keeps their order and drops none of the last second: there are at
\* most PerSecond of those.
LEMMA ForgetKeeps ==
    ASSUME DetectionTypeOK, LogInv, NEW c \in Nat, NEW s, InOrder(s, c), Len(s) <= SeenMax + 1
    PROVE  /\ InOrder(Forget(s), c) /\ ToSet(Forget(s)) \subseteq ToSet(s)
           /\ \A tx \in ToSet(s) : Sec(tx) = c => tx \in ToSet(Forget(s))
<1> USE DetectionAssumption
<1>1. s \in Seq(Fill) /\ Len(s) \in Nat /\ DOMAIN s = 1..Len(s)
  BY LenProperties DEF InOrder
<1>2. PICK d \in 0..SeenDrop : /\ d > 0 => Len(s) > SeenMax
                               /\ DOMAIN Forget(s) = 1..(Len(s) - d)
                               /\ \A k \in DOMAIN Forget(s) : Forget(s)[k] = s[k + d]
  BY <1>1, ForgetShifts
<1>3. \A k \in DOMAIN Forget(s) : k + d \in DOMAIN s
  BY <1>1, <1>2
<1>4. \A k \in DOMAIN s : k > d => k - d \in DOMAIN Forget(s) /\ Forget(s)[k - d] = s[k]
  BY <1>1, <1>2, SMTT(30)
<1>5. InOrder(Forget(s), c)
  <2>1. Forget(s) \in Seq(Fill)
    BY <1>1, ForgetShifts
  <2>2. \A k \in DOMAIN Forget(s) : Forget(s)[k] \in DOMAIN fills /\ Sec(Forget(s)[k]) <= c
    BY <1>2, <1>3 DEF InOrder
  <2>3. ASSUME NEW k \in DOMAIN Forget(s), NEW l \in DOMAIN Forget(s), k < l
        PROVE  Forget(s)[k] # Forget(s)[l] /\ Sec(Forget(s)[k]) <= Sec(Forget(s)[l])
    <3>1. k + d \in DOMAIN s /\ l + d \in DOMAIN s /\ k + d < l + d
      BY <1>1, <1>2, <1>3, <2>3
    <3>2. s[k + d] # s[l + d] /\ Sec(s[k + d]) <= Sec(s[l + d])
      BY <3>1 DEF InOrder
    <3> QED
      BY <1>2, <3>2
  <2> QED
    BY <2>1, <2>2, <2>3 DEF InOrder
<1>6. ToSet(Forget(s)) \subseteq ToSet(s)
  BY <1>2, <1>3 DEF ToSet
<1>7. ASSUME NEW k \in DOMAIN s, Sec(s[k]) = c PROVE k > d
  <2> SUFFICES ASSUME k <= d PROVE FALSE
    BY <1>1, <1>2
  <2>1. Len(s) = SeenMax + 1 /\ d <= SeenDrop /\ k \in 1..SeenDrop
    BY <1>1, <1>2
  <2>2. \A l \in k..Len(s) : s[l] \in DOMAIN fills /\ Sec(s[l]) = c
    <3>1. ASSUME NEW l \in k..Len(s) PROVE s[l] \in DOMAIN fills /\ Sec(s[l]) = c
      <4>1. l \in DOMAIN s /\ k <= l
        BY <1>1, <2>1
      <4>2. Sec(s[l]) <= c /\ (k < l => c <= Sec(s[l])) /\ s[l] \in DOMAIN fills
        BY <1>7, <4>1 DEF InOrder
      <4>3. Sec(s[l]) \in Nat
        BY <4>2, LogTyped
      <4> QED
        BY <1>1, <1>7, <2>1, <4>1, <4>2, <4>3, SMTT(30)
    <3> QED
      BY <3>1
  <2>3. c \in 1..MaxTime
    BY <1>7, LogTyped DEF InOrder
  <2>4. InSecond(c) \in SUBSET (DOMAIN fills) /\ IsFiniteSet(DOMAIN fills)
    BY LogTyped DEF InSecond
  <2>5. IsFiniteSet(InSecond(c)) /\ Cardinality(InSecond(c)) \in Nat /\ Cardinality(InSecond(c)) <= PerSecond
    BY <2>3, <2>4, FS_Subset, FS_CardinalityType DEF LogInv
  <2>6. IsFiniteSet(k..Len(s)) /\ Cardinality(k..Len(s)) = Len(s) - k + 1
    <3> DEFINE n == Len(s)
    <3>1. k \in Int /\ n \in Int /\ k <= n
      BY <1>1, <2>1
    <3> HIDE DEF n
    <3>2. IsFiniteSet(k..n) /\ Cardinality(k..n) = n - k + 1
      BY <3>1, IntervalSize
    <3> QED
      BY <3>2 DEF n
  <2>7. Cardinality(InSecond(c)) < Cardinality(k..Len(s))
    BY <2>1, <2>5, <2>6, SMTT(30)
  <2> DEFINE f == [l \in k..Len(s) |-> s[l]]
  <2>8. f \in [k..Len(s) -> InSecond(c)]
    BY <2>2 DEF InSecond
  <2>9. PICK l, m \in k..Len(s) : l # m /\ f[l] = f[m]
    <3> DEFINE S == k..Len(s)
               T == InSecond(c)
    <3>1. IsFiniteSet(S) /\ IsFiniteSet(T) /\ Cardinality(T) < Cardinality(S) /\ f \in [S -> T]
      BY <2>5, <2>6, <2>7, <2>8
    <3> HIDE DEF f, S, T
    <3>2. \E l, m \in S : l # m /\ f[l] = f[m]
      BY <3>1, FS_PigeonHole
    <3> QED
      BY <3>2 DEF S
  <2>10. l \in DOMAIN s /\ m \in DOMAIN s /\ s[l] = s[m] /\ (l < m \/ m < l)
    BY <1>1, <2>1, <2>9, SMTT(30)
  <2> QED
    BY <2>10 DEF InOrder
<1>8. \A tx \in ToSet(s) : Sec(tx) = c => tx \in ToSet(Forget(s))
  BY <1>4, <1>7 DEF ToSet
<1> QED
  BY <1>5, <1>6, <1>8

-----------------------------------------------------------------------------
(* A step of a follower's task.                                            *)

\* What holds of the fill a task meets next.
LEMMA HeadFacts ==
    ASSUME DetectionInv, NEW u \in Followers, todo[u] # <<>>
    PROVE  LET x == Head(todo[u]) IN
           /\ x = todo[u][1] /\ 1 \in DOMAIN todo[u] /\ x.i \in DOMAIN fills /\ x.i \in Fill
           /\ x.ts \in Nat /\ x.ts \in {0, Sec(x.i)} /\ Sec(x.i) \in Nat /\ Tx(x.i) \in Txs
           /\ cursors[u] \in Nat /\ base[u] \in Nat /\ 1 <= base[u] /\ base[u] <= cursors[u]
           /\ x.ts < base[u] \/ cursors[u] <= x.ts
           /\ DOMAIN Tail(todo[u]) = 1..(Len(todo[u]) - 1) /\ Len(todo[u]) \in Nat
           /\ \A k \in DOMAIN Tail(todo[u]) : /\ Tail(todo[u])[k] = todo[u][k + 1]
                                              /\ k + 1 \in DOMAIN todo[u]
                                              /\ Earlier(x, todo[u][k + 1])
<1> DEFINE x == Head(todo[u])
<1>0. DetectionTypeOK /\ FollowerInv(u)
  BY DEF DetectionInv
<1>1. /\ todo[u] \in Seq([i: Fill, ts: 0..MaxTime]) /\ DOMAIN todo[u] = 1..Len(todo[u]) /\ Len(todo[u]) \in Nat
      /\ cursors[u] \in Nat \cup {Unset} /\ base[u] \in Nat
      /\ \A k \in DOMAIN todo[u] : todo[u][k].ts \in Nat
  BY <1>0, ValuesTyped
<1>2. Len(todo[u]) # 0
  BY <1>1, EmptySeq
<1>3. x = todo[u][1] /\ 1 \in DOMAIN todo[u]
  BY <1>1, <1>2
<1>4. /\ Tail(todo[u]) \in Seq([i: Fill, ts: 0..MaxTime]) /\ Len(Tail(todo[u])) = Len(todo[u]) - 1
      /\ \A k \in 1..Len(Tail(todo[u])) : Tail(todo[u])[k] = todo[u][k + 1]
  BY <1>1, HeadTailProperties
<1>5. DOMAIN Tail(todo[u]) = 1..(Len(todo[u]) - 1)
  BY <1>4, LenProperties
<1>6. /\ x.i \in DOMAIN fills /\ x.ts \in {0, Sec(x.i)} /\ (x.ts < base[u] \/ cursors[u] <= x.ts)
      /\ 1 <= base[u] /\ base[u] <= cursors[u] /\ cursors[u] # Unset
  BY <1>0, <1>3 DEF FollowerInv, TodoInv, CursorInv
<1>7. x.i \in Fill /\ Sec(x.i) \in Nat /\ Tx(x.i) \in Txs
  BY <1>0, <1>6, LogTyped
<1>8. ASSUME NEW k \in DOMAIN Tail(todo[u])
      PROVE  Tail(todo[u])[k] = todo[u][k + 1] /\ k + 1 \in DOMAIN todo[u] /\ Earlier(x, todo[u][k + 1])
  <2>1. k \in 1..(Len(todo[u]) - 1)
    BY <1>5
  <2>2. k + 1 \in DOMAIN todo[u] /\ 1 < k + 1 /\ Tail(todo[u])[k] = todo[u][k + 1]
    BY <1>1, <1>4, <2>1
  <2> QED
    BY <1>0, <1>3, <2>2 DEF FollowerInv, TodoInv
<1> QED
  BY <1>1, <1>3, <1>5, <1>6, <1>7, <1>8

\* What an application changes.
LEMMA ApplyMoves ==
    ASSUME DetectionInv, NEW u \in Followers, Apply(u)
    PROVE  LET x == Head(todo[u]) IN
           /\ todo[u] # <<>> /\ tick.pc = "apply"
           /\ UNCHANGED <<source, clock, fills, published, follows, lastBlock, base, missed, lost, begun, overtaken>>
           /\ todo'[u] = Tail(todo[u])
           /\ tick'.at = tick.at /\ tick'.pending = tick.pending
           /\ tick'.pc = IF \A v \in Followers : todo'[v] = <<>> THEN "idle" ELSE tick.pc
           /\ \A v \in Followers \ {u} : /\ todo'[v] = todo[v] /\ handled'[v] = handled[v]
                                         /\ seen'[v] = seen[v] /\ cursors'[v] = cursors[v]
           /\ Skipped(u, x) => handled'[u] = handled[u] /\ seen'[u] = seen[u] /\ cursors'[u] = cursors[u]
           /\ ~ Skipped(u, x) =>
                 /\ \A i \in Fill : handled'[u][i] = IF i = x.i THEN handled[u][i] + 1 ELSE handled[u][i]
                 /\ seen'[u] = IF Tx(x.i) = Unset THEN seen[u] ELSE Forget(Append(seen[u], Tx(x.i)))
                 /\ cursors'[u] = x.ts
<1> DEFINE x == Head(todo[u])
<1>1. /\ todo \in [Followers -> Seq([i: Fill, ts: 0..MaxTime])]
      /\ tick \in [pc: {"idle", "fetch", "apply"}, at: 0..MaxTime, pending: SUBSET Followers]
      /\ handled \in [Followers -> [Fill -> Nat]] /\ seen \in [Followers -> Seq(Fill)]
      /\ cursors \in [Followers -> 0..MaxTime \cup {Unset}]
  BY DEF DetectionInv, DetectionTypeOK
<1>2. todo[u] # <<>> /\ tick.pc = "apply"
      /\ UNCHANGED <<source, clock, fills, published, follows, lastBlock, base, missed, lost, begun, overtaken>>
      /\ todo' = [todo EXCEPT ![u] = Tail(@)]
      /\ tick' = [tick EXCEPT !.pc = IF \A v \in Followers : todo'[v] = <<>> THEN "idle" ELSE @]
  BY DEF Apply
<1>3. /\ x.ts \in Nat /\ cursors[u] \in Nat /\ (x.ts < base[u] \/ cursors[u] <= x.ts)
      /\ base[u] \in Nat /\ x.i \in Fill
  BY <1>2, HeadFacts
<1>4. Skipped(u, x) => UNCHANGED <<handled, seen, cursors>>
  BY DEF Apply
<1>5. ASSUME ~ Skipped(u, x)
      PROVE  /\ handled' = [handled EXCEPT ![u][x.i] = @ + 1]
             /\ seen' = IF Tx(x.i) = Unset THEN seen ELSE [seen EXCEPT ![u] = Forget(Append(@, Tx(x.i)))]
             /\ cursors' = [cursors EXCEPT ![u] = Max({@, x.ts})]
  BY <1>5 DEF Apply, Tx
<1> HIDE DEF x
<1>6. ASSUME ~ Skipped(u, x) PROVE Max({cursors[u], x.ts}) = x.ts
  <2>1. cursors[u] <= x.ts
    BY <1>3, <1>6 DEF Skipped
  <2> QED
    BY <1>3, <2>1, MaxOfTwo
<1>7. ASSUME ~ Skipped(u, x)
      PROVE  /\ \A i \in Fill : handled'[u][i] = IF i = x.i THEN handled[u][i] + 1 ELSE handled[u][i]
             /\ \A v \in Followers \ {u} : handled'[v] = handled[v]
  <2>1. handled[u] \in [Fill -> Nat]
    BY <1>1
  <2>2. handled' = [handled EXCEPT ![u] = [handled[u] EXCEPT ![x.i] = handled[u][x.i] + 1]]
    BY <1>5, <1>7
  <2> QED
    BY <1>1, <1>3, <2>1, <2>2
<1>8. ASSUME ~ Skipped(u, x)
      PROVE  /\ seen'[u] = IF Tx(x.i) = Unset THEN seen[u] ELSE Forget(Append(seen[u], Tx(x.i)))
             /\ cursors'[u] = x.ts
             /\ \A v \in Followers \ {u} : seen'[v] = seen[v] /\ cursors'[v] = cursors[v]
  BY <1>1, <1>5, <1>6, <1>8
<1>9. /\ todo'[u] = Tail(todo[u]) /\ \A v \in Followers \ {u} : todo'[v] = todo[v]
  BY <1>1, <1>2
<1>10. /\ tick'.at = tick.at /\ tick'.pending = tick.pending
       /\ tick'.pc = IF \A v \in Followers : todo'[v] = <<>> THEN "idle" ELSE tick.pc
  BY <1>1, <1>2
<1>11. CASE Skipped(u, x)
  BY <1>2, <1>4, <1>9, <1>10, <1>11 DEF x
<1>12. CASE ~ Skipped(u, x)
  BY <1>2, <1>7, <1>8, <1>9, <1>10, <1>12 DEF x
<1> QED
  BY <1>11, <1>12

\* What an application leaves of another follower.
LEMMA OtherFollower ==
    ASSUME DetectionInv, NEW u \in Followers, Apply(u), NEW v \in Followers \ {u}
    PROVE  FollowerInv(v)' /\ (source = "chain" => ScanInv(v)')
<1>1. /\ UNCHANGED <<source, clock, fills, lastBlock, base, missed, lost, begun, overtaken>> /\ tick'.at = tick.at
      /\ todo'[v] = todo[v] /\ handled'[v] = handled[v] /\ seen'[v] = seen[v] /\ cursors'[v] = cursors[v]
  BY ApplyMoves
<1>2. \A i : Sec(i)' = Sec(i) /\ Tx(i)' = Tx(i)
  BY <1>1 DEF Sec, Tx
<1>3. FollowerInv(v)
  BY DEF DetectionInv
<1>4. CursorInv(v)' /\ TodoInv(v)'
  BY <1>1, <1>3 DEF FollowerInv, CursorInv, TodoInv, Sec
<1>5. SeenInv(v)'
  BY <1>1, <1>3 DEF FollowerInv, SeenInv, Sec
<1>6. HandledInv(v)'
  BY <1>1, <1>2, <1>3 DEF FollowerInv, HandledInv, InSeen
<1>7. MissedInv(v)'
  BY <1>1, <1>3 DEF FollowerInv, MissedInv, Sec
<1>8. ASSUME source = "chain" PROVE ScanInv(v)'
  <2>1. ScanInv(v)
    BY <1>8 DEF DetectionInv, ChainInv
  <2>2. \A tx : HandledOne(v, tx)' <=> HandledOne(v, tx)
    BY <1>1, <1>2 DEF HandledOne
  <2>3. \A i : ToApply(v, i)' <=> ToApply(v, i)
    BY <1>1, <1>2 DEF ToApply
  <2>4. (\A k \in DOMAIN seen[v] : HandledOne(v, seen[v][k]))'
    BY <1>1, <2>1, <2>2 DEF ScanInv
  <2>5. (\A k \in DOMAIN todo[v] : Sec(todo[v][k].i) <= lastBlock)' <=>
           \A k \in DOMAIN todo[v] : Sec(todo[v][k].i) <= lastBlock
    BY <1>1 DEF Sec
  <2>6. \A i \in DOMAIN fills : (HandledOne(v, Tx(i)) \/ ToApply(v, i)) => HandledOne(v, Tx(i))' \/ ToApply(v, i)'
    BY <1>2, <2>2, <2>3
  <2> QED
    BY <1>1, <1>2, <2>1, <2>4, <2>5, <2>6 DEF ScanInv
<1> QED
  BY <1>4, <1>5, <1>6, <1>7, <1>8 DEF FollowerInv

\* A fill that is skipped was handled, is no news or is told by another.
LEMMA SkippedFill ==
    ASSUME DetectionInv, NEW u \in Followers, Apply(u), Skipped(u, Head(todo[u]))
    PROVE  FollowerInv(u)' /\ (source = "chain" => ScanInv(u)')
<1> DEFINE x == Head(todo[u])
<1>1. /\ UNCHANGED <<source, clock, fills, lastBlock, base, missed, lost, begun, overtaken>> /\ tick'.at = tick.at
      /\ todo[u] # <<>> /\ todo'[u] = Tail(todo[u])
      /\ handled'[u] = handled[u] /\ seen'[u] = seen[u] /\ cursors'[u] = cursors[u]
  BY ApplyMoves
<1>2. \A i : Sec(i)' = Sec(i) /\ Tx(i)' = Tx(i)
  BY <1>1 DEF Sec, Tx
<1>3. FollowerInv(u) /\ LogInv
  BY DEF DetectionInv
<1>4. /\ x = todo[u][1] /\ x.i \in DOMAIN fills /\ cursors[u] \in Nat /\ 1 <= base[u] /\ base[u] <= cursors[u]
      /\ DOMAIN todo'[u] = 1..(Len(todo[u]) - 1) /\ Len(todo[u]) \in Nat /\ x.ts \in Nat /\ base[u] \in Nat
      /\ \A k \in DOMAIN todo'[u] : todo'[u][k] = todo[u][k + 1] /\ k + 1 \in DOMAIN todo[u]
  BY <1>1, HeadFacts
<1>5. cursors[u] # Unset /\ Unset \notin Nat /\ DOMAIN todo[u] = 1..Len(todo[u])
  BY <1>4, ValuesTyped DEF DetectionInv
<1> HIDE DEF x
<1>6. CursorInv(u)'
  BY <1>1, <1>3, <1>5 DEF FollowerInv, CursorInv
<1>7. TodoInv(u)'
  <2>1. \A k \in DOMAIN todo'[u] : /\ todo'[u][k].i \in DOMAIN fills /\ todo'[u][k].ts \in {0, Sec(todo'[u][k].i)}
                                   /\ todo'[u][k].ts < base[u] \/ cursors[u] <= todo'[u][k].ts
    BY <1>3, <1>4 DEF FollowerInv, TodoInv
  <2>2. ASSUME NEW k \in DOMAIN todo'[u], NEW l \in DOMAIN todo'[u], k < l
        PROVE  Earlier(todo'[u][k], todo'[u][l])
    <3>1. k + 1 \in DOMAIN todo[u] /\ l + 1 \in DOMAIN todo[u] /\ k + 1 < l + 1
      BY <1>4, <2>2
    <3> QED
      BY <1>3, <1>4, <3>1 DEF FollowerInv, TodoInv
  <2> QED
    BY <1>1, <1>4, <2>1, <2>2 DEF TodoInv, Sec
<1>8. SeenInv(u)'
  BY <1>1, <1>3 DEF FollowerInv, SeenInv, Sec
<1>9. HandledInv(u)'
  <2>1. \A i : InSeen(u, i)' <=> InSeen(u, i)
    BY <1>1, <1>2 DEF InSeen
  <2> QED
    BY <1>1, <1>2, <1>3, <1>4, <2>1 DEF FollowerInv, HandledInv
<1>10. MissedInv(u)'
  BY <1>1, <1>3 DEF FollowerInv, MissedInv, Sec
<1>11. ASSUME source = "chain" PROVE ScanInv(u)'
  <2>1. ScanInv(u)
    BY <1>11 DEF DetectionInv, ChainInv
  <2>2. \A tx : HandledOne(u, tx)' <=> HandledOne(u, tx)
    BY <1>1, <1>2 DEF HandledOne
  <2>3. (\A k \in DOMAIN seen[u] : HandledOne(u, seen[u][k]))'
    BY <1>1, <2>1, <2>2 DEF ScanInv
  <2>4. (\A k \in DOMAIN todo[u] : Sec(todo[u][k].i) <= lastBlock)'
    <3>1. \A k \in DOMAIN todo'[u] : Sec(todo'[u][k].i) <= lastBlock
      BY <1>1, <1>4, <2>1 DEF ScanInv
    <3> QED
      BY <1>1, <3>1 DEF Sec
  <2>5. ASSUME NEW i \in DOMAIN fills, ToApply(u, i)
        PROVE  HandledOne(u, Tx(i)) \/ ToApply(u, i)'
    <3>1. PICK k \in DOMAIN todo[u] : todo[u][k] = [i |-> i, ts |-> Sec(i)] /\ base[u] <= Sec(i)
      BY <2>5 DEF ToApply
    <3>2. CASE k = 1
      <4>1. x.i = i /\ x.ts >= base[u] /\ Tx(i) # Unset
        BY <1>3, <1>4, <1>11, <3>1, <3>2 DEF LogInv, LogFill
      <4>2. Tx(i) \in ToSet(seen[u])
        BY <1>4, <4>1 DEF Skipped, Tx, x
      <4>3. PICK j \in DOMAIN seen[u] : seen[u][j] = Tx(i)
        BY <4>2 DEF ToSet
      <4>4. HandledOne(u, seen[u][j])
        BY <2>1 DEF ScanInv
      <4> QED
        BY <4>3, <4>4
    <3>3. CASE k # 1
      <4>1. k - 1 \in DOMAIN todo'[u] /\ (k - 1) + 1 = k
        BY <1>4, <1>5, <3>1, <3>3
      <4>2. todo'[u][k - 1] = [i |-> i, ts |-> Sec(i)]
        BY <1>4, <3>1, <4>1
      <4> QED
        BY <1>1, <1>2, <3>1, <4>1, <4>2 DEF ToApply
    <3> QED
      BY <3>2, <3>3
  <2>6. ASSUME lastBlock # Unset, cursors[u] # Unset, NEW i \in DOMAIN fills \ (lost \cup overtaken[u]),
               begun[u] < Sec(i)', Sec(i)' <= lastBlock
        PROVE  HandledOne(u, Tx(i))' \/ ToApply(u, i)'
    <3>1. HandledOne(u, Tx(i)) \/ ToApply(u, i)
      BY <1>2, <2>1, <2>6 DEF ScanInv
    <3> QED
      BY <1>2, <2>2, <2>5, <3>1
  <2> QED
    BY <1>1, <2>1, <2>3, <2>4, <2>6 DEF ScanInv
<1> QED
  BY <1>6, <1>7, <1>8, <1>9, <1>10, <1>11 DEF FollowerInv

\* A fill that is not skipped is new, of its own second, which becomes the
\* cursor, and is then remembered.
LEMMA NewFill ==
    ASSUME DetectionInv, NEW u \in Followers, todo[u] # <<>>, ~ Skipped(u, Head(todo[u]))
    PROVE  LET x == Head(todo[u]) IN
           /\ x.ts = Sec(x.i) /\ cursors[u] <= x.ts /\ base[u] <= x.ts /\ handled[u][x.i] = 0
           /\ Tx(x.i) # Unset => Tx(x.i) \notin ToSet(seen[u])
<1> DEFINE x == Head(todo[u])
<1>0. FollowerInv(u) /\ DetectionTypeOK
  BY DEF DetectionInv
<1>1. /\ x = todo[u][1] /\ 1 \in DOMAIN todo[u] /\ x.i \in DOMAIN fills /\ x.i \in Fill
      /\ x.ts \in Nat /\ x.ts \in {0, Sec(x.i)} /\ Sec(x.i) \in Nat
      /\ cursors[u] \in Nat /\ base[u] \in Nat /\ 1 <= base[u] /\ base[u] <= cursors[u]
      /\ x.ts < base[u] \/ cursors[u] <= x.ts
  BY HeadFacts
<1>2. /\ ~ (x.ts < base[u]) /\ ~ (x.ts = base[u] /\ Tx(x.i) = Unset)
      /\ Tx(x.i) # Unset => Tx(x.i) \notin ToSet(seen[u])
  BY DEF Skipped, Tx
<1> HIDE DEF x
<1>3. x.ts = Sec(x.i) /\ cursors[u] <= x.ts /\ base[u] <= x.ts
  BY <1>1, <1>2
<1>4. handled[u][x.i] = 0
  <2> SUFFICES ASSUME handled[u][x.i] > 0 PROVE FALSE
    BY <1>0, <1>1, ValuesTyped
  <2>1. /\ cursors[u] # Unset => Sec(x.i) <= cursors[u]
        /\ cursors[u] = Sec(x.i) => InSeen(u, x.i)
        /\ x.ts >= base[u] /\ Tx(x.i) = Unset => x.ts = base[u]
    BY <1>0, <1>1 DEF FollowerInv, HandledInv
  <2>2. Unset \notin Nat
    BY DetectionAssumption
  <2>3. cursors[u] = Sec(x.i)
    BY <1>1, <1>3, <2>1, <2>2
  <2> QED
    BY <1>1, <1>2, <1>3, <2>1, <2>3 DEF InSeen
<1> QED
  BY <1>2, <1>3, <1>4 DEF x

\* What is remembered after a new fill.
LEMMA SeenAfter ==
    ASSUME DetectionInv, NEW u \in Followers, todo[u] # <<>>, ~ Skipped(u, Head(todo[u])),
           NEW x, x = Head(todo[u]), Tx(x.i) # Unset
    PROVE  LET s == Append(seen[u], Tx(x.i)) IN
           /\ InOrder(Forget(s), x.ts) /\ Tx(x.i) \in ToSet(Forget(s))
           /\ ToSet(Forget(s)) \subseteq ToSet(seen[u]) \cup {Tx(x.i)}
           /\ \A tx \in ToSet(seen[u]) : Sec(tx) = x.ts => tx \in ToSet(Forget(s))
<1> DEFINE tx == Tx(x.i)
           s == Append(seen[u], tx)
<1>0. FollowerInv(u) /\ DetectionTypeOK /\ LogInv
  BY DEF DetectionInv
<1>1. /\ x.i \in DOMAIN fills /\ x.ts \in Nat /\ cursors[u] \in Nat /\ x.ts = Sec(x.i) /\ cursors[u] <= x.ts
      /\ tx \notin ToSet(seen[u]) /\ tx \in Txs
  BY HeadFacts, NewFill
<1>2. tx \in Fill /\ tx \in DOMAIN fills /\ Sec(tx) = x.ts
  BY <1>0, <1>1 DEF Txs, LogInv, LogFill
<1>3. seen[u] \in Seq(Fill) /\ DOMAIN seen[u] = 1..Len(seen[u]) /\ Len(seen[u]) \in Nat /\ Len(seen[u]) <= SeenMax
  BY <1>0, ValuesTyped DEF DetectionTypeOK
<1> HIDE DEF tx
<1>4. /\ s \in Seq(Fill) /\ Len(s) = Len(seen[u]) + 1 /\ s[Len(seen[u]) + 1] = tx
      /\ \A k \in DOMAIN seen[u] : s[k] = seen[u][k]
  BY <1>2, <1>3, AppendProperties
<1>5. DOMAIN s = DOMAIN seen[u] \cup {Len(seen[u]) + 1}
  BY <1>3, <1>4, LenProperties
<1> HIDE DEF s
<1>6. \A k \in DOMAIN seen[u] : /\ seen[u][k] \in DOMAIN fills /\ seen[u][k] # tx
                                /\ Sec(seen[u][k]) <= cursors[u] /\ Sec(seen[u][k]) \in Nat
  BY <1>0, <1>1, LogTyped DEF FollowerInv, SeenInv, ToSet
<1>7. InOrder(s, x.ts)
  <2>1. ASSUME NEW k \in DOMAIN s PROVE s[k] \in DOMAIN fills /\ Sec(s[k]) <= x.ts
    <3>1. CASE k \in DOMAIN seen[u]
      BY <1>1, <1>4, <1>6, <3>1
    <3>2. CASE k = Len(seen[u]) + 1
      BY <1>1, <1>2, <1>4, <3>2
    <3> QED
      BY <1>5, <3>1, <3>2
  <2>2. ASSUME NEW k \in DOMAIN s, NEW l \in DOMAIN s, k < l
        PROVE  s[k] # s[l] /\ Sec(s[k]) <= Sec(s[l])
    <3>1. CASE l \in DOMAIN seen[u]
      <4>1. k \in DOMAIN seen[u]
        BY <1>3, <1>5, <2>2, <3>1
      <4> QED
        BY <1>0, <1>4, <2>2, <3>1, <4>1 DEF FollowerInv, SeenInv
    <3>2. CASE l = Len(seen[u]) + 1
      <4>1. k \in DOMAIN seen[u]
        BY <1>3, <1>5, <2>2, <3>2
      <4> QED
        BY <1>1, <1>2, <1>4, <1>6, <3>2, <4>1
    <3> QED
      BY <1>5, <3>1, <3>2
  <2> QED
    BY <1>4, <2>1, <2>2 DEF InOrder
<1>8. ToSet(s) = ToSet(seen[u]) \cup {tx}
  BY <1>4, <1>5 DEF ToSet
<1>9. /\ InOrder(Forget(s), x.ts) /\ ToSet(Forget(s)) \subseteq ToSet(s)
      /\ \A t \in ToSet(s) : Sec(t) = x.ts => t \in ToSet(Forget(s))
  <2>1. Len(s) <= SeenMax + 1
    BY <1>3, <1>4, DetectionAssumption
  <2> QED
    BY <1>0, <1>1, <1>7, <2>1, ForgetKeeps
<1> QED
  BY <1>2, <1>8, <1>9 DEF s, tx

\* A new fill is handled once, and the cursor and the memory follow it.
LEMMA HandledFill ==
    ASSUME DetectionInv, NEW u \in Followers, Apply(u), ~ Skipped(u, Head(todo[u]))
    PROVE  FollowerInv(u)' /\ (source = "chain" => ScanInv(u)')
<1> SUFFICES ASSUME NEW x, x = Head(todo[u])
             PROVE  FollowerInv(u)' /\ (source = "chain" => ScanInv(u)')
  OBVIOUS
<1>0. FollowerInv(u) /\ LogInv /\ DetectionTypeOK
  BY DEF DetectionInv
<1>1. /\ UNCHANGED <<source, clock, fills, lastBlock, base, missed, lost, begun, overtaken>> /\ tick'.at = tick.at
      /\ todo[u] # <<>> /\ todo'[u] = Tail(todo[u]) /\ cursors'[u] = x.ts
      /\ \A i \in Fill : handled'[u][i] = IF i = x.i THEN handled[u][i] + 1 ELSE handled[u][i]
      /\ seen'[u] = IF Tx(x.i) = Unset THEN seen[u] ELSE Forget(Append(seen[u], Tx(x.i)))
  BY ApplyMoves
<1>2. \A i : Sec(i)' = Sec(i) /\ Tx(i)' = Tx(i)
  BY <1>1 DEF Sec, Tx
<1>3. /\ x = todo[u][1] /\ 1 \in DOMAIN todo[u] /\ x.i \in DOMAIN fills /\ x.i \in Fill
      /\ x.ts \in Nat /\ cursors[u] \in Nat /\ base[u] \in Nat /\ 1 <= base[u] /\ base[u] <= cursors[u]
      /\ DOMAIN todo'[u] = 1..(Len(todo[u]) - 1) /\ Len(todo[u]) \in Nat
      /\ \A k \in DOMAIN todo'[u] : /\ todo'[u][k] = todo[u][k + 1] /\ k + 1 \in DOMAIN todo[u]
                                    /\ Earlier(x, todo[u][k + 1])
  BY <1>1, HeadFacts
<1>4. /\ x.ts = Sec(x.i) /\ cursors[u] <= x.ts /\ base[u] <= x.ts /\ handled[u][x.i] = 0
      /\ Tx(x.i) # Unset => Tx(x.i) \notin ToSet(seen[u])
  BY <1>1, NewFill
<1>5. Unset \notin Nat /\ cursors[u] # Unset /\ x.ts # Unset /\ DOMAIN todo[u] = 1..Len(todo[u])
  BY <1>0, <1>3, ValuesTyped
<1>6. \A k \in DOMAIN todo[u] : todo[u][k].ts \in Nat
  BY <1>0, ValuesTyped
<1>7. \A i \in DOMAIN fills : i \in Fill /\ Sec(i) \in Nat /\ Sec(i) <= clock
  BY <1>0, LogTyped DEF LogInv, LogFill
<1>8. \/ Tx(x.i) = Unset /\ seen'[u] = seen[u]
      \/ /\ Tx(x.i) # Unset /\ Tx(x.i) \in ToSet(seen'[u]) /\ InOrder(seen'[u], x.ts)
         /\ ToSet(seen'[u]) \subseteq ToSet(seen[u]) \cup {Tx(x.i)}
         /\ \A tx \in ToSet(seen[u]) : Sec(tx) = x.ts => tx \in ToSet(seen'[u])
  BY <1>1, SeenAfter
<1>9. CursorInv(u)'
  <2>1. clock \in Nat /\ 1 <= x.ts /\ x.ts <= clock
    BY <1>0, <1>3, <1>4, <1>7, ValuesTyped
  <2> QED
    BY <1>1, <1>5, <2>1 DEF CursorInv
<1>10. TodoInv(u)'
  <2>1. ASSUME NEW k \in DOMAIN todo'[u]
        PROVE  /\ todo'[u][k].i \in DOMAIN fills /\ todo'[u][k].ts \in {0, Sec(todo'[u][k].i)}
               /\ x.ts <= todo'[u][k].ts
    <3>1. todo'[u][k] = todo[u][k + 1] /\ k + 1 \in DOMAIN todo[u] /\ Earlier(x, todo[u][k + 1])
      BY <1>3
    <3>2. todo[u][k + 1].i \in DOMAIN fills /\ todo[u][k + 1].ts \in {0, Sec(todo[u][k + 1].i)}
      BY <1>0, <3>1 DEF FollowerInv, TodoInv
    <3> QED
      BY <1>3, <1>6, <3>1, <3>2 DEF Earlier
  <2>2. ASSUME NEW k \in DOMAIN todo'[u], NEW l \in DOMAIN todo'[u], k < l
        PROVE  Earlier(todo'[u][k], todo'[u][l])
    <3>1. k + 1 \in DOMAIN todo[u] /\ l + 1 \in DOMAIN todo[u] /\ k + 1 < l + 1
      BY <1>3, <2>2
    <3> QED
      BY <1>0, <1>3, <3>1 DEF FollowerInv, TodoInv
  <2> QED
    BY <1>1, <1>3, <1>4, <2>1, <2>2 DEF TodoInv, Sec
<1>11. SeenInv(u)'
  <2>1. CASE seen'[u] = seen[u]
    <3>1. \A k \in DOMAIN seen[u] : seen[u][k] \in DOMAIN fills /\ Sec(seen[u][k]) <= x.ts
      BY <1>0, <1>3, <1>4, <1>7 DEF FollowerInv, SeenInv
    <3> QED
      BY <1>0, <1>1, <2>1, <3>1, SMTT(30) DEF FollowerInv, SeenInv, Sec
  <2>2. CASE InOrder(seen'[u], x.ts)
    BY <1>1, <2>2 DEF SeenInv, InOrder, Sec
  <2> QED
    BY <1>8, <2>1, <2>2
<1>12. HandledInv(u)'
  <2>1. ASSUME NEW i \in Fill, handled'[u][i] > 0
        PROVE  /\ handled'[u][i] = 1 /\ i \in DOMAIN fills /\ Sec(i) <= x.ts
               /\ x.ts = Sec(i) /\ Tx(i) # Unset => Tx(i) \in ToSet(seen'[u])
               /\ \A k \in DOMAIN todo'[u] :
                     todo'[u][k].i = i /\ todo'[u][k].ts >= base[u] /\ Tx(i) = Unset => todo'[u][k].ts = base[u]
    <3>1. CASE i = x.i
      <4>1. handled'[u][i] = 1 /\ Sec(i) = x.ts /\ i \in DOMAIN fills
        BY <1>1, <1>3, <1>4, <3>1
      <4>2. Tx(i) # Unset => Tx(i) \in ToSet(seen'[u])
        BY <1>8, <3>1
      <4>3. ASSUME NEW k \in DOMAIN todo'[u], todo'[u][k].i = i PROVE FALSE
        <5>1. todo'[u][k] = todo[u][k + 1] /\ k + 1 \in DOMAIN todo[u] /\ Earlier(x, todo[u][k + 1])
          BY <1>3
        <5>2. todo[u][k + 1].ts \in {0, Sec(i)} /\ todo[u][k + 1].ts \in Nat
          BY <1>0, <1>6, <4>3, <5>1 DEF FollowerInv, TodoInv
        <5>3. x.i \in Nat /\ todo[u][k + 1].i = x.i
          BY <1>3, <3>1, <4>3, <5>1 DEF Fill
        <5> QED
          BY <1>3, <4>1, <5>1, <5>2, <5>3 DEF Earlier
      <4> QED
        BY <1>3, <4>1, <4>2, <4>3
    <3>2. CASE i # x.i
      <4>1. handled[u][i] > 0 /\ handled'[u][i] = handled[u][i]
        BY <1>1, <2>1, <3>2
      <4>2. /\ handled[u][i] = 1 /\ i \in DOMAIN fills /\ Sec(i) <= cursors[u]
            /\ cursors[u] = Sec(i) => InSeen(u, i)
            /\ \A k \in DOMAIN todo[u] :
                  todo[u][k].i = i /\ todo[u][k].ts >= base[u] /\ Tx(i) = Unset => todo[u][k].ts = base[u]
        BY <1>0, <1>5, <4>1 DEF FollowerInv, HandledInv
      <4>3. Sec(i) <= x.ts
        BY <1>3, <1>4, <1>7, <4>2
      <4>4. ASSUME x.ts = Sec(i), Tx(i) # Unset PROVE Tx(i) \in ToSet(seen'[u])
        <5>1. cursors[u] = Sec(i)
          BY <1>3, <1>4, <1>7, <4>2, <4>4
        <5>2. Tx(i) \in ToSet(seen[u]) /\ Sec(Tx(i)) = x.ts
          BY <1>0, <4>2, <4>4, <5>1 DEF InSeen, LogInv, LogFill
        <5> QED
          BY <1>8, <5>2
      <4> QED
        BY <1>3, <4>1, <4>2, <4>3, <4>4
    <3> QED
      BY <3>1, <3>2
  <2> QED
    BY <1>1, <1>2, <1>5, <2>1 DEF HandledInv, InSeen
<1>13. MissedInv(u)'
  <2>1. ASSUME NEW i \in missed[u] PROVE i \in DOMAIN fills /\ Sec(i) < x.ts
    <3>1. i \in DOMAIN fills /\ Sec(i) < cursors[u]
      BY <1>0, <1>5 DEF FollowerInv, MissedInv
    <3> QED
      BY <1>3, <1>4, <1>7, <3>1
  <2> QED
    BY <1>0, <1>1, <1>5, <2>1 DEF FollowerInv, MissedInv, Sec
<1>14. ASSUME source = "chain" PROVE ScanInv(u)'
  <2>1. ScanInv(u)
    BY <1>14 DEF DetectionInv, ChainInv
  <2>2. \A j \in Fill : handled[u][j] > 0 => handled'[u][j] > 0
    BY <1>1, <1>4
  <2>3. \A tx : HandledOne(u, tx) => HandledOne(u, tx)'
    BY <1>1, <1>2, <1>7, <2>2 DEF HandledOne
  <2>4. \A tx : tx = Tx(x.i) => HandledOne(u, tx)'
    BY <1>1, <1>2, <1>3, <1>4 DEF HandledOne
  <2>5. Tx(x.i) # Unset
    BY <1>0, <1>3, <1>14 DEF LogInv, LogFill
  <2>6. \A tx \in ToSet(seen'[u]) : HandledOne(u, tx)'
    <3>1. ASSUME NEW tx \in ToSet(seen[u]) PROVE HandledOne(u, tx)
      BY <2>1 DEF ScanInv, ToSet
    <3>2. ToSet(seen'[u]) \subseteq ToSet(seen[u]) \cup {Tx(x.i)}
      BY <1>8
    <3> QED
      BY <2>3, <2>4, <3>1, <3>2
  <2>7. (\A k \in DOMAIN seen[u] : HandledOne(u, seen[u][k]))'
    BY <2>6 DEF ToSet
  <2>8. lastBlock # Unset /\ x.ts <= lastBlock
    BY <1>1, <1>3, <1>4, <2>1 DEF ScanInv
  <2>9. (\A k \in DOMAIN todo[u] : Sec(todo[u][k].i) <= lastBlock)'
    <3>1. \A k \in DOMAIN todo'[u] : Sec(todo'[u][k].i) <= lastBlock
      BY <1>1, <1>3, <2>1 DEF ScanInv
    <3> QED
      BY <1>1, <3>1 DEF Sec
  <2>10. ASSUME NEW i \in DOMAIN fills, HandledOne(u, Tx(i)) \/ ToApply(u, i)
         PROVE  HandledOne(u, Tx(i))' \/ ToApply(u, i)'
    <3>1. CASE HandledOne(u, Tx(i))
      BY <1>2, <2>3, <3>1
    <3>2. CASE ToApply(u, i)
      <4>1. PICK k \in DOMAIN todo[u] : todo[u][k] = [i |-> i, ts |-> Sec(i)] /\ base[u] <= Sec(i)
        BY <3>2 DEF ToApply
      <4>2. CASE k = 1
        BY <1>2, <1>3, <2>4, <4>1, <4>2
      <4>3. CASE k # 1
        <5>1. k - 1 \in DOMAIN todo'[u] /\ (k - 1) + 1 = k
          BY <1>3, <1>5, <4>1, <4>3
        <5>2. todo'[u][k - 1] = [i |-> i, ts |-> Sec(i)]
          BY <1>3, <4>1, <5>1
        <5> QED
          BY <1>1, <1>2, <4>1, <5>1, <5>2 DEF ToApply
      <4> QED
        BY <4>2, <4>3
    <3> QED
      BY <2>10, <3>1, <3>2
  <2>11. ASSUME NEW i \in DOMAIN fills \ (lost \cup overtaken[u]), begun[u] < Sec(i)', Sec(i)' <= lastBlock
         PROVE  HandledOne(u, Tx(i))' \/ ToApply(u, i)'
    <3>1. HandledOne(u, Tx(i)) \/ ToApply(u, i)
      BY <1>2, <1>5, <2>1, <2>8, <2>11 DEF ScanInv
    <3> QED
      BY <2>10, <3>1
  <2> QED
    BY <1>1, <2>1, <2>7, <2>8, <2>9, <2>11 DEF ScanInv
<1> QED
  BY <1>9, <1>10, <1>11, <1>12, <1>13, <1>14 DEF FollowerInv

\* A follower's task keeps the invariant.
LEMMA ApplyStep ==
    ASSUME DetectionInv, DetectionTypeOK', NEW u \in Followers, Apply(u)
    PROVE  DetectionInv'
<1>1. /\ UNCHANGED <<source, clock, fills>> /\ tick'.at = tick.at /\ tick'.pending = tick.pending
      /\ todo[u] # <<>> /\ tick.pc = "apply"
      /\ tick'.pc = IF \A v \in Followers : todo'[v] = <<>> THEN "idle" ELSE tick.pc
      /\ \A v \in Followers \ {u} : cursors'[v] = cursors[v]
  BY ApplyMoves
<1>2. LogInv'
  BY <1>1, LogQuiet DEF DetectionInv
<1>3. \A v \in Followers : FollowerInv(v)' /\ (source = "chain" => ScanInv(v)')
  BY OtherFollower, SkippedFill, HandledFill
<1>4. TickInv'
  <2>1. \A v \in Followers : todo'[v] # <<>> => tick'.pc = "apply"
    BY <1>1
  <2>2. cursors[u] \in Nat /\ Unset \notin Nat /\ cursors'[u] \in {cursors[u], Head(todo[u]).ts}
        /\ Head(todo[u]).ts \in Nat
    BY <1>1, HeadFacts, ApplyMoves, DetectionAssumption
  <2>3. \A v \in tick.pending : cursors'[v] # Unset
    <3>1. tick.pending \subseteq Followers /\ \A v \in tick.pending : cursors[v] # Unset
      BY <1>1 DEF DetectionInv, TickInv, DetectionTypeOK
    <3> QED
      BY <1>1, <2>2, <3>1
  <2> QED
    BY <1>1, <2>1, <2>3 DEF DetectionInv, TickInv
<1> QED
  BY <1>1, <1>2, <1>3, <1>4 DEF DetectionInv, ChainInv

-----------------------------------------------------------------------------
(* The theorems.                                                           *)

\* Every step keeps the invariant.
LEMMA DetectionNextInv == DetectionInv /\ [DetectionNext]_detectionVars => DetectionInv'
<1> SUFFICES ASSUME DetectionInv, [DetectionNext]_detectionVars PROVE DetectionInv'
  OBVIOUS
<1>0. DetectionTypeOK' /\ clock \in Nat
  BY DetectionTypeStep, ValuesTyped DEF DetectionInv
<1>1. CASE Second
  BY <1>0, <1>1, QuietStep DEF Second, follow
<1>2. CASE LeaderFills
  BY <1>0, <1>2, LeaderFillsStep
<1>3. ASSUME NEW i \in Fill, Publish(i) PROVE DetectionInv'
  BY <1>0, <1>3, QuietStep DEF Publish, follow
<1>4. CASE EngineRestart
  BY <1>0, <1>4, EngineRestartStep
<1>5. ASSUME NEW u \in Followers, Follow(u) \/ Unfollow(u) PROVE DetectionInv'
  BY <1>0, <1>5, QuietStep DEF Follow, Unfollow
<1>6. CASE TickStart
  BY <1>0, <1>6, TickStartStep
<1>7. CASE FetchActivity \/ ScanChain \/ FetchFails
  BY <1>0, <1>7, FetchStep
<1>8. ASSUME NEW u \in Followers, Apply(u) PROVE DetectionInv'
  BY <1>0, <1>8, ApplyStep
<1>9. CASE UNCHANGED detectionVars
  BY <1>0, <1>9, QuietStep DEF detectionVars, follow
<1> QED
  BY <1>1, <1>2, <1>3, <1>4, <1>5, <1>6, <1>7, <1>8, <1>9 DEF DetectionNext

\* The cursor, its second and the memory are related in every reachable state.
THEOREM DetectionInvariant == DetectionSpec => []DetectionInv
<1> QED
  BY DetectionInitInv, DetectionNextInv, PTL DEF DetectionSpec

\* The state of the detection keeps its types (copy_engine.py _detect_tick).
THEOREM DetectionTypes == DetectionSpec => []DetectionTypeOK
<1>1. DetectionInv => DetectionTypeOK
  BY DEF DetectionInv
<1> QED
  BY <1>1, DetectionInvariant, PTL

\* No follower's task handles a fill twice, whatever the order in which fills
\* are published, scanned, unfollowed or lost to a restart.
THEOREM HandledAtMostOnce == DetectionSpec => []HandledOnce
<1>1. DetectionInv => HandledOnce
  <2> SUFFICES ASSUME DetectionInv, NEW u \in Followers, NEW i \in Fill PROVE handled[u][i] <= 1
    BY DEF HandledOnce
  <2>1. handled[u][i] \in Nat /\ (handled[u][i] > 0 => handled[u][i] = 1)
    BY ValuesTyped DEF DetectionInv, FollowerInv, HandledInv
  <2> QED
    BY <2>1
<1> QED
  BY <1>1, DetectionInvariant, PTL

\* On chain, what one scan found reaches every follower it was made for.
THEOREM EveryFollowerServed == DetectionSpec => []ChainServesEveryFollower
<1>1. DetectionInv => ChainServesEveryFollower
  <2> SUFFICES ASSUME DetectionInv, Scanned, NEW u \in Following, NEW i \in DOMAIN fills \ lost
               PROVE  i \in overtaken[u] \/ Served(u, i)
    BY DEF ChainServesEveryFollower
  <2>1. ScanInv(u) /\ todo[u] = <<>> /\ lastBlock # Unset /\ cursors[u] # Unset
    BY DEF Scanned, Following, DetectionInv, ChainInv, TickInv
  <2>2. ~ ToApply(u, i)
    BY <2>1 DEF ToApply
  <2> QED
    BY <2>1, <2>2 DEF ScanInv, Served, HandledOne, Sec, Tx
<1> QED
  BY <1>1, DetectionInvariant, PTL

\* What a step handles is the head of a task, and it is not skipped.
LEMMA HandlesHead ==
    ASSUME DetectionInv, [DetectionNext]_detectionVars, NEW u \in Followers, NEW i \in Fill,
           handled'[u][i] # handled[u][i]
    PROVE  /\ todo[u] # <<>> /\ i = Head(todo[u]).i /\ Head(todo[u]).ts = Sec(i)
           /\ base[u] <= Sec(i) /\ Sec(i) \in Nat /\ base[u] \in Nat
<1>1. \/ handled' = handled
      \/ \E v \in Followers : Apply(v)
  BY DEF DetectionNext, Second, LeaderFills, Publish, EngineRestart, Follow, Unfollow, TickStart,
         FetchActivity, ScanChain, FetchFails, Fan, detectionVars
<1>2. PICK v \in Followers : Apply(v)
  BY <1>1
<1>3. v = u
  BY <1>2, ApplyMoves
<1>4. todo[u] # <<>> /\ ~ Skipped(u, Head(todo[u])) /\ i = Head(todo[u]).i
  BY <1>2, <1>3, ApplyMoves
<1> QED
  BY <1>4, NewFill, HeadFacts

\* A fill missed while the user did not follow is never copied later.
THEOREM NeverRetroactive == DetectionSpec => NoRetroCopy
<1> DEFINE Fresh == \A u \in Followers, i \in Fill : handled'[u][i] # handled[u][i] => i \notin missed[u]
<1>1. DetectionInv /\ [DetectionNext]_detectionVars => [Fresh]_detectionVars
  <2> SUFFICES ASSUME DetectionInv, [DetectionNext]_detectionVars, NEW u \in Followers, NEW i \in Fill,
                      handled'[u][i] # handled[u][i], i \in missed[u]
               PROVE  FALSE
    OBVIOUS
  <2>1. todo[u] # <<>> /\ base[u] <= Sec(i) /\ Sec(i) \in Nat /\ base[u] \in Nat
    BY HandlesHead
  <2>2. Sec(i) < base[u]
    BY <2>1 DEF DetectionInv, FollowerInv, MissedInv
  <2> QED
    BY <2>1, <2>2
<1>2. NoRetroCopy <=> [][Fresh]_detectionVars
  BY PTL DEF NoRetroCopy
<1> HIDE DEF Fresh
<1> QED
  BY <1>1, <1>2, DetectionInvariant, PTL DEF DetectionSpec

\* A handled fill carries the second it happened in.
THEOREM TrueAge == DetectionSpec => AgeIsTrue
<1> DEFINE Dated == \A u \in Followers, i \in Fill : handled'[u][i] # handled[u][i] =>
                      Head(todo[u]).ts = fills[i].sec
<1>1. DetectionInv /\ [DetectionNext]_detectionVars => [Dated]_detectionVars
  BY HandlesHead DEF Sec
<1>2. AgeIsTrue <=> [][Dated]_detectionVars
  BY PTL DEF AgeIsTrue
<1> HIDE DEF Dated
<1> QED
  BY <1>1, <1>2, DetectionInvariant, PTL DEF DetectionSpec
=============================================================================
