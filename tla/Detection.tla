------------------------------ MODULE Detection ------------------------------
(***************************************************************************)
(* The fast path's detection: _detect_tick and the two detectors for one   *)
(* leader.  The leader's fills are a log; a tick fetches new ones once and *)
(* fans them out to every follower, whose task applies them in order.      *)
(* Fills reach the activity indexer late and in any order; on chain they   *)
(* are visible at once, but a block's time may be unreadable.              *)
(***************************************************************************)
EXTENDS Integers, Sequences, FiniteSets, FiniteSetsExt, SequencesExt

CONSTANTS
    Followers,  \* users who may follow the leader
    Unset,      \* no cursor, no transaction hash
    Limit,      \* ActivityPollDetector.limit: fills on one page
    Span,       \* max_block_span
    SeenMax,    \* transactions remembered per follow, 2000
    SeenDrop,   \* how many of the oldest are forgotten at once, 1000
    PerSecond,  \* assumption: the leader's fills within one second
    MaxFills,   \* bound: fills in the log
    MaxTime     \* bound: seconds

ASSUME DetectionAssumption ==
    /\ Unset \notin Nat
    /\ {Limit, Span, SeenMax, PerSecond, MaxFills} \subseteq Nat
    /\ MaxTime \in Nat \ {0}
    /\ SeenDrop \in 1..SeenMax
    /\ PerSecond <= SeenMax + 1 - SeenDrop

VARIABLES
    source,     \* the detector of this deployment
    clock,      \* now, in seconds; a second is one block
    fills,      \* the leader's fills, in time order: [sec, tx]
    published,  \* indices of the fills the activity indexer shows
    follows,    \* users with is_active = 1
    cursors, seen,  \* CopyEngine._cursors and _seen, by user
    lastBlock,  \* OnChainDetector._last_block
    tick,       \* the running tick: [pc, at, pending]
    todo,       \* [Followers -> fills the user's task has still to apply]
    base,       \* [Followers -> the cursor the task started from]
    handled,    \* history: [Followers -> how often each fill was handled]
    missed,     \* history: fills of seconds before a tick that saw no follow
    lost,       \* history: fills on chain before the first scan, beyond the span
                \* or without a readable time
    begun,      \* history: [Followers -> the first value of the cursor]
    overtaken   \* history: [Followers -> fills that were scanned, for others, by
                \* the tick that had just set the cursor]

follow == <<follows, cursors, seen>>
detectionVars == <<source, clock, fills, published, follow, lastBlock, tick, todo, base, handled, missed, lost, begun, overtaken>>

Fill == 1..MaxFills
Txs == Fill \cup {Unset}
NoTick == [pc |-> "idle", at |-> 0, pending |-> {}]
NothingTodo == [u \in Followers |-> <<>>]

DetectionTypeOK ==
    /\ source \in {"activity", "chain"} /\ clock \in 1..MaxTime
    /\ fills \in Seq([sec: 1..MaxTime, tx: Txs]) /\ Len(fills) <= MaxFills
    /\ published \subseteq DOMAIN fills /\ follows \subseteq Followers
    /\ cursors \in [Followers -> 0..MaxTime \cup {Unset}]
    /\ seen \in [Followers -> Seq(Fill)] /\ \A u \in Followers : Len(seen[u]) <= SeenMax
    /\ lastBlock \in 0..MaxTime \cup {Unset}
    /\ tick \in [pc: {"idle", "fetch", "apply"}, at: 0..MaxTime, pending: SUBSET Followers]
    /\ todo \in [Followers -> Seq([i: Fill, ts: 0..MaxTime])]
    /\ base \in [Followers -> 0..MaxTime]
    /\ handled \in [Followers -> [Fill -> Nat]]
    /\ missed \in [Followers -> SUBSET Fill] /\ lost \subseteq Fill
    /\ begun \in [Followers -> 0..MaxTime] /\ overtaken \in [Followers -> SUBSET Fill]

DetectionInit ==
    /\ source \in {"activity", "chain"} /\ clock = 1
    /\ fills = <<>> /\ published = {} /\ follows = {}
    /\ cursors = [u \in Followers |-> Unset] /\ seen = [u \in Followers |-> <<>>]
    /\ lastBlock = Unset /\ tick = NoTick /\ todo = NothingTodo
    /\ base = [u \in Followers |-> 0]
    /\ handled = [u \in Followers |-> [i \in Fill |-> 0]]
    /\ missed = [u \in Followers |-> {}] /\ lost = {}
    /\ begun = [u \in Followers |-> 0] /\ overtaken = [u \in Followers |-> {}]

-----------------------------------------------------------------------------
Second ==
    /\ clock < MaxTime /\ clock' = clock + 1
    /\ UNCHANGED <<source, fills, published, follow, lastBlock, tick, todo, base, handled, missed, lost, begun, overtaken>>

\* A fill in a transaction of its own, in the transaction of the fill before it,
\* or without a hash (the activity api may not give one).
Now == {i \in DOMAIN fills : fills[i].sec = clock}
LeaderFills ==
    /\ Len(fills) < MaxFills /\ Cardinality(Now) < PerSecond
    /\ \E tx \in {Len(fills) + 1} \cup {fills[i].tx : i \in Now}
                 \cup (IF source = "activity" THEN {Unset} ELSE {}) :
          fills' = Append(fills, [sec |-> clock, tx |-> tx])
    /\ UNCHANGED <<source, clock, published, follow, lastBlock, tick, todo, base, handled, missed, lost, begun, overtaken>>

Publish(i) ==
    /\ source = "activity" /\ i \in DOMAIN fills \ published
    /\ published' = published \cup {i}
    /\ UNCHANGED <<source, clock, fills, follow, lastBlock, tick, todo, base, handled, missed, lost, begun, overtaken>>

Follow(u) ==
    /\ u \notin follows /\ follows' = follows \cup {u}
    /\ UNCHANGED <<source, clock, fills, published, cursors, seen, lastBlock, tick, todo, base, handled, missed, lost, begun, overtaken>>
Unfollow(u) ==
    /\ u \in follows /\ follows' = follows \ {u}
    /\ UNCHANGED <<source, clock, fills, published, cursors, seen, lastBlock, tick, todo, base, handled, missed, lost, begun, overtaken>>

\* A restart loses everything the process holds and takes more than a second.
EngineRestart ==
    /\ lastBlock' = Unset
    /\ cursors' = [u \in Followers |-> Unset] /\ seen' = [u \in Followers |-> <<>>]
    /\ tick' = [NoTick EXCEPT !.at = clock] /\ todo' = NothingTodo
    /\ UNCHANGED <<source, clock, fills, published, follows, base, handled, missed, lost, begun, overtaken>>

-----------------------------------------------------------------------------
\* Mutant: an unfollowed pair keeps its cursor.
CursorKept(u) == IF cursors[u] = Unset /\ u \in follows THEN clock ELSE cursors[u]
\* First sight starts now; an unfollowed pair is forgotten.
NextCursor(u) ==
    IF u \notin follows THEN Unset ELSE IF cursors[u] = Unset THEN clock ELSE cursors[u]

TickStart ==
    /\ tick.pc = "idle" /\ clock > tick.at
    /\ cursors' = [u \in Followers |-> NextCursor(u)]
    /\ begun' = [u \in Followers |-> IF u \in follows /\ cursors[u] = Unset THEN clock ELSE begun[u]]
    /\ seen' = [u \in Followers |-> IF u \in follows THEN seen[u] ELSE <<>>]
    /\ LET pending == {u \in follows : cursors[u] # Unset} IN
       tick' = [pc |-> IF pending = {} THEN "idle" ELSE "fetch", at |-> clock, pending |-> pending]
    /\ missed' = [u \in Followers |-> IF u \in follows THEN missed[u]
                                      ELSE {i \in DOMAIN fills : fills[i].sec < clock}]
    /\ UNCHANGED <<source, clock, fills, published, follows, lastBlock, todo, base, handled, lost, overtaken>>

Earlier(x, y) == x.ts < y.ts \/ (x.ts = y.ts /\ x.i < y.i)
ByTime(found) ==
    CHOOSE s \in [1..Cardinality(found) -> found] : \A k, l \in DOMAIN s : k < l => Earlier(s[k], s[l])

\* Mutant: the result goes to the follower who asked first.
FirstOnly(pending) == {CHOOSE u \in pending : TRUE}
Receivers(pending) == pending

\* Every pending follower gets the one result of the tick.
Fan(found) ==
    /\ todo' = [u \in Followers |-> IF u \in Receivers(tick.pending) THEN ByTime(found) ELSE <<>>]
    /\ base' = [u \in Followers |-> IF u \in tick.pending THEN cursors[u] ELSE base[u]]
    /\ tick' = [tick EXCEPT !.pc = IF found = {} THEN "idle" ELSE "apply"]
    /\ UNCHANGED <<source, clock, fills, published, follow, handled, missed, begun>>

\* The newest page of /activity, from the oldest cursor on.
FetchActivity ==
    LET since == Min({cursors[u] : u \in tick.pending})
        page == {i \in published : Cardinality({j \in published : j > i}) < Limit}
    IN /\ tick.pc = "fetch" /\ source = "activity"
       /\ Fan({[i |-> i, ts |-> fills[i].sec] : i \in {k \in page : fills[k].sec >= since}})
       /\ UNCHANGED <<lastBlock, lost, overtaken>>

\* Mutant: a fill without a readable block time is dated now.
TimeOrNow(i, unreadable) == IF i \in unreadable THEN clock ELSE fills[i].sec
TimeOrZero(i, unreadable) == IF i \in unreadable THEN 0 ELSE fills[i].sec

\* The blocks since the last scan, at most Span + 1 of them; the block of the
\* running second is not mined yet.
ScanChain ==
    LET latest == clock - 1
        mined == {i \in DOMAIN fills : fills[i].sec <= latest}
        new == {i \in mined : fills[i].sec > lastBlock}
        scanned == {i \in new : fills[i].sec >= latest - Span}
    IN /\ tick.pc = "fetch" /\ source = "chain"
       /\ lastBlock' = latest
       /\ IF lastBlock = Unset THEN Fan({}) /\ lost' = lost \cup mined /\ UNCHANGED overtaken
          ELSE \E unreadable \in SUBSET scanned :
                 /\ Fan({[i |-> i, ts |-> TimeOrZero(i, unreadable)] : i \in scanned})
                 /\ lost' = lost \cup unreadable \cup (new \ scanned)
                 /\ overtaken' = [u \in Followers |-> IF cursors[u] # Unset /\ u \notin tick.pending
                                                 THEN overtaken[u] \cup new ELSE overtaken[u]]

FetchFails ==
    /\ tick.pc = "fetch" /\ Fan({}) /\ UNCHANGED <<lastBlock, lost, overtaken>>

-----------------------------------------------------------------------------
\* Mutant: nothing is forgotten.
Keep(s) == s
Forget(s) == IF Len(s) > SeenMax THEN SubSeq(s, SeenDrop + 1, Len(s)) ELSE s

\* Mutant: a repeat in the cursor's second counts as new without a hash.
SkippedBefore(u, x) == x.ts < base[u] \/ (fills[x.i].tx # Unset /\ fills[x.i].tx \in ToSet(seen[u]))
\* Before the cursor, in its second without a hash, or seen: skipped.
Skipped(u, x) ==
    LET tx == fills[x.i].tx IN
    \/ x.ts < base[u]
    \/ x.ts = base[u] /\ tx = Unset
    \/ tx # Unset /\ tx \in ToSet(seen[u])

\* One round of _apply_leader_trades.  Whether _handle_leader_trade copies the
\* trade, drops it or raises, the fill is seen.
Apply(u) ==
    /\ tick.pc = "apply" /\ todo[u] # <<>>
    /\ LET x == Head(todo[u])
           tx == fills[x.i].tx
       IN IF Skipped(u, x) THEN UNCHANGED <<handled, seen, cursors>>
          ELSE /\ handled' = [handled EXCEPT ![u][x.i] = @ + 1]
               /\ seen' = IF tx = Unset THEN seen ELSE [seen EXCEPT ![u] = Forget(Append(@, tx))]
               /\ cursors' = [cursors EXCEPT ![u] = Max({@, x.ts})]
    /\ todo' = [todo EXCEPT ![u] = Tail(@)]
    /\ tick' = [tick EXCEPT !.pc = IF \A v \in Followers : todo'[v] = <<>> THEN "idle" ELSE @]
    /\ UNCHANGED <<source, clock, fills, published, follows, lastBlock, base, missed, lost, begun, overtaken>>

DetectionNext ==
    \/ Second \/ LeaderFills \/ (\E i \in Fill : Publish(i)) \/ EngineRestart
    \/ \E u \in Followers : Follow(u) \/ Unfollow(u) \/ Apply(u)
    \/ TickStart \/ FetchActivity \/ ScanChain \/ FetchFails

DetectionSpec == DetectionInit /\ [][DetectionNext]_detectionVars

-----------------------------------------------------------------------------
(* No fill is handled twice for a follower: a repeated proportional SELL     *)
(* sells twice.  The cursor, its shared second and the bounded set of seen   *)
(* transactions do it together, across pages, late publication, failed       *)
(* fetches, unfollowing and restarts (_apply_leader_trades).                 *)
HandledOnce == \A u \in Followers, i \in Fill : handled[u][i] <= 1

(* A fill of the time a tick saw the user not following is never copied      *)
(* later, whatever the follow does next: following again starts now          *)
(* (_detect_tick).                                                           *)
NoRetroCopy ==
    [][\A u \in Followers, i \in Fill : handled'[u][i] # handled[u][i] => i \notin missed[u]]_detectionVars

(* Whatever is handled carries the second it happened in, so that the age    *)
(* gate sees its true age: a scan that catches up, or a block whose time     *)
(* cannot be read, never makes an old fill look new (OnChainDetector._scan). *)
AgeIsTrue ==
    [][\A u \in Followers, i \in Fill : handled'[u][i] # handled[u][i] =>
          Head(todo[u]).ts = fills[i].sec]_detectionVars

(* The on-chain cursor is the leader's, not the follower's: between ticks    *)
(* each follower has handled every scanned fill later than its first cursor, *)
(* unless it was lost to all of them, or consumed by the tick that set that  *)
(* cursor, or a fill of the same transaction stands for it (_detect_tick on  *)
(* one call per trader).                                                     *)
Served(u, i) ==
    (begun[u] < fills[i].sec /\ fills[i].sec <= lastBlock) =>
       \E j \in DOMAIN fills : fills[j].tx = fills[i].tx /\ handled[u][j] > 0
Scanned == source = "chain" /\ tick.pc = "idle" /\ lastBlock # Unset
Following == {u \in Followers : cursors[u] # Unset}
ChainServesEveryFollower ==
    Scanned => \A u \in Following, i \in DOMAIN fills \ lost : i \in overtaken[u] \/ Served(u, i)
=============================================================================
