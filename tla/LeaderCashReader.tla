--------------------------- MODULE LeaderCashReader ---------------------------
(***************************************************************************)
(* LeaderCashReader for one leader: the free cash that capital-share       *)
(* sizing divides by.  A reading is shared, cached and remembered when it  *)
(* fails; a balance read before a bet still holds the money the bet spent. *)
(* A balance is named by the second it was true in.                        *)
(***************************************************************************)
EXTENDS Integers

CONSTANTS
    Calls,      \* calls of cash_usd
    NoCash,     \* no trade, no reading, no flight
    CashTtl,    \* LEADER_CASH_CACHE_SECONDS
    Settle,     \* SETTLE_SECONDS
    Memory,     \* FAILURE_MEMORY_SECONDS
    Lag,        \* assumption: how far behind the chain a node may answer
    CashTime    \* bound: seconds

ASSUME LeaderCashAssumption ==
    /\ {CashTtl, Settle, Memory, Lag, CashTime} \subseteq Nat /\ Lag <= Settle
    /\ NoCash \notin Nat \cup Calls

VARIABLES
    cashNow,
    cashCache,  \* _cache: [started, moment] of the last reading, or NoCash
    failed,     \* _failed: when the last read failed, or NoCash
    inflight,   \* _inflight: the call whose read may be shared, or NoCash
    reads,      \* [Calls -> when the read this call started began, or NoCash]
    call        \* [Calls -> the call: the trade it sizes, the read it awaits, what it got]

cashVars == <<cashNow, cashCache, failed, inflight, reads, call>>

CashTimes == 0..CashTime
Readings == [started: CashTimes, moment: CashTimes]
NotCalled == [pc |-> "idle", after |-> NoCash, read |-> NoCash, got |-> NoCash]

CashTypeOK ==
    /\ cashNow \in CashTimes /\ cashCache \in Readings \cup {NoCash} /\ failed \in CashTimes \cup {NoCash}
    /\ inflight \in Calls \cup {NoCash} /\ reads \in [Calls -> CashTimes \cup {NoCash}]
    /\ call \in [Calls -> [pc: {"idle", "waits", "done"}, after: CashTimes \cup {NoCash},
                           read: Calls \cup {NoCash}, got: Readings \cup {NoCash}]]
    /\ inflight # NoCash => reads[inflight] # NoCash

CashInit ==
    /\ cashNow = 0 /\ cashCache = NoCash /\ failed = NoCash /\ inflight = NoCash
    /\ reads = [c \in Calls |-> NoCash] /\ call = [c \in Calls |-> NotCalled]

CashSecond ==
    /\ cashNow < CashTime /\ cashNow' = cashNow + 1
    /\ UNCHANGED <<cashCache, failed, inflight, reads, call>>

\* Whether a reading begun at s may size a trade of second `after`.
DueBy(s, after) == after = NoCash \/ s >= after + Settle

\* Mutants: any fresh reading counts; any read under way is shared.
CachedAnyway(after) == cashCache # NoCash /\ cashNow - cashCache.started < CashTtl
CachedCash(after) ==
    cashCache # NoCash /\ cashNow - cashCache.started < CashTtl /\ DueBy(cashCache.started, after)
SharedAnyway(after) == inflight # NoCash
Shared(after) == inflight # NoCash /\ DueBy(reads[inflight], after)
Remembered == failed # NoCash /\ cashNow - failed < Memory

CashUsd(c, after) ==
    /\ call[c].pc = "idle"
    /\ IF CachedCash(after)
       THEN /\ call' = [call EXCEPT ![c] =
                     [pc |-> "done", after |-> after, read |-> NoCash, got |-> cashCache]]
            /\ UNCHANGED <<inflight, reads>>
       ELSE IF Remembered
       THEN call' = [call EXCEPT ![c].pc = "done"] /\ UNCHANGED <<inflight, reads>>
       ELSE /\ inflight' = IF Shared(after) THEN inflight ELSE c
            /\ reads' = IF Shared(after) THEN reads ELSE [reads EXCEPT ![c] = cashNow]
            /\ call' = [call EXCEPT ![c] =
                     [pc |-> "waits", after |-> after, read |-> inflight', got |-> NoCash]]
    /\ UNCHANGED <<cashNow, cashCache, failed>>

\* Mutant: the read stays the one under way.
NotPopped(c) == inflight
Popped(c) == IF inflight = c THEN NoCash ELSE inflight
\* _landed, and what everyone who waits for the read gets.
Landed(c, got) ==
    /\ reads[c] # NoCash /\ reads' = [reads EXCEPT ![c] = NoCash]
    /\ inflight' = Popped(c)
    /\ call' = [d \in Calls |-> IF call[d].pc = "waits" /\ call[d].read = c
                                THEN [call[d] EXCEPT !.pc = "done", !.got = got] ELSE call[d]]
    /\ UNCHANGED cashNow

ReadSucceeds(c) ==
    \E moment \in CashTimes :
      LET got == [started |-> reads[c], moment |-> moment] IN
      /\ reads[c] # NoCash /\ reads[c] - Lag <= moment /\ moment <= cashNow
      /\ Landed(c, got) /\ cashCache' = got /\ failed' = NoCash
ReadFails(c) == Landed(c, NoCash) /\ failed' = cashNow /\ UNCHANGED cashCache

CashNext ==
    \/ CashSecond
    \/ \E c \in Calls :
         \/ \E after \in 0..cashNow \cup {NoCash} : CashUsd(c, after)
         \/ ReadSucceeds(c) \/ ReadFails(c)

CashSpec == CashInit /\ [][CashNext]_cashVars

-----------------------------------------------------------------------------
(* A trade is sized from cash that no longer holds the bet: whatever reads   *)
(* overlap, land out of order or are shared, a balance from before the trade *)
(* is only ever used when the call itself read it, less than Settle after    *)
(* the trade (cash_usd's `due`).                                             *)
SizedAfterTheBet ==
    \A c \in Calls :
       (call[c].got # NoCash /\ call[c].after # NoCash /\ call[c].got.moment < call[c].after) =>
          call[c].read = c /\ call[c].got.started < call[c].after + Settle
=============================================================================
