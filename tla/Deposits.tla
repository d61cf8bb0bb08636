------------------------------- MODULE Deposits -------------------------------
(***************************************************************************)
(* The deposit watch: DepositWatcher.run_pass reads finalized blocks in    *)
(* chunks, records each deposit once and announces it through the Telegram *)
(* queue (TelegramPositionNotifier).  Passes of two processes may overlap, *)
(* as they do during a deploy; a pass may stop at any read that fails.     *)
(***************************************************************************)
EXTENDS Integers, Sequences, FiniteSets, FiniteSetsExt, SequencesExt

CONSTANTS
    Wallets,    \* users' wallets
    Passes,     \* processes that run passes
    NotStarted, \* the scan has not started
    Chunk,      \* CHUNK_BLOCKS
    Catchup,    \* MAX_CATCHUP_BLOCKS
    QueueMax,   \* TelegramPositionNotifier.QUEUE_MAX
    MaxBlocks   \* bound: finalized blocks

ASSUME DepositsAssumption ==
    /\ {QueueMax, MaxBlocks} \subseteq Nat /\ {Chunk, Catchup} \subseteq Nat \ {0}
    /\ NotStarted \notin Nat /\ IsFiniteSet(Wallets)

VARIABLES
    chain,      \* finalized blocks: the wallets each one pays
    joined,     \* wallets with a row in users
    cursor,     \* chain_cursors.last_block
    recorded,   \* rows of deposits: [block, wallet]
    run,        \* [Passes -> the pass]
    queue,      \* alerts not sent yet
    sent,       \* alerts Telegram accepted, in order
    due,        \* history: deposits mined while their wallet had a row
    origin,     \* history: the first cursor
    skipped     \* history: blocks left unread

depositsVars == <<chain, joined, cursor, recorded, run, queue, sent, due, origin, skipped>>

Blocks == 1..MaxBlocks
Deposits == [block: Blocks, wallet: Wallets]
NoPass == [pc |-> "idle", head |-> 0, start |-> 0, wallets |-> {}, found |-> <<>>]
PassPcs == {"idle", "cursor", "wallets", "scan", "record"}

DepositsTypeOK ==
    /\ chain \in Seq(SUBSET Wallets) /\ Len(chain) <= MaxBlocks
    /\ joined \subseteq Wallets
    /\ cursor \in 0..MaxBlocks \cup {NotStarted}
    /\ recorded \subseteq Deposits /\ due \subseteq Deposits
    /\ run \in [Passes -> [pc: PassPcs, head: 0..MaxBlocks, start: 0..MaxBlocks + 1,
                           wallets: SUBSET Wallets, found: Seq(Deposits)]]
    /\ queue \in Seq(Deposits) /\ Len(queue) <= QueueMax
    /\ sent \in Seq(Deposits)
    /\ origin \in 0..MaxBlocks \cup {NotStarted} /\ skipped \subseteq Blocks

DepositsInit ==
    /\ chain = <<>> /\ joined = {} /\ cursor = NotStarted /\ recorded = {}
    /\ run = [p \in Passes |-> NoPass]
    /\ queue = <<>> /\ sent = <<>> /\ due = {} /\ origin = NotStarted /\ skipped = {}

Forward(c, b) == IF c < b THEN b ELSE c
Stops(p) == run' = [run EXCEPT ![p] = NoPass]

-----------------------------------------------------------------------------
Finalize(paid) ==
    /\ Len(chain) < MaxBlocks /\ chain' = Append(chain, paid)
    /\ due' = due \cup [block: {Len(chain) + 1}, wallet: paid \cap joined]
    /\ UNCHANGED <<joined, cursor, recorded, run, queue, sent, origin, skipped>>
Join(w) ==
    /\ w \notin joined /\ joined' = joined \cup {w}
    /\ UNCHANGED <<chain, cursor, recorded, run, queue, sent, due, origin, skipped>>

PassHead(p) ==
    /\ run[p].pc = "idle"
    /\ run' = [run EXCEPT ![p] = [NoPass EXCEPT !.pc = "cursor", !.head = Len(chain)]]
    /\ UNCHANGED <<chain, joined, cursor, recorded, queue, sent, due, origin, skipped>>

\* The first pass ever sets the start; INSERT ... ON CONFLICT DO NOTHING.
PassFirst(p) ==
    /\ run[p].pc = "cursor" /\ cursor = NotStarted
    /\ cursor' = run[p].head /\ origin' = run[p].head /\ Stops(p)
    /\ UNCHANGED <<chain, joined, recorded, queue, sent, due, skipped>>

\* More than Catchup blocks behind: the older ones are left unread.
PassCursor(p) ==
    LET head == run[p].head
        start == IF head - cursor > Catchup THEN head - Catchup + 1 ELSE cursor + 1
    IN /\ run[p].pc = "cursor" /\ cursor # NotStarted
       /\ run' = [run EXCEPT ![p].pc = "wallets", ![p].start = start]
       /\ skipped' = skipped \cup cursor + 1..start - 1
       /\ cursor' = Forward(cursor, start - 1)
       /\ UNCHANGED <<chain, joined, recorded, queue, sent, due, origin>>

PassWallets(p) ==
    /\ run[p].pc = "wallets"
    /\ run' = [run EXCEPT ![p].pc = "scan", ![p].wallets = joined]
    /\ UNCHANGED <<chain, joined, cursor, recorded, queue, sent, due, origin, skipped>>

End(p) == Min({run[p].head, run[p].start + Chunk - 1})

\* onramp_wraps over one chunk, in block order; receipts are all available or
\* the pass fails.
PassScan(p) ==
    LET found == {d \in Deposits : /\ run[p].start <= d.block /\ d.block <= End(p)
                                   /\ d.wallet \in chain[d.block] \cap run[p].wallets}
    IN /\ run[p].pc = "scan" /\ run[p].start <= run[p].head
       /\ \E order \in SetToSeqs(found) :
            /\ \A i, j \in DOMAIN order : i < j => order[i].block <= order[j].block
            /\ run' = [run EXCEPT ![p].pc = "record", ![p].found = order]
       /\ UNCHANGED <<chain, joined, cursor, recorded, queue, sent, due, origin, skipped>>

\* Mutant: a deposit recorded before is announced again.
AnnouncesAny(d) == TRUE
Announces(d) == d \notin recorded

\* INSERT ... ON CONFLICT DO NOTHING; a full queue drops the alert.
PassRecord(p) ==
    LET d == Head(run[p].found) IN
    /\ run[p].pc = "record" /\ run[p].found # <<>>
    /\ recorded' = recorded \cup {d}
    /\ queue' = IF Announces(d) /\ Len(queue) < QueueMax THEN Append(queue, d) ELSE queue
    /\ run' = [run EXCEPT ![p].found = Tail(@)]
    /\ UNCHANGED <<chain, joined, cursor, sent, due, origin, skipped>>

\* Mutants: a second process sets the cursor back; a chunk moves it to the head.
AdvanceBack(p) == End(p)
AdvanceToHead(p) == Forward(cursor, run[p].head)
Advance(p) == Forward(cursor, End(p))
PassAdvance(p) ==
    /\ run[p].pc = "record" /\ run[p].found = <<>>
    /\ cursor' = Advance(p)
    /\ run' = [run EXCEPT ![p].pc = "scan", ![p].start = End(p) + 1]
    /\ UNCHANGED <<chain, joined, recorded, queue, sent, due, origin, skipped>>

PassEnds(p) ==
    /\ run[p].pc = "scan" /\ run[p].start > run[p].head /\ Stops(p)
    /\ UNCHANGED <<chain, joined, cursor, recorded, queue, sent, due, origin, skipped>>

\* A read fails, the loop is stopped between chunks, or the process dies.
PassFails(p) ==
    /\ run[p].pc # "idle" /\ Stops(p)
    /\ UNCHANGED <<chain, joined, cursor, recorded, queue, sent, due, origin, skipped>>

-----------------------------------------------------------------------------
\* Only 429, which sends nothing, is tried again.
Deliver ==
    /\ queue # <<>> /\ sent' = Append(sent, Head(queue)) /\ queue' = Tail(queue)
    /\ UNCHANGED <<chain, joined, cursor, recorded, run, due, origin, skipped>>
\* Refused, unreachable, no chat, three times 429.
GiveUp ==
    /\ queue # <<>> /\ queue' = Tail(queue)
    /\ UNCHANGED <<chain, joined, cursor, recorded, run, sent, due, origin, skipped>>
ProcessRestart ==
    /\ queue' = <<>> /\ run' = [p \in Passes |-> NoPass]
    /\ UNCHANGED <<chain, joined, cursor, recorded, sent, due, origin, skipped>>

PassStep(p) ==
    \/ PassHead(p) \/ PassFirst(p) \/ PassCursor(p) \/ PassWallets(p) \/ PassScan(p)
    \/ PassRecord(p) \/ PassAdvance(p) \/ PassEnds(p) \/ PassFails(p)
DepositsNext ==
    \/ (\E paid \in SUBSET Wallets : Finalize(paid)) \/ (\E w \in Wallets : Join(w))
    \/ (\E p \in Passes : PassStep(p)) \/ Deliver \/ GiveUp \/ ProcessRestart

DepositsSpec == DepositsInit /\ [][DepositsNext]_depositsVars

-----------------------------------------------------------------------------
(* Every deposit up to the cursor that was finalized while its wallet had a  *)
(* row is recorded, except in blocks left unread: a user who joins during a  *)
(* pass, a pass that dies and a second process leave no gap (run_pass reads  *)
(* the wallets after the head and advances after the scan).                  *)
CursorCovers ==
    \A d \in due : (cursor # NotStarted /\ origin < d.block /\ d.block <= cursor /\ d.block \notin skipped)
                      => d \in recorded

(* A deposit is announced at most once, and only one that is recorded,       *)
(* whatever passes overlap or start over (_record, _drain).                  *)
AnnouncedOnce ==
    LET alerts == sent \o queue IN
    /\ ToSet(alerts) \subseteq recorded
    /\ \A i, j \in DOMAIN alerts : alerts[i] = alerts[j] => i = j

(* The cursor never moves back, so that no block is read without end         *)
(* (_advance).                                                               *)
CursorForward == [][cursor # NotStarted => cursor' # NotStarted /\ cursor' >= cursor]_depositsVars
=============================================================================
