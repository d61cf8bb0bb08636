------------------------------ MODULE KeyedLocks ------------------------------
(***************************************************************************)
(* KeyedLocks: a lock per key, made on first use and dropped once nobody   *)
(* holds or waits for it.  BUYs and settings of a user and orders of a     *)
(* token exclude each other through it.  A task gives up waiting when it   *)
(* is cancelled; asyncio.Lock itself is taken as a lock that any waiter    *)
(* may get next.                                                           *)
(***************************************************************************)
EXTENDS Naturals, FiniteSets

CONSTANTS
    Keys, Tasks,
    Locks,      \* asyncio.Lock objects; one is reused once nothing refers to it
    NoLock, Nobody

ASSUME LocksAssumption == IsFiniteSet(Tasks) /\ NoLock \notin Locks /\ Nobody \notin Tasks

VARIABLES
    entries,    \* _entries: [Keys -> the lock under the key, or NoLock]
    refs,       \* entry[1]: [Locks -> holders and waiters]
    holder,     \* [Locks -> the task inside, or Nobody]
    task        \* [Tasks -> the task: its key and the entry it took]

lockVars == <<entries, refs, holder, task>>

Away == [pc |-> "away", lock |-> NoLock]
LockTasks == [pc: {"waits", "inside"}, key: Keys, lock: Locks]

LocksTypeOK ==
    /\ entries \in [Keys -> Locks \cup {NoLock}]
    /\ refs \in [Locks -> Nat]
    /\ holder \in [Locks -> Tasks \cup {Nobody}]
    /\ task \in [Tasks -> LockTasks \cup {Away}]

Referrers(l) == {t \in Tasks : task[t].lock = l}
Unused(l) == Referrers(l) = {} /\ \A k \in Keys : entries[k] # l

LocksInit ==
    /\ entries = [k \in Keys |-> NoLock] /\ refs = [l \in Locks |-> 0]
    /\ holder = [l \in Locks |-> Nobody] /\ task = [t \in Tasks |-> Away]

\* hold(key): the entry there is, or a new one, with one more reference.
Hold(t, k) ==
    /\ task[t].pc = "away"
    /\ \E l \in Locks :
         /\ l = entries[k] \/ (entries[k] = NoLock /\ Unused(l))
         /\ entries' = [entries EXCEPT ![k] = l]
         /\ refs' = [refs EXCEPT ![l] = @ + 1]
         /\ task' = [task EXCEPT ![t] = [pc |-> "waits", key |-> k, lock |-> l]]
    /\ UNCHANGED holder

Enter(t) ==
    /\ task[t].pc = "waits" /\ holder[task[t].lock] = Nobody
    /\ holder' = [holder EXCEPT ![task[t].lock] = t]
    /\ task' = [task EXCEPT ![t].pc = "inside"]
    /\ UNCHANGED <<entries, refs>>

\* Mutants: the entry goes with the task that leaves it; or stays for ever.
DroppedAtOnce(k, l) == [entries EXCEPT ![k] = IF @ = l THEN NoLock ELSE @]
NeverDropped(k, l) == entries
\* The entry goes with its last reference, if the key still has it.
Dropped(k, l) == [entries EXCEPT ![k] = IF refs[l] = 1 /\ @ = l THEN NoLock ELSE @]
Unreferenced(t) ==
    LET l == task[t].lock IN
    /\ refs' = [refs EXCEPT ![l] = @ - 1]
    /\ entries' = Dropped(task[t].key, l)
    /\ task' = [task EXCEPT ![t] = Away]

\* The block ends or raises.
Leave(t) ==
    /\ task[t].pc = "inside" /\ Unreferenced(t)
    /\ holder' = [holder EXCEPT ![task[t].lock] = Nobody]
\* The task is cancelled while it waits.
Cancelled(t) == task[t].pc = "waits" /\ Unreferenced(t) /\ UNCHANGED holder

LocksNext ==
    \E t \in Tasks : (\E k \in Keys : Hold(t, k)) \/ Enter(t) \/ Leave(t) \/ Cancelled(t)

LocksSpec == LocksInit /\ [][LocksNext]_lockVars

-----------------------------------------------------------------------------
(* Two tasks are never inside the same key together, although its lock is  *)
(* dropped and made anew while tasks come, leave and are cancelled.        *)
KeyExclusive ==
    \A t, u \in Tasks :
       (t # u /\ task[t].pc = "inside" /\ task[u].pc = "inside") => task[t].key # task[u].key

(* A key has an entry exactly while somebody holds it or waits for it: the *)
(* table stays bounded by what is in flight ("dropped once nobody holds or *)
(* waits for them", locks.py:10).                                          *)
EntriesInUse ==
    \A k \in Keys : entries[k] # NoLock <=> \E t \in Tasks : task[t].pc # "away" /\ task[t].key = k
=============================================================================
