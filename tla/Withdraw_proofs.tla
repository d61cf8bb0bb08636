---------------------------- MODULE Withdraw_proofs ----------------------------
(***************************************************************************)
(* Withdraw keeps its promise, for any number of users, keys and requests. *)
(*                                                                         *)
(* The argument: a row held by a request is moved by nobody else           *)
(* (TaskInv); one user has one open row, so a transfer found past its      *)
(* submit block is its own (MoneyInv); and a row past its cut-off has no   *)
(* batch left that could execute.  So every other move of a row is one of  *)
(* the few of Forward, and each of those keeps the promise.                *)
(***************************************************************************)
EXTENDS Withdraw, TLAPS

Submitted == {"submitting", "submitted"}
Left == {"bridging", "attention", "confirmed", "refunded"}

\* A request that holds its user's lock owns its row, which is where its step
\* in the code has left it.
Holds(q) ==
    LET k == task[q].key IN
    /\ task[q].pc # "idle" => k \in Keys
    /\ task[q].accepted => task[q].pc = "sending"
    /\ task[q].pc \in Locked => k \in busy /\ ~follow[k].on
    /\ task[q].pc \in {"reserved", "ready"} => row[k].status = "requested"
    /\ task[q].pc = "sending" =>
          /\ row[k].status = "submitting" /\ age[k] = "new"
          /\ ~task[q].accepted => pend[k] = 0 /\ moved[k] = 0
OneLock == \A p, q \in Taps : task[p].pc \in Locked /\ task[q].pc \in Locked
                                /\ Owner[task[p].key] = Owner[task[q].key] => p = q
TaskInv == (\A q \in Taps : Holds(q)) /\ OneLock

\* Follow tasks and the reconciler work on rows that exist, and the reconciler
\* on none that a request holds.
MoverInv ==
    /\ \A k \in Keys :
        /\ follow[k].on => row[k].status # "none"
        /\ follow[k].found # None => follow[k].on
        /\ rec.snap[k] \in InProgress \cup {"attention", "none"}
        /\ rec.snap[k] # "none" => row[k].status # "none"
        /\ rec.snap[k] = "attention" => row[k].status = "attention" \/ row[k].byHand
    /\ rec.key # None => rec.key \notin busy /\ rec.snap[rec.key] # "none"
    /\ rec.found # None => rec.key # None /\ rec.snap[rec.key] \in {"bridging", "attention"}

\* Money and rows agree; transfers since the submit block are the row's own.
Money(k) ==
    /\ pend[k] = 1 => row[k].status \in Submitted /\ moved[k] = 0
    /\ row[k].status \in {"none", "requested", "failed"} => moved[k] = 0
    /\ row[k].status \in Left => moved[k] = 1
    /\ row[k].status \in Submitted /\ age[k] = "old" => pend[k] = 0
    /\ row[k].status \in OPEN =>
          /\ <<"sent", k>> \notin since[k]
          /\ \A j \in Siblings(k) \ {k} : /\ row[j].status \notin OPEN
                                          /\ moved[j] = 1 => <<"sent", j>> \in since[k]
MoneyInv == \A k \in Keys : Money(k)

\* The inductive invariant.
IInv == TypeOK /\ TaskInv /\ MoverInv /\ MoneyInv /\ ConfirmedIsPaid

-----------------------------------------------------------------------------
\* Every initial state satisfies the inductive invariant.
LEMMA InitInv == Init => IInv
<1> SUFFICES ASSUME Init PROVE IInv
  OBVIOUS
<1> USE DEF Init
<1>1. TypeOK
  <2>1. NoRow \in Rows /\ Done \in Tasks /\ NoFollow \in Follows
    BY DEF Rows, NoRow, Tasks, Done, Follows, NoFollow, Statuses
  <2>2. NoPass \in Recs
    BY DEF Recs, NoPass, Statuses
  <2>3. 0 \in 0..MaxCrashes /\ 0 \in 0..1
    BY ConstantsAssumption
  <2> QED
    BY <2>1, <2>2, <2>3 DEF TypeOK
<1>2. TaskInv
  BY DEF TaskInv, Holds, OneLock, Done, Locked
<1>3. MoverInv
  BY DEF MoverInv, NoFollow, NoPass
<1>4. MoneyInv
  BY DEF MoneyInv, Money, NoRow, Submitted, Left, OPEN, HOLDING
<1>5. ConfirmedIsPaid
  BY DEF ConfirmedIsPaid, NoRow
<1> QED
  BY <1>1, <1>2, <1>3, <1>4, <1>5 DEF IInv

-----------------------------------------------------------------------------
(* Moves of a row.                                                         *)

\* What may happen to a row that no request holds, or no longer.
Forward(k) ==
    /\ row' \in [Keys -> Rows] /\ age' \in [Keys -> {"new", "old"}]
    /\ \A j \in Keys \ {k} : row'[j] = row[j] /\ age'[j] = age[j]
    /\ row[k].byHand => row'[k].byHand
    /\ row'[k].status = "confirmed" /\ ~row'[k].byHand
          => row'[k].delivery # None /\ paid[row'[k].delivery] = "full"
    /\ \/ row'[k].status = row[k].status /\ age'[k] = age[k]
       \/ row[k].status = "requested" /\ row'[k].status = "failed"
       \/ row[k].status = "submitting" /\ row'[k].status = "submitted" /\ age'[k] = age[k]
       \/ row[k].status \in Submitted /\ row'[k].status = "failed"
          /\ pend[k] = 0 /\ moved[k] = 0
       \/ row[k].status \in Submitted /\ row'[k].status = "bridging" /\ moved[k] = 1
       \/ row[k].status = "bridging" /\ row'[k].status \in {"attention", "confirmed"}
       \/ row[k].status = "attention" /\ row'[k].status \in {"confirmed", "refunded"}

\* A transfer found past the submit block of an open row is the row's own, and
\* when none is found there is none.
LEMMA FoundOwn ==
  ASSUME TypeOK, MoneyInv, NEW k \in Keys, row[k].status \in OPEN
  PROVE  Found(k) <=> moved[k] = 1
<1>1. k \in Siblings(k) /\ <<"sent", k>> \notin since[k]
  BY DEF MoneyInv, Money, Siblings
<1>2. ASSUME NEW j \in Siblings(k), moved[j] > 0, <<"sent", j>> \notin since[k]
      PROVE  j = k
  <2>1. j \in Keys /\ moved[j] = 1
    BY <1>2 DEF TypeOK, Siblings
  <2> QED
    BY <1>2, <2>1 DEF MoneyInv, Money
<1>3. moved[k] \in 0..1
  BY DEF TypeOK
<1>4. moved[k] = 1 => Found(k)
  BY <1>1 DEF Found
<1>5. Found(k) => moved[k] > 0
  BY <1>2 DEF Found
<1> QED
  BY <1>3, <1>4, <1>5

\* The compare-and-set changes one row, from one of the given states.
LEMMA MoveFacts ==
  ASSUME TypeOK, NEW k \in Keys, NEW from, NEW to \in Statuses, Move(k, from, to)
  PROVE  /\ row' \in [Keys -> Rows] /\ age' \in [Keys -> {"new", "old"}]
         /\ \A j \in Keys \ {k} : row'[j] = row[j] /\ age'[j] = age[j]
         /\ row'[k].delivery = row[k].delivery /\ row'[k].byHand = row[k].byHand
         /\ \/ row'[k].status = row[k].status /\ age'[k] = age[k]
            \/ row[k].status \in from /\ row'[k].status = to
BY DEF Move, TypeOK, Rows, table

\* _advance moves a row forward, and neither into nor out of attention's ends.
LEMMA AdvanceForward ==
  ASSUME IInv, NEW k \in Keys, NEW s \in InProgress \cup {"attention"}, Advance(k, s)
  PROVE  /\ Forward(k)
         /\ row[k].status = "attention" => row'[k].status = "attention"
<1> USE DEF IInv
<1>0. row[k].status = "confirmed" /\ ~row[k].byHand
        => row[k].delivery # None /\ paid[row[k].delivery] = "full"
  BY DEF ConfirmedIsPaid
<1>1. CASE s = "requested"
  <2>1. Move(k, {"requested"}, "failed")
    BY <1>1 DEF Advance, CheckRequest
  <2> QED
    BY <1>0, <2>1, MoveFacts DEF Forward, Statuses
<1>2. CASE s \in Submitted
  <2>1. CheckSend(k)
    BY <1>2 DEF Advance, Submitted
  <2>2. CASE Found(k) /\ Move(k, Submitted, "bridging")
    <3>1. row[k].status \in Submitted => moved[k] = 1
      BY <2>2, FoundOwn DEF Submitted, OPEN, HOLDING
    <3> QED
      BY <1>0, <2>2, <3>1, MoveFacts DEF Forward, Statuses, OPEN, HOLDING, Submitted
  <2>3. CASE Expired(k) /\ Move(k, Submitted, "failed")
    <3>1. row[k].status \in Submitted => moved[k] = 0
      BY <2>3, FoundOwn DEF Submitted, OPEN, HOLDING, Expired, TypeOK
    <3>2. row[k].status \in Submitted => pend[k] = 0
      BY <2>3 DEF Expired, MoneyInv, Money
    <3> QED
      BY <1>0, <2>3, <3>1, <3>2, MoveFacts DEF Forward, Statuses, Submitted
  <2> QED
    BY <2>1, <2>2, <2>3 DEF CheckSend, Submitted
<1>3. CASE s \in {"bridging", "attention"}
  <2>1. CheckBridge(k, s)
    BY <1>3 DEF Advance, Submitted
  <2>2. CASE Move(k, {"bridging"}, "attention")
    BY <1>0, <2>2, MoveFacts DEF Forward, Statuses, OPEN
  <2>3. CASE /\ row' = [row EXCEPT ![k].refused = TRUE,
                             ![k].status = IF @ = "bridging" THEN "attention" ELSE @]
             /\ age' = IF row[k].status = "bridging" THEN [age EXCEPT ![k] = "new"] ELSE age
    <3>1. row'[k] = [row[k] EXCEPT !.refused = TRUE,
                        !.status = IF row[k].status = "bridging" THEN "attention" ELSE @]
      BY <2>3 DEF TypeOK, Rows
    <3>2. row' = [row EXCEPT ![k] = row'[k]] /\ row'[k] \in Rows
      BY <2>3, <3>1 DEF TypeOK, Rows, Statuses, OPEN
    <3> QED
      BY <1>0, <2>3, <3>1, <3>2 DEF Forward, TypeOK, Rows
  <2> QED
    BY <2>1, <2>2, <2>3 DEF CheckBridge
<1> QED
  BY <1>1, <1>2, <1>3 DEF InProgress, HOLDING, Submitted

\* _settle_delivery moves such a row forward too: it confirms on a payment of
\* the minimum, and leaves a short one to the operator.
LEMMA SettleForward ==
  ASSUME IInv, NEW k \in Keys, NEW p \in Keys, NEW s \in {"bridging", "attention"},
         SettleDelivery(k, s, p),
         s = "attention" => row[k].status = "attention" \/ row[k].byHand
  PROVE  /\ Forward(k)
         /\ s = "bridging" /\ row[k].status = "attention" => row'[k].status = "attention"
<1> USE DEF IInv
<1>0. /\ row[k].status = "confirmed" /\ ~row[k].byHand
           => row[k].delivery # None /\ paid[row[k].delivery] = "full"
      /\ p # None
  BY ConstantsAssumption DEF ConfirmedIsPaid
<1>1. row[k] \in Rows /\ row \in [Keys -> Rows] /\ age \in [Keys -> {"new", "old"}]
  BY DEF TypeOK
<1>2. CASE UNCHANGED table
  BY <1>0, <1>1, <1>2 DEF Forward, table
<1>3. CASE /\ Enough(p) /\ row[k].status = s
           /\ row' = [row EXCEPT ![k].status = "confirmed", ![k].delivery = p]
           /\ age' = [age EXCEPT ![k] = "new"]
  BY <1>0, <1>1, <1>3 DEF Forward, Enough, Rows, Statuses
<1>4. CASE /\ s = "attention"
           /\ row' = [row EXCEPT ![k].delivery = p] /\ UNCHANGED age
  BY <1>0, <1>1, <1>4 DEF Forward, Rows
<1>5. CASE /\ row[k].status = "bridging"
           /\ row' = [row EXCEPT ![k].status = "attention", ![k].delivery = p]
           /\ age' = [age EXCEPT ![k] = "new"]
  BY <1>0, <1>1, <1>5 DEF Forward, Rows, Statuses, OPEN
<1> QED
  BY <1>2, <1>3, <1>4, <1>5 DEF SettleDelivery

\* A forward move of a row that no request holds, or no longer, keeps the rows,
\* the money and the requests in order, whatever becomes of the movers.
LEMMA ForwardInv ==
  ASSUME IInv, NEW k \in Keys, Forward(k),
         UNCHANGED <<pend, moved, since, paid>>,
         \A q \in Taps : /\ task'[q] \in {task[q], Done}
                         /\ task'[q].pc \in Locked => task[q].key # k,
         busy \ {k} \subseteq busy',
         \A j \in Keys \ {k} : follow'[j].on => follow[j].on
  PROVE  TaskInv' /\ MoneyInv' /\ ConfirmedIsPaid'
<1> USE DEF IInv
<1>1. TaskInv'
  <2>1. \A q \in Taps : task'[q].pc \in Locked => task'[q] = task[q]
    BY DEF Done, Locked
  <2>2. OneLock'
    BY <2>1 DEF TaskInv, OneLock
  <2>3. ASSUME NEW q \in Taps PROVE Holds(q)'
    <3>1. CASE task'[q] = Done
      BY <3>1 DEF Holds, Done, Locked
    <3>2. CASE task'[q] = task[q]
      <4>1. task[q].pc \in Locked => /\ task[q].key \in Keys \ {k}
                                     /\ row'[task[q].key] = row[task[q].key]
                                     /\ age'[task[q].key] = age[task[q].key]
        BY <3>2 DEF TaskInv, Holds, Forward, Locked
      <4> QED
        BY <3>2, <4>1 DEF TaskInv, Holds, Locked
    <3> QED
      BY <3>1, <3>2
  <2> QED
    BY <2>2, <2>3 DEF TaskInv
<1>2. MoneyInv'
  <2> SUFFICES ASSUME NEW j \in Keys PROVE Money(j)'
    BY DEF MoneyInv
  <2>1. \A i \in Keys : row'[i].status \in OPEN => row[i].status \in OPEN
    BY DEF Forward, OPEN, HOLDING, Submitted
  <2>2. CASE j # k
    <3>1. row'[j] = row[j] /\ age'[j] = age[j]
      BY <2>2 DEF Forward
    <3> QED
      BY <2>1, <3>1 DEF MoneyInv, Money, Siblings
  <2>3. CASE j = k
    <3>1. row'[j].status \in OPEN =>
             /\ <<"sent", j>> \notin since[j]
             /\ \A i \in Siblings(j) \ {j} : /\ row'[i].status \notin OPEN
                                             /\ moved[i] = 1 => <<"sent", i>> \in since[j]
      BY <2>1 DEF MoneyInv, Money, Siblings
    <3>2. /\ pend[j] = 1 => row'[j].status \in Submitted /\ moved[j] = 0
          /\ row'[j].status \in {"none", "requested", "failed"} => moved[j] = 0
          /\ row'[j].status \in Left => moved[j] = 1
          /\ row'[j].status \in Submitted /\ age'[j] = "old" => pend[j] = 0
      BY <2>3 DEF MoneyInv, Money, Forward, Left, Submitted, TypeOK
    <3> QED
      BY <3>1, <3>2 DEF Money, Siblings
  <2> QED
    BY <2>2, <2>3
<1>3. ConfirmedIsPaid'
  BY DEF ConfirmedIsPaid, Forward
<1> QED
  BY <1>1, <1>2, <1>3

\* So does it keep the movers in order, when the reconciler only drops rows
\* from its list, and the one at hand when attention ends without the operator.
LEMMA ForwardMovers ==
  ASSUME IInv, NEW k \in Keys, Forward(k),
         \A j \in Keys : /\ follow'[j].on => follow[j].on \/ row[j].status # "none"
                         /\ follow'[j].found # None => follow'[j].on
                         /\ rec'.snap[j] \in {rec.snap[j], "none"},
         rec' = rec \/ (rec'.key = None /\ rec'.found = None),
         busy' \subseteq busy,
         \/ row[k].status = "attention" => row'[k].status = "attention"
         \/ row'[k].byHand
         \/ rec'.snap[k] = "none"
  PROVE  MoverInv'
<1>1. \A j \in Keys : row[j].status # "none" => row'[j].status # "none"
  BY DEF Forward
<1>2. \A j \in Keys : rec'.snap[j] = "attention"
                         => row'[j].status = "attention" \/ row'[j].byHand
  BY DEF Forward, IInv, MoverInv
<1>3. /\ rec'.key # None => rec'.key \notin busy' /\ rec'.snap[rec'.key] # "none"
      /\ rec'.found # None
            => rec'.key # None /\ rec'.snap[rec'.key] \in {"bridging", "attention"}
  BY DEF IInv, MoverInv
<1> QED
  BY <1>1, <1>2, <1>3 DEF IInv, MoverInv

\* A forward move is a step of the promise, or none: the amount is released when
\* it never left, and its leaving is noticed when it did.
LEMMA ForwardPromise ==
  ASSUME IInv, NEW k \in Keys, Forward(k), UNCHANGED moved
  PROVE  [Promise!Next]_(Promise!vars)
<1> DEFINE phase == [j \in Keys |-> Phase(row[j].status)]
<1>1. phase' = [phase EXCEPT ![k] = Phase(row'[k].status)]
  BY DEF Forward
<1>2. CASE Phase(row'[k].status) = Phase(row[k].status)
  BY <1>1, <1>2 DEF Promise!vars
<1>3. CASE /\ row[k].status \in {"requested", "submitting", "submitted"}
           /\ row'[k].status = "failed" /\ moved[k] = 0
  <2>1. Promise!Release(k)
    BY <1>1, <1>3 DEF Promise!Release, Promise!Turn, Phase, HOLDING
  <2> QED
    BY <2>1 DEF Promise!Next
<1>4. CASE row[k].status \in Submitted /\ row'[k].status = "bridging" /\ moved[k] = 1
  <2>1. Promise!Notice(k)
    BY <1>1, <1>4 DEF Promise!Notice, Promise!Turn, Phase, HOLDING, Submitted
  <2> QED
    BY <2>1 DEF Promise!Next
<1>5. CASE row[k].status \in {"bridging", "attention"} /\ row'[k].status \in {"confirmed", "refunded"}
  <2>1. Promise!Close(k)
    BY <1>1, <1>5 DEF Promise!Close, Promise!Turn, Phase, HOLDING
  <2> QED
    BY <2>1 DEF Promise!Next
<1>6. row[k].status = "requested" => moved[k] = 0
  BY DEF IInv, MoneyInv, Money
<1> QED
  <2>1. CASE row[k].status = "submitting" /\ row'[k].status = "submitted"
    BY <1>2, <2>1 DEF Phase, HOLDING
  <2>2. CASE row[k].status = "bridging" /\ row'[k].status = "attention"
    BY <1>2, <2>2 DEF Phase, HOLDING
  <2> QED
    BY <1>2, <1>3, <1>4, <1>5, <1>6, <2>1, <2>2 DEF Forward, Submitted

-----------------------------------------------------------------------------
(* The steps.                                                              *)

\* Nothing moves and no request takes or keeps a lock it did not have.
LEMMA IdleStep ==
  ASSUME IInv, UNCHANGED table, UNCHANGED <<busy, follow, rec, pend, moved, since, paid>>,
         NEW q \in Taps, task' \in [Taps -> Tasks],
         \A p \in Taps \ {q} : task'[p] = task[p],
         \/ task'[q].pc \in {"idle", "checked"} /\ ~task'[q].accepted
            /\ (task'[q].pc = "checked" => task'[q].key \in Keys)
         \/ task'[q] = [task[q] EXCEPT !.pc = "ready"] /\ task[q].pc = "reserved"
  PROVE  TaskInv' /\ MoverInv' /\ MoneyInv' /\ ConfirmedIsPaid'
         /\ UNCHANGED Promise!vars
<1>1. MoverInv' /\ MoneyInv' /\ ConfirmedIsPaid'
  BY DEF IInv, table, MoverInv, MoneyInv, Money, ConfirmedIsPaid
<1>2. UNCHANGED Promise!vars
  BY DEF Promise!vars, table
<1>3. CASE task'[q].pc \in {"idle", "checked"} /\ ~task'[q].accepted
           /\ (task'[q].pc = "checked" => task'[q].key \in Keys)
  <2>1. ASSUME NEW r \in Taps PROVE Holds(r)'
    BY <1>3 DEF IInv, TaskInv, Holds, table, Locked, Tasks
  <2>2. \A p \in Taps : task'[p].pc \in Locked => task'[p] = task[p]
    BY <1>3 DEF Locked
  <2>3. OneLock'
    BY <2>2 DEF IInv, TaskInv, OneLock
  <2> QED
    BY <1>1, <1>2, <2>1, <2>3 DEF TaskInv
<1>4. CASE task'[q] = [task[q] EXCEPT !.pc = "ready"] /\ task[q].pc = "reserved"
  <2>1. task[q] \in Tasks
    BY DEF IInv, TypeOK
  <2>2. /\ task'[q].pc = "ready" /\ task'[q].key = task[q].key
        /\ task'[q].accepted = task[q].accepted
    BY <1>4, <2>1 DEF Tasks
  <2>3. ASSUME NEW r \in Taps PROVE Holds(r)'
    <3>1. CASE r = q
      BY <1>4, <2>2, <3>1 DEF IInv, TaskInv, Holds, table, Locked
    <3>2. CASE r # q
      BY <3>2 DEF IInv, TaskInv, Holds, table
    <3> QED
      BY <3>1, <3>2
  <2>4. \A p \in Taps : task'[p].pc \in Locked
                         => task[p].pc \in Locked /\ task'[p].key = task[p].key
    BY <1>4, <2>2 DEF Locked
  <2>5. OneLock'
    BY <2>4 DEF IInv, TaskInv, OneLock
  <2> QED
    BY <1>1, <1>2, <2>3, <2>5 DEF TaskInv
<1> QED
  BY <1>1, <1>2, <1>3, <1>4

\* A new row: no other of the user is open, and what left before is on record.
LEMMA ReserveStep ==
  ASSUME IInv, NEW q \in Taps, TapReserve(q)
  PROVE  IInv' /\ [Promise!Next]_(Promise!vars)
<1> DEFINE k == task[q].key
<1> USE DEF IInv
<1>1. /\ k \in Keys /\ row[k].status = "none" /\ moved[k] = 0 /\ pend[k] = 0
      /\ task[q].pc = "checked" /\ ~task[q].accepted
      /\ task[q] \in Tasks
      /\ \A j \in Siblings(k) : row[j].status \notin OPEN
  BY DEF TapReserve, MayInsert, TaskInv, Holds, MoneyInv, Money, TypeOK, Submitted
<1>2. /\ row'[k] = [NoRow EXCEPT !.status = "requested"]
      /\ row'[k].status = "requested" /\ ~row'[k].byHand
      /\ row' \in [Keys -> Rows] /\ age' \in [Keys -> {"new", "old"}]
      /\ \A j \in Keys \ {k} : row'[j] = row[j] /\ age'[j] = age[j]
  BY <1>1 DEF TapReserve, NoRow, Rows, Statuses, OPEN, HOLDING, TypeOK
<1>3. /\ task'[q].pc = "reserved" /\ task'[q].key = k /\ ~task'[q].accepted
      /\ task' \in [Taps -> Tasks]
      /\ \A p \in Taps \ {q} : task'[p] = task[p]
  BY <1>1 DEF TapReserve, Tasks, Locked, TypeOK
<1>4. /\ since' \in [Keys -> SUBSET ({"sent", "paid"} \X Keys)]
      /\ \A j \in Keys : <<"sent", j>> \in since'[k] <=> moved[j] > 0
      /\ \A j \in Keys \ {k} : since'[j] = since[j]
  BY <1>1 DEF TapReserve, OnChain, TypeOK
<1>5. /\ busy' = busy \cup {k}
      /\ UNCHANGED <<halted, follow, rec, crashes, pend, moved, bridge, paid>>
  BY DEF TapReserve
<1>6. TypeOK'
  BY <1>1, <1>2, <1>3, <1>4, <1>5 DEF TypeOK
<1>7. TaskInv'
  <2>1. \A p \in Taps : task[p].pc \in Locked => task[p].key # k /\ Owner[task[p].key] # Owner[k]
    BY DEF TapReserve, LockFree
  <2>2. ~follow[k].on
    BY <1>1 DEF MoverInv
  <2>3. Holds(q)'
    BY <1>1, <1>2, <1>3, <1>5, <2>2 DEF Holds, Locked
  <2>4. ASSUME NEW p \in Taps, p # q PROVE Holds(p)'
    <3>1. task[p].pc \in Locked => task[p].key \in Keys \ {k}
      BY <2>1 DEF TaskInv, Holds, Locked
    <3> QED
      BY <1>2, <1>3, <1>5, <2>4, <3>1 DEF TaskInv, Holds, Locked
  <2>5. OneLock'
    BY <1>3, <2>1 DEF TaskInv, OneLock
  <2> QED
    BY <2>3, <2>4, <2>5 DEF TaskInv
<1>8. MoverInv'
  BY <1>1, <1>2, <1>5 DEF MoverInv
<1>9. MoneyInv'
  <2> SUFFICES ASSUME NEW j \in Keys PROVE Money(j)'
    BY DEF MoneyInv
  <2>1. CASE j = k
    <3>1. \A i \in Siblings(k) \ {k} : row'[i].status \notin OPEN
                                     /\ (moved[i] = 1 => <<"sent", i>> \in since'[k])
      <4> TAKE i \in Siblings(k) \ {k}
      <4>1. i \in Keys /\ i \in Siblings(k) /\ row'[i] = row[i]
        BY <1>2 DEF Siblings
      <4>2. moved[i] = 1 => <<"sent", i>> \in since'[k]
        BY <1>4, <4>1
      <4> QED
        BY <1>1, <4>1, <4>2
    <3>2. <<"sent", k>> \notin since'[k] /\ pend'[k] = 0 /\ moved'[k] = 0
      BY <1>1, <1>4, <1>5
    <3> QED
      <4>1. row'[k].status \notin Submitted /\ row'[k].status \notin Left
        BY <1>2 DEF Submitted, Left
      <4> QED
        BY <1>5, <2>1, <3>1, <3>2, <4>1 DEF Money, Siblings
  <2>2. CASE j # k
    <3>1. row[j].status \in OPEN => k \notin Siblings(j)
      BY <1>1 DEF Siblings
    <3>2. \A i \in Siblings(j) \ {k} : row'[i] = row[i]
      BY <1>2 DEF Siblings
    <3> QED
      BY <1>2, <1>4, <1>5, <2>2, <3>1, <3>2 DEF MoneyInv, Money, Siblings
  <2> QED
    BY <2>1, <2>2
<1>10. ConfirmedIsPaid'
  BY <1>2, <1>5 DEF ConfirmedIsPaid
<1>11. Promise!Hold(k)
  <2>1. [j \in Keys |-> Phase(row[j].status)]'
          = [[j \in Keys |-> Phase(row[j].status)] EXCEPT ![k] = Phase(row'[k].status)]
    BY <1>2
  <2>2. Phase(row[k].status) = "none" /\ Phase(row'[k].status) = "held"
    BY <1>1, <1>2 DEF Phase, HOLDING
  <2> QED
    BY <1>1, <1>5, <2>1, <2>2 DEF Promise!Hold, Promise!Turn
<1> QED
  BY <1>1, <1>6, <1>7, <1>8, <1>9, <1>10, <1>11 DEF Promise!Next

\* The row goes to submitting, and nothing has left or can leave yet.
LEMMA SendStartStep ==
  ASSUME IInv, NEW q \in Taps, SendStart(q)
  PROVE  IInv' /\ [Promise!Next]_(Promise!vars)
<1> DEFINE k == task[q].key
<1> USE DEF IInv
<1>1. /\ k \in Keys /\ row[k].status = "requested" /\ moved[k] = 0 /\ pend[k] = 0
      /\ task[q].pc = "ready" /\ ~task[q].accepted /\ task[q] \in Tasks
      /\ k \in busy /\ ~follow[k].on
  BY DEF SendStart, TaskInv, Holds, MoneyInv, Money, TypeOK, Submitted, Locked
<1>2. /\ row'[k].status = "submitting" /\ age'[k] = "new"
      /\ row'[k].byHand = row[k].byHand
      /\ row' \in [Keys -> Rows] /\ age' \in [Keys -> {"new", "old"}]
      /\ \A j \in Keys \ {k} : row'[j] = row[j] /\ age'[j] = age[j]
  <2>1. /\ row' = [row EXCEPT ![k].status = "submitting"]
        /\ age' = [age EXCEPT ![k] = "new"]
    BY <1>1 DEF SendStart, Move
  <2>2. row[k] \in Rows /\ row'[k] = [row[k] EXCEPT !.status = "submitting"]
    BY <1>1, <2>1 DEF TypeOK
  <2>3. row'[k] \in Rows /\ row'[k].status = "submitting" /\ row'[k].byHand = row[k].byHand
    BY <2>2 DEF Rows, Statuses, OPEN, HOLDING
  <2> QED
    BY <1>1, <2>1, <2>3 DEF TypeOK
<1>3. /\ task'[q].pc = "sending" /\ task'[q].key = k /\ ~task'[q].accepted
      /\ task' \in [Taps -> Tasks]
      /\ \A p \in Taps \ {q} : task'[p] = task[p]
  <2>1. task' = [task EXCEPT ![q].pc = "sending"]
    BY <1>1 DEF SendStart
  <2> QED
    BY <1>1, <2>1 DEF Tasks, Locked, TypeOK
<1>4. UNCHANGED <<busy, halted, follow, rec, crashes, pend, moved, since, bridge, paid>>
  BY <1>1 DEF SendStart, outside
<1>5. TypeOK'
  BY <1>2, <1>3, <1>4 DEF TypeOK
<1>6. TaskInv'
  <2>1. \A p \in Taps \ {q} : task[p].pc \in Locked => task[p].key \in Keys \ {k}
    BY <1>1 DEF TaskInv, Holds, OneLock, Locked
  <2>2. Holds(q)'
    BY <1>1, <1>2, <1>3, <1>4 DEF Holds, Locked
  <2>3. ASSUME NEW p \in Taps, p # q PROVE Holds(p)'
    BY <1>2, <1>3, <1>4, <2>1, <2>3 DEF TaskInv, Holds, Locked
  <2>4. \A p \in Taps : task'[p].pc \in Locked
                         => task[p].pc \in Locked /\ task'[p].key = task[p].key
    BY <1>1, <1>3 DEF Locked
  <2>5. OneLock'
    BY <2>4 DEF TaskInv, OneLock
  <2> QED
    BY <2>2, <2>3, <2>5 DEF TaskInv
<1>7. MoverInv'
  BY <1>1, <1>2, <1>4 DEF MoverInv
<1>8. MoneyInv'
  <2> SUFFICES ASSUME NEW j \in Keys PROVE Money(j)'
    BY DEF MoneyInv
  <2>1. \A i \in Keys : row'[i].status \in OPEN => row[i].status \in OPEN
    BY <1>1, <1>2 DEF OPEN, HOLDING
  <2>2. CASE j # k
    <3>1. row'[j] = row[j] /\ age'[j] = age[j]
      BY <1>2, <2>2
    <3> QED
      BY <1>4, <2>1, <3>1 DEF MoneyInv, Money, Siblings
  <2>3. CASE j = k
    <3>1. /\ <<"sent", k>> \notin since[k]
          /\ \A i \in Siblings(k) \ {k} : /\ row'[i].status \notin OPEN
                                          /\ moved[i] = 1 => <<"sent", i>> \in since[k]
      BY <1>1, <2>1 DEF MoneyInv, Money, Siblings, OPEN, HOLDING
    <3>2. row'[k].status \notin {"none", "requested", "failed"} \cup Left
      BY <1>2 DEF Left
    <3>3. pend'[k] = 0 /\ moved'[k] = 0 /\ since'[k] = since[k]
      BY <1>1, <1>4
    <3> QED
      <4>1. /\ pend'[j] = 0 /\ moved'[j] = 0
            /\ row'[j].status \notin {"none", "requested", "failed"} \cup Left
        BY <2>3, <3>2, <3>3
      <4>2. <<"sent", j>> \notin since'[j] /\ \A i \in Siblings(j) \ {j} :
               /\ row'[i].status \notin OPEN
               /\ moved'[i] = 1 => <<"sent", i>> \in since'[j]
        BY <1>4, <2>3, <3>1, <3>3
      <4> QED
        BY <4>1, <4>2 DEF Money, Siblings
  <2> QED
    BY <2>2, <2>3
<1>9. ConfirmedIsPaid'
  BY <1>2, <1>4 DEF ConfirmedIsPaid
<1>10. UNCHANGED Promise!vars
  <2>1. \A j \in Keys : Phase(row'[j].status) = Phase(row[j].status)
    BY <1>1, <1>2 DEF Phase, HOLDING
  <2> QED
    BY <1>4, <2>1 DEF Promise!vars
<1> QED
  BY <1>5, <1>6, <1>7, <1>8, <1>9, <1>10

\* The one batch of the row, before its cut-off.
LEMMA AcceptStep ==
  ASSUME IInv, NEW q \in Taps, RelayerAccepts(q)
  PROVE  IInv' /\ UNCHANGED Promise!vars
<1> DEFINE k == task[q].key
<1> USE DEF IInv
<1>1. /\ k \in Keys /\ row[k].status = "submitting" /\ age[k] = "new"
      /\ moved[k] = 0 /\ pend[k] = 0
      /\ task[q].pc = "sending" /\ task[q] \in Tasks
  BY DEF RelayerAccepts, TaskInv, Holds, TypeOK
<1>2. /\ task'[q].pc = "sending" /\ task'[q].key = k /\ task'[q].accepted
      /\ task' \in [Taps -> Tasks]
      /\ \A p \in Taps \ {q} : task'[p] = task[p]
  BY <1>1 DEF RelayerAccepts, Tasks, TypeOK
<1>3. /\ pend'[k] = 1 /\ pend' \in [Keys -> 0..1]
      /\ \A j \in Keys \ {k} : pend'[j] = pend[j]
  BY <1>1 DEF RelayerAccepts, TypeOK
<1>4. UNCHANGED <<row, age, halted, busy, follow, rec, crashes, moved, since, bridge, paid>>
  BY DEF RelayerAccepts, table
<1>5. TypeOK'
  BY <1>2, <1>3, <1>4 DEF TypeOK
<1>6. TaskInv'
  <2>1. \A p \in Taps \ {q} : task[p].pc \in Locked => task[p].key \in Keys \ {k}
    BY <1>1 DEF TaskInv, Holds, OneLock, Locked
  <2>2. Holds(q)'
    BY <1>1, <1>2, <1>4 DEF TaskInv, Holds, Locked
  <2>3. ASSUME NEW p \in Taps, p # q PROVE Holds(p)'
    BY <1>2, <1>3, <1>4, <2>1, <2>3 DEF TaskInv, Holds, Locked
  <2>4. \A p \in Taps : task'[p].pc \in Locked
                         => task[p].pc \in Locked /\ task'[p].key = task[p].key
    BY <1>1, <1>2 DEF Locked
  <2>5. OneLock'
    BY <2>4 DEF TaskInv, OneLock
  <2> QED
    BY <2>2, <2>3, <2>5 DEF TaskInv
<1>7. MoverInv' /\ ConfirmedIsPaid'
  BY <1>4 DEF MoverInv, ConfirmedIsPaid
<1>8. MoneyInv'
  BY <1>1, <1>3, <1>4 DEF MoneyInv, Money, Submitted
<1> QED
  BY <1>4, <1>5, <1>6, <1>7, <1>8 DEF Promise!vars

\* The request lets go of its row after a forward move of it.
LEMMA ReturnStep ==
  ASSUME IInv, NEW q \in Taps, task[q].pc \in Locked,
         Return(q), Forward(task[q].key), halted' \in BOOLEAN,
         UNCHANGED <<follow, rec, crashes, pend, moved, since, bridge, paid>>
  PROVE  IInv' /\ [Promise!Next]_(Promise!vars)
<1> USE DEF IInv
<1>0. PICK k \in Keys : k = task[q].key
  BY DEF TaskInv, Holds, Locked
<1>1. Forward(k) /\ row[k].status # "attention"
  BY <1>0 DEF TaskInv, Holds, Locked
<1>2. Done \in Tasks
  BY DEF Done, Tasks
<1>3. /\ task' \in [Taps -> Tasks]
      /\ \A p \in Taps : /\ task'[p] \in {task[p], Done}
                         /\ task'[p].pc \in Locked => task[p].key # k
  BY <1>0, <1>2 DEF Return, TaskInv, OneLock, TypeOK, Done, Locked
<1>4. busy' = busy \ {k}
  BY <1>0 DEF Return
<1>5. TypeOK'
  BY <1>1, <1>3, <1>4 DEF TypeOK, Forward
<1>6. TaskInv' /\ MoneyInv' /\ ConfirmedIsPaid'
  <2>1. busy \ {k} \subseteq busy' /\ \A j \in Keys \ {k} : follow'[j].on => follow[j].on
    BY <1>4
  <2>2. UNCHANGED <<pend, moved, since, paid>>
    OBVIOUS
  <2> QED
    BY <1>1, <1>3, <2>1, <2>2, ForwardInv
<1>7. MoverInv'
  <2>1. \A j \in Keys : follow[j].found # None => follow[j].on
    BY DEF MoverInv
  <2> QED
    BY <1>1, <1>4, <2>1, ForwardMovers
<1> QED
  BY <1>1, <1>5, <1>6, <1>7, ForwardPromise

\* Every step of a request.
LEMMA RequestStep ==
  ASSUME IInv, NEW q \in Taps, Request(q)
  PROVE  IInv' /\ [Promise!Next]_(Promise!vars)
<1> USE DEF IInv
<1>0. task[q] \in Tasks /\ task \in [Taps -> Tasks] /\ Done \in Tasks
  BY DEF TypeOK, Done, Tasks
<1>1. CASE \E k \in Keys : TapStart(q, k)
  <2> PICK k \in Keys : TapStart(q, k)
    BY <1>1
  <2>1. /\ task'[q].pc = "checked" /\ ~task'[q].accepted /\ task'[q].key = k
        /\ task' \in [Taps -> Tasks]
        /\ \A p \in Taps \ {q} : task'[p] = task[p]
    BY <1>0 DEF TapStart, Tasks, Done
  <2>2. UNCHANGED <<row, age, halted, busy, follow, rec, crashes, pend, moved, since, bridge, paid>>
    BY DEF TapStart, table, outside
  <2>3. TypeOK'
    BY <2>1, <2>2 DEF TypeOK
  <2> QED
    BY <2>1, <2>2, <2>3, IdleStep DEF table
<1>2. CASE TapRefused(q)
  <2>1. /\ task'[q] = Done /\ task' \in [Taps -> Tasks]
        /\ \A p \in Taps \ {q} : task'[p] = task[p]
    BY <1>0, <1>2 DEF TapRefused
  <2>2. UNCHANGED <<row, age, halted, busy, follow, rec, crashes, pend, moved, since, bridge, paid>>
    BY <1>2 DEF TapRefused, table, outside
  <2>3. TypeOK'
    BY <2>1, <2>2 DEF TypeOK
  <2>4. task'[q].pc = "idle" /\ ~task'[q].accepted
    BY <2>1 DEF Done
  <2> QED
    BY <2>1, <2>2, <2>3, <2>4, IdleStep DEF table
<1>3. CASE TapReserve(q)
  BY <1>3, ReserveStep
<1>4. CASE PrepareBridge(q)
  <2>1. /\ task'[q] = [task[q] EXCEPT !.pc = "ready"] /\ task[q].pc = "reserved"
        /\ task' \in [Taps -> Tasks]
        /\ \A p \in Taps \ {q} : task'[p] = task[p]
    BY <1>0, <1>4 DEF PrepareBridge, Tasks, Locked
  <2>2. UNCHANGED <<row, age, halted, busy, follow, rec, crashes, pend, moved, since, bridge, paid>>
    BY <1>4 DEF PrepareBridge, table, outside
  <2>3. TypeOK'
    BY <2>1, <2>2 DEF TypeOK
  <2> QED
    BY <2>1, <2>2, <2>3, IdleStep DEF table
<1>5. CASE NoBridge(q)
  <2>1. Forward(task[q].key)
    <3> PICK k \in Keys : k = task[q].key
      BY <1>5 DEF NoBridge, TaskInv, Holds
    <3> QED
      BY <1>5, MoveFacts DEF NoBridge, Forward, Statuses, TaskInv, Holds
  <2>2. task[q].pc \in Locked /\ Return(q) /\ halted' \in BOOLEAN
        /\ UNCHANGED <<follow, rec, crashes, pend, moved, since, bridge, paid>>
    BY <1>5 DEF NoBridge, Locked, outside, TypeOK
  <2> QED
    BY <2>1, <2>2, ReturnStep
<1>6. CASE SendStart(q)
  BY <1>6, SendStartStep
<1>7. CASE RelayerAccepts(q)
  BY <1>7, AcceptStep
<1>8. CASE AnswerHandle(q)
  <2> PICK k \in Keys : k = task[q].key
    BY <1>8 DEF AnswerHandle, TaskInv, Holds
  <2>1. /\ row[k].status = "submitting" /\ task[q].pc = "sending"
        /\ row' = [row EXCEPT ![k].status = "submitted"] /\ UNCHANGED age
        /\ task' = [task EXCEPT ![q] = Done]
        /\ follow' = [follow EXCEPT ![k] = [on |-> TRUE, found |-> None]]
        /\ UNCHANGED <<busy, halted, rec, crashes, pend, moved, since, bridge, paid>>
    BY <1>8 DEF AnswerHandle, TaskInv, Holds, Move, outside
  <2>2. row[k] \in Rows /\ row'[k] \in Rows /\ row' \in [Keys -> Rows]
        /\ row'[k].status = "submitted"
    <3>1. row[k] \in Rows /\ row'[k] = [row[k] EXCEPT !.status = "submitted"]
      BY <2>1 DEF TypeOK
    <3>2. row'[k] \in Rows /\ row'[k].status = "submitted"
      BY <3>1 DEF Rows, Statuses, OPEN, HOLDING
    <3> QED
      BY <2>1, <3>1, <3>2 DEF TypeOK
  <2>3. Forward(k)
    BY <2>1, <2>2 DEF Forward, TypeOK, Rows
  <2>4. /\ task' \in [Taps -> Tasks]
        /\ \A p \in Taps : /\ task'[p] \in {task[p], Done}
                           /\ task'[p].pc \in Locked => task[p].key # k
    BY <1>0, <2>1 DEF TaskInv, OneLock, Done, Locked
  <2>5. follow' \in [Keys -> Follows] /\ follow'[k] = [on |-> TRUE, found |-> None]
        /\ \A j \in Keys \ {k} : follow'[j] = follow[j]
    BY <2>1 DEF TypeOK, Follows
  <2>6. TypeOK'
    BY <2>1, <2>2, <2>4, <2>5 DEF TypeOK
  <2>7. TaskInv' /\ MoneyInv' /\ ConfirmedIsPaid'
    <3>1. busy \ {k} \subseteq busy' /\ \A j \in Keys \ {k} : follow'[j].on => follow[j].on
      BY <2>1, <2>5
    <3>2. UNCHANGED <<pend, moved, since, paid>>
      BY <2>1
    <3> QED
      BY <2>3, <2>4, <3>1, <3>2, ForwardInv
  <2>8. MoverInv'
    <3>1. \A j \in Keys : /\ follow'[j].on => follow[j].on \/ row[j].status # "none"
                          /\ follow'[j].found # None => follow'[j].on
      BY <2>1, <2>5 DEF MoverInv
    <3> QED
      BY <2>1, <2>3, <3>1, ForwardMovers
  <2> QED
    BY <2>1, <2>3, <2>6, <2>7, <2>8, ForwardPromise
<1>9. CASE AnswerUnknown(q) \/ TapFails(q)
  <2>1. Forward(task[q].key)
    BY <1>9 DEF AnswerUnknown, TapFails, table, Forward, TypeOK, TaskInv, Holds, ConfirmedIsPaid
  <2>2. task[q].pc \in Locked /\ Return(q) /\ halted' \in BOOLEAN
        /\ UNCHANGED <<follow, rec, crashes, pend, moved, since, bridge, paid>>
    BY <1>9 DEF AnswerUnknown, TapFails, Locked, outside, TypeOK
  <2> QED
    BY <2>1, <2>2, ReturnStep
<1>10. CASE \E policy \in BOOLEAN : AnswerRefused(q, policy)
  <2> PICK policy \in BOOLEAN : AnswerRefused(q, policy)
    BY <1>10
  <2>1. Forward(task[q].key)
    <3> PICK k \in Keys : k = task[q].key
      BY DEF AnswerRefused, TaskInv, Holds
    <3> QED
      BY MoveFacts DEF AnswerRefused, Forward, Statuses, TaskInv, Holds, Submitted
  <2>2. task[q].pc \in Locked /\ Return(q) /\ halted' \in BOOLEAN
        /\ UNCHANGED <<follow, rec, crashes, pend, moved, since, bridge, paid>>
    BY DEF AnswerRefused, Locked, outside, TypeOK
  <2> QED
    BY <2>1, <2>2, ReturnStep
<1> QED
  BY <1>1, <1>2, <1>3, <1>4, <1>5, <1>6, <1>7, <1>8, <1>9, <1>10 DEF Request, Answer

\* The movers advance a row that no request holds: a follow task takes over from
\* its request, and the reconciler leaves busy rows alone.
LEMMA MoverStep ==
  ASSUME IInv, NEW k \in Keys, Forward(k),
         UNCHANGED <<halted, task, crashes, pend, moved, since, bridge, paid>>,
         \A q \in Taps : task[q].pc \in Locked => task[q].key # k,
         busy \ {k} \subseteq busy', busy' \subseteq busy,
         follow' \in [Keys -> Follows],
         \A j \in Keys : /\ follow'[j].on => follow[j].on
                         /\ follow'[j].found # None => follow'[j].on,
         rec' \in Recs,
         \A j \in Keys : rec'.snap[j] \in {rec.snap[j], "none"},
         rec' = rec \/ (rec'.key = None /\ rec'.found = None),
         \/ row[k].status = "attention" => row'[k].status = "attention"
         \/ row'[k].byHand
         \/ rec'.snap[k] = "none"
  PROVE  IInv' /\ [Promise!Next]_(Promise!vars)
<1>1. TypeOK'
  BY DEF IInv, TypeOK, Forward
<1>2. TaskInv' /\ MoneyInv' /\ ConfirmedIsPaid'
  <2>1. \A q \in Taps : /\ task'[q] \in {task[q], Done}
                        /\ task'[q].pc \in Locked => task[q].key # k
    OBVIOUS
  <2>2. \A j \in Keys \ {k} : follow'[j].on => follow[j].on
    OBVIOUS
  <2>3. UNCHANGED <<pend, moved, since, paid>>
    OBVIOUS
  <2> QED
    BY <2>1, <2>2, <2>3, ForwardInv
<1>3. MoverInv'
  <2>1. \A j \in Keys : /\ follow'[j].on => follow[j].on \/ row[j].status # "none"
                        /\ follow'[j].found # None => follow'[j].on
                        /\ rec'.snap[j] \in {rec.snap[j], "none"}
    OBVIOUS
  <2> QED
    BY <2>1, ForwardMovers
<1>4. [Promise!Next]_(Promise!vars)
  BY ForwardPromise
<1> QED
  BY <1>1, <1>2, <1>3, <1>4 DEF IInv

\* A row that stands still moves forward.
LEMMA StillForward ==
  ASSUME IInv, NEW k \in Keys, UNCHANGED table
  PROVE  Forward(k)
BY DEF IInv, TypeOK, ConfirmedIsPaid, Forward, table

\* Every step of a follow task.
LEMMA FollowStep ==
  ASSUME IInv, NEW k \in Keys, Follow(k)
  PROVE  IInv' /\ [Promise!Next]_(Promise!vars)
<1>1. follow[k].on
  BY DEF Follow, FollowMoves, FollowFinds, FollowSettles, FollowEnds, IInv, MoverInv
<1>2. \A q \in Taps : task[q].pc \in Locked => task[q].key # k
  BY <1>1 DEF IInv, TaskInv, Holds
<1>3. /\ follow \in [Keys -> Follows] /\ rec \in Recs
      /\ \A j \in Keys : follow[j].found # None => follow[j].on
  BY DEF IInv, TypeOK, MoverInv
<1>4. CASE FollowMoves(k)
  <2>1. UNCHANGED <<halted, busy, task, follow, rec, crashes, pend, moved, since, bridge, paid>>
    BY <1>4 DEF FollowMoves, process, outside
  <2>2. Advance(k, row[k].status) /\ row[k].status \in InProgress
    BY <1>4 DEF FollowMoves
  <2>3. Forward(k) /\ (row[k].status = "attention" => row'[k].status = "attention")
    BY <2>2, AdvanceForward
  <2> QED
    BY <1>2, <1>3, <2>1, <2>3, MoverStep
<1>5. CASE \E p \in Keys : FollowFinds(k, p)
  <2>1. PICK p \in Keys : FollowFinds(k, p)
    BY <1>5
  <2>2. UNCHANGED <<table, halted, busy, task, rec, crashes, pend, moved, since, bridge, paid>>
    BY <2>1 DEF FollowFinds, outside
  <2>3. follow' = [follow EXCEPT ![k].found = p]
    BY <2>1 DEF FollowFinds
  <2>4. follow' \in [Keys -> Follows]
        /\ \A j \in Keys : /\ follow'[j].on => follow[j].on
                           /\ follow'[j].found # None => follow'[j].on
    BY <1>1, <1>3, <2>3 DEF Follows
  <2>5. row' = row
    BY <2>2 DEF table
  <2> QED
    BY <1>2, <1>3, <2>2, <2>4, <2>5, StillForward, MoverStep
<1>6. CASE FollowSettles(k)
  <2>1. UNCHANGED <<halted, busy, task, rec, crashes, pend, moved, since, bridge, paid>>
    BY <1>6 DEF FollowSettles, outside
  <2>2. follow' = [follow EXCEPT ![k].found = None]
    BY <1>6 DEF FollowSettles
  <2>3. follow' \in [Keys -> Follows]
        /\ \A j \in Keys : /\ follow'[j].on => follow[j].on
                           /\ follow'[j].found # None => follow'[j].on
    BY <1>3, <2>2 DEF Follows
  <2>4. follow[k].found \in Keys /\ SettleDelivery(k, "bridging", follow[k].found)
    BY <1>3, <1>6 DEF FollowSettles, Follows
  <2>5. Forward(k) /\ (row[k].status = "attention" => row'[k].status = "attention")
    BY <2>4, SettleForward
  <2> QED
    BY <1>2, <1>3, <2>1, <2>3, <2>5, MoverStep
<1>7. CASE FollowEnds(k)
  <2>1. UNCHANGED <<table, halted, task, rec, crashes, pend, moved, since, bridge, paid>>
        /\ busy' = busy \ {k}
    BY <1>7 DEF FollowEnds, outside
  <2>2. follow' \in [Keys -> Follows]
        /\ \A j \in Keys : /\ follow'[j].on => follow[j].on
                           /\ follow'[j].found # None => follow'[j].on
    BY <1>3, <1>7 DEF FollowEnds, Follows, NoFollow
  <2>3. row' = row
    BY <2>1 DEF table
  <2> QED
    BY <1>2, <1>3, <2>1, <2>2, <2>3, StillForward, MoverStep
<1> QED
  BY <1>4, <1>5, <1>6, <1>7 DEF Follow

\* Every step of the reconciler.
LEMMA ReconcileStep ==
  ASSUME IInv, Reconcile
  PROVE  IInv' /\ [Promise!Next]_(Promise!vars)
<1>1. /\ follow \in [Keys -> Follows] /\ rec \in Recs
      /\ \A j \in Keys : follow[j].found # None => follow[j].on
      /\ rec.key # None => rec.key \notin busy /\ rec.snap[rec.key] # "none"
      /\ rec.found # None => rec.key # None /\ rec.snap[rec.key] \in {"bridging", "attention"}
  BY DEF IInv, TypeOK, MoverInv
<1>2. ASSUME UNCHANGED <<table, halted, busy, task, follow, crashes, pend, moved, since, bridge, paid>>,
             rec' \in Recs, MoverInv'
      PROVE  IInv' /\ UNCHANGED Promise!vars
  <2>1. TypeOK'
    BY <1>2 DEF IInv, TypeOK, table
  <2>2. TaskInv'
    BY <1>2 DEF IInv, TaskInv, Holds, OneLock, table
  <2>3. MoneyInv' /\ ConfirmedIsPaid' /\ UNCHANGED Promise!vars
    BY <1>2 DEF IInv, MoneyInv, Money, ConfirmedIsPaid, table, Promise!vars
  <2> QED
    BY <1>2, <2>1, <2>2, <2>3 DEF IInv
<1>3. CASE RecRead
  <2>1. UNCHANGED <<table, halted, busy, task, follow, crashes, pend, moved, since, bridge, paid>>
    BY <1>3 DEF RecRead, outside
  <2>2. /\ rec' \in Recs /\ rec'.key = None /\ rec'.found = None
        /\ \A j \in Keys : rec'.snap[j] = IF Eligible(j) THEN row[j].status ELSE "none"
    <3>1. [j \in Keys |-> IF Eligible(j) THEN row[j].status ELSE "none"] \in [Keys -> Statuses]
      BY DEF IInv, TypeOK, Rows, Statuses
    <3> QED
      BY <1>1, <1>3, <3>1 DEF RecRead, NoPass, Recs
  <2>3. MoverInv'
    BY <2>1, <2>2 DEF IInv, MoverInv, table, Eligible, InProgress
  <2> QED
    BY <1>2, <2>1, <2>2, <2>3
<1>4. ASSUME NEW k \in Keys, RecTake(k)
      PROVE  IInv' /\ [Promise!Next]_(Promise!vars)
  <2>1. UNCHANGED <<table, halted, busy, task, follow, crashes, pend, moved, since, bridge, paid>>
    BY <1>4 DEF RecTake, outside
  <2>2. rec' \in Recs /\ rec'.key = k /\ rec'.snap = rec.snap /\ rec'.found = None
    BY <1>1, <1>4 DEF RecTake, Recs
  <2>3. MoverInv'
    BY <1>4, <2>1, <2>2 DEF IInv, MoverInv, table, RecTake
  <2> QED
    BY <1>2, <2>1, <2>2, <2>3
<1>5. ASSUME NEW k \in Keys, RecSkip(k)
      PROVE  IInv' /\ [Promise!Next]_(Promise!vars)
  <2>1. UNCHANGED <<table, halted, busy, task, follow, crashes, pend, moved, since, bridge, paid>>
    BY <1>5 DEF RecSkip, outside
  <2>2. /\ rec' \in Recs /\ rec'.key = None /\ rec'.found = None
        /\ \A j \in Keys : rec'.snap[j] \in {rec.snap[j], "none"}
    BY <1>1, <1>5 DEF RecSkip, Recs, Statuses
  <2>3. MoverInv'
    BY <2>1, <2>2 DEF IInv, MoverInv, table
  <2> QED
    BY <1>2, <2>1, <2>2, <2>3
<1>6. ASSUME NEW k \in Keys, NEW p \in Keys, RecFinds(k, p)
      PROVE  IInv' /\ [Promise!Next]_(Promise!vars)
  <2>1. UNCHANGED <<table, halted, busy, task, follow, crashes, pend, moved, since, bridge, paid>>
    BY <1>6 DEF RecFinds, outside
  <2>2. rec' \in Recs /\ rec'.key = rec.key /\ rec'.snap = rec.snap
    BY <1>1, <1>6 DEF RecFinds, Recs
  <2>3. rec.key = k /\ k # None /\ rec.snap[k] \in {"bridging", "attention"}
    BY <1>6, ConstantsAssumption DEF RecFinds
  <2>4. MoverInv'
    BY <2>1, <2>2, <2>3 DEF IInv, MoverInv, table
  <2> QED
    BY <1>2, <2>1, <2>2, <2>4
<1>7. ASSUME NEW k \in Keys, rec.key = k, RecNext(k),
             UNCHANGED <<halted, busy, task, follow, crashes, pend, moved, since, bridge, paid>>,
             Forward(k)
      PROVE  IInv' /\ [Promise!Next]_(Promise!vars)
  <2>1. /\ rec' \in Recs /\ rec'.key = None /\ rec'.found = None /\ rec'.snap[k] = "none"
        /\ \A j \in Keys : rec'.snap[j] \in {rec.snap[j], "none"}
    BY <1>1, <1>7 DEF RecNext, Recs, Statuses
  <2>2. \A q \in Taps : task[q].pc \in Locked => task[q].key # k
    BY <1>1, <1>7, ConstantsAssumption DEF IInv, TaskInv, Holds
  <2> QED
    BY <1>1, <1>7, <2>1, <2>2, MoverStep
<1>8. ASSUME NEW k \in Keys, RecMoves(k) \/ RecSettles(k) \/ RecPasses(k)
      PROVE  IInv' /\ [Promise!Next]_(Promise!vars)
  <2>1. /\ rec.key = k /\ RecNext(k)
        /\ UNCHANGED <<halted, busy, task, follow, crashes, pend, moved, since, bridge, paid>>
    BY <1>8 DEF RecMoves, RecSettles, RecPasses, outside
  <2>2. rec.snap[k] \in InProgress \cup {"attention"}
    BY <1>1, <2>1, ConstantsAssumption DEF IInv, MoverInv
  <2>3. CASE RecMoves(k)
    BY <2>2, <2>3, AdvanceForward, <1>7, <2>1 DEF RecMoves
  <2>4. CASE RecSettles(k)
    <3>1. /\ rec.found \in Keys /\ SettleDelivery(k, rec.snap[k], rec.found)
          /\ rec.snap[k] \in {"bridging", "attention"}
          /\ rec.snap[k] = "attention" => row[k].status = "attention" \/ row[k].byHand
      <4>1. rec.found \in Keys /\ SettleDelivery(k, rec.snap[k], rec.found)
        BY <1>1, <2>4 DEF RecSettles, Recs
      <4>2. rec.snap[k] \in {"bridging", "attention"}
        BY <1>1, <2>1, <2>4 DEF RecSettles
      <4>3. rec.snap[k] = "attention" => row[k].status = "attention" \/ row[k].byHand
        BY DEF IInv, MoverInv
      <4> QED
        BY <4>1, <4>2, <4>3
    <3> QED
      BY <1>7, <2>1, <3>1, SettleForward
  <2>5. CASE RecPasses(k)
    <3>1. UNCHANGED table
      BY <2>5 DEF RecPasses
    <3> QED
      BY <1>7, <2>1, <3>1, StillForward
  <2> QED
    BY <1>8, <2>3, <2>4, <2>5
<1> QED
  BY <1>3, <1>4, <1>5, <1>6, <1>8 DEF Reconcile, ReconcileRow

\* The operator closes a row in attention.
LEMMA OperatorStep ==
  ASSUME IInv, Operator
  PROVE  IInv' /\ [Promise!Next]_(Promise!vars)
<1>1. PICK k \in Keys : ResolveRefunded(k) \/ \E p \in Keys : ResolveDelivered(k, p)
  BY DEF Operator
<1>2. /\ row[k].status = "attention" /\ row[k] \in Rows
      /\ age' = [age EXCEPT ![k] = "new"]
      /\ UNCHANGED <<halted, busy, task, follow, rec, crashes, pend, moved, since, bridge, paid>>
  BY <1>1 DEF ResolveRefunded, ResolveDelivered, process, outside, IInv, TypeOK
<1>3. CASE ResolveRefunded(k)
  <2>1. row' = [row EXCEPT ![k] = [row[k] EXCEPT !.status = "refunded", !.byHand = TRUE]]
    BY <1>2, <1>3 DEF ResolveRefunded, IInv, TypeOK, Rows
  <2>2. /\ row'[k] \in Rows /\ row' \in [Keys -> Rows]
        /\ row'[k].status = "refunded" /\ row'[k].byHand
    BY <1>2, <2>1 DEF IInv, TypeOK, Rows, Statuses
  <2>3. Forward(k)
    BY <1>2, <2>1, <2>2 DEF Forward, IInv, TypeOK
  <2> QED
    BY <1>2, <2>2, <2>3, MoverStep DEF IInv, TypeOK, MoverInv, TaskInv, Holds, Locked
<1>4. CASE \E p \in Keys : ResolveDelivered(k, p)
  <2>1. PICK p \in Keys : ResolveDelivered(k, p)
    BY <1>4
  <2>2. row' = [row EXCEPT ![k] = [row[k] EXCEPT !.status = "confirmed", !.delivery = p,
                                                 !.byHand = TRUE]]
    BY <1>2, <2>1 DEF ResolveDelivered, IInv, TypeOK, Rows
  <2>3. /\ row'[k] \in Rows /\ row' \in [Keys -> Rows]
        /\ row'[k].status = "confirmed" /\ row'[k].byHand
    BY <1>2, <2>2 DEF IInv, TypeOK, Rows, Statuses
  <2>4. Forward(k)
    BY <1>2, <2>2, <2>3 DEF Forward, IInv, TypeOK
  <2> QED
    BY <1>2, <2>3, <2>4, MoverStep DEF IInv, TypeOK, MoverInv, TaskInv, Holds, Locked
<1> QED
  BY <1>1, <1>3, <1>4

\* The amount leaves: once, and only while the row holds it.
LEMMA ExecuteStep ==
  ASSUME IInv, NEW k \in Keys, Execute(k)
  PROVE  IInv' /\ [Promise!Next]_(Promise!vars)
<1> USE DEF IInv
<1>1. /\ pend[k] = 1 /\ moved[k] = 0 /\ row[k].status \in Submitted
  BY DEF Execute, TypeOK, MoneyInv, Money
<1>2. /\ pend' = [pend EXCEPT ![k] = 0] /\ moved' = [moved EXCEPT ![k] = 1]
      /\ UNCHANGED <<row, age, halted, busy, task, follow, rec, crashes, since, bridge, paid>>
  BY <1>1 DEF Execute, table, process
<1>3. TypeOK'
  BY <1>2 DEF TypeOK
<1>4. TaskInv'
  <2>1. ASSUME NEW q \in Taps PROVE Holds(q)'
    BY <1>1, <1>2 DEF TaskInv, Holds, TypeOK, Locked
  <2>2. OneLock'
    BY <1>2 DEF TaskInv, OneLock
  <2> QED
    BY <2>1, <2>2 DEF TaskInv
<1>5. MoverInv' /\ ConfirmedIsPaid'
  BY <1>2 DEF MoverInv, ConfirmedIsPaid
<1>6. MoneyInv'
  <2> SUFFICES ASSUME NEW j \in Keys PROVE Money(j)'
    BY DEF MoneyInv
  <2>1. row[j].status \in OPEN /\ j # k => k \notin Siblings(j)
    BY <1>1 DEF MoneyInv, Money, Siblings, Submitted, OPEN, HOLDING
  <2>2. CASE j = k
    <3>1. pend'[j] = 0 /\ moved'[j] = 1 /\ row'[j].status \in Submitted
      BY <1>1, <1>2, <2>2 DEF TypeOK
    <3>2. /\ <<"sent", j>> \notin since'[j]
          /\ \A i \in Siblings(j) \ {j} : /\ row'[i].status \notin OPEN
                                          /\ moved'[i] = 1 => <<"sent", i>> \in since'[j]
      BY <1>1, <1>2, <2>2 DEF MoneyInv, Money, Siblings, Submitted, OPEN, HOLDING, TypeOK
    <3> QED
      BY <3>1, <3>2 DEF Money, Siblings, Submitted
  <2>3. CASE j # k
    <3>1. pend'[j] = pend[j] /\ moved'[j] = moved[j]
      BY <1>2, <2>3 DEF TypeOK
    <3>2. row[j].status \in OPEN => \A i \in Siblings(j) : moved'[i] = moved[i]
      BY <1>2, <2>1, <2>3 DEF Siblings, TypeOK
    <3> QED
      BY <1>2, <3>1, <3>2 DEF MoneyInv, Money, Siblings
  <2> QED
    BY <2>2, <2>3
<1>7. Promise!Leave(k)
  <2>1. Phase(row[k].status) = "held"
    BY <1>1 DEF Phase, Submitted, HOLDING
  <2> QED
    BY <1>1, <1>2, <2>1 DEF Promise!Leave
<1> QED
  BY <1>3, <1>4, <1>5, <1>6, <1>7 DEF Promise!Next

\* The rest of the world: nothing leaves the wallet, and no row changes.
LEMMA WorldStep ==
  ASSUME IInv, World
  PROVE  IInv' /\ [Promise!Next]_(Promise!vars)
<1> USE DEF IInv
<1>1. ASSUME NEW k \in Keys, Execute(k)
      PROVE  IInv' /\ [Promise!Next]_(Promise!vars)
  BY <1>1, ExecuteStep
<1>2. ASSUME NEW k \in Keys, Drop(k)
      PROVE  IInv' /\ [Promise!Next]_(Promise!vars)
  <2>1. /\ pend' = [pend EXCEPT ![k] = 0] /\ pend' \in [Keys -> 0..1] /\ pend[k] = 1
        /\ UNCHANGED <<row, age, halted, busy, task, follow, rec, crashes, moved, since, bridge, paid>>
    <3>1. pend[k] = 1
      BY <1>2 DEF Drop, TypeOK
    <3> QED
      BY <1>2, <3>1 DEF Drop, table, process, TypeOK
  <2>2. TypeOK' /\ MoverInv' /\ ConfirmedIsPaid' /\ UNCHANGED Promise!vars
    BY <2>1 DEF TypeOK, MoverInv, ConfirmedIsPaid, Promise!vars
  <2>3. MoneyInv'
    BY <2>1 DEF MoneyInv, Money, TypeOK
  <2>4. ASSUME NEW q \in Taps PROVE Holds(q)'
    BY <2>1 DEF TaskInv, Holds, TypeOK, Locked
  <2>5. OneLock'
    BY <2>1 DEF TaskInv, OneLock
  <2> QED
    BY <2>2, <2>3, <2>4, <2>5 DEF TaskInv
<1>3. ASSUME NEW k \in Keys, AgeRow(k)
      PROVE  IInv' /\ [Promise!Next]_(Promise!vars)
  <2>1. /\ age' = [age EXCEPT ![k] = "old"]
        /\ row[k].status \in Submitted => pend[k] = 0
        /\ \A q \in Taps : task[q].pc = "sending" => task[q].key # k
        /\ UNCHANGED <<row, halted, busy, task, follow, rec, crashes, pend, moved, since, bridge, paid>>
    BY <1>3 DEF AgeRow, process, outside, Submitted, TaskInv, Holds
  <2>2. TypeOK' /\ MoverInv' /\ ConfirmedIsPaid' /\ UNCHANGED Promise!vars
    BY <2>1 DEF TypeOK, MoverInv, ConfirmedIsPaid, Promise!vars
  <2>3. MoneyInv'
    BY <2>1 DEF MoneyInv, Money, TypeOK
  <2>4. ASSUME NEW q \in Taps PROVE Holds(q)'
    BY <2>1 DEF TaskInv, Holds, TypeOK, Locked
  <2>5. OneLock'
    BY <2>1 DEF TaskInv, OneLock
  <2> QED
    BY <2>2, <2>3, <2>4, <2>5 DEF TaskInv
<1>4. ASSUME NEW k \in Keys, \/ \E st \in {"COMPLETED", "FAILED"} : Report(k, st)
                             \/ \E size \in {"full", "short"} : Pay(k, size)
      PROVE  IInv' /\ [Promise!Next]_(Promise!vars)
  <2>1. UNCHANGED <<row, age, halted, busy, task, follow, rec, crashes, pend, moved, since>>
    BY <1>4 DEF Report, Pay, table, process
  <2>2. TypeOK'
    BY <1>4, <2>1 DEF TypeOK, Report, Pay
  <2>3. \A p \in Keys : paid[p] = "full" => paid'[p] = "full"
    BY <1>4 DEF Report, Pay, TypeOK
  <2>4. ConfirmedIsPaid'
    BY <2>1, <2>3, ConstantsAssumption DEF ConfirmedIsPaid, TypeOK, Rows
  <2>5. MoverInv' /\ MoneyInv' /\ UNCHANGED Promise!vars
    BY <2>1 DEF MoverInv, MoneyInv, Money, Promise!vars
  <2>6. TaskInv'
    BY <2>1 DEF TaskInv, Holds, OneLock
  <2> QED
    BY <2>2, <2>4, <2>5, <2>6
<1>5. CASE Crash
  <2>1. /\ halted' = FALSE /\ busy' = {} /\ crashes' \in 0..MaxCrashes
        /\ task' = [q \in Taps |-> Done] /\ follow' = [k \in Keys |-> NoFollow]
        /\ rec' = NoPass
        /\ UNCHANGED <<row, age, pend, moved, since, bridge, paid>>
    BY <1>5, ConstantsAssumption DEF Crash, TypeOK, table, outside
  <2>2. Done \in Tasks /\ NoFollow \in Follows
    BY DEF Tasks, Done, Follows, NoFollow
  <2>3. NoPass \in Recs
    BY DEF Recs, NoPass, Statuses
  <2>4. TypeOK'
    BY <2>1, <2>2, <2>3 DEF TypeOK
  <2>5. TaskInv' /\ MoverInv'
    BY <2>1 DEF TaskInv, Holds, OneLock, Done, Locked, MoverInv, NoFollow, NoPass
  <2>6. MoneyInv' /\ ConfirmedIsPaid' /\ UNCHANGED Promise!vars
    BY <2>1 DEF MoneyInv, Money, ConfirmedIsPaid, Promise!vars
  <2> QED
    BY <2>4, <2>5, <2>6
<1> QED
  BY <1>1, <1>2, <1>3, <1>4, <1>5 DEF World

\* Every step keeps the invariant, and is a step of the promise or none.
LEMMA NextStep ==
  ASSUME IInv, [Next]_vars
  PROVE  IInv' /\ [Promise!Next]_(Promise!vars)
<1>1. CASE UNCHANGED vars
  <2>1. UNCHANGED <<row, age, halted, busy, task, follow, rec, crashes, pend, moved, since, bridge, paid>>
    BY <1>1 DEF vars
  <2>2. TypeOK' /\ TaskInv'
    BY <2>1 DEF IInv, TypeOK, TaskInv, Holds, OneLock
  <2>3. MoverInv' /\ MoneyInv' /\ ConfirmedIsPaid' /\ UNCHANGED Promise!vars
    BY <2>1 DEF IInv, MoverInv, MoneyInv, Money, ConfirmedIsPaid, Promise!vars
  <2> QED
    BY <2>2, <2>3 DEF IInv
<1> QED
  BY <1>1, RequestStep, FollowStep, ReconcileStep, OperatorStep, WorldStep DEF Next

-----------------------------------------------------------------------------
(* The theorems.                                                           *)

\* The inductive invariant holds in every reachable state.
THEOREM WithdrawInvariance == Spec => []IInv
<1>1. Init => IInv
  BY InitInv
<1>2. IInv /\ [Next]_vars => IInv'
  BY NextStep
<1> QED
  BY <1>1, <1>2, PTL DEF Spec

\* Every variable keeps its type; in particular no key ever has two batches, or
\* two transfers, in the world.
THEOREM WithdrawTypeCorrect == Spec => []TypeOK
<1>1. IInv => TypeOK
  BY DEF IInv
<1> QED
  BY <1>1, WithdrawInvariance, PTL

\* A withdrawal the program confirmed by itself names a payment of the minimum.
THEOREM ConfirmedPaid == Spec => []ConfirmedIsPaid
<1>1. IInv => ConfirmedIsPaid
  BY DEF IInv
<1> QED
  BY <1>1, WithdrawInvariance, PTL

\* The protocol implements its promise: the amount leaves at most once, only
\* while its row holds it, and never for a row that failed.
THEOREM Implements == Spec => KeepsPromise
<1>1. Init => Promise!Init
  <2> SUFFICES ASSUME Init PROVE Promise!Init
    OBVIOUS
  <2>1. \A k \in Keys : Phase(row[k].status) = "none"
    BY DEF Init, NoRow, Phase, HOLDING
  <2> QED
    BY <2>1 DEF Init, Promise!Init
<1>2. IInv /\ [Next]_vars => [Promise!Next]_(Promise!vars)
  BY NextStep
<1> QED
  BY <1>1, <1>2, WithdrawInvariance, PTL DEF Spec, KeepsPromise, Promise!Spec
=============================================================================
