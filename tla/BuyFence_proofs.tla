---------------------------- MODULE BuyFence_proofs ----------------------------
(***************************************************************************)
(* What holds of BuyFence for every set of tokens, every limit and every   *)
(* number of crashes.                                                      *)
(***************************************************************************)
EXTENDS BuyFence, FoldFacts, TLAPS

-----------------------------------------------------------------------------
(* The inductive invariant.  The first three parts hold of every token.    *)

\* A claim, the worker and the order that carries its id belong together.
ClaimInv ==
    /\ worker.pc # "idle" => worker.tok \in Tokens /\ worker.id \in Ids
    /\ worker.pc \in {"reserved", "verified"} => order[worker.id].st = "none"
    /\ worker.pc = "calling" /\ order[worker.id].st # "none"
         => order[worker.id].tok = worker.tok
    /\ \A i \in Ids : order[i].st # "none" => order[i].tok \in Tokens
    /\ \A t \in Tokens :
        /\ claim[t].state = "none" <=> claim[t].id = None
        /\ claim[t].state = "reserved" => order[claim[t].id].st = "none"
        /\ claim[t].id # None /\ order[claim[t].id].st # "none"
             => order[claim[t].id].tok = t
        /\ claim[t].id # None /\ worker.pc # "idle" /\ claim[t].id = worker.id
             => /\ t = worker.tok /\ claim[t].kind = worker.kind
                /\ worker.pc = "calling" => claim[t].state # "reserved"
        /\ claim[t].age = "old"
             => claim[t].state = "uncertain" /\ ~Pending(claim[t].id)

\* A row and the SELL that owns its closing fence; the stamp of a row is new
\* until its SELL call has ended and the indexer shows what it did.
RowInv ==
    \A t \in Tokens :
        /\ row[t].status # "closing" => seller[t] = NoSell
        /\ row[t].status = "none" => row[t].shares = 0
        /\ seller[t].amt <= row[t].shares
        /\ seller[t].waiting \/ seller[t].st = "wire" => row[t].age = "new"
        /\ row[t].age # "new" => seen[t]

\* A BUY in flight keeps the row from closing, and an OPEN claim means no row.
\* Evidence for an OPEN claim is read once the token's last stamp is due.
FenceInv ==
    \A t \in Tokens :
        /\ claim[t].state \in {"reserved", "submitting"} => row[t].status # "closing"
        /\ claim[t].state # "none" /\ claim[t].kind = "open" => ~Live(t)
        /\ /\ claim[t].state = "uncertain" /\ claim[t].kind = "open"
           /\ claim[t].age # "new" \/ scan[t].id = claim[t].id
           => row[t].age # "new"
        /\ scan[t].chain # -1 /\ scan[t].id = claim[t].id => claim[t].age = "old"
        /\ scan[t].id = None => scan[t] = NoScan
        /\ scan[t].id # None /\ scan[t].id = claim[t].id => claim[t].state = "uncertain"

\* The ledger of one token against its wallet.
Ledger(t) ==
    /\ claim[t].state = "none" => wallet[t] = Tracked(t)
    /\ claim[t].state # "none" /\ order[claim[t].id].st # "filled" => wallet[t] = Tracked(t)
    /\ Tracked(t) <= wallet[t]
    /\ claim[t].state = "submitting" /\ order[claim[t].id].st = "filled"
         => wallet[t] = row[t].shares + order[claim[t].id].size
    /\ worker.pc = "calling" /\ worker.tok = t /\ order[worker.id].st \in {"none", "wire"}
         => claim[t].id = worker.id

\* What a reading of the wallet through the indexer can be: the wallet as it
\* is, or as it was before a fill that no row accounts for yet.
Plausible(t, n) == \/ n = wallet[t]
                   \/ /\ n <= Tracked(t)
                      /\ row[t].status = "closing" => n = Tracked(t)

\* The reconciler's evidence is plausible, and a chain reading is exact.
Evidence(t) ==
    /\ seen[t] => Plausible(t, indexed[t])
    /\ scan[t].id # None /\ scan[t].id = claim[t].id /\ row[t].age # "new"
         => /\ Plausible(t, scan[t].held)
            /\ scan[t].chain # -1 => scan[t].chain = wallet[t]

Fenced(t) == \A i \in Ids : order[i].st = "wire" /\ order[i].tok = t => claim[t].id = i

\* These hold of a token until an operator overrides the facts about it.
LedgerInv == \A t \in Tokens \ waived : Fenced(t) /\ Ledger(t) /\ Evidence(t)

IInv == TypeOK /\ ClaimInv /\ RowInv /\ FenceInv /\ LedgerInv

-----------------------------------------------------------------------------
(* Types.                                                                  *)

\* Every initial state satisfies the inductive invariant.
LEMMA InitInv == Init => IInv
<1> SUFFICES ASSUME Init PROVE IInv
  OBVIOUS
<1> USE ConstantsAssumption
<1>1. TypeOK
  <2>1. NoClaim \in Claims /\ Idle \in Workers /\ NoSell \in Sellers
    BY DEF NoClaim, Idle, NoSell, Claims, Workers, Sellers, Kinds, Ages
  <2>2. NoScan \in Scans /\ NoOrder \in Orders
    BY DEF NoScan, NoOrder, Scans, Orders
  <2>3. [status |-> "none", shares |-> 0, age |-> "old"] \in Rows
    BY DEF Rows, Ages
  <2>4. /\ claim \in [Tokens -> Claims] /\ row \in [Tokens -> Rows]
        /\ seller \in [Tokens -> Sellers] /\ scan \in [Tokens -> Scans]
        /\ order \in [Ids -> Orders] /\ worker \in Workers
    BY <2>1, <2>2, <2>3 DEF Init
  <2>5. rev \in 0..MaxRev /\ crashes \in 0..MaxCrashes
    BY DEF Init, ConstantsAssumption
  <2>6. /\ wallet \in [Tokens -> Nat] /\ indexed \in [Tokens -> Nat]
        /\ seen \in [Tokens -> BOOLEAN] /\ waived \subseteq Tokens
        /\ ack \in {"none", "pending", "acked"} /\ paused \in BOOLEAN
    BY DEF Init
  <2> QED
    BY <2>4, <2>5, <2>6 DEF TypeOK
<1>2. ClaimInv /\ RowInv /\ FenceInv
  BY DEF Init, NoClaim, Idle, NoSell, NoScan, NoOrder,
         ClaimInv, RowInv, FenceInv, Pending, Live
<1>3. LedgerInv
  BY DEF Init, NoClaim, Idle, NoSell, NoScan, NoOrder,
         LedgerInv, Ledger, Evidence, Fenced, Plausible, Tracked, Sold
<1> QED
  BY <1>1, <1>2, <1>3 DEF IInv

\* Every step preserves the types of the variables.  A SELL never takes a row
\* below zero because its amount stays within the row it closes.
LEMMA TypeStep == TypeOK /\ ClaimInv /\ RowInv /\ [Next]_vars => TypeOK'
<1> SUFFICES ASSUME TypeOK, ClaimInv, RowInv, [Next]_vars PROVE TypeOK'
  OBVIOUS
<1> USE ConstantsAssumption
<1>0. worker.pc # "idle" => worker.tok \in Tokens /\ worker.id \in Ids
  BY DEF ClaimInv
<1>1. ASSUME NEW t \in Tokens, NEW i \in Ids, NEW amt \in Amounts,
             PrepareOpen(t, i, amt) \/ PrepareResize(t, i, amt)
      PROVE  TypeOK'
  <2>0. /\ rev \in Nat /\ amt \in Nat /\ claim \in [Tokens -> Claims]
        /\ \E k \in Kinds : Reserve(t, k, i, amt)
    BY <1>1 DEF PrepareOpen, PrepareResize, TypeOK, Amounts, Kinds
  <2>1. claim' \in [Tokens -> Claims]
    <3>1. PICK k \in Kinds : Reserve(t, k, i, amt)
      BY <2>0
    <3>2. [state |-> "reserved", id |-> i, kind |-> k, reserved |-> amt, rev |-> rev, age |-> "new"]
            \in Claims
      BY <2>0 DEF Claims, Ages
    <3> QED
      BY <2>0, <3>1, <3>2 DEF Reserve
  <2>2. worker' \in Workers
    BY <1>1 DEF PrepareOpen, PrepareResize, Reserve, TypeOK, Workers, Kinds, Amounts
  <2>3. order' \in [Ids -> Orders]
    BY <1>1 DEF PrepareOpen, PrepareResize, Reserve, TypeOK, Orders, NoOrder
  <2> QED
    BY <1>1, <2>1, <2>2, <2>3 DEF PrepareOpen, PrepareResize, Reserve, TypeOK
<1>2. ASSUME NEW amt \in Amounts, Clamp(amt) PROVE TypeOK'
  <2>1. worker \in Workers /\ amt \in Nat
    BY DEF TypeOK, Amounts
  <2>2. worker' \in Workers
    BY <1>2, <2>1 DEF Clamp, Workers
  <2> QED
    BY <1>2, <2>2 DEF Clamp, TypeOK, db, outside
<1>3. CASE MarkSubmitting
  <2>1. claim \in [Tokens -> Claims] /\ worker \in Workers /\ worker.tok \in Tokens
    BY <1>3, <1>0 DEF TypeOK, MarkSubmitting
  <2>2. claim' \in [Tokens -> Claims]
    BY <1>3, <2>1 DEF MarkSubmitting, Claims, Ages
  <2>3. worker' \in Workers
    BY <1>3, <2>1 DEF MarkSubmitting, Workers
  <2> QED
    BY <1>3, <2>2, <2>3 DEF MarkSubmitting, TypeOK, outside
<1>4. CASE GiveUp \/ AnswerNotFilled
  <2>1. claim' \in [Tokens -> Claims]
    BY <1>4 DEF GiveUp, AnswerNotFilled, Release, TypeOK, NoClaim, Claims, Kinds, Ages
  <2>2. worker' \in Workers
    BY <1>4 DEF GiveUp, AnswerNotFilled, Idle, Workers, Kinds
  <2> QED
    BY <1>4, <2>1, <2>2 DEF GiveUp, AnswerNotFilled, TypeOK, outside
<1>5. CASE SendOrder
  <2>1. worker \in Workers /\ worker.tok \in Tokens /\ order \in [Ids -> Orders]
    BY <1>5, <1>0 DEF TypeOK, SendOrder
  <2>2. order' \in [Ids -> Orders]
    BY <1>5, <2>1 DEF SendOrder, Orders, Workers
  <2> QED
    BY <1>5, <2>2 DEF SendOrder, TypeOK, db, process
<1>6. CASE AnswerUnknown
  <2>1. claim \in [Tokens -> Claims] /\ worker.tok \in Tokens
    BY <1>0, <1>6 DEF TypeOK, AnswerUnknown
  <2>2. claim' \in [Tokens -> Claims]
    <3>1. CASE claim[worker.tok].id = worker.id
      BY <1>6, <2>1, <3>1 DEF AnswerUnknown, MarkUncertain, Claims, Ages
    <3> QED
      BY <1>6, <2>1, <3>1 DEF AnswerUnknown, MarkUncertain
  <2>3. worker' \in Workers
    BY <1>6 DEF AnswerUnknown, Idle, Workers, Kinds
  <2> QED
    BY <1>6, <2>2, <2>3 DEF AnswerUnknown, TypeOK, outside
<1>7. CASE AnswerFilled
  <2>1. claim \in [Tokens -> Claims] /\ worker.tok \in Tokens /\ worker.id \in Ids
    BY <1>0, <1>7 DEF TypeOK, AnswerFilled
  <2>2. worker' \in Workers
    BY <1>7 DEF AnswerFilled, Idle, Workers, Kinds
  <2>3. CASE CanRecord(worker.tok, worker.id)
    <3>1. claim' \in [Tokens -> Claims]
      BY <1>7, <2>1, <2>3 DEF AnswerFilled, NoClaim, Claims, Kinds, Ages
    <3>2. order[worker.id].size \in Nat /\ row \in [Tokens -> Rows]
      BY <2>1 DEF TypeOK, Orders
    <3>3. row' = [row EXCEPT ![worker.tok].status = "open",
                             ![worker.tok].shares = @ + order[worker.id].size,
                             ![worker.tok].age = IF worker.kind = "open" THEN "new" ELSE @]
      BY <1>7, <2>3 DEF AnswerFilled
    <3>4. row' \in [Tokens -> Rows]
      BY <2>1, <3>2, <3>3 DEF Rows, Ages
    <3>5. seen' \in [Tokens -> BOOLEAN]
      BY <1>7, <2>3 DEF AnswerFilled, TypeOK
    <3> QED
      BY <1>7, <2>2, <3>1, <3>4, <3>5 DEF AnswerFilled, TypeOK
  <2>4. CASE ~CanRecord(worker.tok, worker.id)
    <3>1. UNCHANGED <<row, seen>>
      BY <1>7, <2>4 DEF AnswerFilled
    <3>2. claim' \in [Tokens -> Claims]
      <4>1. MarkUncertain(worker.tok, worker.id)
        BY <1>7, <2>4 DEF AnswerFilled
      <4>2. CASE claim[worker.tok].id = worker.id
        BY <2>1, <4>1, <4>2 DEF MarkUncertain, Claims, Ages
      <4> QED
        BY <2>1, <4>1, <4>2 DEF MarkUncertain
    <3> QED
      BY <1>7, <2>2, <3>1, <3>2 DEF AnswerFilled, TypeOK
  <2> QED
    BY <2>3, <2>4
<1>8. ASSUME NEW i \in Ids, Fill(i) \/ Kill(i) PROVE TypeOK'
  <2>1. order \in [Ids -> Orders]
    BY DEF TypeOK
  <2>2. order' \in [Ids -> Orders]
    BY <1>8, <2>1 DEF Fill, Kill, Orders
  <2>3. wallet' \in [Tokens -> Nat]
    <3>1. order[i].size \in Nat
      BY <2>1 DEF Orders
    <3> QED
      BY <1>8, <3>1 DEF Fill, Kill, TypeOK
  <2> QED
    BY <1>8, <2>2, <2>3 DEF Fill, Kill, TypeOK, db, process
<1>9. ASSUME NEW t \in Tokens, NEW amt \in Amounts, SellClaim(t, amt) PROVE TypeOK'
  <2>1. row \in [Tokens -> Rows]
    BY DEF TypeOK
  <2>2. row' \in [Tokens -> Rows]
    BY <1>9, <2>1 DEF SellClaim, Rows, Ages
  <2>3. seller' \in [Tokens -> Sellers]
    BY <1>9 DEF SellClaim, TypeOK, Sellers, Amounts
  <2> QED
    BY <1>9, <2>2, <2>3 DEF SellClaim, TypeOK
<1>10. ASSUME NEW t \in Tokens,
              SellSend(t) \/ SellUncertain(t) \/ SellKill(t)
       PROVE  TypeOK'
  <2>1. seller \in [Tokens -> Sellers]
    BY DEF TypeOK
  <2>2. seller' \in [Tokens -> Sellers]
    <3>1. CASE SellSend(t)
      BY <2>1, <3>1 DEF SellSend, Sellers
    <3>2. CASE SellUncertain(t)
      BY <2>1, <3>2 DEF SellUncertain, Sellers
    <3>3. CASE SellKill(t)
      BY <2>1, <3>3 DEF SellKill, Sellers
    <3> QED
      BY <1>10, <3>1, <3>2, <3>3
  <2> QED
    BY <1>10, <2>2 DEF SellSend, SellUncertain, SellKill, TypeOK, db, outside
<1>11. ASSUME NEW t \in Tokens, SellFill(t) PROVE TypeOK'
  <2>1. seller \in [Tokens -> Sellers] /\ wallet \in [Tokens -> Nat]
    BY DEF TypeOK
  <2>2. seller' \in [Tokens -> Sellers]
    BY <1>11, <2>1 DEF SellFill, Sellers
  <2>3. wallet' \in [Tokens -> Nat]
    BY <1>11, <2>1 DEF SellFill, Sellers
  <2> QED
    BY <1>11, <2>2, <2>3 DEF SellFill, TypeOK, db
<1>12. ASSUME NEW t \in Tokens, SellRecord(t) \/ SellNotSent(t) \/ RecoverClosing(t)
       PROVE  TypeOK'
  <2>1. /\ row \in [Tokens -> Rows] /\ seller[t].amt \in Nat
        /\ seller[t].amt <= row[t].shares
    BY DEF TypeOK, Sellers, RowInv
  <2>2. row' \in [Tokens -> Rows]
    <3>1. CASE SellRecord(t)
      <4>1. CASE seller[t].amt = row[t].shares
        BY <2>1, <3>1, <4>1 DEF SellRecord, Rows, Ages, Gone
      <4>2. CASE seller[t].amt # row[t].shares
        <5>1. row[t].shares - seller[t].amt \in Nat
          BY <2>1 DEF Rows
        <5>2. row' = [row EXCEPT ![t].status = "open",
                                 ![t].shares = row[t].shares - seller[t].amt]
          BY <2>1, <3>1, <4>2 DEF SellRecord
        <5>3. ASSUME NEW n \in Nat
              PROVE  [row EXCEPT ![t].status = "open", ![t].shares = n] \in [Tokens -> Rows]
          BY <2>1 DEF Rows
        <5> QED
          BY <5>1, <5>2, <5>3
      <4> QED
        BY <4>1, <4>2
    <3>2. CASE SellNotSent(t) \/ RecoverClosing(t)
      BY <2>1, <3>2 DEF SellNotSent, RecoverClosing, Rows, Ages, Gone
    <3> QED
      BY <1>12, <3>1, <3>2
  <2>3. seller' \in [Tokens -> Sellers]
    <3>1. NoSell \in Sellers /\ seller' = [seller EXCEPT ![t] = NoSell]
      BY <1>12 DEF SellRecord, SellNotSent, RecoverClosing, NoSell, Sellers
    <3> QED
      BY <3>1 DEF TypeOK
  <2>4. seen' \in [Tokens -> BOOLEAN]
    BY <1>12 DEF SellRecord, SellNotSent, RecoverClosing, TypeOK, outside
  <2> QED
    BY <1>12, <2>2, <2>3, <2>4 DEF SellRecord, SellNotSent, RecoverClosing, TypeOK, outside
<1>13. ASSUME NEW t \in Tokens, RecoverStale(t) PROVE TypeOK'
  <2>1. claim \in [Tokens -> Claims] /\ NoClaim \in Claims
    BY DEF TypeOK, NoClaim, Claims, Kinds, Ages
  <2>2. claim' \in [Tokens -> Claims]
    <3>1. [claim[t] EXCEPT !.state = "uncertain", !.age = "new"] \in Claims
      BY <2>1 DEF Claims, Ages
    <3>2. claim' = [claim EXCEPT ![t] = NoClaim]
          \/ claim' = [claim EXCEPT ![t] = [claim[t] EXCEPT !.state = "uncertain", !.age = "new"]]
      BY <1>13, <2>1 DEF RecoverStale
    <3> QED
      BY <2>1, <3>1, <3>2
  <2> QED
    BY <1>13, <2>2 DEF RecoverStale, TypeOK, process, outside
<1>14. ASSUME NEW t \in Tokens, Scan(t) PROVE TypeOK'
  <2>1. scan' \in [Tokens -> Scans]
    BY <1>14 DEF Scan, TypeOK, Scans, Claims
  <2> QED
    BY <1>14, <2>1 DEF Scan, TypeOK, db, outside
<1>15. ASSUME NEW t \in Tokens, ReadChain(t) PROVE TypeOK'
  <2>1. scan \in [Tokens -> Scans] /\ wallet[t] \in Nat
    BY DEF TypeOK
  <2>2. scan' \in [Tokens -> Scans]
    BY <1>15, <2>1 DEF ReadChain, Scans
  <2> QED
    BY <1>15, <2>2 DEF ReadChain, TypeOK, db, outside
<1>16. ASSUME NEW t \in Tokens, Settle(t) PROVE TypeOK'
  <2>1. NoClaim \in Claims /\ NoScan \in Scans
    BY DEF NoClaim, Claims, Kinds, Ages, NoScan, Scans
  <2>2. \/ UNCHANGED claim
        \/ claim' = [claim EXCEPT ![t] = NoClaim]
    BY <1>16 DEF Settle
  <2>3. \/ UNCHANGED <<row, seen>>
        \/ /\ row' = [row EXCEPT ![t] = [status |-> "open", shares |-> scan[t].held,
                                         age |-> IF Live(t) THEN @.age ELSE "new"]]
           /\ seen' = [seen EXCEPT ![t] = @ /\ Live(t)]
    BY <1>16 DEF Settle
  <2>4. row' \in [Tokens -> Rows]
    <3>1. scan[t].held \in Nat /\ row \in [Tokens -> Rows]
      BY DEF TypeOK, Scans
    <3> QED
      BY <2>3, <3>1 DEF Rows, Ages
  <2>5. seen' \in [Tokens -> BOOLEAN]
    BY <2>3 DEF TypeOK
  <2> QED
    BY <1>16, <2>1, <2>2, <2>4, <2>5 DEF Settle, TypeOK
<1>17. ASSUME NEW t \in Tokens, NEW force \in BOOLEAN, OperatorClear(t, force)
       PROVE  TypeOK'
  <2>1. NoClaim \in Claims
    BY DEF NoClaim, Claims, Kinds, Ages
  <2> QED
    BY <1>17, <2>1 DEF OperatorClear, TypeOK, process, outside
<1>18. ASSUME NEW v \in BOOLEAN, SettingsWrite(v) PROVE TypeOK'
  <2>1. (rev + 1) % (MaxRev + 1) \in 0..MaxRev
    BY DEF TypeOK
  <2> QED
    BY <1>18, <2>1 DEF SettingsWrite, TypeOK, outside
<1>19. CASE SettingsAck \/ SettingsTimeout
  BY <1>19 DEF SettingsAck, SettingsTimeout, TypeOK, db, outside
<1>20. ASSUME NEW t \in Tokens, IndexerCatchUp(t) PROVE TypeOK'
  BY <1>20 DEF IndexerCatchUp, TypeOK, db, process
<1>21. ASSUME NEW t \in Tokens, AgeClaim(t) PROVE TypeOK'
  <2>1. claim \in [Tokens -> Claims]
    BY DEF TypeOK
  <2>2. claim' \in [Tokens -> Claims]
    BY <1>21, <2>1 DEF AgeClaim, Claims, Ages
  <2> QED
    BY <1>21, <2>2 DEF AgeClaim, TypeOK, process, outside
<1>22. ASSUME NEW t \in Tokens, AgeRow(t) PROVE TypeOK'
  <2>1. row \in [Tokens -> Rows]
    BY DEF TypeOK
  <2>2. row' \in [Tokens -> Rows]
    BY <1>22, <2>1 DEF AgeRow, Rows, Ages
  <2> QED
    BY <1>22, <2>2 DEF AgeRow, TypeOK, process, outside
<1>23. CASE Crash
  <2>1. seller \in [Tokens -> Sellers] /\ NoScan \in Scans /\ Idle \in Workers
    BY DEF TypeOK, NoScan, Scans, Idle, Workers, Kinds
  <2>2. seller' \in [Tokens -> Sellers]
    BY <1>23, <2>1 DEF Crash, Sellers
  <2> QED
    BY <1>23, <2>1, <2>2 DEF Crash, TypeOK, db, outside
<1>24. CASE UNCHANGED vars
  BY <1>24 DEF vars, TypeOK
<1> QED
  BY <1>1, <1>2, <1>3, <1>4, <1>5, <1>6, <1>7, <1>8, <1>9, <1>10, <1>11, <1>12,
     <1>13, <1>14, <1>15, <1>16, <1>17, <1>18, <1>19, <1>20, <1>21, <1>22, <1>23, <1>24
     DEF Next, Buying, Selling, Reconciling, Settings, World

-----------------------------------------------------------------------------
(* Claims, the worker and its order.                                       *)

\* One claim is kept, dropped, or its outcome becomes uncertain.
Drops(s) == claim'[s] = NoClaim
Parks(s) == /\ claim[s].state \in {"submitting", "uncertain"} /\ claim[s].age # "old"
            /\ claim'[s].state = "uncertain" /\ claim'[s].age = "new"
            /\ claim'[s].id = claim[s].id /\ claim'[s].kind = claim[s].kind
            /\ claim'[s].reserved = claim[s].reserved
Keeps(s) == claim'[s] = claim[s]

\* What the answers, the reconciler, the operator and a crash do to claims.
LEMMA SettlingTypes ==
    ASSUME TypeOK, ClaimInv,
           \/ GiveUp \/ AnswerNotFilled \/ AnswerUnknown \/ AnswerFilled \/ Crash
           \/ \E t \in Tokens : RecoverStale(t) \/ Settle(t)
                               \/ \E force \in BOOLEAN : OperatorClear(t, force)
    PROVE  /\ order' = order /\ worker' \in {worker, Idle}
           /\ \A s \in Tokens : Keeps(s) \/ Drops(s) \/ Parks(s)
<1>0. claim \in [Tokens -> Claims] /\ (worker.pc # "idle" => worker.tok \in Tokens /\ worker.id \in Ids)
  BY DEF TypeOK, ClaimInv
<1>1. CASE GiveUp \/ AnswerNotFilled
  BY <1>0, <1>1 DEF GiveUp, AnswerNotFilled, Release, outside, Keeps, Drops
<1>2. ASSUME worker.pc = "calling", MarkUncertain(worker.tok, worker.id)
      PROVE  \A s \in Tokens : Keeps(s) \/ Parks(s)
  <2>1. CASE claim[worker.tok].id = worker.id
    <3>1. claim[worker.tok].state \in {"submitting", "uncertain"}
      BY <1>0, <1>2, <2>1, ConstantsAssumption DEF ClaimInv, Claims
    <3>2. claim[worker.tok].age # "old"
      BY <1>0, <1>2, <2>1 DEF ClaimInv, Pending
    <3> QED
      BY <1>0, <1>2, <2>1, <3>1, <3>2 DEF MarkUncertain, Keeps, Parks
  <2> QED
    BY <1>2, <2>1 DEF MarkUncertain, Keeps
<1>3. CASE AnswerUnknown
  BY <1>2, <1>3 DEF AnswerUnknown, outside
<1>4. CASE AnswerFilled
  <2>1. CASE CanRecord(worker.tok, worker.id)
    BY <1>0, <1>4, <2>1 DEF AnswerFilled, Keeps, Drops
  <2> QED
    BY <1>2, <1>4, <2>1 DEF AnswerFilled
<1>5. CASE Crash
  BY <1>5 DEF Crash, db, outside, Keeps
<1>6. ASSUME NEW t \in Tokens, RecoverStale(t)
      PROVE  /\ order' = order /\ worker' = worker
             /\ \A s \in Tokens : Keeps(s) \/ Drops(s) \/ Parks(s)
  <2>1. CASE claim[t].state = "reserved"
    BY <1>0, <1>6, <2>1 DEF RecoverStale, process, outside, Keeps, Drops
  <2>2. CASE claim[t].state = "submitting"
    <3>1. claim' = [claim EXCEPT ![t] = [claim[t] EXCEPT !.state = "uncertain", !.age = "new"]]
      BY <1>0, <1>6, <2>2 DEF RecoverStale
    <3>2. Parks(t) /\ \A s \in Tokens \ {t} : Keeps(s)
      <4>1. claim[t].age = "due"
        BY <1>6 DEF RecoverStale
      <4> QED
        BY <1>0, <2>2, <3>1, <4>1 DEF Parks, Keeps, Claims
    <3> QED
      BY <1>6, <3>2 DEF RecoverStale, process, outside
  <2> QED
    BY <1>6, <2>1, <2>2 DEF RecoverStale
<1>7. ASSUME NEW t \in Tokens, Settle(t) \/ \E force \in BOOLEAN : OperatorClear(t, force)
      PROVE  /\ order' = order /\ worker' = worker
             /\ \A s \in Tokens : Keeps(s) \/ Drops(s)
  <2>1. claim' = claim \/ claim' = [claim EXCEPT ![t] = NoClaim]
    BY <1>7 DEF Settle, OperatorClear
  <2> QED
    BY <1>0, <1>7, <2>1 DEF Settle, OperatorClear, process, outside, Keeps, Drops
<1> QED
  BY <1>1, <1>3, <1>4, <1>5, <1>6, <1>7

\* Every step keeps a claim, the worker and the order of that id together.
LEMMA ClaimStep == TypeOK /\ TypeOK' /\ ClaimInv /\ [Next]_vars => ClaimInv'
<1> SUFFICES ASSUME TypeOK, TypeOK', ClaimInv, [Next]_vars PROVE ClaimInv'
  OBVIOUS
<1> USE ConstantsAssumption
<1>0. /\ claim \in [Tokens -> Claims] /\ worker \in Workers /\ order \in [Ids -> Orders]
      /\ claim' \in [Tokens -> Claims] /\ worker' \in Workers /\ order' \in [Ids -> Orders]
  BY DEF TypeOK
<1>1. ASSUME order' = order, worker' \in {worker, Idle},
             \A s \in Tokens : Keeps(s) \/ Drops(s) \/ Parks(s)
      PROVE  ClaimInv'
  BY <1>0, <1>1 DEF ClaimInv, Keeps, Drops, Parks, NoClaim, Idle, Pending
<1>2. ASSUME UNCHANGED <<claim, worker, order>> PROVE ClaimInv'
  BY <1>2 DEF ClaimInv, Pending
<1>3. ASSUME NEW t \in Tokens, NEW i \in Ids, NEW amt \in Amounts,
             PrepareOpen(t, i, amt) \/ PrepareResize(t, i, amt)
      PROVE  ClaimInv'
  <2>1. /\ worker.pc = "idle" /\ Fresh(i)
        /\ worker'.pc = "reserved" /\ worker'.tok = t /\ worker'.id = i
        /\ claim'[t].state = "reserved" /\ claim'[t].id = i /\ claim'[t].age = "new"
        /\ claim'[t].kind = worker'.kind
        /\ \A s \in Tokens \ {t} : claim'[s] = claim[s]
        /\ order'[i].st = "none"
        /\ \A j \in Ids \ {i} : order'[j] = order[j]
    BY <1>0, <1>3 DEF PrepareOpen, PrepareResize, Reserve, NoOrder, Idle
  <2>2. \A s \in Tokens : claim[s].id # i
    BY <2>1 DEF Fresh
  <2> QED
    BY <1>0, <2>1, <2>2 DEF ClaimInv, Pending, Claims
<1>4. ASSUME NEW amt \in Amounts, Clamp(amt) PROVE ClaimInv'
  BY <1>0, <1>4 DEF Clamp, db, outside, ClaimInv, Pending
<1>5. CASE MarkSubmitting
  <2>1. /\ order' = order /\ worker.pc = "verified" /\ worker'.pc = "calling"
        /\ worker'.tok = worker.tok /\ worker'.id = worker.id /\ worker'.kind = worker.kind
        /\ worker.tok \in Tokens /\ worker.id \in Ids /\ order[worker.id].st = "none"
        /\ claim[worker.tok].id = worker.id /\ claim[worker.tok].state = "reserved"
    BY <1>0, <1>5 DEF MarkSubmitting, CanSubmit, outside, ClaimInv, Workers
  <2>2. /\ claim'[worker.tok].state = "submitting" /\ claim'[worker.tok].age = "new"
        /\ claim'[worker.tok].id = worker.id /\ claim'[worker.tok].kind = claim[worker.tok].kind
        /\ \A s \in Tokens \ {worker.tok} : claim'[s] = claim[s]
    BY <1>0, <1>5, <2>1 DEF MarkSubmitting, Claims
  <2>3. \A s \in Tokens \ {worker.tok} : claim[s].id # worker.id
    BY <1>0, <2>1 DEF ClaimInv
  <2>4. \A s \in Tokens \ {worker.tok} : Pending(claim[s].id)' <=> Pending(claim[s].id)
    BY <2>1, <2>2, <2>3 DEF Pending
  <2> QED
    BY <1>0, <2>1, <2>2, <2>3, <2>4 DEF ClaimInv
<1>6. CASE SendOrder
  BY <1>0, <1>6 DEF SendOrder, db, process, ClaimInv, Pending
<1>7. ASSUME NEW i \in Ids, Fill(i) \/ Kill(i) PROVE ClaimInv'
  <2>1. /\ claim' = claim /\ worker' = worker
        /\ order[i].st = "wire" /\ order'[i].st \in {"filled", "dead"}
        /\ order'[i].tok = order[i].tok
        /\ \A j \in Ids \ {i} : order'[j] = order[j]
    BY <1>0, <1>7 DEF Fill, Kill, db, process, Orders
  <2>2. \A j \in Ids : /\ order'[j].tok = order[j].tok
                       /\ order'[j].st = "none" <=> order[j].st = "none"
                       /\ order'[j].st = "wire" => order[j].st = "wire"
    <3> TAKE j \in Ids
    <3> QED
      BY <2>1, j = i \/ j \in Ids \ {i}
  <2>3. \A s \in Tokens : claim[s].id # None => claim[s].id \in Ids
    BY <1>0 DEF Claims
  <2>4. \A s \in Tokens : claim[s].state = "reserved" => claim[s].id # None
    BY DEF ClaimInv
  <2>5. \A j \in Ids : Pending(j)' => Pending(j)
    BY <2>1, <2>2 DEF Pending
  <2>6. \A s \in Tokens : claim[s].age = "old" => claim[s].id # None
    BY DEF ClaimInv
  <2> QED
    BY <2>1, <2>2, <2>3, <2>4, <2>5, <2>6 DEF ClaimInv
<1>8. ASSUME NEW t \in Tokens, AgeClaim(t) PROVE ClaimInv'
  <2>1. /\ worker' = worker /\ order' = order
        /\ \A s \in Tokens :
             /\ claim'[s].state = claim[s].state /\ claim'[s].id = claim[s].id
             /\ claim'[s].kind = claim[s].kind
             /\ claim'[s].age = "old"
                  => claim[s].age = "old" \/ (claim[s].state = "uncertain" /\ ~Pending(claim[s].id))
    <3>1. worker' = worker /\ order' = order
      BY <1>8 DEF AgeClaim, process, outside
    <3>2. CASE claim' = [claim EXCEPT ![t].age = "due"]
      BY <1>0, <3>1, <3>2 DEF Claims
    <3>3. CASE /\ claim[t].state = "uncertain" /\ ~Pending(claim[t].id)
               /\ claim' = [claim EXCEPT ![t].age = "old"]
      BY <1>0, <3>1, <3>3 DEF Claims
    <3> QED
      BY <1>8, <3>2, <3>3 DEF AgeClaim
  <2> QED
    BY <1>0, <2>1 DEF ClaimInv, Pending
<1>9. ASSUME NEW t \in Tokens,
             \/ \E amt \in Amounts : SellClaim(t, amt)
             \/ SellSend(t) \/ SellNotSent(t) \/ SellUncertain(t) \/ SellRecord(t)
             \/ SellFill(t) \/ SellKill(t) \/ RecoverClosing(t)
      PROVE  UNCHANGED <<claim, worker, order>>
  BY <1>9 DEF SellClaim, SellSend, SellNotSent, SellUncertain, SellRecord,
              SellFill, SellKill, RecoverClosing, db, outside
<1>10. ASSUME \/ \E t \in Tokens : Scan(t) \/ ReadChain(t) \/ IndexerCatchUp(t) \/ AgeRow(t)
              \/ \E v \in BOOLEAN : SettingsWrite(v)
              \/ SettingsAck \/ SettingsTimeout \/ UNCHANGED vars
       PROVE  UNCHANGED <<claim, worker, order>>
  BY <1>10 DEF Scan, ReadChain, IndexerCatchUp, AgeRow, SettingsWrite, SettingsAck,
               SettingsTimeout, db, process, outside, vars
<1> QED
  BY <1>1, <1>2, <1>3, <1>4, <1>5, <1>6, <1>7, <1>8, <1>9, <1>10, SettlingTypes
     DEF Next, Buying, Selling, Reconciling, Settings, World

-----------------------------------------------------------------------------
(* Rows and their SELLs.                                                   *)

\* A claim settles by adoption only while the row is not closing, and then only
\* on a holding larger than the row.
LEMMA AdoptFacts ==
    ASSUME NEW t \in Tokens, Settle(t), ~UNCHANGED row
    PROVE  /\ row[t].status # "closing" /\ Verdict(t) = "adopt" /\ Adoptable(t)
           /\ claim[t].id = scan[t].id /\ claim[t].state = "uncertain"
           /\ claim' = [claim EXCEPT ![t] = NoClaim]
           /\ row' = [row EXCEPT ![t] = [status |-> "open", shares |-> scan[t].held,
                                        age |-> IF Live(t) THEN @.age ELSE "new"]]
           /\ seen' = [seen EXCEPT ![t] = @ /\ Live(t)]
<1>1. /\ Verdict(t) = "adopt" /\ Adoptable(t)
      /\ claim[t].id = scan[t].id /\ claim[t].state = "uncertain"
      /\ claim' = [claim EXCEPT ![t] = NoClaim]
      /\ row' = [row EXCEPT ![t] = [status |-> "open", shares |-> scan[t].held,
                                   age |-> IF Live(t) THEN @.age ELSE "new"]]
      /\ seen' = [seen EXCEPT ![t] = @ /\ Live(t)]
  BY DEF Settle
<1>2. row[t].status # "closing"
  BY <1>1 DEF Verdict, ChainVerdict, IndexerVerdict, Live
<1> QED
  BY <1>1, <1>2

\* Every step keeps a row, its SELL and its stamp together.
LEMMA RowStep == TypeOK /\ TypeOK' /\ RowInv /\ [Next]_vars => RowInv'
<1> SUFFICES ASSUME TypeOK, TypeOK', RowInv, [Next]_vars PROVE RowInv'
  OBVIOUS
<1>0. /\ row \in [Tokens -> Rows] /\ seller \in [Tokens -> Sellers] /\ seen \in [Tokens -> BOOLEAN]
      /\ row' \in [Tokens -> Rows] /\ seller' \in [Tokens -> Sellers]
  BY DEF TypeOK
<1>1. ASSUME UNCHANGED <<row, seller, seen>> PROVE RowInv'
  BY <1>1 DEF RowInv
<1>2. CASE AnswerFilled
  <2>1. CASE UNCHANGED <<row, seen>>
    BY <1>1, <1>2, <2>1 DEF AnswerFilled
  <2>2. CASE CanRecord(worker.tok, worker.id)
    BY <1>0, <1>2, <2>2 DEF AnswerFilled, CanRecord, RowInv, Rows, Sellers, NoSell
  <2> QED
    BY <1>2, <2>1, <2>2 DEF AnswerFilled
<1>3. ASSUME NEW t \in Tokens, NEW amt \in Amounts, SellClaim(t, amt) PROVE RowInv'
  BY <1>0, <1>3 DEF SellClaim, RowInv, Rows, Sellers, NoSell
<1>4. ASSUME NEW t \in Tokens,
             SellSend(t) \/ SellKill(t) \/ SellUncertain(t) \/ SellFill(t)
      PROVE  RowInv'
  <2>1. /\ row' = row /\ \A s \in Tokens \ {t} : seller'[s] = seller[s] /\ seen'[s] = seen[s]
        /\ seller'[t].amt = seller[t].amt
        /\ seller[t].waiting \/ seller[t].st = "wire"
    BY <1>0, <1>4 DEF SellSend, SellKill, SellUncertain, SellFill, Sellers, db, outside
  <2>2. row[t].status = "closing" /\ row[t].age = "new"
    BY <1>0, <2>1 DEF RowInv, NoSell
  <2> QED
    BY <1>0, <2>1, <2>2 DEF RowInv, Rows, Sellers
<1>5. ASSUME NEW t \in Tokens, SellNotSent(t) \/ SellRecord(t) \/ RecoverClosing(t)
      PROVE  RowInv'
  BY <1>0, <1>5 DEF SellNotSent, SellRecord, RecoverClosing, RowInv, Rows, Sellers,
                    NoSell, Gone, outside
<1>6. ASSUME NEW t \in Tokens, Settle(t) PROVE RowInv'
  <2>1. CASE UNCHANGED row
    BY <1>0, <1>6, <2>1 DEF Settle, RowInv
  <2>2. CASE ~UNCHANGED row
    <3>1. /\ row[t].status # "closing" /\ seller' = seller
          /\ row'[t].status = "open" /\ row'[t].age = (IF Live(t) THEN row[t].age ELSE "new")
          /\ seen'[t] = (seen[t] /\ Live(t))
          /\ \A s \in Tokens \ {t} : row'[s] = row[s] /\ seen'[s] = seen[s]
      <4>1. /\ row[t].status # "closing"
            /\ row' = [row EXCEPT ![t] = [status |-> "open", shares |-> scan[t].held,
                                         age |-> IF Live(t) THEN row[t].age ELSE "new"]]
            /\ seen' = [seen EXCEPT ![t] = seen[t] /\ Live(t)]
        BY <1>6, <2>2, AdoptFacts
      <4> QED
        BY <1>0, <1>6, <4>1 DEF Settle
    <3>2. seller'[t].amt <= row'[t].shares
      BY <1>0, <3>1 DEF RowInv, Rows, NoSell
    <3> QED
      BY <1>0, <3>1, <3>2 DEF RowInv, Rows, NoSell
  <2> QED
    BY <2>1, <2>2
<1>7. ASSUME NEW t \in Tokens, IndexerCatchUp(t) \/ AgeRow(t) PROVE RowInv'
  <2>1. CASE IndexerCatchUp(t)
    BY <1>0, <2>1 DEF IndexerCatchUp, RowInv, db, process
  <2>2. CASE AgeRow(t)
    <3>1. /\ seller' = seller /\ seen' = seen
          /\ \A s \in Tokens \ {t} : row'[s] = row[s]
          /\ row'[t].status = row[t].status /\ row'[t].shares = row[t].shares
          /\ row'[t].age # "new"
      BY <1>0, <2>2 DEF AgeRow, Rows, process, outside
    <3>2. seen[t] /\ ~seller[t].waiting /\ seller[t].st # "wire"
      BY <1>0, <2>2 DEF AgeRow, RowInv
    <3> QED
      BY <1>0, <3>1, <3>2 DEF RowInv, Rows
  <2> QED
    BY <1>7, <2>1, <2>2
<1>8. CASE Crash
  <2>1. /\ row' = row /\ seen' = seen
        /\ \A t \in Tokens : /\ seller'[t].waiting = FALSE /\ seller'[t].st = seller[t].st
                            /\ seller'[t].amt = seller[t].amt
    BY <1>0, <1>8 DEF Crash, Sellers, db, outside
  <2>2. \A t \in Tokens : seller[t] = NoSell => seller'[t] = NoSell
    BY <1>0, <2>1 DEF NoSell, Sellers
  <2> QED
    BY <1>0, <2>1, <2>2 DEF RowInv, Sellers
<1>9. ASSUME \/ \E t \in Tokens, i \in Ids, amt \in Amounts :
                   PrepareOpen(t, i, amt) \/ PrepareResize(t, i, amt)
             \/ \E amt \in Amounts : Clamp(amt)
             \/ MarkSubmitting \/ GiveUp \/ SendOrder \/ AnswerNotFilled \/ AnswerUnknown
             \/ \E i \in Ids : Fill(i) \/ Kill(i)
      PROVE  UNCHANGED <<row, seller, seen>>
  BY <1>9 DEF PrepareOpen, PrepareResize, Reserve, Clamp, MarkSubmitting, GiveUp, SendOrder,
              AnswerNotFilled, AnswerUnknown, Fill, Kill, db, process, outside
<1>10. ASSUME \/ \E t \in Tokens : RecoverStale(t) \/ Scan(t) \/ ReadChain(t) \/ AgeClaim(t)
              \/ \E t \in Tokens, force \in BOOLEAN : OperatorClear(t, force)
              \/ \E v \in BOOLEAN : SettingsWrite(v)
              \/ SettingsAck \/ SettingsTimeout \/ UNCHANGED vars
       PROVE  UNCHANGED <<row, seller, seen>>
  BY <1>10 DEF RecoverStale, Scan, ReadChain, AgeClaim, OperatorClear, SettingsWrite,
               SettingsAck, SettingsTimeout, db, process, outside, vars
<1> QED
  BY <1>1, <1>2, <1>3, <1>4, <1>5, <1>6, <1>7, <1>8, <1>9, <1>10
     DEF Next, Buying, Selling, Reconciling, Settings, World

-----------------------------------------------------------------------------
(* Claims against rows and evidence.                                       *)

\* Every step keeps claims, rows and the evidence for a claim in agreement.
LEMMA FenceStep ==
    /\ TypeOK /\ TypeOK' /\ ClaimInv /\ RowInv /\ FenceInv
    /\ [Next]_vars
    => FenceInv'
<1> SUFFICES ASSUME TypeOK, TypeOK', ClaimInv, RowInv, FenceInv, [Next]_vars PROVE FenceInv'
  OBVIOUS
<1> USE ConstantsAssumption
<1>0. /\ claim \in [Tokens -> Claims] /\ row \in [Tokens -> Rows] /\ scan \in [Tokens -> Scans]
      /\ claim' \in [Tokens -> Claims] /\ row' \in [Tokens -> Rows] /\ scan' \in [Tokens -> Scans]
      /\ worker \in Workers /\ seller \in [Tokens -> Sellers]
  BY DEF TypeOK
<1>1. ASSUME UNCHANGED <<claim, row, scan>> PROVE FenceInv'
  BY <1>1 DEF FenceInv, Live
<1>2. ASSUME \A s \in Tokens : Keeps(s) \/ Drops(s) \/ Parks(s),
             \A s \in Tokens : row'[s] = row[s] \/ Drops(s),
             \A s \in Tokens : scan'[s] \in {scan[s], NoScan}
      PROVE  FenceInv'
  BY <1>0, <1>2 DEF FenceInv, Live, Keeps, Drops, Parks, NoClaim, NoScan, ClaimInv
<1>3. ASSUME NEW t \in Tokens, NEW i \in Ids, NEW amt \in Amounts,
             PrepareOpen(t, i, amt) \/ PrepareResize(t, i, amt)
      PROVE  FenceInv'
  <2>1. /\ row' = row /\ scan' = scan /\ scan[t].id # i
        /\ claim'[t].state = "reserved" /\ claim'[t].id = i /\ claim'[t].age = "new"
        /\ row[t].status # "closing" /\ (claim'[t].kind = "open" => ~Live(t))
        /\ \A s \in Tokens \ {t} : claim'[s] = claim[s]
    BY <1>0, <1>3 DEF PrepareOpen, PrepareResize, Reserve, Fresh, Live
  <2> QED
    BY <1>0, <2>1 DEF FenceInv, Live
<1>4. CASE MarkSubmitting
  <2>1. /\ worker.tok \in Tokens /\ row' = row /\ scan' = scan
        /\ claim[worker.tok].state = "reserved" /\ claim'[worker.tok].state = "submitting"
        /\ claim'[worker.tok].id = claim[worker.tok].id
        /\ claim'[worker.tok].kind = claim[worker.tok].kind
        /\ \A s \in Tokens \ {worker.tok} : claim'[s] = claim[s]
    BY <1>0, <1>4 DEF MarkSubmitting, CanSubmit, ClaimInv, Claims, outside
  <2> QED
    BY <1>0, <2>1 DEF FenceInv, ClaimInv, Live, NoScan
<1>5. CASE GiveUp \/ AnswerNotFilled \/ AnswerUnknown \/ Crash
  BY <1>0, <1>2, <1>5, SettlingTypes
     DEF GiveUp, AnswerNotFilled, AnswerUnknown, Crash, db, outside
<1>6. CASE AnswerFilled
  BY <1>0, <1>2, <1>6, SettlingTypes DEF AnswerFilled, Drops
<1>7. ASSUME NEW t \in Tokens, RecoverStale(t) \/ \E force \in BOOLEAN : OperatorClear(t, force)
      PROVE  FenceInv'
  BY <1>0, <1>2, <1>7, SettlingTypes DEF RecoverStale, OperatorClear, process
<1>8. ASSUME NEW t \in Tokens, Settle(t) PROVE FenceInv'
  <2>1. \A s \in Tokens : row'[s] = row[s] \/ Drops(s)
    <3>1. CASE UNCHANGED row
      BY <3>1
    <3>2. CASE ~UNCHANGED row
      <4>1. /\ claim' = [claim EXCEPT ![t] = NoClaim]
            /\ \A s \in Tokens \ {t} : row'[s] = row[s]
        BY <1>0, <1>8, <3>2, AdoptFacts
      <4> QED
        BY <1>0, <4>1 DEF Drops
    <3> QED
      BY <3>1, <3>2
  <2> QED
    BY <1>0, <1>2, <1>8, <2>1, SettlingTypes DEF Settle
<1>9. ASSUME NEW t \in Tokens, NEW amt \in Amounts, SellClaim(t, amt) PROVE FenceInv'
  BY <1>0, <1>9 DEF SellClaim, SellAllowed, FenceInv, Live, Rows, Claims
<1>10. ASSUME NEW t \in Tokens, SellNotSent(t) \/ SellRecord(t) \/ RecoverClosing(t)
       PROVE  FenceInv'
  <2>1. row[t].status = "closing"
    BY <1>0, <1>10 DEF SellNotSent, SellRecord, RecoverClosing, RowInv, NoSell
  <2>2. /\ claim' = claim /\ scan' = scan /\ row'[t].status # "closing"
        /\ \A s \in Tokens \ {t} : row'[s] = row[s]
    BY <1>0, <1>10 DEF SellNotSent, SellRecord, RecoverClosing, Gone, Rows, outside
  <2> QED
    BY <1>0, <2>1, <2>2 DEF FenceInv, Live, Claims
<1>11. ASSUME NEW t \in Tokens, Scan(t) \/ ReadChain(t) PROVE FenceInv'
  BY <1>0, <1>11 DEF Scan, ReadChain, FenceInv, ClaimInv, NoScan, Live, Scans, db, outside
<1>12. ASSUME NEW t \in Tokens, AgeClaim(t) PROVE FenceInv'
  BY <1>0, <1>12 DEF AgeClaim, FenceInv, ClaimInv, NoScan, Live, Claims, process, outside
<1>13. ASSUME NEW t \in Tokens, AgeRow(t) PROVE FenceInv'
  BY <1>0, <1>13 DEF AgeRow, FenceInv, NoScan, Live, Rows, process, outside
<1>14. ASSUME \/ \E amt \in Amounts : Clamp(amt)
              \/ SendOrder \/ \E i \in Ids : Fill(i) \/ Kill(i)
              \/ \E t \in Tokens : \/ SellSend(t) \/ SellUncertain(t) \/ SellFill(t)
                                   \/ SellKill(t) \/ IndexerCatchUp(t)
              \/ \E v \in BOOLEAN : SettingsWrite(v)
              \/ SettingsAck \/ SettingsTimeout \/ UNCHANGED vars
       PROVE  UNCHANGED <<claim, row, scan>>
  BY <1>14 DEF Clamp, SendOrder, Fill, Kill, SellSend, SellUncertain, SellFill, SellKill,
               IndexerCatchUp, SettingsWrite, SettingsAck, SettingsTimeout, db, process, outside, vars
<1> QED
  BY <1>1, <1>3, <1>4, <1>5, <1>6, <1>7, <1>8, <1>9, <1>10, <1>11, <1>12, <1>13, <1>14
     DEF Next, Buying, Selling, Reconciling, Settings, World

-----------------------------------------------------------------------------
(* The ledger.                                                             *)

\* A step that changes nothing the ledger of token s depends on.
Untouched(s) ==
    /\ claim'[s].id = claim[s].id
    /\ claim'[s].state = claim[s].state
          \/ (claim[s].state = "submitting" /\ claim'[s].state = "uncertain")
    /\ row'[s].status = row[s].status /\ row'[s].shares = row[s].shares
    /\ row'[s].age # "new" => row[s].age # "new" \/ scan'[s] = NoScan
    /\ Sold(s)' = Sold(s) /\ wallet'[s] = wallet[s]
    /\ indexed'[s] = indexed[s] /\ seen'[s] = seen[s] /\ scan'[s] \in {scan[s], NoScan}
    /\ \A i \in Ids : \/ order'[i] = order[i]
                      \/ /\ order'[i].tok # s
                         /\ claim[s].id # i
                         /\ ~(worker'.pc = "calling" /\ worker'.tok = s /\ worker'.id = i)
    /\ worker'.pc = "calling" /\ worker'.tok = s
         => worker.pc = "calling" /\ worker.tok = s /\ worker'.id = worker.id

\* Such a step preserves it.
LEMMA UntouchedOk ==
    ASSUME IInv, TypeOK', ClaimInv', NEW s \in Tokens \ waived, Untouched(s)
    PROVE  (Fenced(s) /\ Ledger(s) /\ Evidence(s))'
<1>0. /\ claim \in [Tokens -> Claims] /\ row \in [Tokens -> Rows] /\ order \in [Ids -> Orders]
      /\ claim' \in [Tokens -> Claims] /\ row' \in [Tokens -> Rows] /\ order' \in [Ids -> Orders]
      /\ worker \in Workers /\ worker' \in Workers
  BY DEF IInv, TypeOK
<1>1. Fenced(s) /\ Ledger(s) /\ Evidence(s) /\ Tracked(s)' = Tracked(s)
  BY DEF IInv, LedgerInv, Untouched, Tracked
<1>2. Fenced(s)'
  BY <1>0, <1>1 DEF Untouched, Fenced, Orders
<1>3. Ledger(s)'
  <2>1. claim[s].id # None => order'[claim[s].id] = order[claim[s].id] /\ claim[s].id \in Ids
    BY <1>0 DEF Untouched, Claims
  <2>2. worker'.pc = "calling" /\ worker'.tok = s
          => worker'.id = worker.id /\ order'[worker.id] = order[worker.id]
    BY <1>0 DEF Untouched, ClaimInv
  <2>3. claim'[s].state = "none" <=> claim[s].state = "none"
    BY DEF Untouched
  <2>4. claim[s].state = "none" <=> claim[s].id = None
    BY DEF IInv, ClaimInv
  <2> QED
    BY <1>0, <1>1, <2>1, <2>2, <2>3, <2>4 DEF Untouched, Ledger, Orders
<1>4. Evidence(s)'
  BY <1>0, <1>1 DEF Untouched, Evidence, Plausible, NoScan
<1> QED
  BY <1>2, <1>3, <1>4

\* The part of LedgerInv that speaks of one token.
Ok(s) == Fenced(s) /\ Ledger(s) /\ Evidence(s)

\* Steps that no token's ledger depends on.
LEMMA QuietStep ==
    ASSUME IInv, TypeOK', NEW s \in Tokens,
           \/ \E amt \in Amounts : Clamp(amt)
           \/ \E t \in Tokens : SellSend(t) \/ SellUncertain(t) \/ SellKill(t) \/ AgeClaim(t) \/ AgeRow(t)
           \/ \E v \in BOOLEAN : SettingsWrite(v)
           \/ SettingsAck \/ SettingsTimeout \/ UNCHANGED vars
    PROVE  Untouched(s)
<1> USE DEF Untouched
<1>0. /\ claim \in [Tokens -> Claims] /\ row \in [Tokens -> Rows] /\ seller \in [Tokens -> Sellers]
      /\ worker \in Workers
  BY DEF IInv, TypeOK
<1>1. ASSUME NEW amt \in Amounts, Clamp(amt) PROVE Untouched(s)
  <2>1. worker'.pc = "verified"
    BY <1>0, <1>1 DEF Clamp, Workers
  <2> QED
    BY <1>1, <2>1 DEF Clamp, db, outside, Sold
<1>2. ASSUME NEW t \in Tokens, SellSend(t) \/ SellUncertain(t) \/ SellKill(t) PROVE Untouched(s)
  <2>1. Sold(s)' = Sold(s)
    BY <1>0, <1>2 DEF SellSend, SellUncertain, SellKill, Sold, Sellers
  <2> QED
    BY <1>2, <2>1 DEF SellSend, SellUncertain, SellKill, db, outside
<1>3. ASSUME NEW t \in Tokens, AgeClaim(t) PROVE Untouched(s)
  <2>1. claim'[s].id = claim[s].id /\ claim'[s].state = claim[s].state
    BY <1>0, <1>3 DEF AgeClaim, Claims
  <2> QED
    BY <1>3, <2>1 DEF AgeClaim, Sold, process, outside
<1>4. ASSUME NEW t \in Tokens, AgeRow(t) PROVE Untouched(s)
  <2>1. /\ row'[s].status = row[s].status /\ row'[s].shares = row[s].shares
        /\ row'[s].age # "new" => row[s].age # "new" \/ scan[s] = NoScan
    BY <1>0, <1>4 DEF AgeRow, Rows
  <2> QED
    BY <1>4, <2>1 DEF AgeRow, Sold, process, outside
<1>5. ASSUME \/ \E v \in BOOLEAN : SettingsWrite(v)
             \/ SettingsAck \/ SettingsTimeout \/ UNCHANGED vars
      PROVE  Untouched(s)
  BY <1>5 DEF SettingsWrite, SettingsAck, SettingsTimeout, Sold, db, outside, vars
<1> QED
  BY <1>1, <1>2, <1>3, <1>4, <1>5

\* When an answer, the reconciler or an operator drops a claim, its order is
\* final and delivered nothing that no row accounts for.
LEMMA DroppedOk ==
    ASSUME IInv, NEW t \in Tokens \ waived', t \notin waived,
           claim[t].state # "none", Drops(t), row' = row,
           \/ GiveUp \/ AnswerNotFilled \/ RecoverStale(t) \/ Settle(t)
           \/ \E force \in BOOLEAN : OperatorClear(t, force)
    PROVE  /\ wallet[t] = Tracked(t) /\ order[claim[t].id].st # "wire"
           /\ ~(worker'.pc = "calling" /\ worker'.id = claim[t].id)
<1>0. /\ claim \in [Tokens -> Claims] /\ row \in [Tokens -> Rows] /\ order \in [Ids -> Orders]
      /\ worker \in Workers /\ wallet \in [Tokens -> Nat]
      /\ seller \in [Tokens -> Sellers] /\ scan \in [Tokens -> Scans]
  BY DEF IInv, TypeOK
<1>1. Ledger(t) /\ Evidence(t) /\ claim[t].id # None
  BY DEF IInv, LedgerInv, ClaimInv
<1>2. Tracked(t) <= wallet[t] /\ Tracked(t) \in Int
  BY <1>0, <1>1 DEF Ledger, Tracked, Sold, Rows, Sellers
<1>3. ASSUME order[claim[t].id].st \in {"none", "dead"} PROVE wallet[t] = Tracked(t)
  BY <1>1, <1>3 DEF Ledger
<1>4. CASE GiveUp \/ AnswerNotFilled
  <2>1. claim[t].id = worker.id /\ worker.pc # "idle" /\ worker'.pc = "idle"
    BY <1>0, <1>4 DEF GiveUp, AnswerNotFilled, Release, Drops, NoClaim, Idle
  <2>2. order[worker.id].st \in {"none", "dead"}
    BY <1>4 DEF GiveUp, AnswerNotFilled, NotFilledFor, IInv, ClaimInv
  <2> QED
    BY <1>3, <2>1, <2>2
<1>5. CASE RecoverStale(t)
  <2>1. claim[t].state = "reserved" /\ worker' = worker
    BY <1>0, <1>5 DEF RecoverStale, Drops, NoClaim, process
  <2> QED
    BY <1>1, <1>3, <2>1 DEF IInv, ClaimInv
<1>6. CASE Settle(t)
  <2>1. claim[t].id = scan[t].id /\ claim[t].state = "uncertain" /\ worker' = worker
    BY <1>0, <1>6 DEF Settle, Drops, NoClaim
  <2>2. Verdict(t) = "release"
    <3>1. ~(Verdict(t) = "adopt" /\ Adoptable(t))
      <4> SUFFICES ASSUME Verdict(t) = "adopt", Adoptable(t) PROVE FALSE
        OBVIOUS
      <4>1. row'[t].shares = scan[t].held
        BY <1>0, <1>6, <2>1 DEF Settle
      <4> QED
        BY <1>0, <4>1 DEF Adoptable, Rows, Scans
    <3> QED
      BY <1>0, <1>6, <2>1, <3>1 DEF Settle, Drops, NoClaim
  <2>3. ~(claim[t].kind = "open" /\ Live(t))
    BY <2>1 DEF IInv, FenceInv
  <2>4. ChainVerdict(t) = "release" /\ scan[t].chain # -1
    BY <2>2, <2>3 DEF Verdict, IndexerVerdict
  <2>5. /\ row[t].status # "closing" /\ claim[t].age = "old" /\ row[t].age = "old"
        /\ scan[t].chain <= row[t].shares
    BY <2>4 DEF ChainVerdict
  <2>6. scan[t].chain = wallet[t]
    BY <1>1, <2>1, <2>4, <2>5 DEF Evidence
  <2>7. Tracked(t) = row[t].shares
    BY <1>0, <2>5 DEF Tracked, Sold, NoSell, IInv, RowInv, Rows
  <2>8. wallet[t] = Tracked(t)
    <3>1. row[t].shares \in Nat /\ wallet[t] \in Nat
      BY <1>0 DEF Rows
    <3> QED
      BY <1>2, <2>5, <2>6, <2>7, <3>1
  <2> QED
    BY <2>1, <2>5, <2>8 DEF IInv, ClaimInv, Pending
<1>7. ASSUME NEW force \in BOOLEAN, OperatorClear(t, force)
      PROVE  /\ wallet[t] = Tracked(t) /\ order[claim[t].id].st # "wire"
             /\ ~(worker'.pc = "calling" /\ worker'.id = claim[t].id)
  <2>1. ~Unbooked(t) /\ worker' = worker
    BY <1>7 DEF OperatorClear, process
  <2> QED
    BY <1>0, <1>2, <2>1 DEF Unbooked, Pending, Tracked
<1> QED
  BY <1>4, <1>5, <1>6, <1>7

\* What settles claims leaves every token's ledger in order.
LEMMA SettlingOk ==
    ASSUME IInv, TypeOK', ClaimInv', NEW s \in Tokens, s \notin waived, s \notin waived',
           \/ GiveUp \/ AnswerNotFilled \/ AnswerUnknown \/ AnswerFilled \/ Crash
           \/ \E t \in Tokens : RecoverStale(t) \/ Settle(t)
                               \/ \E force \in BOOLEAN : OperatorClear(t, force)
    PROVE  Ok(s)'
<1>0. /\ claim \in [Tokens -> Claims] /\ row \in [Tokens -> Rows] /\ order \in [Ids -> Orders]
      /\ worker \in Workers /\ wallet \in [Tokens -> Nat] /\ indexed \in [Tokens -> Nat]
      /\ seller \in [Tokens -> Sellers] /\ scan \in [Tokens -> Scans]
      /\ seen \in [Tokens -> BOOLEAN]
  BY DEF IInv, TypeOK
<1>1. Fenced(s) /\ Ledger(s) /\ Evidence(s) /\ ClaimInv /\ TypeOK
  BY DEF IInv, LedgerInv
<1>2. /\ order' = order /\ worker' \in {worker, Idle} /\ (Keeps(s) \/ Drops(s) \/ Parks(s))
      /\ wallet' = wallet /\ indexed' = indexed
  BY <1>1, SettlingTypes DEF GiveUp, AnswerNotFilled, AnswerUnknown, AnswerFilled, Crash,
                             RecoverStale, Settle, OperatorClear, outside
<1>3. ASSUME Keeps(s) \/ Parks(s), row'[s] = row[s], seen'[s] = seen[s],
             Sold(s)' = Sold(s), scan'[s] \in {scan[s], NoScan}
      PROVE  Ok(s)'
  <2>1. Untouched(s)
    BY <1>0, <1>2, <1>3 DEF Untouched, Keeps, Parks, Idle
  <2> QED
    BY <2>1, UntouchedOk DEF Ok
<1>4. ASSUME Drops(s), row'[s] = row[s], seen'[s] = seen[s], Sold(s)' = Sold(s),
             claim[s].state # "none", wallet[s] = Tracked(s), order[claim[s].id].st # "wire",
             ~(worker'.pc = "calling" /\ worker'.id = claim[s].id)
      PROVE  Ok(s)'
  <2>1. Tracked(s)' = Tracked(s) /\ Tracked(s) \in Int
    BY <1>0, <1>4 DEF Tracked, Sold, Rows, Sellers
  <2>2. Fenced(s)'
    BY <1>1, <1>2, <1>4 DEF Fenced
  <2>3. Ledger(s)'
    BY <1>0, <1>1, <1>2, <1>4, <2>1 DEF Ledger, Drops, NoClaim, Idle
  <2>4. Evidence(s)'
    BY <1>1, <1>2, <1>4, <2>1 DEF Evidence, Plausible, Drops, NoClaim
  <2> QED
    BY <2>2, <2>3, <2>4 DEF Ok
<1>5. ASSUME Drops(s), claim[s].state = "none" PROVE Keeps(s) \/ claim'[s].id = claim[s].id
  BY <1>1, <1>5 DEF ClaimInv, Drops, NoClaim
<1>6. ASSUME NEW held \in Nat, Live(s)' , row'[s].status # "closing", seller' = seller,
             row[s].status # "closing", row[s].shares <= held,
             row'[s].shares = held, wallet[s] = held, Drops(s), seen'[s] => seen[s],
             claim[s].id # None, order[claim[s].id].st = "filled"
      PROVE  Ok(s)'
  <2>1. Tracked(s)' = held /\ Tracked(s) = row[s].shares
    <3>1. seller[s] = NoSell
      BY <1>6 DEF IInv, RowInv
    <3> QED
      BY <1>0, <1>6, <3>1 DEF Tracked, Sold, NoSell, Rows
  <2>2. Fenced(s)'
    BY <1>1, <1>2, <1>6 DEF Fenced
  <2>3. Ledger(s)'
    BY <1>0, <1>1, <1>2, <1>6, <2>1 DEF Ledger, Drops, NoClaim, Idle
  <2>4. Evidence(s)'
    <3>1. row[s].shares \in Nat /\ indexed[s] \in Nat
      BY <1>0 DEF Rows
    <3>2. seen'[s] => indexed[s] = held \/ indexed[s] <= held
      BY <1>1, <1>6, <2>1, <3>1 DEF Evidence, Plausible
    <3> QED
      BY <1>1, <1>2, <1>6, <2>1, <3>2 DEF Evidence, Plausible, Drops, NoClaim
  <2> QED
    BY <2>2, <2>3, <2>4 DEF Ok
<1>7. ASSUME Drops(s), claim[s].state = "none", row'[s] = row[s], seen'[s] = seen[s],
             Sold(s)' = Sold(s), scan'[s] \in {scan[s], NoScan}
      PROVE  Ok(s)'
  <2>1. Untouched(s)
    BY <1>0, <1>1, <1>2, <1>7 DEF Untouched, Drops, NoClaim, Idle, ClaimInv
  <2> QED
    BY <2>1, UntouchedOk DEF Ok
<1>8. CASE GiveUp \/ AnswerNotFilled
  <2>1. UNCHANGED <<row, seen, seller, scan>> /\ Sold(s)' = Sold(s)
    BY <1>8 DEF GiveUp, AnswerNotFilled, outside, Sold
  <2>2. CASE Drops(s) /\ claim[s].state # "none"
    BY <1>4, <1>8, <2>1, <2>2, DroppedOk
  <2> QED
    BY <1>2, <1>3, <1>7, <2>1, <2>2
<1>9. CASE AnswerUnknown
  <2>1. UNCHANGED <<row, seen, seller, scan>> /\ Sold(s)' = Sold(s)
    BY <1>9 DEF AnswerUnknown, outside, Sold
  <2>2. Drops(s) => claim[s].state = "none"
    BY <1>0, <1>9 DEF AnswerUnknown, MarkUncertain, Drops, NoClaim, Claims
  <2> QED
    BY <1>2, <1>3, <1>7, <2>1, <2>2
<1>10. CASE AnswerFilled
  <2>1. UNCHANGED <<seller, scan>> /\ Sold(s)' = Sold(s) /\ worker.tok \in Tokens
    BY <1>1, <1>10 DEF AnswerFilled, Sold, ClaimInv
  <2>2. CASE CanRecord(worker.tok, worker.id) /\ s = worker.tok
    <3>1. /\ claim[s].id = worker.id /\ claim[s].state = "submitting" /\ claim[s].id # None
          /\ order[worker.id].st = "filled" /\ row[s].status # "closing"
          /\ order[worker.id].size \in Nat /\ row[s].shares \in Nat
      BY <1>0, <1>1, <1>10, <2>2 DEF AnswerFilled, CanRecord, ClaimInv, Orders, Rows
    <3>2. /\ Drops(s) /\ row'[s].status = "open" /\ (seen'[s] => seen[s])
          /\ row'[s].shares = row[s].shares + order[worker.id].size
      BY <1>0, <1>10, <2>2 DEF AnswerFilled, Drops, Rows
    <3>3. wallet[s] = row[s].shares + order[worker.id].size
      BY <1>1, <3>1 DEF Ledger
    <3> DEFINE held == row[s].shares + order[worker.id].size
    <3>4. held \in Nat /\ row[s].shares <= held /\ Live(s)'
      BY <3>1, <3>2 DEF Live
    <3> HIDE DEF held
    <3>5. wallet[s] = held /\ row'[s].shares = held
      BY <3>2, <3>3 DEF held
    <3> QED
      BY <1>6, <2>1, <3>1, <3>2, <3>4, <3>5
  <2>3. CASE CanRecord(worker.tok, worker.id) /\ s # worker.tok
    <3>1. claim'[s] = claim[s] /\ row'[s] = row[s] /\ seen'[s] = seen[s]
      BY <1>0, <1>10, <2>1, <2>3 DEF AnswerFilled
    <3> QED
      BY <1>3, <2>1, <3>1 DEF Keeps
  <2>4. CASE ~CanRecord(worker.tok, worker.id)
    <3>1. MarkUncertain(worker.tok, worker.id) /\ UNCHANGED <<row, seen>>
      BY <1>10, <2>4 DEF AnswerFilled
    <3>2. Drops(s) => claim[s].state = "none"
      BY <1>0, <3>1 DEF MarkUncertain, Drops, NoClaim, Claims
    <3> QED
      BY <1>2, <1>3, <1>7, <2>1, <3>1, <3>2
  <2> QED
    BY <2>2, <2>3, <2>4
<1>11. CASE Crash
  <2>1. UNCHANGED <<claim, row, seen>> /\ scan'[s] = NoScan
    BY <1>11 DEF Crash, db, outside
  <2>2. Sold(s)' = Sold(s)
    <3>1. seller'[s].st = seller[s].st /\ seller'[s].amt = seller[s].amt
      BY <1>0, <1>11 DEF Crash, Sellers
    <3> QED
      BY <3>1 DEF Sold
  <2> QED
    BY <1>3, <2>1, <2>2 DEF Keeps
<1>12. ASSUME NEW t \in Tokens,
              RecoverStale(t) \/ \E force \in BOOLEAN : OperatorClear(t, force)
       PROVE  Ok(s)'
  <2>1. UNCHANGED <<row, seen, seller, scan>> /\ Sold(s)' = Sold(s)
    BY <1>12 DEF RecoverStale, OperatorClear, process, outside, Sold
  <2>2. CASE s = t /\ Drops(s) /\ claim[s].state # "none"
    BY <1>4, <1>12, <2>1, <2>2, DroppedOk
  <2>3. CASE s # t
    <3>1. Keeps(s)
      BY <1>0, <1>12, <2>3 DEF RecoverStale, OperatorClear, Keeps
    <3> QED
      BY <1>3, <2>1, <3>1
  <2> QED
    BY <1>2, <1>3, <1>7, <2>1, <2>2, <2>3
<1>13. ASSUME NEW t \in Tokens, Settle(t) PROVE Ok(s)'
  <2>1. seller' = seller /\ Sold(s)' = Sold(s) /\ scan'[s] \in {scan[s], NoScan}
    BY <1>0, <1>13 DEF Settle, Sold
  <2>2. CASE s # t
    <3>1. Keeps(s) /\ row'[s] = row[s] /\ seen'[s] = seen[s]
      BY <1>0, <1>13, <2>2 DEF Settle, Keeps
    <3> QED
      BY <1>3, <2>1, <3>1
  <2>3. CASE s = t /\ UNCHANGED <<row, seen>>
    <3>1. CASE Drops(s) /\ claim[s].state # "none"
      BY <1>4, <1>13, <2>1, <2>3, <3>1, DroppedOk
    <3> QED
      BY <1>2, <1>3, <1>7, <2>1, <2>3, <3>1
  <2>4. CASE s = t /\ ~UNCHANGED <<row, seen>>
    <3>1. Verdict(s) = "adopt" /\ Adoptable(s) /\ row'[s].shares = scan[s].held
      BY <1>0, <1>13, <2>4 DEF Settle
    <3>2. ~UNCHANGED row
      BY <1>0, <3>1 DEF Adoptable, Rows, Scans
    <3>3. /\ row[s].status # "closing" /\ claim[s].id = scan[s].id /\ claim[s].state = "uncertain"
          /\ claim' = [claim EXCEPT ![s] = NoClaim]
          /\ row' = [row EXCEPT ![s] = [status |-> "open", shares |-> scan[s].held,
                                       age |-> IF Live(s) THEN @.age ELSE "new"]]
          /\ seen' = [seen EXCEPT ![s] = @ /\ Live(s)]
      BY <1>13, <2>4, <3>2, AdoptFacts
    <3>4. claim[s].id # None /\ row[s].shares \in Nat /\ scan[s].held \in Nat /\ wallet[s] \in Nat
      BY <1>0, <1>1, <3>3 DEF ClaimInv, Rows, Scans
    <3>5. row[s].age # "new"
      <4>1. CASE claim[s].kind = "open"
        BY <3>3, <3>4, <4>1 DEF IInv, FenceInv
      <4>2. CASE claim[s].kind # "open"
        BY <3>1, <4>2 DEF Verdict, ChainVerdict, IndexerVerdict
      <4> QED
        BY <4>1, <4>2
    <3>6. Plausible(s, scan[s].held) /\ Tracked(s) = row[s].shares
      <4>1. seller[s] = NoSell
        BY <3>3 DEF IInv, RowInv
      <4> QED
        BY <1>0, <1>1, <3>3, <3>4, <3>5, <4>1 DEF Evidence, Tracked, Sold, NoSell
    <3>7. wallet[s] = scan[s].held /\ row[s].shares < scan[s].held
      BY <3>1, <3>4, <3>6 DEF Plausible, Adoptable
    <3>8. order[claim[s].id].st = "filled"
      BY <1>1, <3>3, <3>4, <3>6, <3>7 DEF Ledger
    <3>9. Drops(s) /\ row'[s].status = "open" /\ (seen'[s] => seen[s]) /\ Live(s)'
      BY <1>0, <3>3 DEF Drops, Live
    <3> QED
      BY <1>6, <2>1, <3>1, <3>3, <3>4, <3>7, <3>8, <3>9
  <2> QED
    BY <2>2, <2>3, <2>4
<1> QED
  BY <1>8, <1>9, <1>10, <1>11, <1>12, <1>13

\* Reserving, submitting, sending and matching a BUY leave every token's
\* ledger in order.
LEMMA BuyOk ==
    ASSUME IInv, TypeOK', ClaimInv', NEW s \in Tokens \ waived, waived' = waived,
           \/ \E t \in Tokens, i \in Ids, amt \in Amounts :
                   PrepareOpen(t, i, amt) \/ PrepareResize(t, i, amt)
           \/ MarkSubmitting \/ SendOrder \/ \E i \in Ids : Fill(i) \/ Kill(i)
    PROVE  Ok(s)'
<1>0. /\ claim \in [Tokens -> Claims] /\ row \in [Tokens -> Rows] /\ order \in [Ids -> Orders]
      /\ claim' \in [Tokens -> Claims] /\ order' \in [Ids -> Orders]
      /\ worker \in Workers /\ worker' \in Workers /\ seller \in [Tokens -> Sellers]
      /\ wallet \in [Tokens -> Nat] /\ indexed \in [Tokens -> Nat]
  BY DEF IInv, TypeOK
<1>1. Fenced(s) /\ Ledger(s) /\ Evidence(s)
  BY DEF IInv, LedgerInv
<1>2. ASSUME NEW t \in Tokens, NEW i \in Ids, NEW amt \in Amounts,
             PrepareOpen(t, i, amt) \/ PrepareResize(t, i, amt)
      PROVE  Ok(s)'
  <2>1. /\ UNCHANGED <<row, seller, scan, wallet, indexed, seen>>
        /\ worker' .pc = "reserved" /\ claim[t].state = "none" /\ Fresh(i)
        /\ claim'[t].state = "reserved" /\ claim'[t].id = i
        /\ \A r \in Tokens \ {t} : claim'[r] = claim[r]
        /\ order' = [order EXCEPT ![i] = NoOrder]
    BY <1>0, <1>2 DEF PrepareOpen, PrepareResize, Reserve, Unclaimed
  <2>2. CASE s # t
    <3>1. Untouched(s)
      <4>1. /\ order'[i].tok = None /\ s # None /\ claim[s].id # i
            /\ \A j \in Ids \ {i} : order'[j] = order[j]
        BY <1>0, <2>1, ConstantsAssumption DEF Fresh, NoOrder
      <4> QED
        BY <2>1, <2>2, <4>1 DEF Untouched, Sold
    <3> QED
      BY <3>1, UntouchedOk DEF Ok
  <2>3. CASE s = t
    <3>1. Fenced(s)'
      BY <1>0, <1>1, <2>1, <2>3, ConstantsAssumption DEF Fenced, ClaimInv, IInv, NoOrder
    <3>2. Ledger(s)'
      BY <1>0, <1>1, <2>1, <2>3 DEF Ledger, Tracked, Sold, NoOrder
    <3>3. Evidence(s)'
      BY <1>0, <1>1, <2>1, <2>3 DEF Evidence, Plausible, Tracked, Sold, Fresh
    <3> QED
      BY <3>1, <3>2, <3>3 DEF Ok
  <2> QED
    BY <2>2, <2>3
<1>3. CASE MarkSubmitting
  <2>1. /\ UNCHANGED <<row, seller, scan, wallet, indexed, seen, order>>
        /\ worker' = [worker EXCEPT !.pc = "calling"]
        /\ worker.tok \in Tokens /\ claim[worker.tok].id = worker.id
        /\ claim[worker.tok].state = "reserved" /\ claim'[worker.tok].state = "submitting"
        /\ claim'[worker.tok].id = claim[worker.tok].id
        /\ \A r \in Tokens \ {worker.tok} : claim'[r] = claim[r]
    BY <1>0, <1>3, SMTT(30) DEF MarkSubmitting, CanSubmit, outside, IInv, ClaimInv, Claims
  <2>2. CASE s # worker.tok
    <3>1. Untouched(s)
      BY <1>0, <2>1, <2>2 DEF Untouched, Sold, Workers
    <3> QED
      BY <3>1, UntouchedOk DEF Ok
  <2>3. CASE s = worker.tok
    <3>1. order[claim[s].id].st = "none"
      BY <2>1, <2>3 DEF IInv, ClaimInv
    <3>2. Ledger(s)'
      BY <1>0, <1>1, <2>1, <2>3, <3>1 DEF Ledger, Tracked, Sold, Workers
    <3>3. Fenced(s)' /\ Evidence(s)'
      BY <1>0, <1>1, <2>1, <2>3 DEF Fenced, Evidence, Plausible, Tracked, Sold
    <3> QED
      BY <3>2, <3>3 DEF Ok
  <2> QED
    BY <2>2, <2>3
<1>4. CASE SendOrder
  <2>1. /\ UNCHANGED <<claim, worker, row, seller, scan, wallet, indexed, seen>>
        /\ worker.tok \in Tokens /\ worker.id \in Ids
        /\ worker.pc = "calling" /\ order[worker.id].st = "none"
        /\ order'[worker.id].st = "wire" /\ order'[worker.id].tok = worker.tok
        /\ \A i \in Ids \ {worker.id} : order'[i] = order[i]
    BY <1>0, <1>4 DEF SendOrder, db, process, IInv, ClaimInv
  <2>2. CASE s # worker.tok
    <3>1. claim[s].id # worker.id
      BY <1>0, <2>1, <2>2, ConstantsAssumption DEF IInv, ClaimInv
    <3>2. Untouched(s)
      BY <1>0, <2>1, <2>2, <3>1 DEF Untouched, Sold
    <3> QED
      BY <3>2, UntouchedOk DEF Ok
  <2>3. CASE s = worker.tok
    <3>1. claim[s].id = worker.id
      BY <1>1, <2>1, <2>3 DEF Ledger
    <3>2. Fenced(s)'
      BY <1>0, <1>1, <2>1, <2>3, <3>1 DEF Fenced
    <3>3. Ledger(s)'
      BY <1>0, <1>1, <2>1, <2>3, <3>1 DEF Ledger, Tracked, Sold
    <3>4. Evidence(s)'
      BY <1>0, <1>1, <2>1, <2>3 DEF Evidence, Plausible, Tracked, Sold
    <3> QED
      BY <3>2, <3>3, <3>4 DEF Ok
  <2> QED
    BY <2>2, <2>3
<1>5. ASSUME NEW i \in Ids, Fill(i) \/ Kill(i) PROVE Ok(s)'
  <2>1. /\ UNCHANGED <<claim, row, paused, rev, worker, seller, scan, indexed, seen>>
        /\ order[i].st = "wire" /\ order'[i].st \in {"filled", "dead"}
        /\ order'[i].tok = order[i].tok /\ order'[i].size = order[i].size
        /\ \A j \in Ids \ {i} : order'[j] = order[j]
        /\ \A r \in Tokens \ {order[i].tok} : wallet'[r] = wallet[r]
    BY <1>0, <1>5 DEF Fill, Kill, db, process, Orders
  <2>2. CASE s # order[i].tok
    <3>1. /\ claim[s].id # i
          /\ ~(worker.pc = "calling" /\ worker.tok = s /\ worker.id = i)
      BY <1>0, <2>1, <2>2, ConstantsAssumption DEF IInv, ClaimInv
    <3>2. Untouched(s)
      BY <2>1, <2>2, <3>1 DEF Untouched, Sold
    <3> QED
      BY <3>2, UntouchedOk DEF Ok
  <2>3. CASE s = order[i].tok
    <3>1. claim[s].id = i /\ claim[s].state # "none" /\ wallet[s] = Tracked(s)
      BY <1>1, <2>1, <2>3, ConstantsAssumption DEF Fenced, Ledger, IInv, ClaimInv
    <3>2. Tracked(s)' = Tracked(s) /\ Tracked(s) \in Int
      BY <1>0, <2>1 DEF Tracked, Sold, Rows, Sellers
    <3>3. /\ wallet'[s] \in Nat /\ order[i].size \in Nat
          /\ wallet'[s] = wallet[s] + (IF order'[i].st = "filled" THEN order[i].size ELSE 0)
      BY <1>0, <1>5, <2>1, <2>3 DEF Fill, Kill, Orders, db, process
    <3>4. Fenced(s)'
      BY <1>0, <1>1, <2>1, <2>3 DEF Fenced
    <3>5. claim[s].state = "submitting" => Tracked(s) = row[s].shares
      BY <1>0 DEF IInv, FenceInv, RowInv, Tracked, Sold, NoSell, Rows
    <3>6. Ledger(s)'
      <4>1. /\ claim'[s] = claim[s] /\ claim'[s].id = i /\ claim'[s].state # "none"
            /\ row'[s] = row[s] /\ row[s].shares \in Nat
        BY <1>0, <2>1, <3>1 DEF Rows
      <4>2. order'[i].st # "filled" => wallet'[s] = Tracked(s)'
        BY <3>1, <3>2, <3>3
      <4>3. Tracked(s)' <= wallet'[s]
        BY <3>1, <3>2, <3>3
      <4>4. claim[s].state = "submitting" /\ order'[i].st = "filled"
              => wallet'[s] = row[s].shares + order'[i].size
        BY <2>1, <3>1, <3>2, <3>3, <3>5
      <4>5. worker'.pc = "calling" /\ worker'.tok = s /\ order'[worker'.id].st \in {"none", "wire"}
              => claim'[s].id = worker'.id
        <5> SUFFICES ASSUME worker'.pc = "calling", worker'.tok = s,
                            order'[worker'.id].st \in {"none", "wire"}
                     PROVE  claim'[s].id = worker'.id
          OBVIOUS
        <5>1. worker' = worker /\ worker.id \in Ids
          BY <2>1 DEF IInv, ClaimInv
        <5>2. worker.id # i => order'[worker.id] = order[worker.id]
          BY <2>1, <5>1
        <5> QED
          BY <1>1, <2>1, <3>1, <4>1, <5>1, <5>2 DEF Ledger
      <4> QED
        BY <4>1, <4>2, <4>3, <4>4, <4>5 DEF Ledger
    <3>7. scan[s].chain # -1 => scan[s].id # claim[s].id
      BY <2>1, <3>1 DEF IInv, FenceInv, ClaimInv, Pending
    <3>8. \A n : Plausible(s, n) => Plausible(s, n)'
      BY <2>1, <3>1, <3>2 DEF Plausible
    <3>9. Evidence(s)'
      BY <1>1, <2>1, <3>1, <3>7, <3>8 DEF Evidence
    <3> QED
      BY <3>4, <3>6, <3>9 DEF Ok
  <2> QED
    BY <2>2, <2>3
<1> QED
  BY <1>2, <1>3, <1>4, <1>5

\* SELLs and their recovery leave every token's ledger in order.
LEMMA SellOk ==
    ASSUME IInv, TypeOK', ClaimInv', NEW s \in Tokens \ waived,
           NEW t \in Tokens,
           \/ \E amt \in Amounts : SellClaim(t, amt)
           \/ SellFill(t) \/ SellNotSent(t) \/ SellRecord(t) \/ RecoverClosing(t)
    PROVE  Ok(s)'
<1>0. /\ row \in [Tokens -> Rows] /\ seller \in [Tokens -> Sellers]
      /\ wallet \in [Tokens -> Nat] /\ indexed \in [Tokens -> Nat]
      /\ seen \in [Tokens -> BOOLEAN]
  BY DEF IInv, TypeOK
<1>1. /\ Fenced(s) /\ Ledger(s) /\ Evidence(s) /\ RowInv
      /\ UNCHANGED <<claim, order, worker, indexed, scan>>
  BY DEF IInv, LedgerInv, SellClaim, SellFill, SellNotSent, SellRecord, RecoverClosing, outside, db
<1>2. CASE s # t
  <2>1. row'[s] = row[s] /\ seller'[s] = seller[s] /\ wallet'[s] = wallet[s] /\ seen'[s] = seen[s]
    BY <1>0, <1>2 DEF SellClaim, SellFill, SellNotSent, SellRecord, RecoverClosing, outside, db
  <2>2. Untouched(s)
    BY <1>1, <2>1 DEF Untouched, Sold
  <2> QED
    BY <2>2, UntouchedOk DEF Ok
<1>3. CASE s = t
  <2>1. /\ row[s].shares \in Nat /\ seller[s].amt \in Nat /\ wallet[s] \in Nat
        /\ indexed[s] \in Nat /\ seller[s].amt <= row[s].shares
        /\ Tracked(s) \in Nat /\ Tracked(s) <= wallet[s]
    BY <1>0, <1>1 DEF Rows, Sellers, RowInv, Tracked, Sold, Ledger
  <2>2. ASSUME claim[s].state # "submitting", Tracked(s)' <= wallet'[s],
               wallet[s] = Tracked(s) => wallet'[s] = Tracked(s)'
        PROVE  Fenced(s)' /\ Ledger(s)'
    BY <1>1, <2>2 DEF Fenced, Ledger
  <2>3. ASSUME row[s].status = "closing" PROVE claim[s].state # "submitting"
    BY <2>3 DEF IInv, FenceInv
  <2>4. ASSUME NEW amt \in Amounts, SellClaim(s, amt) PROVE Ok(s)'
    <3>1. /\ row[s].status = "open" /\ claim[s].state # "submitting" /\ seen'[s] = FALSE
          /\ row'[s].shares = row[s].shares /\ row'[s].age = "new"
          /\ seller'[s].st = "none" /\ wallet' = wallet
      BY <1>0, <2>4 DEF SellClaim, SellAllowed, Rows
    <3>2. Tracked(s) = row[s].shares /\ Tracked(s)' = row[s].shares
      BY <1>1, <2>1, <3>1 DEF Tracked, Sold, RowInv, NoSell
    <3>3. Evidence(s)'
      BY <3>1 DEF Evidence
    <3> QED
      BY <2>1, <2>2, <3>1, <3>2, <3>3 DEF Ok
  <2>5. CASE SellFill(s)
    <3>1. /\ seller[s].st = "wire" /\ wallet[s] >= seller[s].amt /\ row' = row
          /\ seller'[s].st = "filled" /\ seller'[s].amt = seller[s].amt
          /\ wallet'[s] = wallet[s] - seller[s].amt /\ seen'[s] = FALSE
      BY <1>0, <2>5 DEF SellFill, Sellers, db
    <3>2. row[s].status = "closing" /\ row[s].age = "new"
      BY <1>1, <3>1 DEF RowInv, NoSell
    <3>3. Tracked(s) = row[s].shares /\ Tracked(s)' = row[s].shares - seller[s].amt
      BY <2>1, <3>1 DEF Tracked, Sold
    <3>4. Evidence(s)'
      BY <3>1, <3>2 DEF Evidence
    <3> QED
      BY <2>1, <2>2, <2>3, <3>1, <3>2, <3>3, <3>4 DEF Ok
  <2>6. CASE SellNotSent(s)
    <3>1. /\ seller[s].waiting /\ seller[s].st = "none" /\ wallet' = wallet /\ seen' = seen
          /\ row'[s].shares = row[s].shares /\ row'[s].age = row[s].age
          /\ row'[s].status = "open" /\ seller'[s] = NoSell
      BY <1>0, <2>6 DEF SellNotSent, Rows, outside
    <3>2. row[s].status = "closing" /\ row[s].age = "new"
      BY <1>1, <3>1 DEF RowInv, NoSell
    <3>3. Tracked(s) = row[s].shares /\ Tracked(s)' = row[s].shares
      BY <2>1, <3>1 DEF Tracked, Sold, NoSell
    <3>4. Evidence(s)'
      BY <1>1, <2>1, <3>1, <3>2, <3>3 DEF Evidence, Plausible
    <3> QED
      BY <2>1, <2>2, <2>3, <3>1, <3>2, <3>3, <3>4 DEF Ok
  <2>7. CASE SellRecord(s)
    <3>1. /\ seller[s].waiting /\ seller[s].st = "filled" /\ wallet' = wallet
          /\ row'[s].shares = row[s].shares - seller[s].amt
          /\ row'[s].age \in {row[s].age, "new"} /\ seller'[s] = NoSell
          /\ row'[s].status # "closing" /\ (seen'[s] => seen[s])
      <4>1. row[s].shares - seller[s].amt = 0 <=> seller[s].amt = row[s].shares
        BY <2>1
      <4> QED
        BY <1>0, <2>1, <2>7, <4>1 DEF SellRecord, Rows, Gone
    <3>2. row[s].status = "closing" /\ row[s].age = "new"
      BY <1>1, <3>1 DEF RowInv, NoSell
    <3>3. Tracked(s) = row[s].shares - seller[s].amt /\ Tracked(s)' = Tracked(s)
      BY <2>1, <3>1 DEF Tracked, Sold, NoSell
    <3>4. Evidence(s)'
      BY <1>1, <2>1, <3>1, <3>2, <3>3 DEF Evidence, Plausible
    <3> QED
      BY <2>1, <2>2, <2>3, <3>1, <3>2, <3>3, <3>4 DEF Ok
  <2>8. CASE RecoverClosing(s)
    <3>1. /\ row[s].status = "closing" /\ row[s].age # "new" /\ seller'[s] = NoSell
          /\ wallet' = wallet
      BY <1>0, <2>8 DEF RecoverClosing
    <3>2. Plausible(s, indexed[s])
      BY <1>1, <3>1 DEF RowInv, Evidence
    <3>3. indexed[s] = wallet[s] \/ indexed[s] = Tracked(s)
      BY <3>1, <3>2 DEF Plausible
    <3>4. CASE /\ indexed[s] >= row[s].shares /\ row' = [row EXCEPT ![s].status = "open"]
               /\ UNCHANGED seen
      <4>1. /\ row'[s].shares = row[s].shares /\ row'[s].age = row[s].age
            /\ row'[s].status = "open"
        BY <1>0, <3>4 DEF Rows
      <4>2. Tracked(s)' = row[s].shares
        BY <2>1, <3>1, <4>1 DEF Tracked, Sold, NoSell
      <4>3. row[s].shares <= wallet[s]
        BY <2>1, <3>3, <3>4
      <4>4. Tracked(s) <= row[s].shares
        BY <2>1 DEF Tracked, Sold
      <4>5. Evidence(s)'
        BY <1>1, <2>1, <3>1, <3>4, <4>1, <4>2, <4>4 DEF Evidence, Plausible
      <4> QED
        BY <2>1, <2>2, <2>3, <3>1, <4>2, <4>3, <4>4, <4>5 DEF Ok
    <3>5. CASE /\ indexed[s] = 0 /\ row' = [row EXCEPT ![s] = Gone]
               /\ seen' = [seen EXCEPT ![s] = FALSE]
      <4>1. /\ row'[s].shares = 0 /\ row'[s].age = "new" /\ ~seen'[s]
        BY <1>0, <3>5 DEF Gone
      <4>2. Tracked(s)' = 0
        BY <3>1, <4>1 DEF Tracked, Sold, NoSell
      <4>3. Tracked(s) = 0
        BY <2>1, <3>3, <3>5
      <4>4. Evidence(s)'
        BY <4>1 DEF Evidence
      <4> QED
        BY <2>1, <2>2, <2>3, <3>1, <4>2, <4>3, <4>4 DEF Ok
    <3> QED
      BY <2>8, <3>4, <3>5 DEF RecoverClosing
  <2> QED
    BY <1>3, <2>4, <2>5, <2>6, <2>7, <2>8
<1> QED
  BY <1>2, <1>3

\* What the reconciler reads is plausible when the row's last stamp is due.
LEMMA EvidenceOk ==
    ASSUME IInv, TypeOK', ClaimInv', NEW s \in Tokens \ waived, NEW t \in Tokens,
           Scan(t) \/ ReadChain(t) \/ IndexerCatchUp(t)
    PROVE  Ok(s)'
<1>0. /\ scan \in [Tokens -> Scans] /\ indexed \in [Tokens -> Nat]
      /\ seen \in [Tokens -> BOOLEAN]
  BY DEF IInv, TypeOK
<1>1. /\ Fenced(s) /\ Ledger(s) /\ Evidence(s) /\ RowInv
      /\ UNCHANGED <<claim, row, order, worker, seller, wallet>>
  BY DEF IInv, LedgerInv, Scan, ReadChain, IndexerCatchUp, db, process, outside
<1>2. Tracked(s)' = Tracked(s) /\ Sold(s)' = Sold(s)
  BY <1>1 DEF Tracked, Sold
<1>3. CASE s # t
  <2>1. scan'[s] = scan[s] /\ indexed'[s] = indexed[s] /\ seen'[s] = seen[s]
    BY <1>0, <1>3 DEF Scan, ReadChain, IndexerCatchUp, outside, process
  <2>2. Untouched(s)
    BY <1>1, <1>2, <2>1 DEF Untouched
  <2> QED
    BY <2>2, UntouchedOk DEF Ok
<1>4. CASE s = t
  <2>1. Fenced(s)' /\ Ledger(s)'
    BY <1>1, <1>2 DEF Fenced, Ledger
  <2>2. \A n : Plausible(s, n)' <=> Plausible(s, n)
    BY <1>1, <1>2 DEF Plausible
  <2>3. CASE Scan(s)
    <3>1. UNCHANGED <<indexed, seen>> /\ scan'[s].held = indexed[s] /\ scan'[s].chain = -1
      BY <1>0, <2>3 DEF Scan, outside
    <3> QED
      BY <1>1, <2>1, <2>2, <3>1 DEF Evidence, RowInv, Ok, Plausible
  <2>4. CASE ReadChain(s)
    <3>1. /\ UNCHANGED <<indexed, seen>> /\ scan'[s].held = scan[s].held
          /\ scan'[s].id = scan[s].id /\ scan'[s].chain = wallet[s]
      BY <1>0, <2>4 DEF ReadChain, Scans, outside
    <3> QED
      BY <1>1, <2>1, <2>2, <3>1 DEF Evidence, Ok, Plausible
  <2>5. CASE IndexerCatchUp(s)
    <3>1. scan' = scan /\ indexed'[s] = wallet[s]
      BY <1>0, <2>5 DEF IndexerCatchUp, process
    <3> QED
      BY <1>1, <2>1, <2>2, <3>1 DEF Evidence, Ok, Plausible
  <2> QED
    BY <1>4, <2>3, <2>4, <2>5
<1> QED
  BY <1>3, <1>4

\* An override is never forgotten.
LEMMA WaivedGrows == [Next]_vars => waived \subseteq waived'
  BY DEF Next, Buying, Selling, Reconciling, Settings, World, PrepareOpen, PrepareResize, Reserve,
         Clamp, MarkSubmitting, GiveUp, SendOrder, AnswerNotFilled, AnswerUnknown, AnswerFilled,
         Fill, Kill, IndexerCatchUp, SellClaim, SellSend, SellFill, SellKill, SellNotSent,
         SellUncertain, SellRecord, RecoverClosing, RecoverStale, Scan, ReadChain, Settle,
         OperatorClear, SettingsWrite, SettingsAck, SettingsTimeout, AgeClaim, AgeRow, Crash, vars

\* Every step keeps the ledger of every token no operator overrode.
LEMMA LedgerStep ==
    IInv /\ TypeOK' /\ ClaimInv' /\ [Next]_vars => LedgerInv'
<1> SUFFICES ASSUME IInv, TypeOK', ClaimInv', [Next]_vars,
                    NEW s \in Tokens, s \notin waived'
             PROVE  Ok(s)'
  BY DEF LedgerInv, Ok
<1>1. s \notin waived
  BY WaivedGrows
<1>2. ASSUME \/ \E amt \in Amounts : Clamp(amt)
             \/ \E t \in Tokens : \/ SellSend(t) \/ SellUncertain(t) \/ SellKill(t)
                                  \/ AgeClaim(t) \/ AgeRow(t)
             \/ \E v \in BOOLEAN : SettingsWrite(v)
             \/ SettingsAck \/ SettingsTimeout \/ UNCHANGED vars
      PROVE  Ok(s)'
  <2>1. Untouched(s)
    BY <1>2, QuietStep
  <2> QED
    BY <1>1, <2>1, UntouchedOk DEF Ok
<1>3. ASSUME \/ GiveUp \/ AnswerNotFilled \/ AnswerUnknown \/ AnswerFilled \/ Crash
             \/ \E t \in Tokens : RecoverStale(t) \/ Settle(t)
                                 \/ \E force \in BOOLEAN : OperatorClear(t, force)
      PROVE  Ok(s)'
  BY <1>1, <1>3, SettlingOk
<1>4. ASSUME \/ \E t \in Tokens, i \in Ids, amt \in Amounts :
                   PrepareOpen(t, i, amt) \/ PrepareResize(t, i, amt)
             \/ MarkSubmitting \/ SendOrder \/ \E i \in Ids : Fill(i) \/ Kill(i)
      PROVE  Ok(s)'
  <2>1. waived' = waived
    BY <1>4 DEF PrepareOpen, PrepareResize, Reserve, MarkSubmitting, SendOrder, Fill, Kill
  <2> QED
    BY <1>1, <1>4, <2>1, BuyOk
<1>5. ASSUME NEW t \in Tokens,
             \/ \E amt \in Amounts : SellClaim(t, amt)
             \/ SellFill(t) \/ SellNotSent(t) \/ SellRecord(t) \/ RecoverClosing(t)
      PROVE  Ok(s)'
  BY <1>1, <1>5, SellOk
<1>6. ASSUME NEW t \in Tokens, Scan(t) \/ ReadChain(t) \/ IndexerCatchUp(t) PROVE Ok(s)'
  BY <1>1, <1>6, EvidenceOk
<1> QED
  BY <1>2, <1>3, <1>4, <1>5, <1>6 DEF Next, Buying, Selling, Reconciling, Settings, World

-----------------------------------------------------------------------------
(* The theorems.                                                           *)

\* The inductive invariant holds of every reachable state.
THEOREM Invariance == Spec => []IInv
<1>1. IInv /\ [Next]_vars => IInv'
  BY TypeStep, ClaimStep, RowStep, FenceStep, LedgerStep DEF IInv
<1> QED
  BY InitInv, <1>1, PTL DEF Spec

\* Every variable keeps its type: no row and no wallet ever falls below zero,
\* whatever SELLs, crashes and recoveries happen to it.
THEOREM TypeCorrect == Spec => []TypeOK
<1>1. IInv => TypeOK
  BY DEF IInv
<1> QED
  BY Invariance, <1>1, PTL

\* A BUY the exchange may still execute is fenced by its own claim, through
\* every answer, crash, recovery and settlement.
THEOREM Fencing == Spec => []LiveOrderFenced
<1>1. IInv => LiveOrderFenced
  <2> SUFFICES ASSUME IInv, NEW i \in Ids, order[i].st = "wire", order[i].tok \notin waived
               PROVE  claim[order[i].tok].id = i
    BY DEF LiveOrderFenced
  <2>1. order[i].tok \in Tokens
    BY DEF IInv, ClaimInv
  <2> QED
    BY <2>1 DEF IInv, LedgerInv, Fenced
<1> QED
  BY Invariance, <1>1, PTL

\* A token without a claim is booked exactly: the row, less what its own SELL
\* took, is the wallet.
THEOREM Booking == Spec => []UnfencedIsBooked
<1>1. IInv => UnfencedIsBooked
  BY DEF IInv, LedgerInv, Ledger, UnfencedIsBooked
<1> QED
  BY Invariance, <1>1, PTL

\* A row open to SELLs is covered by the wallet.
THEOREM Backing == Spec => []OpenRowBacked
<1>1. IInv => OpenRowBacked
  <2> SUFFICES ASSUME IInv, NEW t \in Tokens, t \notin waived, row[t].status = "open"
               PROVE  row[t].shares <= wallet[t]
    BY DEF OpenRowBacked
  <2>1. Tracked(t) <= wallet[t] /\ seller[t] = NoSell /\ row[t].shares \in Nat
    BY DEF IInv, LedgerInv, Ledger, RowInv, TypeOK, Rows
  <2>2. Tracked(t) = row[t].shares
    BY <2>1 DEF Tracked, Sold, NoSell
  <2> QED
    BY <2>1, <2>2
<1> QED
  BY Invariance, <1>1, PTL

\* The risk lock and the compare-and-set of _mark_claim_submitting: no order
\* call runs while the account is paused.
PauseInv == /\ paused => worker.pc # "calling"
            /\ AckedPauseHolds

\* Every step keeps it: only MarkSubmitting starts a call, and it reads the
\* pause in the statement that submits.
LEMMA PauseStep == TypeOK /\ TypeOK' /\ ClaimInv /\ PauseInv /\ [Next]_vars => PauseInv'
<1> SUFFICES ASSUME TypeOK, TypeOK', ClaimInv, PauseInv, [Next]_vars PROVE PauseInv'
  OBVIOUS
<1>0. /\ claim \in [Tokens -> Claims] /\ worker \in Workers
      /\ claim' \in [Tokens -> Claims] /\ worker' \in Workers
  BY DEF TypeOK
<1>1. ASSUME paused' = paused, ack' = "acked" => ack = "acked",
             worker'.pc = "calling" => worker.pc = "calling",
             \A t \in Tokens : claim'[t].state = "submitting" => claim[t].state = "submitting"
      PROVE  PauseInv'
  BY <1>1 DEF PauseInv, AckedPauseHolds
<1>2. ASSUME UNCHANGED <<claim, worker, paused, ack>> PROVE PauseInv'
  BY <1>2 DEF PauseInv, AckedPauseHolds
<1>3. ASSUME NEW t \in Tokens, NEW i \in Ids, NEW amt \in Amounts,
             PrepareOpen(t, i, amt) \/ PrepareResize(t, i, amt)
      PROVE  PauseInv'
  BY <1>0, <1>1, <1>3 DEF PrepareOpen, PrepareResize, Reserve
<1>4. ASSUME NEW amt \in Amounts, Clamp(amt) PROVE PauseInv'
  BY <1>0, <1>1, <1>4 DEF Clamp, db, Workers
<1>5. CASE MarkSubmitting
  <2>1. ~paused /\ paused' = paused
    BY <1>5 DEF MarkSubmitting, CanSubmit
  <2> QED
    BY <2>1 DEF PauseInv, AckedPauseHolds
<1>6. ASSUME \/ GiveUp \/ AnswerNotFilled \/ AnswerUnknown \/ AnswerFilled \/ Crash
             \/ \E t \in Tokens : RecoverStale(t) \/ Settle(t)
                                 \/ \E force \in BOOLEAN : OperatorClear(t, force)
      PROVE  PauseInv'
  <2>1. paused' = paused /\ (ack' = "acked" => ack = "acked")
    BY <1>6 DEF GiveUp, AnswerNotFilled, AnswerUnknown, AnswerFilled, Crash, RecoverStale,
                Settle, OperatorClear, db, process
  <2>2. /\ worker' \in {worker, Idle}
        /\ \A s \in Tokens : Keeps(s) \/ Drops(s) \/ Parks(s)
    BY <1>6, SettlingTypes
  <2> QED
    BY <1>1, <2>1, <2>2 DEF Keeps, Drops, Parks, NoClaim, Idle
<1>7. ASSUME NEW t \in Tokens, AgeClaim(t) PROVE PauseInv'
  <2>1. \A s \in Tokens : claim'[s].state = claim[s].state
    BY <1>0, <1>7 DEF AgeClaim, Claims
  <2> QED
    BY <1>1, <1>7, <2>1 DEF AgeClaim, process
<1>8. ASSUME NEW v \in BOOLEAN, SettingsWrite(v) PROVE PauseInv'
  BY <1>8 DEF SettingsWrite, LockFree, Idle, PauseInv, AckedPauseHolds
<1>9. CASE SettingsAck \/ SettingsTimeout
  BY <1>9 DEF SettingsAck, SettingsTimeout, db, PauseInv, AckedPauseHolds
<1>10. ASSUME \/ SendOrder \/ \E i \in Ids : Fill(i) \/ Kill(i)
              \/ \E t \in Tokens : \/ \E amt \in Amounts : SellClaim(t, amt)
                                   \/ SellSend(t) \/ SellNotSent(t) \/ SellUncertain(t)
                                   \/ SellRecord(t) \/ SellFill(t) \/ SellKill(t)
                                   \/ RecoverClosing(t) \/ Scan(t) \/ ReadChain(t)
                                   \/ IndexerCatchUp(t) \/ AgeRow(t)
              \/ UNCHANGED vars
       PROVE  UNCHANGED <<claim, worker, paused, ack>>
  BY <1>10 DEF SendOrder, Fill, Kill, SellClaim, SellSend, SellNotSent, SellUncertain,
               SellRecord, SellFill, SellKill, RecoverClosing, Scan, ReadChain,
               IndexerCatchUp, AgeRow, db, process, outside, vars
<1> QED
  BY <1>2, <1>3, <1>4, <1>5, <1>6, <1>7, <1>8, <1>9, <1>10
     DEF Next, Buying, Selling, Reconciling, Settings, World

\* A pause that was answered stays in force: no order call runs, and no claim
\* is left in flight, until the settings are written again.
THEOREM PauseHolds == Spec => []AckedPauseHolds
<1>1. Init => PauseInv
  BY DEF Init, PauseInv, AckedPauseHolds, Idle
<1>2. IInv /\ IInv' /\ PauseInv /\ [Next]_vars => PauseInv'
  BY PauseStep DEF IInv
<1>3. PauseInv => AckedPauseHolds
  BY DEF PauseInv
<1> QED
  BY Invariance, <1>1, <1>2, <1>3, PTL DEF Spec

-----------------------------------------------------------------------------
(* Money within the limits.                                                *)

\* What a claim reserves covers the order that is or will be sent under it.
Covers(t) ==
    /\ claim[t].state = "none" => claim[t].reserved = 0
    /\ claim[t].id # None /\ worker.pc # "idle" /\ claim[t].id = worker.id
         => worker.amt <= claim[t].reserved
    /\ claim[t].id # None /\ order[claim[t].id].st # "none"
         => order[claim[t].id].size <= claim[t].reserved

\* What is at risk stays within the limits: only a reservation adds to it, and it
\* looks at both.
RiskInv ==
    /\ \A t \in Tokens : Covers(t) /\ AtRisk(t) <= MaxPerTrade
    /\ Exposure <= MaxTotal

\* A fill that no row accounts for yet delivered at most its order.
Unaccounted(t) ==
    claim[t].id # None /\ order[claim[t].id].st = "filled"
      => wallet[t] <= Tracked(t) + order[claim[t].id].size
FilledInv == \A t \in Tokens \ waived : Unaccounted(t)

\* The reservation still covers its order after every step.
LEMMA CoverStep ==
    ASSUME IInv, TypeOK', \A s \in Tokens : Covers(s), [Next]_vars
    PROVE  \A s \in Tokens : Covers(s)'
<1>0. /\ claim \in [Tokens -> Claims] /\ order \in [Ids -> Orders] /\ worker \in Workers
      /\ claim' \in [Tokens -> Claims] /\ order' \in [Ids -> Orders] /\ worker' \in Workers
      /\ (worker.pc # "idle" => worker.tok \in Tokens /\ worker.id \in Ids)
  BY DEF IInv, TypeOK, ClaimInv
<1> SUFFICES ASSUME NEW s \in Tokens PROVE Covers(s)'
  OBVIOUS
<1>s. Covers(s) /\ (claim[s].id # None => claim[s].id \in Ids)
  BY <1>0 DEF Claims
<1>1. ASSUME NEW t \in Tokens, NEW i \in Ids, NEW amt \in Amounts,
             PrepareOpen(t, i, amt) \/ PrepareResize(t, i, amt)
      PROVE  Covers(s)'
  <2>1. Fresh(i) /\ order' = [order EXCEPT ![i] = NoOrder] /\ worker'.id = i /\ worker'.amt = amt
    BY <1>1 DEF PrepareOpen, PrepareResize, Reserve
  <2>2. claim[s].id # i
    BY <2>1 DEF Fresh
  <2>3. CASE s = t
    <3>1. claim'[s].state = "reserved" /\ claim'[s].reserved = amt /\ claim'[s].id = i
      BY <1>0, <1>1, <2>3 DEF PrepareOpen, PrepareResize, Reserve
    <3>2. order'[i].st = "none" /\ amt <= amt
      BY <1>0, <2>1 DEF NoOrder, Amounts
    <3> QED
      BY <2>1, <3>1, <3>2 DEF Covers
  <2>4. CASE s # t
    <3>1. claim'[s] = claim[s]
      BY <1>0, <1>1, <2>4 DEF PrepareOpen, PrepareResize, Reserve
    <3>2. claim[s].id # None => order'[claim[s].id] = order[claim[s].id]
      BY <1>0, <1>s, <2>1, <2>2
    <3> QED
      BY <1>s, <2>1, <2>2, <3>1, <3>2 DEF Covers
  <2> QED
    BY <2>3, <2>4
<1>2. ASSUME NEW amt \in Amounts, Clamp(amt) PROVE Covers(s)'
  <2>1. /\ worker.pc # "idle" /\ worker'.id = worker.id /\ worker'.amt = amt /\ amt <= worker.amt
        /\ claim' = claim /\ order' = order
    BY <1>0, <1>2 DEF Clamp, Workers, db, outside
  <2>2. amt \in Nat /\ worker.amt \in Nat /\ claim[s].reserved \in Nat
    BY <1>0 DEF Amounts, Workers, Claims
  <2> QED
    BY <1>s, <2>1, <2>2 DEF Covers
<1>3. CASE MarkSubmitting
  <2>1. /\ worker.tok \in Tokens /\ worker'.id = worker.id /\ worker'.amt = worker.amt
        /\ worker.pc # "idle" /\ order' = order /\ claim[worker.tok].state = "reserved"
    BY <1>0, <1>3 DEF MarkSubmitting, CanSubmit, Workers, outside
  <2>2. /\ claim'[s].id = claim[s].id /\ claim'[s].reserved = claim[s].reserved
        /\ claim'[s].state = "none" => claim[s].state = "none"
    BY <1>0, <1>3, <2>1 DEF MarkSubmitting, Claims
  <2> QED
    BY <1>s, <2>1, <2>2 DEF Covers
<1>4. ASSUME \/ GiveUp \/ AnswerNotFilled \/ AnswerUnknown \/ AnswerFilled \/ Crash
             \/ \E t \in Tokens : RecoverStale(t) \/ Settle(t)
                                 \/ \E force \in BOOLEAN : OperatorClear(t, force)
      PROVE  Covers(s)'
  <2>1. order' = order /\ worker' \in {worker, Idle} /\ (Keeps(s) \/ Drops(s) \/ Parks(s))
    BY <1>4, SettlingTypes DEF IInv
  <2>2. worker'.pc # "idle" => worker' = worker
    BY <2>1 DEF Idle
  <2>3. CASE Keeps(s)
    BY <1>s, <2>1, <2>2, <2>3 DEF Covers, Keeps
  <2>4. CASE Drops(s)
    BY <2>4 DEF Covers, Drops, NoClaim
  <2>5. CASE Parks(s)
    BY <1>s, <2>1, <2>2, <2>5 DEF Covers, Parks
  <2> QED
    BY <2>1, <2>3, <2>4, <2>5
<1>5. CASE SendOrder
  <2>1. /\ order' = [order EXCEPT ![worker.id] =
                        [st |-> "wire", tok |-> worker.tok, size |-> worker.amt]]
        /\ claim' = claim /\ worker' = worker /\ worker.pc = "calling" /\ worker.id \in Ids
    BY <1>0, <1>5 DEF SendOrder, db, process
  <2>2. CASE claim[s].id = worker.id
    BY <1>0, <1>s, <2>1, <2>2 DEF Covers
  <2>3. CASE claim[s].id # worker.id
    BY <1>0, <1>s, <2>1, <2>3 DEF Covers
  <2> QED
    BY <2>2, <2>3
<1>6. ASSUME NEW i \in Ids, Fill(i) \/ Kill(i) PROVE Covers(s)'
  <2>1. claim' = claim /\ worker' = worker /\ order[i].st = "wire"
    BY <1>6 DEF Fill, Kill, db, process
  <2>2. \A j \in Ids : order'[j].size = order[j].size /\ (order[j].st = "none" => order'[j].st = "none")
    BY <1>0, <1>6 DEF Fill, Kill, Orders
  <2> QED
    BY <1>s, <2>1, <2>2 DEF Covers
<1>7. ASSUME NEW t \in Tokens, AgeClaim(t) PROVE Covers(s)'
  <2>1. /\ claim'[s].id = claim[s].id /\ claim'[s].reserved = claim[s].reserved
        /\ claim'[s].state = claim[s].state /\ order' = order /\ worker' = worker
    BY <1>0, <1>7 DEF AgeClaim, Claims, process, outside
  <2> QED
    BY <1>s, <2>1 DEF Covers
<1>8. ASSUME UNCHANGED <<claim, worker, order>> PROVE Covers(s)'
  BY <1>s, <1>8 DEF Covers
<1>9. ASSUME NEW t \in Tokens,
             \/ \E amt \in Amounts : SellClaim(t, amt)
             \/ SellSend(t) \/ SellNotSent(t) \/ SellUncertain(t) \/ SellRecord(t)
      PROVE  UNCHANGED <<claim, worker, order>>
  BY <1>9 DEF SellClaim, SellSend, SellNotSent, SellUncertain, SellRecord, db, outside
<1>10. ASSUME NEW t \in Tokens,
              \/ SellFill(t) \/ SellKill(t) \/ RecoverClosing(t) \/ Scan(t) \/ ReadChain(t)
              \/ IndexerCatchUp(t) \/ AgeRow(t)
       PROVE  UNCHANGED <<claim, worker, order>>
  BY <1>10 DEF SellFill, SellKill, RecoverClosing, Scan, ReadChain, IndexerCatchUp, AgeRow,
               db, process, outside
<1>11. ASSUME (\E v \in BOOLEAN : SettingsWrite(v)) \/ SettingsAck \/ SettingsTimeout
              \/ UNCHANGED vars
       PROVE  UNCHANGED <<claim, worker, order>>
  BY <1>11 DEF SettingsWrite, SettingsAck, SettingsTimeout, db, outside, vars
<1>12. ASSUME NEW t \in Tokens,
              \/ RecoverStale(t) \/ Settle(t)
              \/ \E force \in BOOLEAN : OperatorClear(t, force)
       PROVE  Covers(s)'
  BY <1>4, <1>12
<1>13. Buying => Covers(s)'
  BY <1>1, <1>2, <1>3, <1>4, <1>5 DEF Buying
<1>14. Selling \/ Settings \/ UNCHANGED vars => Covers(s)'
  BY <1>8, <1>9, <1>10, <1>11 DEF Selling, Settings
<1>15. Reconciling => Covers(s)'
  BY <1>8, <1>10, <1>12 DEF Reconciling
<1>16. World => Covers(s)'
  BY <1>4, <1>6, <1>7, <1>8, <1>10 DEF World
<1> QED
  BY <1>13, <1>14, <1>15, <1>16 DEF Next

\* Nothing but a reservation adds to what is at risk: a fill is booked, or a holding
\* adopted, within what its claim reserved.
LEMMA RiskFalls ==
    ASSUME IInv, TypeOK', \A s \in Tokens : Covers(s), [Next]_vars,
           ~ \E t \in Tokens, i \in Ids, amt \in Amounts :
                PrepareOpen(t, i, amt) \/ PrepareResize(t, i, amt)
    PROVE  \A s \in Tokens : AtRisk(s)' <= AtRisk(s)
<1>0. /\ claim \in [Tokens -> Claims] /\ order \in [Ids -> Orders] /\ worker \in Workers
      /\ row \in [Tokens -> Rows] /\ claim' \in [Tokens -> Claims] /\ row' \in [Tokens -> Rows]
      /\ (worker.pc # "idle" => worker.tok \in Tokens /\ worker.id \in Ids)
  BY DEF IInv, TypeOK, ClaimInv
<1> SUFFICES ASSUME NEW s \in Tokens PROVE AtRisk(s)' <= AtRisk(s)
  OBVIOUS
<1>s. /\ claim[s].reserved \in Nat /\ claim'[s].reserved \in Nat
      /\ row[s].shares \in Nat /\ row'[s].shares \in Nat
  BY <1>0 DEF Claims, Rows
<1>a. ASSUME claim'[s].reserved <= claim[s].reserved, row'[s].shares <= row[s].shares
      PROVE  AtRisk(s)' <= AtRisk(s)
  BY <1>s, <1>a DEF AtRisk
<1>1. CASE MarkSubmitting
  <2>1. worker.tok \in Tokens /\ row' = row
    BY <1>0, <1>1 DEF MarkSubmitting, outside
  <2>2. claim'[s].reserved = claim[s].reserved
    BY <1>0, <1>1, <2>1 DEF MarkSubmitting, Claims
  <2> QED
    BY <1>a, <1>s, <2>1, <2>2
<1>2. ASSUME Keeps(s) \/ Drops(s) \/ Parks(s) PROVE claim'[s].reserved <= claim[s].reserved
  BY <1>2, <1>s DEF Keeps, Drops, Parks, NoClaim
<1>3. ASSUME \/ GiveUp \/ AnswerNotFilled \/ AnswerUnknown \/ Crash
             \/ \E t \in Tokens : RecoverStale(t) \/ \E force \in BOOLEAN : OperatorClear(t, force)
      PROVE  AtRisk(s)' <= AtRisk(s)
  <2>1. Keeps(s) \/ Drops(s) \/ Parks(s)
    BY <1>3, SettlingTypes DEF IInv
  <2>2. row' = row
    BY <1>3 DEF GiveUp, AnswerNotFilled, AnswerUnknown, Crash, RecoverStale, OperatorClear, db
  <2> QED
    BY <1>2, <1>a, <1>s, <2>1, <2>2
<1>4. CASE AnswerFilled
  <2>0. /\ worker.tok \in Tokens /\ worker.id \in Ids /\ order[worker.id].st = "filled"
        /\ (Keeps(s) \/ Drops(s) \/ Parks(s))
    BY <1>0, <1>4, SettlingTypes DEF AnswerFilled, IInv
  <2>1. CASE CanRecord(worker.tok, worker.id) /\ s = worker.tok
    <3>1. /\ claim'[s].reserved = 0 /\ row'[s].shares = row[s].shares + order[worker.id].size
          /\ claim[s].id = worker.id /\ worker.id # None
      BY <1>0, <1>4, <2>0, <2>1, ConstantsAssumption DEF AnswerFilled, CanRecord, NoClaim, Rows
    <3>2. order[worker.id].size <= claim[s].reserved /\ order[worker.id].size \in Nat
      BY <1>0, <2>0, <3>1 DEF Covers, Orders
    <3> QED
      BY <1>s, <3>1, <3>2 DEF AtRisk
  <2>2. CASE ~ (CanRecord(worker.tok, worker.id) /\ s = worker.tok)
    <3>1. row'[s] = row[s]
      BY <1>0, <1>4, <2>0, <2>2 DEF AnswerFilled
    <3> QED
      BY <1>2, <1>a, <1>s, <2>0, <3>1
  <2> QED
    BY <2>1, <2>2
<1>5. ASSUME NEW t \in Tokens, Settle(t) PROVE AtRisk(s)' <= AtRisk(s)
  <2>1. Keeps(s) \/ Drops(s) \/ Parks(s)
    BY <1>5, SettlingTypes DEF IInv
  <2>2. CASE UNCHANGED row \/ s # t
    <3>1. row'[s] = row[s]
      BY <1>0, <1>5, <2>2 DEF Settle
    <3> QED
      BY <1>2, <1>a, <1>s, <2>1, <3>1
  <2>3. CASE ~ UNCHANGED row /\ s = t
    <3>1. /\ Adoptable(s) /\ claim' = [claim EXCEPT ![s] = NoClaim]
          /\ row' = [row EXCEPT ![s] = [status |-> "open", shares |-> scan[s].held,
                                       age |-> IF Live(s) THEN @.age ELSE "new"]]
      BY <1>5, <2>3, AdoptFacts
    <3>2. claim'[s].reserved = 0 /\ row'[s].shares = scan[s].held
      BY <1>0, <3>1 DEF NoClaim
    <3> QED
      BY <1>s, <3>1, <3>2 DEF Adoptable, AtRisk
  <2> QED
    BY <2>2, <2>3
<1>6. ASSUME NEW t \in Tokens,
             \/ \E amt \in Amounts : SellClaim(t, amt)
             \/ SellNotSent(t) \/ SellRecord(t) \/ RecoverClosing(t) \/ AgeRow(t)
      PROVE  AtRisk(s)' <= AtRisk(s)
  <2>1. claim' = claim
    BY <1>6 DEF SellClaim, SellNotSent, SellRecord, RecoverClosing, AgeRow, outside
  <2>2. seller[t].amt \in Nat /\ seller[t].amt <= row[t].shares /\ row[t].shares \in Nat
    BY <1>0 DEF IInv, TypeOK, RowInv, Sellers, Rows
  <2>3. row'[s].shares <= row[s].shares
    <3>1. CASE SellRecord(t)
      <4>1. CASE seller[t].amt = row[t].shares
        BY <1>0, <1>s, <2>2, <3>1, <4>1 DEF SellRecord, Gone
      <4>2. CASE seller[t].amt # row[t].shares
        <5>1. row'[s].shares = IF s = t THEN row[t].shares - seller[t].amt ELSE row[s].shares
          BY <1>0, <3>1, <4>2 DEF SellRecord, Rows
        <5> QED
          BY <1>s, <2>2, <5>1
      <4> QED
        BY <4>1, <4>2
    <3>2. CASE (\E amt \in Amounts : SellClaim(t, amt)) \/ SellNotSent(t) \/ RecoverClosing(t) \/ AgeRow(t)
      <4>1. row'[s].shares = row[s].shares \/ row'[s].shares = 0
        BY <1>0, <3>2 DEF SellClaim, SellNotSent, RecoverClosing, AgeRow, Gone, Rows
      <4> QED
        BY <1>s, <4>1
    <3> QED
      BY <1>6, <3>1, <3>2
  <2> QED
    BY <1>a, <1>s, <2>1, <2>3
<1>7. ASSUME NEW t \in Tokens, AgeClaim(t) PROVE AtRisk(s)' <= AtRisk(s)
  <2>1. claim'[s].reserved = claim[s].reserved /\ row' = row
    BY <1>0, <1>7 DEF AgeClaim, Claims
  <2> QED
    BY <1>a, <1>s, <2>1
<1>8. ASSUME \/ SendOrder \/ \E amt \in Amounts : Clamp(amt)
             \/ \E i \in Ids : Fill(i) \/ Kill(i)
             \/ \E t \in Tokens : \/ SellSend(t) \/ SellUncertain(t) \/ SellFill(t) \/ SellKill(t)
                                   \/ Scan(t) \/ ReadChain(t) \/ IndexerCatchUp(t)
             \/ \E v \in BOOLEAN : SettingsWrite(v)
             \/ SettingsAck \/ SettingsTimeout \/ UNCHANGED vars
      PROVE  AtRisk(s)' <= AtRisk(s)
  <2>1. UNCHANGED <<claim, row>>
    BY <1>8 DEF SendOrder, Clamp, Fill, Kill, SellSend, SellUncertain, SellFill, SellKill, Scan,
                ReadChain, IndexerCatchUp, SettingsWrite, SettingsAck, SettingsTimeout,
                db, process, outside, vars
  <2> QED
    BY <1>a, <1>s, <2>1
<1> QED
  BY <1>1, <1>3, <1>4, <1>5, <1>6, <1>7, <1>8
     DEF Next, Buying, Selling, Reconciling, Settings, World

\* n is the sum of F over all tokens.
SumIs(F, n) == \E h : SumsUp(F, Tokens, h) /\ n = h[Tokens]

\* The exposure is the sum of what every token has at risk.
ExposureIsSum ==
    \A F \in [Tokens -> Nat] : (\A t \in Tokens : F[t] = AtRisk(t)) => SumIs(F, Exposure)
LEMMA ExposureSums == ExposureIsSum
<1> SUFFICES ASSUME NEW F \in [Tokens -> Nat], \A t \in Tokens : F[t] = AtRisk(t)
             PROVE  SumIs(F, Exposure)
  BY DEF ExposureIsSum
<1> DEFINE P(h) == h = [s \in SUBSET Tokens |->
                          IF s = {} THEN 0
                          ELSE AtRisk(CHOOSE x \in s : TRUE) + h[s \ {CHOOSE x \in s : TRUE}]]
<1>1. \A h : SumsUp(F, Tokens, h) <=> P(h)
  <2>1. \A s \in SUBSET Tokens : s # {} => F[CHOOSE x \in s : TRUE] = AtRisk(CHOOSE x \in s : TRUE)
    <3>1. \A s \in SUBSET Tokens : s # {} => (CHOOSE x \in s : TRUE) \in Tokens
      OBVIOUS
    <3> QED
      BY <3>1
  <2> SUFFICES ASSUME NEW h
               PROVE  SumsUp(F, Tokens, h) <=> P(h)
    OBVIOUS
  <2> DEFINE VF == [s \in SUBSET Tokens |->
                      IF s = {} THEN 0 ELSE F[CHOOSE x \in s : TRUE] + h[s \ {CHOOSE x \in s : TRUE}]]
             VR == [s \in SUBSET Tokens |->
                      IF s = {} THEN 0
                      ELSE AtRisk(CHOOSE x \in s : TRUE) + h[s \ {CHOOSE x \in s : TRUE}]]
  <2>2. \A s \in SUBSET Tokens :
           (IF s = {} THEN 0 ELSE F[CHOOSE x \in s : TRUE] + h[s \ {CHOOSE x \in s : TRUE}])
           = (IF s = {} THEN 0 ELSE AtRisk(CHOOSE x \in s : TRUE) + h[s \ {CHOOSE x \in s : TRUE}])
    BY <2>1
  <2>3. VF = VR
    BY <2>2
  <2>4. SumsUp(F, Tokens, h) <=> h = VF
    BY Zenon DEF SumsUp, Pick
  <2>5. P(h) <=> h = VR
    OBVIOUS
  <2> HIDE DEF P, VF, VR
  <2> QED
    BY <2>3, <2>4, <2>5
<1>2. P(CHOOSE h : P(h))
  <2> HIDE DEF P
  <2>1. \E h : P(h)
    BY <1>1, SumExists, ConstantsAssumption DEF ConstantsAssumption
  <2> QED
    BY <2>1
<1>3. Exposure = (CHOOSE h : P(h))[Tokens]
  BY DEF Exposure, MapThenSumSet, MapThenFoldSet
<1> HIDE DEF P
<1> QED
  BY <1>1, <1>2, <1>3 DEF SumIs

\* Sums over the tokens are numbers, and grow with their summands.
LEMMA TokenSumsGrow ==
    ASSUME NEW F \in [Tokens -> Nat], NEW G \in [Tokens -> Nat],
           NEW m, NEW n, SumIs(F, m), SumIs(G, n), \A t \in Tokens : F[t] <= G[t]
    PROVE  m \in Nat /\ n \in Nat /\ m <= n
<1>1. PICK h : SumsUp(F, Tokens, h) /\ m = h[Tokens]
  BY DEF SumIs
<1>2. PICK k : SumsUp(G, Tokens, k) /\ n = k[Tokens]
  BY DEF SumIs
<1> QED
  BY <1>1, <1>2, SumGrows, ConstantsAssumption DEF ConstantsAssumption

LEMMA TokenSumsAdd ==
    ASSUME NEW F \in [Tokens -> Nat], NEW G \in [Tokens -> Nat],
           NEW m, NEW n, SumIs(F, m), SumIs(G, n), NEW t \in Tokens, NEW d \in Nat,
           \A x \in Tokens : G[x] = IF x = t THEN F[x] + d ELSE F[x]
    PROVE  n = m + d
<1>1. PICK h : SumsUp(F, Tokens, h) /\ m = h[Tokens]
  BY DEF SumIs
<1>2. PICK k : SumsUp(G, Tokens, k) /\ n = k[Tokens]
  BY DEF SumIs
<1> QED
  BY <1>1, <1>2, SumAdds, ConstantsAssumption DEF ConstantsAssumption

\* What is at risk stays inside the limits: a reservation checks both before it adds
\* to them, and no other step adds anything.
LEMMA RiskStep == IInv /\ TypeOK' /\ RiskInv /\ [Next]_vars => RiskInv'
<1> SUFFICES ASSUME IInv, TypeOK', RiskInv, [Next]_vars PROVE RiskInv'
  OBVIOUS
<1> DEFINE F == [t \in Tokens |-> AtRisk(t)]
           G == [t \in Tokens |-> AtRisk(t)']
<1>0. /\ claim \in [Tokens -> Claims] /\ claim' \in [Tokens -> Claims]
      /\ row \in [Tokens -> Rows] /\ row' \in [Tokens -> Rows]
  BY DEF IInv, TypeOK
<1>1. \A t \in Tokens : AtRisk(t) \in Nat /\ AtRisk(t)' \in Nat
  BY <1>0 DEF AtRisk, Claims, Rows
<1>2. F \in [Tokens -> Nat] /\ G \in [Tokens -> Nat]
  BY <1>1
<1>3. \A t \in Tokens : F[t] = AtRisk(t) /\ G[t] = AtRisk(t)'
  OBVIOUS
<1> HIDE DEF F, G
<1>4. SumIs(F, Exposure)
  BY <1>2, <1>3, ExposureSums DEF ExposureIsSum
<1>5. SumIs(G, Exposure')
  <2>1. ExposureIsSum'
    BY ExposureSums, PTL
  <2>2. \A H \in [Tokens -> Nat] : (\A t \in Tokens : H[t] = AtRisk(t)') => SumIs(H, Exposure')
    BY <2>1 DEF ExposureIsSum, SumIs
  <2> QED
    BY <1>2, <1>3, <2>2
<1>6. /\ \A t \in Tokens : Covers(t) /\ AtRisk(t) <= MaxPerTrade
      /\ Exposure <= MaxTotal
  BY DEF RiskInv
<1>7. \A t \in Tokens : Covers(t)'
  BY <1>6, CoverStep
<1>8. Exposure \in Nat /\ Exposure' \in Nat /\ MaxTotal \in Nat /\ MaxPerTrade \in Nat
  <2>1. \A t \in Tokens : F[t] <= F[t] /\ G[t] <= G[t]
    BY <1>2
  <2> QED
    BY <1>2, <1>4, <1>5, <2>1, TokenSumsGrow, ConstantsAssumption DEF ConstantsAssumption
<1>9. ASSUME NEW t \in Tokens, NEW i \in Ids, NEW amt \in Amounts,
             PrepareOpen(t, i, amt) \/ PrepareResize(t, i, amt)
      PROVE  RiskInv'
  <2>1. amt \in Nat /\ amt <= MaxPerTrade
    BY <1>8 DEF Amounts
  <2>2. /\ Exposure + amt <= MaxTotal /\ claim[t].state = "none" /\ row' = row
        /\ row[t].shares + amt <= MaxPerTrade
    <3>1. ~Live(t) => row[t].shares = 0
      BY DEF Live, IInv, RowInv
    <3> QED
      BY <1>9, <2>1, <3>1 DEF PrepareOpen, PrepareResize, Unclaimed, Reserve
  <2>3. claim[t].reserved = 0
    BY <1>6, <2>2 DEF Covers
  <2>4. \A x \in Tokens : claim'[x].reserved = IF x = t THEN amt ELSE claim[x].reserved
    BY <1>0, <1>9 DEF PrepareOpen, PrepareResize, Reserve
  <2>5. \A x \in Tokens : row[x].shares \in Nat /\ claim[x].reserved \in Nat
    BY <1>0 DEF Rows, Claims
  <2>6. \A x \in Tokens : AtRisk(x)' = IF x = t THEN AtRisk(x) + amt ELSE AtRisk(x)
    BY <2>1, <2>2, <2>3, <2>4, <2>5 DEF AtRisk
  <2>7. \A x \in Tokens : G[x] = IF x = t THEN F[x] + amt ELSE F[x]
    BY <1>3, <2>6
  <2>8. Exposure' = Exposure + amt
    BY <1>2, <1>4, <1>5, <2>1, <2>7, TokenSumsAdd
  <2>9. \A x \in Tokens : AtRisk(x)' <= MaxPerTrade
    <3>1. AtRisk(t)' <= MaxPerTrade
      BY <2>1, <2>2, <2>3, <2>4, <2>5 DEF AtRisk
    <3> QED
      BY <1>6, <2>6, <3>1
  <2>10. Exposure' <= MaxTotal
    BY <2>2, <2>8
  <2> QED
    BY <1>7, <2>9, <2>10 DEF RiskInv
<1>10. CASE ~ \E t \in Tokens, i \in Ids, amt \in Amounts :
                 PrepareOpen(t, i, amt) \/ PrepareResize(t, i, amt)
  <2>1. \A t \in Tokens : AtRisk(t)' <= AtRisk(t)
    BY <1>6, <1>10, RiskFalls
  <2>2. \A t \in Tokens : AtRisk(t)' <= MaxPerTrade
    BY <1>1, <1>6, <1>8, <2>1
  <2>3. \A t \in Tokens : G[t] <= F[t]
    BY <1>3, <2>1
  <2>4. Exposure' <= Exposure
    BY <1>2, <1>4, <1>5, <2>3, TokenSumsGrow
  <2>5. Exposure' <= MaxTotal
    BY <1>6, <1>8, <2>4
  <2> QED
    BY <1>7, <2>2, <2>5 DEF RiskInv
<1> QED
  BY <1>9, <1>10

\* A fill that is not booked yet delivered at most its order: while its outcome is
\* unknown, no step but that fill makes the wallet outgrow what is tracked.
LEMMA FilledStep == IInv /\ IInv' /\ FilledInv /\ [Next]_vars => FilledInv'
<1> SUFFICES ASSUME IInv, IInv', FilledInv, [Next]_vars, NEW s \in Tokens, s \notin waived'
             PROVE  Unaccounted(s)'
  BY DEF FilledInv
<1>0. /\ claim \in [Tokens -> Claims] /\ row \in [Tokens -> Rows] /\ order \in [Ids -> Orders]
      /\ seller \in [Tokens -> Sellers] /\ wallet \in [Tokens -> Nat]
      /\ claim' \in [Tokens -> Claims] /\ row' \in [Tokens -> Rows] /\ order' \in [Ids -> Orders]
      /\ seller' \in [Tokens -> Sellers] /\ wallet' \in [Tokens -> Nat] /\ TypeOK'
  BY DEF IInv, TypeOK
<1>1. /\ s \notin waived /\ Unaccounted(s) /\ Fenced(s) /\ Ledger(s) /\ Evidence(s)
      /\ RowInv /\ ClaimInv /\ ClaimInv'
  BY WaivedGrows DEF IInv, LedgerInv, FilledInv
<1>2. /\ claim[s].id # None => claim[s].id \in Ids
      /\ claim'[s].id # None => claim'[s].id \in Ids
      /\ wallet[s] \in Nat /\ wallet'[s] \in Nat
      /\ row[s].shares \in Nat /\ row'[s].shares \in Nat
      /\ Sold(s) \in Nat /\ Sold(s)' \in Nat
      /\ \A i \in Ids : order[i].size \in Nat /\ order'[i].size \in Nat
  BY <1>0 DEF Claims, Rows, Sellers, Orders, Sold
<1>3. Tracked(s) \in Int /\ Tracked(s)' \in Int
  BY <1>2 DEF Tracked
<1>4. ASSUME claim'[s].id = claim[s].id, wallet'[s] = wallet[s], Tracked(s) <= Tracked(s)',
             /\ claim[s].id # None /\ order'[claim[s].id].st = "filled"
             => /\ order[claim[s].id].st = "filled"
                /\ order'[claim[s].id].size = order[claim[s].id].size
      PROVE  Unaccounted(s)'
  BY <1>1, <1>2, <1>3, <1>4 DEF Unaccounted
<1>5. ASSUME Untouched(s) PROVE Unaccounted(s)'
  <2>1. claim'[s].id = claim[s].id /\ wallet'[s] = wallet[s] /\ Tracked(s)' = Tracked(s)
    BY <1>5 DEF Untouched, Tracked
  <2>2. claim[s].id # None => order'[claim[s].id] = order[claim[s].id]
    BY <1>2, <1>5 DEF Untouched
  <2> QED
    BY <1>3, <1>4, <2>1, <2>2
<1>6. ASSUME \/ \E amt \in Amounts : Clamp(amt)
             \/ \E t \in Tokens : \/ SellSend(t) \/ SellUncertain(t) \/ SellKill(t)
                                  \/ AgeClaim(t) \/ AgeRow(t)
             \/ \E v \in BOOLEAN : SettingsWrite(v)
             \/ SettingsAck \/ SettingsTimeout \/ UNCHANGED vars
      PROVE  Unaccounted(s)'
  BY <1>0, <1>5, <1>6, QuietStep
<1>7. ASSUME \/ GiveUp \/ AnswerNotFilled \/ AnswerUnknown \/ AnswerFilled \/ Crash
             \/ \E t \in Tokens : RecoverStale(t) \/ Settle(t)
                                 \/ \E force \in BOOLEAN : OperatorClear(t, force)
      PROVE  Unaccounted(s)'
  <2>1. order' = order /\ (Keeps(s) \/ Drops(s) \/ Parks(s))
    BY <1>7, SettlingTypes DEF IInv
  <2>2. wallet' = wallet /\ Sold(s)' = Sold(s)
    <3>1. CASE Crash
      BY <1>0, <3>1 DEF Crash, outside, Sold, Sellers
    <3>2. ASSUME \/ GiveUp \/ AnswerNotFilled \/ AnswerUnknown \/ AnswerFilled
                 \/ \E t \in Tokens : RecoverStale(t) \/ Settle(t)
                                     \/ \E force \in BOOLEAN : OperatorClear(t, force)
          PROVE  wallet' = wallet /\ seller' = seller
      BY <3>2 DEF GiveUp, AnswerNotFilled, AnswerUnknown, AnswerFilled, RecoverStale, Settle,
                  OperatorClear, outside, process
    <3> QED
      BY <1>7, <3>1, <3>2 DEF Sold
  <2>3. row'[s] = row[s] \/ Drops(s)
    <3>1. CASE AnswerFilled
      <4>1. worker.tok \in Tokens
        BY <1>1, <3>1 DEF AnswerFilled, ClaimInv
      <4> QED
        BY <1>0, <3>1, <4>1 DEF AnswerFilled, Drops
    <3>2. ASSUME NEW t \in Tokens, Settle(t) PROVE row'[s] = row[s] \/ Drops(s)
      <4>1. CASE ~ UNCHANGED row
        <5>1. /\ claim' = [claim EXCEPT ![t] = NoClaim]
              /\ row' = [row EXCEPT ![t] = [status |-> "open", shares |-> scan[t].held,
                                           age |-> IF Live(t) THEN @.age ELSE "new"]]
          BY <3>2, <4>1, AdoptFacts
        <5> QED
          BY <1>0, <5>1 DEF Drops
      <4> QED
        BY <4>1
    <3>3. ASSUME \/ GiveUp \/ AnswerNotFilled \/ AnswerUnknown \/ Crash
                 \/ \E t \in Tokens : RecoverStale(t) \/ \E force \in BOOLEAN : OperatorClear(t, force)
          PROVE  row' = row
      BY <3>3 DEF GiveUp, AnswerNotFilled, AnswerUnknown, Crash, RecoverStale, OperatorClear, db
    <3> QED
      BY <1>7, <3>1, <3>2, <3>3
  <2>4. CASE Drops(s)
    BY <2>4 DEF Drops, NoClaim, Unaccounted
  <2>5. CASE (Keeps(s) \/ Parks(s)) /\ row'[s] = row[s]
    <3>1. claim'[s].id = claim[s].id /\ Tracked(s)' = Tracked(s)
      BY <2>2, <2>5 DEF Keeps, Parks, Tracked
    <3> QED
      BY <1>3, <1>4, <2>1, <2>2, <3>1
  <2> QED
    BY <2>1, <2>3, <2>4, <2>5
<1>8. ASSUME NEW t \in Tokens, NEW i \in Ids, NEW amt \in Amounts,
             PrepareOpen(t, i, amt) \/ PrepareResize(t, i, amt)
      PROVE  Unaccounted(s)'
  <2>1. /\ Fresh(i) /\ order' = [order EXCEPT ![i] = NoOrder]
        /\ UNCHANGED <<row, seller, wallet>>
    BY <1>8 DEF PrepareOpen, PrepareResize, Reserve
  <2>2. CASE s = t
    <3>1. claim'[s].id = i /\ order'[i].st = "none"
      BY <1>0, <1>8, <2>1, <2>2 DEF PrepareOpen, PrepareResize, Reserve, NoOrder
    <3> QED
      BY <3>1 DEF Unaccounted
  <2>3. CASE s # t
    <3>1. claim'[s] = claim[s]
      BY <1>0, <1>8, <2>3 DEF PrepareOpen, PrepareResize, Reserve
    <3>2. claim[s].id # None => order'[claim[s].id] = order[claim[s].id]
      BY <1>0, <1>2, <2>1 DEF Fresh
    <3>3. Tracked(s)' = Tracked(s)
      BY <2>1 DEF Tracked, Sold
    <3> QED
      BY <1>3, <1>4, <2>1, <3>1, <3>2, <3>3
  <2> QED
    BY <2>2, <2>3
<1>9. CASE MarkSubmitting
  <2>1. worker.tok \in Tokens /\ UNCHANGED <<row, seller, order, wallet>>
    BY <1>1, <1>9 DEF MarkSubmitting, ClaimInv, outside
  <2>2. claim'[s].id = claim[s].id
    BY <1>0, <1>9, <2>1 DEF MarkSubmitting, Claims
  <2>3. Tracked(s)' = Tracked(s)
    BY <2>1 DEF Tracked, Sold
  <2> QED
    BY <1>3, <1>4, <2>1, <2>2, <2>3
<1>10. CASE SendOrder
  <2>1. /\ worker.id \in Ids /\ UNCHANGED <<claim, row, seller, wallet>>
        /\ order' = [order EXCEPT ![worker.id] =
                        [st |-> "wire", tok |-> worker.tok, size |-> worker.amt]]
    BY <1>1, <1>10 DEF SendOrder, ClaimInv, db, process
  <2>2. claim[s].id # None /\ order'[claim[s].id].st = "filled"
          => order'[claim[s].id] = order[claim[s].id]
    BY <1>0, <1>2, <2>1
  <2>3. Tracked(s)' = Tracked(s)
    BY <2>1 DEF Tracked, Sold
  <2> QED
    BY <1>3, <1>4, <2>1, <2>2, <2>3
<1>11. ASSUME NEW i \in Ids, Fill(i) \/ Kill(i) PROVE Unaccounted(s)'
  <2>1. /\ order[i].st = "wire" /\ UNCHANGED <<claim, row, seller>>
        /\ \A j \in Ids \ {i} : order'[j] = order[j]
    BY <1>0, <1>11 DEF Fill, Kill, db, process
  <2>2. Tracked(s)' = Tracked(s)
    BY <2>1 DEF Tracked, Sold
  <2>3. CASE Fill(i) /\ order[i].tok = s
    <3>1. claim[s].id = i /\ claim[s].id # None
      BY <1>1, <2>1, <2>3, ConstantsAssumption DEF Fenced, ConstantsAssumption
    <3>2. wallet[s] = Tracked(s)
      BY <1>1, <2>1, <3>1 DEF Ledger, ClaimInv
    <3>3. wallet'[s] = wallet[s] + order[i].size /\ order'[i].size = order[i].size
      BY <1>0, <2>3 DEF Fill, Orders
    <3> QED
      BY <1>2, <1>3, <2>1, <2>2, <3>1, <3>2, <3>3 DEF Unaccounted
  <2>4. CASE ~ (Fill(i) /\ order[i].tok = s)
    <3>1. wallet'[s] = wallet[s]
      BY <1>0, <1>11, <2>4 DEF Fill, Kill
    <3>2. claim[s].id = i /\ Fill(i) => FALSE
      BY <1>1, <2>1, <2>4, ConstantsAssumption DEF ClaimInv, ConstantsAssumption
    <3>3. Kill(i) => order'[i].st = "dead"
      BY <1>0 DEF Kill, Orders
    <3> QED
      BY <1>2, <1>3, <1>4, <1>11, <2>1, <2>2, <3>1, <3>2, <3>3
  <2> QED
    BY <2>3, <2>4
<1>12. ASSUME NEW t \in Tokens,
              \/ \E amt \in Amounts : SellClaim(t, amt)
              \/ SellFill(t) \/ SellNotSent(t) \/ SellRecord(t) \/ RecoverClosing(t)
       PROVE  Unaccounted(s)'
  <2>1. UNCHANGED <<claim, order, worker, indexed, scan>>
    BY <1>12 DEF SellClaim, SellFill, SellNotSent, SellRecord, RecoverClosing, outside, db
  <2>2. CASE s # t
    <3>1. row'[s] = row[s] /\ seller'[s] = seller[s] /\ wallet'[s] = wallet[s]
      BY <1>0, <1>12, <2>2 DEF SellClaim, SellFill, SellNotSent, SellRecord, RecoverClosing, outside, db
    <3>2. Tracked(s)' = Tracked(s)
      BY <3>1 DEF Tracked, Sold
    <3> QED
      BY <1>3, <1>4, <2>1, <3>1, <3>2
  <2>3. CASE s = t
    <3>0. seller[s].amt \in Nat /\ seller[s].amt <= row[s].shares
      BY <1>0, <1>1 DEF Sellers, RowInv
    <3>1. ASSUME NEW amt \in Amounts, SellClaim(s, amt) PROVE Unaccounted(s)'
      <4>1. /\ row[s].status = "open" /\ wallet' = wallet
            /\ row'[s].shares = row[s].shares /\ seller'[s].st = "none"
        BY <1>0, <3>1 DEF SellClaim, Rows
      <4>2. Tracked(s)' = Tracked(s)
        BY <1>1, <1>2, <4>1 DEF Tracked, Sold, RowInv, NoSell
      <4> QED
        BY <1>3, <1>4, <2>1, <4>1, <4>2
    <3>2. CASE SellFill(s)
      <4>1. /\ seller[s].st = "wire" /\ row' = row
            /\ seller'[s].st = "filled" /\ seller'[s].amt = seller[s].amt
            /\ wallet'[s] = wallet[s] - seller[s].amt
        BY <1>0, <3>2 DEF SellFill, Sellers, db
      <4>2. Tracked(s) = row[s].shares /\ Tracked(s)' = row[s].shares - seller[s].amt
        BY <1>2, <4>1 DEF Tracked, Sold
      <4> QED
        BY <1>1, <1>2, <2>1, <3>0, <4>1, <4>2 DEF Unaccounted
    <3>3. CASE SellNotSent(s)
      <4>1. /\ seller[s].st = "none" /\ wallet' = wallet
            /\ row'[s].shares = row[s].shares /\ seller'[s] = NoSell
        BY <1>0, <3>3 DEF SellNotSent, Rows, outside
      <4>2. Tracked(s)' = Tracked(s)
        BY <1>2, <4>1 DEF Tracked, Sold, NoSell
      <4> QED
        BY <1>3, <1>4, <2>1, <4>1, <4>2
    <3>4. CASE SellRecord(s)
      <4>1. /\ seller[s].st = "filled" /\ wallet' = wallet
            /\ row'[s].shares = row[s].shares - seller[s].amt /\ seller'[s] = NoSell
        <5>1. row[s].shares - seller[s].amt = 0 <=> seller[s].amt = row[s].shares
          BY <1>2, <3>0
        <5> QED
          BY <1>0, <1>2, <3>0, <3>4, <5>1 DEF SellRecord, Rows, Gone
      <4>2. Tracked(s)' = Tracked(s)
        BY <1>2, <3>0, <4>1 DEF Tracked, Sold, NoSell
      <4> QED
        BY <1>3, <1>4, <2>1, <4>1, <4>2
    <3>5. CASE RecoverClosing(s)
      <4>1. /\ row[s].status = "closing" /\ row[s].age # "new" /\ seller'[s] = NoSell
            /\ wallet' = wallet
        BY <1>0, <3>5 DEF RecoverClosing
      <4>2. Tracked(s)' = row'[s].shares
        BY <1>2, <4>1 DEF Tracked, Sold, NoSell
      <4>3. CASE row' = [row EXCEPT ![s].status = "open"]
        <5>1. row'[s].shares = row[s].shares
          BY <1>0, <4>3 DEF Rows
        <5>2. Tracked(s) <= Tracked(s)'
          BY <1>2, <4>2, <5>1 DEF Tracked
        <5> QED
          BY <1>4, <2>1, <4>1, <5>2
      <4>4. CASE indexed[s] = 0 /\ row' = [row EXCEPT ![s] = Gone]
        <5>1. row'[s].shares = 0
          BY <1>0, <4>4 DEF Gone
        <5>2. wallet[s] = 0 \/ Tracked(s) = 0
          BY <1>1, <4>1, <4>4 DEF RowInv, Evidence, Plausible
        <5> QED
          BY <1>1, <1>2, <1>3, <2>1, <4>1, <4>2, <5>1, <5>2 DEF Unaccounted
      <4> QED
        BY <3>5, <4>3, <4>4 DEF RecoverClosing
    <3> QED
      BY <1>12, <2>3, <3>1, <3>2, <3>3, <3>4, <3>5
  <2> QED
    BY <2>2, <2>3
<1>13. ASSUME NEW t \in Tokens, Scan(t) \/ ReadChain(t) \/ IndexerCatchUp(t)
       PROVE  Unaccounted(s)'
  <2>1. UNCHANGED <<claim, row, order, seller, wallet>>
    BY <1>13 DEF Scan, ReadChain, IndexerCatchUp, db, process, outside
  <2>2. Tracked(s)' = Tracked(s)
    BY <2>1 DEF Tracked, Sold
  <2> QED
    BY <1>3, <1>4, <2>1, <2>2
<1>14. Buying => Unaccounted(s)'
  BY <1>6, <1>7, <1>8, <1>9, <1>10 DEF Buying
<1>15. Selling => Unaccounted(s)'
  BY <1>6, <1>12 DEF Selling
<1>16. Reconciling => Unaccounted(s)'
  BY <1>7, <1>13 DEF Reconciling
<1>17. Settings \/ UNCHANGED vars => Unaccounted(s)'
  BY <1>6 DEF Settings
<1>18. World => Unaccounted(s)'
  BY <1>6, <1>7, <1>11, <1>12, <1>13 DEF World
<1> QED
  BY <1>14, <1>15, <1>16, <1>17, <1>18 DEF Next

\* What is held or on its way is a sum over the tokens too.
HeldIsSum ==
    \A F \in [Tokens -> Nat] : (\A t \in Tokens : F[t] = Held(t))
                                 => SumIs(F, MapThenSumSet(Held, Tokens))
LEMMA HeldSums == HeldIsSum
<1> SUFFICES ASSUME NEW F \in [Tokens -> Nat], \A t \in Tokens : F[t] = Held(t)
             PROVE  SumIs(F, MapThenSumSet(Held, Tokens))
  BY DEF HeldIsSum
<1> DEFINE P(h) == h = [s \in SUBSET Tokens |->
                          IF s = {} THEN 0
                          ELSE Held(CHOOSE x \in s : TRUE) + h[s \ {CHOOSE x \in s : TRUE}]]
<1>1. \A h : SumsUp(F, Tokens, h) <=> P(h)
  <2>1. \A s \in SUBSET Tokens : s # {} => F[CHOOSE x \in s : TRUE] = Held(CHOOSE x \in s : TRUE)
    <3>1. \A s \in SUBSET Tokens : s # {} => (CHOOSE x \in s : TRUE) \in Tokens
      OBVIOUS
    <3> QED
      BY <3>1
  <2> SUFFICES ASSUME NEW h
               PROVE  SumsUp(F, Tokens, h) <=> P(h)
    OBVIOUS
  <2> DEFINE VF == [s \in SUBSET Tokens |->
                      IF s = {} THEN 0 ELSE F[CHOOSE x \in s : TRUE] + h[s \ {CHOOSE x \in s : TRUE}]]
             VR == [s \in SUBSET Tokens |->
                      IF s = {} THEN 0
                      ELSE Held(CHOOSE x \in s : TRUE) + h[s \ {CHOOSE x \in s : TRUE}]]
  <2>2. \A s \in SUBSET Tokens :
           (IF s = {} THEN 0 ELSE F[CHOOSE x \in s : TRUE] + h[s \ {CHOOSE x \in s : TRUE}])
           = (IF s = {} THEN 0 ELSE Held(CHOOSE x \in s : TRUE) + h[s \ {CHOOSE x \in s : TRUE}])
    BY <2>1
  <2>3. VF = VR
    BY <2>2
  <2>4. SumsUp(F, Tokens, h) <=> h = VF
    BY Zenon DEF SumsUp, Pick
  <2>5. P(h) <=> h = VR
    OBVIOUS
  <2> HIDE DEF P, VF, VR
  <2> QED
    BY <2>3, <2>4, <2>5
<1>2. P(CHOOSE h : P(h))
  <2> HIDE DEF P
  <2>1. \E h : P(h)
    BY <1>1, SumExists, ConstantsAssumption DEF ConstantsAssumption
  <2> QED
    BY <2>1
<1>3. MapThenSumSet(Held, Tokens) = (CHOOSE h : P(h))[Tokens]
  BY DEF MapThenSumSet, MapThenFoldSet
<1> HIDE DEF P
<1> QED
  BY <1>1, <1>2, <1>3 DEF SumIs

\* At most one order of a token is on the wire: the one its claim was made for.
LEMMA WireSum ==
    ASSUME IInv, NEW t \in Tokens, t \notin waived
    PROVE  OnWire(t) = IF claim[t].id # None /\ order[claim[t].id].st = "wire"
                       THEN order[claim[t].id].size ELSE 0
<1> DEFINE W == {i \in Ids : order[i].st = "wire" /\ order[i].tok = t}
           P(h) == h = [s \in SUBSET W |->
                          IF s = {} THEN 0
                          ELSE order[CHOOSE x \in s : TRUE].size + h[s \ {CHOOSE x \in s : TRUE}]]
           F == [i \in W |-> order[i].size]
<1>0. /\ claim \in [Tokens -> Claims] /\ order \in [Ids -> Orders]
      /\ ClaimInv /\ Fenced(t) /\ (claim[t].id # None => claim[t].id \in Ids)
  BY DEF IInv, TypeOK, LedgerInv, Claims
<1>1. OnWire(t) = (CHOOSE h : P(h))[W]
  BY DEF OnWire, MapThenSumSet, MapThenFoldSet
<1>2. W = IF claim[t].id # None /\ order[claim[t].id].st = "wire" THEN {claim[t].id} ELSE {}
  BY <1>0, ConstantsAssumption DEF Fenced, ClaimInv, ConstantsAssumption
<1>3. IsFiniteSet(W)
  <2> HIDE DEF W
  <2>1. IsFiniteSet({}) /\ IsFiniteSet({claim[t].id})
    BY FS_EmptySet, FS_Singleton
  <2> QED
    BY <1>2, <2>1
<1>4. F \in [W -> Nat]
  BY <1>0 DEF Orders
<1>5. \A h : SumsUp(F, W, h) <=> P(h)
  <2> SUFFICES ASSUME NEW h
               PROVE  SumsUp(F, W, h) <=> P(h)
    OBVIOUS
  <2> DEFINE VF == [s \in SUBSET W |->
                      IF s = {} THEN 0 ELSE F[CHOOSE x \in s : TRUE] + h[s \ {CHOOSE x \in s : TRUE}]]
             VR == [s \in SUBSET W |->
                      IF s = {} THEN 0
                      ELSE order[CHOOSE x \in s : TRUE].size + h[s \ {CHOOSE x \in s : TRUE}]]
  <2>1. \A s \in SUBSET W : s # {} => F[CHOOSE x \in s : TRUE] = order[CHOOSE x \in s : TRUE].size
    <3>1. \A s \in SUBSET W : s # {} => (CHOOSE x \in s : TRUE) \in W
      <4> HIDE DEF W
      <4> QED
        OBVIOUS
    <3>2. \A i \in W : F[i] = order[i].size
      OBVIOUS
    <3> HIDE DEF W, F
    <3> QED
      BY <3>1, <3>2
  <2>2. \A s \in SUBSET W :
           (IF s = {} THEN 0 ELSE F[CHOOSE x \in s : TRUE] + h[s \ {CHOOSE x \in s : TRUE}])
           = (IF s = {} THEN 0 ELSE order[CHOOSE x \in s : TRUE].size + h[s \ {CHOOSE x \in s : TRUE}])
    <3> HIDE DEF W, F
    <3> QED
      BY <2>1
  <2>3. VF = VR
    <3> HIDE DEF W, F
    <3> QED
      BY <2>2
  <2>4. SumsUp(F, W, h) <=> h = VF
    <3> HIDE DEF W, F
    <3> QED
      BY Zenon DEF SumsUp, Pick
  <2>5. P(h) <=> h = VR
    OBVIOUS
  <2> HIDE DEF P, VF, VR, F, W
  <2> QED
    BY <2>3, <2>4, <2>5
<1> HIDE DEF P, W, F
<1>6. PICK h : SumsUp(F, W, h) /\ OnWire(t) = h[W]
  <2>1. \E h : P(h)
    BY <1>3, <1>4, <1>5, SumExists
  <2>2. P(CHOOSE h : P(h))
    BY <2>1
  <2> QED
    BY <1>1, <1>5, <2>2
<1>7. Summed(F, W, h)
  BY <1>6, SumStep
<1>8. h[{}] = 0
  <2>1. {} \in SUBSET W
    OBVIOUS
  <2> QED
    BY <1>7, <2>1 DEF Summed
<1>9. CASE claim[t].id # None /\ order[claim[t].id].st = "wire"
  <2>1. W = {claim[t].id}
    BY <1>2, <1>9
  <2>2. Pick(W) = claim[t].id /\ W \ {Pick(W)} = {} /\ W # {}
    BY <2>1 DEF Pick
  <2>3. W \in SUBSET W
    OBVIOUS
  <2>4. h[W] = F[claim[t].id] + h[{}]
    BY <1>7, <2>2, <2>3 DEF Summed
  <2>5. F[claim[t].id] = order[claim[t].id].size /\ F[claim[t].id] \in Nat
    BY <1>4, <2>1 DEF F
  <2> QED
    BY <1>6, <1>8, <1>9, <2>4, <2>5
<1>10. CASE ~ (claim[t].id # None /\ order[claim[t].id].st = "wire")
  BY <1>2, <1>6, <1>8, <1>10
<1> QED
  BY <1>9, <1>10

\* What a token really has at stake is at most what the books put at risk for it.
LEMMA HeldAtMostRisk ==
    ASSUME IInv, RiskInv, FilledInv, NEW t \in Tokens, t \notin waived
    PROVE  Held(t) \in Nat /\ AtRisk(t) \in Nat /\ Held(t) <= AtRisk(t)
<1>1. /\ wallet[t] \in Nat /\ row[t].shares \in Nat /\ claim[t].reserved \in Nat
      /\ (claim[t].id # None => claim[t].id \in Ids /\ order[claim[t].id].size \in Nat)
      /\ Tracked(t) \in Int /\ Tracked(t) <= row[t].shares
  <2>1. seller[t].amt \in Nat /\ row[t].shares \in Nat /\ wallet[t] \in Nat
    BY DEF IInv, TypeOK, Sellers, Rows
  <2>2. claim[t].reserved \in Nat /\ (claim[t].id # None => claim[t].id \in Ids)
    BY DEF IInv, TypeOK, Claims
  <2>3. \A i \in Ids : order[i].size \in Nat
    BY DEF IInv, TypeOK, Orders
  <2>4. Tracked(t) \in Int /\ Tracked(t) <= row[t].shares
    BY <2>1 DEF Tracked, Sold
  <2> QED
    BY <2>1, <2>2, <2>3, <2>4
<1>2. /\ OnWire(t) = IF claim[t].id # None /\ order[claim[t].id].st = "wire"
                     THEN order[claim[t].id].size ELSE 0
      /\ Ledger(t) /\ Covers(t) /\ Unaccounted(t) /\ (claim[t].state = "none" <=> claim[t].id = None)
  BY WireSum DEF IInv, LedgerInv, RiskInv, FilledInv, ClaimInv
<1>3. CASE claim[t].id = None
  BY <1>1, <1>2, <1>3 DEF Held, AtRisk, Ledger
<1>4. CASE claim[t].id # None /\ order[claim[t].id].st = "filled"
  BY <1>1, <1>2, <1>4 DEF Held, AtRisk, Unaccounted, Covers
<1>5. CASE claim[t].id # None /\ order[claim[t].id].st # "filled"
  <2>1. wallet[t] <= row[t].shares
    BY <1>1, <1>2, <1>5 DEF Ledger
  <2>2. OnWire(t) \in Nat /\ OnWire(t) <= claim[t].reserved
    BY <1>1, <1>2, <1>5 DEF Covers
  <2> QED
    BY <1>1, <2>1, <2>2 DEF Held, AtRisk
<1> QED
  BY <1>3, <1>4, <1>5

\* Nothing is at risk before the first reservation.
LEMMA InitRisk == Init => RiskInv /\ FilledInv
<1> SUFFICES ASSUME Init PROVE RiskInv /\ FilledInv
  OBVIOUS
<1>1. \A t \in Tokens : AtRisk(t) = 0
  BY DEF Init, AtRisk, NoClaim
<1>2. MaxPerTrade \in Nat /\ MaxTotal \in Nat
  BY ConstantsAssumption DEF ConstantsAssumption
<1>3. Exposure = 0
  <2> DEFINE Z == [t \in Tokens |-> 0]
  <2>0. \A t \in Tokens : Z[t] = 0
    OBVIOUS
  <2>1. Z \in [Tokens -> Nat] /\ \A t \in Tokens : Z[t] = AtRisk(t)
    BY <1>1
  <2>2. \A t \in Tokens : Z[t] <= Z[t]
    BY <2>1
  <2> HIDE DEF Z
  <2>3. SumIs(Z, Exposure)
    BY <2>1, ExposureSums DEF ExposureIsSum
  <2>4. SumIs(Z, 0)
    <3> DEFINE k == [s \in SUBSET Tokens |-> 0]
    <3>1. \A s \in SUBSET Tokens : s # {} => Pick(s) \in Tokens /\ s \ {Pick(s)} \in SUBSET Tokens
      BY DEF Pick
    <3>2. \A s \in SUBSET Tokens : (IF s = {} THEN 0 ELSE Z[Pick(s)] + k[s \ {Pick(s)}]) = 0
      BY <3>1, <2>0
    <3>3. SumsUp(Z, Tokens, k)
      BY <3>2 DEF SumsUp
    <3>4. k[Tokens] = 0
      OBVIOUS
    <3> QED
      BY <3>3, <3>4 DEF SumIs
  <2> QED
    BY <2>1, <2>2, <2>3, <2>4, TokenSumsGrow
<1>4. \A t \in Tokens : Covers(t)
  BY DEF Init, Covers, NoClaim
<1>5. FilledInv
  BY DEF Init, FilledInv, Unaccounted, NoClaim
<1> QED
  BY <1>1, <1>2, <1>3, <1>4, <1>5 DEF RiskInv

\* Money really at risk, held or on its way, stays inside the limit of the copied
\* trader and the account's, however BUYs, crashes and late answers interleave, until
\* an operator overrides the facts.
THEOREM MoneyBounded == Spec => []MoneyWithinLimits
<1>1. Init => RiskInv /\ FilledInv
  BY InitRisk
<1>2. IInv /\ IInv' /\ RiskInv /\ FilledInv /\ [Next]_vars => (RiskInv /\ FilledInv)'
  BY RiskStep, FilledStep DEF IInv
<1>3. IInv /\ RiskInv /\ FilledInv => MoneyWithinLimits
  <2> SUFFICES ASSUME IInv, RiskInv, FilledInv, waived = {}
               PROVE  /\ \A t \in Tokens : Held(t) <= MaxPerTrade
                      /\ MapThenSumSet(Held, Tokens) <= MaxTotal
    BY DEF MoneyWithinLimits
  <2> DEFINE F == [t \in Tokens |-> Held(t)]
             G == [t \in Tokens |-> AtRisk(t)]
  <2>1. \A t \in Tokens : Held(t) \in Nat /\ AtRisk(t) \in Nat /\ Held(t) <= AtRisk(t)
    BY HeldAtMostRisk
  <2>2. F \in [Tokens -> Nat] /\ G \in [Tokens -> Nat]
    BY <2>1
  <2>3. \A t \in Tokens : F[t] = Held(t) /\ G[t] = AtRisk(t) /\ F[t] <= G[t]
    BY <2>1
  <2> HIDE DEF F, G
  <2>4. SumIs(F, MapThenSumSet(Held, Tokens))
    BY <2>2, <2>3, HeldSums DEF HeldIsSum
  <2>5. SumIs(G, Exposure)
    BY <2>2, <2>3, ExposureSums DEF ExposureIsSum
  <2>6. /\ MapThenSumSet(Held, Tokens) \in Nat /\ Exposure \in Nat
        /\ MapThenSumSet(Held, Tokens) <= Exposure
    BY <2>2, <2>3, <2>4, <2>5, TokenSumsGrow
  <2>7. /\ MaxPerTrade \in Nat /\ MaxTotal \in Nat
        /\ \A t \in Tokens : AtRisk(t) <= MaxPerTrade
        /\ Exposure <= MaxTotal
    BY ConstantsAssumption DEF ConstantsAssumption, RiskInv
  <2>8. \A t \in Tokens : Held(t) <= MaxPerTrade
    BY <2>1, <2>7
  <2>9. MapThenSumSet(Held, Tokens) <= MaxTotal
    BY <2>6, <2>7
  <2> QED
    BY <2>8, <2>9
<1> QED
  BY Invariance, <1>1, <1>2, <1>3, PTL DEF Spec


-----------------------------------------------------------------------------
(* BuyFence implements BuyPromise.                                         *)

\* What the mapping shows of one token.
Asked(t) == Promised(t, claim[t].reserved)
Owes(t) == Promised(t, wallet[t] - Tracked(t))
Has(t) == Promised(t, Tracked(t))

\* The promise sees no change of token s.
Still(s) == /\ Stage(s)' = Stage(s) /\ Asked(s)' = Asked(s)
            /\ Owes(s)' = Owes(s) /\ Has(s)' = Has(s)

\* What the steps of the promise do to the one token they are about.
Reserved(t) == /\ Stage(t) = "free" /\ Stage(t)' = "out" /\ Asked(t)' \in Amounts
               /\ Owes(t)' = Owes(t) /\ Has(t)' = Has(t)
Delivered(t) == /\ Stage(t) = "out" /\ Stage(t)' = "bought" /\ Owes(t)' \in 0..Asked(t)
                /\ Asked(t)' = Asked(t) /\ Has(t)' = Has(t)
Booked(t) == /\ Stage(t) = "bought" /\ Stage(t)' = "bought"
             /\ Owes(t) \in Nat /\ Owes(t)' \in 0..(Owes(t) - 1)
             /\ Asked(t)' = Asked(t) /\ Has(t)' = Has(t) + (Owes(t) - Owes(t)')
Settled(t) == /\ Stage(t) \in {"out", "bought"} /\ Stage(t)' = "free"
              /\ Asked(t)' = 0 /\ Owes(t)' = 0 /\ Has(t)' = Has(t) + Owes(t)
SoldOff(t) == /\ Stage(t) # "overruled" /\ Stage(t)' = Stage(t)
              /\ Has(t) \in Nat /\ Has(t)' \in 0..(Has(t) - 1)
              /\ Asked(t)' = Asked(t) /\ Owes(t)' = Owes(t)
Dropped(t) == /\ Stage(t) \in {"out", "bought"} /\ Stage(t)' = "overruled"
              /\ Asked(t)' = 0 /\ Owes(t)' = 0 /\ Has(t)' = 0
Moves(t) == Still(t) \/ Reserved(t) \/ Delivered(t) \/ Booked(t) \/ Settled(t)
            \/ SoldOff(t) \/ Dropped(t)

\* A step that moves one token and leaves the others still is a step of the promise.
LEMMA OneMoves ==
    ASSUME NEW t \in Tokens, \A s \in Tokens \ {t} : Still(s), Moves(t)
    PROVE  [Books!Next]_(Books!vars)
<1> DEFINE St == [s \in Tokens |-> Stage(s)]
           As == [s \in Tokens |-> Asked(s)]
           Ow == [s \in Tokens |-> Owes(s)]
           Ha == [s \in Tokens |-> Has(s)]
<1>1. /\ St' = [St EXCEPT ![t] = Stage(t)'] /\ As' = [As EXCEPT ![t] = Asked(t)']
      /\ Ow' = [Ow EXCEPT ![t] = Owes(t)'] /\ Ha' = [Ha EXCEPT ![t] = Has(t)']
  BY DEF Still
<1>2. /\ St[t] = Stage(t) /\ As[t] = Asked(t) /\ Ow[t] = Owes(t) /\ Ha[t] = Has(t)
      /\ Ow'[t] = Owes(t)' /\ Ha'[t] = Has(t)'
  OBVIOUS
<1>3. /\ Stage(t)' = Stage(t) => St' = St
      /\ Asked(t)' = Asked(t) => As' = As
      /\ Owes(t)' = Owes(t) => Ow' = Ow
      /\ Has(t)' = Has(t) => Ha' = Ha
  BY DEF Still
<1>4. /\ St = [s \in Tokens |-> Stage(s)]
      /\ As = [s \in Tokens |-> Promised(s, claim[s].reserved)]
      /\ Ow = [s \in Tokens |-> Promised(s, wallet[s] - Tracked(s))]
      /\ Ha = [s \in Tokens |-> Promised(s, Tracked(s))]
      /\ St' = [s \in Tokens |-> Stage(s)]'
      /\ As' = [s \in Tokens |-> Promised(s, claim[s].reserved)]'
      /\ Ow' = [s \in Tokens |-> Promised(s, wallet[s] - Tracked(s))]'
      /\ Ha' = [s \in Tokens |-> Promised(s, Tracked(s))]'
  BY DEF Asked, Owes, Has
<1> HIDE DEF St, As, Ow, Ha
<1>5. CASE Still(t)
  <2>1. St' = St /\ As' = As /\ Ow' = Ow /\ Ha' = Ha
    BY <1>3, <1>5 DEF Still
  <2> QED
    BY <1>4, <2>1 DEF Books!vars
<1>6. CASE Reserved(t)
  <2>1. Books!Reserve(t)
    BY <1>1, <1>2, <1>3, <1>4, <1>6 DEF Reserved, Books!Reserve, Books!Turn
  <2> QED
    BY <2>1 DEF Books!Next
<1>7. CASE Delivered(t)
  <2>1. Books!Deliver(t)
    BY <1>1, <1>2, <1>3, <1>4, <1>7 DEF Delivered, Books!Deliver, Books!Turn
  <2> QED
    BY <2>1 DEF Books!Next
<1>8. CASE Booked(t)
  <2> DEFINE n == Owes(t) - Owes(t)'
  <2>1. /\ n \in 1..Ow[t] /\ Stage(t)' = Stage(t) /\ Asked(t)' = Asked(t)
        /\ Owes(t)' = Ow[t] - n /\ Has(t)' = Ha[t] + n /\ St[t] = "bought"
    BY <1>2, <1>8 DEF Booked
  <2> HIDE DEF n
  <2>2. Ow' = [Ow EXCEPT ![t] = @ - n] /\ Ha' = [Ha EXCEPT ![t] = @ + n] /\ St' = St /\ As' = As
    BY <1>1, <1>3, <2>1
  <2>3. Books!Book(t)
    BY <1>4, <2>1, <2>2 DEF Books!Book
  <2> QED
    BY <2>3 DEF Books!Next
<1>9. CASE Settled(t)
  <2>1. Books!Settle(t)
    BY <1>1, <1>2, <1>3, <1>4, <1>9 DEF Settled, Books!Settle, Books!Turn
  <2> QED
    BY <2>1 DEF Books!Next
<1>10. CASE SoldOff(t)
  <2> DEFINE n == Has(t) - Has(t)'
  <2>1. /\ n \in 1..Ha[t] /\ Stage(t)' = Stage(t) /\ Asked(t)' = Asked(t)
        /\ Has(t)' = Ha[t] - n /\ Owes(t)' = Owes(t) /\ St[t] # "overruled"
    BY <1>2, <1>10 DEF SoldOff
  <2> HIDE DEF n
  <2>2. Ha' = [Ha EXCEPT ![t] = @ - n] /\ Ow' = Ow /\ St' = St /\ As' = As
    BY <1>1, <1>3, <2>1
  <2>3. Books!Sell(t)
    BY <1>4, <2>1, <2>2 DEF Books!Sell
  <2> QED
    BY <2>3 DEF Books!Next
<1>11. CASE Dropped(t)
  <2>1. Books!Overrule(t)
    BY <1>1, <1>2, <1>3, <1>4, <1>11 DEF Dropped, Books!Overrule, Books!Turn
  <2> QED
    BY <2>1 DEF Books!Next
<1> QED
  BY <1>5, <1>6, <1>7, <1>8, <1>9, <1>10, <1>11 DEF Moves

\* What the promise says of a token rests on its claim, that claim's order, its
\* tracked shares and its wallet.
Apart(s) ==
    /\ claim'[s].id = claim[s].id /\ claim'[s].reserved = claim[s].reserved
    /\ claim'[s].state = "none" <=> claim[s].state = "none"
    /\ claim[s].id # None
         => (order'[claim[s].id].st = "filled" <=> order[claim[s].id].st = "filled")
    /\ Tracked(s)' = Tracked(s) /\ wallet'[s] = wallet[s]
    /\ s \in waived' <=> s \in waived

LEMMA ApartStill == ASSUME ClaimInv, NEW s \in Tokens, Apart(s) PROVE Still(s)
<1>1. claim[s].state = "none" <=> claim[s].id = None
  BY DEF ClaimInv
<1>2. Stage(s)' = Stage(s)
  BY <1>1 DEF Apart, Stage
<1>3. Asked(s)' = Asked(s) /\ Owes(s)' = Owes(s) /\ Has(s)' = Has(s)
  BY DEF Apart, Asked, Owes, Has, Promised
<1> QED
  BY <1>2, <1>3 DEF Still

\* Nothing is promised about a token an operator overrode, for good.
LEMMA WaivedStill == ASSUME NEW s \in waived, waived \subseteq waived' PROVE Still(s)
  BY DEF Still, Stage, Asked, Owes, Has, Promised

\* A claim that goes leaves the ledger in order: all that its order delivered is in
\* the row, or the token is overruled.
LEMMA ClaimGoes ==
    ASSUME IInv, IInv', NEW t \in Tokens, claim[t].state # "none", claim'[t] = NoClaim,
           wallet'[t] = wallet[t], waived \subseteq waived'
    PROVE  Moves(t)
<1>0. wallet \in [Tokens -> Nat] /\ row \in [Tokens -> Rows] /\ seller \in [Tokens -> Sellers]
  BY DEF IInv, TypeOK
<1>1. CASE t \in waived
  BY <1>1, WaivedStill DEF Moves
<1>2. CASE t \notin waived /\ t \in waived'
  BY <1>2 DEF Moves, Dropped, Stage, Asked, Owes, Has, Promised
<1>3. CASE t \notin waived'
  <2>1. Tracked(t)' = wallet[t]
    BY <1>3 DEF IInv, LedgerInv, Ledger, NoClaim
  <2>2. Tracked(t) \in Int /\ wallet[t] \in Nat
    BY <1>0 DEF Tracked, Sold, Rows, Sellers
  <2>3. /\ Stage(t) \in {"out", "bought"} /\ Stage(t)' = "free"
        /\ Asked(t)' = 0 /\ Owes(t)' = wallet[t] - wallet[t] /\ Has(t)' = wallet[t]
        /\ Owes(t) = wallet[t] - Tracked(t) /\ Has(t) = Tracked(t)
    BY <1>3, <2>1 DEF Stage, Asked, Owes, Has, Promised, NoClaim
  <2> QED
    BY <2>2, <2>3 DEF Moves, Settled
<1> QED
  BY <1>1, <1>2, <1>3

\* Steps the promise does not see, whatever they do to the rest of the state.
LEMMA UnseenSteps ==
    ASSUME IInv, IInv', NEW s \in Tokens,
           \/ \E amt \in Amounts : Clamp(amt)
           \/ MarkSubmitting \/ SendOrder \/ AnswerUnknown \/ \E i \in Ids : Kill(i)
           \/ \E t \in Tokens :
                \/ \E amt \in Amounts : SellClaim(t, amt)
                \/ SellSend(t) \/ SellNotSent(t) \/ SellUncertain(t) \/ SellRecord(t)
                \/ SellKill(t) \/ Scan(t) \/ ReadChain(t) \/ IndexerCatchUp(t)
                \/ AgeClaim(t) \/ AgeRow(t)
           \/ \E v \in BOOLEAN : SettingsWrite(v)
           \/ SettingsAck \/ SettingsTimeout \/ Crash \/ UNCHANGED vars
    PROVE  Apart(s)
<1>0. /\ claim \in [Tokens -> Claims] /\ row \in [Tokens -> Rows] /\ order \in [Ids -> Orders]
      /\ worker \in Workers /\ seller \in [Tokens -> Sellers]
      /\ (worker.pc # "idle" => worker.tok \in Tokens /\ worker.id \in Ids) /\ RowInv
      /\ (claim[s].id # None => claim[s].id \in Ids)
  BY DEF IInv, TypeOK, ClaimInv, Claims
<1>1. ASSUME UNCHANGED <<order, wallet, waived>>, Tracked(s)' = Tracked(s),
             \/ claim'[s] = claim[s]
             \/ /\ claim'[s].id = claim[s].id /\ claim'[s].reserved = claim[s].reserved
                /\ claim'[s].state # "none" /\ claim[s].state # "none"
      PROVE  Apart(s)
  BY <1>1 DEF Apart
<1>2. ASSUME UNCHANGED <<row, seller>> PROVE Tracked(s)' = Tracked(s)
  BY <1>2 DEF Tracked, Sold
<1>3. CASE (\E amt \in Amounts : Clamp(amt)) \/ (\E v \in BOOLEAN : SettingsWrite(v))
           \/ SettingsAck \/ SettingsTimeout \/ UNCHANGED vars
  BY <1>1, <1>2, <1>3 DEF Clamp, SettingsWrite, SettingsAck, SettingsTimeout, db, outside, vars
<1>4. CASE MarkSubmitting
  <2>1. /\ UNCHANGED <<order, wallet, waived, row, seller>> /\ worker.tok \in Tokens
        /\ claim[worker.tok].state = "reserved"
    BY <1>0, <1>4 DEF MarkSubmitting, CanSubmit, outside
  <2>2. \/ claim'[s] = claim[s]
        \/ /\ claim'[s].id = claim[s].id /\ claim'[s].reserved = claim[s].reserved
           /\ claim'[s].state # "none" /\ claim[s].state # "none"
    BY <1>0, <1>4, <2>1 DEF MarkSubmitting, Claims
  <2> QED
    BY <1>1, <1>2, <2>1, <2>2
<1>5. CASE SendOrder
  <2>1. /\ claim' = claim /\ wallet' = wallet /\ waived' = waived /\ Tracked(s)' = Tracked(s)
    BY <1>2, <1>5 DEF SendOrder, db, process
  <2>2. \A i \in Ids : order'[i].st = "filled" <=> order[i].st = "filled"
    BY <1>0, <1>5 DEF SendOrder
  <2> QED
    BY <1>0, <2>1, <2>2 DEF Apart
<1>6. ASSUME NEW i \in Ids, Kill(i) PROVE Apart(s)
  <2>1. /\ claim' = claim /\ wallet' = wallet /\ waived' = waived /\ Tracked(s)' = Tracked(s)
    BY <1>2, <1>6 DEF Kill, db, process
  <2>2. \A j \in Ids : order'[j].st = "filled" <=> order[j].st = "filled"
    BY <1>0, <1>6 DEF Kill, Orders
  <2> QED
    BY <1>0, <2>1, <2>2 DEF Apart
<1>7. CASE AnswerUnknown
  <2>1. UNCHANGED <<order, wallet, waived, row, seller>> /\ worker.tok \in Tokens
    BY <1>0, <1>7 DEF AnswerUnknown, outside
  <2>2. \/ claim'[s] = claim[s]
        \/ /\ claim'[s].id = claim[s].id /\ claim'[s].reserved = claim[s].reserved
           /\ claim'[s].state # "none" /\ claim[s].state # "none"
    BY <1>0, <1>7, <2>1, ConstantsAssumption DEF AnswerUnknown, MarkUncertain, Claims, IInv, ClaimInv
  <2> QED
    BY <1>1, <1>2, <2>1, <2>2
<1>8. ASSUME NEW t \in Tokens,
             \/ \E amt \in Amounts : SellClaim(t, amt)
             \/ SellSend(t) \/ SellNotSent(t) \/ SellUncertain(t) \/ SellRecord(t) \/ SellKill(t)
      PROVE  Apart(s)
  <2>1. UNCHANGED <<claim, order, wallet, waived>>
    BY <1>8 DEF SellClaim, SellSend, SellNotSent, SellUncertain, SellRecord, SellKill, db, outside
  <2>2. CASE s # t
    <3>1. row'[s] = row[s] /\ seller'[s] = seller[s]
      BY <1>0, <1>8, <2>2 DEF SellClaim, SellSend, SellNotSent, SellUncertain, SellRecord,
                              SellKill, db
    <3> QED
      BY <1>1, <2>1, <3>1 DEF Tracked, Sold
  <2>3. CASE s = t
    <3>0. /\ row[s].shares \in Nat /\ seller[s].amt \in Nat
          /\ row[s].status # "closing" => seller[s].st = "none"
      BY <1>0 DEF Rows, Sellers, RowInv, NoSell
    <3>1. CASE \E amt \in Amounts : SellClaim(s, amt)
      <4>1. /\ row'[s].shares = row[s].shares /\ seller'[s].st = "none"
            /\ row[s].status = "open"
        BY <1>0, <3>1 DEF SellClaim, Rows
      <4> QED
        BY <1>1, <2>1, <3>0, <4>1 DEF Tracked, Sold
    <3>2. CASE SellSend(s) \/ SellUncertain(s) \/ SellKill(s)
      <4>1. row' = row /\ Sold(s)' = Sold(s)
        BY <1>0, <3>2 DEF SellSend, SellUncertain, SellKill, Sold, Sellers, db
      <4> QED
        BY <1>1, <2>1, <4>1 DEF Tracked
    <3>3. CASE SellNotSent(s)
      <4>1. row'[s].shares = row[s].shares /\ seller[s].st = "none" /\ seller'[s].st = "none"
        BY <1>0, <3>3 DEF SellNotSent, Rows, NoSell
      <4> QED
        BY <1>1, <2>1, <4>1 DEF Tracked, Sold
    <3>4. CASE SellRecord(s)
      <4>1. /\ seller[s].st = "filled" /\ seller'[s].st = "none"
            /\ row'[s].shares = row[s].shares - seller[s].amt
        <5>1. seller[s].amt = row[s].shares => row[s].shares - seller[s].amt = 0
          BY <3>0
        <5> QED
          BY <1>0, <3>4, <5>1 DEF SellRecord, NoSell, Gone, Rows
      <4> QED
        BY <1>1, <2>1, <3>0, <4>1 DEF Tracked, Sold
    <3> QED
      BY <1>8, <2>3, <3>1, <3>2, <3>3, <3>4
  <2> QED
    BY <2>2, <2>3
<1>9. ASSUME NEW t \in Tokens, Scan(t) \/ ReadChain(t) \/ IndexerCatchUp(t) PROVE Apart(s)
  BY <1>1, <1>2, <1>9 DEF Scan, ReadChain, IndexerCatchUp, db, process, outside
<1>10. ASSUME NEW t \in Tokens, AgeClaim(t) PROVE Apart(s)
  <2>1. UNCHANGED <<order, wallet, waived, row, seller>>
    BY <1>10 DEF AgeClaim, process, outside
  <2>2. /\ claim'[s].id = claim[s].id /\ claim'[s].reserved = claim[s].reserved
        /\ claim'[s].state = claim[s].state
    BY <1>0, <1>10 DEF AgeClaim, Claims
  <2> QED
    BY <1>2, <2>1, <2>2 DEF Apart
<1>11. ASSUME NEW t \in Tokens, AgeRow(t) PROVE Apart(s)
  <2>1. UNCHANGED <<claim, order, wallet, waived, seller>>
    BY <1>11 DEF AgeRow, process, outside
  <2>2. row'[s].shares = row[s].shares
    BY <1>0, <1>11 DEF AgeRow, Rows
  <2> QED
    BY <1>1, <2>1, <2>2 DEF Tracked, Sold
<1>12. CASE Crash
  <2>1. UNCHANGED <<claim, order, wallet, waived, row>>
    BY <1>12 DEF Crash, db, outside
  <2>2. seller'[s].st = seller[s].st /\ seller'[s].amt = seller[s].amt
    BY <1>0, <1>12 DEF Crash, Sellers
  <2> QED
    BY <1>1, <2>1, <2>2 DEF Tracked, Sold
<1> QED
  BY <1>3, <1>4, <1>5, <1>6, <1>7, <1>8, <1>9, <1>10, <1>11, <1>12

\* What settles a claim moves the token it is about and no other.
LEMMA SettlingMoves ==
    ASSUME IInv, IInv', \A s \in Tokens : Covers(s), waived \subseteq waived', NEW t \in Tokens,
           \/ (GiveUp \/ AnswerNotFilled \/ AnswerFilled) /\ t = worker.tok
           \/ RecoverStale(t) \/ Settle(t) \/ \E force \in BOOLEAN : OperatorClear(t, force)
    PROVE  Moves(t) /\ \A s \in Tokens \ {t} : Still(s)
<1>0. /\ claim \in [Tokens -> Claims] /\ row \in [Tokens -> Rows] /\ order' = order
      /\ ClaimInv /\ TypeOK
  BY SettlingTypes DEF IInv, TypeOK
<1>1. /\ wallet' = wallet /\ seller' = seller
      /\ \A s \in Tokens \ {t} : claim'[s] = claim[s] /\ row'[s] = row[s]
                                 /\ (s \in waived' <=> s \in waived)
  BY <1>0 DEF GiveUp, AnswerNotFilled, AnswerFilled, RecoverStale, Settle, OperatorClear,
              Release, MarkUncertain, process, outside
<1>2. \A s \in Tokens \ {t} : Still(s)
  <2> TAKE s \in Tokens \ {t}
  <2>1. Apart(s)
    BY <1>0, <1>1 DEF Apart, Tracked, Sold
  <2> QED
    BY <1>0, <2>1, ApartStill
<1>3. CASE claim[t].state # "none" /\ Drops(t)
  BY <1>1, <1>2, <1>3, ClaimGoes DEF Drops
<1>4. CASE ~(claim[t].state # "none" /\ Drops(t))
  <2>1. Keeps(t) \/ Drops(t) \/ Parks(t)
    BY <1>0, SettlingTypes
  <2>2. row'[t] = row[t] /\ (t \in waived' <=> t \in waived)
    <3>1. CASE GiveUp \/ AnswerNotFilled \/ RecoverStale(t)
      BY <3>1 DEF GiveUp, AnswerNotFilled, RecoverStale, outside
    <3>2. CASE AnswerFilled /\ t = worker.tok
      <4>1. ~CanRecord(t, worker.id)
        BY <1>0, <1>4, <3>2 DEF AnswerFilled, CanRecord, Drops
      <4> QED
        BY <3>2, <4>1 DEF AnswerFilled
    <3>3. CASE Settle(t)
      <4>1. UNCHANGED row
        BY <1>0, <1>4, <3>3, AdoptFacts DEF Drops
      <4> QED
        BY <3>3, <4>1 DEF Settle
    <3>4. ASSUME NEW force \in BOOLEAN, OperatorClear(t, force) PROVE FALSE
      BY <1>0, <1>4, <3>4 DEF OperatorClear, Drops
    <3> QED
      BY <3>1, <3>2, <3>3, <3>4
  <2>3. \/ claim'[t] = claim[t]
        \/ claim[t].state = "none" /\ claim'[t] = NoClaim
        \/ Parks(t)
    BY <1>4, <2>1 DEF Keeps, Drops
  <2>4. Tracked(t)' = Tracked(t)
    BY <1>1, <2>2 DEF Tracked, Sold
  <2>5. CASE claim'[t] = claim[t] \/ Parks(t)
    <3>1. Apart(t)
      BY <1>0, <1>1, <2>2, <2>4, <2>5 DEF Apart, Parks
    <3> QED
      BY <1>0, <1>2, <3>1, ApartStill DEF Moves
  <2>6. CASE claim[t].state = "none" /\ claim'[t] = NoClaim
    <3>1. Still(t)
      <4>1. claim[t].id = None /\ claim'[t].id = None /\ claim'[t].state = "none"
        BY <1>0, <2>6 DEF ClaimInv, NoClaim
      <4>2. Stage(t)' = Stage(t) /\ Owes(t)' = Owes(t) /\ Has(t)' = Has(t)
        BY <1>1, <2>2, <2>4, <2>6, <4>1 DEF Stage, Owes, Has, Promised
      <4>3. Asked(t)' = Asked(t)
        BY <2>2, <2>6 DEF Covers, Asked, Promised, NoClaim
      <4> QED
        BY <4>2, <4>3 DEF Still
    <3> QED
      BY <1>2, <3>1 DEF Moves
  <2> QED
    BY <2>3, <2>5, <2>6
<1> QED
  BY <1>3, <1>4

\* A reservation begins the promise's BUY; the match of its order delivers, once and
\* within what is reserved.
LEMMA BuyMoves ==
    ASSUME IInv, \A s \in Tokens : Covers(s), NEW t \in Tokens,
           \/ \E i \in Ids, amt \in Amounts : PrepareOpen(t, i, amt) \/ PrepareResize(t, i, amt)
           \/ \E i \in Ids : Fill(i) /\ order[i].tok = t
    PROVE  Moves(t) /\ \A s \in Tokens \ {t} : Still(s)
<1>0. /\ claim \in [Tokens -> Claims] /\ order \in [Ids -> Orders] /\ ClaimInv
      /\ row \in [Tokens -> Rows] /\ seller \in [Tokens -> Sellers] /\ wallet \in [Tokens -> Nat]
      /\ \A s \in Tokens : claim[s].id # None => claim[s].id \in Ids
  BY DEF IInv, TypeOK, Claims
<1>1. ASSUME NEW i \in Ids, NEW amt \in Amounts, PrepareOpen(t, i, amt) \/ PrepareResize(t, i, amt)
      PROVE  Moves(t) /\ \A s \in Tokens \ {t} : Still(s)
  <2>1. /\ UNCHANGED <<row, seller, wallet, waived>> /\ Fresh(i) /\ claim[t].state = "none"
        /\ order' = [order EXCEPT ![i] = NoOrder]
        /\ \A s \in Tokens \ {t} : claim'[s] = claim[s]
        /\ claim'[t].state = "reserved" /\ claim'[t].id = i /\ claim'[t].reserved = amt
    BY <1>0, <1>1 DEF PrepareOpen, PrepareResize, Reserve, Unclaimed
  <2>2. \A s \in Tokens : Tracked(s)' = Tracked(s) /\ claim[s].id # i
    BY <2>1 DEF Tracked, Sold, Fresh
  <2>3. \A s \in Tokens \ {t} : Still(s)
    <3> TAKE s \in Tokens \ {t}
    <3>1. Apart(s)
      BY <1>0, <2>1, <2>2 DEF Apart
    <3> QED
      BY <1>0, <3>1, ApartStill
  <2>4. CASE t \in waived
    BY <2>1, <2>3, <2>4, WaivedStill DEF Moves
  <2>5. CASE t \notin waived
    <3>1. Stage(t) = "free" /\ Stage(t)' = "out" /\ Asked(t)' = amt
      BY <1>0, <2>1, <2>5 DEF Stage, Asked, Promised, NoOrder
    <3>2. Owes(t)' = Owes(t) /\ Has(t)' = Has(t)
      BY <2>1, <2>2 DEF Owes, Has, Promised
    <3> QED
      BY <2>3, <3>1, <3>2 DEF Moves, Reserved
  <2> QED
    BY <2>4, <2>5
<1>2. ASSUME NEW i \in Ids, Fill(i), order[i].tok = t
      PROVE  Moves(t) /\ \A s \in Tokens \ {t} : Still(s)
  <2>1. /\ UNCHANGED <<claim, row, seller, waived>> /\ order[i].st = "wire" /\ order'[i].st = "filled"
        /\ \A j \in Ids \ {i} : order'[j] = order[j]
        /\ wallet'[t] = wallet[t] + order[i].size
        /\ \A s \in Tokens \ {t} : wallet'[s] = wallet[s]
    BY <1>0, <1>2 DEF Fill, db, process, Orders
  <2>2. \A s \in Tokens : Tracked(s)' = Tracked(s)
    BY <2>1 DEF Tracked, Sold
  <2>3. \A s \in Tokens \ {t} : Still(s)
    <3> TAKE s \in Tokens \ {t}
    <3>1. claim[s].id # i
      BY <1>0, <1>2, <2>1, ConstantsAssumption DEF ClaimInv
    <3>2. Apart(s)
      BY <1>0, <2>1, <2>2, <3>1 DEF Apart
    <3> QED
      BY <1>0, <3>2, ApartStill
  <2>4. CASE t \in waived
    BY <2>1, <2>3, <2>4, WaivedStill DEF Moves
  <2>5. CASE t \notin waived
    <3>1. claim[t].id = i /\ claim[t].state # "none"
      BY <1>0, <1>2, <2>1, <2>5, ConstantsAssumption DEF IInv, LedgerInv, Fenced, ClaimInv
    <3>2. Stage(t) = "out" /\ Stage(t)' = "bought"
      BY <2>1, <2>5, <3>1 DEF Stage
    <3>3. wallet[t] = Tracked(t) /\ Tracked(t) \in Int
      BY <1>0, <2>1, <2>5, <3>1 DEF IInv, LedgerInv, Ledger, Tracked, Sold, Rows, Sellers
    <3>4. order[i].size \in Nat /\ order[i].size <= claim[t].reserved /\ claim[t].reserved \in Nat
      BY <1>0, <2>1, <3>1, ConstantsAssumption DEF Covers, Orders, Claims
    <3>5. /\ Owes(t)' = (wallet[t] + order[i].size) - Tracked(t)
          /\ Asked(t) = claim[t].reserved /\ Asked(t)' = Asked(t) /\ Has(t)' = Has(t)
      BY <2>1, <2>2, <2>5 DEF Owes, Asked, Has, Promised
    <3>6. Owes(t)' = order[i].size
      BY <3>3, <3>4, <3>5
    <3> QED
      BY <2>3, <3>2, <3>4, <3>5, <3>6 DEF Moves, Delivered
  <2> QED
    BY <2>4, <2>5
<1> QED
  BY <1>1, <1>2

\* A SELL takes booked shares; a closing row that reopens books shares that a BUY of
\* unknown outcome delivered, never shares from nowhere.
LEMMA SellMoves ==
    ASSUME IInv, IInv', NEW t \in Tokens, SellFill(t) \/ RecoverClosing(t)
    PROVE  Moves(t) /\ \A s \in Tokens \ {t} : Still(s)
<1>0. /\ claim \in [Tokens -> Claims] /\ ClaimInv /\ RowInv /\ indexed \in [Tokens -> Nat]
      /\ row \in [Tokens -> Rows] /\ seller \in [Tokens -> Sellers] /\ wallet \in [Tokens -> Nat]
      /\ row[t].shares \in Nat /\ seller[t].amt \in Nat /\ seller[t].amt <= row[t].shares
  BY DEF IInv, TypeOK, Rows, Sellers, RowInv
<1>1. UNCHANGED <<claim, order, waived>>
  BY DEF SellFill, RecoverClosing, db
<1>2. \A s \in Tokens \ {t} : Still(s)
  <2> TAKE s \in Tokens \ {t}
  <2>1. row'[s] = row[s] /\ seller'[s] = seller[s] /\ wallet'[s] = wallet[s]
    BY <1>0 DEF SellFill, RecoverClosing, db
  <2>2. Apart(s)
    BY <1>1, <2>1 DEF Apart, Tracked, Sold
  <2> QED
    BY <1>0, <2>2, ApartStill
<1>3. CASE t \in waived
  BY <1>1, <1>2, <1>3, WaivedStill DEF Moves
<1>4. CASE t \notin waived
  <2>1. /\ Stage(t)' = Stage(t) /\ Stage(t) # "overruled" /\ Asked(t)' = Asked(t)
        /\ Owes(t) = wallet[t] - Tracked(t) /\ Owes(t)' = wallet'[t] - Tracked(t)'
        /\ Has(t) = Tracked(t) /\ Has(t)' = Tracked(t)'
    BY <1>1, <1>4 DEF Stage, Asked, Owes, Has, Promised
  <2>2. Ledger(t) /\ Evidence(t) /\ Tracked(t) <= wallet[t] /\ wallet[t] \in Nat
    BY <1>0, <1>4 DEF IInv, LedgerInv, Ledger
  <2>3. CASE SellFill(t)
    <3>1. /\ row' = row /\ seller[t].st = "wire" /\ seller'[t].st = "filled"
          /\ seller'[t].amt = seller[t].amt /\ wallet'[t] = wallet[t] - seller[t].amt
      BY <1>0, <2>3 DEF SellFill, Sellers, db
    <3>2. Tracked(t) = row[t].shares /\ Tracked(t)' = row[t].shares - seller[t].amt
      BY <1>0, <3>1 DEF Tracked, Sold
    <3>3. Owes(t)' = Owes(t) /\ Has(t)' = Has(t) - seller[t].amt /\ Has(t) = row[t].shares
      BY <1>0, <2>1, <2>2, <3>1, <3>2
    <3>4. Has(t) \in Nat /\ (Has(t)' = Has(t) \/ Has(t)' \in 0..(Has(t) - 1))
      BY <1>0, <3>3
    <3> QED
      BY <1>2, <2>1, <3>3, <3>4 DEF Moves, Still, SoldOff
  <2>4. CASE RecoverClosing(t)
    <3>1. /\ row[t].status = "closing" /\ row[t].age # "new" /\ seller'[t] = NoSell
          /\ wallet' = wallet
      BY <1>0, <2>4 DEF RecoverClosing
    <3>2. indexed[t] = wallet[t] \/ indexed[t] = Tracked(t)
      BY <1>0, <2>2, <3>1 DEF RowInv, Evidence, Plausible
    <3>3. Tracked(t)' = row'[t].shares /\ Tracked(t) \in Nat /\ Tracked(t) <= row[t].shares
      <4>1. Tracked(t)' = row'[t].shares - 0
        BY <3>1 DEF Tracked, Sold, NoSell
      <4>2. row'[t].shares \in Nat
        BY DEF IInv, TypeOK, Rows
      <4>3. Tracked(t) = row[t].shares \/ Tracked(t) = row[t].shares - seller[t].amt
        BY <1>0 DEF Tracked, Sold
      <4> QED
        BY <1>0, <4>1, <4>2, <4>3
    <3>4. CASE indexed[t] >= row[t].shares /\ row' = [row EXCEPT ![t].status = "open"]
      <4>1. row'[t].shares = row[t].shares
        BY <1>0, <3>4 DEF Rows
      <4>2. row[t].shares <= wallet[t]
        BY <1>0, <2>2, <3>2, <3>3, <3>4
      <4>3. CASE Tracked(t) = row[t].shares
        BY <1>2, <2>1, <3>1, <3>3, <4>1, <4>3 DEF Moves, Still
      <4>4. CASE Tracked(t) # row[t].shares
        <5>1. wallet[t] # Tracked(t)
          BY <1>0, <2>2, <3>3, <4>2, <4>4
        <5>2. Stage(t) = "bought"
          BY <1>4, <2>2, <5>1 DEF Ledger, Stage
        <5>3. /\ Owes(t)' = wallet[t] - row[t].shares
              /\ Has(t)' = row[t].shares
          BY <2>1, <3>1, <3>3, <4>1
        <5>4. /\ Owes(t) \in Nat /\ Owes(t)' \in 0..(Owes(t) - 1)
              /\ Has(t)' = Has(t) + (Owes(t) - Owes(t)')
          BY <1>0, <2>1, <2>2, <3>3, <4>2, <4>4, <5>3
        <5> QED
          BY <1>2, <2>1, <5>2, <5>4 DEF Moves, Booked
      <4> QED
        BY <4>3, <4>4
    <3>5. CASE indexed[t] = 0 /\ row' = [row EXCEPT ![t] = Gone]
      <4>1. Tracked(t)' = 0
        BY <1>0, <3>3, <3>5 DEF Gone
      <4>2. Tracked(t) = 0
        BY <2>2, <3>2, <3>3, <3>5
      <4> QED
        BY <1>2, <2>1, <3>1, <4>1, <4>2 DEF Moves, Still
    <3> QED
      BY <2>4, <3>4, <3>5 DEF RecoverClosing
  <2> QED
    BY <2>3, <2>4
<1> QED
  BY <1>3, <1>4

\* Every step of the fences is a step of the promise, or one it does not see.
LEMMA PromiseStep ==
    ASSUME IInv, IInv', \A s \in Tokens : Covers(s), [Next]_vars
    PROVE  [Books!Next]_(Books!vars)
<1>0. waived \subseteq waived' /\ ClaimInv /\ (worker.pc # "idle" => worker.tok \in Tokens)
      /\ \A i \in Ids : order[i].st = "wire" => order[i].tok \in Tokens
  BY WaivedGrows DEF IInv, ClaimInv
<1>1. ASSUME \A s \in Tokens : Apart(s) PROVE [Books!Next]_(Books!vars)
  <2>1. \A s \in Tokens : Still(s)
    BY <1>0, <1>1, ApartStill
  <2>2. CASE Tokens = {}
    BY <2>2 DEF Books!vars
  <2>3. CASE Tokens # {}
    BY <2>1, <2>3, OneMoves DEF Moves
  <2> QED
    BY <2>2, <2>3
<1>2. CASE GiveUp \/ AnswerNotFilled \/ AnswerFilled
  <2>1. worker.tok \in Tokens
    BY <1>0, <1>2 DEF GiveUp, AnswerNotFilled, AnswerFilled
  <2> QED
    BY <1>0, <1>2, <2>1, SettlingMoves, OneMoves
<1>3. ASSUME NEW t \in Tokens,
             RecoverStale(t) \/ Settle(t) \/ \E force \in BOOLEAN : OperatorClear(t, force)
      PROVE  [Books!Next]_(Books!vars)
  BY <1>0, <1>3, SettlingMoves, OneMoves
<1>4. ASSUME NEW t \in Tokens, NEW i \in Ids, NEW amt \in Amounts,
             PrepareOpen(t, i, amt) \/ PrepareResize(t, i, amt)
      PROVE  [Books!Next]_(Books!vars)
  BY <1>4, BuyMoves, OneMoves
<1>5. ASSUME NEW i \in Ids, Fill(i) PROVE [Books!Next]_(Books!vars)
  <2>1. order[i].tok \in Tokens
    BY <1>0, <1>5 DEF Fill
  <2> QED
    BY <1>5, <2>1, BuyMoves, OneMoves
<1>6. ASSUME NEW t \in Tokens, SellFill(t) \/ RecoverClosing(t) PROVE [Books!Next]_(Books!vars)
  BY <1>6, SellMoves, OneMoves
<1>7. ASSUME \/ \E amt \in Amounts : Clamp(amt)
             \/ MarkSubmitting \/ SendOrder \/ AnswerUnknown \/ \E i \in Ids : Kill(i)
             \/ \E t \in Tokens :
                  \/ \E amt \in Amounts : SellClaim(t, amt)
                  \/ SellSend(t) \/ SellNotSent(t) \/ SellUncertain(t) \/ SellRecord(t)
                  \/ SellKill(t) \/ Scan(t) \/ ReadChain(t) \/ IndexerCatchUp(t)
                  \/ AgeClaim(t) \/ AgeRow(t)
             \/ \E v \in BOOLEAN : SettingsWrite(v)
             \/ SettingsAck \/ SettingsTimeout \/ Crash \/ UNCHANGED vars
      PROVE  [Books!Next]_(Books!vars)
  <2>1. \A s \in Tokens : Apart(s)
    BY <1>7, UnseenSteps
  <2> QED
    BY <1>1, <2>1
<1> QED
  BY <1>2, <1>3, <1>4, <1>5, <1>6, <1>7 DEF Next, Buying, Selling, Reconciling, Settings, World

\* The claims, rows and evidence of the copy engine implement BuyPromise: each share
\* a BUY delivers is booked exactly once before its token can be bought again, and
\* tracked shares leave by a SELL only.
THEOREM Implements == Spec => KeepsBooks
<1>1. Init => Books!Init
  BY DEF Init, Books!Init, Stage, Promised, Tracked, Sold, NoClaim, NoSell
<1>2. IInv /\ IInv' /\ RiskInv /\ [Next]_vars => [Books!Next]_(Books!vars)
  BY PromiseStep DEF RiskInv
<1>3. Init => RiskInv
  BY InitRisk
<1>4. IInv /\ IInv' /\ RiskInv /\ [Next]_vars => RiskInv'
  BY RiskStep DEF IInv
<1> QED
  BY <1>1, <1>2, <1>3, <1>4, Invariance, PTL DEF Spec, KeepsBooks, Books!Spec
=============================================================================
