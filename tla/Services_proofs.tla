-------------------------- MODULE Services_proofs ----------------------------
(***************************************************************************)
(* Proofs about the services that share no state: the wallet-creation      *)
(* lease and the per-key locks, the caches of the leader's cash and of the *)
(* spendable balance, redemption and the deposit watch; and that what      *)
(* holds of these and of detection holds of the specification TLC runs.    *)
(***************************************************************************)
EXTENDS MCServices, Detection_proofs, FiniteSetTheorems, TLAPS

-----------------------------------------------------------------------------
(* The four promises of WalletCreation for any number of requests and      *)
(* linkable wallets.  They follow from one inductive invariant: while the  *)
(* SDK may be called the claim is in side_effect_started, its owner is the *)
(* one request that may call it, and its signer is the only one in use.    *)
\* A request between taking over the durable signer and the end of its SDK work.
InCharge(r) == req[r].pc \in {"resume", "sdk", "release", "persist"} \/ r \in running

ClaimInv ==
    /\ claim.state \in {"none", "claimed"} => claim.signer = None
    /\ claim.state = "side_effect_started" => claim.signer # None /\ claim.key = claim.signer
    /\ claim.state = "complete" /\ claim.signer # None => bound = {claim.signer}
BoundInv == bound # {} => claim.state = "complete"
DeployedInv == deployed \subseteq {claim.signer}
ChargeInv ==
    \A r \in Requests : InCharge(r) =>
       /\ claim.state = "side_effect_started" /\ claim.owner = r
       /\ req[r].pc # "resume" => req[r].signer = claim.signer
RunningInv == \A r \in running : req[r].pc \in {"sdk", "done"}
OwnerInv == \A r \in Requests : claim.owner = r => req[r].pc \notin {"start", "lease"}

IInv == TypeOK /\ ClaimInv /\ BoundInv /\ DeployedInv /\ ChargeInv /\ RunningInv /\ OwnerInv

-----------------------------------------------------------------------------
\* Every initial state satisfies the inductive invariant.
LEMMA InitInv == Init => IInv
<1>1. Init => TypeOK
  BY WalletAssumption DEF Init, TypeOK, NoClaim, Claims, Pcs
<1>2. Init => ClaimInv /\ BoundInv /\ DeployedInv /\ ChargeInv /\ RunningInv /\ OwnerInv
  BY WalletAssumption DEF Init, NoClaim, ClaimInv, BoundInv, DeployedInv, ChargeInv, InCharge, RunningInv, OwnerInv
<1> QED BY <1>1, <1>2 DEF IInv

\* What Goes changes.
LEMMA GoesFacts ==
  ASSUME TypeOK, NEW r \in Requests, NEW pc \in Pcs, Goes(r, pc)
  PROVE  /\ req' \in [Requests -> [pc: Pcs, signer: Requests \cup {None}]]
         /\ \A q \in Requests : /\ req'[q].signer = req[q].signer
                                /\ req'[q].pc = IF q = r THEN pc ELSE req[q].pc
  BY DEF TypeOK, Goes

\* A request that gives up keeps the invariant.
LEMMA QuietInv ==
  ASSUME IInv, NEW r \in Requests, NEW pc \in {"done", "abandon"}, Goes(r, pc),
         pc = "done" \/ r \notin running, UNCHANGED <<claim, users, bound, running, deployed>>
  PROVE  IInv'
<1>1. /\ req' \in [Requests -> [pc: Pcs, signer: Requests \cup {None}]]
      /\ \A q \in Requests : /\ req'[q].signer = req[q].signer
                             /\ req'[q].pc = IF q = r THEN pc ELSE req[q].pc
  BY GoesFacts DEF IInv, Pcs
<1>2. TypeOK'
  BY <1>1 DEF IInv, TypeOK
<1> QED
  BY <1>1, <1>2 DEF IInv, TypeOK, ClaimInv, BoundInv, DeployedInv, ChargeInv, InCharge, RunningInv, OwnerInv

\* A user who has a wallet, or goes for the lease.
LEMMA BeginInv == ASSUME IInv, NEW r \in Requests, Begin(r) PROVE IInv'
  BY WalletAssumption, SMTT(60) DEF Begin, IInv, TypeOK, Claims, Pcs, NoClaim, Goes, ClaimInv, BoundInv, DeployedInv, ChargeInv, InCharge, RunningInv, OwnerInv

\* The lease is taken, taken over, resumed or refused.
LEMMA AcquireInv == ASSUME IInv, NEW r \in Requests, Acquire(r) PROVE IInv'
<1>0. TypeOK /\ claim \in Claims /\ req[r].pc = "lease" /\ claim.owner # r /\ r # None
  BY WalletAssumption DEF Acquire, IInv, TypeOK, OwnerInv
<1>1. CASE claim.state = "none"
  <2>1. claim' = [state |-> "claimed", owner |-> r, signer |-> None, key |-> None, stale |-> FALSE]
    BY <1>1 DEF Acquire, NoClaim
  <2>2. Goes(r, "prepare") /\ UNCHANGED <<users, bound, running, deployed>>
    BY <1>1, <2>1 DEF Acquire
  <2>3. /\ req' \in [Requests -> [pc: Pcs, signer: Requests \cup {None}]]
        /\ \A q \in Requests : /\ req'[q].signer = req[q].signer
                               /\ req'[q].pc = IF q = r THEN "prepare" ELSE req[q].pc
    BY <1>0, <2>2, GoesFacts DEF Pcs
  <2>4. TypeOK'
    BY <2>1, <2>2, <2>3, <1>0 DEF TypeOK, Claims
  <2>5. \A q \in Requests : ~InCharge(q)
    BY <1>1 DEF IInv, ChargeInv
  <2>6. ClaimInv' /\ BoundInv' /\ DeployedInv'
    BY <1>1, <2>1, <2>2 DEF IInv, ClaimInv, BoundInv, DeployedInv
  <2>7. ChargeInv' /\ RunningInv'
    BY <1>0, <2>2, <2>3, <2>5 DEF IInv, TypeOK, ChargeInv, InCharge, RunningInv
  <2>8. OwnerInv'
    BY <2>1, <2>3 DEF OwnerInv
  <2> QED
    BY <2>4, <2>6, <2>7, <2>8 DEF IInv
<1>2. CASE claim.state # "none" /\ (TakesOver(claim) \/ Resumes(claim))
  <2> DEFINE next == IF claim.state = "claimed" THEN "prepare" ELSE "resume"
  <2>1. claim' = [claim EXCEPT !.owner = r, !.stale = FALSE]
    BY <1>2 DEF Acquire
  <2>2. /\ claim' \in Claims /\ claim'.state = claim.state /\ claim'.owner = r
        /\ claim'.signer = claim.signer /\ claim'.key = claim.key
    BY <1>0, <2>1 DEF Claims
  <2>3. Goes(r, next) /\ UNCHANGED <<users, bound, running, deployed>>
    BY <1>2, <2>2 DEF Acquire
  <2>4. /\ req' \in [Requests -> [pc: Pcs, signer: Requests \cup {None}]]
        /\ \A q \in Requests : /\ req'[q].signer = req[q].signer
                               /\ req'[q].pc = IF q = r THEN next ELSE req[q].pc
    BY <1>0, <2>3, GoesFacts DEF Pcs
  <2>5. TypeOK'
    BY <2>2, <2>3, <2>4, <1>0 DEF TypeOK
  <2>6. claim.state = "claimed" \/ (claim.state = "side_effect_started" /\ claim.owner = None)
    BY <1>2 DEF TakesOver, Resumes
  <2>7. \A q \in Requests : ~InCharge(q)
    BY <2>6, WalletAssumption DEF IInv, ChargeInv
  <2>8. r \notin running
    BY <2>7 DEF InCharge
  <2>9. ClaimInv' /\ BoundInv' /\ DeployedInv'
    BY <1>0, <2>2, <2>3 DEF IInv, ClaimInv, BoundInv, DeployedInv
  <2>10. ChargeInv'
    BY <2>2, <2>3, <2>4, <2>6, <2>7 DEF ChargeInv, InCharge
  <2>11. RunningInv' /\ OwnerInv'
    BY <1>0, <2>2, <2>3, <2>4, <2>8 DEF IInv, TypeOK, RunningInv, OwnerInv
  <2> QED
    BY <2>5, <2>9, <2>10, <2>11 DEF IInv
<1>3. CASE claim.state # "none" /\ ~(TakesOver(claim) \/ Resumes(claim))
  <2>1. Goes(r, "done") /\ UNCHANGED <<claim, users, bound, running, deployed>>
    BY <1>0, <1>3 DEF Acquire
  <2> QED
    BY <2>1, QuietInv
<1> QED
  BY <1>1, <1>2, <1>3

\* The signer is made durable.
LEMMA PrepareInv == ASSUME IInv, NEW r \in Requests, Prepare(r) PROVE IInv'
<1>0. TypeOK /\ claim \in Claims /\ req[r].pc = "prepare" /\ r \notin running /\ r # None
  BY WalletAssumption DEF Prepare, IInv, TypeOK, RunningInv
<1>1. CASE MayPrepare(r)
  <2>1. /\ claim' = [claim EXCEPT !.state = "side_effect_started", !.signer = r, !.key = r, !.stale = FALSE]
        /\ UNCHANGED <<users, bound, running, deployed>>
    BY <1>1 DEF Prepare
  <2>2. /\ claim' \in Claims /\ claim'.state = "side_effect_started" /\ claim'.owner = r
        /\ claim'.signer = r /\ claim'.key = r
    BY <1>0, <1>1, <2>1 DEF Claims, MayPrepare
  <2>3. claim.state = "claimed" /\ bound = {} /\ deployed = {} /\ \A q \in Requests : ~InCharge(q)
    BY <1>0, <1>1, WalletAssumption
    DEF MayPrepare, IInv, TypeOK, ClaimInv, BoundInv, DeployedInv, ChargeInv
  <2>4. /\ req' \in [Requests -> [pc: Pcs, signer: Requests \cup {None}]]
        /\ \A q \in Requests \ {r} : req'[q] = req[q]
        /\ req'[r].pc = "abandon" \/ (req'[r].pc = "sdk" /\ req'[r].signer = r)
    BY <1>0, <1>1 DEF Prepare, Goes, TypeOK, Pcs
  <2>5. TypeOK'
    BY <2>1, <2>2, <2>4, <1>0 DEF TypeOK
  <2>6. ClaimInv' /\ BoundInv' /\ DeployedInv'
    BY <1>0, <2>1, <2>2, <2>3 DEF ClaimInv, BoundInv, DeployedInv
  <2>7. ChargeInv'
    BY <2>1, <2>2, <2>3, <2>4 DEF ChargeInv, InCharge
  <2>8. RunningInv' /\ OwnerInv'
    BY <1>0, <2>1, <2>2, <2>4 DEF IInv, TypeOK, RunningInv, OwnerInv
  <2> QED
    BY <2>5, <2>6, <2>7, <2>8 DEF IInv
<1>2. CASE ~MayPrepare(r)
  <2>1. Goes(r, "abandon") /\ UNCHANGED <<claim, users, bound, running, deployed>>
    BY <1>2 DEF Prepare
  <2> QED
    BY <1>0, <2>1, QuietInv
<1> QED
  BY <1>1, <1>2

\* A resumed creation uses the durable signer.
LEMMA ResumeInv == ASSUME IInv, NEW r \in Requests, Resume(r) PROVE IInv'
  BY WalletAssumption, SMTT(60) DEF Resume, IInv, TypeOK, Claims, Pcs, NoClaim, Goes, ClaimInv, BoundInv, DeployedInv, ChargeInv, InCharge, RunningInv, OwnerInv, DurableSigner

\* A local failure calls no SDK.
LEMMA LocalFailureInv == ASSUME IInv, NEW r \in Requests, LocalFailure(r) PROVE IInv'
  BY WalletAssumption, SMTT(60) DEF LocalFailure, IInv, TypeOK, Claims, Pcs, NoClaim, Goes, ClaimInv, BoundInv, DeployedInv, ChargeInv, InCharge, RunningInv, OwnerInv

\* A claim is deleted only before a signer is durable.
LEMMA AbandonInv == ASSUME IInv, NEW r \in Requests, Abandon(r) PROVE IInv'
  BY WalletAssumption, SMTT(60) DEF Abandon, IInv, TypeOK, Claims, Pcs, NoClaim, Goes, ClaimInv, BoundInv, DeployedInv, ChargeInv, InCharge, RunningInv, OwnerInv, Abandons

\* The owner calls the SDK.
LEMMA SdkStartInv == ASSUME IInv, NEW r \in Requests, SdkStart(r) PROVE IInv'
  BY WalletAssumption, SMTT(60) DEF SdkStart, IInv, TypeOK, Claims, Pcs, NoClaim, Goes, ClaimInv, BoundInv, DeployedInv, ChargeInv, InCharge, RunningInv, OwnerInv

\* The SDK deploys the durable signer's wallet.
LEMMA SdkDeploysInv == ASSUME IInv, NEW r \in Requests, SdkDeploys(r) PROVE IInv'
  BY WalletAssumption, SMTT(60) DEF SdkDeploys, IInv, TypeOK, Claims, Pcs, NoClaim, Goes, ClaimInv, BoundInv, DeployedInv, ChargeInv, InCharge, RunningInv, OwnerInv

\* The SDK's work ends with its answer.
LEMMA SdkAnswersInv == ASSUME IInv, NEW r \in Requests, SdkAnswers(r) PROVE IInv'
  BY WalletAssumption, SMTT(60) DEF SdkAnswers, IInv, TypeOK, Claims, Pcs, NoClaim, Goes, ClaimInv, BoundInv, DeployedInv, ChargeInv, InCharge, RunningInv, OwnerInv

\* A failed owner keeps the signer in the claim.
LEMMA ReleaseInv == ASSUME IInv, NEW r \in Requests, Release(r) PROVE IInv'
<1>0. TypeOK /\ claim \in Claims /\ req[r].pc = "release" /\ r \notin running
  BY DEF Release, IInv, TypeOK, RunningInv
<1>1. claim.owner = r /\ claim.state = "side_effect_started"
  BY <1>0 DEF IInv, ChargeInv, InCharge
<1>2. /\ claim' = [claim EXCEPT !.owner = None, !.stale = FALSE]
      /\ Goes(r, "done") /\ UNCHANGED <<users, bound, running, deployed>>
  BY <1>1 DEF Release
<1>3. /\ claim' \in Claims /\ claim'.state = claim.state /\ claim'.owner = None
      /\ claim'.signer = claim.signer /\ claim'.key = claim.key
  BY <1>0, <1>2 DEF Claims
<1>4. /\ req' \in [Requests -> [pc: Pcs, signer: Requests \cup {None}]]
      /\ \A q \in Requests : /\ req'[q].signer = req[q].signer
                             /\ req'[q].pc = IF q = r THEN "done" ELSE req[q].pc
  BY <1>0, <1>2, GoesFacts DEF Pcs
<1>5. TypeOK'
  BY <1>0, <1>2, <1>3, <1>4 DEF TypeOK
<1>6. \A q \in Requests \ {r} : ~InCharge(q)
  BY <1>1 DEF IInv, ChargeInv
<1>7. ClaimInv' /\ BoundInv' /\ DeployedInv'
  BY <1>0, <1>2, <1>3 DEF IInv, ClaimInv, BoundInv, DeployedInv
<1>8. ChargeInv' /\ RunningInv' /\ OwnerInv'
  BY <1>0, <1>2, <1>3, <1>4, <1>6, WalletAssumption DEF IInv, TypeOK, ChargeInv, InCharge, RunningInv, OwnerInv
<1> QED
  BY <1>5, <1>7, <1>8 DEF IInv

\* The users row replaces the claim's key, or nothing changes.
LEMMA PersistInv == ASSUME IInv, NEW r \in Requests, Persist(r) PROVE IInv'
<1>0. TypeOK /\ claim \in Claims /\ req[r].pc = "persist" /\ r \notin running
  BY DEF Persist, IInv, TypeOK, RunningInv
<1>1. /\ claim.owner = r /\ claim.state = "side_effect_started" /\ claim.signer # None
      /\ req[r].signer = claim.signer /\ \A q \in Requests \ {r} : ~InCharge(q)
  BY <1>0 DEF IInv, ChargeInv, InCharge, ClaimInv
<1>2. CASE UNCHANGED <<claim, users, bound>>
  BY <1>0, <1>2, QuietInv DEF Persist
<1>3. CASE ~UNCHANGED <<claim, users, bound>>
  <2>1. /\ users' = users \cup {claim.signer} /\ bound' = {claim.signer}
        /\ claim' = [claim EXCEPT !.state = "complete", !.key = None, !.owner = None, !.stale = FALSE]
        /\ Goes(r, "done") /\ UNCHANGED <<running, deployed>>
    BY <1>1, <1>3 DEF Persist
  <2>2. /\ claim' \in Claims /\ claim'.state = "complete" /\ claim'.owner = None
        /\ claim'.signer = claim.signer
    BY <1>0, <2>1 DEF Claims
  <2>3. /\ req' \in [Requests -> [pc: Pcs, signer: Requests \cup {None}]]
        /\ \A q \in Requests : /\ req'[q].signer = req[q].signer
                               /\ req'[q].pc = IF q = r THEN "done" ELSE req[q].pc
    BY <1>0, <2>1, GoesFacts DEF Pcs
  <2>4. claim.signer \in Requests
    BY <1>0, <1>1 DEF Claims
  <2>5. TypeOK'
    BY <1>0, <2>1, <2>2, <2>3, <2>4 DEF TypeOK
  <2>6. ClaimInv' /\ BoundInv' /\ DeployedInv'
    BY <1>0, <2>1, <2>2 DEF IInv, ClaimInv, BoundInv, DeployedInv
  <2>7. ChargeInv' /\ RunningInv' /\ OwnerInv'
    BY <1>0, <1>1, <2>1, <2>2, <2>3, WalletAssumption
    DEF IInv, TypeOK, ChargeInv, InCharge, RunningInv, OwnerInv
  <2> QED
    BY <2>5, <2>6, <2>7 DEF IInv
<1> QED
  BY <1>2, <1>3

\* A request that dies keeps its claim.
LEMMA DiesInv == ASSUME IInv, NEW r \in Requests, Dies(r) PROVE IInv'
  BY WalletAssumption, SMTT(60) DEF Dies, IInv, TypeOK, Claims, Pcs, NoClaim, Goes, ClaimInv, BoundInv, DeployedInv, ChargeInv, InCharge, RunningInv, OwnerInv

\* SDK work of a dead request ends.
LEMMA SdkStopsInv == ASSUME IInv, NEW r \in Requests, SdkStops(r) PROVE IInv'
  BY WalletAssumption, SMTT(60) DEF SdkStops, IInv, TypeOK, Claims, Pcs, NoClaim, Goes, ClaimInv, BoundInv, DeployedInv, ChargeInv, InCharge, RunningInv, OwnerInv

\* A claim ages; linking takes a stale claim that never had a signer.
LEMMA AgeInv == ASSUME IInv, Age PROVE IInv'
<1>1. claim' = [claim EXCEPT !.stale = TRUE] /\ UNCHANGED <<users, bound, req, running, deployed>>
  BY DEF Age
<1>2. claim'.state = claim.state /\ claim'.owner = claim.owner /\ claim'.signer = claim.signer /\ claim'.key = claim.key /\ claim' \in Claims
  BY <1>1 DEF IInv, TypeOK, Claims
<1>t1. TypeOK'
  BY WalletAssumption, <1>1, <1>2, SMTT(30) DEF IInv, TypeOK, Claims, Pcs, Goes
<1>c2. ClaimInv'
  BY WalletAssumption, <1>1, <1>2, SMTT(30) DEF IInv, TypeOK, Claims, Pcs, Goes, ClaimInv, BoundInv, ChargeInv, InCharge
<1>b3. BoundInv'
  BY WalletAssumption, <1>1, <1>2, SMTT(30) DEF IInv, TypeOK, Claims, Pcs, Goes, BoundInv, ChargeInv, InCharge
<1>d4. DeployedInv'
  BY WalletAssumption, <1>1, <1>2, SMTT(30) DEF IInv, TypeOK, Claims, Pcs, Goes, DeployedInv, ClaimInv
<1>a5. ChargeInv'
  BY WalletAssumption, <1>1, <1>2, SMTT(30) DEF IInv, TypeOK, Claims, Pcs, Goes, ChargeInv, InCharge, RunningInv
<1>r6. RunningInv'
  BY WalletAssumption, <1>1, <1>2, SMTT(30) DEF IInv, TypeOK, Claims, Pcs, Goes, RunningInv
<1>o7. OwnerInv'
  BY WalletAssumption, <1>1, <1>2, SMTT(30) DEF IInv, TypeOK, Claims, Pcs, Goes, OwnerInv, ChargeInv, InCharge
<1> QED
  BY <1>t1, <1>c2, <1>b3, <1>d4, <1>a5, <1>r6, <1>o7 DEF IInv

LEMMA LinkInv == ASSUME IInv, NEW w \in Legacy, Link(w) PROVE IInv'
<1>0. TypeOK /\ claim \in Claims /\ bound = {} /\ claim.state \in {"none", "claimed"}
  BY DEF Link, MayLink, TakesOver, IInv, TypeOK
<1>1. /\ bound' = {w} /\ w \in users /\ claim' = [claim EXCEPT !.state = "complete", !.stale = FALSE]
      /\ UNCHANGED <<users, req, running, deployed>>
  BY DEF Link
<1>2. /\ claim' \in Claims /\ claim'.state = "complete" /\ claim'.owner = claim.owner
      /\ claim'.signer = None /\ claim.signer = None
  BY <1>0, <1>1 DEF Claims, IInv, ClaimInv
<1>3. \A q \in Requests : ~InCharge(q)
  BY <1>0 DEF IInv, ChargeInv
<1>4. TypeOK'
  BY <1>0, <1>1, <1>2 DEF TypeOK
<1>5. ClaimInv' /\ BoundInv' /\ DeployedInv'
  BY <1>0, <1>1, <1>2 DEF IInv, ClaimInv, BoundInv, DeployedInv
<1>6. ChargeInv' /\ RunningInv' /\ OwnerInv'
  BY <1>1, <1>2, <1>3 DEF IInv, ChargeInv, InCharge, RunningInv, OwnerInv
<1> QED
  BY <1>4, <1>5, <1>6 DEF IInv

-----------------------------------------------------------------------------
\* One step keeps the inductive invariant.
LEMMA NextInv == IInv /\ [Next]_vars => IInv'
<1> SUFFICES ASSUME IInv, [Next]_vars PROVE IInv'
  OBVIOUS
<1>1. CASE \E r \in Requests : Step(r)
  <2>1. PICK r \in Requests : Step(r)
    BY <1>1
  <2>2. \/ Begin(r) \/ Acquire(r) \/ Prepare(r) \/ Resume(r) \/ LocalFailure(r) \/ Abandon(r)
        \/ SdkStart(r) \/ SdkDeploys(r) \/ SdkAnswers(r) \/ Release(r) \/ Persist(r)
        \/ Dies(r) \/ SdkStops(r)
    BY <2>1 DEF Step
  <2> QED
    BY <2>2, BeginInv, AcquireInv, PrepareInv, ResumeInv, LocalFailureInv, AbandonInv,
       SdkStartInv, SdkDeploysInv, SdkAnswersInv, ReleaseInv, PersistInv, DiesInv, SdkStopsInv
<1>2. CASE Age
  BY <1>2, AgeInv
<1>3. CASE \E w \in Legacy : Link(w)
  BY <1>3, LinkInv
<1>4. CASE UNCHANGED vars
  BY <1>4 DEF vars, IInv, TypeOK, ClaimInv, BoundInv, DeployedInv, ChargeInv, InCharge, RunningInv, OwnerInv
<1> QED
  BY <1>1, <1>2, <1>3, <1>4 DEF Next

(* Every reachable state satisfies the inductive invariant: requests, claim, *)
(* users and SDK work agree (create_wallet, link_telegram).                *)
THEOREM Invariance == Spec => []IInv
<1> QED
  BY InitInv, NextInv, PTL DEF Spec

(* The claim, the rows and the requests have their types. *)
THEOREM TypeCorrect == Spec => []TypeOK
<1>1. IInv => TypeOK
  BY DEF IInv
<1> QED
  BY <1>1, Invariance, PTL

(* Whoever dies, fails or is cancelled, the key of a deployed wallet is in   *)
(* the claim or in the users row (create_wallet).                            *)
THEOREM WalletKeysKept == Spec => []KeysKept
<1>1. IInv => KeysKept
  <2> SUFFICES ASSUME IInv, NEW s \in deployed PROVE claim.key = s \/ s \in users
    BY DEF KeysKept
  <2>1. s = claim.signer /\ s # None /\ claim.state \in {"side_effect_started", "complete"}
    BY WalletAssumption DEF IInv, TypeOK, Claims, DeployedInv, ClaimInv
  <2> QED
    BY <2>1 DEF IInv, TypeOK, ClaimInv
<1> QED
  BY <1>1, Invariance, PTL

(* No two requests have SDK work out together (acquire_wallet_creation_lease *)
(* takes over a claim only before the SDK may be called).                    *)
THEOREM SdkCallsExclusive == Spec => []SdkExclusive
<1>1. IInv => SdkExclusive
  <2> SUFFICES ASSUME IInv PROVE Cardinality(running) <= 1
    BY DEF SdkExclusive
  <2>1. running \subseteq {claim.owner}
    BY DEF IInv, TypeOK, ChargeInv, InCharge
  <2>2. running = {} \/ running = {claim.owner}
    BY <2>1
  <2>3. Cardinality({}) = 0 /\ Cardinality({claim.owner}) = 1
    BY FS_EmptySet, FS_Singleton
  <2> QED
    BY <2>2, <2>3
<1> QED
  BY <1>1, Invariance, PTL

(* The SDK is only ever asked for one wallet of the user                     *)
(* (prepare_wallet_creation_signer never replaces a signer).                 *)
THEOREM WalletOneSigner == Spec => []OneSigner
<1>1. IInv => OneSigner
  <2> SUFFICES ASSUME IInv PROVE Cardinality(deployed \cup {req[r].signer : r \in running}) <= 1
    BY DEF OneSigner
  <2> DEFINE S == deployed \cup {req[r].signer : r \in running}
  <2>1. \A r \in running : req[r].signer = claim.signer
    BY DEF IInv, TypeOK, ChargeInv, InCharge, RunningInv
  <2>2. S \subseteq {claim.signer}
    BY <2>1 DEF IInv, DeployedInv
  <2>3. S = {} \/ S = {claim.signer}
    BY <2>2
  <2>4. Cardinality({}) = 0 /\ Cardinality({claim.signer}) = 1
    BY FS_EmptySet, FS_Singleton
  <2>5. Cardinality(S) <= 1
    <3> HIDE DEF S
    <3> QED BY <2>3, <2>4
  <2> QED
    BY <2>5
<1> QED
  BY <1>1, Invariance, PTL

(* A user bound to a wallet has no other one on the way (link_telegram and   *)
(* create_wallet exclude each other through the claim).                      *)
THEOREM BoundHasNoOrphan == Spec => []NoOrphanWallet
<1>1. IInv => NoOrphanWallet
  <2> SUFFICES ASSUME IInv, bound # {} PROVE deployed \subseteq bound /\ running = {}
    BY DEF NoOrphanWallet
  <2>1. claim.state = "complete"
    BY DEF IInv, BoundInv
  <2>2. running = {}
    BY <2>1 DEF IInv, TypeOK, ChargeInv, InCharge
  <2>3. deployed \subseteq bound
    BY <2>1, WalletAssumption DEF IInv, TypeOK, ClaimInv, DeployedInv
  <2> QED
    BY <2>2, <2>3
<1> QED
  BY <1>1, Invariance, PTL

-----------------------------------------------------------------------------
(* Mutual exclusion and the bounded table of KeyedLocks for any number of  *)
(* keys, tasks and locks.  The heart is that the count of an entry is the  *)
(* number of tasks that took it, so that an entry in use is never dropped  *)
(* and everybody who wants a key has the same lock.                        *)
RefsInv == \A l \in Locks : refs[l] = Cardinality(Referrers(l))
EntryInv == \A t \in Tasks : task[t].pc # "away" => entries[task[t].key] = task[t].lock
DistinctInv == \A k, j \in Keys : (entries[k] = entries[j] /\ entries[k] # NoLock) => k = j
HolderInv == \A t \in Tasks : task[t].pc = "inside" => holder[task[t].lock] = t
UsedInv ==
    \A k \in Keys : entries[k] # NoLock => \E t \in Tasks : task[t].pc # "away" /\ task[t].key = k

LocksInv == LocksTypeOK /\ RefsInv /\ EntryInv /\ DistinctInv /\ HolderInv /\ UsedInv

-----------------------------------------------------------------------------
\* A task is away without a lock, or wants a key and has a lock.
LEMMA TaskFacts ==
  ASSUME LocksTypeOK, NEW t \in Tasks
  PROVE  /\ task[t].pc \in {"away", "waits", "inside"}
         /\ task[t].pc = "away" => task[t] = Away /\ task[t].lock = NoLock
         /\ task[t].pc # "away" => /\ task[t] \in LockTasks /\ task[t].key \in Keys
                                   /\ task[t].lock \in Locks /\ task[t].lock # NoLock
  BY LocksAssumption DEF LocksTypeOK, LockTasks, Away

\* The tasks that refer to a lock are finitely many.
LEMMA ReferrersFinite == ASSUME NEW l PROVE IsFiniteSet(Referrers(l))
<1>1. Referrers(l) \subseteq Tasks
  BY DEF Referrers
<1> QED
  BY <1>1, LocksAssumption, FS_Subset

\* No task, no entry.
LEMMA LocksInitInv == LocksInit => LocksInv
<1> SUFFICES ASSUME LocksInit PROVE LocksInv
  OBVIOUS
<1>1. LocksTypeOK
  BY DEF LocksInit, LocksTypeOK
<1>2. RefsInv
  <2>1. \A l \in Locks : Referrers(l) = {}
    BY LocksAssumption DEF LocksInit, Referrers, Away
  <2> QED
    BY <2>1, FS_EmptySet DEF LocksInit, RefsInv
<1>3. EntryInv /\ DistinctInv /\ HolderInv /\ UsedInv
  BY DEF LocksInit, Away, EntryInv, DistinctInv, HolderInv, UsedInv
<1> QED
  BY <1>1, <1>2, <1>3 DEF LocksInv

\* A task takes the entry of its key, or makes it.
LEMMA HoldInv == ASSUME LocksInv, NEW t \in Tasks, NEW k \in Keys, Hold(t, k) PROVE LocksInv'
<1>1. PICK l \in Locks :
        /\ l = entries[k] \/ (entries[k] = NoLock /\ Unused(l))
        /\ entries' = [entries EXCEPT ![k] = l]
        /\ refs' = [refs EXCEPT ![l] = @ + 1]
        /\ task' = [task EXCEPT ![t] = [pc |-> "waits", key |-> k, lock |-> l]]
        /\ holder' = holder
  BY DEF Hold
<1>2. LocksTypeOK /\ task[t].pc = "away" /\ task[t].lock = NoLock /\ l # NoLock
  BY LocksAssumption, TaskFacts DEF LocksInv, Hold
<1>3. LocksTypeOK'
  BY <1>1, <1>2 DEF LocksTypeOK, LockTasks
<1>4. /\ task'[t] = [pc |-> "waits", key |-> k, lock |-> l]
      /\ \A u \in Tasks \ {t} : task'[u] = task[u]
      /\ entries'[k] = l /\ \A j \in Keys \ {k} : entries'[j] = entries[j]
  BY <1>1, <1>2 DEF LocksTypeOK
<1>5. RefsInv'
  <2> SUFFICES ASSUME NEW m \in Locks PROVE refs'[m] = Cardinality(Referrers(m)')
    BY DEF RefsInv
  <2>1. refs[m] = Cardinality(Referrers(m)) /\ IsFiniteSet(Referrers(m)) /\ t \notin Referrers(m)
    BY <1>2, ReferrersFinite, LocksAssumption DEF LocksInv, RefsInv, Referrers
  <2>2. CASE m = l
    <3>1. Referrers(m)' = Referrers(m) \cup {t}
      BY <1>4, <2>2 DEF Referrers
    <3>2. Cardinality(Referrers(m) \cup {t}) = Cardinality(Referrers(m)) + 1
      BY <2>1, FS_AddElement
    <3> QED
      BY <1>1, <1>2, <2>1, <2>2, <3>1, <3>2 DEF LocksTypeOK
  <2>3. CASE m # l
    <3>1. Referrers(m)' = Referrers(m)
      BY <1>4, <2>1, <2>3 DEF Referrers
    <3> QED
      BY <1>1, <1>2, <2>1, <2>3, <3>1 DEF LocksTypeOK
  <2> QED
    BY <2>2, <2>3
<1>6. EntryInv'
  BY <1>1, <1>2, <1>4, TaskFacts DEF LocksInv, EntryInv
<1>7. DistinctInv'
  BY <1>1, <1>2, <1>4 DEF LocksInv, DistinctInv, Unused
<1>8. HolderInv'
  BY <1>1, <1>4 DEF LocksInv, HolderInv
<1>9. UsedInv'
  BY <1>2, <1>4 DEF LocksInv, UsedInv
<1> QED
  BY <1>3, <1>5, <1>6, <1>7, <1>8, <1>9 DEF LocksInv

\* A free lock is taken.
LEMMA EnterInv == ASSUME LocksInv, NEW t \in Tasks, Enter(t) PROVE LocksInv'
<1>1. LocksTypeOK /\ task[t].pc = "waits" /\ task[t].lock \in Locks /\ task[t] \in LockTasks
  BY TaskFacts DEF LocksInv, Enter
<1>2. /\ task'[t].pc = "inside" /\ task'[t].key = task[t].key /\ task'[t].lock = task[t].lock
      /\ task'[t] \in LockTasks
      /\ \A u \in Tasks \ {t} : task'[u] = task[u]
      /\ task' = [u \in Tasks |-> task'[u]]
  BY <1>1 DEF Enter, LocksTypeOK, LockTasks
<1>3. holder'[task[t].lock] = t /\ \A l \in Locks \ {task[t].lock} : holder'[l] = holder[l]
  BY <1>1 DEF Enter, LocksTypeOK
<1>4. LocksTypeOK'
  BY <1>1, <1>2 DEF Enter, LocksTypeOK
<1>5. \A l \in Locks : Referrers(l)' = Referrers(l)
  BY <1>2 DEF Referrers
<1>6. RefsInv'
  BY <1>5 DEF LocksInv, RefsInv, Enter
<1>7. EntryInv' /\ DistinctInv' /\ UsedInv'
  BY <1>1, <1>2 DEF LocksInv, EntryInv, DistinctInv, UsedInv, Enter
<1>8. HolderInv'
  <2> SUFFICES ASSUME NEW u \in Tasks, task'[u].pc = "inside" PROVE holder'[task'[u].lock] = u
    BY DEF HolderInv
  <2>1. CASE u = t
    BY <1>2, <1>3, <2>1
  <2>2. CASE u # t
    <3>1. task[u].pc = "inside" /\ task[u].lock \in Locks /\ holder[task[u].lock] = u
      BY <1>1, <1>2, <2>2, TaskFacts DEF LocksInv, HolderInv
    <3>2. task[u].lock # task[t].lock
      BY <3>1, LocksAssumption DEF Enter
    <3> QED
      BY <1>2, <1>3, <2>2, <3>1, <3>2
  <2> QED
    BY <2>1, <2>2
<1> QED
  BY <1>4, <1>6, <1>7, <1>8 DEF LocksInv

\* A task lets its entry go; who was inside or only waiting makes no difference
\* to entries and counts.
LEMMA UnreferencedInv ==
  ASSUME LocksInv, NEW t \in Tasks, task[t].pc # "away", Unreferenced(t),
         holder' \in [Locks -> Tasks \cup {Nobody}],
         \A u \in Tasks \ {t} : task[u].pc = "inside" => holder'[task[u].lock] = u
  PROVE  LocksInv'
<1> DEFINE l == task[t].lock
           k == task[t].key
<1>1. LocksTypeOK /\ l \in Locks /\ k \in Keys /\ l # NoLock /\ entries[k] = l
  BY TaskFacts DEF LocksInv, EntryInv
<1>2. task'[t] = Away /\ (\A u \in Tasks \ {t} : task'[u] = task[u])
      /\ task' \in [Tasks -> LockTasks \cup {Away}]
  BY <1>1 DEF Unreferenced, LocksTypeOK
<1>3. /\ refs'[l] = refs[l] - 1 /\ \A m \in Locks \ {l} : refs'[m] = refs[m]
      /\ refs' = [refs EXCEPT ![l] = @ - 1]
  BY <1>1 DEF Unreferenced, LocksTypeOK
<1>4. /\ entries' \in [Keys -> Locks \cup {NoLock}]
      /\ entries'[k] = IF refs[l] = 1 THEN NoLock ELSE l
      /\ \A j \in Keys \ {k} : entries'[j] = entries[j]
  BY <1>1 DEF Unreferenced, Dropped, LocksTypeOK
<1>5. /\ IsFiniteSet(Referrers(l)) /\ t \in Referrers(l)
      /\ Cardinality(Referrers(l)) = refs[l] /\ Cardinality(Referrers(l)) \in Nat
      /\ Cardinality(Referrers(l) \ {t}) = refs[l] - 1
      /\ IsFiniteSet(Referrers(l) \ {t}) /\ refs[l] - 1 \in Nat
  <2>1. IsFiniteSet(Referrers(l)) /\ t \in Referrers(l)
    BY ReferrersFinite DEF Referrers
  <2>2. Cardinality(Referrers(l)) = refs[l]
    BY <1>1 DEF LocksInv, RefsInv
  <2>3. IsFiniteSet(Referrers(l) \ {t}) /\ Cardinality(Referrers(l) \ {t}) = Cardinality(Referrers(l)) - 1
    BY <2>1, FS_RemoveElement
  <2> QED
    BY <2>1, <2>2, <2>3, FS_CardinalityType
<1>6. LocksTypeOK'
  BY <1>1, <1>2, <1>3, <1>4, <1>5 DEF LocksTypeOK
<1>7. RefsInv'
  <2> SUFFICES ASSUME NEW m \in Locks PROVE refs'[m] = Cardinality(Referrers(m)')
    BY DEF RefsInv
  <2>1. CASE m = l
    <3>1. Referrers(m)' = Referrers(l) \ {t}
      BY <1>1, <1>2, <2>1, LocksAssumption DEF Referrers, Away
    <3> QED
      BY <1>3, <1>5, <2>1, <3>1
  <2>2. CASE m # l
    <3>1. Referrers(m)' = Referrers(m)
      BY <1>1, <1>2, <2>2, LocksAssumption DEF Referrers, Away
    <3> QED
      BY <1>3, <2>2, <3>1 DEF LocksInv, RefsInv
  <2> QED
    BY <2>1, <2>2
<1>8. EntryInv'
  <2> SUFFICES ASSUME NEW u \in Tasks, task'[u].pc # "away" PROVE entries'[task'[u].key] = task'[u].lock
    BY DEF EntryInv
  <2>1. u # t /\ task'[u] = task[u] /\ task[u].key \in Keys /\ entries[task[u].key] = task[u].lock
    BY <1>1, <1>2, TaskFacts DEF Away, LocksInv, EntryInv
  <2>2. CASE task[u].key # k
    BY <1>4, <2>1, <2>2
  <2>3. CASE task[u].key = k
    <3>1. u \in Referrers(l) \ {t}
      BY <1>1, <2>1, <2>3 DEF Referrers
    <3>2. Cardinality(Referrers(l) \ {t}) # 0
      BY <1>5, <3>1, FS_EmptySet
    <3>3. refs[l] # 1
      BY <1>5, <3>2
    <3> QED
      BY <1>1, <1>4, <2>1, <2>3, <3>3
  <2> QED
    BY <2>2, <2>3
<1>9. DistinctInv'
  BY <1>1, <1>4 DEF LocksInv, DistinctInv
<1>10. HolderInv'
  BY <1>2 DEF HolderInv, Away
<1>11. UsedInv'
  <2> SUFFICES ASSUME NEW j \in Keys, entries'[j] # NoLock
               PROVE  \E u \in Tasks : task'[u].pc # "away" /\ task'[u].key = j
    BY DEF UsedInv
  <2>1. CASE j = k
    <3>1. refs[l] # 1
      BY <1>4, <2>1
    <3>2. Referrers(l) \ {t} # {}
      BY <1>5, <3>1, FS_EmptySet
    <3>3. PICK u \in Tasks : u # t /\ task[u].lock = l
      BY <3>2 DEF Referrers
    <3>4. task[u].pc # "away" /\ task[u].key \in Keys /\ entries[task[u].key] = l
      BY <1>1, <3>3, TaskFacts DEF LocksInv, EntryInv
    <3>5. task[u].key = k
      BY <1>1, <3>4 DEF LocksInv, DistinctInv
    <3> QED
      BY <1>2, <2>1, <3>3, <3>4, <3>5
  <2>2. CASE j # k
    <3>1. PICK u \in Tasks : task[u].pc # "away" /\ task[u].key = j
      BY <1>4, <2>2 DEF LocksInv, UsedInv
    <3> QED
      BY <1>2, <2>2, <3>1
  <2> QED
    BY <2>1, <2>2
<1> QED
  BY <1>6, <1>7, <1>8, <1>9, <1>10, <1>11 DEF LocksInv

\* The task inside leaves: nobody else was inside its lock.
LEMMA LeaveInv == ASSUME LocksInv, NEW t \in Tasks, Leave(t) PROVE LocksInv'
<1>1. LocksTypeOK /\ task[t].pc = "inside" /\ task[t].lock \in Locks /\ Unreferenced(t)
  BY TaskFacts DEF LocksInv, Leave
<1>2. holder' = [holder EXCEPT ![task[t].lock] = Nobody]
  BY DEF Leave
<1>3. holder' \in [Locks -> Tasks \cup {Nobody}]
  BY <1>1, <1>2 DEF LocksTypeOK
<1>4. ASSUME NEW u \in Tasks \ {t}, task[u].pc = "inside" PROVE holder'[task[u].lock] = u
  <2>1. task[u].lock \in Locks /\ holder[task[u].lock] = u /\ holder[task[t].lock] = t
    BY <1>1, <1>4, TaskFacts DEF LocksInv, HolderInv
  <2> QED
    BY <1>1, <1>2, <2>1 DEF LocksTypeOK
<1> QED
  BY <1>1, <1>3, <1>4, UnreferencedInv

\* A waiter goes.
LEMMA CancelledInv == ASSUME LocksInv, NEW t \in Tasks, Cancelled(t) PROVE LocksInv'
<1>1. LocksTypeOK /\ task[t].pc = "waits" /\ Unreferenced(t) /\ holder' = holder
  BY DEF LocksInv, Cancelled
<1> QED
  BY <1>1, UnreferencedInv DEF LocksInv, LocksTypeOK, HolderInv

\* Every step keeps the invariant.
LEMMA LocksNextInv == LocksInv /\ [LocksNext]_lockVars => LocksInv'
<1> SUFFICES ASSUME LocksInv, [LocksNext]_lockVars PROVE LocksInv'
  OBVIOUS
<1>1. ASSUME NEW t \in Tasks, NEW k \in Keys, Hold(t, k) PROVE LocksInv'
  BY <1>1, HoldInv
<1>2. ASSUME NEW t \in Tasks, Enter(t) PROVE LocksInv'
  BY <1>2, EnterInv
<1>3. ASSUME NEW t \in Tasks, Leave(t) PROVE LocksInv'
  BY <1>3, LeaveInv
<1>4. ASSUME NEW t \in Tasks, Cancelled(t) PROVE LocksInv'
  BY <1>4, CancelledInv
<1>5. CASE UNCHANGED lockVars
  BY <1>5 DEF lockVars, LocksInv, LocksTypeOK, RefsInv, Referrers, EntryInv, DistinctInv, HolderInv, UsedInv
<1> QED
  BY <1>1, <1>2, <1>3, <1>4, <1>5 DEF LocksNext

(* Counts, entries, waiters and holders agree in every reachable state     *)
(* (KeyedLocks.hold).                                                      *)
THEOREM LocksInvariance == LocksSpec => []LocksInv
<1> QED
  BY LocksInitInv, LocksNextInv, PTL DEF LocksSpec

(* Two tasks are never inside one key together (KeyedLocks.hold).          *)
THEOREM LocksExclude == LocksSpec => []KeyExclusive
<1>1. LocksInv => KeyExclusive
  BY DEF LocksInv, EntryInv, HolderInv, KeyExclusive
<1> QED
  BY <1>1, LocksInvariance, PTL

(* The table holds exactly the keys somebody holds or waits for            *)
(* (KeyedLocks.hold).                                                      *)
THEOREM LocksBounded == LocksSpec => []EntriesInUse
<1>1. LocksInv => EntriesInUse
  <2> SUFFICES ASSUME LocksInv, NEW k \in Keys
               PROVE  entries[k] # NoLock <=> \E t \in Tasks : task[t].pc # "away" /\ task[t].key = k
    BY DEF EntriesInUse
  <2>1. ASSUME NEW t \in Tasks, task[t].pc # "away", task[t].key = k PROVE entries[k] # NoLock
    BY <2>1, TaskFacts DEF LocksInv, EntryInv
  <2> QED
    BY <2>1 DEF LocksInv, UsedInv
<1> QED
  BY <1>1, LocksInvariance, PTL
-----------------------------------------------------------------------------
(* Why the leader's cash is read after the bet, for any number of calls    *)
(* and any lifetimes, from LeaderCashAssumption: nodes lag less than the   *)
(* settling time.  Whatever is shared or cached was due for the trade it   *)
(* sizes when it began; only a call's own read may be older.               *)
CallStates == [pc: {"idle", "waits", "done"}, after: CashTimes \cup {NoCash},
               read: Calls \cup {NoCash}, got: Readings \cup {NoCash}]

Fair(reading) == reading # NoCash => reading.started - Lag <= reading.moment

CacheInv == Fair(cashCache)
ReadsInv == \A c \in Calls : call[c].pc = "idle" => reads[c] = NoCash
WaitInv ==
    \A c \in Calls : call[c].pc = "waits" =>
       /\ call[c].read \in Calls /\ reads[call[c].read] # NoCash /\ call[c].got = NoCash
       /\ call[c].read # c => DueBy(reads[call[c].read], call[c].after)
GotInv ==
    \A c \in Calls : call[c].got # NoCash =>
       /\ Fair(call[c].got)
       /\ call[c].read # c => DueBy(call[c].got.started, call[c].after)

CInv == CashTypeOK /\ CacheInv /\ ReadsInv /\ WaitInv /\ GotInv

-----------------------------------------------------------------------------
\* The constants are numbers, NoCash is not.
LEMMA CashConstants ==
  /\ CashTtl \in Nat /\ Settle \in Nat /\ Memory \in Nat /\ Lag \in Nat /\ CashTime \in Nat
  /\ Lag <= Settle /\ NoCash \notin CashTimes /\ NoCash \notin Calls /\ CashTimes \subseteq Int
<1> QED
  BY LeaderCashAssumption DEF CashTimes

\* Nothing has been read.
LEMMA CashInitInv == ASSUME CashInit PROVE CInv
<1>1. cashNow \in CashTimes /\ NotCalled \in CallStates
  BY CashConstants DEF CashInit, NotCalled, CallStates, CashTimes
<1>2. CashTypeOK
  BY <1>1 DEF CashInit, CashTypeOK, CallStates
<1> QED
  BY <1>2 DEF CashInit, CInv, CacheInv, Fair, ReadsInv, WaitInv, GotInv, NotCalled

\* A trade asks for the cash: cached, refused, shared or read anew.
LEMMA CashUsdInv ==
  ASSUME CInv, NEW c \in Calls, NEW after \in 0..cashNow \cup {NoCash}, CashUsd(c, after)
  PROVE  CInv'
<1>1. /\ CashTypeOK /\ call[c].pc = "idle" /\ reads[c] = NoCash
      /\ cashNow' = cashNow /\ cashCache' = cashCache /\ failed' = failed
      /\ cashNow \in CashTimes /\ after \in CashTimes \cup {NoCash}
  BY CashConstants DEF CInv, CashUsd, CashTypeOK, ReadsInv, CashTimes
<1>2. call[c] \in CallStates /\ call \in [Calls -> CallStates]
  BY <1>1 DEF CashTypeOK, CallStates
<1>3. \A d \in Calls : call[d].pc = "waits" => call[d].read # c
  BY <1>1 DEF CInv, WaitInv
<1>4. CASE CachedCash(after)
  <2> DEFINE r == [pc |-> "done", after |-> after, read |-> NoCash, got |-> cashCache]
  <2>1. call' = [call EXCEPT ![c] = r] /\ UNCHANGED <<inflight, reads>>
    BY <1>4 DEF CashUsd
  <2>2. r \in CallStates /\ cashCache # NoCash /\ DueBy(cashCache.started, after)
    BY <1>1, <1>4 DEF CashTypeOK, CallStates, CachedCash
  <2>3. call' \in [Calls -> CallStates] /\ call'[c] = r /\ \A d \in Calls \ {c} : call'[d] = call[d]
    BY <1>2, <2>1, <2>2
  <2>4. CashTypeOK'
    BY <1>1, <2>1, <2>3 DEF CashTypeOK, CallStates
  <2>5. CacheInv' /\ ReadsInv' /\ WaitInv'
    BY <1>1, <2>1, <2>3 DEF CInv, CacheInv, ReadsInv, WaitInv, Fair, DueBy
  <2>6. GotInv'
    BY <1>1, <2>1, <2>2, <2>3 DEF CInv, GotInv, CacheInv, Fair, DueBy
  <2> QED
    BY <2>4, <2>5, <2>6 DEF CInv
<1>5. CASE ~CachedCash(after) /\ Remembered
  <2>1. call' = [call EXCEPT ![c].pc = "done"] /\ UNCHANGED <<inflight, reads>>
    BY <1>5 DEF CashUsd
  <2>2. /\ call' \in [Calls -> CallStates] /\ call'[c].pc = "done" /\ call'[c].got = call[c].got
        /\ call'[c].read = call[c].read /\ call'[c].after = call[c].after
        /\ \A d \in Calls \ {c} : call'[d] = call[d]
    BY <1>2, <2>1 DEF CallStates
  <2>3. CashTypeOK'
    BY <1>1, <2>1, <2>2 DEF CashTypeOK, CallStates
  <2>4. CacheInv' /\ ReadsInv' /\ WaitInv' /\ GotInv'
    BY <1>1, <2>1, <2>2 DEF CInv, CacheInv, ReadsInv, WaitInv, GotInv, Fair, DueBy
  <2> QED
    BY <2>3, <2>4 DEF CInv
<1>6. CASE ~CachedCash(after) /\ ~Remembered
  <2> DEFINE r == [pc |-> "waits", after |-> after, read |-> inflight', got |-> NoCash]
  <2>1. /\ inflight' = IF Shared(after) THEN inflight ELSE c
        /\ reads' = IF Shared(after) THEN reads ELSE [reads EXCEPT ![c] = cashNow]
        /\ call' = [call EXCEPT ![c] = r]
    BY <1>6 DEF CashUsd
  <2>2. /\ inflight' \in Calls /\ reads' \in [Calls -> CashTimes \cup {NoCash}] /\ reads'[inflight'] # NoCash
        /\ inflight' # c => DueBy(reads'[inflight'], after)
        /\ \A d \in Calls \ {c} : reads'[d] = reads[d]
    BY <1>1, <2>1, CashConstants DEF CashTypeOK, Shared
  <2>3. r \in CallStates
    BY <1>1, <2>2 DEF CallStates
  <2>4. call' \in [Calls -> CallStates] /\ call'[c] = r /\ \A d \in Calls \ {c} : call'[d] = call[d]
    BY <1>2, <2>1, <2>3
  <2> HIDE DEF r
  <2>5. r.pc = "waits" /\ r.after = after /\ r.read = inflight' /\ r.got = NoCash
    BY DEF r
  <2>6. CashTypeOK'
    BY <1>1, <2>2, <2>4 DEF CashTypeOK, CallStates
  <2>7. CacheInv' /\ ReadsInv' /\ GotInv'
    BY <1>1, <2>2, <2>4, <2>5 DEF CInv, CacheInv, ReadsInv, GotInv, Fair, DueBy
  <2>8. WaitInv'
    <3> SUFFICES ASSUME NEW d \in Calls, call'[d].pc = "waits"
                 PROVE  /\ call'[d].read \in Calls /\ reads'[call'[d].read] # NoCash /\ call'[d].got = NoCash
                        /\ call'[d].read # d => DueBy(reads'[call'[d].read], call'[d].after)
      BY DEF WaitInv, DueBy
    <3>1. CASE d = c
      BY <2>2, <2>4, <2>5, <3>1
    <3>2. CASE d # c
      BY <1>3, <2>2, <2>4, <3>2 DEF CInv, WaitInv
    <3> QED
      BY <3>1, <3>2
  <2> QED
    BY <2>6, <2>7, <2>8 DEF CInv
<1> QED
  BY <1>4, <1>5, <1>6

\* A read lands: those who wait for it get it.
LEMMA LandedInv ==
  ASSUME CInv, NEW c \in Calls, NEW got \in Readings \cup {NoCash}, Landed(c, got),
         Fair(got), got # NoCash => got.started = reads[c], CacheInv',
         cashCache' \in Readings \cup {NoCash}, failed' \in CashTimes \cup {NoCash}
  PROVE  CInv'
<1>1. /\ CashTypeOK /\ cashNow' = cashNow /\ reads' = [reads EXCEPT ![c] = NoCash]
      /\ inflight' = IF inflight = c THEN NoCash ELSE inflight
      /\ call' = [d \in Calls |-> IF call[d].pc = "waits" /\ call[d].read = c
                                  THEN [call[d] EXCEPT !.pc = "done", !.got = got] ELSE call[d]]
  BY DEF CInv, Landed, Popped
<1>2. ASSUME NEW d \in Calls, call[d].pc = "waits" /\ call[d].read = c
      PROVE  /\ call'[d] \in CallStates /\ call'[d].pc = "done" /\ call'[d].got = got
             /\ call'[d].after = call[d].after /\ call'[d].read = call[d].read
  BY <1>1, <1>2 DEF CashTypeOK, CallStates
<1>3. ASSUME NEW d \in Calls, ~(call[d].pc = "waits" /\ call[d].read = c)
      PROVE  call'[d] = call[d] /\ call'[d] \in CallStates
  BY <1>1, <1>3 DEF CashTypeOK, CallStates
<1>4. call' \in [Calls -> CallStates]
  BY <1>1, <1>2, <1>3
<1>5. /\ reads' \in [Calls -> CashTimes \cup {NoCash}] /\ reads'[c] = NoCash
      /\ \A d \in Calls \ {c} : reads'[d] = reads[d]
      /\ inflight' # NoCash => inflight' # c
  BY <1>1, CashConstants DEF CashTypeOK
<1>6. CashTypeOK'
  BY <1>1, <1>4, <1>5 DEF CashTypeOK, CallStates
<1>7. ReadsInv'
  BY <1>2, <1>3, <1>5 DEF CInv, ReadsInv
<1>8. WaitInv'
  <2> SUFFICES ASSUME NEW d \in Calls, call'[d].pc = "waits"
               PROVE  /\ call'[d].read \in Calls /\ reads'[call'[d].read] # NoCash /\ call'[d].got = NoCash
                      /\ call'[d].read # d => DueBy(reads'[call'[d].read], call'[d].after)
    BY DEF WaitInv, DueBy
  <2>1. call'[d] = call[d] /\ call[d].read # c
    BY <1>2, <1>3
  <2> QED
    BY <1>5, <2>1 DEF CInv, WaitInv
<1>9. GotInv'
  <2> SUFFICES ASSUME NEW d \in Calls, call'[d].got # NoCash
               PROVE  /\ Fair(call'[d].got)
                      /\ call'[d].read # d => DueBy(call'[d].got.started, call'[d].after)
    BY DEF GotInv, Fair, DueBy
  <2>1. CASE call[d].pc = "waits" /\ call[d].read = c
    BY <1>2, <2>1 DEF CInv, WaitInv
  <2>2. CASE ~(call[d].pc = "waits" /\ call[d].read = c)
    BY <1>3, <2>2 DEF CInv, GotInv
  <2> QED
    BY <2>1, <2>2
<1> QED
  BY <1>6, <1>7, <1>8, <1>9 DEF CInv

\* Every step keeps the invariant.
LEMMA CashNextInv == ASSUME CInv, [CashNext]_cashVars PROVE CInv'
<1>1. CASE CashSecond
  <2>1. CashTypeOK'
    BY <1>1, CashConstants DEF CInv, CashTypeOK, CashSecond, CashTimes
  <2> QED
    BY <1>1, <2>1 DEF CashSecond, CInv, CacheInv, Fair, ReadsInv, WaitInv, GotInv, DueBy
<1>2. ASSUME NEW c \in Calls, NEW after \in 0..cashNow \cup {NoCash}, CashUsd(c, after) PROVE CInv'
  BY <1>2, CashUsdInv
<1>3. ASSUME NEW c \in Calls, ReadSucceeds(c) PROVE CInv'
  <2>1. PICK moment \in CashTimes :
          /\ reads[c] # NoCash /\ reads[c] - Lag <= moment
          /\ Landed(c, [started |-> reads[c], moment |-> moment])
          /\ cashCache' = [started |-> reads[c], moment |-> moment] /\ failed' = NoCash
    BY <1>3 DEF ReadSucceeds
  <2> DEFINE got == [started |-> reads[c], moment |-> moment]
  <2>2. got \in Readings /\ got.started = reads[c] /\ Fair(got)
    BY <2>1 DEF CInv, CashTypeOK, Readings, Fair
  <2>3. cashCache' = got /\ Landed(c, got) /\ failed' = NoCash
    BY <2>1
  <2> HIDE DEF got
  <2>4. CacheInv'
    BY <2>2, <2>3 DEF CacheInv, Fair
  <2> QED
    BY <2>2, <2>3, <2>4, LandedInv
<1>4. ASSUME NEW c \in Calls, ReadFails(c) PROVE CInv'
  <2>1. /\ Landed(c, NoCash) /\ failed' = cashNow /\ cashCache' = cashCache
        /\ cashNow \in CashTimes /\ cashCache \in Readings \cup {NoCash}
    BY <1>4 DEF ReadFails, CInv, CashTypeOK
  <2>2. CacheInv' /\ Fair(NoCash)
    BY <2>1 DEF CInv, CacheInv, Fair
  <2> QED
    BY <2>1, <2>2, LandedInv
<1>5. CASE UNCHANGED cashVars
  <2>1. CashTypeOK'
    BY <1>5 DEF CInv, CashTypeOK, cashVars
  <2> QED
    BY <1>5, <2>1 DEF cashVars, CInv, CacheInv, Fair, ReadsInv, WaitInv, GotInv, DueBy
<1> QED
  BY <1>1, <1>2, <1>3, <1>4, <1>5 DEF CashNext

\* What the invariant says of a trade that was sized.
LEMMA CashSized == ASSUME CInv PROVE SizedAfterTheBet
<1> SUFFICES ASSUME NEW c \in Calls, call[c].got # NoCash, call[c].after # NoCash,
                    call[c].got.moment < call[c].after
             PROVE  call[c].read = c /\ call[c].got.started < call[c].after + Settle
  BY DEF SizedAfterTheBet
<1>1. /\ call[c].got.started \in Int /\ call[c].got.moment \in Int /\ call[c].after \in Int
      /\ Lag \in Int /\ Settle \in Int /\ Lag <= Settle
  <2>1. call[c] \in CallStates
    BY DEF CInv, CashTypeOK, CallStates
  <2>2. call[c].got \in Readings /\ call[c].after \in CashTimes
    BY <2>1 DEF CallStates
  <2>3. call[c].got.started \in CashTimes /\ call[c].got.moment \in CashTimes
    BY <2>2 DEF Readings
  <2> QED
    BY <2>2, <2>3, CashConstants DEF CashTimes
<1>2. call[c].got.started - Lag <= call[c].got.moment
  BY DEF CInv, GotInv, Fair
<1>3. call[c].got.started < call[c].after + Settle
  BY <1>1, <1>2
<1>4. call[c].read = c
  <2> SUFFICES ASSUME call[c].read # c PROVE FALSE
    OBVIOUS
  <2>1. call[c].got.started >= call[c].after + Settle
    BY DEF CInv, GotInv, DueBy
  <2> QED
    BY <1>1, <1>3, <2>1
<1> QED
  BY <1>3, <1>4

-----------------------------------------------------------------------------
(* Cache, flights and calls agree in every reachable state                 *)
(* (LeaderCashReader.cash_usd).                                            *)
THEOREM CashInvariance == CashSpec => []CInv
<1>1. CashInit => CInv
  BY CashInitInv
<1>2. CInv /\ [CashNext]_cashVars => CInv'
  BY CashNextInv
<1> QED
  BY <1>1, <1>2, PTL DEF CashSpec

(* A trade is sized from cash that no longer holds the bet, unless the     *)
(* call read it itself too soon (the `due` of cash_usd and _landed).       *)
THEOREM CashSizedAfterTheBet == CashSpec => []SizedAfterTheBet
<1>1. CInv => SizedAfterTheBet
  BY CashSized
<1> QED
  BY <1>1, CashInvariance, PTL

-----------------------------------------------------------------------------
(* How old the balance of a decision can be, for any number of decisions   *)
(* and any lifetimes, from CollateralAssumption: no read is out for longer *)
(* than ReadMax, and a reading is dropped within one lifetime of when it   *)
(* landed, whatever order reads and drops come in.                         *)
DecisionStates == [pc: {"idle", "reads", "done"}, since: CollateralTimes,
                   got: CollateralTimes \cup {NoBalance}]
Entries == [moment: CollateralTimes, deadline: 0..CollateralTime + Ttl]

ReadInv ==
    \A d \in Decisions : decision[d].pc = "reads" =>
       decision[d].since <= balanceNow /\ balanceNow <= decision[d].since + ReadMax
LifeInv == balanceCache # NoBalance => balanceCache.deadline <= balanceCache.moment + ReadMax + Ttl

BInv == CollateralTypeOK /\ ReadInv /\ LifeInv /\ BalanceRecent

-----------------------------------------------------------------------------
\* The constants are numbers, NoBalance is not.
LEMMA BalanceConstants ==
  /\ Ttl \in Nat /\ ReadMax \in Nat /\ CollateralTime \in Nat
  /\ NoBalance \notin CollateralTimes /\ CollateralTimes \subseteq Int /\ 0 \in CollateralTimes
<1> QED
  BY CollateralAssumption DEF CollateralTimes

\* The parts of a decision and of the cache.
LEMMA BalanceFacts ==
  ASSUME CollateralTypeOK
  PROVE  /\ balanceNow \in Int /\ balanceNow \in CollateralTimes
         /\ decision \in [Decisions -> DecisionStates]
         /\ \A d \in Decisions : /\ decision[d] \in DecisionStates /\ decision[d].since \in Int
                                 /\ decision[d].got # NoBalance => decision[d].got \in Int
         /\ balanceCache # NoBalance =>
              balanceCache \in Entries /\ balanceCache.moment \in Int /\ balanceCache.deadline \in Int
<1>1. /\ balanceNow \in CollateralTimes
      /\ decision \in [Decisions -> DecisionStates] /\ balanceCache \in Entries \cup {NoBalance}
  BY DEF CollateralTypeOK, DecisionStates, Entries
<1>2. ASSUME NEW d \in Decisions
      PROVE  /\ decision[d] \in DecisionStates /\ decision[d].since \in CollateralTimes
             /\ decision[d].got \in CollateralTimes \cup {NoBalance}
  BY <1>1 DEF DecisionStates
<1>3. ASSUME balanceCache # NoBalance
      PROVE  balanceCache \in Entries /\ balanceCache.moment \in Int /\ balanceCache.deadline \in Int
  <2>1. balanceCache \in Entries
    BY <1>1, <1>3
  <2>2. balanceCache.moment \in CollateralTimes /\ balanceCache.deadline \in 0..CollateralTime + Ttl
    BY <2>1 DEF Entries
  <2> QED
    BY <2>1, <2>2, BalanceConstants DEF CollateralTimes
<1> QED
  BY <1>1, <1>2, <1>3, BalanceConstants

\* Nothing is cached, nobody reads.
LEMMA BalanceInitInv == ASSUME CollateralInit PROVE BInv
<1>1. CollateralTypeOK
  BY BalanceConstants DEF CollateralInit, CollateralTypeOK, NotBegun
<1> QED
  BY <1>1, BalanceConstants
     DEF CollateralInit, BInv, ReadInv, LifeInv, BalanceRecent, NotBegun

\* A second passes; no read is out for longer than ReadMax.
LEMMA BalanceSecondInv == ASSUME BInv, CollateralSecond PROVE BInv'
<1>1. /\ CollateralTypeOK /\ balanceNow < CollateralTime /\ balanceNow' = balanceNow + 1
      /\ UNCHANGED <<balanceCache, decision>>
      /\ \A d \in Decisions : decision[d].pc = "reads" => balanceNow - decision[d].since < ReadMax
  BY DEF BInv, CollateralSecond, Reading
<1>2. CollateralTypeOK'
  BY <1>1, BalanceConstants DEF CollateralTypeOK, CollateralTimes
<1>3. ReadInv'
  BY <1>1, BalanceConstants, BalanceFacts DEF BInv, ReadInv
<1> QED
  BY <1>1, <1>2, <1>3, BalanceFacts DEF BInv, LifeInv, BalanceRecent

\* A decision that changes alone.
LEMMA OneDecides ==
  ASSUME BInv, NEW d \in Decisions, NEW r \in DecisionStates,
         decision' = [decision EXCEPT ![d] = r], UNCHANGED balanceNow,
         balanceCache' \in Entries \cup {NoBalance}, LifeInv',
         r.pc = "reads" => r.since <= balanceNow /\ balanceNow <= r.since + ReadMax,
         r.pc = "done" /\ r.got # NoBalance => r.got + Ttl + ReadMax >= r.since
  PROVE  BInv'
<1>1. /\ decision' \in [Decisions -> DecisionStates] /\ decision'[d] = r
      /\ \A e \in Decisions \ {d} : decision'[e] = decision[e]
  BY BalanceFacts DEF BInv
<1>2. CollateralTypeOK'
  BY <1>1 DEF BInv, CollateralTypeOK, DecisionStates, Entries
<1>3. ReadInv' /\ BalanceRecent'
  BY <1>1 DEF BInv, ReadInv, BalanceRecent
<1> QED
  BY <1>2, <1>3 DEF BInv

\* The cache answers, or a read begins.
LEMMA DecideInv == ASSUME BInv, NEW d \in Decisions, Decide(d) PROVE BInv'
<1>1. /\ CollateralTypeOK /\ balanceCache' = CachedBalance /\ UNCHANGED balanceNow
      /\ \/ CachedBalance = NoBalance
         \/ CachedBalance = balanceCache /\ balanceCache # NoBalance /\ balanceNow < balanceCache.deadline
  BY DEF BInv, Decide, CachedBalance
<1>2. LifeInv' /\ balanceCache' \in Entries \cup {NoBalance}
  BY <1>1, BalanceFacts DEF BInv, LifeInv
<1>3. CASE CachedBalance # NoBalance
  <2> DEFINE r == [decision[d] EXCEPT !.pc = "done", !.since = balanceNow, !.got = CachedBalance.moment]
  <2>1. decision' = [decision EXCEPT ![d] = r]
    BY <1>3 DEF Decide
  <2>2. balanceCache.moment \in CollateralTimes /\ decision[d] \in DecisionStates /\ balanceNow \in CollateralTimes
    BY <1>1, <1>3, BalanceFacts DEF Entries
  <2>3. r \in DecisionStates /\ r.pc = "done" /\ r.since = balanceNow /\ r.got = balanceCache.moment
    BY <1>1, <1>3, <2>2 DEF DecisionStates
  <2>4. balanceCache.moment + Ttl + ReadMax >= balanceNow
    BY <1>1, <1>3, BalanceConstants, BalanceFacts DEF BInv, LifeInv
  <2> HIDE DEF r
  <2> QED
    BY <1>1, <1>2, <2>1, <2>3, <2>4, OneDecides
<1>4. CASE CachedBalance = NoBalance
  <2> DEFINE r == [decision[d] EXCEPT !.pc = "reads", !.since = balanceNow]
  <2>1. decision' = [decision EXCEPT ![d] = r]
    BY <1>4 DEF Decide
  <2>2. r \in DecisionStates /\ r.pc = "reads" /\ r.since = balanceNow
    BY <1>1, BalanceFacts DEF DecisionStates
  <2>3. r.since <= balanceNow /\ balanceNow <= r.since + ReadMax
    BY <1>1, <2>2, BalanceConstants, BalanceFacts DEF BInv
  <2> HIDE DEF r
  <2> QED
    BY <1>1, <1>2, <2>1, <2>2, <2>3, OneDecides
<1> QED
  BY <1>3, <1>4

\* The read is tried once more on a new transport.
LEMMA AgainInv == ASSUME BInv, NEW d \in Decisions, Again(d) PROVE BInv'
<1> DEFINE r == [decision[d] EXCEPT !.since = balanceNow]
<1>1. /\ CollateralTypeOK /\ decision[d].pc = "reads" /\ UNCHANGED <<balanceNow, balanceCache>>
      /\ decision' = [decision EXCEPT ![d] = r]
  BY BalanceFacts DEF BInv, Again, Reading, DecisionStates
<1>2. r \in DecisionStates /\ r.pc = "reads" /\ r.since = balanceNow
  BY <1>1, BalanceFacts DEF DecisionStates
<1>3. r.since <= balanceNow /\ balanceNow <= r.since + ReadMax
  BY <1>1, <1>2, BalanceConstants, BalanceFacts DEF BInv
<1>4. LifeInv' /\ balanceCache' \in Entries \cup {NoBalance}
  BY <1>1, BalanceFacts DEF BInv, LifeInv
<1> HIDE DEF r
<1> QED
  BY <1>1, <1>2, <1>3, <1>4, OneDecides

\* A read lands; what it read was the wallet's since it began.
LEMMA ReadLandsInv == ASSUME BInv, NEW d \in Decisions, BalanceLands(d) PROVE BInv'
<1>1. PICK moment \in decision[d].since..balanceNow :
        /\ decision' = [decision EXCEPT ![d].pc = "done", ![d].got = moment]
        /\ balanceCache' = IF Ttl = 0 THEN balanceCache
                    ELSE [moment |-> moment, deadline |-> balanceNow + Ttl]
  BY DEF BalanceLands
<1>2. /\ CollateralTypeOK /\ decision[d].pc = "reads" /\ UNCHANGED balanceNow
      /\ decision[d] \in DecisionStates /\ balanceNow \in CollateralTimes /\ decision[d].since \in CollateralTimes
  BY BalanceFacts DEF BInv, BalanceLands, Reading, DecisionStates
<1>3. /\ moment \in CollateralTimes /\ decision[d].since <= moment /\ balanceNow <= moment + ReadMax
  <2>1. /\ balanceNow <= decision[d].since + ReadMax
        /\ moment \in Int /\ decision[d].since <= moment /\ moment <= balanceNow
    BY <1>1, <1>2, BalanceConstants DEF BInv, ReadInv
  <2> QED
    BY <1>2, <2>1, BalanceConstants, BalanceFacts DEF CollateralTimes
<1> DEFINE r == [decision[d] EXCEPT !.pc = "done", !.got = moment]
<1>4. r \in DecisionStates /\ r.pc = "done" /\ r.since = decision[d].since /\ r.got = moment
  BY <1>2, <1>3 DEF DecisionStates
<1>5. decision' = [decision EXCEPT ![d] = r]
  BY <1>1, <1>2, BalanceFacts
<1>6. r.got + Ttl + ReadMax >= r.since
  BY <1>2, <1>3, <1>4, BalanceConstants
<1>7. LifeInv' /\ balanceCache' \in Entries \cup {NoBalance}
  <2>1. CASE Ttl = 0
    BY <1>1, <1>2, <2>1, BalanceFacts DEF BInv, LifeInv
  <2>2. CASE Ttl # 0
    <3>1. balanceCache' = [moment |-> moment, deadline |-> balanceNow + Ttl]
      BY <1>1, <2>2
    <3>2. balanceNow + Ttl \in 0..CollateralTime + Ttl
      BY <1>2, BalanceConstants DEF CollateralTimes
    <3>3. balanceCache' \in Entries
      BY <1>3, <3>1, <3>2 DEF Entries
    <3>4. balanceNow + Ttl <= moment + ReadMax + Ttl
      BY <1>2, <1>3, BalanceConstants
    <3> QED
      BY <1>2, <1>3, <3>1, <3>3, <3>4 DEF LifeInv
  <2> QED
    BY <2>1, <2>2
<1> HIDE DEF r
<1> QED
  BY <1>2, <1>4, <1>5, <1>6, <1>7, OneDecides

\* A decision is over.
LEMMA BalanceEndsInv ==
  ASSUME BInv, NEW d \in Decisions, BalanceFails(d) \/ DecisionEnds(d)
  PROVE  BInv'
<1>1. /\ CollateralTypeOK /\ decision' = [decision EXCEPT ![d] = NotBegun]
      /\ UNCHANGED <<balanceNow, balanceCache>>
  BY DEF BInv, BalanceFails, DecisionEnds
<1>2. NotBegun \in DecisionStates /\ NotBegun.pc = "idle"
  BY BalanceConstants DEF NotBegun, DecisionStates
<1>3. LifeInv' /\ balanceCache' \in Entries \cup {NoBalance}
  BY <1>1, BalanceFacts DEF BInv, LifeInv
<1> QED
  BY <1>1, <1>2, <1>3, OneDecides

\* The cache is dropped; no decision and no read under way changes.
LEMMA InvalidateInv == ASSUME BInv, Invalidate PROVE BInv'
<1>1. balanceCache' = NoBalance /\ UNCHANGED <<balanceNow, decision>>
  BY DEF Invalidate
<1>2. CollateralTypeOK'
  BY <1>1 DEF BInv, CollateralTypeOK
<1> QED
  BY <1>1, <1>2 DEF BInv, ReadInv, LifeInv, BalanceRecent

\* Every step keeps the invariant.
LEMMA BalanceNextInv == ASSUME BInv, [CollateralNext]_collateralVars PROVE BInv'
<1>1. CASE UNCHANGED collateralVars
  <2>1. CollateralTypeOK'
    BY <1>1 DEF BInv, CollateralTypeOK, collateralVars
  <2> QED
    BY <1>1, <2>1 DEF collateralVars, BInv, ReadInv, LifeInv, BalanceRecent
<1> QED
  BY <1>1, BalanceSecondInv, InvalidateInv, DecideInv, AgainInv, ReadLandsInv, BalanceEndsInv DEF CollateralNext

-----------------------------------------------------------------------------
(* Cache, deadline and reads agree in every reachable state                *)
(* (_cached_collateral, _read_collateral).                                 *)
THEOREM BalanceInvariance == CollateralSpec => []BInv
<1>1. CollateralInit => BInv
  BY BalanceInitInv
<1>2. BInv /\ [CollateralNext]_collateralVars => BInv'
  BY BalanceNextInv
<1> QED
  BY <1>1, <1>2, PTL DEF CollateralSpec

(* A balance is used for one lifetime of the cache and one read at most,   *)
(* so one from before a spend for no longer than that after it             *)
(* (COLLATERAL_CACHE_SECONDS).                                             *)
THEOREM BalanceNeverOld == CollateralSpec => []BalanceRecent
<1>1. BInv => BalanceRecent
  BY DEF BInv
<1> QED
  BY <1>1, BalanceInvariance, PTL
-----------------------------------------------------------------------------
(* The promises of the redeem job for any users, markets and concurrency.  *)
(* What a turn is about to send, and what any process ever sent, is given  *)
(* up already or proven; what this one sends is not among its transactions *)
(* of unknown outcome, which are cooling unless the error that ended them  *)
(* halted the job; and the turns that can still send after a halt were     *)
(* under way when it came.                                                 *)
\* Turns that may still send, and turns whose batch is proven.
Sending == {u \in Users : job[u].pc \in {"ledger", "prove", "submit"}}
Proven(u) == job[u].pc \in {"submit", "wait"}

\* Given up already, or to be given up rightly.
Due(u, m) == holding[u][m] = "none" \/ Proves(u, m)

CoolInv ==
    \A u \in Users, m \in Markets : <<u, m>> \in unknown =>
       <<u, m>> \in cooling \/ (halted /\ job[u].pc = "idle")
ApartInv ==
    \A u \in Users : job[u].pc \in {"prove", "submit", "wait"} =>
       \A m \in job[u].batch : <<u, m>> \notin unknown
ProvenInv ==
    /\ \A u \in Users : Proven(u) => \A m \in job[u].batch : Due(u, m)
    /\ \A u \in Users, m \in Markets : <<u, m>> \in unknown \cup orphaned => Due(u, m)
HaltInv ==
    /\ ~halted => late = 0
    /\ halted => late + Cardinality(Sending) < Concurrency

JInv == RedeemTypeOK /\ CoolInv /\ ApartInv /\ ProvenInv /\ HaltInv

-----------------------------------------------------------------------------
\* Turns are finitely many; those that may still send are turns.
LEMMA TurnsFinite ==
  /\ IsFiniteSet(Active) /\ Cardinality(Active) \in Nat
  /\ IsFiniteSet(Sending) /\ Cardinality(Sending) \in Nat
  /\ Cardinality(Sending) <= Cardinality(Active)
<1>1. Active \subseteq Users /\ Sending \subseteq Active
  BY DEF Active, Sending
<1> QED
  BY <1>1, RedeemAssumption, FS_Subset, FS_CardinalityType

\* What a turn of a user is.
LEMMA JobFacts ==
  ASSUME RedeemTypeOK, NEW u \in Users
  PROVE  /\ job[u] \in [pc: {"idle", "ledger", "prove", "submit", "wait"}, batch: SUBSET Markets]
         /\ job[u].batch \subseteq Markets /\ IsFiniteSet(job[u].batch)
         /\ Cardinality(job[u].batch) <= MaxPerTx
<1>1. job[u] \in [pc: {"idle", "ledger", "prove", "submit", "wait"}, batch: SUBSET Markets]
  BY DEF RedeemTypeOK
<1>2. job[u].batch \subseteq Markets
  BY <1>1
<1> QED
  BY <1>1, <1>2, RedeemAssumption, FS_Subset DEF RedeemTypeOK

\* A turn that changes keeps the types and, unless it starts or ends, the turns.
LEMMA JobTypes ==
  ASSUME RedeemTypeOK, NEW u \in Users,
         NEW j \in [pc: {"idle", "ledger", "prove", "submit", "wait"}, batch: SUBSET Markets],
         Cardinality(j.batch) <= MaxPerTx,
         job' = [job EXCEPT ![u] = j],
         job[u].pc # "idle" \/ Cardinality(Active) < Concurrency
  PROVE  /\ job' \in [Users -> [pc: {"idle", "ledger", "prove", "submit", "wait"}, batch: SUBSET Markets]]
         /\ \A v \in Users : Cardinality(job'[v].batch) <= MaxPerTx
         /\ Cardinality(Active') <= Concurrency
         /\ job'[u] = j /\ \A v \in Users \ {u} : job'[v] = job[v]
<1>1. /\ job' \in [Users -> [pc: {"idle", "ledger", "prove", "submit", "wait"}, batch: SUBSET Markets]]
      /\ job'[u] = j /\ \A v \in Users \ {u} : job'[v] = job[v]
  BY DEF RedeemTypeOK
<1>2. \A v \in Users : Cardinality(job'[v].batch) <= MaxPerTx
  BY <1>1 DEF RedeemTypeOK
<1>3. Cardinality(Active') <= Concurrency
  <2>1. Active' \subseteq Active \cup {u} /\ IsFiniteSet(Active \cup {u})
    BY <1>1, TurnsFinite, FS_AddElement DEF Active
  <2>2. Cardinality(Active') <= Cardinality(Active \cup {u}) /\ Cardinality(Active') \in Nat
    BY <2>1, FS_Subset, FS_CardinalityType
  <2>3. CASE u \in Active
    <3>1. Active \cup {u} = Active
      BY <2>3
    <3>2. Cardinality(Active) <= Concurrency
      BY DEF RedeemTypeOK
    <3> QED
      BY <2>2, <3>1, <3>2, TurnsFinite, RedeemAssumption
  <2>4. CASE u \notin Active
    <3>1. Cardinality(Active \cup {u}) = Cardinality(Active) + 1
      BY <2>4, TurnsFinite, FS_AddElement
    <3>2. Cardinality(Active) < Concurrency
      BY <2>4 DEF Active
    <3> QED
      BY <2>2, <3>1, <3>2, TurnsFinite, RedeemAssumption
  <2> QED
    BY <2>3, <2>4
<1> QED
  BY <1>1, <1>2, <1>3

\* No batch is the end of a turn.
LEMMA NoJobFacts ==
  /\ NoJob \in [pc: {"idle", "prove", "submit", "wait"}, batch: SUBSET Markets]
  /\ Cardinality(NoJob.batch) <= MaxPerTx /\ NoJob.pc = "idle"
<1>1. Cardinality({}) = 0
  BY FS_EmptySet
<1> QED
  BY <1>1, RedeemAssumption DEF NoJob

\* Nothing has begun.
LEMMA RedeemInitInv == RedeemInit => JInv
<1> SUFFICES ASSUME RedeemInit PROVE JInv
  OBVIOUS
<1>1. Active = {} /\ \A u \in Users : job[u] = NoJob
  BY DEF RedeemInit, Active, NoJob
<1>2. RedeemTypeOK
  <2>1. Cardinality({}) = 0
    BY FS_EmptySet
  <2>2. \A u \in Users : Cardinality(job[u].batch) <= MaxPerTx
    BY <1>1, <2>1, RedeemAssumption DEF NoJob
  <2>3. Cardinality(Active) <= Concurrency
    BY <1>1, <2>1, RedeemAssumption
  <2>4. /\ resolved \subseteq Markets /\ managed \subseteq Pairs /\ cooling \subseteq Pairs
        /\ holding \in [Users -> [Markets -> {"none", "wins", "loses"}]]
        /\ sweep \in BOOLEAN \X SUBSET Users
        /\ job \in [Users -> [pc: {"idle", "ledger", "prove", "submit", "wait"}, batch: SUBSET Markets]]
        /\ halted \in BOOLEAN /\ {unknown, orphaned} \subseteq SUBSET Pairs /\ late \in Nat
    BY DEF RedeemInit, NoJob
  <2> QED
    BY <2>2, <2>3, <2>4 DEF RedeemTypeOK
<1>3. CoolInv /\ ApartInv /\ ProvenInv /\ HaltInv
  BY <1>1 DEF RedeemInit, CoolInv, ApartInv, ProvenInv, Proven, HaltInv, NoJob
<1> QED
  BY <1>2, <1>3 DEF JInv

-----------------------------------------------------------------------------
(* Steps that leave the turns alone.                                       *)

\* A market that resolves stays resolved.
LEMMA ResolveInv == ASSUME JInv, NEW m \in Markets, Resolve(m) PROVE JInv'
<1>1. RedeemTypeOK' /\ Active' = Active /\ Sending' = Sending
  BY DEF JInv, Resolve, RedeemTypeOK, Active, Sending
<1>2. CoolInv' /\ ApartInv' /\ HaltInv'
  BY <1>1 DEF JInv, Resolve, CoolInv, ApartInv, HaltInv
<1>3. ProvenInv'
  BY DEF JInv, Resolve, ProvenInv, Proven, Due, Proves
<1> QED
  BY <1>1, <1>2, <1>3 DEF JInv

\* Ledger, cool-down, start and end of a sweep touch no turn and no transaction.
LEMMA RedeemQuietInv ==
  ASSUME JInv, UNCHANGED <<resolved, holding, job, halted, unknown, orphaned, late>>,
         managed' \subseteq Pairs, cooling' \subseteq Pairs, cooling \cap unknown \subseteq cooling',
         sweep' \in BOOLEAN \X SUBSET Users
  PROVE  JInv'
<1>1. Active' = Active /\ Sending' = Sending
  BY DEF Active, Sending
<1>2. RedeemTypeOK'
  BY <1>1 DEF JInv, RedeemTypeOK
<1>3. CoolInv' /\ ApartInv' /\ ProvenInv'
  BY DEF JInv, CoolInv, ApartInv, ProvenInv, Proven, Due, Proves
<1>4. HaltInv'
  BY <1>1 DEF JInv, HaltInv
<1> QED
  BY <1>2, <1>3, <1>4 DEF JInv

\* What is due stays due while markets only resolve and holdings are only given up.
LEMMA DueStays ==
  ASSUME NEW u \in Users, NEW m \in Markets, Due(u, m), resolved \subseteq resolved',
         holding'[u][m] \in {"none", holding[u][m]}
  PROVE  Due(u, m)'
  BY DEF Due, Proves

\* A holding that is given up.
LEMMA EmptiedFacts ==
  ASSUME RedeemTypeOK, NEW u \in Users, NEW ms \in SUBSET Markets,
         holding' = Emptied(u, ms) \/ holding' = holding
  PROVE  /\ holding' \in [Users -> [Markets -> {"none", "wins", "loses"}]]
         /\ \A v \in Users, m \in Markets : holding'[v][m] \in {"none", holding[v][m]}
         /\ \A v \in Users, m \in Markets : holding'[v][m] # holding[v][m] =>
               v = u /\ m \in ms /\ holding' = Emptied(u, ms)
<1>1. CASE holding' = holding
  BY <1>1 DEF RedeemTypeOK
<1>2. CASE holding' = Emptied(u, ms)
  BY <1>2 DEF RedeemTypeOK, Emptied
<1> QED
  BY <1>1, <1>2

\* A transaction of unknown outcome is decided.
LEMMA LandsInv == ASSUME JInv, NEW x \in Pairs, Lands(x) PROVE JInv'
<1>1. /\ RedeemTypeOK /\ unknown' \subseteq unknown /\ orphaned' \subseteq orphaned
      /\ x[1] \in Users /\ {x[2]} \in SUBSET Markets
      /\ holding' = Emptied(x[1], {x[2]}) \/ holding' = holding
      /\ UNCHANGED <<resolved, managed, sweep, job, cooling, halted, late>>
  BY DEF JInv, Lands, Pairs
<1>2. Active' = Active /\ Sending' = Sending
  BY <1>1 DEF Active, Sending
<1>3. /\ holding' \in [Users -> [Markets -> {"none", "wins", "loses"}]]
      /\ \A v \in Users, m \in Markets : holding'[v][m] \in {"none", holding[v][m]}
  BY <1>1, EmptiedFacts
<1>4. RedeemTypeOK'
  BY <1>1, <1>2, <1>3 DEF RedeemTypeOK
<1>5. CoolInv' /\ ApartInv'
  BY <1>1 DEF JInv, CoolInv, ApartInv
<1>6. ProvenInv'
  <2>1. \A v \in Users, m \in Markets : Due(v, m) => Due(v, m)'
    BY <1>1, <1>3, DueStays
  <2>2. \A v \in Users : job[v].batch \subseteq Markets
    BY <1>1, JobFacts
  <2> QED
    BY <1>1, <2>1, <2>2 DEF JInv, ProvenInv, Proven
<1>7. HaltInv'
  BY <1>1, <1>2 DEF JInv, HaltInv
<1> QED
  BY <1>4, <1>5, <1>6, <1>7 DEF JInv

\* A new process has no turn, no halt and no transaction of its own; what the
\* old one had at the relayer was due, and stays so.
LEMMA RedeemRestartInv == ASSUME JInv, RedeemRestart PROVE JInv'
<1> DEFINE relayed == {x \in Pairs : job[x[1]].pc = "wait" /\ x[2] \in job[x[1]].batch}
<1>1. /\ RedeemTypeOK /\ \A u \in Users : job'[u] = NoJob
      /\ job' = [u \in Users |-> NoJob] /\ sweep' = <<FALSE, {}>>
      /\ cooling' = {} /\ halted' = FALSE /\ late' = 0 /\ unknown' = {}
      /\ orphaned' = orphaned \cup unknown \cup relayed /\ UNCHANGED <<resolved, holding, managed>>
  BY DEF JInv, RedeemRestart
<1>2. relayed \subseteq Pairs /\ Active' = {}
  BY <1>1 DEF Active, NoJob
<1>3. \A u \in Users, m \in Markets : <<u, m>> \in orphaned' => Due(u, m)
  BY <1>1 DEF JInv, ProvenInv, Proven
<1> HIDE DEF relayed
<1>4. RedeemTypeOK'
  <2>1. Cardinality(Active') <= Concurrency
    BY <1>2, FS_EmptySet, RedeemAssumption
  <2>2. \A u \in Users : Cardinality(job'[u].batch) <= MaxPerTx
    BY <1>1, NoJobFacts
  <2>3. /\ job' \in [Users -> [pc: {"idle", "ledger", "prove", "submit", "wait"}, batch: SUBSET Markets]]
        /\ sweep' \in BOOLEAN \X SUBSET Users
        /\ {unknown', orphaned'} \subseteq SUBSET Pairs
    BY <1>1, <1>2 DEF RedeemTypeOK, NoJob
  <2> QED
    BY <1>1, <2>1, <2>2, <2>3 DEF RedeemTypeOK
<1>5. CoolInv' /\ ApartInv' /\ HaltInv'
  BY <1>1 DEF CoolInv, ApartInv, HaltInv
<1>6. ProvenInv'
  BY <1>1, <1>3 DEF ProvenInv, Proven, Due, Proves, NoJob
<1> QED
  BY <1>4, <1>5, <1>6 DEF JInv

-----------------------------------------------------------------------------
(* Steps of a turn.                                                        *)

\* A turn starts, unless the job has halted.
LEMMA TurnStartInv == ASSUME JInv, NEW u \in Users, TurnStart(u) PROVE JInv'
<1>1. /\ RedeemTypeOK /\ sweep' \in BOOLEAN \X SUBSET Users
      /\ Cardinality(Active) < Concurrency
      /\ UNCHANGED <<resolved, holding, managed, cooling, halted, unknown, orphaned, late>>
  BY DEF JInv, TurnStart, RedeemTypeOK
<1>2. CASE halted
  <2>1. job' = job
    BY <1>2 DEF TurnStart, TurnAllowed
  <2> QED
    BY <1>1, <2>1, RedeemQuietInv DEF JInv, CoolInv, RedeemTypeOK
<1>3. CASE ~halted
  <2> DEFINE j == [job[u] EXCEPT !.pc = "ledger"]
  <2>1. job' = [job EXCEPT ![u] = j]
    BY <1>3 DEF TurnStart, TurnAllowed
  <2>2. /\ j \in [pc: {"idle", "ledger", "prove", "submit", "wait"}, batch: SUBSET Markets]
        /\ Cardinality(j.batch) <= MaxPerTx /\ j.pc = "ledger"
    BY <1>1, JobFacts
  <2>3. /\ job' \in [Users -> [pc: {"idle", "ledger", "prove", "submit", "wait"}, batch: SUBSET Markets]]
        /\ \A v \in Users : Cardinality(job'[v].batch) <= MaxPerTx
        /\ Cardinality(Active') <= Concurrency
        /\ job'[u] = j /\ \A v \in Users \ {u} : job'[v] = job[v]
    BY <1>1, <2>1, <2>2, JobTypes
  <2>4. RedeemTypeOK'
    BY <1>1, <2>3 DEF RedeemTypeOK
  <2>5. CoolInv' /\ ApartInv' /\ ProvenInv'
    BY <1>1, <1>3, <2>2, <2>3 DEF JInv, CoolInv, ApartInv, ProvenInv, Proven, Due, Proves
  <2>6. HaltInv'
    BY <1>1, <1>3 DEF JInv, HaltInv
  <2> QED
    BY <2>4, <2>5, <2>6 DEF JInv
<1> QED
  BY <1>1, <1>2, <1>3 DEF RedeemTypeOK

\* A turn goes on to `j` and leaves everything else alone: a smaller batch, or the end.
LEMMA NarrowedInv ==
  ASSUME JInv, NEW u \in Users,
         NEW j \in [pc: {"idle", "prove", "submit", "wait"}, batch: SUBSET Markets],
         Cardinality(j.batch) <= MaxPerTx, job' = [job EXCEPT ![u] = j],
         job[u].pc \in {"ledger", "prove", "submit"},
         j.pc # "idle" => \A m \in j.batch : <<u, m>> \notin unknown,
         j.pc \in {"submit", "wait"} => \A m \in j.batch : Due(u, m),
         late' = late \/ (j.pc \notin {"prove", "submit"} /\ halted /\ late' = late + 1),
         UNCHANGED <<resolved, holding, managed, sweep, cooling, halted, unknown, orphaned>>
  PROVE  JInv'
<1>1. RedeemTypeOK
  BY DEF JInv
<1>2. /\ job' \in [Users -> [pc: {"idle", "ledger", "prove", "submit", "wait"}, batch: SUBSET Markets]]
      /\ \A v \in Users : Cardinality(job'[v].batch) <= MaxPerTx
      /\ Cardinality(Active') <= Concurrency
      /\ job'[u] = j /\ \A v \in Users \ {u} : job'[v] = job[v]
  BY <1>1, JobTypes
<1>3. RedeemTypeOK'
  BY <1>1, <1>2 DEF RedeemTypeOK
<1>4. CoolInv' /\ ApartInv'
  BY <1>2 DEF JInv, CoolInv, ApartInv
<1>5. ProvenInv'
  BY <1>2 DEF JInv, ProvenInv, Proven, Due, Proves
<1>6. HaltInv'
  <2>1. Sending' \subseteq Sending /\ u \in Sending /\ (j.pc \notin {"prove", "submit"} => Sending' = Sending \ {u})
    BY <1>1, <1>2 DEF Sending
  <2>2. Cardinality(Sending') <= Cardinality(Sending) /\ Cardinality(Sending') \in Nat
    BY <2>1, TurnsFinite, FS_Subset, FS_CardinalityType
  <2>3. j.pc \notin {"prove", "submit"} => Cardinality(Sending') = Cardinality(Sending) - 1
    BY <2>1, TurnsFinite, FS_RemoveElement
  <2> QED
    BY <1>1, <2>2, <2>3, TurnsFinite, RedeemAssumption DEF JInv, HaltInv, RedeemTypeOK
<1> QED
  BY <1>3, <1>4, <1>5, <1>6 DEF JInv

\* The candidates are not cooling, so no transaction of theirs is unknown.
LEMMA ReadLedgerInv == ASSUME JInv, NEW u \in Users, ReadLedger(u) PROVE JInv'
<1>1. PICK batch \in SUBSET Candidates(u, Markets) :
        /\ Cardinality(batch) <= MaxPerTx
        /\ job' = [job EXCEPT ![u] = IF batch = {} THEN NoJob ELSE [pc |-> "prove", batch |-> batch]]
  BY DEF ReadLedger
<1> DEFINE j == IF batch = {} THEN NoJob ELSE [pc |-> "prove", batch |-> batch]
<1>2. batch \subseteq Markets /\ \A m \in batch : <<u, m>> \notin unknown
  BY DEF Candidates, JInv, CoolInv, ReadLedger
<1>3. /\ j \in [pc: {"idle", "prove", "submit", "wait"}, batch: SUBSET Markets]
      /\ Cardinality(j.batch) <= MaxPerTx /\ j.pc \in {"idle", "prove"}
      /\ j.pc # "idle" => j.batch = batch
  BY <1>1, <1>2, NoJobFacts
<1>4. /\ job[u].pc = "ledger" /\ late' = late
      /\ UNCHANGED <<resolved, holding, managed, sweep, cooling, halted, unknown, orphaned>>
  BY DEF ReadLedger
<1> HIDE DEF j
<1>5. job' = [job EXCEPT ![u] = j]
  BY <1>1 DEF j
<1> QED
  BY <1>2, <1>3, <1>4, <1>5, NarrowedInv

\* What is proven goes on.
LEMMA ProveInv == ASSUME JInv, NEW u \in Users, Prove(u) PROVE JInv'
<1>1. PICK proven \in SUBSET {m \in job[u].batch : Proves(u, m)} :
        job' = [job EXCEPT ![u] = IF proven = {} THEN NoJob ELSE [pc |-> "submit", batch |-> proven]]
  BY DEF Prove
<1> DEFINE j == IF proven = {} THEN NoJob ELSE [pc |-> "submit", batch |-> proven]
<1>2. /\ RedeemTypeOK /\ job[u].pc = "prove" /\ late' = late
      /\ UNCHANGED <<resolved, holding, managed, sweep, cooling, halted, unknown, orphaned>>
  BY DEF JInv, Prove
<1>3. proven \subseteq job[u].batch /\ proven \subseteq Markets /\ Cardinality(proven) <= MaxPerTx
  <2>1. proven \subseteq job[u].batch /\ IsFiniteSet(job[u].batch) /\ job[u].batch \subseteq Markets
    BY <1>2, JobFacts
  <2>2. Cardinality(proven) <= Cardinality(job[u].batch) /\ Cardinality(proven) \in Nat
        /\ Cardinality(job[u].batch) \in Nat
    BY <2>1, FS_Subset, FS_CardinalityType
  <2> QED
    BY <1>2, <2>1, <2>2, JobFacts, RedeemAssumption
<1>4. \A m \in proven : <<u, m>> \notin unknown /\ Due(u, m)
  BY <1>2, <1>3 DEF JInv, ApartInv, Due
<1>5. /\ j \in [pc: {"idle", "prove", "submit", "wait"}, batch: SUBSET Markets]
      /\ Cardinality(j.batch) <= MaxPerTx /\ j.pc \in {"idle", "submit"}
      /\ j.pc # "idle" => j.batch = proven
  BY <1>3, NoJobFacts
<1> HIDE DEF j
<1>6. job' = [job EXCEPT ![u] = j]
  BY <1>1 DEF j
<1> QED
  BY <1>2, <1>4, <1>5, <1>6, NarrowedInv

\* The batch is sent; after a halt this turn was one of those under way.
LEMMA SubmitInv == ASSUME JInv, NEW u \in Users, Submit(u) PROVE JInv'
<1> DEFINE j == [job[u] EXCEPT !.pc = "wait"]
<1>1. /\ RedeemTypeOK /\ job[u].pc = "submit" /\ late' = IF halted THEN late + 1 ELSE late
      /\ UNCHANGED <<resolved, holding, managed, sweep, cooling, halted, unknown, orphaned>>
  BY DEF JInv, Submit
<1>2. /\ j \in [pc: {"idle", "prove", "submit", "wait"}, batch: SUBSET Markets]
      /\ Cardinality(j.batch) <= MaxPerTx /\ j.pc = "wait" /\ j.batch = job[u].batch
  BY <1>1, JobFacts
<1>3. \A m \in job[u].batch : <<u, m>> \notin unknown /\ Due(u, m)
  BY <1>1 DEF JInv, ApartInv, ProvenInv, Proven
<1>4. job' = [job EXCEPT ![u] = j]
  BY DEF Submit
<1> HIDE DEF j
<1> QED
  BY <1>1, <1>2, <1>3, <1>4, NarrowedInv

\* A read fails before anything is sent.
LEMMA TurnFailsInv == ASSUME JInv, NEW u \in Users, TurnFails(u) PROVE JInv'
<1>1. /\ job[u].pc \in {"ledger", "prove", "submit"} /\ job' = [job EXCEPT ![u] = NoJob] /\ late' = late
      /\ UNCHANGED <<resolved, holding, managed, sweep, cooling, halted, unknown, orphaned>>
  BY DEF TurnFails, Ends
<1> QED
  BY <1>1, NoJobFacts, NarrowedInv

\* An answer ends the turn; the batch may cool down, become unknown or be paid.
LEMMA AnsweredInv ==
  ASSUME JInv, NEW u \in Users, job[u].pc = "wait", Ends(u),
         cooling' \subseteq Pairs, cooling \subseteq cooling',
         unknown' = unknown \/ unknown' = unknown \cup Of(u, job[u].batch),
         halted' \/ unknown' \subseteq unknown \cup cooling',
         holding' = holding \/ holding' = Emptied(u, job[u].batch),
         halted' \in BOOLEAN, halted => halted',
         UNCHANGED <<resolved, managed, sweep, orphaned, late>>
  PROVE  JInv'
<1>1. RedeemTypeOK /\ job[u].batch \subseteq Markets
  BY JobFacts DEF JInv
<1>2. /\ job' \in [Users -> [pc: {"idle", "ledger", "prove", "submit", "wait"}, batch: SUBSET Markets]]
      /\ \A v \in Users : Cardinality(job'[v].batch) <= MaxPerTx
      /\ Cardinality(Active') <= Concurrency
      /\ job'[u] = NoJob /\ \A v \in Users \ {u} : job'[v] = job[v]
  <2>1. job' = [job EXCEPT ![u] = NoJob]
    BY DEF Ends
  <2>2. NoJob \in [pc: {"idle", "ledger", "prove", "submit", "wait"}, batch: SUBSET Markets]
    BY DEF NoJob
  <2> QED
    BY <1>1, <2>1, <2>2, NoJobFacts, JobTypes
<1>3. /\ holding' \in [Users -> [Markets -> {"none", "wins", "loses"}]]
      /\ \A v \in Users, m \in Markets : holding'[v][m] \in {"none", holding[v][m]}
  BY <1>1, EmptiedFacts
<1>4. /\ unknown' \subseteq Pairs
      /\ \A v \in Users \ {u}, m \in Markets : <<v, m>> \in unknown' <=> <<v, m>> \in unknown
      /\ \A m \in Markets : <<u, m>> \in unknown' => <<u, m>> \in unknown \/ m \in job[u].batch
  BY <1>1 DEF RedeemTypeOK, Of, Pairs
<1>5. RedeemTypeOK'
  BY <1>1, <1>2, <1>3, <1>4 DEF RedeemTypeOK
<1>6. ApartInv'
  <2> SUFFICES ASSUME NEW v \in Users, job'[v].pc \in {"prove", "submit", "wait"}, NEW m \in job'[v].batch
               PROVE  <<v, m>> \notin unknown'
    BY DEF ApartInv
  <2>1. v # u /\ job'[v] = job[v] /\ job[v].batch \subseteq Markets
    BY <1>1, <1>2, JobFacts DEF NoJob
  <2> QED
    BY <1>4, <2>1 DEF JInv, ApartInv
<1>7. ProvenInv'
  <2>1. \A v \in Users, m \in Markets : Due(v, m) => Due(v, m)'
    BY <1>3, DueStays
  <2>2. ASSUME NEW v \in Users, Proven(v)', NEW m \in job'[v].batch PROVE Due(v, m)'
    <3>1. v # u /\ job'[v] = job[v] /\ job[v].batch \subseteq Markets
      BY <1>1, <1>2, <2>2, JobFacts DEF Proven, NoJob
    <3> QED
      BY <2>1, <2>2, <3>1 DEF JInv, ProvenInv, Proven
  <2>3. ASSUME NEW v \in Users, NEW m \in Markets, <<v, m>> \in unknown' \cup orphaned' PROVE Due(v, m)'
    <3>1. <<v, m>> \in unknown \cup orphaned \/ (v = u /\ m \in job[u].batch)
      BY <1>4, <2>3
    <3>2. Due(v, m)
      BY <3>1 DEF JInv, ProvenInv, Proven
    <3> QED
      BY <2>1, <3>2
  <2> QED
    BY <2>2, <2>3 DEF ProvenInv
<1>8. CoolInv'
  <2> SUFFICES ASSUME NEW v \in Users, NEW m \in Markets, <<v, m>> \in unknown'
               PROVE  <<v, m>> \in cooling' \/ (halted' /\ job'[v].pc = "idle")
    BY DEF CoolInv
  <2>1. CASE <<v, m>> \in unknown
    <3>1. <<v, m>> \in cooling \/ (halted /\ job[v].pc = "idle")
      BY <2>1 DEF JInv, CoolInv
    <3> QED
      BY <1>2, <3>1
  <2>2. CASE <<v, m>> \notin unknown
    <3>1. v = u /\ job'[u].pc = "idle"
      BY <1>2, <1>4, <2>2 DEF NoJob
    <3> QED
      BY <2>2, <3>1
  <2> QED
    BY <2>1, <2>2
<1>9. HaltInv'
  <2>1. Sending' = Sending /\ u \notin Sending
    BY <1>2 DEF Sending, NoJob
  <2>2. Sending \subseteq Active \ {u} /\ u \in Active
    BY <2>1 DEF Sending, Active
  <2>3. Cardinality(Active \ {u}) = Cardinality(Active) - 1 /\ IsFiniteSet(Active \ {u})
    BY <2>2, TurnsFinite, FS_RemoveElement
  <2>4. Cardinality(Sending) <= Cardinality(Active) - 1
    BY <2>2, <2>3, FS_Subset
  <2>5. Cardinality(Sending) < Concurrency
    BY <1>1, <2>4, TurnsFinite, RedeemAssumption DEF RedeemTypeOK
  <2> QED
    BY <1>1, <2>1, <2>5, TurnsFinite, RedeemAssumption DEF JInv, HaltInv, RedeemTypeOK
<1> QED
  BY <1>5, <1>6, <1>7, <1>8, <1>9 DEF JInv

\* The three answers.
LEMMA AnswersInv ==
  ASSUME JInv, NEW u \in Users, Refused(u) \/ NotConfirmed(u) \/ Confirmed(u)
  PROVE  JInv'
<1>1. RedeemTypeOK /\ cooling \subseteq Pairs /\ halted \in BOOLEAN
      /\ Of(u, job[u].batch) \subseteq Pairs
  BY JobFacts DEF JInv, RedeemTypeOK, Of, Pairs
<1>2. MayLive(u) => unknown' = unknown \/ unknown' = unknown \cup Of(u, job[u].batch)
  BY DEF MayLive, Of
<1>3. CASE Refused(u)
  BY <1>1, <1>2, <1>3, AnsweredInv DEF Refused
<1>4. CASE NotConfirmed(u)
  BY <1>1, <1>2, <1>4, AnsweredInv DEF NotConfirmed
<1>5. CASE Confirmed(u)
  <2>1. PICK behind \in SUBSET job[u].batch : cooling' = cooling \cup Of(u, behind)
    BY <1>5 DEF Confirmed
  <2>2. Of(u, behind) \subseteq Pairs
    BY <1>1 DEF Of, Pairs
  <2> QED
    BY <1>1, <1>5, <2>1, <2>2, AnsweredInv DEF Confirmed
<1> QED
  BY <1>3, <1>4, <1>5

\* Every step keeps the invariant.
LEMMA RedeemNextInv == JInv /\ [RedeemNext]_redeemVars => JInv'
<1> SUFFICES ASSUME JInv, [RedeemNext]_redeemVars PROVE JInv'
  OBVIOUS
<1>0. RedeemTypeOK /\ managed \subseteq Pairs /\ cooling \subseteq Pairs
      /\ sweep \in BOOLEAN \X SUBSET Users
  BY DEF JInv, RedeemTypeOK
<1>1. ASSUME NEW m \in Markets, Resolve(m) PROVE JInv'
  BY <1>1, ResolveInv
<1>2. ASSUME NEW x \in Pairs, Ledger(x) PROVE JInv'
  BY <1>0, <1>2, RedeemQuietInv DEF Ledger
<1>3. ASSUME NEW x \in Pairs, Warm(x) PROVE JInv'
  BY <1>0, <1>3, RedeemQuietInv DEF Warm
<1>4. CASE SweepStart
  BY <1>0, <1>4, RedeemQuietInv DEF SweepStart
<1>5. CASE SweepEnds
  BY <1>0, <1>5, RedeemQuietInv DEF SweepEnds
<1>6. ASSUME NEW x \in Pairs, Lands(x) PROVE JInv'
  BY <1>6, LandsInv
<1>7. ASSUME NEW u \in Users, Turn(u) PROVE JInv'
  BY <1>7, TurnStartInv, ReadLedgerInv, ProveInv, SubmitInv, AnswersInv, TurnFailsInv DEF Turn
<1>8. CASE UNCHANGED redeemVars
  BY <1>0, <1>8, RedeemQuietInv DEF redeemVars
<1>9. CASE RedeemRestart
  BY <1>9, RedeemRestartInv
<1> QED
  BY <1>1, <1>2, <1>3, <1>4, <1>5, <1>6, <1>7, <1>8, <1>9 DEF RedeemNext

-----------------------------------------------------------------------------
(* Turns, transactions, cool-downs and the halt agree in every reachable   *)
(* state (Redeemer.run_pass).                                              *)
THEOREM RedeemInvariance == RedeemSpec => []JInv
<1> QED
  BY RedeemInitInv, RedeemNextInv, PTL DEF RedeemSpec

(* However many users are served at once, fewer than that many transactions *)
(* are sent by a process after its halt (Redeemer._halt).                  *)
THEOREM RedeemHalts == RedeemSpec => []HaltHolds
<1>1. JInv => HaltHolds
  BY TurnsFinite, RedeemAssumption DEF JInv, HaltInv, HaltHolds, RedeemTypeOK
<1> QED
  BY <1>1, RedeemInvariance, PTL

(* No process submits a market again while an earlier transaction of its   *)
(* own for it may still execute (Redeemer._cool, Redeemer._halt).          *)
THEOREM RedeemOnce == RedeemSpec => []NoSecondTransaction
<1>1. JInv => NoSecondTransaction
  BY DEF JInv, ApartInv, NoSecondTransaction, Of
<1> QED
  BY <1>1, RedeemInvariance, PTL

(* Only what the chain proves is given up, also by what a process that is  *)
(* gone left at the relayer (Redeemer._prove).                             *)
THEOREM RedeemProven == RedeemSpec => OnlyProvenRedeemed
<1> DEFINE A == \A x \in Pairs : holding'[x[1]][x[2]] # holding[x[1]][x[2]] =>
                   x[2] \in resolved /\ (RedeemLosses \/ holding[x[1]][x[2]] = "wins")
<1>1. ASSUME JInv, [RedeemNext]_redeemVars PROVE [A]_redeemVars
  <2>1. ASSUME NEW u \in Users, NEW ms \in SUBSET Markets,
               holding' = Emptied(u, ms) \/ holding' = holding, \A m \in ms : Due(u, m)
        PROVE  A
    <3> SUFFICES ASSUME NEW v \in Users, NEW m \in Markets, holding'[v][m] # holding[v][m]
                 PROVE  m \in resolved /\ (RedeemLosses \/ holding[v][m] = "wins")
      BY DEF Pairs
    <3>1. /\ v = u /\ m \in ms /\ holding'[v][m] \in {"none", holding[v][m]}
      BY <1>1, <2>1, EmptiedFacts DEF JInv
    <3> QED
      BY <2>1, <3>1 DEF Due, Proves
  <2>2. ASSUME NEW x \in Pairs, Lands(x) PROVE A
    <3>1. holding' = Emptied(x[1], {x[2]}) \/ holding' = holding
      BY <2>2 DEF Lands
    <3>2. x[1] \in Users /\ {x[2]} \subseteq Markets /\ x = <<x[1], x[2]>>
      BY DEF Pairs
    <3>3. x \in unknown \cup orphaned
      BY <2>2 DEF Lands
    <3>4. \A m \in {x[2]} : Due(x[1], m)
      BY <1>1, <3>2, <3>3 DEF JInv, ProvenInv
    <3> QED
      BY <2>1, <3>1, <3>2, <3>4
  <2>3. ASSUME NEW u \in Users, Confirmed(u) PROVE A
    <3>1. holding' = Emptied(u, job[u].batch) /\ job[u].pc = "wait"
      BY <2>3 DEF Confirmed
    <3>2. job[u].batch \subseteq Markets /\ \A m \in job[u].batch : Due(u, m)
      <4>1. RedeemTypeOK
        BY <1>1 DEF JInv
      <4> QED
        BY <1>1, <3>1, <4>1, JobFacts DEF JInv, ProvenInv, Proven
    <3> QED
      BY <2>1, <3>1, <3>2
  <2>4. CASE holding' = holding
    BY <2>4
  <2>5. ASSUME NEW u \in Users, Turn(u) PROVE A
    <3>1. CASE TurnStart(u) \/ ReadLedger(u) \/ Prove(u) \/ Submit(u)
      BY <2>4, <3>1 DEF TurnStart, ReadLedger, Prove, Submit
    <3>2. CASE Refused(u) \/ NotConfirmed(u) \/ TurnFails(u)
      BY <2>4, <3>2 DEF Refused, NotConfirmed, TurnFails
    <3> QED
      BY <2>3, <2>5, <3>1, <3>2 DEF Turn
  <2>6. ASSUME NEW m \in Markets, Resolve(m) PROVE A
    BY <2>4, <2>6 DEF Resolve
  <2>7. ASSUME NEW x \in Pairs, Ledger(x) \/ Warm(x) PROVE A
    BY <2>4, <2>7 DEF Ledger, Warm
  <2>8. CASE SweepStart \/ SweepEnds \/ RedeemRestart \/ UNCHANGED redeemVars
    BY <2>4, <2>8 DEF SweepStart, SweepEnds, RedeemRestart, redeemVars
  <2> HIDE DEF A
  <2> QED
    BY <1>1, <2>2, <2>5, <2>6, <2>7, <2>8 DEF RedeemNext
<1>2. JInv /\ [RedeemNext]_redeemVars => [A]_redeemVars
  BY <1>1
<1> QED
  BY <1>2, RedeemInvariance, PTL DEF RedeemSpec, OnlyProvenRedeemed

-----------------------------------------------------------------------------
(* The promises of the deposit watch for any wallets, processes, chunk and *)
(* catch-up sizes.  A pass has read the wallets of every deposit up to its *)
(* head, and below its start nothing is missing; both stay true while the  *)
(* chain grows, wallets join and other passes write.                       *)
Runs == [pc: PassPcs, head: 0..MaxBlocks, start: 0..MaxBlocks + 1,
         wallets: SUBSET Wallets, found: Seq(Deposits)]

\* Every deposit due below block b is recorded, except in blocks left unread.
Covered(b) ==
    \A d \in due : (origin < d.block /\ d.block < b /\ d.block \notin skipped) => d \in recorded

StartInv ==
    /\ cursor = NotStarted <=> origin = NotStarted
    /\ cursor # NotStarted => cursor <= Len(chain) /\ Covered(cursor + 1)
    /\ \A p \in Passes : run[p].pc \in {"wallets", "scan", "record"} => cursor # NotStarted
DueInv ==
    \A d \in due : d.block <= Len(chain) /\ d.wallet \in chain[d.block] \cap joined
PassOk(p) ==
    /\ run[p].head <= Len(chain) /\ run[p].start <= Len(chain) + 1
    /\ run[p].pc \in {"wallets", "scan", "record"} => Covered(run[p].start) /\ run[p].start >= 1
    /\ run[p].pc \in {"scan", "record"} =>
         \A d \in due : d.block <= run[p].head => d.wallet \in run[p].wallets
    /\ run[p].pc = "record" =>
         /\ run[p].start <= run[p].head
         /\ \A d \in due : run[p].start <= d.block /\ d.block <= End(p) =>
              d \in recorded \cup ToSet(run[p].found)
PassInv == \A p \in Passes : PassOk(p)
AlertInv ==
    /\ \A i \in DOMAIN sent : sent[i] \in recorded
    /\ \A i \in DOMAIN queue : queue[i] \in recorded
    /\ \A i, j \in DOMAIN sent : sent[i] = sent[j] => i = j
    /\ \A i, j \in DOMAIN queue : queue[i] = queue[j] => i = j
    /\ \A i \in DOMAIN sent, j \in DOMAIN queue : sent[i] # queue[j]

DInv == DepositsTypeOK /\ StartInv /\ DueInv /\ PassInv /\ AlertInv

-----------------------------------------------------------------------------
\* The constants and what the types say of one pass.
LEMMA DepositFacts ==
  ASSUME DepositsTypeOK
  PROVE  /\ QueueMax \in Nat /\ MaxBlocks \in Nat /\ Chunk \in Nat \ {0} /\ Catchup \in Nat \ {0}
         /\ NotStarted \notin Nat /\ Len(chain) \in 0..MaxBlocks
         /\ cursor # NotStarted => cursor \in 0..MaxBlocks
         /\ origin # NotStarted => origin \in 0..MaxBlocks
         /\ \A d \in due : d \in Deposits /\ d.block \in Blocks /\ d.wallet \in Wallets
<1> QED
  BY DepositsAssumption DEF DepositsTypeOK, Deposits

\* The parts of a pass.
LEMMA RunFacts ==
  ASSUME DepositsTypeOK, NEW p \in Passes
  PROVE  /\ run[p] \in Runs /\ run[p].pc \in PassPcs /\ run[p].head \in 0..MaxBlocks
         /\ run[p].start \in 0..MaxBlocks + 1 /\ run[p].wallets \subseteq Wallets
         /\ run[p].found \in Seq(Deposits)
<1> QED
  BY DEF DepositsTypeOK, Runs

\* The end of a chunk is the nearer of its last block and the head.
LEMMA EndFacts ==
  ASSUME DepositsTypeOK, NEW p \in Passes
  PROVE  /\ End(p) \in Int /\ End(p) <= run[p].head
         /\ run[p].start <= run[p].head => run[p].start <= End(p)
<1> DEFINE a == run[p].head
           b == run[p].start + Chunk - 1
<1>1. a \in Int /\ b \in Int /\ run[p].start \in Int /\ Chunk \in Nat \ {0}
  BY RunFacts, DepositFacts
<1>2. End(p) = Min({a, b})
  BY DEF End
<1>3. \E x \in {a, b} : \A y \in {a, b} : x <= y
  <2>1. CASE a <= b
    BY <1>1, <2>1
  <2>2. CASE b <= a
    BY <1>1, <2>2
  <2> QED
    BY <1>1, <2>1, <2>2
<1>4. Min({a, b}) \in {a, b} /\ \A y \in {a, b} : Min({a, b}) <= y
  BY <1>3 DEF Min
<1> QED
  BY <1>1, <1>2, <1>4

\* A listing of a finite set holds all of it.
LEMMA ListingHoldsAll ==
  ASSUME NEW S, IsFiniteSet(S), NEW order \in SetToSeqs(S)
  PROVE  order \in Seq(S) /\ ToSet(order) = S
<1> DEFINE D == 1..Cardinality(S)
<1>1. /\ order \in [D -> S] /\ Cardinality(S) \in Nat
      /\ \A i, j \in D : i # j => order[i] # order[j]
  BY FS_CardinalityType DEF SetToSeqs
<1>2. IsFiniteSet(D) /\ Cardinality(D) = Cardinality(S)
  BY <1>1, FS_Interval
<1>3. ASSUME NEW x \in S, \A i \in D : order[i] # x PROVE FALSE
  <2>1. IsFiniteSet(S \ {x}) /\ Cardinality(S \ {x}) = Cardinality(S) - 1
    BY <1>3, FS_RemoveElement
  <2>2. order \in [D -> S \ {x}]
    BY <1>1, <1>3
  <2> HIDE DEF D
  <2> QED
    BY <1>1, <1>2, <2>1, <2>2, FS_PigeonHole
<1> QED
  BY <1>1, <1>3 DEF ToSet

\* What a chunk holds can be listed.
LEMMA DepositsFinite == IsFiniteSet(Deposits)
<1>1. IsFiniteSet(Blocks) /\ IsFiniteSet(Wallets)
  BY DepositsAssumption, FS_Interval DEF Blocks
<1>2. IsFiniteSet(Blocks \X Wallets)
  BY <1>1, FS_Product
<1> DEFINE pay == [x \in Blocks \X Wallets |-> [block |-> x[1], wallet |-> x[2]]]
<1>3. pay \in [Blocks \X Wallets -> Deposits]
  BY DEF Deposits
<1>4. ASSUME NEW d \in Deposits PROVE \E x \in Blocks \X Wallets : pay[x] = d
  <2>1. <<d.block, d.wallet>> \in Blocks \X Wallets /\ d = [block |-> d.block, wallet |-> d.wallet]
    BY DEF Deposits
  <2>2. pay[<<d.block, d.wallet>>] = d
    BY <2>1
  <2> QED
    BY <2>1, <2>2
<1> HIDE DEF pay
<1>5. pay \in Surjection(Blocks \X Wallets, Deposits)
  BY <1>3, <1>4 DEF Surjection
<1> QED
  BY <1>2, <1>5, FS_Surjection

-----------------------------------------------------------------------------
(* What stays true of the rest while one part moves.                       *)

\* The chain, the rows and the skipped blocks only grow; what is due is new.
Grows ==
    /\ Len(chain)' \in Nat /\ Len(chain) <= Len(chain)'
    /\ cursor = NotStarted \/ origin' = origin
    /\ recorded \subseteq recorded' /\ skipped \subseteq skipped'
    /\ \A d \in due' : d \in due \/ d.block = Len(chain) + 1

\* What is covered stays covered.
LEMMA CoveredStays ==
  ASSUME DInv, Grows, cursor # NotStarted, NEW b \in Int, b <= Len(chain) + 1, Covered(b)
  PROVE  Covered(b)'
<1>1. Len(chain) \in Nat
  BY DepositFacts DEF DInv
<1> SUFFICES ASSUME NEW d \in due', origin' < d.block, d.block < b, d.block \notin skipped'
             PROVE  d \in recorded'
  BY DEF Covered
<1>2. d \in due
  BY <1>1 DEF Grows
<1> QED
  BY <1>2 DEF Grows, Covered

\* A pass that does not move is not disturbed.
LEMMA PassStays ==
  ASSUME DInv, Grows, NEW p \in Passes, run'[p] = run[p]
  PROVE  PassOk(p)'
<1>1. PassOk(p) /\ DepositsTypeOK
  BY DEF DInv, PassInv
<1>2. /\ Len(chain) \in Nat /\ run[p].head \in Int /\ run[p].start \in Int /\ End(p) \in Int
      /\ End(p) <= run[p].head
      /\ End(p)' = End(p)
  BY <1>1, DepositFacts, RunFacts, EndFacts DEF End
<1>3. run'[p].head <= Len(chain)' /\ run'[p].start <= Len(chain)' + 1
  BY <1>1, <1>2 DEF PassOk, Grows
<1>4. run'[p].pc \in {"wallets", "scan", "record"} => Covered(run[p].start)' /\ run'[p].start >= 1
  BY <1>1, <1>2, CoveredStays DEF PassOk, DInv, StartInv
<1>5. ASSUME run'[p].pc \in {"scan", "record"}, NEW d \in due', d.block <= run'[p].head
      PROVE  d \in due /\ d.wallet \in run'[p].wallets
  BY <1>1, <1>2, <1>5 DEF PassOk, Grows
<1>6. ASSUME run'[p].pc = "record"
      PROVE  /\ run'[p].start <= run'[p].head
             /\ \A d \in due' : run'[p].start <= d.block /\ d.block <= End(p)' =>
                  d \in recorded' \cup ToSet(run'[p].found)
  <2>1. run[p].start <= run[p].head
    BY <1>1, <1>6 DEF PassOk
  <2>2. ASSUME NEW d \in due', run[p].start <= d.block, d.block <= End(p)
        PROVE  d \in recorded' \cup ToSet(run[p].found)
    <3>1. d \in due
      BY <1>1, <1>2, <2>2 DEF PassOk, Grows
    <3> QED
      BY <1>1, <1>6, <2>2, <3>1 DEF PassOk, Grows
  <2> QED
    BY <1>2, <2>1, <2>2
<1> QED
  BY <1>3, <1>4, <1>5, <1>6 DEF PassOk, Covered

\* No pass at all: nothing is claimed.
LEMMA NoPassOk ==
  ASSUME DepositsTypeOK', NEW p \in Passes, run'[p] = NoPass
  PROVE  PassOk(p)'
<1>1. Len(chain)' \in Nat
  BY DEF DepositsTypeOK
<1> QED
  BY <1>1 DEF PassOk, NoPass

\* No pass is a pass.
LEMMA NoPassRun == NoPass \in Runs /\ NoPass.pc = "idle"
<1>1. 0 \in 0..MaxBlocks /\ 0 \in 0..MaxBlocks + 1
  BY DepositsAssumption
<1>2. <<>> \in Seq(Deposits)
  OBVIOUS
<1> QED
  BY <1>1, <1>2 DEF NoPass, Runs, PassPcs

\* A step that only moves a pass.
LEMMA MovedInv ==
  ASSUME DInv, NEW p \in Passes, NEW r \in Runs, run' = [run EXCEPT ![p] = r],
         r.pc \in {"wallets", "scan", "record"} => cursor # NotStarted,
         run'[p] = r => PassOk(p)',
         UNCHANGED <<chain, joined, cursor, recorded, queue, sent, due, origin, skipped>>
  PROVE  DInv'
<1>1. DepositsTypeOK /\ run' \in [Passes -> Runs] /\ run'[p] = r /\ \A q \in Passes \ {p} : run'[q] = run[q]
  BY DEF DInv, DepositsTypeOK, Runs
<1>2. DepositsTypeOK'
  BY <1>1 DEF DepositsTypeOK, Runs
<1>3. Grows
  BY <1>1, DepositFacts DEF Grows
<1>4. StartInv'
  BY <1>1 DEF DInv, StartInv, Covered
<1>5. DueInv'
  BY DEF DInv, DueInv
<1>6. PassInv'
  BY <1>1, <1>3, PassStays DEF PassInv
<1>7. AlertInv'
  BY DEF DInv, AlertInv
<1> QED
  BY <1>2, <1>4, <1>5, <1>6, <1>7 DEF DInv

-----------------------------------------------------------------------------
(* Initial states and the steps of a pass.                                 *)

\* Nothing is due.
LEMMA DepositsInitInv == DepositsInit => DInv
<1> SUFFICES ASSUME DepositsInit PROVE DInv
  OBVIOUS
<1>1. DepositsTypeOK
  <2>1. chain = <<>> /\ chain \in Seq(SUBSET Wallets) /\ Len(chain) = 0 /\ 0 <= MaxBlocks
    BY DepositsAssumption DEF DepositsInit
  <2>2. run \in [Passes -> Runs]
    BY NoPassRun DEF DepositsInit
  <2>3. queue = <<>> /\ queue \in Seq(Deposits) /\ Len(queue) = 0 /\ 0 <= QueueMax /\ sent \in Seq(Deposits)
    BY DepositsAssumption DEF DepositsInit
  <2> QED
    BY <2>1, <2>2, <2>3 DEF DepositsInit, DepositsTypeOK, Runs
<1>2. StartInv /\ DueInv /\ AlertInv
  BY DEF DepositsInit, StartInv, DueInv, AlertInv, NoPass
<1>3. PassInv
  BY <1>1, DepositsAssumption DEF DepositsInit, PassInv, PassOk, NoPass, DepositsTypeOK
<1> QED
  BY <1>1, <1>2, <1>3 DEF DInv

\* A pass that ends claims nothing.
LEMMA StopInv ==
  ASSUME DInv, NEW p \in Passes, Stops(p),
         UNCHANGED <<chain, joined, cursor, recorded, queue, sent, due, origin, skipped>>
  PROVE  DInv'
<1>1. run'[p] = NoPass => PassOk(p)'
  <2>1. Len(chain)' \in Nat
    BY DEF DInv, DepositsTypeOK
  <2> QED
    BY <2>1 DEF PassOk, NoPass
<1> QED
  BY <1>1, NoPassRun, MovedInv DEF Stops

\* The head is read first.
LEMMA PassHeadInv == ASSUME DInv, NEW p \in Passes, PassHead(p) PROVE DInv'
<1> DEFINE r == [NoPass EXCEPT !.pc = "cursor", !.head = Len(chain)]
<1>1. Len(chain) \in 0..MaxBlocks /\ Len(chain) \in Nat /\ Len(chain)' = Len(chain)
  BY DepositFacts DEF DInv, PassHead
<1>2. r \in Runs /\ r.pc = "cursor" /\ r.head = Len(chain) /\ r.start = 0
  BY <1>1, NoPassRun DEF Runs, PassPcs, NoPass
<1>3. run' = [run EXCEPT ![p] = r]
  BY DEF PassHead
<1> HIDE DEF r
<1>4. run'[p] = r => PassOk(p)'
  BY <1>1, <1>2 DEF PassOk
<1> QED
  BY <1>2, <1>3, <1>4, MovedInv DEF PassHead

\* The wallets are read after the head: they cover all that is due up to it.
LEMMA PassWalletsInv == ASSUME DInv, NEW p \in Passes, PassWallets(p) PROVE DInv'
<1> DEFINE r == [run[p] EXCEPT !.pc = "scan", !.wallets = joined]
<1>1. run[p] \in Runs /\ joined \subseteq Wallets /\ run[p].pc = "wallets" /\ PassOk(p) /\ cursor # NotStarted
  BY RunFacts DEF DInv, DepositsTypeOK, PassWallets, PassInv, StartInv
<1>2. r \in Runs /\ r.pc = "scan" /\ r.head = run[p].head /\ r.start = run[p].start /\ r.wallets = joined
  BY <1>1 DEF Runs, PassPcs
<1>3. run' = [run EXCEPT ![p] = r]
  BY DEF PassWallets
<1> HIDE DEF r
<1>4. run'[p] = r => PassOk(p)'
  <2>1. \A d \in due : d.wallet \in joined
    BY DEF DInv, DueInv
  <2> QED
    BY <1>1, <1>2, <2>1 DEF PassOk, Covered, PassWallets
<1> QED
  BY <1>1, <1>2, <1>3, <1>4, MovedInv DEF PassWallets

\* What a chunk holds for these wallets is found, whatever the order.
LEMMA PassScanInv == ASSUME DInv, NEW p \in Passes, PassScan(p) PROVE DInv'
<1> DEFINE found == {d \in Deposits : /\ run[p].start <= d.block /\ d.block <= End(p)
                                      /\ d.wallet \in chain[d.block] \cap run[p].wallets}
<1>1. PICK order \in SetToSeqs(found) : run' = [run EXCEPT ![p].pc = "record", ![p].found = order]
  BY DEF PassScan
<1>2. order \in Seq(Deposits) /\ ToSet(order) = found
  <2>1. found \subseteq Deposits
    OBVIOUS
  <2>2. IsFiniteSet(found)
    BY <2>1, DepositsFinite, FS_Subset
  <2> HIDE DEF found
  <2>3. order \in Seq(found) /\ ToSet(order) = found
    BY <2>2, ListingHoldsAll
  <2> QED
    BY <2>1, <2>3
<1>3. run[p] \in Runs /\ run[p].pc = "scan" /\ run[p].start <= run[p].head /\ PassOk(p) /\ cursor # NotStarted
  BY RunFacts DEF DInv, PassScan, PassInv, StartInv
<1> DEFINE r == [run[p] EXCEPT !.pc = "record", !.found = order]
<1>4. /\ r \in Runs /\ r.pc = "record" /\ r.head = run[p].head /\ r.start = run[p].start
      /\ r.wallets = run[p].wallets /\ r.found = order
  BY <1>2, <1>3 DEF Runs, PassPcs
<1>5. run' = [run EXCEPT ![p] = r]
  BY <1>1, <1>3 DEF DInv, DepositsTypeOK
<1>6. ASSUME NEW d \in due, run[p].start <= d.block, d.block <= End(p) PROVE d \in found
  <2>1. d \in Deposits /\ d.block \in Int /\ d.wallet \in chain[d.block]
    BY DepositFacts DEF DInv, DueInv, Blocks
  <2>2. run[p].head \in Int /\ End(p) \in Int /\ End(p) <= run[p].head
    BY RunFacts, EndFacts DEF DInv
  <2>3. d.wallet \in run[p].wallets
    BY <1>3, <1>6, <2>1, <2>2 DEF PassOk
  <2> QED
    BY <1>6, <2>1, <2>3
<1> HIDE DEF r, found
<1>7. run'[p] = r => PassOk(p)'
  <2> SUFFICES ASSUME run'[p] = r PROVE PassOk(p)'
    OBVIOUS
  <2>1. End(p)' = End(p)
    BY <1>4 DEF End
  <2> QED
    BY <1>2, <1>3, <1>4, <1>6, <2>1 DEF PassOk, Covered, PassScan
<1> QED
  BY <1>3, <1>4, <1>5, <1>7, MovedInv DEF PassScan

\* The first pass ever sets the cursor; no other pass is past its own cursor read.
LEMMA PassFirstInv == ASSUME DInv, NEW p \in Passes, PassFirst(p) PROVE DInv'
<1>1. /\ DepositsTypeOK /\ cursor = NotStarted /\ cursor' = run[p].head /\ origin' = cursor'
      /\ run' = [run EXCEPT ![p] = NoPass]
      /\ UNCHANGED <<chain, joined, recorded, queue, sent, due, skipped>>
  BY DEF DInv, PassFirst, Stops
<1>2. /\ run[p].head \in 0..MaxBlocks /\ run[p].head <= Len(chain) /\ NotStarted \notin Nat
      /\ run' \in [Passes -> Runs] /\ run'[p] = NoPass /\ \A q \in Passes \ {p} : run'[q] = run[q]
      /\ Len(chain) \in Nat /\ MaxBlocks \in Nat
  BY <1>1, NoPassRun, RunFacts, DepositFacts DEF DInv, DepositsTypeOK, Runs, PassInv, PassOk
<1>3. DepositsTypeOK'
  BY <1>1, <1>2 DEF DepositsTypeOK, Runs
<1>4. StartInv'
  <2>1. cursor' \in Nat /\ cursor' # NotStarted
    BY <1>1, <1>2
  <2>2. Covered(cursor + 1)'
    BY <1>1, <1>2, <2>1, DepositFacts DEF Covered, Blocks
  <2>3. \A q \in Passes : run'[q].pc \in {"wallets", "scan", "record"} => cursor' # NotStarted
    BY <2>1
  <2> QED
    BY <1>1, <1>2, <2>1, <2>2, <2>3 DEF StartInv
<1>5. DueInv' /\ AlertInv'
  BY <1>1 DEF DInv, DueInv, AlertInv
<1>6. PassInv'
  <2>1. Grows
    BY <1>1, <1>2 DEF Grows
  <2> QED
    BY <1>2, <1>3, <2>1, PassStays, NoPassOk DEF PassInv
<1> QED
  BY <1>3, <1>4, <1>5, <1>6 DEF DInv

\* What is too far behind is left unread and remembered as such.
LEMMA PassCursorInv == ASSUME DInv, NEW p \in Passes, PassCursor(p) PROVE DInv'
<1>1. PICK start : /\ start = IF run[p].head - cursor > Catchup THEN run[p].head - Catchup + 1 ELSE cursor + 1
                   /\ skipped' = skipped \cup cursor + 1..start - 1
                   /\ cursor' = Forward(cursor, start - 1) /\ run[p].pc = "cursor"
                   /\ run' = [run EXCEPT ![p].pc = "wallets", ![p].start = start]
                   /\ DepositsTypeOK /\ cursor # NotStarted
                   /\ UNCHANGED <<chain, joined, recorded, queue, sent, due, origin>>
  BY DEF DInv, PassCursor
<1>2. /\ run[p].head \in 0..MaxBlocks /\ run[p].head <= Len(chain) /\ Len(chain) \in 0..MaxBlocks
      /\ MaxBlocks \in Nat
      /\ cursor \in 0..MaxBlocks /\ cursor <= Len(chain) /\ Covered(cursor + 1) /\ Catchup \in Nat \ {0}
      /\ run[p] \in Runs /\ NotStarted \notin Nat
  BY <1>1, DepositFacts, RunFacts DEF DInv, PassInv, PassOk, StartInv
<1>3. start \in Int /\ start >= 1 /\ start <= Len(chain) + 1 /\ cursor + 1 <= start
  <2>1. CASE run[p].head - cursor > Catchup
    BY <1>1, <1>2, <2>1
  <2>2. CASE ~(run[p].head - cursor > Catchup)
    BY <1>1, <1>2, <2>2
  <2> QED
    BY <2>1, <2>2
<1> DEFINE r == [run[p] EXCEPT !.pc = "wallets", !.start = start]
<1>4. /\ r \in Runs /\ r.pc = "wallets" /\ r.head = run[p].head /\ r.start = start
      /\ run' = [run EXCEPT ![p] = r]
  <2>1. start \in 0..MaxBlocks + 1
    BY <1>2, <1>3
  <2>2. r \in Runs /\ r.pc = "wallets" /\ r.head = run[p].head /\ r.start = start
    BY <1>2, <2>1 DEF Runs, PassPcs
  <2>3. run' = [run EXCEPT ![p] = r]
    BY <1>1 DEF DepositsTypeOK
  <2> QED
    BY <2>2, <2>3
<1> HIDE DEF r
<1>5. run' \in [Passes -> Runs] /\ run'[p] = r /\ \A q \in Passes \ {p} : run'[q] = run[q]
  BY <1>1, <1>4 DEF DepositsTypeOK, Runs
<1>6. cursor' \in 0..MaxBlocks /\ cursor <= cursor' /\ cursor' <= Len(chain) /\ (cursor' = cursor \/ cursor' = start - 1)
  <2>1. cursor' = Forward(cursor, start - 1)
    BY <1>1
  <2>2. CASE cursor < start - 1
    BY <1>2, <1>3, <2>1, <2>2 DEF Forward
  <2>3. CASE ~(cursor < start - 1)
    BY <1>2, <1>3, <2>1, <2>3 DEF Forward
  <2> QED
    BY <2>2, <2>3
<1>7. skipped' \subseteq Blocks
  <2>1. skipped \subseteq Blocks /\ skipped' = skipped \cup cursor + 1..start - 1
    BY <1>1 DEF DepositsTypeOK
  <2>2. \A b \in cursor + 1..start - 1 : b \in Blocks
    BY <1>2, <1>3 DEF Blocks
  <2> QED
    BY <2>1, <2>2
<1>8. DepositsTypeOK'
  BY <1>1, <1>5, <1>6, <1>7 DEF DepositsTypeOK, Runs
<1>9. \A b \in Int : b <= start => Covered(b)'
  <2> SUFFICES ASSUME NEW b \in Int, b <= start, NEW d \in due, origin < d.block, d.block < b,
                      d.block \notin skipped'
               PROVE  d \in recorded
    BY <1>1 DEF Covered
  <2>1. d.block \in Int /\ d.block \notin skipped /\ d.block \notin cursor + 1..start - 1
    BY <1>1, DepositFacts DEF Blocks
  <2>2. d.block < cursor + 1
    BY <1>2, <1>3, <2>1
  <2> QED
    BY <1>2, <2>1, <2>2 DEF Covered
<1>10. Grows
  BY <1>1, <1>2 DEF Grows
<1>11. PassOk(p)'
  <2>1. Len(chain)' = Len(chain)
    BY <1>1
  <2>2. Covered(run[p].start)'
    BY <1>3, <1>4, <1>5, <1>9 DEF Covered
  <2> QED
    BY <1>2, <1>3, <1>4, <1>5, <2>1, <2>2 DEF PassOk
<1>12. PassInv'
  BY <1>5, <1>10, <1>11, PassStays DEF PassInv
<1>13. StartInv'
  <2>1. Covered(cursor + 1)'
    BY <1>2, <1>3, <1>6, <1>9 DEF Covered
  <2> QED
    BY <1>1, <1>2, <1>6, <2>1 DEF StartInv, DInv
<1>14. DueInv' /\ AlertInv'
  BY <1>1 DEF DInv, DueInv, AlertInv
<1> QED
  BY <1>8, <1>12, <1>13, <1>14 DEF DInv

\* A chunk is done: below its end nothing is missing.
LEMMA PassAdvanceInv == ASSUME DInv, NEW p \in Passes, PassAdvance(p) PROVE DInv'
<1> DEFINE r == [run[p] EXCEPT !.pc = "scan", !.start = End(p) + 1]
<1>1. /\ DepositsTypeOK /\ run[p].pc = "record" /\ run[p].found = <<>> /\ PassOk(p)
      /\ cursor' = Forward(cursor, End(p)) /\ cursor # NotStarted
      /\ UNCHANGED <<chain, joined, recorded, queue, sent, due, origin, skipped>>
      /\ run' = [run EXCEPT ![p].pc = "scan", ![p].start = End(p) + 1]
  BY DEF DInv, PassAdvance, Advance, PassInv, StartInv
<1>2. /\ run[p].head \in 0..MaxBlocks /\ run[p].head <= Len(chain) /\ Len(chain) \in 0..MaxBlocks
      /\ cursor \in 0..MaxBlocks /\ cursor <= Len(chain) /\ Covered(cursor + 1) /\ Covered(run[p].start)
      /\ run[p] \in Runs /\ NotStarted \notin Nat /\ MaxBlocks \in Nat
      /\ End(p) \in Int /\ run[p].start <= End(p) /\ End(p) <= run[p].head
      /\ run[p].start \in Int /\ run[p].start >= 1
  BY <1>1, DepositFacts, RunFacts, EndFacts DEF DInv, PassOk, StartInv
<1>3. /\ r \in Runs /\ r.pc = "scan" /\ r.head = run[p].head /\ r.start = End(p) + 1 /\ r.wallets = run[p].wallets
      /\ run' = [run EXCEPT ![p] = r]
  <2>1. End(p) + 1 \in 0..MaxBlocks + 1
    BY <1>2
  <2>2. r \in Runs /\ r.pc = "scan" /\ r.head = run[p].head /\ r.start = End(p) + 1 /\ r.wallets = run[p].wallets
    BY <1>2, <2>1 DEF Runs, PassPcs
  <2>3. run' = [run EXCEPT ![p] = r]
    BY <1>1 DEF DepositsTypeOK
  <2> QED
    BY <2>2, <2>3
<1> HIDE DEF r
<1>4. run' \in [Passes -> Runs] /\ run'[p] = r /\ \A q \in Passes \ {p} : run'[q] = run[q]
  BY <1>1, <1>3 DEF DepositsTypeOK, Runs
<1>5. cursor' \in 0..MaxBlocks /\ cursor' <= Len(chain) /\ (cursor' = cursor \/ cursor' = End(p))
  BY <1>1, <1>2 DEF Forward
<1>6. DepositsTypeOK'
  BY <1>1, <1>4, <1>5 DEF DepositsTypeOK, Runs
<1>7. Covered(End(p) + 1)
  <2> SUFFICES ASSUME NEW d \in due, origin < d.block, d.block < End(p) + 1, d.block \notin skipped
               PROVE  d \in recorded
    BY DEF Covered
  <2>1. d.block \in Int
    BY <1>1, DepositFacts DEF Blocks
  <2>2. CASE d.block < run[p].start
    BY <1>2, <2>2 DEF Covered
  <2>3. CASE run[p].start <= d.block
    <3>1. d \in recorded \cup ToSet(run[p].found)
      BY <1>1, <1>2, <2>1, <2>3 DEF PassOk
    <3>2. ToSet(run[p].found) = {}
      BY <1>1 DEF ToSet
    <3> QED
      BY <3>1, <3>2
  <2> QED
    BY <1>2, <2>1, <2>2, <2>3
<1>8. Grows
  BY <1>1, <1>2 DEF Grows
<1>9. PassOk(p)'
  <2>1. Covered(run[p].start)'
    BY <1>1, <1>3, <1>4, <1>7 DEF Covered
  <2>2. Len(chain)' = Len(chain) /\ End(p) + 1 \in Int /\ End(p) + 1 >= 1 /\ End(p) + 1 <= Len(chain) + 1
    BY <1>1, <1>2
  <2> QED
    BY <1>1, <1>2, <1>3, <1>4, <2>1, <2>2 DEF PassOk
<1>10. PassInv'
  BY <1>4, <1>8, <1>9, PassStays DEF PassInv
<1>11. StartInv'
  <2>1. Covered(cursor + 1)'
    BY <1>1, <1>2, <1>5, <1>7 DEF Covered
  <2> QED
    BY <1>1, <1>2, <1>5, <2>1 DEF StartInv, DInv
<1>12. DueInv' /\ AlertInv'
  BY <1>1 DEF DInv, DueInv, AlertInv
<1> QED
  BY <1>6, <1>10, <1>11, <1>12 DEF DInv

\* A deposit found is recorded once and announced with its first record.
LEMMA PassRecordInv == ASSUME DInv, NEW p \in Passes, PassRecord(p) PROVE DInv'
<1> DEFINE d == Head(run[p].found)
           r == [run[p] EXCEPT !.found = Tail(@)]
<1>1. /\ DepositsTypeOK /\ run[p].pc = "record" /\ run[p].found # <<>> /\ PassOk(p) /\ cursor # NotStarted
      /\ recorded' = recorded \cup {d}
      /\ queue' = IF d \notin recorded /\ Len(queue) < QueueMax THEN Append(queue, d) ELSE queue
      /\ run' = [run EXCEPT ![p].found = Tail(@)]
      /\ UNCHANGED <<chain, joined, cursor, sent, due, origin, skipped>>
  BY DEF DInv, PassRecord, Announces, PassInv, StartInv
<1>2. /\ run[p] \in Runs /\ run[p].found \in Seq(Deposits) /\ d \in Deposits
      /\ Tail(run[p].found) \in Seq(Deposits)
      /\ ToSet(run[p].found) = {d} \cup ToSet(Tail(run[p].found))
  <2>1. run[p] \in Runs /\ run[p].found \in Seq(Deposits)
    BY <1>1, RunFacts
  <2>2. \A q \in Seq(Deposits) : q # <<>> =>
          Head(q) \in Deposits /\ Tail(q) \in Seq(Deposits) /\ ToSet(q) = {Head(q)} \cup ToSet(Tail(q))
    <3> SUFFICES ASSUME NEW q \in Seq(Deposits), q # <<>>
                 PROVE  /\ Head(q) \in Deposits /\ Tail(q) \in Seq(Deposits)
                        /\ ToSet(q) = {Head(q)} \cup ToSet(Tail(q))
      OBVIOUS
    <3>1. /\ Head(q) \in Deposits /\ Tail(q) \in Seq(Deposits) /\ Len(q) \in Nat \ {0}
          /\ DOMAIN Tail(q) = 1..Len(q) - 1 /\ Head(q) = q[1] /\ \A i \in 1..Len(q) - 1 : Tail(q)[i] = q[i + 1]
      OBVIOUS
    <3>2. \A x : x \in ToSet(q) <=> \E i \in 1..Len(q) : x = q[i]
      BY DEF ToSet
    <3>3. \A x : x \in ToSet(Tail(q)) <=> \E i \in 1..Len(q) - 1 : x = q[i + 1]
      BY <3>1 DEF ToSet
    <3>4. \A x : (\E i \in 1..Len(q) : x = q[i]) <=> x = q[1] \/ \E i \in 1..Len(q) - 1 : x = q[i + 1]
      <4> SUFFICES ASSUME NEW x, NEW i \in 1..Len(q), x = q[i], i # 1
                   PROVE  \E k \in 1..Len(q) - 1 : x = q[k + 1]
        BY <3>1
      <4>1. i - 1 \in 1..Len(q) - 1 /\ (i - 1) + 1 = i
        BY <3>1
      <4> QED
        BY <4>1
    <3> QED
      BY <3>1, <3>2, <3>3, <3>4
  <2> QED
    BY <1>1, <2>1, <2>2
<1>3. /\ r \in Runs /\ r.pc = "record" /\ r.head = run[p].head /\ r.start = run[p].start
      /\ r.wallets = run[p].wallets /\ r.found = Tail(run[p].found)
  BY <1>1, <1>2 DEF Runs
<1>4. run' = [run EXCEPT ![p] = r]
  BY <1>1 DEF DepositsTypeOK
<1> HIDE DEF d, r
<1>5. run' \in [Passes -> Runs] /\ run'[p] = r /\ \A q \in Passes \ {p} : run'[q] = run[q]
  <2>1. p \in Passes /\ run \in [Passes -> Runs]
    BY <1>1 DEF DepositsTypeOK, Runs
  <2> QED
    BY <2>1, <1>3, <1>4
<1>6. queue' \in Seq(Deposits) /\ Len(queue') <= QueueMax
  BY <1>1, <1>2, DepositFacts DEF DepositsTypeOK
<1>7. DepositsTypeOK'
  BY <1>1, <1>2, <1>5, <1>6 DEF DepositsTypeOK, Runs
<1>8. Grows
  BY <1>1, DepositFacts DEF Grows
<1>9. PassOk(p)'
  <2>1. Covered(run[p].start)'
    BY <1>1, <1>3, <1>5 DEF PassOk, Covered
  <2>2. End(p)' = End(p)
    BY <1>3, <1>5 DEF End
  <2> QED
    BY <1>1, <1>2, <1>3, <1>5, <2>1, <2>2 DEF PassOk
<1>10. PassInv'
  BY <1>5, <1>8, <1>9, PassStays DEF PassInv
<1>11. StartInv' /\ DueInv'
  BY <1>1 DEF DInv, StartInv, DueInv, Covered
<1>12. AlertInv'
  <2>1. CASE queue' = queue
    BY <1>1, <2>1 DEF DInv, AlertInv
  <2>2. CASE d \notin recorded /\ queue' = Append(queue, d)
    <3>1. /\ queue \in Seq(Deposits) /\ Len(queue) \in Nat /\ Len(queue') = Len(queue) + 1
          /\ DOMAIN queue = 1..Len(queue) /\ DOMAIN queue' = 1..Len(queue) + 1
          /\ \A i \in 1..Len(queue) : queue'[i] = queue[i]
          /\ queue'[Len(queue) + 1] = d
      BY <1>1, <1>2, <2>2 DEF DepositsTypeOK
    <3>2. ASSUME NEW i \in DOMAIN queue'
          PROVE  (i \in DOMAIN queue /\ queue'[i] = queue[i]) \/ (i = Len(queue) + 1 /\ queue'[i] = d)
      <4>1. i \in 1..Len(queue) \/ i = Len(queue) + 1
        BY <3>1
      <4> QED
        BY <3>1, <4>1
    <3> QED
      BY <1>1, <2>2, <3>1, <3>2 DEF DInv, AlertInv
  <2> QED
    BY <1>1, <2>1, <2>2
<1> QED
  BY <1>7, <1>10, <1>11, <1>12 DEF DInv

-----------------------------------------------------------------------------
(* The chain, the users, Telegram and restarts.                            *)

\* A new block pays wallets that have a row; nobody has claimed it yet.
LEMMA FinalizeInv == ASSUME DInv, NEW paid \in SUBSET Wallets, Finalize(paid) PROVE DInv'
<1>1. /\ DepositsTypeOK /\ Len(chain) < MaxBlocks /\ chain' = Append(chain, paid)
      /\ due' = due \cup [block: {Len(chain) + 1}, wallet: paid \cap joined]
      /\ UNCHANGED <<joined, cursor, recorded, run, queue, sent, origin, skipped>>
  BY DEF DInv, Finalize
<1>2. /\ Len(chain) \in Nat /\ MaxBlocks \in Nat /\ chain' \in Seq(SUBSET Wallets) /\ Len(chain') = Len(chain) + 1
      /\ \A b \in 1..Len(chain) : chain'[b] = chain[b]
      /\ chain'[Len(chain) + 1] = paid
  BY <1>1, DepositFacts DEF DepositsTypeOK
<1>3. due' \subseteq Deposits
  <2>1. Len(chain) + 1 \in Blocks
    BY <1>1, <1>2 DEF Blocks
  <2> QED
    BY <1>1, <2>1 DEF DepositsTypeOK, Deposits
<1>4. DepositsTypeOK'
  BY <1>1, <1>2, <1>3 DEF DepositsTypeOK
<1>5. Grows
  BY <1>1, <1>2 DEF Grows
<1>6. StartInv'
  <2>1. cursor # NotStarted => Covered(cursor + 1)'
    <3> SUFFICES ASSUME cursor # NotStarted PROVE Covered(cursor + 1)'
      OBVIOUS
    <3>1. cursor + 1 \in Int /\ cursor + 1 <= Len(chain) + 1 /\ Covered(cursor + 1) /\ cursor' = cursor
      BY <1>1, <1>2, DepositFacts DEF DInv, StartInv
    <3>2. PICK b : b = cursor + 1
      OBVIOUS
    <3>3. b \in Int /\ b <= Len(chain) + 1 /\ Covered(b)
      BY <3>1, <3>2
    <3>4. Covered(b)'
      BY <1>5, <3>3, CoveredStays
    <3> QED
      BY <3>1, <3>2, <3>4 DEF Covered
  <2>2. cursor # NotStarted => cursor <= Len(chain)'
    BY <1>1, <1>2, DepositFacts DEF DInv, StartInv
  <2> QED
    BY <1>1, <2>1, <2>2 DEF DInv, StartInv
<1>7. DueInv'
  <2> SUFFICES ASSUME NEW d \in due' PROVE d.block <= Len(chain') /\ d.wallet \in chain'[d.block] \cap joined
    BY <1>1 DEF DueInv
  <2>1. CASE d \in due
    BY <1>1, <1>2, <2>1, DepositFacts DEF DInv, DueInv, Blocks
  <2>2. CASE d \in [block: {Len(chain) + 1}, wallet: paid \cap joined]
    BY <1>2, <2>2
  <2> QED
    BY <1>1, <2>1, <2>2
<1>8. PassInv'
  BY <1>1, <1>5, PassStays DEF PassInv
<1>9. AlertInv'
  BY <1>1 DEF DInv, AlertInv
<1> QED
  BY <1>4, <1>6, <1>7, <1>8, <1>9 DEF DInv

\* A user joins: nothing of the past becomes due.
LEMMA JoinInv == ASSUME DInv, NEW w \in Wallets, Join(w) PROVE DInv'
<1>1. /\ DepositsTypeOK /\ joined' = joined \cup {w}
      /\ UNCHANGED <<chain, cursor, recorded, run, queue, sent, due, origin, skipped>>
  BY DEF DInv, Join
<1>2. DepositsTypeOK' /\ Grows
  BY <1>1, DepositFacts DEF DepositsTypeOK, Grows
<1>3. StartInv' /\ DueInv' /\ AlertInv'
  BY <1>1 DEF DInv, StartInv, DueInv, AlertInv, Covered
<1>4. PassInv'
  BY <1>1, <1>2, PassStays DEF PassInv
<1> QED
  BY <1>2, <1>3, <1>4 DEF DInv

\* The alerts move on or are lost; a restart also ends the passes.
LEMMA AlertsInv ==
  ASSUME DInv, queue' \in Seq(Deposits), Len(queue') <= QueueMax, sent' \in Seq(Deposits),
         run' = run \/ run' = [p \in Passes |-> NoPass], AlertInv',
         UNCHANGED <<chain, joined, cursor, recorded, due, origin, skipped>>
  PROVE  DInv'
<1>1. run' \in [Passes -> Runs]
  BY NoPassRun DEF DInv, DepositsTypeOK, Runs
<1>2. DepositsTypeOK'
  BY <1>1 DEF DInv, DepositsTypeOK, Runs
<1>3. Grows
  BY DepositFacts DEF DInv, Grows
<1>4. StartInv' /\ DueInv'
  BY DEF DInv, StartInv, DueInv, Covered, NoPass
<1>5. PassInv'
  BY <1>2, <1>3, PassStays, NoPassOk DEF PassInv
<1> QED
  BY <1>2, <1>4, <1>5 DEF DInv

\* Telegram takes the oldest alert.
LEMMA DeliverInv == ASSUME DInv, Deliver PROVE DInv'
<1>1. /\ queue \in Seq(Deposits) /\ queue # <<>> /\ Len(queue) <= QueueMax /\ sent \in Seq(Deposits)
      /\ sent' = Append(sent, Head(queue)) /\ queue' = Tail(queue)
      /\ UNCHANGED <<chain, joined, cursor, recorded, run, due, origin, skipped>>
  BY DEF DInv, DepositsTypeOK, Deliver
<1>2. /\ Len(queue) \in Nat \ {0} /\ Len(sent) \in Nat /\ Head(queue) = queue[1] /\ Head(queue) \in Deposits
      /\ DOMAIN queue = 1..Len(queue) /\ DOMAIN sent = 1..Len(sent)
      /\ queue' \in Seq(Deposits) /\ DOMAIN queue' = 1..Len(queue) - 1 /\ Len(queue') = Len(queue) - 1
      /\ \A i \in 1..Len(queue) - 1 : queue'[i] = queue[i + 1]
      /\ sent' \in Seq(Deposits) /\ DOMAIN sent' = 1..Len(sent) + 1
      /\ \A i \in 1..Len(sent) : sent'[i] = sent[i]
      /\ sent'[Len(sent) + 1] = queue[1]
  BY <1>1
<1>3. ASSUME NEW i \in DOMAIN queue' PROVE i \in Int /\ i + 1 \in DOMAIN queue /\ i + 1 # 1 /\ queue'[i] = queue[i + 1]
  BY <1>2
<1>4. ASSUME NEW i \in DOMAIN sent' PROVE (i \in DOMAIN sent /\ sent'[i] = sent[i]) \/ (i = Len(sent) + 1 /\ sent'[i] = queue[1])
  BY <1>2
<1>5. 1 \in DOMAIN queue
  BY <1>2
<1>6. AlertInv'
  <2>1. /\ \A i \in DOMAIN sent' : sent'[i] \in recorded
        /\ \A i \in DOMAIN queue' : queue'[i] \in recorded
    BY <1>3, <1>4, <1>5 DEF DInv, AlertInv
  <2>2. \A i, j \in DOMAIN sent' : sent'[i] = sent'[j] => i = j
    BY <1>4, <1>5 DEF DInv, AlertInv
  <2>3. \A i, j \in DOMAIN queue' : queue'[i] = queue'[j] => i = j
    <3> SUFFICES ASSUME NEW i \in DOMAIN queue', NEW j \in DOMAIN queue', queue'[i] = queue'[j] PROVE i = j
      OBVIOUS
    <3>1. i + 1 = j + 1
      BY <1>3 DEF DInv, AlertInv
    <3> QED
      BY <1>3, <3>1
  <2>4. \A i \in DOMAIN sent', j \in DOMAIN queue' : sent'[i] # queue'[j]
    BY <1>3, <1>4, <1>5 DEF DInv, AlertInv
  <2> QED
    BY <1>1, <2>1, <2>2, <2>3, <2>4 DEF AlertInv
<1>7. Len(queue') <= QueueMax
  BY <1>1, <1>2, DepositFacts DEF DInv
<1> QED
  BY <1>1, <1>2, <1>6, <1>7, AlertsInv

\* The oldest alert is dropped.
LEMMA GiveUpInv == ASSUME DInv, GiveUp PROVE DInv'
<1>1. /\ queue \in Seq(Deposits) /\ queue # <<>> /\ Len(queue) <= QueueMax /\ sent \in Seq(Deposits)
      /\ sent' = sent /\ queue' = Tail(queue)
      /\ UNCHANGED <<chain, joined, cursor, recorded, run, due, origin, skipped>>
  BY DEF DInv, DepositsTypeOK, GiveUp
<1>2. /\ Len(queue) \in Nat \ {0} /\ DOMAIN queue = 1..Len(queue)
      /\ queue' \in Seq(Deposits) /\ DOMAIN queue' = 1..Len(queue) - 1 /\ Len(queue') = Len(queue) - 1
      /\ \A i \in 1..Len(queue) - 1 : queue'[i] = queue[i + 1]
  BY <1>1
<1>3. ASSUME NEW i \in DOMAIN queue' PROVE i \in Int /\ i + 1 \in DOMAIN queue /\ queue'[i] = queue[i + 1]
  BY <1>2
<1>4. AlertInv'
  <2>1. \A i, j \in DOMAIN queue' : queue'[i] = queue'[j] => i = j
    <3> SUFFICES ASSUME NEW i \in DOMAIN queue', NEW j \in DOMAIN queue', queue'[i] = queue'[j] PROVE i = j
      OBVIOUS
    <3>1. i + 1 = j + 1
      BY <1>3 DEF DInv, AlertInv
    <3> QED
      BY <1>3, <3>1
  <2> QED
    BY <1>1, <1>3, <2>1 DEF DInv, AlertInv
<1>5. Len(queue') <= QueueMax
  BY <1>1, <1>2, DepositFacts DEF DInv
<1> QED
  BY <1>1, <1>2, <1>4, <1>5, AlertsInv

\* The process restarts: its queue and its passes are gone.
LEMMA ProcessRestartInv == ASSUME DInv, ProcessRestart PROVE DInv'
<1>1. /\ queue' = <<>> /\ sent' = sent /\ sent \in Seq(Deposits) /\ run' = [p \in Passes |-> NoPass]
      /\ UNCHANGED <<chain, joined, cursor, recorded, due, origin, skipped>>
  BY DEF DInv, DepositsTypeOK, ProcessRestart
<1>2. queue' \in Seq(Deposits) /\ Len(queue') <= QueueMax /\ DOMAIN queue' = {}
  BY <1>1, DepositFacts DEF DInv
<1>3. AlertInv'
  BY <1>1, <1>2 DEF DInv, AlertInv
<1> QED
  BY <1>1, <1>2, <1>3, AlertsInv

\* Every step keeps the invariant.
LEMMA DepositsNextInv == DInv /\ [DepositsNext]_depositsVars => DInv'
<1> SUFFICES ASSUME DInv, [DepositsNext]_depositsVars PROVE DInv'
  OBVIOUS
<1>1. ASSUME NEW p \in Passes, PassStep(p) PROVE DInv'
  <2>1. CASE PassEnds(p) \/ PassFails(p)
    BY <2>1, StopInv DEF PassEnds, PassFails
  <2> QED
    BY <1>1, <2>1, PassHeadInv, PassFirstInv, PassCursorInv, PassWalletsInv, PassScanInv, PassRecordInv,
       PassAdvanceInv DEF PassStep
<1>2. CASE UNCHANGED depositsVars
  <2>1. /\ queue' \in Seq(Deposits) /\ Len(queue') <= QueueMax /\ sent' \in Seq(Deposits) /\ AlertInv'
    BY <1>2 DEF DInv, DepositsTypeOK, AlertInv, depositsVars
  <2> QED
    BY <1>2, <2>1, AlertsInv DEF depositsVars
<1> QED
  BY <1>1, <1>2, FinalizeInv, JoinInv, DeliverInv, GiveUpInv, ProcessRestartInv DEF DepositsNext

-----------------------------------------------------------------------------
(* Cursor, passes, rows and alerts agree in every reachable state          *)
(* (DepositWatcher.run_pass).                                              *)
THEOREM DepositsInvariance == DepositsSpec => []DInv
<1> QED
  BY DepositsInitInv, DepositsNextInv, PTL DEF DepositsSpec

(* No deposit up to the cursor is missing but in blocks left unread        *)
(* (run_pass advances after the scan, _record is idempotent).              *)
THEOREM DepositsCovered == DepositsSpec => []CursorCovers
<1>1. DInv => CursorCovers
  <2> SUFFICES ASSUME DInv, NEW d \in due, cursor # NotStarted, origin < d.block, d.block <= cursor,
                      d.block \notin skipped
               PROVE  d \in recorded
    BY DEF CursorCovers
  <2>1. d.block \in Int /\ cursor \in Int /\ Covered(cursor + 1)
    BY DepositFacts DEF DInv, StartInv, Blocks
  <2>2. d.block < cursor + 1
    BY <2>1
  <2> QED
    BY <2>1, <2>2 DEF Covered
<1> QED
  BY <1>1, DepositsInvariance, PTL

(* Nobody is told of one deposit twice, or of one that is not recorded     *)
(* (_record announces only what its insert returned).                      *)
THEOREM DepositsToldOnce == DepositsSpec => []AnnouncedOnce
<1>1. DInv => AnnouncedOnce
  <2> SUFFICES ASSUME DInv PROVE AnnouncedOnce
    OBVIOUS
  <2> DEFINE alerts == sent \o queue
  <2>1. /\ sent \in Seq(Deposits) /\ queue \in Seq(Deposits) /\ Len(sent) \in Nat /\ Len(queue) \in Nat
        /\ DOMAIN sent = 1..Len(sent) /\ DOMAIN queue = 1..Len(queue)
        /\ DOMAIN alerts = 1..Len(sent) + Len(queue)
        /\ \A i \in DOMAIN alerts : alerts[i] = IF i <= Len(sent) THEN sent[i] ELSE queue[i - Len(sent)]
    BY DEF DInv, DepositsTypeOK
  <2> HIDE DEF alerts
  <2>2. ASSUME NEW i \in DOMAIN alerts
        PROVE  \/ i \in DOMAIN sent /\ alerts[i] = sent[i]
               \/ i - Len(sent) \in DOMAIN queue /\ alerts[i] = queue[i - Len(sent)] /\ i \in Int
    BY <2>1
  <2>3. ToSet(alerts) \subseteq recorded
    BY <2>2 DEF ToSet, DInv, AlertInv
  <2>4. ASSUME NEW i \in DOMAIN alerts, NEW j \in DOMAIN alerts, alerts[i] = alerts[j] PROVE i = j
    <3>1. CASE i - Len(sent) = j - Len(sent) /\ i \in Int /\ j \in Int
      BY <2>1, <3>1
    <3> QED
      BY <2>2, <2>4, <3>1 DEF DInv, AlertInv
  <2> QED
    BY <2>3, <2>4 DEF AnnouncedOnce, alerts
<1> QED
  BY <1>1, DepositsInvariance, PTL

(* The cursor never moves back (_advance).                                 *)
THEOREM DepositsForward == DepositsSpec => CursorForward
<1>1. DInv /\ [DepositsNext]_depositsVars
        => [cursor # NotStarted => cursor' # NotStarted /\ cursor' >= cursor]_depositsVars
  <2> SUFFICES ASSUME DInv, DepositsNext, cursor # NotStarted
               PROVE  cursor' # NotStarted /\ cursor' >= cursor
    BY DEF DepositsNext
  <2>1. cursor \in Nat /\ NotStarted \notin Nat
    BY DepositFacts DEF DInv
  <2>2. ASSUME NEW p \in Passes, PassAdvance(p) PROVE cursor' \in Int /\ cursor' >= cursor
    <3>1. cursor' = Forward(cursor, End(p)) /\ End(p) \in Int
      BY <2>2, EndFacts DEF DInv, PassAdvance, Advance
    <3> QED
      BY <2>1, <3>1 DEF Forward
  <2>3. ASSUME NEW p \in Passes, PassCursor(p) PROVE cursor' \in Int /\ cursor' >= cursor
    <3>1. PICK start : /\ start = IF run[p].head - cursor > Catchup THEN run[p].head - Catchup + 1 ELSE cursor + 1
                       /\ cursor' = Forward(cursor, start - 1)
      BY <2>3 DEF PassCursor
    <3>2. run[p].head \in Int /\ Catchup \in Int
      BY RunFacts, DepositFacts DEF DInv
    <3>3. start \in Int
      BY <2>1, <3>1, <3>2
    <3> QED
      BY <2>1, <3>1, <3>3 DEF Forward
  <2>4. CASE cursor' = cursor
    BY <2>1, <2>4
  <2>5. ASSUME NEW p \in Passes, PassStep(p)
        PROVE  cursor' = cursor \/ PassAdvance(p) \/ PassCursor(p)
    BY <2>5 DEF PassStep, PassHead, PassFirst, PassWallets, PassScan, PassRecord, PassEnds, PassFails
  <2>6. \/ \E p \in Passes : PassStep(p)
        \/ cursor' = cursor
    BY DEF DepositsNext, Finalize, Join, Deliver, GiveUp, ProcessRestart
  <2>7. cursor' = cursor \/ (cursor' \in Int /\ cursor' >= cursor)
    BY <2>2, <2>3, <2>5, <2>6
  <2>8. cursor' \in Nat
    BY <2>1, <2>7
  <2> QED
    BY <2>1, <2>4, <2>7, <2>8
<1> QED
  BY <1>1, DepositsInvariance, PTL DEF DepositsSpec, CursorForward

-----------------------------------------------------------------------------
(* The joint specification.  A step of MCServices is a step of the service *)
(* whose part it is and leaves the others where they are, so what is       *)
(* proved of a service alone holds of the specification TLC runs.          *)

LEMMA RestFacts ==
    ASSUME NEW p, Rest(p)
    PROVE  /\ part' = p
           /\ p # "wallet" => UNCHANGED vars
           /\ p # "leader" => UNCHANGED cashVars
           /\ p # "collateral" => UNCHANGED collateralVars
           /\ p # "deposits" => UNCHANGED depositsVars
           /\ p # "redeem" => UNCHANGED redeemVars
           /\ p # "locks" => UNCHANGED lockVars
           /\ p # "detection" => UNCHANGED detectionVars
  BY DEF Rest

\* What a step of each part is.
LEMMA WalletPart == WalletStep => part = "wallet" /\ Rest("wallet") /\ Next
  BY DEF WalletStep, In, Next, Step
LEMMA LeaderPart == LeaderStep => part = "leader" /\ Rest("leader") /\ CashNext
  BY DEF LeaderStep, In, CashNext
LEMMA CollateralPart == CollateralStep => part = "collateral" /\ Rest("collateral") /\ CollateralNext
  BY DEF CollateralStep, In, CollateralNext
LEMMA DepositsPart == DepositsStep => part = "deposits" /\ Rest("deposits") /\ DepositsNext
  BY DEF DepositsStep, In, DepositsNext, PassStep
LEMMA RedeemPart == RedeemStep => part = "redeem" /\ Rest("redeem") /\ RedeemNext
  BY DEF RedeemStep, In, RedeemNext, Turn
LEMMA LocksPart == LocksStep => part = "locks" /\ Rest("locks") /\ LocksNext
  BY DEF LocksStep, In, LocksNext
LEMMA DetectionPart == DetectionStep => part = "detection" /\ Rest("detection") /\ DetectionNext
  BY DEF DetectionStep, In, DetectionNext

MCVars == <<part, vars, cashVars, collateralVars, depositsVars, redeemVars, lockVars, detectionVars>>

\* Every joint step is a step of each service or one it does not see, and
\* the part that runs never changes.
LEMMA PartStep ==
    ASSUME [MCNext]_MCVars
    PROVE  /\ [Next]_vars /\ [CashNext]_cashVars /\ [CollateralNext]_collateralVars
           /\ [DepositsNext]_depositsVars /\ [RedeemNext]_redeemVars /\ [LocksNext]_lockVars
           /\ [DetectionNext]_detectionVars /\ part' = part
<1>1. CASE UNCHANGED MCVars
  BY <1>1 DEF MCVars
<1>2. CASE WalletStep
  BY <1>2, WalletPart, RestFacts
<1>3. CASE LeaderStep
  BY <1>3, LeaderPart, RestFacts
<1>4. CASE CollateralStep
  BY <1>4, CollateralPart, RestFacts
<1>5. CASE DepositsStep
  BY <1>5, DepositsPart, RestFacts
<1>6. CASE RedeemStep
  BY <1>6, RedeemPart, RestFacts
<1>7. CASE LocksStep
  BY <1>7, LocksPart, RestFacts
<1>8. CASE DetectionStep
  BY <1>8, DetectionPart, RestFacts
<1> QED
  BY <1>1, <1>2, <1>3, <1>4, <1>5, <1>6, <1>7, <1>8 DEF MCNext

\* Every behaviour of the joint specification is one of each service (the loops of
\* main.py share no state among these seven), so every theorem about a service holds
\* of the specification that TLC checks.
THEOREM Composition ==
    MCSpec => /\ Spec /\ CashSpec /\ CollateralSpec /\ DepositsSpec
              /\ RedeemSpec /\ LocksSpec /\ DetectionSpec
<1>1. MCInit => /\ Init /\ CashInit /\ CollateralInit /\ DepositsInit
                /\ RedeemInit /\ LocksInit /\ DetectionInit
  BY DEF MCInit
<1>2. [MCNext]_MCVars => /\ [Next]_vars /\ [CashNext]_cashVars /\ [CollateralNext]_collateralVars
                         /\ [DepositsNext]_depositsVars /\ [RedeemNext]_redeemVars
                         /\ [LocksNext]_lockVars /\ [DetectionNext]_detectionVars
  BY PartStep
<1>3. MCSpec => MCInit /\ [][MCNext]_MCVars
  BY DEF MCSpec, MCVars
<1> QED
  BY <1>1, <1>2, <1>3, PTL DEF Spec, CashSpec, CollateralSpec, DepositsSpec, RedeemSpec,
                               LocksSpec, DetectionSpec

\* Whichever service runs, the claims, caches, cursors, sets and queues of all seven
\* keep their types and stay within their bounds.
THEOREM ServicesTyped == MCSpec => []ServicesTypeOK
<1>1. MCSpec => MCInit /\ [][MCNext]_MCVars
  BY DEF MCSpec, MCVars
<1>2. MCInit => part \in Parts
  BY DEF MCInit
<1>3. part \in Parts /\ [MCNext]_MCVars => (part \in Parts)'
  BY PartStep
<1>4. CInv => CashTypeOK
  BY DEF CInv
<1>5. BInv => CollateralTypeOK
  BY DEF BInv
<1>6. DInv => DepositsTypeOK
  BY DEF DInv
<1>7. JInv => RedeemTypeOK
  BY DEF JInv
<1>8. LocksInv => LocksTypeOK
  BY DEF LocksInv
<1>9. /\ TypeOK /\ CashTypeOK /\ CollateralTypeOK /\ DepositsTypeOK
      /\ RedeemTypeOK /\ LocksTypeOK /\ DetectionTypeOK
      /\ part \in Parts
      => ServicesTypeOK
  BY DEF ServicesTypeOK, Parts
<1> QED
  BY <1>1, <1>2, <1>3, <1>4, <1>5, <1>6, <1>7, <1>8, <1>9, Composition, TypeCorrect,
     CashInvariance, BalanceInvariance, DepositsInvariance, RedeemInvariance, LocksInvariance,
     DetectionTypes, PTL
=============================================================================
