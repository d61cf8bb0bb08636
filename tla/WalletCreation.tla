--------------------------- MODULE WalletCreation ---------------------------
(***************************************************************************)
(* Wallet creation for one Telegram user: POST /user/create-wallet and     *)
(* POST /auth/link-telegram against the durable claim in                   *)
(* wallet_creation_claims.  Between two transactions the SDK deploys the   *)
(* signer's wallet, an external effect the program can neither undo nor    *)
(* stop.  A wallet is named by its signer, a signer by the request that    *)
(* generated it.                                                           *)
(***************************************************************************)
EXTENDS Naturals, FiniteSets

CONSTANTS
    Requests,   \* create-wallet requests of the user
    Legacy,     \* wallets created without Telegram, which may be linked
    None        \* no owner, no signer

ASSUME WalletAssumption == Requests \cap Legacy = {} /\ None \notin Requests \cup Legacy

VARIABLES
    claim,      \* the user's row in wallet_creation_claims
    users,      \* wallets with a row in users
    bound,      \* those whose row carries this telegram_user_id
    req,        \* [Requests -> the request]
    running,    \* requests whose SDK work may still be running
    deployed    \* wallets the SDK has deployed

vars == <<claim, users, bound, req, running, deployed>>

NoClaim == [state |-> "none", owner |-> None, signer |-> None, key |-> None, stale |-> FALSE]
Claims == [state: {"none", "claimed", "side_effect_started", "complete"},
           owner: Requests \cup {None}, signer: Requests \cup {None},
           key: Requests \cup {None},   \* private_key_enc
           stale: BOOLEAN]              \* updated_at < stale_before
Pcs == {"start", "lease", "prepare", "resume", "abandon", "sdk", "release", "persist", "done"}

TypeOK ==
    /\ claim \in Claims /\ bound \subseteq users /\ users \subseteq Requests \cup Legacy
    /\ req \in [Requests -> [pc: Pcs, signer: Requests \cup {None}]]
    /\ running \subseteq Requests /\ deployed \subseteq Requests

Init ==
    /\ claim = NoClaim /\ users = Legacy /\ bound = {}
    /\ req = [r \in Requests |-> [pc |-> "start", signer |-> None]]
    /\ running = {} /\ deployed = {}

Goes(r, pc) == req' = [req EXCEPT ![r].pc = pc]

-----------------------------------------------------------------------------
\* A user who has a wallet gets its session back.
Begin(r) ==
    /\ req[r].pc = "start" /\ Goes(r, IF bound # {} THEN "done" ELSE "lease")
    /\ UNCHANGED <<claim, users, bound, running, deployed>>

\* Mutant: a stale claim is taken over whatever its state.
TakesOverAny(c) == c.stale
TakesOver(c) == c.state = "claimed" /\ c.stale
Resumes(c) == c.state = "side_effect_started" /\ c.signer # None /\ c.key # None /\ c.owner = None

\* acquire_wallet_creation_lease: insert, take over, resume, or refuse.
Acquire(r) ==
    /\ req[r].pc = "lease"
    /\ IF claim.state = "none"
       THEN claim' = [NoClaim EXCEPT !.state = "claimed", !.owner = r]
       ELSE IF TakesOver(claim) \/ Resumes(claim)
            THEN claim' = [claim EXCEPT !.owner = r, !.stale = FALSE] ELSE UNCHANGED claim
    /\ Goes(r, IF claim'.owner # r THEN "done"
               ELSE IF claim'.state = "claimed" THEN "prepare" ELSE "resume")
    /\ UNCHANGED <<users, bound, running, deployed>>

\* prepare_wallet_creation_signer.  The commit may be acknowledged or not.
MayPrepare(r) == claim.state = "claimed" /\ claim.owner = r /\ claim.signer = None /\ claim.key = None
Prepare(r) ==
    /\ req[r].pc = "prepare"
    /\ IF MayPrepare(r)
       THEN /\ claim' = [claim EXCEPT !.state = "side_effect_started", !.signer = r, !.key = r,
                                      !.stale = FALSE]
            /\ \/ req' = [req EXCEPT ![r] = [pc |-> "sdk", signer |-> r]]
               \/ Goes(r, "abandon")
       ELSE Goes(r, "abandon") /\ UNCHANGED claim
    /\ UNCHANGED <<users, bound, running, deployed>>

\* Mutant: a resumed creation generates its own signer.
OwnSigner(r) == r
DurableSigner(r) == claim.signer
Resume(r) ==
    /\ req[r].pc = "resume"
    /\ req' = [req EXCEPT ![r] = [pc |-> "sdk", signer |-> DurableSigner(r)]]
    /\ UNCHANGED <<claim, users, bound, running, deployed>>

\* Key generation, encryption or decryption raises.
LocalFailure(r) ==
    /\ req[r].pc \in {"prepare", "resume"} /\ Goes(r, "abandon")
    /\ UNCHANGED <<claim, users, bound, running, deployed>>

\* Mutant: the claim is deleted whatever its state.
AbandonsOwn(r) == claim.owner = r
Abandons(r) == claim.state = "claimed" /\ claim.owner = r
Abandon(r) ==
    /\ req[r].pc = "abandon"
    /\ claim' = IF Abandons(r) THEN NoClaim ELSE claim
    /\ Goes(r, "done") /\ UNCHANGED <<users, bound, running, deployed>>

\* make_clob_client and the setup after it.
SdkStart(r) ==
    /\ req[r].pc = "sdk" /\ r \notin running /\ running' = running \cup {r}
    /\ UNCHANGED <<claim, users, bound, req, deployed>>
SdkDeploys(r) ==
    /\ r \in running /\ deployed' = deployed \cup {req[r].signer}
    /\ UNCHANGED <<claim, users, bound, req, running>>
SdkAnswers(r) ==
    /\ req[r].pc = "sdk" /\ r \in running /\ running' = running \ {r}
    /\ \/ req[r].signer \in deployed /\ Goes(r, "persist")
       \/ Goes(r, "release")
    /\ UNCHANGED <<claim, users, bound, deployed>>

\* finish_failed_attempt: the owner gives the claim up, the signer stays.
Release(r) ==
    /\ req[r].pc = "release"
    /\ claim' = IF claim.owner = r /\ claim.state = "side_effect_started"
                THEN [claim EXCEPT !.owner = None, !.stale = FALSE] ELSE claim
    /\ Goes(r, "done") /\ UNCHANGED <<users, bound, running, deployed>>

\* The users row, its consent and the claim's completion, or none of them: a
\* second row for the user, a lost claim or the database refuses.
Persist(r) ==
    /\ req[r].pc = "persist" /\ Goes(r, "done")
    /\ \/ /\ bound = {} /\ req[r].signer \notin users
          /\ claim.owner = r /\ claim.state = "side_effect_started"
          /\ users' = users \cup {req[r].signer} /\ bound' = {req[r].signer}
          /\ claim' = [claim EXCEPT !.state = "complete", !.key = None, !.owner = None,
                                    !.stale = FALSE]
       \/ UNCHANGED <<claim, users, bound>>
    /\ UNCHANGED <<running, deployed>>

\* The request is cancelled or its process dies; SDK work may go on.
Dies(r) ==
    /\ req[r].pc # "done" /\ Goes(r, "done")
    /\ UNCHANGED <<claim, users, bound, running, deployed>>
SdkStops(r) ==
    /\ req[r].pc = "done" /\ r \in running /\ running' = running \ {r}
    /\ UNCHANGED <<claim, users, bound, req, deployed>>

Age ==
    /\ claim.state # "none" /\ ~claim.stale /\ claim' = [claim EXCEPT !.stale = TRUE]
    /\ UNCHANGED <<users, bound, req, running, deployed>>

\* Mutant: linking does not look at a claim that is not its own.
LinksAnyway == bound = {}
MayLink == bound = {} /\ (claim.state = "none" \/ TakesOver(claim))
\* link_telegram, one transaction: claim, bind, complete.  The lease owner of a
\* claim it takes over stays in the row.
Link(w) ==
    /\ w \in users \ bound /\ MayLink
    /\ bound' = {w} /\ claim' = [claim EXCEPT !.state = "complete", !.stale = FALSE]
    /\ UNCHANGED <<users, req, running, deployed>>

Step(r) ==
    \/ Begin(r) \/ Acquire(r) \/ Prepare(r) \/ Resume(r) \/ LocalFailure(r) \/ Abandon(r)
    \/ SdkStart(r) \/ SdkDeploys(r) \/ SdkAnswers(r) \/ Release(r) \/ Persist(r)
    \/ Dies(r) \/ SdkStops(r)
Next == (\E r \in Requests : Step(r)) \/ Age \/ (\E w \in Legacy : Link(w))

Spec == Init /\ [][Next]_vars

-----------------------------------------------------------------------------
(* A wallet that exists can be signed for: its key is in the claim or in     *)
(* the users row, whoever died, failed or was cancelled in between           *)
(* (create_wallet persists the sole signer before any SDK call).             *)
KeysKept == \A s \in deployed : claim.key = s \/ s \in users

(* However many requests, retries and takeovers, the SDK is only ever asked  *)
(* for one wallet of the user ("the durable signer is never replaced",       *)
(* database.py:284).                                                         *)
OneSigner == Cardinality(deployed \cup {req[r].signer : r \in running}) <= 1

(* Two requests never have SDK work out together, even when the first was    *)
(* cancelled with its outcome unknown.                                       *)
SdkExclusive == Cardinality(running) <= 1

(* A user bound to a wallet has no other one: linking a legacy wallet and    *)
(* creating one exclude each other from the moment the SDK may be called.    *)
NoOrphanWallet == bound # {} => (deployed \subseteq bound /\ \A r \in running : req[r].signer \in bound)
=============================================================================
