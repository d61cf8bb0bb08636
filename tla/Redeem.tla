-------------------------------- MODULE Redeem --------------------------------
(***************************************************************************)
(* The redeem job: Redeemer.run_pass sweeps the users, some at once, and   *)
(* sends at most one transaction per user and pass for the resolved        *)
(* markets the copy ledger does not manage and the chain proves.  Listings *)
(* (data-api, Gamma) may say anything; the chain decides.                  *)
(***************************************************************************)
EXTENDS Integers, FiniteSets

CONSTANTS
    Users, Markets,
    Concurrency,    \* REDEEM_CONCURRENCY: users at once
    MaxPerTx,       \* MAX_CONDITIONS_PER_TX
    RedeemLosses    \* REDEEM_LOSSES: also clear what pays nothing

ASSUME RedeemAssumption ==
    /\ IsFiniteSet(Users) /\ IsFiniteSet(Markets)
    /\ {Concurrency, MaxPerTx} \subseteq Nat \ {0} /\ RedeemLosses \in BOOLEAN

VARIABLES
    resolved,   \* markets with a payout on chain
    holding,    \* [Users -> [Markets -> what the wallet holds on chain]]
    managed,    \* <<user, market>> with an unsettled row or BUY claim
    sweep,      \* users the running pass has not started yet; idle is <<FALSE, {}>>
    job,        \* [Users -> the user's turn]
    cooling,    \* Redeemer._cooldown
    halted,     \* Redeemer.halted
    unknown,    \* <<user, market>> this process sent and does not know the outcome of
    orphaned,   \* the same of processes that are gone
    late        \* history: transactions this process sent after its halt

redeemVars == <<resolved, holding, managed, sweep, job, cooling, halted, unknown, orphaned, late>>

Pairs == Users \X Markets
NoJob == [pc |-> "idle", batch |-> {}]
Active == {u \in Users : job[u].pc # "idle"}

RedeemTypeOK ==
    /\ resolved \subseteq Markets /\ managed \subseteq Pairs /\ cooling \subseteq Pairs
    /\ holding \in [Users -> [Markets -> {"none", "wins", "loses"}]]
    /\ sweep \in BOOLEAN \X SUBSET Users
    /\ job \in [Users -> [pc: {"idle", "ledger", "prove", "submit", "wait"}, batch: SUBSET Markets]]
    /\ \A u \in Users : Cardinality(job[u].batch) <= MaxPerTx
    /\ halted \in BOOLEAN /\ {unknown, orphaned} \subseteq SUBSET Pairs /\ late \in Nat
    /\ Cardinality(Active) <= Concurrency

RedeemInit ==
    /\ resolved = {} /\ managed \in SUBSET Pairs
    /\ holding \in [Users -> [Markets -> {"wins", "loses"}]]
    /\ sweep = <<FALSE, {}>> /\ job = [u \in Users |-> NoJob]
    /\ cooling = {} /\ halted = FALSE /\ unknown = {} /\ orphaned = {} /\ late = 0

Of(u, ms) == {u} \X ms
Emptied(u, ms) == [holding EXCEPT ![u] = [m \in Markets |-> IF m \in ms THEN "none" ELSE @[m]]]

-----------------------------------------------------------------------------
(* Around the job: markets resolve, the copy engine lets go of a market or *)
(* takes it back, a transaction of unknown outcome lands or not.           *)

Resolve(m) ==
    /\ m \notin resolved /\ resolved' = resolved \cup {m}
    /\ UNCHANGED <<holding, managed, sweep, job, cooling, halted, unknown, orphaned, late>>
Ledger(x) ==
    /\ managed' = IF x \in managed THEN managed \ {x} ELSE managed \cup {x}
    /\ UNCHANGED <<resolved, holding, sweep, job, cooling, halted, unknown, orphaned, late>>
\* A market of a batch at a time, which allows more than one transaction does.
Lands(x) ==
    /\ \/ x \in unknown /\ unknown' = unknown \ {x} /\ UNCHANGED orphaned
       \/ x \in orphaned /\ orphaned' = orphaned \ {x} /\ UNCHANGED unknown
    /\ \/ holding' = Emptied(x[1], {x[2]})
       \/ UNCHANGED holding
    /\ UNCHANGED <<resolved, managed, sweep, job, cooling, halted, late>>
\* Assumption: the cool-down outlasts a transaction the relayer still holds.
Warm(x) ==
    /\ x \in cooling \ unknown /\ cooling' = cooling \ {x}
    /\ UNCHANGED <<resolved, holding, managed, sweep, job, halted, unknown, orphaned, late>>

\* _cooldown and halted live in memory: a new process knows neither, nor what
\* the old one still had at the relayer.
RedeemRestart ==
    /\ sweep' = <<FALSE, {}>> /\ job' = [u \in Users |-> NoJob]
    /\ cooling' = {} /\ halted' = FALSE /\ late' = 0 /\ unknown' = {}
    /\ orphaned' = orphaned \cup unknown \cup
          {x \in Pairs : job[x[1]].pc = "wait" /\ x[2] \in job[x[1]].batch}
    /\ UNCHANGED <<resolved, holding, managed>>

-----------------------------------------------------------------------------
SweepStart ==
    /\ ~sweep[1] /\ ~halted /\ sweep' = <<TRUE, Users>>
    /\ UNCHANGED <<resolved, holding, managed, job, cooling, halted, unknown, orphaned, late>>
SweepEnds ==
    /\ sweep = <<TRUE, {}>> /\ Active = {} /\ sweep' = <<FALSE, {}>>
    /\ UNCHANGED <<resolved, holding, managed, job, cooling, halted, unknown, orphaned, late>>

\* Mutant: only the pass looks at halted.
TurnAllowedAnyway == TRUE
TurnAllowed == ~halted
TurnStart(u) ==
    /\ sweep[1] /\ u \in sweep[2] /\ Cardinality(Active) < Concurrency
    /\ sweep' = <<TRUE, sweep[2] \ {u}>>
    /\ job' = IF TurnAllowed THEN [job EXCEPT ![u].pc = "ledger"] ELSE job
    /\ UNCHANGED <<resolved, holding, managed, cooling, halted, unknown, orphaned, late>>

\* _ledger_fences, _cooling and select_candidates on the listed positions.
\* Mutant: cool-downs are not asked.
CandidatesHot(u, listed) == {m \in listed : <<u, m>> \notin managed}
Candidates(u, listed) == {m \in listed : <<u, m>> \notin managed \cup cooling}
ReadLedger(u) ==
    /\ job[u].pc = "ledger"
    /\ \E batch \in SUBSET Candidates(u, Markets) :
         /\ Cardinality(batch) <= MaxPerTx
         /\ job' = [job EXCEPT ![u] = IF batch = {} THEN NoJob ELSE [pc |-> "prove", batch |-> batch]]
    /\ UNCHANGED <<resolved, holding, managed, sweep, cooling, halted, unknown, orphaned, late>>

\* _prove: resolved on chain, and held for a payout or, when asked, for none.
\* Mutant: a market is redeemed on the listing's word.
ProvesListed(u, m) == holding[u][m] # "none"
Proves(u, m) ==
    /\ m \in resolved
    /\ holding[u][m] = "wins" \/ (RedeemLosses /\ holding[u][m] = "loses")
Prove(u) ==
    /\ job[u].pc = "prove"
    /\ \E proven \in SUBSET {m \in job[u].batch : Proves(u, m)} :    \* the rest: refused by Gamma
         job' = [job EXCEPT ![u] = IF proven = {} THEN NoJob ELSE [pc |-> "submit", batch |-> proven]]
    /\ UNCHANGED <<resolved, holding, managed, sweep, cooling, halted, unknown, orphaned, late>>

Submit(u) ==
    /\ job[u].pc = "submit" /\ job' = [job EXCEPT ![u].pc = "wait"]
    /\ late' = IF halted THEN late + 1 ELSE late
    /\ UNCHANGED <<resolved, holding, managed, sweep, cooling, halted, unknown, orphaned>>

Ends(u) == job' = [job EXCEPT ![u] = NoJob]

\* An error out of execute_transaction or of the wait: it was sent, or it was not.
MayLive(u) ==
    \E live \in {{}, job[u].batch} : unknown' = unknown \cup Of(u, live)

\* The SDK or the relayer refuses on policy: it would refuse every batch.
Refused(u) ==
    /\ job[u].pc = "wait" /\ Ends(u) /\ halted' = TRUE /\ MayLive(u)
    /\ UNCHANGED <<resolved, holding, managed, sweep, cooling, orphaned, late>>
\* Rejected otherwise, failed on chain, timed out: the markets cool down.
NotConfirmed(u) ==
    /\ job[u].pc = "wait" /\ Ends(u) /\ MayLive(u)
    /\ cooling' = cooling \cup Of(u, job[u].batch)
    /\ UNCHANGED <<resolved, holding, managed, sweep, halted, orphaned, late>>
\* Confirmed; a market this RPC still shows as held cools down.
Confirmed(u) ==
    /\ job[u].pc = "wait" /\ Ends(u) /\ holding' = Emptied(u, job[u].batch)
    /\ \E behind \in SUBSET job[u].batch : cooling' = cooling \cup Of(u, behind)
    /\ UNCHANGED <<resolved, managed, sweep, halted, unknown, orphaned, late>>
\* Any read before the submission raises.
TurnFails(u) ==
    /\ job[u].pc \in {"ledger", "prove", "submit"} /\ Ends(u)
    /\ UNCHANGED <<resolved, holding, managed, sweep, cooling, halted, unknown, orphaned, late>>

Turn(u) == \/ TurnStart(u) \/ ReadLedger(u) \/ Prove(u) \/ Submit(u) \/ Refused(u)
           \/ NotConfirmed(u) \/ Confirmed(u) \/ TurnFails(u)
RedeemNext ==
    \/ (\E m \in Markets : Resolve(m)) \/ (\E x \in Pairs : Ledger(x) \/ Warm(x) \/ Lands(x))
    \/ RedeemRestart \/ SweepStart \/ SweepEnds \/ (\E u \in Users : Turn(u))

RedeemSpec == RedeemInit /\ [][RedeemNext]_redeemVars

-----------------------------------------------------------------------------
(* A halt stops the job but for the turns already under way: at most         *)
(* Concurrency - 1 transactions are sent after it, in this pass and in all   *)
(* later ones of the process.  The comment says none is (redeem.py:368).     *)
HaltHolds == late < Concurrency

(* No process submits a market again while an earlier transaction of its own *)
(* for it may still execute, whatever error ended the wait (_cool, _halt).   *)
(* What an earlier process left at the relayer may be sent a second time.    *)
NoSecondTransaction ==
    \A u \in Users : job[u].pc \in {"submit", "wait"} =>
       Of(u, job[u].batch) \cap unknown = {}

(* A holding is only ever given up for a market that has resolved, and a     *)
(* losing one only when losses are to be cleared, whatever the listings say  *)
(* and whichever process sent the transaction.                               *)
OnlyProvenRedeemed ==
    [][\A x \in Pairs : holding'[x[1]][x[2]] # holding[x[1]][x[2]] =>
          x[2] \in resolved /\ (RedeemLosses \/ holding[x[1]][x[2]] = "wins")]_redeemVars
=============================================================================
