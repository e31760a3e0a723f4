------------------------------ MODULE MCService ------------------------------
(***************************************************************************)
(* The components around the wiki itself, in one model for TLC: Synto's    *)
(* INDEX and vault, suggested queries and the log on the worker's side,    *)
(* accounts, the rate limiter, reads and queries on the BFF's.  They share *)
(* no variable, so every property is about the steps of one of them: the   *)
(* first state fixes which one moves, the others stay in an initial state, *)
(* and the state graph is the union of the components' own.                *)
(***************************************************************************)
EXTENDS SyntoIndex, Accounts, RateLimiter, IndexReads,
        QueryAnswer, WorkerLog, SyntoVault, SuggestedQueries

VARIABLE part    \* the component that moves

serviceVars == <<indexVars, accountVars, limiterVars, readVars,
                 queryVars, logVars, vaultVars, chipVars, part>>

TheKinds == [c \in Criteria |-> c]

TheSecret == <<"s", "s", "k">>
(* A record and a marker among them: nothing keeps a child from printing    *)
(* either.                                                                  *)
TheChunks == {<<"s">>, <<"s", "k">>, <<"E", "c", "n">>, <<"F", "n">>, <<"n", "M", "n">>}

(* The names of attempts, readers and rebuilds mean nothing; attempts and   *)
(* readers have the same ones.                                              *)
ServiceSymmetry == Permutations(Attempts) \cup Permutations(Rebuilders)

Parts == {"index", "accounts", "limiter", "reads", "query", "log", "vault", "chips"}

FirstCorpus == CHOOSE c \in Corpora : TRUE

ServiceInit ==
    /\ part \in Parts
    /\ IndexInit /\ LimiterInit /\ ReadsInit
    /\ AccountsInit /\ (part = "accounts" \/ envEnabled = "unset")
    /\ QueryInit
    /\ part = "query" \/ (wiring = "options" /\ corpus = FirstCorpus /\ named = {})
    /\ LogInit /\ (part = "log" \/ mode = "cloud")
    /\ VaultInit /\ (part = "vault" \/ (vault = EmptyVault /\ place = "cloud"))
    /\ ChipInit /\ (part = "chips" \/ (chips = NoArtifact /\ indexed = {}))

(* Everything but the variables of one component stays.                     *)
Others(p) ==
    /\ part = p /\ UNCHANGED part
    /\ p # "index" => UNCHANGED indexVars
    /\ p # "accounts" => UNCHANGED accountVars
    /\ p # "limiter" => UNCHANGED limiterVars
    /\ p # "reads" => UNCHANGED readVars
    /\ p # "query" => UNCHANGED queryVars
    /\ p # "log" => UNCHANGED logVars
    /\ p # "vault" => UNCHANGED vaultVars
    /\ p # "chips" => UNCHANGED chipVars

ServiceNext ==
    \/ Others("index") /\ IndexNext
    \/ Others("accounts") /\ AccountsNext
    \/ Others("limiter") /\ LimiterNext
    \/ Others("reads") /\ ReadsNext
    \/ Others("query") /\ QueryNext
    \/ Others("log") /\ LogNext
    \/ Others("vault") /\ VaultNext
    \/ Others("chips") /\ ChipNext

ServiceSpec == ServiceInit /\ [][ServiceNext]_serviceVars
==============================================================================
