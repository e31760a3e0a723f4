----------------------------- MODULE SyntoVault -----------------------------
(***************************************************************************)
(* One pipeline run as the worker conducts it: which invocations it        *)
(* accepts, how it prepares the private workspace for Synto (adopting an   *)
(* existing Synto vault, migrating a legacy OLW one or initialising a new  *)
(* one), the checks around each child process, and what it publishes.      *)
(* Synto itself is external: a child may leave the workspace's artifacts   *)
(* in any state and may exit with an error.                                *)
(***************************************************************************)
EXTENDS Naturals

CONSTANT MaxPipelineRuns           \* bound on pipeline runs

ASSUME VaultAssumption == MaxPipelineRuns \in Nat

(* synto.toml: absent, unparseable, with an unsafe or a mistyped pipeline   *)
(* setting, with a date, or safe: the worker's default, a user's, or a     *)
(* migrated one that was normalised.                                       *)
SafeConfigs == {"default", "users", "dated", "normalized"}
Configs == {"none", "broken", "unsafe", "mistyped"} \cup SafeConfigs
SyntoDirs == {"none", "bare", "index", "corrupt", "state"}           \* .synto
OLWDirs == {"none", "bare", "locks", "other", "corrupt", "state"}    \* .olw

Vaults == [config : Configs, synto : SyntoDirs, wikiToml : BOOLEAN, olw : OLWDirs]
EmptyVault == [config |-> "none", synto |-> "none", wikiToml |-> FALSE, olw |-> "none"]

(* Vaults as projects really have them: new, on OLW, on Synto, migrated,    *)
(* or left by hand in some odd state.                                      *)
ProjectVaults ==
    {EmptyVault} \cup
    [config : {"none"}, synto : {"none"}, wikiToml : BOOLEAN, olw : OLWDirs] \cup
    [config : Configs, synto : {"state", "corrupt", "index"}, wikiToml : {TRUE}, olw : {"state", "locks"}] \cup
    [config : Configs, synto : SyntoDirs, wikiToml : {FALSE}, olw : {"none", "other"}]

VARIABLES
    vault,      \* the live vault, or the current generation
    place,      \* "cloud" or "local"
    ws,         \* the private workspace
    inputs,     \* "same" or "altered": raw and wiki against the vault's
    run,        \* [at, mode, clean, key]
    begunRuns,       \* runs begun
    began,      \* the workspace and inputs Synto's run command started with
    published   \* the vault is what a run published

vaultVars == <<vault, place, ws, inputs, run, begunRuns, began, published>>

NoRun == [at |-> "none", mode |-> "none", clean |-> FALSE, key |-> FALSE]
NotBegun == [on |-> FALSE, from |-> EmptyVault, ws |-> EmptyVault, inputs |-> "same"]

VaultInit ==
    /\ vault \in ProjectVaults /\ place \in {"cloud", "local"}
    /\ ws = EmptyVault /\ inputs = "same"
    /\ run = NoRun /\ begunRuns = 0 /\ began = NotBegun
    /\ published = FALSE

----------------------------------------------------------------------------
(* Invocation.                                                              *)

(* What a command line and its environment can ask for.                    *)
Invocations == [bucket : BOOLEAN, localFlag : BOOLEAN, localEnv : BOOLEAN,
                batch : {"run", "other", "malformed"}, postprocess : BOOLEAN,
                clean : BOOLEAN, key : BOOLEAN]

parseCommandBatch(i) == i.batch # "malformed"
validateSyntoCommandBatch(i) == i.batch = "run"

(* A worker with a bucket ignores inherited local settings.                *)
configFromEnvironment(i) == [i EXCEPT !.localEnv = @ /\ ~i.bucket]

(* With a bucket explicit local settings are refused; without one the      *)
(* worker needs a vault, which it leaves alone when not postprocessing.    *)
Mode(i) ==
    LET cfg == configFromEnvironment(i) IN
    IF ~(parseCommandBatch(cfg) /\ validateSyntoCommandBatch(cfg)) THEN "refused"
    ELSE IF cfg.bucket
    THEN IF cfg.localFlag \/ ~cfg.postprocess THEN "refused" ELSE "cloud"
    ELSE IF ~(cfg.localFlag \/ cfg.localEnv) THEN "refused"
    ELSE IF cfg.postprocess THEN "local" ELSE "scratch"

(* createWorkspace copies the vault with the lease just taken in .olw; an   *)
(* empty directory is not copied.                                          *)
createWorkspace(v, leased) ==
    [v EXCEPT !.synto = IF @ = "bare" THEN "none" ELSE @,
              !.olw = IF @ \in {"none", "bare"} THEN (IF leased THEN "locks" ELSE "none") ELSE @]

(* materializeCloudWorkspace installs only generation-owned files, or none *)
(* of them for a clean rebuild.                                            *)
materializeCloudWorkspace(v, clean) ==
    IF clean THEN EmptyVault
    ELSE [v EXCEPT !.synto = IF @ = "bare" THEN "none" ELSE @,
                   !.olw = IF @ \in {"bare", "locks", "other"} THEN "none" ELSE @]

runWorkerBatch(i) ==
    /\ run.at \in {"none", "ended"} /\ begunRuns < MaxPipelineRuns
    /\ Mode(i) \in {place} \cup {m \in {"scratch"} : place = "local"}
    /\ ws' = IF Mode(i) = "cloud" THEN materializeCloudWorkspace(vault, i.clean)
             ELSE createWorkspace(vault, Mode(i) = "local")
    /\ run' = [at |-> "ensure", mode |-> Mode(i), clean |-> i.clean /\ Mode(i) = "cloud",
               key |-> i.key]
    /\ begunRuns' = begunRuns + 1
    /\ inputs' = "same" /\ began' = NotBegun
    /\ UNCHANGED <<vault, place, published>>

Fails ==
    /\ run' = [run EXCEPT !.at = "ended"]
    /\ UNCHANGED <<vault, place, begunRuns, published>>

Proceeds(at) ==
    /\ run' = [run EXCEPT !.at = at]
    /\ UNCHANGED <<vault, place, begunRuns, published>>

----------------------------------------------------------------------------
(* ensureSyntoVault.                                                        *)

validateSyntoPipelineSafety(w) == w.config \in SafeConfigs
validateSQLiteArtifact(dir) == dir # "corrupt"
HasState(dir) == dir \in {"state", "corrupt"}

(* Only the worker's own lease and lock files may be in an .olw directory  *)
(* without a state database.                                               *)
validateOLWWithoutState(w) == w.olw \in {"none", "locks", "state", "corrupt"}

AdoptsSynto(w) ==
    /\ w.config # "none"
    /\ HasState(w.synto) \/ (w.synto = "none" /\ ~w.wikiToml /\ ~HasState(w.olw))
    /\ validateSQLiteArtifact(w.synto) /\ validateSQLiteArtifact(w.olw)
    /\ validateOLWWithoutState(w)
    /\ validateSyntoPipelineSafety(w)

Migrates(w) ==
    /\ w.config = "none" /\ w.synto = "none"
    /\ w.wikiToml /\ HasState(w.olw) /\ validateSQLiteArtifact(w.olw)

(* Mutant: a vault is initialised over what it holds.                      *)
InitialisesAnyway(w) == w.config = "none" /\ w.synto = "none" /\ ~w.wikiToml

Initialises(w) ==
    /\ w.config = "none" /\ w.synto = "none"
    /\ validateOLWWithoutState(w)
    /\ ~w.wikiToml /\ ~HasState(w.olw)

ensureSyntoVault ==
    /\ run.at = "ensure"
    /\ \/ AdoptsSynto(ws) /\ Proceeds("run") /\ UNCHANGED ws
       \/ Migrates(ws) /\ Proceeds("migrate") /\ UNCHANGED ws
       \/ /\ Initialises(ws) /\ run.key
          /\ Proceeds("run") /\ ws' = [ws EXCEPT !.config = "default"]
       \/ /\ ~(AdoptsSynto(ws) \/ Migrates(ws) \/ (Initialises(ws) /\ run.key))
          /\ Fails /\ UNCHANGED ws
    /\ UNCHANGED <<inputs, began>>

(* What a child process may leave behind.                                  *)
ChildLeaves(configs, dirs) ==
    \E c \in configs, d \in dirs, legacy \in {TRUE, FALSE} :
        ws' = [ws EXCEPT !.config = c, !.synto = d,
                         !.wikiToml = @ /\ legacy,
                         !.olw = IF legacy \/ ~HasState(@) THEN @ ELSE "bare"]

(* migrate-olw; the snapshots before and after must agree on raw, wiki and *)
(* the rollback artifacts, and the artifacts it promises must be there.    *)
migrateOLW ==
    /\ run.at = "migrate"
    /\ ChildLeaves(Configs, SyntoDirs)
    /\ inputs' \in {"same", "altered"}
    /\ \/ Proceeds("migrated") \/ Fails
    /\ UNCHANGED began

SkipSnapshots(w) == w.config # "none" /\ w.synto = "state"

equalMigrationInputs(w) ==
    /\ w.config # "none" /\ w.synto = "state"
    /\ inputs = "same" /\ w.wikiToml /\ w.olw = "state"

(* A config that parses, has no dates and no mistyped setting is rewritten *)
(* with the three settings off.                                            *)
normalizeMigratedSyntoConfig ==
    /\ run.at = "migrated"
    /\ \/ /\ equalMigrationInputs(ws) /\ ws.config \in {"unsafe", "users", "default", "normalized"}
          /\ ws' = [ws EXCEPT !.config = "normalized"]
          /\ Proceeds("run")
       \/ /\ ~(equalMigrationInputs(ws) /\ ws.config \in {"unsafe", "users", "default", "normalized"})
          /\ Fails /\ UNCHANGED ws
    /\ UNCHANGED <<inputs, began>>

----------------------------------------------------------------------------
(* The run command, the export and publication.                            *)

(* runOLWBatch checks the settings again just before the child starts.     *)
runOLWBatch ==
    /\ run.at = "run"
    /\ \/ /\ validateSyntoPipelineSafety(ws)
          /\ began' = [on |-> TRUE, from |-> vault, ws |-> ws, inputs |-> inputs]
          /\ ChildLeaves({ws.config, "none", "broken", "unsafe", "users"}, {"none", "corrupt", "state"})
          /\ \/ Proceeds("export") \/ Fails
       \/ /\ ~validateSyntoPipelineSafety(ws)
          /\ Fails /\ UNCHANGED <<ws, began>>
    /\ UNCHANGED inputs

(* ensureSyntoIndex installs the exported INDEX in .synto, which thereby   *)
(* exists; the settings are checked once more, and postprocessing and      *)
(* reconciliation may fail.                                                *)
ensureSyntoIndex ==
    /\ run.at = "export"
    /\ ws' = [ws EXCEPT !.synto = IF @ = "none" /\ run.mode # "scratch" THEN "index" ELSE @]
    /\ \/ Fails
       \/ validateSyntoPipelineSafety(ws') /\ run.mode # "scratch" /\ Proceeds("publish")
    /\ UNCHANGED <<inputs, began>>

(* Mutant: outputs are published without the check.                        *)
PreflightWithoutCheck(w) == w.config # "none" /\ HasState(w.synto)

preflightGenerationOutputs(w) ==
    /\ w.config # "none" /\ HasState(w.synto)
    /\ w.wikiToml = HasState(w.olw)
    /\ validateSQLiteArtifact(w.synto) /\ validateSQLiteArtifact(w.olw)

(* A generation has only owned files; a local publication replaces the     *)
(* listed files and leaves what else is in .olw.                           *)
PublishedFiles(w) ==
    [w EXCEPT !.olw = IF run.mode = "local" /\ vault.olw = "other" THEN "other"
                      ELSE IF HasState(@) THEN @
                      ELSE IF run.mode = "local" THEN "bare" ELSE "none"]

Publish ==
    /\ run.at = "publish"
    /\ \/ /\ preflightGenerationOutputs(ws)
          /\ vault' = PublishedFiles(ws) /\ published' = TRUE
       \/ UNCHANGED <<vault, published>>
    /\ run' = [run EXCEPT !.at = "ended"]
    /\ UNCHANGED <<place, ws, inputs, begunRuns, began>>

VaultNext ==
    \/ \E i \in Invocations : runWorkerBatch(i)
    \/ ensureSyntoVault \/ migrateOLW \/ normalizeMigratedSyntoConfig
    \/ runOLWBatch \/ ensureSyntoIndex \/ Publish

VaultSpec == VaultInit /\ [][VaultNext]_vaultVars

----------------------------------------------------------------------------
Identified(v) ==
    \/ HasState(v.synto) \/ HasState(v.olw) \/ v.wikiToml
    \/ v.olw = "other" /\ place = "local"

(* Whatever earlier runs and children left, Synto's run command starts     *)
(* only with safe settings, on inputs no migration has changed, and, when  *)
(* the project has a Synto or a legacy identity, never on a workspace      *)
(* without one, where it would give every page a new identity.             *)
SyntoStartsSafely ==
    began.on =>
        /\ began.ws.config \in SafeConfigs
        /\ began.inputs = "same"
        /\ Identified(began.from) /\ ~run.clean => began.ws.synto = "state"

(* What the next run begins with. *)
NextWorkspace == IF place = "cloud" THEN materializeCloudWorkspace(vault, FALSE)
                 ELSE createWorkspace(vault, TRUE)

(* However the children behaved, what a run publishes, as a generation or   *)
(* into a local vault, is what the next run's preparation adopts.           *)
PublishedIsAdopted == published => AdoptsSynto(NextWorkspace)
==============================================================================
