# A TLA+ model of the CRE CLI

`cre` is a command line program that deploys workflows to an on-chain (or
private) registry, manages their secrets, and simulates them locally.  One
invocation is mostly sequential.  What makes it hard to get right lies between
invocations and outside the process: the registry is shared with other
terminals, CI jobs and multisig signers; a transaction lands minutes or days
after the command that decided on it; credentials and context files are shared
by processes that refresh them; the simulator talks to an engine that runs on
goroutines of its own.  The modules here model these parts, check them with TLC
and prove the central safety properties with TLAPS.

## The system: inventory

| Component (source) | State | Operations | What is hard | What makes it correct |
|---|---|---|---|---|
| Workflow lifecycle, on-chain (`cmd/workflow/{deploy,pause,activate,delete}`) | the registry contract's entries; artifacts in storage; the handler's view (`existingWorkflowStatus`, ids found) | deploy, pause, activate, delete, each in regular, raw and changeset mode | reads long before the transaction lands; several calls at once; delete in several transactions; a limit checked on a stale read | stored before registered; no lost failure; status kept by an update; the limit exceeded by no more than the overlap |
| Registry client, transactions (`cmd/client`) | seth client, transaction mode | read calls, `executeTransactionByTxType` | a failed wait for a transaction that is mined later | success is reported only for a mined transaction with its event |
| Owner linking (`cmd/account`, `deploy/auto_link.go`) | linked owners on chain and in the backend | link, unlink, auto-link, list | two views of one fact; expiring link requests; unlink wipes the workflows | nothing is registered for an owner who is not linked |
| Artifact storage (`deploy/artifacts.go`, `storageclient`) | objects by workflow id | presigned POST, upload, GET url, retries | unknown outcomes, "already exists" | an uploaded artifact is complete |
| Private registry (`*_strategy_private.go`, `privateregistryclient`) | workflows in the backend | the same four commands over GraphQL | errors recognised by their text | same as on-chain, without transactions |
| Changeset file (`cmd/common/utils.go`) | a YAML file | read, append, write | concurrent commands | no changeset is lost |
| Simulate session (`cmd/workflow/simulate`) | trigger loop, request queue, completion signal, errors of the hooks | `waitFn`, `runHTTPListen`, engine hooks, Ctrl+C | a signal without identity; a timeout that does not stop the execution; two error variables | executions overlap only after timeouts; success is earned; the session ends |
| Secrets (`cmd/secrets`) | allowlist on chain with expiry; bundle on disk; the vault | create, update, delete, list, execute; browser flow | two-step multisig flow; gateway retries; delayed POSTs | what is signed can be executed; a posted request was allowlisted |
| Login, credentials, tenant context (`cmd/login`, `internal/credentials`, `internal/tenantctx`, `graphqlclient`) | `cre.yaml`, its temporary file, `context.yaml`, refresh tokens on the server | login, refresh, logout, context fetch | concurrent processes, token rotation, kill between two steps | a session that is valid on the server is the one on disk |
| Root command gate (`cmd/root.go`, `internal/runtime`) | the runtime context | attach credentials, settings, registry | order and exemptions per command | no command runs without what it needs |
| Settings, registry resolution (`internal/settings`) | none | lookups with precedence | many sources of one value | the documented precedence |
| Update check and self-update, templates, init wizard | cache files, the binary | download, verify, replace; cache with fallback; wizard steps | crash between steps, stale caches | the binary is the old or the verified new one |
| Queries (`cmd/workflow/{list,get}`, `cmd/execution`, `workflowresolve`) | none; the platform's list goes on changing | pages, names, ids, events, logs | a list that changes between two pages; a registry that is told from an address in a row | whole lists; the right workflow for a name |
| Simulation set-up and capabilities (`simulate.go`, `limits.go`, `chain/`) | clients, keys, limits, the log listener's cursor | resolve, validate, listen, replay | values read in one place and used in another; nodes that lag and chains that are reorganised | a simulation does what it was told; an event fires once |
| Build, hash, convert (`cmd/common/compile.go`, `cmd/workflow/{build,hash,convert}`) | files of fixed names in the folder | compile, hash, custom-build | builds that overlap, fail or are stopped | the binary is the one that was built |
| Bindings, UI, redaction, validation | none worth modelling | pure | - | - |

`PROJECT.json` lists every component with its files and status, and every hazard
at the line where it bites.

How they interact: the root command attaches credentials, tenant context and the
resolved registry to a runtime context; a lifecycle command asks the account part
to link the owner, the storage part to keep the artifacts and the registry client
to read and to transact; secrets use the same client for the allowlist and then
the gateway.  Calls interact with each other only through the contract, the
storage, the backend and the files in `~/.cre`.

## Modules

| Module | Models |
|---|---|
| `OnchainLifecycle` | concurrent deploy / pause / activate / delete calls against the contract |
| `OnchainLifecycle_proofs` | `TypeCorrect`, `LimitSafety`, `StoredSafety`; `OkMeansLandedHolds`, `QuietEndingsHolds`, `UpdateKeepsStatusHolds`, `PauseIsCompleteHolds` |
| `MCOnchainLifecycle` | registries and jobs for TLC |
| `SimulateSession` | the loop, HTTP server and hooks of `cre workflow simulate` |
| `SimulateSession_proofs` | `TypeCorrect`, `OverlapBounded`, `ListenGoesOnHolds`, `SuccessIsEarnedHolds` |
| `MCSimulateSession` | symmetry for TLC |
| `SecretsFlow`, `MCSecretsFlow` | secrets create / update / delete / list / execute, the allowlist, the bundle, the changeset file, the gateway |
| `SecretsFlow_proofs` | `TypeCorrect`, `PostedWasAllowedHolds`, `SuccessIsKeptHolds`, `SignableHasBundleHolds`, `ChangesetKeptHolds` |
| `LocalSession` | `cre.yaml`, its temporary file and `context.yaml` under concurrent login, logout and commands |
| `LocalSession_proofs` | `TypeCorrect`, `TornNeedsClashHolds`, `SessionSurvivesHolds`, `ContextOfAccountHolds`, `LogoutDeletesHolds` |
| `LoginCallback` | the local callback server of a login and the channel to the command |
| `MCLocalSession` | both of these as two parts of one run |
| `ArtifactUpload` | the storage client's three requests per artifact with their retries |
| `PrivateRegistry` | deploy, activate, pause, delete over GraphQL; EXTENDS `ArtifactUpload` |
| `RegistrySlot` | abstract: what the four commands promise about one workflow name |
| `OwnerLink` | link-key, unlink-key and the auto-link of a deploy, contract and backend |
| `MCBackend` | `PrivateRegistry` and `OwnerLink` as two parts of one run |
| `Backend_proofs` | `TypeCorrect`, `StoredFirstHolds`, `RespectsWorkflowHolds`, `Implements` (the refinement); `LinkTypeCorrect`, `GoesOnLinkedHolds`; `TypesHold` of both |
| `TemplateCache`, `InitWizard` | the cache that all commands share; the wizard of one command |
| `ProjectInit` | all of `cre init`, over these two |
| `ProjectInit_proofs` | `ProjectTypeCorrect`, `ProjectsSoundHolds` |
| `SelfUpdate` | `cre update` and the check for updates |
| `CommandGate` | the root command's `PersistentPreRunE`: credentials, settings, registry, owner; and the owner of a hash |
| `WorkflowQuery` | list, get and the execution queries over a platform that changes |
| `WorkflowQuery_proofs` | `QueryTypeCorrect`, `QueriesAnswerHolds` |
| `SimulateSetup` | what a simulation does before its session, and its capabilities' limits |
| `LogTrigger` | the log listener of an EVM trigger, and the replay of a transaction |
| `WorkflowBuild` | build, hash, deploy, simulate and custom-build in one folder |
| `Tooling_proofs` | `UpdatesSoundHolds`, `ReadyToRunHolds`, `BuildsOwnHolds`, `SimulatesAsToldHolds`, `TriggersOnceHolds`; `ToolingTypesHold` of all seven parts |
| `MCTooling` | the nine modules from `TemplateCache` to `WorkflowBuild` as parts of one run |

`PrivateRegistry` composes with `ArtifactUpload`, `ProjectInit` with `TemplateCache`
and `InitWizard`: their steps interleave on shared state.  The MC modules put
components that share *no* state into one run as alternatives: the variable `part`
says which of them a behaviour is about, the others keep their initial values.

### OnchainLifecycle

*State.* `entries` maps a version <<name, tag>> to an id, a status, a DON family
and an age (the contract keys entries by owner, name and tag; the module is about
one owner).  `linked`, `stored` (what the storage service has) and
`doomed` (what its cleanup has still to take) are the rest of the outside world.  Each call has a
program counter, the status a deploy saw (`existingWorkflowStatus`), the ids it
decided on (`targets`), those it has left (`todo`), the transaction it waits for
(`cur`) and what it told the user (`outcome`).  `pending` holds transactions that
were handed to the chain or to signers.  `landed`, `disturbed`, `moved` and
`orphaned` are history: they occur in properties only.

*Actions and code.*

| Actions | Code |
|---|---|
| `Start`, `VerifyOwner`, `AutoLink` | `deploy.go` Execute, `auto_link.go`; errDeployHalted ends a multisig deploy with success |
| `CheckExists`, `Accept`, `Decline`, `Upload` | `CheckWorkflowExists`, `confirmWorkflowOverwrite`, `uploadArtifacts` |
| `CountSameName`, `CheckLimit` | `checkUserDonLimitBeforeDeploy` and `CheckUserDonLimit`, two reads |
| `FetchToPause`, `FetchToActivate`, `FetchToDelete` | the three other commands' reads and preconditions |
| `Send`, `Prepare`, `Refuse`, `Confirmed`, `Unconfirmed` | `executeTransactionByTxType` in regular mode (sent and waited for) and in raw and changeset mode (left to signers), and its failures |
| `Settle` | after a transaction: the next id of delete, or the end; errors are kept (`errors.Join`) |
| `Abort` | every early error return before a transaction exists |
| `Land*`, `Drop`, `Unlink`, `Relink` | the contract and the account commands |
| `Cleanup` | the background process that deletes the artifacts of deleted workflows |

*Abstractions.* A workflow id is <<name, build>>: the hash of name, binary and
config.  Calls differ in command, name, build, DON family, mode and `--yes`.
Owners, gas, explorers and output are left out.  Artifacts given by URL (which skip
the upload), the request for deployment access and Ledger mode are left out; so
is the limit enforcement of the contract, since the properties are about the CLI's
own check.

*Assumptions about the contract* (its code is not in the repository; they come from
how the CLI uses it): upsert writes the entry of owner, name and tag and, with
`keepAlive` false and status active, pauses the name's other versions (for a paused
upsert the model allows both); ids are unique; upsert needs a linked owner;
unlinking wipes the owner's workflows (`unlink_key.go:179` says so); any
transaction may revert.

*Assumptions about the storage.*  It forgets.  All that the code says of this is
`registry_delete_strategy_onchain.go:162`, "Workflow artifacts deletion will be handled
by a background cleanup process".  A delete that lands dooms the ids it deleted, an
unlink those of the whole owner (the source announces the cleanup for a delete only; the
model takes the worse case), and `Cleanup` takes everything doomed, at any later time,
whether or not an id is in use again by then: nothing is known of what the process looks
at.  So a delete, a redeploy of the same build and then the cleanup leave a version
without artifacts, and the CLI has no means against it.  `orphaned` holds exactly the
ids that a cleanup took while they were registered, or uploaded for a registration that
was on the way; the next upload of an id takes it out.  `RegisteredIsStored` exempts
these and nothing else: a deploy that relied on the upload of an earlier one would break it.

### SimulateSession

*State.* `mode` says which loop runs: `http` for `runHTTPListen`, `chain` for
`waitFn` with a listening trigger, `once` for a single run.  `at` tells where each
event is (queue, trigger channel, engine, result); `signal` is
`executionFinishedCh`; `cancelled` is `hookCtx.Done()`; `lifecycleErr`, `resultErr`
are the two error variables of `run`; `verdict` and `ender` are history.

*Actions and code.* `Post` is the handler of `/trigger`; `TakePayload`, `Arm`,
`Observe`, `Deliver`, `RateLimited`, `TriggerFails`, `Finished`, `TimedOut` are the
steps of a round; `Take`, `ResultReceived`, `ExecutionError` are the engine and its
hooks; `InitFails`, `Initialized`, `Interrupt`, `Stop`, `Return` are start and end.
The HTTP trigger writes to a channel of one event and blocks, a chain trigger writes
from its own goroutine: `Deliver` differs by mode for that reason.

*Abstractions.* Memory is sequentially consistent: the unsynchronised accesses to
`executionResultErr` and `listen` are atomic steps in any order.  What a trigger
listens to is not modelled beyond "it sees an event".  In `http` mode the server may
answer until the loop has ended.

### SecretsFlow

*State.* A call is the list of its remaining steps (`todo`), computed from its
command, its authorization and its transaction mode as the handlers lay them out; each
step may end it early.  `allow` is the contract's map from digests to deadlines, `now`
the clock, `txs` the transactions that somebody may still get mined, `bundles` and
`csFile` the disk, `copies` the POSTs that are under way without a sender.

| Actions | Code |
|---|---|
| `Flags`, `Setup`, `ResolveInputs`, `ResolveDeleteInputs`, `Consent`, `EnsureRPC`, `VerifyOwner`, `VaultKey`, `EncryptSecrets`, `BuildRequest`, `LoadBundle` | the commands and `handler.go` up to the request |
| `Allowlist`, `Confirmed`, `Unconfirmed`, `CheckAllowlisted` | the allowlist transaction in its three modes |
| `SaveBundle`, `LogMSIGNextSteps`, `ReadChangesets`, `TruncateChangesets`, `WriteChangesets` | what a multisig owner is left with |
| `BrowserStep` | authorization, callback and token exchange of the browser flow |
| `PostAnswered`, `PostLost`, `PostRefused`, `PostRejected`, `LateCopy` | `http_client.go`: a POST that is answered, that is lost on either way (and may arrive later), refused, or rejected before the deadline is seen |
| `VerifyResponse`, `ParseVaultGatewayResponse`, `Kill`, `Land`, `Tick` | the answer; the process, the chain and time |

The gateway and the vault are external: a request is processed at most once and only
while its digest is allowlisted or its token is good.  What becomes of single secrets
inside the answer is left out: the code prints them and succeeds.

### LocalSession and LoginCallback

*State.* Files are inodes: `file` and `tmp` name the inodes of `cre.yaml` and
`cre.yaml.tmp`, a process keeps the inode that it opened (`fd`), so a write after a
foreign rename goes where it goes on a POSIX system.  `mem` are the tokens a process
holds, `live` those the server accepts.  Each process runs one command.

| Actions | Code |
|---|---|
| `AttachCredentials`, `NotLoggedIn`, `ValidateCredentials`, `CommandQuery`, `SendEvent`, `RequestFails` | `credentials.go`, `validator.go`, the query of the command, telemetry's own request |
| `RefreshToken`, `RefreshFails`, `RefreshTokenLost` | `graphqlclient.go`, `auth/service.go`; the server may rotate |
| `SaveOpen`, `SaveWrite`, `SaveRename`, `SaveFails` | `SaveCredentials` |
| `UseContext`, `FetchAndWriteContext` | `tenantctx.go` |
| `LoginStart`, `StartAuthFlow`, `ExchangeAuthorizationCode` | `login.go` |
| `LogoutStart`, `Revoke`, `SecureOpen`, `SecureZero`, `SecureRemove`, `SecureRemoveFails`, `RemoveContext` | `logout.go` |
| `Kill` | a signal, or `os.Exit` while telemetry is at work |

`LoginCallback` has the HTTP handlers of `startAuthFlow` (`OrgNotFound`, `Refused`,
`Accept`, `Send`), the channel of capacity one, and the command (`TakeCode`, `Timeout`,
`Shutdown`, which waits for running handlers).  A handler passes on the code of the
`round` it was accepted in.  `Stuck` is the state that no step leads out of: the
command has left its select, the channel is full, and `Shutdown`, whose context has no
deadline (`login.go:164`), waits for a handler that waits for the channel
(`login.go:279`).  TLC reaches it, so a login can hang; `LoginReturns` says that a login
returns or gets stuck, and that it gets stuck only after a third callback with a
valid code, or after a second one when the 500 seconds ended with the first code still in
the channel.  Two valid callbacks within that time do not hang it.

### ArtifactUpload, PrivateRegistry, RegistrySlot

`ArtifactUpload` keeps for each command the artifacts it still has to store, the
request it is at (`GeneratePostUrl`, `UploadToOrigin`, `GenerateGetUrl`) and its failed
attempts; a failed POST may have been stored.  `PrivateRegistry` adds the command around
it: `GetWorkflowByName`, `NotFound` (an error whose text says so, whatever it was),
`Decide`, `ConfirmOverwrite`, `ConfirmDelete`, `Send`, `Answered`, `GaveUp`; the backend
lands a mutation at any time after it was sent (`Land`, `RefuseMutation`).

*Refinement.* `RegistrySlot` is the promise: each command changes the workflow of that
name at most once, in its own way; "ok" comes after the change, "declined" means there is
none and will be none, "error" leaves it open.  `PrivateRegistry` implements it under
`landed <- {c \in Cmds : request[c] = "landed"}`; the property is `KeepsPromise`.

### OwnerLink

Two views of one fact: `owned` in the contract and `view` in the backend, which follows
it (`Follow`).  Requests that the backend signs have an expiry, and the local clock may
be behind the chain's.  `CheckOwner`, `Verify` and `Poll` are the deploy's
(`auto_link.go`), the rest is `link_key.go` and `unlink_key.go`, with the transaction in
regular and raw mode.  External: `Mined`, `Follow`, `Tick`.

### ProjectInit, TemplateCache, InitWizard

The cache has one list and one tarball per tree SHA, written in place, so that another
command may read them half written (`TruncateList`/`WriteList`,
`BeginTarball`/`EndTarball`/`LeaveTarball`).  `InitWizard` is one function of a wizard
and a key (`HandleEnter`) over the five steps.  `ProjectInit` is `Execute` of
`creinit.go` and `ScaffoldTemplate`: `ListCached`, `Discover`, `SaveTemplateList`,
`ResolveTemplate`, `Answer`, `ApplyDefaults`, `EnsureProjectDirectory`,
`ConfirmOverwrite`, `CheckRPCs`, `ScaffoldBuiltIn`, `UseCachedTarball`,
`DownloadTarball`, `ExtractTarball`, `StreamTarball`, `MaybeRenameWorkflowDir`,
`MoveRootEntry`, `Generate`, `Kill`.

*Directories.*  A directory is eight places, each empty or with one file that stands for
those like it: files of the project, other files, a directory without a workflow's files,
three directories with such files (`main.go`, `main.ts`, `workflow.yaml`: what
`hasWorkflowFiles` looks for), and what else is in the directory that is to be the
workflow's, under the names of things at the root.  A file knows whose it is and, if the
template's or the user's, which file of which version, so that a rename can be told from
a loss.

*Archives.*  `Contents[v][t]` is the set of files of template `t` in version `v` of its
repository, and empty when that version does not have the template: extracting it then writes
nothing and returns no error.  `Extract` is a whole archive, `ExtractSome` a damaged one:
any of its files, one of them perhaps cut.  In an existing project both keep what is there
(`Write`).  What a damaged cached archive left stays where the one that is
downloaded next has no such file; `got` remembers the version that was extracted to the end.

*Renaming* follows the template's workflows: many, none of them is renamed; one, its
directory is (`Move`, an `os.Rename`, which a directory with files in it is in the way
of); none listed, the first directory with a workflow's files is, whoever it belongs to
(`RenameFound`).  Without such a directory every entry of the root that is not the
project's goes into the workflow's directory, one by one and over a file of the same name
(`MoveRootEntry`); a directory in the way, or any other error, ends that halfway.

*Properties.*  `NothingLost`: each file of the user, by its identity, is somewhere in the
directory, unless its loss was agreed to or a root file was moved over it.
`WholeTemplate`: a new project that was made has all that `got` holds of the template,
whole and of that version; other files of the template are those that `got` lacks.

### SelfUpdate

`GetLatestTag`, `CompareVersions`, `DownloadAsset`, `ExtractBinary`,
`DownloadSignature`, `VerifyReleaseBinary` (on Linux with its own key, elsewhere by the
system's tools), `ReplaceSelf`; and for the check `LoadCache`, `FetchLatestVersion`,
`SaveCache`, `TellUpdate`.  Processes may be killed; releases go on.

### CommandGate

One step for each part of `PersistentPreRunE`: `FindEnvFile`, `LoadEnvFiles`,
`AttachCredentials`, `Login` (the prompt), `AttachTenantContext`,
`SetExecutionContext`, `SelectTarget`, `LoadSettings`, `HashCredentials`,
`ResolveRegistry`, `ValidateOnchainRegistryRPC`, `FinalizeOwner`; `Hash` is the command
`hash` up to its owner.  What a step reads is chosen when it reads it, so every
combination of files, flags and answers is there.

### WorkflowQuery

`ListPage` is one page of `list`, between which the platform registers workflows and
changes their status; `ResolveWorkflowRegistry` and its helpers are the lookup of a
row's registry; `ResolveByName`, `ResolveByWorkflowID`, `FindExecutionByOnChainID` the
names; `GetWorkflowSummary`, `GetLatestDeployment`, `ListExecutions` the three fetches
that `get` makes at once, `Join` the wait for them; `GetExecution`, `ListEventsOrLogs`
the rest.

### SimulateSetup and LogTrigger

`SimulateSetup` follows `ResolveInputs`, `ValidateInputs`, `Execute` and `run`:
`ResolveClients` (EVM and Solana, built-in and experimental chains), `ResolveKeys`,
`ValidateInputs`, `LoadBinary`, `ResolveLimits`, `CheckBinarySize`, `ReadFiles`,
`Initialize`, `BeforeStart`, and one call of a capability with its limits
(`CallCapability`).  Sizes are small numbers, 0 is no limit.

`LogTrigger` has the chain (`Mine`, `Show`, `Reorganise`), the listener of
`chain/evm/trigger.go` (`NewListener`, `GetHead`, `TakeLog`, `ScanDone`,
`AdvanceFromBlock`, `NextLog`, `StopListening`) and the replay of a transaction
(`ReplayLog`, `ReplayEvent`).  A node's height may be behind another's by `Behind`, the
logs of a block appear after its header, and the newest `Overlap` blocks may be replaced.

### WorkflowBuild

The folder has `path` (workflow-path), a Makefile or not, one above it or not, the
compiler's temporary file `tmp`, the Makefile's output `wasm` and a deploy's output file.
`ReadPath`, `Compile`, `Compiled`, `ReadTmp`, `RemoveTmp` are `CompileWorkflowToWasm`
for Go and TypeScript, whose output is for a moment half written, `FindMakefileRoot`, `Make`, `Made`, `ReadWasm` for a custom
build; `TruncateOutput`, `WriteOutput`, `PrepareWorkflowArtifact` the deploy;
`SetWorkflowPath`, `WriteMakefile` are `custom-build`.  `StopBuild` interrupts a command
anywhere.  Binaries are told apart by the sources they were made from, whether symbols
were stripped, and the folder.

## Runs

| Run | Shows | States | Bounds |
|---|---|---|---|
| `onchain_versions` | stored before registered, over deletes and cleanups; success means landed; quiet endings; an update keeps status; a pause is complete; every started call ends | 465 k | 2 calls, 1 name, 2 tags, 3 builds, 7 jobs, 5 registries |
| `onchain_limit` | the limit is exceeded by at most `MaxOverlap - 1` names | 1.02 M | 3 calls (symmetric), 2 at a time, 3 names, 2 DON families, limit 1 |
| `onchain_paused_race` | finding, below | | |
| `simulate_session` | overlap; what ends a listening session; earned success; accepted requests get their turn; cancelled sessions end | 59 k | 3 events, queue of 1 |
| `simulate_stale_signal`, `simulate_masked_error` | findings, below | | 3 events |
| `secrets_flow` | posts were allowlisted; who may sign has the bundle; success is kept; changesets survive; calls end | 573 k | 2 calls, any two commands, 2 attempts, deadlines of 2, time up to 2 |
| `local_session` | torn files need two writers; the session survives; the context is the account's; logout deletes; a login returns, or hangs where `LoginReturns` says | 4.76 M | 3 processes in 3 mixes, 2 accounts, 3 refresh tokens; 3 callbacks |
| `logout_invalidates` | finding, below | | |
| `backend` | stored before registered; `RegistrySlot` is implemented; paused stays paused; owners linked; everything ends | 478 k | 2 commands of any kind, 2 ids, 2 attempts; 2 callers, 2 accounts, 2 polls |
| `tooling` | the seven properties of the parts around the commands | 2.22 M | see below |
| `hash_owner` | finding, below | | `deploy` and `hash` |

*Why the bounds are enough.*  Every race in `OnchainLifecycle` is between a call's
read and another call's landing, so two outstanding calls show all pairs; a third,
sequential one in `onchain_limit` shows that a slot freed and taken again does not
add up.  Two versions of a name are the least for which "the latest", "all active"
and "the other versions" differ.  The limit theorem is proved for all values.  In
`SimulateSession` a signal is dropped when a second result arrives while the first is
at hand, and taken by a third event; a queue of one refuses a request while the loop
has another.  The bound on the overlap is proved for any number of events.

In `SecretsFlow` a call meets at most one other at a time: the one that prepared its
bundle, or the one that writes the same changeset file; a lost first attempt and a second
one show every order of a late copy.  Time goes up to the longest deadline, so a POST may
come before, at and after it.  Three processes in `LocalSession` are one that writes,
one that writes into its temporary file, and one that reads what is left; the mixes are
the combinations in which a session can come back, get lost or carry a foreign context.
Two commands and their late mutations are all pairs of the private registry.

In `tooling`: two `cre init` share a cache with two versions of a repository, because a
reader meets at most one half-written tarball under a name; requests are chosen so that
every step of the wizard, each layout of a template and each kind of directory occurs.
The two versions differ in each way that matters: one lacks a file of a template that
the other has, one lacks a whole template, and in one a template has a workflow's directory
where the other has files at the root.
Two updaters and three releases: one may finish with an older one than the other.  Pages
of two rows and lists of up to four show an empty, a full and a partial last page; one
change of the platform while a command runs already moves a row across a page.  In
`LogTrigger` an overlap of 2 stands for the code's 5 (`rescanOverlapBlocks`) and the
chain keeps to the listener's assumptions: logs are at most that late, and re-organisations
at most that deep.  Beyond them the listener does lose events; the chain is long enough
for it to show if `AdvanceFromBlock` were wrong by one.  Three builds in a folder: two
that clash, and one after them that finds what they left.

*Symmetry.*  Only sets whose members occur in no other constant are permuted:
`Calls`, `Events`.  No symmetry is used with liveness.

*Deadlock.*  `OnchainLifecycle` never stops: owners can be unlinked and linked again.
The commands of the other modules end, so their runs do not check deadlock; that they do
not stop earlier is `CallsEnd`, `AllEnd`, `LoginReturns`, `CancelEnds`.

*Fairness.*  `OnchainLifecycle`: a started call takes a step when it can.  Its prompts
are answered or skipped by `--yes`, RPC calls return or fail, and seth stops waiting
for a transaction after a timeout; nothing is assumed of the contract, and
`Unconfirmed` stands for that timeout.  `SimulateSession`: the loop runs when it can
and its timer fires; a trigger that waits with a cancelled context returns; the
engine takes what is delivered.  Executions are *not* assumed to finish, requests to
arrive, or a rate limit to strike.  `SecretsFlow`: a call takes a step when it can (the
browser has 500 seconds, a POST a number of attempts) and time passes; nothing of
the chain, the browser or the gateway.  `PrivateRegistry`, `OwnerLink`: a command takes
a step when it can, since its requests have timeouts and its polls are counted; the
backend need not answer and the chain need not mine.  `LoginCallback`: the command takes
a code that is there, its timer fires, and a handler that can send does.

## Findings

* `onchain_paused_race`: an update writes back the status it read before the prompt and
  the uploads; a pause that landed in between is undone.
* `simulate_stale_signal`: the drain of the completion signal precedes the trigger, so a
  late execution still ends the wait of the next run.  Needs an execution that outlives
  the five minutes of `WorkflowExecutionTimeout`, as `--limits none` or a longer
  `ExecutionTimeout` permits.
* `simulate_masked_error`: an execution error that cancels a listening trigger is
  replaced by the error of the cancelled trigger.
* `logout_invalidates`: a revocation that fails is logged, and the logout reports success
  with a refresh token that is still good.
* `hash_owner`: `hash` takes the owner from settings that are never filled in for it, so
  a configured `workflow-owner-address` does not count, against the documentation.

## Proofs

The theorems hold for every value of the constants under the assumptions that the
modules name, which say what the constants are: finite sets of calls, names, tags, events
or processes, numbers that are natural (and positive where nothing happens at zero),
requests, directories and templates of their types, and registries to start from that
respect the limit and have unique, well-named ids.  The versions of a template repository
may hold anything (`ContentsAssumption`: only the built-in templates have fixed files).  Of
the platform's lists and of a tenant's registries `QueryAssumption` says that an ID occurs
once, which the code takes for granted: it takes the first that has the ID.  Every
inductive invariant was checked by TLC on the configurations below before it was proved.

*`OnchainLifecycle_proofs`.*

* `LimitSafety`.  `LimitOvershoot` counts active names *and* claims: calls that have
  passed the check and may still add a name.  It is not inductive alone: one must know
  that a pending transaction belongs to a call past its checks (`CallControl`), that ids
  in `todo` and `pending` carry the name of their call (`Named`, so that activating an id
  activates that call's name) and that no more than `MaxOverlap` calls are outstanding.
  The step that matters is `CheckLimit`: at that moment at most `Limit - 1` versions are
  active on the DON, and the other outstanding calls add at most one name each.
* `StoredSafety`.  `UploadedFirst` carries the fact over the interval between upload and
  landing, during which the call may long have ended and cleanups may run.  `Kept` is the
  step that matters: an id that is registered or on its way there goes from `stored` to
  `orphaned` at most, never out of both; `UploadedOrigin` says that a deploy comes to
  register only through its own upload.

*`OnchainLifecycle_proofs`, what becomes of transactions.*  `Progress`
says that every id between `targets` and `todo` was in a transaction of the call that
landed: at the end `todo` is empty and that is `OkMeansLanded`.  `TxsInOrder` lets only
calls past their checks have transactions (`QuietEndings`).  For the two action
properties the view of a call has to stay true while its transaction waits: `FreshView`
says that it does as long as nothing landed under the call's name (else the call is
`disturbed`), and `OneTx` that the transaction which lands is the call's only one.

*`SimulateSession_proofs`.*

* `OverlapBounded`.  A counting argument: waits that ended with a signal plus the signal at
  hand never exceed the results reported (`SignalsAreResults`), and everything given to
  the engine has been waited for or is the current event (`Accounted`).  `RoundIsOrdered`
  and `QueueIsOfQueued` make these inductive: an event gets its verdict only after its
  delivery, and stands in the queue once.
* `ListenGoesOnHolds`, `SuccessIsEarnedHolds` from `EndsForACause` (a cancelled session
  has a cause on record) and `ErrorsAreKept`: every failure has its error in one of the two
  variables that `run` looks at.

*`SecretsFlow_proofs`.*  A call is the sequence of its remaining steps, so the invariant
`Plans` is about sequences: whatever a step relies on is done, or an earlier step of the
plan does it (`Prepared`).  It is shown of the plans that commands begin with and those
that follow the allowlist transaction, and is kept by taking the tail when the head has
been done.  At the head of a plan nothing is earlier, so what the step relies on *is*
done: a request that is posted was allowed (`PostedWasAllowedHolds`), the last step has a
processed request or a saved bundle behind it (`SuccessIsKeptHolds`), the bundle comes
before what signers get (`SignableHasBundleHolds`).  `AllowedIsEligible` and
`CopiesArePosted` tie contract and network to these.  `ChangesetKeptHolds` shows of each
step that a changeset moves only between the file, a snapshot that is about to be written
back, and the changesets known to be lost.

*`LocalSession_proofs`.*

* `TornNeedsClashHolds`.  Without a clash one process at a time has the temporary file,
  empty until it is written and with its tokens until it is moved (`OneSaver`), and that
  file is nobody else's (`TmpApart`).
* `SessionSurvivesHolds`.  What a process is about to save works, and where tokens rotate
  no other process holds it and the disk does not have it yet (`SavedWorks`): else a
  second refresh could spend it before the save.  `OneAccount` keeps apart the tokens
  of different accounts, which one "save under way" must not excuse.
* `ContextOfAccountHolds`, `LogoutDeletesHolds`.  Without overlap one process runs at a time
  (`OneRunning`), between two commands the context is that of the tokens on disk
  (`ContextInStep`), and a logout past the removal has left no file (`Cleared`).

*`Backend_proofs`, private registries.*  A command is one request long; `RequestOrder` says
which of its steps are behind it once the request has left.  `StoredFirstHolds` adds that an artifact
leaves the list of things to upload only after the service holds it (`UploadSound`, through
every retry and "already exists").  `RespectsWorkflowHolds` adds that between its look and
the change a command knows the workflow or has one of the two excuses (`KnowsWorkflow`).
`Implements` is the refinement: initial states map to initial states of `RegistrySlot`, and
each step to one of its steps or a stutter (an upload, a retry, a lost answer are stutters;
`Land` is the change; the end of a command is the report).

*`Backend_proofs`, owner linking.*  While a deploy runs and nobody else's transaction is
mined, the backend lags behind the contract by the deploy's own transaction at most
(`InStep`), which is why its poll may be believed.  `TypesHold` puts the types of both
parts together, as `MCBackend` runs them.

*`ProjectInit_proofs`.*  A step is one command's and leaves what the others have alone
(`OneMoves`), so the invariant is one of each command (`CmdInv`).  A file of the user has an identity
(`Here`): a file is written for a new project only where nothing of the user's is, in an
existing one only where there is nothing at all, and a rename takes what it moves to a free
place or, at the root, over the one file that `MovedOver` names (`RenameKeeps`,
`RenameMoves`).  A new project's directory is empty until the template is written to it and
has nothing but parts of the template while attempts fail (`Strewn`: of any version, cut or
not).  An extraction that goes through overwrites its own files among these, so
all that its version holds is whole and what is left over is what it lacks (`Whole`), which
renaming (`RenameKeepsWhole`), moving and generating keep.  `WizardSound`
says that the wizard asks for networks of the template it has, from the first without a
URL; the types of the wizard, whose cursor is on one of them, rest on that.

*`WorkflowQuery_proofs`.*  All that a query does is to select rows and registries, in their
order: `Those(s, S)`.  It is defined by ranks, so that what it returns can be proved without
induction: ranks are a bijection (`RanksOnto`), a selection has the members of `s` in `S`
and no others (`ThoseElems`), each once where `s` has them once (`ThoseDistinct`,
`DistinctCount`).  The inductive invariant `QueryInv` has

* `RowsKept`: the platform lists no ID twice, and a row that a page brought is still listed,
  maybe with another status.  This is what holds *while* the list changes, and why a name
  never resolves to a workflow of another name, owner or registry.
* `Paging`: as long as nothing changed, the pages so far are a prefix of what the search
  finds, and a page that is not the last one was full, so that the end is the end of the list
  (`ListPageKeeps`); changed or not, each page but the last brings a row, which bounds their
  number.
* `WaysOn`: which ways lead to a step, with the registry of `--registry` found at the start.
* `ListShown`, `NameResolved`: what the two ends have to say, established by the steps that
  filter (`ShowListKeeps`, `ResolveByNameKeeps`).  Filtering asks whether a row's source
  *matches* the registry, the property whether the registry that is *shown* for the row is that
  one; `SourceMatchesShown` proves these the same for every source, which is where the
  registries' IDs must differ.

*`Tooling_proofs`*, one section for each part of `MCTooling` it is about, and one on all.

* `UpdatesSoundHolds`: what a process has decided is still so when it acts, though others
  install and releases appear in between (`Decided`).
* `ReadyToRunHolds`: what is known at each stage of the gate of the parts, the registry and
  the owner (`HasParts`, `KnowsRegistry`, `KnowsOwner`); the owner is looked for before the
  registry is known and again after.
* `BuildsOwnHolds`: between the read of the sources and the read of the binary every file is
  overwritten by the build that reads it (`HoldsOwn`), as long as no other command runs
  (`AloneInFolder`); a path to a wasm file goes with a Makefile or a conversion that was
  stopped halfway (`MakefileFollows`).
* `SimulatesAsToldHolds`: chains come from the settings with their forwarders
  (`ChainsNamed`), who broadcasts has a real key for every family in use (`Paid`), what was
  let through and the wrapped capabilities go by the same limits (`Fits`, `Made4Limits`).
* `TriggersOnceHolds`: a block `Overlap` back has shown its logs for good (`DeepIsShown`),
  the listener never goes on beyond those (`Behindhand`), so what it leaves behind it has
  met (`PassedOver`) and handed out or dropped (`Handed`).
* `ToolingTypesHold`: a step of all the parts is a step of each or leaves it alone
  (`PartsStep`), and `ToolingInv` puts their inductive invariants together, with those of `ProjectInit_proofs` and
  `WorkflowQuery_proofs`.

`LeastNatural` and `GreatestIndex` derive, from the library's theorem on well-founded
relations, that a set of numbers has a least one and a condition on indices a greatest
index; they give `CHOOSE`, and the minimum of a set, their meaning.

*TLC only.*

* Liveness: `Termination`, `AcceptedGetsTurn`, `CancelEnds`, `CallsEnd`, `LoginReturns`,
  `AllEnd`.  Fairness and `ENABLED` are out of the prover's reach here.

Every invariant and every action property that a passing run checks is a theorem; what stays
with TLC is liveness, and the counterexamples of the findings.

## Observed while modelling

What the models follow, but a reader of the documentation may not expect.  No run is about
these.

* *init.*  In an existing project, a template that lists no workflows makes `init` rename
  the first directory with a workflow in it, whoever that belongs to.  A damaged tarball in
  the cache leaves a cut file that a later extraction into an existing project keeps
  (hence `WholeTemplate` is about new projects), and in a new one it may leave files that the
  version which is then downloaded lacks.  A listed template that the tarball does not have
  extracts nothing and is no error: the project that is made has the CLI's files only.  A
  template with its files at the root is moved into the workflow's directory over
  files of the same name, those of an existing directory of the user included.  `--refresh` or not, the tarball may be older
  than the list that is shown.  An overwrite removes the old directory before RPC URLs are
  checked and the template is there.  `--non-interactive` still asks about an overwrite
  (`creinit.go:577`) although `docs/cre_init.md:35` says "Fail instead of prompting".
* *Gate.*  `.env` is looked for from "." upwards, but the parent of "." is "."
  (`settings.go:195-207`, `310-327`).  The question to log in ignores `--non-interactive`.
  `--unsigned=false` counts as set in `GetWorkflowOwner` and as not set in `IsMultisigMode`.
* *Update.*  On Windows the new binary is announced at a path that a deferred `RemoveAll`
  deletes; a rename fails across file systems; of two updates that overlap the older may
  win.  An archive is checked by its signature only, after extraction.
* *Build.*  `custom-build` changes the targets `staging-settings` and `production-settings`
  only, and reports the new path whether or not there are any; `GetWorkflowPathFromFile`
  takes the path of any target, in the map's order.  A conversion that ends between path and
  Makefile cannot be repeated, and a Makefile of a folder above is then used.  Two builds of
  one folder share `.cre_build_tmp.wasm`, two deploys `./binary.wasm.br.b64`.
* *Queries.*  Rows that are inserted between two pages are shown twice or not at all; a
  row that is repeated may make a name ambiguous.  `execution list` goes on with an empty
  UUID.  `get --all-registries` still filters by the owner of the configured registry.
* *Simulate.*  `CRE_SOLANA_PRIVATE_KEY` is required as soon as the settings have a Solana RPC;
  an experimental chain of type solana is ignored; the interactive mode asks for the trigger
  whatever `--trigger-index` says; the listener begins at the head block, so an event from
  before the command may fire; a re-organisation makes an event fire again in its new block;
  `--limits none` leaves the engine's trigger rates as they are built in.

## Not modelled

* The bindings generator: its output matters, not its state; it is in part third-party code.
* Redaction, RPC URLs, key formats, name validation: pure functions on characters, which
  tests reach better than a model.
* The terminal: progress and spinners, which are output and used by one goroutine at a time.
* Ledger signing, gas estimation and error decoding of transactions; artifacts given by URL;
  requests for deployment access: no state of the CLI depends on them.
* Telemetry but for its token refresh; `cre workflow test`, which runs a test tool.
* Clock skew between the machine and the chain in the secrets allowlist
  (`workflow_registry_v2_client.go:784`): the expiry is relative to the local clock, and a
  model with an arbitrary skew would only restate that.
* The engine, the contract, the backend, the gateway and the vault are environments, with
  what the CLI's code shows of them.

## Plan

What could be added next: `OnchainLifecycle` shown to implement a `RegistrySlot` per version
(its calls may land several transactions, so the abstract command must be allowed more than one
change); the bindings generator, once there is a property of its output worth stating.
