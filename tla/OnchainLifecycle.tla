-------------------------- MODULE OnchainLifecycle --------------------------
(***************************************************************************)
(* The commands `cre workflow deploy | pause | activate | delete` against  *)
(* the on-chain workflow registry, for one workflow owner.  Several calls  *)
(* (terminals, CI jobs, signers of a multisig) may run at once: each reads *)
(* the registry, decides, and hands over a transaction that lands, is      *)
(* reverted or is never mined, possibly long after the call has ended.     *)
(*                                                                         *)
(* A version of a workflow is a pair <<name, tag>>: the contract keys its  *)
(* entries by owner, name and tag.  The CLI writes versions with CliTag    *)
(* (the name cut to 32 bytes); versions with other tags come from other    *)
(* tools and exist from the start only.  A workflow id is the hash of      *)
(* name, binary and config: here the pair <<name, build>>.                 *)
(***************************************************************************)
EXTENDS Integers, FiniteSets

CONSTANTS
    Calls,          \* invocations of the CLI, each running its command once
    Names,          \* workflow names
    Tags,           \* workflow tags
    CliTag,         \* the tag the CLI derives from the name
    Builds,         \* what a workflow compiles to (binary and config)
    Dons,           \* DON families
    Jobs,           \* the commands, flags and targets a call may be given
    None,           \* no entry under a version
    Preregistered,  \* the registries the run may start from
    Limit,          \* active workflows an owner may have per DON family
    MaxOverlap      \* bound on the calls that are outstanding at once

Ids      == Names \X Builds
Versions == Names \X Tags
Ages     == 0..2    \* rank of CreatedAt; 2 is anything created by these calls
Entry    == [id : Ids, status : {"active", "paused"}, don : Dons, born : Ages]
Registry == [Versions -> Entry \cup {None}]

Job == [cmd   : {"deploy", "pause", "activate", "delete"},
        name  : Names,
        build : Builds,        \* what deploy compiles
        don   : Dons,          \* DonFamily() of the resolved registry
        mode  : {"regular", "raw", "changeset"},
        yes   : BOOLEAN]       \* --yes: no prompt is shown

\* A transaction handed to the chain or to the signers of a multisig.  The
\* rest of its arguments (name, DON family, status) are fixed by then in the
\* job and the view of its call.
Tx == [call : Calls, ids : SUBSET Ids]

VARIABLES
    entries,    \* the contract: what is registered under each version
    linked,     \* the contract: the owner address is linked
    stored,     \* ids the storage service holds the artifacts of
    doomed,     \* deleted ids the background cleanup has still to take
    orphaned,   \* history: ids cleaned up while they were in use
    job,        \* the command of each call
    pc,         \* where each call is
    seen,       \* h.existingWorkflowStatus of a deploy, "none" for nil
    targets,    \* the ids a call decided to act on
    todo,       \* those it has not submitted and settled yet
    cur,        \* the ids of the transaction it is waiting for
    outcome,    \* what the call has told, or will tell, the user
    pending,    \* transactions handed over, neither mined nor given up
    landed,     \* history: transactions that were mined with success
    disturbed,  \* history: calls whose view of their name was overtaken
    moved       \* history: <<name, DON>> granted to an update from another DON

registryVars == <<entries, linked>>
storeVars    == <<stored, doomed, orphaned>>
callVars     == <<pc, seen, targets, todo, cur, outcome>>
historyVars  == <<landed, disturbed, moved>>
vars == <<entries, linked, stored, doomed, orphaned, job, pc, seen, targets, todo,
          cur, outcome, pending, landed, disturbed, moved>>

ActiveOn(reg, d) ==
    {v \in Versions : /\ reg[v] # None
                      /\ reg[v].status = "active"
                      /\ reg[v].don = d}

ASSUME FiniteAssumption ==
    /\ IsFiniteSet(Calls)
    /\ IsFiniteSet(Names)
    /\ IsFiniteSet(Tags)
ASSUME BoundAssumption == Limit \in Nat /\ MaxOverlap \in Nat \ {0}
ASSUME DataAssumption ==
    /\ CliTag \in Tags
    /\ Jobs \subseteq Job
    /\ None \notin Entry
\* The registries a run starts from respect the limit, and an id names its
\* workflow and is registered once.
ASSUME PreregisteredAssumption ==
    /\ Preregistered \subseteq Registry
    /\ \A reg \in Preregistered :
          /\ \A d \in Dons : Cardinality(ActiveOn(reg, d)) <= Limit
          /\ \A v \in Versions : reg[v] # None => reg[v].id[1] = v[1]
          /\ \A v, w \in Versions :
                reg[v] # None /\ reg[w] # None /\ reg[v].id = reg[w].id => v = w

----------------------------------------------------------------------------
(* Derived state.                                                          *)

Cmd(c)    == job[c].cmd
Name(c)   == job[c].name
Don(c)    == job[c].don
Direct(c) == job[c].mode = "regular"   \* the CLI itself sends transactions

\* calculateWorkflowID: a function of the name and of what was compiled.
ArtifactId(c) == <<job[c].name, job[c].build>>

VersionsOf(n) == {v \in Versions : v[1] = n /\ entries[v] # None}
IdsOf(vs)     == {entries[v].id : v \in vs}
Holders(ids)  == {v \in Versions : entries[v] # None /\ entries[v].id \in ids}

HasPending(c)  == \E t \in pending : t.call = c
Outstanding == {c \in Calls : pc[c] \notin {"idle", "done"} \/ HasPending(c)}

\* Faults, here and below: how a plausible bug would write the definition that
\* follows.  No specification uses them.
UpsertStatusNoDefault(c)    == seen[c]
UpsertStatusAlwaysActive(c) == "active"

\* prepareUpsertParams: an update keeps the status that was seen, a new version
\* is active.
UpsertStatus(c) == IF seen[c] = "paused" THEN "paused" ELSE "active"

CurrentTx(c) == [call |-> c, ids |-> cur[c]]

TypeOK ==
    /\ entries \in Registry
    /\ linked \in BOOLEAN
    /\ stored \subseteq Ids
    /\ doomed \subseteq Ids
    /\ orphaned \subseteq Ids
    /\ job \in [Calls -> Jobs]
    /\ pc \in [Calls -> {"idle", "owner", "exists", "confirm", "upload", "count",
                         "limit", "fetch", "send", "wait", "done"}]
    /\ seen \in [Calls -> {"none", "active", "paused"}]
    /\ targets \in [Calls -> SUBSET Ids]
    /\ todo \in [Calls -> SUBSET Ids]
    /\ cur \in [Calls -> SUBSET Ids]
    /\ outcome \in [Calls -> {"none", "ok", "failed", "cancelled", "nothing",
                              "unchanged", "halted", "prepared"}]
    /\ pending \subseteq Tx
    /\ landed \subseteq Tx
    /\ disturbed \subseteq Calls
    /\ moved \subseteq Names \X Dons

Init ==
    /\ entries \in Preregistered
    /\ linked = TRUE
    /\ stored = {entries[v].id : v \in {w \in Versions : entries[w] # None}}
    /\ doomed = {}
    /\ orphaned = {}
    /\ job \in [Calls -> Jobs]
    /\ pc = [c \in Calls |-> "idle"]
    /\ seen = [c \in Calls |-> "none"]
    /\ targets = [c \in Calls |-> {}]
    /\ todo = [c \in Calls |-> {}]
    /\ cur = [c \in Calls |-> {}]
    /\ outcome = [c \in Calls |-> "none"]
    /\ pending = {}
    /\ landed = {}
    /\ disturbed = {}
    /\ moved = {}

----------------------------------------------------------------------------
(* Steps of a call.                                                        *)

Go(c, from, to) == pc[c] = from /\ pc' = [pc EXCEPT ![c] = to]
Tell(c, what)   == outcome' = [outcome EXCEPT ![c] = what]

\* The command line is accepted; the bound is on calls in flight.
Start(c) ==
    /\ Cardinality(Outstanding) < MaxOverlap
    /\ Go(c, "idle", IF Cmd(c) = "deploy" THEN "owner" ELSE "fetch")
    /\ UNCHANGED <<registryVars, storeVars, job, seen, targets, todo, cur, outcome,
                   pending, historyVars>>

\* Every step before a transaction is prepared returns its error as it is: a
\* failed read, a cancelled context, a prompt in non-interactive mode, nothing
\* to pause, a workflow that is already active, the DON limit reached.
Abort(c) ==
    /\ pc[c] \in {"owner", "exists", "confirm", "upload", "count", "limit", "fetch"}
    /\ pc' = [pc EXCEPT ![c] = "done"]
    /\ Tell(c, "failed")
    /\ UNCHANGED <<registryVars, storeVars, job, seen, targets, todo, cur, pending,
                   historyVars>>

\* Deploy: the owner is linked to this account.
VerifyOwner(c) ==
    /\ linked
    /\ Go(c, "owner", "exists")
    /\ UNCHANGED <<registryVars, storeVars, job, seen, targets, todo, cur, outcome,
                   pending, historyVars>>

\* Deploy: an owner that is not linked is linked first.  A multisig owner (raw
\* or changeset) only gets the link transaction to sign, and deploy stops.
AutoLink(c) ==
    /\ ~linked
    /\ linked' = Direct(c)
    /\ Go(c, "owner", IF Direct(c) THEN "exists" ELSE "done")
    /\ Tell(c, IF Direct(c) THEN outcome[c] ELSE "halted")
    /\ UNCHANGED <<entries, storeVars, job, seen, targets, todo, cur, pending,
                   historyVars>>

\* Deploy: one read of <<name, CliTag>> decides between nothing to do, an
\* update that needs consent and a new registration.
CheckExists(c) ==
    LET found == entries[<<Name(c), CliTag>>] IN
    /\ disturbed' = disturbed \ {c}
    /\ \/ /\ found = None
          /\ Go(c, "exists", "upload")
          /\ UNCHANGED <<seen, outcome, moved>>
       \/ /\ found # None
          /\ found.id = ArtifactId(c)
          /\ Go(c, "exists", "done")
          /\ Tell(c, "unchanged")
          /\ UNCHANGED <<seen, moved>>
       \/ /\ found # None
          /\ found.id # ArtifactId(c)
          /\ Go(c, "exists", "confirm")
          /\ seen' = [seen EXCEPT ![c] = found.status]
          /\ moved' = IF found.status = "active" /\ found.don # Don(c)
                      THEN moved \cup {<<Name(c), Don(c)>>} ELSE moved
          /\ UNCHANGED outcome
    /\ UNCHANGED <<registryVars, storeVars, job, targets, todo, cur, pending, landed>>

Accept(c) ==
    /\ Go(c, "confirm", IF Cmd(c) = "deploy" THEN "upload" ELSE "send")
    /\ UNCHANGED <<registryVars, storeVars, job, seen, targets, todo, cur, outcome,
                   pending, historyVars>>

DeclineIgnored(c) ==
    /\ ~job[c].yes
    /\ Go(c, "confirm", IF Cmd(c) = "deploy" THEN "done" ELSE "send")
    /\ Tell(c, IF Cmd(c) = "deploy" THEN "failed" ELSE "cancelled")
    /\ UNCHANGED <<registryVars, storeVars, job, seen, targets, todo, cur, pending,
                   historyVars>>

\* "deployment cancelled by user" is an error, a delete without consent is not.
Decline(c) ==
    /\ ~job[c].yes
    /\ Go(c, "confirm", "done")
    /\ Tell(c, IF Cmd(c) = "deploy" THEN "failed" ELSE "cancelled")
    /\ UNCHANGED <<registryVars, storeVars, job, seen, targets, todo, cur, pending,
                   historyVars>>

UploadErrorSwallowed(c) ==
    /\ Go(c, "upload", "count")
    /\ stored' \in {stored, stored \cup {ArtifactId(c)}}
    /\ orphaned' = orphaned \ {ArtifactId(c)}
    /\ targets' = [targets EXCEPT ![c] = {ArtifactId(c)}]
    /\ todo' = [todo EXCEPT ![c] = {ArtifactId(c)}]
    /\ UNCHANGED <<registryVars, doomed, job, seen, cur, outcome, pending,
                   historyVars>>

\* Deploy: binary and config are uploaded under the workflow id.
Upload(c) ==
    /\ Go(c, "upload", "count")
    /\ stored' = stored \cup {ArtifactId(c)}
    /\ orphaned' = orphaned \ {ArtifactId(c)}
    /\ targets' = [targets EXCEPT ![c] = {ArtifactId(c)}]
    /\ todo' = [todo EXCEPT ![c] = {ArtifactId(c)}]
    /\ UNCHANGED <<registryVars, doomed, job, seen, cur, outcome, pending,
                   historyVars>>

SameNameActiveAnywhere(c) ==
    {v \in VersionsOf(Name(c)) : entries[v].status = "active"}

SameNameActive(c) == {v \in VersionsOf(Name(c)) : v \in ActiveOn(entries, Don(c))}

\* Deploy: an update is not counted against the limit; a new version takes the
\* place of the active versions of its name (KeepAlive is always false).
CountSameName(c) ==
    /\ Go(c, "count", IF seen[c] # "none" \/ SameNameActive(c) # {}
                      THEN "send" ELSE "limit")
    /\ UNCHANGED <<registryVars, storeVars, job, seen, targets, todo, cur, outcome,
                   pending, historyVars>>

\* Deploy and activate: a read of its own, after that of CountSameName or
\* FetchToActivate.
CheckLimit(c) ==
    /\ Cardinality(ActiveOn(entries, Don(c))) + 1 <= Limit
    /\ Go(c, "limit", "send")
    /\ UNCHANGED <<registryVars, storeVars, job, seen, targets, todo, cur, outcome,
                   pending, historyVars>>

Target(c, ids) ==
    /\ targets' = [targets EXCEPT ![c] = ids]
    /\ todo' = [todo EXCEPT ![c] = ids]
    /\ disturbed' = disturbed \ {c}

\* Pause: every active version of the name.
FetchToPause(c) ==
    LET active == {v \in VersionsOf(Name(c)) : entries[v].status = "active"} IN
    /\ Cmd(c) = "pause"
    /\ active # {}
    /\ Go(c, "fetch", "send")
    /\ Target(c, IdsOf(active))
    /\ UNCHANGED <<registryVars, storeVars, job, seen, cur, outcome, pending, landed,
                   moved>>

\* Activate: the most recently created version of the name, if it is paused.
FetchToActivate(c) ==
    /\ Cmd(c) = "activate"
    /\ \E latest \in VersionsOf(Name(c)) :
          /\ \A v \in VersionsOf(Name(c)) : entries[v].born <= entries[latest].born
          /\ entries[latest].status = "paused"
          /\ Target(c, {entries[latest].id})
    /\ Go(c, "fetch", "limit")
    /\ UNCHANGED <<registryVars, storeVars, job, seen, cur, outcome, pending, landed,
                   moved>>

\* Delete: every version of the name, after consent; none is not an error.
FetchToDelete(c) ==
    /\ Cmd(c) = "delete"
    /\ Target(c, IdsOf(VersionsOf(Name(c))))
    /\ IF VersionsOf(Name(c)) = {}
       THEN Go(c, "fetch", "done") /\ Tell(c, "nothing")
       ELSE Go(c, "fetch", "confirm") /\ UNCHANGED outcome
    /\ UNCHANGED <<registryVars, storeVars, job, seen, cur, pending, landed, moved>>

----------------------------------------------------------------------------
(* Transactions of a call.  Delete sends one per id, keeps going when one   *)
(* fails and reports the failures at the end; the others send one in all.   *)

FirstOfPause(c) ==
    IF Cmd(c) = "delete" \/ Cmd(c) = "pause" THEN {{i} : i \in todo[c]} ELSE {todo[c]}

Batches(c) ==
    IF Cmd(c) = "delete" \/ (Cmd(c) = "pause" /\ job[c].mode = "changeset")
    THEN {{i} : i \in todo[c]}   \* a pause changeset names its first id only
    ELSE {todo[c]}

SettleForgetsErrors(c, rest, what) ==
    /\ todo' = [todo EXCEPT ![c] = rest]
    /\ pc' = [pc EXCEPT ![c] = IF rest = {} THEN "done" ELSE "send"]
    /\ Tell(c, what)

SettleRetriesForever(c, rest, what) ==
    LET left == IF Cmd(c) = "delete" /\ what = "failed" THEN todo[c] ELSE rest IN
    /\ todo' = [todo EXCEPT ![c] = left]
    /\ pc' = [pc EXCEPT ![c] = IF left = {} THEN "done" ELSE "send"]
    /\ Tell(c, IF outcome[c] = "failed" THEN "failed" ELSE what)

\* The call is through with some ids; without any left it returns.
Settle(c, rest, what) ==
    /\ todo' = [todo EXCEPT ![c] = rest]
    /\ pc' = [pc EXCEPT ![c] = IF rest = {} THEN "done" ELSE "send"]
    /\ Tell(c, IF outcome[c] = "failed" THEN "failed" ELSE what)

\* Regular: the transaction is signed and sent, and the call waits for it.
Send(c) ==
    /\ Direct(c)
    /\ Go(c, "send", "wait")
    /\ \E ids \in Batches(c) :
          /\ cur' = [cur EXCEPT ![c] = ids]
          /\ pending' = pending \cup {[call |-> c, ids |-> ids]}
    /\ UNCHANGED <<registryVars, storeVars, job, seen, targets, todo, outcome,
                   historyVars>>

\* Raw and changeset: the transaction is left to the signers.
Prepare(c) ==
    /\ ~Direct(c)
    /\ pc[c] = "send"
    /\ \E ids \in Batches(c) :
          /\ pending' = pending \cup {[call |-> c, ids |-> ids]}
          /\ Settle(c, IF Cmd(c) = "delete" THEN todo[c] \ ids ELSE {}, "prepared")
    /\ UNCHANGED <<registryVars, storeVars, job, seen, targets, cur, historyVars>>

\* No transaction came out: the prompt was declined, or simulating, signing or
\* sending it failed.  A changeset file that cannot be written ends delete too.
Refuse(c) ==
    /\ pc[c] = "send"
    /\ \E rest \in IF Cmd(c) = "delete"
                   THEN {todo[c] \ {i} : i \in todo[c]}
                        \cup (IF job[c].mode = "changeset" THEN {{}} ELSE {})
                   ELSE {{}} :
          Settle(c, rest, "failed")
    /\ UNCHANGED <<registryVars, storeVars, job, seen, targets, cur, pending,
                   historyVars>>

\* Regular: a successful receipt with the expected event.
Confirmed(c) ==
    /\ pc[c] = "wait"
    /\ CurrentTx(c) \in landed
    /\ Settle(c, todo[c] \ cur[c], "ok")
    /\ UNCHANGED <<registryVars, storeVars, job, seen, targets, cur, pending,
                   historyVars>>

\* Regular: the transaction reverted, or waiting for it or decoding it failed,
\* whatever becomes of the transaction.
Unconfirmed(c) ==
    /\ pc[c] = "wait"
    /\ Settle(c, todo[c] \ cur[c], "failed")
    /\ UNCHANGED <<registryVars, storeVars, job, seen, targets, cur, pending,
                   historyVars>>

----------------------------------------------------------------------------
(* The contract and the owner's other tools (external).                    *)

Overtaken(n, c) == {d \in Calls \ {c} : Name(d) = n /\ pc[d] # "idle"}

Mined(t) ==
    /\ t \in pending
    /\ pending' = pending \ {t}
    /\ landed' = landed \cup {t}
    /\ disturbed' = disturbed \cup Overtaken(Name(t.call), t.call)
    /\ UNCHANGED <<linked, stored, orphaned, job, callVars, moved>>

SetStatus(vs, what) ==
    [v \in Versions |-> IF v \in vs THEN [entries[v] EXCEPT !.status = what]
                                    ELSE entries[v]]

\* upsertWorkflow with keepAlive false: the version is written and, when it is
\* active, the other versions of its name are paused.
Upsert(t, age, hush) ==
    LET c     == t.call
        key   == <<Name(c), CliTag>>
        other == {v \in VersionsOf(Name(c)) : v # key /\ hush}
    IN  [SetStatus(other, "paused") EXCEPT ![key] =
            [id |-> ArtifactId(c), status |-> UpsertStatus(c), don |-> Don(c), born |-> age]]

LandUpsert(t) ==
    LET key == <<Name(t.call), CliTag>> IN
    /\ Cmd(t.call) = "deploy"
    /\ linked
    /\ Holders(t.ids) \subseteq {key}
    /\ \E age \in {2} \cup (IF entries[key] = None THEN {} ELSE {entries[key].born}),
          hush \in BOOLEAN :
          /\ UpsertStatus(t.call) = "active" => hush
          /\ entries' = Upsert(t, age, hush)
    /\ UNCHANGED doomed
    /\ Mined(t)

Known(ids) == \A i \in ids : Holders({i}) # {}

LandPause(t) ==
    /\ Cmd(t.call) = "pause"
    /\ Known(t.ids)
    /\ entries' = SetStatus(Holders(t.ids), "paused")
    /\ UNCHANGED doomed
    /\ Mined(t)

LandActivate(t) ==
    /\ Cmd(t.call) = "activate"
    /\ Known(t.ids)
    /\ entries' = [v \in Versions |->
                     IF v \in Holders(t.ids)
                     THEN [entries[v] EXCEPT !.status = "active", !.don = Don(t.call)]
                     ELSE entries[v]]
    /\ UNCHANGED doomed
    /\ Mined(t)

\* The CLI leaves the artifacts of what it deletes to a background cleanup.
LandDelete(t) ==
    /\ Cmd(t.call) = "delete"
    /\ Known(t.ids)
    /\ entries' = [v \in Versions |-> IF v \in Holders(t.ids) THEN None ELSE entries[v]]
    /\ doomed' = doomed \cup t.ids
    /\ Mined(t)

\* A transaction reverts, is replaced, or is never signed.
Drop(t) ==
    /\ pending' = pending \ {t}
    /\ UNCHANGED <<registryVars, storeVars, job, callVars, historyVars>>

\* `cre account unlink-key` wipes out all workflows of the owner; link-key.
Unlink ==
    /\ linked
    /\ linked' = FALSE
    /\ entries' = [v \in Versions |-> None]
    /\ doomed' = doomed \cup IdsOf({v \in Versions : entries[v] # None})
    /\ disturbed' = Calls
    /\ UNCHANGED <<stored, orphaned, job, callVars, pending, landed, moved>>

Relink ==
    /\ ~linked
    /\ linked' = TRUE
    /\ UNCHANGED <<entries, storeVars, job, callVars, pending, historyVars>>

\* A deploy that has uploaded and may still register what it uploaded.
Uploaded(c) ==
    /\ Cmd(c) = "deploy"
    /\ pc[c] \in {"count", "limit", "send", "wait"} \/ HasPending(c)

InUse(i) ==
    \/ \E v \in Versions : entries[v] # None /\ entries[v].id = i
    \/ \E c \in Calls : Uploaded(c) /\ ArtifactId(c) = i

\* The background cleanup takes the artifacts of everything deleted since it
\* last ran, at any time.  Nothing is known of what it looks at: it may take an
\* id that is in use again.
Cleanup ==
    /\ doomed # {}
    /\ doomed' = {}
    /\ stored' = stored \ doomed
    /\ orphaned' = orphaned \cup {i \in doomed : InUse(i)}
    /\ UNCHANGED <<registryVars, job, callVars, pending, historyVars>>

Fetch(c) == FetchToPause(c) \/ FetchToActivate(c) \/ FetchToDelete(c)

CallStep(c) ==
    \/ Abort(c)
    \/ VerifyOwner(c) \/ AutoLink(c) \/ CheckExists(c)
    \/ Accept(c) \/ Decline(c)
    \/ Upload(c) \/ CountSameName(c) \/ CheckLimit(c)
    \/ Fetch(c)
    \/ Send(c) \/ Prepare(c) \/ Refuse(c)
    \/ Confirmed(c) \/ Unconfirmed(c)

Land(t) == LandUpsert(t) \/ LandPause(t) \/ LandActivate(t) \/ LandDelete(t)

Next ==
    \/ \E c \in Calls : Start(c) \/ CallStep(c)
    \/ \E t \in pending : Land(t) \/ Drop(t)
    \/ Unlink \/ Relink \/ Cleanup

Spec == Init /\ [][Next]_vars

\* A started call keeps running: its prompts are answered, its RPC calls return
\* or fail, and seth stops waiting for a transaction after its timeout.
Fairness == \A c \in Calls : WF_vars(CallStep(c))

LiveSpec == Spec /\ Fairness

----------------------------------------------------------------------------
(* Properties.                                                             *)

\* Whether a call has passed the check of the DON limit and can still add an
\* active workflow: an update is let through when it saw an active version.
Granted(c) ==
    \/ Cmd(c) = "deploy" /\ seen[c] = "active"
    \/ /\ Cmd(c) = "activate" \/ (Cmd(c) = "deploy" /\ seen[c] = "none")
       /\ pc[c] \in {"send", "wait", "done"}

ActiveNames(d) == {v[1] : v \in ActiveOn(entries, d)}
Claims(d)      == {Name(c) : c \in {x \in Outstanding : Don(x) = d /\ Granted(x)}}
Moved(d)       == {n \in Names : <<n, d>> \in moved}

\* The DON limit is read long before the transaction lands, so calls that
\* overlap can exceed it together, but by no more than one workflow name for
\* each other call outstanding; with one call at a time it is exact.  Names
\* that an update took from another DON family are not counted: that path never
\* asks for the limit (limits.go:37-39).
LimitOvershoot ==
    \A d \in Dons :
        Cardinality((ActiveNames(d) \cup Claims(d)) \ Moved(d)) <= Limit + MaxOverlap - 1

\* Whatever is registered has its artifacts in storage, also when its name was
\* deleted and cleaned up before (registry_delete_strategy_onchain.go:162): a
\* deploy uploads again, so only a cleanup that comes between the last upload
\* of an id and its registration, or later, leaves a version without artifacts.
RegisteredIsStored ==
    \A v \in Versions : entries[v] # None => entries[v].id \in stored \cup orphaned

\* A call that sends its own transactions and ends with success changed every
\* id it had decided to act on: no failure in the middle of delete is lost.
OkMeansLanded ==
    \A c \in Calls :
        pc[c] = "done" /\ outcome[c] = "ok" =>
            targets[c] = UNION {t.ids : t \in {x \in landed : x.call = c}}

\* A delete the user declined, an unchanged deploy and a halted one leave no
\* transaction behind.
QuietEndings ==
    \A c \in Calls :
        outcome[c] \in {"cancelled", "nothing", "unchanged", "halted"} =>
            ~HasPending(c) /\ \A t \in landed : t.call # c

----------------------------------------------------------------------------
(* Inductive invariants, the strengthenings the proofs rest on.            *)

\* Which commands reach which step; a deploy has no view before it looked; only
\* calls that are through with their checks have transactions outstanding.
CallControl ==
    \A c \in Calls :
        /\ pc[c] \in {"owner", "exists", "upload", "count"} => Cmd(c) = "deploy"
        /\ pc[c] = "fetch" => Cmd(c) # "deploy"
        /\ pc[c] = "confirm" => Cmd(c) \in {"deploy", "delete"}
        /\ pc[c] = "limit" => Cmd(c) \in {"deploy", "activate"}
        /\ pc[c] \in {"idle", "owner", "exists"} => seen[c] = "none"
        /\ HasPending(c) => pc[c] \in {"send", "wait", "done"}

\* Every id in sight is an id of the name it is used for.
Named ==
    /\ \A v \in Versions : entries[v] # None => entries[v].id[1] = v[1]
    /\ \A c \in Calls : \A i \in todo[c] : i[1] = Name(c)
    /\ \A t \in pending : \A i \in t.ids : i[1] = Name(t.call)

OverlapBounded == Cardinality(Outstanding) <= MaxOverlap

\* What a deploy has uploaded stays stored until it is registered, unless a
\* cleanup took it meanwhile.
UploadedFirst ==
    \A c \in Calls : Uploaded(c) => ArtifactId(c) \in stored \cup orphaned

LimitInv  == TypeOK /\ CallControl /\ Named /\ OverlapBounded /\ LimitOvershoot
StoredInv == TypeOK /\ CallControl /\ UploadedFirst /\ RegisteredIsStored

----------------------------------------------------------------------------
(* Properties of steps and of behaviors.                                   *)

Landing(c, A(_)) == \E t \in pending : t.call = c /\ A(t)

\* An update that nothing overtook keeps the status of the version it replaces
\* (register.go:37) and replaces it by another build, never by itself.
UpdateKeepsStatus ==
    [][\A c \in Calls :
          LET key == <<Name(c), CliTag>> IN
          Landing(c, LandUpsert) /\ c \notin disturbed /\ entries[key] # None =>
              /\ entries'[key].status = entries[key].status
              /\ entries'[key].id # entries[key].id]_vars

\* A pause that nothing overtook leaves no version of its name active, unless
\* it went out as a changeset, which carries one id of several.
PauseIsComplete ==
    [][\A c \in Calls :
          /\ Landing(c, LandPause) /\ c \notin disturbed
          /\ job[c].mode # "changeset" \/ Cardinality(targets[c]) = 1
          => \A v \in VersionsOf(Name(c)) : entries'[v].status = "paused"]_vars

\* Every call that was started ends, also when its transactions never do.
Termination == \A c \in Calls : pc[c] = "owner" \/ pc[c] = "fetch" ~> pc[c] = "done"

\* What the tests of deploy promise of an update ("updating paused workflow
\* preserves paused status", register_test.go:104), said of the registry: a
\* version that is paused stays paused when a deploy updates it.
PausedStaysPaused ==
    [][\A c \in Calls :
          LET key == <<Name(c), CliTag>> IN
          Landing(c, LandUpsert) /\ entries[key] # None /\ entries[key].status = "paused"
              => entries'[key].status = "paused"]_vars

=============================================================================
