------------------------------ MODULE CommandGate ------------------------------
(***************************************************************************)
(* What the root command does before any other runs (PersistentPreRunE):   *)
(* environment, credentials, tenant context, settings, registry and        *)
(* workflow owner, each only for some commands, and the last two in two    *)
(* parts: an owner that depends on the registry is found after it.  What a *)
(* step reads from files, prompts and services is chosen when it is read.  *)
(* An address is "cfg" (the one in the settings), "other" or "org".        *)
(***************************************************************************)
EXTENDS Integers

CONSTANT GatedCmds  \* the commands to look at

VARIABLES
    stage,      \* what comes next
    cmd,        \* the command and its flags
    key,        \* the private key of the environment: "none", "bad" or its address
    has,        \* the parts of the runtime context that are there
    conf,       \* the settings: the deployment registry and whether an owner is set
    rpcOK,      \* whether there is a good URL for the registry's chain
    registry,   \* the resolved registry's type; "": none
    derived,    \* the owner derived from the organisation; "": unknown
    owner       \* the workflow owner; "": none

gateVars == <<stage, cmd, key, has, conf, rpcOK, registry, derived, owner>>

Parts == {"env", "creds", "tenant", "settings"}
Keys  == {"none", "bad", "cfg", "other"}
Deep  == {"deploy", "pause", "activate", "delete"}

\* The commands that the lists of root.go leave out.
LoadsCredentials(c) == c \notin {"version", "update", "templates", "build", "hash"}
LoadsSettings(c) ==
    c \notin {"version", "update", "templates", "build", "init", "whoami", "access", "list",
              "execution", "registry-list"}
IsRegistryRPC(c) == c \in Deep \cup {"link-key", "unlink-key"}

\* --unsigned or --changeset; one that is given may still be false.
Flags == [name : GatedCmds, multisig : {"unset", "true", "false"}, browser : BOOLEAN,
          broadcast : BOOLEAN, public : BOOLEAN]

SaneFlags(f) ==
    /\ f.multisig # "unset" => f.name \in Deep \cup {"link-key", "unlink-key", "secrets"}
    /\ f.browser => f.name = "secrets"
    /\ f.broadcast => f.name = "simulate"
    /\ f.public => f.name = "hash"

Registries == {"", "private", "onchain", "odd", "gone"}

GateTypeOK ==
    /\ stage \in {"env", "creds", "login", "tenant", "dir", "target", "settings", "hash",
                  "registry", "rpc", "owner", "run", "hashed", "login done", "error"}
    /\ cmd \in Flags /\ key \in Keys /\ has \in SUBSET Parts
    /\ conf \in [registry : Registries, owner : BOOLEAN] /\ rpcOK \in BOOLEAN
    /\ registry \in {"", "private", "onchain"}
    /\ derived \in {"", "org"} /\ owner \in {"", "cfg", "other", "org"}

GateInit ==
    /\ stage = "env"
    /\ cmd \in {f \in Flags : SaneFlags(f)}
    /\ key = "none" /\ has = {} /\ conf = [registry |-> "", owner |-> FALSE] /\ rpcOK = FALSE
    /\ registry = "" /\ derived = "" /\ owner = ""

Fail(s)    == stage = s /\ stage' = "error" /\ UNCHANGED <<cmd, key, has, conf, rpcOK, registry, derived, owner>>
Pass(s, t) == stage = s /\ stage' = t /\ UNCHANGED <<cmd, key, has, conf, rpcOK, registry, derived, owner>>

AfterCreds ==
    IF "settings" \in has THEN "registry" ELSE IF LoadsSettings(cmd.name) THEN "dir" ELSE "run"

-----------------------------------------------------------------------------
\* ResolveAndLoadBothEnvFiles: .env.public, else .env, else the shell.  A file
\* is looked for from "." on, and the parent of "." is ".": one of a directory
\* above is not found.
FindEnvFile(f) == f.in = "cwd"

LoadEnvFiles ==
    /\ stage = "env"
    /\ \E shell \in Keys, env, public \in [in : {"cwd", "above", "none"}, key : Keys] :
         key' = IF FindEnvFile(public) /\ public.key # "none" THEN public.key
                ELSE IF FindEnvFile(env) /\ env.key # "none" THEN env.key ELSE shell
    /\ has' = has \cup {"env"}
    /\ stage' = IF LoadsCredentials(cmd.name) THEN "creds" ELSE AfterCreds
    /\ UNCHANGED <<cmd, conf, rpcOK, registry, derived, owner>>

\* Credentials of the file or an API key, good for the service.
GoodCredentials ==
    /\ has' = has \cup {"creds"} /\ derived' = "org"
    /\ UNCHANGED <<cmd, key, conf, rpcOK, registry, owner>>

AttachCredentials ==
    \/ stage = "creds" /\ GoodCredentials /\ stage' = "tenant"
    \/ Fail("creds")            \* there, but not validated
    \/ Pass("creds", "login")   \* none

\* Without a terminal, or refused, or failed: an error.  Never the command.
Login == Fail("login") \/ Pass("login", "login done")

AttachTenantContext ==
    \/ Fail("tenant")           \* cannot be fetched; or link-key without access
    \/ /\ stage = "tenant"
       /\ has' = has \cup {"tenant"} /\ stage' = AfterCreds
       /\ UNCHANGED <<cmd, key, conf, rpcOK, registry, derived, owner>>

\* The project's root by flag or upwards from here, and the workflow's directory.
SetExecutionContext == Fail("dir") \/ Pass("dir", "target")

\* By flag, by environment, the only one, or asked for unless --non-interactive.
SelectTarget == Fail("target") \/ Pass("target", "settings")

-----------------------------------------------------------------------------
ShouldSkipGetOwner ==
    \/ cmd.name = "hash"
    \/ cmd.name = "simulate" /\ ~cmd.broadcast
    \/ cmd.browser

\* GetWorkflowOwner: the owner for settings c; "": an error.
WorkflowOwner(c) ==
    IF cmd.multisig # "unset" THEN IF c.owner THEN "cfg" ELSE ""
    ELSE IF key \in {"none", "bad"} \/ (c.owner /\ key # "cfg") THEN ""
    ELSE key

\* ValidateMultisigCompatibility, for a registry that may not be known yet.
MultisigCompatible(r) == cmd.multisig = "true" => ~cmd.browser /\ r # "private"

\* The settings of the target.  With a deployment registry the owner waits.
LoadSettings ==
    \/ Fail("settings")         \* no such target, bad URLs or chain names
    \/ /\ stage = "settings"
       /\ \E c \in [registry : Registries, owner : BOOLEAN], u \in BOOLEAN :
            LET now == ~ShouldSkipGetOwner /\ c.registry = ""
                o   == IF now THEN WorkflowOwner(c) ELSE ""
            IN  /\ conf' = c /\ rpcOK' = u /\ owner' = o
                /\ stage' = IF (now /\ o = "") \/ ~MultisigCompatible("") THEN "error"
                            ELSE IF cmd.name = "hash" THEN "hash" ELSE "registry"
       /\ has' = has \cup {"settings"}
       /\ UNCHANGED <<cmd, key, registry, derived>>

\* A hash for the private registry wants credentials, and can do without.
HashCredentials ==
    \/ Pass("hash", "registry")
    \/ stage = "hash" /\ conf.registry = "private" /\ GoodCredentials /\ stage' = "tenant"

Resolves(t) ==
    registry' = t /\ stage' = "rpc" /\ UNCHANGED <<cmd, key, has, conf, rpcOK, derived, owner>>

\* ResolveRegistry: without a name the one of the environment, else one that the
\* tenant context has, with a type and what its type needs.
ResolveRegistry ==
    LET skipped == cmd.name = "hash" /\ "tenant" \notin has /\ conf.registry # "" IN
    \/ stage = "registry" /\ skipped /\ Pass("registry", "rpc")
    \/ /\ stage = "registry" /\ ~skipped
       /\ \/ conf.registry = "" /\ Resolves("onchain")
          \/ conf.registry \in {"private", "onchain"} /\ Resolves(conf.registry)
          \/ conf.registry \in {"onchain", "odd", "gone"} /\ Fail("registry")

ValidateOnchainRegistryRPC ==
    /\ stage = "rpc"
    /\ IF IsRegistryRPC(cmd.name) /\ registry # "private" /\ ~rpcOK
       THEN Fail("rpc") ELSE Pass("rpc", "owner")

\* Mutant: what the settings say goes for every registry.
FinalizeFromSettings ==
    /\ stage = "owner"
    /\ LET o == WorkflowOwner(conf) IN
       IF ShouldSkipGetOwner \/ conf.registry = "" THEN Pass("owner", "run")
       ELSE /\ owner' = o /\ stage' = (IF o = "" THEN "error" ELSE "run")
            /\ UNCHANGED <<cmd, key, has, conf, rpcOK, registry, derived>>

\* FinalizeWorkflowOwner.
FinalizeOwner ==
    /\ stage = "owner"
    /\ LET o == IF registry = "private" THEN derived ELSE WorkflowOwner(conf) IN
       IF ~MultisigCompatible(registry) THEN Fail("owner")
       ELSE IF ShouldSkipGetOwner \/ conf.registry = "" THEN Pass("owner", "run")
       ELSE /\ owner' = o /\ stage' = (IF o = "" \/ registry = "" THEN "error" ELSE "run")
            /\ UNCHANGED <<cmd, key, has, conf, rpcOK, registry, derived>>

-----------------------------------------------------------------------------
\* `hash`: the owner it computes with.
HashType ==
    IF registry # "" THEN registry ELSE IF conf.registry = "private" THEN "private" ELSE "onchain"

HashOwner ==
    IF HashType = "private" THEN derived
    ELSE IF owner # "" THEN owner
    ELSE IF key \in {"cfg", "other"} THEN key ELSE ""

Hash ==
    /\ stage = "run" /\ cmd.name = "hash"
    /\ owner' = HashOwner
    /\ stage' = IF cmd.public \/ HashOwner # "" THEN "hashed" ELSE "error"
    /\ UNCHANGED <<cmd, key, has, conf, rpcOK, registry, derived>>

GateNext ==
    \/ LoadEnvFiles \/ AttachCredentials \/ Login \/ AttachTenantContext \/ SetExecutionContext
    \/ SelectTarget \/ LoadSettings \/ HashCredentials \/ ResolveRegistry
    \/ ValidateOnchainRegistryRPC \/ FinalizeOwner \/ Hash

-----------------------------------------------------------------------------
\* A command that runs finds the parts of the runtime context it uses, and an
\* owner that goes with the registry the settings turned out to name: of the
\* organisation, and no multisig, for the private one; else the configured one
\* for --unsigned, and the key's, with nothing else configured, without.
ReadyToRun ==
    stage = "run" =>
        LET n == cmd.name
            usesOwner == LoadsSettings(n) /\ ~ShouldSkipGetOwner
        IN  /\ LoadsCredentials(n) => {"creds", "tenant"} \subseteq has
            /\ LoadsSettings(n) => "settings" \in has
            /\ n \in Deep \cup {"get"} => registry # ""
            /\ IsRegistryRPC(n) => registry = "private" \/ rpcOK
            /\ registry = "private" => cmd.multisig # "true"
            /\ usesOwner => owner = CASE registry = "private" -> "org"
                                      [] registry # "private" /\ cmd.multisig # "unset" -> "cfg"
                                      [] OTHER -> key
            /\ usesOwner /\ registry # "private" /\ conf.owner => owner = "cfg"

\* A hash without --public_key is that of the configured owner of an on-chain
\* workflow: "Auto-derivation uses workflow-owner-address/CRE_ETH_PRIVATE_KEY
\* for on-chain" (docs/cre_workflow_hash.md:27).
HashesForOwner ==
    stage = "hashed" /\ ~cmd.public /\ HashType = "onchain" /\ conf.owner => owner = "cfg"
=============================================================================
