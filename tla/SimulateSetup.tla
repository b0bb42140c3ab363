----------------------------- MODULE SimulateSetup -----------------------------
(***************************************************************************)
(* What `cre workflow simulate` does before its session begins: clients    *)
(* and keys for the chains of the settings, the binary, the limits, the    *)
(* capabilities behind them, the choice of the trigger; and how the        *)
(* capabilities then treat the calls of the workflow.                      *)
(*                                                                         *)
(* Flags, settings and limits are read in different places and meet only   *)
(* in the capabilities.                                                    *)
(***************************************************************************)
EXTENDS Integers, Sequences, FiniteSets

CONSTANTS
    SimFlags,    \* the flags a simulation may be given
    SimSettings, \* the rpcs and experimental chains a target may have
    LimitFiles,  \* what a limits file may say; 0 is no limit
    TriggerLists \* the triggers a workflow may have

VARIABLES
    phase,      \* what comes next
    told,       \* the flags
    target,     \* the settings
    clients,    \* the chains with a client
    forwarders, \* the forwarder of each
    keys,       \* the key of each family
    sizes,      \* of the binary, raw and compressed
    limits,     \* simLimits
    engine,     \* where the engine's own limits come from
    chains,     \* the chains with a capability
    wrapped,    \* whether the actions enforce limits
    trigger,    \* the trigger to run
    listening,  \* it is to fire again and again
    asked,      \* history: a prompt was shown
    call        \* the workflow's last call of a capability

setupVars == <<phase, told, target, clients, forwarders, keys, sizes, limits, engine, chains,
               wrapped, trigger, listening, asked, call>>

\* Selectors: an EVM and a Solana chain of the built-in lists, and others.
Selectors == {"sepolia", "devnet", "local"}
Family(s) == IF s = "devnet" THEN "solana" ELSE "evm"

DefaultLimits == [binary |-> 2, packed |-> 2, in |-> 1, out |-> 1]   \* limits.json
NoLimits      == [binary |-> 0, packed |-> 0, in |-> 0, out |-> 0]

\* What settings and a limits file can say at all.
Entry == [selector : Selectors \cup {""}, type : STRING, url : BOOLEAN, forwarder : {"", "x", "y"}]

ASSUME SetupAssumption ==
    /\ \A t \in SimSettings : t.rpcs \subseteq Selectors /\ t.experimental \in Seq(Entry)
    /\ LimitFiles \subseteq [binary : Nat, packed : Nat, in : Nat, out : Nat]

NoTrigger == [kind |-> "none", selector |-> ""]
NoCall    == [of |-> "none", in |-> 0, out |-> 0, sent |-> FALSE, ok |-> TRUE]

Groups == {"execution", "triggerRates", "actionSizes"}

SetupTypeOK ==
    /\ phase \in {"clients", "keys", "inputs", "binary", "limits", "sizes", "files",
                  "capabilities", "trigger", "fire", "error"}
    /\ told \in SimFlags /\ target \in SimSettings
    /\ chains \subseteq clients /\ clients \subseteq Selectors
    /\ forwarders \in [Selectors -> {"", "built-in", "x", "y"}]
    /\ keys \in [{"evm", "solana"} -> {"none", "sentinel", "real"}]
    /\ sizes \in [raw : 0..3, packed : 0..3]
    /\ limits \in {NoLimits, DefaultLimits} \cup LimitFiles
    /\ engine \in [Groups -> {"built-in", "told", "open"}]
    /\ {wrapped, listening, asked} \subseteq BOOLEAN
    /\ trigger \in {NoTrigger} \cup UNION {{ts[i] : i \in 1..Len(ts)} : ts \in TriggerLists}
    /\ call.of \in {"none", "http", "consensus", "write"}

SetupInit ==
    /\ phase = "clients" /\ told \in SimFlags /\ target \in SimSettings
    /\ clients = {} /\ forwarders = [s \in Selectors |-> ""]
    /\ keys = [f \in {"evm", "solana"} |-> "none"]
    /\ sizes = [raw |-> 0, packed |-> 0] /\ limits = NoLimits
    /\ engine = [g \in Groups |-> "built-in"] /\ chains = {} /\ wrapped = FALSE
    /\ trigger = NoTrigger /\ listening = FALSE /\ asked = FALSE /\ call = NoCall

Given == <<told, target>>

\* Every step may fail, and then the command does.
SetupFails ==
    /\ phase \notin {"fire", "error", "limits"}
    /\ phase' = "error"
    /\ UNCHANGED <<Given, clients, forwarders, keys, sizes, limits, engine, chains, wrapped,
                   trigger, listening, asked, call>>

-----------------------------------------------------------------------------
(* ResolveClients of both families.  An experimental chain has a selector, *)
(* a URL and a forwarder, each of which may be missing.                    *)

\* The entries that count: those without a chain-type are EVM chains; of other
\* types they are ignored.
Experimental ==
    {i \in 1..Len(target.experimental) : target.experimental[i].type \in {"", "evm"}}

Complete(e) == e.selector # "" /\ e.url /\ e.forwarder # ""

Entries(s) == {i \in Experimental : target.experimental[i].selector = s}

\* An experimental chain that has a client keeps it and changes its forwarder.
ForwarderOf(s) ==
    IF Entries(s) # {}
    THEN target.experimental[CHOOSE i \in Entries(s) : \A j \in Entries(s) : j <= i].forwarder
    ELSE "built-in"

\* Only built-in chains.
SolanaClients == target.rpcs \cap {"devnet"}

\* A built-in chain whose client cannot be made is left out.
EVMClients(down) ==
    (target.rpcs \ (down \cup {"devnet"})) \cup {target.experimental[i].selector : i \in Experimental}

ResolveClients ==
    /\ phase = "clients"
    /\ \A i \in Experimental : Complete(target.experimental[i])
    /\ \E down \in SUBSET target.rpcs :
         LET cs == EVMClients(down) \cup SolanaClients IN
         /\ cs # {}
         /\ clients' = cs
         /\ forwarders' = [s \in Selectors |-> IF s \in cs THEN ForwarderOf(s) ELSE ""]
    /\ phase' = "keys"
    /\ UNCHANGED <<Given, keys, sizes, limits, engine, chains, wrapped, trigger, listening,
                   asked, call>>

\* Mutant: the well-known key is good enough for --broadcast.
ResolveEVMKeyGiven(raw) ==
    IF raw = "malformed" \/ (raw = "none" /\ told.broadcast) THEN "error"
    ELSE IF raw = "none" THEN "sentinel" ELSE raw

\* A text that is not hexadecimal is taken for none, one of the wrong length is
\* an error; without a key EVM uses a well-known one, unless it must pay.
ResolveEVMKey(raw) ==
    IF raw = "malformed" \/ (told.broadcast /\ raw # "real") THEN "error"
    ELSE IF raw = "none" THEN "sentinel" ELSE raw

\* Solana takes only a whole keypair, whatever the workflow uses.
ResolveSolanaKey(raw) == IF raw = "real" THEN "real" ELSE "error"

ResolveKey(family, raw) == IF family = "solana" THEN ResolveSolanaKey(raw) ELSE ResolveEVMKey(raw)

Families == {Family(s) : s \in clients}

ResolveKeys ==
    /\ phase = "keys"
    /\ \E raw \in [Families -> {"none", "malformed", "sentinel", "real"}] :
         /\ \A f \in Families : ResolveKey(f, raw[f]) # "error"
         /\ keys' = [f \in {"evm", "solana"} |-> IF f \in Families THEN ResolveKey(f, raw[f]) ELSE "none"]
    /\ phase' = "inputs"
    /\ UNCHANGED <<Given, clients, forwarders, sizes, limits, engine, chains, wrapped, trigger,
                   listening, asked, call>>

\* Flags of the wrong form are refused; a chain that does not answer is not.
ValidateInputs ==
    /\ phase = "inputs" /\ phase' = "binary"
    /\ UNCHANGED <<Given, clients, forwarders, keys, sizes, limits, engine, chains, wrapped,
                   trigger, listening, asked, call>>

\* --wasm, or the compiled workflow.
LoadBinary ==
    /\ phase = "binary" /\ phase' = "limits"
    /\ sizes' \in {[raw |-> r, packed |-> p] : r \in 1..3, p \in 1..3} /\ sizes'.packed <= sizes'.raw
    /\ UNCHANGED <<Given, clients, forwarders, keys, limits, engine, chains, wrapped, trigger,
                   listening, asked, call>>

-----------------------------------------------------------------------------
Enforced == told.limits # "none"   \* simLimits is there

Over(n, limit) == limit > 0 /\ n > limit

ResolveLimits ==
    /\ phase = "limits"
    /\ \/ phase' = "sizes"
          /\ limits' \in IF told.limits = "none" THEN {NoLimits}
                         ELSE IF told.limits = "file" THEN LimitFiles ELSE {DefaultLimits}
       \/ told.limits = "file" /\ phase' = "error" /\ limits' = limits
    /\ UNCHANGED <<Given, clients, forwarders, keys, sizes, engine, chains, wrapped, trigger,
                   listening, asked, call>>

CheckBinarySize ==
    /\ phase = "sizes"
    /\ phase' = IF Enforced /\ (Over(sizes.raw, limits.binary) \/ Over(sizes.packed, limits.packed))
                THEN "error" ELSE "files"
    /\ UNCHANGED <<Given, clients, forwarders, keys, sizes, limits, engine, chains, wrapped, trigger,
                   listening, asked, call>>

\* The config; the secrets, each from a variable of the environment.
ReadFiles ==
    /\ phase = "files" /\ phase' = "capabilities"
    /\ UNCHANGED <<Given, clients, forwarders, keys, sizes, limits, engine, chains, wrapped,
                   trigger, listening, asked, call>>

\* applyEngineLimits leaves the sizes of actions to the capabilities, and
\* disableEngineLimits the rates of triggers.
EngineLimits ==
    [g \in Groups |-> IF Enforced THEN IF g = "actionSizes" THEN "built-in" ELSE "told"
                      ELSE IF g = "triggerRates" THEN "built-in" ELSE "open"]

\* A capability for each chain that has a forwarder.
Forwarded == {s \in clients : forwarders[s] # ""}

\* simulatorInitialize.
Initialize ==
    /\ phase = "capabilities" /\ phase' = "trigger"
    /\ chains' = Forwarded
    /\ wrapped' = Enforced
    /\ engine' = EngineLimits
    /\ UNCHANGED <<Given, clients, forwarders, keys, sizes, limits, trigger, listening, asked, call>>

-----------------------------------------------------------------------------
\* --trigger-index is for --non-interactive only; else more than one are asked for.
ChooseTrigger(ts) ==
    IF told.quiet THEN IF told.index + 1 \in 1..Len(ts) THEN {ts[told.index + 1]} ELSE {}
    ELSE {ts[i] : i \in 1..Len(ts)}

HasPayload == told.payload = "good" \/ (told.payload = "" /\ ~told.quiet)

\* How a chain's event is got is another module; Solana has no listener.
Runnable(t) ==
    CASE t.kind = "cron"  -> TRUE
      [] t.kind = "http"  -> HasPayload
      [] t.kind = "chain" -> t.selector \in chains /\ (told.listen => Family(t.selector) = "evm")
      [] OTHER            -> FALSE

BeforeStart(quiet) ==
    /\ phase = "trigger" /\ told.quiet = quiet
    /\ \E ts \in TriggerLists : \E t \in ChooseTrigger(ts) :
         /\ Runnable(t)
         /\ trigger' = t
         /\ listening' = (told.listen /\ t.kind \in {"http", "chain"})
         /\ asked' = (~quiet /\ Len(ts) > 1)
    /\ phase' = "fire"
    /\ UNCHANGED <<Given, clients, forwarders, keys, sizes, limits, engine, chains, wrapped, call>>

BeforeStartInteractive    == BeforeStart(FALSE)
BeforeStartNonInteractive == BeforeStart(TRUE)

-----------------------------------------------------------------------------
(* Calls of the workflow.                                                  *)

Sends(in) == ~wrapped \/ ~Over(in, limits.in)

\* LimitedHTTPAction and its confidential twin: too much is not sent; an answer
\* that is too long was sent for, and is withheld.
HTTPCall(in, out) ==
    [of |-> "http", in |-> in, out |-> out, sent |-> Sends(in),
     ok |-> Sends(in) /\ (wrapped => ~Over(out, limits.out))]

\* LimitedConsensusNoDAG: the size of an observation.
ConsensusCall(in, out) ==
    [of |-> "consensus", in |-> in, out |-> out, sent |-> Sends(in), ok |-> Sends(in)]

\* WriteReport of a chain: the length of the report, and the gas.
WriteReport(in, gas) ==
    LET sends == ~Over(in, limits.in) /\ ~Over(gas, limits.out) IN
    [of |-> "write", in |-> in, out |-> gas, sent |-> sends, ok |-> sends]

CallCapability ==
    /\ phase = "fire"
    /\ \E in, out \in 0..2 :
         call' \in {HTTPCall(in, out), ConsensusCall(in, out)}
                     \cup IF chains # {} THEN {WriteReport(in, out)} ELSE {}
    /\ UNCHANGED <<phase, Given, clients, forwarders, keys, sizes, limits, engine, chains, wrapped,
                   trigger, listening, asked>>

SetupNext ==
    \/ SetupFails \/ ResolveClients \/ ResolveKeys \/ ValidateInputs \/ LoadBinary
    \/ ResolveLimits \/ CheckBinarySize \/ ReadFiles \/ Initialize
    \/ BeforeStartInteractive \/ BeforeStartNonInteractive \/ CallCapability

-----------------------------------------------------------------------------
\* A simulation that fires does what its flags and settings say: it pays with
\* a key of the user's only; a chain of the trigger is one of the settings, and
\* writes go to a forwarder that they name for it; with --non-interactive it
\* asked nothing; the limits hold for the binary and for all that is sent and
\* received, and with --limits none nothing is refused.
SimulatesAsTold ==
    phase = "fire" =>
        /\ told.broadcast => \A s \in clients : keys[Family(s)] = "real"
        /\ trigger.kind = "chain" =>
             trigger.selector \in target.rpcs \cup {target.experimental[i].selector :
                                                     i \in 1..Len(target.experimental)}
        /\ \A s \in chains :
             \/ forwarders[s] = "built-in" /\ s \in target.rpcs
             \/ \E i \in 1..Len(target.experimental) :
                  target.experimental[i].selector = s /\ target.experimental[i].forwarder = forwarders[s]
        /\ told.quiet => ~asked
        /\ listening => told.listen
        /\ Enforced => /\ ~Over(sizes.raw, limits.binary) /\ ~Over(sizes.packed, limits.packed)
                       /\ call.sent => ~Over(call.in, limits.in)
                       /\ call.ok /\ call.of # "consensus" => ~Over(call.out, limits.out)
        /\ ~Enforced => call.ok /\ \A g \in Groups \ {"triggerRates"} : engine[g] = "open"
=============================================================================
