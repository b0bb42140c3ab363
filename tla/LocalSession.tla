---------------------------- MODULE LocalSession ----------------------------
(***************************************************************************)
(* The session of the CLI on one machine: cre.yaml with the tokens of the  *)
(* account that logged in, context.yaml with the registries of its         *)
(* organization, and the authorization server that rotates refresh tokens. *)
(*                                                                         *)
(* Processes share nothing but these files.  Each runs one command: login, *)
(* logout, or a command that queries the backend with the stored tokens or *)
(* with an API key.  cre.yaml is replaced by writing cre.yaml.tmp, a fixed *)
(* name, and renaming it.  Files are inodes here, so that a process which  *)
(* still has the temporary file open writes to wherever it was moved.      *)
(***************************************************************************)
EXTENDS Integers, FiniteSets

CONSTANTS
    Procs,      \* processes
    Mixes,      \* what they run, [Procs -> Kinds]: the combinations to look at
    Accounts,   \* accounts a login may choose, and the one of the API key
    NoAccount,
    MaxToken    \* bound: refresh tokens the server issues, the first is 1

Kinds == {"query", "apiKey", "login", "logout"}

ASSUME ProcsAssumption == IsFiniteSet(Procs) /\ Procs # {}
ASSUME MixesAssumption == Mixes \subseteq [Procs -> Kinds]
ASSUME AccountsAssumption == NoAccount \notin Accounts /\ Accounts # {}
ASSUME MaxTokenAssumption == MaxToken \in Nat \ {0}

VARIABLES
    kind,       \* kind[p]: what p runs: "query", "apiKey", "login", "logout"
    pc,         \* pc[p]: where it is
    saving,     \* saving[p]: how far SaveCredentials is: "no", "open", "write", "rename"
    mem,        \* mem[p]: the tokens p holds
    fd,         \* fd[p]: the inode p has open, 0 for none
    refreshed,  \* refreshed[p]: p has fresh access tokens
    outcome,    \* outcome[p]
    node,       \* node[i]: content of inode i
    file, tmp,  \* inodes of cre.yaml and cre.yaml.tmp, 0 for none
    context,    \* the account whose context is in context.yaml, or NoAccount
    rotates,    \* whether the server rotates refresh tokens
    live,       \* refresh tokens the server accepts
    issued,     \* refresh tokens issued so far
    revoked,    \* history: revoked by a logout
    cut,        \* history: spent tokens whose successors got lost
    clash,      \* history: two processes were saving at a time
    overlap,    \* history: two processes were running at a time
    mixed,      \* history: something put the context out of step, see ContextOfAccount
    used        \* used[p]: the account whose context p's command used

procVars == <<kind, pc, saving, mem, fd, refreshed, outcome, used>>
diskVars == <<node, file, tmp, context>>
authVars == <<rotates, live, issued, revoked, cut>>
histVars == <<clash, overlap, mixed>>
vars == <<procVars, diskVars, authVars, histVars>>

Inodes == 1..(Cardinality(Procs) + 2)

Tokens(a, rt) == [is |-> "tokens", account |-> a, rt |-> rt]
Bytes(what)   == [is |-> what, account |-> NoAccount, rt |-> 0]
Nothing       == Bytes("empty")
Contents      == {Bytes(what) : what \in {"empty", "zeros", "torn"}}
                     \cup [is : {"tokens"}, account : Accounts, rt : 1..MaxToken]

Places == {"start", "validate", "context", "command", "telemetry", "auth", "exchange", "tenant",
           "revoke", "open", "zero", "remove", "clear", "gone"}

\* Every variable has its type: the tokens on disk are ones the server issued.
TypeOK ==
    /\ kind \in [Procs -> Kinds]
    /\ pc \in [Procs -> Places]
    /\ saving \in [Procs -> {"no", "open", "write", "rename"}]
    /\ mem \in [Procs -> Contents]
    /\ fd \in [Procs -> Inodes \cup {0}]
    /\ refreshed \in [Procs -> BOOLEAN]
    /\ outcome \in [Procs -> {"none", "ok", "notLoggedIn", "error", "killed"}]
    /\ node \in [Inodes -> Contents]
    /\ {file, tmp} \subseteq Inodes \cup {0}
    /\ context \in Accounts \cup {NoAccount}
    /\ used \in [Procs -> Accounts \cup {NoAccount}]
    /\ issued \in 1..MaxToken
    /\ \A S \in {live, revoked, cut} : S \subseteq 1..issued
    /\ \A p \in Procs : mem[p].rt <= issued
    /\ \A i \in Inodes : node[i].rt <= issued
    /\ {rotates, clash, overlap, mixed} \subseteq BOOLEAN

\* Somebody is logged in, with the context of that login, or nobody is.
Init ==
    /\ kind \in Mixes
    /\ pc = [p \in Procs |-> "start"]
    /\ saving = [p \in Procs |-> "no"]
    /\ mem = [p \in Procs |-> Nothing]
    /\ fd = [p \in Procs |-> 0]
    /\ refreshed = [p \in Procs |-> FALSE]
    /\ outcome = [p \in Procs |-> "none"]
    /\ used = [p \in Procs |-> NoAccount]
    /\ \E a \in Accounts :
         \/ /\ node = [i \in Inodes |-> IF i = 1 THEN Tokens(a, 1) ELSE Nothing]
            /\ file = 1 /\ context = a
         \/ /\ node = [i \in Inodes |-> Nothing]
            /\ file = 0 /\ context = NoAccount
    /\ tmp = 0
    /\ rotates \in BOOLEAN
    /\ live = {1} /\ issued = 1 /\ revoked = {} /\ cut = {}
    /\ clash = FALSE /\ overlap = FALSE /\ mixed = FALSE

Running(p) == pc[p] \notin {"start", "gone"}
Saving(p)  == saving[p] \in {"write", "rename"}
OnFile     == IF file = 0 THEN Nothing ELSE node[file]

Goto(p, place) == pc' = [pc EXCEPT ![p] = place]

\* The command is over: telemetry follows where credentials were attached.
End(p, result) ==
    /\ outcome' = [outcome EXCEPT ![p] = IF @ = "none" THEN result ELSE @]
    /\ Goto(p, IF kind[p] \in {"query", "apiKey"} /\ pc[p] # "telemetry" /\ pc[p] # "start"
               THEN "telemetry" ELSE "gone")

----------------------------------------------------------------------------
(* Start: the credentials.                                                 *)

Starts(p) ==
    /\ pc[p] = "start"
    /\ overlap' = (overlap \/ \E q \in Procs : Running(q))
    /\ UNCHANGED <<saving, fd, refreshed, used, diskVars, authVars, clash, mixed>>

\* credentials.New of a command that needs them.
AttachCredentials(p) ==
    /\ Starts(p)
    /\ \/ /\ kind[p] = "query"
          /\ OnFile.is = "tokens"
          /\ mem' = [mem EXCEPT ![p] = OnFile]
          /\ Goto(p, "validate")
          /\ UNCHANGED <<kind, outcome>>
       \/ /\ kind[p] = "apiKey"
          /\ Goto(p, "validate")
          /\ UNCHANGED <<kind, outcome, mem>>

\* No readable credentials: the command ends, or offers a login and ends
\* after it.
NotLoggedIn(p) ==
    /\ kind[p] = "query"
    /\ OnFile.is # "tokens"
    /\ Starts(p)
    /\ \/ End(p, "error") /\ UNCHANGED kind
       \/ kind' = [kind EXCEPT ![p] = "login"] /\ Goto(p, "auth") /\ UNCHANGED outcome
    /\ UNCHANGED mem

----------------------------------------------------------------------------
(* GraphQL requests, with a refresh of the tokens before.                  *)

\* Where a process sends requests.
Querying(p) ==
    /\ \/ pc[p] \in {"validate", "command", "telemetry", "tenant"}
       \/ pc[p] = "context" /\ (kind[p] = "apiKey" \/ context = NoAccount)
    /\ saving[p] = "no"

\* Mutant: the response's refresh token is taken also when it has none.
RefreshTokenLost(p) ==
    /\ Querying(p)
    /\ mem[p].is = "tokens"
    /\ ~refreshed[p]
    /\ mem[p].rt \in live
    /\ refreshed' = [refreshed EXCEPT ![p] = TRUE]
    /\ mem' = [mem EXCEPT ![p].rt = IF rotates THEN issued + 1 ELSE 0]
    /\ IF rotates THEN issued < MaxToken /\ issued' = issued + 1
                       /\ live' = (live \ {mem[p].rt}) \cup {issued + 1}
       ELSE UNCHANGED <<issued, live>>
    /\ saving' = [saving EXCEPT ![p] = "open"]
    /\ UNCHANGED <<kind, pc, fd, outcome, used, diskVars, rotates, revoked, cut, histVars>>

\* Mutant: the new tokens are used, but not saved.
RefreshTokenUnsaved(p) ==
    /\ Querying(p)
    /\ mem[p].is = "tokens"
    /\ ~refreshed[p]
    /\ mem[p].rt \in live
    /\ refreshed' = [refreshed EXCEPT ![p] = TRUE]
    /\ \/ ~rotates /\ UNCHANGED <<mem, live, issued>>
       \/ /\ rotates /\ issued < MaxToken
          /\ issued' = issued + 1
          /\ live' = (live \ {mem[p].rt}) \cup {issued + 1}
          /\ mem' = [mem EXCEPT ![p].rt = issued + 1]
    /\ UNCHANGED <<kind, pc, saving, fd, outcome, used, diskVars, rotates, revoked, cut, histVars>>

\* The answer of the authorization server: a rotated refresh token, or new
\* access tokens only.  The access token of a process expires
\* once: processes are short.
RefreshToken(p) ==
    /\ Querying(p)
    /\ mem[p].is = "tokens"
    /\ ~refreshed[p]
    /\ mem[p].rt \in live
    /\ refreshed' = [refreshed EXCEPT ![p] = TRUE]
    /\ \/ ~rotates /\ UNCHANGED <<mem, live, issued>>
       \/ /\ rotates /\ issued < MaxToken
          /\ issued' = issued + 1
          /\ live' = (live \ {mem[p].rt}) \cup {issued + 1}
          /\ mem' = [mem EXCEPT ![p].rt = issued + 1]
    /\ saving' = [saving EXCEPT ![p] = "open"]
    /\ UNCHANGED <<kind, pc, fd, outcome, used, diskVars, rotates, revoked, cut, histVars>>

\* 401, or an answer that does not arrive: the token may be spent by then.
RefreshFails(p) ==
    /\ Querying(p)
    /\ mem[p].is = "tokens"
    /\ ~refreshed[p]
    /\ End(p, "error")
    /\ \/ UNCHANGED <<live, cut>>
       \/ /\ rotates /\ mem[p].rt \in live
          /\ live' = live \ {mem[p].rt}
          /\ cut' = cut \cup {mem[p].rt}
    /\ UNCHANGED <<kind, saving, mem, fd, refreshed, used, diskVars, rotates, issued, revoked, clash,
                   overlap, mixed>>

\* The organization of the account, once per process.
ValidateCredentials(p) ==
    /\ pc[p] = "validate"
    /\ Querying(p)
    /\ Goto(p, "context")
    /\ UNCHANGED <<kind, saving, mem, fd, refreshed, outcome, used, diskVars, authVars,
                   histVars>>

\* What the command asks for, `whoami` for one; then the event of the command.
CommandQuery(p) ==
    /\ pc[p] = "command"
    /\ Querying(p)
    /\ End(p, "ok")
    /\ UNCHANGED <<kind, saving, mem, fd, refreshed, used, diskVars, authVars, histVars>>

SendEvent(p) ==
    /\ pc[p] = "telemetry"
    /\ Querying(p)
    /\ End(p, "ok")
    /\ UNCHANGED <<kind, saving, mem, fd, refreshed, used, diskVars, authVars, histVars>>

\* A request fails after the tokens were found fresh, or refreshed and saved.
RequestFails(p) ==
    /\ Querying(p)
    /\ End(p, "error")
    /\ mixed' = (mixed \/ pc[p] = "tenant")
    /\ UNCHANGED <<kind, saving, mem, fd, refreshed, used, diskVars, authVars, clash, overlap>>

----------------------------------------------------------------------------
(* SaveCredentials.                                                        *)

Free == CHOOSE i \in Inodes : i \notin {file, tmp} \cup {fd[q] : q \in Procs}

\* Mutant: write cre.yaml in place.
SaveOpenInPlace(p) ==
    /\ saving[p] = "open"
    /\ LET i == IF file = 0 THEN Free ELSE file
       IN file' = i /\ fd' = [fd EXCEPT ![p] = i] /\ node' = [node EXCEPT ![i] = Nothing]
          /\ tmp' = i
    /\ saving' = [saving EXCEPT ![p] = "write"]
    /\ clash' = (clash \/ \E q \in Procs : Saving(q))
    /\ UNCHANGED <<kind, pc, mem, refreshed, outcome, used, context, authVars, overlap, mixed>>

\* os.WriteFile truncates the temporary file, or creates it.
SaveOpen(p) ==
    /\ saving[p] = "open"
    /\ LET i == IF tmp = 0 THEN Free ELSE tmp
       IN tmp' = i /\ fd' = [fd EXCEPT ![p] = i] /\ node' = [node EXCEPT ![i] = Nothing]
    /\ saving' = [saving EXCEPT ![p] = "write"]
    /\ clash' = (clash \/ \E q \in Procs : Saving(q))
    /\ UNCHANGED <<kind, pc, mem, refreshed, outcome, used, file, context, authVars, overlap,
                   mixed>>

\* It writes at the offset of its own descriptor, over what another process
\* wrote, which may have been longer.
SaveWrite(p) ==
    /\ saving[p] = "write"
    /\ \/ node' = [node EXCEPT ![fd[p]] = mem[p]]
       \/ node[fd[p]] # Nothing /\ node' = [node EXCEPT ![fd[p]] = Bytes("torn")]
    /\ fd' = [fd EXCEPT ![p] = 0]
    /\ saving' = [saving EXCEPT ![p] = "rename"]
    /\ UNCHANGED <<kind, pc, mem, refreshed, outcome, used, file, tmp, context, authVars,
                   histVars>>

\* After the save a refresh goes on with its request, and a login with the
\* tenant's configuration.
SaveRename(p) ==
    /\ saving[p] = "rename"
    /\ tmp # 0
    /\ file' = tmp /\ tmp' = 0
    /\ saving' = [saving EXCEPT ![p] = "no"]
    /\ pc' = IF pc[p] = "exchange" THEN [pc EXCEPT ![p] = "tenant"] ELSE pc
    /\ UNCHANGED <<kind, mem, fd, refreshed, outcome, used, node, context, authVars, histVars>>

\* The file system fails, or another process has moved the temporary file.
SaveFails(p) ==
    /\ saving[p] # "no"
    /\ saving' = [saving EXCEPT ![p] = "no"]
    /\ fd' = [fd EXCEPT ![p] = 0]
    /\ End(p, "error")
    /\ cut' = cut \cup (1..issued \ live)
    /\ UNCHANGED <<kind, mem, refreshed, used, diskVars, rotates, live, issued, revoked, histVars>>

----------------------------------------------------------------------------
(* The tenant context.                                                     *)

\* LoadContext: the cached context of the environment, whoever wrote it.
UseContext(p) ==
    /\ pc[p] = "context"
    /\ kind[p] = "query"
    /\ context # NoAccount
    /\ used' = [used EXCEPT ![p] = context]
    /\ Goto(p, "command")
    /\ UNCHANGED <<kind, saving, mem, fd, refreshed, outcome, diskVars, authVars, histVars>>

\* Mutant: a cached context is good enough for a login.
FetchUnlessCached(p) ==
    /\ pc[p] \in {"context", "tenant"}
    /\ Querying(p)
    /\ \E a \in IF context # NoAccount THEN {context} ELSE {mem[p].account} :
         /\ context' = a
         /\ used' = [used EXCEPT ![p] = a]
    /\ mixed' = (mixed \/ kind[p] = "apiKey")
    /\ IF pc[p] = "context" THEN Goto(p, "command") /\ UNCHANGED outcome
       ELSE End(p, "ok")
    /\ UNCHANGED <<kind, saving, mem, fd, refreshed, node, file, tmp, authVars, clash, overlap>>

\* FetchAndWriteContext, when there is none, with an API key, or in a login.
FetchAndWriteContext(p) ==
    /\ pc[p] \in {"context", "tenant"}
    /\ Querying(p)
    /\ \E a \in IF kind[p] = "apiKey" THEN Accounts ELSE {mem[p].account} :
         /\ context' = a
         /\ used' = [used EXCEPT ![p] = a]
    /\ mixed' = (mixed \/ kind[p] = "apiKey")
    /\ IF pc[p] = "context" THEN Goto(p, "command") /\ UNCHANGED outcome
       ELSE End(p, "ok")
    /\ UNCHANGED <<kind, saving, mem, fd, refreshed, node, file, tmp, authVars, clash, overlap>>

----------------------------------------------------------------------------
(* Login.                                                                  *)

LoginStart(p) ==
    /\ kind[p] = "login"
    /\ Starts(p)
    /\ Goto(p, "auth")
    /\ UNCHANGED <<kind, mem, outcome>>

\* The browser returns with a code (see LoginCallback), or nothing comes.
StartAuthFlow(p) ==
    /\ pc[p] = "auth"
    /\ \/ Goto(p, "exchange") /\ UNCHANGED outcome
       \/ End(p, "error")
    /\ UNCHANGED <<kind, saving, mem, fd, refreshed, used, diskVars, authVars, histVars>>

ExchangeAuthorizationCode(p) ==
    /\ pc[p] = "exchange"
    /\ saving[p] = "no"
    /\ \/ /\ issued < MaxToken
          /\ issued' = issued + 1
          /\ live' = live \cup {issued + 1}
          /\ \E a \in Accounts : mem' = [mem EXCEPT ![p] = Tokens(a, issued + 1)]
          /\ refreshed' = [refreshed EXCEPT ![p] = TRUE]
          /\ saving' = [saving EXCEPT ![p] = "open"]
          /\ UNCHANGED <<pc, outcome>>
       \/ End(p, "error") /\ UNCHANGED <<issued, live, mem, refreshed, saving>>
    /\ UNCHANGED <<kind, fd, used, diskVars, rotates, revoked, cut, histVars>>

----------------------------------------------------------------------------
(* Logout.                                                                 *)

LogoutStart(p) ==
    /\ kind[p] = "logout"
    /\ Starts(p)
    /\ IF OnFile.is = "tokens"
       THEN mem' = [mem EXCEPT ![p] = OnFile] /\ Goto(p, "revoke") /\ UNCHANGED outcome
       ELSE End(p, "notLoggedIn") /\ UNCHANGED mem
    /\ UNCHANGED kind

\* A revocation that fails is a warning in the log.
Revoke(p) ==
    /\ pc[p] = "revoke"
    /\ Goto(p, "open")
    /\ \/ live' = live \ {mem[p].rt} /\ revoked' = revoked \cup {mem[p].rt}
       \/ UNCHANGED <<live, revoked>>
    /\ UNCHANGED <<kind, saving, mem, fd, refreshed, outcome, used, diskVars, rotates, issued, cut,
                   histVars>>

\* Mutant: an error of SecureRemove is a warning too.
SecureRemoveFailsQuietly(p) ==
    /\ pc[p] \in {"open", "zero", "remove"}
    /\ Goto(p, "clear")
    /\ fd' = [fd EXCEPT ![p] = 0]
    /\ UNCHANGED <<kind, saving, mem, refreshed, outcome, used, diskVars, authVars, histVars>>

\* SecureRemove opens cre.yaml, which may be gone already, ...
SecureOpen(p) ==
    /\ pc[p] = "open"
    /\ fd' = [fd EXCEPT ![p] = file]
    /\ Goto(p, IF file = 0 THEN "clear" ELSE "zero")
    /\ UNCHANGED <<kind, saving, mem, refreshed, outcome, used, diskVars, authVars, histVars>>

\* ... overwrites what it opened ...
SecureZero(p) ==
    /\ pc[p] = "zero"
    /\ node' = [node EXCEPT ![fd[p]] = IF @ = Nothing THEN @ ELSE Bytes("zeros")]
    /\ fd' = [fd EXCEPT ![p] = 0]
    /\ Goto(p, "remove")
    /\ UNCHANGED <<kind, saving, mem, refreshed, outcome, used, file, tmp, context, authVars,
                   histVars>>

\* ... and removes whatever has the name by now.
SecureRemove(p) ==
    /\ pc[p] = "remove"
    /\ file # 0
    /\ file' = 0
    /\ Goto(p, "clear")
    /\ UNCHANGED <<kind, saving, mem, fd, refreshed, outcome, used, node, tmp, context,
                   authVars, histVars>>

\* A file that cannot be opened, written or removed: another logout removed it.
SecureRemoveFails(p) ==
    /\ pc[p] \in {"open", "zero", "remove"}
    /\ End(p, "error")
    /\ fd' = [fd EXCEPT ![p] = 0]
    /\ UNCHANGED <<kind, saving, mem, refreshed, used, diskVars, authVars, histVars>>

\* The context is removed; a failure is a warning.
RemoveContext(p) ==
    /\ pc[p] = "clear"
    /\ \/ context' = NoAccount /\ UNCHANGED mixed
       \/ context # NoAccount /\ mixed' = TRUE /\ UNCHANGED context
    /\ End(p, "ok")
    /\ UNCHANGED <<kind, saving, mem, fd, refreshed, used, node, file, tmp, authVars, clash,
                   overlap>>

----------------------------------------------------------------------------
\* Ctrl+C, a crash, or os.Exit 200 milliseconds into the telemetry.
Kill(p) ==
    /\ Running(p)
    /\ pc' = [pc EXCEPT ![p] = "gone"]
    /\ saving' = [saving EXCEPT ![p] = "no"]
    /\ fd' = [fd EXCEPT ![p] = 0]
    /\ outcome' = [outcome EXCEPT ![p] = IF @ = "none" THEN "killed" ELSE @]
    /\ cut' = IF saving[p] = "no" THEN cut ELSE cut \cup (1..issued \ live)
    /\ mixed' = (mixed \/ pc[p] \in {"exchange", "tenant", "clear"})
    /\ UNCHANGED <<kind, mem, refreshed, used, diskVars, rotates, live, issued, revoked, clash, overlap>>

Next ==
    \E p \in Procs :
        \/ AttachCredentials(p) \/ NotLoggedIn(p)
        \/ RefreshToken(p) \/ RefreshFails(p) \/ RequestFails(p)
        \/ ValidateCredentials(p) \/ CommandQuery(p) \/ SendEvent(p)
        \/ SaveOpen(p) \/ SaveWrite(p) \/ SaveRename(p) \/ SaveFails(p)
        \/ UseContext(p) \/ FetchAndWriteContext(p)
        \/ LoginStart(p) \/ StartAuthFlow(p) \/ ExchangeAuthorizationCode(p)
        \/ LogoutStart(p) \/ Revoke(p) \/ SecureOpen(p) \/ SecureZero(p) \/ SecureRemove(p)
        \/ SecureRemoveFails(p) \/ RemoveContext(p)
        \/ Kill(p)

Spec == Init /\ [][Next]_vars

----------------------------------------------------------------------------
(* Properties.                                                             *)

\* cre.yaml is never half written, wherever a process is killed, unless two
\* processes were saving at a time: then the fixed name of the temporary file
\* lets one write into the file of the other.
TornNeedsClash == clash \/ file = 0 \/ node[file].is \in {"tokens", "zeros"}

\* The refresh token on disk works, unless a logout revoked it, a process is
\* about to save its successor, or the successor got lost with a process, an
\* answer or a save that failed.  Two processes that refresh at once do not
\* leave a spent token behind.
SessionSurvives ==
    \/ clash
    \/ OnFile.is # "tokens"
    \/ OnFile.rt \in live \cup revoked \cup cut
    \/ \E p \in Procs : saving[p] # "no" /\ mem[p].account = OnFile.account

\* As long as processes do not overlap, a command with stored tokens runs in
\* the context of the account of these tokens, unless the login that stored
\* them did not get as far as the context, a logout could not remove it, or
\* an API key, which fetches its own context, wrote it.
ContextOfAccount ==
    overlap \/ mixed
        \/ \A p \in Procs : mem[p].is = "tokens" => used[p] \in {NoAccount, mem[p].account}

\* A logout that ends with success has deleted the credentials: when they are
\* still there, another process has been running that put them there.
LogoutDeletes ==
    [][\A p \in Procs :
          outcome'[p] = "ok" /\ outcome[p] = "none" /\ kind[p] = "logout" =>
              file' = 0 \/ overlap]_vars

\* The documentation of logout: "Invalidates the current authentication
\* tokens and deletes stored credentials."  (Refuted: a revocation that fails
\* is logged, the file is removed, and the logout reports success.)
LogoutInvalidates ==
    \A p \in Procs :
        kind[p] = "logout" /\ outcome[p] = "ok" => mem[p].rt \notin live
=============================================================================
