----------------------------- MODULE SecretsFlow -----------------------------
(***************************************************************************)
(* `cre secrets create | update | delete | list | execute`: calls that     *)
(* prepare a request, have its digest allowlisted on chain until a         *)
(* deadline and post it to the vault gateway.  A multisig owner does this  *)
(* in two calls with signers in between: the first leaves a bundle on disk *)
(* and a transaction to sign, `secrets execute` posts the bundle.  In the  *)
(* browser flow a vault token takes the place of the allowlist.            *)
(*                                                                         *)
(* A command is the sequence of its steps, each of which may end it early. *)
(* The process may be killed between any two, and in the middle of the     *)
(* changeset file.                                                         *)
(***************************************************************************)
EXTENDS Integers, Sequences, FiniteSets

CONSTANTS
    Calls,      \* invocations; one that builds a request gives it its own name
    NoCall,     \* no request, nobody
    Jobs,       \* what a call may be: [cmd, auth, tx]
    Attempts,   \* of a POST: 5 with the allowlist, 3 with a vault token
    Duration,   \* --timeout, the life of an allowlist entry
    MaxTime     \* bound of the clock

Cmds    == {"upsert", "delete", "list", "execute"}
TxTypes == {"regular", "raw", "changeset"}

ASSUME CallsAssumption == IsFiniteSet(Calls) /\ NoCall \notin Calls
ASSUME JobsAssumption  == Jobs \subseteq [cmd : Cmds, auth : {"onchain", "browser"}, tx : TxTypes]
ASSUME TimeAssumption  == /\ Attempts \in Nat \ {0}
                          /\ Duration \in Nat \ {0}
                          /\ MaxTime \in Nat

VARIABLES
    job,        \* job[c]: the command line of c
    todo,       \* todo[c]: the steps c has left
    outcome,    \* what c ended with
    req,        \* the request c is about
    deadline,   \* the deadline c computed last
    tries,      \* POSTs of c so far
    snapshot,   \* what c read from the changeset file
    now,        \* the time
    txs,        \* allowlist transactions somebody may still get mined: <<request, deadline>>
    allow,      \* allow[r]: the deadline of r's digest in the contract, 0 for none
    bundles,    \* requests whose bundle is on disk
    csFile,     \* requests in the changeset file
    copies,     \* posted requests the gateway has not processed, sender gone
    processed,  \* requests the vault has processed
    posted,     \* history: requests that were posted
    eligible,   \* history: requests that were allowlisted or authorized once
    lost        \* history: changesets another write or a kill may have removed

callVars  == <<todo, outcome, req, deadline, tries, snapshot>>
chainVars == <<txs, allow, eligible>>
gateVars  == <<copies, processed, posted>>
vars == <<job, todo, outcome, req, deadline, tries, snapshot, now, txs, allow, bundles,
          csFile, copies, processed, posted, eligible, lost>>

Outcomes == {"none", "ok", "prepared", "error", "killed"}

StepNames == {"flags", "setup", "inputs", "ids", "consent", "rpc", "linked", "vaultKey", "encrypt", "request",
              "allowlist", "check", "load", "authorize", "callback", "exchange", "bundle",
              "tell", "readFile", "truncate", "writeFile", "post", "verify", "parse"}

LastDeadline == MaxTime + 1 + Duration

\* Every variable has its type: no call runs past its last step, tries a POST
\* once too often or computes a deadline beyond --timeout.
TypeOK ==
    /\ job \in [Calls -> Jobs]
    /\ todo \in [Calls -> Seq(StepNames)]
    /\ outcome \in [Calls -> Outcomes]
    /\ req \in [Calls -> Calls \cup {NoCall}]
    /\ deadline \in [Calls -> 0..LastDeadline]
    /\ tries \in [Calls -> 0..(Attempts - 1)]
    /\ snapshot \in [Calls -> SUBSET Calls]
    /\ now \in 1..(MaxTime + 1)
    /\ txs \subseteq Calls \X (1..LastDeadline)
    /\ allow \in [Calls -> 0..LastDeadline]
    /\ \A S \in {bundles, csFile, copies, processed, posted, eligible, lost} : S \subseteq Calls

----------------------------------------------------------------------------
(* The commands, as sequences of steps.                                    *)

Browser(j) == j.auth = "browser"

\* Mutant: tell the signers, then save the bundle.
AfterAllowlistTellFirst(tx) ==
    CASE tx = "regular"   -> <<"post", "verify", "parse">>
      [] tx = "raw"       -> <<"tell", "bundle">>
      [] tx = "changeset" -> <<"readFile", "truncate", "writeFile", "bundle">>

\* What follows the allowlist transaction, by type of transaction.
AfterAllowlist(tx) ==
    CASE tx = "regular"   -> <<"post", "verify", "parse">>
      [] tx = "raw"       -> <<"bundle", "tell">>
      [] tx = "changeset" -> <<"bundle", "readFile", "truncate", "writeFile">>

BrowserSteps == <<"authorize", "callback", "exchange", "post", "verify", "parse">>

upsertSteps(j) ==
    <<"flags", "setup", "inputs", "consent">> \o
    IF Browser(j) THEN <<"vaultKey", "encrypt", "request">> \o BrowserSteps
    ELSE <<"rpc", "linked", "vaultKey", "encrypt", "request", "allowlist">>

deleteSteps(j) ==
    <<"flags", "setup", "ids", "consent">> \o
    IF Browser(j) THEN <<"request">> \o BrowserSteps
    ELSE <<"rpc", "linked", "request", "allowlist">>

listSteps(j) ==
    <<"flags", "setup", "consent">> \o
    IF Browser(j) THEN <<"request">> \o BrowserSteps
    ELSE <<"rpc", "linked", "request", "allowlist">>

\* Mutant: post the bundle without asking the contract.
executeStepsUnchecked(j) == <<"setup", "load", "rpc", "consent", "post", "verify", "parse">>

executeSteps(j) == <<"setup", "load", "rpc", "consent", "check", "post", "verify", "parse">>

Steps(j) ==
    CASE j.cmd = "upsert"  -> upsertSteps(j)
      [] j.cmd = "delete"  -> deleteSteps(j)
      [] j.cmd = "list"    -> listSteps(j)
      [] j.cmd = "execute" -> executeSteps(j)

Init ==
    /\ job \in [Calls -> Jobs]
    /\ todo = [c \in Calls |-> Steps(job[c])]
    /\ outcome = [c \in Calls |-> "none"]
    /\ req = [c \in Calls |-> NoCall]
    /\ deadline = [c \in Calls |-> 0]
    /\ tries = [c \in Calls |-> 0]
    /\ snapshot = [c \in Calls |-> {}]
    /\ now = 1
    /\ txs = {}
    /\ allow = [c \in Calls |-> 0]
    /\ bundles = {} /\ csFile = {}
    /\ copies = {} /\ processed = {} /\ posted = {}
    /\ eligible = {} /\ lost = {}

At(c, step) == outcome[c] = "none" /\ todo[c] # <<>> /\ Head(todo[c]) = step

\* The step is done; the last one ends the call.
Done(c, result) ==
    /\ todo' = [todo EXCEPT ![c] = Tail(@)]
    /\ outcome' = IF Len(todo[c]) = 1 THEN [outcome EXCEPT ![c] = result] ELSE outcome

Fail(c) ==
    /\ outcome' = [outcome EXCEPT ![c] = "error"]
    /\ UNCHANGED <<todo, req, deadline, tries, snapshot>>

----------------------------------------------------------------------------
(* Before the request exists.                                              *)

\* A step that only decides whether the call goes on.
PassOrFail(c, step) ==
    /\ At(c, step)
    /\ \/ Done(c, "ok") /\ UNCHANGED <<req, deadline, tries, snapshot>>
       \/ Fail(c)
    /\ UNCHANGED <<job, now, chainVars, bundles, csFile, lost, gateVars>>

\* --secrets-auth is known and 0 < --timeout <= the maximum.
Flags(c) == PassOrFail(c, "flags")

\* NewHandler: the gateway's URL and, except in the browser flow, a client of
\* the registry.
Setup(c) == PassOrFail(c, "setup")

\* The YAML of the secrets: at most ten, each named once and in the environment.
ResolveInputs(c) == PassOrFail(c, "inputs")

ResolveDeleteInputs(c) == PassOrFail(c, "ids")

\* EnsureVaultValidationOrConsent: the registry's RPC is configured and its
\* client is built, or the user agrees to go without.
Consent(c) == PassOrFail(c, "consent")

\* The owner-key flows need an RPC for the registry's chain ...
EnsureRPC(c) == PassOrFail(c, "rpc")

\* ... and an owner that is linked on chain and, in the backend, to this
\* account.
VerifyOwner(c) == PassOrFail(c, "linked")

\* The gateway's public key, compared with the one of the unique vault DON of
\* the family when there is an RPC to read it with.
VaultKey(c) == PassOrFail(c, "vaultKey")

EncryptSecrets(c) == PassOrFail(c, "encrypt")

\* A fresh request id, so a digest nobody has allowlisted before.
BuildRequest(c) ==
    /\ At(c, "request")
    /\ req' = [req EXCEPT ![c] = c]
    /\ Done(c, "ok")
    /\ UNCHANGED <<deadline, tries, snapshot, job, now, chainVars, bundles, csFile, lost,
                   gateVars>>

\* secrets execute reads a bundle somebody saved.
LoadBundle(c) ==
    /\ At(c, "load")
    /\ \/ \E r \in bundles :
            /\ req' = [req EXCEPT ![c] = r]
            /\ Done(c, "ok")
            /\ UNCHANGED <<deadline, tries, snapshot>>
       \/ Fail(c)
    /\ UNCHANGED <<job, now, chainVars, bundles, csFile, lost, gateVars>>

----------------------------------------------------------------------------
(* The allowlist.                                                          *)

Expiry == now + Duration

\* AllowlistRequest of a regular owner: the transaction is on its way, and
\* the call waits for it.
Allowlist(c) ==
    /\ At(c, "allowlist")
    /\ deadline[c] = 0
    /\ \/ /\ deadline' = [deadline EXCEPT ![c] = Expiry]
          /\ \/ /\ job[c].tx = "regular"
                /\ txs' = txs \cup {<<c, Expiry>>}
                /\ UNCHANGED <<todo, outcome>>
             \/ /\ job[c].tx # "regular"
                /\ todo' = [todo EXCEPT ![c] = AfterAllowlist(job[c].tx)]
                /\ UNCHANGED <<txs, outcome>>
          /\ UNCHANGED <<req, tries, snapshot>>
       \/ Fail(c) /\ UNCHANGED txs
    /\ UNCHANGED <<job, now, allow, eligible, bundles, csFile, lost, gateVars>>

\* The transaction was mined with its event.
Confirmed(c) ==
    /\ At(c, "allowlist")
    /\ deadline[c] > 0
    /\ allow[c] = deadline[c]
    /\ todo' = [todo EXCEPT ![c] = AfterAllowlist("regular")]
    /\ UNCHANGED <<outcome, req, deadline, tries, snapshot, job, now, chainVars, bundles,
                   csFile, lost, gateVars>>

\* It failed, or the wait for it did: it may still be mined.
Unconfirmed(c) ==
    /\ At(c, "allowlist")
    /\ deadline[c] > 0
    /\ Fail(c)
    /\ UNCHANGED <<job, now, chainVars, bundles, csFile, lost, gateVars>>

\* secrets execute asks the contract for the digest of the bundle.
CheckAllowlisted(c) ==
    /\ At(c, "check")
    /\ \/ /\ allow[req[c]] > now
          /\ Done(c, "ok")
          /\ UNCHANGED <<req, deadline, tries, snapshot>>
       \/ Fail(c)
    /\ UNCHANGED <<job, now, chainVars, bundles, csFile, lost, gateVars>>

SaveBundle(c) ==
    /\ At(c, "bundle")
    /\ \/ bundles' = bundles \cup {c} /\ Done(c, "prepared")
          /\ UNCHANGED <<req, deadline, tries, snapshot>>
       \/ Fail(c) /\ UNCHANGED bundles
    /\ UNCHANGED <<job, now, chainVars, csFile, lost, gateVars>>

\* PackAllowlistRequestTxData computes a deadline of its own for the
\* transaction that LogMSIGNextSteps prints for the signers.
LogMSIGNextSteps(c) ==
    /\ At(c, "tell")
    /\ \/ /\ deadline' = [deadline EXCEPT ![c] = Expiry]
          /\ txs' = txs \cup {<<c, Expiry>>}
          /\ Done(c, "prepared")
          /\ UNCHANGED <<req, tries, snapshot>>
       \/ Fail(c) /\ UNCHANGED txs
    /\ UNCHANGED <<job, now, allow, eligible, bundles, csFile, lost, gateVars>>

----------------------------------------------------------------------------
(* WriteChangesetFile: read, append, truncate and write, without a lock.   *)

ReadChangesets(c) ==
    /\ At(c, "readFile")
    /\ \/ /\ snapshot' = [snapshot EXCEPT ![c] = csFile]
          /\ Done(c, "prepared")
          /\ UNCHANGED <<req, deadline, tries>>
       \/ Fail(c)
    /\ UNCHANGED <<job, now, chainVars, bundles, csFile, lost, gateVars>>

\* os.WriteFile truncates first.  What another call added since the read is
\* lost; what it wrote before comes back with the write, if there is one.
TruncateChangesets(c) ==
    /\ At(c, "truncate")
    /\ lost' = lost \cup (csFile \ snapshot[c])
    /\ csFile' = {}
    /\ Done(c, "prepared")
    /\ UNCHANGED <<req, deadline, tries, snapshot, job, now, chainVars, bundles, gateVars>>

\* Mutant: write the new changeset without those that were there.
WriteChangesetsOverwrite(c) ==
    /\ At(c, "writeFile")
    /\ csFile' = {c}
    /\ txs' = txs \cup {<<c, deadline[c]>>}
    /\ Done(c, "prepared")
    /\ UNCHANGED <<req, deadline, tries, snapshot, lost, job, now, allow, eligible, bundles,
                   gateVars>>

\* The deadline in it is the one from before the bundle was saved.  When the
\* write fails, the file stays truncated.
WriteChangesets(c) ==
    /\ At(c, "writeFile")
    /\ \/ /\ lost' = lost \cup (csFile \ snapshot[c])
          /\ csFile' = snapshot[c] \cup {c}
          /\ txs' = txs \cup {<<c, deadline[c]>>}
          /\ Done(c, "prepared")
          /\ UNCHANGED <<req, deadline, tries, snapshot>>
       \/ lost' = lost \cup snapshot[c] /\ Fail(c) /\ UNCHANGED <<csFile, txs>>
    /\ UNCHANGED <<job, now, allow, eligible, bundles, gateVars>>

----------------------------------------------------------------------------
(* The browser flow.                                                       *)

\* An authorization URL, the callback with its code (or 500 seconds without
\* one), the exchange of the code for a token that is bound to the digest.
BrowserStep(c) ==
    /\ \E step \in {"authorize", "callback", "exchange"} : At(c, step)
    /\ \/ /\ Done(c, "ok")
          /\ eligible' = IF At(c, "exchange") THEN eligible \cup {c} ELSE eligible
          /\ UNCHANGED <<req, deadline, tries, snapshot>>
       \/ Fail(c) /\ UNCHANGED eligible
    /\ UNCHANGED <<job, now, txs, allow, bundles, csFile, lost, gateVars>>

----------------------------------------------------------------------------
(* The gateway.                                                            *)

\* The gateway lets through what is allowlisted, or carries a vault token.
Admitted(r) == IF Browser(job[r]) THEN r \in eligible ELSE allow[r] > now

\* Mutant: try again without counting.
RetryForever(c) == UNCHANGED callVars

\* Mutant: one attempt more than there should be.
RetryOnceMore(c) ==
    IF tries[c] < Attempts
    THEN tries' = [tries EXCEPT ![c] = @ + 1]
         /\ UNCHANGED <<todo, outcome, req, deadline, snapshot>>
    ELSE Fail(c)

\* A failed attempt: the last one ends the call.
Retry(c) ==
    IF tries[c] + 1 < Attempts
    THEN tries' = [tries EXCEPT ![c] = @ + 1]
         /\ UNCHANGED <<todo, outcome, req, deadline, snapshot>>
    ELSE Fail(c)

\* The request is processed and the answer arrives with status 200.
PostAnswered(c) ==
    /\ At(c, "post")
    /\ Admitted(req[c])
    /\ processed' = processed \cup {req[c]}
    /\ posted' = posted \cup {req[c]}
    /\ Done(c, "ok")
    /\ UNCHANGED <<req, deadline, tries, snapshot, job, now, chainVars, bundles, csFile, lost,
                   copies>>

\* Mutant: the last failed attempt ends the call without its error.
PostLostSwallowed(c) ==
    /\ At(c, "post")
    /\ posted' = posted \cup {req[c]}
    /\ copies' \in {copies, copies \cup {req[c]}}
    /\ IF tries[c] + 1 < Attempts THEN Retry(c)
       ELSE Done(c, "ok") /\ UNCHANGED <<req, deadline, tries, snapshot>>
    /\ UNCHANGED <<job, now, chainVars, bundles, csFile, lost, processed>>

\* A transport error: the request got lost, or is still on its way, or was
\* processed and the answer got lost.
PostLost(c) ==
    /\ At(c, "post")
    /\ posted' = posted \cup {req[c]}
    /\ copies' \in {copies, copies \cup {req[c]}}
    /\ Retry(c)
    /\ UNCHANGED <<job, now, chainVars, bundles, csFile, lost, processed>>

\* "request not allowlisted": the gateway has not seen the block yet, or the
\* deadline has passed.  Only the allowlist flow tries again.
PostRefused(c) ==
    /\ At(c, "post")
    /\ posted' = posted \cup {req[c]}
    /\ IF Browser(job[c]) THEN Fail(c) ELSE Retry(c)
    /\ UNCHANGED <<job, now, chainVars, bundles, csFile, lost, copies, processed>>

\* Any other status ends the call.
PostRejected(c) ==
    /\ At(c, "post")
    /\ posted' = posted \cup {req[c]}
    /\ Fail(c)
    /\ UNCHANGED <<job, now, chainVars, bundles, csFile, lost, copies, processed>>

\* The id of the response, and its signatures when there are any, against
\* the nodes of the vault DON.
VerifyResponse(c) == PassOrFail(c, "verify")

\* An error of the gateway fails the call, a secret the vault refused does not.
ParseVaultGatewayResponse(c) == PassOrFail(c, "parse")

----------------------------------------------------------------------------
(* The surroundings: time, miners and signers, the network, kill.          *)

Tick == now <= MaxTime /\ now' = now + 1
        /\ UNCHANGED <<job, callVars, chainVars, bundles, csFile, lost, gateVars>>

\* A transaction is mined before its deadline; afterwards the contract
\* reverts it.
Land(t) ==
    /\ t \in txs
    /\ t[2] > now
    /\ allow' = [allow EXCEPT ![t[1]] = t[2]]
    /\ eligible' = eligible \cup {t[1]}
    /\ txs' = txs \ {t}
    /\ UNCHANGED <<job, callVars, now, bundles, csFile, lost, gateVars>>

\* A copy of a request arrives after its sender has given it up.
LateCopy(r) ==
    /\ r \in copies
    /\ copies' = copies \ {r}
    /\ processed' = IF Admitted(r) THEN processed \cup {r} ELSE processed
    /\ UNCHANGED <<job, callVars, now, chainVars, bundles, csFile, lost, posted>>

\* Ctrl+C, a closed terminal, a crash.  Between truncate and write the
\* changesets of the file are gone.
Kill(c) ==
    /\ outcome[c] = "none"
    /\ todo[c] # Steps(job[c])
    /\ outcome' = [outcome EXCEPT ![c] = "killed"]
    /\ lost' = IF At(c, "writeFile") THEN lost \cup snapshot[c] ELSE lost
    /\ UNCHANGED <<job, todo, req, deadline, tries, snapshot, now, chainVars, bundles, csFile,
                   gateVars>>

CallStep(c) ==
    \/ Flags(c) \/ Setup(c) \/ ResolveInputs(c) \/ ResolveDeleteInputs(c)
    \/ Consent(c) \/ EnsureRPC(c) \/ VerifyOwner(c) \/ VaultKey(c)
    \/ EncryptSecrets(c) \/ BuildRequest(c) \/ LoadBundle(c)
    \/ Allowlist(c) \/ Confirmed(c) \/ Unconfirmed(c) \/ CheckAllowlisted(c)
    \/ SaveBundle(c) \/ LogMSIGNextSteps(c)
    \/ ReadChangesets(c) \/ TruncateChangesets(c) \/ WriteChangesets(c)
    \/ BrowserStep(c)
    \/ PostAnswered(c) \/ PostLost(c) \/ PostRefused(c) \/ PostRejected(c)
    \/ VerifyResponse(c) \/ ParseVaultGatewayResponse(c)

Next ==
    \/ \E c \in Calls : CallStep(c) \/ Kill(c)
    \/ \E t \in txs : Land(t)
    \/ \E r \in copies : LateCopy(r)
    \/ Tick

Spec == Init /\ [][Next]_vars

\* Every wait of a call ends: seth and the HTTP clients have timeouts, the
\* browser has 500 seconds, and a POST a number of attempts.
Fairness == WF_vars(Tick) /\ \A c \in Calls : WF_vars(CallStep(c))

LiveSpec == Spec /\ Fairness
----------------------------------------------------------------------------
(* Properties.                                                             *)

Signable(c) == c \in csFile \cup eligible \/ \E t \in txs : t[1] = c

Prepares(c) ==
    job[c].cmd # "execute" /\ job[c].auth = "onchain" /\ job[c].tx # "regular"

\* The vault gets no request that was not allowlisted by its owner, or
\* authorized in the browser, before it was posted the first time, not even
\* when the call that posts is another one than the call that built it.
PostedWasAllowed == posted \subseteq eligible /\ processed \subseteq posted

\* Signers of a multisig owner never hold a transaction whose request cannot
\* be posted afterwards: the bundle is on disk before the transaction is
\* handed out, wherever the call is killed; and a call that reports an error
\* has handed out nothing.
SignableHasBundle ==
    \A c \in Calls :
        Prepares(c) => /\ Signable(c) => c \in bundles
                       /\ outcome[c] = "error" => ~Signable(c)

\* A call that ends with success has had its request processed by the vault
\* (which may still have refused single secrets), or leaves a transaction
\* and a bundle behind.
SuccessIsKept ==
    \A c \in Calls :
        /\ outcome[c] = "ok" => req[c] \in processed
        /\ outcome[c] = "prepared" => c \in bundles

\* A prepared changeset stays in the file whatever later calls write to it,
\* unless one of them overlapped another or was stopped between truncating
\* the file and writing it.
ChangesetKept ==
    \A c \in Calls :
        Prepares(c) /\ job[c].tx = "changeset" /\ outcome[c] = "prepared" =>
            \/ c \in csFile \cup lost
            \/ \E d \in Calls : At(d, "writeFile") /\ c \in snapshot[d]

\* Every call ends, although its transaction may never be mined, its browser
\* never return and the gateway answer each POST with a transport error.
CallsEnd == \A c \in Calls : <>(outcome[c] # "none")
=============================================================================
