------------------------------- MODULE OwnerLink -------------------------------
(***************************************************************************)
(* Linking an owner address to an account: link-key, unlink-key and the    *)
(* auto-link of a deploy, for one address that several accounts may want.  *)
(*                                                                         *)
(* The registry contract knows whether the owner is linked, by a request   *)
(* the backend signed for an account and that expires; the backend follows *)
(* the contract some blocks later.  A command reads both, at other times.  *)
(* Its clock need not be the chain's.                                      *)
(***************************************************************************)
EXTENDS Integers

CONSTANTS
    Users,      \* commands
    Calls,      \* the combinations of [kind, account, mode] to look at, [Users -> ...]
    Accounts, NoAccount,
    Polls,      \* polls for the verification, maxAttempts
    MaxTime,    \* bound: the chain's clock stops there
    Skews       \* how far the local clock may be behind the chain's

CallTypes == [Users -> [kind : {"none", "link", "unlink", "deployEOA", "deployMSIG"},
                        account : Accounts, mode : {"Regular", "Raw"}]]

ASSUME LinkAssumption ==
    /\ Calls \subseteq CallTypes
    /\ Polls \in Nat \ {0}
    /\ MaxTime \in Nat

VARIABLES
    call,       \* call[u]: its kind, the account and the transaction mode
    at,         \* at[u]: where it is
    expiry,     \* expiry[u]: validUntil of its signed request
    tx,         \* tx[u]: "none", "sent", "left" to signers, "mined", "reverted"
    polls,      \* polls[u]: failed polls
    result,     \* result[u]: what the command ended with
    owned,      \* the contract: the account the owner is linked to
    view,       \* the backend's list: the account with the owner verified
    now, skew,  \* the chain's clock and how far the local one is behind
    turned      \* history: turned[u]: another's transaction was mined while u
                \* ran, or the backend was behind when it began

userVars == <<call, at, expiry, tx, polls, result>>
worldVars == <<owned, view, now, skew>>
linkVars == <<userVars, worldVars, turned>>

Spots == {"begin", "check", "label", "recheck", "consent", "initiate", "validate", "submit",
          "receipt", "verify", "poll", "end"}
Results == {"none", "linked", "alreadyLinked", "unlinked", "notLinked", "prepared", "verified",
            "halted", "error"}

LinkTypeOK ==
    /\ call \in CallTypes
    /\ at \in [Users -> Spots]
    /\ expiry \in [Users -> 0..(MaxTime + 1)]
    /\ tx \in [Users -> {"none", "sent", "left", "mined", "reverted"}]
    /\ polls \in [Users -> 0..(Polls - 1)]
    /\ result \in [Users -> Results]
    /\ {owned, view} \subseteq Accounts \cup {NoAccount}
    /\ now \in 0..MaxTime
    /\ skew \in Skews
    /\ turned \in [Users -> BOOLEAN]

\* The backend has caught up with the contract.
LinkInit ==
    /\ call \in Calls
    /\ at = [u \in Users |-> "begin"]
    /\ expiry = [u \in Users |-> 0]
    /\ tx = [u \in Users |-> "none"]
    /\ polls = [u \in Users |-> 0]
    /\ result = [u \in Users |-> "none"]
    /\ owned \in Accounts \cup {NoAccount}
    /\ view = owned
    /\ now = 0
    /\ skew \in Skews
    /\ turned = [u \in Users |-> FALSE]

Kind(u)     == call[u].kind
Mine(u)     == call[u].account
Deploys(u)  == Kind(u) \in {"deployEOA", "deployMSIG"}
LocalNow    == now - skew
Running(u)  == at[u] \notin {"begin", "end"}

To(u, spot)     == at' = [at EXCEPT ![u] = spot] /\ UNCHANGED result
Finish(u, what) == at' = [at EXCEPT ![u] = "end"] /\ result' = [result EXCEPT ![u] = what]

Stays == UNCHANGED <<call, worldVars, turned>>
Quiet == Stays /\ UNCHANGED <<expiry, tx, polls>>

Begin(u) ==
    /\ at[u] = "begin"
    /\ Kind(u) # "none"
    /\ To(u, IF Deploys(u) THEN "check" ELSE IF Kind(u) = "link" THEN "label" ELSE "recheck")
    /\ turned' = [turned EXCEPT ![u] = (view # owned)]
    /\ UNCHANGED <<call, expiry, tx, polls, worldVars>>

\* Every request and every prompt may fail, and ends the command.
Fail(u) ==
    /\ at[u] \in Spots \ {"begin", "receipt", "poll", "end"}
    /\ Finish(u, "error")
    /\ Quiet

----------------------------------------------------------------------------
(* Before a deploy: is the owner linked, and to whom.                      *)

\* Mutant: linked is linked, the account is not looked at.
CheckOwnerAny(u) ==
    /\ at[u] = "check"
    /\ IF owned # NoAccount THEN Finish(u, "verified") ELSE To(u, "label")
    /\ Quiet

\* IsOwnerLinked asks the contract, which does not tell the account.
CheckOwner(u) ==
    /\ at[u] = "check"
    /\ To(u, IF owned # NoAccount THEN "verify" ELSE "label")
    /\ Quiet

\* checkLinkStatusViaGraphQL: the backend's list for the account.
Verify(u) ==
    /\ at[u] = "verify"
    /\ Finish(u, IF view = Mine(u) THEN "verified" ELSE "error")
    /\ Quiet

\* waitForBackendLinkProcessing: a poll, repeated a few times.
Poll(u) ==
    /\ at[u] = "poll"
    /\ \/ /\ view = Mine(u)
          /\ Finish(u, "verified")
          /\ UNCHANGED polls
       \/ IF polls[u] + 1 < Polls
            THEN polls' = [polls EXCEPT ![u] = @ + 1] /\ UNCHANGED <<at, result>>
            ELSE Finish(u, "error") /\ UNCHANGED polls
    /\ Stays /\ UNCHANGED <<expiry, tx>>

\* After link-key returned nil inside a deploy: a multisig deploy halts, an
\* EOA deploy waits for the backend, whatever link-key did.
Linked(u, what) ==
    CASE Kind(u) = "deployEOA" -> To(u, "poll")
      [] Kind(u) = "deployMSIG" -> Finish(u, "halted")
      [] OTHER -> Finish(u, what)

----------------------------------------------------------------------------
(* link-key and unlink-key.                                                *)

Label(u) == at[u] = "label" /\ To(u, "recheck") /\ Quiet

\* checkIfAlreadyLinked: by the contract, for any account.
AlreadyLinked(u) ==
    /\ at[u] = "recheck"
    /\ Kind(u) # "unlink"
    /\ IF owned # NoAccount THEN Linked(u, "alreadyLinked") ELSE To(u, "initiate")
    /\ Quiet

StillLinked(u) ==
    /\ at[u] = "recheck"
    /\ Kind(u) = "unlink"
    /\ IF owned = NoAccount THEN Finish(u, "notLinked") ELSE To(u, "consent")
    /\ Quiet

\* Unlinking removes the owner's workflows: --yes or a prompt.
Consent(u) == at[u] = "consent" /\ To(u, "initiate") /\ Quiet

\* The backend signs a request with an expiry; its contract address is compared.
Initiate(u) ==
    /\ at[u] = "initiate"
    /\ \E until \in now..MaxTime : expiry' = [expiry EXCEPT ![u] = until]
    /\ To(u, "validate")
    /\ Stays /\ UNCHANGED <<tx, polls>>

InitiateLinking(u)   == Kind(u) # "unlink" /\ Initiate(u)
InitiateUnlinking(u) == Kind(u) = "unlink" /\ Initiate(u)

\* What the contract asks of the transaction.
CanLinkOwner(u)   == now <= expiry[u] /\ owned = NoAccount
CanUnlinkOwner(u) == now <= expiry[u] /\ owned = Mine(u)
Admissible(u)     == IF Kind(u) = "unlink" THEN CanUnlinkOwner(u) ELSE CanLinkOwner(u)

\* The expiry by the local clock, then a call that tells whether the
\* transaction would be accepted.
ValidateLink(u) ==
    /\ at[u] = "validate"
    /\ Kind(u) # "unlink"
    /\ IF LocalNow <= expiry[u] /\ CanLinkOwner(u) THEN To(u, "submit") ELSE Finish(u, "error")
    /\ Quiet

ValidateUnlink(u) ==
    /\ at[u] = "validate"
    /\ Kind(u) = "unlink"
    /\ IF LocalNow <= expiry[u] /\ CanUnlinkOwner(u) THEN To(u, "submit") ELSE Finish(u, "error")
    /\ Quiet

\* A regular transaction is sent and waited for, others are left to signers.
Submit(u) ==
    /\ at[u] = "submit"
    /\ \/ /\ call[u].mode = "Regular"
          /\ tx' = [tx EXCEPT ![u] = "sent"]
          /\ To(u, "receipt")
       \/ /\ call[u].mode = "Raw"
          /\ tx' = [tx EXCEPT ![u] = "left"]
          /\ Linked(u, "prepared")
    /\ Stays /\ UNCHANGED <<expiry, polls>>

\* Its receipt, or an error while waiting for it.
Receipt(u, what) ==
    /\ at[u] = "receipt"
    /\ \/ tx[u] = "mined" /\ Linked(u, what)
       \/ Finish(u, "error")
    /\ Quiet

LinkOwner(u)   == Kind(u) # "unlink" /\ Receipt(u, "linked")
UnlinkOwner(u) == Kind(u) = "unlink" /\ Receipt(u, "unlinked")

----------------------------------------------------------------------------
(* The contract, the backend and time.                                     *)

\* A transaction is mined once, when the chain gets to it.
Mined(u) ==
    /\ tx[u] \in {"sent", "left"}
    /\ IF Admissible(u)
         THEN /\ owned' = IF Kind(u) = "unlink" THEN NoAccount ELSE Mine(u)
              /\ tx' = [tx EXCEPT ![u] = "mined"]
              /\ turned' = [w \in Users |-> turned[w] \/ (Running(w) /\ w # u)]
         ELSE tx' = [tx EXCEPT ![u] = "reverted"] /\ UNCHANGED <<owned, turned>>
    /\ UNCHANGED <<call, at, expiry, polls, result, view, now, skew>>

\* The backend takes over what the contract says.
Follow ==
    /\ view # owned
    /\ view' = owned
    /\ UNCHANGED <<userVars, owned, now, skew, turned>>

Tick ==
    /\ now < MaxTime
    /\ now' = now + 1
    /\ UNCHANGED <<userVars, owned, view, skew, turned>>

----------------------------------------------------------------------------
UserStep(u) ==
    \/ Begin(u) \/ Fail(u) \/ CheckOwner(u) \/ Verify(u) \/ Poll(u) \/ Label(u)
    \/ AlreadyLinked(u) \/ StillLinked(u) \/ Consent(u)
    \/ InitiateLinking(u) \/ InitiateUnlinking(u) \/ ValidateLink(u) \/ ValidateUnlink(u)
    \/ Submit(u) \/ LinkOwner(u) \/ UnlinkOwner(u)

LinkNext == Follow \/ Tick \/ \E u \in Users : UserStep(u) \/ Mined(u)

\* The operating system runs a command; waits and requests have timeouts.
LinkFairness == \A u \in Users : WF_linkVars(UserStep(u))

----------------------------------------------------------------------------
(* What is checked.                                                        *)

\* A deploy goes on only for an owner that the contract has linked to its own
\* account, however it got there: linked before, or by its own auto-link.
\* Only a change by somebody else meanwhile, or a backend that was behind,
\* lets it go on without.
GoesOnLinked ==
    [][\A u \in Users : result'[u] = "verified" /\ result[u] = "none" =>
                           owned = Mine(u) \/ turned[u]]_linkVars

\* link-key, unlink-key and the wait of a deploy for the backend end.
LinksEnd == \A u \in Users : at[u] # "begin" ~> at[u] = "end"
=============================================================================
