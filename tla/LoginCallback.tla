--------------------------- MODULE LoginCallback ---------------------------
(***************************************************************************)
(* startAuthFlow of `cre login`: a local server whose handlers take the    *)
(* browser's callbacks and pass codes to the command through a channel of  *)
(* capacity one.  The command takes one code, or none in 500 seconds, and  *)
(* shuts the server down, which waits for the handlers that are running.   *)
(***************************************************************************)
EXTENDS Integers, Sequences, FiniteSets

CONSTANTS
    Callbacks,  \* requests of browser tabs
    MaxRetries  \* maxOrgNotFoundRetries

VARIABLES
    handler,    \* handler[c]: "idle", "sending", "done"
    round,      \* the round whose code the handler passes on
    state,      \* the round whose OAuth state is accepted
    verifier,   \* the round of the last PKCE verifier
    retries,    \* retryCount
    codeCh,     \* codes in the channel, as the rounds they were issued for
    main,       \* the command: "waiting", "shutdown", "returned"
    code,       \* the code it took, 0 for none
    accepted    \* history: callbacks with a code

vars == <<handler, round, state, verifier, retries, codeCh, main, code, accepted>>

Init ==
    /\ handler = [c \in Callbacks |-> "idle"]
    /\ round = [c \in Callbacks |-> 0]
    /\ state = 1 /\ verifier = 1 /\ retries = 0
    /\ codeCh = <<>> /\ main = "waiting" /\ code = 0
    /\ accepted = 0

\* The listener is open until the shutdown.
Arrives(c) == handler[c] = "idle" /\ main = "waiting"

\* The account has no organization yet: a waiting page leads to another round
\* with a new verifier and, when that can be generated, a new state.
OrgNotFound(c) ==
    /\ Arrives(c)
    /\ handler' = [handler EXCEPT ![c] = "done"]
    /\ IF retries >= MaxRetries THEN UNCHANGED <<state, verifier, retries>>
       ELSE /\ verifier' = verifier + 1
            /\ \/ state' = verifier + 1 /\ retries' = retries + 1
               \/ UNCHANGED <<state, retries>>
    /\ UNCHANGED <<round, codeCh, main, code, accepted>>

\* Another error, another state, no code: an error page.
Refused(c) ==
    /\ Arrives(c)
    /\ handler' = [handler EXCEPT ![c] = "done"]
    /\ UNCHANGED <<round, state, verifier, retries, codeCh, main, code, accepted>>

\* The page says that the login succeeded before the code is passed on.
Accept(c) ==
    /\ Arrives(c)
    /\ handler' = [handler EXCEPT ![c] = "sending"]
    /\ round' = [round EXCEPT ![c] = state]
    /\ accepted' = accepted + 1
    /\ UNCHANGED <<state, verifier, retries, codeCh, main, code>>

\* Mutant: a channel without a buffer.
SendUnbuffered(c) ==
    /\ handler[c] = "sending"
    /\ main = "waiting"
    /\ codeCh = <<>>
    /\ codeCh' = <<round[c]>>
    /\ handler' = [handler EXCEPT ![c] = "done"]
    /\ UNCHANGED <<round, state, verifier, retries, main, code, accepted>>

Send(c) ==
    /\ handler[c] = "sending"
    /\ codeCh = <<>>
    /\ codeCh' = <<round[c]>>
    /\ handler' = [handler EXCEPT ![c] = "done"]
    /\ UNCHANGED <<round, state, verifier, retries, main, code, accepted>>

TakeCode ==
    /\ main = "waiting"
    /\ codeCh # <<>>
    /\ code' = Head(codeCh) /\ codeCh' = Tail(codeCh)
    /\ main' = "shutdown"
    /\ UNCHANGED <<handler, round, state, verifier, retries, accepted>>

Timeout ==
    /\ main = "waiting"
    /\ main' = "shutdown"
    /\ UNCHANGED <<handler, round, state, verifier, retries, codeCh, code, accepted>>

\* Shutdown without a deadline.
Shutdown ==
    /\ main = "shutdown"
    /\ \A c \in Callbacks : handler[c] # "sending"
    /\ main' = "returned"
    /\ UNCHANGED <<handler, round, state, verifier, retries, codeCh, code, accepted>>

Next ==
    \/ \E c \in Callbacks : OrgNotFound(c) \/ Refused(c) \/ Accept(c) \/ Send(c)
    \/ TakeCode \/ Timeout \/ Shutdown

\* The select and the shutdown run when they can; a handler that can send
\* sends.  No callback need ever come.
Fairness ==
    /\ WF_vars(TakeCode) /\ WF_vars(Timeout) /\ WF_vars(Shutdown)
    /\ \A c \in Callbacks : WF_vars(Send(c))

\* Shutdown waits for a handler whose code nobody will receive: the command has
\* left its select and the channel is full.  No step leads out of this.
Stuck ==
    /\ main = "shutdown"
    /\ codeCh # <<>>
    /\ \E c \in Callbacks : handler[c] = "sending"

\* The login gets past its browser step or hangs there (login.go:164, 279), and
\* it hangs only after a third callback with a valid code, or a second one when
\* the 500 seconds were over while the first code was still in the channel.
LoginReturns ==
    /\ <>(main = "returned" \/ Stuck)
    /\ [](Stuck => accepted > 2 \/ (accepted = 2 /\ code = 0))
=============================================================================
