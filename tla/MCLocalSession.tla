--------------------------- MODULE MCLocalSession ---------------------------
(* Instances of LocalSession and LoginCallback for TLC: two parts of one run, *)
(* of which a behaviour takes one.                                           *)
EXTENDS LocalSession, Sequences

CONSTANTS p1, p2, p3, Callbacks, MaxRetries

VARIABLES part, handler, round, state, verifier, retries, codeCh, main, code, accepted

CB == INSTANCE LoginCallback

cbVars == <<handler, round, state, verifier, retries, codeCh, main, code, accepted>>

Run(x, y, z) == [p \in Procs |-> IF p = p1 THEN x ELSE IF p = p2 THEN y ELSE z]

\* A logout between a login and a command, two commands that refresh, and an
\* API key between two accounts.
ThreeMixes ==
    {Run("login", "logout", "query"), Run("query", "query", "login"),
     Run("apiKey", "login", "query")}

\* In the part of the files, nobody waits for a callback.
MCInit ==
    /\ Init
    /\ \/ part = "callback" /\ CB!Init
       \/ /\ part = "files"
          /\ main = "returned" /\ handler = [c \in Callbacks |-> "idle"]
          /\ round = [c \in Callbacks |-> 0]
          /\ state = 1 /\ verifier = 1 /\ retries = 0 /\ codeCh = <<>> /\ code = 0
          /\ accepted = 0

MCNext ==
    \/ part = "files" /\ Next /\ UNCHANGED <<part, cbVars>>
    \/ part = "callback" /\ CB!Next /\ UNCHANGED <<part, vars>>

MCSpec == MCInit /\ [][MCNext]_<<part, vars, cbVars>> /\ CB!Fairness

\* See LoginCallback.
LoginReturns == part = "callback" => CB!LoginReturns
=============================================================================
