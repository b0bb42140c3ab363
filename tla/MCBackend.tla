------------------------------- MODULE MCBackend -------------------------------
(* Instances of PrivateRegistry and OwnerLink for TLC: two parts of one run,  *)
(* of which a behaviour takes one.                                           *)
EXTENDS PrivateRegistry, OwnerLink, FiniteSets

CONSTANTS c1, c2, u1, u2, A, B

VARIABLE part

\* Any two commands, or none at all.
AllMixes  == {m \in [Cmds -> Kinds \ {"none"}] : m[c1] = "deploy" \/ m[c2] # "deploy"}
Idle      == [c \in Cmds |-> "none"]
TwoOrNone == AllMixes \cup {Idle}

Call(k, a, m) == [kind |-> k, account |-> a, mode |-> m]

\* A deploy of one account, and what another terminal does with the same owner.
Deploys1 == {Call(k, A, m) : k \in {"deployEOA", "deployMSIG"}, m \in {"Regular", "Raw"}}
Others   == {Call(k, a, "Regular") : k \in {"link", "unlink"}, a \in {A, B}}
NoCall   == Call("none", A, "Regular")
TwoCalls == {[u \in Users |-> IF u = u1 THEN x ELSE y] : x \in Deploys1, y \in Others}
                \cup {[u \in Users |-> NoCall]}

\* A command that builds nothing has no use for an id.
NoBuild(c) == built[c] = (CHOOSE i \in Ids : TRUE) /\ needs[c] = {}

MCInit ==
    /\ Init /\ LinkInit
    /\ \A c \in Cmds : IF kind[c] = "deploy" THEN needs[c] # {"CONFIG"} ELSE NoBuild(c)
    /\ \/ /\ part = "registry"
          /\ kind # Idle /\ call[u1] = NoCall /\ skew = 0 /\ owned = NoAccount
       \/ /\ part = "link"
          /\ kind = Idle /\ call[u1] # NoCall /\ workflow = Absent

MCNext ==
    \/ part = "registry" /\ Next /\ UNCHANGED <<part, linkVars>>
    \/ part = "link" /\ LinkNext /\ UNCHANGED <<part, vars>>

MCSpec == MCInit /\ [][MCNext]_<<part, vars, linkVars>> /\ Fairness /\ LinkFairness

\* Every variable has its type, in both parts.
TypesOK == TypeOK /\ LinkTypeOK

\* Every command that was called ends, with the registry of the platform and
\* with the linking of an owner: no retry and no wait goes on forever.
AllEnd == CommandsEnd /\ LinksEnd
=============================================================================
