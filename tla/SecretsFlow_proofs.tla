-------------------------- MODULE SecretsFlow_proofs ---------------------------
(***************************************************************************)
(* The secrets commands keep their requests, bundles and changesets in     *)
(* order: theorems about SecretsFlow for any set of calls, any attempts    *)
(* and any lifetime of an allowlist entry.                                 *)
(*                                                                         *)
(* A call is the sequence of the steps it has left, so the argument is     *)
(* about sequences: what a step relies on is either done already or comes  *)
(* before it (Before).  That holds of the plans the commands start with,   *)
(* of those that follow the allowlist transaction, and of the tail of      *)
(* every plan whose head has been done.                                    *)
(***************************************************************************)
EXTENDS SecretsFlow, SequenceTheorems, TLAPS

----------------------------------------------------------------------------
(* The invariants.                                                         *)

\* Before position i of the plan q there is a step of S.
Before(q, i, S) == \E k \in 1..(i - 1) : q[k] \in S

LastSteps == {"parse", "allowlist", "tell", "writeFile"}
Sources   == {"request", "load"}

\* What is so of the plan of a job whatever has happened.
Shape(q, j) ==
    /\ q # <<>> => q[Len(q)] \in LastSteps
    /\ \A i \in 1..Len(q) :
          /\ q[i] \in {"tell", "writeFile"} => i = Len(q)
          /\ q[i] = "truncate" => i < Len(q) /\ q[i + 1] = "writeFile"
          /\ q[i] \in Sources => \A k \in 1..Len(q) : q[k] \in Sources => k = i
          /\ q[i] = "exchange" => Browser(j)
          /\ q[i] = "tell" => j.tx = "raw"

\* What each step of c relies on is done, or comes first.
Prepared(c, q) ==
    \A i \in 1..Len(q) :
        /\ q[i] = "post" => req[c] \in eligible \/ Before(q, i, {"check", "exchange"})
        /\ q[i] \in {"allowlist", "exchange"} => req[c] = c \/ Before(q, i, {"request"})
        /\ q[i] = "check" => req[c] \in Calls \/ Before(q, i, {"load"})
        /\ q[i] \in Sources => req[c] = NoCall
        /\ q[i] \in {"tell", "writeFile"} => c \in bundles \/ Before(q, i, {"bundle"})
        /\ q[i] = "parse" => req[c] \in processed \/ Before(q, i, {"post"})
        /\ q[i] = "writeFile" => deadline[c] > 0

GoodPlan(c) == Shape(todo[c], job[c]) /\ Prepared(c, todo[c])

Plans == \A c \in Calls : GoodPlan(c)

\* The contract's entries are those of eligible requests, and what still
\* travels to the gateway has been posted.
AllowedIsEligible == \A r \in Calls : allow[r] > 0 => r \in eligible
CopiesArePosted   == copies \subseteq posted

\* What is in the changeset file, or was read from it, and what signers hold
\* comes from calls that have ended well.
WrittenHasEnded ==
    \A c \in Calls :
        /\ c \in csFile \/ (\E d \in Calls : c \in snapshot[d]) => outcome[c] = "prepared"
        /\ Prepares(c) /\ Signable(c) => outcome[c] = "prepared"

FlowInv   == TypeOK /\ Plans /\ AllowedIsEligible
PostInv   == FlowInv /\ CopiesArePosted /\ PostedWasAllowed
BundleInv == FlowInv /\ SuccessIsKept /\ WrittenHasEnded

----------------------------------------------------------------------------
(* Plans, as sequences.                                                    *)

\* The tail of a plan starts one step later.
LEMMA TailAt ==
    ASSUME NEW q \in Seq(StepNames), q # <<>>
    PROVE  /\ Tail(q) \in Seq(StepNames) /\ Len(Tail(q)) = Len(q) - 1
           /\ Head(q) = q[1] /\ Len(q) \in Nat \ {0}
           /\ \A i \in 1..Len(Tail(q)) : i + 1 \in 1..Len(q) /\ Tail(q)[i] = q[i + 1]
OBVIOUS

\* A step that comes before another still does once the head is done, unless
\* the head is that step.
LEMMA TailBefore ==
    ASSUME NEW q \in Seq(StepNames), q # <<>>, NEW i \in 1..Len(Tail(q)), NEW S,
           Before(q, i + 1, S), Head(q) \notin S
    PROVE  Before(Tail(q), i, S)
<1>1. PICK k \in 1..i : q[k] \in S
  BY TailAt DEF Before
<1>2. k # 1
  BY <1>1
<1>3. k - 1 \in 1..(i - 1) /\ Tail(q)[k - 1] = q[k]
  BY <1>1, <1>2, TailAt
<1> QED BY <1>1, <1>3 DEF Before

\* The shape of a plan is that of its tails.
LEMMA TailShape ==
    ASSUME NEW q \in Seq(StepNames), q # <<>>, NEW j, Shape(q, j)
    PROVE  Shape(Tail(q), j)
<1> DEFINE t == Tail(q)
<1>1. /\ t \in Seq(StepNames) /\ Len(t) = Len(q) - 1 /\ Len(q) \in Nat \ {0}
      /\ \A i \in 1..Len(t) : i + 1 \in 1..Len(q) /\ t[i] = q[i + 1]
  BY TailAt
<1>2. t # <<>> => t[Len(t)] = q[Len(q)]
  BY <1>1
<1> HIDE DEF t
<1>3. t # <<>> => t[Len(t)] \in LastSteps
  BY <1>2 DEF Shape
<1>4. ASSUME NEW i \in 1..Len(t)
      PROVE  /\ t[i] \in {"tell", "writeFile"} => i = Len(t)
             /\ t[i] = "truncate" => i < Len(t) /\ t[i + 1] = "writeFile"
             /\ t[i] \in Sources => \A k \in 1..Len(t) : t[k] \in Sources => k = i
             /\ t[i] = "exchange" => Browser(j)
             /\ t[i] = "tell" => j.tx = "raw"
  <2>1. i + 1 \in 1..Len(q) /\ t[i] = q[i + 1] /\ Len(t) = Len(q) - 1 /\ Len(q) \in Nat
    BY <1>1
  <2>2. t[i] \in {"tell", "writeFile"} => i = Len(t)
    BY <2>1 DEF Shape
  <2>3. t[i] = "truncate" => i < Len(t) /\ t[i + 1] = "writeFile"
    <3>1. t[i] = "truncate" => i + 1 < Len(q) /\ q[(i + 1) + 1] = "writeFile"
      BY <2>1 DEF Shape
    <3>2. i < Len(t) => t[i + 1] = q[(i + 1) + 1]
      BY <1>1, <2>1
    <3> QED BY <2>1, <3>1, <3>2
  <2>4. t[i] \in Sources => \A k \in 1..Len(t) : t[k] \in Sources => k = i
    <3> SUFFICES ASSUME t[i] \in Sources, NEW k \in 1..Len(t), t[k] \in Sources PROVE k = i
      OBVIOUS
    <3>1. k + 1 \in 1..Len(q) /\ q[k + 1] \in Sources /\ q[i + 1] \in Sources
      BY <1>1, <2>1
    <3>2. k + 1 = i + 1
      BY <2>1, <3>1 DEF Shape
    <3> QED BY <3>2
  <2>5. (t[i] = "exchange" => Browser(j)) /\ (t[i] = "tell" => j.tx = "raw")
    BY <2>1 DEF Shape
  <2> QED BY <2>2, <2>3, <2>4, <2>5
<1>5. Shape(t, j)
  BY <1>3, <1>4 DEF Shape
<1> QED BY <1>5 DEF t

\* The plan u is s and then t.
Glued(s, t, u) ==
    /\ s \in Seq(StepNames) /\ t \in Seq(StepNames) /\ u \in Seq(StepNames)
    /\ Len(u) = Len(s) + Len(t)
    /\ \A i \in 1..Len(s) : u[i] = s[i]
    /\ \A i \in 1..Len(t) : u[Len(s) + i] = t[i]

LEMMA Glue == ASSUME NEW s, NEW t, NEW u, Glued(s, t, u) PROVE s \o t = u
<1> DEFINE w == s \o t
<1>1. /\ w \in Seq(StepNames) /\ Len(w) = Len(s) + Len(t)
      /\ \A i \in 1..(Len(s) + Len(t)) : w[i] = IF i <= Len(s) THEN s[i] ELSE t[i - Len(s)]
  BY ConcatProperties DEF Glued
<1> HIDE DEF w
<1>2. u \in Seq(StepNames) /\ Len(u) = Len(w)
  BY <1>1 DEF Glued
<1>3. ASSUME NEW i \in 1..Len(w) PROVE w[i] = u[i]
  <2>1. CASE i <= Len(s)
    BY <1>1, <2>1 DEF Glued
  <2>2. CASE i > Len(s)
    <3>1. Len(s) \in Nat /\ Len(t) \in Nat /\ i \in 1..(Len(s) + Len(t))
      BY <1>1 DEF Glued
    <3>2. i - Len(s) \in 1..Len(t) /\ Len(s) + (i - Len(s)) = i
      BY <2>2, <3>1
    <3>3. u[i] = t[i - Len(s)]
      BY <3>2 DEF Glued
    <3> QED BY <1>1, <2>2, <3>1, <3>3
  <2> QED BY <1>1, <2>1, <2>2 DEF Glued
<1>4. w = u
  BY <1>1, <1>2, <1>3, SeqEqual
<1> QED BY <1>4 DEF w

----------------------------------------------------------------------------
(* The plans of the commands.                                              *)

\* A plan as it is written down in upsertSteps, deleteSteps, listSteps and
\* executeSteps: well shaped, with every step prepared by an earlier one.
Planned(q, j) ==
    /\ q \in Seq(StepNames)
    /\ Shape(q, j)
    /\ \A i \in 1..Len(q) :
          /\ q[i] = "post" => Before(q, i, {"check", "exchange"})
          /\ q[i] \in {"allowlist", "exchange"} => Before(q, i, {"request"})
          /\ q[i] = "check" => Before(q, i, {"load"})
          /\ q[i] = "parse" => Before(q, i, {"post"})
          /\ q[i] \notin {"tell", "writeFile"}

LEMMA UpsertPlanned == ASSUME NEW j PROVE Planned(upsertSteps(j), j)
<1> DEFINE front  == <<"flags", "setup", "inputs", "consent">>
           middle == <<"vaultKey", "encrypt", "request">>
           web    == <<"vaultKey", "encrypt", "request", "authorize", "callback", "exchange",
                       "post", "verify", "parse">>
           chain  == <<"rpc", "linked", "vaultKey", "encrypt", "request", "allowlist">>
<1>1. CASE Browser(j)
  <2> DEFINE q == <<"flags", "setup", "inputs", "consent", "vaultKey", "encrypt", "request",
                    "authorize", "callback", "exchange", "post", "verify", "parse">>
  <2>1. middle \o BrowserSteps = web
    <3>1. Glued(middle, BrowserSteps, web)
      BY DEF Glued, StepNames, BrowserSteps
    <3> QED BY <3>1, Glue
  <2>2. front \o web = q
    <3>1. Glued(front, web, q)
      BY DEF Glued, StepNames
    <3> QED BY <3>1, Glue
  <2>3. q \in Seq(StepNames) /\ Shape(q, j)
    BY <1>1 DEF StepNames, Shape, LastSteps, Sources
  <2>4. Planned(q, j)
    BY <2>3 DEF Planned, Before
  <2> QED BY <1>1, <2>1, <2>2, <2>4 DEF upsertSteps
<1>2. CASE ~Browser(j)
  <2> DEFINE q == <<"flags", "setup", "inputs", "consent", "rpc", "linked", "vaultKey",
                    "encrypt", "request", "allowlist">>
  <2>1. front \o chain = q
    <3>1. Glued(front, chain, q)
      BY DEF Glued, StepNames
    <3> QED BY <3>1, Glue
  <2>2. q \in Seq(StepNames) /\ Shape(q, j)
    BY DEF StepNames, Shape, LastSteps, Sources
  <2>3. Planned(q, j)
    BY <2>2 DEF Planned, Before
  <2> QED BY <1>2, <2>1, <2>3 DEF upsertSteps
<1> QED BY <1>1, <1>2

\* What deletions and listings do after the consent.
LEMMA RequestThenBrowser ==
    <<"request">> \o BrowserSteps
        = <<"request", "authorize", "callback", "exchange", "post", "verify", "parse">>
<1>1. Glued(<<"request">>, BrowserSteps,
            <<"request", "authorize", "callback", "exchange", "post", "verify", "parse">>)
  BY DEF Glued, StepNames, BrowserSteps
<1> QED BY <1>1, Glue

LEMMA DeletePlanned == ASSUME NEW j PROVE Planned(deleteSteps(j), j)
<1> DEFINE front == <<"flags", "setup", "ids", "consent">>
           web   == <<"request", "authorize", "callback", "exchange", "post", "verify", "parse">>
           chain == <<"rpc", "linked", "request", "allowlist">>
<1>1. CASE Browser(j)
  <2> DEFINE q == <<"flags", "setup", "ids", "consent", "request", "authorize", "callback",
                    "exchange", "post", "verify", "parse">>
  <2>1. front \o web = q
    <3>1. Glued(front, web, q)
      BY DEF Glued, StepNames
    <3> QED BY <3>1, Glue
  <2>2. q \in Seq(StepNames) /\ Shape(q, j)
    BY <1>1 DEF StepNames, Shape, LastSteps, Sources
  <2>3. Planned(q, j)
    BY <2>2 DEF Planned, Before
  <2> QED BY <1>1, <2>1, <2>3, RequestThenBrowser DEF deleteSteps
<1>2. CASE ~Browser(j)
  <2> DEFINE q == <<"flags", "setup", "ids", "consent", "rpc", "linked", "request",
                    "allowlist">>
  <2>1. front \o chain = q
    <3>1. Glued(front, chain, q)
      BY DEF Glued, StepNames
    <3> QED BY <3>1, Glue
  <2>2. q \in Seq(StepNames) /\ Shape(q, j)
    BY DEF StepNames, Shape, LastSteps, Sources
  <2>3. Planned(q, j)
    BY <2>2 DEF Planned, Before
  <2> QED BY <1>2, <2>1, <2>3 DEF deleteSteps
<1> QED BY <1>1, <1>2

LEMMA ListPlanned == ASSUME NEW j PROVE Planned(listSteps(j), j)
<1> DEFINE front == <<"flags", "setup", "consent">>
           web   == <<"request", "authorize", "callback", "exchange", "post", "verify", "parse">>
           chain == <<"rpc", "linked", "request", "allowlist">>
<1>1. CASE Browser(j)
  <2> DEFINE q == <<"flags", "setup", "consent", "request", "authorize", "callback",
                    "exchange", "post", "verify", "parse">>
  <2>1. front \o web = q
    <3>1. Glued(front, web, q)
      BY DEF Glued, StepNames
    <3> QED BY <3>1, Glue
  <2>2. q \in Seq(StepNames) /\ Shape(q, j)
    BY <1>1 DEF StepNames, Shape, LastSteps, Sources
  <2>3. Planned(q, j)
    BY <2>2 DEF Planned, Before
  <2> QED BY <1>1, <2>1, <2>3, RequestThenBrowser DEF listSteps
<1>2. CASE ~Browser(j)
  <2> DEFINE q == <<"flags", "setup", "consent", "rpc", "linked", "request", "allowlist">>
  <2>1. front \o chain = q
    <3>1. Glued(front, chain, q)
      BY DEF Glued, StepNames
    <3> QED BY <3>1, Glue
  <2>2. q \in Seq(StepNames) /\ Shape(q, j)
    BY DEF StepNames, Shape, LastSteps, Sources
  <2>3. Planned(q, j)
    BY <2>2 DEF Planned, Before
  <2> QED BY <1>2, <2>1, <2>3 DEF listSteps
<1> QED BY <1>1, <1>2

LEMMA ExecutePlanned == ASSUME NEW j PROVE Planned(executeSteps(j), j)
BY DEF executeSteps, StepNames, Planned, Shape, LastSteps, Sources, Before

\* Whatever the job, its plan is one.
LEMMA StepsPlanned == ASSUME NEW j \in Jobs PROVE Planned(Steps(j), j)
<1>1. j.cmd \in {"upsert", "delete", "list", "execute"}
  BY JobsAssumption DEF Cmds
<1> QED BY <1>1, UpsertPlanned, DeletePlanned, ListPlanned, ExecutePlanned DEF Steps

\* What follows the allowlist transaction.
LEMMA AfterAllowlistShape ==
    ASSUME NEW tx \in TxTypes, NEW j, tx = "raw" => j.tx = "raw"
    PROVE  AfterAllowlist(tx) \in Seq(StepNames) /\ Shape(AfterAllowlist(tx), j)
<1>1. CASE tx = "regular"
  BY <1>1 DEF AfterAllowlist, StepNames, Shape, LastSteps, Sources
<1>2. CASE tx = "raw"
  BY <1>2 DEF AfterAllowlist, StepNames, Shape, LastSteps, Sources
<1>3. CASE tx = "changeset"
  BY <1>3 DEF AfterAllowlist, StepNames, Shape, LastSteps, Sources
<1> QED BY <1>1, <1>2, <1>3 DEF TxTypes

----------------------------------------------------------------------------
(* What a step may change.                                                 *)

\* The steps that only decide whether the call goes on.
PassSteps == {"flags", "setup", "inputs", "ids", "consent", "rpc", "linked", "vaultKey",
              "encrypt", "verify", "parse"}

Passes(c) == \E step \in PassSteps : PassOrFail(c, step)

\* The steps of a call, those that only pass or fail taken together.
LEMMA CallStepKinds ==
    ASSUME NEW c, CallStep(c)
    PROVE  \/ Passes(c) \/ BuildRequest(c) \/ LoadBundle(c)
           \/ Allowlist(c) \/ Confirmed(c) \/ Unconfirmed(c) \/ CheckAllowlisted(c)
           \/ SaveBundle(c) \/ LogMSIGNextSteps(c)
           \/ ReadChangesets(c) \/ TruncateChangesets(c) \/ WriteChangesets(c)
           \/ BrowserStep(c)
           \/ PostAnswered(c) \/ PostLost(c) \/ PostRefused(c) \/ PostRejected(c)
BY DEF CallStep, Passes, PassSteps, Flags, Setup, ResolveInputs, ResolveDeleteInputs, Consent,
       EnsureRPC, VerifyOwner, VaultKey, EncryptSecrets, VerifyResponse,
       ParseVaultGatewayResponse

\* Requests, bundles and answers are added and never taken away, and the
\* command line stays as it is.
LEMMA OnlyAdded ==
    ASSUME [Next]_vars
    PROVE  /\ job' = job /\ bundles \subseteq bundles' /\ eligible \subseteq eligible'
           /\ posted \subseteq posted' /\ processed \subseteq processed'
<1> USE DEF callVars, chainVars, gateVars, PassOrFail, Fail, Done, Retry
<1>1. ASSUME NEW c, CallStep(c)
      PROVE  /\ job' = job /\ bundles \subseteq bundles' /\ eligible \subseteq eligible'
             /\ posted \subseteq posted' /\ processed \subseteq processed'
  BY <1>1, CallStepKinds
     DEF Passes, BuildRequest, LoadBundle, Allowlist, Confirmed, Unconfirmed, CheckAllowlisted,
         SaveBundle, LogMSIGNextSteps, ReadChangesets, TruncateChangesets, WriteChangesets,
         BrowserStep, PostAnswered, PostLost, PostRefused, PostRejected
<1>2. CASE UNCHANGED vars
  BY <1>2 DEF vars
<1> QED BY <1>1, <1>2 DEF Next, Kill, Land, LateCopy, Tick

\* A step of one call leaves the others where they are.
LEMMA OthersStay ==
    ASSUME TypeOK, NEW c \in Calls, CallStep(c) \/ Kill(c), NEW d \in Calls, d # c
    PROVE  /\ todo'[d] = todo[d] /\ outcome'[d] = outcome[d] /\ req'[d] = req[d]
           /\ deadline'[d] = deadline[d] /\ snapshot'[d] = snapshot[d]
<1> USE DEF TypeOK, callVars, PassOrFail, Fail, Done, Retry
<1>1. CASE Kill(c)
  BY <1>1 DEF Kill
<1>2. CASE CallStep(c)
  <2>1. CASE Passes(c) BY <2>1 DEF Passes
  <2>2. CASE BuildRequest(c) BY <2>2 DEF BuildRequest
  <2>3. CASE LoadBundle(c) BY <2>3 DEF LoadBundle
  <2>4. CASE Allowlist(c) BY <2>4 DEF Allowlist
  <2>5. CASE Confirmed(c) BY <2>5 DEF Confirmed
  <2>6. CASE Unconfirmed(c) BY <2>6 DEF Unconfirmed
  <2>7. CASE CheckAllowlisted(c) BY <2>7 DEF CheckAllowlisted
  <2>8. CASE SaveBundle(c) BY <2>8 DEF SaveBundle
  <2>9. CASE LogMSIGNextSteps(c) BY <2>9 DEF LogMSIGNextSteps
  <2>10. CASE ReadChangesets(c) BY <2>10 DEF ReadChangesets
  <2>11. CASE TruncateChangesets(c) BY <2>11 DEF TruncateChangesets
  <2>12. CASE WriteChangesets(c) BY <2>12 DEF WriteChangesets
  <2>13. CASE BrowserStep(c) BY <2>13 DEF BrowserStep
  <2>14. CASE PostAnswered(c) BY <2>14 DEF PostAnswered
  <2>15. CASE PostLost(c) BY <2>15 DEF PostLost
  <2>16. CASE PostRefused(c) BY <2>16 DEF PostRefused
  <2>17. CASE PostRejected(c) BY <2>17 DEF PostRejected
  <2> QED BY <1>2, CallStepKinds, <2>1, <2>2, <2>3, <2>4, <2>5, <2>6, <2>7, <2>8, <2>9, <2>10,
             <2>11, <2>12, <2>13, <2>14, <2>15, <2>16, <2>17
<1> QED BY <1>1, <1>2

----------------------------------------------------------------------------
(* Types.                                                                  *)

\* The numbers of the clock.
LEMMA ExpiryIsDeadline ==
    ASSUME TypeOK
    PROVE  Expiry \in 1..LastDeadline /\ LastDeadline \in Nat /\ Expiry > now
BY TimeAssumption DEF TypeOK, Expiry, LastDeadline

\* A plan whose head is done is a plan.
LEMMA DoneTypes ==
    ASSUME TypeOK, NEW c \in Calls, NEW step, At(c, step), NEW result \in Outcomes,
           Done(c, result)
    PROVE  todo' \in [Calls -> Seq(StepNames)] /\ outcome' \in [Calls -> Outcomes]
BY DEF TypeOK, At, Done

\* At the head of a plan everything it relies on is done.
LEMMA HeadIsPrepared ==
    ASSUME FlowInv, NEW c \in Calls, NEW step, At(c, step)
    PROVE  /\ step = "post" => req[c] \in eligible
           /\ step \in {"allowlist", "exchange"} => req[c] = c
           /\ step = "check" => req[c] \in Calls
           /\ step \in Sources => req[c] = NoCall
           /\ step \in {"tell", "writeFile"} => c \in bundles
           /\ step = "parse" => req[c] \in processed
           /\ step = "writeFile" => deadline[c] > 0
<1>1. 1 \in 1..Len(todo[c]) /\ todo[c][1] = step
  BY DEF At, FlowInv, TypeOK
<1>2. \A S : ~Before(todo[c], 1, S)
  BY DEF Before
<1> QED BY <1>1, <1>2 DEF FlowInv, Plans, GoodPlan, Prepared

LEMMA TypeInit == Init => TypeOK
<1> SUFFICES ASSUME Init PROVE TypeOK
  OBVIOUS
<1>1. todo \in [Calls -> Seq(StepNames)]
  BY StepsPlanned DEF Init, Planned
<1> QED BY <1>1, TimeAssumption DEF Init, TypeOK, Outcomes, LastDeadline

LEMMA TypeStep == FlowInv /\ [Next]_vars => TypeOK'
<1> SUFFICES ASSUME FlowInv, [Next]_vars PROVE TypeOK'
  OBVIOUS
<1> USE DEF callVars, chainVars, gateVars
<1>0. TypeOK
  BY DEF FlowInv
<1>1. CASE UNCHANGED vars
  BY <1>0, <1>1 DEF vars, TypeOK
<1>2. ASSUME NEW c \in Calls, Fail(c)
      PROVE  /\ todo' \in [Calls -> Seq(StepNames)] /\ outcome' \in [Calls -> Outcomes]
             /\ UNCHANGED <<todo, req, deadline, tries, snapshot>>
  BY <1>0, <1>2 DEF Fail, TypeOK, Outcomes
<1>3. ASSUME NEW c \in Calls, Retry(c)
      PROVE  /\ todo' \in [Calls -> Seq(StepNames)] /\ outcome' \in [Calls -> Outcomes]
             /\ tries' \in [Calls -> 0..(Attempts - 1)]
             /\ UNCHANGED <<todo, req, deadline, snapshot>>
  <2>1. CASE tries[c] + 1 < Attempts
    <3>1. tries[c] \in Nat /\ tries[c] + 1 \in 0..(Attempts - 1)
      BY <1>0, <2>1, TimeAssumption DEF TypeOK
    <3> QED BY <1>0, <1>3, <2>1, <3>1 DEF Retry, TypeOK
  <2>2. CASE ~(tries[c] + 1 < Attempts)
    BY <1>0, <1>2, <1>3, <2>2 DEF Retry, TypeOK
  <2> QED BY <2>1, <2>2
<1>4. ASSUME NEW c \in Calls, NEW step, At(c, step), NEW result \in {"ok", "prepared"},
             Done(c, result)
      PROVE  todo' \in [Calls -> Seq(StepNames)] /\ outcome' \in [Calls -> Outcomes]
  BY <1>0, <1>4, DoneTypes DEF Outcomes
<1>5. ASSUME NEW c \in Calls, At(c, "post") PROVE req[c] \in Calls
  BY <1>0, <1>5, HeadIsPrepared DEF TypeOK
<1>6. ASSUME NEW c \in Calls, CallStep(c) PROVE TypeOK'
  <2>1. CASE Passes(c)
    BY <1>0, <1>2, <1>4, <2>1 DEF Passes, PassOrFail, TypeOK
  <2>2. CASE BuildRequest(c)
    BY <1>0, <1>4, <2>2 DEF BuildRequest, TypeOK
  <2>3. CASE LoadBundle(c)
    BY <1>0, <1>2, <1>4, <2>3 DEF LoadBundle, TypeOK
  <2>4. CASE Allowlist(c)
    <3>1. AfterAllowlist(job[c].tx) \in Seq(StepNames)
      BY <1>0, JobsAssumption, AfterAllowlistShape DEF TypeOK
    <3>2. deadline' \in [Calls -> 0..LastDeadline] /\ txs' \subseteq Calls \X (1..LastDeadline)
      <4>1. Expiry \in 0..LastDeadline /\ <<c, Expiry>> \in Calls \X (1..LastDeadline)
        BY <1>0, ExpiryIsDeadline
      <4>2. \/ deadline' = [deadline EXCEPT ![c] = Expiry] /\ txs' \in {txs, txs \cup {<<c, Expiry>>}}
            \/ UNCHANGED <<deadline, txs>>
        BY <1>2, <2>4 DEF Allowlist
      <4> QED BY <1>0, <4>1, <4>2 DEF TypeOK
    <3>3. /\ todo' \in [Calls -> Seq(StepNames)] /\ outcome' \in [Calls -> Outcomes]
          /\ UNCHANGED <<req, tries, snapshot>>
      BY <1>0, <1>2, <2>4, <3>1 DEF Allowlist, TypeOK
    <3> QED BY <1>0, <2>4, <3>2, <3>3 DEF Allowlist, TypeOK
  <2>5. CASE Confirmed(c)
    <3>1. AfterAllowlist("regular") \in Seq(StepNames)
      BY DEF AfterAllowlist, StepNames
    <3> QED BY <1>0, <2>5, <3>1 DEF Confirmed, TypeOK
  <2>6. CASE Unconfirmed(c)
    BY <1>0, <1>2, <2>6 DEF Unconfirmed, TypeOK
  <2>7. CASE CheckAllowlisted(c)
    BY <1>0, <1>2, <1>4, <2>7 DEF CheckAllowlisted, TypeOK
  <2>8. CASE SaveBundle(c)
    BY <1>0, <1>2, <1>4, <2>8 DEF SaveBundle, TypeOK
  <2>9. CASE LogMSIGNextSteps(c)
    <3>1. Expiry \in 0..LastDeadline /\ <<c, Expiry>> \in Calls \X (1..LastDeadline)
      BY <1>0, ExpiryIsDeadline
    <3>2. deadline' \in [Calls -> 0..LastDeadline] /\ txs' \subseteq Calls \X (1..LastDeadline)
      <4>1. \/ deadline' = [deadline EXCEPT ![c] = Expiry] /\ txs' = txs \cup {<<c, Expiry>>}
            \/ UNCHANGED <<deadline, txs>>
        BY <1>2, <2>9 DEF LogMSIGNextSteps
      <4> QED BY <1>0, <3>1, <4>1 DEF TypeOK
    <3>3. /\ todo' \in [Calls -> Seq(StepNames)] /\ outcome' \in [Calls -> Outcomes]
          /\ UNCHANGED <<req, tries, snapshot, job, now, allow, eligible, bundles, csFile, lost,
                         gateVars>>
      BY <1>2, <1>4, <2>9 DEF LogMSIGNextSteps
    <3> QED BY <1>0, <3>2, <3>3 DEF TypeOK
  <2>10. CASE ReadChangesets(c)
    BY <1>0, <1>2, <1>4, <2>10 DEF ReadChangesets, TypeOK
  <2>11. CASE TruncateChangesets(c)
    <3>1. todo' \in [Calls -> Seq(StepNames)] /\ outcome' \in [Calls -> Outcomes]
      BY <1>4, <2>11 DEF TruncateChangesets
    <3>2. lost' \subseteq Calls /\ csFile' \subseteq Calls
      BY <1>0, <2>11 DEF TruncateChangesets, TypeOK
    <3>3. UNCHANGED <<req, deadline, tries, snapshot, job, now, chainVars, bundles, gateVars>>
      BY <2>11 DEF TruncateChangesets
    <3> QED BY <1>0, <3>1, <3>2, <3>3 DEF TypeOK
  <2>12. CASE WriteChangesets(c)
    <3>1. deadline[c] \in 1..LastDeadline
      BY <1>0, <2>12, HeadIsPrepared DEF WriteChangesets, TypeOK
    <3> QED BY <1>0, <1>2, <1>4, <2>12, <3>1 DEF WriteChangesets, TypeOK
  <2>13. CASE BrowserStep(c)
    <3>1. /\ todo' \in [Calls -> Seq(StepNames)] /\ outcome' \in [Calls -> Outcomes]
          /\ UNCHANGED <<req, deadline, tries, snapshot>>
      BY <1>2, <1>4, <2>13 DEF BrowserStep
    <3>2. eligible' \subseteq Calls
      BY <1>0, <2>13 DEF BrowserStep, TypeOK
    <3>3. UNCHANGED <<job, now, txs, allow, bundles, csFile, lost, gateVars>>
      BY <2>13 DEF BrowserStep
    <3> QED BY <1>0, <3>1, <3>2, <3>3 DEF TypeOK
  <2>14. CASE PostAnswered(c)
    BY <1>0, <1>4, <1>5, <2>14 DEF PostAnswered, TypeOK
  <2>15. CASE PostLost(c)
    <3>1. copies' \subseteq Calls /\ posted' \subseteq Calls
      BY <1>0, <1>5, <2>15 DEF PostLost, TypeOK
    <3> QED BY <1>0, <1>3, <2>15, <3>1 DEF PostLost, TypeOK
  <2>16. CASE PostRefused(c)
    <3>1. posted' \subseteq Calls
      BY <1>0, <1>5, <2>16 DEF PostRefused, TypeOK
    <3>2. CASE Fail(c)
      BY <1>0, <1>2, <2>16, <3>1, <3>2 DEF PostRefused, TypeOK
    <3>3. CASE Retry(c)
      BY <1>0, <1>3, <2>16, <3>1, <3>3 DEF PostRefused, TypeOK
    <3> QED BY <2>16, <3>2, <3>3 DEF PostRefused
  <2>17. CASE PostRejected(c)
    BY <1>0, <1>2, <1>5, <2>17 DEF PostRejected, TypeOK
  <2> QED BY <1>6, CallStepKinds, <2>1, <2>2, <2>3, <2>4, <2>5, <2>6, <2>7, <2>8, <2>9, <2>10,
             <2>11, <2>12, <2>13, <2>14, <2>15, <2>16, <2>17
<1>7. ASSUME NEW c \in Calls, Kill(c) PROVE TypeOK'
  BY <1>0, <1>7 DEF Kill, TypeOK, Outcomes
<1>8. ASSUME NEW t \in txs, Land(t) PROVE TypeOK'
  BY <1>0, <1>8 DEF Land, TypeOK
<1>9. ASSUME NEW r \in copies, LateCopy(r) PROVE TypeOK'
  BY <1>0, <1>9 DEF LateCopy, TypeOK
<1>10. CASE Tick
  BY <1>0, <1>10, TimeAssumption DEF Tick, TypeOK
<1> QED BY <1>1, <1>6, <1>7, <1>8, <1>9, <1>10 DEF Next

----------------------------------------------------------------------------
(* Plans are kept.                                                         *)

\* A call that stays where it is keeps what it has.
LEMMA PlanStays ==
    ASSUME FlowInv, [Next]_vars, NEW c \in Calls,
           todo'[c] = todo[c], req'[c] = req[c], deadline[c] > 0 => deadline'[c] > 0
    PROVE  GoodPlan(c)'
<1>1. GoodPlan(c)
  BY DEF FlowInv, Plans
<1>2. job' = job /\ bundles \subseteq bundles' /\ eligible \subseteq eligible'
      /\ processed \subseteq processed'
  BY OnlyAdded
<1>3. Shape(todo[c], job[c])'
  BY <1>1, <1>2 DEF GoodPlan
<1>4. Prepared(c, todo[c])'
  BY <1>1, <1>2 DEF GoodPlan, Prepared
<1> QED BY <1>3, <1>4 DEF GoodPlan

\* A step that does what later steps rely on lets the plan advance.
LEMMA PlanAdvances ==
    ASSUME FlowInv, [Next]_vars, NEW c \in Calls, NEW step, At(c, step),
           todo'[c] = Tail(todo[c]),
           step \notin Sources => req'[c] = req[c],
           step = "request" => req'[c] = c,
           step = "load" => req'[c] \in Calls,
           step \in {"check", "exchange"} => req'[c] \in eligible',
           step = "bundle" => c \in bundles',
           step = "post" => req'[c] \in processed',
           deadline[c] > 0 => deadline'[c] > 0
    PROVE  GoodPlan(c)'
<1> DEFINE q == todo[c]
           t == Tail(q)
<1>1. q \in Seq(StepNames) /\ q # <<>> /\ Head(q) = step
  BY DEF FlowInv, TypeOK, At
<1>2. /\ t \in Seq(StepNames) /\ Len(t) \in Nat
      /\ \A i \in 1..Len(t) : i + 1 \in 1..Len(q) /\ t[i] = q[i + 1]
      /\ 1 \in 1..Len(q) /\ q[1] = step /\ \A i \in 1..Len(t) : i + 1 # 1
  BY <1>1, TailAt
<1>3. job' = job /\ bundles \subseteq bundles' /\ eligible \subseteq eligible'
      /\ processed \subseteq processed'
  BY OnlyAdded
<1>4. Shape(q, job[c]) /\ Prepared(c, q)
  BY DEF FlowInv, Plans, GoodPlan
<1>5. Shape(t, job[c])
  BY <1>1, <1>4, TailShape
<1>6. step \in Sources => /\ req[c] = NoCall /\ NoCall \notin Calls
                          /\ NoCall \notin eligible /\ NoCall \notin processed
  BY HeadIsPrepared, CallsAssumption DEF FlowInv, TypeOK
<1> HIDE DEF q, t
<1>7. ASSUME NEW i \in 1..Len(t)
      PROVE  /\ t[i] = "post" => req'[c] \in eligible' \/ Before(t, i, {"check", "exchange"})
             /\ t[i] \in {"allowlist", "exchange"} => req'[c] = c \/ Before(t, i, {"request"})
             /\ t[i] = "check" => req'[c] \in Calls \/ Before(t, i, {"load"})
             /\ t[i] \in Sources => req'[c] = NoCall
             /\ t[i] \in {"tell", "writeFile"} => c \in bundles' \/ Before(t, i, {"bundle"})
             /\ t[i] = "parse" => req'[c] \in processed' \/ Before(t, i, {"post"})
             /\ t[i] = "writeFile" => deadline'[c] > 0
  <2>1. ASSUME NEW S, Before(q, i + 1, S), step \notin S PROVE Before(t, i, S)
    BY <1>1, <2>1, TailBefore DEF t
  <2>2. i + 1 \in 1..Len(q) /\ t[i] = q[i + 1] /\ i + 1 # 1
    BY <1>2
  <2>3. t[i] = "post" => req'[c] \in eligible' \/ Before(t, i, {"check", "exchange"})
    <3>1. t[i] = "post" => req[c] \in eligible \/ Before(q, i + 1, {"check", "exchange"})
      BY <1>4, <2>2 DEF Prepared
    <3> QED BY <1>3, <1>6, <2>1, <3>1
  <2>4. t[i] \in {"allowlist", "exchange"} => req'[c] = c \/ Before(t, i, {"request"})
    <3>1. t[i] \in {"allowlist", "exchange"} => req[c] = c \/ Before(q, i + 1, {"request"})
      BY <1>4, <2>2 DEF Prepared
    <3> QED BY <1>6, <2>1, <3>1
  <2>5. t[i] = "check" => req'[c] \in Calls \/ Before(t, i, {"load"})
    <3>1. t[i] = "check" => req[c] \in Calls \/ Before(q, i + 1, {"load"})
      BY <1>4, <2>2 DEF Prepared
    <3> QED BY <1>6, <2>1, <3>1
  <2>6. t[i] \in Sources => req'[c] = NoCall
    <3>1. t[i] \in Sources => req[c] = NoCall
      BY <1>4, <2>2 DEF Prepared
    <3>2. t[i] \in Sources => step \notin Sources
      BY <1>2, <1>4, <2>2 DEF Shape
    <3> QED BY <3>1, <3>2
  <2>7. t[i] \in {"tell", "writeFile"} => c \in bundles' \/ Before(t, i, {"bundle"})
    <3>1. t[i] \in {"tell", "writeFile"} => c \in bundles \/ Before(q, i + 1, {"bundle"})
      BY <1>4, <2>2 DEF Prepared
    <3> QED BY <1>3, <2>1, <3>1
  <2>8. t[i] = "parse" => req'[c] \in processed' \/ Before(t, i, {"post"})
    <3>1. t[i] = "parse" => req[c] \in processed \/ Before(q, i + 1, {"post"})
      BY <1>4, <2>2 DEF Prepared
    <3> QED BY <1>3, <1>6, <2>1, <3>1
  <2>9. t[i] = "writeFile" => deadline'[c] > 0
    BY <1>4, <2>2 DEF Prepared
  <2> QED BY <2>3, <2>4, <2>5, <2>6, <2>7, <2>8, <2>9
<1>8. todo'[c] = t
  BY DEF t, q
<1>9. Prepared(c, todo[c])'
  BY <1>7, <1>8 DEF Prepared
<1>10. Shape(todo[c], job[c])'
  BY <1>3, <1>5, <1>8
<1> QED BY <1>9, <1>10 DEF GoodPlan

\* What follows the allowlist transaction is prepared by it: an entry in the
\* contract for a POST now, a deadline for the changeset.
LEMMA PlanReplaced ==
    ASSUME FlowInv, [Next]_vars, NEW c \in Calls, NEW tx \in TxTypes,
           todo'[c] = AfterAllowlist(tx), tx = "raw" => job[c].tx = "raw",
           tx = "regular" => req'[c] \in eligible', deadline'[c] > 0
    PROVE  GoodPlan(c)'
<1>1. job' = job
  BY OnlyAdded
<1>2. Shape(todo[c], job[c])'
  BY <1>1, AfterAllowlistShape
<1>3. CASE tx = "regular"
  <2>1. todo'[c] = <<"post", "verify", "parse">>
    BY <1>3 DEF AfterAllowlist
  <2>2. Prepared(c, todo[c])'
    BY <1>3, <2>1 DEF Prepared, Before, Sources
  <2> QED BY <1>2, <2>2 DEF GoodPlan
<1>4. CASE tx = "raw"
  <2>1. todo'[c] = <<"bundle", "tell">>
    BY <1>4 DEF AfterAllowlist
  <2>2. Prepared(c, todo[c])'
    BY <2>1 DEF Prepared, Before, Sources
  <2> QED BY <1>2, <2>2 DEF GoodPlan
<1>5. CASE tx = "changeset"
  <2>1. todo'[c] = <<"bundle", "readFile", "truncate", "writeFile">>
    BY <1>5 DEF AfterAllowlist
  <2>2. Prepared(c, todo[c])'
    BY <2>1 DEF Prepared, Before, Sources
  <2> QED BY <1>2, <2>2 DEF GoodPlan
<1> QED BY <1>3, <1>4, <1>5 DEF TxTypes

LEMMA FlowInit == Init => FlowInv
<1> SUFFICES ASSUME Init PROVE FlowInv
  OBVIOUS
<1>1. TypeOK
  BY TypeInit
<1>2. ASSUME NEW c \in Calls PROVE GoodPlan(c)
  <2>1. Planned(todo[c], job[c]) /\ req[c] = NoCall
    BY StepsPlanned DEF Init
  <2>2. Prepared(c, todo[c])
    BY <2>1 DEF Planned, Prepared
  <2> QED BY <2>1, <2>2 DEF GoodPlan, Planned
<1>3. AllowedIsEligible
  BY DEF Init, AllowedIsEligible
<1> QED BY <1>1, <1>2, <1>3 DEF FlowInv, Plans

\* The contract only has entries that were mined, and a mined one is eligible.
LEMMA AllowedStep == FlowInv /\ [Next]_vars => AllowedIsEligible'
<1> SUFFICES ASSUME FlowInv, [Next]_vars PROVE AllowedIsEligible'
  OBVIOUS
<1>1. CASE \E t \in txs : Land(t)
  BY <1>1 DEF Land, FlowInv, TypeOK, AllowedIsEligible
<1>2. CASE UNCHANGED allow
  BY <1>2, OnlyAdded DEF FlowInv, AllowedIsEligible
<1>3. ASSUME NEW c, CallStep(c) PROVE UNCHANGED allow
  BY <1>3, CallStepKinds
     DEF chainVars, Passes, PassOrFail, BuildRequest, LoadBundle, Allowlist, Confirmed,
         Unconfirmed, CheckAllowlisted, SaveBundle, LogMSIGNextSteps, ReadChangesets,
         TruncateChangesets, WriteChangesets, BrowserStep, PostAnswered, PostLost,
         PostRefused, PostRejected
<1> QED BY <1>1, <1>2, <1>3 DEF Next, Kill, LateCopy, Tick, vars, chainVars

\* The plan of the call that takes a step.
LEMMA PlanStep ==
    ASSUME FlowInv, [Next]_vars, NEW c \in Calls, CallStep(c) \/ Kill(c)
    PROVE  GoodPlan(c)'
<1>0. TypeOK
  BY DEF FlowInv
<1>1. ASSUME todo' = todo, req' = req, deadline' = deadline PROVE GoodPlan(c)'
  BY <1>1, PlanStays
<1>2. ASSUME Fail(c) PROVE GoodPlan(c)'
  BY <1>1, <1>2 DEF Fail
<1>3. ASSUME Retry(c) PROVE GoodPlan(c)'
  BY <1>1, <1>2, <1>3 DEF Retry
<1>4. ASSUME NEW step, At(c, step), NEW result, Done(c, result),
             step \notin Sources \cup {"check", "exchange", "bundle", "post"}, req' = req,
             deadline[c] > 0 => deadline'[c] > 0
      PROVE  GoodPlan(c)'
  <2>1. todo'[c] = Tail(todo[c])
    BY <1>0, <1>4 DEF Done, TypeOK
  <2>2. /\ step \notin Sources /\ step # "request" /\ step # "load"
        /\ step \notin {"check", "exchange"} /\ step # "bundle" /\ step # "post"
        /\ req'[c] = req[c]
    BY <1>4 DEF Sources
  <2> QED BY <1>4, <2>1, <2>2, PlanAdvances
<1>5. CASE Kill(c)
  BY <1>1, <1>5 DEF Kill, chainVars
<1>6. CASE Passes(c)
  <2>1. PICK step \in PassSteps : PassOrFail(c, step)
    BY <1>6 DEF Passes
  <2> QED BY <1>2, <1>4, <2>1 DEF PassSteps, Sources, PassOrFail
<1>7. CASE BuildRequest(c)
  <2>1. At(c, "request") /\ todo'[c] = Tail(todo[c]) /\ req'[c] = c /\ deadline' = deadline
    BY <1>0, <1>7 DEF BuildRequest, Done, TypeOK
  <2> QED BY <2>1, PlanAdvances DEF Sources
<1>8. CASE LoadBundle(c)
  <2>1. CASE \E r \in bundles : /\ req' = [req EXCEPT ![c] = r] /\ Done(c, "ok")
                                /\ UNCHANGED <<deadline, tries, snapshot>>
    <3>1. At(c, "load") /\ todo'[c] = Tail(todo[c]) /\ req'[c] \in Calls /\ deadline' = deadline
      BY <1>0, <1>8, <2>1 DEF LoadBundle, Done, TypeOK
    <3> QED BY <3>1, PlanAdvances DEF Sources
  <2> QED BY <1>2, <1>8, <2>1 DEF LoadBundle
<1>9. CASE Allowlist(c)
  <2>1. At(c, "allowlist")
    BY <1>9 DEF Allowlist
  <2>2. CASE deadline' = [deadline EXCEPT ![c] = Expiry] /\ UNCHANGED <<todo, req>>
    <3>1. deadline'[c] = Expiry /\ Expiry > 0
      <4>1. deadline \in [Calls -> 0..LastDeadline]
        BY <1>0 DEF TypeOK
      <4> QED BY <1>0, <2>2, <4>1, ExpiryIsDeadline
    <3> QED BY <2>2, <3>1, PlanStays
  <2>3. CASE /\ job[c].tx # "regular" /\ todo' = [todo EXCEPT ![c] = AfterAllowlist(job[c].tx)]
             /\ deadline' = [deadline EXCEPT ![c] = Expiry]
    <3>1. job[c].tx \in TxTypes
      BY <1>0, JobsAssumption DEF TypeOK
    <3>2. todo'[c] = AfterAllowlist(job[c].tx) /\ deadline'[c] > 0
      <4>1. todo \in [Calls -> Seq(StepNames)] /\ deadline \in [Calls -> 0..LastDeadline]
        BY <1>0 DEF TypeOK
      <4>2. todo'[c] = AfterAllowlist(job[c].tx) /\ deadline'[c] = Expiry
        BY <2>3, <4>1
      <4> QED BY <1>0, <4>2, ExpiryIsDeadline
    <3> QED BY <2>3, <3>1, <3>2, PlanReplaced
  <2> QED BY <1>2, <1>9, <2>2, <2>3 DEF Allowlist
<1>10. CASE Confirmed(c)
  <2>1. req'[c] \in eligible'
    <3>1. req[c] = c
      BY <1>10, HeadIsPrepared DEF Confirmed
    <3>2. c \in eligible
      BY <1>10 DEF Confirmed, FlowInv, AllowedIsEligible
    <3> QED BY <1>10, <3>1, <3>2 DEF Confirmed, chainVars
  <2>2. todo'[c] = AfterAllowlist("regular") /\ deadline'[c] > 0
    BY <1>0, <1>10 DEF Confirmed, TypeOK
  <2> QED BY <2>1, <2>2, PlanReplaced DEF TxTypes
<1>11. CASE Unconfirmed(c)
  BY <1>2, <1>11 DEF Unconfirmed
<1>12. CASE CheckAllowlisted(c)
  <2>1. CASE allow[req[c]] > now /\ Done(c, "ok") /\ UNCHANGED <<req, deadline, tries, snapshot>>
    <3>1. At(c, "check") /\ todo'[c] = Tail(todo[c])
      BY <1>0, <1>12, <2>1 DEF CheckAllowlisted, Done, TypeOK
    <3>2. req[c] \in Calls /\ allow[req[c]] > 0
      BY <1>0, <2>1, <3>1, HeadIsPrepared DEF TypeOK
    <3>3. req'[c] \in eligible'
      BY <2>1, <3>2, OnlyAdded DEF FlowInv, AllowedIsEligible
    <3> QED BY <2>1, <3>1, <3>3, PlanAdvances DEF Sources
  <2> QED BY <1>2, <1>12, <2>1 DEF CheckAllowlisted
<1>13. CASE SaveBundle(c)
  <2>1. CASE /\ bundles' = bundles \cup {c} /\ Done(c, "prepared")
             /\ UNCHANGED <<req, deadline, tries, snapshot>>
    <3>1. At(c, "bundle") /\ todo'[c] = Tail(todo[c])
      BY <1>0, <1>13, <2>1 DEF SaveBundle, Done, TypeOK
    <3> QED BY <2>1, <3>1, PlanAdvances DEF Sources
  <2> QED BY <1>2, <1>13, <2>1 DEF SaveBundle
<1>14. CASE LogMSIGNextSteps(c)
  <2>1. CASE Done(c, "prepared") /\ deadline' = [deadline EXCEPT ![c] = Expiry] /\ req' = req
    <3>1. deadline'[c] > 0
      BY <1>0, <2>1, ExpiryIsDeadline DEF TypeOK
    <3> QED BY <1>4, <1>14, <2>1, <3>1 DEF LogMSIGNextSteps, Sources
  <2> QED BY <1>2, <1>14, <2>1 DEF LogMSIGNextSteps
<1>15. CASE ReadChangesets(c)
  BY <1>2, <1>4, <1>15 DEF ReadChangesets, Sources
<1>16. CASE TruncateChangesets(c)
  BY <1>4, <1>16 DEF TruncateChangesets, Sources
<1>17. CASE WriteChangesets(c)
  BY <1>2, <1>4, <1>17 DEF WriteChangesets, Sources
<1>18. CASE BrowserStep(c)
  <2>1. CASE /\ Done(c, "ok") /\ UNCHANGED <<req, deadline, tries, snapshot>>
             /\ eligible' = IF At(c, "exchange") THEN eligible \cup {c} ELSE eligible
    <3>1. PICK step \in {"authorize", "callback", "exchange"} : At(c, step)
      BY <1>18 DEF BrowserStep
    <3>2. CASE step # "exchange"
      BY <1>4, <2>1, <3>1, <3>2 DEF Sources
    <3>3. CASE step = "exchange"
      <4>1. req'[c] \in eligible'
        BY <2>1, <3>1, <3>3, HeadIsPrepared
      <4>2. todo'[c] = Tail(todo[c])
        BY <1>0, <2>1 DEF Done, TypeOK
      <4> QED BY <2>1, <3>1, <3>3, <4>1, <4>2, PlanAdvances DEF Sources
    <3> QED BY <3>2, <3>3
  <2> QED BY <1>2, <1>18, <2>1 DEF BrowserStep
<1>19. CASE PostAnswered(c)
  <2>1. /\ At(c, "post") /\ todo'[c] = Tail(todo[c]) /\ req'[c] = req[c] /\ deadline' = deadline
        /\ req'[c] \in processed'
    BY <1>0, <1>19 DEF PostAnswered, Done, TypeOK
  <2> QED BY <2>1, PlanAdvances DEF Sources
<1>20. CASE PostLost(c)
  BY <1>3, <1>20 DEF PostLost
<1>21. CASE PostRefused(c)
  BY <1>2, <1>3, <1>21 DEF PostRefused
<1>22. CASE PostRejected(c)
  BY <1>2, <1>22 DEF PostRejected
<1> QED BY CallStepKinds, <1>5, <1>6, <1>7, <1>8, <1>9, <1>10, <1>11, <1>12, <1>13, <1>14,
           <1>15, <1>16, <1>17, <1>18, <1>19, <1>20, <1>21, <1>22

\* Types, plans and the contract's entries, together.
LEMMA FlowStep == FlowInv /\ [Next]_vars => FlowInv'
<1> SUFFICES ASSUME FlowInv, [Next]_vars PROVE FlowInv'
  OBVIOUS
<1>1. ASSUME NEW c \in Calls, UNCHANGED callVars PROVE GoodPlan(c)'
  BY <1>1, PlanStays DEF callVars
<1>2. ASSUME NEW c \in Calls, NEW d \in Calls, CallStep(d) \/ Kill(d) PROVE GoodPlan(c)'
  <2>1. CASE c = d
    BY <1>2, <2>1, PlanStep
  <2>2. CASE c # d
    BY <1>2, <2>2, OthersStay, PlanStays DEF FlowInv
  <2> QED BY <2>1, <2>2
<1>3. Plans'
  BY <1>1, <1>2 DEF Plans, Next, Land, LateCopy, Tick, vars, callVars
<1> QED BY <1>3, TypeStep, AllowedStep DEF FlowInv

\* Every variable of the secrets commands keeps its type: no request is posted
\* that was not built, no POST tried once too often (retry of the gateway
\* client), no deadline computed beyond --timeout.
THEOREM TypeCorrect == Spec => []TypeOK
<1>1. Init => FlowInv
  BY FlowInit
<1>2. FlowInv /\ [Next]_vars => FlowInv'
  BY FlowStep
<1>3. FlowInv => TypeOK
  BY DEF FlowInv
<1> QED BY <1>1, <1>2, <1>3, PTL DEF Spec

----------------------------------------------------------------------------
(* What is posted.                                                         *)

LEMMA PostInit == Init => PostInv
BY FlowInit DEF Init, PostInv, CopiesArePosted, PostedWasAllowed

LEMMA PostStep == PostInv /\ [Next]_vars => PostInv'
<1> SUFFICES ASSUME PostInv, [Next]_vars PROVE PostInv'
  OBVIOUS
<1>1. FlowInv' /\ eligible \subseteq eligible'
  BY FlowStep, OnlyAdded DEF PostInv
<1>2. ASSUME UNCHANGED <<copies, processed, posted>>
      PROVE  CopiesArePosted' /\ PostedWasAllowed'
  BY <1>1, <1>2 DEF PostInv, CopiesArePosted, PostedWasAllowed
<1>3. ASSUME NEW c \in Calls, CallStep(c) PROVE CopiesArePosted' /\ PostedWasAllowed'
  <2>1. At(c, "post") => req[c] \in eligible
    BY HeadIsPrepared DEF PostInv
  <2>2. CASE PostAnswered(c) \/ PostLost(c) \/ PostRefused(c) \/ PostRejected(c)
    BY <1>1, <2>1, <2>2 DEF PostInv, CopiesArePosted, PostedWasAllowed, PostAnswered, PostLost,
                            PostRefused, PostRejected
  <2>3. CASE ~(PostAnswered(c) \/ PostLost(c) \/ PostRefused(c) \/ PostRejected(c))
    BY <1>2, <1>3, <2>3, CallStepKinds
       DEF gateVars, Passes, PassOrFail, BuildRequest, LoadBundle, Allowlist, Confirmed,
           Unconfirmed, CheckAllowlisted, SaveBundle, LogMSIGNextSteps, ReadChangesets,
           TruncateChangesets, WriteChangesets, BrowserStep
  <2> QED BY <2>2, <2>3
<1>4. ASSUME NEW r \in copies, LateCopy(r) PROVE CopiesArePosted' /\ PostedWasAllowed'
  BY <1>1, <1>4 DEF LateCopy, PostInv, CopiesArePosted, PostedWasAllowed
<1> QED BY <1>1, <1>2, <1>3, <1>4 DEF Next, Kill, Land, Tick, vars, gateVars, PostInv

\* Nothing is posted to the vault gateway before it was allowlisted on chain or
\* authorized in the browser (executeBundle checks, the other commands wait for
\* the transaction or the token), and nothing else is ever processed, not even
\* a copy that arrives late.
THEOREM PostedWasAllowedHolds == Spec => []PostedWasAllowed
<1>1. Init => PostInv
  BY PostInit
<1>2. PostInv /\ [Next]_vars => PostInv'
  BY PostStep
<1>3. PostInv => PostedWasAllowed
  BY DEF PostInv
<1> QED BY <1>1, <1>2, <1>3, PTL DEF Spec

----------------------------------------------------------------------------
(* How calls end.                                                          *)

\* Only the last step of a plan ends a call well.
LEMMA EndOfPlan ==
    ASSUME FlowInv, NEW c \in Calls, NEW step, At(c, step), NEW result, Done(c, result)
    PROVE  /\ outcome' \in {outcome, [outcome EXCEPT ![c] = result]}
           /\ step \notin LastSteps => outcome' = outcome
           /\ step \in {"tell", "writeFile"} => outcome' = [outcome EXCEPT ![c] = result]
<1>1. /\ Len(todo[c]) \in 1..Len(todo[c]) /\ todo[c][1] = step /\ todo[c] # <<>>
      /\ 1 \in 1..Len(todo[c])
  BY DEF FlowInv, TypeOK, At
<1>2. Len(todo[c]) = 1 => step \in LastSteps
  BY <1>1 DEF FlowInv, Plans, GoodPlan, Shape
<1>3. step \in {"tell", "writeFile"} => Len(todo[c]) = 1
  BY <1>1 DEF FlowInv, Plans, GoodPlan, Shape
<1> QED BY <1>2, <1>3 DEF Done

\* A call that takes a step has not ended; one that ends well with it has had
\* its request processed, or has saved its bundle.
LEMMA Endings ==
    ASSUME FlowInv, [Next]_vars, NEW c \in Calls, CallStep(c) \/ Kill(c)
    PROVE  /\ outcome[c] = "none"
           /\ outcome'[c] = "ok" => req'[c] \in processed'
           /\ outcome'[c] = "prepared" => c \in bundles' /\ (At(c, "tell") \/ At(c, "writeFile"))
<1> DEFINE Goal == /\ outcome[c] = "none"
                   /\ outcome'[c] = "ok" => req'[c] \in processed'
                   /\ outcome'[c] = "prepared" => /\ c \in bundles'
                                                  /\ At(c, "tell") \/ At(c, "writeFile")
<1>0. outcome \in [Calls -> Outcomes] /\ bundles \subseteq bundles' /\ processed \subseteq processed'
  BY OnlyAdded DEF FlowInv, TypeOK
<1>1. ASSUME outcome[c] = "none", outcome' = outcome PROVE Goal
  BY <1>1
<1>2. ASSUME outcome[c] = "none", Fail(c) PROVE Goal
  BY <1>0, <1>2 DEF Fail
<1>3. ASSUME outcome[c] = "none", Retry(c) PROVE Goal
  BY <1>1, <1>2, <1>3 DEF Retry
<1>4. ASSUME NEW step, At(c, step), NEW result, Done(c, result), step \notin LastSteps PROVE Goal
  <2>1. outcome' = outcome
    BY <1>4, EndOfPlan
  <2> QED BY <1>1, <1>4, <2>1 DEF At
<1>5. ASSUME NEW step \in {"tell", "writeFile"}, At(c, step), Done(c, "prepared") PROVE Goal
  <2>1. outcome'[c] = "prepared"
    BY <1>0, <1>5, EndOfPlan
  <2>2. c \in bundles
    BY <1>5, HeadIsPrepared
  <2> QED BY <1>0, <1>5, <2>1, <2>2 DEF At
<1>6. ASSUME At(c, "parse"), Done(c, "ok"), req' = req PROVE Goal
  <2>1. outcome'[c] \in {"none", "ok"}
    BY <1>0, <1>6, EndOfPlan DEF At
  <2>2. req[c] \in processed
    BY <1>6, HeadIsPrepared
  <2> QED BY <1>0, <1>6, <2>1, <2>2 DEF At
<1> USE DEF LastSteps
<1>7. CASE Kill(c)
  BY <1>0, <1>7 DEF Kill
<1>8. CASE Passes(c)
  <2>1. PICK step \in PassSteps : PassOrFail(c, step)
    BY <1>8 DEF Passes
  <2>2. CASE step = "parse"
    BY <1>2, <1>6, <2>1, <2>2 DEF PassOrFail, At
  <2>3. CASE step # "parse"
    BY <1>2, <1>4, <2>1, <2>3 DEF PassOrFail, PassSteps, At
  <2> QED BY <2>2, <2>3
<1>9. CASE BuildRequest(c)
  BY <1>4, <1>9 DEF BuildRequest
<1>10. CASE LoadBundle(c)
  BY <1>2, <1>4, <1>10 DEF LoadBundle, At
<1>11. CASE Allowlist(c)
  BY <1>1, <1>2, <1>11 DEF Allowlist, At
<1>12. CASE Confirmed(c)
  BY <1>1, <1>12 DEF Confirmed, At
<1>13. CASE Unconfirmed(c)
  BY <1>2, <1>13 DEF Unconfirmed, At
<1>14. CASE CheckAllowlisted(c)
  BY <1>2, <1>4, <1>14 DEF CheckAllowlisted, At
<1>15. CASE SaveBundle(c)
  BY <1>2, <1>4, <1>15 DEF SaveBundle, At
<1>16. CASE LogMSIGNextSteps(c)
  BY <1>2, <1>5, <1>16 DEF LogMSIGNextSteps, At
<1>17. CASE ReadChangesets(c)
  BY <1>2, <1>4, <1>17 DEF ReadChangesets, At
<1>18. CASE TruncateChangesets(c)
  BY <1>4, <1>18 DEF TruncateChangesets
<1>19. CASE WriteChangesets(c)
  BY <1>2, <1>5, <1>19 DEF WriteChangesets, At
<1>20. CASE BrowserStep(c)
  <2>1. PICK step \in {"authorize", "callback", "exchange"} : At(c, step)
    BY <1>20 DEF BrowserStep
  <2> QED BY <1>2, <1>4, <1>20, <2>1 DEF BrowserStep, At
<1>21. CASE PostAnswered(c)
  BY <1>4, <1>21 DEF PostAnswered
<1>22. CASE PostLost(c)
  BY <1>3, <1>22 DEF PostLost, At
<1>23. CASE PostRefused(c)
  BY <1>2, <1>3, <1>23 DEF PostRefused, At
<1>24. CASE PostRejected(c)
  BY <1>2, <1>24 DEF PostRejected, At
<1> QED
  BY CallStepKinds, <1>7, <1>8, <1>9, <1>10, <1>11, <1>12, <1>13, <1>14, <1>15, <1>16,
     <1>17, <1>18, <1>19, <1>20, <1>21, <1>22, <1>23, <1>24

LEMMA SuccessStep == FlowInv /\ SuccessIsKept /\ [Next]_vars => SuccessIsKept'
<1> SUFFICES ASSUME FlowInv, SuccessIsKept, [Next]_vars, NEW c \in Calls
             PROVE  /\ outcome'[c] = "ok" => req'[c] \in processed'
                    /\ outcome'[c] = "prepared" => c \in bundles'
  BY DEF SuccessIsKept
<1>1. bundles \subseteq bundles' /\ processed \subseteq processed'
  BY OnlyAdded
<1>2. CASE outcome'[c] = outcome[c] /\ req'[c] = req[c]
  BY <1>1, <1>2 DEF SuccessIsKept
<1>3. ASSUME NEW d \in Calls, CallStep(d) \/ Kill(d)
      PROVE  /\ outcome'[c] = "ok" => req'[c] \in processed'
             /\ outcome'[c] = "prepared" => c \in bundles'
  <2>1. CASE c = d
    BY <1>3, <2>1, Endings
  <2>2. CASE c # d
    BY <1>2, <1>3, <2>2, OthersStay DEF FlowInv
  <2> QED BY <2>1, <2>2
<1> QED BY <1>2, <1>3 DEF Next, Land, LateCopy, Tick, vars, callVars

\* A secrets command that says it succeeded has had its request processed by
\* the vault, or leaves the bundle that `secrets execute` needs.
THEOREM SuccessIsKeptHolds == Spec => []SuccessIsKept
<1>1. Init => FlowInv /\ SuccessIsKept
  BY FlowInit DEF Init, SuccessIsKept
<1>2. FlowInv /\ SuccessIsKept /\ [Next]_vars => (FlowInv /\ SuccessIsKept)'
  BY FlowStep, SuccessStep
<1> QED BY <1>1, <1>2, PTL DEF Spec

----------------------------------------------------------------------------
(* What signers hold.                                                      *)

\* A call that is prepared stays so.
LEMMA PreparedStays ==
    ASSUME FlowInv, [Next]_vars, NEW c \in Calls, outcome[c] = "prepared"
    PROVE  outcome'[c] = "prepared"
<1>1. ASSUME NEW d \in Calls, CallStep(d) \/ Kill(d) PROVE outcome'[c] = "prepared"
  <2>1. d # c
    BY <1>1, Endings
  <2> QED BY <1>1, <2>1, OthersStay DEF FlowInv
<1> QED BY <1>1 DEF Next, Land, LateCopy, Tick, vars, callVars

\* The changeset call that writes, and the raw one that prints, have ended.
LEMMA HandingOutEnds ==
    ASSUME FlowInv, NEW c \in Calls, NEW step \in {"tell", "writeFile"}, At(c, step),
           Done(c, "prepared")
    PROVE  outcome'[c] = "prepared"
BY EndOfPlan DEF FlowInv, TypeOK

LEMMA WrittenStep == FlowInv /\ WrittenHasEnded /\ [Next]_vars => WrittenHasEnded'
<1> SUFFICES ASSUME FlowInv, WrittenHasEnded, [Next]_vars PROVE WrittenHasEnded'
  OBVIOUS
<1> DEFINE Recorded(c)  == c \in csFile \/ \E d \in Calls : c \in snapshot[d]
           InHand(c)    == c \in eligible \/ \E t \in txs : t[1] = c
<1>1. TypeOK /\ job' = job /\ \A c \in Calls : outcome[c] = "prepared" => outcome'[c] = "prepared"
  BY OnlyAdded, PreparedStays DEF FlowInv
<1>2. ASSUME \A c \in Calls : Recorded(c)' => Recorded(c) \/ outcome'[c] = "prepared",
             \A c \in Calls : Prepares(c) /\ InHand(c)' => InHand(c) \/ outcome'[c] = "prepared"
      PROVE  WrittenHasEnded'
  <2>1. ASSUME NEW c \in Calls, Recorded(c)' PROVE outcome'[c] = "prepared"
    BY <1>1, <1>2, <2>1 DEF WrittenHasEnded
  <2>2. ASSUME NEW c \in Calls, Prepares(c)', Signable(c)' PROVE outcome'[c] = "prepared"
    <3>1. Prepares(c)
      BY <1>1, <2>2 DEF Prepares
    <3>2. CASE InHand(c)'
      BY <1>1, <1>2, <3>1, <3>2 DEF WrittenHasEnded, Signable
    <3>3. CASE c \in csFile'
      BY <2>1, <3>3
    <3> QED BY <2>2, <3>2, <3>3 DEF Signable
  <2> QED BY <2>1, <2>2 DEF WrittenHasEnded
<1>3. ASSUME UNCHANGED <<csFile, snapshot, txs, eligible>> PROVE WrittenHasEnded'
  BY <1>2, <1>3
<1>4. ASSUME NEW c \in Calls, CallStep(c) PROVE WrittenHasEnded'
  <2>1. CASE Allowlist(c)
    <3>1. UNCHANGED <<csFile, snapshot, eligible>>
      BY <2>1 DEF Allowlist, Fail
    <3>2. \/ UNCHANGED txs
          \/ job[c].tx = "regular" /\ txs' = txs \cup {<<c, Expiry>>}
      BY <2>1 DEF Allowlist
    <3>3. \A d \in Calls : Prepares(d) /\ InHand(d)' => InHand(d)
      BY <3>1, <3>2 DEF Prepares
    <3> QED BY <1>2, <3>1, <3>3
  <2>2. CASE LogMSIGNextSteps(c)
    <3>1. UNCHANGED <<csFile, snapshot, eligible>>
      BY <2>2 DEF LogMSIGNextSteps, Fail
    <3>2. \/ UNCHANGED txs
          \/ Done(c, "prepared") /\ txs' = txs \cup {<<c, Expiry>>}
      BY <2>2 DEF LogMSIGNextSteps
    <3>3. \A d \in Calls : InHand(d)' => InHand(d) \/ outcome'[d] = "prepared"
      BY <2>2, <3>1, <3>2, HandingOutEnds DEF LogMSIGNextSteps
    <3> QED BY <1>2, <3>1, <3>3
  <2>3. CASE ReadChangesets(c)
    <3>1. UNCHANGED <<csFile, txs, eligible>>
      BY <2>3 DEF ReadChangesets, chainVars
    <3>2. UNCHANGED snapshot \/ snapshot' = [snapshot EXCEPT ![c] = csFile]
      BY <2>3 DEF ReadChangesets, Fail
    <3>3. \A d \in Calls : Recorded(d)' => Recorded(d)
      BY <1>1, <3>1, <3>2 DEF TypeOK
    <3> QED BY <1>2, <3>1, <3>3
  <2>4. CASE TruncateChangesets(c)
    BY <1>2, <2>4 DEF TruncateChangesets, chainVars
  <2>5. CASE WriteChangesets(c)
    <3>1. UNCHANGED <<snapshot, eligible>>
      BY <2>5 DEF WriteChangesets, Fail
    <3>2. \/ UNCHANGED <<csFile, txs>>
          \/ /\ Done(c, "prepared") /\ csFile' = snapshot[c] \cup {c}
             /\ txs' = txs \cup {<<c, deadline[c]>>}
      BY <2>5 DEF WriteChangesets
    <3>3. \A d \in Calls : InHand(d)' => InHand(d) \/ outcome'[d] = "prepared"
      BY <2>5, <3>1, <3>2, HandingOutEnds DEF WriteChangesets
    <3>4. \A d \in Calls : Recorded(d)' => Recorded(d) \/ outcome'[d] = "prepared"
      BY <2>5, <3>1, <3>2, HandingOutEnds DEF WriteChangesets
    <3> QED BY <1>2, <3>3, <3>4
  <2>6. CASE BrowserStep(c)
    <3>1. UNCHANGED <<csFile, snapshot, txs>>
      BY <2>6 DEF BrowserStep, Fail
    <3>2. UNCHANGED eligible \/ (At(c, "exchange") /\ eligible' = eligible \cup {c})
      BY <2>6 DEF BrowserStep
    <3>3. At(c, "exchange") => Browser(job[c])
      <4>1. At(c, "exchange") => 1 \in 1..Len(todo[c]) /\ todo[c][1] = "exchange"
        BY <1>1 DEF At, TypeOK
      <4> QED BY <4>1 DEF FlowInv, Plans, GoodPlan, Shape
    <3>4. \A d \in Calls : Prepares(d) /\ InHand(d)' => InHand(d)
      BY <3>1, <3>2, <3>3 DEF Prepares, Browser
    <3> QED BY <1>2, <3>1, <3>4
  <2>7. CASE \/ Passes(c) \/ BuildRequest(c) \/ LoadBundle(c) \/ Confirmed(c) \/ Unconfirmed(c)
             \/ CheckAllowlisted(c) \/ SaveBundle(c) \/ PostAnswered(c) \/ PostLost(c)
             \/ PostRefused(c) \/ PostRejected(c)
    BY <1>3, <2>7 DEF Passes, PassOrFail, BuildRequest, LoadBundle, Confirmed, Unconfirmed,
                      CheckAllowlisted, SaveBundle, PostAnswered, PostLost, PostRefused,
                      PostRejected, Fail, Retry, chainVars
  <2> QED BY <1>4, CallStepKinds, <2>1, <2>2, <2>3, <2>4, <2>5, <2>6, <2>7
<1>5. ASSUME NEW t \in txs, Land(t) PROVE WrittenHasEnded'
  BY <1>2, <1>5 DEF Land, callVars
<1> QED BY <1>3, <1>4, <1>5 DEF Next, Kill, LateCopy, Tick, vars, callVars, chainVars

\* Whatever the signers of a multisig owner hold, the bundle for it is on disk
\* (SaveBundle comes before LogMSIGNextSteps and WriteChangesetFile), also when
\* the process is killed in between; and a call that failed gave them nothing.
THEOREM SignableHasBundleHolds == Spec => []SignableHasBundle
<1>1. Init => BundleInv
  BY FlowInit DEF Init, BundleInv, SuccessIsKept, WrittenHasEnded, Signable
<1>2. BundleInv /\ [Next]_vars => BundleInv'
  BY FlowStep, SuccessStep, WrittenStep DEF BundleInv
<1>3. BundleInv => SignableHasBundle
  BY DEF BundleInv, SuccessIsKept, WrittenHasEnded, SignableHasBundle
<1> QED BY <1>1, <1>2, <1>3, PTL DEF Spec

----------------------------------------------------------------------------
(* The changeset file.                                                     *)

\* A changeset is in the file, about to be written back, or accounted as lost.
Kept(c) == \/ c \in csFile \cup lost
           \/ \E d \in Calls : At(d, "writeFile") /\ c \in snapshot[d]

\* Nobody drops a changeset silently: not the writer that truncates the file,
\* not the one that puts its snapshot back, not the kill in between.
LEMMA KeptStays ==
    ASSUME FlowInv, [Next]_vars, NEW c \in Calls, Kept(c)
    PROVE  Kept(c)'
<1>1. TypeOK
  BY DEF FlowInv
<1>2. ASSUME UNCHANGED <<csFile, lost, snapshot>>,
             \A d \in Calls : At(d, "writeFile") => At(d, "writeFile")'
      PROVE  Kept(c)'
  BY <1>2 DEF Kept
<1>3. ASSUME NEW d \in Calls, CallStep(d) \/ Kill(d), NEW e \in Calls, e # d, At(e, "writeFile")
      PROVE  At(e, "writeFile")' /\ snapshot'[e] = snapshot[e]
  BY <1>1, <1>3, OthersStay DEF At
<1>4. ASSUME NEW d \in Calls, CallStep(d) PROVE Kept(c)'
  <2>1. CASE WriteChangesets(d)
    <3>1. \/ csFile' = snapshot[d] \cup {d} /\ lost' = lost \cup (csFile \ snapshot[d])
          \/ csFile' = csFile /\ lost' = lost \cup snapshot[d]
      BY <2>1 DEF WriteChangesets
    <3> QED BY <1>3, <1>4, <3>1 DEF Kept
  <2>2. CASE TruncateChangesets(d)
    <3>1. /\ csFile' = {} /\ lost' = lost \cup (csFile \ snapshot[d]) /\ UNCHANGED snapshot
          /\ At(d, "truncate") /\ Done(d, "prepared")
      BY <2>2 DEF TruncateChangesets
    <3>2. At(d, "writeFile")'
      <4>1. todo[d] \in Seq(StepNames) /\ todo[d] # <<>> /\ 1 \in 1..Len(todo[d]) /\ todo[d][1] = "truncate"
        BY <1>1, <3>1 DEF TypeOK, At
      <4>2. 1 < Len(todo[d]) /\ todo[d][2] = "writeFile"
        BY <4>1 DEF FlowInv, Plans, GoodPlan, Shape
      <4>3. Tail(todo[d]) # <<>> /\ Head(Tail(todo[d])) = "writeFile"
        <5> DEFINE t == Tail(todo[d])
        <5>1. t \in Seq(StepNames) /\ Len(t) = Len(todo[d]) - 1 /\ Len(todo[d]) \in Nat
          BY <4>1, TailAt
        <5>2. 1 \in 1..Len(t) /\ t[1] = todo[d][2]
          BY <4>1, <4>2, <5>1, TailAt
        <5> HIDE DEF t
        <5>3. t # <<>> /\ Head(t) = "writeFile"
          BY <4>2, <5>1, <5>2
        <5> QED BY <5>3 DEF t
      <4>4. todo'[d] = Tail(todo[d]) /\ outcome' = outcome
        BY <1>1, <3>1, <4>2 DEF Done, TypeOK
      <4> QED BY <3>1, <4>3, <4>4 DEF At
    <3>3. CASE c \in csFile \cup lost
      BY <3>1, <3>2, <3>3 DEF Kept
    <3>4. ASSUME NEW e \in Calls, At(e, "writeFile"), c \in snapshot[e] PROVE Kept(c)'
      <4>1. e # d
        BY <3>1, <3>4 DEF At
      <4> QED BY <1>3, <1>4, <3>4, <4>1 DEF Kept
    <3> QED BY <3>3, <3>4 DEF Kept
  <2>3. CASE ReadChangesets(d)
    <3>1. UNCHANGED <<csFile, lost>> /\ ~At(d, "writeFile")
      BY <2>3 DEF ReadChangesets, At
    <3> QED BY <1>3, <1>4, <3>1 DEF Kept
  <2>4. CASE \/ Passes(d) \/ BuildRequest(d) \/ LoadBundle(d) \/ Allowlist(d) \/ Confirmed(d)
             \/ Unconfirmed(d) \/ CheckAllowlisted(d) \/ SaveBundle(d) \/ LogMSIGNextSteps(d)
             \/ BrowserStep(d) \/ PostAnswered(d) \/ PostLost(d) \/ PostRefused(d)
             \/ PostRejected(d)
    <3>1. UNCHANGED <<csFile, lost, snapshot>>
      BY <2>4 DEF Passes, PassOrFail, BuildRequest, LoadBundle, Allowlist, Confirmed,
                  Unconfirmed, CheckAllowlisted, SaveBundle, LogMSIGNextSteps, BrowserStep,
                  PostAnswered, PostLost, PostRefused, PostRejected, Fail, Retry
    <3>2. ~At(d, "writeFile")
      BY <2>4 DEF At, Passes, PassOrFail, PassSteps, BuildRequest, LoadBundle, Allowlist,
                  Confirmed, Unconfirmed, CheckAllowlisted, SaveBundle, LogMSIGNextSteps,
                  BrowserStep, PostAnswered, PostLost, PostRefused, PostRejected
    <3> QED BY <1>2, <1>3, <1>4, <3>1, <3>2
  <2> QED BY <1>4, CallStepKinds, <2>1, <2>2, <2>3, <2>4
<1>5. ASSUME NEW d \in Calls, Kill(d) PROVE Kept(c)'
  <2>1. /\ UNCHANGED <<csFile, snapshot>> /\ lost \subseteq lost'
        /\ At(d, "writeFile") => lost' = lost \cup snapshot[d]
    BY <1>5 DEF Kill
  <2> QED BY <1>3, <1>5, <2>1 DEF Kept
<1>6. CASE UNCHANGED <<csFile, lost, callVars>>
  BY <1>2, <1>6 DEF callVars, At
<1> QED BY <1>4, <1>5, <1>6 DEF Next, Land, LateCopy, Tick, vars, callVars

LEMMA ChangesetStep == FlowInv /\ ChangesetKept /\ [Next]_vars => ChangesetKept'
<1> SUFFICES ASSUME FlowInv, ChangesetKept, [Next]_vars, NEW c \in Calls,
                    Prepares(c)', job'[c].tx = "changeset", outcome'[c] = "prepared"
             PROVE  Kept(c)'
  BY DEF ChangesetKept, Kept
<1>1. TypeOK /\ Prepares(c) /\ job[c].tx = "changeset"
  BY OnlyAdded DEF FlowInv, Prepares
<1>2. CASE outcome[c] = "prepared"
  BY <1>1, <1>2, KeptStays DEF ChangesetKept, Kept
<1>3. CASE outcome[c] # "prepared"
  <2>1. CallStep(c) \/ Kill(c)
    BY <1>3, <1>1, OthersStay DEF Next, Land, LateCopy, Tick, vars, callVars
  <2>2. CallStep(c)
    BY <1>1, <2>1 DEF Kill, TypeOK
  <2>3. At(c, "tell") => job[c].tx = "raw"
    <3>1. At(c, "tell") => 1 \in 1..Len(todo[c]) /\ todo[c][1] = "tell"
      BY <1>1 DEF At, TypeOK
    <3> QED BY <3>1 DEF FlowInv, Plans, GoodPlan, Shape
  <2>4. At(c, "writeFile")
    BY <1>1, <2>1, <2>3, Endings
  <2>5. WriteChangesets(c)
    BY <2>2, <2>4, CallStepKinds
       DEF At, Passes, PassOrFail, PassSteps, BuildRequest, LoadBundle, Allowlist, Confirmed,
           Unconfirmed, CheckAllowlisted, SaveBundle, LogMSIGNextSteps, ReadChangesets,
           TruncateChangesets, BrowserStep, PostAnswered, PostLost, PostRefused, PostRejected
  <2>6. ~Fail(c)
    BY <1>1 DEF Fail, TypeOK
  <2>7. c \in csFile'
    BY <2>5, <2>6 DEF WriteChangesets
  <2> QED BY <2>7 DEF Kept
<1> QED BY <1>2, <1>3

\* WriteChangesetFile loses a prepared changeset only where two calls overlap or
\* one is stopped between truncating the file and writing it.
THEOREM ChangesetKeptHolds == Spec => []ChangesetKept
<1>1. Init => FlowInv /\ ChangesetKept
  BY FlowInit DEF Init, ChangesetKept
<1>2. FlowInv /\ ChangesetKept /\ [Next]_vars => (FlowInv /\ ChangesetKept)'
  BY FlowStep, ChangesetStep
<1> QED BY <1>1, <1>2, PTL DEF Spec
=============================================================================
