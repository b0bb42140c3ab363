------------------------- MODULE LocalSession_proofs -------------------------
(***************************************************************************)
(* Theorems about LocalSession, for any number of processes and accounts,  *)
(* any mix of commands and any number of refresh tokens.                   *)
(***************************************************************************)
EXTENDS LocalSession, FiniteSetTheorems, TLAPS

----------------------------------------------------------------------------
(* The inductive invariants.                                               *)

\* Which command is where; a process that saves, or revokes, holds tokens.
ControlOf(p) ==
    /\ pc[p] \in {"auth", "exchange", "tenant"} => kind[p] = "login"
    /\ pc[p] \in {"validate", "context", "command", "telemetry"} =>
          kind[p] \in {"query", "apiKey"}
    /\ pc[p] \in {"revoke", "open", "zero", "remove", "clear"} => kind[p] = "logout"
    /\ kind[p] = "apiKey" => mem[p].is # "tokens"
    /\ pc[p] \in {"revoke", "tenant"} => mem[p].is = "tokens"
    /\ saving[p] # "no" =>
          /\ mem[p].is = "tokens" /\ refreshed[p]
          /\ pc[p] \in {"validate", "context", "command", "telemetry", "exchange"}
    /\ pc[p] = "tenant" => refreshed[p]

Control == \A p \in Procs : ControlOf(p)

\* The temporary file is neither cre.yaml nor a file that a logout has open.
TmpApart ==
    /\ tmp # 0 => tmp # file
    /\ \A q \in Procs : tmp # 0 /\ pc[q] = "zero" => fd[q] # tmp

\* Without a clash one process at a time has the temporary file: empty until it
\* is written, its tokens until it is moved.
OneSaver ==
    clash \/ /\ \A p, q \in Procs : Saving(p) /\ Saving(q) => p = q
             /\ \A p \in Procs :
                   /\ saving[p] = "write" => tmp # 0 /\ fd[p] = tmp /\ node[tmp] = Nothing
                   /\ saving[p] = "rename" => tmp # 0 /\ node[tmp] = mem[p]

\* A refresh token is one account's, wherever a copy of it is held or stored.
OneAccount ==
    clash \/ /\ \A p, q \in Procs :
                   mem[p].is = "tokens" /\ mem[q].is = "tokens" /\ mem[p].rt = mem[q].rt =>
                       mem[p].account = mem[q].account
             /\ \A p \in Procs :
                   mem[p].is = "tokens" /\ OnFile.is = "tokens" /\ mem[p].rt = OnFile.rt =>
                       mem[p].account = OnFile.account

\* Tokens the server accepts, or of which we know why it does not.
Good == live \cup revoked \cup cut

\* What a process is about to save works, and where tokens rotate nobody else
\* can have spent it: no other process holds it, and it is not on disk yet.
SavedWorks ==
    clash \/ \A p \in Procs :
                saving[p] # "no" =>
                    /\ mem[p].rt \in Good
                    /\ rotates => /\ OnFile.rt # mem[p].rt
                                  /\ \A q \in Procs \ {p} : mem[q].rt # mem[p].rt

\* Where tokens do not rotate, nothing spends them.
UnrotatedWork ==
    rotates \/ clash \/ /\ \A p \in Procs : mem[p].is = "tokens" => mem[p].rt \in Good
                        /\ OnFile.is = "tokens" => OnFile.rt \in Good

\* Processes that do not overlap run one at a time.
OneRunning ==
    /\ overlap \/ \A p, q \in Procs : Running(p) /\ Running(q) => p = q
    /\ clash => overlap

\* Between two commands the context is that of the tokens on disk; a query has
\* the tokens on disk in memory, and a login that came to its context as well.
ContextInStep ==
    overlap \/ mixed \/
        /\ OnFile.is = "tokens" =>
              \/ context \in {NoAccount, OnFile.account}
              \/ \E p \in Procs : pc[p] = "tenant"
        /\ \A p \in Procs :
              /\ (Running(p) /\ kind[p] = "query") \/ pc[p] = "tenant" =>
                    OnFile.is = "tokens" /\ mem[p].account = OnFile.account
              /\ \/ kind[p] \in {"login", "logout"} /\ pc[p] # "gone"
                 \/ pc[p] \in {"start", "validate", "context"}
                 =>
                    used[p] = NoAccount

\* A logout past the removal has left no file, unless somebody else wrote one.
Cleared == overlap \/ \A p \in Procs : pc[p] = "clear" => file = 0


----------------------------------------------------------------------------
(* Steps and operators.                                                    *)

\* The steps of a process, by what they may change.
Begins(p)   == AttachCredentials(p) \/ NotLoggedIn(p) \/ LoginStart(p) \/ LogoutStart(p)
Requests(p) == \/ RefreshFails(p) \/ RequestFails(p)
               \/ ValidateCredentials(p) \/ CommandQuery(p) \/ SendEvent(p)
               \/ UseContext(p) \/ FetchAndWriteContext(p)
               \/ StartAuthFlow(p) \/ Revoke(p) \/ RemoveContext(p)
Obtains(p)  == RefreshToken(p) \/ ExchangeAuthorizationCode(p)
Saves(p)    == SaveOpen(p) \/ SaveWrite(p) \/ SaveRename(p)
Removes(p)  == SecureOpen(p) \/ SecureZero(p) \/ SecureRemove(p) \/ SecureRemoveFails(p)
Breaks(p)   == SaveFails(p) \/ Kill(p)
Step(p)     == Begins(p) \/ Requests(p) \/ Obtains(p) \/ Saves(p) \/ Removes(p) \/ Breaks(p)

LEMMA NextIsStep == Next => \E p \in Procs : Step(p)
BY DEF Next, Step, Begins, Requests, Obtains, Saves, Removes, Breaks

LEMMA ContentsType ==
    /\ Nothing \in Contents /\ Nothing.is = "empty" /\ Nothing.rt = 0
    /\ Nothing.account = NoAccount
    /\ \A what \in {"zeros", "torn"} :
          Bytes(what) \in Contents /\ Bytes(what).is = what /\ Bytes(what).rt = 0
    /\ \A x \in Contents : /\ x.rt \in Nat
                           /\ x.is \in {"tokens", "empty", "zeros", "torn"}
                           /\ x.is = "tokens" <=> x.rt # 0
                           /\ x.is = "tokens" => /\ x.account \in Accounts /\ x.rt \in 1..MaxToken
                                                 /\ x = Tokens(x.account, x.rt)
                           /\ x.account \in Accounts \cup {NoAccount}
    /\ \A a \in Accounts, rt \in 1..MaxToken :
          /\ Tokens(a, rt) \in Contents /\ Tokens(a, rt).is = "tokens"
          /\ Tokens(a, rt).rt = rt /\ Tokens(a, rt).account = a
BY MaxTokenAssumption DEF Nothing, Bytes, Tokens, Contents

\* There is an inode that is neither the files' nor open in a process, as long
\* as there is no temporary file.
LEMMA FreeIsFree ==
    ASSUME TypeOK, tmp = 0
    PROVE  Free \in Inodes /\ Free # file /\ \A q \in Procs : fd[q] # Free
<1> DEFINE n == Cardinality(Procs)
           Open == {fd[q] : q \in Procs}
           f == [q \in Procs |-> fd[q]]
<1>1. n \in Nat
  BY ProcsAssumption, FS_CardinalityType
<1>2. f \in Surjection(Procs, Open)
  BY DEF Surjection
<1>3. IsFiniteSet(Open) /\ Cardinality(Open) <= n
  BY <1>2, ProcsAssumption, FS_Surjection
<1>4. /\ IsFiniteSet(Open \cup {file})
      /\ Cardinality(Open \cup {file}) <= n + 1
  <2>1. Cardinality(Open) \in Nat
    BY <1>3, FS_CardinalityType
  <2>2. /\ IsFiniteSet(Open \cup {file})
        /\ \/ Cardinality(Open \cup {file}) = Cardinality(Open) + 1
           \/ Cardinality(Open \cup {file}) = Cardinality(Open)
    BY <1>3, FS_AddElement
  <2> QED BY <1>1, <1>3, <2>1, <2>2
<1>5. Cardinality(Inodes) = n + 2
  BY <1>1, FS_Interval DEF Inodes
<1>6. \E i \in Inodes : i \notin Open \cup {file}
  <2>1. SUFFICES ASSUME Inodes \subseteq Open \cup {file} PROVE FALSE
    OBVIOUS
  <2>2. Cardinality(Inodes) <= Cardinality(Open \cup {file})
    BY <1>4, <2>1, FS_Subset
  <2>3. Cardinality(Open \cup {file}) \in Nat
    BY <1>4, FS_CardinalityType
  <2> HIDE DEF n
  <2> QED BY <1>1, <1>4, <1>5, <2>2, <2>3
<1>7. \E i \in Inodes : i \notin {file, tmp} \cup {fd[q] : q \in Procs}
  BY <1>6 DEF Inodes
<1> QED BY <1>7 DEF Free

\* A step is its process's own.
LEMMA OthersStay ==
    ASSUME TypeOK, NEW p \in Procs, Step(p)
    PROVE  \A q \in Procs \ {p} :
              /\ kind'[q] = kind[q] /\ pc'[q] = pc[q] /\ saving'[q] = saving[q]
              /\ mem'[q] = mem[q] /\ fd'[q] = fd[q] /\ refreshed'[q] = refreshed[q]
              /\ outcome'[q] = outcome[q] /\ used'[q] = used[q]
<1> USE DEF TypeOK, Goto, End, Starts, procVars
<1>1. CASE Begins(p)
  BY <1>1 DEF Begins, AttachCredentials, NotLoggedIn, LoginStart, LogoutStart
<1>2. CASE Requests(p)
  BY <1>2 DEF Requests, RefreshFails, RequestFails, ValidateCredentials, CommandQuery,
              SendEvent, UseContext, FetchAndWriteContext, StartAuthFlow, Revoke,
              RemoveContext
<1>3. CASE Obtains(p)
  BY <1>3 DEF Obtains, RefreshToken, ExchangeAuthorizationCode
<1>4. CASE Saves(p)
  BY <1>4 DEF Saves, SaveOpen, SaveWrite, SaveRename
<1>5. CASE Removes(p)
  BY <1>5 DEF Removes, SecureOpen, SecureZero, SecureRemove, SecureRemoveFails
<1>6. CASE Breaks(p)
  BY <1>6 DEF Breaks, SaveFails, Kill
<1> QED BY <1>1, <1>2, <1>3, <1>4, <1>5, <1>6 DEF Step

----------------------------------------------------------------------------
(* Types and control.                                                      *)

LEMMA OnFileType ==
    ASSUME TypeOK
    PROVE  OnFile \in Contents /\ OnFile.rt <= issued
BY ContentsType, MaxTokenAssumption DEF TypeOK, OnFile

LEMMA TypeInit == Init => TypeOK
<1> SUFFICES ASSUME Init PROVE TypeOK
  OBVIOUS
<1>1. Cardinality(Procs) \in Nat
  BY ProcsAssumption, FS_CardinalityType
<1>2. kind \in [Procs -> Kinds]
  BY MixesAssumption DEF Init
<1>3. 1 \in Inodes
  BY <1>1 DEF Inodes
<1>4. \A a \in Accounts : Tokens(a, 1) \in Contents /\ Tokens(a, 1).rt = 1
  BY ContentsType, MaxTokenAssumption
<1>5. /\ node \in [Inodes -> Contents] /\ file \in Inodes \cup {0}
      /\ context \in Accounts \cup {NoAccount}
      /\ \A i \in Inodes : node[i].rt <= 1
  BY <1>3, <1>4, ContentsType DEF Init
<1>6. mem \in [Procs -> Contents] /\ \A p \in Procs : mem[p].rt <= 1
  BY ContentsType DEF Init
<1>7. /\ issued \in 1..MaxToken
      /\ \A S \in {live, revoked, cut} : S \subseteq 1..issued
      /\ \A p \in Procs : mem[p].rt <= issued
      /\ \A i \in Inodes : node[i].rt <= issued
  BY <1>5, <1>6, MaxTokenAssumption DEF Init
<1>8. /\ pc \in [Procs -> Places]
      /\ {file, tmp} \subseteq Inodes \cup {0}
      /\ {rotates, clash, overlap, mixed} \subseteq BOOLEAN
  BY <1>5 DEF Init, Places
<1> QED BY <1>2, <1>5, <1>6, <1>7, <1>8 DEF Init, TypeOK

\* The end of a command.
LEMMA EndType ==
    ASSUME TypeOK, NEW p \in Procs, NEW result \in {"ok", "notLoggedIn", "error"},
           End(p, result)
    PROVE  /\ pc' \in [Procs -> Places]
           /\ outcome' \in [Procs -> {"none", "ok", "notLoggedIn", "error", "killed"}]
BY DEF TypeOK, End, Goto, Places

\* The token a process acquires is the next one.
LEMMA ObtainsType ==
    ASSUME TypeOK, NEW p \in Procs, Obtains(p)
    PROVE  TypeOK'
<1> USE DEF TypeOK
<1>1. CASE RefreshToken(p)
  <2>1. mem[p] \in Contents /\ mem[p].is = "tokens" /\ mem[p].rt \in live
    BY <1>1 DEF RefreshToken
  <2>2. CASE issued' = issued
    <3>1. mem' = mem /\ live' = live
      BY <1>1, <2>2 DEF RefreshToken
    <3> QED BY <1>1, <2>2, <3>1 DEF RefreshToken, diskVars, histVars
  <2>3. CASE issued' # issued
    <3>1. /\ issued < MaxToken /\ issued' = issued + 1
          /\ live' = (live \ {mem[p].rt}) \cup {issued + 1}
          /\ mem' = [mem EXCEPT ![p].rt = issued + 1]
      BY <1>1, <2>3 DEF RefreshToken
    <3>2. [mem[p] EXCEPT !.rt = issued + 1] = Tokens(mem[p].account, issued + 1)
      <4>1. mem[p] = Tokens(mem[p].account, mem[p].rt)
        BY <2>1, ContentsType
      <4> QED BY <4>1 DEF Tokens
    <3>3. /\ Tokens(mem[p].account, issued + 1) \in Contents
          /\ Tokens(mem[p].account, issued + 1).rt = issued + 1
      <4>1. mem[p].account \in Accounts
        BY <2>1, ContentsType
      <4>2. issued + 1 \in 1..MaxToken
        BY <3>1, MaxTokenAssumption
      <4> HIDE DEF TypeOK
      <4> QED BY <4>1, <4>2, ContentsType
    <3>4. mem' = [mem EXCEPT ![p] = Tokens(mem[p].account, issued + 1)]
      BY <3>1, <3>2
    <3>8. /\ mem \in [Procs -> Contents] /\ issued \in Nat /\ issued' = issued + 1
          /\ \A q \in Procs : mem[q].rt \in Nat /\ mem[q].rt <= issued
      BY <3>1, ContentsType, MaxTokenAssumption
    <3>5. mem' \in [Procs -> Contents] /\ \A q \in Procs : mem'[q].rt <= issued'
      <4> HIDE DEF TypeOK
      <4>1. mem' \in [Procs -> Contents] /\ mem'[p].rt = issued + 1
        BY <3>3, <3>4, <3>8
      <4>2. \A q \in Procs : mem'[q].rt <= issued + 1
        BY <3>4, <3>8, <4>1
      <4> QED BY <3>8, <4>1, <4>2
    <3>6. /\ issued' \in 1..MaxToken
          /\ \A S \in {live', revoked, cut} : S \subseteq 1..issued'
          /\ \A i \in Inodes : node[i].rt <= issued'
      BY <3>1, ContentsType, MaxTokenAssumption
    <3> HIDE DEF TypeOK
    <3>7. /\ saving' = [saving EXCEPT ![p] = "open"]
          /\ refreshed' = [refreshed EXCEPT ![p] = TRUE]
          /\ UNCHANGED <<kind, pc, fd, outcome, used, node, file, tmp, context, rotates,
                         revoked, cut, clash, overlap, mixed>>
      BY <1>1 DEF RefreshToken, diskVars, histVars
    <3> QED BY <3>5, <3>6, <3>7 DEF TypeOK
  <2> QED BY <2>2, <2>3
<1>2. CASE ExchangeAuthorizationCode(p)
  <2>1. CASE issued' = issued
    <3>1. mem' = mem /\ live' = live /\ saving' = saving /\ refreshed' = refreshed
      BY <1>2, <2>1 DEF ExchangeAuthorizationCode
    <3>2. End(p, "error")
      BY <1>2, <2>1 DEF ExchangeAuthorizationCode
    <3> QED BY <1>2, <2>1, <3>1, <3>2 DEF ExchangeAuthorizationCode, diskVars, histVars,
               End, Goto, Places
  <2>2. CASE issued' # issued
    <3>1. PICK a \in Accounts : mem' = [mem EXCEPT ![p] = Tokens(a, issued + 1)]
      BY <1>2, <2>2 DEF ExchangeAuthorizationCode
    <3>2. /\ issued < MaxToken /\ issued' = issued + 1 /\ live' = live \cup {issued + 1}
          /\ saving' = [saving EXCEPT ![p] = "open"]
          /\ refreshed' = [refreshed EXCEPT ![p] = TRUE]
          /\ UNCHANGED <<pc, outcome>>
      BY <1>2, <2>2 DEF ExchangeAuthorizationCode
    <3>3. Tokens(a, issued + 1) \in Contents /\ Tokens(a, issued + 1).rt = issued + 1
      BY <3>2, ContentsType, MaxTokenAssumption
    <3>4. mem' \in [Procs -> Contents] /\ \A q \in Procs : mem'[q].rt <= issued'
      BY <3>1, <3>2, <3>3, ContentsType, MaxTokenAssumption
    <3>5. /\ issued' \in 1..MaxToken
          /\ \A S \in {live', revoked, cut} : S \subseteq 1..issued'
          /\ \A i \in Inodes : node[i].rt <= issued'
      BY <3>2, ContentsType, MaxTokenAssumption
    <3> HIDE DEF TypeOK
    <3>6. UNCHANGED <<kind, fd, used, node, file, tmp, context, rotates, revoked, cut,
                      clash, overlap, mixed>>
      BY <1>2 DEF ExchangeAuthorizationCode, diskVars, histVars
    <3> QED BY <3>2, <3>4, <3>5, <3>6 DEF TypeOK
  <2> QED BY <2>1, <2>2
<1> QED BY <1>1, <1>2 DEF Obtains

LEMMA TypeStep == TypeOK /\ Control /\ [Next]_vars => TypeOK'
<1> SUFFICES ASSUME TypeOK, Control, [Next]_vars PROVE TypeOK'
  OBVIOUS
<1>1. CASE UNCHANGED vars
  BY <1>1 DEF vars, procVars, diskVars, authVars, histVars, TypeOK
<1>2. ASSUME NEW p \in Procs, Step(p) PROVE TypeOK'
  <2>0. \A result \in {"ok", "notLoggedIn", "error"} :
           End(p, result) =>
             /\ pc' \in [Procs -> Places]
             /\ outcome' \in [Procs -> {"none", "ok", "notLoggedIn", "error", "killed"}]
    BY EndType
  <2> USE DEF TypeOK, Goto, Starts, diskVars, authVars, histVars
  <2>1. CASE Begins(p)
    <3>1. mem' \in [Procs -> Contents] /\ \A q \in Procs : mem'[q].rt <= issued
      BY <2>1, OnFileType DEF Begins, AttachCredentials, NotLoggedIn, LoginStart,
                              LogoutStart
    <3>2. CASE AttachCredentials(p)
      BY <3>1, <3>2 DEF AttachCredentials, Places
    <3>5. CASE LoginStart(p)
      BY <3>1, <3>5 DEF LoginStart, Places
    <3>3. CASE NotLoggedIn(p)
      BY <2>0, <3>1, <3>3 DEF NotLoggedIn, Places, Kinds
    <3>4. CASE LogoutStart(p)
      BY <2>0, <3>1, <3>4 DEF LogoutStart, Places
    <3> QED BY <2>1, <3>2, <3>3, <3>4, <3>5 DEF Begins
  <2>2. CASE RefreshFails(p)
    BY <2>0, <2>2 DEF RefreshFails
  <2>3. CASE RequestFails(p) \/ ValidateCredentials(p) \/ CommandQuery(p) \/ SendEvent(p)
    <3>1. CASE RequestFails(p)
      BY <2>0, <3>1 DEF RequestFails
    <3>2. CASE ValidateCredentials(p)
      BY <3>2 DEF Places, ValidateCredentials
    <3>3. CASE CommandQuery(p) \/ SendEvent(p)
      BY <2>0, <3>3 DEF CommandQuery, SendEvent
    <3> QED BY <2>3, <3>1, <3>2, <3>3
  <2>4. CASE UseContext(p)
    BY <2>4 DEF Places, UseContext
  <2>5. CASE FetchAndWriteContext(p)
    <3>1. mem[p].account \in Accounts \cup {NoAccount}
      BY ContentsType
    <3> QED BY <2>0, <2>5, <3>1 DEF Places, FetchAndWriteContext
  <2>6. CASE StartAuthFlow(p) \/ RemoveContext(p)
    <3>1. CASE StartAuthFlow(p)
      BY <2>0, <3>1 DEF Places, StartAuthFlow
    <3>2. CASE RemoveContext(p)
      BY <2>0, <3>2 DEF RemoveContext
    <3> QED BY <2>6, <3>1, <3>2
  <2>7. CASE Revoke(p)
    <3>1. mem[p].rt \in 1..issued
      BY <2>7, ContentsType, MaxTokenAssumption DEF Revoke, Control, ControlOf
    <3> QED BY <2>7, <3>1 DEF Places, Revoke
  <2>8. CASE Obtains(p)
    BY <2>8, ObtainsType
  <2>9. CASE SaveOpen(p)
    <3>1. tmp' \in Inodes
      BY <2>9, FreeIsFree DEF SaveOpen
    <3> QED BY <2>9, <3>1, ContentsType, MaxTokenAssumption DEF SaveOpen
  <2>10. CASE SaveWrite(p)
    <3>1. Bytes("torn") \in Contents /\ Bytes("torn").rt <= issued
      BY ContentsType, MaxTokenAssumption
    <3>2. node' \in [Inodes -> Contents] /\ \A i \in Inodes : node'[i].rt <= issued
      BY <2>10, <3>1 DEF SaveWrite
    <3> QED BY <2>10, <3>2 DEF SaveWrite
  <2>11. CASE SaveRename(p)
    BY <2>11 DEF Places, SaveRename
  <2>12. CASE Removes(p)
    <3>1. Bytes("zeros") \in Contents /\ Bytes("zeros").rt <= issued
      BY ContentsType, MaxTokenAssumption
    <3>2. node' \in [Inodes -> Contents] /\ \A i \in Inodes : node'[i].rt <= issued
      <4>1. CASE SecureZero(p)
        BY <3>1, <4>1 DEF SecureZero
      <4>2. CASE ~SecureZero(p)
        BY <2>12, <4>2 DEF Removes, SecureOpen, SecureRemove, SecureRemoveFails
      <4> QED BY <4>1, <4>2
    <3> QED BY <2>0, <2>12, <3>2 DEF Places, Removes, SecureOpen, SecureZero, SecureRemove,
                               SecureRemoveFails
  <2>13. CASE SaveFails(p)
    BY <2>0, <2>13 DEF SaveFails
  <2>14. CASE Kill(p)
    <3>1. cut' \subseteq 1..issued
      BY <2>14 DEF Kill
    <3> QED BY <2>14, <3>1 DEF Kill, Places
  <2> QED BY <1>2, <2>1, <2>2, <2>3, <2>4, <2>5, <2>6, <2>7, <2>8, <2>9, <2>10, <2>11,
             <2>12, <2>13, <2>14 DEF Step, Requests, Saves, Breaks
<1> QED BY <1>1, <1>2, NextIsStep

LEMMA ControlStep == TypeOK /\ Control /\ [Next]_vars => Control'
<1> SUFFICES ASSUME TypeOK, Control, [Next]_vars PROVE Control'
  OBVIOUS
<1>1. CASE UNCHANGED vars
  BY <1>1 DEF vars, procVars, Control, ControlOf
<1>2. ASSUME NEW p \in Procs, Step(p) PROVE Control'
  <2>1. \A q \in Procs \ {p} : ControlOf(q)'
    BY <1>2, OthersStay DEF Control, ControlOf
  <2>2. SUFFICES ControlOf(p)'
    BY <2>1 DEF Control
  <2>3. ControlOf(p)
    BY DEF Control
  <2> USE DEF TypeOK, ControlOf, Goto, End, Starts
  <2>4. CASE Begins(p)
    BY <2>3, <2>4 DEF Begins, AttachCredentials, NotLoggedIn, LoginStart, LogoutStart
  <2>5. CASE Requests(p)
    BY <2>3, <2>5 DEF Requests, RefreshFails, RequestFails, ValidateCredentials,
       CommandQuery, SendEvent, UseContext, FetchAndWriteContext, StartAuthFlow, Revoke,
       RemoveContext, Querying
  <2>6. CASE RefreshToken(p)
    <3>1. mem[p] \in Contents /\ mem'[p].is = mem[p].is
      <4>1. mem[p] = Tokens(mem[p].account, mem[p].rt)
        BY <2>6, ContentsType DEF RefreshToken
      <4> QED BY <2>6, <4>1 DEF RefreshToken, Tokens
    <3> QED BY <2>3, <2>6, <3>1 DEF RefreshToken, Querying
  <2>7. CASE ExchangeAuthorizationCode(p)
    BY <2>3, <2>7 DEF ExchangeAuthorizationCode, Tokens
  <2>8. CASE Saves(p)
    BY <2>3, <2>8 DEF Saves, SaveOpen, SaveWrite, SaveRename
  <2>9. CASE Removes(p)
    BY <2>3, <2>9 DEF Removes, SecureOpen, SecureZero, SecureRemove, SecureRemoveFails
  <2>10. CASE Breaks(p)
    BY <2>3, <2>10 DEF Breaks, SaveFails, Kill
  <2> QED BY <1>2, <2>4, <2>5, <2>6, <2>7, <2>8, <2>9, <2>10 DEF Step, Obtains
<1> QED BY <1>1, <1>2, NextIsStep

----------------------------------------------------------------------------
(* The files.                                                              *)

FileInv == TypeOK /\ Control /\ TmpApart /\ OneSaver /\ TornNeedsClash

\* Only Saves and Removes touch the two files, and only Begins, Obtains and
\* Saves set a process up to save.
LEMMA DiskStays ==
    ASSUME TypeOK, NEW p \in Procs,
           Begins(p) \/ Requests(p) \/ Obtains(p) \/ Breaks(p) \/ SecureRemoveFails(p)
    PROVE  /\ UNCHANGED <<node, file, tmp, clash>>
           /\ OnFile' = OnFile
           /\ fd'[p] \in {fd[p], 0}
           /\ saving'[p] \in {saving[p], "no", "open"}
           /\ pc'[p] # "zero"
<1> USE DEF TypeOK, Goto, End, Starts, procVars, diskVars, histVars
<1>1. UNCHANGED <<node, file, tmp, clash>>
  BY DEF Begins, AttachCredentials, NotLoggedIn, LoginStart, LogoutStart,
         Requests, RefreshFails, RequestFails, ValidateCredentials, CommandQuery,
         SendEvent, UseContext, FetchAndWriteContext, StartAuthFlow, Revoke,
         RemoveContext, Obtains, RefreshToken, ExchangeAuthorizationCode, Breaks,
         SaveFails, Kill, SecureRemoveFails
<1>2. /\ fd'[p] \in {fd[p], 0}
      /\ saving'[p] \in {saving[p], "no", "open"}
  BY DEF Begins, AttachCredentials, NotLoggedIn, LoginStart, LogoutStart,
         Requests, RefreshFails, RequestFails, ValidateCredentials, CommandQuery,
         SendEvent, UseContext, FetchAndWriteContext, StartAuthFlow, Revoke,
         RemoveContext, Obtains, RefreshToken, ExchangeAuthorizationCode, Breaks,
         SaveFails, Kill, SecureRemoveFails
<1>3. pc'[p] # "zero"
  <2>1. CASE Begins(p)
    BY <2>1 DEF Begins, AttachCredentials, NotLoggedIn, LoginStart, LogoutStart
  <2>2. CASE Requests(p)
    BY <2>2 DEF Requests, RefreshFails, RequestFails, ValidateCredentials, CommandQuery,
       SendEvent, UseContext, FetchAndWriteContext, StartAuthFlow, Revoke, RemoveContext,
       Querying
  <2>3. CASE Obtains(p)
    BY <2>3 DEF Obtains, RefreshToken, ExchangeAuthorizationCode, Querying
  <2>4. CASE Breaks(p) \/ SecureRemoveFails(p)
    BY <2>4 DEF Breaks, SaveFails, Kill, SecureRemoveFails
  <2> QED BY <2>1, <2>2, <2>3, <2>4
<1> QED BY <1>1, <1>2, <1>3 DEF OnFile

LEMMA TmpStep == TypeOK /\ Control /\ TmpApart /\ [Next]_vars => TmpApart'
<1> SUFFICES ASSUME TypeOK, Control, TmpApart, [Next]_vars PROVE TmpApart'
  OBVIOUS
<1>1. CASE UNCHANGED vars
  BY <1>1 DEF vars, procVars, diskVars, TmpApart
<1>2. ASSUME NEW p \in Procs, Step(p) PROVE TmpApart'
  <2>1. \A q \in Procs \ {p} : fd'[q] = fd[q] /\ pc'[q] = pc[q]
    BY <1>2, OthersStay
  <2> USE DEF TmpApart, TypeOK, Goto
  <2>2. CASE Begins(p) \/ Requests(p) \/ Obtains(p) \/ Breaks(p) \/ SecureRemoveFails(p)
    BY <2>1, <2>2, DiskStays
  <2>3. CASE SaveOpen(p)
    <3>1. pc'[p] # "zero"
      BY <2>3 DEF SaveOpen, Control, ControlOf
    <3>2. tmp # 0 => tmp' = tmp /\ file' = file
      BY <2>3 DEF SaveOpen
    <3>3. tmp = 0 => tmp' # file /\ file' = file /\ \A q \in Procs : fd[q] # tmp'
      BY <2>3, FreeIsFree DEF SaveOpen
    <3> QED BY <2>1, <3>1, <3>2, <3>3
  <2>4. CASE SaveWrite(p)
    <3>1. pc'[p] # "zero"
      BY <2>4 DEF SaveWrite, Control, ControlOf
    <3> QED BY <2>1, <2>4, <3>1 DEF SaveWrite
  <2>5. CASE SaveRename(p)
    BY <2>5 DEF SaveRename
  <2>6. CASE SecureOpen(p) \/ SecureZero(p) \/ SecureRemove(p)
    BY <2>1, <2>6 DEF SecureOpen, SecureZero, SecureRemove, diskVars
  <2> QED BY <1>2, <2>2, <2>3, <2>4, <2>5, <2>6 DEF Step, Saves, Removes
<1> QED BY <1>1, <1>2, NextIsStep

LEMMA SaverStep == TypeOK /\ Control /\ TmpApart /\ OneSaver /\ [Next]_vars => OneSaver'
<1> SUFFICES ASSUME TypeOK, Control, TmpApart, OneSaver, [Next]_vars, ~clash'
             PROVE  OneSaver'
  BY DEF OneSaver
<1>1. CASE UNCHANGED vars
  BY <1>1 DEF vars, procVars, diskVars, histVars, OneSaver, Saving
<1>2. ASSUME NEW p \in Procs, Step(p) PROVE OneSaver'
  <2>1. \A q \in Procs \ {p} : /\ fd'[q] = fd[q] /\ saving'[q] = saving[q]
                               /\ mem'[q] = mem[q]
    BY <1>2, OthersStay
  <2>2. ~clash
    <3>1. clash => clash'
      BY <1>2, DiskStays DEF Step, Saves, SaveOpen, SaveWrite, SaveRename, Removes,
         SecureOpen, SecureZero, SecureRemove, histVars
    <3> QED BY <3>1
  <2> USE DEF OneSaver, Saving, TypeOK
  <2>3. CASE Begins(p) \/ Requests(p) \/ Obtains(p) \/ Breaks(p) \/ SecureRemoveFails(p)
    <3>1. saving'[p] \in {"write", "rename"} =>
            saving'[p] = saving[p] /\ mem'[p] = mem[p] /\ fd'[p] = fd[p]
      <4>1. CASE saving[p] = "no"
        BY <2>3, <4>1, DiskStays
      <4>2. CASE Begins(p)
        BY <4>2 DEF Begins, AttachCredentials, NotLoggedIn, LoginStart, LogoutStart,
           Starts, Control, ControlOf
      <4>3. CASE Requests(p) \/ SecureRemoveFails(p)
        BY <4>3 DEF Requests, RefreshFails, RequestFails, ValidateCredentials,
           CommandQuery, SendEvent, UseContext, FetchAndWriteContext, StartAuthFlow,
           Revoke, RemoveContext, SecureRemoveFails, Control, ControlOf
      <4>4. CASE Obtains(p)
        BY <4>4 DEF Obtains, RefreshToken, ExchangeAuthorizationCode, Querying
      <4>5. CASE Breaks(p)
        BY <4>5 DEF Breaks, SaveFails, Kill
      <4> QED BY <2>3, <4>1, <4>2, <4>3, <4>4, <4>5
    <3>2. UNCHANGED <<node, tmp>>
      BY <2>3, DiskStays
    <3> QED BY <2>1, <2>2, <3>1, <3>2
  <2>4. CASE SaveOpen(p)
    <3>1. \A q \in Procs : saving[q] \notin {"write", "rename"}
      BY <2>4 DEF SaveOpen
    <3>2. \A q \in Procs \ {p} : saving'[q] \notin {"write", "rename"}
      BY <2>1, <3>1
    <3>3. tmp' \in Inodes
      BY <2>4, FreeIsFree DEF SaveOpen
    <3>4. /\ saving'[p] = "write" /\ fd'[p] = tmp' /\ node'[tmp'] = Nothing
          /\ tmp' # 0
      BY <2>4, <3>3 DEF SaveOpen, Inodes
    <3> QED BY <3>2, <3>4
  <2>5. CASE SaveWrite(p)
    <3>1. tmp # 0 /\ fd[p] = tmp /\ node[tmp] = Nothing /\ tmp \in Inodes
      BY <2>2, <2>5 DEF SaveWrite
    <3>2. node' = [node EXCEPT ![tmp] = mem[p]] /\ tmp' = tmp /\ mem' = mem
      BY <2>5, <3>1 DEF SaveWrite
    <3>3. saving'[p] = "rename" /\ node'[tmp'] = mem'[p]
      BY <2>5, <3>1, <3>2 DEF SaveWrite
    <3>4. \A q \in Procs \ {p} : saving'[q] \notin {"write", "rename"}
      BY <2>1, <2>2, <2>5 DEF SaveWrite
    <3> QED BY <3>1, <3>2, <3>3, <3>4
  <2>6. CASE SaveRename(p)
    <3>1. \A q \in Procs : saving'[q] \notin {"write", "rename"}
      BY <2>1, <2>2, <2>6 DEF SaveRename
    <3> QED BY <3>1
  <2>7. CASE SecureOpen(p) \/ SecureZero(p) \/ SecureRemove(p)
    <3>1. saving[p] = "no" /\ saving' = saving /\ tmp' = tmp /\ mem' = mem
      BY <2>7 DEF SecureOpen, SecureZero, SecureRemove, diskVars, Control, ControlOf
    <3>2. tmp # 0 => node'[tmp] = node[tmp]
      BY <2>7 DEF SecureOpen, SecureZero, SecureRemove, diskVars, TmpApart
    <3> QED BY <2>1, <2>2, <3>1, <3>2
  <2> QED BY <1>2, <2>3, <2>4, <2>5, <2>6, <2>7 DEF Step, Saves, Removes
<1> QED BY <1>1, <1>2, NextIsStep

\* What a step makes of cre.yaml as long as nobody clashed: nothing, the tokens
\* of the process that saves, or no tokens at all.
LEMMA FileChange ==
    ASSUME TypeOK, Control, TmpApart, OneSaver, ~clash, NEW p \in Procs, Step(p)
    PROVE  \/ file' = file /\ OnFile' = OnFile
           \/ /\ SaveRename(p) /\ file' # 0 /\ OnFile' = mem[p] /\ mem[p].is = "tokens"
           \/ /\ SecureZero(p) \/ SecureRemove(p)
              /\ file' \in {0, file}
              /\ OnFile'.is \in {"empty", "zeros"}
              /\ file' # 0 => OnFile'.is = "zeros"
<1> USE DEF TypeOK, OnFile
<1>1. CASE Begins(p) \/ Requests(p) \/ Obtains(p) \/ Breaks(p) \/ SecureRemoveFails(p)
  BY <1>1, DiskStays
<1>2. CASE SaveOpen(p)
  <2>1. tmp' # file
    BY <1>2, FreeIsFree DEF SaveOpen, TmpApart
  <2> QED BY <1>2, <2>1 DEF SaveOpen
<1>3. CASE SaveWrite(p)
  <2>1. fd[p] = tmp /\ tmp # 0
    BY <1>3 DEF SaveWrite, OneSaver
  <2> QED BY <1>3, <2>1 DEF SaveWrite, TmpApart
<1>4. CASE SaveRename(p)
  <2>1. tmp # 0 /\ node[tmp] = mem[p] /\ mem[p].is = "tokens"
    BY <1>4 DEF SaveRename, OneSaver, Control, ControlOf
  <2> QED BY <1>4, <2>1 DEF SaveRename
<1>5. CASE SecureOpen(p)
  BY <1>5 DEF SecureOpen, diskVars
<1>6. CASE SecureZero(p)
  <2>1. \/ file = 0 \/ node'[file] = node[file] \/ node'[file] = Bytes("zeros")
    BY <1>6 DEF SecureZero
  <2> QED BY <1>6, <2>1, ContentsType DEF SecureZero
<1>7. CASE SecureRemove(p)
  BY <1>7, ContentsType DEF SecureRemove
<1> QED BY <1>1, <1>2, <1>3, <1>4, <1>5, <1>6, <1>7 DEF Step, Saves, Removes

LEMMA ClashStays == TypeOK /\ clash /\ [Next]_vars => clash'
<1> SUFFICES ASSUME TypeOK, clash, [Next]_vars PROVE clash'
  OBVIOUS
<1>1. ASSUME NEW p \in Procs, Step(p) PROVE clash'
  BY <1>1, DiskStays DEF Step, Saves, SaveOpen, SaveWrite, SaveRename, Removes,
     SecureOpen, SecureZero, SecureRemove, histVars
<1>2. CASE UNCHANGED vars
  BY <1>2 DEF vars, histVars
<1> QED BY <1>1, <1>2, NextIsStep

LEMMA FileInit == Init => FileInv
<1> SUFFICES ASSUME Init PROVE FileInv
  OBVIOUS
<1>1. TypeOK
  BY TypeInit
<1>2. Control
  BY ContentsType DEF Init, Control, ControlOf, Nothing, Bytes
<1>3. TmpApart /\ OneSaver
  BY DEF Init, TmpApart, OneSaver, Saving
<1>4. TornNeedsClash
  <2>1. 1 \in Inodes
    BY ProcsAssumption, FS_CardinalityType DEF Inodes
  <2> QED BY <2>1 DEF Init, TornNeedsClash, Tokens
<1> QED BY <1>1, <1>2, <1>3, <1>4 DEF FileInv

LEMMA FileStep == FileInv /\ [Next]_vars => FileInv'
<1> SUFFICES ASSUME FileInv, [Next]_vars PROVE FileInv'
  OBVIOUS
<1>1. TypeOK' /\ Control' /\ TmpApart' /\ OneSaver'
  BY TypeStep, ControlStep, TmpStep, SaverStep DEF FileInv
<1>2. TornNeedsClash'
  <2>1. CASE clash
    BY <2>1, ClashStays DEF FileInv, TornNeedsClash
  <2>2. ASSUME ~clash, NEW p \in Procs, Step(p) PROVE TornNeedsClash'
    BY <2>2, FileChange DEF FileInv, TornNeedsClash, OnFile
  <2>3. CASE UNCHANGED vars
    BY <2>3 DEF vars, diskVars, histVars, FileInv, TornNeedsClash
  <2> QED BY <2>1, <2>2, <2>3, NextIsStep
<1> QED BY <1>1, <1>2 DEF FileInv

LEMMA FileInvariant == Spec => []FileInv
BY FileInit, FileStep, PTL DEF Spec

----------------------------------------------------------------------------
(* The tokens.                                                             *)

TokenInv == FileInv /\ OneAccount /\ SavedWorks /\ UnrotatedWork /\ SessionSurvives

\* What a step makes of the tokens its process holds: it keeps them, takes those
\* on disk, or gets ones with a number nobody has seen, for the same account
\* when it is a refresh.
LEMMA MemChange ==
    ASSUME TypeOK, Control, NEW p \in Procs, Step(p)
    PROVE  \/ mem'[p] = mem[p]
           \/ mem'[p] = OnFile /\ Begins(p) /\ saving'[p] = "no" /\ OnFile.is = "tokens"
           \/ /\ Obtains(p) /\ saving'[p] = "open" /\ issued' = issued + 1
              /\ mem'[p].is = "tokens" /\ mem'[p].rt = issued + 1 /\ issued + 1 \in live'
              /\ RefreshToken(p) => mem'[p].account = mem[p].account
<1> USE DEF TypeOK, Goto, End, Starts, procVars
<1>1. CASE Begins(p)
  <2>1. saving'[p] = "no"
    BY <1>1 DEF Begins, AttachCredentials, NotLoggedIn, LoginStart, LogoutStart, Control,
                ControlOf
  <2> QED BY <1>1, <2>1 DEF Begins, AttachCredentials, NotLoggedIn, LoginStart, LogoutStart
<1>2. CASE Requests(p) \/ Removes(p) \/ Saves(p) \/ Breaks(p)
  BY <1>2 DEF Requests, RefreshFails, RequestFails, ValidateCredentials, CommandQuery,
     SendEvent, UseContext, FetchAndWriteContext, StartAuthFlow, Revoke, RemoveContext,
     Removes, SecureOpen, SecureZero, SecureRemove, SecureRemoveFails, Saves, SaveOpen,
     SaveWrite, SaveRename, Breaks, SaveFails, Kill
<1>3. CASE RefreshToken(p)
  <2>1. mem[p] = Tokens(mem[p].account, mem[p].rt)
    BY <1>3, ContentsType DEF RefreshToken
  <2>2. CASE issued' = issued
    BY <1>3, <2>2 DEF RefreshToken
  <2>3. CASE issued' # issued
    <3>1. /\ mem' = [mem EXCEPT ![p].rt = issued + 1] /\ issued' = issued + 1
          /\ live' = (live \ {mem[p].rt}) \cup {issued + 1}
          /\ saving'[p] = "open"
      BY <1>3, <2>3 DEF RefreshToken
    <3>2. mem'[p] = Tokens(mem[p].account, issued + 1)
      BY <2>1, <3>1 DEF Tokens
    <3> QED BY <1>3, <3>1, <3>2 DEF Tokens, Obtains
  <2> QED BY <2>2, <2>3
<1>4. CASE ExchangeAuthorizationCode(p)
  <2>1. CASE issued' = issued
    BY <1>4, <2>1 DEF ExchangeAuthorizationCode
  <2>2. CASE issued' # issued
    <3>1. PICK a \in Accounts : mem' = [mem EXCEPT ![p] = Tokens(a, issued + 1)]
      BY <1>4, <2>2 DEF ExchangeAuthorizationCode
    <3>2. issued' = issued + 1 /\ live' = live \cup {issued + 1} /\ saving'[p] = "open"
      BY <1>4, <2>2 DEF ExchangeAuthorizationCode
    <3> QED BY <1>4, <3>1, <3>2 DEF Tokens, Obtains, RefreshToken, Querying,
                  ExchangeAuthorizationCode
  <2> QED BY <2>1, <2>2
<1> QED BY <1>1, <1>2, <1>3, <1>4 DEF Step, Obtains

\* What a step makes of the tokens the server accepts: those it drops were
\* revoked, are known to be lost, or were the refreshing process's own.
LEMMA GoodStays ==
    ASSUME TypeOK, NEW p \in Procs, Step(p)
    PROVE  /\ rotates' = rotates
           /\ revoked \subseteq revoked' /\ cut \subseteq cut'
           /\ issued' \in {issued, issued + 1}
           /\ \/ Good \subseteq Good'
              \/ /\ RefreshToken(p) /\ rotates /\ saving[p] = "no" /\ saving'[p] = "open"
                 /\ mem[p].is = "tokens"
                 /\ Good \ {mem[p].rt} \subseteq Good'
<1> USE DEF TypeOK, Goto, End, Starts, authVars, Good
<1>1. CASE Begins(p) \/ Removes(p) \/ Saves(p)
  BY <1>1 DEF Begins, AttachCredentials, NotLoggedIn, LoginStart, LogoutStart, Removes,
     SecureOpen, SecureZero, SecureRemove, SecureRemoveFails, Saves, SaveOpen, SaveWrite,
     SaveRename
<1>2. CASE Requests(p)
  <2>1. CASE RefreshFails(p)
    BY <2>1 DEF RefreshFails
  <2>2. CASE Revoke(p)
    BY <2>2 DEF Revoke
  <2>3. CASE ~RefreshFails(p) /\ ~Revoke(p)
    BY <1>2, <2>3 DEF Requests, RequestFails, ValidateCredentials, CommandQuery,
       SendEvent, UseContext, FetchAndWriteContext, StartAuthFlow, RemoveContext
  <2> QED BY <2>1, <2>2, <2>3
<1>3. CASE RefreshToken(p)
  BY <1>3 DEF RefreshToken, Querying
<1>4. CASE ExchangeAuthorizationCode(p)
  BY <1>4 DEF ExchangeAuthorizationCode
<1>5. CASE Breaks(p)
  BY <1>5 DEF Breaks, SaveFails, Kill
<1> QED BY <1>1, <1>2, <1>3, <1>4, <1>5 DEF Step, Obtains

\* A process that stops saving without the rename leaves no dead token unknown.
LEMMA LostIsKnown ==
    ASSUME TypeOK, NEW p \in Procs, Step(p), saving[p] # "no", saving'[p] = "no",
           ~SaveRename(p), Control
    PROVE  1..issued \subseteq Good' /\ issued' = issued
<1> USE DEF TypeOK, authVars, Good, Goto, Starts, End
<1>1. CASE Breaks(p)
  BY <1>1 DEF Breaks, SaveFails, Kill
<1>2. CASE ~Breaks(p)
  BY <1>2 DEF Step, Begins, AttachCredentials, NotLoggedIn, LoginStart, LogoutStart,
     Requests, RefreshFails, RequestFails, ValidateCredentials, CommandQuery,
     SendEvent, UseContext, FetchAndWriteContext, StartAuthFlow, Revoke,
     RemoveContext, Obtains, RefreshToken, ExchangeAuthorizationCode, Saves, SaveOpen,
     SaveWrite, Removes, SecureOpen, SecureZero, SecureRemove, SecureRemoveFails
<1> QED BY <1>1, <1>2

\* Who saves: a process starts to with tokens it obtained just now, and keeps
\* its tokens and the file while it does.
LEMMA SavingChange ==
    ASSUME TypeOK, Control, NEW p \in Procs, Step(p), saving'[p] # "no"
    PROVE  \/ saving[p] # "no" /\ mem'[p] = mem[p] /\ Good \subseteq Good'
           \/ /\ saving[p] = "no" /\ Obtains(p)
              /\ mem'[p] = mem[p] => ~rotates /\ mem[p].rt \in live'
<1> USE DEF TypeOK, Goto, Starts, End
<1>1. CASE saving[p] # "no"
  <2>1. ~Obtains(p) /\ ~RefreshToken(p)
    BY <1>1 DEF Obtains, RefreshToken, ExchangeAuthorizationCode, Querying
  <2> QED BY <1>1, <2>1, MemChange, GoodStays
<1>2. CASE saving[p] = "no"
  <2>1. Obtains(p)
    BY <1>2 DEF Step, Begins, AttachCredentials, NotLoggedIn, LoginStart, LogoutStart,
       Requests, RefreshFails, RequestFails, ValidateCredentials, CommandQuery,
       SendEvent, UseContext, FetchAndWriteContext, StartAuthFlow, Revoke,
       RemoveContext, Saves, SaveOpen, SaveWrite, SaveRename, Removes, SecureOpen,
       SecureZero, SecureRemove, SecureRemoveFails, Breaks, SaveFails, Kill
  <2>2. CASE RefreshToken(p)
    <3>1. CASE ~rotates /\ UNCHANGED <<mem, live, issued>>
      BY <1>2, <2>1, <2>2, <3>1 DEF RefreshToken
    <3>2. CASE issued' # issued
      <4>1. mem'[p] = [mem[p] EXCEPT !.rt = issued + 1]
        BY <2>2, <3>2 DEF RefreshToken
      <4>2. mem[p] = Tokens(mem[p].account, mem[p].rt) /\ mem[p].rt <= issued
        BY <2>2, ContentsType DEF RefreshToken
      <4>3. mem'[p].rt = issued + 1
        BY <4>1, <4>2 DEF Tokens
      <4> QED BY <1>2, <2>1, <4>2, <4>3, MaxTokenAssumption
    <3>3. issued' = issued => ~rotates /\ UNCHANGED <<mem, live, issued>>
      BY <2>2, MaxTokenAssumption DEF RefreshToken
    <3> QED BY <3>1, <3>2, <3>3
  <2>3. CASE ExchangeAuthorizationCode(p)
    <3>1. PICK a \in Accounts : mem' = [mem EXCEPT ![p] = Tokens(a, issued + 1)]
      BY <1>2, <2>3 DEF ExchangeAuthorizationCode
    <3>2. mem'[p].rt = issued + 1 /\ mem[p].rt <= issued
      BY <3>1 DEF Tokens
    <3> QED BY <1>2, <2>1, <3>2, MaxTokenAssumption
  <2> QED BY <2>1, <2>2, <2>3 DEF Obtains
<1> QED BY <1>1, <1>2

LEMMA RenameChange ==
    ASSUME TypeOK, Control, OneSaver, ~clash, NEW p \in Procs, SaveRename(p)
    PROVE  OnFile' = mem[p] /\ mem[p].is = "tokens" /\ mem' = mem /\ saving[p] # "no"
<1>1. tmp # 0 /\ node[tmp] = mem[p] /\ mem[p].is = "tokens"
  BY DEF SaveRename, OneSaver, Control, ControlOf
<1> QED BY <1>1 DEF SaveRename, OnFile

LEMMA OneAccountStep == FileInv /\ OneAccount /\ [Next]_vars => OneAccount'
<1> SUFFICES ASSUME FileInv, OneAccount, [Next]_vars, ~clash' PROVE OneAccount'
  BY DEF OneAccount
<1>1. ~clash
  BY ClashStays DEF FileInv
<1>2. CASE UNCHANGED vars
  BY <1>2 DEF vars, procVars, diskVars, histVars, OneAccount, OnFile
<1>3. ASSUME NEW p \in Procs, Step(p) PROVE OneAccount'
  <2>1. \A q \in Procs \ {p} : mem'[q] = mem[q]
    BY <1>3, OthersStay DEF FileInv
  <2>2. /\ issued \in Nat /\ OnFile.rt \in Nat /\ OnFile.rt <= issued
        /\ \A q \in Procs : mem[q].rt \in Nat /\ mem[q].rt <= issued
    BY OnFileType, ContentsType, MaxTokenAssumption DEF FileInv, TypeOK
  <2>3. CASE mem'[p] = mem[p]
    BY <1>1, <1>3, <2>1, <2>3, FileChange DEF FileInv, OneAccount
  <2>4. CASE mem'[p] = OnFile /\ Begins(p)
    <3>1. OnFile' = OnFile
      BY <2>4, DiskStays DEF FileInv
    <3> QED BY <1>1, <2>1, <2>4, <3>1 DEF OneAccount
  <2>5. CASE Obtains(p) /\ mem'[p].rt = issued + 1
    <3>1. OnFile' = OnFile
      BY <2>5, DiskStays DEF FileInv
    <3> QED BY <1>1, <2>1, <2>2, <2>5, <3>1 DEF OneAccount
  <2> QED BY <1>3, <2>3, <2>4, <2>5, MemChange DEF FileInv
<1> QED BY <1>2, <1>3, NextIsStep

LEMMA SavedWorksStep == FileInv /\ SavedWorks /\ [Next]_vars => SavedWorks'
<1> SUFFICES ASSUME FileInv, SavedWorks, [Next]_vars, ~clash' PROVE SavedWorks'
  BY DEF SavedWorks
<1>1. ~clash
  BY ClashStays DEF FileInv
<1>2. CASE UNCHANGED vars
  BY <1>2 DEF vars, procVars, diskVars, histVars, authVars, SavedWorks, OnFile, Good
<1>3. ASSUME NEW p \in Procs, Step(p) PROVE SavedWorks'
  <2>1. \A q \in Procs \ {p} : mem'[q] = mem[q] /\ saving'[q] = saving[q]
    BY <1>3, OthersStay DEF FileInv
  <2>2. /\ issued \in Nat /\ OnFile.rt \in Nat /\ OnFile.rt <= issued
        /\ \A q \in Procs : mem[q].rt \in Nat /\ mem[q].rt <= issued
    BY OnFileType, ContentsType, MaxTokenAssumption DEF FileInv, TypeOK
  <2>3. rotates' = rotates
    BY <1>3, GoodStays DEF FileInv
  <2>4. ASSUME NEW q \in Procs \ {p}, saving'[q] # "no"
        PROVE  /\ mem'[q].rt \in Good'
               /\ rotates' => /\ OnFile'.rt # mem'[q].rt
                              /\ \A r \in Procs \ {q} : mem'[r].rt # mem'[q].rt
    <3>1. /\ saving[q] # "no" /\ mem'[q] = mem[q] /\ mem[q].rt \in Good
          /\ rotates => /\ OnFile.rt # mem[q].rt
                        /\ \A r \in Procs \ {q} : mem[r].rt # mem[q].rt
      BY <1>1, <2>1, <2>4 DEF SavedWorks
    <3>2. mem'[q].rt \in Good'
      BY <1>3, <3>1, GoodStays DEF FileInv
    <3>3. mem[q].rt # 0 /\ mem[q].rt # issued + 1
      BY <2>2, <3>1, ContentsType DEF FileInv, TypeOK, Control, ControlOf
    <3>4. OnFile'.rt \in {OnFile.rt, mem[p].rt, 0}
      <4>1. OnFile' \in Contents
        BY TypeStep, OnFileType, ContentsType DEF FileInv, OnFile, TypeOK
      <4> QED BY <1>1, <1>3, <4>1, FileChange, ContentsType DEF FileInv
    <3>5. mem'[p].rt \in {OnFile.rt, mem[p].rt, issued + 1}
      BY <1>3, MemChange DEF FileInv
    <3> QED BY <2>1, <2>3, <3>1, <3>2, <3>3, <3>4, <3>5
  <2>5. ASSUME saving'[p] # "no"
        PROVE  /\ mem'[p].rt \in Good'
               /\ rotates' => /\ OnFile'.rt # mem'[p].rt
                              /\ \A r \in Procs \ {p} : mem'[r].rt # mem'[p].rt
    <3>1. CASE saving[p] # "no" /\ mem'[p] = mem[p] /\ Good \subseteq Good'
      <4>1. ~SaveRename(p) /\ ~SecureZero(p) /\ ~SecureRemove(p)
        BY <2>5, <3>1 DEF SaveRename, SecureZero, SecureRemove, FileInv, TypeOK, Control,
                          ControlOf
      <4>2. OnFile' = OnFile
        BY <1>1, <1>3, <4>1, FileChange DEF FileInv
      <4> QED BY <1>1, <2>1, <2>3, <3>1, <4>2 DEF SavedWorks
    <3>2. CASE Obtains(p)
      <4>1. OnFile' = OnFile
        BY <3>2, DiskStays DEF FileInv
      <4>2. CASE mem'[p] = mem[p]
        <5>1. (~rotates /\ mem[p].rt \in live') \/ (saving[p] # "no" /\ Good \subseteq Good')
          BY <1>3, <2>5, <4>2, SavingChange DEF FileInv
        <5> QED BY <2>3, <4>2, <5>1, <3>1 DEF Good
      <4>3. CASE mem'[p].rt = issued + 1 /\ issued + 1 \in live'
        BY <2>1, <2>2, <4>1, <4>3 DEF Good
      <4> QED BY <1>3, <2>5, <4>2, <4>3, MemChange DEF FileInv
    <3> QED BY <1>3, <2>5, <3>1, <3>2, SavingChange DEF FileInv
  <2> QED BY <2>4, <2>5 DEF SavedWorks
<1> QED BY <1>2, <1>3, NextIsStep

LEMMA UnrotatedStep == FileInv /\ UnrotatedWork /\ [Next]_vars => UnrotatedWork'
<1> SUFFICES ASSUME FileInv, UnrotatedWork, [Next]_vars, ~clash', ~rotates'
             PROVE  UnrotatedWork'
  BY DEF UnrotatedWork
<1>1. ~clash
  BY ClashStays DEF FileInv
<1>2. CASE UNCHANGED vars
  BY <1>2 DEF vars, procVars, diskVars, histVars, authVars, UnrotatedWork, OnFile, Good
<1>3. ASSUME NEW p \in Procs, Step(p) PROVE UnrotatedWork'
  <2>1. \A q \in Procs \ {p} : mem'[q] = mem[q]
    BY <1>3, OthersStay DEF FileInv
  <2>2. ~rotates /\ Good \subseteq Good'
    BY <1>3, GoodStays DEF FileInv
  <2>3. mem'[p].is = "tokens" => mem'[p].rt \in Good'
    <3>1. issued + 1 \in live' => issued + 1 \in Good'
      BY DEF Good
    <3> QED BY <1>1, <1>3, <2>2, <3>1, MemChange DEF FileInv, UnrotatedWork
  <2>4. OnFile'.is = "tokens" => OnFile'.rt \in Good'
    BY <1>1, <1>3, <2>2, FileChange DEF FileInv, UnrotatedWork
  <2> QED BY <1>1, <2>1, <2>2, <2>3, <2>4 DEF UnrotatedWork
<1> QED BY <1>2, <1>3, NextIsStep

LEMMA SessionStep == TokenInv /\ [Next]_vars => SessionSurvives'
<1> SUFFICES ASSUME TokenInv, [Next]_vars, ~clash', OnFile'.is = "tokens",
                    OnFile'.rt \notin Good'
             PROVE  \E p \in Procs : saving'[p] # "no" /\ mem'[p].account = OnFile'.account
  BY DEF SessionSurvives, Good
<1> USE DEF TokenInv
<1>1. ~clash
  BY ClashStays DEF FileInv
<1>2. CASE UNCHANGED vars
  BY <1>1, <1>2 DEF vars, procVars, diskVars, authVars, SessionSurvives, OnFile, Good
<1>3. ASSUME NEW p \in Procs, Step(p)
      PROVE  \E q \in Procs : saving'[q] # "no" /\ mem'[q].account = OnFile'.account
  <2>1. \A q \in Procs \ {p} : mem'[q] = mem[q] /\ saving'[q] = saving[q]
    BY <1>3, OthersStay DEF FileInv
  <2>2. ~SaveRename(p)
    <3>1. SUFFICES ASSUME SaveRename(p) PROVE FALSE
      OBVIOUS
    <3>2. OnFile' = mem[p] /\ saving[p] # "no"
      BY <1>1, <3>1, RenameChange DEF FileInv
    <3>3. mem[p].rt \in Good
      BY <1>1, <3>2 DEF SavedWorks
    <3> QED BY <1>3, <3>2, <3>3, GoodStays DEF FileInv
  <2>3. OnFile' = OnFile
    BY <1>1, <1>3, <2>2, FileChange DEF FileInv
  <2>4. CASE OnFile.rt \in Good
    <3>1. /\ RefreshToken(p) /\ saving'[p] = "open"
          /\ mem[p].is = "tokens" /\ mem[p].rt = OnFile.rt
      BY <1>3, <2>3, <2>4, GoodStays DEF FileInv
    <3>2. mem[p].account = OnFile.account
      BY <1>1, <2>3, <3>1 DEF OneAccount
    <3>3. mem'[p].account = mem[p].account
      BY <1>3, <3>1, MemChange DEF FileInv
    <3> QED BY <2>3, <3>1, <3>2, <3>3
  <2>5. CASE OnFile.rt \notin Good
    <3>1. PICK q \in Procs : saving[q] # "no" /\ mem[q].account = OnFile.account
      BY <1>1, <2>3, <2>5 DEF SessionSurvives, Good
    <3>2. CASE q # p
      BY <2>1, <2>3, <3>1, <3>2
    <3>3. CASE q = p /\ saving'[p] # "no"
      <4>1. mem'[p] = mem[p]
        BY <1>3, <3>1, <3>3, SavingChange DEF FileInv
      <4> QED BY <2>3, <3>1, <3>3, <4>1
    <3>4. CASE q = p /\ saving'[p] = "no"
      <4>1. 1..issued \subseteq Good'
        BY <1>3, <2>2, <3>1, <3>4, LostIsKnown DEF FileInv
      <4>2. OnFile.rt \in 1..issued
        BY <2>3, OnFileType, ContentsType, MaxTokenAssumption DEF FileInv, TypeOK
      <4> QED BY <2>3, <4>1, <4>2
    <3> QED BY <3>2, <3>3, <3>4
  <2> QED BY <2>4, <2>5
<1> QED BY <1>2, <1>3, NextIsStep

LEMMA TokenInit == Init => TokenInv
<1> SUFFICES ASSUME Init PROVE TokenInv
  OBVIOUS
<1>1. FileInv
  BY FileInit
<1>2. OnFile.is = "tokens" => OnFile.rt = 1
  <2>1. 1 \in Inodes
    BY ProcsAssumption, FS_CardinalityType DEF Inodes
  <2> QED BY <2>1, ContentsType DEF Init, OnFile, Tokens
<1>3. /\ 1 \in Good
      /\ \A p \in Procs : mem[p].is # "tokens" /\ saving[p] = "no"
  BY ContentsType DEF Init, Good
<1>4. OneAccount /\ SavedWorks /\ UnrotatedWork
  BY <1>2, <1>3 DEF OneAccount, SavedWorks, UnrotatedWork
<1>5. SessionSurvives
  BY <1>2, <1>3 DEF SessionSurvives, Good
<1> QED BY <1>1, <1>4, <1>5 DEF TokenInv

LEMMA TokenInvariant == Spec => []TokenInv
<1>1. TokenInv /\ [Next]_vars => TokenInv'
  BY FileStep, OneAccountStep, SavedWorksStep, UnrotatedStep, SessionStep DEF TokenInv
<1> QED BY <1>1, TokenInit, PTL DEF Spec

----------------------------------------------------------------------------
(* Processes one at a time.                                                *)

ContextInv == FileInv /\ OneRunning /\ ContextInStep /\ ContextOfAccount /\ Cleared

LEMMA OverlapStays ==
    ASSUME TypeOK, [Next]_vars
    PROVE  (overlap => overlap') /\ (mixed => mixed')
<1>1. CASE UNCHANGED vars
  BY <1>1 DEF vars, histVars
<1>2. ASSUME NEW p \in Procs, Step(p) PROVE (overlap => overlap') /\ (mixed => mixed')
  <2> USE DEF TypeOK, Starts, histVars
  <2>1. CASE Begins(p)
    BY <2>1 DEF Begins, AttachCredentials, NotLoggedIn, LoginStart, LogoutStart
  <2>2. CASE Requests(p)
    BY <2>2 DEF Requests, RefreshFails, RequestFails, ValidateCredentials, CommandQuery,
       SendEvent, UseContext, FetchAndWriteContext, StartAuthFlow, Revoke, RemoveContext
  <2>3. CASE Obtains(p) \/ Saves(p)
    BY <2>3 DEF Obtains, RefreshToken, ExchangeAuthorizationCode, Saves, SaveOpen,
       SaveWrite, SaveRename
  <2>4. CASE Removes(p) \/ Breaks(p)
    BY <2>4 DEF Removes, SecureOpen, SecureZero, SecureRemove, SecureRemoveFails,
       Breaks, SaveFails, Kill
  <2> QED BY <1>2, <2>1, <2>2, <2>3, <2>4 DEF Step
<1> QED BY <1>1, <1>2, NextIsStep

\* Whoever steps without an overlap is the only one running, before and after.
LEMMA Alone ==
    ASSUME TypeOK, Control, OneRunning, ~overlap', ~overlap, NEW p \in Procs, Step(p)
    PROVE  \A q \in Procs \ {p} : ~Running(q) /\ ~Running(q)'
<1> USE DEF Running
<1>1. CASE Begins(p)
  <2>1. \A q \in Procs : ~Running(q)
    BY <1>1 DEF Begins, AttachCredentials, NotLoggedIn, LoginStart, LogoutStart, Starts
  <2> QED BY <2>1, OthersStay
<1>2. CASE ~Begins(p)
  <2>1. Running(p)
    BY <1>2 DEF Step, Requests, RefreshFails, RequestFails, ValidateCredentials,
       CommandQuery, SendEvent, UseContext, FetchAndWriteContext, StartAuthFlow, Revoke,
       RemoveContext, Obtains, RefreshToken, ExchangeAuthorizationCode, Querying, Saves,
       SaveOpen, SaveWrite, SaveRename, Removes, SecureOpen, SecureZero, SecureRemove,
       SecureRemoveFails, Breaks, SaveFails, Kill, Control, ControlOf
  <2> QED BY <2>1, OthersStay DEF OneRunning
<1> QED BY <1>1, <1>2

LEMMA OneRunningStep == FileInv /\ OneRunning /\ [Next]_vars => OneRunning'
<1> SUFFICES ASSUME FileInv, OneRunning, [Next]_vars PROVE OneRunning'
  OBVIOUS
<1>1. CASE UNCHANGED vars
  BY <1>1 DEF vars, procVars, histVars, OneRunning, Running
<1>2. ASSUME NEW p \in Procs, Step(p) PROVE OneRunning'
  <2>1. overlap => overlap'
    BY OverlapStays DEF FileInv
  <2>2. clash' => overlap'
    <3>1. CASE SaveOpen(p)
      <4>1. SUFFICES ASSUME NEW q \in Procs, Saving(q), ~overlap PROVE FALSE
        BY <2>1, <3>1 DEF SaveOpen, OneRunning
      <4>2. q # p /\ Running(q) /\ Running(p)
        BY <3>1, <4>1 DEF SaveOpen, Saving, Running, FileInv, Control, ControlOf
      <4> QED BY <4>1, <4>2 DEF OneRunning
    <3>2. CASE ~SaveOpen(p)
      <4>1. clash' = clash
        BY <1>2, <3>2, DiskStays DEF FileInv, Step, Saves, SaveWrite, SaveRename, Removes,
           SecureOpen, SecureZero, SecureRemove, histVars
      <4> QED BY <2>1, <4>1 DEF OneRunning
    <3> QED BY <3>1, <3>2
  <2>3. ASSUME ~overlap', NEW q \in Procs, NEW r \in Procs, Running(q)', Running(r)'
        PROVE  q = r
    BY <1>2, <2>1, <2>3, Alone DEF FileInv
  <2> QED BY <2>2, <2>3 DEF OneRunning
<1> QED BY <1>1, <1>2, NextIsStep

LEMMA ClearedStep == FileInv /\ OneRunning /\ Cleared /\ [Next]_vars => Cleared'
<1> SUFFICES ASSUME FileInv, OneRunning, Cleared, [Next]_vars, ~overlap',
                    NEW q \in Procs, pc'[q] = "clear"
             PROVE  file' = 0
  BY DEF Cleared
<1>1. ~overlap
  BY OverlapStays DEF FileInv
<1>2. CASE UNCHANGED vars
  BY <1>1, <1>2 DEF vars, procVars, diskVars, Cleared
<1>3. ASSUME NEW p \in Procs, Step(p) PROVE file' = 0
  <2>1. q = p
    BY <1>1, <1>3, Alone DEF FileInv, Running
  <2>2. CASE pc[p] = "clear"
    <3>1. file = 0
      BY <1>1, <2>2 DEF Cleared
    <3>2. ~Saves(p)
      BY <2>2 DEF Saves, SaveOpen, SaveWrite, SaveRename, FileInv, Control, ControlOf
    <3>3. ~SecureOpen(p) /\ ~SecureZero(p) /\ ~SecureRemove(p)
      BY <2>2 DEF SecureOpen, SecureZero, SecureRemove
    <3> QED BY <1>3, <3>1, <3>2, <3>3, DiskStays DEF Step, Removes, FileInv
  <2>3. CASE pc[p] # "clear"
    <3>1. SecureOpen(p) \/ SecureRemove(p)
      BY <1>3, <2>1, <2>3 DEF FileInv, TypeOK, Step, Begins, AttachCredentials,
         NotLoggedIn, LoginStart, LogoutStart, Requests, RefreshFails, RequestFails,
         ValidateCredentials, CommandQuery, SendEvent, UseContext, FetchAndWriteContext,
         StartAuthFlow, Revoke, RemoveContext, Obtains, RefreshToken,
         ExchangeAuthorizationCode, Saves, SaveOpen, SaveWrite, SaveRename, Removes,
         SecureZero, SecureRemoveFails, Breaks, SaveFails, Kill, Goto, End
    <3> QED BY <2>1, <3>1 DEF SecureOpen, SecureRemove, Goto, diskVars, FileInv, TypeOK
  <2> QED BY <2>2, <2>3
<1> QED BY <1>2, <1>3, NextIsStep

\* Beside the process that steps, nobody matters to the context.
LEMMA Idle ==
    ASSUME FileInv, OneRunning, ContextInStep, ~overlap', ~overlap, ~mixed,
           NEW p \in Procs, Step(p)
    PROVE  /\ \A q \in Procs \ {p} :
                 /\ ~(Running(q)' /\ kind'[q] = "query") /\ pc'[q] # "tenant"
                 /\ \/ kind'[q] \in {"login", "logout"} /\ pc'[q] # "gone"
                    \/ pc'[q] \in {"start", "validate", "context"}
                    =>
                       used'[q] = NoAccount
           /\ OnFile.is = "tokens" /\ pc[p] # "tenant" => context \in {NoAccount, OnFile.account}
<1>1. \A q \in Procs \ {p} : ~Running(q) /\ ~Running(q)'
  BY Alone DEF FileInv
<1>2. \A q \in Procs \ {p} : pc[q] # "tenant" /\ pc'[q] # "tenant"
  BY <1>1 DEF Running
<1>3. \A q \in Procs \ {p} : kind'[q] = kind[q] /\ pc'[q] = pc[q] /\ used'[q] = used[q]
  BY OthersStay DEF FileInv
<1> QED BY <1>1, <1>2, <1>3 DEF ContextInStep

\* A save puts the tokens of its process on disk: those of the account that was
\* there, or those of a login which goes on with its context.
LEMMA RenameInStep ==
    ASSUME FileInv, OneRunning, ContextInStep, ~overlap', ~overlap, ~mixed,
           NEW p \in Procs, SaveRename(p)
    PROVE  ContextInStep'
<1>1. Step(p)
  BY DEF Step, Saves
<1>2. OnFile' = mem[p] /\ mem[p].is = "tokens" /\ mem' = mem
  BY RenameChange DEF FileInv, OneRunning
<1>3. UNCHANGED <<kind, used, context>>
  BY DEF SaveRename
<1>4. CASE pc[p] = "exchange"
  <2>1. pc'[p] = "tenant" /\ kind[p] = "login" /\ used[p] = NoAccount
    BY <1>4 DEF SaveRename, FileInv, TypeOK, Control, ControlOf, ContextInStep
  <2> QED BY <1>1, <1>2, <1>3, <2>1, Idle DEF ContextInStep
<1>5. CASE pc[p] # "exchange"
  <2>1. pc'[p] = pc[p] /\ pc[p] \in {"validate", "context", "command", "telemetry"}
    BY <1>5 DEF SaveRename, FileInv, Control, ControlOf
  <2>2. kind[p] = "query" /\ Running(p)
    BY <1>2, <2>1 DEF FileInv, Control, ControlOf, Running
  <2>3. OnFile.is = "tokens" /\ mem[p].account = OnFile.account
    BY <2>2 DEF ContextInStep
  <2>4. context \in {NoAccount, OnFile.account}
    BY <1>1, <2>1, <2>3, Idle
  <2> QED BY <1>1, <1>2, <1>3, <2>1, <2>2, <2>3, <2>4, Idle DEF ContextInStep
<1> QED BY <1>4, <1>5

\* The context as fetched is that of the tokens the process holds, unless an
\* API key fetched it.
LEMMA FetchInStep ==
    ASSUME FileInv, OneRunning, ContextInStep, ~overlap', ~overlap, ~mixed, ~mixed',
           NEW p \in Procs, FetchAndWriteContext(p)
    PROVE  ContextInStep' /\ used'[p] = mem[p].account
<1>1. Step(p)
  BY DEF Step, Requests
<1>2. kind[p] # "apiKey" /\ kind' = kind /\ mem' = mem
  BY DEF FetchAndWriteContext
<1>3. context' = mem[p].account /\ used'[p] = mem[p].account
  BY <1>2 DEF FetchAndWriteContext, FileInv, TypeOK
<1>4. OnFile' = OnFile
  BY DiskStays DEF Requests, FileInv
<1>5. /\ (pc[p] = "context" /\ kind[p] = "query") \/ (pc[p] = "tenant" /\ kind[p] = "login")
      /\ OnFile.is = "tokens" /\ mem[p].account = OnFile.account
  BY <1>2 DEF FetchAndWriteContext, FileInv, TypeOK, Kinds, Control, ControlOf, Running,
              ContextInStep
<1>6. pc'[p] = (IF pc[p] = "context" THEN "command" ELSE "gone")
  BY <1>5 DEF FetchAndWriteContext, Goto, End, FileInv, TypeOK
<1> QED BY <1>1, <1>2, <1>3, <1>4, <1>5, <1>6, Idle DEF ContextInStep

LEMMA ContextStep == FileInv /\ OneRunning /\ ContextInStep /\ [Next]_vars => ContextInStep'
<1> SUFFICES ASSUME FileInv, OneRunning, ContextInStep, [Next]_vars, ~overlap', ~mixed'
             PROVE  ContextInStep'
  BY DEF ContextInStep
<1>1. ~overlap /\ ~mixed
  BY OverlapStays DEF FileInv
<1>2. CASE UNCHANGED vars
  BY <1>1, <1>2 DEF vars, procVars, diskVars, histVars, ContextInStep, Running, OnFile
<1>3. ASSUME NEW p \in Procs, Step(p) PROVE ContextInStep'
  <2>0. \A q \in Procs \ {p} : pc[q] # "tenant"
    BY <1>1, <1>3, Alone DEF FileInv, Running
  <2> USE DEF FileInv, TypeOK, Goto, End, Starts, diskVars, authVars, Running
  <2>1. CASE Begins(p)
    <3>1. OnFile' = OnFile /\ context' = context /\ used' = used /\ pc[p] = "start"
      BY <2>1, DiskStays DEF Begins, AttachCredentials, NotLoggedIn, LoginStart, LogoutStart
    <3>2. used[p] = NoAccount /\ pc'[p] # "tenant"
      BY <1>1, <2>1, <3>1 DEF ContextInStep, Begins, AttachCredentials, NotLoggedIn,
         LoginStart, LogoutStart
    <3>3. pc'[p] # "gone" /\ kind'[p] = "query" =>
             OnFile.is = "tokens" /\ mem'[p] = OnFile
      BY <2>1 DEF Begins, AttachCredentials, NotLoggedIn, LoginStart, LogoutStart
    <3> QED BY <1>1, <1>3, <3>1, <3>2, <3>3, Idle DEF ContextInStep
  <2>2. CASE FetchAndWriteContext(p)
    BY <1>1, <2>2, FetchInStep
  <2>3. CASE SaveRename(p)
    BY <1>1, <2>3, RenameInStep
  <2>4. CASE RemoveContext(p)
    <3>1. OnFile' = OnFile /\ mem' = mem /\ kind' = kind /\ context' = NoAccount
      BY <1>1, <2>4, DiskStays DEF RemoveContext, Requests
    <3>2. pc[p] = "clear" /\ kind[p] = "logout" /\ pc'[p] = "gone"
      BY <2>4 DEF RemoveContext, Control, ControlOf
    <3> QED BY <1>1, <1>3, <3>1, <3>2, Idle DEF ContextInStep
  <2>5. CASE Obtains(p)
    <3>1. /\ OnFile' = OnFile
          /\ UNCHANGED <<kind, context, used>>
      BY <2>5, DiskStays DEF Obtains, RefreshToken, ExchangeAuthorizationCode
    <3>2. CASE RefreshToken(p)
      <4>1. pc' = pc /\ mem'[p].account = mem[p].account
        BY <1>3, <2>5, <3>2, MemChange DEF RefreshToken, Begins, AttachCredentials,
           NotLoggedIn, LoginStart, LogoutStart, Querying
      <4> QED BY <1>1, <1>3, <3>1, <4>1, Idle DEF ContextInStep
    <3>3. CASE ExchangeAuthorizationCode(p)
      <4>1. /\ kind[p] = "login" /\ pc[p] = "exchange" /\ pc'[p] \in {"exchange", "gone"}
        BY <3>3 DEF ExchangeAuthorizationCode, Control, ControlOf
      <4> QED BY <1>1, <1>3, <3>1, <4>1, Idle DEF ContextInStep
    <3> QED BY <2>5, <3>2, <3>3 DEF Obtains
  <2>6. CASE Removes(p)
    <3>1. /\ UNCHANGED <<kind, context, used, mem>>
          /\ kind[p] = "logout" /\ pc'[p] # "tenant" /\ pc[p] # "tenant"
      BY <2>6 DEF Removes, SecureOpen, SecureZero, SecureRemove, SecureRemoveFails, Control,
                  ControlOf
    <3>2. pc'[p] # "gone" => pc[p] # "gone"
      BY <2>6 DEF Removes, SecureOpen, SecureZero, SecureRemove, SecureRemoveFails
    <3>3. OnFile' = OnFile \/ OnFile'.is # "tokens"
      BY <1>1, <1>3, <2>6, FileChange DEF OneRunning, SaveRename, Control, ControlOf,
         Removes, SecureOpen, SecureZero, SecureRemove, SecureRemoveFails
    <3>4. pc[p] \notin {"start", "gone"}
      BY <2>6 DEF Removes, SecureOpen, SecureZero, SecureRemove, SecureRemoveFails
    <3> QED BY <1>1, <1>3, <3>1, <3>2, <3>3, <3>4, Idle DEF ContextInStep
  <2>7. CASE SaveOpen(p) \/ SaveWrite(p)
    <3>1. UNCHANGED <<kind, pc, context, used, mem>>
      BY <2>7 DEF SaveOpen, SaveWrite
    <3>2. OnFile' = OnFile
      BY <1>1, <1>3, <2>7, FileChange DEF OneRunning, SaveRename, SaveOpen, SaveWrite,
         SecureZero, SecureRemove, Control, ControlOf
    <3>3. pc[p] \in {"validate", "context", "command", "telemetry", "exchange"}
      BY <2>7 DEF SaveOpen, SaveWrite, Control, ControlOf
    <3> QED BY <1>1, <1>3, <3>1, <3>2, <3>3, Idle DEF ContextInStep
  <2>8. CASE Breaks(p)
    <3>1. OnFile' = OnFile /\ UNCHANGED <<kind, context, used, mem>>
      BY <2>8, DiskStays DEF Breaks, SaveFails, Kill
    <3>2. pc[p] \notin {"start", "gone", "tenant"} /\ pc'[p] \in {"telemetry", "gone"}
      BY <1>1, <2>8 DEF Breaks, SaveFails, Kill, Control, ControlOf
    <3>3. pc'[p] = "telemetry" => kind[p] \in {"query", "apiKey"}
      BY <2>8 DEF Breaks, SaveFails, Kill
    <3> QED BY <1>1, <1>3, <3>1, <3>2, <3>3, Idle DEF ContextInStep
  <2>9. CASE /\ Requests(p)
             /\ ~FetchAndWriteContext(p) /\ ~RemoveContext(p)
    <3>1. OnFile' = OnFile /\ UNCHANGED <<kind, context, mem>>
      BY <2>9, DiskStays DEF Requests, RefreshFails, RequestFails, ValidateCredentials,
         CommandQuery, SendEvent, UseContext, StartAuthFlow, Revoke
    <3>2. pc[p] \notin {"start", "gone", "tenant"} /\ pc'[p] # "tenant"
      BY <1>1, <2>9 DEF Requests, RefreshFails, RequestFails, ValidateCredentials,
         CommandQuery, SendEvent, UseContext, StartAuthFlow, Revoke, Querying, Control,
         ControlOf
    <3>3. \/ kind[p] \in {"login", "logout"} /\ pc'[p] # "gone"
          \/ pc'[p] \in {"start", "validate", "context"}
          =>
             /\ used' = used
             /\ kind[p] \in {"login", "logout"} \/ pc[p] = "validate"
      BY <2>9 DEF Requests, RefreshFails, RequestFails, ValidateCredentials,
         CommandQuery, SendEvent, UseContext, StartAuthFlow, Revoke
    <3>4. \A q \in Procs \ {p} : used'[q] = used[q]
      BY <1>3, OthersStay
    <3> QED BY <1>1, <1>3, <3>1, <3>2, <3>3, <3>4, Idle DEF ContextInStep
  <2> QED BY <1>3, <2>1, <2>2, <2>3, <2>4, <2>5, <2>6, <2>7, <2>8, <2>9
             DEF Step, Saves, Removes
<1> QED BY <1>2, <1>3, NextIsStep

LEMMA AccountStep ==
    FileInv /\ OneRunning /\ ContextInStep /\ ContextOfAccount /\ [Next]_vars =>
        ContextOfAccount'
<1> SUFFICES ASSUME FileInv, OneRunning, ContextInStep, ContextOfAccount, [Next]_vars,
                    ~overlap', ~mixed', NEW q \in Procs, mem'[q].is = "tokens"
             PROVE  used'[q] \in {NoAccount, mem'[q].account}
  BY DEF ContextOfAccount
<1>1. ~overlap /\ ~mixed
  BY OverlapStays DEF FileInv
<1>2. CASE UNCHANGED vars
  BY <1>1, <1>2 DEF vars, procVars, ContextOfAccount
<1>3. ASSUME NEW p \in Procs, Step(p)
      PROVE  used'[q] \in {NoAccount, mem'[q].account}
  <2> USE DEF FileInv, TypeOK
  <2>1. CASE q # p
    BY <1>1, <1>3, <2>1, OthersStay DEF ContextOfAccount
  <2>2. CASE Begins(p)
    <3>1. used' = used /\ pc[p] = "start"
      BY <2>2 DEF Begins, AttachCredentials, NotLoggedIn, LoginStart, LogoutStart, Starts
    <3> QED BY <1>1, <2>1, <3>1 DEF ContextInStep
  <2>3. CASE Obtains(p)
    <3>1. used' = used
      BY <2>3 DEF Obtains, RefreshToken, ExchangeAuthorizationCode
    <3>2. CASE RefreshToken(p)
      <4>1. mem[p].is = "tokens" /\ mem'[p].account = mem[p].account
        BY <1>3, <2>3, <3>2, MemChange DEF RefreshToken, Begins, AttachCredentials,
           NotLoggedIn, LoginStart, LogoutStart, Querying, Starts
      <4> QED BY <1>1, <2>1, <3>1, <4>1 DEF ContextOfAccount
    <3>3. CASE ExchangeAuthorizationCode(p)
      <4>1. kind[p] = "login" /\ pc[p] = "exchange"
        BY <3>3 DEF ExchangeAuthorizationCode, Control, ControlOf
      <4> QED BY <1>1, <2>1, <3>1, <4>1 DEF ContextInStep
    <3> QED BY <2>3, <3>2, <3>3 DEF Obtains
  <2>4. CASE FetchAndWriteContext(p)
    <3>1. used'[p] = mem[p].account /\ mem' = mem
      BY <1>1, <2>4, FetchInStep DEF FetchAndWriteContext
    <3> QED BY <2>1, <3>1
  <2>5. CASE UseContext(p)
    <3>1. /\ used'[p] = context /\ mem' = mem
          /\ pc[p] = "context" /\ kind[p] = "query"
      BY <2>5 DEF UseContext
    <3>2. OnFile.is = "tokens" /\ mem[p].account = OnFile.account
      BY <1>1, <3>1 DEF ContextInStep, Running
    <3>3. context \in {NoAccount, OnFile.account}
      BY <1>1, <1>3, <3>1, <3>2, Idle
    <3> QED BY <2>1, <3>1, <3>2, <3>3
  <2>6. CASE /\ Requests(p) \/ Saves(p) \/ Removes(p) \/ Breaks(p)
             /\ ~FetchAndWriteContext(p) /\ ~UseContext(p)
    <3>1. used' = used /\ mem' = mem
      BY <2>6 DEF Requests, RefreshFails, RequestFails, ValidateCredentials, CommandQuery,
         SendEvent, StartAuthFlow, Revoke, RemoveContext, Saves, SaveOpen, SaveWrite,
         SaveRename, Removes, SecureOpen, SecureZero, SecureRemove, SecureRemoveFails,
         Breaks, SaveFails, Kill
    <3> QED BY <1>1, <3>1 DEF ContextOfAccount
  <2> QED BY <1>3, <2>2, <2>3, <2>4, <2>5, <2>6 DEF Step
<1> QED BY <1>2, <1>3, NextIsStep

LEMMA ContextInit == Init => ContextInv
<1> SUFFICES ASSUME Init PROVE ContextInv
  OBVIOUS
<1>1. FileInv
  BY FileInit
<1>2. OnFile.is = "tokens" => context = OnFile.account
  <2>1. 1 \in Inodes
    BY ProcsAssumption, FS_CardinalityType DEF Inodes
  <2> QED BY <2>1, ContentsType DEF Init, OnFile, Tokens
<1>3. /\ OneRunning /\ Cleared /\ ContextInStep
      /\ \A p \in Procs : used[p] = NoAccount
  BY <1>2 DEF Init, OneRunning, Running, Cleared, ContextInStep
<1> QED BY <1>1, <1>3 DEF ContextInv, ContextOfAccount

LEMMA ContextInvariant == Spec => []ContextInv
<1>1. ContextInv /\ [Next]_vars => ContextInv'
  BY FileStep, OneRunningStep, ContextStep, AccountStep, ClearedStep DEF ContextInv
<1> QED BY <1>1, ContextInit, PTL DEF Spec

----------------------------------------------------------------------------
(* Theorems.                                                               *)

\* Types: whatever SaveCredentials, SecureRemove and the crashes between their
\* steps do to the files, they hold what some process wrote, with refresh tokens
\* the server issued.
THEOREM TypeCorrect == Spec => []TypeOK
<1>1. FileInv => TypeOK
  BY DEF FileInv
<1> QED BY <1>1, FileInvariant, PTL

\* Writing cre.yaml.tmp and renaming it (SaveCredentials) never leaves half of a
\* cre.yaml, wherever processes are killed, unless two of them saved at a time.
THEOREM TornNeedsClashHolds == Spec => []TornNeedsClash
<1>1. FileInv => TornNeedsClash
  BY DEF FileInv
<1> QED BY <1>1, FileInvariant, PTL

\* The refresh token that is left on disk works, although every refresh may spend
\* it (RefreshToken and the save after it in graphqlclient): where it does not, a
\* logout revoked it, its successor is being saved, or was lost.
THEOREM SessionSurvivesHolds == Spec => []SessionSurvives
<1>1. TokenInv => SessionSurvives
  BY DEF TokenInv
<1> QED BY <1>1, TokenInvariant, PTL

\* A command with stored tokens runs in the context of their account: the cached
\* context.yaml, which names no account, follows login and logout.
THEOREM ContextOfAccountHolds == Spec => []ContextOfAccount
<1>1. ContextInv => ContextOfAccount
  BY DEF ContextInv
<1> QED BY <1>1, ContextInvariant, PTL

\* A logout reports success only when the credentials file is gone, as long as no
\* other process ran meanwhile.
THEOREM LogoutDeletesHolds == Spec => LogoutDeletes
<1> DEFINE Ends == \A p \in Procs :
          outcome'[p] = "ok" /\ outcome[p] = "none" /\ kind[p] = "logout" =>
              file' = 0 \/ overlap
<1>1. ContextInv /\ [Next]_vars => [Ends]_vars
  <2> SUFFICES ASSUME ContextInv, Next, NEW q \in Procs, outcome'[q] = "ok",
                      outcome[q] = "none", kind[q] = "logout", ~overlap
               PROVE  file' = 0
    OBVIOUS
  <2> USE DEF ContextInv, FileInv, TypeOK
  <2>1. PICK p \in Procs : Step(p)
    BY NextIsStep
  <2>2. q = p
    BY <2>1, OthersStay
  <2>3. RemoveContext(p)
    BY <2>1, <2>2 DEF Step, Begins, AttachCredentials, NotLoggedIn, LoginStart,
       LogoutStart, Requests, RefreshFails, RequestFails, ValidateCredentials,
       CommandQuery, SendEvent, UseContext, FetchAndWriteContext, StartAuthFlow, Revoke,
       Obtains, RefreshToken, ExchangeAuthorizationCode, Saves, SaveOpen, SaveWrite,
       SaveRename, Removes, SecureOpen, SecureZero, SecureRemove, SecureRemoveFails,
       Breaks, SaveFails, Kill, Control, ControlOf, End, Goto
  <2> QED BY <2>3 DEF RemoveContext, Cleared
<1> QED BY <1>1, ContextInvariant, PTL DEF Spec, LogoutDeletes
=============================================================================
