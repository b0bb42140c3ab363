---------------------- MODULE OnchainLifecycle_proofs ----------------------
(***************************************************************************)
(* Theorems about OnchainLifecycle, for any number of calls, names, tags,  *)
(* DON families and any values of Limit and MaxOverlap.                    *)
(***************************************************************************)
EXTENDS OnchainLifecycle, FiniteSetTheorems, TLAPS

----------------------------------------------------------------------------
(* Operators.                                                              *)

\* The ids found in the registry are ids; versions found are versions.
LEMMA IdsOfType ==
    ASSUME entries \in Registry, NEW vs, vs \subseteq {v \in Versions : entries[v] # None}
    PROVE  IdsOf(vs) \subseteq Ids
BY DataAssumption DEF IdsOf, Registry, Entry

\* A batch is a set of ids the call has left to do.
LEMMA BatchesType ==
    ASSUME TypeOK, NEW c \in Calls, NEW ids \in Batches(c)
    PROVE  ids \subseteq todo[c] /\ ids \subseteq Ids
BY DEF Batches, TypeOK

\* Changing the status of registered versions keeps the registry a registry.
LEMMA SetStatusType ==
    ASSUME entries \in Registry, NEW what \in {"active", "paused"},
           NEW vs, vs \subseteq {v \in Versions : entries[v] # None}
    PROVE  SetStatus(vs, what) \in Registry
<1>1. ASSUME NEW v \in Versions
      PROVE  (IF v \in vs THEN [entries[v] EXCEPT !.status = what] ELSE entries[v])
               \in Entry \cup {None}
  <2>1. CASE v \in vs
    <3>1. entries[v] \in Entry
      BY <2>1 DEF Registry
    <3> QED BY <2>1, <3>1 DEF Entry
  <2>2. CASE v \notin vs
    BY <2>2 DEF Registry
  <2> QED BY <2>1, <2>2
<1> QED BY <1>1 DEF SetStatus, Registry

----------------------------------------------------------------------------
(* Type correctness.                                                       *)

LEMMA TypeInit == Init => TypeOK
<1> SUFFICES ASSUME Init PROVE TypeOK
  OBVIOUS
<1>1. entries \in Registry
  BY PreregisteredAssumption DEF Init
<1>2. stored \subseteq Ids
  BY <1>1, DataAssumption DEF Init, Registry, Entry
<1> QED BY <1>1, <1>2 DEF Init, TypeOK

\* The steps of a call before it sends anything.
LEMMA TypePrepare ==
    ASSUME TypeOK, NEW c \in Calls,
           \/ Start(c) \/ Abort(c) \/ VerifyOwner(c) \/ AutoLink(c) \/ CheckExists(c)
           \/ Accept(c) \/ Decline(c) \/ Upload(c) \/ CountSameName(c) \/ CheckLimit(c)
    PROVE  TypeOK'
<1> USE DEF TypeOK, Go, Tell, registryVars, storeVars, historyVars
<1>0. job[c] \in Job /\ ArtifactId(c) \in Ids /\ Name(c) \in Names /\ Don(c) \in Dons
  BY DataAssumption DEF Job, ArtifactId, Ids, Name, Don
<1>1. CASE Start(c)       BY <1>1 DEF Start
<1>2. CASE Abort(c)       BY <1>2 DEF Abort
<1>3. CASE VerifyOwner(c) BY <1>3 DEF VerifyOwner
<1>4. CASE AutoLink(c)    BY <1>4 DEF AutoLink, Direct
<1>5. CASE CheckExists(c)
  <2> DEFINE found == entries[<<Name(c), CliTag>>]
  <2>1. found # None => found \in Entry
    BY <1>0, DataAssumption DEF Registry, Versions
  <2>2. seen' \in [Calls -> {"none", "active", "paused"}]
    BY <1>5, <2>1 DEF CheckExists, Entry
  <2>3. moved' \subseteq Names \X Dons
    BY <1>5, <1>0 DEF CheckExists
  <2>4. pc' \in [Calls -> {"idle", "owner", "exists", "confirm", "upload", "count",
                           "limit", "fetch", "send", "wait", "done"}]
    BY <1>5 DEF CheckExists
  <2> QED BY <1>5, <2>2, <2>3, <2>4 DEF CheckExists
<1>6. CASE Accept(c)        BY <1>6 DEF Accept
<1>7. CASE Decline(c)       BY <1>7 DEF Decline
<1>8. CASE Upload(c)        BY <1>8, <1>0 DEF Upload
<1>9. CASE CountSameName(c) BY <1>9 DEF CountSameName
<1>10. CASE CheckLimit(c)   BY <1>10 DEF CheckLimit
<1> QED BY <1>1, <1>2, <1>3, <1>4, <1>5, <1>6, <1>7, <1>8, <1>9, <1>10

\* The reads of pause, activate and delete.
LEMMA TypeFetch ==
    ASSUME TypeOK, NEW c \in Calls, Fetch(c)
    PROVE  TypeOK'
<1> USE DEF TypeOK, Go, Tell, registryVars, storeVars, historyVars, Target
<1>1. \A vs : vs \subseteq VersionsOf(Name(c)) => IdsOf(vs) \subseteq Ids
  BY IdsOfType DEF VersionsOf
<1>2. CASE FetchToPause(c)
  <2>1. IdsOf({v \in VersionsOf(Name(c)) : entries[v].status = "active"}) \subseteq Ids
    BY <1>1
  <2> QED BY <1>2, <2>1 DEF FetchToPause
<1>3. CASE FetchToActivate(c)
  <2>1. PICK latest \in VersionsOf(Name(c)) : Target(c, {entries[latest].id})
    BY <1>3 DEF FetchToActivate
  <2>2. {entries[latest].id} \subseteq Ids
    BY <1>1 DEF VersionsOf, Registry, Entry
  <2> QED BY <1>3, <2>1, <2>2 DEF FetchToActivate
<1>4. CASE FetchToDelete(c)
  BY <1>4, <1>1 DEF FetchToDelete
<1> QED BY <1>2, <1>3, <1>4 DEF Fetch

\* The steps that submit a transaction or learn what became of it.
LEMMA TypeSettle ==
    ASSUME TypeOK, NEW c \in Calls, NEW rest, rest \subseteq Ids,
           NEW what \in {"ok", "failed", "prepared"}, Settle(c, rest, what)
    PROVE  /\ todo' \in [Calls -> SUBSET Ids]
           /\ pc' \in [Calls -> {"idle", "owner", "exists", "confirm", "upload",
                                 "count", "limit", "fetch", "send", "wait", "done"}]
           /\ outcome' \in [Calls -> {"none", "ok", "failed", "cancelled", "nothing",
                                      "unchanged", "halted", "prepared"}]
BY DEF Settle, Tell, TypeOK

LEMMA TypeSubmit ==
    ASSUME TypeOK, NEW c \in Calls,
           Send(c) \/ Prepare(c) \/ Refuse(c) \/ Confirmed(c) \/ Unconfirmed(c)
    PROVE  TypeOK'
<1> USE DEF TypeOK, registryVars, storeVars, historyVars
<1>1. \A ids \in Batches(c) :
         [call |-> c, ids |-> ids] \in Tx
  BY BatchesType DEF Tx
<1>2. CASE Send(c)
  <2>1. PICK ids \in Batches(c) :
          /\ cur' = [cur EXCEPT ![c] = ids]
          /\ pending' = pending \cup {[call |-> c, ids |-> ids]}
    BY <1>2 DEF Send
  <2>2. cur' \in [Calls -> SUBSET Ids]
    BY <2>1, BatchesType
  <2>3. pending' \subseteq Tx
    BY <2>1, <1>1
  <2> QED BY <1>2, <2>2, <2>3 DEF Send, Go
<1>3. CASE Prepare(c)
  <2>1. PICK ids \in Batches(c) :
          /\ pending' = pending \cup {[call |-> c, ids |-> ids]}
          /\ Settle(c, IF Cmd(c) = "delete" THEN todo[c] \ ids ELSE {}, "prepared")
    BY <1>3 DEF Prepare
  <2>2. (IF Cmd(c) = "delete" THEN todo[c] \ ids ELSE {}) \subseteq Ids
    OBVIOUS
  <2>3. pending' \subseteq Tx
    BY <2>1, <1>1
  <2>4. Settle(c, IF Cmd(c) = "delete" THEN todo[c] \ ids ELSE {}, "prepared")
    BY <2>1
  <2> HIDE DEF TypeOK
  <2>5. /\ todo' \in [Calls -> SUBSET Ids]
        /\ pc' \in [Calls -> {"idle", "owner", "exists", "confirm", "upload",
                              "count", "limit", "fetch", "send", "wait", "done"}]
        /\ outcome' \in [Calls -> {"none", "ok", "failed", "cancelled", "nothing",
                                   "unchanged", "halted", "prepared"}]
    BY <2>2, <2>4, TypeSettle
  <2> QED BY <1>3, <2>3, <2>5 DEF Prepare, TypeOK
<1>4. CASE Refuse(c)
  <2>1. PICK rest : rest \subseteq Ids /\ Settle(c, rest, "failed")
    BY <1>4 DEF Refuse
  <2> HIDE DEF TypeOK
  <2>2. /\ todo' \in [Calls -> SUBSET Ids]
        /\ pc' \in [Calls -> {"idle", "owner", "exists", "confirm", "upload",
                              "count", "limit", "fetch", "send", "wait", "done"}]
        /\ outcome' \in [Calls -> {"none", "ok", "failed", "cancelled", "nothing",
                                   "unchanged", "halted", "prepared"}]
    BY <2>1, TypeSettle
  <2> QED BY <1>4, <2>2 DEF Refuse, TypeOK
<1>5. CASE Confirmed(c) \/ Unconfirmed(c)
  <2>1. PICK what \in {"ok", "failed"} : Settle(c, todo[c] \ cur[c], what)
    BY <1>5 DEF Confirmed, Unconfirmed
  <2>2. todo[c] \ cur[c] \subseteq Ids
    OBVIOUS
  <2> HIDE DEF TypeOK
  <2>3. /\ todo' \in [Calls -> SUBSET Ids]
        /\ pc' \in [Calls -> {"idle", "owner", "exists", "confirm", "upload",
                              "count", "limit", "fetch", "send", "wait", "done"}]
        /\ outcome' \in [Calls -> {"none", "ok", "failed", "cancelled", "nothing",
                                   "unchanged", "halted", "prepared"}]
    BY <2>1, <2>2, TypeSettle
  <2> QED BY <1>5, <2>3 DEF Confirmed, Unconfirmed, TypeOK
<1> QED BY <1>2, <1>3, <1>4, <1>5

\* The contract.
LEMMA TypeEnvironment ==
    ASSUME TypeOK,
           (\E t \in pending : Land(t) \/ Drop(t)) \/ Unlink \/ Relink \/ Cleanup
    PROVE  TypeOK'
<1> USE DEF TypeOK, registryVars, storeVars, historyVars, callVars
<1>1. ASSUME NEW t \in pending, Land(t)
      PROVE  TypeOK'
  <2>1. t \in Tx /\ job[t.call] \in Job
    BY DataAssumption DEF Tx
  <2>2. /\ Name(t.call) \in Names /\ Don(t.call) \in Dons /\ ArtifactId(t.call) \in Ids
    BY <2>1 DEF Job, Name, Don, ArtifactId, Ids
  <2>3. Mined(t)
    BY <1>1 DEF Land, LandUpsert, LandPause, LandActivate, LandDelete
  <2>4. SUFFICES entries' \in Registry
    <3>1. doomed' \subseteq Ids
      BY <1>1, <2>1 DEF Tx, Land, LandUpsert, LandPause, LandActivate, LandDelete
    <3> QED BY <2>1, <2>3, <3>1 DEF Mined, Overtaken
  <2>5. CASE LandUpsert(t)
    <3> DEFINE key == <<Name(t.call), CliTag>>
    <3>1. PICK age \in {2} \cup (IF entries[key] = None THEN {} ELSE {entries[key].born}),
               hush \in BOOLEAN : entries' = Upsert(t, age, hush)
      BY <2>5 DEF LandUpsert
    <3>2. key \in Versions
      BY <2>2, DataAssumption DEF Versions
    <3>3. age \in Ages
      BY <3>1, <3>2 DEF Registry, Entry, Ages
    <3>4. UpsertStatus(t.call) \in {"active", "paused"}
      BY DEF UpsertStatus
    <3>5. SetStatus({v \in VersionsOf(Name(t.call)) : v # key /\ hush}, "paused") \in Registry
      BY SetStatusType DEF VersionsOf
    <3> QED BY <3>1, <3>2, <3>3, <3>4, <3>5, <2>2 DEF Upsert, Registry, Entry
  <2>6. CASE LandPause(t)
    BY <2>6, SetStatusType DEF LandPause, Holders
  <2>7. CASE LandActivate(t)
    <3>1. ASSUME NEW v \in Holders(t.ids)
          PROVE  [entries[v] EXCEPT !.status = "active", !.don = Don(t.call)] \in Entry
      <4>1. entries[v] \in Entry
        BY DEF Holders, Registry
      <4> QED BY <4>1, <2>2 DEF Entry
    <3> QED BY <2>7, <3>1 DEF LandActivate, Registry
  <2>8. CASE LandDelete(t)
    BY <2>8 DEF LandDelete, Registry
  <2> QED BY <1>1, <2>5, <2>6, <2>7, <2>8 DEF Land
<1>2. ASSUME NEW t \in pending, Drop(t) PROVE TypeOK'
  BY <1>2 DEF Drop
<1>3. CASE Unlink
  <2>1. doomed' \subseteq Ids
    BY <1>3, IdsOfType DEF Unlink
  <2> QED BY <1>3, <2>1 DEF Unlink, Registry
<1>4. CASE Relink BY <1>4 DEF Relink
<1>5. CASE Cleanup BY <1>5 DEF Cleanup
<1> QED BY <1>1, <1>2, <1>3, <1>4, <1>5

LEMMA TypeNext == TypeOK /\ [Next]_vars => TypeOK'
<1> SUFFICES ASSUME TypeOK, [Next]_vars PROVE TypeOK'
  OBVIOUS
<1>1. CASE UNCHANGED vars
  BY <1>1 DEF vars, TypeOK
<1>2. ASSUME NEW c \in Calls, Start(c) \/ CallStep(c) PROVE TypeOK'
  BY <1>2, TypePrepare, TypeFetch, TypeSubmit DEF CallStep
<1>3. CASE (\E t \in pending : Land(t) \/ Drop(t)) \/ Unlink \/ Relink \/ Cleanup
  BY <1>3, TypeEnvironment
<1> QED BY <1>1, <1>2, <1>3 DEF Next

\* Every variable has its type, for every value of the constants.
THEOREM TypeCorrect == Spec => []TypeOK
<1>1. Init => TypeOK
  BY TypeInit
<1>2. TypeOK /\ [Next]_vars => TypeOK'
  BY TypeNext
<1> QED BY <1>1, <1>2, PTL DEF Spec

----------------------------------------------------------------------------
(* Control and naming.                                                     *)

\* The only step that adds a transaction is Send or Prepare of its call, and
\* the only step that changes a call is its own.
LEMMA ControlNext ==
    ASSUME TypeOK, CallControl, [Next]_vars
    PROVE  CallControl'
<1> USE DEF TypeOK, CallControl, HasPending, Go, Tell, registryVars, storeVars, historyVars,
            callVars, Cmd
<1>1. CASE UNCHANGED vars
  BY <1>1 DEF vars
<1>2. ASSUME NEW c \in Calls, Start(c) \/ CallStep(c)
      PROVE  CallControl'
  <2>1. CASE Start(c)       BY <2>1 DEF Start
  <2>2. CASE Abort(c)       BY <2>2 DEF Abort
  <2>3. CASE VerifyOwner(c) BY <2>3 DEF VerifyOwner
  <2>4. CASE AutoLink(c)    BY <2>4 DEF AutoLink
  <2>5. CASE CheckExists(c) BY <2>5 DEF CheckExists
  <2>6. CASE Accept(c)      BY <2>6 DEF Accept
  <2>7. CASE Decline(c)     BY <2>7 DEF Decline
  <2>8. CASE Upload(c)      BY <2>8 DEF Upload
  <2>9. CASE CountSameName(c) BY <2>9 DEF CountSameName
  <2>10. CASE CheckLimit(c)   BY <2>10 DEF CheckLimit
  <2>11. CASE Fetch(c)
    BY <2>11 DEF Fetch, FetchToPause, FetchToActivate, FetchToDelete
  <2>12. CASE Send(c)
    <3>1. PICK ids : pending' = pending \cup {[call |-> c, ids |-> ids]}
      BY <2>12 DEF Send
    <3>2. \A x \in Calls : HasPending(x)' => HasPending(x) \/ x = c
      BY <3>1
    <3> QED BY <2>12, <3>2 DEF Send
  <2>13. CASE Prepare(c)
    <3>1. PICK ids : pending' = pending \cup {[call |-> c, ids |-> ids]}
      BY <2>13 DEF Prepare
    <3>2. \A x \in Calls : HasPending(x)' => HasPending(x) \/ x = c
      BY <3>1
    <3>3. pc[c] = "send" /\ pc' \in {[pc EXCEPT ![c] = "done"], [pc EXCEPT ![c] = "send"]}
      BY <2>13 DEF Prepare, Settle
    <3>4. seen' = seen /\ job' = job
      BY <2>13 DEF Prepare
    <3> QED BY <3>2, <3>3, <3>4
  <2>14. CASE Refuse(c) \/ Confirmed(c) \/ Unconfirmed(c)
    <3>1. /\ pc[c] \in {"send", "wait"}
          /\ pc' \in {[pc EXCEPT ![c] = "done"], [pc EXCEPT ![c] = "send"]}
      BY <2>14 DEF Refuse, Confirmed, Unconfirmed, Settle
    <3>2. seen' = seen /\ job' = job /\ pending' = pending
      BY <2>14 DEF Refuse, Confirmed, Unconfirmed
    <3> QED BY <3>1, <3>2
  <2> QED BY <1>2, <2>1, <2>2, <2>3, <2>4, <2>5, <2>6, <2>7, <2>8, <2>9, <2>10,
             <2>11, <2>12, <2>13, <2>14 DEF CallStep
<1>3. CASE (\E t \in pending : Land(t) \/ Drop(t)) \/ Unlink \/ Relink \/ Cleanup
  <2>1. pending' \subseteq pending /\ UNCHANGED <<job, pc, seen>>
    BY <1>3 DEF Land, LandUpsert, LandPause, LandActivate, LandDelete, Mined, Drop,
                Unlink, Relink, Cleanup
  <2> QED BY <2>1
<1> QED BY <1>1, <1>2, <1>3 DEF Next

LEMMA NamedNext ==
    ASSUME TypeOK, Named, [Next]_vars
    PROVE  Named'
<1> USE DEF TypeOK, Named, Go, Tell, registryVars, storeVars, historyVars, callVars, Name
<1>1. CASE UNCHANGED vars
  BY <1>1 DEF vars
<1>2. ASSUME NEW c \in Calls, Start(c) \/ CallStep(c)
      PROVE  Named'
  <2>1. entries' = entries /\ job' = job
    BY <1>2 DEF CallStep, Start, Abort, VerifyOwner, AutoLink, CheckExists, Accept,
         Decline, Upload, CountSameName, CheckLimit, Fetch, FetchToPause,
         FetchToActivate, FetchToDelete, Send, Prepare, Refuse, Confirmed, Unconfirmed
  <2>2. SUFFICES ASSUME TRUE
                 PROVE  /\ \A d \in Calls : \A i \in todo'[d] : i[1] = Name(d)
                        /\ \A t \in pending' : \A i \in t.ids : i[1] = Name(t.call)
    BY <2>1
  <2>3. CASE \/ Start(c) \/ Abort(c) \/ VerifyOwner(c) \/ AutoLink(c) \/ CheckExists(c)
             \/ Accept(c) \/ Decline(c) \/ CountSameName(c) \/ CheckLimit(c)
    BY <2>3 DEF Start, Abort, VerifyOwner, AutoLink, CheckExists, Accept, Decline,
                CountSameName, CheckLimit
  <2>4. CASE Upload(c)
    BY <2>4 DEF Upload, ArtifactId
  <2>5. CASE Fetch(c)
    <3>1. \A v \in VersionsOf(Name(c)) : entries[v].id[1] = Name(c)
      BY DEF VersionsOf
    <3>2. PICK ids : /\ todo' = [todo EXCEPT ![c] = ids]
                     /\ \A i \in ids : i[1] = Name(c)
      BY <2>5, <3>1 DEF Fetch, FetchToPause, FetchToActivate, FetchToDelete, Target, IdsOf
    <3>3. pending' = pending
      BY <2>5 DEF Fetch, FetchToPause, FetchToActivate, FetchToDelete
    <3> QED BY <3>2, <3>3
  <2>6. CASE Send(c)
    <3>1. PICK ids \in Batches(c) : pending' = pending \cup {[call |-> c, ids |-> ids]}
      BY <2>6 DEF Send
    <3>2. ids \subseteq todo[c]
      BY BatchesType
    <3> QED BY <2>6, <3>1, <3>2 DEF Send
  <2>7. CASE Prepare(c)
    <3>1. PICK ids \in Batches(c) :
             /\ pending' = pending \cup {[call |-> c, ids |-> ids]}
             /\ Settle(c, IF Cmd(c) = "delete" THEN todo[c] \ ids ELSE {}, "prepared")
      BY <2>7 DEF Prepare
    <3>2. ids \subseteq todo[c]
      BY BatchesType
    <3> QED BY <3>1, <3>2 DEF Settle
  <2>8. CASE Refuse(c) \/ Confirmed(c) \/ Unconfirmed(c)
    <3>1. PICK rest : rest \subseteq todo[c] /\ todo' = [todo EXCEPT ![c] = rest]
      BY <2>8 DEF Refuse, Confirmed, Unconfirmed, Settle
    <3>2. pending' = pending
      BY <2>8 DEF Refuse, Confirmed, Unconfirmed
    <3> QED BY <3>1, <3>2
  <2> QED BY <1>2, <2>3, <2>4, <2>5, <2>6, <2>7, <2>8 DEF CallStep
<1>3. ASSUME NEW t \in pending, Land(t)
      PROVE  Named'
  <2>1. pending' \subseteq pending /\ UNCHANGED <<job, todo>>
    BY <1>3 DEF Land, LandUpsert, LandPause, LandActivate, LandDelete, Mined
  <2>2. SUFFICES ASSUME NEW v \in Versions, entries'[v] # None
                 PROVE  entries'[v].id[1] = v[1]
    BY <2>1
  <2>3. t.call \in Calls
    BY DEF Tx
  <2>4. \A w \in Versions, what \in {"active", "paused"} :
           entries[w] # None =>
             [entries[w] EXCEPT !.status = what].id = entries[w].id
    BY DEF Registry, Entry
  <2>5. CASE LandUpsert(t)
    <3> DEFINE key == <<Name(t.call), CliTag>>
    <3>1. PICK age, hush : entries' = Upsert(t, age, hush)
      BY <2>5 DEF LandUpsert
    <3>2. CASE v = key
      BY <3>1, <3>2 DEF Upsert, SetStatus, ArtifactId
    <3>3. CASE v # key
      <4>1. entries'[v] \in {entries[v], [entries[v] EXCEPT !.status = "paused"]}
        BY <3>1, <3>3 DEF Upsert, SetStatus
      <4>2. v \notin VersionsOf(Name(t.call)) => entries'[v] = entries[v]
        BY <3>1, <3>3 DEF Upsert, SetStatus
      <4>3. entries[v] # None
        BY <4>1, <4>2, <2>2 DEF VersionsOf
      <4>4. [entries[v] EXCEPT !.status = "paused"].id = entries[v].id
        BY <4>3, <2>4
      <4>5. entries'[v].id = entries[v].id
        BY <4>1, <4>4
      <4> QED BY <4>3, <4>5
    <3> QED BY <3>2, <3>3
  <2>6. CASE LandPause(t)
    <3>1. entries[v] # None /\ entries'[v].id = entries[v].id
      BY <2>6, <2>2, <2>4 DEF LandPause, SetStatus, Holders
    <3> QED BY <3>1
  <2>7. CASE LandActivate(t)
    <3>1. entries[v] # None
      BY <2>7, <2>2 DEF LandActivate, Holders
    <3>2. entries[v] \in Entry
      BY <3>1 DEF Registry
    <3>3. entries'[v].id = entries[v].id
      BY <2>7, <3>2 DEF LandActivate, Entry
    <3> QED BY <3>1, <3>3
  <2>8. CASE LandDelete(t)
    BY <2>8, <2>2 DEF LandDelete
  <2> QED BY <1>3, <2>5, <2>6, <2>7, <2>8 DEF Land
<1>4. CASE (\E t \in pending : Drop(t)) \/ Unlink \/ Relink \/ Cleanup
  BY <1>4 DEF Drop, Unlink, Relink, Cleanup
<1> QED BY <1>1, <1>2, <1>3, <1>4 DEF Next

----------------------------------------------------------------------------
(* The DON limit.                                                          *)

Occupied(d) == (ActiveNames(d) \cup Claims(d)) \ Moved(d)

\* Active versions are registered versions, so finitely many, and no more names
\* are active than versions.
LEMMA ActiveFinite ==
    ASSUME NEW d \in Dons
    PROVE  /\ IsFiniteSet(ActiveOn(entries, d))
           /\ IsFiniteSet(ActiveNames(d))
           /\ Cardinality(ActiveNames(d)) <= Cardinality(ActiveOn(entries, d))
<1>1. IsFiniteSet(Versions)
  BY FiniteAssumption, FS_Product DEF Versions
<1>2. IsFiniteSet(ActiveOn(entries, d))
  BY <1>1, FS_Subset DEF ActiveOn
<1> DEFINE f == [v \in ActiveOn(entries, d) |-> v[1]]
<1>3. f \in Surjection(ActiveOn(entries, d), ActiveNames(d))
  BY DEF Surjection, ActiveNames
<1> QED BY <1>2, <1>3, FS_Surjection

\* Calls hold at most one name each.
LEMMA ClaimsFinite ==
    ASSUME NEW d \in Dons
    PROVE  /\ IsFiniteSet(Outstanding)
           /\ IsFiniteSet(Claims(d))
           /\ Cardinality(Claims(d)) <= Cardinality(Outstanding)
<1> DEFINE H == {x \in Outstanding : Don(x) = d /\ Granted(x)}
           f == [c \in H |-> Name(c)]
<1>1. IsFiniteSet(Outstanding)
  BY FiniteAssumption, FS_Subset DEF Outstanding
<1>2. IsFiniteSet(H) /\ Cardinality(H) <= Cardinality(Outstanding)
  <2>1. H \in SUBSET Outstanding
    OBVIOUS
  <2> QED BY <1>1, <2>1, FS_Subset
<1>3. f \in Surjection(H, Claims(d))
  BY DEF Surjection, Claims
<1>4. IsFiniteSet(Claims(d)) /\ Cardinality(Claims(d)) <= Cardinality(H)
  BY <1>2, <1>3, FS_Surjection
<1>5. Cardinality(H) \in Nat /\ Cardinality(Outstanding) \in Nat
      /\ Cardinality(Claims(d)) \in Nat
  BY <1>1, <1>2, <1>4, FS_CardinalityType
<1> QED BY <1>1, <1>2, <1>4, <1>5

LEMMA OccupiedFinite ==
    ASSUME NEW d \in Dons
    PROVE  IsFiniteSet(Occupied(d))
<1>1. IsFiniteSet(ActiveNames(d) \cup Claims(d))
  BY ActiveFinite, ClaimsFinite, FS_Union
<1> QED BY <1>1, FS_Subset DEF Occupied

\* A step of call c leaves what the other calls hold as it is.
LEMMA OwnStep ==
    ASSUME TypeOK, NEW c \in Calls, Start(c) \/ CallStep(c)
    PROVE  /\ entries' = entries
           /\ job' = job
           /\ moved \subseteq moved'
           /\ \A x \in Calls \ {c} : /\ x \in Outstanding' <=> x \in Outstanding
                                     /\ Granted(x)' <=> Granted(x)
<1> USE DEF TypeOK, Go, Tell, registryVars, storeVars, historyVars
<1>1. /\ entries' = entries
      /\ job' = job
  BY DEF CallStep, Start, Abort, VerifyOwner, AutoLink, CheckExists, Accept,
         Decline, Upload, CountSameName, CheckLimit, Fetch, FetchToPause,
         FetchToActivate, FetchToDelete, Send, Prepare, Refuse, Confirmed, Unconfirmed
<1>2. moved \subseteq moved'
  BY DEF CallStep, Start, Abort, VerifyOwner, AutoLink, CheckExists, Accept,
         Decline, Upload, CountSameName, CheckLimit, Fetch, FetchToPause,
         FetchToActivate, FetchToDelete, Send, Prepare, Refuse, Confirmed, Unconfirmed
<1>3. ASSUME NEW x \in Calls \ {c}
      PROVE  pc'[x] = pc[x] /\ seen'[x] = seen[x]
  BY DEF CallStep, Start, Abort, VerifyOwner, AutoLink, CheckExists, Accept,
         Decline, Upload, CountSameName, CheckLimit, Fetch, FetchToPause,
         FetchToActivate, FetchToDelete, Send, Prepare, Refuse, Confirmed, Unconfirmed,
         Settle
<1>4. ASSUME NEW x \in Calls \ {c}
      PROVE  HasPending(x)' <=> HasPending(x)
  <2>1. \/ pending' = pending
        \/ \E ids : pending' = pending \cup {[call |-> c, ids |-> ids]}
    BY DEF CallStep, Start, Abort, VerifyOwner, AutoLink, CheckExists, Accept,
         Decline, Upload, CountSameName, CheckLimit, Fetch, FetchToPause,
         FetchToActivate, FetchToDelete, Send, Prepare, Refuse, Confirmed, Unconfirmed
  <2> QED BY <2>1 DEF HasPending
<1> QED BY <1>1, <1>2, <1>3, <1>4 DEF Outstanding, Granted, Cmd

\* A call only comes to hold a name that is active on its DON already, or that
\* is excepted, unless it has just compared the count with the limit.
LEMMA ClaimOrigin ==
    ASSUME TypeOK, CallControl, NEW c \in Calls, Start(c) \/ CallStep(c), ~CheckLimit(c),
           c \in Outstanding', Granted(c)'
    PROVE  \/ c \in Outstanding /\ Granted(c)
           \/ Name(c) \in ActiveNames(Don(c))
           \/ <<Name(c), Don(c)>> \in moved'
<1> USE DEF TypeOK, CallControl, Go, Tell, registryVars, storeVars, historyVars, Cmd
<1>1. CASE Start(c)
  BY <1>1 DEF Start, Granted
<1>2. CASE Abort(c)
  BY <1>2 DEF Abort, Outstanding, HasPending
<1>3. CASE VerifyOwner(c)
  BY <1>3 DEF VerifyOwner, Granted
<1>4. CASE AutoLink(c)
  BY <1>4 DEF AutoLink, Outstanding, HasPending, Granted
<1>5. CASE CheckExists(c)
  <2> DEFINE found == entries[<<Name(c), CliTag>>]
  <2>1. pc[c] = "exists" /\ Cmd(c) = "deploy" /\ seen[c] = "none" /\ ~HasPending(c)
    BY <1>5 DEF CheckExists
  <2>2. pc'[c] \notin {"upload", "done"}
    BY <1>5, <2>1 DEF CheckExists, Outstanding, HasPending, Granted
  <2>3. /\ found # None
        /\ seen'[c] = found.status
        /\ found.status = "active" /\ found.don # Don(c) =>
             <<Name(c), Don(c)>> \in moved'
    BY <1>5, <2>2 DEF CheckExists
  <2>4. pc'[c] = "confirm" /\ job' = job
    BY <1>5, <2>2 DEF CheckExists
  <2>5. seen'[c] = "active"
    BY <2>1, <2>4 DEF Granted
  <2>6. CASE found.don = Don(c)
    <3>1. Name(c) \in Names
      BY DataAssumption DEF Name, Job
    <3>2. <<Name(c), CliTag>> \in ActiveOn(entries, Don(c))
      BY <2>3, <2>5, <2>6, <3>1, DataAssumption DEF ActiveOn, Versions
    <3> QED BY <3>2 DEF ActiveNames
  <2> QED BY <2>3, <2>5, <2>6
<1>6. CASE Accept(c)
  BY <1>6 DEF Accept, Granted, Outstanding
<1>7. CASE Decline(c)
  BY <1>7 DEF Decline, Outstanding, HasPending
<1>8. CASE Upload(c)
  BY <1>8 DEF Upload, Granted, Outstanding
<1>9. CASE CountSameName(c)
  <2>1. CASE seen[c] # "none"
    BY <1>9, <2>1 DEF CountSameName, Granted, Outstanding
  <2>2. CASE seen[c] = "none" /\ SameNameActive(c) # {}
    <3>1. PICK v \in VersionsOf(Name(c)) : v \in ActiveOn(entries, Don(c))
      BY <2>2 DEF SameNameActive
    <3> QED BY <3>1 DEF VersionsOf, ActiveNames
  <2>3. CASE seen[c] = "none" /\ SameNameActive(c) = {}
    BY <1>9, <2>3 DEF CountSameName, Granted
  <2> QED BY <2>1, <2>2, <2>3
<1>10. CASE Fetch(c)
  BY <1>10 DEF Fetch, FetchToPause, FetchToActivate, FetchToDelete, Granted
<1>11. CASE Send(c)
  BY <1>11 DEF Send, Granted, Outstanding
<1>12. CASE Prepare(c) \/ Refuse(c) \/ Confirmed(c) \/ Unconfirmed(c)
  <2>1. pc[c] \in {"send", "wait"} /\ seen' = seen /\ job' = job
    BY <1>12 DEF Prepare, Refuse, Confirmed, Unconfirmed
  <2> QED BY <2>1 DEF Granted, Outstanding
<1> QED BY <1>1, <1>2, <1>3, <1>4, <1>5, <1>6, <1>7, <1>8, <1>9, <1>10, <1>11,
           <1>12 DEF CallStep

\* What a call step can add to the names in use was in use already.
LEMMA CallStepOccupied ==
    ASSUME TypeOK, CallControl, NEW c \in Calls, Start(c) \/ CallStep(c), NEW d \in Dons,
           ~CheckLimit(c) \/ Don(c) # d
    PROVE  Occupied(d)' \subseteq Occupied(d)
<1> SUFFICES ASSUME NEW n \in Occupied(d)' PROVE n \in Occupied(d)
  OBVIOUS
<1>1. /\ entries' = entries /\ job' = job /\ moved \subseteq moved'
      /\ \A x \in Calls \ {c} : /\ x \in Outstanding' <=> x \in Outstanding
                                /\ Granted(x)' <=> Granted(x)
  BY OwnStep
<1>2. n \notin Moved(d)
  BY <1>1 DEF Occupied, Moved
<1>3. CASE n \in ActiveNames(d)'
  BY <1>1, <1>2, <1>3 DEF Occupied, ActiveNames, ActiveOn
<1>4. CASE n \in Claims(d)'
  <2>1. PICK x \in Outstanding' : Don(x) = d /\ Granted(x)' /\ n = Name(x)
    BY <1>1, <1>4 DEF Claims, Don, Name
  <2>2. x \in Calls
    BY <2>1 DEF Outstanding
  <2>3. CASE x # c
    <3>1. x \in Outstanding /\ Granted(x)
      BY <1>1, <2>1, <2>2, <2>3
    <3> QED BY <1>2, <2>1, <3>1 DEF Occupied, Claims
  <2>4. CASE x = c
    <3>1. \/ c \in Outstanding /\ Granted(c)
          \/ Name(c) \in ActiveNames(Don(c))
          \/ <<Name(c), Don(c)>> \in moved'
      BY <2>1, <2>4, ClaimOrigin
    <3>2. <<Name(c), Don(c)>> \notin moved'
      <4>1. Name(c) \in Names
        BY DataAssumption DEF TypeOK, Job, Name
      <4> QED BY <2>1, <2>4, <4>1 DEF Occupied, Moved
    <3> QED BY <1>2, <2>1, <2>4, <3>1, <3>2 DEF Occupied, Claims
  <2> QED BY <2>3, <2>4
<1> QED BY <1>3, <1>4 DEF Occupied

\* The check of the limit leaves room for the call that passes it; every other
\* name it does not count is held by another call.
LEMMA CheckLimitBound ==
    ASSUME TypeOK, OverlapBounded, NEW c \in Calls, CheckLimit(c), NEW d \in Dons, Don(c) = d
    PROVE  Cardinality(Occupied(d)') <= Limit + MaxOverlap - 1
<1> DEFINE S == ActiveNames(d) \cup Claims(d)'
<1>1. entries' = entries /\ job' = job /\ pending' = pending /\ c \in Outstanding
      /\ pc' = [pc EXCEPT ![c] = "send"]
  BY DEF CheckLimit, Go, registryVars, Outstanding
<1>2. Outstanding' = Outstanding
  BY <1>1 DEF Outstanding, HasPending, TypeOK
<1>3. /\ IsFiniteSet(Claims(d)')
      /\ Cardinality(Claims(d)') <= Cardinality(Outstanding)
  <2> DEFINE H == {x \in Outstanding' : Don(x)' = d /\ Granted(x)'}
             f == [x \in H |-> Name(x)]
  <2>1. IsFiniteSet(Outstanding) /\ H \in SUBSET Outstanding
    BY <1>2, ClaimsFinite
  <2>2. IsFiniteSet(H) /\ Cardinality(H) <= Cardinality(Outstanding)
    BY <2>1, FS_Subset
  <2>3. Claims(d)' = {Name(x) : x \in H}
    BY <1>1 DEF Claims, Name
  <2> HIDE DEF H
  <2>4. f \in Surjection(H, Claims(d)')
    BY <2>3 DEF Surjection
  <2>5. IsFiniteSet(Claims(d)') /\ Cardinality(Claims(d)') <= Cardinality(H)
    BY <2>2, <2>4, FS_Surjection
  <2>6. Cardinality(H) \in Nat /\ Cardinality(Outstanding) \in Nat
        /\ Cardinality(Claims(d)') \in Nat
    BY <2>1, <2>2, <2>5, FS_CardinalityType
  <2> QED BY <2>2, <2>5, <2>6
<1>4. IsFiniteSet(ActiveNames(d)) /\ Cardinality(ActiveNames(d)) + 1 <= Limit
  <2>1. Cardinality(ActiveNames(d)) \in Nat /\ Cardinality(ActiveOn(entries, d)) \in Nat
    BY ActiveFinite, FS_CardinalityType
  <2>2. Cardinality(ActiveOn(entries, d)) + 1 <= Limit
    BY DEF CheckLimit
  <2> QED BY <2>1, <2>2, ActiveFinite, BoundAssumption
<1>5. /\ IsFiniteSet(S)
      /\ Cardinality(S) <= Cardinality(ActiveNames(d)) + Cardinality(Claims(d)')
  <2>1. /\ IsFiniteSet(S)
        /\ Cardinality(S) = Cardinality(ActiveNames(d)) + Cardinality(Claims(d)')
                              - Cardinality(ActiveNames(d) \cap Claims(d)')
    BY <1>3, <1>4, FS_Union
  <2>2. IsFiniteSet(ActiveNames(d) \cap Claims(d)')
    BY <1>4, FS_Intersection
  <2>3. Cardinality(ActiveNames(d) \cap Claims(d)') \in Nat
        /\ Cardinality(ActiveNames(d)) \in Nat /\ Cardinality(Claims(d)') \in Nat
    BY <1>3, <1>4, <2>2, FS_CardinalityType
  <2> QED BY <2>1, <2>3
<1>6. Occupied(d)' \in SUBSET S
  BY <1>1 DEF Occupied, ActiveNames, ActiveOn
<1>7. IsFiniteSet(Occupied(d)') /\ Cardinality(Occupied(d)') <= Cardinality(S)
  BY <1>5, <1>6, FS_Subset
<1>8. /\ Cardinality(Occupied(d)') \in Nat
      /\ Cardinality(S) \in Nat
      /\ Cardinality(ActiveNames(d)) \in Nat
      /\ Cardinality(Claims(d)') \in Nat
      /\ Cardinality(Outstanding) \in Nat
  BY <1>3, <1>4, <1>5, <1>7, ClaimsFinite, FS_CardinalityType
<1> QED BY <1>3, <1>4, <1>5, <1>7, <1>8, BoundAssumption DEF OverlapBounded

\* A transaction that lands makes active only the name its call holds.
LEMMA EnvironmentOccupied ==
    ASSUME TypeOK, CallControl, Named, NEW d \in Dons,
           (\E t \in pending : Land(t) \/ Drop(t)) \/ Unlink \/ Relink \/ Cleanup
    PROVE  Occupied(d)' \subseteq Occupied(d)
<1>1. /\ pending' \subseteq pending
      /\ UNCHANGED <<job, pc, seen, moved>>
  BY DEF Land, LandUpsert, LandPause, LandActivate, LandDelete, Mined, Drop, Unlink,
         Relink, Cleanup, callVars, historyVars
<1>2. Outstanding' \subseteq Outstanding /\ \A x \in Calls : Granted(x)' <=> Granted(x)
  BY <1>1 DEF Outstanding, HasPending, Granted, Cmd
<1>3. Claims(d)' \subseteq Claims(d) /\ Moved(d)' = Moved(d)
  BY <1>1, <1>2 DEF Claims, Moved, Name, Don, Outstanding
<1>4. SUFFICES ASSUME NEW v \in Versions, v \in ActiveOn(entries, d)'
               PROVE  v[1] \in ActiveNames(d) \cup Claims(d)
  BY <1>3 DEF Occupied, ActiveNames, ActiveOn
<1>5. entries'[v] # None /\ entries'[v].status = "active" /\ entries'[v].don = d
  BY <1>4 DEF ActiveOn
<1>6. entries'[v] = entries[v] => v[1] \in ActiveNames(d)
  BY <1>5 DEF ActiveNames, ActiveOn
<1>7. ASSUME NEW t \in pending, Land(t)
      PROVE  v[1] \in ActiveNames(d) \cup Claims(d)
  <2>1. t.call \in Calls /\ HasPending(t.call) /\ t.call \in Outstanding
    BY DEF TypeOK, Tx, HasPending, Outstanding
  <2>2. pc[t.call] \in {"send", "wait", "done"}
    BY <2>1 DEF CallControl
  <2>3. ASSUME NEW vs, vs \subseteq {w \in Versions : entries[w] # None},
               v \in vs
        PROVE  [entries[v] EXCEPT !.status = "paused"].status = "paused"
    <3>1. entries[v] \in Entry
      BY <2>3 DEF TypeOK, Registry
    <3> QED BY <3>1 DEF Entry
  <2>4. CASE LandUpsert(t)
    <3> DEFINE c == t.call
               key == <<Name(c), CliTag>>
               other(hush) == {w \in VersionsOf(Name(c)) : w # key /\ hush}
    <3>1. PICK age, hush : entries' = Upsert(t, age, hush)
      BY <2>4 DEF LandUpsert
    <3>2. CASE v = key
      <4>1. key \in Versions
        BY <3>2
      <4>2. entries'[key] = [id |-> ArtifactId(c), status |-> UpsertStatus(c),
                             don |-> Don(c), born |-> age]
        BY <3>1, <4>1 DEF Upsert, SetStatus
      <4>3. seen[c] # "paused" /\ Don(c) = d
        BY <1>5, <3>2, <4>2 DEF UpsertStatus
      <4>4. Granted(c)
        BY <2>1, <2>2, <2>4, <4>3 DEF Granted, LandUpsert, TypeOK
      <4> QED BY <2>1, <3>2, <4>3, <4>4 DEF Claims
    <3>3. CASE v # key
      <4>1. entries'[v] = IF v \in other(hush) THEN [entries[v] EXCEPT !.status = "paused"]
                                              ELSE entries[v]
        BY <3>1, <3>3 DEF Upsert, SetStatus
      <4>2. v \notin other(hush)
        BY <1>5, <4>1, <2>3 DEF VersionsOf
      <4> QED BY <1>6, <4>1, <4>2
    <3> QED BY <3>2, <3>3
  <2>5. CASE LandPause(t)
    <3>1. v \notin Holders(t.ids)
      BY <1>5, <2>5, <2>3 DEF LandPause, SetStatus, Holders
    <3> QED BY <1>6, <2>5, <3>1 DEF LandPause, SetStatus
  <2>6. CASE LandActivate(t)
    <3>1. CASE v \in Holders(t.ids)
      <4>1. entries[v] \in Entry /\ entries[v] # None /\ entries[v].id \in t.ids
        BY <3>1 DEF Holders, TypeOK, Registry
      <4>2. v[1] = Name(t.call)
        BY <4>1 DEF Named
      <4>3. Don(t.call) = d
        BY <1>5, <2>6, <3>1, <4>1 DEF LandActivate, Entry
      <4>4. Granted(t.call)
        BY <2>2, <2>6 DEF Granted, LandActivate
      <4> QED BY <2>1, <4>2, <4>3, <4>4 DEF Claims
    <3>2. CASE v \notin Holders(t.ids)
      BY <1>6, <2>6, <3>2 DEF LandActivate
    <3> QED BY <3>1, <3>2
  <2>7. CASE LandDelete(t)
    BY <1>5, <1>6, <2>7 DEF LandDelete
  <2> QED BY <1>7, <2>4, <2>5, <2>6, <2>7 DEF Land
<1>8. CASE (\E t \in pending : Drop(t)) \/ Relink \/ Cleanup
  BY <1>6, <1>8 DEF Drop, Relink, Cleanup, registryVars
<1>9. CASE Unlink
  BY <1>5, <1>9 DEF Unlink
<1> QED BY <1>7, <1>8, <1>9

LEMMA OverlapNext ==
    ASSUME TypeOK, CallControl, OverlapBounded, [Next]_vars
    PROVE  OverlapBounded'
<1>1. IsFiniteSet(Outstanding) /\ Cardinality(Outstanding) \in Nat
  BY FiniteAssumption, FS_Subset, FS_CardinalityType DEF Outstanding
<1>2. ASSUME Outstanding' \subseteq Outstanding
      PROVE  OverlapBounded'
  <2>1. IsFiniteSet(Outstanding') /\ Cardinality(Outstanding') <= Cardinality(Outstanding)
    BY <1>1, <1>2, FS_Subset
  <2>2. Cardinality(Outstanding') \in Nat
    BY <2>1, FS_CardinalityType
  <2> QED BY <1>1, <2>1, <2>2, BoundAssumption DEF OverlapBounded
<1>3. CASE UNCHANGED vars
  <2>1. Outstanding' = Outstanding
    BY <1>3 DEF vars, Outstanding, HasPending
  <2> QED BY <1>2, <2>1
<1>4. ASSUME NEW c \in Calls, Start(c)
      PROVE  OverlapBounded'
  <2>1. \A x \in Calls \ {c} : x \in Outstanding' <=> x \in Outstanding
    BY <1>4, OwnStep
  <2>2. Outstanding' \subseteq Outstanding \cup {c}
    BY <2>1 DEF Outstanding
  <2>3. /\ IsFiniteSet(Outstanding \cup {c})
        /\ Cardinality(Outstanding \cup {c}) <= Cardinality(Outstanding) + 1
    BY <1>1, FS_AddElement
  <2>4. /\ IsFiniteSet(Outstanding')
        /\ Cardinality(Outstanding') <= Cardinality(Outstanding \cup {c})
    BY <2>2, <2>3, FS_Subset
  <2>5. /\ Cardinality(Outstanding \cup {c}) \in Nat
        /\ Cardinality(Outstanding') \in Nat
    BY <2>3, <2>4, FS_CardinalityType
  <2>6. Cardinality(Outstanding) < MaxOverlap
    BY <1>4 DEF Start
  <2> QED BY <1>1, <2>3, <2>4, <2>5, <2>6, BoundAssumption DEF OverlapBounded
<1>5. ASSUME NEW c \in Calls, CallStep(c)
      PROVE  OverlapBounded'
  <2>1. \A x \in Calls \ {c} : x \in Outstanding' <=> x \in Outstanding
    BY <1>5, OwnStep
  <2>2. pc[c] \notin {"idle", "done"}
    BY <1>5 DEF CallStep, Abort, VerifyOwner, AutoLink, CheckExists, Accept, Decline,
         Upload, CountSameName, CheckLimit, Fetch, FetchToPause, FetchToActivate,
         FetchToDelete, Send, Prepare, Refuse, Confirmed, Unconfirmed, Go
  <2>3. Outstanding' \subseteq Outstanding
    BY <2>1, <2>2 DEF Outstanding
  <2> QED BY <1>2, <2>3
<1>6. CASE (\E t \in pending : Land(t) \/ Drop(t)) \/ Unlink \/ Relink \/ Cleanup
  <2>1. pending' \subseteq pending /\ pc' = pc
    BY <1>6 DEF Land, LandUpsert, LandPause, LandActivate, LandDelete, Mined, Drop,
                Unlink, Relink, Cleanup, callVars
  <2>2. Outstanding' \subseteq Outstanding
    BY <2>1 DEF Outstanding, HasPending
  <2> QED BY <1>2, <2>2
<1> QED BY <1>3, <1>4, <1>5, <1>6 DEF Next

LEMMA LimitNext ==
    ASSUME TypeOK, CallControl, Named, OverlapBounded, LimitOvershoot, [Next]_vars
    PROVE  LimitOvershoot'
<1> SUFFICES ASSUME NEW d \in Dons
             PROVE  Cardinality(Occupied(d)') <= Limit + MaxOverlap - 1
  BY DEF LimitOvershoot, Occupied
<1>1. /\ IsFiniteSet(Occupied(d))
      /\ Cardinality(Occupied(d)) \in Nat
      /\ Cardinality(Occupied(d)) <= Limit + MaxOverlap - 1
  BY OccupiedFinite, FS_CardinalityType DEF LimitOvershoot, Occupied
<1>2. ASSUME Occupied(d)' \subseteq Occupied(d)
      PROVE  Cardinality(Occupied(d)') <= Limit + MaxOverlap - 1
  <2>1. /\ IsFiniteSet(Occupied(d)')
        /\ Cardinality(Occupied(d)') <= Cardinality(Occupied(d))
    BY <1>1, <1>2, FS_Subset
  <2>2. Cardinality(Occupied(d)') \in Nat
    BY <2>1, FS_CardinalityType
  <2> QED BY <1>1, <2>1, <2>2, BoundAssumption
<1>3. CASE UNCHANGED vars
  <2>1. Occupied(d)' = Occupied(d)
    BY <1>3 DEF vars, Occupied, ActiveNames, ActiveOn, Claims, Outstanding, HasPending,
                Granted, Cmd, Don, Name, Moved
  <2> QED BY <1>2, <2>1
<1>4. ASSUME NEW c \in Calls, Start(c) \/ CallStep(c)
      PROVE  Cardinality(Occupied(d)') <= Limit + MaxOverlap - 1
  <2>1. CASE ~CheckLimit(c) \/ Don(c) # d
    BY <1>2, <1>4, <2>1, CallStepOccupied
  <2>2. CASE CheckLimit(c) /\ Don(c) = d
    BY <2>2, CheckLimitBound
  <2> QED BY <2>1, <2>2
<1>5. CASE (\E t \in pending : Land(t) \/ Drop(t)) \/ Unlink \/ Relink \/ Cleanup
  BY <1>2, <1>5, EnvironmentOccupied
<1> QED BY <1>3, <1>4, <1>5 DEF Next

LEMMA LimitInit == Init => LimitInv
<1> SUFFICES ASSUME Init PROVE LimitInv
  OBVIOUS
<1>1. TypeOK
  BY TypeInit
<1>2. Outstanding = {} /\ CallControl
  BY DEF Init, Outstanding, HasPending, CallControl
<1>3. Named
  BY PreregisteredAssumption DEF Init, Named
<1>4. OverlapBounded
  BY <1>2, FS_EmptySet, BoundAssumption DEF OverlapBounded
<1>5. LimitOvershoot
  <2> SUFFICES ASSUME NEW d \in Dons
               PROVE  Cardinality(Occupied(d)) <= Limit + MaxOverlap - 1
    BY DEF LimitOvershoot, Occupied
  <2>1. Claims(d) = {} /\ Moved(d) = {}
    BY <1>2 DEF Claims, Moved, Init
  <2>2. Occupied(d) = ActiveNames(d)
    BY <2>1 DEF Occupied
  <2>3. /\ Cardinality(ActiveNames(d)) <= Cardinality(ActiveOn(entries, d))
        /\ Cardinality(ActiveNames(d)) \in Nat
        /\ Cardinality(ActiveOn(entries, d)) \in Nat
    BY ActiveFinite, FS_CardinalityType
  <2>4. Cardinality(ActiveOn(entries, d)) <= Limit
    BY PreregisteredAssumption DEF Init
  <2> QED BY <2>2, <2>3, <2>4, BoundAssumption
<1> QED BY <1>1, <1>2, <1>3, <1>4, <1>5 DEF LimitInv

\* However calls overlap, the names active on a DON family, together with those
\* of the calls let through, exceed the limit by less than the number of calls
\* that may be outstanding.
THEOREM LimitSafety == Spec => []LimitOvershoot
<1>1. Init => LimitInv
  BY LimitInit
<1>2. LimitInv /\ [Next]_vars => LimitInv'
  <2> SUFFICES ASSUME LimitInv, [Next]_vars PROVE LimitInv'
    OBVIOUS
  <2>1. TypeOK' /\ CallControl' /\ Named' /\ OverlapBounded' /\ LimitOvershoot'
    BY TypeNext, ControlNext, NamedNext, OverlapNext, LimitNext DEF LimitInv
  <2> QED BY <2>1 DEF LimitInv
<1>3. LimitInv => LimitOvershoot
  BY DEF LimitInv
<1> QED BY <1>1, <1>2, <1>3, PTL DEF Spec

----------------------------------------------------------------------------
(* Artifacts.                                                              *)

\* What was uploaded and is in use stays stored or is known to be orphaned.
LEMMA Kept ==
    ASSUME TypeOK, [Next]_vars,
           NEW i \in stored \cup orphaned, InUse(i) \/ ~Cleanup
    PROVE  i \in stored' \cup orphaned'
<1> USE DEF registryVars, storeVars, historyVars
<1>1. CASE Cleanup
  BY <1>1 DEF Cleanup, TypeOK
<1>2. ASSUME NEW c \in Calls, Start(c) \/ CallStep(c)
      PROVE  i \in stored' \cup orphaned'
  <2>1. CASE Upload(c)
    BY <2>1 DEF Upload
  <2>2. CASE ~Upload(c)
    BY <1>2, <2>2 DEF CallStep, Start, Abort, VerifyOwner, AutoLink, CheckExists,
         Accept, Decline, CountSameName, CheckLimit, Fetch, FetchToPause,
         FetchToActivate, FetchToDelete, Send, Prepare, Refuse, Confirmed, Unconfirmed
  <2> QED BY <2>1, <2>2
<1>3. CASE (\E t \in pending : Land(t) \/ Drop(t)) \/ Unlink \/ Relink \/ UNCHANGED vars
  BY <1>3 DEF Land, LandUpsert, LandPause, LandActivate, LandDelete, Mined, Drop,
              Unlink, Relink, vars
<1> QED BY <1>1, <1>2, <1>3 DEF Next

\* Only the upload takes a deploy to where it has uploaded.
LEMMA UploadedOrigin ==
    ASSUME TypeOK, CallControl, [Next]_vars, NEW x \in Calls, Uploaded(x)'
    PROVE  Uploaded(x) \/ Upload(x)
<1> USE DEF TypeOK, CallControl, Uploaded, HasPending, Go, Tell, registryVars,
            storeVars, historyVars, callVars, Cmd
<1>1. CASE UNCHANGED vars
  BY <1>1 DEF vars
<1>2. ASSUME NEW c \in Calls, Start(c) \/ CallStep(c)
      PROVE  Uploaded(x) \/ Upload(x)
  <2>1. CASE \/ Start(c) \/ Abort(c) \/ VerifyOwner(c) \/ AutoLink(c) \/ CheckExists(c)
             \/ Accept(c) \/ Decline(c)
    BY <2>1 DEF Start, Abort, VerifyOwner, AutoLink, CheckExists, Accept, Decline
  <2>2. CASE Upload(c)
    BY <2>2 DEF Upload
  <2>3. CASE CountSameName(c) \/ CheckLimit(c) \/ Fetch(c)
    BY <2>3 DEF CountSameName, CheckLimit, Fetch, FetchToPause, FetchToActivate,
                FetchToDelete
  <2>4. CASE Send(c) \/ Prepare(c) \/ Refuse(c) \/ Confirmed(c) \/ Unconfirmed(c)
    <3>1. /\ pc[c] \in {"send", "wait"}
          /\ UNCHANGED job
          /\ \A y \in Calls \ {c} : pc'[y] = pc[y]
      BY <2>4 DEF Send, Prepare, Refuse, Confirmed, Unconfirmed, Settle
    <3>2. \/ pending' = pending
          \/ \E ids : pending' = pending \cup {[call |-> c, ids |-> ids]}
      BY <2>4 DEF Send, Prepare, Refuse, Confirmed, Unconfirmed
    <3>3. HasPending(x)' => HasPending(x) \/ x = c
      BY <3>2
    <3> QED BY <3>1, <3>3
  <2> QED BY <1>2, <2>1, <2>2, <2>3, <2>4 DEF CallStep
<1>3. CASE (\E t \in pending : Land(t) \/ Drop(t)) \/ Unlink \/ Relink \/ Cleanup
  <2>1. pending' \subseteq pending /\ UNCHANGED <<job, pc>>
    BY <1>3 DEF Land, LandUpsert, LandPause, LandActivate, LandDelete, Mined, Drop,
                Unlink, Relink, Cleanup
  <2> QED BY <2>1
<1> QED BY <1>1, <1>2, <1>3 DEF Next

LEMMA UploadedNext ==
    ASSUME TypeOK, CallControl, UploadedFirst, [Next]_vars
    PROVE  UploadedFirst'
<1> SUFFICES ASSUME NEW x \in Calls, Uploaded(x)'
             PROVE  ArtifactId(x)' \in stored' \cup orphaned'
  BY DEF UploadedFirst
<1>1. ArtifactId(x)' = ArtifactId(x)
  <2>1. job' = job
    <3>1. CASE \E c \in Calls : Start(c) \/ CallStep(c)
      BY <3>1, OwnStep
    <3>2. CASE ~\E c \in Calls : Start(c) \/ CallStep(c)
      BY <3>2 DEF Next, Land, LandUpsert, LandPause, LandActivate, LandDelete, Mined,
                  Drop, Unlink, Relink, Cleanup, vars
    <3> QED BY <3>1, <3>2
  <2> QED BY <2>1 DEF ArtifactId
<1>2. CASE Uploaded(x)
  BY <1>1, <1>2, Kept DEF UploadedFirst, InUse
<1>3. CASE Upload(x)
  BY <1>1, <1>3 DEF Upload
<1> QED BY <1>2, <1>3, UploadedOrigin

\* The contract only ever comes to hold the id of a deploy that landed.
LEMMA NewIdsAreDeployed ==
    ASSUME TypeOK, [Next]_vars, NEW v \in Versions, entries'[v] # None
    PROVE  \/ entries[v] # None /\ entries'[v].id = entries[v].id
           \/ \E t \in pending : Cmd(t.call) = "deploy" /\ entries'[v].id = ArtifactId(t.call)
<1>1. CASE entries' = entries
  BY <1>1
<1>2. CASE Unlink
  BY <1>2 DEF Unlink
<1>3. ASSUME NEW t \in pending, LandUpsert(t)
      PROVE  \/ entries[v] # None /\ entries'[v].id = entries[v].id
             \/ Cmd(t.call) = "deploy" /\ entries'[v].id = ArtifactId(t.call)
  <2> DEFINE key == <<Name(t.call), CliTag>>
  <2>1. PICK age, hush : entries' = Upsert(t, age, hush)
    BY <1>3 DEF LandUpsert
  <2>2. CASE v = key
    BY <1>3, <2>1, <2>2 DEF Upsert, SetStatus, LandUpsert
  <2>3. CASE v # key
    <3>1. \/ entries'[v] = entries[v]
          \/ v \in VersionsOf(Name(t.call))
             /\ entries'[v] = [entries[v] EXCEPT !.status = "paused"]
      BY <2>1, <2>3 DEF Upsert, SetStatus
    <3>2. v \in VersionsOf(Name(t.call)) => entries[v] \in Entry
      BY DEF VersionsOf, TypeOK, Registry
    <3> QED BY <3>1, <3>2 DEF VersionsOf, Entry
  <2> QED BY <2>2, <2>3
<1>4. ASSUME NEW t \in pending, LandPause(t) \/ LandActivate(t) \/ LandDelete(t)
      PROVE  entries[v] # None /\ entries'[v].id = entries[v].id
  <2>1. v \in Holders(t.ids) => entries[v] \in Entry /\ entries[v] # None
    BY DEF Holders, TypeOK, Registry
  <2>2. CASE LandPause(t)
    BY <2>1, <2>2 DEF LandPause, SetStatus, Entry
  <2>3. CASE LandActivate(t)
    BY <2>1, <2>3 DEF LandActivate, Entry
  <2>4. CASE LandDelete(t)
    BY <2>1, <2>4 DEF LandDelete
  <2> QED BY <1>4, <2>2, <2>3, <2>4
<1>5. CASE \E c \in Calls : Start(c) \/ CallStep(c)
  BY <1>1, <1>5, OwnStep
<1>6. CASE (\E t \in pending : Drop(t)) \/ Relink \/ Cleanup \/ UNCHANGED vars
  BY <1>1, <1>6 DEF Drop, Relink, Cleanup, registryVars, vars
<1> QED BY <1>2, <1>3, <1>4, <1>5, <1>6 DEF Next, Land

\* No interleaving of calls, transactions that land late and cleanups registers
\* a workflow whose artifacts are gone, unless a cleanup took them after the last
\* upload, while the id was registered or its deploy on the way (deploy.go uploads
\* before it registers, every time).
THEOREM StoredSafety == Spec => []RegisteredIsStored
<1>1. Init => StoredInv
  <2> SUFFICES ASSUME Init PROVE StoredInv
    OBVIOUS
  <2>1. TypeOK /\ CallControl
    BY LimitInit DEF LimitInv
  <2>2. UploadedFirst /\ RegisteredIsStored
    BY DEF Init, UploadedFirst, Uploaded, HasPending, RegisteredIsStored
  <2> QED BY <2>1, <2>2 DEF StoredInv
<1>2. StoredInv /\ [Next]_vars => StoredInv'
  <2> SUFFICES ASSUME StoredInv, [Next]_vars PROVE StoredInv'
    OBVIOUS
  <2>1. TypeOK' /\ CallControl' /\ UploadedFirst'
    BY TypeNext, ControlNext, UploadedNext DEF StoredInv
  <2>2. ASSUME NEW v \in Versions, entries'[v] # None
        PROVE  entries'[v].id \in stored' \cup orphaned'
    <3>1. CASE entries[v] # None /\ entries'[v].id = entries[v].id
      BY <3>1, Kept DEF StoredInv, RegisteredIsStored, InUse
    <3>2. ASSUME NEW t \in pending,
                 Cmd(t.call) = "deploy" /\ entries'[v].id = ArtifactId(t.call)
          PROVE  entries'[v].id \in stored' \cup orphaned'
      <4>1. t.call \in Calls /\ Uploaded(t.call)
        BY <3>2 DEF StoredInv, TypeOK, Tx, HasPending, Uploaded
      <4> QED BY <3>2, <4>1, Kept DEF StoredInv, UploadedFirst, InUse
    <3> QED BY <2>2, <3>1, <3>2, NewIdsAreDeployed DEF StoredInv
  <2>3. RegisteredIsStored'
    BY <2>2 DEF RegisteredIsStored
  <2> QED BY <2>1, <2>3 DEF StoredInv
<1>3. StoredInv => RegisteredIsStored
  BY DEF StoredInv
<1> QED BY <1>1, <1>2, <1>3, PTL DEF Spec

----------------------------------------------------------------------------
(***************************************************************************)
(* The transactions of the calls: what a call that ended has left on the   *)
(* chain, and what a transaction still does when it lands long after the   *)
(* call looked at the registry.                                            *)
(***************************************************************************)

\* Everything a call ever handed over and that can still count.
Txs(c) == {t \in pending \cup landed : t.call = c}

QuietOutcomes == {"cancelled", "nothing", "unchanged", "halted"}

\* Only a call that is through with its checks has transactions, and one that
\* ended quietly has none.
TxsInOrder ==
    \A c \in Calls :
        /\ Txs(c) # {} => pc[c] \in {"send", "wait", "done"}
        /\ outcome[c] \in QuietOutcomes => pc[c] = "done" /\ Txs(c) = {}

\* Every id a call that saw no failure is through with was in a transaction of
\* its own that landed.
ProgressOf(c) ==
    /\ todo[c] \subseteq targets[c]
    /\ pc[c] = "wait" => Direct(c)
    /\ \A t \in Txs(c) : t.ids \subseteq targets[c]
    /\ outcome[c] = "ok" => Direct(c) /\ (pc[c] = "done" => todo[c] = {})
    /\ outcome[c] = "prepared" => ~Direct(c)
    /\ Direct(c) /\ outcome[c] \in {"none", "ok"} =>
          \A i \in targets[c] \ todo[c] : \E t \in landed : t.call = c /\ i \in t.ids

\* A command other than delete hands over one transaction, for all its ids
\* unless it is the changeset of a pause.
OneTxOf(c) ==
    /\ pc[c] # "done" => todo[c] = targets[c]
    /\ pc[c] = "wait" => cur[c] = todo[c]
    /\ Txs(c) # {} => pc[c] \in {"wait", "done"}
    /\ \A t, u \in Txs(c) : t = u
    /\ \A t \in Txs(c) :
          IF Cmd(c) = "pause" /\ job[c].mode = "changeset"
          THEN \E i \in Ids : t.ids = {i} ELSE t.ids = targets[c]
    /\ IsFiniteSet(targets[c])

Progress == \A c \in Calls : ProgressOf(c)
OneTx    == \A c \in Calls : Cmd(c) # "delete" => OneTxOf(c)

\* What a deploy saw under its version, and what a pause found active, is what
\* the registry holds.
DeployViewHolds(c) ==
    LET found == entries[<<Name(c), CliTag>>] IN
    /\ found = None => seen[c] = "none"
    /\ found # None => seen[c] = found.status /\ found.id # ArtifactId(c)

PauseViewHolds(c) ==
    \A v \in VersionsOf(Name(c)) :
        entries[v].status = "active" => entries[v].id \in targets[c]

\* As long as nothing overtook a call that can still land a transaction, its
\* view of its name is the registry's.
FreshOf(c) ==
    pc[c] \in {"confirm", "upload", "count", "limit", "send"} \/ HasPending(c) =>
        /\ Cmd(c) = "deploy" => DeployViewHolds(c)
        /\ Cmd(c) = "pause" => PauseViewHolds(c)

FreshView == \A c \in Calls \ disturbed : FreshOf(c)

CallInv == TypeOK /\ CallControl /\ Named /\ TxsInOrder /\ Progress /\ OneTx /\ FreshView

----------------------------------------------------------------------------
(* Who changes what.                                                       *)

\* A step of call c leaves every other call, and the registry, as they are.
LEMMA OthersKeep ==
    ASSUME TypeOK, NEW c \in Calls, Start(c) \/ CallStep(c)
    PROVE  /\ UNCHANGED <<entries, job, landed>>
           /\ \A x \in Calls \ {c} :
                 /\ pc'[x] = pc[x] /\ outcome'[x] = outcome[x] /\ seen'[x] = seen[x]
                 /\ targets'[x] = targets[x] /\ todo'[x] = todo[x] /\ cur'[x] = cur[x]
                 /\ x \in disturbed' <=> x \in disturbed
                 /\ Txs(x)' = Txs(x)
                 /\ HasPending(x)' <=> HasPending(x)
<1> USE DEF TypeOK, Go, Tell, registryVars, storeVars, historyVars
<1>1. UNCHANGED <<entries, job, landed>>
  BY DEF CallStep, Start, Abort, VerifyOwner, AutoLink, CheckExists, Accept,
         Decline, Upload, CountSameName, CheckLimit, Fetch, FetchToPause,
         FetchToActivate, FetchToDelete, Send, Prepare, Refuse, Confirmed, Unconfirmed
<1>2. ASSUME NEW x \in Calls \ {c}
      PROVE  /\ pc'[x] = pc[x] /\ outcome'[x] = outcome[x] /\ seen'[x] = seen[x]
             /\ targets'[x] = targets[x] /\ todo'[x] = todo[x] /\ cur'[x] = cur[x]
             /\ x \in disturbed' <=> x \in disturbed
  <2>1. CASE \/ Start(c) \/ Abort(c) \/ VerifyOwner(c) \/ AutoLink(c) \/ CheckExists(c)
             \/ Accept(c) \/ Decline(c) \/ Upload(c) \/ CountSameName(c) \/ CheckLimit(c)
    BY <2>1 DEF Start, Abort, VerifyOwner, AutoLink, CheckExists, Accept, Decline,
                Upload, CountSameName, CheckLimit
  <2>2. CASE Fetch(c)
    BY <2>2 DEF Fetch, FetchToPause, FetchToActivate, FetchToDelete, Target
  <2>3. CASE Send(c) \/ Prepare(c) \/ Refuse(c) \/ Confirmed(c) \/ Unconfirmed(c)
    BY <2>3 DEF Send, Prepare, Refuse, Confirmed, Unconfirmed, Settle
  <2> QED BY <2>1, <2>2, <2>3 DEF CallStep
<1>3. ASSUME NEW x \in Calls \ {c}
      PROVE  Txs(x)' = Txs(x) /\ (HasPending(x)' <=> HasPending(x))
  <2>1. \/ pending' = pending
        \/ \E ids : pending' = pending \cup {[call |-> c, ids |-> ids]}
    BY DEF CallStep, Start, Abort, VerifyOwner, AutoLink, CheckExists, Accept,
         Decline, Upload, CountSameName, CheckLimit, Fetch, FetchToPause,
         FetchToActivate, FetchToDelete, Send, Prepare, Refuse, Confirmed, Unconfirmed
  <2>2. \A t : t.call = x => (t \in pending' <=> t \in pending)
    BY <2>1
  <2> QED BY <1>1, <2>2 DEF Txs, HasPending
<1> QED BY <1>1, <1>2, <1>3

\* The transactions of the acting call grow by at most one, of ids it still has
\* to do, and only when it sends or prepares.
LEMMA OwnTxs ==
    ASSUME TypeOK, NEW c \in Calls, Start(c) \/ CallStep(c)
    PROVE  \/ Txs(c)' = Txs(c) /\ ~Send(c) /\ ~Prepare(c)
           \/ /\ Send(c) \/ Prepare(c)
              /\ \E ids \in Batches(c) : Txs(c)' = Txs(c) \cup {[call |-> c, ids |-> ids]}
<1>1. landed' = landed
  BY OthersKeep
<1>2. CASE Send(c) \/ Prepare(c)
  <2>1. PICK ids \in Batches(c) : pending' = pending \cup {[call |-> c, ids |-> ids]}
    BY <1>2 DEF Send, Prepare
  <2>2. Txs(c)' = Txs(c) \cup {[call |-> c, ids |-> ids]}
    BY <1>1, <2>1 DEF Txs
  <2> QED BY <1>2, <2>2
<1>3. CASE ~Send(c) /\ ~Prepare(c)
  <2>1. pending' = pending
    BY <1>3 DEF CallStep, Start, Abort, VerifyOwner, AutoLink, CheckExists, Accept,
         Decline, Upload, CountSameName, CheckLimit, Fetch, FetchToPause,
         FetchToActivate, FetchToDelete, Refuse, Confirmed, Unconfirmed, historyVars
  <2> QED BY <1>1, <1>3, <2>1 DEF Txs
<1> QED BY <1>2, <1>3

\* The chain, the signers and the owner's other tools change no call; landing
\* moves a transaction, dropping forgets it.
LEMMA EnvironmentKeeps ==
    ASSUME TypeOK,
           (\E t \in pending : Land(t) \/ Drop(t)) \/ Unlink \/ Relink \/ Cleanup \/ UNCHANGED vars
    PROVE  /\ UNCHANGED <<job, pc, seen, targets, todo, cur, outcome>>
           /\ pending' \subseteq pending
           /\ landed \subseteq landed'
           /\ disturbed \subseteq disturbed'
           /\ \A x \in Calls : Txs(x)' \subseteq Txs(x)
<1> USE DEF Txs, callVars, historyVars
<1>1. ASSUME NEW t \in pending, Mined(t)
      PROVE  /\ UNCHANGED <<job, pc, seen, targets, todo, cur, outcome>>
             /\ pending' \subseteq pending
             /\ landed \subseteq landed'
             /\ disturbed \subseteq disturbed'
             /\ \A x \in Calls : Txs(x)' \subseteq Txs(x)
  BY <1>1 DEF Mined
<1>2. ASSUME NEW t \in pending, Land(t) PROVE Mined(t)
  BY <1>2 DEF Land, LandUpsert, LandPause, LandActivate, LandDelete
<1>3. CASE \E t \in pending : Drop(t)
  BY <1>3 DEF Drop
<1>4. CASE Unlink \/ Relink \/ Cleanup \/ UNCHANGED vars
  <2>1. disturbed \subseteq disturbed'
    BY <1>4 DEF Unlink, Relink, Cleanup, vars, TypeOK
  <2> QED BY <1>4, <2>1 DEF Unlink, Relink, Cleanup, vars
<1> QED BY <1>1, <1>2, <1>3, <1>4

----------------------------------------------------------------------------
(* Endings.                                                                *)

LEMMA TxsInOrderNext ==
    ASSUME TypeOK, CallControl, TxsInOrder, [Next]_vars
    PROVE  TxsInOrder'
<1>1. ASSUME NEW c \in Calls, Start(c) \/ CallStep(c)
      PROVE  TxsInOrder'
  <2>1. \A x \in Calls \ {c} :
           /\ Txs(x)' # {} => pc'[x] \in {"send", "wait", "done"}
           /\ outcome'[x] \in QuietOutcomes => pc'[x] = "done" /\ Txs(x)' = {}
    BY <1>1, OthersKeep DEF TxsInOrder
  <2>2. SUFFICES /\ Txs(c)' # {} => pc'[c] \in {"send", "wait", "done"}
                 /\ outcome'[c] \in QuietOutcomes => pc'[c] = "done" /\ Txs(c)' = {}
    BY <2>1 DEF TxsInOrder
  <2>3. CASE Send(c) \/ Prepare(c)
    <3>1. pc[c] = "send" /\ pc'[c] \in {"send", "wait", "done"}
      BY <2>3 DEF Send, Prepare, Settle, Go, TypeOK
    <3>2. outcome'[c] \in {outcome[c], "failed", "prepared"}
      BY <2>3 DEF Send, Prepare, Settle, Tell, TypeOK
    <3>3. outcome'[c] \notin QuietOutcomes
      BY <3>1, <3>2 DEF TxsInOrder, QuietOutcomes
    <3> QED BY <3>1, <3>3
  <2>4. CASE Refuse(c) \/ Confirmed(c) \/ Unconfirmed(c)
    <3>1. Txs(c)' = Txs(c)
      BY <2>4 DEF Refuse, Confirmed, Unconfirmed, historyVars, Txs
    <3> QED BY <2>4 DEF Refuse, Confirmed, Unconfirmed, Settle, Tell, TypeOK,
                        QuietOutcomes
  <2>5. CASE ~Send(c) /\ ~Prepare(c) /\ ~Refuse(c) /\ ~Confirmed(c) /\ ~Unconfirmed(c)
    <3>1. Txs(c)' = Txs(c)
      BY <1>1, <2>5, OwnTxs
    <3>2. pc[c] \notin {"send", "wait", "done"}
      BY <1>1, <2>5 DEF CallStep, Start, Abort, VerifyOwner, AutoLink, CheckExists,
           Accept, Decline, Upload, CountSameName, CheckLimit, Fetch, FetchToPause,
           FetchToActivate, FetchToDelete, Go
    <3>3. Txs(c)' = {} /\ outcome[c] \notin QuietOutcomes
      BY <3>1, <3>2 DEF TxsInOrder
    <3>4. outcome'[c] \in QuietOutcomes => outcome'[c] = outcome[c] \/ pc'[c] = "done"
      BY <1>1, <2>5 DEF CallStep, Start, Abort, VerifyOwner, AutoLink, CheckExists,
           Accept, Decline, Upload, CountSameName, CheckLimit, Fetch, FetchToPause,
           FetchToActivate, FetchToDelete, Go, Tell, TypeOK
    <3> QED BY <3>3, <3>4
  <2> QED BY <2>3, <2>4, <2>5
<1>2. CASE (\E t \in pending : Land(t) \/ Drop(t)) \/ Unlink \/ Relink \/ Cleanup \/ UNCHANGED vars
  BY <1>2, EnvironmentKeeps DEF TxsInOrder
<1> QED BY <1>1, <1>2 DEF Next

\* What the end of a transaction does to its call.
LEMMA SettleEffect ==
    ASSUME TypeOK, NEW c \in Calls, NEW rest, NEW what, Settle(c, rest, what)
    PROVE  /\ todo'[c] = rest
           /\ pc'[c] = IF rest = {} THEN "done" ELSE "send"
           /\ outcome'[c] = IF outcome[c] = "failed" THEN "failed" ELSE what
BY DEF Settle, Tell, TypeOK

LEMMA ProgressNext ==
    ASSUME TypeOK, TxsInOrder, Progress, [Next]_vars
    PROVE  Progress'
<1>1. ASSUME NEW c \in Calls, Start(c) \/ CallStep(c)
      PROVE  Progress'
  <2>1. \A x \in Calls \ {c} : ProgressOf(x)'
    BY <1>1, OthersKeep DEF Progress, ProgressOf, Direct
  <2>2. SUFFICES ProgressOf(c)'
    BY <2>1 DEF Progress
  <2>3. ProgressOf(c) /\ job' = job /\ landed' = landed
    BY <1>1, OthersKeep DEF Progress
  <2>4. CASE \/ Start(c) \/ Abort(c) \/ VerifyOwner(c) \/ AutoLink(c) \/ CheckExists(c)
             \/ Accept(c) \/ Decline(c) \/ CountSameName(c) \/ CheckLimit(c)
    <3>1. UNCHANGED <<pending, targets, todo>>
      BY <2>4 DEF Start, Abort, VerifyOwner, AutoLink, CheckExists, Accept, Decline,
                  CountSameName, CheckLimit, historyVars
    <3>2. Txs(c)' = Txs(c)
      BY <2>3, <3>1 DEF Txs
    <3>3. /\ pc[c] \notin {"send", "wait", "done"} /\ pc'[c] # "wait"
          /\ outcome'[c] \in {"none", "ok"} => outcome'[c] = outcome[c]
          /\ outcome'[c] = "ok" => pc'[c] # "done"
          /\ outcome'[c] = "prepared" => outcome[c] = "prepared"
      BY <2>4 DEF Start, Abort, VerifyOwner, AutoLink, CheckExists, Accept, Decline,
                  CountSameName, CheckLimit, Go, Tell, TypeOK, Cmd
    <3> QED BY <2>3, <3>1, <3>2, <3>3 DEF ProgressOf, Direct
  <2>5. CASE Upload(c) \/ Fetch(c)
    <3>1. pc[c] \in {"upload", "fetch"} /\ pc'[c] # "wait"
      BY <2>5 DEF Upload, Fetch, FetchToPause, FetchToActivate, FetchToDelete, Go, TypeOK
    <3>2. UNCHANGED pending
      BY <2>5 DEF Upload, Fetch, FetchToPause, FetchToActivate, FetchToDelete
    <3>3. Txs(c)' = {}
      BY <2>3, <3>1, <3>2 DEF TxsInOrder, Txs
    <3>4. todo'[c] = targets'[c]
      <4>1. PICK ids : /\ todo' = [todo EXCEPT ![c] = ids]
                       /\ targets' = [targets EXCEPT ![c] = ids]
        BY <2>5 DEF Upload, Fetch, FetchToPause, FetchToActivate, FetchToDelete, Target
      <4> QED BY <4>1 DEF TypeOK
    <3>5. /\ outcome'[c] = "ok" => outcome[c] = "ok" /\ pc'[c] # "done"
          /\ outcome'[c] = "prepared" => outcome[c] = "prepared"
      BY <2>5 DEF Upload, Fetch, FetchToPause, FetchToActivate, FetchToDelete, Go, Tell,
                  TypeOK
    <3> QED BY <2>3, <3>1, <3>3, <3>4, <3>5 DEF ProgressOf, Direct
  <2>6. CASE Send(c)
    <3>1. PICK ids \in Batches(c) : Txs(c)' = Txs(c) \cup {[call |-> c, ids |-> ids]}
      BY <1>1, <2>6, OwnTxs
    <3>2. ids \subseteq todo[c]
      BY BatchesType
    <3>3. UNCHANGED <<targets, todo, outcome>> /\ Direct(c) /\ pc'[c] = "wait"
      BY <2>6 DEF Send, Go, TypeOK
    <3> QED BY <2>3, <3>1, <3>2, <3>3 DEF ProgressOf, Direct
  <2>7. CASE Prepare(c)
    <3>1. PICK ids \in Batches(c) : Txs(c)' = Txs(c) \cup {[call |-> c, ids |-> ids]}
      BY <1>1, <2>7, OwnTxs
    <3>2. ids \subseteq todo[c]
      BY BatchesType
    <3>3. PICK rest : rest \subseteq todo[c] /\ Settle(c, rest, "prepared")
      BY <2>7 DEF Prepare
    <3>4. UNCHANGED targets /\ ~Direct(c)
      BY <2>7 DEF Prepare
    <3>5. todo'[c] \subseteq todo[c] /\ outcome'[c] \notin {"none", "ok"}
          /\ pc'[c] # "wait"
      BY <3>3, SettleEffect
    <3> QED BY <2>3, <3>1, <3>2, <3>4, <3>5 DEF ProgressOf, Direct
  <2>8. CASE Refuse(c) \/ Unconfirmed(c)
    <3>1. PICK rest : rest \subseteq todo[c] /\ Settle(c, rest, "failed")
      BY <2>8 DEF Refuse, Unconfirmed
    <3>2. UNCHANGED <<targets, pending>>
      BY <2>8 DEF Refuse, Unconfirmed
    <3>3. todo'[c] \subseteq todo[c] /\ outcome'[c] = "failed" /\ pc'[c] # "wait"
      BY <3>1, SettleEffect
    <3>4. Txs(c)' = Txs(c)
      BY <2>3, <3>2 DEF Txs
    <3> QED BY <2>3, <3>2, <3>3, <3>4 DEF ProgressOf, Direct
  <2>9. CASE Confirmed(c)
    <3>1. Settle(c, todo[c] \ cur[c], "ok") /\ UNCHANGED <<targets, pending>>
          /\ pc[c] = "wait" /\ CurrentTx(c) \in landed
      BY <2>9 DEF Confirmed
    <3>2. /\ todo'[c] = todo[c] \ cur[c] /\ pc'[c] # "wait"
          /\ pc'[c] = "done" => todo'[c] = {}
          /\ outcome'[c] = IF outcome[c] = "failed" THEN "failed" ELSE "ok"
      BY <3>1, SettleEffect
    <3>3. Txs(c)' = Txs(c) /\ Direct(c)
      BY <2>3, <3>1 DEF Txs, ProgressOf
    <3>4. ASSUME outcome[c] # "failed", NEW i \in targets[c] \ todo'[c]
          PROVE  \E t \in landed : t.call = c /\ i \in t.ids
      <4>1. CASE i \in cur[c]
        BY <3>1, <4>1 DEF CurrentTx
      <4>2. CASE i \in targets[c] \ todo[c]
        <5>1. outcome[c] \in {"none", "ok"}
          BY <2>3, <3>1, <3>3, <3>4 DEF ProgressOf, TxsInOrder, QuietOutcomes, TypeOK
        <5> QED BY <2>3, <3>3, <4>2, <5>1 DEF ProgressOf
      <4> QED BY <3>2, <3>4, <4>1, <4>2
    <3> QED BY <2>3, <3>1, <3>2, <3>3, <3>4 DEF ProgressOf, Direct
  <2> QED BY <1>1, <2>4, <2>5, <2>6, <2>7, <2>8, <2>9 DEF CallStep
<1>2. CASE (\E t \in pending : Land(t) \/ Drop(t)) \/ Unlink \/ Relink \/ Cleanup \/ UNCHANGED vars
  BY <1>2, EnvironmentKeeps DEF Progress, ProgressOf, Direct
<1> QED BY <1>1, <1>2 DEF Next

\* A fetch finds finitely many ids, as there are finitely many versions.
LEMMA IdsOfFinite ==
    ASSUME NEW vs, vs \subseteq Versions
    PROVE  IsFiniteSet(IdsOf(vs))
<1>1. IsFiniteSet(Versions)
  BY FiniteAssumption, FS_Product DEF Versions
<1>2. IsFiniteSet(vs)
  BY <1>1, FS_Subset
<1> DEFINE f == [v \in vs |-> entries[v].id]
<1>3. f \in Surjection(vs, IdsOf(vs))
  BY DEF Surjection, IdsOf
<1> QED BY <1>2, <1>3, FS_Surjection

LEMMA OneTxNext ==
    ASSUME TypeOK, CallControl, TxsInOrder, Progress, OneTx, [Next]_vars
    PROVE  OneTx'
<1>1. ASSUME NEW c \in Calls, Start(c) \/ CallStep(c)
      PROVE  OneTx'
  <2>1. \A x \in Calls \ {c} : Cmd(x)' # "delete" => OneTxOf(x)'
    BY <1>1, OthersKeep DEF OneTx, OneTxOf, Cmd
  <2>2. SUFFICES ASSUME Cmd(c) # "delete" PROVE OneTxOf(c)'
    <3>1. Cmd(c)' = Cmd(c)
      BY <1>1, OthersKeep DEF Cmd
    <3> QED BY <2>1, <2>2, <3>1 DEF OneTx
  <2>3. OneTxOf(c) /\ job' = job /\ landed' = landed
    BY <1>1, <2>2, OthersKeep DEF OneTx
  <2>4. CASE \/ Start(c) \/ Abort(c) \/ VerifyOwner(c) \/ AutoLink(c) \/ CheckExists(c)
             \/ Accept(c) \/ Decline(c) \/ CountSameName(c) \/ CheckLimit(c)
    <3>1. UNCHANGED <<pending, targets, todo, cur>>
      BY <2>4 DEF Start, Abort, VerifyOwner, AutoLink, CheckExists, Accept, Decline,
                  CountSameName, CheckLimit, historyVars
    <3>2. pc[c] \notin {"send", "wait", "done"} /\ pc'[c] # "wait"
      BY <2>4 DEF Start, Abort, VerifyOwner, AutoLink, CheckExists, Accept, Decline,
                  CountSameName, CheckLimit, Go, TypeOK, Cmd
    <3>3. Txs(c)' = {}
      BY <2>3, <3>1, <3>2 DEF Txs, TxsInOrder
    <3> QED BY <2>3, <3>1, <3>2, <3>3 DEF OneTxOf
  <2>5. CASE Upload(c) \/ Fetch(c)
    <3>1. pc[c] \in {"upload", "fetch"} /\ pc'[c] # "wait" /\ UNCHANGED pending
      BY <2>5 DEF Upload, Fetch, FetchToPause, FetchToActivate, FetchToDelete, Go, TypeOK
    <3>2. Txs(c)' = {}
      BY <2>3, <3>1 DEF TxsInOrder, Txs
    <3>3. PICK ids : /\ todo' = [todo EXCEPT ![c] = ids]
                     /\ targets' = [targets EXCEPT ![c] = ids]
                     /\ IsFiniteSet(ids)
      <4>1. CASE Upload(c)
        BY <4>1, FS_Singleton DEF Upload
      <4>2. CASE FetchToPause(c)
        <5>1. IsFiniteSet(IdsOf({v \in VersionsOf(Name(c)) : entries[v].status = "active"}))
          BY IdsOfFinite DEF VersionsOf
        <5> QED BY <4>2, <5>1 DEF FetchToPause, Target
      <4>3. CASE FetchToActivate(c)
        BY <4>3, FS_Singleton DEF FetchToActivate, Target
      <4>4. CASE FetchToDelete(c)
        BY <4>4, <2>2 DEF FetchToDelete
      <4> QED BY <2>5, <4>1, <4>2, <4>3, <4>4 DEF Fetch
    <3>4. todo'[c] = ids /\ targets'[c] = ids
      BY <3>3 DEF TypeOK
    <3> QED BY <3>1, <3>2, <3>3, <3>4 DEF OneTxOf
  <2>6. CASE Send(c)
    <3>1. PICK ids \in Batches(c) : /\ cur' = [cur EXCEPT ![c] = ids]
                                    /\ pending' = pending \cup {[call |-> c, ids |-> ids]}
      BY <2>6 DEF Send
    <3>2. UNCHANGED <<targets, todo>> /\ Direct(c) /\ pc[c] = "send" /\ pc'[c] = "wait"
      BY <2>6 DEF Send, Go, TypeOK
    <3>3. Txs(c) = {} /\ todo[c] = targets[c]
      BY <2>3, <3>2 DEF OneTxOf
    <3>4. ids = todo[c] /\ ~(job[c].mode = "changeset")
      BY <2>2, <3>1, <3>2 DEF Batches, Direct
    <3>5. Txs(c)' = {[call |-> c, ids |-> ids]}
      BY <2>3, <3>1, <3>3 DEF Txs
    <3>6. cur'[c] = ids
      BY <3>1 DEF TypeOK
    <3> QED BY <2>3, <3>2, <3>3, <3>4, <3>5, <3>6 DEF OneTxOf
  <2>7. CASE Prepare(c)
    <3>1. PICK ids \in Batches(c) : /\ pending' = pending \cup {[call |-> c, ids |-> ids]}
                                    /\ Settle(c, {}, "prepared")
      BY <2>2, <2>7 DEF Prepare
    <3>2. UNCHANGED <<targets, cur>> /\ pc[c] = "send" /\ pc'[c] = "done"
      BY <2>7, <3>1, SettleEffect DEF Prepare
    <3>3. Txs(c) = {} /\ todo[c] = targets[c]
      BY <2>3, <3>2 DEF OneTxOf
    <3>4. Txs(c)' = {[call |-> c, ids |-> ids]}
      BY <2>3, <3>1, <3>3 DEF Txs
    <3>5. IF Cmd(c) = "pause" /\ job[c].mode = "changeset"
          THEN \E i \in Ids : ids = {i} ELSE ids = targets[c]
      BY <2>2, <3>1, <3>3 DEF Batches, TypeOK
    <3>6. (IF Cmd(c) = "pause" /\ job[c].mode = "changeset"
           THEN \E i \in Ids : ids = {i} ELSE ids = targets[c])'
      BY <2>3, <3>2, <3>5 DEF Cmd
    <3> QED BY <2>3, <3>2, <3>4, <3>6 DEF OneTxOf
  <2>8. CASE Refuse(c) \/ Unconfirmed(c) \/ Confirmed(c)
    <3>1. pc[c] \in {"send", "wait"}
          /\ \E what : Settle(c, IF pc[c] = "send" THEN {} ELSE todo[c] \ cur[c], what)
      BY <2>2, <2>8 DEF Refuse, Unconfirmed, Confirmed
    <3>2. UNCHANGED <<targets, cur, pending>>
      BY <2>8 DEF Refuse, Unconfirmed, Confirmed
    <3>3. pc'[c] = "done"
      BY <2>3, <3>1, SettleEffect DEF OneTxOf
    <3>4. Txs(c)' = Txs(c)
      BY <2>3, <3>2 DEF Txs
    <3> QED BY <2>3, <3>2, <3>3, <3>4 DEF OneTxOf, Cmd
  <2> QED BY <1>1, <2>4, <2>5, <2>6, <2>7, <2>8 DEF CallStep
<1>2. CASE (\E t \in pending : Land(t) \/ Drop(t)) \/ Unlink \/ Relink \/ Cleanup \/ UNCHANGED vars
  <2>1. \A x \in Calls : OneTxOf(x) => OneTxOf(x)'
    BY <1>2, EnvironmentKeeps DEF OneTxOf, Cmd
  <2> QED BY <1>2, <2>1, EnvironmentKeeps DEF OneTx, Cmd
<1> QED BY <1>1, <1>2 DEF Next

----------------------------------------------------------------------------
(* Views.                                                                  *)

\* A transaction that lands leaves the versions of other names alone.
LEMMA LandingTouchesItsName ==
    ASSUME TypeOK, Named, NEW t \in pending, Land(t),
           NEW v \in Versions, v[1] # Name(t.call)
    PROVE  entries'[v] = entries[v]
<1>1. v \notin Holders(t.ids)
  BY DEF Holders, Named
<1>2. v \notin VersionsOf(Name(t.call)) /\ v # <<Name(t.call), CliTag>>
  BY DEF VersionsOf
<1>3. CASE LandUpsert(t)
  <2>1. PICK age, hush : entries' = Upsert(t, age, hush)
    BY <1>3 DEF LandUpsert
  <2> QED BY <1>2, <2>1 DEF Upsert, SetStatus
<1>4. CASE LandPause(t)
  BY <1>1, <1>4 DEF LandPause, SetStatus
<1>5. CASE LandActivate(t)
  BY <1>1, <1>5 DEF LandActivate
<1>6. CASE LandDelete(t)
  BY <1>1, <1>6 DEF LandDelete
<1> QED BY <1>3, <1>4, <1>5, <1>6 DEF Land

\* The calls whose name a landing overtakes are disturbed from then on.
LEMMA LandingDisturbs ==
    ASSUME TypeOK, NEW t \in pending, Land(t),
           NEW c \in Calls \ disturbed', c # t.call, pc[c] # "idle"
    PROVE  Name(c) # Name(t.call)
BY DEF Land, LandUpsert, LandPause, LandActivate, LandDelete, Mined, Overtaken

LEMMA FreshViewNext ==
    ASSUME TypeOK, CallControl, Named, TxsInOrder, Progress, OneTx, FreshView, [Next]_vars
    PROVE  FreshView'
<1>1. ASSUME NEW c \in Calls, Start(c) \/ CallStep(c)
      PROVE  FreshView'
  <2>1. \A x \in Calls \ {c} : FreshOf(x) => FreshOf(x)'
    BY <1>1, OthersKeep DEF FreshOf, DeployViewHolds, PauseViewHolds, VersionsOf, Name,
       Cmd, ArtifactId
  <2>2. SUFFICES ASSUME c \notin disturbed' PROVE FreshOf(c)'
    BY <1>1, <2>1, OthersKeep DEF FreshView
  <2>3. UNCHANGED <<entries, job, landed>>
    BY <1>1, OthersKeep
  <2>4. /\ DeployViewHolds(c) /\ seen'[c] = seen[c] => DeployViewHolds(c)'
        /\ PauseViewHolds(c) /\ targets'[c] = targets[c] => PauseViewHolds(c)'
    BY <2>3 DEF DeployViewHolds, PauseViewHolds, VersionsOf, Name, ArtifactId
  <2>5. CASE CheckExists(c)
    <3>1. pc[c] = "exists" /\ Cmd(c) = "deploy" /\ seen[c] = "none"
      BY <2>5 DEF CheckExists, Go, CallControl
    <3>2. pc'[c] \in {"confirm", "upload"} => DeployViewHolds(c)'
      BY <2>3, <2>5, <3>1 DEF CheckExists, Go, DeployViewHolds, Name, ArtifactId, TypeOK
    <3>3. ~HasPending(c)'
      BY <2>5, <3>1 DEF CheckExists, CallControl, HasPending
    <3>4. pc'[c] \in {"confirm", "upload", "done"}
      BY <2>5 DEF CheckExists, Go, TypeOK
    <3> QED BY <2>3, <3>1, <3>2, <3>3, <3>4 DEF FreshOf, Cmd
  <2>6. CASE Fetch(c)
    <3>1. pc[c] = "fetch" /\ Cmd(c) # "deploy" /\ ~HasPending(c) /\ pending' = pending
      BY <2>6 DEF Fetch, FetchToPause, FetchToActivate, FetchToDelete, Go, CallControl
    <3>2. Cmd(c) = "pause" => PauseViewHolds(c)'
      <4>1. SUFFICES ASSUME Cmd(c) = "pause" PROVE PauseViewHolds(c)'
        OBVIOUS
      <4>2. FetchToPause(c)
        BY <2>6, <4>1 DEF Fetch, FetchToActivate, FetchToDelete
      <4>3. targets'[c] = IdsOf({v \in VersionsOf(Name(c)) : entries[v].status = "active"})
        BY <4>2 DEF FetchToPause, Target, TypeOK
      <4> QED BY <2>3, <4>3 DEF PauseViewHolds, IdsOf, VersionsOf, Name
    <3> QED BY <2>3, <3>1, <3>2 DEF FreshOf, Cmd
  <2>7. CASE \/ Start(c) \/ Abort(c) \/ VerifyOwner(c) \/ AutoLink(c)
             \/ Accept(c) \/ Decline(c) \/ Upload(c) \/ CountSameName(c) \/ CheckLimit(c)
    <3>1. UNCHANGED <<seen, pending, disturbed>>
      BY <2>7 DEF Start, Abort, VerifyOwner, AutoLink, Accept, Decline, Upload,
                  CountSameName, CheckLimit, historyVars
    <3>2. ~HasPending(c) /\ ~HasPending(c)'
      BY <2>7, <3>1 DEF Start, Abort, VerifyOwner, AutoLink, Accept, Decline, Upload,
                  CountSameName, CheckLimit, CallControl, Go, HasPending
    <3>3. pc'[c] \in {"confirm", "upload", "count", "limit", "send"}
            => pc[c] \in {"confirm", "upload", "count", "limit"} /\ Cmd(c) # "pause"
      BY <2>7 DEF Start, Abort, VerifyOwner, AutoLink, Accept, Decline, Upload,
                  CountSameName, CheckLimit, CallControl, Go, TypeOK
    <3> QED BY <2>2, <2>3, <2>4, <3>1, <3>2, <3>3 DEF FreshView, FreshOf, Cmd
  <2>8. CASE Send(c) \/ Prepare(c)
    <3>1. UNCHANGED <<seen, targets, disturbed>> /\ pc[c] = "send"
      BY <2>8 DEF Send, Prepare, Go, historyVars
    <3> QED BY <2>2, <2>3, <2>4, <3>1 DEF FreshView, FreshOf, Cmd
  <2>9. CASE Refuse(c) \/ Confirmed(c) \/ Unconfirmed(c)
    <3>1. UNCHANGED <<seen, targets, pending, disturbed>>
      BY <2>9 DEF Refuse, Confirmed, Unconfirmed, historyVars
    <3>2. Cmd(c) # "delete" => pc'[c] = "done"
      <4>1. SUFFICES ASSUME Cmd(c) # "delete" PROVE pc'[c] = "done"
        OBVIOUS
      <4>2. /\ pc[c] \in {"send", "wait"}
            /\ \E what : Settle(c, IF pc[c] = "send" THEN {} ELSE todo[c] \ cur[c], what)
        BY <2>9, <4>1 DEF Refuse, Unconfirmed, Confirmed
      <4> QED BY <4>1, <4>2, SettleEffect DEF OneTx, OneTxOf
    <3>3. HasPending(c)' => HasPending(c)
      BY <3>1 DEF HasPending
    <3> QED BY <2>2, <2>3, <2>4, <3>1, <3>2, <3>3 DEF FreshView, FreshOf, Cmd
  <2> QED BY <1>1, <2>5, <2>6, <2>7, <2>8, <2>9 DEF CallStep
<1>2. ASSUME (\E t \in pending : Land(t) \/ Drop(t)) \/ Unlink \/ Relink \/ Cleanup \/ UNCHANGED vars,
             NEW c \in Calls \ disturbed', entries' = entries
      PROVE  FreshOf(c)'
  <2>1. FreshOf(c) /\ (HasPending(c)' => HasPending(c))
    BY <1>2, EnvironmentKeeps DEF FreshView, HasPending
  <2> QED BY <1>2, <2>1, EnvironmentKeeps DEF FreshOf, DeployViewHolds, PauseViewHolds,
             VersionsOf, Name, Cmd, ArtifactId
<1>3. ASSUME NEW t \in pending, Land(t), NEW c \in Calls \ disturbed'
      PROVE  FreshOf(c)'
  <2>1. /\ UNCHANGED <<job, pc, seen, targets>> /\ c \notin disturbed
        /\ HasPending(c)' => HasPending(c)
    BY <1>3, EnvironmentKeeps DEF HasPending
  <2>2. CASE t.call = c
    <3>1. t \in Txs(c) /\ pending' = pending \ {t}
      BY <1>3, <2>2 DEF Txs, Land, LandUpsert, LandPause, LandActivate, LandDelete, Mined
    <3>2. Cmd(c) # "delete" => pc[c] \in {"wait", "done"} /\ \A u \in Txs(c) : u = t
      BY <3>1 DEF OneTx, OneTxOf
    <3>3. Cmd(c) # "delete" => ~HasPending(c)'
      BY <3>1, <3>2 DEF HasPending, Txs
    <3> QED BY <2>1, <3>2, <3>3 DEF FreshOf, Cmd
  <2>3. CASE t.call # c
    <3>1. SUFFICES ASSUME pc[c] \in {"confirm", "upload", "count", "limit", "send"}
                          \/ HasPending(c)
                   PROVE  /\ Cmd(c) = "deploy" => DeployViewHolds(c)'
                          /\ Cmd(c) = "pause" => PauseViewHolds(c)'
      BY <2>1 DEF FreshOf, Cmd
    <3>2. pc[c] # "idle"
      BY <3>1 DEF CallControl
    <3>3. \A v \in Versions : v[1] = Name(c) => entries'[v] = entries[v]
      BY <1>3, <2>3, <3>2, LandingDisturbs, LandingTouchesItsName
    <3>4. /\ Cmd(c) = "deploy" => DeployViewHolds(c)
          /\ Cmd(c) = "pause" => PauseViewHolds(c)
      BY <2>1, <3>1 DEF FreshView, FreshOf
    <3>5. <<Name(c), CliTag>> \in Versions
      BY DataAssumption DEF Versions, Name, TypeOK, Job
    <3>6. DeployViewHolds(c) => DeployViewHolds(c)'
      BY <2>1, <3>3, <3>5 DEF DeployViewHolds, Name, ArtifactId
    <3>7. PauseViewHolds(c) => PauseViewHolds(c)'
      BY <2>1, <3>3 DEF PauseViewHolds, VersionsOf, Name
    <3> QED BY <3>4, <3>6, <3>7
  <2> QED BY <2>2, <2>3
<1>4. CASE (\E t \in pending : Drop(t)) \/ Relink \/ Cleanup \/ UNCHANGED vars
  <2>1. entries' = entries
    BY <1>4 DEF Drop, Relink, Cleanup, registryVars, vars
  <2> QED BY <1>2, <1>4, <2>1 DEF FreshView
<1>5. CASE Unlink
  BY <1>5 DEF Unlink, FreshView
<1> QED BY <1>1, <1>3, <1>4, <1>5 DEF Next, FreshView

----------------------------------------------------------------------------
(* The theorems.                                                           *)

LEMMA CallInit == Init => CallInv
<1> SUFFICES ASSUME Init PROVE CallInv
  OBVIOUS
<1>1. TypeOK /\ CallControl /\ Named
  BY LimitInit DEF LimitInv
<1>2. \A c \in Calls : Txs(c) = {} /\ ~HasPending(c)
  BY DEF Init, Txs, HasPending
<1>3. TxsInOrder
  BY <1>2 DEF Init, TxsInOrder, QuietOutcomes
<1>4. Progress
  BY <1>2 DEF Init, Progress, ProgressOf
<1>5. OneTx
  BY <1>2, FS_EmptySet DEF Init, OneTx, OneTxOf
<1>6. FreshView
  BY <1>2 DEF Init, FreshView, FreshOf
<1> QED BY <1>1, <1>3, <1>4, <1>5, <1>6 DEF CallInv

LEMMA CallNext == CallInv /\ [Next]_vars => CallInv'
<1> SUFFICES ASSUME CallInv, [Next]_vars PROVE CallInv'
  OBVIOUS
<1>1. TypeOK' /\ CallControl' /\ Named' /\ TxsInOrder' /\ Progress' /\ OneTx' /\ FreshView'
  BY TypeNext, ControlNext, NamedNext, TxsInOrderNext, ProgressNext, OneTxNext,
     FreshViewNext DEF CallInv
<1> QED BY <1>1 DEF CallInv

LEMMA CallInvariant == Spec => []CallInv
BY CallInit, CallNext, PTL DEF Spec

\* A call that sends its own transactions and reports success has changed every
\* id it decided to act on and nothing else, however many transactions that took
\* (processWorkflowsBatch in the delete command, the handlers of the others).
THEOREM OkMeansLandedHolds == Spec => []OkMeansLanded
<1>1. CallInv => OkMeansLanded
  <2> SUFFICES ASSUME CallInv, NEW c \in Calls, pc[c] = "done", outcome[c] = "ok"
               PROVE  targets[c] = UNION {t.ids : t \in {x \in landed : x.call = c}}
    BY DEF OkMeansLanded
  <2>1. ProgressOf(c)
    BY DEF CallInv, Progress
  <2>2. \A i \in targets[c] : \E t \in landed : t.call = c /\ i \in t.ids
    BY <2>1 DEF ProgressOf
  <2>3. \A t \in landed : t.call = c => t.ids \subseteq targets[c]
    BY <2>1 DEF ProgressOf, Txs
  <2> QED BY <2>2, <2>3
<1> QED BY <1>1, CallInvariant, PTL

\* Declining a delete, finding nothing to do or stopping at an owner that is not
\* linked leaves no transaction, on the chain or with the signers.
THEOREM QuietEndingsHolds == Spec => []QuietEndings
<1>1. CallInv => QuietEndings
  BY DEF CallInv, TxsInOrder, QuietOutcomes, QuietEndings, HasPending, Txs
<1> QED BY <1>1, CallInvariant, PTL

\* An update nothing overtook keeps the status it saw and never replaces a build
\* by itself, however long after the read its transaction lands (register.go,
\* prepareUpsertParams).
THEOREM UpdateKeepsStatusHolds == Spec => UpdateKeepsStatus
<1>1. CallInv /\ [Next]_vars =>
        [\A c \in Calls :
          LET key == <<Name(c), CliTag>> IN
          Landing(c, LandUpsert) /\ c \notin disturbed /\ entries[key] # None =>
              /\ entries'[key].status = entries[key].status
              /\ entries'[key].id # entries[key].id]_vars
  <2> SUFFICES ASSUME CallInv, NEW c \in Calls \ disturbed, NEW t \in pending,
                      t.call = c, LandUpsert(t), entries[<<Name(c), CliTag>>] # None
               PROVE  LET key == <<Name(c), CliTag>> IN
                      /\ entries'[key].status = entries[key].status
                      /\ entries'[key].id # entries[key].id
    BY DEF Landing
  <2> DEFINE key == <<Name(c), CliTag>>
  <2>1. key \in Versions /\ entries[key] \in Entry
    BY DataAssumption DEF CallInv, Versions, Name, TypeOK, Job, Registry
  <2>2. HasPending(c) /\ Cmd(c) = "deploy"
    BY DEF HasPending, LandUpsert
  <2>3. seen[c] = entries[key].status /\ entries[key].id # ArtifactId(c)
    BY <2>2 DEF CallInv, FreshView, FreshOf, DeployViewHolds
  <2>4. PICK age, hush : entries' = Upsert(t, age, hush)
    BY DEF LandUpsert
  <2>5. entries'[key] = [id |-> ArtifactId(c), status |-> UpsertStatus(c),
                         don |-> Don(c), born |-> age]
    BY <2>1, <2>4 DEF Upsert, SetStatus
  <2>6. UpsertStatus(c) = entries[key].status
    BY <2>1, <2>3 DEF UpsertStatus, Entry
  <2> QED BY <2>3, <2>5, <2>6
<1> QED BY <1>1, CallInvariant, PTL DEF Spec, UpdateKeepsStatus

\* A pause nothing overtook leaves no version of its name active, unless a
\* changeset carried one id of several (pause.go).
THEOREM PauseIsCompleteHolds == Spec => PauseIsComplete
<1>1. CallInv /\ [Next]_vars =>
        [\A c \in Calls :
          /\ Landing(c, LandPause) /\ c \notin disturbed
          /\ job[c].mode # "changeset" \/ Cardinality(targets[c]) = 1
          => \A v \in VersionsOf(Name(c)) : entries'[v].status = "paused"]_vars
  <2> SUFFICES ASSUME CallInv, NEW c \in Calls \ disturbed, NEW t \in pending,
                      t.call = c, LandPause(t),
                      job[c].mode # "changeset" \/ Cardinality(targets[c]) = 1,
                      NEW v \in VersionsOf(Name(c))
               PROVE  entries'[v].status = "paused"
    BY DEF Landing
  <2>1. HasPending(c) /\ Cmd(c) = "pause" /\ t \in Txs(c)
    BY DEF HasPending, LandPause, Txs
  <2>2. OneTxOf(c) /\ PauseViewHolds(c)
    BY <2>1 DEF CallInv, OneTx, FreshView, FreshOf
  <2>3. t.ids = targets[c]
    <3>1. CASE job[c].mode # "changeset"
      BY <2>1, <2>2, <3>1 DEF OneTxOf
    <3>2. CASE job[c].mode = "changeset"
      <4>1. PICK i : t.ids = {i}
        BY <2>1, <2>2, <3>2 DEF OneTxOf
      <4>2. t.ids \subseteq targets[c]
        BY <2>1 DEF CallInv, Progress, ProgressOf
      <4>3. PICK j : targets[c] = {j}
        BY <2>2, <3>2, FS_Singleton DEF OneTxOf
      <4> QED BY <4>1, <4>2, <4>3
    <3> QED BY <3>1, <3>2
  <2>4. v \in Versions /\ entries[v] # None /\ entries[v] \in Entry
    BY DEF VersionsOf, CallInv, TypeOK, Registry
  <2>5. CASE v \in Holders(t.ids)
    BY <2>4, <2>5 DEF LandPause, SetStatus, Entry
  <2>6. CASE v \notin Holders(t.ids)
    <3>1. entries[v].status # "active"
      BY <2>2, <2>3, <2>4, <2>6 DEF Holders, PauseViewHolds
    <3> QED BY <2>4, <2>6, <3>1 DEF LandPause, SetStatus, Entry
  <2> QED BY <2>5, <2>6
<1> QED BY <1>1, CallInvariant, PTL DEF Spec, PauseIsComplete

=============================================================================
