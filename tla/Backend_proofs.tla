---------------------------- MODULE Backend_proofs ----------------------------
(***************************************************************************)
(* Theorems about the two parts that MCBackend checks on small instances,  *)
(* each for all values of its constants.                                   *)
(*                                                                         *)
(* PrivateRegistry: for any number of commands, any mix of them and any    *)
(* number of attempts, what is registered has been stored, a deploy        *)
(* respects the workflow it replaces, and together the commands implement  *)
(* RegistrySlot.  A command is one request long: RequestOrder says which   *)
(* of its steps are behind it once the request has left, and every other   *)
(* invariant rests on that.                                                *)
(*                                                                         *)
(* OwnerLink: its types, and that a deploy goes on only for an owner       *)
(* linked to its own account.                                              *)
(***************************************************************************)
EXTENDS MCBackend, TLAPS


----------------------------------------------------------------------------
(* The invariants.                                                         *)

\* The mutation leaves once, after everything else; whoever was told something
\* has ended, and a command that is not called stays where it is.
RequestOrder ==
    \A c \in Cmds :
        /\ request[c] # "none" => pc[c] \in {"wait", "done"}
        /\ pc[c] # "done" => outcome[c] = "none"
        /\ outcome[c] = "declined" => request[c] = "none"
        /\ kind[c] = "none" => pc[c] = "start"

\* An artifact leaves todo only after the service holds it.
UploadSound ==
    \A c \in Cmds :
        /\ todo[c] \subseteq needs[c]
        /\ {built[c]} \X (needs[c] \ todo[c]) \subseteq stored
        /\ stage[c] \in {"presign", "post", "getUrl"} => todo[c] # {}
        /\ stage[c] = "getUrl" => Artifact(c) \in stored
        /\ stage[c] = "uploaded" => todo[c] = {}

\* A deploy that is past its upload has uploaded.
DeployUploaded ==
    \A c \in Cmds :
        kind[c] = "deploy" /\ (pc[c] \in {"send", "wait"} \/ request[c] # "none")
            => stage[c] = "uploaded"

\* Between the look at the workflow and the change, a command knows the
\* workflow, or one of the excuses of Respectful holds; past the prompt, an
\* overwrite has been agreed to.
KnowsWorkflow ==
    \A c \in Cmds :
        /\ pc[c] \in {"start", "fetch"} => seen[c] = Absent
        /\ pc[c] \in {"decide", "confirm", "upload", "send"} \/ request[c] = "sent"
               => moved[c] \/ misread[c] \/ seen[c] = workflow
        /\ kind[c] = "deploy" /\ (pc[c] \in {"upload", "send"} \/ request[c] = "sent")
               => agreed[c] \/ seen[c] = Absent

StoredInv  == TypeOK /\ RequestOrder /\ UploadSound /\ DeployUploaded
RespectInv == TypeOK /\ RequestOrder /\ KnowsWorkflow

----------------------------------------------------------------------------
(* Types.                                                                  *)

LEMMA TypeInit == Init => TypeOK
BY MixesAssumption, AttemptsAssumption
   DEF Init, UploadInit, TypeOK, UploadTypeOK, Stages, Places, Types, Workflows

\* The uploader keeps its own types, whichever request it is at.
LEMMA UploadTypeStep ==
    ASSUME UploadTypeOK, NEW c \in Cmds, BeginUpload(c) \/ UploadStep(c)
    PROVE  UploadTypeOK'
<1> USE AttemptsAssumption DEF UploadTypeOK, Stages, Types, Enter, FirstStage, Retry
<1>1. Artifact(c) \in Ids \X Types
  BY DEF Artifact, Current
<1>2. CASE BeginUpload(c)
  BY <1>2 DEF BeginUpload
<1>3. CASE GeneratePostUrl(c)
  BY <1>3 DEF GeneratePostUrl
<1>4. CASE UploadToOrigin(c)
  BY <1>1, <1>4 DEF UploadToOrigin
<1>5. CASE GenerateGetUrl(c)
  BY <1>5 DEF GenerateGetUrl
<1> QED BY <1>2, <1>3, <1>4, <1>5 DEF UploadStep

LEMMA TypeStep == TypeOK /\ [Next]_vars => TypeOK'
<1> SUFFICES ASSUME TypeOK, [Next]_vars PROVE TypeOK'
  OBVIOUS
<1> USE DEF TypeOK, Places, Goto, End, histVars, cmdVars
<1>1. ASSUME UNCHANGED uploadVars PROVE UploadTypeOK'
  BY <1>1 DEF uploadVars, UploadTypeOK
<1>2. CASE UNCHANGED vars
  BY <1>1, <1>2 DEF vars
<1>3. ASSUME NEW c \in Cmds, Step(c) PROVE TypeOK'
  <2>1. CASE RequestAccess(c)     BY <1>1, <2>1 DEF RequestAccess
  <2>2. CASE Prepare(c)           BY <1>1, <2>2 DEF Prepare
  <2>3. CASE GetWorkflowByName(c) BY <1>1, <2>3 DEF GetWorkflowByName
  <2>4. CASE NotFound(c)          BY <1>1, <2>4 DEF NotFound
  <2>5. CASE FetchFails(c)        BY <1>1, <2>5 DEF FetchFails
  <2>6. CASE Decide(c)            BY <1>1, <2>6 DEF Decide, Decision
  <2>7. CASE ConfirmOverwrite(c)
    <3>1. agreed' \in [Cmds -> BOOLEAN]
      BY <2>7 DEF ConfirmOverwrite, Agree
    <3> QED BY <1>1, <2>7, <3>1 DEF ConfirmOverwrite
  <2>8. CASE ConfirmDelete(c)
    <3>1. agreed' \in [Cmds -> BOOLEAN]
      BY <2>8 DEF ConfirmDelete, Agree
    <3> QED BY <1>1, <2>8, <3>1 DEF ConfirmDelete
  <2>9. CASE Upload(c)            BY <2>9, UploadTypeStep DEF Upload
  <2>10. CASE UploadEnds(c)       BY <1>1, <2>10 DEF UploadEnds
  <2>11. CASE InvalidInput(c)     BY <1>1, <2>11 DEF InvalidInput
  <2>12. CASE Send(c)             BY <1>1, <2>12 DEF Send
  <2>13. CASE Answered(c)         BY <1>1, <2>13 DEF Answered
  <2>14. CASE GaveUp(c)           BY <1>1, <2>14 DEF GaveUp
  <2> QED BY <1>3, <2>1, <2>2, <2>3, <2>4, <2>5, <2>6, <2>7, <2>8, <2>9, <2>10, <2>11,
             <2>12, <2>13, <2>14 DEF Step
<1>4. ASSUME NEW c \in Cmds, Land(c) PROVE TypeOK'
  <2>1. Input(c) \in Workflows \cup {Absent}
    <3>1. kind[c] # "deploy" => seen[c] \in Workflows
      BY <1>4, NoIdAssumption DEF Land, Workflows, Absent
    <3>2. CASE kind[c] = "deploy"
      BY <3>2 DEF Input, UpsertInput, Workflows, UploadTypeOK
    <3>3. CASE kind[c] # "deploy"
      BY <3>1, <3>3 DEF Input, PauseInput, ActivateInput, DeleteInput, Workflows
    <3> QED BY <3>2, <3>3
  <2> QED BY <1>1, <1>4, <2>1 DEF Land
<1>5. ASSUME NEW c \in Cmds, RefuseMutation(c) PROVE TypeOK'
  BY <1>1, <1>5 DEF RefuseMutation
<1> QED BY <1>2, <1>3, <1>4, <1>5 DEF Next

\* Every variable of the commands, of their uploads and of the backend keeps
\* its type: the workflow of a name is one that somebody built, or none.
THEOREM TypeCorrect == Spec => []TypeOK
<1>1. Init => TypeOK
  BY TypeInit
<1>2. TypeOK /\ [Next]_vars => TypeOK'
  BY TypeStep
<1> QED BY <1>1, <1>2, PTL DEF Spec

----------------------------------------------------------------------------
(* The order of a command, and its uploads.                                *)

\* A mutation is sent from the last place of a command but the wait for it.
LEMMA OrderStep == TypeOK /\ RequestOrder /\ [Next]_vars => RequestOrder'
<1> SUFFICES ASSUME TypeOK, RequestOrder, [Next]_vars PROVE RequestOrder'
  OBVIOUS
<1> USE DEF TypeOK, Places, Kinds, RequestOrder, Goto, End, histVars, cmdVars
<1>1. CASE UNCHANGED vars
  BY <1>1 DEF vars
<1>2. ASSUME NEW c \in Cmds, Step(c) PROVE RequestOrder'
  <2>1. CASE RequestAccess(c)     BY <2>1 DEF RequestAccess
  <2>2. CASE Prepare(c)           BY <2>2 DEF Prepare
  <2>3. CASE GetWorkflowByName(c) BY <2>3 DEF GetWorkflowByName
  <2>4. CASE NotFound(c)          BY <2>4 DEF NotFound
  <2>5. CASE FetchFails(c)        BY <2>5 DEF FetchFails
  <2>6. CASE Decide(c)            BY <2>6 DEF Decide, Decision
  <2>7. CASE ConfirmOverwrite(c)  BY <2>7 DEF ConfirmOverwrite
  <2>8. CASE ConfirmDelete(c)     BY <2>8 DEF ConfirmDelete
  <2>9. CASE Upload(c)            BY <2>9 DEF Upload
  <2>10. CASE UploadEnds(c)       BY <2>10 DEF UploadEnds
  <2>11. CASE InvalidInput(c)     BY <2>11 DEF InvalidInput
  <2>12. CASE Send(c)             BY <2>12 DEF Send
  <2>13. CASE Answered(c)         BY <2>13 DEF Answered
  <2>14. CASE GaveUp(c)           BY <2>14 DEF GaveUp
  <2> QED BY <1>2, <2>1, <2>2, <2>3, <2>4, <2>5, <2>6, <2>7, <2>8, <2>9, <2>10, <2>11,
             <2>12, <2>13, <2>14 DEF Step
<1>3. ASSUME NEW c \in Cmds, Land(c) PROVE RequestOrder'
  BY <1>3 DEF Land
<1>4. ASSUME NEW c \in Cmds, RefuseMutation(c) PROVE RequestOrder'
  BY <1>4 DEF RefuseMutation
<1> QED BY <1>1, <1>2, <1>3, <1>4 DEF Next

\* What is uploaded next is one of the artifacts left, and no other is touched.
LEMMA CurrentIsLeft ==
    ASSUME UploadTypeOK, NEW c \in Cmds, todo[c] # {}
    PROVE  Current(c) \in todo[c]
BY DEF UploadTypeOK, Types, Current

\* Each of the three requests keeps UploadSound: a POST adds, "already exists"
\* is believed because it is so, and an artifact is done only after both.
LEMMA UploadStepSound ==
    ASSUME UploadTypeOK, UploadSound, NEW c \in Cmds, BeginUpload(c) \/ UploadStep(c)
    PROVE  UploadSound'
<1> USE DEF UploadTypeOK, UploadSound, Stages, Artifact, Enter, FirstStage, Retry
<1>1. CASE BeginUpload(c)
  BY <1>1 DEF BeginUpload, Current
<1>2. CASE GeneratePostUrl(c)
  BY <1>2 DEF GeneratePostUrl, Current
<1>3. CASE UploadToOrigin(c)
  BY <1>3 DEF UploadToOrigin, Current
<1>4. CASE GenerateGetUrl(c)
  <2>1. CASE Retry(c) /\ UNCHANGED <<built, needs, stored>>
    BY <2>1 DEF Current
  <2>2. CASE /\ stage[c] = "getUrl"
             /\ todo' = [todo EXCEPT ![c] = todo[c] \ {Current(c)}]
             /\ Enter(c, FirstStage(todo[c] \ {Current(c)}))
             /\ UNCHANGED <<built, needs, stored>>
    <3>1. Current(c) \in todo[c] /\ <<built[c], Current(c)>> \in stored
      BY <2>2, CurrentIsLeft
    <3>2. {built[c]} \X (needs[c] \ todo'[c]) \subseteq stored
      BY <2>2, <3>1
    <3>3. \A d \in Cmds \ {c} : Current(d)' = Current(d)
      BY <2>2 DEF Current
    <3> QED BY <2>2, <3>1, <3>2, <3>3
  <2> QED BY <1>4, <2>1, <2>2 DEF GenerateGetUrl
<1> QED BY <1>1, <1>2, <1>3, <1>4 DEF UploadStep

LEMMA StoredInit == Init => StoredInv
<1> SUFFICES ASSUME Init PROVE StoredInv
  OBVIOUS
<1>1. TypeOK
  BY TypeInit
<1>2. RequestOrder
  BY DEF Init, RequestOrder
<1>3. UploadSound
  BY <1>1 DEF Init, UploadInit, UploadSound, TypeOK, UploadTypeOK
<1>4. DeployUploaded
  BY DEF Init, DeployUploaded
<1> QED BY <1>1, <1>2, <1>3, <1>4 DEF StoredInv

LEMMA StoredStep == StoredInv /\ [Next]_vars => StoredInv'
<1> SUFFICES ASSUME StoredInv, [Next]_vars PROVE StoredInv'
  OBVIOUS
<1>1. TypeOK' /\ RequestOrder'
  BY TypeStep, OrderStep DEF StoredInv
<1>2. ASSUME UNCHANGED uploadVars PROVE UploadSound'
  BY <1>2 DEF StoredInv, UploadSound, uploadVars, Artifact, Current
<1> USE DEF StoredInv, TypeOK, UploadTypeOK, RequestOrder, DeployUploaded, Goto, End,
            uploadVars, histVars, cmdVars
<1>3. CASE UNCHANGED vars
  BY <1>1, <1>2, <1>3 DEF vars
<1>4. ASSUME NEW c \in Cmds, Step(c) PROVE UploadSound' /\ DeployUploaded'
  <2>1. CASE RequestAccess(c)     BY <1>2, <2>1 DEF RequestAccess
  <2>2. CASE Prepare(c)           BY <1>2, <2>2 DEF Prepare
  <2>3. CASE GetWorkflowByName(c) BY <1>2, <2>3 DEF GetWorkflowByName
  <2>4. CASE NotFound(c)          BY <1>2, <2>4 DEF NotFound
  <2>5. CASE FetchFails(c)        BY <1>2, <2>5 DEF FetchFails
  <2>6. CASE Decide(c)            BY <1>2, <2>6 DEF Decide, Decision
  <2>7. CASE ConfirmOverwrite(c)  BY <1>2, <2>7 DEF ConfirmOverwrite
  <2>8. CASE ConfirmDelete(c)     BY <1>2, <2>8 DEF ConfirmDelete
  <2>9. CASE Upload(c)
    <3>1. UploadSound'
      BY <2>9, UploadStepSound DEF Upload
    <3>2. \A d \in Cmds \ {c} : stage'[d] = stage[d]
      BY <2>9 DEF Upload, BeginUpload, UploadStep, GeneratePostUrl, UploadToOrigin,
                  GenerateGetUrl, Enter, Retry
    <3> QED BY <2>9, <3>1, <3>2 DEF Upload
  <2>10. CASE UploadEnds(c)       BY <1>2, <2>10 DEF UploadEnds
  <2>11. CASE InvalidInput(c)     BY <1>2, <2>11 DEF InvalidInput
  <2>12. CASE Send(c)             BY <1>2, <2>12 DEF Send
  <2>13. CASE Answered(c)         BY <1>2, <2>13 DEF Answered
  <2>14. CASE GaveUp(c)           BY <1>2, <2>14 DEF GaveUp
  <2> QED BY <1>4, <2>1, <2>2, <2>3, <2>4, <2>5, <2>6, <2>7, <2>8, <2>9, <2>10, <2>11,
             <2>12, <2>13, <2>14 DEF Step
<1>5. ASSUME NEW c \in Cmds, Land(c) PROVE UploadSound' /\ DeployUploaded'
  BY <1>2, <1>5 DEF Land
<1>6. ASSUME NEW c \in Cmds, RefuseMutation(c) PROVE UploadSound' /\ DeployUploaded'
  BY <1>2, <1>6 DEF RefuseMutation
<1> QED BY <1>1, <1>3, <1>4, <1>5, <1>6 DEF Next

\* A deploy sends its mutation only when storage holds the binary and the config
\* it names (uploadArtifacts, then the strategy's Upsert), whatever failed, was
\* repeated, or was uploaded by another command for the same id.
THEOREM StoredFirstHolds == Spec => []StoredFirst
<1>1. Init => StoredInv
  BY StoredInit
<1>2. StoredInv /\ [Next]_vars => StoredInv'
  BY StoredStep
<1>3. StoredInv => StoredFirst
  BY DEF StoredInv, UploadSound, DeployUploaded, StoredFirst
<1> QED BY <1>1, <1>2, <1>3, PTL DEF Spec

----------------------------------------------------------------------------
(* Respect for the workflow that is there.                                 *)

LEMMA KnowsInit == Init => KnowsWorkflow
BY DEF Init, KnowsWorkflow

LEMMA KnowsStep == RespectInv /\ [Next]_vars => RespectInv'
<1> SUFFICES ASSUME RespectInv, [Next]_vars PROVE RespectInv'
  OBVIOUS
<1>1. TypeOK' /\ RequestOrder'
  BY TypeStep, OrderStep DEF RespectInv
<1> USE DEF RespectInv, TypeOK, RequestOrder, KnowsWorkflow, Goto, End, histVars, cmdVars
<1>2. CASE UNCHANGED vars
  BY <1>1, <1>2 DEF vars
<1>3. ASSUME NEW c \in Cmds, Step(c) PROVE KnowsWorkflow'
  <2>1. CASE RequestAccess(c)     BY <2>1 DEF RequestAccess
  <2>2. CASE Prepare(c)           BY <2>2 DEF Prepare
  <2>3. CASE GetWorkflowByName(c) BY <2>3 DEF GetWorkflowByName
  <2>4. CASE NotFound(c)          BY <2>4 DEF NotFound
  <2>5. CASE FetchFails(c)        BY <2>5 DEF FetchFails
  <2>6. CASE Decide(c)            BY <2>6 DEF Decide, Decision
  <2>7. CASE ConfirmOverwrite(c)
    <3>1. \A d \in Cmds \ {c} : agreed'[d] = agreed[d]
      BY <2>7 DEF ConfirmOverwrite, Agree
    <3> QED BY <2>7, <3>1 DEF ConfirmOverwrite
  <2>8. CASE ConfirmDelete(c)
    <3>1. \A d \in Cmds \ {c} : agreed'[d] = agreed[d]
      BY <2>8 DEF ConfirmDelete, Agree
    <3> QED BY <2>8, <3>1 DEF ConfirmDelete
  <2>9. CASE Upload(c)            BY <2>9 DEF Upload
  <2>10. CASE UploadEnds(c)       BY <2>10 DEF UploadEnds
  <2>11. CASE InvalidInput(c)     BY <2>11 DEF InvalidInput
  <2>12. CASE Send(c)             BY <2>12 DEF Send
  <2>13. CASE Answered(c)         BY <2>13 DEF Answered
  <2>14. CASE GaveUp(c)           BY <2>14 DEF GaveUp
  <2> QED BY <1>3, <2>1, <2>2, <2>3, <2>4, <2>5, <2>6, <2>7, <2>8, <2>9, <2>10, <2>11,
             <2>12, <2>13, <2>14 DEF Step
<1>4. ASSUME NEW c \in Cmds, Land(c) PROVE KnowsWorkflow'
  BY <1>4 DEF Land
<1>5. ASSUME NEW c \in Cmds, RefuseMutation(c) PROVE KnowsWorkflow'
  BY <1>5 DEF RefuseMutation
<1> QED BY <1>1, <1>2, <1>3, <1>4, <1>5 DEF Next

\* Only the backend lets a request land.
LEMMA OnlyLandLands ==
    ASSUME TypeOK, [Next]_vars, NEW c \in Cmds, request[c] # "landed", request'[c] = "landed"
    PROVE  Land(c)
<1> USE DEF TypeOK, cmdVars
<1>1. CASE UNCHANGED vars
  BY <1>1 DEF vars
<1>2. ASSUME NEW d \in Cmds, Step(d) PROVE FALSE
  BY <1>2 DEF Step, RequestAccess, Prepare, GetWorkflowByName, NotFound, FetchFails, Decide,
              ConfirmOverwrite, ConfirmDelete, Upload, UploadEnds, InvalidInput, Send,
              Answered, GaveUp
<1>3. ASSUME NEW d \in Cmds, Land(d) PROVE Land(c)
  BY <1>3 DEF Land
<1>4. ASSUME NEW d \in Cmds, RefuseMutation(d) PROVE FALSE
  BY <1>4 DEF RefuseMutation
<1> QED BY <1>1, <1>2, <1>3, <1>4 DEF Next

\* The deploy strategy replaces a workflow with the consent of the user and
\* leaves a paused one paused, however many other commands run: it can fail to
\* only if one of them changed the workflow after the look at it, or if an
\* error was taken for "not found".
THEOREM RespectsWorkflowHolds == Spec => RespectsWorkflow
<1>1. Init => RespectInv
  BY TypeInit, KnowsInit DEF Init, RespectInv, RequestOrder
<1>2. RespectInv /\ [Next]_vars => RespectInv'
  BY KnowsStep
<1>3. RespectInv /\ [Next]_vars =>
          [\A c \in Cmds : kind[c] = "deploy" /\ request[c] = "sent" /\ request'[c] = "landed"
              => Respectful(c)]_vars
  <2> SUFFICES ASSUME RespectInv, [Next]_vars, NEW c \in Cmds,
                      kind[c] = "deploy", request[c] = "sent", request'[c] = "landed"
               PROVE  Respectful(c)
    OBVIOUS
  <2>1. workflow' = UpsertInput(c)
    BY OnlyLandLands DEF RespectInv, Land, Input
  <2>2. seen[c] = workflow /\ workflow # Absent => workflow'.status = workflow.status
    BY <2>1 DEF RespectInv, TypeOK, Workflows, UpsertInput
  <2>3. /\ moved[c] \/ misread[c] \/ seen[c] = workflow
        /\ agreed[c] \/ seen[c] = Absent
    BY DEF RespectInv, KnowsWorkflow
  <2> QED BY <2>2, <2>3 DEF Respectful
<1> QED BY <1>1, <1>2, <1>3, PTL DEF Spec, RespectsWorkflow

----------------------------------------------------------------------------
(* The refinement.                                                         *)

\* What lands is what the kind of the command says it may do to the workflow.
LEMMA InputIsEffect ==
    ASSUME TypeOK, RequestOrder, NEW c \in Cmds, Land(c)
    PROVE  workflow' \in Slot!Effects(kind[c], workflow)
<1>1. kind[c] \in {"deploy", "activate", "pause", "delete"} /\ workflow' = Input(c)
  BY DEF TypeOK, RequestOrder, Kinds, Land
<1>2. CASE kind[c] = "deploy"
  BY <1>1, <1>2 DEF TypeOK, UploadTypeOK, Input, UpsertInput, Slot!Effects, Slot!Workflows
<1>3. CASE kind[c] # "deploy"
  <2>1. /\ workflow # Absent /\ workflow \in Workflows /\ seen[c] \in Workflows
        /\ workflow.id = seen[c].id
    BY <1>3, NoIdAssumption DEF TypeOK, Land, Workflows, Absent
  <2>2. CASE kind[c] = "delete"
    BY <1>1, <2>1, <2>2 DEF Input, DeleteInput, Slot!Effects
  <2>3. CASE kind[c] = "pause"
    BY <1>1, <2>1, <2>3 DEF Input, PauseInput, Slot!Effects, Workflows
  <2>4. CASE kind[c] = "activate"
    BY <1>1, <2>1, <2>4 DEF Input, ActivateInput, Slot!Effects, Workflows
  <2> QED BY <1>1, <1>3, <2>2, <2>3, <2>4
<1> QED BY <1>2, <1>3

\* The end of a command is the report of its outcome.
LEMMA EndIsReport ==
    ASSUME TypeOK, RequestOrder, NEW c \in Cmds, pc[c] # "done",
           NEW told \in {"ok", "declined", "error"}, End(c, told),
           told = "ok" => request[c] = "landed", told = "declined" => pc[c] # "wait",
           UNCHANGED <<kind, request, workflow>>
    PROVE  Slot!Next
BY DEF TypeOK, RequestOrder, End, Slot!Next, Slot!Report

\* Every step of a command, of its upload and of the backend is a change, a
\* report or nothing of RegistrySlot.
LEMMA SlotStep == TypeOK /\ RequestOrder /\ [Next]_vars => [Slot!Next]_(Slot!vars)
<1> SUFFICES ASSUME TypeOK, RequestOrder, [Next]_vars PROVE Slot!Next \/ UNCHANGED Slot!vars
  BY DEF Slot!vars
<1> USE DEF Slot!vars, cmdVars
<1>1. CASE UNCHANGED vars
  BY <1>1 DEF vars
<1>2. ASSUME NEW c \in Cmds, Step(c) PROVE Slot!Next \/ UNCHANGED Slot!vars
  <2>1. CASE RequestAccess(c)     BY <2>1, EndIsReport DEF RequestAccess
  <2>2. CASE Prepare(c)           BY <2>2, EndIsReport DEF Prepare
  <2>3. CASE GetWorkflowByName(c) BY <2>3 DEF GetWorkflowByName
  <2>4. CASE NotFound(c)          BY <2>4 DEF NotFound
  <2>5. CASE FetchFails(c)        BY <2>5, EndIsReport DEF FetchFails
  <2>6. CASE Decide(c)            BY <2>6, EndIsReport DEF Decide
  <2>7. CASE ConfirmOverwrite(c)  BY <2>7, EndIsReport DEF ConfirmOverwrite
  <2>8. CASE ConfirmDelete(c)     BY <2>8, EndIsReport DEF ConfirmDelete
  <2>9. CASE Upload(c)            BY <2>9 DEF Upload
  <2>10. CASE UploadEnds(c)       BY <2>10, EndIsReport DEF UploadEnds
  <2>11. CASE InvalidInput(c)     BY <2>11, EndIsReport DEF InvalidInput
  <2>12. CASE Send(c)
    <3>1. {d \in Cmds : request[d] = "landed"}' = {d \in Cmds : request[d] = "landed"}
      BY <2>12 DEF Send, TypeOK, RequestOrder
    <3> QED BY <2>12, <3>1 DEF Send
  <2>13. CASE Answered(c)         BY <2>13, EndIsReport DEF Answered
  <2>14. CASE GaveUp(c)           BY <2>14, EndIsReport DEF GaveUp
  <2> QED BY <1>2, <2>1, <2>2, <2>3, <2>4, <2>5, <2>6, <2>7, <2>8, <2>9, <2>10, <2>11,
             <2>12, <2>13, <2>14 DEF Step
<1>3. ASSUME NEW c \in Cmds, Land(c) PROVE Slot!Next
  <2>1. {d \in Cmds : request[d] = "landed"}' = {d \in Cmds : request[d] = "landed"} \cup {c}
    BY <1>3 DEF Land, TypeOK
  <2>2. request[c] # "landed" /\ outcome[c] # "declined"
    BY <1>3 DEF Land, RequestOrder
  <2>3. Slot!Change(c)
    BY <1>3, <2>1, <2>2, InputIsEffect DEF Land, Slot!Change
  <2> QED BY <2>3 DEF Slot!Next
<1>4. ASSUME NEW c \in Cmds, RefuseMutation(c) PROVE UNCHANGED Slot!vars
  <2>1. {d \in Cmds : request[d] = "landed"}' = {d \in Cmds : request[d] = "landed"}
    BY <1>4 DEF RefuseMutation, TypeOK
  <2> QED BY <1>4, <2>1 DEF RefuseMutation
<1> QED BY <1>1, <1>2, <1>3, <1>4 DEF Next

\* The lifecycle commands on a private registry implement RegistrySlot: each
\* changes the workflow at most once, in the way of its kind, and what it tells
\* the user is so, although the backend may process a mutation after the
\* command has given up on it.
THEOREM Implements == Spec => KeepsPromise
<1>1. Init => Slot!Init
  BY DEF Init, Slot!Init, Workflows, Slot!Workflows
<1>2. Init => TypeOK /\ RequestOrder
  BY TypeInit DEF Init, RequestOrder
<1>3. TypeOK /\ RequestOrder /\ [Next]_vars => (TypeOK /\ RequestOrder)'
  BY TypeStep, OrderStep
<1>4. TypeOK /\ RequestOrder /\ [Next]_vars => [Slot!Next]_(Slot!vars)
  BY SlotStep
<1> QED BY <1>1, <1>2, <1>3, <1>4, PTL DEF Spec, KeepsPromise, Slot!Spec

----------------------------------------------------------------------------
(* Owner linking.                                                          *)

LinkSpec == LinkInit /\ [][LinkNext]_linkVars

-----------------------------------------------------------------------------
(* Types.                                                                  *)

UserTypes ==
    /\ call \in CallTypes
    /\ at \in [Users -> Spots]
    /\ expiry \in [Users -> 0..(MaxTime + 1)]
    /\ tx \in [Users -> {"none", "sent", "left", "mined", "reverted"}]
    /\ polls \in [Users -> 0..(Polls - 1)]
    /\ result \in [Users -> Results]
    /\ turned \in [Users -> BOOLEAN]

WorldTypes ==
    /\ owned \in Accounts \cup {NoAccount} /\ view \in Accounts \cup {NoAccount}
    /\ now \in 0..MaxTime /\ skew \in Skews

LEMMA SplitTypes == LinkTypeOK <=> UserTypes /\ WorldTypes
BY DEF LinkTypeOK, UserTypes, WorldTypes

LEMMA SplitTypesPrimed == LinkTypeOK' <=> UserTypes' /\ WorldTypes'
BY DEF LinkTypeOK, UserTypes, WorldTypes

LEMMA LinkTypeInit == LinkInit => LinkTypeOK
<1> SUFFICES ASSUME LinkInit PROVE UserTypes /\ WorldTypes
  BY SplitTypes
<1> USE LinkAssumption DEF LinkInit
<1>1. UserTypes
  BY DEF UserTypes, Spots, Results
<1>2. WorldTypes
  BY DEF WorldTypes
<1> QED BY <1>1, <1>2


LEMMA UserTypesStep ==
    ASSUME UserTypes, WorldTypes, NEW u \in Users, UserStep(u)
    PROVE  UserTypes' /\ UNCHANGED <<call, worldVars>>
<1> USE LinkAssumption DEF UserTypes, Spots, Results, To, Finish, Linked, Quiet, Stays
<1>1. CASE Begin(u)
  BY <1>1 DEF Begin
<1>2. CASE Fail(u) \/ CheckOwner(u) \/ Verify(u) \/ Label(u)
  BY <1>2 DEF Fail, CheckOwner, Verify, Label
<1>3. CASE Poll(u)
  <2>1. polls' \in [Users -> 0..(Polls - 1)]
    BY <1>3 DEF Poll
  <2> QED BY <1>3, <2>1 DEF Poll
<1>4. CASE AlreadyLinked(u) \/ StillLinked(u) \/ Consent(u)
  BY <1>4 DEF AlreadyLinked, StillLinked, Consent
<1>5. CASE InitiateLinking(u) \/ InitiateUnlinking(u)
  <2>1. expiry' \in [Users -> 0..(MaxTime + 1)]
    BY <1>5 DEF InitiateLinking, InitiateUnlinking, Initiate, WorldTypes
  <2> QED BY <1>5, <2>1 DEF InitiateLinking, InitiateUnlinking, Initiate
<1>6. CASE ValidateLink(u) \/ ValidateUnlink(u)
  BY <1>6 DEF ValidateLink, ValidateUnlink
<1>7. CASE Submit(u)
  BY <1>7 DEF Submit
<1>8. CASE LinkOwner(u) \/ UnlinkOwner(u)
  BY <1>8 DEF LinkOwner, UnlinkOwner, Receipt
<1> QED BY <1>1, <1>2, <1>3, <1>4, <1>5, <1>6, <1>7, <1>8 DEF UserStep

LEMMA LinkTypeStep == LinkTypeOK /\ [LinkNext]_linkVars => LinkTypeOK'
<1> SUFFICES ASSUME UserTypes, WorldTypes, [LinkNext]_linkVars PROVE UserTypes' /\ WorldTypes'
  BY SplitTypes, SplitTypesPrimed
<1>1. CASE Follow \/ Tick \/ UNCHANGED linkVars
  BY <1>1, LinkAssumption DEF Follow, Tick, linkVars, userVars, worldVars, UserTypes, WorldTypes
<1>2. ASSUME NEW u \in Users, UserStep(u) PROVE UserTypes' /\ WorldTypes'
  BY <1>2, UserTypesStep DEF worldVars, WorldTypes
<1>3. ASSUME NEW u \in Users, Mined(u) PROVE UserTypes' /\ WorldTypes'
  <2>1. WorldTypes'
    BY <1>3 DEF Mined, WorldTypes, UserTypes, CallTypes, Mine
  <2>2. turned' \in [Users -> BOOLEAN]
    BY <1>3, Zenon DEF Mined, UserTypes
  <2>3. UserTypes'
    BY <1>3, <2>2 DEF Mined, UserTypes
  <2> QED BY <2>1, <2>3
<1> QED BY <1>1, <1>2, <1>3 DEF LinkNext

\* Every variable of the linking has its type: a deploy that waits for the backend
\* never counts more polls than it may make, and no request is signed beyond the end.
THEOREM LinkTypeCorrect == LinkSpec => []LinkTypeOK
BY LinkTypeInit, LinkTypeStep, PTL DEF LinkSpec

-----------------------------------------------------------------------------
(* A deploy goes on for its own owner only.                                *)

\* Where a command has sent nothing yet, and where only a deploy gets.
BeforeTx == {"begin", "check", "verify", "label", "recheck", "consent", "initiate", "validate",
             "submit"}

TxIsLast   == \A u \in Users : at[u] \in BeforeTx => tx[u] = "none"
DeploySpots == \A u \in Users : at[u] \in {"check", "verify", "poll"} => Deploys(u)

\* While u runs and nobody else's transaction is mined, the backend lags behind the
\* contract by u's own transaction at most.
InStep ==
    \A u \in Users : Running(u) /\ Deploys(u) /\ ~turned[u] =>
        /\ tx[u] = "mined" => owned = Mine(u)
        /\ tx[u] # "mined" => view = owned

LinkInv == LinkTypeOK /\ TxIsLast /\ DeploySpots /\ InStep

\* What a step of u leaves to the others.
LEMMA OneUser ==
    ASSUME UserTypes, NEW u \in Users, UserStep(u)
    PROVE  /\ \A w \in Users \ {u} : at'[w] = at[w] /\ tx'[w] = tx[w] /\ result'[w] = result[w]
           /\ UNCHANGED <<call, owned, view>>
           /\ turned' = turned \/ (Begin(u) /\ turned' = [turned EXCEPT ![u] = (view # owned)])
<1> USE DEF UserTypes, To, Finish, Linked, Quiet, Stays, worldVars
<1>1. CASE Begin(u)
  BY <1>1 DEF Begin
<1>2. CASE Fail(u) \/ CheckOwner(u) \/ Verify(u) \/ Label(u)
  BY <1>2 DEF Fail, CheckOwner, Verify, Label
<1>3. CASE Poll(u)
  BY <1>3 DEF Poll
<1>4. CASE AlreadyLinked(u) \/ StillLinked(u) \/ Consent(u)
  BY <1>4 DEF AlreadyLinked, StillLinked, Consent
<1>5. CASE InitiateLinking(u) \/ InitiateUnlinking(u)
  BY <1>5 DEF InitiateLinking, InitiateUnlinking, Initiate
<1>6. CASE ValidateLink(u) \/ ValidateUnlink(u)
  BY <1>6 DEF ValidateLink, ValidateUnlink
<1>7. CASE Submit(u)
  BY <1>7 DEF Submit
<1>8. CASE LinkOwner(u) \/ UnlinkOwner(u)
  BY <1>8 DEF LinkOwner, UnlinkOwner, Receipt
<1> QED BY <1>1, <1>2, <1>3, <1>4, <1>5, <1>6, <1>7, <1>8 DEF UserStep

\* Where u goes, and with what.
LEMMA OwnSteps ==
    ASSUME UserTypes, DeploySpots, NEW u \in Users, UserStep(u)
    PROVE  /\ at[u] # "end" /\ at'[u] # "begin"
           /\ \/ tx'[u] = tx[u] /\ (at'[u] \in BeforeTx => at[u] \in BeforeTx)
              \/ at'[u] \notin BeforeTx /\ tx'[u] # "mined" /\ at[u] = "submit"
           /\ at'[u] \in {"check", "verify", "poll"} => Deploys(u)
           /\ result'[u] = "verified" /\ result[u] = "none" => at[u] \in {"verify", "poll"} /\ view = Mine(u)
<1> USE DEF UserTypes, To, Finish, Linked, Quiet, Stays, BeforeTx
<1>1. CASE Begin(u)
  BY <1>1 DEF Begin
<1>2. CASE Fail(u) \/ CheckOwner(u) \/ Verify(u) \/ Label(u)
  BY <1>2 DEF Fail, CheckOwner, Verify, Label, Spots, DeploySpots
<1>3. CASE Poll(u)
  BY <1>3 DEF Poll, DeploySpots
<1>4. CASE AlreadyLinked(u) \/ StillLinked(u) \/ Consent(u)
  BY <1>4 DEF AlreadyLinked, StillLinked, Consent, Deploys
<1>5. CASE InitiateLinking(u) \/ InitiateUnlinking(u)
  BY <1>5 DEF InitiateLinking, InitiateUnlinking, Initiate
<1>6. CASE ValidateLink(u) \/ ValidateUnlink(u)
  BY <1>6 DEF ValidateLink, ValidateUnlink
<1>7. CASE Submit(u)
  BY <1>7 DEF Submit, Deploys
<1>8. CASE LinkOwner(u) \/ UnlinkOwner(u)
  BY <1>8 DEF LinkOwner, UnlinkOwner, Receipt, Deploys
<1> QED BY <1>1, <1>2, <1>3, <1>4, <1>5, <1>6, <1>7, <1>8 DEF UserStep


LEMMA LinkInvStep == LinkInv /\ [LinkNext]_linkVars => LinkInv'
<1> SUFFICES ASSUME LinkInv, [LinkNext]_linkVars PROVE LinkInv'
  OBVIOUS
<1>0. UserTypes /\ WorldTypes /\ LinkTypeOK'
  BY SplitTypes, LinkTypeStep DEF LinkInv
<1>1. CASE Follow \/ Tick \/ UNCHANGED linkVars
  <2>1. UNCHANGED <<userVars, owned, turned>> /\ (view' = view \/ view' = owned)
    BY <1>1 DEF Follow, Tick, linkVars, worldVars
  <2>2. TxIsLast' /\ DeploySpots'
    BY <2>1 DEF LinkInv, TxIsLast, DeploySpots, userVars, Deploys, Kind
  <2>3. InStep'
    BY <2>1 DEF LinkInv, InStep, userVars, Running, Deploys, Kind, Mine
  <2> QED BY <1>0, <2>2, <2>3 DEF LinkInv
<1>2. ASSUME NEW u \in Users, UserStep(u) PROVE LinkInv'
  <2>1. /\ \A w \in Users \ {u} : at'[w] = at[w] /\ tx'[w] = tx[w]
        /\ UNCHANGED <<call, owned, view>>
        /\ turned' = turned \/ (Begin(u) /\ turned' = [turned EXCEPT ![u] = (view # owned)])
    BY <1>0, <1>2, OneUser
  <2>2. /\ at[u] # "end" /\ at'[u] # "begin"
        /\ \/ tx'[u] = tx[u] /\ (at'[u] \in BeforeTx => at[u] \in BeforeTx)
           \/ at'[u] \notin BeforeTx /\ tx'[u] # "mined" /\ at[u] = "submit"
        /\ at'[u] \in {"check", "verify", "poll"} => Deploys(u)
    BY <1>0, <1>2, OwnSteps DEF LinkInv
  <2>3. TxIsLast' /\ DeploySpots'
    BY <2>1, <2>2 DEF LinkInv, TxIsLast, DeploySpots, Deploys, Kind
  <2>4. ASSUME NEW w \in Users, w # u, Running(w)', Deploys(w)', ~turned'[w]
        PROVE  (tx'[w] = "mined" => owned' = Mine(w)') /\ (tx'[w] # "mined" => view' = owned')
    <3>1. Running(w) /\ Deploys(w) /\ tx'[w] = tx[w]
      BY <2>1, <2>4 DEF Running, Deploys, Kind
    <3>2. ~turned[w]
      BY <1>0, <2>1, <2>4, Zenon DEF UserTypes
    <3> QED BY <2>1, <3>1, <3>2 DEF LinkInv, InStep, Mine
  <2>5. ASSUME Running(u)', Deploys(u)', ~turned'[u]
        PROVE  (tx'[u] = "mined" => owned' = Mine(u)') /\ (tx'[u] # "mined" => view' = owned')
    <3>1. CASE Begin(u)
      <4>1. at[u] = "begin" /\ tx' = tx /\ turned' = [turned EXCEPT ![u] = (view # owned)]
        BY <3>1 DEF Begin
      <4>2. view = owned
        BY <1>0, <2>5, <4>1 DEF UserTypes
      <4>3. tx[u] = "none"
        BY <4>1 DEF LinkInv, TxIsLast, BeforeTx
      <4> QED BY <2>1, <4>1, <4>2, <4>3
    <3>2. CASE ~Begin(u)
      <4>1. turned' = turned
        BY <2>1, <3>2
      <4>2. at[u] # "begin"
        BY <1>2, <3>2 DEF UserStep, Fail, CheckOwner, Verify, Poll, Label, AlreadyLinked, StillLinked,
           Consent, InitiateLinking, InitiateUnlinking, Initiate, ValidateLink, ValidateUnlink,
           Submit, LinkOwner, UnlinkOwner, Receipt
      <4>3. Running(u) /\ Deploys(u) /\ ~turned[u]
        BY <2>1, <2>2, <2>5, <4>1, <4>2 DEF Running, Deploys, Kind
      <4>4. (tx[u] = "mined" => owned = Mine(u)) /\ (tx[u] # "mined" => view = owned)
        BY <4>3 DEF LinkInv, InStep
      <4>5. tx'[u] = tx[u] \/ (tx[u] = "none" /\ tx'[u] # "mined")
        BY <2>2 DEF LinkInv, TxIsLast, BeforeTx
      <4> QED BY <2>1, <4>4, <4>5 DEF Mine
    <3> QED BY <3>1, <3>2
  <2>6. InStep'
    BY <2>4, <2>5 DEF InStep
  <2> QED BY <1>0, <2>3, <2>6 DEF LinkInv
<1>3. ASSUME NEW u \in Users, Mined(u) PROVE LinkInv'
  <2>1. /\ UNCHANGED <<call, at, view>> /\ tx[u] \in {"sent", "left"}
        /\ \A w \in Users \ {u} : tx'[w] = tx[w]
    BY <1>0, <1>3 DEF Mined, UserTypes
  <2>2. TxIsLast' /\ DeploySpots'
    BY <2>1 DEF LinkInv, TxIsLast, DeploySpots, Deploys, Kind
  <2>3. CASE ~Admissible(u)
    <3>1. UNCHANGED <<owned, turned>> /\ tx'[u] = "reverted"
      BY <1>0, <1>3, <2>3 DEF Mined, UserTypes
    <3>2. InStep'
      BY <2>1, <3>1 DEF LinkInv, InStep, Running, Deploys, Kind, Mine
    <3> QED BY <1>0, <2>2, <3>2 DEF LinkInv
  <2>4. CASE Admissible(u)
    <3>1. /\ owned' = IF Kind(u) = "unlink" THEN NoAccount ELSE Mine(u)
          /\ tx'[u] = "mined"
          /\ turned' = [w \in Users |-> turned[w] \/ (Running(w) /\ w # u)]
      BY <1>0, <1>3, <2>4 DEF Mined, UserTypes
    <3>2. ASSUME NEW w \in Users, Running(w)', Deploys(w)', ~turned'[w] PROVE w = u
      BY <2>1, <3>1, <3>2 DEF Running
    <3>3. Deploys(u)' => owned' = Mine(u)'
      BY <2>1, <3>1 DEF Deploys, Kind, Mine
    <3>4. InStep'
      BY <3>1, <3>2, <3>3 DEF InStep
    <3> QED BY <1>0, <2>2, <3>4 DEF LinkInv
  <2> QED BY <2>3, <2>4
<1> QED BY <1>1, <1>2, <1>3 DEF LinkNext

LEMMA LinkInvariant == LinkSpec => []LinkInv
<1>1. LinkInit => LinkInv
  BY LinkTypeInit DEF LinkInit, LinkInv, TxIsLast, DeploySpots, InStep, Running
<1> QED BY <1>1, LinkInvStep, PTL DEF LinkSpec

\* A deploy that says "verified" has read the backend's list for its account
\* (auto_link.go): what it has read there, the contract said when nobody else's
\* transaction came between and the backend was not behind at the start.
THEOREM GoesOnLinkedHolds == LinkSpec => GoesOnLinked
<1>1. ASSUME LinkInv, [LinkNext]_linkVars, NEW u \in Users, result'[u] = "verified", result[u] = "none"
      PROVE  owned = Mine(u) \/ turned[u]
  <2>0. UserTypes
    BY <1>1, SplitTypes DEF LinkInv
  <2>1. ~UNCHANGED result
    BY <1>1
  <2>2. PICK w \in Users : UserStep(w)
    BY <1>1, <2>1 DEF LinkNext, Follow, Tick, Mined, linkVars, userVars
  <2>3. w = u
    BY <1>1, <2>0, <2>2, OneUser
  <2>4. at[u] \in {"verify", "poll"} /\ view = Mine(u)
    BY <1>1, <2>0, <2>2, <2>3, OwnSteps DEF LinkInv
  <2>5. Running(u) /\ Deploys(u)
    BY <1>1, <2>4 DEF LinkInv, DeploySpots, Running
  <2> QED BY <1>1, <2>4, <2>5 DEF LinkInv, InStep
<1>2. LinkInv /\ [LinkNext]_linkVars =>
         [\A u \in Users : result'[u] = "verified" /\ result[u] = "none" =>
                              owned = Mine(u) \/ turned[u]]_linkVars
  BY <1>1
<1> QED BY <1>2, LinkInvariant, PTL DEF LinkSpec, GoesOnLinked

-----------------------------------------------------------------------------
(* Both.                                                                   *)

\* The commands on a private registry and the linking of owners, side by side as
\* MCBackend has them: every variable of either keeps its type.
THEOREM TypesHold == MCSpec => []TypesOK
<1>1. MCInit => TypesOK
  BY TypeInit, LinkTypeInit DEF MCInit, TypesOK
<1>2. TypesOK /\ [MCNext]_<<part, vars, linkVars>> => TypesOK'
  <2> SUFFICES ASSUME TypesOK, [MCNext]_<<part, vars, linkVars>> PROVE TypesOK'
    OBVIOUS
  <2>1. [Next]_vars /\ [LinkNext]_linkVars
    BY DEF MCNext
  <2> QED BY <2>1, TypeStep, LinkTypeStep DEF TypesOK
<1> QED BY <1>1, <1>2, PTL DEF MCSpec
=============================================================================
