---------------------------- MODULE PrivateRegistry ----------------------------
(***************************************************************************)
(* Deploy, activate, pause and delete of one workflow name in a private    *)
(* registry: commands of several terminals against the backend.  Each      *)
(* fetches the workflow by its name, decides, and sends one mutation.  The *)
(* backend may process a mutation long after the client stopped waiting.   *)
(***************************************************************************)
EXTENDS ArtifactUpload

CONSTANTS Mixes,    \* the combinations of commands to look at, [Cmds -> Kinds]
          NoId

Kinds == {"none", "deploy", "activate", "pause", "delete"}

ASSUME MixesAssumption == Mixes \subseteq [Cmds -> Kinds]
ASSUME NoIdAssumption == NoId \notin Ids

VARIABLES
    kind,       \* kind[c]: the command, "none" if it is never called
    pc,         \* pc[c]: where it is
    seen,       \* seen[c]: the workflow as c fetched it
    agreed,     \* agreed[c]: the user agreed to an overwrite
    request,    \* request[c]: its mutation: "none", "sent", "landed", "refused"
    outcome,    \* outcome[c]: "ok", "declined" (nothing was sent), "error"
    workflow,   \* the backend: the workflow of that name, or Absent
    misread,    \* history: c took another error for "not found"
    moved       \* history: another command changed the workflow after c looked

cmdVars == <<kind, pc, seen, agreed, request, outcome>>
histVars == <<misread, moved>>
vars == <<uploadVars, cmdVars, workflow, histVars>>

Workflows == [id : Ids, status : {"ACTIVE", "PAUSED"}]
Absent    == [id |-> NoId, status |-> "ABSENT"]
Places    == {"start", "fetch", "decide", "confirm", "upload", "send", "wait", "done"}

\* Every variable has its type; a fetched workflow is a workflow or Absent.
TypeOK ==
    /\ UploadTypeOK
    /\ kind \in [Cmds -> Kinds]
    /\ pc \in [Cmds -> Places]
    /\ seen \in [Cmds -> Workflows \cup {Absent}]
    /\ {agreed, misread, moved} \subseteq [Cmds -> BOOLEAN]
    /\ request \in [Cmds -> {"none", "sent", "landed", "refused"}]
    /\ outcome \in [Cmds -> {"none", "ok", "declined", "error"}]
    /\ workflow \in Workflows \cup {Absent}

\* A workflow that is registered has been uploaded.
Init ==
    /\ UploadInit
    /\ kind \in Mixes
    /\ pc = [c \in Cmds |-> "start"]
    /\ seen = [c \in Cmds |-> Absent]
    /\ agreed = [c \in Cmds |-> FALSE]
    /\ request = [c \in Cmds |-> "none"]
    /\ outcome = [c \in Cmds |-> "none"]
    /\ workflow \in Workflows \cup {Absent}
    /\ stored = IF workflow = Absent THEN {} ELSE {workflow.id} \X Types
    /\ misread = [c \in Cmds |-> FALSE]
    /\ moved = [c \in Cmds |-> FALSE]

Goto(c, place) == pc' = [pc EXCEPT ![c] = place]

End(c, result) ==
    /\ Goto(c, "done")
    /\ outcome' = [outcome EXCEPT ![c] = result]

----------------------------------------------------------------------------
(* The commands.                                                           *)

\* A deploy without access to deployments offers to request it, and ends.
RequestAccess(c) ==
    /\ pc[c] = "start"
    /\ kind[c] = "deploy"
    /\ End(c, "declined")
    /\ UNCHANGED <<uploadVars, kind, seen, agreed, request, workflow, histVars>>

\* Inputs are validated, artifacts built or downloaded: this may fail.
Prepare(c) ==
    /\ pc[c] = "start"
    /\ kind[c] # "none"
    /\ \/ Goto(c, "fetch") /\ UNCHANGED outcome
       \/ End(c, "declined")
    /\ UNCHANGED <<uploadVars, kind, seen, agreed, request, workflow, histVars>>

\* GetWorkflowByName.
GetWorkflowByName(c) ==
    /\ pc[c] = "fetch"
    /\ workflow # Absent
    /\ seen' = [seen EXCEPT ![c] = workflow]
    /\ Goto(c, "decide")
    /\ UNCHANGED <<uploadVars, kind, agreed, request, outcome, workflow, histVars>>

\* An error whose text contains "not found" is, for a deploy, a new workflow.
\* The backend says so of the workflow, or of something else.
NotFound(c) ==
    /\ pc[c] = "fetch"
    /\ kind[c] = "deploy"
    /\ Goto(c, "upload")
    /\ misread' = [misread EXCEPT ![c] = workflow # Absent]
    /\ UNCHANGED <<uploadVars, kind, seen, agreed, request, outcome, workflow, moved>>

FetchFails(c) ==
    /\ pc[c] = "fetch"
    /\ End(c, "declined")
    /\ UNCHANGED <<uploadVars, kind, seen, agreed, request, workflow, histVars>>

\* What the strategies check of the workflow they fetched.
WorkflowUnchanged(c) == kind[c] = "deploy" /\ seen[c].id = built[c]
AlreadyActive(c)     == kind[c] = "activate" /\ seen[c].status = "ACTIVE"
AlreadyPaused(c)     == kind[c] = "pause" /\ seen[c].status = "PAUSED"

Decision(c) ==
    CASE WorkflowUnchanged(c) \/ AlreadyActive(c) \/ AlreadyPaused(c) -> "declined"
      [] kind[c] \in {"deploy", "delete"} -> "confirm"
      [] OTHER -> "send"

Decide(c) ==
    /\ pc[c] = "decide"
    /\ IF Decision(c) = "declined" THEN End(c, "declined")
                                   ELSE Goto(c, Decision(c)) /\ UNCHANGED outcome
    /\ UNCHANGED <<uploadVars, kind, seen, agreed, request, workflow, histVars>>

Agree(c) ==
    \/ agreed' = [agreed EXCEPT ![c] = TRUE]
    \/ UNCHANGED agreed

\* --yes or the prompt, before an overwrite.
ConfirmOverwrite(c) ==
    /\ pc[c] = "confirm"
    /\ kind[c] = "deploy"
    /\ Agree(c)
    /\ IF agreed'[c] THEN Goto(c, "upload") /\ UNCHANGED outcome ELSE End(c, "declined")
    /\ UNCHANGED <<uploadVars, kind, seen, request, workflow, histVars>>

\* The same before a deletion; one that is not confirmed ends with success.
ConfirmDelete(c) ==
    /\ pc[c] = "confirm"
    /\ kind[c] = "delete"
    /\ Agree(c)
    /\ IF agreed'[c] THEN Goto(c, "send") /\ UNCHANGED outcome ELSE End(c, "declined")
    /\ UNCHANGED <<uploadVars, kind, seen, request, workflow, histVars>>

Upload(c) ==
    /\ pc[c] = "upload"
    /\ BeginUpload(c) \/ UploadStep(c)
    /\ UNCHANGED <<cmdVars, workflow, histVars>>

UploadEnds(c) ==
    /\ pc[c] = "upload"
    /\ \/ stage[c] = "uploaded" /\ Goto(c, "send") /\ UNCHANGED outcome
       \/ stage[c] = "failed" /\ End(c, "declined")
    /\ UNCHANGED <<uploadVars, kind, seen, agreed, request, workflow, histVars>>

\* The mutation leaves, with what it needs of the state the command has seen.
Send(c) ==
    /\ pc[c] = "send"
    /\ request' = [request EXCEPT ![c] = "sent"]
    /\ Goto(c, "wait")
    /\ UNCHANGED <<uploadVars, kind, seen, agreed, outcome, workflow, histVars>>

\* The client checks the lengths and the fields of an upsert before it sends it.
InvalidInput(c) ==
    /\ pc[c] = "send"
    /\ kind[c] = "deploy"
    /\ End(c, "declined")
    /\ UNCHANGED <<uploadVars, kind, seen, agreed, request, workflow, histVars>>

Answered(c) ==
    /\ pc[c] = "wait"
    /\ \/ request[c] = "landed" /\ End(c, "ok")
       \/ request[c] = "refused" /\ End(c, "error")
    /\ UNCHANGED <<uploadVars, kind, seen, agreed, request, workflow, histVars>>

\* Mutant: the error of the mutation is dropped.
GaveUpSwallowed(c) ==
    /\ pc[c] = "wait"
    /\ End(c, "ok")
    /\ UNCHANGED <<uploadVars, kind, seen, agreed, request, workflow, histVars>>

\* The service timeout, a lost answer or Ctrl+C.
GaveUp(c) ==
    /\ pc[c] = "wait"
    /\ End(c, "error")
    /\ UNCHANGED <<uploadVars, kind, seen, agreed, request, workflow, histVars>>

----------------------------------------------------------------------------
(* The backend, as the commands rely on it.                                *)

\* Mutant: the status of the workflow is not looked at.
UpsertInputActive(c) == [id |-> built[c], status |-> "ACTIVE"]

\* buildPrivateRegistryInput: an update of a paused workflow keeps it paused.
UpsertInput(c) ==
    [id |-> built[c], status |-> IF seen[c].status = "PAUSED" THEN "PAUSED" ELSE "ACTIVE"]

\* Pause, activate and delete name the workflow by the id that was fetched.
PauseInput(c)    == [seen[c] EXCEPT !.status = "PAUSED"]
ActivateInput(c) == [seen[c] EXCEPT !.status = "ACTIVE"]
DeleteInput(c)   == Absent

Input(c) ==
    CASE kind[c] = "deploy" -> UpsertInput(c)
      [] kind[c] = "pause" -> PauseInput(c)
      [] kind[c] = "activate" -> ActivateInput(c)
      [] OTHER -> DeleteInput(c)

\* The backend processes the mutation: an upsert takes the name, the others
\* need the id to be there.
Land(c) ==
    /\ request[c] = "sent"
    /\ kind[c] # "deploy" => workflow # Absent /\ workflow.id = seen[c].id
    /\ workflow' = Input(c)
    /\ request' = [request EXCEPT ![c] = "landed"]
    /\ moved' = [d \in Cmds |-> \/ moved[d]
                                \/ d # c /\ pc[d] \notin {"start", "fetch"}]
    /\ UNCHANGED <<uploadVars, kind, pc, seen, agreed, outcome, misread>>

RefuseMutation(c) ==
    /\ request[c] = "sent"
    /\ request' = [request EXCEPT ![c] = "refused"]
    /\ UNCHANGED <<uploadVars, kind, pc, seen, agreed, outcome, workflow, histVars>>

----------------------------------------------------------------------------
Step(c) ==
    \/ RequestAccess(c) \/ Prepare(c) \/ GetWorkflowByName(c) \/ NotFound(c) \/ FetchFails(c)
    \/ Decide(c) \/ ConfirmOverwrite(c) \/ ConfirmDelete(c) \/ Upload(c) \/ UploadEnds(c)
    \/ InvalidInput(c) \/ Send(c) \/ Answered(c) \/ GaveUp(c)

Next == \E c \in Cmds : Step(c) \/ Land(c) \/ RefuseMutation(c)

\* A command that was called is run by the operating system; the requests it
\* waits for have timeouts.
Fairness == \A c \in Cmds : WF_vars(Step(c))

Spec == Init /\ [][Next]_vars /\ Fairness

----------------------------------------------------------------------------
(* What is checked.                                                        *)

\* The commands keep the promise of RegistrySlot: one change each, reported
\* as it happened.
Slot == INSTANCE RegistrySlot WITH landed <- {c \in Cmds : request[c] = "landed"}

KeepsPromise == Slot!Spec

\* A deploy overwrites a workflow only with consent, and never resumes one
\* that is paused, unless somebody changed the workflow after it looked or the
\* error it got instead of the workflow only read like "not found".
Respectful(c) ==
    \/ workflow = Absent
    \/ misread[c]
    \/ moved[c]
    \/ agreed[c] /\ workflow'.status = workflow.status

RespectsWorkflow ==
    [][\A c \in Cmds :
          kind[c] = "deploy" /\ request[c] = "sent" /\ request'[c] = "landed" => Respectful(c)]_vars

\* A deploy registers a workflow after all its artifacts are in storage,
\* whichever attempts failed and whoever uploaded them.
StoredFirst ==
    \A c \in Cmds : kind[c] = "deploy" /\ request[c] # "none" => {built[c]} \X needs[c] \subseteq stored

\* Every command that was called ends: no wait and no retry goes on forever.
CommandsEnd == \A c \in Cmds : pc[c] # "start" ~> pc[c] = "done"
=============================================================================
