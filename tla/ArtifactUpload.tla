---------------------------- MODULE ArtifactUpload -----------------------------
(***************************************************************************)
(* uploadArtifacts of a deploy and the storage client under it.  For each  *)
(* artifact, the binary and then the config: ask for a presigned POST url, *)
(* POST the content, ask for the GET url, each with its own attempts.  The *)
(* service refuses a presigned url for an artifact it holds; the client    *)
(* recognises that by the text "already exists" and skips the POST.        *)
(***************************************************************************)
EXTENDS Naturals

CONSTANTS
    Cmds,       \* commands that may upload
    Ids,        \* workflow ids
    Attempts    \* attempts for each of the three requests

ASSUME AttemptsAssumption == Attempts \in Nat \ {0}

VARIABLES
    built,      \* built[c]: the id of the workflow c has built
    needs,      \* needs[c]: artifacts c has to store: the others are given by URL
    todo,       \* todo[c]: those it has not stored yet
    stage,      \* stage[c]: the request it is at
    tries,      \* tries[c]: failed attempts of that request
    stored      \* the service: the artifacts it holds

uploadVars == <<built, needs, todo, stage, tries, stored>>

Types  == {"BINARY", "CONFIG"}
Stages == {"idle", "presign", "post", "getUrl", "uploaded", "failed"}

UploadTypeOK ==
    /\ built \in [Cmds -> Ids]
    /\ needs \in [Cmds -> SUBSET Types]
    /\ todo \in [Cmds -> SUBSET Types]
    /\ stage \in [Cmds -> Stages]
    /\ tries \in [Cmds -> 0..(Attempts - 1)]
    /\ stored \subseteq Ids \X Types

\* A workflow without a config, or with one given by URL, has no config to store.
UploadInit ==
    /\ built \in [Cmds -> Ids]
    /\ needs \in [Cmds -> SUBSET Types]
    /\ todo = needs
    /\ stage = [c \in Cmds |-> "idle"]
    /\ tries = [c \in Cmds |-> 0]

Current(c)  == IF "BINARY" \in todo[c] THEN "BINARY" ELSE "CONFIG"
Artifact(c) == <<built[c], Current(c)>>

\* The artifacts left decide whether there is another round.
FirstStage(left) == IF left = {} THEN "uploaded" ELSE "presign"

Enter(c, s) ==
    /\ stage' = [stage EXCEPT ![c] = s]
    /\ tries' = [tries EXCEPT ![c] = 0]

\* Mutants: one attempt too many, and no end.
RetryOnceMore(c) ==
    /\ IF tries[c] < Attempts
         THEN tries' = [tries EXCEPT ![c] = @ + 1] /\ UNCHANGED stage
         ELSE Enter(c, "failed")
    /\ UNCHANGED todo

RetryForever(c) ==
    /\ tries' = [tries EXCEPT ![c] = (@ + 1) % Attempts]
    /\ UNCHANGED <<stage, todo>>

\* retry.Do: the request is repeated until its attempts are used up.
Retry(c) ==
    /\ IF tries[c] + 1 < Attempts
         THEN tries' = [tries EXCEPT ![c] = @ + 1] /\ UNCHANGED stage
         ELSE Enter(c, "failed")
    /\ UNCHANGED todo

BeginUpload(c) ==
    /\ stage[c] = "idle"
    /\ Enter(c, FirstStage(todo[c]))
    /\ UNCHANGED <<built, needs, todo, stored>>

\* A failure to get the url, or a url, or "already exists".
GeneratePostUrl(c) ==
    /\ stage[c] = "presign"
    /\ \/ Retry(c)
       \/ Artifact(c) \in stored /\ Enter(c, "getUrl") /\ UNCHANGED todo
       \/ Artifact(c) \notin stored /\ Enter(c, "post") /\ UNCHANGED todo
    /\ UNCHANGED <<built, needs, stored>>

\* Mutant: the error of the POST is only logged.
UploadToOriginIgnored(c) ==
    /\ stage[c] = "post"
    /\ stored' \in {stored, stored \cup {Artifact(c)}}
    /\ Enter(c, "getUrl")
    /\ UNCHANGED <<built, needs, todo>>

\* The service may have stored the content although the POST failed here.
UploadToOrigin(c) ==
    /\ stage[c] = "post"
    /\ \/ stored' = stored \cup {Artifact(c)} /\ Enter(c, "getUrl") /\ UNCHANGED todo
       \/ stored' = stored \cup {Artifact(c)} /\ Retry(c)
       \/ UNCHANGED stored /\ Retry(c)
    /\ UNCHANGED <<built, needs>>

GenerateGetUrl(c) ==
    /\ stage[c] = "getUrl"
    /\ \/ Retry(c)
       \/ LET left == todo[c] \ {Current(c)}
          IN  todo' = [todo EXCEPT ![c] = left] /\ Enter(c, FirstStage(left))
    /\ UNCHANGED <<built, needs, stored>>

UploadStep(c) == GeneratePostUrl(c) \/ UploadToOrigin(c) \/ GenerateGetUrl(c)
=============================================================================
