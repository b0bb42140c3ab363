----------------------------- MODULE RegistrySlot ------------------------------
(***************************************************************************)
(* What the lifecycle commands promise about one workflow name: each       *)
(* changes it at most once, in the way its name says, and tells the truth: *)
(* "ok" only after the change, "declined" only if there is none and there  *)
(* will be none.  After "error" the change may or may not happen.          *)
(***************************************************************************)
CONSTANTS Cmds, Ids, Absent

VARIABLES
    kind,       \* kind[c]: the command
    workflow,   \* the workflow that has the name, or Absent
    landed,     \* commands whose change took place
    outcome     \* outcome[c]: what the user was told

vars == <<kind, workflow, landed, outcome>>

Workflows == [id : Ids, status : {"ACTIVE", "PAUSED"}]

Init ==
    /\ workflow \in Workflows \cup {Absent}
    /\ landed = {}
    /\ outcome = [c \in Cmds |-> "none"]

\* What a command of kind k may make of the workflow w.
Effects(k, w) ==
    CASE k = "deploy" -> Workflows
      [] k = "delete" /\ w # Absent -> {Absent}
      [] k = "pause" /\ w # Absent -> {[w EXCEPT !.status = "PAUSED"]}
      [] k = "activate" /\ w # Absent -> {[w EXCEPT !.status = "ACTIVE"]}
      [] OTHER -> {}

Change(c) ==
    /\ c \notin landed
    /\ outcome[c] # "declined"
    /\ workflow' \in Effects(kind[c], workflow)
    /\ landed' = landed \cup {c}
    /\ UNCHANGED <<kind, outcome>>

Report(c, result) ==
    /\ outcome[c] = "none"
    /\ result = "ok" => c \in landed
    /\ result = "declined" => c \notin landed
    /\ outcome' = [outcome EXCEPT ![c] = result]
    /\ UNCHANGED <<kind, workflow, landed>>

Next == \E c \in Cmds : Change(c) \/ \E r \in {"ok", "declined", "error"} : Report(c, r)

Spec == Init /\ [][Next]_vars
=============================================================================
