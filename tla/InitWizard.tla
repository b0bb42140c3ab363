------------------------------ MODULE InitWizard ------------------------------
(***************************************************************************)
(* The wizard of `cre init`, for one command: its steps in order, those    *)
(* that flags make unnecessary, and what it returns.  A template is a      *)
(* record of what the wizard and the scaffolding read from it.             *)
(***************************************************************************)
EXTENDS Integers, FiniteSets, FiniteSetsExt

CONSTANTS
    Templates,  \* records [builtIn, projectDir, workflows, networks]
    NoTemplate,
    Networks    \* names of networks, in order: 1..n

ASSUME WizardAssumption ==
    /\ Networks \subseteq Nat \ {0}
    /\ Templates \subseteq [builtIn : BOOLEAN, projectDir : BOOLEAN, workflows : Nat,
                           networks : SUBSET Networks]
    /\ NoTemplate \notin Templates

ProjectName    == 1
Template       == 2
TemplateConfirm == 3
NetworkRPCs    == 4
WorkflowName   == 5
Done           == 6

\* A request: the flags.  Project names are "free", or "taken" by a directory.
Requests ==
    [isNew : BOOLEAN, project : {"", "free", "taken"}, template : Templates \cup {NoTemplate},
     workflow : {"", "tdir", "wdir"}, rpcs : SUBSET Networks, badRpc : BOOLEAN,
     nonInteractive : BOOLEAN, refresh : BOOLEAN]

Wizards ==
    [step : ProjectName..Done, project : {"", "free", "taken"}, template : Templates \cup {NoTemplate},
     workflow : {"", "tdir", "wdir"}, filled : SUBSET Networks, cursor : Networks \cup {0},
     asks : BOOLEAN, overwrite : BOOLEAN]

\* newWizardModel and initNetworkRPCInputs: the steps to skip, for the request
\* and the template as far as it is known.
SkipProjectName(r) == ~r.isNew \/ r.project # ""
SkipTemplate(r)    == r.template # NoTemplate
SkipWorkflowName(r, t) == r.workflow # "" \/ (t # NoTemplate /\ (t.projectDir \/ t.workflows > 1))
SkipNetworkRPCs(r, t)  == t # NoTemplate /\ t.networks \subseteq r.rpcs

\* The confirmation is for a template of the flag, when anything else is asked.
SkipConfirm(r, t) ==
    \/ ~SkipTemplate(r)
    \/ SkipProjectName(r) /\ SkipNetworkRPCs(r, t) /\ SkipWorkflowName(r, t)

Skips(r, t, step) ==
    CASE step = ProjectName     -> SkipProjectName(r)
      [] step = Template        -> SkipTemplate(r)
      [] step = TemplateConfirm -> SkipConfirm(r, t)
      [] step = NetworkRPCs     -> SkipNetworkRPCs(r, t)
      [] step = WorkflowName    -> SkipWorkflowName(r, t)
      [] step = Done            -> FALSE

Unfilled(w) == IF w.template = NoTemplate THEN {} ELSE w.template.networks \ w.filled

\* advanceToNextStep, from a step on.
Advance(r, w, from) ==
    LET next == Min({s \in from..Done : ~Skips(r, w.template, s)})
    IN  [w EXCEPT !.step = next, !.cursor = IF next = NetworkRPCs THEN Min(Unfilled(w)) ELSE 0]

\* The template's inputs are set up; what flags give is filled.
Choose(r, w, t) == [w EXCEPT !.template = t, !.filled = t.networks \cap r.rpcs]

NewWizard(r) ==
    LET w == [step |-> ProjectName, project |-> r.project, template |-> NoTemplate,
              workflow |-> r.workflow, filled |-> {}, cursor |-> 0, asks |-> FALSE,
              overwrite |-> FALSE]
    IN  Advance(r, IF r.template = NoTemplate THEN w ELSE Choose(r, w, r.template), ProjectName)

-----------------------------------------------------------------------------
\* handleEnter, step by step: the wizards that one key may lead to.
EnterProjectName(r, w) ==
    IF w.step # ProjectName \/ w.asks THEN {}
    ELSE {Advance(r, [w EXCEPT !.project = "free"], Template), [w EXCEPT !.asks = TRUE]}

\* Of an existing directory: yes, or back to the name.
AnswerOverwrite(r, w) ==
    IF ~w.asks THEN {}
    ELSE {Advance(r, [w EXCEPT !.overwrite = TRUE, !.project = "taken", !.asks = FALSE], Template),
          [w EXCEPT !.asks = FALSE]}

EnterTemplate(r, w, offered) ==
    IF w.step # Template THEN {}
    ELSE {Advance(r, Choose(r, w, t), TemplateConfirm) : t \in offered}

EnterConfirm(r, w) ==
    IF w.step # TemplateConfirm THEN {} ELSE {Advance(r, w, NetworkRPCs)}

\* Mutant: the cursor is moved without a look at the last network.
EnterRPCPast(r, w) ==
    IF w.step # NetworkRPCs THEN {}
    ELSE {[v EXCEPT !.cursor = @ + 1] : v \in {w, [w EXCEPT !.filled = @ \cup {w.cursor}]}}

\* An empty URL is skipped; the cursor goes on to the last network, over those
\* that a flag gave as well.
EnterRPC(r, w) ==
    IF w.step # NetworkRPCs THEN {}
    ELSE LET later == {n \in w.template.networks : n > w.cursor}
             To(v) == IF later = {} THEN Advance(r, v, WorkflowName)
                      ELSE [v EXCEPT !.cursor = Min(later)]
         IN  {To(w), To([w EXCEPT !.filled = @ \cup {w.cursor}])}

EnterWorkflowName(r, w) ==
    IF w.step # WorkflowName THEN {}
    ELSE {Advance(r, [w EXCEPT !.workflow = d], Done) : d \in {"tdir", "wdir"}}

HandleEnter(r, w, offered) ==
    EnterProjectName(r, w) \cup AnswerOverwrite(r, w) \cup EnterTemplate(r, w, offered)
        \cup EnterConfirm(r, w) \cup EnterRPC(r, w) \cup EnterWorkflowName(r, w)
=============================================================================
