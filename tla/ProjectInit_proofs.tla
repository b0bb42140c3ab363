-------------------------- MODULE ProjectInit_proofs --------------------------
(***************************************************************************)
(* Proofs about ProjectInit and what it is made of, for any number of      *)
(* commands, templates, networks and versions, whatever a version holds of *)
(* a template and however a command starts: `cre init` keeps the user's    *)
(* files unless told to overwrite them or moving another over, and a new   *)
(* project has all that one version holds of its template.                 *)
(*                                                                         *)
(* A step is one command's and leaves what the others have alone           *)
(* (OneMoves), so the invariant is one of each command (CmdInv): the       *)
(* wizard is sound, each file of the user is there, and a new project's    *)
(* directory has nothing but a part of the template, each file where the   *)
(* template has it, until one archive was extracted to its end.  What the  *)
(* cache holds matters only through whether an archive is whole when it is *)
(* extracted.                                                              *)
(***************************************************************************)
EXTENDS ProjectInit, FiniteSetTheorems, WellFoundedInduction, TLAPS

ProjectSpec == InitInit /\ [][InitNext]_<<initVars, cacheVars>>

-----------------------------------------------------------------------------
(* The invariant.                                                          *)

\* The wizard asks for networks of the template it has, from the first that no
\* flag gave.
WizardSound(r, w) ==
    /\ w \in Wizards
    /\ w.asks => w.step = ProjectName
    /\ SkipTemplate(r) \/ w.step > Template => w.template # NoTemplate
    /\ w.step < NetworkRPCs /\ w.template # NoTemplate =>
          w.filled = w.template.networks \cap r.rpcs
    /\ w.step = NetworkRPCs => w.cursor \in w.template.networks

WizardsSound == \A c \in Cmds : WizardSound(req[c], wiz[c])

\* Before anything is written each of the user's files is there; later still, or
\* it was moved over, unless the user agreed, as the wizard's answer does.
Early == {"begin", "fetch", "save", "saving", "resolve", "wizard", "names", "dir"}

Here(f, p) == \E q \in Places : f[q] = Theirs(p)

\* A file of the user in the workflow's directory, with another at the root that is
\* to be moved over it, was there from the start.
Unmoved == Early \cup {"confirm", "rpcs", "scaffold", "download", "downloading", "extract",
                       "stream", "rename"}

StillIn(c) ==
    LET f == files[c] IN
    f["inLoose"].by = "user" =>
        \/ f["inLoose"] = Theirs("inLoose")
        \/ at[c] \notin Unmoved /\ f["loose"].by = "none"

KeepsOf(c) ==
    /\ at[c] \in Early => \A p \in had[c] : Here(files[c], p)
    /\ ~agreed[c] => \A p \in had[c] : Here(files[c], p) \/ MovedOver(c, p)
    /\ wiz[c].overwrite => agreed[c]
    /\ at[c] = "moving" => ~wiz[c].template.projectDir /\ wiz[c].template.workflows = 0
    /\ StillIn(c)

KeepsFiles == \A c \in Cmds : KeepsOf(c)

\* A directory that has what one version holds of the template, and nothing else
\* of these files; nothing at the root is to be moved over another.
Whole(f, v, ps) ==
    /\ \A p \in ps : \E q \in Places : f[q] = Part(v, p)
    /\ \A q \in Places :
          f[q].by \in {"template", "cut"} /\ f[q].from \in ps => f[q] = Part(v, f[q].from)
    /\ f["loose"].by = "none" \/ f["inLoose"].by = "none"

\* A new project's directory is empty until the template is written, has nothing
\* but a part of the template until it is whole, and stays whole.
Strewn(f) ==
    \A p \in Places : \/ f[p].by = "none"
                      \/ p \in Pieces /\ f[p].by \in {"template", "cut"} /\ f[p].from = p

MakesOf(c) ==
    req[c].isNew =>
        /\ at[c] \in {"rpcs", "scaffold"} => Full(files[c]) = {}
        /\ at[c] \in {"download", "downloading", "extract", "stream"} => Strewn(files[c])
        /\ at[c] \in {"rename", "moving", "generate", "done"} =>
              Whole(files[c], got[c], Held(c, got[c]))

MakesWhole == \A c \in Cmds : MakesOf(c)

\* Past the wizard there is a template.
Chooses == {"begin", "fetch", "save", "saving", "resolve", "wizard"} \cup Ends

ChosenOf(c) == at[c] \notin Chooses => wiz[c].template \in Templates

TemplateChosen == \A c \in Cmds : ChosenOf(c)

ProjectInv == InitTypeOK /\ WizardsSound /\ KeepsFiles /\ MakesWhole /\ TemplateChosen

-----------------------------------------------------------------------------
(* The wizard.                                                             *)

LEMMA LeastNatural ==
    ASSUME NEW S \in SUBSET Nat, S # {}
    PROVE  \E m \in S : \A n \in S : m <= n
<1>1. PICK m \in S : \A n \in S : <<n, m>> \notin OpToRel(<, Nat)
  BY NatLessThanWellFounded, WFMin
<1>2. \A n \in S : ~(n < m)
  BY <1>1 DEF OpToRel
<1> QED BY <1>2

LEMMA LeastIsIn ==
    ASSUME NEW S \in SUBSET Nat, S # {}
    PROVE  Min(S) \in S /\ \A n \in S : Min(S) <= n
BY LeastNatural DEF Min

LEMMA NumbersOfSteps ==
    /\ ProjectName = 1 /\ Template = 2 /\ TemplateConfirm = 3 /\ NetworkRPCs = 4
    /\ WorkflowName = 5 /\ Done = 6
BY DEF ProjectName, Template, TemplateConfirm, NetworkRPCs, WorkflowName, Done

\* What advanceToNextStep leaves: the next step is not one to skip, and a cursor
\* is on a network that has no URL.
LEMMA AdvanceIsSound ==
    ASSUME NEW r \in Requests, NEW w \in Wizards, NEW from \in ProjectName..Done,
           ~w.asks, from > Template \/ SkipTemplate(r) => w.template # NoTemplate,
           from <= NetworkRPCs /\ w.template # NoTemplate =>
               w.filled = w.template.networks \cap r.rpcs
    PROVE  WizardSound(r, Advance(r, w, from)) /\ Advance(r, w, from).overwrite = w.overwrite
<1> DEFINE S == {s \in from..Done : ~Skips(r, w.template, s)}
           next == Min(S)
           cursor == IF next = NetworkRPCs THEN Min(Unfilled(w)) ELSE 0
           v == [w EXCEPT !.step = next, !.cursor = cursor]
<1>1. next \in S /\ \A s \in S : next <= s
  <2>1. Done \in S
    BY NumbersOfSteps DEF Skips
  <2>2. S \in SUBSET Nat
    BY NumbersOfSteps
  <2> HIDE DEF S
  <2> QED BY <2>1, <2>2, LeastIsIn
<1>2. next \in ProjectName..Done /\ next >= from /\ ~Skips(r, w.template, next)
  <2> HIDE DEF next
  <2> QED BY <1>1, NumbersOfSteps
<1>3. SkipTemplate(r) \/ next > Template => w.template # NoTemplate
  <2>1. CASE SkipTemplate(r) \/ from > Template
    BY <2>1
  <2>2. CASE ~SkipTemplate(r) /\ from <= Template
    <3>1. Template \in S
      BY <2>2, NumbersOfSteps DEF Skips
    <3> HIDE DEF S, next
    <3> QED BY <1>1, <1>2, <3>1, NumbersOfSteps
  <2> QED BY <2>1, <2>2, NumbersOfSteps
<1>4. w.template # NoTemplate => w.template.networks \subseteq Networks
  BY WizardAssumption DEF Wizards
<1>5. next = NetworkRPCs => cursor \in w.template.networks
  <2> SUFFICES ASSUME next = NetworkRPCs PROVE cursor \in w.template.networks
    OBVIOUS
  <2> HIDE DEF next
  <2>1. w.template # NoTemplate
    BY <1>3, NumbersOfSteps
  <2>2. ~(w.template.networks \subseteq r.rpcs)
    BY <1>2, <2>1, NumbersOfSteps DEF Skips, SkipNetworkRPCs
  <2>3. w.filled = w.template.networks \cap r.rpcs
    BY <1>2, <2>1, NumbersOfSteps
  <2>4. Unfilled(w) # {} /\ Unfilled(w) \subseteq w.template.networks
    BY <2>1, <2>2, <2>3 DEF Unfilled
  <2>5. Unfilled(w) \in SUBSET Nat
    BY <2>1, <2>4, <1>4, WizardAssumption
  <2> QED BY <2>4, <2>5, LeastIsIn
<1>6. cursor \in Networks \cup {0}
  <2>1. CASE next = NetworkRPCs
    BY <2>1, <1>3, <1>4, <1>5, NumbersOfSteps
  <2>2. CASE next # NetworkRPCs
    BY <2>2
  <2> QED BY <2>1, <2>2
<1> HIDE DEF next, cursor
<1>7. /\ v \in Wizards /\ v.step = next /\ v.cursor = cursor /\ v.template = w.template
      /\ v.filled = w.filled /\ v.asks = w.asks /\ v.overwrite = w.overwrite
  BY <1>2, <1>6 DEF Wizards
<1>8. WizardSound(r, v)
  <2> HIDE DEF v
  <2>1. v.step < NetworkRPCs /\ v.template # NoTemplate =>
          v.filled = v.template.networks \cap r.rpcs
    BY <1>2, <1>7, NumbersOfSteps
  <2> QED BY <1>2, <1>3, <1>5, <1>7, <2>1 DEF WizardSound
<1>9. Advance(r, w, from) = v
  BY DEF Advance, next, cursor
<1> QED BY <1>7, <1>8, <1>9

LEMMA ChooseIsWizard ==
    ASSUME NEW r \in Requests, NEW w \in Wizards, NEW t \in Templates
    PROVE  /\ Choose(r, w, t) \in Wizards
           /\ Choose(r, w, t).template = t /\ Choose(r, w, t).filled = t.networks \cap r.rpcs
           /\ Choose(r, w, t).asks = w.asks /\ Choose(r, w, t).overwrite = w.overwrite
           /\ t # NoTemplate
<1>1. t.networks \in SUBSET Networks /\ t # NoTemplate
  BY WizardAssumption
<1> QED BY <1>1 DEF Choose, Wizards

LEMMA NewWizardIsSound ==
    ASSUME NEW r \in Requests
    PROVE  WizardSound(r, NewWizard(r)) /\ ~NewWizard(r).overwrite
<1> DEFINE w == [step |-> ProjectName, project |-> r.project, template |-> NoTemplate,
                 workflow |-> r.workflow, filled |-> {}, cursor |-> 0, asks |-> FALSE,
                 overwrite |-> FALSE]
           v == IF r.template = NoTemplate THEN w ELSE Choose(r, w, r.template)
<1>1. w \in Wizards /\ ~w.asks /\ ~w.overwrite /\ w.template = NoTemplate
  <2>1. r.project \in {"", "free", "taken"} /\ r.workflow \in {"", "tdir", "wdir"}
    BY DEF Requests
  <2>2. ProjectName \in ProjectName..Done /\ {} \in SUBSET Networks
    BY NumbersOfSteps
  <2>3. w \in Wizards
    BY <2>1, <2>2, Zenon DEF Wizards
  <2>4. ~w.asks /\ ~w.overwrite
    BY Zenon
  <2> QED BY <2>3, <2>4
<1>2. r.template = NoTemplate \/ r.template \in Templates
  BY DEF Requests
<1> HIDE DEF w
<1>3. v \in Wizards /\ ~v.asks /\ ~v.overwrite
  BY <1>1, <1>2, ChooseIsWizard
<1>4. SkipTemplate(r) => v.template # NoTemplate
  BY <1>2, <1>1, ChooseIsWizard DEF SkipTemplate
<1>5. v.template # NoTemplate => v.filled = v.template.networks \cap r.rpcs
  BY <1>1, <1>2, ChooseIsWizard
<1> HIDE DEF v
<1>6. WizardSound(r, Advance(r, v, ProjectName)) /\ ~Advance(r, v, ProjectName).overwrite
  BY <1>3, <1>4, <1>5, AdvanceIsSound, NumbersOfSteps
<1>7. NewWizard(r) = Advance(r, v, ProjectName)
  BY DEF NewWizard, v, w
<1> QED BY <1>6, <1>7

\* A key leads to a sound wizard again.
LEMMA HandleEnterIsSound ==
    ASSUME NEW r \in Requests, NEW w, WizardSound(r, w), NEW offered \in SUBSET Templates,
           NEW v \in HandleEnter(r, w, offered)
    PROVE  WizardSound(r, v)
<1> USE NumbersOfSteps
<1>0. /\ w \in Wizards /\ (w.asks => w.step = ProjectName)
      /\ (w.template # NoTemplate => w.template \in Templates
                                   /\ w.template.networks \subseteq Networks)
      /\ w.asks \in BOOLEAN
  BY WizardAssumption DEF WizardSound, Wizards
<1>1. CASE v \in EnterProjectName(r, w)
  <2>0. w.step = ProjectName /\ ~w.asks
    BY <1>1 DEF EnterProjectName
  <2>1. CASE v = [w EXCEPT !.asks = TRUE]
    <3>1. /\ v \in Wizards /\ v.asks /\ v.step = w.step /\ v.template = w.template
          /\ v.filled = w.filled /\ v.cursor = w.cursor
      BY <2>1, <1>0 DEF Wizards
    <3> QED BY <2>0, <3>1 DEF WizardSound
  <2>2. CASE v = Advance(r, [w EXCEPT !.project = "free"], Template)
    <3> DEFINE u == [w EXCEPT !.project = "free"]
    <3>1. u \in Wizards /\ u.asks = w.asks /\ u.template = w.template /\ u.filled = w.filled
      BY <1>0 DEF Wizards
    <3> HIDE DEF u
    <3>2. SkipTemplate(r) => u.template # NoTemplate
      BY <3>1 DEF WizardSound
    <3>3. u.template # NoTemplate => u.filled = u.template.networks \cap r.rpcs
      BY <2>0, <3>1 DEF WizardSound
    <3>4. WizardSound(r, Advance(r, u, Template))
      BY <2>0, <3>1, <3>2, <3>3, AdvanceIsSound
    <3> QED BY <2>2, <3>4 DEF u
  <2> QED BY <1>1, <2>0, <2>1, <2>2 DEF EnterProjectName
<1>2. CASE v \in AnswerOverwrite(r, w)
  <2>0. w.step = ProjectName /\ w.asks
    BY <1>0, <1>2 DEF AnswerOverwrite
  <2>1. CASE v = [w EXCEPT !.asks = FALSE]
    <3>1. /\ v \in Wizards /\ ~v.asks /\ v.step = w.step /\ v.template = w.template
          /\ v.filled = w.filled /\ v.cursor = w.cursor
      BY <2>1, <1>0 DEF Wizards
    <3> QED BY <2>0, <3>1 DEF WizardSound
  <2>2. CASE v = Advance(r, [w EXCEPT !.overwrite = TRUE, !.project = "taken", !.asks = FALSE], Template)
    <3> DEFINE u == [w EXCEPT !.overwrite = TRUE, !.project = "taken", !.asks = FALSE]
    <3>1. u \in Wizards /\ ~u.asks /\ u.template = w.template /\ u.filled = w.filled
      BY <1>0 DEF Wizards
    <3> HIDE DEF u
    <3>2. SkipTemplate(r) => u.template # NoTemplate
      BY <3>1 DEF WizardSound
    <3>3. u.template # NoTemplate => u.filled = u.template.networks \cap r.rpcs
      BY <2>0, <3>1 DEF WizardSound
    <3>4. WizardSound(r, Advance(r, u, Template))
      BY <2>0, <3>1, <3>2, <3>3, AdvanceIsSound
    <3> QED BY <2>2, <3>4 DEF u
  <2> QED BY <1>2, <2>0, <2>1, <2>2 DEF AnswerOverwrite
<1>3. CASE v \in EnterTemplate(r, w, offered)
  <2>0. w.step = Template
    BY <1>3 DEF EnterTemplate
  <2>1. PICK t \in offered : v = Advance(r, Choose(r, w, t), TemplateConfirm)
    BY <1>3, <2>0 DEF EnterTemplate
  <2> DEFINE u == Choose(r, w, t)
  <2>2. /\ u \in Wizards /\ u.template = t /\ u.filled = t.networks \cap r.rpcs
        /\ u.asks = w.asks /\ t # NoTemplate
    BY <1>0, ChooseIsWizard
  <2>3. ~w.asks
    BY <1>0, <2>0
  <2> HIDE DEF u
  <2>4. WizardSound(r, Advance(r, u, TemplateConfirm))
    BY <2>2, <2>3, AdvanceIsSound
  <2> QED BY <2>1, <2>4 DEF u
<1>4. CASE v \in EnterConfirm(r, w)
  <2>0. w.step = TemplateConfirm /\ v = Advance(r, w, NetworkRPCs)
    BY <1>4 DEF EnterConfirm
  <2>1. ~w.asks /\ w.template # NoTemplate /\ w.filled = w.template.networks \cap r.rpcs
    BY <1>0, <2>0 DEF WizardSound
  <2> QED BY <1>0, <2>0, <2>1, AdvanceIsSound
<1>5. CASE v \in EnterRPC(r, w)
  <2> DEFINE later == {n \in w.template.networks : n > w.cursor}
             Go(x)  == IF later = {} THEN Advance(r, x, WorkflowName)
                       ELSE [x EXCEPT !.cursor = Min(later)]
             filled == [w EXCEPT !.filled = @ \cup {w.cursor}]
  <2>0. w.step = NetworkRPCs
    BY <1>5 DEF EnterRPC
  <2>1. v = Go(w) \/ v = Go(filled)
    BY <1>5, <2>0 DEF EnterRPC
  <2>2. ~w.asks /\ w.template # NoTemplate /\ w.cursor \in w.template.networks
    BY <1>0, <2>0 DEF WizardSound
  <2>3. /\ filled \in Wizards /\ filled.step = w.step /\ filled.asks = w.asks
        /\ filled.template = w.template /\ filled.cursor = w.cursor
    BY <1>0, <2>2 DEF Wizards
  <2>4. later # {} => Min(later) \in w.template.networks
    <3>1. later \in SUBSET Nat
      BY <1>0, <2>2, WizardAssumption
    <3>2. later # {} => Min(later) \in later
      <4> HIDE DEF later
      <4> QED BY <3>1, LeastIsIn
    <3> QED BY <3>2
  <2> HIDE DEF later
  <2>5. ASSUME NEW x \in Wizards, x.step = w.step, x.asks = w.asks, x.template = w.template
        PROVE  WizardSound(r, Go(x))
    <3>1. CASE later = {}
      <4>1. WizardSound(r, Advance(r, x, WorkflowName))
        BY <2>2, <2>5, AdvanceIsSound
      <4> QED BY <3>1, <4>1
    <3>2. CASE later # {}
      <4> DEFINE y == [x EXCEPT !.cursor = Min(later)]
      <4>1. Min(later) \in Networks
        BY <3>2, <2>4, <2>2, <1>0
      <4>2. /\ y \in Wizards /\ y.step = w.step /\ y.asks = w.asks
            /\ y.template = w.template /\ y.cursor = Min(later)
        BY <2>5, <4>1 DEF Wizards
      <4>3. WizardSound(r, y)
        <5> HIDE DEF y
        <5> QED BY <2>0, <2>2, <2>4, <3>2, <4>2 DEF WizardSound
      <4> QED BY <3>2, <4>3
    <3> QED BY <3>1, <3>2
  <2> HIDE DEF Go, filled
  <2>6. WizardSound(r, Go(w)) /\ WizardSound(r, Go(filled))
    BY <1>0, <2>3, <2>5
  <2> QED BY <2>1, <2>6
<1>6. CASE v \in EnterWorkflowName(r, w)
  <2>0. w.step = WorkflowName
    BY <1>6 DEF EnterWorkflowName
  <2>1. PICK d \in {"tdir", "wdir"} : v = Advance(r, [w EXCEPT !.workflow = d], Done)
    BY <1>6, <2>0 DEF EnterWorkflowName
  <2> DEFINE u == [w EXCEPT !.workflow = d]
  <2>2. u \in Wizards /\ u.asks = w.asks /\ u.template = w.template
    BY <1>0 DEF Wizards
  <2>3. ~w.asks /\ w.template # NoTemplate
    BY <1>0, <2>0 DEF WizardSound
  <2> HIDE DEF u
  <2>4. WizardSound(r, Advance(r, u, Done))
    BY <2>2, <2>3, AdvanceIsSound
  <2> QED BY <2>1, <2>4 DEF u
<1> QED BY <1>1, <1>2, <1>3, <1>4, <1>5, <1>6 DEF HandleEnter

-----------------------------------------------------------------------------
(* Types: of the cache, of what is written, and of the first state.        *)

\* The cache keeps its types, whoever writes it.
LEMMA NamesAreNumbers ==
    Names \subseteq Nat /\ MaxVersion \in Versions /\ Versions \subseteq Names /\ 1 \in Versions
    /\ Latest \in Names /\ 0 \in Names
BY CacheAssumption DEF Names, Versions, Latest

CacheList == [state : {"none", "corrupt", "ok"}, sha : Names, fresh : BOOLEAN]
Tarball   == [ver : Names, state : {"partial", "mixed", "whole"}, fresh : BOOLEAN]

LEMMA ListTypes ==
    ASSUME CacheTypeOK, UNCHANGED <<head, tar, writers>>,
           \/ TruncateList \/ InvalidateTemplateList \/ ListExpires
           \/ \E s \in Names : WriteList(s)
    PROVE  CacheTypeOK'
<1>1. list \in CacheList
  BY DEF CacheTypeOK, CacheList
<1>2. list' \in CacheList
  <2>1. CASE TruncateList
    BY <1>1, <2>1 DEF TruncateList, CacheList
  <2>2. CASE InvalidateTemplateList
    BY <1>1, <2>2 DEF InvalidateTemplateList, CacheList
  <2>3. CASE ListExpires
    BY <1>1, <2>3 DEF ListExpires, CacheList
  <2>4. ASSUME NEW s \in Names, WriteList(s) PROVE list' \in CacheList
    <3>1. [state |-> "ok", sha |-> s, fresh |-> TRUE] \in CacheList
      BY <2>4, Zenon DEF CacheList
    <3> QED BY <2>4, <3>1 DEF WriteList
  <2> QED BY <2>1, <2>2, <2>3, <2>4
<1> QED BY <1>2 DEF CacheTypeOK, CacheList

LEMMA TarballTypes ==
    ASSUME CacheTypeOK, NEW c \in Cmds, NEW s \in Names,
           BeginTarball(c, s) \/ EndTarball(c, s) \/ LeaveTarball(c, s) \/ TarballExpires(s)
    PROVE  CacheTypeOK'
<1>1. tar \in [Names -> Tarball] /\ head \in Names /\ writers \in [Names -> SUBSET Cmds]
  BY NamesAreNumbers DEF CacheTypeOK, Tarball
<1>2. CASE BeginTarball(c, s)
  <2> DEFINE st == IF writers[s] # {} /\ (tar[s].ver # head \/ tar[s].state = "mixed") THEN "mixed"
                   ELSE "partial"
             t == [ver |-> head, fresh |-> TRUE, state |-> st]
  <2>1. st \in {"partial", "mixed", "whole"}
    OBVIOUS
  <2> HIDE DEF st
  <2>2. t \in Tarball
    BY <1>1, <2>1, Zenon DEF Tarball
  <2>3. tar' = [tar EXCEPT ![s] = t]
    BY <1>2 DEF BeginTarball, st
  <2> HIDE DEF t
  <2>4. tar' \in [Names -> Tarball]
    BY <1>1, <2>2, <2>3
  <2>5. writers' \in [Names -> SUBSET Cmds]
    BY <1>1, <1>2 DEF BeginTarball
  <2> QED BY <1>2, <2>4, <2>5 DEF BeginTarball, CacheTypeOK, Tarball
<1>3. CASE EndTarball(c, s)
  <2>1. tar' \in [Names -> Tarball]
    <3> DEFINE u == [tar EXCEPT ![s].state = IF writers[s] = {c} /\ @ = "partial" THEN "whole" ELSE @]
    <3>1. u \in [Names -> Tarball]
      BY <1>1 DEF Tarball
    <3>2. tar' = [u EXCEPT ![s].fresh = TRUE]
      BY <1>3 DEF EndTarball
    <3> HIDE DEF u
    <3> QED BY <3>1, <3>2 DEF Tarball
  <2>2. writers' \in [Names -> SUBSET Cmds]
    BY <1>1, <1>3 DEF EndTarball
  <2> QED BY <1>3, <2>1, <2>2 DEF EndTarball, CacheTypeOK, Tarball
<1>4. CASE LeaveTarball(c, s)
  BY <1>4 DEF LeaveTarball, CacheTypeOK
<1>5. CASE TarballExpires(s)
  <2>1. tar' \in [Names -> Tarball]
    BY <1>1, <1>5 DEF TarballExpires, Tarball
  <2> QED BY <1>5, <2>1 DEF TarballExpires, CacheTypeOK, Tarball
<1> QED BY <1>2, <1>3, <1>4, <1>5

LEMMA CacheMovesTypes ==
    ASSUME CacheTypeOK, CacheMoves \/ InvalidateTemplateList
    PROVE  CacheTypeOK'
<1>1. CASE Publish
  BY <1>1, CacheAssumption DEF Publish, CacheTypeOK, Versions
<1>2. CASE ListExpires \/ InvalidateTemplateList
  BY <1>2, ListTypes DEF ListExpires, InvalidateTemplateList
<1>3. CASE \E s \in Names : TarballExpires(s)
  <2>1. PICK s \in Names : TarballExpires(s)
    BY <1>3
  <2>2. tar \in [Names -> Tarball]
    BY DEF CacheTypeOK, Tarball
  <2>3. tar' \in [Names -> Tarball]
    BY <2>1, <2>2 DEF TarballExpires, Tarball
  <2> QED BY <2>1, <2>3 DEF TarballExpires, CacheTypeOK, Tarball
<1> QED BY <1>1, <1>2, <1>3 DEF CacheMoves

\* What is written are files.
LEMMA PartTypes ==
    ASSUME NEW v \in Names, NEW p \in Places
    PROVE  /\ Part(v, p) \in Content /\ Part(v, p).by = "template" /\ Part(v, p).from = p
           /\ CutOff(v, p) \in Content /\ CutOff(v, p).by = "cut" /\ CutOff(v, p).from = p
           /\ Theirs(p).by = "user"
BY DEF Part, CutOff, Content, Theirs

LEMMA WriteGives ==
    ASSUME NEW c \in Cmds, NEW f \in [Places -> Content], NEW put,
           \A p \in DOMAIN put : p \in Places /\ put[p] \in Content
    PROVE  /\ Write(c, f, put) \in [Places -> Content]
           /\ \A p \in Places :
                 \/ /\ p \in DOMAIN put /\ (req[c].isNew \/ f[p].by = "none")
                    /\ Write(c, f, put)[p] = put[p]
                 \/ /\ ~(p \in DOMAIN put /\ (req[c].isNew \/ f[p].by = "none"))
                    /\ Write(c, f, put)[p] = f[p]
BY DEF Write

LEMMA OfTypes ==
    /\ \A w \in {"none", "user", "template", "cut", "cli"} : Of(w) \in Content /\ Of(w).by = w
    /\ Empty \in [Places -> Content]
BY NamesAreNumbers DEF Of, Content, Empty

LEMMA ProjectInitTypes == InitInit => InitTypeOK
<1> SUFFICES ASSUME InitInit PROVE InitTypeOK
  OBVIOUS
<1> USE NamesAreNumbers
<1>1. CacheTypeOK
  BY DEF InitInit, CacheInit, CacheTypeOK, NoTarball
<1>2. PICK s \in Starts :
         /\ req = [c \in Cmds |-> s[c].req]
         /\ files = [c \in Cmds |-> s[c].files]
         /\ had = [c \in Cmds |-> Users(s[c].files)]
         /\ at = [c \in Cmds |-> IF s[c].runs THEN "begin" ELSE "killed"]
  BY DEF InitInit
<1>3. s \in [Cmds -> [req : Requests, files : [Places -> Content], runs : BOOLEAN]]
  BY StartsAssumption
<1>4. /\ req \in [Cmds -> Requests] /\ files \in [Cmds -> [Places -> Content]]
      /\ at \in [Cmds -> Spots]
  BY <1>2, <1>3 DEF Spots, Ends
<1>5. wiz \in [Cmds -> Wizards]
  BY <1>4, NewWizardIsSound DEF InitInit, WizardSound
<1>6. had \in [Cmds -> SUBSET Places]
  BY <1>2 DEF Users
<1> QED BY <1>1, <1>4, <1>5, <1>6 DEF InitInit, InitTypeOK

-----------------------------------------------------------------------------
(* A step is one command's.                                                *)

\* What a step of a command does: its own entries change, to something of their
\* types, and no other command's.
May(old, new, c, S) == new = old \/ \E v \in S : new = [old EXCEPT ![c] = v]

OneMoves(c, s) ==
    /\ To(c, s) /\ req' = req
    /\ May(shown, shown', c, Names) /\ May(wiz, wiz', c, Wizards)
    /\ May(name, name', c, {"tdir", "wdir"}) /\ May(sha, sha', c, Names)
    /\ May(files, files', c, [Places -> Content])
    /\ May(had, had', c, SUBSET Places) /\ May(got, got', c, Names)
    /\ May(agreed, agreed', c, BOOLEAN)

LEMMA MayTypes ==
    ASSUME NEW c \in Cmds, NEW S, NEW old \in [Cmds -> S], NEW new, May(old, new, c, S)
    PROVE  new \in [Cmds -> S] /\ \A d \in Cmds : d # c => new[d] = old[d]
BY DEF May

LEMMA MovesTypes ==
    ASSUME InitTypeOK, CacheTypeOK', NEW c \in Cmds, NEW s \in Spots, OneMoves(c, s)
    PROVE  InitTypeOK'
<1>1. /\ shown' \in [Cmds -> Names] /\ wiz' \in [Cmds -> Wizards]
      /\ name' \in [Cmds -> {"tdir", "wdir"}] /\ sha' \in [Cmds -> Names]
  BY MayTypes DEF OneMoves, InitTypeOK
<1>2. /\ files' \in [Cmds -> [Places -> Content]] /\ had' \in [Cmds -> SUBSET Places]
      /\ got' \in [Cmds -> Names] /\ agreed' \in [Cmds -> BOOLEAN]
  BY MayTypes DEF OneMoves, InitTypeOK
<1>3. req' \in [Cmds -> Requests] /\ at' \in [Cmds -> Spots]
  BY DEF OneMoves, To, InitTypeOK
<1> QED BY <1>1, <1>2, <1>3 DEF InitTypeOK

LEMMA MovesAlone ==
    ASSUME InitTypeOK, NEW c \in Cmds, NEW s \in Spots, OneMoves(c, s), NEW d \in Cmds, d # c
    PROVE  /\ req'[d] = req[d] /\ at'[d] = at[d] /\ wiz'[d] = wiz[d] /\ files'[d] = files[d]
           /\ had'[d] = had[d] /\ got'[d] = got[d] /\ agreed'[d] = agreed[d]
<1>1. wiz'[d] = wiz[d] /\ files'[d] = files[d]
  BY DEF OneMoves, May, InitTypeOK
<1>2. had'[d] = had[d] /\ got'[d] = got[d] /\ agreed'[d] = agreed[d]
  BY DEF OneMoves, May, InitTypeOK
<1>3. req'[d] = req[d] /\ at'[d] = at[d]
  BY DEF OneMoves, To, InitTypeOK
<1> QED BY <1>1, <1>2, <1>3

\* A command that only goes on, or that changes its files besides.
LEMMA OnlyMoves ==
    ASSUME NEW c \in Cmds, NEW s, To(c, s), UNCHANGED cmdRest
    PROVE  OneMoves(c, s)
BY DEF cmdRest, OneMoves, May

LEMMA FilesMove ==
    ASSUME NEW c \in Cmds, NEW s, To(c, s), NEW g \in [Places -> Content],
           files' = [files EXCEPT ![c] = g] \/ files' = files,
           UNCHANGED <<req, shown, wiz, name, had, agreed>>,
           got' = got \/ \E v \in Names : got' = [got EXCEPT ![c] = v],
           sha' = sha \/ \E v \in Names : sha' = [sha EXCEPT ![c] = v]
    PROVE  OneMoves(c, s)
BY DEF OneMoves, May

-----------------------------------------------------------------------------
(* Until there is a directory to write to.                                 *)

CmdInv(c) == WizardSound(req[c], wiz[c]) /\ KeepsOf(c) /\ MakesOf(c) /\ ChosenOf(c)

Downloading == {"download", "downloading", "extract", "stream"}

\* A wizard that is done has a template.
LEMMA DoneHasTemplate ==
    ASSUME NEW r, NEW w, WizardSound(r, w), w.step = Done
    PROVE  w.template \in Templates
<1>1. w.template # NoTemplate
  BY NumbersOfSteps DEF WizardSound, Done, Template
<1> QED BY <1>1 DEF WizardSound, Wizards

\* A command that goes on with its files as they are.
LEMMA CmdGoesOn ==
    ASSUME InitTypeOK, NEW c \in Cmds, CmdInv(c), NEW s \in Spots, To(c, s),
           UNCHANGED <<req, wiz, files, had, got, agreed>>,
           s \in Early => at[c] \in Early,
           s \in Unmoved => at[c] \in Unmoved,
           s = "scaffold" => at[c] = "rpcs",
           s = "rpcs" => (req[c].isNew => Full(files[c]) = {}),
           s \in Downloading => at[c] \in Downloading
               \/ (req[c].isNew => Full(files[c]) = {}),
           s \notin Chooses => at[c] \notin Chooses \/ wiz[c].step = Done,
           s \notin {"rename", "moving", "generate", "done"}
    PROVE  CmdInv(c)'
<1>0. at'[c] = s
  BY DEF InitTypeOK, To
<1>1. WizardSound(req[c], wiz[c])'
  BY DEF CmdInv
<1>2. KeepsOf(c)'
  BY <1>0 DEF CmdInv, KeepsOf, MovedOver, StillIn
<1>3. MakesOf(c)'
  <2> SUFFICES ASSUME req[c].isNew PROVE MakesOf(c)'
    BY DEF MakesOf
  <2>1. s \in {"rpcs", "scaffold"} => Full(files[c]) = {}
    BY DEF CmdInv, MakesOf
  <2>2. s \in Downloading => Strewn(files[c])
    <3>1. at[c] \in Downloading => Strewn(files[c])
      BY DEF CmdInv, MakesOf, Downloading
    <3>2. Full(files[c]) = {} => Strewn(files[c])
      BY DEF Full, Strewn
    <3> QED BY <3>1, <3>2
  <2> QED BY <1>0, <2>1, <2>2 DEF MakesOf, Downloading
<1>4. ChosenOf(c)'
  BY <1>0, DoneHasTemplate DEF CmdInv, ChosenOf
<1> QED BY <1>1, <1>2, <1>3, <1>4 DEF CmdInv

\* What a step has to show, of the command and of the cache.
Kept(c) == (\E s \in Spots : OneMoves(c, s)) /\ CmdInv(c)' /\ CacheTypeOK'

\* The list, the template and the wizard.
LEMMA ListKeeps ==
    ASSUME InitTypeOK, NEW c \in Cmds, CmdInv(c),
           ListCached(c) \/ ListFetch(c) \/ Discover(c) \/ DiscoverFails(c) \/ SaveTemplateList(c)
    PROVE  Kept(c)
<1>0. PICK s \in {"fetch", "save", "saving", "resolve"} :
        /\ To(c, s) /\ at[c] \in Early
        /\ UNCHANGED <<req, wiz, name, sha, files, had, got, agreed>>
  BY DEF ListCached, ListFetch, Discover, DiscoverFails, SaveTemplateList, Only, cmdRest, Early
<1>1. CmdInv(c)'
  BY <1>0, CmdGoesOn DEF Spots, Downloading, Chooses, Unmoved, Ends
<1>2. shown' = shown \/ \E v \in Names : shown' = [shown EXCEPT ![c] = v]
  <2>1. head \in Names /\ list.sha \in Names /\ 0 \in Names
    BY NamesAreNumbers DEF InitTypeOK, CacheTypeOK
  <2> QED BY <2>1 DEF ListCached, ListFetch, Discover, DiscoverFails, SaveTemplateList, Only, cmdRest
<1>3. s \in Spots /\ OneMoves(c, s)
  BY <1>0, <1>2 DEF OneMoves, May, Spots
<1>4. CacheTypeOK'
  <2>1. CASE UNCHANGED cacheVars
    BY <2>1 DEF InitTypeOK, CacheTypeOK, cacheVars
  <2>2. CASE TruncateList \/ WriteList(shown[c])
    <3>1. shown[c] \in Names /\ UNCHANGED <<head, tar, writers>>
      BY <2>2 DEF InitTypeOK, TruncateList, WriteList
    <3> QED BY <2>2, <3>1, ListTypes DEF InitTypeOK
  <2> QED BY <2>1, <2>2 DEF ListCached, ListFetch, Discover, DiscoverFails, SaveTemplateList, Only
<1> QED BY <1>1, <1>3, <1>4 DEF Kept

LEMMA ResolveKeeps ==
    ASSUME InitTypeOK, NEW c \in Cmds, CmdInv(c), ResolveTemplate(c) \/ Leave(c) \/ CheckRPCs(c)
    PROVE  Kept(c)
<1>0. PICK s \in {"error", "names", "wizard", "scaffold"} :
        /\ To(c, s) /\ UNCHANGED cmdRest /\ UNCHANGED cacheVars
        /\ s \in Early => at[c] \in Early
        /\ s = "scaffold" => at[c] = "rpcs"
        /\ s \notin Chooses => at[c] = "rpcs" \/ wiz[c].step = Done
        /\ at[c] \in Unmoved
  BY DEF ResolveTemplate, Leave, CheckRPCs, Only, Early, Chooses, Ends, Unmoved
<1>1. s \in Spots
  BY DEF Spots, Ends
<1>2. CmdInv(c)'
  BY <1>0, <1>1, CmdGoesOn DEF cmdRest, Downloading, Chooses, Ends
<1>3. CacheTypeOK'
  BY <1>0 DEF InitTypeOK, CacheTypeOK, cacheVars
<1>4. OneMoves(c, s)
  BY <1>0, OnlyMoves
<1> QED BY <1>1, <1>2, <1>3, <1>4 DEF Kept

LEMMA DownloadKeeps ==
    ASSUME InitTypeOK, NEW c \in Cmds, CmdInv(c), DownloadTarball(c) \/ Kill(c)
    PROVE  Kept(c)
<1>0. PICK s \in {"stream", "downloading", "extract", "killed"} :
        /\ To(c, s) /\ UNCHANGED cmdRest
        /\ s \in Downloading => at[c] \in Downloading
        /\ s \notin Chooses => at[c] \notin Chooses
        /\ s \in Unmoved => at[c] \in Unmoved
  BY DEF DownloadTarball, Kill, Only, Downloading, Chooses, Ends, Unmoved, Early
<1>1. s \in Spots
  BY DEF Spots, Ends
<1>2. CmdInv(c)'
  BY <1>0, <1>1, CmdGoesOn DEF cmdRest, Early
<1>3. CacheTypeOK'
  <2>1. CASE UNCHANGED cacheVars
    BY <2>1 DEF InitTypeOK, CacheTypeOK, cacheVars
  <2>2. CASE BeginTarball(c, sha[c]) \/ EndTarball(c, sha[c]) \/ LeaveTarball(c, sha[c])
    <3>1. sha[c] \in Names
      BY DEF InitTypeOK
    <3> QED BY <2>2, <3>1, TarballTypes DEF InitTypeOK
  <2>3. CASE Kill(c)
    BY <2>3 DEF Kill, InitTypeOK, CacheTypeOK
  <2> QED BY <2>1, <2>2, <2>3 DEF DownloadTarball, Only
<1>4. OneMoves(c, s)
  BY <1>0, OnlyMoves
<1> QED BY <1>1, <1>2, <1>3, <1>4 DEF Kept

LEMMA AnswerKeeps ==
    ASSUME InitTypeOK, NEW c \in Cmds, CmdInv(c), Answer(c)
    PROVE  Kept(c)
<1>1. PICK w \in HandleEnter(req[c], wiz[c], Offered(c)) :
         /\ wiz' = [wiz EXCEPT ![c] = w]
         /\ agreed' = [agreed EXCEPT ![c] = w.overwrite]
         /\ To(c, IF w.step = Done THEN "names" ELSE "wizard")
  BY DEF Answer
<1> DEFINE s == IF w.step = Done THEN "names" ELSE "wizard"
<1>2. WizardSound(req[c], w) /\ w \in Wizards /\ w.overwrite \in BOOLEAN
  <2>1. req[c] \in Requests /\ WizardSound(req[c], wiz[c]) /\ Offered(c) \subseteq Templates
    BY DEF InitTypeOK, CmdInv, Offered
  <2>2. WizardSound(req[c], w)
    BY <2>1, HandleEnterIsSound
  <2> QED BY <2>2 DEF WizardSound, Wizards
<1>3. s \in Spots /\ s \in {"names", "wizard"}
  BY DEF Spots
<1>4. To(c, s)
  BY <1>1
<1> HIDE DEF s
<1>5. UNCHANGED <<req, shown, name, sha, files, had, got, cacheVars>> /\ at[c] = "wizard"
  BY DEF Answer
<1>6. OneMoves(c, s)
  BY <1>1, <1>2, <1>4, <1>5 DEF OneMoves, May
<1>7. at'[c] = s /\ wiz'[c] = w /\ agreed'[c] = w.overwrite
  BY <1>1, <1>4 DEF InitTypeOK, To
<1>8. CmdInv(c)'
  <2>1. WizardSound(req[c], wiz[c])'
    BY <1>2, <1>5, <1>7
  <2>2. KeepsOf(c)'
    <3>1. \A p \in had[c] : Here(files[c], p)
      BY <1>5 DEF CmdInv, KeepsOf, Early
    <3>2. StillIn(c)'
      BY <1>3, <1>5, <1>7 DEF CmdInv, KeepsOf, StillIn, Unmoved, Early
    <3> QED BY <3>1, <3>2, <1>3, <1>5, <1>7 DEF KeepsOf
  <2>3. MakesOf(c)'
    BY <1>3, <1>7 DEF MakesOf
  <2>4. ChosenOf(c)'
    <3>1. s = "names" => w.step = Done
      BY DEF s
    <3> QED BY <1>2, <1>3, <1>7, <3>1, DoneHasTemplate DEF ChosenOf, Chooses
  <2> QED BY <2>1, <2>2, <2>3, <2>4 DEF CmdInv
<1>9. CacheTypeOK'
  BY <1>5 DEF InitTypeOK, CacheTypeOK, cacheVars
<1> QED BY <1>3, <1>6, <1>8, <1>9 DEF Kept

LEMMA EmptyIsEmpty == Full(Empty) = {} /\ Empty \in [Places -> Content]
BY OfTypes DEF Empty, Of, Full

LEMMA DefaultsKeep ==
    ASSUME InitTypeOK, NEW c \in Cmds, CmdInv(c), ApplyDefaults(c)
    PROVE  Kept(c)
<1>1. /\ at[c] = "names" /\ To(c, "dir")
      /\ UNCHANGED <<req, shown, wiz, sha, got, agreed, cacheVars>>
      /\ \E d \in {"tdir", "wdir"} : name' = [name EXCEPT ![c] = d]
      /\ \/ files' = [files EXCEPT ![c] = Empty] /\ had' = [had EXCEPT ![c] = {}]
         \/ UNCHANGED <<files, had>>
  <2>1. wiz[c].workflow \in {"", "tdir", "wdir"}
    BY DEF InitTypeOK, Wizards
  <2> QED BY <2>1 DEF ApplyDefaults
<1>2. OneMoves(c, "dir")
  <2>1. {} \in SUBSET Places
    OBVIOUS
  <2> QED BY <1>1, <2>1, EmptyIsEmpty DEF OneMoves, May
<1>3. at'[c] = "dir"
  BY <1>1 DEF InitTypeOK, To
<1>4. \A p \in had'[c] : Here(files'[c], p)
  <2>1. CASE files' = [files EXCEPT ![c] = Empty] /\ had' = [had EXCEPT ![c] = {}]
    BY <2>1 DEF InitTypeOK
  <2>2. CASE UNCHANGED <<files, had>>
    BY <1>1, <2>2 DEF CmdInv, KeepsOf, Early
  <2> QED BY <1>1, <2>1, <2>2
<1>5. CmdInv(c)'
  <2>1. KeepsOf(c)'
    <3>1. StillIn(c)'
      <4>1. CASE files' = [files EXCEPT ![c] = Empty]
        <5>1. files'[c]["inLoose"].by = "none"
          BY <4>1 DEF InitTypeOK, Empty, Of, Places
        <5> QED BY <5>1 DEF StillIn
      <4>2. CASE UNCHANGED files
        BY <1>1, <1>3, <4>2 DEF CmdInv, KeepsOf, StillIn, Unmoved, Early
      <4> QED BY <1>1, <4>1, <4>2
    <3> QED BY <1>1, <1>3, <1>4, <3>1 DEF CmdInv, KeepsOf
  <2>2. MakesOf(c)'
    BY <1>3 DEF MakesOf
  <2>3. ChosenOf(c)'
    BY <1>1 DEF CmdInv, ChosenOf, Chooses, Ends
  <2> QED BY <1>1, <2>1, <2>2, <2>3 DEF CmdInv
<1>6. CacheTypeOK'
  BY <1>1 DEF InitTypeOK, CacheTypeOK, cacheVars
<1>7. "dir" \in Spots
  BY DEF Spots
<1> QED BY <1>2, <1>5, <1>6, <1>7 DEF Kept

\* The directory is emptied when the user agreed.
LEMMA DirectoryKeeps ==
    ASSUME InitTypeOK, NEW c \in Cmds, CmdInv(c),
           EnsureProjectDirectory(c) \/ ConfirmOverwrite(c)
    PROVE  Kept(c)
<1>0. CacheTypeOK'
  BY DEF InitTypeOK, CacheTypeOK, cacheVars, EnsureProjectDirectory, ConfirmOverwrite, Only
<1>1. ASSUME NEW s \in {"error", "confirm", "rpcs"}, Only(c, s),
             s = "rpcs" => (req[c].isNew => Full(files[c]) = {})
      PROVE  Kept(c)
  <2>1. s \in Spots /\ To(c, s) /\ UNCHANGED cmdRest
    BY <1>1 DEF Spots, Ends, Only
  <2>2. CmdInv(c)'
    <3>1. at[c] \notin Chooses
      BY DEF EnsureProjectDirectory, ConfirmOverwrite, Chooses, Ends
    <3>2. at[c] \in Unmoved
      BY DEF EnsureProjectDirectory, ConfirmOverwrite, Unmoved, Early
    <3> QED BY <1>1, <2>1, <3>1, <3>2, CmdGoesOn DEF cmdRest, Downloading, Early
  <2> QED BY <1>0, <2>1, <2>2, OnlyMoves DEF Kept
<1>2. ASSUME files' = [files EXCEPT ![c] = Empty], To(c, "rpcs"),
             UNCHANGED <<req, shown, wiz, name, sha, had, got, cacheVars>>,
             \/ agreed' = agreed /\ wiz[c].overwrite
             \/ agreed' = [agreed EXCEPT ![c] = TRUE]
      PROVE  Kept(c)
  <2>1. agreed'[c]
    BY <1>2 DEF InitTypeOK, CmdInv, KeepsOf
  <2>2. at'[c] = "rpcs" /\ files'[c] = Empty
    BY <1>2 DEF InitTypeOK, To
  <2>3. KeepsOf(c)' /\ MakesOf(c)'
    <3>1. Empty["inLoose"].by = "none"
      BY DEF Empty, Of, Places
    <3>2. StillIn(c)'
      BY <2>2, <3>1 DEF StillIn
    <3> QED BY <2>1, <2>2, <3>2, EmptyIsEmpty DEF KeepsOf, MakesOf, Early
  <2>4. CmdInv(c)'
    <3>1. at[c] \notin Chooses
      BY DEF EnsureProjectDirectory, ConfirmOverwrite, Chooses, Ends
    <3>2. ChosenOf(c)'
      BY <1>2, <3>1 DEF CmdInv, ChosenOf
    <3> QED BY <1>2, <2>3, <3>2 DEF CmdInv
  <2>5. OneMoves(c, "rpcs") /\ "rpcs" \in Spots
    BY <1>2, EmptyIsEmpty DEF OneMoves, May, Spots
  <2> QED BY <1>0, <2>4, <2>5 DEF Kept
<1>3. CASE EnsureProjectDirectory(c)
  <2> DEFINE exists == req[c].isNew /\ Full(files[c]) # {}
  <2>1. \/ ~exists /\ Only(c, "rpcs")
        \/ exists /\ ~wiz[c].overwrite /\ Only(c, "confirm")
        \/ /\ exists /\ wiz[c].overwrite
           /\ files' = [files EXCEPT ![c] = Empty]
           /\ To(c, "rpcs")
           /\ UNCHANGED <<req, shown, wiz, name, sha, had, got, agreed, cacheVars>>
    BY <1>3 DEF EnsureProjectDirectory
  <2>2. CASE ~exists /\ Only(c, "rpcs")
    BY <1>1, <2>2
  <2>3. CASE Only(c, "confirm")
    BY <1>1, <2>3
  <2>4. CASE /\ wiz[c].overwrite /\ files' = [files EXCEPT ![c] = Empty] /\ To(c, "rpcs")
             /\ UNCHANGED <<req, shown, wiz, name, sha, had, got, agreed, cacheVars>>
    BY <1>2, <2>4
  <2> QED BY <2>1, <2>2, <2>3, <2>4
<1>4. CASE ConfirmOverwrite(c)
  <2>1. CASE Only(c, "error")
    BY <1>1, <2>1
  <2>2. CASE /\ files' = [files EXCEPT ![c] = Empty] /\ agreed' = [agreed EXCEPT ![c] = TRUE]
             /\ To(c, "rpcs") /\ UNCHANGED <<req, shown, wiz, name, sha, had, got, cacheVars>>
    BY <1>2, <2>2
  <2> QED BY <1>4, <2>1, <2>2 DEF ConfirmOverwrite
<1> QED BY <1>3, <1>4

-----------------------------------------------------------------------------
(* Writing the template.                                                   *)

\* Nothing but a part of the template.
Bare(c, f) == req[c].isNew => Strewn(f)

\* What of the user's is there after a step was there before.
KeepsTheirs(f, g) == \A p \in Places : Here(f, p) => Here(g, p)

\* A command that writes, and goes on where its files allow it.
LEMMA WritesOn ==
    ASSUME InitTypeOK, NEW c \in Cmds, CmdInv(c), NEW s \in Spots, To(c, s),
           NEW g \in [Places -> Content], files' = [files EXCEPT ![c] = g],
           UNCHANGED <<req, wiz, had, agreed>>,
           NEW v \in Names, got' = [got EXCEPT ![c] = v],
           \A p \in Places : Here(files[c], p) =>
               Here(g, p) \/ MovedOver(c, p)',
           files[c]["inLoose"].by # "none" => g["inLoose"].by # "none",
           g["inLoose"] = files[c]["inLoose"] \/ (g["loose"].by = "none" /\ s = "moving"),
           at[c] \in Unmoved \/ (files[c]["loose"].by = "none" => g["loose"].by = "none"),
           s \in Unmoved => at[c] \in Unmoved,
           at[c] \notin Chooses, s \notin Early \cup {"rpcs", "scaffold"},
           s = "moving" => ~wiz[c].template.projectDir /\ wiz[c].template.workflows = 0,
           s \in Downloading => Bare(c, g),
           s \in {"rename", "moving", "generate", "done"} => (req[c].isNew => Whole(g, v, Held(c, v)))
    PROVE  CmdInv(c)'
<1>0. at'[c] = s /\ files'[c] = g /\ got'[c] = v /\ Held(c, v)' = Held(c, v)
  BY DEF InitTypeOK, To, Held
<1>1. WizardSound(req[c], wiz[c])'
  BY DEF CmdInv
<1>2. KeepsOf(c)'
  <2>1. ASSUME ~agreed[c], NEW p \in had[c] PROVE Here(g, p) \/ MovedOver(c, p)'
    <3>1. Here(files[c], p) \/ MovedOver(c, p)
      BY <2>1 DEF CmdInv, KeepsOf
    <3>2. p \in Places
      BY DEF InitTypeOK
    <3>3. MovedOver(c, p) => MovedOver(c, p)'
      BY <1>0 DEF MovedOver
    <3> QED BY <3>1, <3>2, <3>3
  <2>2. StillIn(c)'
    BY <1>0 DEF CmdInv, KeepsOf, StillIn, Unmoved, Early
  <2> QED BY <1>0, <2>1, <2>2 DEF CmdInv, KeepsOf
<1>3. MakesOf(c)'
  BY <1>0 DEF MakesOf, Bare, Downloading
<1>4. ChosenOf(c)'
  BY DEF CmdInv, ChosenOf
<1> QED BY <1>1, <1>2, <1>3, <1>4 DEF CmdInv

\* One that keeps all of the user's where it is.
LEMMA SameUsers ==
    ASSUME NEW f, NEW g, \A p \in Places : f[p].by = "user" => g[p] = f[p]
    PROVE  KeepsTheirs(f, g)
<1>1. \A p \in Places : Theirs(p).by = "user"
  BY DEF Theirs
<1> QED BY <1>1 DEF KeepsTheirs, Here

LEMMA HeldPieces ==
    ASSUME NEW c \in Cmds, wiz[c].template \in Templates, NEW v \in Names
    PROVE  Held(c, v) \in SUBSET Pieces /\ Pieces \subseteq Places /\ "inLoose" \in Places \ Pieces
BY ContentsAssumption DEF Held, Pieces, Places

\* A place that is not the template's is left as it is, and so are the user's.
LEMMA WriteKeeps ==
    ASSUME NEW c \in Cmds, NEW f \in [Places -> Content], Bare(c, f), NEW put,
           \A p \in DOMAIN put : p \in Places /\ put[p] \in Content
    PROVE  /\ Write(c, f, put) \in [Places -> Content] /\ KeepsTheirs(f, Write(c, f, put))
           /\ "inLoose" \notin DOMAIN put => Write(c, f, put)["inLoose"] = f["inLoose"]
<1> DEFINE g == Write(c, f, put)
<1>1. /\ g \in [Places -> Content]
      /\ \A p \in Places :
            \/ /\ p \in DOMAIN put /\ (req[c].isNew \/ f[p].by = "none") /\ g[p] = put[p]
            \/ /\ ~(p \in DOMAIN put /\ (req[c].isNew \/ f[p].by = "none")) /\ g[p] = f[p]
  BY WriteGives
<1> HIDE DEF g
<1>2. req[c].isNew => \A p \in Places : f[p].by # "user"
  BY DEF Bare, Strewn
<1>3. \A p \in Places : f[p].by = "user" => g[p] = f[p]
  BY <1>1, <1>2
<1>4. KeepsTheirs(f, g)
  BY <1>3, SameUsers
<1>5. "inLoose" \in Places
  BY DEF Places
<1> QED BY <1>1, <1>4, <1>5 DEF g

LEMMA ExtractKeeps ==
    ASSUME InitTypeOK, NEW c \in Cmds, wiz[c].template \in Templates, NEW v \in Names,
           Bare(c, files[c]), Extract(c, v)
    PROVE  \E g \in [Places -> Content] :
              /\ files' = [files EXCEPT ![c] = g] /\ got' = [got EXCEPT ![c] = v]
              /\ KeepsTheirs(files[c], g) /\ g["inLoose"] = files[c]["inLoose"]
              /\ req[c].isNew => Whole(g, v, Held(c, v))
<1> DEFINE f   == files[c]
           ps  == Held(c, v)
           put == [p \in ps |-> Part(v, p)]
           g   == Write(c, f, put)
<1>1. f \in [Places -> Content] /\ ps \in SUBSET Pieces /\ ps \subseteq Places
      /\ "inLoose" \in Places \ Pieces
  BY HeldPieces DEF InitTypeOK
<1>2. files' = [files EXCEPT ![c] = g] /\ got' = [got EXCEPT ![c] = v]
  BY DEF Extract, InitTypeOK
<1>3. DOMAIN put = ps /\ \A p \in ps : put[p] = Part(v, p) /\ put[p] \in Content
  BY <1>1, PartTypes
<1> HIDE DEF f, ps, put
<1>4. /\ g \in [Places -> Content] /\ KeepsTheirs(f, g) /\ g["inLoose"] = f["inLoose"]
  BY <1>1, <1>3, WriteKeeps DEF f
<1>5. req[c].isNew => Whole(g, v, ps)
  <2> SUFFICES ASSUME req[c].isNew PROVE Whole(g, v, ps)
    OBVIOUS
  <2>1. \A p \in Places : (p \in ps /\ g[p] = Part(v, p)) \/ (p \notin ps /\ g[p] = f[p])
    BY <1>1, <1>3, WriteGives
  <2>2. Strewn(f)
    BY DEF Bare, f
  <2> HIDE DEF g
  <2>3. \A p \in ps : \E q \in Places : g[q] = Part(v, p)
    BY <1>1, <2>1
  <2>4. ASSUME NEW q \in Places, g[q].by \in {"template", "cut"}, g[q].from \in ps
        PROVE  g[q] = Part(v, g[q].from)
    <3>1. CASE q \in ps
      <4>1. g[q] = Part(v, q) /\ Part(v, q).from = q
        BY <2>1, <3>1, PartTypes
      <4> QED BY <4>1
    <3>2. CASE q \notin ps
      BY <2>1, <2>2, <2>4, <3>2 DEF Strewn
    <3> QED BY <3>1, <3>2
  <2>5. g["inLoose"].by = "none"
    BY <1>1, <1>4, <2>2 DEF Strewn
  <2> QED BY <2>3, <2>4, <2>5 DEF Whole
<1> HIDE DEF g
<1> QED BY <1>2, <1>4, <1>5 DEF f, ps

LEMMA ExtractSomeKeeps ==
    ASSUME InitTypeOK, NEW c \in Cmds, wiz[c].template \in Templates, NEW v \in Names,
           Bare(c, files[c]), ExtractSome(c, v)
    PROVE  \E g \in [Places -> Content] :
              /\ files' = [files EXCEPT ![c] = g] /\ got' = got
              /\ KeepsTheirs(files[c], g) /\ g["inLoose"] = files[c]["inLoose"]
              /\ Bare(c, g)
<1> DEFINE f == files[c]
<1>1. PICK ps \in SUBSET Held(c, v), cut \in SUBSET Held(c, v) :
         files' = [files EXCEPT ![c] =
            Write(c, f, [p \in ps |-> IF p \in cut THEN CutOff(v, p) ELSE Part(v, p)])]
  BY DEF ExtractSome, InitTypeOK
<1> DEFINE put == [p \in ps |-> IF p \in cut THEN CutOff(v, p) ELSE Part(v, p)]
           g   == Write(c, f, put)
<1>2. f \in [Places -> Content] /\ ps \in SUBSET Pieces /\ Pieces \subseteq Places
      /\ "inLoose" \in Places \ Pieces
  BY HeldPieces DEF InitTypeOK
<1>3. DOMAIN put = ps /\ \A p \in ps : /\ put[p] \in Content /\ put[p].from = p
                                       /\ put[p].by \in {"template", "cut"}
  BY <1>2, PartTypes
<1>4. files' = [files EXCEPT ![c] = g] /\ got' = got
  BY <1>1 DEF ExtractSome
<1> HIDE DEF f, put
<1>5. /\ g \in [Places -> Content] /\ KeepsTheirs(f, g) /\ g["inLoose"] = f["inLoose"]
  BY <1>2, <1>3, WriteKeeps DEF f
<1>6. Bare(c, g)
  <2> SUFFICES ASSUME req[c].isNew PROVE Strewn(g)
    BY DEF Bare
  <2>1. \A p \in Places : (p \in ps /\ g[p] = put[p]) \/ g[p] = f[p]
    BY <1>2, <1>3, WriteGives
  <2>2. Strewn(f)
    BY DEF Bare, f
  <2> HIDE DEF g
  <2> QED BY <1>2, <1>3, <2>1, <2>2 DEF Strewn
<1> HIDE DEF g
<1> QED BY <1>4, <1>5, <1>6 DEF f

LEMMA BareBefore ==
    ASSUME NEW c \in Cmds, CmdInv(c), at[c] \in {"scaffold"} \cup Downloading
    PROVE  /\ Bare(c, files[c]) /\ wiz[c].template \in Templates
           /\ at[c] \notin Chooses /\ at[c] \in Unmoved
<1>1. Full(files[c]) = {} => Strewn(files[c])
  BY DEF Full, Strewn
<1>2. at[c] \notin Chooses /\ at[c] \in Unmoved
  BY DEF Downloading, Chooses, Ends, Unmoved
<1> QED BY <1>1, <1>2 DEF CmdInv, ChosenOf, MakesOf, Bare, Downloading

LEMMA ScaffoldKeeps ==
    ASSUME InitTypeOK, NEW c \in Cmds, CmdInv(c), ScaffoldBuiltIn(c)
    PROVE  Kept(c)
<1> DEFINE f == files[c]
           d == name[c]
           put == [p \in {"project", d} |-> Part(Latest, IF p = d THEN "tdir" ELSE p)]
           g == Write(c, f, put)
<1>1. f \in [Places -> Content] /\ d \in {"tdir", "wdir"}
  BY DEF InitTypeOK
<1>2. /\ files' = [files EXCEPT ![c] = g] /\ To(c, "generate")
      /\ got' = [got EXCEPT ![c] = Latest]
      /\ UNCHANGED <<req, shown, wiz, name, sha, had, agreed, cacheVars>>
  BY DEF ScaffoldBuiltIn, InitTypeOK
<1>3. /\ Bare(c, f) /\ at[c] \notin Chooses /\ at[c] \in Unmoved
      /\ (req[c].isNew => \A p \in Places : f[p].by = "none")
      /\ Held(c, Latest) = {"project", "tdir"}
  <2>1. at[c] = "scaffold" /\ wiz[c].template.builtIn
    BY DEF ScaffoldBuiltIn
  <2>2. wiz[c].template \in Templates
    BY <2>1, BareBefore
  <2> QED BY <2>1, <2>2, BareBefore, ContentsAssumption DEF CmdInv, MakesOf, Full, Held
<1>4. /\ DOMAIN put = {"project", d} /\ put["project"] = Part(Latest, "project")
      /\ put[d] = Part(Latest, "tdir")
  BY <1>1
<1>5. /\ {"project", "tdir", "wdir", "loose", "inLoose"} \subseteq Places
      /\ Latest \in Names
  BY NamesAreNumbers DEF Places, Pieces, Dirs
<1> HIDE DEF f, d, put
<1>6. \A p \in DOMAIN put : p \in Places /\ put[p] \in Content
  BY <1>1, <1>4, <1>5, PartTypes
<1>7. /\ g \in [Places -> Content] /\ KeepsTheirs(f, g) /\ g["inLoose"] = f["inLoose"]
  BY <1>1, <1>3, <1>4, <1>6, WriteKeeps
<1>8. req[c].isNew => Whole(g, Latest, {"project", "tdir"})
  <2> SUFFICES ASSUME req[c].isNew PROVE Whole(g, Latest, {"project", "tdir"})
    OBVIOUS
  <2>1. \A p \in Places : (p \in {"project", d} /\ g[p] = put[p]) \/ (p \notin {"project", d} /\ g[p].by = "none")
    BY <1>1, <1>3, <1>4, <1>6, WriteGives
  <2> HIDE DEF g
  <2>2. g["project"] = Part(Latest, "project") /\ g[d] = Part(Latest, "tdir")
        /\ d \in Places /\ "project" \in Places
    BY <1>1, <1>4, <1>5, <2>1
  <2>3. \A p \in {"project", "tdir"} : \E q \in Places : g[q] = Part(Latest, p)
    BY <2>2
  <2>4. Part(Latest, "project").from = "project" /\ Part(Latest, "tdir").from = "tdir"
    BY DEF Part
  <2>5. \A q \in Places : g[q].by \in {"template", "cut"} => g[q] = Part(Latest, g[q].from)
    BY <2>1, <2>2, <2>4
  <2>6. g["loose"].by = "none"
    BY <1>1, <1>5, <2>1
  <2> QED BY <2>3, <2>5, <2>6 DEF Whole
<1> HIDE DEF g
<1>9. "generate" \in Spots /\ "generate" \notin Early \cup {"rpcs", "scaffold", "moving"}
      /\ "generate" \notin Downloading
  BY DEF Spots, Early, Downloading
<1>10. CmdInv(c)'
  BY <1>2, <1>3, <1>5, <1>7, <1>8, <1>9, WritesOn DEF f, KeepsTheirs
<1>11. OneMoves(c, "generate")
  BY <1>2, <1>5, <1>7 DEF OneMoves, May
<1>12. CacheTypeOK'
  BY <1>2 DEF InitTypeOK, CacheTypeOK, cacheVars
<1> QED BY <1>9, <1>10, <1>11, <1>12 DEF Kept

\* What a command does with an archive, or with a part of one.
LEMMA UnpackKeeps ==
    ASSUME InitTypeOK, NEW c \in Cmds, CmdInv(c), at[c] \in {"scaffold"} \cup Downloading,
           UNCHANGED <<req, shown, wiz, name, had, agreed, cacheVars>>,
           sha' = sha \/ \E v \in Names : sha' = [sha EXCEPT ![c] = v],
           NEW v \in Names, NEW s \in {"rename", "download", "error"}, To(c, s),
           \/ s = "rename" /\ Extract(c, v)
           \/ s # "rename" /\ ExtractSome(c, v)
    PROVE  Kept(c)
<1>1. /\ Bare(c, files[c]) /\ wiz[c].template \in Templates
      /\ at[c] \notin Chooses /\ at[c] \in Unmoved
  BY BareBefore
<1>2. CacheTypeOK'
  BY DEF InitTypeOK, CacheTypeOK, cacheVars
<1>3. s \in Spots /\ s \notin Early \cup {"rpcs", "scaffold", "moving", "generate", "done"}
  BY DEF Spots, Ends, Early
<1>4. CASE Extract(c, v) /\ s = "rename"
  <2>1. PICK g \in [Places -> Content] :
              /\ files' = [files EXCEPT ![c] = g] /\ got' = [got EXCEPT ![c] = v]
              /\ KeepsTheirs(files[c], g) /\ g["inLoose"] = files[c]["inLoose"]
              /\ req[c].isNew => Whole(g, v, Held(c, v))
    BY <1>1, <1>4, ExtractKeeps
  <2>2. CmdInv(c)'
    BY <1>1, <1>3, <1>4, <2>1, WritesOn DEF Downloading, KeepsTheirs
  <2>3. OneMoves(c, s)
    BY <2>1, FilesMove
  <2> QED BY <1>2, <1>3, <2>2, <2>3 DEF Kept
<1>5. CASE ExtractSome(c, v) /\ s # "rename"
  <2>1. PICK g \in [Places -> Content] :
              /\ files' = [files EXCEPT ![c] = g] /\ got' = got
              /\ KeepsTheirs(files[c], g) /\ g["inLoose"] = files[c]["inLoose"]
              /\ Bare(c, g)
    BY <1>1, <1>5, ExtractSomeKeeps
  <2>2. got[c] \in Names /\ got' = [got EXCEPT ![c] = got[c]]
    BY <2>1 DEF InitTypeOK
  <2>3. CmdInv(c)'
    BY <1>1, <1>3, <1>5, <2>1, <2>2, WritesOn DEF KeepsTheirs
  <2>4. OneMoves(c, s)
    BY <2>1, FilesMove
  <2> QED BY <1>2, <1>3, <2>3, <2>4 DEF Kept
<1> QED BY <1>4, <1>5

LEMMA VersionsAreNames ==
    ASSUME InitTypeOK
    PROVE  head \in Names /\ GetTreeSHA \in Names /\ \A s \in Names : tar[s].ver \in Names
BY NamesAreNumbers DEF InitTypeOK, CacheTypeOK, GetTreeSHA

LEMMA CachedKeeps ==
    ASSUME InitTypeOK, NEW c \in Cmds, CmdInv(c), UseCachedTarball(c)
    PROVE  Kept(c)
<1> DEFINE s == GetTreeSHA
<1>1. /\ at[c] = "scaffold" /\ sha' = [sha EXCEPT ![c] = s]
      /\ UNCHANGED <<req, shown, wiz, name, had, agreed, cacheVars>>
      /\ \/ To(c, "download") /\ UNCHANGED <<files, got>>
         \/ Extract(c, tar[s].ver) /\ To(c, "rename")
         \/ ExtractSome(c, tar[s].ver) /\ To(c, "download")
  BY DEF UseCachedTarball
<1>2. s \in Names /\ tar[s].ver \in Names
  BY VersionsAreNames
<1> HIDE DEF s
<1>3. CASE To(c, "download") /\ UNCHANGED <<files, got>>
  <2>1. /\ "download" \in Spots /\ "download" \notin Early /\ "scaffold" \notin Chooses
        /\ "scaffold" \in Unmoved
    BY DEF Spots, Early, Chooses, Ends, Unmoved
  <2>2. req[c].isNew => Full(files[c]) = {}
    BY <1>1 DEF CmdInv, MakesOf
  <2>3. CmdInv(c)'
    BY <1>1, <1>3, <2>1, <2>2, CmdGoesOn
  <2>4. OneMoves(c, "download")
    BY <1>1, <1>2, <1>3 DEF OneMoves, May
  <2>5. CacheTypeOK'
    BY <1>1 DEF InitTypeOK, CacheTypeOK, cacheVars
  <2> QED BY <2>1, <2>3, <2>4, <2>5 DEF Kept
<1>4. CASE Extract(c, tar[s].ver) /\ To(c, "rename")
  BY <1>1, <1>2, <1>4, UnpackKeeps
<1>5. CASE ExtractSome(c, tar[s].ver) /\ To(c, "download")
  BY <1>1, <1>2, <1>5, UnpackKeeps
<1> QED BY <1>1, <1>3, <1>4, <1>5

LEMMA ExtractionKeeps ==
    ASSUME InitTypeOK, NEW c \in Cmds, CmdInv(c), ExtractTarball(c) \/ StreamTarball(c)
    PROVE  Kept(c)
<1>1. /\ at[c] \in Downloading
      /\ UNCHANGED <<req, shown, wiz, name, sha, had, agreed, cacheVars>>
      /\ \E v \in {tar[sha[c]].ver, head} :
            \/ Extract(c, v) /\ To(c, "rename")
            \/ ExtractSome(c, v) /\ To(c, "error")
  BY DEF ExtractTarball, StreamTarball, Downloading
<1>2. tar[sha[c]].ver \in Names /\ head \in Names
  BY VersionsAreNames DEF InitTypeOK
<1>3. PICK v \in Names : \/ Extract(c, v) /\ To(c, "rename")
                         \/ ExtractSome(c, v) /\ To(c, "error")
  BY <1>1, <1>2
<1>4. CASE Extract(c, v) /\ To(c, "rename")
  BY <1>1, <1>4, UnpackKeeps
<1>5. CASE ExtractSome(c, v) /\ To(c, "error")
  BY <1>1, <1>5, UnpackKeeps
<1> QED BY <1>3, <1>4, <1>5

-----------------------------------------------------------------------------
(* The workflow's directory gets its name; what is missing is generated.   *)

LEMMA RenameGives ==
    ASSUME NEW f \in [Places -> Content], NEW p \in Places, NEW n \in Places, p # n
    PROVE  /\ Renamed(f, p, n) \in [Places -> Content]
           /\ Renamed(f, p, n)[n] = f[p] /\ Renamed(f, p, n)[p].by = "none"
           /\ \A q \in Places \ {p, n} : Renamed(f, p, n)[q] = f[q]
<1>1. Of("none") \in Content /\ Of("none").by = "none"
  BY OfTypes
<1> QED BY <1>1 DEF Renamed

\* Only what was in the new place is lost.
LEMMA RenameKeeps ==
    ASSUME NEW f \in [Places -> Content], NEW p \in Places, NEW n \in Places, p # n,
           NEW x, NEW q \in Places, q # n, f[q] = x
    PROVE  \E r \in Places : Renamed(f, p, n)[r] = x
<1>1. CASE q = p
  BY <1>1, RenameGives
<1>2. CASE q # p
  BY <1>2, RenameGives
<1> QED BY <1>1, <1>2

LEMMA RenameKeepsWhole ==
    ASSUME NEW f \in [Places -> Content], NEW p \in Places, NEW n \in Places, p # n,
           NEW v, NEW ps, f[n].by = "none", Whole(f, v, ps), n # "loose", n = "inLoose" => p = "loose"
    PROVE  Whole(Renamed(f, p, n), v, ps)
<1> DEFINE g == Renamed(f, p, n)
<1>0. g[n] = f[p] /\ g[p].by = "none" /\ \A q \in Places \ {p, n} : g[q] = f[q]
  BY RenameGives
<1>1. ASSUME NEW y \in ps PROVE \E q \in Places : g[q] = Part(v, y)
  <2>1. PICK q \in Places : f[q] = Part(v, y)
    BY DEF Whole
  <2>2. q # n
    BY <2>1 DEF Part
  <2> QED BY <2>1, <2>2, RenameKeeps
<1> HIDE DEF g
<1>2. ASSUME NEW q \in Places, g[q].by \in {"template", "cut"}, g[q].from \in ps
      PROVE  g[q] = Part(v, g[q].from)
  BY <1>0, <1>2 DEF Whole
<1>3. g["loose"].by = "none" \/ g["inLoose"].by = "none"
  <2>1. "loose" \in Places /\ "inLoose" \in Places /\ "loose" # "inLoose"
    BY DEF Places, Pieces
  <2> QED BY <1>0, <2>1 DEF Whole
<1> QED BY <1>1, <1>2, <1>3 DEF Whole, g

\* What maybeRenameWorkflowDir comes to: nothing, or a directory renamed.
LEMMA RenameMoves ==
    ASSUME InitTypeOK, NEW c \in Cmds, MaybeRenameWorkflowDir(c)
    PROVE  \/ /\ files' = files
              /\ \/ To(c, "error") \/ To(c, "generate")
                 \/ /\ To(c, "moving")
                    /\ ~wiz[c].template.projectDir /\ wiz[c].template.workflows = 0
           \/ \E p \in Places \ {"inLoose"} :
                /\ p # name[c] /\ files[c][name[c]].by = "none"
                /\ files' = [files EXCEPT ![c] = Renamed(files[c], p, name[c])]
                /\ To(c, "generate")
<1>1. name[c] \in {"tdir", "wdir"}
  BY DEF InitTypeOK
<1>2. ASSUME NEW p \in Places \ {"inLoose"}, p # name[c], Move(c, p)
      PROVE  \/ files' = files /\ To(c, "error")
             \/ /\ files[c][name[c]].by = "none"
                /\ files' = [files EXCEPT ![c] = Renamed(files[c], p, name[c])]
                /\ To(c, "generate")
  BY <1>2 DEF Move, InitTypeOK
<1>3. \/ files' = files /\ (To(c, "error") \/ To(c, "generate"))
      \/ /\ files' = files /\ To(c, "moving")
         /\ ~wiz[c].template.projectDir /\ wiz[c].template.workflows = 0
      \/ \E p \in Places \ {"inLoose"} : p # name[c] /\ Move(c, p)
  <2>0. Dirs \subseteq Places \ {"inLoose"} /\ "tdir" \in Dirs
    BY DEF Places, Pieces, Dirs
  <2>1. CASE wiz[c].template.projectDir /\ RenameProjectDir(c)
    BY <2>0, <2>1 DEF RenameProjectDir, Stays
  <2>2. CASE RenameFound(c) /\ ~wiz[c].template.projectDir /\ wiz[c].template.workflows = 0
    <3>1. \/ \E p \in Dirs : \/ p = name[c] /\ Stays(c)
                             \/ p # name[c] /\ Move(c, p)
          \/ To(c, "moving") /\ files' = files
      BY <2>2 DEF RenameFound
    <3>2. CASE \E p \in Dirs : p = name[c] /\ Stays(c)
      BY <3>2 DEF Stays
    <3>3. CASE \E p \in Dirs : p # name[c] /\ Move(c, p)
      BY <2>0, <3>3
    <3> QED BY <2>2, <3>1, <3>2, <3>3
  <2>3. CASE ~wiz[c].template.projectDir /\ RenameWorkflowDir(c) /\ wiz[c].template.workflows # 0
    BY <2>0, <2>3 DEF RenameWorkflowDir, Stays
  <2> QED BY <2>1, <2>2, <2>3 DEF MaybeRenameWorkflowDir, RenameWorkflowDir
<1> QED BY <1>2, <1>3

\* A command that moves its files about, and what it has to show.
LEMMA MovesOn ==
    ASSUME InitTypeOK, NEW c \in Cmds, CmdInv(c),
           at[c] \in {"rename", "moving", "generate"},
           UNCHANGED <<req, shown, wiz, name, sha, had, got, agreed, cacheVars>>,
           NEW s \in {"error", "moving", "generate", "done"}, To(c, s),
           s = "moving" => ~wiz[c].template.projectDir /\ wiz[c].template.workflows = 0,
           NEW g \in [Places -> Content], files' = [files EXCEPT ![c] = g],
           files[c]["inLoose"].by # "none" => g["inLoose"].by # "none",
           g["inLoose"] = files[c]["inLoose"] \/ (g["loose"].by = "none" /\ s = "moving"),
           files[c]["loose"].by = "none" => g["loose"].by = "none",
           \A p \in Places : Here(files[c], p) => Here(g, p) \/ MovedOver(c, p)',
           req[c].isNew => Whole(g, got[c], Held(c, got[c]))
    PROVE  Kept(c)
<1>1. /\ s \in Spots /\ s \notin Early \cup {"rpcs", "scaffold"} /\ s \notin Downloading
      /\ s \notin Unmoved
  BY DEF Spots, Ends, Early, Downloading, Unmoved
<1>2. at[c] \notin Chooses
  BY DEF Chooses, Ends
<1>3. got[c] \in Names /\ got' = [got EXCEPT ![c] = got[c]]
  BY DEF InitTypeOK
<1>4. CmdInv(c)'
  BY <1>1, <1>2, <1>3, WritesOn
<1>5. OneMoves(c, s)
  BY FilesMove
<1>6. CacheTypeOK'
  BY DEF InitTypeOK, CacheTypeOK, cacheVars
<1> QED BY <1>1, <1>4, <1>5, <1>6 DEF Kept

LEMMA RenamingKeeps ==
    ASSUME InitTypeOK, NEW c \in Cmds, CmdInv(c), MaybeRenameWorkflowDir(c)
    PROVE  Kept(c)
<1> DEFINE f == files[c]
           n == name[c]
<1>1. f \in [Places -> Content] /\ n \in {"tdir", "wdir"} /\ n \in Places
      /\ files = [files EXCEPT ![c] = f]
  BY DEF InitTypeOK, Places, Dirs
<1>2. UNCHANGED <<req, shown, wiz, name, sha, had, got, agreed, cacheVars>> /\ at[c] = "rename"
  BY DEF MaybeRenameWorkflowDir
<1>3. req[c].isNew => Whole(f, got[c], Held(c, got[c]))
  BY <1>2 DEF CmdInv, MakesOf
<1>4. ASSUME NEW s \in {"error", "moving", "generate"}, To(c, s), files' = files,
             s = "moving" => ~wiz[c].template.projectDir /\ wiz[c].template.workflows = 0
      PROVE  Kept(c)
  BY <1>1, <1>2, <1>3, <1>4, MovesOn
<1>5. ASSUME NEW p \in Places \ {"inLoose"}, p # n, f[n].by = "none", To(c, "generate"),
             files' = [files EXCEPT ![c] = Renamed(f, p, n)]
      PROVE  Kept(c)
  <2> DEFINE g == Renamed(f, p, n)
  <2> HIDE DEF f, n
  <2>1. g \in [Places -> Content]
    BY <1>1, <1>5, RenameGives
  <2>2. req[c].isNew => Whole(g, got[c], Held(c, got[c]))
    BY <1>1, <1>3, <1>5, RenameKeepsWhole
  <2>3. ASSUME NEW x \in Places, Here(f, x) PROVE Here(g, x)
    <3>1. PICK q \in Places : f[q] = Theirs(x)
      BY <2>3 DEF Here
    <3>2. q # n
      BY <1>5, <3>1 DEF Theirs
    <3> QED BY <1>1, <1>5, <3>1, <3>2, RenameKeeps DEF Here
  <2>4. g["inLoose"] = f["inLoose"] /\ (f["loose"].by = "none" => g["loose"].by = "none")
    <3>1. "inLoose" \in Places /\ "loose" \in Places
      BY DEF Places, Pieces
    <3> QED BY <1>1, <1>5, <3>1, RenameGives
  <2> HIDE DEF g
  <2> QED BY <1>2, <1>5, <2>1, <2>2, <2>3, <2>4, MovesOn DEF f, g
<1> QED BY <1>4, <1>5, RenameMoves

\* An entry of the root goes into the workflow's directory, a file perhaps over
\* another; in a new project there is none to go over.
LEMMA MovingKeeps ==
    ASSUME InitTypeOK, NEW c \in Cmds, CmdInv(c), MoveRootEntry(c)
    PROVE  Kept(c)
<1> DEFINE f == files[c]
<1>1. f \in [Places -> Content] /\ files = [files EXCEPT ![c] = f]
      /\ at = [at EXCEPT ![c] = at[c]]
  BY DEF InitTypeOK
<1>2. UNCHANGED <<req, shown, wiz, name, sha, had, got, agreed, cacheVars>> /\ at[c] = "moving"
  BY DEF MoveRootEntry
<1>3. /\ req[c].isNew => Whole(f, got[c], Held(c, got[c]))
      /\ ~wiz[c].template.projectDir /\ wiz[c].template.workflows = 0
      /\ f["inLoose"].by = "user" /\ f["loose"].by # "none" => f["inLoose"] = Theirs("inLoose")
  BY <1>2 DEF CmdInv, MakesOf, KeepsOf, StillIn
<1>4. ASSUME NEW s \in {"error", "generate"}, To(c, s), files' = files
      PROVE  Kept(c)
  BY <1>1, <1>2, <1>3, <1>4, MovesOn
<1>5. ASSUME NEW p \in RootEntries, f[p].by # "none", p = "loose" \/ f[Into(p)].by = "none",
             files' = [files EXCEPT ![c] = Renamed(f, p, Into(p))], UNCHANGED at
      PROVE  Kept(c)
  <2> DEFINE n == Into(p)
             g == Renamed(f, p, n)
  <2>1. /\ p \in Places /\ n \in Places /\ p # n /\ n # "loose" /\ "inLoose" \in Places
        /\ n \in {"inLoose", "inDocs"} /\ (n = "inLoose" <=> p = "loose")
        /\ p # "inLoose"
    BY DEF RootEntries, Into, Places, Pieces
  <2> HIDE DEF f, n
  <2>2. g \in [Places -> Content] /\ g[n] = f[p] /\ \A q \in Places \ {p, n} : g[q] = f[q]
    BY <1>1, <2>1, RenameGives
  <2>3. To(c, "moving")
    BY <1>1, <1>2, <1>5 DEF To
  <2>4. req[c].isNew => Whole(g, got[c], Held(c, got[c]))
    <3> SUFFICES ASSUME req[c].isNew PROVE Whole(g, got[c], Held(c, got[c]))
      OBVIOUS
    <3>1. Whole(f, got[c], Held(c, got[c]))
      BY <1>3
    <3>2. f[n].by = "none"
      BY <1>5, <2>1, <3>1 DEF Whole, n
    <3> QED BY <1>1, <2>1, <3>1, <3>2, RenameKeepsWhole
  <2>5. /\ f["inLoose"].by # "none" => g["inLoose"].by # "none"
        /\ f["loose"].by = "none" => g["loose"].by = "none"
        /\ g["inLoose"] = f["inLoose"] \/ g["loose"].by = "none"
    <3>1. "loose" \in Places /\ g[p].by = "none"
      BY <1>1, <2>1, RenameGives DEF Places, Pieces
    <3> HIDE DEF g
    <3> QED BY <1>5, <2>1, <2>2, <3>1
  <2>6. files'[c] = g
    BY <1>5 DEF InitTypeOK, n
  <2>7. ASSUME NEW x \in Places, Here(f, x) PROVE Here(g, x) \/ MovedOver(c, x)'
    <3>1. PICK q \in Places : f[q] = Theirs(x)
      BY <2>7 DEF Here
    <3>2. CASE q # n
      BY <1>1, <2>1, <3>1, <3>2, RenameKeeps DEF Here
    <3>3. CASE q = n
      <4>1. f[n].by = "user" /\ Theirs(x).from = x /\ Theirs("inLoose").from = "inLoose"
        BY <3>1, <3>3 DEF Theirs
      <4>2. p = "loose" /\ n = "inLoose"
        BY <1>5, <2>1, <4>1 DEF n
      <4>3. x = "inLoose"
        BY <1>3, <1>5, <3>1, <3>3, <4>1, <4>2
      <4>4. files'[c]["inLoose"].by # "none"
        BY <1>5, <2>2, <2>6, <4>2
      <4> QED BY <1>2, <1>3, <4>3, <4>4 DEF MovedOver
    <3> QED BY <3>2, <3>3
  <2> HIDE DEF g
  <2> QED BY <1>2, <1>3, <1>5, <2>2, <2>3, <2>4, <2>5, <2>7, MovesOn DEF f, g, n
<1>6. \/ \E p \in RootEntries :
            /\ f[p].by # "none" /\ (p = "loose" \/ f[Into(p)].by = "none")
            /\ files' = [files EXCEPT ![c] = Renamed(f, p, Into(p))] /\ UNCHANGED at
      \/ \E s \in {"error", "generate"} : To(c, s) /\ files' = files
  BY DEF MoveRootEntry, Stays, InitTypeOK
<1> QED BY <1>4, <1>5, <1>6

LEMMA GenerateKeeps ==
    ASSUME InitTypeOK, NEW c \in Cmds, CmdInv(c), Generate(c)
    PROVE  Kept(c)
<1> DEFINE f == files[c]
           t == wiz[c].template
           d == IF t.workflows > 1 THEN "tdir" ELSE name[c]
           made == {p \in Places : f[p].by = "none" /\ (p = "project" \/ (p = d /\ ~t.projectDir))}
           g == [p \in Places |-> IF p \in made THEN Of("cli") ELSE f[p]]
<1>1. f \in [Places -> Content] /\ files = [files EXCEPT ![c] = f] /\ name[c] \in {"tdir", "wdir"}
  BY DEF InitTypeOK
<1>2. UNCHANGED <<req, shown, wiz, name, sha, had, got, agreed, cacheVars>> /\ at[c] = "generate"
  BY DEF Generate
<1>3. req[c].isNew => Whole(f, got[c], Held(c, got[c]))
  BY <1>2 DEF CmdInv, MakesOf
<1>4. \/ To(c, "error") /\ UNCHANGED files
      \/ To(c, "done") /\ files' = [files EXCEPT ![c] = g]
  BY DEF Generate, InitTypeOK
<1>5. (\A p \in made : f[p].by = "none") /\ "loose" \notin made /\ "inLoose" \notin made
  BY <1>1
<1> HIDE DEF f, made
<1>6. g \in [Places -> Content]
  BY <1>1, OfTypes
<1>7. /\ \A p \in Places : (g[p].by = "cli" /\ f[p].by = "none") \/ g[p] = f[p]
      /\ g["loose"] = f["loose"] /\ g["inLoose"] = f["inLoose"]
  <2>1. "loose" \in Places /\ "inLoose" \in Places
    BY DEF Places, Pieces
  <2> QED BY <1>5, <2>1, OfTypes
<1> HIDE DEF g
<1>8. \A p \in Places : Here(f, p) => Here(g, p)
  BY <1>7, SameUsers DEF KeepsTheirs
<1>9. req[c].isNew => Whole(g, got[c], Held(c, got[c]))
  <2> DEFINE v  == got[c]
             ps == Held(c, got[c])
  <2> SUFFICES ASSUME Whole(f, v, ps) PROVE Whole(g, v, ps)
    BY <1>3
  <2> HIDE DEF v, ps
  <2>1. ASSUME NEW p \in ps PROVE \E q \in Places : g[q] = Part(v, p)
    <3>1. PICK q \in Places : f[q] = Part(v, p)
      BY DEF Whole
    <3>2. f[q].by # "none" /\ f[q].by # "cli"
      BY <3>1 DEF Part
    <3> QED BY <1>7, <3>1, <3>2
  <2>2. \A q \in Places :
          g[q].by \in {"template", "cut"} /\ g[q].from \in ps => g[q] = Part(v, g[q].from)
    BY <1>7 DEF Whole
  <2> QED BY <1>7, <2>1, <2>2 DEF Whole
<1>10. CASE To(c, "error") /\ UNCHANGED files
  BY <1>1, <1>2, <1>3, <1>10, MovesOn DEF f
<1>11. CASE To(c, "done") /\ files' = [files EXCEPT ![c] = g]
  BY <1>2, <1>6, <1>7, <1>8, <1>9, <1>11, MovesOn DEF f
<1> QED BY <1>4, <1>10, <1>11

-----------------------------------------------------------------------------
(* The theorems.                                                           *)

LEMMA CommandKeeps ==
    ASSUME InitTypeOK, NEW c \in Cmds, CmdInv(c), InitStep(c)
    PROVE  Kept(c)
BY ListKeeps, ResolveKeeps, DownloadKeeps, AnswerKeeps, DefaultsKeep, DirectoryKeeps, ScaffoldKeeps,
   CachedKeeps, ExtractionKeeps, RenamingKeeps, MovingKeeps, GenerateKeeps DEF InitStep

LEMMA ProjectInvIs == ProjectInv <=> InitTypeOK /\ \A c \in Cmds : CmdInv(c)
BY DEF ProjectInv, WizardsSound, KeepsFiles, MakesWhole, TemplateChosen, CmdInv

LEMMA ProjectInvInit == InitInit => ProjectInv
<1> SUFFICES ASSUME InitInit PROVE ProjectInv
  OBVIOUS
<1>1. InitTypeOK
  BY ProjectInitTypes
<1>2. ASSUME NEW c \in Cmds PROVE CmdInv(c)
  <2>1. WizardSound(req[c], wiz[c]) /\ ~wiz[c].overwrite
    <3>1. wiz[c] = NewWizard(req[c]) /\ req[c] \in Requests
      BY <1>1 DEF InitInit, InitTypeOK
    <3> QED BY <3>1, NewWizardIsSound
  <2>2. at[c] \in {"begin", "killed"}
    BY DEF InitInit
  <2>3. \A p \in had[c] : Here(files[c], p)
    <3>1. PICK s \in Starts : files = [d \in Cmds |-> s[d].files]
                             /\ had = [d \in Cmds |-> Users(s[d].files)]
      BY DEF InitInit
    <3>2. \A p \in had[c] : p \in Places /\ files[c][p] = Theirs(p)
      BY <3>1, StartsAssumption DEF Users
    <3> QED BY <3>2 DEF Here
  <2>4. StillIn(c)
    <3>1. PICK s \in Starts : files = [d \in Cmds |-> s[d].files]
      BY DEF InitInit
    <3> QED BY <3>1, StartsAssumption DEF StillIn, Places
  <2> QED BY <2>1, <2>2, <2>3, <2>4 DEF CmdInv, KeepsOf, MakesOf, ChosenOf, Chooses, Ends
<1> QED BY <1>1, <1>2, ProjectInvIs

LEMMA ProjectInvStep == ProjectInv /\ [InitNext]_<<initVars, cacheVars>> => ProjectInv'
<1> SUFFICES ASSUME ProjectInv, [InitNext]_<<initVars, cacheVars>> PROVE ProjectInv'
  OBVIOUS
<1>0. InitTypeOK /\ \A c \in Cmds : CmdInv(c)
  BY ProjectInvIs
<1>1. ASSUME NEW c \in Cmds, InitStep(c) PROVE ProjectInv'
  <2>1. CmdInv(c)' /\ CacheTypeOK'
    BY <1>0, <1>1, CommandKeeps DEF Kept
  <2>2. PICK s \in Spots : OneMoves(c, s)
    BY <1>0, <1>1, CommandKeeps DEF Kept
  <2>3. InitTypeOK'
    BY <1>0, <2>1, <2>2, MovesTypes
  <2>4. ASSUME NEW d \in Cmds, d # c PROVE CmdInv(d)'
    <3>1. /\ req'[d] = req[d] /\ at'[d] = at[d] /\ wiz'[d] = wiz[d] /\ files'[d] = files[d]
          /\ had'[d] = had[d] /\ got'[d] = got[d] /\ agreed'[d] = agreed[d]
      BY <1>0, <2>2, <2>4, MovesAlone
    <3>2. CmdInv(d)
      BY <1>0
    <3> QED BY <3>1, <3>2 DEF CmdInv, KeepsOf, MakesOf, ChosenOf, MovedOver, StillIn, Held
  <2>5. \A d \in Cmds : CmdInv(d)'
    BY <2>1, <2>4
  <2> QED BY <2>3, <2>5, ProjectInvIs DEF ProjectInv, WizardsSound, KeepsFiles, MakesWhole, TemplateChosen, CmdInv
<1>2. ASSUME UNCHANGED initVars, CacheTypeOK' PROVE ProjectInv'
  <2>1. InitTypeOK'
    BY <1>0, <1>2 DEF InitTypeOK, initVars
  <2>2. ASSUME NEW c \in Cmds PROVE CmdInv(c)'
    <3>1. CmdInv(c)
      BY <1>0
    <3> QED BY <1>2, <3>1 DEF CmdInv, KeepsOf, MakesOf, ChosenOf, MovedOver, StillIn, Held, initVars
  <2> QED BY <2>1, <2>2 DEF ProjectInv, WizardsSound, KeepsFiles, MakesWhole, TemplateChosen, CmdInv
<1>3. CASE (CacheMoves \/ InvalidateTemplateList) /\ UNCHANGED initVars
  BY <1>0, <1>2, <1>3, CacheMovesTypes DEF InitTypeOK
<1>4. CASE UNCHANGED <<initVars, cacheVars>>
  <2>1. CacheTypeOK'
    BY <1>0, <1>4 DEF InitTypeOK, CacheTypeOK, cacheVars
  <2> QED BY <1>2, <1>4, <2>1
<1> QED BY <1>1, <1>3, <1>4 DEF InitNext

LEMMA ProjectInvSound == ProjectInv => ProjectsSound
<1> SUFFICES ASSUME ProjectInv PROVE ProjectsSound
  OBVIOUS
<1>1. NothingLost
  BY DEF ProjectInv, KeepsFiles, KeepsOf, NothingLost, Here
<1>2. WholeTemplate
  <2> SUFFICES ASSUME NEW c \in Cmds, at[c] = "done", req[c].isNew
               PROVE  LET f == files[c]
                          v == got[c] IN
                      /\ \A p \in Held(c, v) : \E q \in Places : f[q] = Part(v, p)
                      /\ \A q \in Places :
                            f[q].by \in {"template", "cut"} /\ f[q].from \in Held(c, v) =>
                                f[q] = Part(v, f[q].from)
    BY DEF WholeTemplate
  <2>1. Whole(files[c], got[c], Held(c, got[c]))
    BY DEF ProjectInv, MakesWhole, MakesOf
  <2> QED BY <2>1 DEF Whole
<1> QED BY <1>1, <1>2 DEF ProjectsSound

LEMMA ProjectInvariant == ProjectSpec => []ProjectInv
<1> QED BY ProjectInvInit, ProjectInvStep, PTL DEF ProjectSpec

\* Projects, `cre init`: every variable, the cache's too, keeps its type.
THEOREM ProjectTypeCorrect == ProjectSpec => []InitTypeOK
<1>1. ProjectInv => InitTypeOK
  BY DEF ProjectInv
<1> QED BY <1>1, ProjectInvariant, PTL

\* `cre init` keeps each file the user had in the directory, unless told to
\* overwrite it or moving one of the root's over it, and a new project has all that
\* one version holds of its template, whatever the versions hold, whatever other
\* commands leave in the cache and wherever any of them fails or is killed (Execute
\* of creinit.go, ScaffoldTemplate, renameWorkflowDir and the cache).
THEOREM ProjectsSoundHolds == ProjectSpec => []ProjectsSound
BY ProjectInvSound, ProjectInvariant, PTL
=============================================================================
