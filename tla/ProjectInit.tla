------------------------------ MODULE ProjectInit ------------------------------
(***************************************************************************)
(* `cre init`: a project made from a template, or a workflow added to one, *)
(* by commands that share the template cache.  Execute of creinit.go and   *)
(* ScaffoldTemplate of the template registry, a step for each thing that   *)
(* may fail, wait or be interrupted.                                       *)
(*                                                                         *)
(* A project's directory is a few places, each empty or with one file, of  *)
(* the user, of the template or of the CLI, that stands for those like it. *)
(* At the root: "project" for files that belong there, "loose" for other   *)
(* files, "docs" for one in a directory without a workflow.  A workflow's  *)
(* files, those a directory is known by, in the directory the template     *)
(* calls its workflow, in one with the other name, and in one of the user  *)
(* with neither: "tdir", "wdir", "mine".  "inLoose" and "inDocs" are in    *)
(* the directory that is to be the workflow's, under the names of "loose"  *)
(* and "docs".                                                             *)
(***************************************************************************)
EXTENDS TemplateCache, InitWizard

CONSTANTS
    Starts,     \* how the commands may start: a [req, files, runs] for each
    Contents    \* Contents[v][t]: the parts of template t that version v of the repository
                \* holds, {} when it does not hold it; v = Latest: the CLI's own templates

VARIABLES
    req,        \* req[c]: its flags, and whether there is no project yet
    at,         \* at[c]: where it is
    shown,      \* shown[c]: the version of the list it has; 0: only the built-in templates
    wiz,        \* wiz[c]: the wizard
    name,       \* name[c]: the workflow's directory, "tdir" or "wdir"
    sha,        \* sha[c]: the name of its tarball
    files,      \* files[c]: what is in each place of its project directory
    had,        \* history: had[c]: the places that had a file of the user
    got,        \* history: got[c]: the version it extracted to the end
    agreed      \* history: agreed[c]: the user agreed to overwrite it

initVars == <<req, at, shown, wiz, name, sha, files, had, got, agreed>>
cmdRest  == <<req, shown, wiz, name, sha, files, had, got, agreed>>

Pieces   == {"project", "loose", "docs", "tdir"}    \* what a template may have
Dirs    == {"tdir", "wdir", "mine"}
Places  == Pieces \cup Dirs \cup {"inLoose", "inDocs"}

\* A file: whose it is and, of the user's and the template's, where it is from.
Content == [by : {"none", "user", "template", "cut", "cli"}, ver : Names, from : Places \cup {""}]
Of(who) == [by |-> who, ver |-> 0, from |-> ""]
Theirs(p)  == [by |-> "user", ver |-> 0, from |-> p]
Part(v, p) == [by |-> "template", ver |-> v, from |-> p]
CutOff(v, p) == [by |-> "cut", ver |-> v, from |-> p]
Ends    == {"done", "error", "killed"}
Spots   == {"begin", "fetch", "save", "saving", "resolve", "wizard", "names", "dir", "confirm",
            "rpcs", "scaffold", "download", "downloading", "extract", "stream", "rename",
            "moving", "generate"} \cup Ends

InitTypeOK ==
    /\ CacheTypeOK
    /\ req \in [Cmds -> Requests] /\ at \in [Cmds -> Spots] /\ shown \in [Cmds -> Names]
    /\ wiz \in [Cmds -> Wizards] /\ name \in [Cmds -> {"tdir", "wdir"}]
    /\ sha \in [Cmds -> Names] /\ files \in [Cmds -> [Places -> Content]]
    /\ had \in [Cmds -> SUBSET Places] /\ got \in [Cmds -> Names]
    /\ agreed \in [Cmds -> BOOLEAN]

ASSUME StartsAssumption ==
    /\ Starts \subseteq [Cmds -> [req : Requests, files : [Places -> Content], runs : BOOLEAN]]
    /\ \A s \in Starts, c \in Cmds, p \in Places :
          s[c].files[p].by = "user" => s[c].files[p] = Theirs(p)

ASSUME ContentsAssumption ==
    /\ Contents \in [Names -> [Templates -> SUBSET Pieces]]
    /\ \A t \in Templates : t.builtIn => Contents[Latest][t] = {"project", "tdir"}

Users(f)  == {p \in Places : f[p].by = "user"}
Full(f)   == {p \in Places : f[p].by # "none"}
Empty     == [p \in Places |-> Of("none")]

InitInit ==
    /\ CacheInit
    /\ \E s \in Starts :
         /\ req = [c \in Cmds |-> s[c].req]
         /\ files = [c \in Cmds |-> s[c].files]
         /\ had = [c \in Cmds |-> Users(s[c].files)]
         /\ at = [c \in Cmds |-> IF s[c].runs THEN "begin" ELSE "killed"]
    /\ shown = [c \in Cmds |-> 0]
    /\ wiz = [c \in Cmds |-> NewWizard(req[c])]
    /\ name = [c \in Cmds |-> "wdir"]
    /\ sha = [c \in Cmds |-> Latest]
    /\ got = [c \in Cmds |-> Latest]
    /\ agreed = [c \in Cmds |-> FALSE]

To(c, s)  == at' = [at EXCEPT ![c] = s]
Only(c, s) == To(c, s) /\ UNCHANGED <<cmdRest, cacheVars>>

-----------------------------------------------------------------------------
\* The list: from the cache while it is fresh, unless --refresh.
ListCached(c) ==
    /\ at[c] = "begin"
    /\ ~req[c].refresh /\ LoadTemplateList
    /\ shown' = [shown EXCEPT ![c] = list.sha]
    /\ To(c, "resolve")
    /\ UNCHANGED <<req, wiz, name, sha, files, had, got, agreed, cacheVars>>

ListFetch(c) == at[c] = "begin" /\ (req[c].refresh \/ ~LoadTemplateList) /\ Only(c, "fetch")

Discover(c) ==
    /\ at[c] = "fetch"
    /\ shown' = [shown EXCEPT ![c] = head]
    /\ To(c, "save")
    /\ UNCHANGED <<req, wiz, name, sha, files, had, got, agreed, cacheVars>>

\* No network: the stale list, or the source is left out.
DiscoverFails(c) ==
    /\ at[c] = "fetch"
    /\ shown' = [shown EXCEPT ![c] = IF LoadStaleTemplateList THEN list.sha ELSE 0]
    /\ To(c, "resolve")
    /\ UNCHANGED <<req, wiz, name, sha, files, had, got, agreed, cacheVars>>

SaveTemplateList(c) ==
    \/ at[c] = "save" /\ TruncateList /\ To(c, "saving") /\ UNCHANGED cmdRest
    \/ at[c] = "save" /\ Only(c, "resolve")      \* it cannot be saved: a warning
    \/ at[c] = "saving" /\ WriteList(shown[c]) /\ To(c, "resolve") /\ UNCHANGED cmdRest

-----------------------------------------------------------------------------
\* The templates a command can choose from.
Offered(c) == {t \in Templates : t.builtIn \/ shown[c] # 0}

MissingNetworks(t, rpcs) == t.networks \ rpcs

\* What --non-interactive refuses to do without.
MissingFlags(r) ==
    \/ r.isNew /\ r.project = ""
    \/ r.template = NoTemplate
    \/ /\ r.template # NoTemplate
       /\ \/ MissingNetworks(r.template, r.rpcs) # {}
          \/ r.workflow = "" /\ ~r.template.projectDir /\ r.template.workflows <= 1

ResolveTemplate(c) ==
    /\ at[c] = "resolve"
    /\ LET r == req[c] IN
       Only(c, IF r.template # NoTemplate /\ r.template \notin Offered(c) THEN "error"
               ELSE IF r.nonInteractive /\ MissingFlags(r) THEN "error"
               ELSE IF wiz[c].step = Done THEN "names" ELSE "wizard")

\* A key that the wizard takes.
Answer(c) ==
    /\ at[c] = "wizard"
    /\ \E w \in HandleEnter(req[c], wiz[c], Offered(c)) :
         /\ wiz' = [wiz EXCEPT ![c] = w]
         /\ agreed' = [agreed EXCEPT ![c] = w.overwrite]
         /\ To(c, IF w.step = Done THEN "names" ELSE "wizard")
    /\ UNCHANGED <<req, shown, name, sha, files, had, got, cacheVars>>

\* Cancelled, or there is no terminal.
Leave(c) == at[c] = "wizard" /\ Only(c, "error")

\* The defaults.  A template that was chosen in the wizard is looked at only
\* after the name has got its default.  A free name is a directory to be made.
ApplyDefaults(c) ==
    /\ at[c] = "names"
    /\ LET w == wiz[c]
           byDir == req[c].template # NoTemplate /\ req[c].template.workflows = 1
       IN  /\ name' = [name EXCEPT ![c] = IF w.workflow # "" THEN w.workflow
                                          ELSE IF byDir THEN "tdir" ELSE "wdir"]
           /\ IF req[c].isNew /\ w.project = "free"
              THEN files' = [files EXCEPT ![c] = Empty] /\ had' = [had EXCEPT ![c] = {}]
              ELSE UNCHANGED <<files, had>>
    /\ To(c, "dir")
    /\ UNCHANGED <<req, shown, wiz, sha, got, agreed, cacheVars>>

\* ensureProjectDirectoryExists, for a new project.
EnsureProjectDirectory(c) ==
    /\ at[c] = "dir"
    /\ LET exists == req[c].isNew /\ Full(files[c]) # {} IN
       \/ ~exists /\ Only(c, "rpcs")
       \/ exists /\ ~wiz[c].overwrite /\ Only(c, "confirm")
       \/ /\ exists /\ wiz[c].overwrite
          /\ files' = [files EXCEPT ![c] = Empty]
          /\ To(c, "rpcs")
          /\ UNCHANGED <<req, shown, wiz, name, sha, had, got, agreed, cacheVars>>

ConfirmOverwrite(c) ==
    /\ at[c] = "confirm"
    /\ \/ Only(c, "error")
       \/ /\ files' = [files EXCEPT ![c] = Empty]
          /\ agreed' = [agreed EXCEPT ![c] = TRUE]
          /\ To(c, "rpcs")
          /\ UNCHANGED <<req, shown, wiz, name, sha, had, got, cacheVars>>

\* Flags win over the wizard; only theirs may still be no URLs.
CheckRPCs(c) ==
    at[c] = "rpcs" /\ Only(c, IF req[c].badRpc THEN "error" ELSE "scaffold")

-----------------------------------------------------------------------------
\* Mutant: what exists is not preserved.
WriteOver(c, f, put) ==
    [p \in Places |-> IF p \in DOMAIN put THEN put[p] ELSE f[p]]

\* Files of the template for some places, over what is there in a new project only.
Write(c, f, put) ==
    [p \in Places |-> IF p \in DOMAIN put /\ (req[c].isNew \/ f[p].by = "none")
                      THEN put[p] ELSE f[p]]

Held(c, ver) == Contents[ver][wiz[c].template]

\* extractTarball of a whole archive: what it holds of the template, which may
\* be nothing.  Files that an earlier archive left and this one lacks stay.
Extract(c, ver) ==
    /\ files' = [files EXCEPT ![c] = Write(c, @, [p \in Held(c, ver) |-> Part(ver, p)])]
    /\ got' = [got EXCEPT ![c] = ver]

\* Of a damaged one: some files, and perhaps one that is cut.
ExtractSome(c, ver) ==
    /\ \E ps \in SUBSET Held(c, ver) : \E cut \in SUBSET ps :
          /\ Cardinality(cut) <= 1
          /\ files' = [files EXCEPT ![c] =
                Write(c, @, [p \in ps |-> IF p \in cut THEN CutOff(ver, p) ELSE Part(ver, p)])]
    /\ UNCHANGED got

\* The built-in ones are in the binary; their workflow gets its name at once.
ScaffoldBuiltIn(c) ==
    /\ at[c] = "scaffold" /\ wiz[c].template.builtIn
    /\ files' = [files EXCEPT ![c] =
          Write(c, @, [p \in {"project", name[c]} |->
                          Part(Latest, IF p = name[c] THEN "tdir" ELSE p)])]
    /\ got' = [got EXCEPT ![c] = Latest]
    /\ To(c, "generate")
    /\ UNCHANGED <<req, shown, wiz, name, sha, had, agreed, cacheVars>>

UseCachedTarball(c) ==
    /\ at[c] = "scaffold" /\ ~wiz[c].template.builtIn
    /\ sha' = [sha EXCEPT ![c] = GetTreeSHA]
    /\ LET s == GetTreeSHA IN
       IF ~IsTarballCached(s) THEN To(c, "download") /\ UNCHANGED <<files, got>>
       ELSE IF tar[s].state = "whole" THEN Extract(c, tar[s].ver) /\ To(c, "rename")
       ELSE ExtractSome(c, tar[s].ver) /\ To(c, "download")
    /\ UNCHANGED <<req, shown, wiz, name, had, agreed, cacheVars>>

DownloadTarball(c) ==
    \/ at[c] = "download" /\ Only(c, "stream")
    \/ at[c] = "download" /\ BeginTarball(c, sha[c]) /\ To(c, "downloading") /\ UNCHANGED cmdRest
    \/ at[c] = "downloading" /\ EndTarball(c, sha[c]) /\ To(c, "extract") /\ UNCHANGED cmdRest
    \/ at[c] = "downloading" /\ LeaveTarball(c, sha[c]) /\ To(c, "stream") /\ UNCHANGED cmdRest

ExtractTarball(c) ==
    /\ at[c] = "extract"
    /\ LET t == tar[sha[c]] IN
       IF t.state = "whole" THEN Extract(c, t.ver) /\ To(c, "rename")
       ELSE ExtractSome(c, t.ver) /\ To(c, "error")
    /\ UNCHANGED <<req, shown, wiz, name, sha, had, agreed, cacheVars>>

StreamTarball(c) ==
    /\ at[c] = "stream"
    /\ \/ Extract(c, head) /\ To(c, "rename")
       \/ ExtractSome(c, head) /\ To(c, "error")
    /\ UNCHANGED <<req, shown, wiz, name, sha, had, agreed, cacheVars>>

-----------------------------------------------------------------------------
\* A file in one place goes to another.
Renamed(f, p, n) == [f EXCEPT ![n] = f[p], ![p] = Of("none")]

\* os.Rename of a directory, which another one with files is in the way of.
Move(c, p) ==
    IF \E q \in {name[c], "inLoose", "inDocs"} : files[c][q].by # "none"
    THEN To(c, "error") /\ UNCHANGED files
    ELSE files' = [files EXCEPT ![c] = Renamed(@, p, name[c])] /\ To(c, "generate")

Stays(c) == To(c, "generate") /\ UNCHANGED files

\* A template with a project directory keeps its names, but for a lone workflow.
RenameProjectDir(c) ==
    LET t == wiz[c].template IN
    IF t.workflows = 1 /\ name[c] # "tdir" /\ files[c]["tdir"].by # "none" THEN Move(c, "tdir")
    ELSE Stays(c)

\* Any directory with a workflow's files may be the first, whoever it belongs to;
\* without one, what is at the root is the workflow.
RenameFound(c) ==
    LET found == {p \in Dirs : files[c][p].by # "none"} IN
    \/ \E p \in found : IF p = name[c] THEN Stays(c) ELSE Move(c, p)
    \/ found = {} /\ To(c, "moving") /\ UNCHANGED files

RenameWorkflowDir(c) ==
    LET t == wiz[c].template IN
    IF t.workflows = 0 THEN RenameFound(c)
    ELSE IF t.workflows > 1 \/ name[c] = "tdir" THEN Stays(c)
    ELSE IF files[c]["tdir"].by = "none" THEN To(c, "error") /\ UNCHANGED files
    ELSE Move(c, "tdir")

MaybeRenameWorkflowDir(c) ==
    /\ at[c] = "rename"
    /\ IF wiz[c].template.projectDir THEN RenameProjectDir(c) ELSE RenameWorkflowDir(c)
    /\ UNCHANGED <<req, shown, wiz, name, sha, had, got, agreed, cacheVars>>

\* The root's entries that are not the project's, whoever they belong to, go into
\* the workflow's directory one by one: a file over one of the same name, a
\* directory only where none with files is in the way.
RootEntries == {"loose", "docs"}
Into(p) == IF p = "loose" THEN "inLoose" ELSE "inDocs"

MoveRootEntry(c) ==
    /\ at[c] = "moving"
    /\ LET left == {p \in RootEntries : files[c][p].by # "none"} IN
       \/ \E p \in left :
             /\ p = "loose" \/ files[c][Into(p)].by = "none"
             /\ files' = [files EXCEPT ![c] = Renamed(@, p, Into(p))]
             /\ UNCHANGED at
       \/ left = {} /\ Stays(c)
       \/ To(c, "error") /\ UNCHANGED files
    /\ UNCHANGED <<req, shown, wiz, name, sha, had, got, agreed, cacheVars>>

\* project.yaml gets its URLs; what the template did not bring is generated;
\* the tools run.
Generate(c) ==
    /\ at[c] = "generate"
    /\ \/ To(c, "error") /\ UNCHANGED files
       \/ /\ files' = [files EXCEPT ![c] =
               LET t == wiz[c].template
                   d == IF t.workflows > 1 THEN "tdir" ELSE name[c]
               IN  [p \in Places |-> IF @[p].by = "none" /\ (p = "project" \/ (p = d /\ ~t.projectDir))
                                     THEN Of("cli") ELSE @[p]]]
          /\ To(c, "done")
    /\ UNCHANGED <<req, shown, wiz, name, sha, had, got, agreed, cacheVars>>

\* The process is killed, where that leaves a file of the cache half written;
\* elsewhere it is like a command that goes no further.
Kill(c) ==
    /\ at[c] \in {"saving", "downloading"}
    /\ writers' = [s \in Names |-> writers[s] \ {c}]
    /\ To(c, "killed")
    /\ UNCHANGED <<cmdRest, head, list, tar>>

InitStep(c) ==
    \/ ListCached(c) \/ ListFetch(c) \/ Discover(c) \/ DiscoverFails(c) \/ SaveTemplateList(c)
    \/ ResolveTemplate(c) \/ Answer(c) \/ Leave(c) \/ ApplyDefaults(c)
    \/ EnsureProjectDirectory(c) \/ ConfirmOverwrite(c) \/ CheckRPCs(c)
    \/ ScaffoldBuiltIn(c) \/ UseCachedTarball(c) \/ DownloadTarball(c) \/ ExtractTarball(c)
    \/ StreamTarball(c) \/ MaybeRenameWorkflowDir(c) \/ MoveRootEntry(c) \/ Generate(c)
    \/ Kill(c)

InitNext ==
    \/ \E c \in Cmds : InitStep(c)
    \/ CacheMoves /\ UNCHANGED initVars
    \/ InvalidateTemplateList /\ UNCHANGED initVars

-----------------------------------------------------------------------------
\* A file that was in the directory of the workflow, which had no workflow's files,
\* makes room for one of the same name at the root.
MovedOver(c, p) ==
    /\ p = "inLoose" /\ files[c][p].by # "none"
    /\ ~wiz[c].template.projectDir /\ wiz[c].template.workflows = 0

\* Each file the user had in the directory is there, if only under another name,
\* unless the user agreed to have it overwritten or it was moved over.
NothingLost ==
    \A c \in Cmds : agreed[c] \/
        \A p \in had[c] : (\E q \in Places : files[c][q] = Theirs(p)) \/ MovedOver(c, p)

\* A new project that was made has every file that the version it extracted holds
\* of the template, whole; what else is there of the template is a file which that
\* version lacks, left by an archive that turned out to be damaged.
WholeTemplate ==
    \A c \in Cmds : at[c] = "done" /\ req[c].isNew =>
        LET f == files[c]
            v == got[c] IN
        /\ \A p \in Held(c, v) : \E q \in Places : f[q] = Part(v, p)
        /\ \A q \in Places :
              f[q].by \in {"template", "cut"} /\ f[q].from \in Held(c, v) =>
                  f[q] = Part(v, f[q].from)

\* `cre init` keeps each file the user had in the directory, unless told to
\* overwrite it or moving another over it, and a new project has all that one
\* version holds of its template, none of it cut or of another version, whatever
\* half-written, damaged or older tarball of another command was met in the cache.
ProjectsSound == NothingLost /\ WholeTemplate
=============================================================================
