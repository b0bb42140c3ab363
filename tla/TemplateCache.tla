----------------------------- MODULE TemplateCache -----------------------------
(***************************************************************************)
(* The cache of template repositories, under the CLI's directory and so    *)
(* shared by every command that runs: one list of templates per source,    *)
(* with the SHA of the tree it was read from, and the tarballs, under a    *)
(* name with such a SHA.  Neither is written atomically: a reader may find *)
(* half a list, which counts as none, or half a tarball, which counts as   *)
(* cached until it is extracted.  One source; a version of its repository  *)
(* is a number.                                                            *)
(***************************************************************************)
EXTENDS Integers

CONSTANTS
    Cmds,       \* commands that run
    MaxVersion  \* bound: versions the repository goes through

ASSUME CacheAssumption == MaxVersion \in Nat \ {0}

VARIABLES
    head,       \* the version at the source's ref
    list,       \* the list's file: its state, the tree's SHA and whether under an hour old
    tar,        \* tar[s]: the tarball named for s: its version (0: no file), its state and
                \* whether under a day old
    writers     \* writers[s]: the commands that write that file

cacheVars == <<head, list, tar, writers>>

Versions == 1..MaxVersion
Latest   == 0   \* the name of a tarball when no SHA is known
Names    == {Latest} \cup Versions

CacheTypeOK ==
    /\ head \in Versions
    /\ list \in [state : {"none", "corrupt", "ok"}, sha : Names, fresh : BOOLEAN]
    /\ tar \in [Names -> [ver : Names, state : {"partial", "mixed", "whole"}, fresh : BOOLEAN]]
    /\ writers \in [Names -> SUBSET Cmds]

NoTarball == [ver |-> 0, state |-> "partial", fresh |-> FALSE]

CacheInit ==
    /\ head = 1
    /\ list = [state |-> "none", sha |-> 0, fresh |-> FALSE]
    /\ tar = [s \in Names |-> NoTarball]
    /\ writers = [s \in Names |-> {}]

\* A list that is too old is no answer to LoadTemplateList, but is one to
\* LoadStaleTemplateList.
LoadTemplateList      == list.state = "ok" /\ list.fresh
LoadStaleTemplateList == list.state = "ok"
GetTreeSHA            == IF list.state = "ok" THEN list.sha ELSE Latest

\* Checked by name and age only.
IsTarballCached(s) == s # Latest /\ tar[s].ver # 0 /\ tar[s].fresh

-----------------------------------------------------------------------------
\* SaveTemplateList: the file is truncated, then written.
TruncateList    == list' = [list EXCEPT !.state = "corrupt"] /\ UNCHANGED <<head, tar, writers>>
WriteList(s) ==
    /\ list' = [state |-> "ok", sha |-> s, fresh |-> TRUE]
    /\ UNCHANGED <<head, tar, writers>>

InvalidateTemplateList ==
    /\ list.state # "none"
    /\ list' = [list EXCEPT !.state = "none"]
    /\ UNCHANGED <<head, tar, writers>>

\* DownloadTarball: the file is created, or truncated, and filled with what the
\* ref holds now.  Of two that write at once the last to end leaves it whole,
\* unless they write different versions into each other.
BeginTarball(c, s) ==
    /\ writers' = [writers EXCEPT ![s] = @ \cup {c}]
    /\ tar' = [tar EXCEPT ![s] =
           [ver   |-> head, fresh |-> TRUE,
            state |-> IF writers[s] # {} /\ (@.ver # head \/ @.state = "mixed") THEN "mixed"
                      ELSE "partial"]]
    /\ UNCHANGED <<head, list>>

EndTarball(c, s) ==
    /\ writers' = [writers EXCEPT ![s] = @ \ {c}]
    /\ tar' = [tar EXCEPT ![s].state = IF writers[s] = {c} /\ @ = "partial" THEN "whole" ELSE @,
                          ![s].fresh = TRUE]
    /\ UNCHANGED <<head, list>>

LeaveTarball(c, s) == writers' = [writers EXCEPT ![s] = @ \ {c}] /\ UNCHANGED <<head, list, tar>>

-----------------------------------------------------------------------------
\* The repository moves on; time passes.
Publish == head < MaxVersion /\ head' = head + 1 /\ UNCHANGED <<list, tar, writers>>

ListExpires == list.fresh /\ list' = [list EXCEPT !.fresh = FALSE] /\ UNCHANGED <<head, tar, writers>>

TarballExpires(s) ==
    /\ tar[s].fresh /\ writers[s] = {}
    /\ tar' = [tar EXCEPT ![s].fresh = FALSE]
    /\ UNCHANGED <<head, list, writers>>

CacheMoves == Publish \/ ListExpires \/ \E s \in Names : TarballExpires(s)
=============================================================================
