------------------------------ MODULE SelfUpdate ------------------------------
(***************************************************************************)
(* `cre update` and the check for updates that other commands make when    *)
(* they are done: processes that share the installed binary and the file   *)
(* update.json, while releases are published.  A release is a number; some *)
(* have a tag that is no version, and a build for development is one, 0.   *)
(***************************************************************************)
EXTENDS Integers

CONSTANTS
    Updaters,    \* processes
    LastRelease, \* bound: releases published
    Odd          \* releases and builds whose name is no version

ASSUME ReleaseAssumption == LastRelease \in Nat \ {0}

VARIABLES
    release,    \* the latest release
    binary,     \* what is installed: the release, and whether it is as it was signed
    lastCheck,  \* update.json: its state, the release and whether under a day old
    upd         \* upd[u]: a process: where it is, the release it runs, whether forced, the
                \* release it is about, whether its download is as signed, what it told

updVars == <<release, binary, lastCheck, upd>>

Builds == 0..LastRelease
UpdSpots == {"begin", "tag", "compare", "download", "extract", "signature", "verify", "install",
             "load", "fetch", "save", "saving", "tell", "installed", "ended"}

UpdTypeOK ==
    /\ release \in Builds
    /\ binary \in [ver : Builds, sound : BOOLEAN]
    /\ lastCheck \in [state : {"none", "corrupt", "ok"}, ver : Builds, fresh : BOOLEAN]
    /\ upd \in [Updaters -> [at : UpdSpots, runs : Builds, force : BOOLEAN, tag : Builds,
                             sound : BOOLEAN, told : Builds]]

NewUpd(force) == [at |-> "begin", runs |-> 0, force |-> force, tag |-> 0, sound |-> FALSE, told |-> 0]

UpdInit ==
    /\ release = 1
    /\ binary \in [ver : {0, 1}, sound : {TRUE}]
    /\ lastCheck = [state |-> "none", ver |-> 0, fresh |-> FALSE]
    /\ upd \in [Updaters -> {NewUpd(f) : f \in BOOLEAN}]

\* u goes on, with some of its fields new.
Goes(u, r)     == upd' = [upd EXCEPT ![u] = r]
OnlyGoes(u, r) == Goes(u, r) /\ UNCHANGED <<release, binary, lastCheck>>
In(u, s)       == upd[u].at = s
Next1(u, s)    == [upd[u] EXCEPT !.at = s]

-----------------------------------------------------------------------------
\* A process keeps the binary it was started from.
Start(u) ==
    /\ In(u, "begin") /\ binary.sound
    /\ \E s \in {"tag", "load"} : OnlyGoes(u, [Next1(u, s) EXCEPT !.runs = binary.ver])

GetLatestTag(u) ==
    /\ In(u, "tag")
    /\ \/ OnlyGoes(u, Next1(u, "ended"))
       \/ OnlyGoes(u, [Next1(u, "compare") EXCEPT !.tag = release])

\* What cannot be compared is refused, unless forced; what is not newer is not
\* installed.
CompareVersions(u) ==
    /\ In(u, "compare")
    /\ LET p == upd[u]
           goesOn == IF {p.runs, p.tag} \cap Odd # {} THEN p.force ELSE p.tag > p.runs
       IN  OnlyGoes(u, Next1(u, IF goesOn THEN "download" ELSE "ended"))

\* The asset of that tag for this platform, if there is one; it may arrive damaged.
DownloadAsset(u) ==
    /\ In(u, "download")
    /\ \/ OnlyGoes(u, Next1(u, "ended"))
       \/ \E s \in BOOLEAN : OnlyGoes(u, [Next1(u, "extract") EXCEPT !.sound = s])

\* The binary is the first entry with the name in it; a damaged archive may
\* still give one, as its checksum comes after it.
ExtractBinary(u) ==
    /\ In(u, "extract")
    /\ \/ ~upd[u].sound /\ OnlyGoes(u, Next1(u, "ended"))
       \/ OnlyGoes(u, Next1(u, "signature"))

\* A file of its own on Linux; elsewhere the signature is in the binary.
DownloadSignature(u) ==
    /\ In(u, "signature")
    /\ \E s \in {"verify", "ended"} : OnlyGoes(u, Next1(u, s))

\* Mutant: without a signature there is nothing to compare with.
VerifyIfSigned(u) ==
    /\ In(u, "verify")
    /\ \E s \in {"install", "ended"} : OnlyGoes(u, Next1(u, s))

VerifyReleaseBinary(u) ==
    /\ In(u, "verify")
    /\ OnlyGoes(u, Next1(u, IF upd[u].sound THEN "install" ELSE "ended"))

\* A rename; never on Windows, and not between file systems.
ReplaceSelf(u) ==
    /\ In(u, "install")
    /\ \/ OnlyGoes(u, Next1(u, "ended"))
       \/ /\ binary' = [ver |-> upd[u].tag, sound |-> upd[u].sound]
          /\ Goes(u, Next1(u, "installed"))
          /\ UNCHANGED <<release, lastCheck>>

-----------------------------------------------------------------------------
\* CheckForUpdates, of another command.
LoadCache(u) ==
    /\ In(u, "load")
    /\ LET known == IF lastCheck.state = "ok" THEN lastCheck.ver ELSE 0
           to == IF upd[u].runs \in Odd THEN "ended"
                 ELSE IF lastCheck.state = "ok" /\ lastCheck.fresh THEN "tell" ELSE "fetch"
       IN  OnlyGoes(u, [Next1(u, to) EXCEPT !.tag = known])

FetchLatestVersion(u) ==
    /\ In(u, "fetch")
    /\ \/ OnlyGoes(u, Next1(u, "tell"))     \* the stale one, if any
       \/ OnlyGoes(u, [Next1(u, "save") EXCEPT !.tag = release])

\* The file is truncated, then written.
SaveCache(u) ==
    \/ In(u, "save") /\ OnlyGoes(u, Next1(u, "tell"))
    \/ /\ In(u, "save") /\ Goes(u, Next1(u, "saving"))
       /\ lastCheck' = [lastCheck EXCEPT !.state = "corrupt"] /\ UNCHANGED <<release, binary>>
    \/ /\ In(u, "saving") /\ Goes(u, Next1(u, "tell"))
       /\ lastCheck' = [state |-> "ok", ver |-> upd[u].tag, fresh |-> TRUE]
       /\ UNCHANGED <<release, binary>>

TellUpdate(u) ==
    /\ In(u, "tell")
    /\ LET p == upd[u]
           newer == p.tag # 0 /\ p.tag \notin Odd /\ p.tag > p.runs
       IN  OnlyGoes(u, [Next1(u, "ended") EXCEPT !.told = IF newer THEN p.tag ELSE 0])

-----------------------------------------------------------------------------
KillUpd(u)  == upd[u].at \notin {"begin", "installed", "ended"} /\ OnlyGoes(u, Next1(u, "ended"))

NewRelease ==
    release < LastRelease /\ release' = release + 1 /\ UNCHANGED <<binary, lastCheck, upd>>

DayPasses ==
    /\ lastCheck.fresh /\ lastCheck' = [lastCheck EXCEPT !.fresh = FALSE]
    /\ UNCHANGED <<release, binary, upd>>

UpdStep(u) ==
    \/ Start(u) \/ GetLatestTag(u) \/ CompareVersions(u) \/ DownloadAsset(u) \/ ExtractBinary(u)
    \/ DownloadSignature(u) \/ VerifyReleaseBinary(u) \/ ReplaceSelf(u)
    \/ LoadCache(u) \/ FetchLatestVersion(u) \/ SaveCache(u) \/ TellUpdate(u) \/ KillUpd(u)

UpdNext == NewRelease \/ DayPasses \/ \E u \in Updaters : UpdStep(u)

-----------------------------------------------------------------------------
\* What is installed is a release as it was signed, whatever was downloaded,
\* by whom, and however many were cut off; who installed it went forward from
\* what it ran, or was forced to where that cannot be told; and whoever is told
\* of a release, fresh from the file or stale, does find one that is newer.
UpdatesSound ==
    /\ binary.sound
    /\ \A u \in Updaters : upd[u].at = "installed" =>
         \/ upd[u].tag > upd[u].runs /\ {upd[u].tag, upd[u].runs} \cap Odd = {}
         \/ upd[u].force /\ {upd[u].tag, upd[u].runs} \cap Odd # {}
    /\ \A u \in Updaters : upd[u].told # 0 => upd[u].told \in (upd[u].runs + 1)..release
=============================================================================
