---------------------------- MODULE Tooling_proofs ----------------------------
(***************************************************************************)
(* Theorems about the parts around the commands that MCTooling checks on   *)
(* small instances, each for all values of its constants: the update of    *)
(* the CLI itself (SelfUpdate), the checks before any command              *)
(* (CommandGate), the builds in a folder (WorkflowBuild), and what a       *)
(* simulation needs before its session (SimulateSetup, LogTrigger).        *)
(***************************************************************************)
EXTENDS MCTooling, ProjectInit_proofs, WorkflowQuery_proofs,
        WellFoundedInduction, TLAPS

UpdSpec == UpdInit /\ [][UpdNext]_updVars
GateSpec == GateInit /\ [][GateNext]_gateVars
BuildSpec == BuildInit /\ [][BuildNext]_buildVars
SetupSpec == SetupInit /\ [][SetupNext]_setupVars
LogSpec   == LogInit /\ [][LogNext]_logVars

----------------------------------------------------------------------------
(* The least of some numbers, and the greatest of some indices.            *)

LEMMA GreatestIndex ==
    ASSUME NEW n \in Nat, NEW ms \in SUBSET (1..n), ms # {}
    PROVE  \E m \in ms : \A i \in ms : i <= m
<1> DEFINE D == {n - i : i \in ms}
<1>1. \A i \in ms : i \in Int /\ n - i \in Nat
  OBVIOUS
<1>2. D \subseteq Nat /\ D # {}
  BY <1>1
<1>3. PICK k \in D : \A j \in D : k <= j
  <2> HIDE DEF D
  <2> QED BY <1>2, LeastNatural
<1>4. PICK m \in ms : k = n - m
  BY <1>3
<1>5. ASSUME NEW i \in ms PROVE i <= m
  <2>1. n - i \in D
    OBVIOUS
  <2> HIDE DEF D
  <2>2. n - m <= n - i
    BY <1>3, <1>4, <2>1
  <2> QED BY <1>1, <2>2
<1> QED BY <1>5

----------------------------------------------------------------------------
(* Self-update.                                                            *)

Updates == [at : UpdSpots, runs : Builds, force : BOOLEAN, tag : Builds, sound : BOOLEAN,
            told : Builds]

GoesForward(p) == \/ p.tag > p.runs /\ {p.tag, p.runs} \cap Odd = {}
                  \/ p.force /\ {p.tag, p.runs} \cap Odd # {}

\* What a process has decided is still so when it acts: it goes forward, with a
\* binary that was verified, and tells of a release there is.
Decided(p) ==
    /\ p.tag <= release
    /\ p.at \in {"download", "extract", "signature", "verify", "install", "installed"} =>
          GoesForward(p)
    /\ p.at = "install" => p.sound
    /\ p.told # 0 => p.at = "ended" /\ p.told > p.runs /\ p.told <= release

UpdInv ==
    /\ UpdTypeOK
    /\ binary.sound
    /\ lastCheck.state = "ok" => lastCheck.ver <= release
    /\ \A u \in Updaters : Decided(upd[u])

LEMMA UpdInitInv == UpdInit => UpdInv
<1> SUFFICES ASSUME UpdInit PROVE UpdInv
  OBVIOUS
<1>1. 0 \in Builds /\ 1 \in Builds
  BY ReleaseAssumption DEF Builds
<1>2. \A f \in BOOLEAN : NewUpd(f) \in Updates /\ NewUpd(f).tag = 0 /\ NewUpd(f).told = 0
                         /\ NewUpd(f).at = "begin"
  BY <1>1 DEF NewUpd, Updates, UpdSpots
<1>3. \A u \in Updaters : upd[u] \in {NewUpd(f) : f \in BOOLEAN}
  BY DEF UpdInit
<1>4. \A u \in Updaters : upd[u] \in Updates /\ Decided(upd[u])
  <2> SUFFICES ASSUME NEW u \in Updaters PROVE upd[u] \in Updates /\ Decided(upd[u])
    OBVIOUS
  <2>1. PICK f \in BOOLEAN : upd[u] = NewUpd(f)
    BY <1>3
  <2>2. release = 1
    BY DEF UpdInit
  <2> QED BY <1>2, <2>1, <2>2 DEF Decided
<1>5. upd \in [Updaters -> Updates]
  BY <1>4 DEF UpdInit
<1> QED BY <1>1, <1>4, <1>5 DEF UpdInv, UpdTypeOK, UpdInit, Updates

\* A process that only goes on itself keeps the invariant when its new fields do.
LEMMA GoesOnly ==
    ASSUME UpdInv, NEW u \in Updaters, NEW r \in Updates, Decided(r), Goes(u, r),
           release' = release, binary' \in [ver : Builds, sound : {TRUE}],
           lastCheck' \in [state : {"none", "corrupt", "ok"}, ver : Builds, fresh : BOOLEAN],
           lastCheck'.state = "ok" => lastCheck'.ver <= release
    PROVE  UpdInv'
<1>1. upd' \in [Updaters -> Updates] /\ \A v \in Updaters : upd'[v] \in {upd[v], r}
  BY DEF UpdInv, UpdTypeOK, Updates, Goes
<1>2. \A v \in Updaters : Decided(upd'[v])
  BY <1>1 DEF UpdInv
<1> QED BY <1>1, <1>2 DEF UpdInv, UpdTypeOK, Updates, Decided

\* What of its fields a step changes.
LEMMA FieldsOf ==
    ASSUME NEW u \in Updaters, upd[u] \in Updates, NEW s \in UpdSpots
    PROVE  /\ Next1(u, s) \in Updates /\ Next1(u, s).at = s
           /\ Next1(u, s).runs = upd[u].runs /\ Next1(u, s).force = upd[u].force
           /\ Next1(u, s).tag = upd[u].tag /\ Next1(u, s).sound = upd[u].sound
           /\ Next1(u, s).told = upd[u].told
BY DEF Updates, Next1

LEMMA UpdStepInv ==
    ASSUME UpdInv, NEW u \in Updaters, UpdStep(u)
    PROVE  UpdInv'
<1> DEFINE p == upd[u]
           Deciding == {"download", "extract", "signature", "verify", "install", "installed"}
<1>1. p \in Updates /\ Decided(p)
  BY DEF UpdInv, UpdTypeOK, Updates
<1>2. /\ release \in Builds /\ release >= 0 /\ Builds \subseteq Int
      /\ binary \in [ver : Builds, sound : {TRUE}]
      /\ lastCheck \in [state : {"none", "corrupt", "ok"}, ver : Builds, fresh : BOOLEAN]
      /\ lastCheck.state = "ok" => lastCheck.ver <= release
      /\ 0 \in Builds
  <2>1. binary \in [ver : Builds, sound : {TRUE}]
    BY DEF UpdInv, UpdTypeOK
  <2>2. release \in Builds /\ release >= 0 /\ Builds \subseteq Int /\ 0 \in Builds
    BY ReleaseAssumption DEF UpdInv, UpdTypeOK, Builds
  <2> QED BY <2>1, <2>2 DEF UpdInv, UpdTypeOK
<1>3. ASSUME NEW r \in Updates, Decided(r), OnlyGoes(u, r) PROVE UpdInv'
  BY <1>2, <1>3, GoesOnly DEF OnlyGoes
<1>4. /\ Deciding \subseteq UpdSpots
      /\ \A s \in {"tag", "compare", "load", "fetch", "save", "saving", "tell", "ended"} :
            s \in UpdSpots /\ s \in UpdSpots \ Deciding
  BY DEF UpdSpots
<1>5. ASSUME NEW s \in UpdSpots, s \notin Deciding, p.told = 0
      PROVE  Decided(Next1(u, s))
  BY <1>1, <1>5, FieldsOf DEF Decided
<1>6. ASSUME NEW s \in Deciding, p.at \in Deciding, s = "install" => p.sound
      PROVE  Decided(Next1(u, s)) /\ s \in UpdSpots
  BY <1>4, <1>1, <1>6, FieldsOf DEF Decided, GoesForward
<1> USE DEF OnlyGoes, Goes, In
<1>7. p.told # 0 => p.at = "ended"
  BY <1>1 DEF Decided
<1>8. \A s \in UpdSpots \ Deciding : OnlyGoes(u, Next1(u, s)) /\ p.at # "ended" => UpdInv'
  BY <1>1, <1>3, <1>5, <1>7, FieldsOf
<1>9. \A s \in Deciding :
        OnlyGoes(u, Next1(u, s)) /\ p.at \in Deciding /\ (s = "install" => p.sound) => UpdInv'
  BY <1>1, <1>3, <1>6, FieldsOf
<1>10. CASE KillUpd(u)
  BY <1>4, <1>8, <1>10 DEF KillUpd
<1>11. CASE Start(u)
  <2>1. PICK t \in {"tag", "load"} : OnlyGoes(u, [Next1(u, t) EXCEPT !.runs = binary.ver])
    BY <1>11 DEF Start
  <2> DEFINE r == [Next1(u, t) EXCEPT !.runs = binary.ver]
  <2>2. Next1(u, t) \in Updates /\ t \in UpdSpots \ Deciding
    BY <1>4, <1>1, FieldsOf
  <2>3. /\ r \in Updates /\ r.at = t /\ r.tag = Next1(u, t).tag /\ r.told = Next1(u, t).told
    BY <1>1, <1>2, <2>2, FieldsOf DEF Updates
  <2>4. Decided(r)
    BY <1>1, <1>7, <1>11, <2>2, <2>3, FieldsOf DEF Start, Decided
  <2> QED BY <1>3, <2>1, <2>3, <2>4
<1>12. CASE GetLatestTag(u) \/ FetchLatestVersion(u)
  <2>1. CASE \E t \in {"ended", "tell"} : OnlyGoes(u, Next1(u, t))
    BY <1>4, <1>8, <1>12, <2>1 DEF GetLatestTag, FetchLatestVersion
  <2>2. ASSUME NEW t \in {"compare", "save"},
               OnlyGoes(u, [Next1(u, t) EXCEPT !.tag = release])
        PROVE  UpdInv'
    <3> DEFINE r == [Next1(u, t) EXCEPT !.tag = release]
    <3>1. Next1(u, t) \in Updates /\ t \in UpdSpots \ Deciding
      BY <1>4, <1>1, FieldsOf
    <3>2. /\ r \in Updates /\ r.at = t /\ r.tag = release /\ r.told = Next1(u, t).told
      BY <1>1, <1>2, <3>1, FieldsOf DEF Updates
    <3>3. Decided(r)
      BY <1>1, <1>2, <1>7, <1>12, <3>1, <3>2, FieldsOf
         DEF Decided, GetLatestTag, FetchLatestVersion
    <3> QED BY <1>3, <2>2, <3>2, <3>3
  <2> QED BY <1>12, <2>1, <2>2 DEF GetLatestTag, FetchLatestVersion
<1>13. CASE CompareVersions(u)
  <2> DEFINE goesOn == IF {p.runs, p.tag} \cap Odd # {} THEN p.force ELSE p.tag > p.runs
  <2>1. p.at = "compare" /\ OnlyGoes(u, Next1(u, IF goesOn THEN "download" ELSE "ended"))
    BY <1>13 DEF CompareVersions
  <2>2. CASE goesOn
    <3>1. GoesForward(p)
      BY <2>2 DEF GoesForward
    <3>2. Next1(u, "download") \in Updates /\ Decided(Next1(u, "download"))
      BY <1>4, <1>1, <1>7, <2>1, <3>1, FieldsOf DEF Decided, GoesForward
    <3> QED BY <1>3, <2>1, <2>2, <3>2
  <2>3. CASE ~goesOn
    BY <1>4, <1>8, <2>1, <2>3
  <2> QED BY <2>2, <2>3
<1>14. CASE DownloadAsset(u)
  <2>1. CASE OnlyGoes(u, Next1(u, "ended"))
    BY <1>4, <1>8, <1>14, <2>1 DEF DownloadAsset
  <2>2. ASSUME NEW x \in BOOLEAN, OnlyGoes(u, [Next1(u, "extract") EXCEPT !.sound = x])
        PROVE  UpdInv'
    <3> DEFINE r == [Next1(u, "extract") EXCEPT !.sound = x]
    <3>1. Next1(u, "extract") \in Updates /\ Decided(Next1(u, "extract"))
      BY <1>4, <1>1, <1>6, <1>14, FieldsOf DEF DownloadAsset
    <3>2. /\ r \in Updates /\ r.at = "extract" /\ r.tag = Next1(u, "extract").tag
          /\ r.told = Next1(u, "extract").told /\ r.runs = Next1(u, "extract").runs
          /\ r.force = Next1(u, "extract").force /\ Next1(u, "extract").at = "extract"
      BY <3>1 DEF Updates, Next1
    <3>3. Decided(r)
      BY <3>1, <3>2 DEF Decided, GoesForward
    <3> QED BY <1>3, <2>2, <3>2, <3>3
  <2> QED BY <1>14, <2>1, <2>2 DEF DownloadAsset
<1>15. CASE ExtractBinary(u) \/ DownloadSignature(u) \/ VerifyReleaseBinary(u)
  BY <1>4, <1>8, <1>9, <1>15 DEF ExtractBinary, DownloadSignature, VerifyReleaseBinary
<1>16. CASE ReplaceSelf(u)
  <2>1. CASE OnlyGoes(u, Next1(u, "ended"))
    BY <1>4, <1>8, <1>16, <2>1 DEF ReplaceSelf
  <2>2. CASE /\ binary' = [ver |-> p.tag, sound |-> p.sound]
             /\ Goes(u, Next1(u, "installed"))
             /\ UNCHANGED <<release, lastCheck>>
    <3>1. Next1(u, "installed") \in Updates /\ Decided(Next1(u, "installed"))
      BY <1>4, <1>1, <1>6, <1>16, FieldsOf DEF ReplaceSelf
    <3>2. binary' \in [ver : Builds, sound : {TRUE}]
      BY <1>1, <1>16, <2>2 DEF ReplaceSelf, Decided, Updates
    <3> QED BY <1>2, <2>2, <3>1, <3>2, GoesOnly
  <2> QED BY <1>16, <2>1, <2>2 DEF ReplaceSelf
<1>17. CASE LoadCache(u)
  <2>1. PICK t \in {"ended", "tell", "fetch"}, known \in {0, lastCheck.ver} :
           /\ OnlyGoes(u, [Next1(u, t) EXCEPT !.tag = known])
           /\ known <= release /\ known \in Builds
    <3>1. lastCheck.ver \in Builds
      BY <1>2
    <3> QED BY <1>2, <1>17, <3>1 DEF LoadCache
  <2> DEFINE r == [Next1(u, t) EXCEPT !.tag = known]
  <2>2. Next1(u, t) \in Updates /\ t \in UpdSpots \ Deciding
    BY <1>4, <1>1, FieldsOf
  <2>3. /\ r \in Updates /\ r.at = t /\ r.tag = known /\ r.told = Next1(u, t).told
    BY <2>1, <2>2, FieldsOf, <1>1 DEF Updates
  <2>4. Decided(r)
    BY <1>1, <1>7, <1>17, <2>1, <2>2, <2>3, FieldsOf DEF LoadCache, Decided
  <2> QED BY <1>3, <2>1, <2>3, <2>4
<1>18. CASE TellUpdate(u)
  <2>1. PICK t \in {0, p.tag} :
           /\ OnlyGoes(u, [Next1(u, "ended") EXCEPT !.told = t])
           /\ t # 0 => p.tag > p.runs
    BY <1>18 DEF TellUpdate
  <2> DEFINE r == [Next1(u, "ended") EXCEPT !.told = t]
  <2>2. Next1(u, "ended") \in Updates /\ p.tag \in Builds
    BY <1>4, <1>1, FieldsOf DEF Updates
  <2>3. /\ r \in Updates /\ r.at = "ended" /\ r.tag = p.tag /\ r.told = t /\ r.runs = p.runs
    BY <1>4, <1>1, <1>2, <2>1, <2>2, FieldsOf DEF Updates, Next1
  <2>4. Decided(r)
    BY <1>1, <2>1, <2>3 DEF Decided
  <2> QED BY <1>3, <2>1, <2>3, <2>4
<1>19. CASE SaveCache(u)
  <2>1. CASE p.at = "save" /\ OnlyGoes(u, Next1(u, "tell"))
    BY <1>4, <1>8, <2>1
  <2>2. ASSUME NEW t \in {"saving", "tell"}, p.at \in {"save", "saving"}, Goes(u, Next1(u, t)),
               UNCHANGED <<release, binary>>,
               \/ lastCheck' = [lastCheck EXCEPT !.state = "corrupt"]
               \/ lastCheck' = [state |-> "ok", ver |-> p.tag, fresh |-> TRUE]
        PROVE  UpdInv'
    <3>1. Next1(u, t) \in Updates /\ Decided(Next1(u, t))
      BY <1>4, <1>1, <1>5, <1>7, <2>2, FieldsOf
    <3>2. /\ lastCheck' \in [state : {"none", "corrupt", "ok"}, ver : Builds, fresh : BOOLEAN]
          /\ lastCheck'.state = "ok" => lastCheck'.ver <= release
      <4>1. p.tag \in Builds /\ p.tag <= release
        BY <1>1 DEF Decided, Updates
      <4>2. lastCheck.fresh \in BOOLEAN /\ lastCheck.ver \in Builds
        BY <1>2
      <4>3. CASE lastCheck' = [lastCheck EXCEPT !.state = "corrupt"]
        BY <1>2, <4>2, <4>3
      <4>4. CASE lastCheck' = [state |-> "ok", ver |-> p.tag, fresh |-> TRUE]
        BY <4>1, <4>4
      <4> QED BY <2>2, <4>3, <4>4
    <3> QED BY <1>2, <2>2, <3>1, <3>2, GoesOnly
  <2> QED BY <1>19, <2>1, <2>2 DEF SaveCache
<1> QED BY <1>10, <1>11, <1>12, <1>13, <1>14, <1>15, <1>16, <1>17, <1>18, <1>19 DEF UpdStep

\* Releases and days only add to what there is to know.
LEMMA UpdStepAny == UpdInv /\ [UpdNext]_updVars => UpdInv'
<1> SUFFICES ASSUME UpdInv, [UpdNext]_updVars PROVE UpdInv'
  OBVIOUS
<1>1. CASE NewRelease
  <2>1. /\ release' = release + 1 /\ release' \in Builds /\ release \in Builds
        /\ UNCHANGED <<binary, lastCheck, upd>>
    BY <1>1, ReleaseAssumption DEF NewRelease, UpdInv, UpdTypeOK, Builds
  <2>2. \A b \in Builds : b <= release => b <= release'
    BY <2>1, ReleaseAssumption DEF Builds
  <2>3. \A u \in Updaters : upd[u].tag \in Builds /\ upd[u].told \in Builds
    BY DEF UpdInv, UpdTypeOK
  <2>4. \A u \in Updaters : Decided(upd[u])'
    BY <2>1, <2>2, <2>3 DEF UpdInv, Decided, GoesForward
  <2>5. lastCheck.ver \in Builds
    BY DEF UpdInv, UpdTypeOK
  <2> QED BY <2>1, <2>2, <2>4, <2>5 DEF UpdInv, UpdTypeOK
<1>2. CASE DayPasses
  <2>1. /\ lastCheck' = [lastCheck EXCEPT !.fresh = FALSE]
        /\ UNCHANGED <<release, binary, upd>>
    BY <1>2 DEF DayPasses
  <2>2. /\ lastCheck' \in [state : {"none", "corrupt", "ok"}, ver : Builds, fresh : BOOLEAN]
        /\ lastCheck'.ver = lastCheck.ver /\ lastCheck'.state = lastCheck.state
    BY <2>1 DEF UpdInv, UpdTypeOK
  <2> QED BY <2>1, <2>2 DEF UpdInv, UpdTypeOK, Decided, GoesForward
<1>3. CASE UNCHANGED updVars
  BY <1>3 DEF updVars, UpdInv, UpdTypeOK, Decided, GoesForward
<1> QED BY <1>1, <1>2, <1>3, UpdStepInv DEF UpdNext

LEMMA UpdInvariant == UpdSpec => []UpdInv
BY UpdInitInv, UpdStepAny, PTL DEF UpdSpec

\* `cre update` leaves an installed binary that is signed, whatever was downloaded
\* or cut off (VerifyReleaseBinary before ReplaceSelf), goes forward unless it was
\* forced, and CheckForUpdates tells only of releases that are newer.
THEOREM UpdatesSoundHolds == UpdSpec => []UpdatesSound
<1>1. UpdInv => UpdatesSound
  <2> SUFFICES ASSUME UpdInv PROVE UpdatesSound
    OBVIOUS
  <2>1. \A u \in Updaters : /\ upd[u].told \in Int /\ upd[u].runs \in Int
                            /\ Decided(upd[u])
    <3>1. \A u \in Updaters : upd[u].told \in Builds /\ upd[u].runs \in Builds
      BY DEF UpdInv, UpdTypeOK
    <3>2. Builds \subseteq Int
      BY ReleaseAssumption DEF Builds
    <3> QED BY <3>1, <3>2 DEF UpdInv
  <2>2. release \in Int
    BY ReleaseAssumption DEF UpdInv, UpdTypeOK, Builds
  <2>3. \A u \in Updaters : upd[u].told # 0 => upd[u].told \in (upd[u].runs + 1)..release
    BY <2>1, <2>2 DEF Decided
  <2> QED BY <2>1, <2>3 DEF UpdInv, UpdatesSound, Decided, GoesForward
<1> QED BY <1>1, UpdInvariant, PTL

----------------------------------------------------------------------------
(* The gate before every command.                                          *)

\* Stages that only a command with settings gets to, from its settings on, and
\* from the resolved registry on.
InSettings == {"dir", "target", "settings", "hash", "registry", "rpc", "owner"}
Settled    == {"hash", "registry", "rpc", "owner"}
Finding    == {"env", "creds", "login", "login done", "error"}

\* What the parts of the context are when a stage is reached.
HasParts ==
    /\ LoadsCredentials(cmd.name) /\ stage \notin Finding => "creds" \in has
    /\ LoadsCredentials(cmd.name) /\ stage \notin Finding \cup {"tenant"} => "tenant" \in has
    /\ stage \in InSettings \/ "settings" \in has => LoadsSettings(cmd.name)
    /\ stage \in Settled \/ (stage = "run" /\ LoadsSettings(cmd.name)) => "settings" \in has
    /\ stage = "env" => has = {}

\* What is known of the registry: none before it is resolved, or where a hash goes
\* without; one that goes with the settings; and a node of its chain.
KnowsRegistry ==
    /\ registry # "" => stage \in {"rpc", "owner", "run", "hashed", "error"}
    /\ stage = "run" /\ ~LoadsSettings(cmd.name) => registry = ""
    /\ stage \in {"rpc", "owner"} \/ (stage = "run" /\ LoadsSettings(cmd.name)) =>
          registry # "" \/ (cmd.name = "hash" /\ conf.registry # "")
    /\ stage = "owner" \/ (stage = "run" /\ LoadsSettings(cmd.name)) =>
          (IsRegistryRPC(cmd.name) => registry = "private" \/ rpcOK)
    /\ conf.registry = "" => registry # "private"
    /\ stage = "run" /\ registry = "private" => cmd.multisig # "true"

UsesOwner == LoadsSettings(cmd.name) /\ ~ShouldSkipGetOwner

\* An owner that does not wait for the registry is there with the settings.
KnowsOwner ==
    /\ "settings" \in has /\ conf.registry = "" /\ ~ShouldSkipGetOwner /\ stage \notin {"error", "hashed"} =>
          owner = WorkflowOwner(conf) /\ owner # ""
    /\ stage = "run" /\ UsesOwner =>
          owner # "" /\ owner = IF registry = "private" THEN "org" ELSE WorkflowOwner(conf)

GateInv == GateTypeOK /\ HasParts /\ KnowsRegistry /\ KnowsOwner

LEMMA GateInitInv == GateInit => GateInv
<1> SUFFICES ASSUME GateInit PROVE GateInv
  OBVIOUS
<1>1. stage = "env" /\ has = {} /\ registry = "" /\ conf.registry = ""
  BY DEF GateInit
<1>2. HasParts /\ KnowsRegistry /\ KnowsOwner
  BY <1>1 DEF HasParts, KnowsRegistry, KnowsOwner, Finding, InSettings, Settled
<1>3. conf \in [registry : Registries, owner : BOOLEAN] /\ cmd \in Flags
  BY DEF GateInit, Registries
<1> QED BY <1>1, <1>2, <1>3 DEF GateInit, GateInv, GateTypeOK, Keys

LEMMA GateTypeStep == GateTypeOK /\ [GateNext]_gateVars => GateTypeOK'
<1> SUFFICES ASSUME GateTypeOK, [GateNext]_gateVars PROVE GateTypeOK'
  OBVIOUS
<1> USE DEF GateTypeOK, Pass, Fail
<1>1. AfterCreds \in {"registry", "dir", "run"}
  BY DEF AfterCreds
<1>2. \A c : WorkflowOwner(c) \in {"", "cfg", "other"}
  BY DEF WorkflowOwner, Keys
<1>3. CASE LoadEnvFiles
  <2>1. key' \in Keys
    BY <1>3 DEF LoadEnvFiles, FindEnvFile
  <2> QED BY <1>1, <1>3, <2>1 DEF LoadEnvFiles, Parts
<1>4. CASE AttachCredentials \/ Login \/ AttachTenantContext \/ SetExecutionContext \/ SelectTarget
  BY <1>1, <1>4 DEF AttachCredentials, Login, AttachTenantContext, SetExecutionContext,
                    SelectTarget, GoodCredentials, Parts
<1>5. CASE LoadSettings
  BY <1>2, <1>5 DEF LoadSettings, Parts
<1>6. CASE HashCredentials \/ ResolveRegistry \/ ValidateOnchainRegistryRPC
  BY <1>6 DEF HashCredentials, GoodCredentials, Parts, ResolveRegistry, Resolves,
              ValidateOnchainRegistryRPC
<1>7. CASE FinalizeOwner \/ Hash
  BY <1>2, <1>7 DEF FinalizeOwner, Hash, HashOwner, Keys
<1>8. CASE UNCHANGED gateVars
  BY <1>8 DEF gateVars
<1> QED BY <1>3, <1>4, <1>5, <1>6, <1>7, <1>8 DEF GateNext

LEMMA GateStep == GateInv /\ [GateNext]_gateVars => GateInv'
<1> SUFFICES ASSUME GateInv, [GateNext]_gateVars PROVE GateInv'
  OBVIOUS
<1>1. GateTypeOK'
  BY GateTypeStep DEF GateInv
<1>2. SUFFICES (HasParts /\ KnowsRegistry /\ KnowsOwner)'
  BY <1>1 DEF GateInv
<1> USE DEF GateInv, HasParts, KnowsRegistry, KnowsOwner, Pass, Fail, Finding, InSettings,
            Settled, UsesOwner
<1>3. CASE LoadEnvFiles
  BY <1>3 DEF LoadEnvFiles, AfterCreds
<1>4. CASE AttachCredentials \/ Login \/ SetExecutionContext \/ SelectTarget
  BY <1>4 DEF AttachCredentials, Login, SetExecutionContext, SelectTarget, GoodCredentials,
              ShouldSkipGetOwner, WorkflowOwner
<1>5. CASE AttachTenantContext
  BY <1>5 DEF AttachTenantContext, AfterCreds, ShouldSkipGetOwner, WorkflowOwner
<1>6. CASE LoadSettings
  BY <1>6 DEF LoadSettings, ShouldSkipGetOwner, WorkflowOwner
<1>7. CASE HashCredentials
  BY <1>7 DEF HashCredentials, GoodCredentials, ShouldSkipGetOwner, WorkflowOwner
<1>8. CASE ResolveRegistry
  BY <1>8 DEF ResolveRegistry, Resolves, ShouldSkipGetOwner, WorkflowOwner
<1>9. CASE ValidateOnchainRegistryRPC
  BY <1>9 DEF ValidateOnchainRegistryRPC, ShouldSkipGetOwner, WorkflowOwner
<1>10. CASE FinalizeOwner
  BY <1>10 DEF FinalizeOwner, ShouldSkipGetOwner, WorkflowOwner, MultisigCompatible, GateTypeOK
<1>11. CASE Hash
  BY <1>11 DEF Hash
<1>12. CASE UNCHANGED gateVars
  BY <1>12 DEF gateVars, ShouldSkipGetOwner, WorkflowOwner
<1> QED BY <1>3, <1>4, <1>5, <1>6, <1>7, <1>8, <1>9, <1>10, <1>11, <1>12 DEF GateNext

LEMMA GateInvariant == GateSpec => []GateInv
BY GateInitInv, GateStep, PTL DEF GateSpec

\* PersistentPreRunE lets a command run only with the parts of the runtime context
\* it uses, and with an owner that goes with the registry it turned out to have,
\* although the owner is looked for before the registry is known and after.
THEOREM ReadyToRunHolds == GateSpec => []ReadyToRun
<1>1. GateInv => ReadyToRun
  <2> SUFFICES ASSUME GateInv, stage = "run" PROVE ReadyToRun
    BY DEF ReadyToRun
  <2> USE DEF GateInv
  <2>1. \A n \in Deep \cup {"get", "link-key", "unlink-key"} :
           LoadsSettings(n) /\ n # "hash"
    BY DEF Deep, LoadsSettings
  <2>2. LoadsCredentials(cmd.name) => {"creds", "tenant"} \subseteq has
    BY DEF HasParts, Finding
  <2>3. LoadsSettings(cmd.name) => "settings" \in has
    BY DEF HasParts
  <2>4. cmd.name \in Deep \cup {"get"} => registry # ""
    BY <2>1 DEF KnowsRegistry
  <2>5. IsRegistryRPC(cmd.name) => registry = "private" \/ rpcOK
    BY <2>1 DEF KnowsRegistry, IsRegistryRPC
  <2>6. registry = "private" => cmd.multisig # "true"
    BY DEF KnowsRegistry
  <2>7. ASSUME UsesOwner
        PROVE  /\ owner = CASE registry = "private" -> "org"
                            [] registry # "private" /\ cmd.multisig # "unset" -> "cfg"
                            [] OTHER -> key
               /\ registry # "private" /\ conf.owner => owner = "cfg"
    BY <2>7 DEF KnowsOwner, WorkflowOwner
  <2> QED BY <2>2, <2>3, <2>4, <2>5, <2>6, <2>7 DEF ReadyToRun, UsesOwner
<1> QED BY <1>1, GateInvariant, PTL

----------------------------------------------------------------------------
(* Builds in a folder.                                                     *)

\* A step of a command that has begun.
Works(b) ==
    \/ Compile(b) \/ Compiled(b) \/ ReadTmp(b) \/ RemoveTmp(b)
    \/ FindMakefileRoot(b) \/ Make(b) \/ Made(b) \/ ReadWasm(b)
    \/ TruncateOutput(b) \/ WriteOutput(b) \/ PrepareWorkflowArtifact(b)
    \/ SetWorkflowPath(b) \/ WriteMakefile(b) \/ StopBuild(b)

Files == Binary \cup {NoBinary, Cut}

\* Types, and what the files of the Makefiles are.
FolderTypes ==
    /\ BuildTypeOK
    /\ wasm \in [{"workflow", "above"} -> Files]
    /\ \A b \in Builders :
         step[b] \in {"make", "making", "emit wasm", "read wasm"} => inHand[b] \in Binary

\* A command that is not crowded is the only one running.
AloneInFolder == \A b \in Builders : b \in Busy /\ ~crowded[b] => Busy = {b}

\* x is what BuildsOwn allows b to go on with.
Own(b, x) ==
    \/ /\ x.of = "workflow"
       /\ x.src >= began[b]
       /\ job[b] # "simulate" => x.stripped
    \/ halfway /\ x.of = "above"

\* A path to a wasm file comes with a Makefile, or with a conversion that is about to
\* write it or ended before.
MakefileFollows ==
    path = "wasm" \/ (\E b \in Builders : step[b] = "find") =>
        makefile \/ halfway \/ \E b \in Builders : step[b] = "makefile"

\* How far the binary of b has got, in its hands and in the files.
HoldsOwn(b) ==
    /\ step[b] \in {"compiling", "emit", "read", "remove", "making", "emit wasm", "read wasm",
                    "write", "fill"} =>
          Own(b, inHand[b])
    /\ step[b] = "make" => inHand[b].of = "workflow" \/ (halfway /\ inHand[b].of = "above")
    /\ step[b] = "emit" => tmp = Cut
    /\ step[b] = "read" => tmp = inHand[b]
    /\ step[b] = "read wasm" => wasm[inHand[b].of] = inHand[b]
    /\ step[b] = "load" => Own(b, output)

BuildInv ==
    /\ FolderTypes
    /\ \A b \in Builders : began[b] <= sources
    /\ AloneInFolder
    /\ MakefileFollows
    /\ \A b \in Builders : ~crowded[b] => HoldsOwn(b)
    /\ \A b \in Builders : ~crowded[b] /\ product[b] # NoBinary => Own(b, product[b])
    /\ \A b \in Builders : step[b] # "done" => product[b] = NoBinary

LEMMA BinaryFacts ==
    /\ Cut \in Files /\ NoBinary \in Files /\ Cut # NoBinary
    /\ \A x \in Binary : /\ x \in Files /\ x # NoBinary /\ x # Cut
                         /\ x.of \in {"workflow", "above"}
                         /\ x.src \in 0..MaxEdits /\ x.stripped \in BOOLEAN
    /\ \A n \in 0..MaxEdits, s \in BOOLEAN, of \in {"workflow", "above"} :
         [src |-> n, stripped |-> s, of |-> of] \in Binary
    /\ \A x \in Binary, n \in 0..MaxEdits, s \in BOOLEAN :
         /\ [x EXCEPT !.src = n, !.stripped = s] \in Binary
         /\ [x EXCEPT !.src = n, !.stripped = s].of = x.of
         /\ [x EXCEPT !.src = n, !.stripped = s].src = n
         /\ [x EXCEPT !.src = n, !.stripped = s].stripped = s
    /\ Cut.of = "part" /\ NoBinary.of = "nothing"
<1>1. \A x \in Binary : x.of \in {"workflow", "above"}
  BY DEF Binary
<1>2. Cut.of = "part" /\ NoBinary.of = "nothing"
  BY DEF Cut, NoBinary
<1>3. \A x \in Binary : x # NoBinary /\ x # Cut
  BY <1>1, <1>2
<1>4. Cut # NoBinary
  BY <1>2
<1> QED BY <1>1, <1>2, <1>3, <1>4 DEF Files, Binary

\* The types, one by one.
BuildSteps == {"begin", "compile", "compiling", "emit", "read", "remove", "find", "make",
               "making", "emit wasm", "read wasm", "write", "fill", "load", "convert",
               "makefile", "done", "error"}

StepTypes ==
    /\ step \in [Builders -> BuildSteps]
    /\ inHand \in [Builders -> Files] /\ product \in [Builders -> Files]
    /\ \A b \in Builders :
         step[b] \in {"make", "making", "emit wasm", "read wasm"} => inHand[b] \in Binary

FileTypes ==
    /\ makefile \in BOOLEAN /\ above \in BOOLEAN /\ halfway \in BOOLEAN
    /\ path \in {"main", "wasm", "lost"}
    /\ tmp \in Files /\ output \in Files /\ wasm \in [{"workflow", "above"} -> Files]

OtherTypes ==
    /\ sources \in 0..MaxEdits /\ job \in JobLists
    /\ began \in [Builders -> 0..MaxEdits] /\ crowded \in [Builders -> BOOLEAN]

LEMMA SplitTypes == FolderTypes <=> StepTypes /\ FileTypes /\ OtherTypes
<1>1. FolderTypes => StepTypes
  BY DEF FolderTypes, BuildTypeOK, StepTypes, Files, BuildSteps
<1>2. FolderTypes => FileTypes
  BY DEF FolderTypes, BuildTypeOK, FileTypes, Files
<1>3. FolderTypes => OtherTypes
  BY DEF FolderTypes, BuildTypeOK, OtherTypes
<1>4. ASSUME StepTypes, FileTypes, OtherTypes PROVE FolderTypes
  <2>1. wasm["workflow"] \in Files /\ wasm["above"] \in Files
    BY <1>4 DEF FileTypes
  <2>2. {tmp, wasm["workflow"], wasm["above"], output} \subseteq Binary \cup {NoBinary, Cut}
    BY <1>4, <2>1 DEF FileTypes, Files
  <2>3. BuildTypeOK
    BY <1>4, <2>2 DEF BuildTypeOK, StepTypes, FileTypes, OtherTypes, Files, BuildSteps
  <2> QED BY <1>4, <2>3 DEF FolderTypes, StepTypes, FileTypes
<1> QED BY <1>1, <1>2, <1>3, <1>4

LEMMA SplitTypesPrimed == FolderTypes' <=> StepTypes' /\ FileTypes' /\ OtherTypes'
<1>1. FolderTypes' => StepTypes'
  BY DEF FolderTypes, BuildTypeOK, StepTypes, Files, BuildSteps
<1>2. FolderTypes' => FileTypes'
  BY DEF FolderTypes, BuildTypeOK, FileTypes, Files
<1>3. FolderTypes' => OtherTypes'
  BY DEF FolderTypes, BuildTypeOK, OtherTypes
<1>4. ASSUME StepTypes', FileTypes', OtherTypes' PROVE FolderTypes'
  <2>1. wasm'["workflow"] \in Files /\ wasm'["above"] \in Files
    BY <1>4 DEF FileTypes
  <2>2. {tmp', wasm'["workflow"], wasm'["above"], output'} \subseteq Binary \cup {NoBinary, Cut}
    BY <1>4, <2>1 DEF FileTypes, Files
  <2>3. BuildTypeOK'
    BY <1>4, <2>2 DEF BuildTypeOK, StepTypes, FileTypes, OtherTypes, Files, BuildSteps
  <2> QED BY <1>4, <2>3 DEF FolderTypes, StepTypes, FileTypes
<1> QED BY <1>1, <1>2, <1>3, <1>4

\* What a step of b leaves to the others.
LEMMA OtherBuilders ==
    ASSUME StepTypes, FileTypes, NEW b \in Builders, Works(b)
    PROVE  /\ \A c \in Builders \ {b} : /\ step'[c] = step[c] /\ inHand'[c] = inHand[c]
                                        /\ product'[c] = product[c]
           /\ UNCHANGED <<job, began, crowded, sources, above>>
           /\ step[b] \notin {"begin", "done", "error"} /\ step'[b] # "begin"
           /\ makefile => makefile'
           /\ halfway => halfway'
<1> USE DEF Is, Moves, Takes, Keeps, SameFolder, folderVars
<1>1. \E s \in BuildSteps \ {"begin"} : Moves(b, s)
  BY DEF BuildSteps, Works, Compile, Compiled, ReadTmp, FindMakefileRoot, RemoveTmp, GoesOn,
         ReadWasm, Make, Made, TruncateOutput, WriteOutput, PrepareWorkflowArtifact,
         SetWorkflowPath, WriteMakefile, StopBuild
<1>2. step[b] \notin {"begin", "done", "error"}
  BY DEF Works, Compile, Compiled, ReadTmp, FindMakefileRoot, RemoveTmp,
         ReadWasm, Make, Made, TruncateOutput, WriteOutput, PrepareWorkflowArtifact,
         SetWorkflowPath, WriteMakefile, StopBuild, Busy
<1>3. /\ \E x : inHand' = [inHand EXCEPT ![b] = x] \/ inHand' = inHand
      /\ \E x : product' = [product EXCEPT ![b] = x] \/ product' = product
  BY DEF Works, Compile, Compiled, ReadTmp, FindMakefileRoot, RemoveTmp, GoesOn,
         ReadWasm, Make, Made, TruncateOutput, WriteOutput, PrepareWorkflowArtifact,
         SetWorkflowPath, WriteMakefile, StopBuild
<1>4. UNCHANGED <<sources, above>>
  BY DEF Works, Compile, Compiled, ReadTmp, FindMakefileRoot, RemoveTmp,
         ReadWasm, Make, Made, TruncateOutput, WriteOutput, PrepareWorkflowArtifact,
         SetWorkflowPath, WriteMakefile, StopBuild
<1>5. (makefile => makefile') /\ (halfway => halfway')
  <2>1. CASE WriteMakefile(b)
    BY <2>1 DEF WriteMakefile, FileTypes
  <2>2. CASE StopBuild(b)
    BY <2>2 DEF StopBuild, FileTypes
  <2>3. CASE ~WriteMakefile(b) /\ ~StopBuild(b)
    <3>1. UNCHANGED <<makefile, halfway>>
      BY <2>3 DEF Works, Compile, Compiled, ReadTmp, FindMakefileRoot, RemoveTmp,
         ReadWasm, Make, Made, TruncateOutput, WriteOutput, PrepareWorkflowArtifact,
         SetWorkflowPath
    <3> QED BY <3>1
  <2> QED BY <2>1, <2>2, <2>3
<1> QED BY <1>1, <1>2, <1>3, <1>4, <1>5 DEF StepTypes

LEMMA FolderTypesStep == FolderTypes /\ [BuildNext]_buildVars => FolderTypes'
<1> SUFFICES ASSUME FolderTypes, [BuildNext]_buildVars PROVE FolderTypes'
  OBVIOUS
<1>0. StepTypes /\ FileTypes /\ OtherTypes
  BY SplitTypes
<1> USE <1>0 DEF Is, Moves, Takes, Keeps, SameFolder, folderVars
<1>1. CASE Edit
  <2>1. sources' \in 0..MaxEdits
    BY <1>1, EditsAssumption DEF Edit, OtherTypes
  <2> QED BY <1>1, <2>1, SplitTypesPrimed DEF Edit, StepTypes, FileTypes, OtherTypes
<1>2. CASE UNCHANGED buildVars
  BY <1>2, SplitTypesPrimed DEF buildVars, StepTypes, FileTypes, OtherTypes
<1>3. ASSUME NEW b \in Builders, ReadPath(b) PROVE FolderTypes'
  <2>1. FileTypes' /\ OtherTypes'
    BY <1>3 DEF ReadPath, FileTypes, OtherTypes
  <2>2. StepTypes'
    BY <1>3 DEF ReadPath, StepTypes, BuildSteps
  <2> QED BY <2>1, <2>2, SplitTypesPrimed
<1>4. ASSUME NEW b \in Builders, Works(b) PROVE FolderTypes'
  <2>1. OtherTypes'
    BY <1>4, OtherBuilders DEF OtherTypes
  <2>2. inHand[b] \in Files
    BY DEF StepTypes
  <2>5. step[b] \in {"make", "making", "emit wasm", "read wasm"} =>
           inHand[b] \in Binary /\ inHand[b].of \in {"workflow", "above"}
    BY BinaryFacts DEF StepTypes
  <2>6. Cut \in Files /\ NoBinary \in Files
    BY BinaryFacts
  <2>3. FileTypes'
    <3> USE DEF FileTypes
    <3>1. CASE Compile(b) \/ ReadTmp(b) \/ FindMakefileRoot(b)
      BY <3>1 DEF Compile, ReadTmp, FindMakefileRoot
    <3>6. CASE Compiled(b)
      <4>1. tmp' \in {Cut, NoBinary, inHand[b], tmp}
        BY <3>6 DEF Compiled, Written
      <4>2. tmp' \in Files
        BY <2>2, <2>6, <4>1, Zenon
      <4>3. UNCHANGED <<sources, path, makefile, above, wasm, output, halfway>>
        BY <3>6 DEF Compiled
      <4> QED BY <4>2, <4>3
    <3>2. CASE RemoveTmp(b) \/ ReadWasm(b)
      <4>1. tmp' \in {NoBinary, tmp}
        BY <3>2 DEF RemoveTmp, ReadWasm
      <4>2. UNCHANGED <<sources, path, makefile, above, wasm, output, halfway>>
        BY <3>2 DEF RemoveTmp, ReadWasm
      <4>3. tmp' \in Files
        BY <2>6, <4>1, Zenon
      <4> QED BY <4>2, <4>3
    <3>3. CASE Make(b)
      BY <3>3 DEF Make
    <3>7. CASE Made(b)
      <4>1. \/ wasm' = wasm
            \/ \E x \in Files : wasm' = [wasm EXCEPT ![inHand[b].of] = x]
        BY <2>2, <3>7, BinaryFacts DEF Made
      <4>2. UNCHANGED <<sources, path, makefile, above, tmp, output, halfway>>
        BY <3>7 DEF Made
      <4> QED BY <4>1, <4>2
    <3>4. CASE TruncateOutput(b) \/ WriteOutput(b) \/ PrepareWorkflowArtifact(b)
      <4>1. output' \in {Cut, inHand[b], output}
        BY <3>4 DEF TruncateOutput, WriteOutput, PrepareWorkflowArtifact
      <4>2. UNCHANGED <<sources, path, makefile, above, tmp, wasm, halfway>>
        BY <3>4 DEF TruncateOutput, WriteOutput, PrepareWorkflowArtifact
      <4>3. output' \in Files
        BY <2>2, <2>6, <4>1, Zenon
      <4> QED BY <4>2, <4>3
    <3>5. CASE SetWorkflowPath(b) \/ WriteMakefile(b) \/ StopBuild(b)
      BY <3>5 DEF SetWorkflowPath, WriteMakefile, StopBuild
    <3> QED BY <1>4, <3>1, <3>2, <3>3, <3>4, <3>5, <3>6, <3>7 DEF Works
  <2>4. StepTypes'
    <3> USE DEF StepTypes, BuildSteps
    <3>1. CASE Compiled(b) \/ TruncateOutput(b) \/ WriteOutput(b)
      BY <3>1 DEF Compiled, TruncateOutput, WriteOutput
    <3>2. CASE SetWorkflowPath(b) \/ WriteMakefile(b) \/ StopBuild(b)
      BY <3>2 DEF SetWorkflowPath, WriteMakefile, StopBuild
    <3>3. CASE Compile(b)
      <4>1. Strips(job[b]) \in BOOLEAN
        BY DEF Strips
      <4>2. [src |-> sources, stripped |-> Strips(job[b]), of |-> "workflow"] \in Files
        BY <4>1, BinaryFacts DEF OtherTypes
      <4> QED BY <3>3, <4>2 DEF Compile
    <3>4. CASE ReadTmp(b)
      BY <3>4 DEF ReadTmp, FileTypes
    <3>5. CASE RemoveTmp(b)
      BY <3>5 DEF RemoveTmp, GoesOn
    <3>6. CASE FindMakefileRoot(b)
      <4>1. PICK of \in {"workflow", "above"} :
               inHand' = [inHand EXCEPT ![b] = [src |-> sources, stripped |-> FALSE, of |-> of]]
        BY <3>6 DEF FindMakefileRoot
      <4>2. [src |-> sources, stripped |-> FALSE, of |-> of] \in Binary
        BY BinaryFacts DEF OtherTypes
      <4>3. [src |-> sources, stripped |-> FALSE, of |-> of] \in Files
        BY <4>2 DEF Files
      <4> QED BY <3>6, <4>1, <4>2, <4>3 DEF FindMakefileRoot
    <3>7. CASE Make(b)
      <4>1. PICK x \in BOOLEAN :
               inHand' = [inHand EXCEPT ![b] = [inHand[b] EXCEPT !.src = sources, !.stripped = x]]
        BY <3>7 DEF Make
      <4>2. [inHand[b] EXCEPT !.src = sources, !.stripped = x] \in Binary
        BY <2>5, <3>7, BinaryFacts DEF OtherTypes, Make
      <4>3. [inHand[b] EXCEPT !.src = sources, !.stripped = x] \in Files
        BY <4>2 DEF Files
      <4> QED BY <3>7, <4>1, <4>2, <4>3 DEF Make
    <3>8. CASE Made(b)
      BY <3>8 DEF Made
    <3>9. CASE ReadWasm(b)
      <4>1. wasm[inHand[b].of] \in Files
        BY <2>5, <3>9 DEF ReadWasm, FileTypes
      <4> QED BY <3>9, <4>1 DEF ReadWasm
    <3>10. CASE PrepareWorkflowArtifact(b)
      BY <3>10 DEF PrepareWorkflowArtifact, FileTypes
    <3> QED BY <1>4, <3>1, <3>2, <3>3, <3>4, <3>5, <3>6, <3>7, <3>8, <3>9, <3>10 DEF Works
  <2> QED BY <2>1, <2>3, <2>4, SplitTypesPrimed
<1> QED BY <1>1, <1>2, <1>3, <1>4 DEF BuildNext, Works

LEMMA AloneStep == FolderTypes /\ AloneInFolder /\ [BuildNext]_buildVars => AloneInFolder'
<1> SUFFICES ASSUME FolderTypes, AloneInFolder, [BuildNext]_buildVars,
                    NEW c \in Builders, c \in Busy', ~crowded'[c]
             PROVE  Busy' = {c}
  BY DEF AloneInFolder
<1>0. StepTypes /\ FileTypes /\ OtherTypes
  BY SplitTypes
<1>1. CASE Edit \/ UNCHANGED buildVars
  <2>1. step' = step /\ crowded' = crowded
    BY <1>1 DEF Edit, buildVars
  <2> QED BY <2>1 DEF AloneInFolder, Busy
<1>2. ASSUME NEW b \in Builders, ReadPath(b) PROVE Busy' = {c}
  <2>1. Busy' \subseteq Busy \cup {b}
    BY <1>0, <1>2 DEF Busy, ReadPath, StepTypes
  <2>2. c \notin Busy /\ c = b /\ Busy = {}
    BY <1>0, <1>2, <2>1 DEF ReadPath, OtherTypes
  <2> QED BY <2>1, <2>2
<1>3. ASSUME NEW b \in Builders, Works(b) PROVE Busy' = {c}
  <2>1. Busy' \subseteq Busy /\ crowded' = crowded
    BY <1>0, <1>3, OtherBuilders DEF Busy
  <2>2. Busy = {c}
    BY <2>1 DEF AloneInFolder
  <2> QED BY <2>1, <2>2
<1> QED BY <1>1, <1>2, <1>3 DEF BuildNext, Works

LEMMA MakefileStep ==
    FolderTypes /\ MakefileFollows /\ [BuildNext]_buildVars => MakefileFollows'
<1> SUFFICES ASSUME FolderTypes, MakefileFollows, [BuildNext]_buildVars PROVE MakefileFollows'
  OBVIOUS
<1>0. StepTypes /\ FileTypes /\ OtherTypes
  BY SplitTypes
<1>1. CASE Edit \/ UNCHANGED buildVars
  <2>1. UNCHANGED <<step, path, makefile, halfway>>
    BY <1>1 DEF Edit, buildVars, folderVars
  <2> QED BY <2>1 DEF MakefileFollows
<1>2. ASSUME NEW b \in Builders, ReadPath(b) PROVE MakefileFollows'
  <2>1. UNCHANGED <<path, makefile, halfway>>
    BY <1>2 DEF ReadPath, SameFolder, folderVars
  <2>2. \A c \in Builders : step[c] = "makefile" => step'[c] = "makefile"
    BY <1>0, <1>2 DEF ReadPath, Is, StepTypes
  <2>3. \A c \in Builders : step'[c] = "find" => step[c] = "find" \/ path = "wasm"
    BY <1>0, <1>2 DEF ReadPath, StepTypes
  <2> QED BY <2>1, <2>2, <2>3 DEF MakefileFollows
<1>3. ASSUME NEW b \in Builders, Works(b) PROVE MakefileFollows'
  <2>1. /\ makefile => makefile'
        /\ halfway => halfway'
        /\ \A c \in Builders \ {b} : step'[c] = step[c]
    BY <1>0, <1>3, OtherBuilders
  <2>2. step'[b] # "find"
    BY <1>0, <1>3 DEF Works, Compile, Compiled, ReadTmp, FindMakefileRoot, RemoveTmp, GoesOn,
       ReadWasm, Make, Made, TruncateOutput, WriteOutput, PrepareWorkflowArtifact,
       SetWorkflowPath, WriteMakefile, StopBuild, Moves, StepTypes
  <2>6. ASSUME path' = "wasm" => path = "wasm", step[b] # "makefile" PROVE MakefileFollows'
    <3>1. SUFFICES ASSUME path' = "wasm" \/ \E c \in Builders : step'[c] = "find",
                          ~makefile', ~halfway'
                   PROVE  \E c \in Builders : step'[c] = "makefile"
      BY DEF MakefileFollows
    <3>2. path = "wasm" \/ \E c \in Builders : step[c] = "find"
      BY <2>1, <2>2, <2>6, <3>1
    <3>3. ~makefile /\ ~halfway
      <4>1. (makefile => makefile') /\ (halfway => halfway')
        BY <2>1
      <4> QED BY <3>1, <4>1, Zenon
    <3>4. PICK c \in Builders : step[c] = "makefile"
      BY <3>2, <3>3 DEF MakefileFollows
    <3> QED BY <2>1, <2>6, <3>4
  <2>3. CASE SetWorkflowPath(b)
    <3>1. \/ path' = "wasm" /\ step'[b] = "makefile"
          \/ (path' = "wasm" => path = "wasm") /\ step[b] = "convert"
      BY <1>0, <2>3 DEF SetWorkflowPath, Moves, Is, StepTypes
    <3> QED BY <2>6, <3>1 DEF MakefileFollows
  <2>4. CASE step[b] = "makefile"
    <3>1. WriteMakefile(b) \/ StopBuild(b)
      BY <1>3, <2>4 DEF Works, Compile, Compiled, ReadTmp, FindMakefileRoot, RemoveTmp,
         ReadWasm, Make, Made, TruncateOutput, WriteOutput, PrepareWorkflowArtifact,
         SetWorkflowPath, Is
    <3>2. makefile' \/ halfway'
      BY <2>4, <3>1 DEF WriteMakefile, StopBuild, Is
    <3> QED BY <3>2 DEF MakefileFollows
  <2>5. CASE ~SetWorkflowPath(b) /\ step[b] # "makefile"
    <3>1. path' = path
      BY <1>3, <2>5 DEF Works, Compile, Compiled, ReadTmp, FindMakefileRoot, RemoveTmp,
         ReadWasm, Make, Made, TruncateOutput, WriteOutput, PrepareWorkflowArtifact,
         WriteMakefile, StopBuild, SameFolder, folderVars
    <3> QED BY <2>5, <2>6, <3>1
  <2> QED BY <2>3, <2>4, <2>5
<1> QED BY <1>1, <1>2, <1>3 DEF BuildNext, Works

\* What a command has done with its binary stays so, whoever steps.
LEMMA OwnStays ==
    ASSUME FolderTypes, NEW b \in Builders, Works(b)
    PROVE  \A c \in Builders, x \in Files : Own(c, x) => Own(c, x)'
<1>1. UNCHANGED <<job, began>> /\ (halfway => halfway')
  BY OtherBuilders, SplitTypes
<1> QED BY <1>1 DEF Own

\* b brings its binary from the sources to its end, alone in the folder.
LEMMA HoldsOwnStep ==
    ASSUME BuildInv, NEW b \in Builders, Works(b), ~crowded[b]
    PROVE  HoldsOwn(b)' /\ (product'[b] # NoBinary => Own(b, product[b])' /\ step'[b] = "done")
<1>0. /\ StepTypes /\ FileTypes /\ OtherTypes
      /\ HoldsOwn(b) /\ began[b] <= sources /\ product[b] \in Files /\ inHand[b] \in Files
      /\ UNCHANGED <<job, began, crowded, sources, above>>
      /\ step[b] \notin {"begin", "done", "error"}
      /\ product[b] = NoBinary
  <2>1. StepTypes /\ FileTypes /\ OtherTypes
    BY SplitTypes DEF BuildInv
  <2>2. step[b] \notin {"begin", "done", "error"} /\ UNCHANGED <<job, began, crowded, sources, above>>
    BY <2>1, OtherBuilders
  <2> QED BY <2>1, <2>2 DEF BuildInv, StepTypes
<1>1. \A x \in Files : Own(b, x) => Own(b, x)'
  BY OwnStays DEF BuildInv
<1> USE <1>0 DEF Is, Moves, Takes, Keeps, SameFolder, folderVars, HoldsOwn, StepTypes
<1>2. CASE Compile(b)
  <2>1. /\ step'[b] = "compiling" /\ product' = product
        /\ inHand'[b] = [src |-> sources, stripped |-> Strips(job[b]), of |-> "workflow"]
    BY <1>2 DEF Compile
  <2>2. Own(b, inHand[b])'
    <3>0. PICK x : /\ x = [src |-> sources, stripped |-> Strips(job[b]), of |-> "workflow"]
                   /\ x.of = "workflow" /\ x.src = sources /\ x.stripped = Strips(job[b])
      <4> HIDE DEF StepTypes, HoldsOwn
      <4> WITNESS [src |-> sources, stripped |-> Strips(job[b]), of |-> "workflow"]
      <4> QED OBVIOUS
    <3>1. inHand'[b].of = "workflow" /\ inHand'[b].src = sources
      BY <2>1, <3>0, Zenon
    <3>3. inHand'[b].stripped = Strips(job[b])
      BY <2>1, <3>0, Zenon
    <3>4. job[b] # "simulate" => inHand'[b].stripped
      BY <3>3, Zenon DEF Strips
    <3>2. sources >= began[b] /\ began'[b] = began[b] /\ job' = job
      BY EditsAssumption DEF OtherTypes
    <3> HIDE DEF StepTypes
    <3> QED BY <3>1, <3>2, <3>4 DEF Own
  <2> QED BY <2>1, <2>2
<1>3. CASE Compiled(b)
  <2>1. /\ step[b] \in {"compiling", "emit"} /\ inHand' = inHand /\ product' = product
        /\ step'[b] \in {"emit", "read", "error"}
    BY <1>3 DEF Compiled
  <2>2. Own(b, inHand[b])'
    BY <1>1, <2>1
  <2>3. (step'[b] = "emit" => tmp' = Cut) /\ (step'[b] = "read" => tmp' = inHand[b])
    BY <1>3, BinaryFacts DEF Compiled, Written
  <2> HIDE DEF StepTypes
  <2> QED BY <2>1, <2>2, <2>3
<1>4. CASE ReadTmp(b)
  BY <1>1, <1>4 DEF ReadTmp
<1>5. CASE RemoveTmp(b)
  BY <1>1, <1>5 DEF RemoveTmp, GoesOn
<1>6. CASE FindMakefileRoot(b)
  <2>1. step[b] = "find" /\ step'[b] \in {"make", "error"} /\ product' = product
    BY <1>6 DEF FindMakefileRoot
  <2>2. inHand'[b].of = (IF makefile THEN "workflow" ELSE "above") /\ halfway' = halfway
    BY <1>6 DEF FindMakefileRoot
  <2>3. makefile \/ halfway
    <3>1. SUFFICES ASSUME NEW c \in Builders, step[c] = "makefile" PROVE FALSE
      BY <2>1 DEF BuildInv, MakefileFollows
    <3>2. b \in Busy /\ c \in Busy /\ c # b
      BY <2>1, <3>1 DEF Busy
    <3> QED BY <3>2 DEF BuildInv, AloneInFolder
  <2> QED BY <2>1, <2>2, <2>3
<1>7. CASE Make(b)
  <2>1. step[b] = "make" /\ step'[b] = "making" /\ product' = product /\ halfway' = halfway
    BY <1>7 DEF Make
  <2>2. inHand[b] \in Binary /\ (inHand[b].of = "workflow" \/ (halfway /\ inHand[b].of = "above"))
    BY <2>1
  <2>3. PICK x \in BOOLEAN :
           /\ inHand'[b] = [inHand[b] EXCEPT !.src = sources, !.stripped = x]
           /\ inHand[b].of = "workflow" => x = TRUE
    BY <1>7 DEF Make
  <2>4. /\ inHand'[b].of = inHand[b].of /\ inHand'[b].src = sources /\ inHand'[b].stripped = x
    BY <2>2, <2>3 DEF Binary
  <2>5. sources >= began'[b]
    BY EditsAssumption DEF OtherTypes
  <2>6. Own(b, inHand[b])'
    BY <2>1, <2>2, <2>3, <2>4, <2>5 DEF Own
  <2> QED BY <2>1, <2>6
<1>8. CASE Made(b)
  <2>1. /\ inHand' = inHand /\ product' = product /\ step[b] \in {"making", "emit wasm"}
        /\ step'[b] \in {"emit wasm", "read wasm", "error"}
    BY <1>8 DEF Made
  <2>2. inHand[b].of \in {"workflow", "above"} /\ Own(b, inHand[b])'
    BY <1>1, <2>1, BinaryFacts
  <2>3. step'[b] = "read wasm" => wasm'[inHand[b].of] = inHand[b]
    BY <1>8, <2>1, <2>2 DEF Made, FileTypes
  <2> QED BY <2>1, <2>2, <2>3
<1>9. CASE ReadWasm(b)
  BY <1>1, <1>9 DEF ReadWasm
<1>10. CASE TruncateOutput(b) \/ WriteOutput(b)
  BY <1>1, <1>10 DEF TruncateOutput, WriteOutput
<1>11. CASE PrepareWorkflowArtifact(b)
  <2>1. step[b] = "load" /\ Own(b, output)'
    BY <1>1, <1>11 DEF PrepareWorkflowArtifact, FileTypes
  <2>2. step'[b] \in {"done", "error"} /\ output' = output
    BY <1>11 DEF PrepareWorkflowArtifact
  <2>3. (product'[b] = output /\ step'[b] = "done") \/ product' = product
    BY <1>11 DEF PrepareWorkflowArtifact
  <2> QED BY <2>1, <2>2, <2>3
<1>12. CASE SetWorkflowPath(b) \/ WriteMakefile(b) \/ StopBuild(b)
  BY <1>12 DEF SetWorkflowPath, WriteMakefile, StopBuild
<1> QED BY <1>2, <1>3, <1>4, <1>5, <1>6, <1>7, <1>8, <1>9, <1>10, <1>11, <1>12 DEF Works


\* Only the step that ends a command takes a binary.
LEMMA StepsKeepProduct ==
    ASSUME StepTypes, NEW b \in Builders, Works(b), step'[b] # "done"
    PROVE  product'[b] = product[b]
<1> USE DEF Is, Moves, Takes, Keeps, StepTypes
<1>1. CASE Compile(b) \/ Compiled(b) \/ ReadTmp(b) \/ FindMakefileRoot(b) \/ Make(b) \/ Made(b)
  BY <1>1 DEF Compile, Compiled, ReadTmp, FindMakefileRoot, Make, Made
<1>2. CASE RemoveTmp(b)
  BY <1>2 DEF RemoveTmp, GoesOn
<1>3. CASE ReadWasm(b)
  BY <1>3 DEF ReadWasm
<1>4. CASE TruncateOutput(b) \/ WriteOutput(b) \/ PrepareWorkflowArtifact(b)
  BY <1>4 DEF TruncateOutput, WriteOutput, PrepareWorkflowArtifact
<1>5. CASE SetWorkflowPath(b) \/ WriteMakefile(b) \/ StopBuild(b)
  BY <1>5 DEF SetWorkflowPath, WriteMakefile, StopBuild
<1> QED BY <1>1, <1>2, <1>3, <1>4, <1>5 DEF Works

LEMMA BuildStep == BuildInv /\ [BuildNext]_buildVars => BuildInv'
<1> SUFFICES ASSUME BuildInv, [BuildNext]_buildVars PROVE BuildInv'
  OBVIOUS
<1>0. StepTypes /\ FileTypes /\ OtherTypes
  BY SplitTypes DEF BuildInv
<1>1. FolderTypes' /\ AloneInFolder' /\ MakefileFollows'
  BY FolderTypesStep, AloneStep, MakefileStep DEF BuildInv
<1>2. CASE Edit \/ UNCHANGED buildVars
  <2>1. /\ UNCHANGED <<path, makefile, above, tmp, wasm, output, halfway, job, step, inHand,
                       product, began, crowded>>
        /\ sources' \in Int /\ sources' >= sources
    BY <1>0, <1>2, EditsAssumption DEF Edit, Keeps, buildVars, folderVars, OtherTypes
  <2>2. \A b \in Builders : began'[b] <= sources'
    BY <1>0, <2>1, EditsAssumption DEF BuildInv, OtherTypes
  <2>5. \A b \in Builders : \A x : Own(b, x)' <=> Own(b, x)
    BY <2>1 DEF Own
  <2>3. ASSUME NEW b \in Builders, HoldsOwn(b) PROVE HoldsOwn(b)'
    BY <2>1, <2>3, <2>5 DEF HoldsOwn
  <2>4. \A b \in Builders : (Own(b, product[b]) => Own(b, product[b])')
    BY <2>1 DEF Own
  <2> QED BY <1>1, <2>1, <2>2, <2>3, <2>4 DEF BuildInv
<1>3. ASSUME NEW b \in Builders, ReadPath(b) PROVE BuildInv'
  <2>1. /\ UNCHANGED <<sources, path, makefile, above, tmp, wasm, output, halfway, job, inHand, product>>
        /\ began' = [began EXCEPT ![b] = sources]
        /\ crowded' = [c \in Builders |-> crowded[c] \/ (c = b /\ Busy # {}) \/ c \in Busy]
        /\ step[b] = "begin" /\ step'[b] \in {"error", "convert", "find", "compile"}
        /\ \A c \in Builders \ {b} : step'[c] = step[c]
    BY <1>0, <1>3 DEF ReadPath, Keeps, SameFolder, folderVars, Is, StepTypes
  <2>2. \A c \in Builders : began'[c] <= sources'
    BY <1>0, <2>1, EditsAssumption DEF BuildInv, OtherTypes
  <2>3. \A c \in Builders : step'[c] # "done" => product'[c] = NoBinary
    BY <2>1 DEF BuildInv
  <2>4. \A c \in Builders \ {b} : ~crowded'[c] => c \notin Busy /\ ~crowded[c]
    BY <2>1
  <2>5. HoldsOwn(b)'
    BY <2>1 DEF HoldsOwn
  <2>6. ASSUME NEW c \in Builders \ {b}, ~crowded'[c] PROVE HoldsOwn(c)'
    <3>1. step'[c] \in {"begin", "done", "error"}
      BY <2>1, <2>4, <2>6 DEF Busy
    <3> QED BY <3>1 DEF HoldsOwn
  <2>7. ASSUME NEW c \in Builders, ~crowded'[c], product'[c] # NoBinary PROVE Own(c, product[c])'
    <3>1. c # b
      BY <2>1, <2>3, <2>7
    <3>2. ~crowded[c] /\ product[c] # NoBinary
      BY <2>1, <2>4, <2>7, <3>1
    <3>3. Own(c, product[c]) /\ began'[c] = began[c]
      BY <1>0, <2>1, <3>1, <3>2 DEF BuildInv, OtherTypes
    <3> QED BY <2>1, <3>3 DEF Own
  <2> QED BY <1>1, <2>2, <2>3, <2>5, <2>6, <2>7 DEF BuildInv
<1>4. ASSUME NEW b \in Builders, Works(b) PROVE BuildInv'
  <2>1. /\ \A c \in Builders \ {b} : /\ step'[c] = step[c] /\ inHand'[c] = inHand[c]
                                     /\ product'[c] = product[c]
        /\ UNCHANGED <<job, began, crowded, sources, above>>
        /\ b \in Busy
    BY <1>0, <1>4, OtherBuilders DEF Busy
  <2>2. \A c \in Builders, x \in Files : Own(c, x) => Own(c, x)'
    BY <1>4, OwnStays DEF BuildInv
  <2>3. \A c \in Builders : began'[c] <= sources'
    BY <2>1 DEF BuildInv
  <2>4. ASSUME NEW c \in Builders, ~crowded'[c] PROVE HoldsOwn(c)'
    <3>1. CASE c = b
      BY <1>4, <2>1, <2>4, <3>1, HoldsOwnStep
    <3>2. CASE c # b
      <4>1. c \notin Busy
        BY <2>1, <2>4, <3>2 DEF BuildInv, AloneInFolder
      <4>2. step'[c] \in {"begin", "done", "error"}
        BY <2>1, <3>2, <4>1 DEF Busy
      <4> QED BY <4>2 DEF HoldsOwn
    <3> QED BY <3>1, <3>2
  <2>5. ASSUME NEW c \in Builders, ~crowded'[c], product'[c] # NoBinary PROVE Own(c, product[c])'
    <3>1. CASE c = b
      BY <1>4, <2>1, <2>5, <3>1, HoldsOwnStep
    <3>2. CASE c # b
      <4>1. Own(c, product[c]) /\ product[c] \in Files
        BY <1>0, <2>1, <2>5, <3>2 DEF BuildInv, StepTypes
      <4> QED BY <2>1, <2>2, <3>2, <4>1
    <3> QED BY <3>1, <3>2
  <2>6. ASSUME NEW c \in Builders, step'[c] # "done" PROVE product'[c] = NoBinary
    <3>1. CASE c # b
      BY <2>1, <2>6, <3>1 DEF BuildInv
    <3>2. CASE c = b
      BY <1>0, <1>4, <2>1, <2>6, <3>2, StepsKeepProduct DEF BuildInv, Busy
    <3> QED BY <3>1, <3>2
  <2> QED BY <1>1, <2>3, <2>4, <2>5, <2>6 DEF BuildInv
<1> QED BY <1>2, <1>3, <1>4 DEF BuildNext, Works

LEMMA BuildBegins == BuildInit => BuildInv
<1> SUFFICES ASSUME BuildInit PROVE BuildInv
  OBVIOUS
<1> USE DEF BuildInit
<1>1. StepTypes
  BY BinaryFacts DEF StepTypes, BuildSteps
<1>2. FileTypes
  <2>1. wasm \in [{"workflow", "above"} -> Files]
    BY BinaryFacts
  <2>2. makefile \in BOOLEAN /\ above \in BOOLEAN /\ halfway \in BOOLEAN
    BY Zenon
  <2> QED BY <2>1, <2>2, BinaryFacts DEF FileTypes
<1>5. OtherTypes
  BY EditsAssumption DEF OtherTypes
<1>3. AloneInFolder /\ MakefileFollows
  BY DEF AloneInFolder, MakefileFollows, Busy
<1>4. \A b \in Builders : began[b] <= sources /\ HoldsOwn(b) /\ product[b] = NoBinary
  BY DEF HoldsOwn
<1> QED BY <1>1, <1>2, <1>3, <1>4, <1>5, SplitTypes DEF BuildInv

LEMMA BuildInvariant == BuildSpec => []BuildInv
BY BuildBegins, BuildStep, PTL DEF BuildSpec

\* Whoever compiles alone in a folder goes on with its own whole binary: the compilers,
\* the Makefiles and the deploys' output file may hold what stopped or crowded commands
\* left, but each of them is overwritten between the moment a command reads the sources
\* and the moment it reads its binary (cmd/common/compile.go, cmd/workflow/deploy).
THEOREM BuildsOwnHolds == BuildSpec => []BuildsOwn
<1>1. BuildInv => BuildsOwn
  BY DEF BuildInv, BuildsOwn, Own
<1> QED BY <1>1, BuildInvariant, PTL


-----------------------------------------------------------------------------
(* What a simulation does before its session (SimulateSetup).              *)

Named(s) == s \in target.rpcs \/ \E i \in 1..Len(target.experimental) :
                                    target.experimental[i].selector = s

\* Writes to s go to a forwarder that the settings name for it.
ForwarderNamed(s) ==
    \/ forwarders[s] = "built-in" /\ s \in target.rpcs
    \/ \E i \in 1..Len(target.experimental) :
         target.experimental[i].selector = s /\ target.experimental[i].forwarder = forwarders[s]

LimitTypes == [binary : Nat, packed : Nat, in : Nat, out : Nat]

SetupTypes ==
    /\ told \in SimFlags /\ target \in SimSettings
    /\ limits \in LimitTypes
    /\ told.limits = "none" => limits = NoLimits
    /\ phase \in {"clients", "keys", "inputs", "binary", "limits", "sizes", "files",
                  "capabilities", "trigger", "fire", "error"}

\* The chains come from the settings, each with its forwarder.
ChainsNamed ==
    /\ clients \subseteq Selectors /\ chains \subseteq clients
    /\ phase \notin {"trigger", "fire", "error"} => chains = {}
    /\ \A s \in clients : Named(s) /\ ForwarderNamed(s)
    /\ phase = "clients" => clients = {}

\* Who broadcasts pays for every one of its chains.
Paid == phase \notin {"clients", "keys", "error"} /\ told.broadcast =>
            \A s \in clients : keys[Family(s)] = "real"

\* The binary was let through, and the capabilities were made for the same limits.
Fits ==
    phase \in {"files", "capabilities", "trigger", "fire"} /\ Enforced =>
        ~Over(sizes.raw, limits.binary) /\ ~Over(sizes.packed, limits.packed)

Made4Limits ==
    phase \in {"trigger", "fire"} =>
        /\ wrapped <=> Enforced
        /\ ~Enforced => \A g \in Groups \ {"triggerRates"} : engine[g] = "open"

\* The trigger that fires is one that was to be chosen from.
Chosen ==
    phase = "fire" =>
        /\ trigger.kind = "chain" => trigger.selector \in chains
        /\ told.quiet => ~asked
        /\ listening => told.listen

\* The last call kept to the limits, if there are any, and else was answered.
CallKept ==
    /\ phase # "fire" => call = NoCall
    /\ Enforced => /\ call.sent => ~Over(call.in, limits.in)
                   /\ call.ok /\ call.of # "consensus" => ~Over(call.out, limits.out)
    /\ ~Enforced => call.ok

SetupInv ==
    /\ SetupTypes /\ ChainsNamed /\ Paid /\ Fits /\ Made4Limits /\ Chosen /\ CallKept

LEMMA NothingOver == \A l \in Nat : ~Over(0, l)
BY DEF Over

LEMMA LimitTypesFacts == NoLimits \in LimitTypes /\ DefaultLimits \in LimitTypes /\ LimitFiles \subseteq LimitTypes
BY SetupAssumption DEF NoLimits, DefaultLimits, LimitTypes

LEMMA EntryFacts ==
    ASSUME target \in SimSettings
    PROVE  /\ target.rpcs \subseteq Selectors /\ Len(target.experimental) \in Nat
           /\ \A i \in 1..Len(target.experimental) : target.experimental[i] \in Entry
BY SetupAssumption

\* ForwarderOf is the forwarder of the last entry for the chain, if there is one.
LEMMA ForwarderOfNamed ==
    ASSUME target \in SimSettings, NEW s, s \in target.rpcs \/ Entries(s) # {},
           forwarders'[s] = ForwarderOf(s)
    PROVE  \/ forwarders'[s] = "built-in" /\ s \in target.rpcs
           \/ \E i \in 1..Len(target.experimental) :
                target.experimental[i].selector = s /\ target.experimental[i].forwarder = forwarders'[s]
<1>1. CASE Entries(s) = {}
  BY <1>1 DEF ForwarderOf
<1>2. CASE Entries(s) # {}
  <2> DEFINE Last(i) == \A j \in Entries(s) : j <= i
  <2>1. \E i \in Entries(s) : Last(i)
    BY <1>2, EntryFacts, GreatestIndex DEF Entries, Experimental
  <2>2. PICK i \in Entries(s) : i = (CHOOSE k \in Entries(s) : Last(k))
    <3> HIDE DEF Last
    <3> QED BY <2>1
  <2>3. forwarders'[s] = target.experimental[i].forwarder
    BY <1>2, <2>2 DEF ForwarderOf
  <2> QED BY <2>3 DEF Entries, Experimental
<1> QED BY <1>1, <1>2


LEMMA ClientsStep ==
    ASSUME SetupInv, ResolveClients
    PROVE  ChainsNamed'
<1>0. target \in SimSettings /\ target' = target /\ chains' = chains /\ phase = "clients"
  BY DEF ResolveClients, Given, SetupInv, SetupTypes
<1>1. PICK down \in SUBSET target.rpcs :
         /\ clients' = EVMClients(down) \cup SolanaClients
         /\ forwarders' = [s \in Selectors |-> IF s \in clients' THEN ForwarderOf(s) ELSE ""]
  BY DEF ResolveClients
<1>2. \A s \in clients' : s \in Selectors /\ (s \in target.rpcs \/ Entries(s) # {})
  <2> SUFFICES ASSUME NEW s \in clients', s \notin target.rpcs
               PROVE  s \in Selectors /\ Entries(s) # {}
    BY <1>0, EntryFacts
  <2>1. PICK i \in Experimental : s = target.experimental[i].selector
    BY <1>1 DEF EVMClients, SolanaClients
  <2>2. s \in Selectors
    <3>1. target.experimental[i] \in Entry /\ s # ""
      BY <1>0, <2>1, EntryFacts DEF ResolveClients, Complete, Experimental
    <3> QED BY <2>1, <3>1 DEF Entry
  <2> QED BY <2>1, <2>2 DEF Entries
<1>3. ASSUME NEW s \in clients' PROVE Named(s)' /\ ForwarderNamed(s)'
  <2>1. forwarders'[s] = ForwarderOf(s)
    BY <1>1, <1>2
  <2>2. \/ forwarders'[s] = "built-in" /\ s \in target.rpcs
        \/ \E i \in 1..Len(target.experimental) :
             target.experimental[i].selector = s /\ target.experimental[i].forwarder = forwarders'[s]
    BY <1>0, <1>2, <2>1, ForwarderOfNamed
  <2> QED BY <1>0, <2>2 DEF Named, ForwarderNamed
<1>4. chains' = {}
  BY <1>0 DEF SetupInv, ChainsNamed
<1> QED BY <1>2, <1>3, <1>4 DEF ChainsNamed, ResolveClients


LEMMA SetupBegins == SetupInit => SetupInv
<1> SUFFICES ASSUME SetupInit PROVE SetupInv
  OBVIOUS
<1> USE DEF SetupInit
<1>1. SetupTypes
  BY LimitTypesFacts DEF SetupTypes
<1>2. ChainsNamed /\ Paid /\ Fits /\ Made4Limits /\ Chosen
  BY DEF ChainsNamed, Paid, Fits, Made4Limits, Chosen
<1>3. CallKept
  BY NothingOver, LimitTypesFacts DEF CallKept, NoCall, LimitTypes, NoLimits
<1> QED BY <1>1, <1>2, <1>3 DEF SetupInv

\* The steps that only go on, or fail.
LEMMA SetupStays ==
    ASSUME SetupInv,
           UNCHANGED <<told, target, clients, forwarders, keys, sizes, limits, engine, chains,
                       wrapped, trigger, listening, asked, call>>,
           \/ phase' = "error" /\ phase # "fire"
           \/ <<phase, phase'>> \in {<<"inputs", "binary">>, <<"files", "capabilities">>}
           \/ phase' = phase
    PROVE  SetupInv'
<1> USE DEF SetupInv
<1>0. \/ phase' = "error" /\ phase # "fire"
      \/ phase = "inputs" /\ phase' = "binary"
      \/ phase = "files" /\ phase' = "capabilities"
      \/ phase' = phase
  OBVIOUS
<1>1. SetupTypes'
  BY <1>0 DEF SetupTypes
<1>2. ChainsNamed'
  BY <1>0 DEF ChainsNamed, Named, ForwarderNamed
<1>3. Paid'
  BY <1>0 DEF Paid
<1>4. Fits' /\ Made4Limits' /\ Chosen'
  BY <1>0 DEF Fits, Made4Limits, Chosen, Enforced
<1>5. CallKept'
  BY <1>0 DEF CallKept, Enforced
<1> QED BY <1>1, <1>2, <1>3, <1>4, <1>5

LEMMA KeysStep == ASSUME SetupInv, ResolveKeys PROVE SetupInv'
<1> USE DEF ResolveKeys, Given, SetupInv
<1>1. SetupTypes' /\ ChainsNamed'
  BY DEF SetupTypes, ChainsNamed, Named, ForwarderNamed
<1>2. Paid'
  <2>1. PICK raw \in [Families -> {"none", "malformed", "sentinel", "real"}] :
           /\ \A f \in Families : ResolveKey(f, raw[f]) # "error"
           /\ keys' = [f \in {"evm", "solana"} |-> IF f \in Families THEN ResolveKey(f, raw[f]) ELSE "none"]
    OBVIOUS
  <2>2. ASSUME told.broadcast, NEW s \in clients PROVE keys'[Family(s)] = "real"
    <3>1. Family(s) \in Families /\ Family(s) \in {"evm", "solana"}
      BY DEF Families, Family
    <3>2. keys'[Family(s)] = ResolveKey(Family(s), raw[Family(s)])
      BY <2>1, <3>1
    <3>3. ResolveKey(Family(s), raw[Family(s)]) # "error"
      BY <2>1, <3>1
    <3> QED BY <2>2, <3>2, <3>3 DEF ResolveKey, ResolveSolanaKey, ResolveEVMKey
  <2> QED BY <2>2 DEF Paid
<1>3. Fits' /\ Made4Limits' /\ Chosen'
  BY DEF Fits, Made4Limits, Chosen
<1>4. CallKept'
  BY DEF CallKept, Enforced
<1> QED BY <1>1, <1>2, <1>3, <1>4

LEMMA LimitsStep == ASSUME SetupInv, ResolveLimits PROVE SetupInv'
<1> USE DEF ResolveLimits, Given, SetupInv
<1>1. SetupTypes'
  BY LimitTypesFacts DEF SetupTypes
<1>2. ChainsNamed' /\ Paid'
  BY DEF ChainsNamed, Paid, Named, ForwarderNamed
<1>3. Fits' /\ Made4Limits' /\ Chosen'
  BY DEF Fits, Made4Limits, Chosen
<1>4. call' = NoCall /\ limits' \in LimitTypes
  BY <1>1 DEF CallKept, SetupTypes
<1>5. CallKept'
  BY <1>4, NothingOver DEF CallKept, NoCall, LimitTypes
<1> QED BY <1>1, <1>2, <1>3, <1>5

LEMMA CapabilitiesStep == ASSUME SetupInv, Initialize PROVE SetupInv'
<1> USE DEF Initialize, Given, SetupInv
<1>1. SetupTypes' /\ Paid' /\ Fits' /\ Chosen'
  BY DEF SetupTypes, Paid, Fits, Enforced, Chosen
<1>2. ChainsNamed'
  BY DEF ChainsNamed, Named, ForwarderNamed, Forwarded
<1>3. Made4Limits'
  <2>1. (wrapped <=> Enforced)'
    BY Zenon DEF Enforced
  <2>2. (~Enforced)' => \A g \in Groups \ {"triggerRates"} : engine'[g] = "open"
    BY DEF EngineLimits, Enforced
  <2> QED BY <2>1, <2>2 DEF Made4Limits
<1>4. CallKept'
  BY DEF CallKept, Enforced
<1> QED BY <1>1, <1>2, <1>3, <1>4


LEMMA TriggerStep == ASSUME SetupInv, NEW quiet \in BOOLEAN, BeforeStart(quiet) PROVE SetupInv'
<1> USE DEF SetupInv
<1>0. /\ UNCHANGED <<told, target, clients, forwarders, keys, sizes, limits, engine, chains, wrapped, call>>
      /\ phase = "trigger" /\ phase' = "fire" /\ (told.quiet <=> quiet)
  BY DEF BeforeStart, Given
<1>1. SetupTypes' /\ ChainsNamed'
  BY <1>0 DEF SetupTypes, ChainsNamed, Named, ForwarderNamed
<1>2. Paid' /\ Fits'
  BY <1>0 DEF Paid, Fits, Enforced
<1>3. Made4Limits'
  BY <1>0 DEF Made4Limits, Enforced
<1>4. PICK ts \in TriggerLists : \E t \in ChooseTrigger(ts) :
         /\ Runnable(t) /\ trigger' = t
         /\ listening' = (told.listen /\ t.kind \in {"http", "chain"})
         /\ asked' = (~quiet /\ Len(ts) > 1)
  BY DEF BeforeStart
<1>5. trigger'.kind = "chain" => trigger'.selector \in chains'
  BY <1>0, <1>4 DEF Runnable
<1>6. (told.quiet => ~asked)'
  <2>1. asked' => ~quiet
    BY <1>4
  <2> QED BY <1>0, <2>1
<1>7. (listening => told.listen)'
  <2>1. listening' => told.listen
    BY <1>4
  <2> QED BY <1>0, <2>1
<1>8. CallKept'
  BY <1>0 DEF CallKept, Enforced
<1> QED BY <1>1, <1>2, <1>3, <1>5, <1>6, <1>7, <1>8 DEF Chosen

LEMMA CallStep == ASSUME SetupInv, CallCapability PROVE SetupInv'
<1> USE DEF SetupInv
<1>0. /\ UNCHANGED <<phase, told, target, clients, forwarders, keys, sizes, limits, engine, chains,
                     wrapped, trigger, listening, asked>>
      /\ phase = "fire"
  BY DEF CallCapability, Given
<1>1. SetupTypes' /\ ChainsNamed'
  BY <1>0 DEF SetupTypes, ChainsNamed, Named, ForwarderNamed
<1>2. Paid' /\ Fits' /\ Chosen'
  BY <1>0 DEF Paid, Fits, Enforced, Chosen
<1>3. Made4Limits'
  BY <1>0 DEF Made4Limits, Enforced
<1>4. CallKept'
  <2>1. PICK in \in 0..2, out \in 0..2 :
           call' \in {HTTPCall(in, out), ConsensusCall(in, out), WriteReport(in, out)}
    BY DEF CallCapability
  <2>2. wrapped <=> Enforced
    BY <1>0 DEF Made4Limits
  <2>3. ~Enforced => ~Over(in, limits.in) /\ ~Over(out, limits.out)
    BY DEF SetupTypes, Enforced, NoLimits, Over
  <2>4. (wrapped /\ Sends(in) => ~Over(in, limits.in)) /\ (~wrapped => Sends(in))
    BY DEF Sends
  <2>5. CASE call' = HTTPCall(in, out)
    BY <1>0, <2>2, <2>4, <2>5 DEF HTTPCall, CallKept, Enforced
  <2>6. CASE call' = ConsensusCall(in, out)
    BY <1>0, <2>2, <2>4, <2>6 DEF ConsensusCall, CallKept, Enforced
  <2>7. CASE call' = WriteReport(in, out)
    BY <1>0, <2>3, <2>7 DEF WriteReport, CallKept, Enforced
  <2> QED BY <2>1, <2>5, <2>6, <2>7
<1> QED BY <1>1, <1>2, <1>3, <1>4

LEMMA SetupStep == SetupInv /\ [SetupNext]_setupVars => SetupInv'
<1> SUFFICES ASSUME SetupInv, [SetupNext]_setupVars PROVE SetupInv'
  OBVIOUS
<1>1. CASE SetupFails \/ ValidateInputs \/ ReadFiles \/ UNCHANGED setupVars
  BY <1>1, SetupStays DEF SetupFails, ValidateInputs, ReadFiles, Given, setupVars
<1>2. CASE ResolveClients
  <2>1. ChainsNamed'
    BY <1>2, ClientsStep
  <2>2. SetupTypes' /\ Paid' /\ Fits' /\ Made4Limits' /\ Chosen'
    BY <1>2 DEF ResolveClients, Given, SetupInv, SetupTypes, Paid, Fits, Made4Limits, Chosen
  <2>3. CallKept'
    BY <1>2 DEF ResolveClients, Given, SetupInv, CallKept, Enforced
  <2> QED BY <2>1, <2>2, <2>3 DEF SetupInv
<1>3. CASE LoadBinary \/ CheckBinarySize
  <2>1. UNCHANGED <<told, target, clients, forwarders, keys, limits, engine, chains, wrapped,
                    trigger, listening, asked, call>>
    BY <1>3 DEF LoadBinary, CheckBinarySize, Given
  <2>2. \/ phase = "binary" /\ phase' = "limits"
        \/ phase = "sizes" /\ phase' \in {"error", "files"} /\ sizes' = sizes
    BY <1>3 DEF LoadBinary, CheckBinarySize
  <2>3. SetupTypes' /\ ChainsNamed'
    BY <2>1, <2>2 DEF SetupInv, SetupTypes, ChainsNamed, Named, ForwarderNamed
  <2>4. Paid' /\ Made4Limits' /\ Chosen'
    BY <2>1, <2>2 DEF SetupInv, Paid, Made4Limits, Chosen
  <2>5. Fits'
    BY <1>3, <2>1 DEF LoadBinary, CheckBinarySize, Fits, Enforced
  <2>6. CallKept'
    BY <2>1, <2>2 DEF SetupInv, CallKept, Enforced
  <2> QED BY <2>3, <2>4, <2>5, <2>6 DEF SetupInv
<1>4. CASE ResolveKeys \/ ResolveLimits \/ Initialize
  BY <1>4, KeysStep, LimitsStep, CapabilitiesStep
<1>5. CASE BeforeStartInteractive \/ BeforeStartNonInteractive
  BY <1>5, TriggerStep DEF BeforeStartInteractive, BeforeStartNonInteractive
<1>6. CASE CallCapability
  BY <1>6, CallStep
<1> QED BY <1>1, <1>2, <1>3, <1>4, <1>5, <1>6 DEF SetupNext

LEMMA SetupInvariant == SetupSpec => []SetupInv
BY SetupBegins, SetupStep, PTL DEF SetupSpec

\* A simulation that fires does what its flags and settings say, for whatever flags,
\* settings, limits files and triggers: cmd/workflow/simulate reads each of them in
\* another place, and they meet in the capabilities only.
THEOREM SimulatesAsToldHolds == SetupSpec => []SimulatesAsTold
<1>1. ASSUME SetupInv, phase = "fire" PROVE SimulatesAsTold
  <2>1. told.broadcast => \A s \in clients : keys[Family(s)] = "real"
    BY <1>1 DEF SetupInv, Paid
  <2>2. \A s \in chains : Named(s) /\ ForwarderNamed(s)
    BY <1>1 DEF SetupInv, ChainsNamed
  <2>3. trigger.kind = "chain" =>
           trigger.selector \in target.rpcs \cup {target.experimental[i].selector :
                                                   i \in 1..Len(target.experimental)}
    BY <1>1, <2>2 DEF SetupInv, Chosen, Named
  <2>4. (told.quiet => ~asked) /\ (listening => told.listen)
    BY <1>1 DEF SetupInv, Chosen
  <2> QED BY <1>1, <2>1, <2>2, <2>3, <2>4
          DEF SetupInv, SimulatesAsTold, ForwarderNamed, Fits, CallKept, Made4Limits
<1>2. SetupInv => SimulatesAsTold
  BY <1>1 DEF SimulatesAsTold
<1> QED BY <1>2, SetupInvariant, PTL

\* The types of what a simulation has set up.
LEMMA SizesTyped ==
    /\ (SetupInit => sizes \in [raw : 0..3, packed : 0..3])
    /\ (LoadBinary => sizes' \in [raw : 0..3, packed : 0..3])
<1>1. ASSUME SetupInit PROVE sizes \in [raw : 0..3, packed : 0..3]
  <2>1. sizes = [raw |-> 0, packed |-> 0]
    BY <1>1 DEF SetupInit
  <2> QED BY <2>1
<1>2. ASSUME LoadBinary PROVE sizes' \in [raw : 0..3, packed : 0..3]
  BY <1>2 DEF LoadBinary
<1> QED BY <1>1, <1>2

LEMMA SetupTypeInit == SetupInit => SetupTypeOK
<1> SUFFICES ASSUME SetupInit PROVE SetupTypeOK
  OBVIOUS
<1> USE DEF SetupInit
<1>1. sizes \in [raw : 0..3, packed : 0..3]
  BY SizesTyped
<1>2. call.of = "none"
  BY DEF NoCall
<1>3. /\ keys \in [{"evm", "solana"} -> {"none", "sentinel", "real"}]
      /\ forwarders \in [Selectors -> {"", "built-in", "x", "y"}]
      /\ engine \in [Groups -> {"built-in", "told", "open"}]
  OBVIOUS
<1>4. /\ phase = "clients" /\ told \in SimFlags /\ target \in SimSettings
      /\ clients = {} /\ chains = {} /\ limits = NoLimits /\ trigger = NoTrigger
      /\ {wrapped, listening, asked} \subseteq BOOLEAN
  OBVIOUS
<1> QED BY ONLY <1>1, <1>2, <1>3, <1>4 DEF SetupTypeOK

LEMMA ForwardersTyped ==
    ASSUME SetupInv, ResolveClients
    PROVE  /\ forwarders' \in [Selectors -> {"", "built-in", "x", "y"}]
           /\ clients' \subseteq Selectors
<1>1. ChainsNamed' /\ target \in SimSettings /\ target' = target
  BY ClientsStep DEF ResolveClients, Given, SetupInv, SetupTypes
<1>2. forwarders' = [s \in Selectors |-> IF s \in clients' THEN ForwarderOf(s) ELSE ""]
  BY DEF ResolveClients
<1>3. ASSUME NEW s \in clients' PROVE forwarders'[s] \in {"", "built-in", "x", "y"}
  <2>1. \/ forwarders'[s] = "built-in"
        \/ \E i \in 1..Len(target.experimental) : target.experimental[i].forwarder = forwarders'[s]
    BY <1>1, <1>3 DEF ChainsNamed, ForwarderNamed
  <2> QED BY <1>1, <2>1, EntryFacts DEF Entry
<1>4. clients' \subseteq Selectors
  BY <1>1 DEF ChainsNamed
<1>5. \A s \in Selectors : forwarders'[s] \in {"", "built-in", "x", "y"}
  <2> SUFFICES ASSUME NEW s \in Selectors PROVE forwarders'[s] \in {"", "built-in", "x", "y"}
    OBVIOUS
  <2>1. CASE s \in clients'
    BY <1>3, <2>1
  <2>2. CASE s \notin clients'
    BY <1>2, <2>2
  <2> QED BY <2>1, <2>2
<1> QED BY <1>2, <1>4, <1>5

LEMMA KeysTyped ==
    ASSUME ResolveKeys
    PROVE  keys' \in [{"evm", "solana"} -> {"none", "sentinel", "real"}]
<1>1. PICK raw \in [Families -> {"none", "malformed", "sentinel", "real"}] :
         /\ \A f \in Families : ResolveKey(f, raw[f]) # "error"
         /\ keys' = [f \in {"evm", "solana"} |-> IF f \in Families THEN ResolveKey(f, raw[f]) ELSE "none"]
  BY DEF ResolveKeys
<1>2. \A f \in Families : ResolveKey(f, raw[f]) \in {"sentinel", "real"}
  <2> SUFFICES ASSUME NEW f \in Families PROVE ResolveKey(f, raw[f]) \in {"sentinel", "real"}
    OBVIOUS
  <2>1. raw[f] \in {"none", "malformed", "sentinel", "real"} /\ ResolveKey(f, raw[f]) # "error"
    BY <1>1
  <2> QED BY <2>1 DEF ResolveKey, ResolveSolanaKey, ResolveEVMKey
<1> QED BY <1>1, <1>2

LEMMA TriggerTyped ==
    ASSUME NEW quiet \in BOOLEAN, BeforeStart(quiet)
    PROVE  /\ trigger' \in UNION {{ts[i] : i \in 1..Len(ts)} : ts \in TriggerLists}
           /\ listening' \in BOOLEAN /\ asked' \in BOOLEAN
<1>1. PICK ts \in TriggerLists : \E t \in ChooseTrigger(ts) :
         /\ trigger' = t
         /\ listening' = (told.listen /\ t.kind \in {"http", "chain"})
         /\ asked' = (~quiet /\ Len(ts) > 1)
  BY DEF BeforeStart
<1>2. trigger' \in {ts[i] : i \in 1..Len(ts)}
  BY <1>1 DEF ChooseTrigger
<1>3. listening' \in BOOLEAN /\ asked' \in BOOLEAN
  BY <1>1
<1> QED BY <1>2, <1>3

LEMMA CallTyped ==
    ASSUME CallCapability
    PROVE  call'.of \in {"none", "http", "consensus", "write"}
<1>1. PICK in \in 0..2, out \in 0..2 :
         call' \in {HTTPCall(in, out), ConsensusCall(in, out), WriteReport(in, out)}
  BY DEF CallCapability
<1> QED BY <1>1 DEF HTTPCall, ConsensusCall, WriteReport

LEMMA EngineTyped == EngineLimits \in [Groups -> {"built-in", "told", "open"}]
BY DEF EngineLimits

LEMMA SetupTypeStep == SetupInv /\ SetupTypeOK /\ [SetupNext]_setupVars => SetupTypeOK'
<1> SUFFICES ASSUME SetupInv, SetupTypeOK, [SetupNext]_setupVars PROVE SetupTypeOK'
  OBVIOUS
<1>0. SetupTypes' /\ ChainsNamed'
  BY SetupStep DEF SetupInv
<1>1. /\ phase' \in {"clients", "keys", "inputs", "binary", "limits", "sizes", "files",
                     "capabilities", "trigger", "fire", "error"}
      /\ told' \in SimFlags /\ target' \in SimSettings
      /\ chains' \subseteq clients' /\ clients' \subseteq Selectors
  BY <1>0 DEF SetupTypes, ChainsNamed
<1> USE DEF SetupTypeOK, Given
<1>2. CASE ResolveClients
  BY <1>1, <1>2, ForwardersTyped DEF ResolveClients
<1>3. CASE ResolveKeys
  BY <1>1, <1>3, KeysTyped DEF ResolveKeys
<1>4. CASE LoadBinary
  <2>1. sizes' \in [raw : 0..3, packed : 0..3]
    BY <1>4, SizesTyped
  <2> QED BY <1>1, <1>4, <2>1 DEF LoadBinary
<1>5. CASE ResolveLimits
  BY <1>1, <1>5 DEF ResolveLimits
<1>6. CASE Initialize
  <2>1. wrapped' \in BOOLEAN
    BY <1>6, Zenon DEF Initialize, Enforced
  <2>2. engine' \in [Groups -> {"built-in", "told", "open"}]
    BY <1>6, EngineTyped DEF Initialize
  <2> QED BY <1>1, <1>6, <2>1, <2>2 DEF Initialize
<1>7. ASSUME NEW quiet \in BOOLEAN, BeforeStart(quiet) PROVE SetupTypeOK'
  BY <1>1, <1>7, TriggerTyped DEF BeforeStart
<1>8. CASE CallCapability
  BY <1>1, <1>8, CallTyped DEF CallCapability
<1>9. CASE UNCHANGED <<clients, forwarders, keys, sizes, limits, engine, chains, wrapped, trigger,
                       listening, asked, call>>
  BY <1>1, <1>9
<1> QED BY <1>2, <1>3, <1>4, <1>5, <1>6, <1>7, <1>8, <1>9
        DEF SetupNext, setupVars, SetupFails, ValidateInputs, CheckBinarySize, ReadFiles,
            BeforeStartInteractive, BeforeStartNonInteractive

-----------------------------------------------------------------------------
(* How a simulation gets the event of a chain (LogTrigger).                *)

LogSpots == {"resolve", "receipt", "new", "head", "filter", "run", "done", "error"}

\* The chain: what lies Overlap blocks back is there for good.
DeepIsShown ==
    /\ tip \in Nat \ {0} /\ tip <= MaxTip /\ forks \in 0..MaxForks
    /\ mined \in [Logs -> Blocks]
    /\ \A l \in Mined : /\ mined[l].height <= tip
                        /\ mined[l].height + Overlap <= tip => l \in visible

\* The listener never goes on beyond what is settled.
Behindhand ==
    /\ fromBlock \in Int /\ since \in Int /\ latest \in Int /\ latest <= tip
    /\ fromBlock = since \/ (since <= fromBlock /\ fromBlock + Overlap <= tip + 1)

PassedOver ==
    \A l \in Mined : mined[l].height >= since /\ mined[l].height < fromBlock => Chain(l) \in seen

\* What was met was handed out, once, or dropped; one that does not listen is
\* handed one.
Once(b) == b = [k \in DOMAIN b |-> 1]

Handed ==
    /\ wish \in Wishes /\ spot \in LogSpots
    /\ Once(given)
    /\ spot \in {"resolve", "receipt", "new"} => given = EmptyBag
    /\ spot \in {"resolve", "receipt", "new"} => seen = {} /\ dropped = {}
    /\ spot \in {"head", "filter", "run"} => seen = DOMAIN given \cup dropped
    /\ seen # {} => seen = DOMAIN given \cup dropped
    /\ dropped \cap DOMAIN given = {}
    /\ dropped # {} => wish.limited
    /\ spot \in {"head", "filter"} /\ ~wish.listen => given = EmptyBag
    /\ spot = "run" /\ ~wish.listen => \E k \in DOMAIN given : given = SetToBag({k})
    /\ spot = "done" => \E k \in DOMAIN given : given = SetToBag({k})

LogInv == DeepIsShown /\ Behindhand /\ PassedOver /\ Handed

LEMMA GiveOne ==
    ASSUME NEW k, Give(k), Once(given), k \notin DOMAIN given
    PROVE  /\ Once(given') /\ DOMAIN given' = DOMAIN given \cup {k}
           /\ given = EmptyBag => given' = SetToBag({k})
BY DEF Give, Once, (+), SetToBag, EmptyBag

\* What the chain does leaves the listener alone.
LEMMA ChainMoves ==
    ASSUME LogInv, Mine \/ Show \/ Reorganise
    PROVE  DeepIsShown' /\ Behindhand' /\ Handed'
<1> USE DEF LogInv
<1>0. Overlap \in Nat \ {0} /\ MaxTip \in Nat /\ MaxForks \in Nat
  BY LogAssumption
<1>1. UNCHANGED <<wish, spot>> /\ Listens
  BY DEF Mine, Show, Reorganise
<1>2. Handed'
  BY <1>1 DEF Handed, Listens
<1>3. tip' \in Nat /\ tip' >= tip
  BY DEF Mine, Show, Reorganise, DeepIsShown
<1>4. Behindhand'
  <2>1. fromBlock' = fromBlock /\ since' = since /\ latest' = latest
    BY <1>1 DEF Listens
  <2>2. tip \in Nat /\ Overlap \in Nat
    BY <1>0 DEF DeepIsShown
  <2>3. latest' \in Int /\ latest' <= tip'
    BY <1>3, <2>1, <2>2 DEF Behindhand
  <2>4. \A a, o, t, n \in Int : a + o <= t + 1 /\ t <= n => a + o <= n + 1
    OBVIOUS
  <2>5. fromBlock \in Int /\ tip <= tip' /\ tip' \in Int
    BY <1>3, <2>2 DEF Behindhand
  <2>6. fromBlock + Overlap <= tip + 1 => fromBlock + Overlap <= tip' + 1
    <3>1. tip \in Int /\ Overlap \in Int
      BY <2>2
    <3> QED BY <2>4, <2>5, <3>1, Zenon
  <2> QED BY <2>1, <2>3, <2>6 DEF Behindhand
<1>5. DeepIsShown'
  <2> USE <1>0
  <2>1. CASE Mine
    <3>1. PICK ls \in SUBSET (Logs \ Mined) :
             mined' = [l \in Logs |-> IF l \in ls THEN [height |-> tip + 1, fork |-> forks] ELSE mined[l]]
      BY <2>1 DEF Mine
    <3>2. tip' = tip + 1 /\ tip < MaxTip /\ UNCHANGED <<forks, visible>>
      BY <2>1 DEF Mine
    <3>3. [height |-> tip + 1, fork |-> forks] \in Blocks
      BY <3>2 DEF DeepIsShown, Blocks, Heights
    <3>4. mined' \in [Logs -> Blocks]
      BY <3>1, <3>3 DEF DeepIsShown
    <3>5. \A l \in Logs : mined[l].height \in Nat
      BY DEF DeepIsShown, Blocks, Heights
    <3>6. ASSUME NEW l \in Mined'
          PROVE  mined'[l].height <= tip' /\ (mined'[l].height + Overlap <= tip' => l \in visible')
      <4>1. CASE l \in ls
        <5>1. mined'[l].height = tip + 1
          BY <3>1, <4>1
        <5> QED BY <3>2, <5>1 DEF DeepIsShown
      <4>2. CASE l \notin ls
        <5>1. l \in Mined /\ mined'[l] = mined[l]
          BY <3>1, <3>6, <4>2 DEF Mined
        <5> QED BY <2>1, <3>2, <3>5, <5>1 DEF Mine, DeepIsShown, Mined
      <4> QED BY <4>1, <4>2
    <3> QED BY <3>2, <3>4, <3>6 DEF DeepIsShown
  <2>2. CASE Show
    BY <2>2 DEF Show, DeepIsShown, Mined
  <2>3. CASE Reorganise
    <3>1. PICK depth \in 1..Overlap :
             LET gone == {l \in Mined : mined[l].height > tip - depth} IN
             /\ depth < tip /\ gone # {}
             /\ \E h \in [gone -> {0} \cup (tip - depth + 1)..tip] :
                  mined' = [l \in Logs |-> IF l \notin gone THEN mined[l]
                                           ELSE IF h[l] = 0 THEN Unmined
                                           ELSE [height |-> h[l], fork |-> forks + 1]]
             /\ visible' = visible \ gone
      BY <2>3 DEF Reorganise
    <3> DEFINE gone == {l \in Mined : mined[l].height > tip - depth}
    <3>2. PICK h \in [gone -> {0} \cup (tip - depth + 1)..tip] :
             mined' = [l \in Logs |-> IF l \notin gone THEN mined[l]
                                      ELSE IF h[l] = 0 THEN Unmined
                                      ELSE [height |-> h[l], fork |-> forks + 1]]
      BY <3>1
    <3>3. tip' = tip /\ forks' = forks + 1 /\ forks < MaxForks /\ depth < tip /\ visible' = visible \ gone
      BY <2>3, <3>1 DEF Reorganise
    <3>4. \A l \in Logs : mined[l].height \in Nat
      BY DEF DeepIsShown, Blocks, Heights
    <3>5. \A l \in gone : h[l] \in 0..MaxTip /\ [height |-> h[l], fork |-> forks + 1] \in Blocks
      BY <3>2, <3>3 DEF DeepIsShown, Blocks, Heights
    <3>6. Unmined \in Blocks
      BY DEF Unmined, Blocks, Heights
    <3>7. mined' \in [Logs -> Blocks]
      BY <3>2, <3>5, <3>6 DEF DeepIsShown
    <3>8. ASSUME NEW l \in Mined'
          PROVE  mined'[l].height <= tip' /\ (mined'[l].height + Overlap <= tip' => l \in visible')
      <4>1. CASE l \in gone
        <5>1. mined'[l].height \in (tip - depth + 1)..tip
          BY <3>2, <3>8, <4>1 DEF Mined, Unmined
        <5> QED BY <3>3, <5>1 DEF DeepIsShown
      <4>2. CASE l \notin gone
        <5>1. l \in Mined /\ mined'[l] = mined[l]
          BY <3>2, <3>8, <4>2 DEF Mined
        <5> QED BY <3>3, <4>2, <5>1 DEF DeepIsShown
      <4> QED BY <4>1, <4>2
    <3> QED BY <3>3, <3>7, <3>8 DEF DeepIsShown
  <2> QED BY <2>1, <2>2, <2>3
<1> QED BY <1>2, <1>4, <1>5


LEMMA MinedFacts ==
    ASSUME DeepIsShown
    PROVE  /\ tip \in Nat /\ Overlap \in Nat \ {0}
           /\ \A l \in Mined : l \in Logs /\ mined[l].height \in Nat
BY LogAssumption DEF DeepIsShown, Mined, Blocks, Heights

\* The new blocks are above what the listener has passed.
LEMMA ChainAhead ==
    ASSUME LogInv, Mine \/ Show \/ Reorganise
    PROVE  PassedOver'
<1> USE DEF LogInv
<1>0. /\ fromBlock' = fromBlock /\ since' = since /\ seen' = seen
      /\ fromBlock \in Int /\ since \in Int /\ tip \in Nat /\ Overlap \in Nat \ {0}
      /\ fromBlock = since \/ (since <= fromBlock /\ fromBlock + Overlap <= tip + 1)
  BY MinedFacts DEF Mine, Show, Reorganise, Listens, Behindhand
<1>1. \A l \in Mined' : (l \in Mined /\ mined'[l] = mined[l]) \/ mined'[l].height + Overlap >= tip + 1
  <2>1. CASE Mine
    <3>1. PICK ls \in SUBSET (Logs \ Mined) :
             mined' = [l \in Logs |-> IF l \in ls THEN [height |-> tip + 1, fork |-> forks] ELSE mined[l]]
      BY <2>1 DEF Mine
    <3>2. ASSUME NEW l \in Mined', l \in ls PROVE mined'[l].height = tip + 1
      BY <3>1, <3>2
    <3>3. ASSUME NEW l \in Mined', l \notin ls PROVE l \in Mined /\ mined'[l] = mined[l]
      BY <3>1, <3>3 DEF Mined
    <3> QED BY <1>0, <3>2, <3>3
  <2>2. CASE Show
    BY <2>2 DEF Show, Mined
  <2>3. CASE Reorganise
    <3>1. PICK depth \in 1..Overlap :
             LET gone == {l \in Mined : mined[l].height > tip - depth} IN
             \E h \in [gone -> {0} \cup (tip - depth + 1)..tip] :
                  mined' = [l \in Logs |-> IF l \notin gone THEN mined[l]
                                           ELSE IF h[l] = 0 THEN Unmined
                                           ELSE [height |-> h[l], fork |-> forks + 1]]
      BY <2>3 DEF Reorganise
    <3> DEFINE gone == {l \in Mined : mined[l].height > tip - depth}
    <3>2. PICK h \in [gone -> {0} \cup (tip - depth + 1)..tip] :
             mined' = [l \in Logs |-> IF l \notin gone THEN mined[l]
                                      ELSE IF h[l] = 0 THEN Unmined
                                      ELSE [height |-> h[l], fork |-> forks + 1]]
      BY <3>1
    <3>3. ASSUME NEW l \in Mined', l \in gone PROVE mined'[l].height \in (tip - depth + 1)..tip
      BY <3>2, <3>3 DEF Mined, Unmined
    <3>4. ASSUME NEW l \in Mined', l \notin gone PROVE l \in Mined /\ mined'[l] = mined[l]
      BY <3>2, <3>4 DEF Mined
    <3> QED BY <1>0, <3>3, <3>4
  <2> QED BY <2>1, <2>2, <2>3
<1>2. ASSUME NEW l \in Mined', mined'[l].height >= since, mined'[l].height < fromBlock
      PROVE  l \in Mined /\ mined'[l] = mined[l]
  <2>1. mined'[l].height \in Int
    BY ChainMoves, <1>2 DEF DeepIsShown, Mined, Blocks, Heights
  <2> QED BY <1>0, <1>1, <1>2, <2>1
<1> QED BY <1>0, <1>2 DEF PassedOver, Chain

LEMMA ResolveStep == ASSUME LogInv, Resolve PROVE LogInv'
<1> USE DEF LogInv
<1>1. /\ UNCHANGED <<chainVars, wish>> /\ Listens /\ spot = "resolve"
      /\ spot' \in {"error", "receipt", "new"}
  BY DEF Resolve, LogGoes, ResolveSolana, ResolveEVM
<1>2. DeepIsShown' /\ Behindhand' /\ PassedOver'
  BY <1>1 DEF chainVars, Listens, DeepIsShown, Behindhand, PassedOver, Mined, Chain
<1>3. Handed'
  BY <1>1 DEF Listens, Handed, LogSpots
<1> QED BY <1>2, <1>3

LEMMA ReplayStep == ASSUME LogInv, NEW found \in BOOLEAN, Replay(found) PROVE LogInv'
<1> USE DEF LogInv
<1>1. /\ UNCHANGED <<chainVars, wish, fromBlock, latest, seen, dropped, tokens, since>>
      /\ spot = "receipt"
      /\ \/ Give(Chain(wish.tx)) /\ spot' = "done"
         \/ given' = given /\ spot' = "error"
  BY DEF Replay, LogGoes
<1>2. DeepIsShown' /\ Behindhand' /\ PassedOver'
  BY <1>1 DEF chainVars, DeepIsShown, Behindhand, PassedOver, Mined, Chain
<1>3. given = EmptyBag /\ seen = {} /\ dropped = {} /\ Once(given)
  BY <1>1 DEF Handed
<1>4. Handed'
  <2>1. CASE Give(Chain(wish.tx)) /\ spot' = "done"
    <3>1. /\ given' = SetToBag({Chain(wish.tx)}) /\ Once(given')
          /\ DOMAIN given' = {Chain(wish.tx)}
      BY <1>3, <2>1, GiveOne DEF EmptyBag, SetToBag
    <3> QED BY <1>1, <1>3, <2>1, <3>1 DEF Handed, LogSpots
  <2>2. CASE given' = given /\ spot' = "error"
    BY <1>1, <1>3, <2>2 DEF Handed, LogSpots
  <2> QED BY <1>1, <2>1, <2>2
<1> QED BY <1>2, <1>4

\* The steps that take no log.
LEMMA SpotStep ==
    ASSUME LogInv, ReceiptFails \/ GetHead \/ FilterFails \/ NextLog \/ StopListening \/ Refill
    PROVE  LogInv'
<1> USE DEF LogInv
<1>1. /\ UNCHANGED <<chainVars, wish, fromBlock, seen, dropped, given, since>>
      /\ \/ spot' = "error"
         \/ spot = "head" /\ spot' \in {"head", "filter"}
         \/ spot = "filter" /\ spot' = "head"
         \/ spot = "run" /\ wish.listen /\ spot' = "head"
         \/ spot = "run" /\ ~wish.listen /\ spot' = "done"
         \/ spot' = spot
  BY DEF ReceiptFails, GetHead, FilterFails, NextLog, StopListening, Refill, LogGoes, Listens
<1>2. DeepIsShown' /\ PassedOver'
  BY <1>1 DEF chainVars, DeepIsShown, PassedOver, Mined, Chain
<1>3. Behindhand'
  <2>1. latest' \in Int /\ latest' <= tip'
    <3>1. CASE GetHead
      BY <1>1, <3>1, MinedFacts, LogAssumption DEF GetHead, Answers, chainVars
    <3>2. CASE ~GetHead
      BY <1>1, <3>2 DEF ReceiptFails, FilterFails, NextLog, StopListening, Refill, Listens, chainVars,
         Behindhand
    <3> QED BY <3>1, <3>2
  <2> QED BY <1>1, <2>1 DEF Behindhand, chainVars
<1>4. Handed'
  BY <1>1 DEF Handed, LogSpots
<1> QED BY <1>2, <1>3, <1>4

LEMMA NewListenerStep == ASSUME LogInv, NewListener PROVE LogInv'
<1> USE DEF LogInv
<1>1. /\ UNCHANGED <<chainVars, wish, latest, seen, dropped, tokens, given>> /\ spot = "new"
      /\ \/ \E h \in Answers : fromBlock' = h /\ since' = h /\ spot' = "head"
         \/ UNCHANGED <<fromBlock, since>> /\ spot' = "error"
  BY DEF NewListener, LogGoes, Listens
<1>2. DeepIsShown'
  BY <1>1 DEF chainVars, DeepIsShown, Mined
<1>3. Behindhand'
  BY <1>1, MinedFacts, LogAssumption DEF Behindhand, chainVars, Answers
<1>4. PassedOver'
  <2>1. CASE spot' = "head"
    <3>1. fromBlock' = since' /\ since' \in Int
      BY <1>1, <2>1, MinedFacts, LogAssumption DEF Answers
    <3>2. \A l \in Mined' : mined'[l].height \in Int
      BY <1>1, MinedFacts DEF chainVars, Mined
    <3> QED BY <3>1, <3>2 DEF PassedOver
  <2>2. CASE spot' # "head"
    BY <1>1, <2>2 DEF PassedOver, chainVars, Mined, Chain
  <2> QED BY <2>1, <2>2
<1>5. Handed'
  BY <1>1 DEF Handed, LogSpots, EmptyBag, SetToBag
<1> QED BY <1>2, <1>3, <1>4, <1>5


LEMMA TakeStep == ASSUME LogInv, TakeLog PROVE LogInv'
<1> USE DEF LogInv
<1>1. /\ UNCHANGED <<chainVars, wish, fromBlock, latest, since>>
      /\ spot = "filter" /\ spot' = "run"
  BY DEF TakeLog, LogGoes
<1>2. PICK k \in Unseen :
         LET earlier == {m \in Unseen : Before(m, k)} IN
         /\ (wish.limited /\ tokens = 0) = (earlier # {})
         /\ seen' = seen \cup {k} \cup earlier
         /\ dropped' = dropped \cup earlier
         /\ Give(k)
  BY DEF TakeLog
<1> DEFINE earlier == {m \in Unseen : Before(m, k)}
<1>3. k \notin earlier
  <2>1. PICK l \in Mined : k = Chain(l)
    BY DEF Unseen
  <2>2. k[1] \in Nat /\ k[2].height \in Nat
    BY <2>1, MinedFacts, LogAssumption DEF Chain
  <2> QED BY <2>2 DEF Before
<1>4. Unseen \cap seen = {}
  BY DEF Unseen
<1>5. seen = DOMAIN given \cup dropped /\ Once(given)
  BY <1>1 DEF Handed
<1>6. /\ Once(given') /\ DOMAIN given' = DOMAIN given \cup {k}
      /\ given = EmptyBag => given' = SetToBag({k})
  BY <1>2, <1>4, <1>5, GiveOne
<1>7. DeepIsShown' /\ PassedOver'
  BY <1>1, <1>2 DEF chainVars, DeepIsShown, PassedOver, Mined, Chain
<1>8. Behindhand'
  BY <1>1 DEF chainVars, Behindhand
<1>9. dropped' # {} => wish.limited
  <2>1. earlier # {} => wish.limited
    BY <1>2
  <2> QED BY <1>2, <2>1 DEF Handed
<1>10. seen' = DOMAIN given' \cup dropped' /\ dropped' \cap DOMAIN given' = {}
  BY <1>2, <1>3, <1>4, <1>5, <1>6 DEF Handed
<1>11. ~wish.listen => \E x \in DOMAIN given' : given' = SetToBag({x})
  BY <1>1, <1>6 DEF Handed
<1>12. Handed'
  BY <1>1, <1>6, <1>9, <1>10, <1>11 DEF Handed, LogSpots
<1> QED BY <1>7, <1>8, <1>12

LEMMA ScanStep == ASSUME LogInv, ScanDone PROVE LogInv'
<1> USE DEF LogInv
<1>1. /\ UNCHANGED <<chainVars, wish, latest, tokens, given, since>>
      /\ spot = "filter" /\ spot' = "head"
      /\ seen' = seen \cup Unseen /\ dropped' = dropped \cup Unseen
      /\ fromBlock' = AdvanceFromBlock(fromBlock, latest)
      /\ Unseen # {} => wish.limited
  BY DEF ScanDone, LogGoes
<1>2. /\ fromBlock \in Int /\ since \in Int /\ latest \in Int /\ latest <= tip
      /\ tip \in Nat /\ Overlap \in Nat \ {0}
      /\ fromBlock = since \/ (since <= fromBlock /\ fromBlock + Overlap <= tip + 1)
  BY MinedFacts DEF Behindhand
<1>3. PICK next \in Int :
         fromBlock' = next /\ (next = fromBlock \/ (next > fromBlock /\ next + Overlap = latest + 1))
  <2>1. AdvanceFromBlock(fromBlock, latest) \in Int
    BY <1>2 DEF AdvanceFromBlock
  <2>2. \/ AdvanceFromBlock(fromBlock, latest) = fromBlock
        \/ /\ AdvanceFromBlock(fromBlock, latest) > fromBlock
           /\ AdvanceFromBlock(fromBlock, latest) + Overlap = latest + 1
    BY <1>2 DEF AdvanceFromBlock
  <2> QED BY <1>1, <2>1, <2>2
<1>4. DeepIsShown'
  BY <1>1 DEF chainVars, DeepIsShown, Mined
<1>5. Behindhand'
  <2>1. next = since \/ (since <= next /\ next + Overlap <= tip + 1)
    BY <1>2, <1>3
  <2>2. tip' = tip /\ since' = since /\ latest' = latest
    BY <1>1 DEF chainVars
  <2>3. fromBlock' = since' \/ (since' <= fromBlock' /\ fromBlock' + Overlap <= tip' + 1)
    BY <1>3, <2>1, <2>2, Zenon
  <2> QED BY <1>2, <1>3, <2>2, <2>3 DEF Behindhand
<1>6. PassedOver'
  <2>1. ASSUME NEW l \in Mined, mined[l].height >= since, mined[l].height < fromBlock'
        PROVE  Chain(l) \in seen'
    <3>1. mined[l].height \in Nat
      BY MinedFacts
    <3>2. CASE mined[l].height < fromBlock
      BY <1>1, <2>1, <3>2 DEF PassedOver
    <3>3. CASE ~(mined[l].height < fromBlock)
      <4>1. next + Overlap = latest + 1 /\ mined[l].height < next
        BY <1>2, <1>3, <2>1, <3>1, <3>3
      <4>2. mined[l].height + Overlap <= latest
        BY <1>2, <3>1, <4>1
      <4>3. mined[l].height \in fromBlock..latest
        BY <1>2, <3>1, <3>3, <4>2
      <4>4. l \in visible
        BY <1>2, <3>1, <4>2 DEF DeepIsShown
      <4>5. Chain(l) \in seen \cup Unseen
        BY <4>3, <4>4 DEF Unseen
      <4> QED BY <1>1, <4>5
    <3> QED BY <3>2, <3>3
  <2> QED BY <1>1, <2>1 DEF PassedOver, chainVars, Mined, Chain
<1>7. Unseen \cap seen = {} /\ seen = DOMAIN given \cup dropped
  BY <1>1 DEF Unseen, Handed
<1>8. Handed'
  BY <1>1, <1>7 DEF Handed, LogSpots
<1> QED BY <1>4, <1>5, <1>6, <1>8

LEMMA LogBegins == LogInit => LogInv
<1> SUFFICES ASSUME LogInit PROVE LogInv
  OBVIOUS
<1> USE DEF LogInit
<1>1. mined \in [Logs -> Blocks] /\ Mined = {}
  BY LogAssumption DEF Unmined, Blocks, Heights, Mined
<1>2. DeepIsShown
  BY <1>1, LogAssumption DEF DeepIsShown
<1>3. Behindhand /\ PassedOver
  BY <1>1 DEF Behindhand, PassedOver
<1>4. Handed
  BY DEF Handed, LogSpots, Once, EmptyBag, SetToBag
<1> QED BY <1>2, <1>3, <1>4 DEF LogInv

LEMMA LogStep == LogInv /\ [LogNext]_logVars => LogInv'
<1> SUFFICES ASSUME LogInv, [LogNext]_logVars PROVE LogInv'
  OBVIOUS
<1>1. CASE Mine \/ Show \/ Reorganise
  BY <1>1, ChainMoves, ChainAhead DEF LogInv
<1>2. CASE Resolve \/ NewListener \/ TakeLog \/ ScanDone
  BY <1>2, ResolveStep, NewListenerStep, TakeStep, ScanStep
<1>3. CASE ReplayLog \/ ReplayEvent
  <2>1. ReplayEvent => \E found \in BOOLEAN : Replay(found)
    <3>1. (wish.tx \in Mined) \in BOOLEAN
      OBVIOUS
    <3> QED BY <3>1 DEF ReplayEvent
  <2> QED BY <1>3, <2>1, ReplayStep DEF ReplayLog
<1>4. CASE ReceiptFails \/ GetHead \/ FilterFails \/ NextLog \/ StopListening \/ Refill
  BY <1>4, SpotStep
<1>5. CASE UNCHANGED logVars
  BY <1>5 DEF logVars, chainVars, LogInv, DeepIsShown, Behindhand, PassedOver, Handed, Mined, Chain
<1> QED BY <1>1, <1>2, <1>3, <1>4, <1>5 DEF LogNext

LEMMA LogInvariant == LogSpec => []LogInv
BY LogBegins, LogStep, PTL DEF LogSpec

\* The listener of a log trigger (simulate/chain/evm/trigger.go) passes over no log
\* between the block it began at and its next one, and hands none out twice: what it
\* leaves behind is deeper than any reorganisation and than the lag of a node's logs,
\* whatever the overlap is, as long as that bounds both.
THEOREM TriggersOnceHolds == LogSpec => []TriggersOnce
<1>1. ASSUME LogInv PROVE TriggersOnce
  <2>1. \A l \in Mined : mined[l].height >= since /\ mined[l].height < fromBlock => Chain(l) \in seen
    BY <1>1 DEF LogInv, PassedOver
  <2>2. \A k \in BagToSet(given) : given[k] = 1
    BY <1>1 DEF LogInv, Handed, Once, BagToSet
  <2>3. spot = "done" => \E k \in BagToSet(given) : given = SetToBag({k})
    BY <1>1 DEF LogInv, Handed, SetToBag, BagToSet
  <2>4. /\ seen # {} => seen = BagToSet(given) \cup dropped
        /\ dropped \cap BagToSet(given) = {} /\ (dropped # {} => wish.limited)
    BY <1>1 DEF LogInv, Handed, BagToSet
  <2> QED BY <2>1, <2>2, <2>3, <2>4 DEF TriggersOnce
<1> QED BY <1>1, LogInvariant, PTL


\* The types of the listener's variables.  What is proved of it so far gives most
\* of them; the rest is read off each step.
LEMMA LogTypeInit == LogInit => LogTypeOK
<1> SUFFICES ASSUME LogInit PROVE LogTypeOK
  OBVIOUS
<1> USE DEF LogInit
<1>1. DeepIsShown /\ Handed
  BY LogBegins DEF LogInv
<1>2. {fromBlock, latest, since} \subseteq -Overlap..MaxTip
  BY LogAssumption
<1>3. BagToSet(given) = {}
  BY DEF BagToSet, EmptyBag, SetToBag
<1>4. tokens \in 0..Burst
  BY LogAssumption
<1>5. tip \in Heights
  BY <1>1 DEF DeepIsShown, Heights
<1> QED BY <1>1, <1>2, <1>3, <1>4, <1>5 DEF LogTypeOK, DeepIsShown, Handed, LogSpots

LEMMA HeightsKept ==
    ASSUME LogInv, LogTypeOK, [LogNext]_logVars
    PROVE  {fromBlock, latest, since}' \subseteq -Overlap..MaxTip
<1>0. /\ Overlap \in Nat \ {0} /\ MaxTip \in Nat /\ Behind \in Nat
      /\ tip \in 0..MaxTip /\ fromBlock \in -Overlap..MaxTip
      /\ latest \in -Overlap..MaxTip /\ since \in -Overlap..MaxTip
  BY LogAssumption DEF LogTypeOK, Heights
<1>1. Answers \subseteq 0..MaxTip /\ 0..MaxTip \subseteq -Overlap..MaxTip
  BY <1>0 DEF Answers
<1>2. AdvanceFromBlock(fromBlock, latest) \in -Overlap..MaxTip
  BY <1>0 DEF AdvanceFromBlock
<1>3. CASE NewListener
  BY <1>0, <1>1, <1>3 DEF NewListener, Listens
<1>4. CASE GetHead
  BY <1>0, <1>1, <1>4 DEF GetHead
<1>5. CASE ScanDone
  BY <1>0, <1>2, <1>5 DEF ScanDone
<1>6. CASE UNCHANGED <<fromBlock, latest, since>>
  BY <1>0, <1>6
<1> QED BY <1>3, <1>4, <1>5, <1>6
        DEF LogNext, logVars, Mine, Show, Reorganise, Listens, Resolve, ReplayLog, ReplayEvent, Replay,
            ReceiptFails, FilterFails, TakeLog, Refill, NextLog, StopListening

LEMMA TokensKept ==
    ASSUME LogTypeOK, [LogNext]_logVars
    PROVE  tokens' \in 0..Burst
<1>0. Burst \in Nat /\ tokens \in 0..Burst
  BY LogAssumption DEF LogTypeOK
<1>1. CASE TakeLog
  BY <1>0, <1>1 DEF TakeLog
<1>2. CASE Refill
  BY <1>0, <1>2 DEF Refill
<1>3. CASE UNCHANGED tokens
  BY <1>0, <1>3
<1> QED BY <1>1, <1>2, <1>3
        DEF LogNext, logVars, Mine, Show, Reorganise, Listens, Resolve, ReplayLog, ReplayEvent, Replay,
            ReceiptFails, NewListener, GetHead, FilterFails, ScanDone, NextLog, StopListening

LEMMA GiveCursor ==
    ASSUME NEW k \in Cursors, Give(k), BagToSet(given) \subseteq Cursors
    PROVE  BagToSet(given') \subseteq Cursors
BY DEF Give, (+), SetToBag, BagToSet

LEMMA CursorsKept ==
    ASSUME LogInv, LogTypeOK, [LogNext]_logVars
    PROVE  /\ (dropped \subseteq seen /\ seen \subseteq Cursors)'
           /\ (BagToSet(given) \subseteq Cursors)'
<1>1. \A l \in Mined : Chain(l) \in Cursors
  BY DEF LogTypeOK, Mined, Chain, Cursors
<1>2. Unseen \subseteq Cursors
  BY <1>1 DEF Unseen
<1>3. dropped \subseteq seen /\ seen \subseteq Cursors /\ BagToSet(given) \subseteq Cursors
  BY DEF LogTypeOK
<1>4. ASSUME NEW found \in BOOLEAN, Replay(found), found => wish.tx \in Mined
      PROVE  BagToSet(given') \subseteq Cursors /\ UNCHANGED <<seen, dropped>>
  <2>1. CASE found /\ MatchesFilter(wish)
    BY <1>1, <1>3, <1>4, <2>1, GiveCursor DEF Replay
  <2>2. CASE ~(found /\ MatchesFilter(wish))
    BY <1>3, <1>4, <2>2 DEF Replay
  <2> QED BY <1>4, <2>1, <2>2 DEF Replay
<1>5. CASE ReplayLog
  BY <1>3, <1>4, <1>5 DEF ReplayLog
<1>6. CASE ReplayEvent
  <2>1. (wish.tx \in Mined) \in BOOLEAN /\ Replay(wish.tx \in Mined)
    BY <1>6 DEF ReplayEvent
  <2> DEFINE found == wish.tx \in Mined
  <2>2. found \in BOOLEAN /\ Replay(found) /\ (found => wish.tx \in Mined)
    BY <2>1
  <2> HIDE DEF found
  <2> QED BY <1>3, <1>4, <2>2
<1>7. CASE TakeLog
  <2>1. PICK k \in Unseen :
           LET earlier == {m \in Unseen : Before(m, k)} IN
           /\ seen' = seen \cup {k} \cup earlier
           /\ dropped' = dropped \cup earlier
           /\ Give(k)
    BY <1>7 DEF TakeLog
  <2>2. k \in Cursors /\ BagToSet(given') \subseteq Cursors
    BY <1>2, <1>3, <2>1, GiveCursor
  <2> QED BY <1>2, <1>3, <2>1, <2>2
<1>8. CASE ScanDone
  BY <1>2, <1>3, <1>8 DEF ScanDone
<1>9. CASE UNCHANGED <<seen, dropped, given>>
  BY <1>3, <1>9
<1> QED BY <1>5, <1>6, <1>7, <1>8, <1>9
        DEF LogNext, logVars, Mine, Show, Reorganise, Listens, Resolve, ReceiptFails, NewListener,
            GetHead, FilterFails, Refill, NextLog, StopListening

LEMMA VisibleKept ==
    ASSUME LogTypeOK, [LogNext]_logVars
    PROVE  visible' \subseteq Logs
<1>1. CASE Show
  BY <1>1 DEF Show, LogTypeOK, Mined
<1>2. CASE Reorganise
  BY <1>2 DEF Reorganise, LogTypeOK
<1>3. CASE UNCHANGED visible
  BY <1>3 DEF LogTypeOK
<1> QED BY <1>1, <1>2, <1>3
        DEF LogNext, logVars, chainVars, LogGoes, Mine, Resolve, ReplayLog, ReplayEvent, Replay,
            ReceiptFails, NewListener, GetHead, FilterFails, TakeLog, ScanDone, Refill, NextLog,
            StopListening

LEMMA LogTypeStep == LogInv /\ LogTypeOK /\ [LogNext]_logVars => LogTypeOK'
<1> SUFFICES ASSUME LogInv, LogTypeOK, [LogNext]_logVars PROVE LogTypeOK'
  OBVIOUS
<1>1. DeepIsShown' /\ Handed'
  BY LogStep DEF LogInv
<1>2. tip' \in Heights /\ forks' \in 0..MaxForks /\ mined' \in [Logs -> Blocks]
  BY <1>1 DEF DeepIsShown, Heights, Blocks
<1>3. wish' \in Wishes
      /\ spot' \in {"resolve", "receipt", "new", "head", "filter", "run", "done", "error"}
  BY <1>1 DEF Handed, LogSpots
<1>4. /\ {fromBlock', latest', since'} \subseteq -Overlap..MaxTip
      /\ tokens' \in 0..Burst /\ visible' \subseteq Logs
      /\ dropped' \subseteq seen' /\ seen' \subseteq Cursors' /\ BagToSet(given') \subseteq Cursors'
  BY HeightsKept, TokensKept, VisibleKept, CursorsKept
<1> QED BY <1>2, <1>3, <1>4 DEF LogTypeOK, Cursors, Blocks, Heights

-----------------------------------------------------------------------------
(* All the parts.                                                          *)

toolingVars == <<part, <<initVars, cacheVars>>, updVars, gateVars, queryVars, logVars, setupVars,
                 buildVars>>
ToolingSpec == Init /\ [][Next]_toolingVars

ToolingInv ==
    /\ ProjectInv /\ UpdInv /\ GateInv /\ QueryInv
    /\ LogInv /\ LogTypeOK
    /\ SetupInv /\ SetupTypeOK
    /\ BuildInv

LEMMA ToolingBegins == Init => ToolingInv
BY ProjectInvInit, UpdInitInv, GateInitInv, QueryInvInit, LogBegins, LogTypeInit, SetupBegins,
   SetupTypeInit, BuildBegins DEF Init, ToolingInv

\* A step of all is a step of each part, or leaves it as it is.
LEMMA PartsStep ==
    [Next]_toolingVars =>
        /\ [InitNext]_<<initVars, cacheVars>> /\ [UpdNext]_updVars /\ [GateNext]_gateVars
        /\ [QueryNext]_queryVars /\ [LogNext]_logVars /\ [SetupNext]_setupVars
        /\ [BuildNext]_buildVars
BY DEF Next, toolingVars

LEMMA ToolingStep == ToolingInv /\ [Next]_toolingVars => ToolingInv'
<1> SUFFICES ASSUME ToolingInv, [Next]_toolingVars PROVE ToolingInv'
  OBVIOUS
<1>1. ProjectInv'
  BY PartsStep, ProjectInvStep DEF ToolingInv
<1>2. UpdInv' /\ GateInv' /\ QueryInv'
  BY PartsStep, UpdStepAny, GateStep, QueryInvNext DEF ToolingInv
<1>3. LogInv' /\ LogTypeOK'
  BY PartsStep, LogStep, LogTypeStep DEF ToolingInv
<1>4. SetupInv' /\ SetupTypeOK'
  BY PartsStep, SetupStep, SetupTypeStep DEF ToolingInv
<1>5. BuildInv'
  BY PartsStep, BuildStep DEF ToolingInv
<1> QED BY <1>1, <1>2, <1>3, <1>4, <1>5 DEF ToolingInv

LEMMA ToolingInvariant == ToolingSpec => []ToolingInv
BY ToolingBegins, ToolingStep, PTL DEF ToolingSpec

\* The seven parts side by side as MCTooling has them: every variable of each stays
\* in its set of values, whatever the other parts do.
THEOREM ToolingTypesHold == ToolingSpec => []TypesOK
<1>1. ToolingInv => TypesOK
  BY DEF ToolingInv, TypesOK, ProjectInv, UpdInv, GateInv, QueryInv, BuildInv, FolderTypes
<1> QED BY <1>1, ToolingInvariant, PTL
=============================================================================
