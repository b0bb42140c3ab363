------------------------------ MODULE MCTooling ------------------------------
(***************************************************************************)
(* The parts of the CLI around its commands, each with small constants:    *)
(* `cre init` with its template cache, self-update, the root command's     *)
(* gate, the queries to the platform, what a simulation needs before and   *)
(* beside its session, and the builds.  They share no state: a behaviour   *)
(* is one part's, the others stay as they are.                             *)
(***************************************************************************)
EXTENDS ProjectInit, SelfUpdate, CommandGate, WorkflowQuery, LogTrigger, SimulateSetup,
        WorkflowBuild

VARIABLE part  \* the part that runs

\* Templates and the ways `cre init` may start.
T(b, d, w, n) == [builtIn |-> b, projectDir |-> d, workflows |-> w, networks |-> n]

BuiltInT == T(TRUE, FALSE, 0, {})
ProjectT == T(FALSE, TRUE, 1, {1})
NamedT   == T(FALSE, FALSE, 1, {1, 2})
RootedT  == T(FALSE, FALSE, 0, {})
PairT    == T(FALSE, FALSE, 2, {})

MCTemplates == {BuiltInT, ProjectT, NamedT, RootedT, PairT}

\* The second version lacks a file of one template and all of another, and a third
\* has its workflow in a directory now.
MCContents ==
    [v \in Names |-> [t \in MCTemplates |->
        CASE t = BuiltInT -> {"project", "tdir"}
          [] t = ProjectT -> IF v = 1 THEN {"project", "tdir"} ELSE {}
          [] t = NamedT   -> IF v = 1 THEN {"project", "loose", "tdir"} ELSE {"project", "tdir"}
          [] t = RootedT  -> IF v = 1 THEN {"project", "loose"} ELSE {"loose", "docs", "tdir"}
          [] t = PairT    -> {"project", "tdir"}]]

\* Places with files, all of the user.
Has(ps) == [p \in Places |-> IF p \in ps THEN Theirs(p) ELSE Of("none")]

R(new, project, t, w, rpcs, bad, quiet, fetch) ==
    [isNew |-> new, project |-> project, template |-> t, workflow |-> w, rpcs |-> rpcs,
     badRpc |-> bad, nonInteractive |-> quiet, refresh |-> fetch]

S(r, ps) == [req |-> r, files |-> Has(ps), runs |-> TRUE]

Old   == {"project", "mine"}
Loose == {"project", "loose", "docs", "inLoose", "inDocs"}

\* Flags that leave something to ask.
Asking ==
    {S(R(TRUE, "", NoTemplate, "", {}, FALSE, FALSE, FALSE), Old),
     S(R(FALSE, "", NoTemplate, "", {}, FALSE, FALSE, TRUE), Old),
     S(R(TRUE, "taken", NamedT, "wdir", {2}, TRUE, FALSE, FALSE), Old)}

\* All the flags, or so they say.
NewNamed   == S(R(TRUE, "free", NamedT, "wdir", {1, 2}, FALSE, TRUE, FALSE), {})
NewProject == S(R(TRUE, "taken", ProjectT, "", {1}, FALSE, TRUE, TRUE), Old)
Quiet ==
    {NewNamed, NewProject,
     S(R(TRUE, "free", RootedT, "wdir", {}, FALSE, TRUE, FALSE), {}),
     S(R(FALSE, "", RootedT, "wdir", {}, FALSE, TRUE, FALSE), Old \cup {"loose"}),
     S(R(FALSE, "", RootedT, "wdir", {}, FALSE, TRUE, FALSE), Loose),
     S(R(FALSE, "", BuiltInT, "", {}, FALSE, TRUE, FALSE), Old \cup {"wdir"}),
     S(R(FALSE, "", PairT, "", {}, FALSE, TRUE, FALSE), Old \cup {"tdir"})}

Alone(s) == <<s, [s EXCEPT !.runs = FALSE]>>

\* One command of any kind, or two with templates of the repository.
MCStarts == {Alone(s) : s \in Asking \cup Quiet} \cup {<<NewNamed, NewProject>>}

-----------------------------------------------------------------------------
\* Registries, rows and queries.
Reg(id, type, addr, sel) == [id |-> id, type |-> type, addr |-> addr, selector |-> sel]
PrivateReg == Reg("private", "off-chain", "", "")
ChainReg   == Reg("mainnet", "on-chain", "a", "1")
MCTenants ==
    {<<PrivateReg, ChainReg>>, <<ChainReg, PrivateReg, Reg("staging", "off-chain", "", "")>>,
     <<Reg("bare", "on-chain", "", ""), Reg("anywhere", "on-chain", "a", ""), ChainReg>>}

Src(kind, id, addr, sel, ms) == [kind |-> kind, id |-> id, addr |-> addr, selector |-> sel, mentions |-> ms]
ById    == Src("id", "private", "", "", {})
OnChain == Src("contract", "", "a", "1", {})
Grpc    == Src("grpc", "", "", "", {"private"})
GrpcTwo == Src("grpc", "", "", "", {"private", "staging"})

Row(u, i, n, o, s, src) == [uuid |-> u, id |-> i, name |-> n, owner |-> o, status |-> s, source |-> src]
Row1 == Row(1, 1, "wf", "o1", "ACTIVE", OnChain)
Row2 == Row(2, 2, "wf", "o1", "PAUSED", ById)
Row3 == Row(3, 3, "wf-2", "o1", "ACTIVE", Grpc)
Row4 == Row(4, 4, "wf", "o2", "DELETED", GrpcTwo)
Row0 == Row(0, 5, "wf", "o1", "ACTIVE", ById)
MCLists == {<<>>, <<Row1, Row2, Row3>>, <<Row3, Row2, Row4>>, <<Row0, Row3, Row4>>}
MCNewRows == {Row(6, 6, "wf", "o1", "ACTIVE", Grpc)} \cup {Row1, Row2, Row3, Row4, Row0}

Ask(c, by, ref, o, reg) ==
    [cmd |-> c, by |-> by, ref |-> ref, owner |-> o, reg |-> reg, deleted |-> FALSE,
     limit |-> 1, then |-> ""]
MCQueries ==
    {Ask("list", "all", "", "", ""), [Ask("list", "all", "", "", "private") EXCEPT !.deleted = TRUE],
     Ask("get", "name", "wf", "o1", "private"), Ask("get", "name", "wf", "o1", "mainnet"),
     Ask("get", "name", "wf", "o1", ""),
     Ask("executions", "name", "wf", "", ""), Ask("executions", "id", 2, "", ""),
     [Ask("executions", "all", "", "", "") EXCEPT !.limit = 3],
     [Ask("executions", "all", "", "", "") EXCEPT !.limit = 0]}
  \cup {[Ask("execution", b, 1, "", "") EXCEPT !.then = t] :
          b \in {"uuid", "id"}, t \in {"execution", "events", "logs"}}
  \cup {[Ask("execution", "id", 7, "", "") EXCEPT !.then = "execution"]}

-----------------------------------------------------------------------------
\* Ways to ask for a chain's event.
Wish(family, tx, index, interactive, listen, limited) ==
    [family |-> family, tx |-> tx, index |-> index, interactive |-> interactive,
     listen |-> listen, limited |-> limited]
Listener == Wish("evm", NoLog, -1, FALSE, TRUE, TRUE)
MCWishes ==
    {Listener, Wish("evm", NoLog, -1, TRUE, TRUE, FALSE), Wish("evm", NoLog, -1, TRUE, FALSE, TRUE),
     Wish("evm", NoLog, -1, FALSE, FALSE, FALSE), Wish("evm", 1, 0, FALSE, FALSE, FALSE),
     Wish("evm", 1, 1, TRUE, FALSE, FALSE), Wish("evm", 1, 0, FALSE, TRUE, FALSE),
     Wish("solana", 1, 0, FALSE, FALSE, FALSE), Wish("solana", NoLog, -1, TRUE, FALSE, FALSE)}

\* Flags, settings, limits and triggers of a simulation.
Told(broadcast, quiet, listen, index, lims, payload) ==
    [broadcast |-> broadcast, quiet |-> quiet, listen |-> listen, index |-> index,
     limits |-> lims, payload |-> payload]
Plain == Told(FALSE, FALSE, FALSE, -1, "default", "")
MCFlags ==
    {Plain, Told(TRUE, TRUE, FALSE, 1, "default", "good"), Told(TRUE, FALSE, TRUE, 0, "file", ""),
     Told(FALSE, TRUE, TRUE, 0, "none", "bad"), Told(FALSE, TRUE, FALSE, -1, "file", "good")}

Exp(sel, type, url, forwarder) == [selector |-> sel, type |-> type, url |-> url, forwarder |-> forwarder]
Local == Exp("local", "", TRUE, "x")
Target(rpcs, exps) == [rpcs |-> rpcs, experimental |-> exps]
BuiltInOnly == Target({"sepolia", "devnet"}, <<>>)
MCSettings ==
    {BuiltInOnly, Target({}, <<>>), Target({"sepolia"}, <<Local, Exp("sepolia", "evm", TRUE, "y")>>),
     Target({"devnet"}, <<Exp("local", "solana", TRUE, "x")>>),
     Target({}, <<Local, Exp("local", "evm", TRUE, "y")>>),
     Target({"sepolia"}, <<Exp("local", "", TRUE, "")>>), Target({}, <<Exp("local", "", FALSE, "x")>>)}

MCLimitFiles == {NoLimits, [binary |-> 3, packed |-> 1, in |-> 0, out |-> 1]}

Trig(kind, sel) == [kind |-> kind, selector |-> sel]
MCTriggerLists ==
    {<<>>, <<Trig("cron", "")>>, <<Trig("http", ""), Trig("chain", "sepolia")>>,
     <<Trig("chain", "local"), Trig("chain", "devnet")>>, <<Trig("other", "")>>}

\* Who builds in the folder.
MCBuilders == {"b1", "b2", "b3"}
Jobs(x, y, z) == [b \in MCBuilders |-> CASE b = "b1" -> x [] b = "b2" -> y [] OTHER -> z]
MCJobs == {Jobs("simulate", "build", "deploy"), Jobs("convert", "deploy", "hash")}

-----------------------------------------------------------------------------
\* What a part starts from that does not run.
NoQuery == Ask("list", "all", "", "", "")

Init ==
    /\ part \in {"init", "update", "gate", "query", "listen", "setup", "build"}
    /\ InitInit /\ (part # "init" => req = [c \in Cmds |-> NewNamed.req])
    /\ UpdInit /\ (part # "update" => binary.ver = 1 /\ upd = [u \in Updaters |-> NewUpd(FALSE)])
    /\ GateInit /\ (part # "gate" => cmd.name = "init")
    /\ QueryInit
    /\ part # "query" => rows = <<>> /\ tenant = <<PrivateReg, ChainReg>> /\ q.ask = NoQuery
                        /\ execs[2].wf = 1
    /\ LogInit /\ (part # "listen" => wish = Listener)
    /\ SetupInit /\ (part # "setup" => told = Plain /\ target = BuiltInOnly)
    /\ BuildInit /\ (part # "build" => job = Jobs("convert", "deploy", "hash") /\ above = FALSE)

Next ==
    /\ UNCHANGED part
    /\ IF part = "init" THEN InitNext ELSE UNCHANGED <<initVars, cacheVars>>
    /\ IF part = "update" THEN UpdNext ELSE UNCHANGED updVars
    /\ IF part = "gate" THEN GateNext ELSE UNCHANGED gateVars
    /\ IF part = "query" THEN QueryNext ELSE UNCHANGED queryVars
    /\ IF part = "listen" THEN LogNext ELSE UNCHANGED logVars
    /\ IF part = "setup" THEN SetupNext ELSE UNCHANGED setupVars
    /\ IF part = "build" THEN BuildNext ELSE UNCHANGED buildVars

\* Every variable of the seven parts stays in its set of values.
TypesOK ==
    /\ InitTypeOK /\ UpdTypeOK /\ GateTypeOK /\ QueryTypeOK
    /\ LogTypeOK /\ SetupTypeOK /\ BuildTypeOK
=============================================================================
