----------------------------- MODULE WorkflowQuery -----------------------------
(***************************************************************************)
(* The commands that ask the platform about workflows and executions:      *)
(* `workflow list` and `get`, and `execution list`, `status`, `events` and *)
(* `logs`.  The platform goes on while they ask: workflows are registered  *)
(* and change status between two pages, executions end between two calls.  *)
(***************************************************************************)
EXTENDS Integers, FiniteSets, Sequences

CONSTANTS
    Lists,       \* what the platform's list may be at first
    NewRows,     \* workflows that may be registered meanwhile
    Tenants,     \* what the registries of the tenant context may be
    Queries,     \* the commands with their arguments
    PageSize,    \* rows of a page
    DefaultLimit,
    MaxLimit,    \* executions that are shown without --limit, and at most
    MaxRows,     \* bound: workflows of the platform
    MaxChanges   \* bound: changes of the platform while a command runs

VARIABLES
    rows,        \* the platform's list: uuid (0: none), id, name, owner, status, source
    execs,       \* its executions: the workflow's uuid and the status
    tenant,      \* the registries, as in the tenant context
    changes,     \* changes of the platform since the command began
    q            \* the command: its arguments, where it is, what it has

queryVars == <<rows, execs, tenant, changes, q>>

ExecIds    == {1, 2}
ExecStates == {"IN_PROGRESS", "SUCCESS", "FAILURE"}
Fetches    == {"summary", "deployment", "executions"}
RowStates  == {"ACTIVE", "PAUSED", "DELETED"}
Elems(s)   == {s[i] : i \in 1..Len(s)}
KnownRows  == NewRows \cup UNION {Elems(l) : l \in Lists}
Rows       == {[r EXCEPT !.status = s] : r \in KnownRows, s \in RowStates}

\* The members of S in the order they have in s.  (SelectSeq is recursive.)
Those(s, S) ==
    LET at      == {i \in 1..Len(s) : s[i] \in S}
        rank(i) == Cardinality({j \in at : j <= i})
    IN  [k \in 1..Cardinality(at) |-> s[CHOOSE i \in at : rank(i) = k]]

Distinct(s) == \A i, j \in 1..Len(s) : s[i].id = s[j].id => i = j

\* The IDs of a list's workflows differ, as do those of a tenant's registries.
\* An execution is asked for by an ID; what is asked of a workflow by its name is
\* its summary or its executions.
ASSUME QueryAssumption ==
    /\ PageSize \in Nat \ {0} /\ MaxRows \in Nat /\ MaxChanges \in Nat
    /\ KnownRows \subseteq
         [uuid : Nat, id : Nat, name : STRING, owner : STRING, status : RowStates,
          source : [kind : {"id", "contract", "grpc"}, id : STRING, addr : STRING,
                    selector : STRING, mentions : SUBSET STRING]]
    /\ \A l \in Lists : l \in Seq(KnownRows) /\ Len(l) <= MaxRows /\ Distinct(l)
    /\ \A t \in Tenants :
         /\ Distinct(t)
         /\ t \in Seq([id : STRING, type : STRING, addr : STRING, selector : STRING])
    /\ \A a \in Queries :
         /\ a.cmd \in {"list", "get", "executions", "execution"}
         /\ a.by \in {"all", "name", "id", "uuid"}
         /\ a.cmd = "list" => a.by = "all"
         /\ a.by = "name" => a.cmd \in {"get", "executions"}
         /\ a.cmd = "execution" => a.by \in {"id", "uuid"}
                                    /\ a.then \in {"execution", "events", "logs"}

\* ref: the name, the ID or the execution; by: which it is; limit: --limit.
NewQuery(a) ==
    [ask |-> a, at |-> "begin", page |-> 0, total |-> 0, all |-> <<>>, target |-> 0, why |-> "",
     done |-> [f \in Fetches |-> "no"], got |-> {}, status |-> "", failures |-> FALSE]

QuerySpots == {"begin", "page", "listed", "fetch", "find", "execution", "events", "logs", "done", "error"}

QueryTypeOK ==
    /\ rows \in Seq(Rows) /\ Len(rows) <= MaxRows
    /\ execs \in [ExecIds -> [wf : Nat, status : ExecStates]]
    /\ tenant \in Tenants /\ changes \in 0..MaxChanges
    /\ q \in [ask : Queries, at : QuerySpots, page : 0..(MaxRows + 1), total : 0..MaxRows,
              all : Seq(Rows), target : Nat, why : {"", "none", "many", "no uuid", "failed"},
              done : [Fetches -> {"no", "ok", "err"}], got : SUBSET ExecIds,
              status : ExecStates \cup {""}, failures : BOOLEAN]

QueryInit ==
    /\ rows \in Lists /\ tenant \in Tenants /\ changes = 0
    /\ \E w \in {1, 2} : execs = [e \in ExecIds |-> [wf |-> IF e = 1 THEN 1 ELSE w,
                                                    status |-> "IN_PROGRESS"]]
    /\ q \in {NewQuery(a) : a \in Queries}

At(s)       == q.at = s
Asks        == UNCHANGED <<rows, execs, tenant, changes>>
GoesTo(s)   == q' = [q EXCEPT !.at = s] /\ Asks
FailsFor(w) == q' = [q EXCEPT !.at = "error", !.why = w] /\ Asks

-----------------------------------------------------------------------------
\* Registries of the tenant context, and the source that a row names: the ID
\* of one, a contract or a gRPC source, whose text may hold some IDs in it.
OffChain(r)       == r.type = "off-chain"
ForContracts(r)   == r.addr # "" /\ ~OffChain(r)
ForGrpc(r)        == OffChain(r) \/ r.addr = ""
FirstOf(s)        == SubSeq(s, 1, IF s = <<>> THEN 0 ELSE 1)
FindRegistry(id)  == FirstOf(Those(tenant, {r \in Elems(tenant) : r.id = id}))

FindContractRegistry(s) ==
    FirstOf(Those(tenant, {r \in Elems(tenant) :
        ForContracts(r) /\ r.addr = s.addr /\ r.selector \in {"", s.selector}}))

\* The only one that may be meant, else the only one that the source mentions.
GrpcRegistry(s) ==
    LET eligible == Those(tenant, {r \in Elems(tenant) : ForGrpc(r)})
        named    == Those(eligible, {r \in Elems(eligible) : r.id \in s.mentions})
    IN  IF Len(eligible) = 1 THEN eligible ELSE IF Len(named) = 1 THEN named ELSE <<>>

\* The registry that is shown for a row: a sequence of one, or of none.
ResolveWorkflowRegistry(s) ==
    CASE s.kind = "id"       -> FindRegistry(s.id)
      [] s.kind = "contract" -> FindContractRegistry(s)
      [] s.kind = "grpc"     -> GrpcRegistry(s)

\* Whether a row is of the registry that was asked for.
SourceMatches(s, reg) ==
    CASE s.kind = "id"       -> s.id = reg.id
      [] s.kind = "contract" -> \E r \in Elems(FindContractRegistry(s)) : r.id = reg.id
      [] s.kind = "grpc"     -> ForGrpc(reg) /\ \E r \in Elems(GrpcRegistry(s)) : r.id = reg.id

FilterRowsByRegistry(l) ==
    IF q.ask.reg = "" THEN l
    ELSE Those(l, {r \in Elems(l) : SourceMatches(r.source, FindRegistry(q.ask.reg)[1])})

-----------------------------------------------------------------------------
\* The arguments are checked against what is at hand.
Begin ==
    /\ At("begin")
    /\ IF q.ask.reg # "" /\ FindRegistry(q.ask.reg) = <<>> THEN FailsFor("failed")
       ELSE GoesTo(CASE q.ask.cmd = "execution" -> IF q.ask.by = "id" THEN "find" ELSE q.ask.then
                     [] q.ask.cmd = "executions" /\ q.ask.by = "all" -> "fetch"
                     [] OTHER -> "page")

\* The platform's search: names that contain the one asked for, of one owner.
Found(r) ==
    q.ask.by = "name" => /\ r.name = q.ask.ref \/ <<r.name, q.ask.ref>> = <<"wf-2", "wf">>
                         /\ q.ask.owner \in {"", r.owner}

AllFound == Those(rows, {r \in Elems(rows) : Found(r)})

Batch ==
    LET end == (q.page + 1) * PageSize
    IN  SubSeq(AllFound, q.page * PageSize + 1, IF end < Len(AllFound) THEN end ELSE Len(AllFound))

Listed(total) ==
    LET all == q.all \o Batch
        end == Len(all) >= total \/ Batch = <<>>
    IN  q' = [q EXCEPT !.page = @ + 1, !.total = total, !.all = all,
                       !.at = IF end THEN "listed" ELSE "page"]

\* Mutant: the size of the first page for the count of all.
ListPageCounted ==
    At("page") /\ Listed(IF q.page = 0 THEN Len(Batch) ELSE q.total) /\ Asks

\* Pages until as many rows are there as were counted with the first, or no more come.
ListPage ==
    /\ At("page")
    /\ \/ FailsFor("failed")
       \/ Listed(IF q.page = 0 THEN Len(AllFound) ELSE q.total) /\ Asks

ShowList ==
    /\ At("listed") /\ q.ask.cmd = "list"
    /\ LET l == FilterRowsByRegistry(q.all) IN
       q' = [q EXCEPT !.at = "done",
                      !.all = Those(l, {r \in Elems(l) : q.ask.deleted \/ r.status # "DELETED"})]
    /\ Asks

Matches == FilterRowsByRegistry(Those(q.all, {r \in Elems(q.all) : r.name = q.ask.ref}))

\* The only active one, else the first; `execution list` does not look whether
\* the active one has a UUID.
ResolveByName ==
    /\ At("listed") /\ q.ask.cmd # "list" /\ q.ask.by = "name"
    /\ LET active == Those(Matches, {r \in Elems(Matches) : r.status = "ACTIVE"})
           chosen == IF active = <<>> THEN Matches[1] ELSE active[1]
       IN  IF Matches = <<>> THEN FailsFor("none")
           ELSE IF Len(active) > 1 THEN FailsFor("many")
           ELSE IF chosen.uuid = 0 /\ ~(q.ask.cmd = "executions" /\ active # <<>>)
                THEN FailsFor("no uuid")
           ELSE q' = [q EXCEPT !.at = "fetch", !.target = chosen.uuid] /\ Asks

ResolveByWorkflowID ==
    /\ At("listed") /\ q.ask.by = "id"
    /\ LET same == Those(q.all, {r \in Elems(q.all) : r.id = q.ask.ref}) IN
       IF same = <<>> THEN FailsFor("none")
       ELSE IF same[1].uuid = 0 THEN FailsFor("no uuid")
       ELSE q' = [q EXCEPT !.at = "fetch", !.target = same[1].uuid] /\ Asks

-----------------------------------------------------------------------------
\* `get` fetches the summary, the last deployment and the last execution at
\* once; the summary a second time, with less in it, if the platform lacks it.
FetchesOf == IF q.ask.cmd = "get" THEN Fetches ELSE {"executions"}

Limit ==
    IF q.ask.limit <= 0 THEN DefaultLimit
    ELSE IF q.ask.limit > MaxLimit THEN MaxLimit ELSE q.ask.limit

\* Executions of the workflow, or of all, no more than the limit.
MayList(es) ==
    LET of == {e \in ExecIds : q.ask.by = "all" \/ execs[e].wf = q.target} IN
    /\ es \subseteq of
    /\ Cardinality(es) = IF Cardinality(of) < Limit THEN Cardinality(of) ELSE Limit

Fetching(f, ok) ==
    /\ At("fetch") /\ f \in FetchesOf /\ q.done[f] = "no"
    /\ q' = [q EXCEPT !.done[f] = IF ok THEN "ok" ELSE "err"]
    /\ Asks

GetWorkflowSummary  == \E ok \in BOOLEAN : Fetching("summary", ok)
GetLatestDeployment == \E ok \in BOOLEAN : Fetching("deployment", ok)

\* What the platform makes of an empty UUID is not said.
ListExecutions ==
    \/ Fetching("executions", FALSE)
    \/ /\ At("fetch") /\ q.done["executions"] = "no"
       /\ \E es \in SUBSET ExecIds :
            /\ MayList(es) \/ (q.target = 0 /\ q.ask.by # "all")
            /\ q' = [q EXCEPT !.done["executions"] = "ok", !.got = es]
       /\ Asks

\* A deployment that could not be fetched is only warned of.
Join ==
    /\ At("fetch") /\ \A f \in FetchesOf : q.done[f] # "no"
    /\ IF \E f \in FetchesOf \ {"deployment"} : q.done[f] = "err" THEN FailsFor("failed")
       ELSE GoesTo("done")

\* An execution by its ID on chain: searched for, then got by its UUID.
FindExecutionByOnChainID ==
    /\ At("find")
    /\ \/ FailsFor("failed")
       \/ IF q.ask.ref \in ExecIds THEN GoesTo(q.ask.then) ELSE FailsFor("none")

GetExecution ==
    /\ At("execution")
    /\ \/ FailsFor("failed")
       \/ /\ q.ask.ref \in ExecIds
          /\ LET s == execs[q.ask.ref].status IN
             q' = [q EXCEPT !.status = s, !.at = IF s = "FAILURE" THEN "events" ELSE "done"]
          /\ Asks

ListEventsOrLogs ==
    /\ q.at \in {"events", "logs"}
    /\ \/ FailsFor("failed")
       \/ q' = [q EXCEPT !.at = "done", !.failures = q.ask.then = "execution"] /\ Asks

-----------------------------------------------------------------------------
\* The platform.
Changes ==
    /\ changes < MaxChanges /\ changes' = changes + 1
    /\ q.at \notin {"begin", "done", "error"} /\ UNCHANGED <<tenant, q>>

Register ==
    /\ Len(rows) < MaxRows
    /\ \E r \in NewRows : /\ r.id \notin {o.id : o \in Elems(rows)}
                         /\ rows' \in {<<r>> \o rows, Append(rows, r)}
    /\ Changes /\ UNCHANGED execs

ChangeStatus ==
    /\ \E i \in 1..Len(rows), s \in RowStates :
         rows[i].status # s /\ rows' = [rows EXCEPT ![i].status = s]
    /\ Changes /\ UNCHANGED execs

ExecutionEnds ==
    /\ \E e \in ExecIds, s \in {"SUCCESS", "FAILURE"} :
         execs[e].status = "IN_PROGRESS" /\ execs' = [execs EXCEPT ![e].status = s]
    /\ Changes /\ UNCHANGED rows

QueryNext ==
    \/ Begin \/ ListPage \/ ShowList \/ ResolveByName \/ ResolveByWorkflowID \/ Join
    \/ FindExecutionByOnChainID \/ GetExecution \/ ListEventsOrLogs
    \/ GetWorkflowSummary \/ GetLatestDeployment \/ ListExecutions
    \/ Register \/ ChangeStatus \/ ExecutionEnds

-----------------------------------------------------------------------------
\* A row of the name, owner and registry that were asked for.
Asked(r) ==
    /\ r.name = q.ask.ref /\ q.ask.owner \in {"", r.owner}
    /\ q.ask.reg # "" => \E g \in Elems(ResolveWorkflowRegistry(r.source)) : g.id = q.ask.reg

\* A list that did not change is shown whole over all its pages, each row once
\* and under the registry it is shown with.  A name resolves to a workflow of
\* that name, owner and registry whatever changed between the pages, and to the
\* only active one if nothing did; it is refused only where there is none, or
\* more than one.  A failed execution is shown with what failed in it.
QueriesAnswer ==
    /\ changes = 0 /\ q.ask.cmd = "list" /\ q.at = "done" =>
         LET wanted == {r \in Elems(rows) :
                          /\ q.ask.deleted \/ r.status # "DELETED"
                          /\ q.ask.reg # "" => \E g \in Elems(ResolveWorkflowRegistry(r.source)) :
                                                 g.id = q.ask.reg}
         IN  Elems(q.all) = wanted /\ Len(q.all) = Cardinality(wanted)
    /\ q.ask.by = "name" =>
         LET asked  == {r \in Elems(rows) : Asked(r)}
             active == {r \in asked : r.status = "ACTIVE"}
         IN  /\ q.target # 0 => \E r \in asked : r.uuid = q.target
             /\ changes = 0 /\ q.target # 0 => active = {} \/ {r.uuid : r \in active} = {q.target}
             /\ changes = 0 /\ q.why = "none" => asked = {}
             /\ changes = 0 /\ q.why = "many" => Cardinality(active) > 1
    /\ q.status = "FAILURE" /\ q.at = "done" => q.failures
=============================================================================
