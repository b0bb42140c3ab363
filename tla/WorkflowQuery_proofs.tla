------------------------- MODULE WorkflowQuery_proofs -------------------------
(***************************************************************************)
(* Proofs about the queries to the platform: what the selections from the  *)
(* lists keep, and from it that a query answers what was asked.            *)
(***************************************************************************)
EXTENDS WorkflowQuery, SequenceTheorems, FunctionTheorems, FiniteSetTheorems, TLAPS

-----------------------------------------------------------------------------
\* Of the places of a sequence that are selected, the k-th is the only one
\* with k selected places up to it: ranks are a bijection.
LEMMA RanksOnto ==
    ASSUME NEW n \in Nat, NEW at \in SUBSET (1..n)
    PROVE  /\ Cardinality(at) \in Nat /\ Cardinality(at) <= n
           /\ \A i \in at : Cardinality({j \in at : j <= i}) \in 1..Cardinality(at)
           /\ \A i, h \in at : Cardinality({j \in at : j <= i}) = Cardinality({j \in at : j <= h}) => i = h
           /\ \A k \in 1..Cardinality(at) : \E i \in at : Cardinality({j \in at : j <= i}) = k
<1> DEFINE rank == [i \in at |-> Cardinality({j \in at : j <= i})]
<1>1. IsFiniteSet(at) /\ Cardinality(at) \in Nat /\ Cardinality(at) <= n
    <2>1. IsFiniteSet(1..n) /\ Cardinality(1..n) = n
        BY FS_Interval
    <2> QED BY <2>1, FS_Subset, FS_CardinalityType
<1>2. ASSUME NEW i \in at
      PROVE  /\ IsFiniteSet({j \in at : j <= i})
             /\ Cardinality({j \in at : j <= i}) \in 1..Cardinality(at)
    <2>1. {j \in at : j <= i} \in SUBSET at
        OBVIOUS
    <2>2. IsFiniteSet({j \in at : j <= i}) /\ Cardinality({j \in at : j <= i}) <= Cardinality(at)
        BY <2>1, <1>1, FS_Subset
    <2>3. i \in {j \in at : j <= i}
        OBVIOUS
    <2>4. Cardinality({j \in at : j <= i}) \in Nat /\ Cardinality({j \in at : j <= i}) # 0
        BY <2>2, <2>3, FS_CardinalityType, FS_EmptySet
    <2> QED BY <1>1, <2>2, <2>4
<1>3. ASSUME NEW i \in at, NEW h \in at, i < h
      PROVE  Cardinality({j \in at : j <= i}) # Cardinality({j \in at : j <= h})
    <2>1. {j \in at : j <= i} \in SUBSET {j \in at : j <= h}
        <3>1. \A j \in at : j <= i => j <= h
            BY <1>3
        <3> QED BY <3>1
    <2>2. h \in {j \in at : j <= h} /\ h \notin {j \in at : j <= i}
        BY <1>3
    <2>3. {j \in at : j <= i} # {j \in at : j <= h}
        BY <2>2
    <2> QED BY <2>1, <2>3, <1>2, FS_Subset
<1>4. ASSUME NEW i \in at, NEW h \in at, rank[i] = rank[h]
      PROVE  i = h
    <2>1. i < h \/ h < i \/ i = h
        OBVIOUS
    <2> QED BY <2>1, <1>3, <1>4
<1>5. rank \in [at -> 1..Cardinality(at)]
    BY <1>2
<1>6. rank \in Injection(at, 1..Cardinality(at))
    BY <1>4, <1>5, Fun_IsInj
<1>7. rank \in Surjection(at, 1..Cardinality(at))
    <2>1. IsFiniteSet(1..Cardinality(at)) /\ Cardinality(1..Cardinality(at)) = Cardinality(at)
        BY <1>1, FS_Interval
    <2> QED BY <1>6, <2>1, FS_Injection
<1>8. \A k \in 1..Cardinality(at) : \E i \in at : rank[i] = k
    BY <1>7 DEF Surjection
<1> QED BY <1>1, <1>2, <1>4, <1>8

\* The places of a sequence that are selected.
Selected(s, S) == {i \in 1..Len(s) : s[i] \in S}

\* What a selection keeps: its places are the selected ones, each once.
LEMMA ThosePlaces ==
    ASSUME NEW X, NEW s \in Seq(X), NEW S
    PROVE  /\ IsFiniteSet(Selected(s, S)) /\ Cardinality(Selected(s, S)) \in Nat /\ Cardinality(Selected(s, S)) <= Len(s)
           /\ Those(s, S) \in Seq(X)
           /\ Len(Those(s, S)) = Cardinality(Selected(s, S))
           /\ \E f \in [1..Cardinality(Selected(s, S)) -> Selected(s, S)] :
                /\ \A k \in 1..Cardinality(Selected(s, S)) : Those(s, S)[k] = s[f[k]]
                /\ \A k, l \in 1..Cardinality(Selected(s, S)) : f[k] = f[l] => k = l
                /\ \A i \in Selected(s, S) : \E k \in 1..Cardinality(Selected(s, S)) : f[k] = i
<1> DEFINE at == Selected(s, S)
           rank(i) == Cardinality({j \in at : j <= i})
           f == [k \in 1..Cardinality(at) |-> CHOOSE i \in at : rank(i) = k]
<1>0. Len(s) \in Nat /\ at \in SUBSET (1..Len(s)) /\ IsFiniteSet(1..Len(s))
    BY FS_Interval, LenProperties DEF Selected
<1>1. /\ Cardinality(at) \in Nat /\ Cardinality(at) <= Len(s)
      /\ \A i \in at : rank(i) \in 1..Cardinality(at)
      /\ \A i, h \in at : rank(i) = rank(h) => i = h
      /\ \A k \in 1..Cardinality(at) : \E i \in at : rank(i) = k
    <2> HIDE DEF at
    <2> QED BY <1>0, RanksOnto
<1>2. IsFiniteSet(at)
    BY <1>0, FS_Subset
<1>3. Those(s, S) = [k \in 1..Cardinality(at) |-> s[CHOOSE i \in at : rank(i) = k]]
    BY DEF Those, Selected
<1> DEFINE card == Cardinality(at)
<1>4. \A k \in 1..card : f[k] \in at /\ rank(f[k]) = k
    <2> HIDE DEF at, rank
    <2>1. \A k \in 1..card : \E i \in at : rank(i) = k
        BY <1>1
    <2> QED BY <2>1
<1>5. Those(s, S) = [k \in 1..card |-> s[f[k]]]
    <2> HIDE DEF at, rank
    <2> QED BY <1>3
<1>6. \A k \in 1..card : s[f[k]] \in X
    <2> HIDE DEF f, at, rank, card
    <2> QED BY <1>4, <1>0, LenProperties
<1> HIDE DEF f, card, at, rank
<1>7. Those(s, S) \in Seq(X) /\ Len(Those(s, S)) = card
    BY <1>5, <1>6, <1>1 DEF card
<1>8. f \in [1..card -> at]
    BY <1>4 DEF f, card
<1>9. \A k \in 1..card : Those(s, S)[k] = s[f[k]]
    BY <1>5
<1>10. \A k, l \in 1..card : f[k] = f[l] => k = l
    BY <1>4
<1>11. \A i \in at : \E k \in 1..card : f[k] = i
    BY <1>1, <1>4 DEF card
<1> QED BY <1>1, <1>2, <1>7, <1>8, <1>9, <1>10, <1>11 DEF card, at

\* The members that are selected.
LEMMA ThoseElems ==
    ASSUME NEW X, NEW s \in Seq(X), NEW S
    PROVE  /\ Elems(Those(s, S)) = Elems(s) \cap S
           /\ Len(Those(s, S)) \in Nat /\ Len(Those(s, S)) <= Len(s)
           /\ Those(s, S) = <<>> <=> Elems(s) \cap S = {}
<1>1. /\ Those(s, S) \in Seq(X) /\ Len(Those(s, S)) = Cardinality(Selected(s, S))
      /\ Cardinality(Selected(s, S)) \in Nat /\ Cardinality(Selected(s, S)) <= Len(s)
    BY ThosePlaces
<1>2. PICK f \in [1..Cardinality(Selected(s, S)) -> Selected(s, S)] :
           /\ \A k \in 1..Cardinality(Selected(s, S)) : Those(s, S)[k] = s[f[k]]
           /\ \A i \in Selected(s, S) : \E k \in 1..Cardinality(Selected(s, S)) : f[k] = i
    BY ThosePlaces
<1>3. Elems(Those(s, S)) \subseteq Elems(s) \cap S
    BY <1>1, <1>2 DEF Elems, Selected
<1>4. Elems(s) \cap S \subseteq Elems(Those(s, S))
    <2>1. \A e \in Elems(s) \cap S : \E i \in Selected(s, S) : s[i] = e
        BY DEF Elems, Selected
    <2>2. \A i \in Selected(s, S) : \E k \in 1..Len(Those(s, S)) : Those(s, S)[k] = s[i]
        BY <1>1, <1>2
    <2> QED BY <2>1, <2>2 DEF Elems
<1>5. Those(s, S) = <<>> <=> Len(Those(s, S)) = 0
    BY <1>1
<1>6. Len(Those(s, S)) = 0 <=> Elems(Those(s, S)) = {}
    <2>1. Len(Those(s, S)) # 0 => 1 \in 1..Len(Those(s, S))
        BY <1>1
    <2>2. Len(Those(s, S)) = 0 => 1..Len(Those(s, S)) = {}
        OBVIOUS
    <2> QED BY <2>1, <2>2 DEF Elems
<1> QED BY <1>1, <1>3, <1>4, <1>5, <1>6

\* Members that differ by their IDs still do.
LEMMA ThoseDistinct ==
    ASSUME NEW X, NEW s \in Seq(X), NEW S, Distinct(s)
    PROVE  Distinct(Those(s, S))
<1>1. Len(Those(s, S)) = Cardinality(Selected(s, S))
    BY ThosePlaces
<1>2. PICK f \in [1..Cardinality(Selected(s, S)) -> Selected(s, S)] :
           /\ \A k \in 1..Cardinality(Selected(s, S)) : Those(s, S)[k] = s[f[k]]
           /\ \A k, l \in 1..Cardinality(Selected(s, S)) : f[k] = f[l] => k = l
    BY ThosePlaces
<1>3. ASSUME NEW k \in 1..Cardinality(Selected(s, S)), NEW l \in 1..Cardinality(Selected(s, S)),
             Those(s, S)[k].id = Those(s, S)[l].id
      PROVE  k = l
    <2>1. f[k] \in 1..Len(s) /\ f[l] \in 1..Len(s)
        BY DEF Selected
    <2>2. s[f[k]].id = s[f[l]].id
        BY <1>2, <1>3
    <2>3. f[k] = f[l]
        BY <2>1, <2>2 DEF Distinct
    <2> QED BY <2>3, <1>2
<1> QED BY <1>1, <1>3 DEF Distinct

\* A list of distinct members has as many of them as it is long.
LEMMA DistinctCount ==
    ASSUME NEW X, NEW s \in Seq(X), Distinct(s)
    PROVE  IsFiniteSet(Elems(s)) /\ Cardinality(Elems(s)) = Len(s)
<1> DEFINE f == [i \in 1..Len(s) |-> s[i]]
<1>1. f \in Bijection(1..Len(s), Elems(s))
    <2>1. f \in [1..Len(s) -> Elems(s)]
        BY DEF Elems
    <2>2. \A i, j \in 1..Len(s) : f[i] = f[j] => i = j
        BY DEF Distinct
    <2>3. \A e \in Elems(s) : \E i \in 1..Len(s) : f[i] = e
        BY DEF Elems
    <2> HIDE DEF f
    <2> QED BY <2>1, <2>2, <2>3 DEF Bijection, Injection, Surjection, IsInjective
<1>2. Len(s) \in Nat
    BY LenProperties
<1> QED BY <1>1, <1>2, FS_CountingElements, FS_NatBijection DEF ExistsBijection

-----------------------------------------------------------------------------
QuerySpec == QueryInit /\ [][QueryNext]_queryVars

\* A row before and after changes of its status.
SameRow(a, r) ==
    a.uuid = r.uuid /\ a.id = r.id /\ a.name = r.name /\ a.owner = r.owner /\ a.source = r.source

\* No workflow is listed twice, and none goes: a row that a page brought is one
\* that was asked for, and the platform has it still, maybe with another status.
RowsKept ==
    /\ Distinct(rows)
    /\ \A a \in Elems(q.all) : Found(a) /\ \E r \in Elems(rows) : SameRow(a, r)

\* How many rows the pages before this one had, of a list that did not change.
PagesBefore == IF q.page * PageSize < Len(AllFound) THEN q.page * PageSize ELSE Len(AllFound)

\* Each page but the last brings a row, so that there are no more of them than rows.
\* While the platform stays as it was, the pages so far are the list's beginning.
Paging ==
    /\ q.at \in {"begin", "page"} /\ q.page = 0 => q.all = <<>>
    /\ q.at = "begin" => q.page = 0
    /\ q.at = "page" /\ q.page # 0 => q.page <= Len(q.all) /\ Len(q.all) < q.total
    /\ changes = 0 /\ q.at = "page" =>
         q.all = SubSeq(AllFound, 1, PagesBefore) /\ (q.page # 0 => q.total = Len(AllFound))
    /\ changes = 0 /\ q.at = "listed" => q.all = AllFound

\* Where a command may be: what was checked at its beginning, and which ways
\* lead on from there.
WaysOn ==
    /\ q.at \notin {"begin", "error"} /\ q.ask.reg # "" => FindRegistry(q.ask.reg) # <<>>
    /\ q.at = "find" => q.ask.cmd = "execution" /\ q.ask.by = "id"
    /\ q.at = "execution" => q.ask.then = "execution"
    /\ q.ask.cmd = "list" => q.at \in {"begin", "page", "listed", "done", "error"}
    /\ q.status = "FAILURE" =>
         \/ q.at = "events" /\ q.ask.then = "execution"
         \/ q.at = "done" /\ q.failures
         \/ q.at = "error"

\* The registry that a row is shown with has the ID.
ShownIn(s, id) == \E g \in Elems(ResolveWorkflowRegistry(s)) : g.id = id

\* The rows that a list should show, those a name stands for, and the active ones of them.
WantedRows ==
    {r \in Elems(rows) :
       /\ q.ask.deleted \/ r.status # "DELETED"
       /\ q.ask.reg # "" => ShownIn(r.source, q.ask.reg)}
AskedRows   == {r \in Elems(rows) : Asked(r)}
ActiveAsked == {r \in AskedRows : r.status = "ACTIVE"}

ListShown ==
    changes = 0 /\ q.ask.cmd = "list" /\ q.at = "done" =>
        Elems(q.all) = WantedRows /\ Len(q.all) = Cardinality(WantedRows)

NameResolved ==
    q.ask.by = "name" =>
        /\ q.target # 0 => \E r \in AskedRows : r.uuid = q.target
        /\ changes = 0 /\ q.target # 0 => ActiveAsked = {} \/ {r.uuid : r \in ActiveAsked} = {q.target}
        /\ changes = 0 /\ q.why = "none" => AskedRows = {}
        /\ changes = 0 /\ q.why = "many" => Cardinality(ActiveAsked) > 1

\* What a query's record may be.
QueryRecords ==
    [ask : Queries, at : QuerySpots, page : 0..(MaxRows + 1), total : 0..MaxRows,
     all : Seq(Rows), target : Nat, why : {"", "none", "many", "no uuid", "failed"},
     done : [Fetches -> {"no", "ok", "err"}], got : SUBSET ExecIds,
     status : ExecStates \cup {""}, failures : BOOLEAN]

QueryInv == QueryTypeOK /\ RowsKept /\ Paging /\ WaysOn /\ ListShown /\ NameResolved

-----------------------------------------------------------------------------
\* The first of a sequence.
LEMMA FirstOfFacts ==
    ASSUME NEW X, NEW s \in Seq(X)
    PROVE  /\ s = <<>> => FirstOf(s) = <<>> /\ Elems(FirstOf(s)) = {}
           /\ s # <<>> => /\ FirstOf(s) # <<>> /\ Elems(FirstOf(s)) = {s[1]}
                          /\ FirstOf(s)[1] = s[1] /\ s[1] \in Elems(s)
<1>1. CASE s = <<>>
    <2>1. FirstOf(s) = <<>>
        BY <1>1, SubSeqEmpty DEF FirstOf
    <2>2. Elems(<<>>) = {}
        BY DEF Elems
    <2> QED BY <1>1, <2>1, <2>2
<1>2. CASE s # <<>>
    <2>1. Len(s) \in Nat \ {0} /\ 1 \in 1..Len(s)
        BY <1>2, EmptySeq
    <2>2. s[1] \in X /\ s[1] \in Elems(s)
        BY <2>1, ElementOfSeq DEF Elems
    <2>3. FirstOf(s) = SubSeq(s, 1, 1)
        BY <1>2 DEF FirstOf
    <2>4. \A i \in 1..1 : s[i] \in X
        BY <2>2
    <2>5. /\ SubSeq(s, 1, 1) \in Seq(X) /\ Len(SubSeq(s, 1, 1)) = 1
          /\ SubSeq(s, 1, 1)[1] = s[1]
        BY <2>4, SubSeqProperties
    <2>6. Elems(FirstOf(s)) = {s[1]}
        BY <2>3, <2>5 DEF Elems
    <2>7. FirstOf(s) # <<>>
        <3>1. FirstOf(s) \in Seq(X) /\ Len(FirstOf(s)) = 1
            BY <2>3, <2>5
        <3> QED BY <3>1, EmptySeq
    <2> QED BY <1>2, <2>2, <2>3, <2>5, <2>6, <2>7
<1> QED BY <1>1, <1>2

RegistryRecords == [id : STRING, type : STRING, addr : STRING, selector : STRING]

\* The registry of an ID is the tenant's only one that has it.
LEMMA FindRegistryFacts ==
    ASSUME tenant \in Tenants, NEW id
    PROVE  /\ tenant \in Seq(RegistryRecords) /\ Distinct(tenant)
           /\ Elems(FindRegistry(id)) = {g \in Elems(tenant) : g.id = id}
           /\ FindRegistry(id) # <<>> => FindRegistry(id)[1] \in Elems(tenant) /\ FindRegistry(id)[1].id = id
           /\ FindRegistry(id) = <<>> => \A g \in Elems(tenant) : g.id # id
<1> DEFINE S == {g \in Elems(tenant) : g.id = id}
           t == Those(tenant, S)
<1>1. tenant \in Seq(RegistryRecords) /\ Distinct(tenant)
    BY QueryAssumption DEF RegistryRecords
<1>2. t \in Seq(RegistryRecords) /\ Elems(t) = Elems(tenant) \cap S /\ (t = <<>> <=> Elems(tenant) \cap S = {})
    <2> HIDE DEF S
    <2> QED BY <1>1, ThosePlaces, ThoseElems
<1>3. Elems(t) = S /\ (t = <<>> <=> S = {})
    BY <1>2
<1>4. \A g, h \in S : g = h
    BY <1>1 DEF Distinct, Elems
<1>5. FindRegistry(id) = FirstOf(t)
    BY DEF FindRegistry
<1> HIDE DEF t
<1>6. CASE t = <<>>
    <2>1. FindRegistry(id) = <<>> /\ Elems(FindRegistry(id)) = {}
        BY <1>2, <1>5, <1>6, FirstOfFacts
    <2>2. S = {}
        BY <1>3, <1>6
    <2> HIDE DEF S
    <2>3. Elems(FindRegistry(id)) = S
        BY <2>1, <2>2
    <2> QED BY <1>1, <2>1, <2>2, <2>3 DEF S
<1>7. CASE t # <<>>
    <2>1. FirstOf(t) # <<>> /\ Elems(FirstOf(t)) = {t[1]} /\ FirstOf(t)[1] = t[1] /\ t[1] \in Elems(t)
        BY <1>2, <1>7, FirstOfFacts
    <2>2. t[1] \in S
        BY <2>1, <1>3
    <2> HIDE DEF S
    <2>3. S = {t[1]}
        BY <2>2, <1>4
    <2> QED BY <1>1, <1>5, <2>1, <2>2, <2>3 DEF S
<1> QED BY <1>6, <1>7

\* The registry that a gRPC source means is one for such sources.
LEMMA GrpcRegistryFacts ==
    ASSUME tenant \in Tenants, NEW s
    PROVE  \A g \in Elems(GrpcRegistry(s)) : g \in Elems(tenant) /\ ForGrpc(g)
<1> DEFINE eligible == Those(tenant, {r \in Elems(tenant) : ForGrpc(r)})
           named    == Those(eligible, {r \in Elems(eligible) : r.id \in s.mentions})
<1>1. tenant \in Seq(RegistryRecords)
    BY FindRegistryFacts
<1>2. eligible \in Seq(RegistryRecords) /\ Elems(eligible) = Elems(tenant) \cap {r \in Elems(tenant) : ForGrpc(r)}
    BY <1>1, ThosePlaces, ThoseElems
<1>3. Elems(named) \subseteq Elems(eligible)
    <2> HIDE DEF eligible
    <2> QED BY <1>2, ThoseElems
<1>4. Elems(<<>>) = {}
    BY DEF Elems
<1>5. GrpcRegistry(s) \in {eligible, named, <<>>}
    BY DEF GrpcRegistry
<1> QED BY <1>2, <1>3, <1>4, <1>5

\* A row is of the registry that was asked for just when it is the one it is
\* shown with.
LEMMA SourceMatchesShown ==
    ASSUME tenant \in Tenants, NEW s, s.kind \in {"id", "contract", "grpc"},
           NEW reg \in Elems(tenant)
    PROVE  SourceMatches(s, reg) <=> ShownIn(s, reg.id)
<1>1. CASE s.kind = "id"
    <2>1. Elems(FindRegistry(s.id)) = {g \in Elems(tenant) : g.id = s.id}
        BY FindRegistryFacts
    <2>2. SourceMatches(s, reg) <=> s.id = reg.id
        BY <1>1 DEF SourceMatches
    <2>3. ResolveWorkflowRegistry(s) = FindRegistry(s.id)
        BY <1>1 DEF ResolveWorkflowRegistry
    <2> QED BY <2>1, <2>2, <2>3 DEF ShownIn
<1>2. CASE s.kind = "contract"
    BY <1>2 DEF SourceMatches, ResolveWorkflowRegistry, ShownIn
<1>3. CASE s.kind = "grpc"
    <2>1. \A g \in Elems(GrpcRegistry(s)) : g \in Elems(tenant) /\ ForGrpc(g)
        BY GrpcRegistryFacts
    <2>2. \A g \in Elems(tenant) : g.id = reg.id => g = reg
        BY FindRegistryFacts DEF Distinct, Elems
    <2>3. SourceMatches(s, reg) <=> ForGrpc(reg) /\ \E g \in Elems(GrpcRegistry(s)) : g.id = reg.id
        BY <1>3 DEF SourceMatches
    <2>4. ResolveWorkflowRegistry(s) = GrpcRegistry(s)
        BY <1>3 DEF ResolveWorkflowRegistry
    <2> QED BY <2>1, <2>2, <2>3, <2>4 DEF ShownIn
<1> QED BY <1>1, <1>2, <1>3

-----------------------------------------------------------------------------
\* A row is a record, whose status can be any.
LEMMA RowsTyped ==
    /\ KnownRows \subseteq Rows
    /\ \A r \in Rows : /\ r.uuid \in Nat /\ r.status \in RowStates
                       /\ r.source.kind \in {"id", "contract", "grpc"}
    /\ \A r \in Rows, s \in RowStates :
         /\ [r EXCEPT !.status = s] \in Rows
         /\ SameRow(r, [r EXCEPT !.status = s])
<1> DEFINE Sources == [kind : {"id", "contract", "grpc"}, id : STRING, addr : STRING,
                       selector : STRING, mentions : SUBSET STRING]
           RowSet  == [uuid : Nat, id : Nat, name : STRING, owner : STRING, status : RowStates,
                       source : Sources]
<1>1. KnownRows \subseteq RowSet
    BY QueryAssumption
<1>2. \A e \in Sources : e.kind \in {"id", "contract", "grpc"}
    OBVIOUS
<1> HIDE DEF Sources
<1>3. \A r \in RowSet : /\ r = [r EXCEPT !.status = r.status]
                        /\ r.uuid \in Nat /\ r.status \in RowStates /\ r.source \in Sources
    OBVIOUS
<1>4. \A r \in RowSet, s, u \in RowStates :
         /\ [r EXCEPT !.status = s] \in RowSet
         /\ [[r EXCEPT !.status = s] EXCEPT !.status = u] = [r EXCEPT !.status = u]
         /\ SameRow(r, [r EXCEPT !.status = u])
    BY DEF SameRow
<1> HIDE DEF RowSet
<1>5. \A r \in Rows : \E k \in KnownRows, s \in RowStates : r = [k EXCEPT !.status = s]
    BY DEF Rows
<1>6. Rows \subseteq RowSet
    BY <1>1, <1>4, <1>5
<1>7. KnownRows \subseteq Rows
    BY <1>1, <1>3 DEF Rows
<1>8. ASSUME NEW r \in Rows, NEW s \in RowStates
      PROVE  [r EXCEPT !.status = s] \in Rows
    <2>1. PICK k \in KnownRows, u \in RowStates : r = [k EXCEPT !.status = u]
        BY <1>5
    <2>2. [r EXCEPT !.status = s] = [k EXCEPT !.status = s]
        BY <1>1, <1>4, <2>1
    <2> QED BY <2>2 DEF Rows
<1>9. \A r \in Rows : /\ r.uuid \in Nat /\ r.status \in RowStates
                      /\ r.source.kind \in {"id", "contract", "grpc"}
    BY <1>2, <1>3, <1>6
<1> QED BY <1>4, <1>6, <1>7, <1>8, <1>9

\* What is left of a list for a registry.
LEMMA FilterFacts ==
    ASSUME tenant \in Tenants, NEW l \in Seq(Rows),
           q.ask.reg # "" => FindRegistry(q.ask.reg) # <<>>
    PROVE  /\ FilterRowsByRegistry(l) \in Seq(Rows)
           /\ Elems(FilterRowsByRegistry(l)) =
                {r \in Elems(l) : q.ask.reg # "" => ShownIn(r.source, q.ask.reg)}
           /\ Distinct(l) => Distinct(FilterRowsByRegistry(l))
<1>1. CASE q.ask.reg = ""
    <2>1. FilterRowsByRegistry(l) = l
        BY <1>1 DEF FilterRowsByRegistry
    <2>2. Elems(l) = {r \in Elems(l) : q.ask.reg # "" => ShownIn(r.source, q.ask.reg)}
        BY <1>1
    <2> QED BY <2>1, <2>2
<1>2. CASE q.ask.reg # ""
    <2>1. Elems(l) \subseteq Rows
        BY ElementOfSeq DEF Elems
    <2>2. ASSUME NEW r \in Elems(l)
          PROVE  SourceMatches(r.source, FindRegistry(q.ask.reg)[1])
                   <=> ShownIn(r.source, q.ask.reg)
        <3>1. r.source.kind \in {"id", "contract", "grpc"}
            BY <2>1, RowsTyped
        <3>2. PICK reg \in Elems(tenant) : reg = FindRegistry(q.ask.reg)[1] /\ reg.id = q.ask.reg
            BY <1>2, FindRegistryFacts
        <3>3. SourceMatches(r.source, reg) <=> ShownIn(r.source, reg.id)
            BY ONLY tenant \in Tenants, reg \in Elems(tenant), <3>1, SourceMatchesShown
        <3> QED BY <3>2, <3>3
    <2> DEFINE S == {r \in Elems(l) : SourceMatches(r.source, FindRegistry(q.ask.reg)[1])}
               W == {r \in Elems(l) : q.ask.reg # "" => ShownIn(r.source, q.ask.reg)}
    <2>3. FilterRowsByRegistry(l) = Those(l, S)
        BY <1>2 DEF FilterRowsByRegistry
    <2>4. S = W
        BY <1>2, <2>2
    <2>5. S \subseteq Elems(l)
        OBVIOUS
    <2> HIDE DEF S, W
    <2>6. Elems(Those(l, S)) = Elems(l) \cap S
        BY ThoseElems
    <2>7. Those(l, S) \in Seq(Rows)
        BY ThosePlaces
    <2>8. Distinct(l) => Distinct(Those(l, S))
        BY ThoseDistinct
    <2>9. Elems(Those(l, S)) = W
        BY <2>4, <2>5, <2>6
    <2> QED BY <2>3, <2>7, <2>8, <2>9 DEF W
<1> QED BY <1>1, <1>2

\* The rows that are found: some of the platform's.
LEMMA AllFoundFacts ==
    ASSUME QueryTypeOK, RowsKept
    PROVE  /\ AllFound \in Seq(Rows) /\ Distinct(AllFound)
           /\ Elems(AllFound) = {r \in Elems(rows) : Found(r)}
           /\ Len(AllFound) \in 0..MaxRows
<1> DEFINE S == {r \in Elems(rows) : Found(r)}
<1>1. rows \in Seq(Rows) /\ Len(rows) <= MaxRows /\ Distinct(rows)
    BY DEF QueryTypeOK, RowsKept
<1>2. AllFound = Those(rows, S)
    BY DEF AllFound
<1>3. Elems(rows) \cap S = S
    OBVIOUS
<1> HIDE DEF S
<1>4. /\ Those(rows, S) \in Seq(Rows) /\ Distinct(Those(rows, S))
      /\ Elems(Those(rows, S)) = S
      /\ Len(Those(rows, S)) \in Nat /\ Len(Those(rows, S)) <= Len(rows)
    BY <1>1, <1>3, ThosePlaces, ThoseElems, ThoseDistinct
<1>5. Len(rows) \in Nat
    BY <1>1, LenProperties
<1> QED BY <1>1, <1>2, <1>4, <1>5, QueryAssumption DEF S

-----------------------------------------------------------------------------
\* It holds at first.
LEMMA QueryInvInit == QueryInit => QueryInv
<1> SUFFICES ASSUME QueryInit PROVE QueryInv
    OBVIOUS
<1>1. PICK a \in Queries : q = NewQuery(a)
    BY DEF QueryInit
<1>2. /\ rows \in Seq(KnownRows) /\ Len(rows) <= MaxRows /\ Distinct(rows)
      /\ tenant \in Tenants /\ changes = 0
    BY QueryAssumption DEF QueryInit
<1>3. /\ q.ask = a /\ q.at = "begin" /\ q.page = 0 /\ q.all = <<>> /\ q.target = 0 /\ q.why = ""
      /\ q.status = ""
    BY <1>1 DEF NewQuery
<1>4. q \in QueryRecords
    <2>1. [f \in Fetches |-> "no"] \in [Fetches -> {"no", "ok", "err"}]
        OBVIOUS
    <2>2. <<>> \in Seq(Rows) /\ {} \in SUBSET ExecIds /\ FALSE \in BOOLEAN
        BY EmptySeq
    <2>3. 0 \in 0..(MaxRows + 1) /\ 0 \in 0..MaxRows /\ 0 \in Nat
        BY QueryAssumption
    <2>4. "begin" \in QuerySpots
        BY DEF QuerySpots
    <2> QED BY ONLY <1>1, a \in Queries, <2>1, <2>2, <2>3, <2>4 DEF NewQuery, QueryRecords
<1>5. execs \in [ExecIds -> [wf : Nat, status : ExecStates]]
    BY DEF QueryInit, ExecStates
<1>6. rows \in Seq(Rows)
    BY <1>2, RowsTyped, SeqMonotonic
<1>7. QueryTypeOK
    <2>1. changes \in 0..MaxChanges
        BY <1>2, QueryAssumption
    <2> QED BY ONLY <1>2, <1>4, <1>5, <1>6, <2>1 DEF QueryTypeOK, QueryRecords
<1>8. Elems(q.all) = {}
    <2>1. Len(<<>>) = 0 /\ 1..0 = {}
        BY EmptySeq
    <2> QED BY <1>3, <2>1 DEF Elems
<1>9. RowsKept
    BY <1>2, <1>8 DEF RowsKept
<1>10. Paging /\ WaysOn /\ ListShown /\ NameResolved
    BY <1>3 DEF Paging, WaysOn, ListShown, NameResolved
<1> QED BY <1>7, <1>9, <1>10 DEF QueryInv

\* What does not depend on more than the list, the registries and the arguments.
LEMMA SameAnswers ==
    ASSUME rows' = rows, tenant' = tenant, q'.ask = q.ask
    PROVE  /\ AllFound' = AllFound /\ WantedRows' = WantedRows
           /\ AskedRows' = AskedRows /\ ActiveAsked' = ActiveAsked
           /\ \A a : Found(a)' <=> Found(a)
           /\ \A id : FindRegistry(id)' = FindRegistry(id)
<1>1. \A id : FindRegistry(id)' = FindRegistry(id)
    BY DEF FindRegistry
<1>2. \A s : ResolveWorkflowRegistry(s)' = ResolveWorkflowRegistry(s)
    BY <1>1 DEF ResolveWorkflowRegistry, FindContractRegistry, GrpcRegistry
<1>3. \A s, id : ShownIn(s, id)' <=> ShownIn(s, id)
    BY <1>2 DEF ShownIn
<1>4. \A a : (Found(a)' <=> Found(a)) /\ (Asked(a)' <=> Asked(a))
    BY <1>2 DEF Found, Asked
<1>5. AllFound' = AllFound
    BY <1>4 DEF AllFound
<1>6. WantedRows' = WantedRows
    BY <1>3 DEF WantedRows
<1>7. AskedRows' = AskedRows
    BY <1>4 DEF AskedRows
<1>8. ActiveAsked' = ActiveAsked
    BY <1>7 DEF ActiveAsked
<1> QED BY <1>1, <1>4, <1>5, <1>6, <1>7, <1>8

\* What a step of the command leaves as it was.
LEMMA AskKeeps ==
    ASSUME QueryInv, Asks, q'.ask = q.ask
    PROVE  /\ q' \in QueryRecords => QueryTypeOK'
           /\ Elems(q.all)' \subseteq Elems(q.all) => RowsKept'
           /\ q'.at \notin {"begin", "page", "listed"} => Paging'
           /\ q'.at # "done" => ListShown'
           /\ q'.target = q.target /\ (q'.why = q.why \/ q'.why \notin {"none", "many"}) => NameResolved'
<1>1. rows' = rows /\ execs' = execs /\ tenant' = tenant /\ changes' = changes
    BY DEF Asks
<1>2. /\ AllFound' = AllFound /\ WantedRows' = WantedRows
      /\ AskedRows' = AskedRows /\ ActiveAsked' = ActiveAsked
      /\ \A a : Found(a)' <=> Found(a)
    BY <1>1, SameAnswers
<1>3. q' \in QueryRecords => QueryTypeOK'
    BY <1>1 DEF QueryInv, QueryTypeOK, QueryRecords
<1>4. Elems(q.all)' \subseteq Elems(q.all) => RowsKept'
    BY <1>1, <1>2 DEF QueryInv, RowsKept
<1>5. q'.at \notin {"begin", "page", "listed"} => Paging'
    BY DEF Paging
<1>6. q'.at # "done" => ListShown'
    BY DEF ListShown
<1>7. q'.target = q.target /\ (q'.why = q.why \/ q'.why \notin {"none", "many"}) => NameResolved'
    BY <1>1, <1>2 DEF QueryInv, NameResolved
<1> QED BY <1>3, <1>4, <1>5, <1>6, <1>7

-----------------------------------------------------------------------------
\* Steps that end a command without an answer.
LEMMA FailsKeeps ==
    ASSUME QueryInv, NEW w \in {"none", "many", "no uuid", "failed"}, FailsFor(w)
    PROVE  /\ QueryTypeOK' /\ RowsKept' /\ Paging' /\ WaysOn' /\ ListShown'
           /\ w \notin {"none", "many"} \/ q.ask.by # "name" => NameResolved'
<1>1. q \in QueryRecords
    BY DEF QueryInv, QueryTypeOK, QueryRecords
<1>2. q' = [q EXCEPT !.at = "error", !.why = w] /\ Asks
    BY DEF FailsFor
<1>3. q' \in QueryRecords
    BY <1>1, <1>2 DEF QueryRecords, QuerySpots
<1>4. /\ q'.ask = q.ask /\ q'.all = q.all /\ q'.at = "error" /\ q'.target = q.target
      /\ q'.why = w
    BY <1>1, <1>2 DEF QueryRecords
<1>5. Elems(q.all)' \subseteq Elems(q.all)
    BY <1>4 DEF Elems
<1>6. QueryTypeOK' /\ RowsKept' /\ Paging' /\ ListShown'
    BY <1>2, <1>3, <1>4, <1>5, AskKeeps
<1>7. WaysOn'
    BY <1>4 DEF WaysOn
<1>8. w \notin {"none", "many"} => NameResolved'
    BY <1>2, <1>4, AskKeeps
<1>9. q.ask.by # "name" => NameResolved'
    BY <1>4 DEF NameResolved
<1> QED BY <1>6, <1>7, <1>8, <1>9

\* The arguments are checked.
LEMMA BeginKeeps ==
    ASSUME QueryInv, Begin PROVE QueryInv'
<1>0. q \in QueryRecords /\ q.ask \in Queries /\ q.at = "begin"
    BY DEF QueryInv, QueryTypeOK, QueryRecords, Begin, At
<1>1. CASE q.ask.reg # "" /\ FindRegistry(q.ask.reg) = <<>>
    <2>1. FailsFor("failed")
        BY <1>1 DEF Begin
    <2> QED BY <2>1, FailsKeeps DEF QueryInv
<1>2. CASE ~(q.ask.reg # "" /\ FindRegistry(q.ask.reg) = <<>>)
    <2>1. PICK t : /\ GoesTo(t)
                   /\ t = CASE q.ask.cmd = "execution" -> IF q.ask.by = "id" THEN "find" ELSE q.ask.then
                            [] q.ask.cmd = "executions" /\ q.ask.by = "all" -> "fetch"
                            [] OTHER -> "page"
        BY <1>2 DEF Begin
    <2>2. /\ q.ask.cmd = "execution" => q.ask.then \in {"execution", "events", "logs"}
          /\ q.ask.cmd = "list" => q.ask.by = "all"
        BY <1>0, QueryAssumption
    <2>3. /\ t \in {"find", "execution", "events", "logs", "fetch", "page"}
          /\ t = "find" => q.ask.cmd = "execution" /\ q.ask.by = "id"
          /\ t = "execution" => q.ask.then = "execution"
          /\ q.ask.cmd = "list" => t = "page"
        BY <2>1, <2>2
    <2>4. q' = [q EXCEPT !.at = t] /\ Asks
        BY <2>1 DEF GoesTo
    <2>5. q' \in QueryRecords
        BY <1>0, <2>3, <2>4 DEF QueryRecords, QuerySpots
    <2>6. /\ q'.ask = q.ask /\ q'.all = q.all /\ q'.at = t /\ q'.target = q.target
          /\ q'.why = q.why /\ q'.page = q.page /\ q'.status = q.status
        BY <1>0, <2>4 DEF QueryRecords
    <2>7. Elems(q.all)' \subseteq Elems(q.all)
        BY <2>6 DEF Elems
    <2>8. QueryTypeOK' /\ RowsKept' /\ ListShown' /\ NameResolved'
        BY <2>3, <2>4, <2>5, <2>6, <2>7, AskKeeps
    <2>9. tenant' = tenant /\ rows' = rows
        BY <2>4 DEF Asks
    <2>10. WaysOn'
        <3>1. FindRegistry(q.ask.reg)' = FindRegistry(q.ask.reg)
            BY <2>6, <2>9 DEF FindRegistry
        <3>2. q.status # "FAILURE"
            BY <1>0 DEF QueryInv, WaysOn
        <3> QED BY <1>2, <2>3, <2>6, <3>1, <3>2 DEF WaysOn
    <2>11. Paging'
        <3>1. q.page = 0 /\ q.all = <<>>
            BY <1>0 DEF QueryInv, Paging
        <3>2. AllFound' \in Seq(Rows)
            BY <2>6, <2>8, <2>9, SameAnswers, AllFoundFacts DEF QueryInv
        <3>3. PagesBefore' = 0
            <4>1. q'.page * PageSize = 0
                BY <2>6, <3>1, QueryAssumption
            <4>2. Len(AllFound)' \in Nat
                BY <3>2, LenProperties
            <4> QED BY <4>1, <4>2 DEF PagesBefore
        <3>4. SubSeq(AllFound', 1, PagesBefore') = <<>>
            BY <3>3, SubSeqEmpty
        <3> QED BY <2>3, <2>6, <3>1, <3>4 DEF Paging
    <2> QED BY <2>8, <2>10, <2>11 DEF QueryInv
<1> QED BY <1>1, <1>2

\* Steps of a command that has what it needs of the list, or needs none.
LEMMA LaterStepKeeps ==
    ASSUME QueryInv, Asks, q' \in QueryRecords, q'.ask = q.ask, q'.all = q.all,
           q'.target = q.target, q'.why = q.why, q.ask.cmd # "list",
           q.at \notin {"begin", "error"}, q'.at \notin {"begin", "page", "listed"},
           q'.at = "find" => q.ask.cmd = "execution" /\ q.ask.by = "id",
           q'.at = "execution" => q.ask.then = "execution",
           q'.status = "FAILURE" =>
             \/ q'.at = "events" /\ q.ask.then = "execution"
             \/ q'.at = "done" /\ q'.failures
             \/ q'.at = "error"
    PROVE  QueryInv'
<1>1. Elems(q.all)' \subseteq Elems(q.all)
    BY DEF Elems
<1>2. QueryTypeOK' /\ RowsKept' /\ Paging' /\ NameResolved'
    BY <1>1, AskKeeps
<1>3. ListShown'
    BY DEF ListShown
<1>4. FindRegistry(q.ask.reg)' = FindRegistry(q.ask.reg)
    BY DEF FindRegistry, Asks
<1>5. WaysOn'
    BY <1>4 DEF WaysOn, QueryInv
<1> QED BY <1>2, <1>3, <1>5 DEF QueryInv

\* The fetches of `get` and `execution list`, which may come in any order.
LEMMA FetchesKeep ==
    ASSUME QueryInv, GetWorkflowSummary \/ GetLatestDeployment \/ ListExecutions \/ Join
    PROVE  QueryInv'
<1>0. /\ q \in QueryRecords /\ q.at = "fetch" /\ q.ask.cmd # "list" /\ q.status # "FAILURE"
      /\ q.done \in [Fetches -> {"no", "ok", "err"}]
    <2>1. q.at = "fetch"
        BY DEF GetWorkflowSummary, GetLatestDeployment, ListExecutions, Join, Fetching, At
    <2>2. q \in QueryRecords
        BY DEF QueryInv, QueryTypeOK, QueryRecords
    <2>3. q.done \in [Fetches -> {"no", "ok", "err"}]
        BY <2>2 DEF QueryRecords
    <2> QED BY <2>1, <2>2, <2>3 DEF QueryInv, WaysOn
<1>1. ASSUME NEW f, NEW ok \in BOOLEAN, Fetching(f, ok) PROVE QueryInv'
    <2>1. q' = [q EXCEPT !.done[f] = IF ok THEN "ok" ELSE "err"] /\ Asks /\ f \in Fetches
        BY <1>1 DEF Fetching, FetchesOf, Fetches
    <2>2. PICK d : d = [q.done EXCEPT ![f] = IF ok THEN "ok" ELSE "err"]
        OBVIOUS
    <2>3. d \in [Fetches -> {"no", "ok", "err"}]
        BY <1>0, <2>1, <2>2
    <2>4. q' = [q EXCEPT !.done = d]
        BY <2>1, <2>2
    <2>5. q' \in QueryRecords
        BY <1>0, <2>3, <2>4 DEF QueryRecords
    <2>6. /\ q'.ask = q.ask /\ q'.all = q.all /\ q'.at = q.at /\ q'.target = q.target
          /\ q'.why = q.why /\ q'.status = q.status
        BY <1>0, <2>4 DEF QueryRecords
    <2> QED BY <1>0, <2>1, <2>5, <2>6, LaterStepKeeps
<1>2. CASE GetWorkflowSummary \/ GetLatestDeployment
    BY <1>1, <1>2 DEF GetWorkflowSummary, GetLatestDeployment
<1>3. CASE ListExecutions
    <2>1. CASE Fetching("executions", FALSE)
        BY <1>1, <2>1
    <2>2. CASE ~Fetching("executions", FALSE)
        <3>1. PICK es \in SUBSET ExecIds :
                q' = [q EXCEPT !.done["executions"] = "ok", !.got = es] /\ Asks
            BY <1>3, <2>2 DEF ListExecutions
        <3>2. PICK d : d = [q.done EXCEPT !["executions"] = "ok"]
            OBVIOUS
        <3>3. d \in [Fetches -> {"no", "ok", "err"}]
            BY <1>0, <3>2 DEF Fetches
        <3>4. q' = [q EXCEPT !.done = d, !.got = es]
            BY <3>1, <3>2
        <3>5. q' \in QueryRecords
            BY <1>0, <3>3, <3>4 DEF QueryRecords
        <3>6. /\ q'.ask = q.ask /\ q'.all = q.all /\ q'.at = q.at /\ q'.target = q.target
              /\ q'.why = q.why /\ q'.status = q.status
            BY <1>0, <3>4 DEF QueryRecords
        <3> QED BY <1>0, <3>1, <3>5, <3>6, LaterStepKeeps
    <2> QED BY <2>1, <2>2
<1>4. CASE Join
    <2>1. CASE FailsFor("failed")
        BY <2>1, FailsKeeps DEF QueryInv
    <2>2. CASE GoesTo("done")
        <3>1. q' = [q EXCEPT !.at = "done"] /\ Asks
            BY <2>2 DEF GoesTo
        <3>2. q' \in QueryRecords
            BY <1>0, <3>1 DEF QueryRecords, QuerySpots
        <3>3. /\ q'.ask = q.ask /\ q'.all = q.all /\ q'.at = "done" /\ q'.target = q.target
              /\ q'.why = q.why /\ q'.status = q.status
            BY <1>0, <3>1 DEF QueryRecords
        <3> QED BY <1>0, <3>1, <3>2, <3>3, LaterStepKeeps
    <2> QED BY <1>4, <2>1, <2>2 DEF Join
<1> QED BY <1>2, <1>3, <1>4

\* The steps of the commands that ask for one execution.
LEMMA FindKeeps ==
    ASSUME QueryInv, FindExecutionByOnChainID PROVE QueryInv'
<1>0. /\ q \in QueryRecords /\ q.ask \in Queries /\ q.at = "find"
      /\ q.ask.cmd = "execution" /\ q.ask.by = "id" /\ q.status # "FAILURE"
    BY DEF QueryInv, QueryTypeOK, QueryRecords, WaysOn, FindExecutionByOnChainID, At
<1>1. CASE \E w \in {"none", "failed"} : FailsFor(w)
    BY <1>0, <1>1, FailsKeeps DEF QueryInv
<1>2. CASE GoesTo(q.ask.then)
    <2>1. q' = [q EXCEPT !.at = q.ask.then] /\ Asks
        BY <1>2 DEF GoesTo
    <2>2. q.ask.then \in {"execution", "events", "logs"}
        BY <1>0, QueryAssumption
    <2>3. q' \in QueryRecords
        BY <1>0, <2>1, <2>2 DEF QueryRecords, QuerySpots
    <2>4. /\ q'.ask = q.ask /\ q'.all = q.all /\ q'.at = q.ask.then /\ q'.target = q.target
          /\ q'.why = q.why /\ q'.status = q.status
        BY <1>0, <2>1 DEF QueryRecords
    <2> QED BY <1>0, <2>1, <2>2, <2>3, <2>4, LaterStepKeeps
<1> QED BY <1>1, <1>2 DEF FindExecutionByOnChainID

LEMMA GetExecutionKeeps ==
    ASSUME QueryInv, GetExecution PROVE QueryInv'
<1>0. /\ q \in QueryRecords /\ q.at = "execution" /\ q.ask.then = "execution" /\ q.ask.cmd # "list"
      /\ execs \in [ExecIds -> [wf : Nat, status : ExecStates]]
    BY DEF QueryInv, QueryTypeOK, QueryRecords, WaysOn, GetExecution, At
<1>1. CASE FailsFor("failed")
    BY <1>1, FailsKeeps DEF QueryInv
<1>2. CASE ~FailsFor("failed")
    <2>1. PICK s, t : /\ s = execs[q.ask.ref].status /\ q.ask.ref \in ExecIds
                      /\ t = IF s = "FAILURE" THEN "events" ELSE "done"
                      /\ q' = [q EXCEPT !.status = s, !.at = t] /\ Asks
        BY <1>2 DEF GetExecution
    <2>2. s \in ExecStates
        BY <1>0, <2>1
    <2>3. q' \in QueryRecords
        BY <1>0, <2>1, <2>2 DEF QueryRecords, QuerySpots
    <2>4. /\ q'.ask = q.ask /\ q'.all = q.all /\ q'.at = t /\ q'.target = q.target
          /\ q'.why = q.why /\ q'.status = s
        BY <1>0, <2>1 DEF QueryRecords
    <2> QED BY <1>0, <2>1, <2>3, <2>4, LaterStepKeeps
<1> QED BY <1>1, <1>2

LEMMA EventsKeep ==
    ASSUME QueryInv, ListEventsOrLogs PROVE QueryInv'
<1>0. /\ q \in QueryRecords /\ q.at \in {"events", "logs"} /\ q.ask.cmd # "list"
      /\ q.status = "FAILURE" => q.ask.then = "execution"
    BY DEF QueryInv, QueryTypeOK, QueryRecords, WaysOn, ListEventsOrLogs
<1>1. CASE FailsFor("failed")
    BY <1>1, FailsKeeps DEF QueryInv
<1>2. CASE ~FailsFor("failed")
    <2>1. PICK b \in BOOLEAN : b <=> q.ask.then = "execution"
        OBVIOUS
    <2>2. q' = [q EXCEPT !.at = "done", !.failures = b] /\ Asks
        <3>1. b = (q.ask.then = "execution")
            BY <2>1
        <3> QED BY <1>2, <3>1 DEF ListEventsOrLogs
    <2>3. q' \in QueryRecords
        BY <1>0, <2>2 DEF QueryRecords, QuerySpots
    <2>4. /\ q'.ask = q.ask /\ q'.all = q.all /\ q'.at = "done" /\ q'.target = q.target
          /\ q'.why = q.why /\ q'.status = q.status /\ q'.failures = b
        BY <1>0, <2>2 DEF QueryRecords
    <2> QED BY <1>0, <2>1, <2>2, <2>3, <2>4, LaterStepKeeps
<1> QED BY <1>1, <1>2

-----------------------------------------------------------------------------
\* A row of the pages that has its name and registry is one that was asked for,
\* and they all are there of a list that did not change.
LEMMA MatchesFacts ==
    ASSUME QueryInv, q.at = "listed", q.ask.by = "name"
    PROVE  /\ Matches \in Seq(Rows)
           /\ \A a \in Elems(Matches) : \E r \in AskedRows : r.uuid = a.uuid
           /\ changes = 0 => Elems(Matches) = AskedRows /\ Distinct(Matches)
<1> DEFINE S == {r \in Elems(q.all) : r.name = q.ask.ref}
           N == Those(q.all, S)
<1>1. /\ q \in QueryRecords /\ q.all \in Seq(Rows) /\ tenant \in Tenants
      /\ q.ask.reg # "" => FindRegistry(q.ask.reg) # <<>>
    BY DEF QueryInv, QueryTypeOK, QueryRecords, WaysOn
<1>2. /\ N \in Seq(Rows) /\ Elems(N) = Elems(q.all) \cap S
      /\ Distinct(q.all) => Distinct(N)
    <2> HIDE DEF S
    <2>1. N \in Seq(Rows) /\ (Distinct(q.all) => Distinct(N))
        BY <1>1, ThosePlaces, ThoseDistinct
    <2>2. Elems(N) = Elems(q.all) \cap S
        BY <1>1, ThoseElems
    <2> QED BY <2>1, <2>2
<1>3. Matches = FilterRowsByRegistry(N)
    BY DEF Matches
<1> HIDE DEF N
<1>4. /\ Matches \in Seq(Rows)
      /\ Elems(Matches) = {r \in Elems(N) : q.ask.reg # "" => ShownIn(r.source, q.ask.reg)}
      /\ Distinct(N) => Distinct(Matches)
    BY <1>1, <1>2, <1>3, FilterFacts
<1>5. Elems(Matches) = {r \in Elems(q.all) : r.name = q.ask.ref
                                           /\ (q.ask.reg # "" => ShownIn(r.source, q.ask.reg))}
    BY <1>2, <1>4
<1>6. \A r : Asked(r) <=> /\ r.name = q.ask.ref /\ q.ask.owner \in {"", r.owner}
                          /\ q.ask.reg # "" => ShownIn(r.source, q.ask.reg)
    BY DEF Asked, ShownIn
<1>7. \A r : /\ Found(r) => q.ask.owner \in {"", r.owner}
             /\ Asked(r) => Found(r)
    BY <1>6 DEF Found
<1>8. ASSUME NEW a \in Elems(Matches) PROVE \E r \in AskedRows : r.uuid = a.uuid
    <2>1. a \in Elems(q.all) /\ a.name = q.ask.ref /\ (q.ask.reg # "" => ShownIn(a.source, q.ask.reg))
        BY <1>5
    <2>2. Found(a) /\ \E r \in Elems(rows) : SameRow(a, r)
        BY <2>1 DEF QueryInv, RowsKept
    <2>3. PICK r \in Elems(rows) : SameRow(a, r)
        BY <2>2
    <2>4. q.ask.owner \in {"", a.owner}
        BY <2>2, <1>7
    <2>5. a.name = r.name /\ a.owner = r.owner /\ a.source = r.source /\ a.uuid = r.uuid
        BY <2>3 DEF SameRow
    <2>6. Asked(r)
        BY <1>6, <2>1, <2>4, <2>5
    <2> QED BY <2>5, <2>6 DEF AskedRows
<1>9. ASSUME changes = 0 PROVE Elems(Matches) = AskedRows /\ Distinct(Matches)
    <2>1. q.all = AllFound
        BY <1>9 DEF QueryInv, Paging
    <2>2. Elems(q.all) = {r \in Elems(rows) : Found(r)} /\ Distinct(q.all)
        BY <2>1, AllFoundFacts DEF QueryInv
    <2>3. \A r : r \in Elems(Matches) <=> r \in AskedRows
        BY <1>5, <1>6, <1>7, <2>2 DEF AskedRows
    <2> QED BY <1>2, <1>4, <2>2, <2>3
<1> QED BY <1>4, <1>8, <1>9

\* A name is resolved, or refused.
LEMMA ResolveByNameKeeps ==
    ASSUME QueryInv, ResolveByName PROVE QueryInv'
<1> DEFINE S == {r \in Elems(Matches) : r.status = "ACTIVE"}
           active == Those(Matches, S)
           chosen == IF active = <<>> THEN Matches[1] ELSE active[1]
<1>0. /\ q \in QueryRecords /\ q.at = "listed" /\ q.ask.by = "name" /\ q.ask.cmd # "list"
      /\ q.status # "FAILURE"
    BY DEF QueryInv, QueryTypeOK, QueryRecords, WaysOn, ResolveByName, At
<1>1. /\ Matches \in Seq(Rows)
      /\ \A a \in Elems(Matches) : \E r \in AskedRows : r.uuid = a.uuid
      /\ changes = 0 => Elems(Matches) = AskedRows /\ Distinct(Matches)
    BY <1>0, MatchesFacts
<1>2. /\ active \in Seq(Rows) /\ Elems(active) = S
      /\ (active = <<>> <=> S = {})
      /\ Distinct(Matches) => Distinct(active)
    <2>1. Elems(Matches) \cap S = S
        OBVIOUS
    <2> HIDE DEF S
    <2>2. active \in Seq(Rows) /\ (Distinct(Matches) => Distinct(active))
        BY <1>1, ThosePlaces, ThoseDistinct
    <2>3. Elems(active) = Elems(Matches) \cap S /\ (active = <<>> <=> Elems(Matches) \cap S = {})
        BY <1>1, ThoseElems
    <2> QED BY <2>1, <2>2, <2>3
<1>3. changes = 0 => S = ActiveAsked
    BY <1>1 DEF ActiveAsked
<1>4. S \subseteq Elems(Matches)
    OBVIOUS
<1>5. \/ Matches = <<>> /\ FailsFor("none")
      \/ Matches # <<>> /\ Len(active) > 1 /\ FailsFor("many")
      \/ FailsFor("no uuid")
      \/ /\ Matches # <<>> /\ ~(Len(active) > 1)
         /\ q' = [q EXCEPT !.at = "fetch", !.target = chosen.uuid] /\ Asks
    BY DEF ResolveByName
<1>6. \A s \in Seq(Rows) : s # <<>> => s[1] \in Elems(s) /\ s[1] \in Rows
    <2>1. \A s \in Seq(Rows) : s # <<>> => 1 \in 1..Len(s)
        BY EmptySeq
    <2> QED BY <2>1, ElementOfSeq DEF Elems
<1>7. Matches # <<>> => chosen \in Elems(Matches) /\ chosen.uuid \in Nat
    <2>1. active # <<>> => active[1] \in S /\ active[1] \in Rows
        BY <1>2, <1>6
    <2>2. Matches # <<>> => Matches[1] \in Elems(Matches) /\ Matches[1] \in Rows
        BY <1>1, <1>6
    <2>3. Matches # <<>> => chosen \in Elems(Matches) /\ chosen \in Rows
        BY <1>4, <2>1, <2>2
    <2> QED BY <2>3, RowsTyped
<1> HIDE DEF S, active
<1>8. CASE Matches = <<>> /\ FailsFor("none")
    <2>1. /\ QueryTypeOK' /\ RowsKept' /\ Paging' /\ WaysOn' /\ ListShown'
        BY <1>8, FailsKeeps
    <2>2. /\ rows' = rows /\ tenant' = tenant /\ changes' = changes
          /\ q'.ask = q.ask /\ q'.why = "none" /\ q'.target = q.target
        BY <1>0, <1>8 DEF FailsFor, Asks, QueryRecords
    <2>3. AskedRows' = AskedRows /\ ActiveAsked' = ActiveAsked
        BY <2>2, SameAnswers
    <2>4. changes = 0 => AskedRows = {}
        <3>1. Elems(<<>>) = {}
            <4>1. Len(<<>>) = 0 /\ 1..0 = {}
                BY EmptySeq
            <4> QED BY <4>1 DEF Elems
        <3> QED BY <1>1, <1>8, <3>1
    <2>5. NameResolved'
        BY <2>2, <2>3, <2>4 DEF QueryInv, NameResolved
    <2> QED BY <2>1, <2>5 DEF QueryInv
<1>9. CASE Matches # <<>> /\ Len(active) > 1 /\ FailsFor("many")
    <2>1. /\ QueryTypeOK' /\ RowsKept' /\ Paging' /\ WaysOn' /\ ListShown'
        BY <1>9, FailsKeeps
    <2>2. /\ rows' = rows /\ tenant' = tenant /\ changes' = changes
          /\ q'.ask = q.ask /\ q'.why = "many" /\ q'.target = q.target
        BY <1>0, <1>9 DEF FailsFor, Asks, QueryRecords
    <2>3. AskedRows' = AskedRows /\ ActiveAsked' = ActiveAsked
        BY <2>2, SameAnswers
    <2>4. changes = 0 => Cardinality(ActiveAsked) > 1
        <3>1. ASSUME changes = 0 PROVE Cardinality(Elems(active)) = Len(active)
            BY <1>1, <1>2, <3>1, DistinctCount
        <3> QED BY <1>2, <1>3, <1>9, <3>1
    <2>5. NameResolved'
        BY <2>2, <2>3, <2>4 DEF QueryInv, NameResolved
    <2> QED BY <2>1, <2>5 DEF QueryInv
<1>10. CASE FailsFor("no uuid")
    BY <1>10, FailsKeeps DEF QueryInv
<1>11. CASE /\ Matches # <<>> /\ ~(Len(active) > 1)
            /\ q' = [q EXCEPT !.at = "fetch", !.target = chosen.uuid] /\ Asks
    <2> HIDE DEF chosen
    <2>1. q' \in QueryRecords
        BY <1>0, <1>7, <1>11 DEF QueryRecords, QuerySpots
    <2>2. /\ q'.ask = q.ask /\ q'.all = q.all /\ q'.at = "fetch" /\ q'.target = chosen.uuid
          /\ q'.why = q.why /\ q'.status = q.status
        BY <1>0, <1>11 DEF QueryRecords
    <2>3. /\ rows' = rows /\ tenant' = tenant /\ changes' = changes
        BY <1>11 DEF Asks
    <2>4. Elems(q.all)' \subseteq Elems(q.all)
        BY <2>2 DEF Elems
    <2>5. QueryTypeOK' /\ RowsKept' /\ Paging' /\ ListShown'
        BY <1>11, <2>1, <2>2, <2>4, AskKeeps
    <2>6. /\ AskedRows' = AskedRows /\ ActiveAsked' = ActiveAsked
          /\ FindRegistry(q.ask.reg)' = FindRegistry(q.ask.reg)
        <3>1. FindRegistry(q.ask.reg)' = FindRegistry(q.ask.reg)
            BY <2>2, <2>3 DEF FindRegistry
        <3> QED BY <2>2, <2>3, <3>1, SameAnswers
    <2>7. WaysOn'
        BY <1>0, <2>2, <2>6 DEF QueryInv, WaysOn
    <2>8. \E r \in AskedRows : r.uuid = chosen.uuid
        BY <1>1, <1>7, <1>11
    <2>9. changes = 0 => ActiveAsked = {} \/ {r.uuid : r \in ActiveAsked} = {chosen.uuid}
        <3>1. CASE active = <<>>
            BY <1>2, <1>3, <3>1
        <3>2. CASE active # <<>>
            <4>1. Len(active) = 1
                <5>1. Len(active) \in Nat \ {0}
                    BY <1>2, <3>2, EmptySeq
                <5>2. ~(Len(active) > 1)
                    BY <1>11
                <5>3. \A n \in Nat \ {0} : ~(n > 1) => n = 1
                    OBVIOUS
                <5> QED BY ONLY <5>1, <5>2, <5>3
            <4>2. Elems(active) = {active[1]} /\ chosen = active[1]
                BY <3>2, <4>1 DEF Elems, chosen
            <4>3. S = {chosen}
                BY <1>2, <4>2
            <4> QED BY <1>3, <4>3
        <3> QED BY <3>1, <3>2
    <2>10. NameResolved'
        BY <2>2, <2>3, <2>6, <2>8, <2>9 DEF QueryInv, NameResolved
    <2> QED BY <2>5, <2>7, <2>10 DEF QueryInv
<1> QED BY <1>5, <1>8, <1>9, <1>10, <1>11

\* `execution list` by the ID of a workflow, which need not be of a name.
LEMMA ResolveByIDKeeps ==
    ASSUME QueryInv, ResolveByWorkflowID PROVE QueryInv'
<1> DEFINE S == {r \in Elems(q.all) : r.id = q.ask.ref}
           same == Those(q.all, S)
<1>0. /\ q \in QueryRecords /\ q.at = "listed" /\ q.ask.by = "id" /\ q.ask \in Queries
      /\ q.status # "FAILURE" /\ q.all \in Seq(Rows)
    BY DEF QueryInv, QueryTypeOK, QueryRecords, WaysOn, ResolveByWorkflowID, At
<1>1. q.ask.cmd # "list"
    BY <1>0, QueryAssumption
<1>2. same \in Seq(Rows)
    <2> HIDE DEF S
    <2> QED BY <1>0, ThosePlaces
<1>3. \/ \E w \in {"none", "no uuid"} : FailsFor(w)
      \/ same # <<>> /\ q' = [q EXCEPT !.at = "fetch", !.target = same[1].uuid] /\ Asks
    BY DEF ResolveByWorkflowID
<1> HIDE DEF same
<1>4. CASE \E w \in {"none", "no uuid"} : FailsFor(w)
    BY <1>0, <1>4, FailsKeeps DEF QueryInv
<1>5. CASE same # <<>> /\ q' = [q EXCEPT !.at = "fetch", !.target = same[1].uuid] /\ Asks
    <2>1. same[1].uuid \in Nat
        <3>1. 1 \in 1..Len(same)
            BY <1>2, <1>5, EmptySeq
        <3>2. same[1] \in Rows
            BY <1>2, <3>1, ElementOfSeq
        <3> QED BY <3>2, RowsTyped
    <2>2. q' \in QueryRecords
        BY <1>0, <1>5, <2>1 DEF QueryRecords, QuerySpots
    <2>3. /\ q'.ask = q.ask /\ q'.all = q.all /\ q'.at = "fetch" /\ q'.status = q.status
        BY <1>0, <1>5 DEF QueryRecords
    <2>4. Elems(q.all)' \subseteq Elems(q.all)
        BY <2>3 DEF Elems
    <2>5. QueryTypeOK' /\ RowsKept' /\ Paging' /\ ListShown'
        BY <1>5, <2>2, <2>3, <2>4, AskKeeps
    <2>6. NameResolved'
        BY <1>0, <2>3 DEF NameResolved
    <2>7. FindRegistry(q.ask.reg)' = FindRegistry(q.ask.reg)
        BY <1>5, <2>3 DEF FindRegistry, Asks
    <2>8. WaysOn'
        BY <1>0, <1>1, <2>3, <2>7 DEF QueryInv, WaysOn
    <2> QED BY <2>5, <2>6, <2>8 DEF QueryInv
<1> QED BY <1>3, <1>4, <1>5

\* The list is shown.
LEMMA ShowListKeeps ==
    ASSUME QueryInv, ShowList PROVE QueryInv'
<1> DEFINE l == FilterRowsByRegistry(q.all)
           S == {r \in Elems(l) : q.ask.deleted \/ r.status # "DELETED"}
           shown == Those(l, S)
<1>0. /\ q \in QueryRecords /\ q.at = "listed" /\ q.ask.cmd = "list" /\ q.ask \in Queries
      /\ q.all \in Seq(Rows) /\ tenant \in Tenants /\ q.status # "FAILURE"
      /\ q.ask.reg # "" => FindRegistry(q.ask.reg) # <<>>
    BY DEF QueryInv, QueryTypeOK, QueryRecords, WaysOn, ShowList, At
<1>1. q.ask.by = "all"
    BY <1>0, QueryAssumption
<1>2. /\ l \in Seq(Rows)
      /\ Elems(l) = {r \in Elems(q.all) : q.ask.reg # "" => ShownIn(r.source, q.ask.reg)}
      /\ Distinct(q.all) => Distinct(l)
    BY <1>0, FilterFacts
<1>3. q' = [q EXCEPT !.at = "done", !.all = shown] /\ Asks
    BY DEF ShowList
<1> HIDE DEF l
<1>4. shown \in Seq(Rows) /\ Elems(shown) = S /\ (Distinct(l) => Distinct(shown))
    <2>1. Elems(l) \cap S = S
        OBVIOUS
    <2> HIDE DEF S
    <2> QED BY <1>2, <2>1, ThosePlaces, ThoseElems, ThoseDistinct
<1> HIDE DEF shown
<1>5. q' \in QueryRecords
    BY <1>0, <1>3, <1>4 DEF QueryRecords, QuerySpots
<1>6. /\ q'.ask = q.ask /\ q'.all = shown /\ q'.at = "done" /\ q'.target = q.target
      /\ q'.why = q.why /\ q'.status = q.status
    BY <1>0, <1>3 DEF QueryRecords
<1>7. Elems(q.all)' = Elems(shown)
    BY <1>6 DEF Elems
<1>8. Elems(shown) \subseteq Elems(q.all)
    BY <1>2, <1>4
<1>9. QueryTypeOK' /\ RowsKept' /\ Paging' /\ NameResolved'
    BY <1>3, <1>5, <1>6, <1>7, <1>8, AskKeeps
<1>10. rows' = rows /\ tenant' = tenant /\ changes' = changes
    BY <1>3 DEF Asks
<1>11. WantedRows' = WantedRows /\ FindRegistry(q.ask.reg)' = FindRegistry(q.ask.reg)
    <2>1. FindRegistry(q.ask.reg)' = FindRegistry(q.ask.reg)
        BY <1>6, <1>10 DEF FindRegistry
    <2> QED BY <1>6, <1>10, <2>1, SameAnswers
<1>12. WaysOn'
    BY <1>0, <1>6, <1>11 DEF WaysOn
<1>13. ASSUME changes = 0
       PROVE  Elems(shown) = WantedRows /\ Len(shown) = Cardinality(WantedRows)
    <2>1. q.all = AllFound
        BY <1>0, <1>13 DEF QueryInv, Paging
    <2>2. Elems(q.all) = {r \in Elems(rows) : Found(r)} /\ Distinct(q.all)
        BY <2>1, AllFoundFacts DEF QueryInv
    <2>3. \A r : Found(r)
        BY <1>1 DEF Found
    <2>4. Elems(q.all) = Elems(rows)
        BY <2>2, <2>3
    <2>5. \A r : r \in Elems(shown) <=> r \in WantedRows
        BY <1>2, <1>4, <2>4 DEF WantedRows
    <2>6. Elems(shown) = WantedRows
        BY <2>5
    <2>7. Cardinality(Elems(shown)) = Len(shown)
        BY <1>2, <1>4, <2>2, DistinctCount
    <2> QED BY <2>6, <2>7
<1>14. ListShown'
    BY <1>6, <1>7, <1>10, <1>11, <1>13 DEF ListShown
<1> QED BY <1>9, <1>12, <1>14 DEF QueryInv

-----------------------------------------------------------------------------
\* A page: what comes after the pages before it.
LEMMA BatchFacts ==
    ASSUME NEW F \in Seq(Rows), NEW done \in 0..Len(F), NEW end \in done..Len(F), NEW start \in Nat,
           start = done + 1 \/ (done = Len(F) /\ start > Len(F)),
           done < end \/ end = Len(F)
    PROVE  /\ SubSeq(F, start, end) \in Seq(Rows) /\ Elems(SubSeq(F, start, end)) \subseteq Elems(F)
           /\ SubSeq(F, 1, done) \o SubSeq(F, start, end) = SubSeq(F, 1, end)
           /\ Len(SubSeq(F, 1, end)) = end
           /\ SubSeq(F, start, end) = <<>> => end = Len(F)
           /\ SubSeq(F, start, end) # <<>> => Len(SubSeq(F, start, end)) >= 1
<1>1. PICK n \in Nat : n = Len(F)
    BY LenProperties
<1>2. done \in Nat /\ end \in Nat /\ start \in Int /\ start >= 1 /\ 1 <= start /\ end <= n
    BY <1>1
<1> DEFINE b == SubSeq(F, start, end)
<1>3. \A i \in 1..end : F[i] \in Rows
    BY <1>1, <1>2, ElementOfSeq
<1>4. /\ b \in Seq(Rows) /\ Len(b) = (IF start <= end THEN end - start + 1 ELSE 0)
      /\ \A i \in 1..(end - start + 1) : b[i] = F[start + i - 1]
    <2>1. \A i \in start..end : F[i] \in Rows
        BY <1>2, <1>3
    <2> QED BY <1>2, <2>1, SubSeqProperties
<1>5. Elems(b) \subseteq Elems(F)
    <2>1. ASSUME NEW i \in 1..Len(b) PROVE \E j \in 1..Len(F) : b[i] = F[j]
        <3>1. start <= end /\ i \in 1..(end - start + 1)
            BY <1>2, <1>4
        <3>2. start + i - 1 \in 1..Len(F)
            BY <1>1, <1>2, <3>1
        <3> QED BY <1>4, <3>1, <3>2
    <2> QED BY <2>1 DEF Elems
<1>6. Len(SubSeq(F, 1, end)) = end
    <2>1. Len(SubSeq(F, 1, end)) = IF 1 <= end THEN end - 1 + 1 ELSE 0
        BY <1>2, <1>3, SubSeqProperties
    <2> QED BY <1>2, <2>1
<1>7. SubSeq(F, 1, done) \o b = SubSeq(F, 1, end)
    <2>1. CASE start = done + 1
        <3>1. done \in (1-1)..Len(F) /\ end \in done..Len(F) /\ 1 \in 1..(Len(F) + 1)
            BY <1>1, <1>2
        <3> QED BY <2>1, <3>1, ConcatAdjacentSubSeq
    <2>2. CASE done = Len(F) /\ start > Len(F)
        <3>1. done = end /\ end < start
            BY <1>1, <1>2, <2>2
        <3>2. b = <<>>
            BY <1>2, <3>1, SubSeqEmpty
        <3>3. SubSeq(F, 1, done) \in Seq(Rows)
            BY <2>2, SubSeqFull
        <3> QED BY <3>1, <3>2, <3>3, ConcatEmptySeq
    <2> QED BY <2>1, <2>2
<1>8. b = <<>> => end = Len(F)
    <2>1. b = <<>> => Len(b) = 0
        BY EmptySeq
    <2> QED BY <2>1, <1>1, <1>2, <1>4
<1>9. b # <<>> => Len(b) >= 1
    BY <1>4, EmptySeq
<1> QED BY <1>4, <1>5, <1>6, <1>7, <1>8, <1>9

\* The next page comes.
LEMMA ListPageKeeps ==
    ASSUME QueryInv, ListPage PROVE QueryInv'
<1>0. /\ q \in QueryRecords /\ q.at = "page" /\ q.page \in Nat /\ q.all \in Seq(Rows)
      /\ q.total \in 0..MaxRows /\ q.status # "FAILURE" /\ MaxRows \in Nat
    <2>1. q \in QueryRecords /\ q.at = "page" /\ q.status # "FAILURE" /\ MaxRows \in Nat
        BY QueryAssumption DEF QueryInv, QueryTypeOK, QueryRecords, WaysOn, ListPage, At
    <2>2. q.page \in 0..(MaxRows + 1) /\ q.all \in Seq(Rows) /\ q.total \in 0..MaxRows
        BY <2>1 DEF QueryRecords
    <2> QED BY <2>1, <2>2
<1>1. CASE FailsFor("failed")
    BY <1>1, FailsKeeps DEF QueryInv
<1>2. CASE ~FailsFor("failed")
    <2>1. PICK total : /\ total = IF q.page = 0 THEN Len(AllFound) ELSE q.total
                       /\ Listed(total) /\ Asks
        BY <1>2 DEF ListPage
    <2>2. AllFound \in Seq(Rows) /\ Len(AllFound) \in 0..MaxRows
          /\ Elems(AllFound) = {r \in Elems(rows) : Found(r)}
        BY AllFoundFacts DEF QueryInv
    <2>3. total \in 0..MaxRows
        BY <1>0, <2>1, <2>2
    <2>4. PICK end : end = IF (q.page + 1) * PageSize < Len(AllFound)
                           THEN (q.page + 1) * PageSize ELSE Len(AllFound)
        OBVIOUS
    <2>5. Batch = SubSeq(AllFound, q.page * PageSize + 1, end)
        BY <2>4 DEF Batch
    <2>6. /\ Batch \in Seq(Rows) /\ Elems(Batch) \subseteq Elems(AllFound)
          /\ SubSeq(AllFound, 1, PagesBefore) \o Batch = SubSeq(AllFound, 1, end)
          /\ Len(SubSeq(AllFound, 1, end)) = end
          /\ Batch = <<>> => end = Len(AllFound)
          /\ Batch # <<>> => Len(Batch) >= 1
        <3>1. PICK P \in Nat, E \in Nat : P = q.page * PageSize /\ E = (q.page + 1) * PageSize /\ P < E
            <4>1. PICK page \in Nat : page = q.page
                BY <1>0
            <4>2. /\ page * PageSize \in Nat /\ (page + 1) * PageSize \in Nat
                  /\ (page + 1) * PageSize = page * PageSize + PageSize
                BY QueryAssumption
            <4> QED BY <4>1, <4>2, QueryAssumption
        <3>2. PICK F \in Seq(Rows) : F = AllFound
            BY <2>2
        <3>3. PICK start, done : start = P + 1 /\ start \in Nat /\ done = PagesBefore
            OBVIOUS
        <3>4. /\ done = IF P < Len(F) THEN P ELSE Len(F)
              /\ end = IF E < Len(F) THEN E ELSE Len(F)
              /\ Batch = SubSeq(F, start, end)
            BY <2>4, <2>5, <3>1, <3>2, <3>3 DEF PagesBefore
        <3>5. /\ done \in 0..Len(F) /\ end \in done..Len(F)
              /\ start = done + 1 \/ (done = Len(F) /\ start > Len(F))
              /\ done < end \/ end = Len(F)
            <4>1. Len(F) \in Nat
                BY LenProperties
            <4>2. P < E /\ start = P + 1
                BY <3>1, <3>3
            <4> QED BY ONLY <3>4, <4>1, <4>2, P \in Nat, E \in Nat
        <3>6. /\ SubSeq(F, start, end) \in Seq(Rows) /\ Elems(SubSeq(F, start, end)) \subseteq Elems(F)
              /\ SubSeq(F, 1, done) \o SubSeq(F, start, end) = SubSeq(F, 1, end)
              /\ Len(SubSeq(F, 1, end)) = end
              /\ SubSeq(F, start, end) = <<>> => end = Len(F)
              /\ SubSeq(F, start, end) # <<>> => Len(SubSeq(F, start, end)) >= 1
            BY ONLY <3>3, <3>5, F \in Seq(Rows), BatchFacts
        <3> QED BY <3>2, <3>3, <3>4, <3>6
    <2>7. PICK all, at : /\ all = q.all \o Batch
                         /\ at = IF Len(all) >= total \/ Batch = <<>> THEN "listed" ELSE "page"
                         /\ q' = [q EXCEPT !.page = @ + 1, !.total = total, !.all = all, !.at = at]
        BY <2>1 DEF Listed
    <2>8. /\ all \in Seq(Rows) /\ Len(all) = Len(q.all) + Len(Batch)
          /\ Len(q.all) \in Nat /\ Len(Batch) \in Nat /\ Len(all) \in Nat
          /\ Elems(all) \subseteq Elems(q.all) \cup Elems(Batch)
        <3>1. /\ all \in Seq(Rows) /\ Len(all) = Len(q.all) + Len(Batch)
              /\ \A i \in 1..(Len(q.all) + Len(Batch)) :
                   all[i] = IF i <= Len(q.all) THEN q.all[i] ELSE Batch[i - Len(q.all)]
            BY <1>0, <2>6, <2>7, ConcatProperties
        <3>2. Len(q.all) \in Nat /\ Len(Batch) \in Nat
            BY <1>0, <2>6, LenProperties
        <3>3. ASSUME NEW i \in 1..Len(all) PROVE all[i] \in Elems(q.all) \cup Elems(Batch)
            <4>1. CASE i <= Len(q.all)
                <5>1. i \in 1..Len(q.all) /\ all[i] = q.all[i]
                    BY <3>1, <3>2, <3>3, <4>1
                <5> QED BY <5>1 DEF Elems
            <4>2. CASE ~(i <= Len(q.all))
                <5>1. i - Len(q.all) \in 1..Len(Batch) /\ all[i] = Batch[i - Len(q.all)]
                    BY <3>1, <3>2, <3>3, <4>2
                <5> QED BY <5>1 DEF Elems
            <4> QED BY <4>1, <4>2
        <3>4. Elems(all) \subseteq Elems(q.all) \cup Elems(Batch)
            BY <3>3 DEF Elems
        <3> QED BY <3>1, <3>2, <3>4
    <2>9. q.page <= MaxRows /\ q.page <= Len(q.all)
        <3>1. q.page # 0 => q.page <= Len(q.all) /\ Len(q.all) < q.total
            BY <1>0 DEF QueryInv, Paging
        <3> QED BY <1>0, <2>8, <3>1
    <2>10. q' \in QueryRecords
        <3>1. q.page + 1 \in 0..(MaxRows + 1) /\ at \in QuerySpots
            BY <1>0, <2>7, <2>9 DEF QuerySpots
        <3> QED BY <1>0, <2>3, <2>7, <2>8, <3>1 DEF QueryRecords
    <2>11. /\ q'.ask = q.ask /\ q'.all = all /\ q'.at = at /\ q'.target = q.target
           /\ q'.why = q.why /\ q'.status = q.status /\ q'.page = q.page + 1 /\ q'.total = total
        BY <1>0, <2>7 DEF QueryRecords
    <2>12. /\ rows' = rows /\ tenant' = tenant /\ changes' = changes
        BY <2>1 DEF Asks
    <2>13. at \in {"page", "listed"}
        BY <2>7
    <2>14. QueryTypeOK' /\ ListShown' /\ NameResolved'
        BY <2>1, <2>10, <2>11, <2>13, AskKeeps
    <2>15. /\ AllFound' = AllFound /\ FindRegistry(q.ask.reg)' = FindRegistry(q.ask.reg)
           /\ \A a : Found(a)' <=> Found(a)
        <3>1. FindRegistry(q.ask.reg)' = FindRegistry(q.ask.reg)
            BY <2>11, <2>12 DEF FindRegistry
        <3> QED BY <2>11, <2>12, <3>1, SameAnswers
    <2>16. WaysOn'
        BY <1>0, <2>11, <2>13, <2>15 DEF QueryInv, WaysOn
    <2>17. RowsKept'
        <3>1. ASSUME NEW a \in Elems(all)
              PROVE  Found(a) /\ \E r \in Elems(rows) : SameRow(a, r)
            <4>1. CASE a \in Elems(q.all)
                BY <4>1 DEF QueryInv, RowsKept
            <4>2. CASE a \in Elems(Batch)
                BY <2>2, <2>6, <4>2 DEF SameRow
            <4> QED BY <2>8, <4>1, <4>2
        <3>2. Elems(q.all)' = Elems(all)
            BY <2>11 DEF Elems
        <3>3. Distinct(rows)'
            BY <2>12 DEF QueryInv, RowsKept
        <3> QED BY <2>12, <2>15, <3>1, <3>2, <3>3 DEF RowsKept
    <2>18. PagesBefore' = end
        BY <2>4, <2>11, <2>15 DEF PagesBefore
    <2>19. at = "page" => q.page + 1 <= Len(all) /\ Len(all) < total
        <3>1. at = "page" => Batch # <<>> /\ ~(Len(all) >= total)
            BY <2>7
        <3>2. PICK p \in Nat, n \in Nat, m \in Nat, t \in Nat :
                p = q.page /\ n = Len(q.all) /\ m = Len(Batch) /\ t = total
            BY <1>0, <2>3, <2>8
        <3>3. Len(all) = n + m /\ p <= n /\ (Batch # <<>> => m >= 1)
            BY <2>6, <2>8, <2>9, <3>2
        <3> QED BY ONLY <3>1, <3>2, <3>3
    <2>20. ASSUME changes = 0
           PROVE  /\ all = SubSeq(AllFound, 1, end) /\ total = Len(AllFound)
                  /\ at = "listed" => all = AllFound
        <3>1. q.all = SubSeq(AllFound, 1, PagesBefore) /\ (q.page # 0 => q.total = Len(AllFound))
            BY <1>0, <2>20 DEF QueryInv, Paging
        <3>2. all = SubSeq(AllFound, 1, end) /\ total = Len(AllFound)
            BY <2>1, <2>6, <2>7, <3>1
        <3>3. end = Len(AllFound) => SubSeq(AllFound, 1, end) = AllFound
            BY <2>2, SubSeqFull
        <3>4. at = "listed" => end = Len(AllFound)
            <4>1. at = "listed" => Len(all) >= total \/ Batch = <<>>
                BY <2>7
            <4>2. Len(all) = end /\ end \in Nat
                BY <2>6, <2>8, <3>2
            <4>3. end <= Len(AllFound)
                <5>1. PICK e \in Nat, n \in Nat, u \in Nat :
                        e = end /\ n = Len(AllFound) /\ u = (q.page + 1) * PageSize
                    <6>1. PICK p \in Nat : p = q.page
                        BY <1>0
                    <6>2. (p + 1) * PageSize \in Nat
                        BY QueryAssumption
                    <6> QED BY <2>2, <4>2, <6>1, <6>2
                <5> QED BY <2>4, <5>1
            <4> QED BY <2>2, <2>6, <3>2, <4>1, <4>2, <4>3
        <3> QED BY <3>2, <3>3, <3>4
    <2>21. Paging'
        BY <1>0, <2>11, <2>12, <2>13, <2>15, <2>18, <2>19, <2>20 DEF Paging
    <2> QED BY <2>14, <2>16, <2>17, <2>21 DEF QueryInv
<1> QED BY <1>1, <1>2

-----------------------------------------------------------------------------
\* What the platform may do meanwhile: no row goes.
LEMMA ChangesKeep ==
    ASSUME QueryInv, Changes, execs' \in [ExecIds -> [wf : Nat, status : ExecStates]],
           rows' \in Seq(Rows), Len(rows') <= MaxRows, Distinct(rows'),
           \A r \in Elems(rows) : \E n \in Elems(rows') : SameRow(r, n)
    PROVE  QueryInv'
<1>1. q' = q /\ tenant' = tenant /\ changes' \in 1..MaxChanges /\ changes' # 0
    <2>1. changes \in 0..MaxChanges /\ changes < MaxChanges /\ changes' = changes + 1
        BY DEF QueryInv, QueryTypeOK, Changes
    <2>2. MaxChanges \in Nat
        BY QueryAssumption
    <2> QED BY <2>1, <2>2 DEF Changes
<1>2. QueryTypeOK'
    <2>1. tenant' \in Tenants /\ q' \in QueryRecords /\ changes' \in 0..MaxChanges
        <3>1. tenant \in Tenants /\ q \in QueryRecords
            BY DEF QueryInv, QueryTypeOK, QueryRecords
        <3>2. \A c : c \in 1..MaxChanges => c \in 0..MaxChanges
            BY QueryAssumption
        <3> QED BY <1>1, <3>1, <3>2
    <2> QED BY <2>1 DEF QueryTypeOK, QueryRecords
<1>3. \A a : Found(a)' <=> Found(a)
    BY <1>1 DEF Found
<1>4. \A id : FindRegistry(id)' = FindRegistry(id)
    BY <1>1 DEF FindRegistry
<1>5. \A s : ResolveWorkflowRegistry(s)' = ResolveWorkflowRegistry(s)
    BY <1>1, <1>4 DEF ResolveWorkflowRegistry, FindContractRegistry, GrpcRegistry
<1>6. RowsKept'
    <2>1. Elems(q.all)' = Elems(q.all)
        BY <1>1
    <2>2. ASSUME NEW a \in Elems(q.all) PROVE Found(a)' /\ \E n \in Elems(rows') : SameRow(a, n)
        <3>1. Found(a) /\ \E r \in Elems(rows) : SameRow(a, r)
            BY DEF QueryInv, RowsKept
        <3>2. PICK r \in Elems(rows) : SameRow(a, r)
            BY <3>1
        <3>3. PICK n \in Elems(rows') : SameRow(r, n)
            BY <3>2
        <3>4. SameRow(a, n)
            BY <3>2, <3>3 DEF SameRow
        <3> QED BY <1>3, <3>1, <3>4
    <2> QED BY <2>1, <2>2 DEF RowsKept
<1>7. Paging'
    BY <1>1 DEF QueryInv, Paging
<1>8. WaysOn'
    <2>1. FindRegistry(q.ask.reg)' = FindRegistry(q.ask.reg)
        BY <1>1 DEF FindRegistry
    <2> QED BY <1>1, <2>1 DEF QueryInv, WaysOn
<1>9. ListShown'
    BY <1>1 DEF ListShown
<1>10. NameResolved'
    <2>1. ASSUME q.ask.by = "name", q.target # 0
          PROVE  \E n \in AskedRows' : n.uuid = q.target
        <3>1. PICK r \in Elems(rows) : Asked(r) /\ r.uuid = q.target
            BY <2>1 DEF QueryInv, NameResolved, AskedRows
        <3>2. PICK n \in Elems(rows') : SameRow(r, n)
            BY <3>1
        <3>3. n.name = r.name /\ n.owner = r.owner /\ n.source = r.source /\ n.uuid = r.uuid
            BY <3>2 DEF SameRow
        <3>4. Asked(n)'
            BY <1>1, <1>5, <3>1, <3>3 DEF Asked
        <3> QED BY <3>1, <3>2, <3>3, <3>4 DEF AskedRows
    <2> QED BY <1>1, <2>1 DEF NameResolved
<1> QED BY <1>2, <1>6, <1>7, <1>8, <1>9, <1>10 DEF QueryInv

\* A workflow is registered.
LEMMA RegisterKeeps ==
    ASSUME QueryInv, Register PROVE QueryInv'
<1>0. /\ rows \in Seq(Rows) /\ Distinct(rows) /\ Len(rows) \in Nat /\ Len(rows) < MaxRows
      /\ execs' \in [ExecIds -> [wf : Nat, status : ExecStates]]
    <2>1. rows \in Seq(Rows) /\ Distinct(rows) /\ Len(rows) < MaxRows
          /\ execs' \in [ExecIds -> [wf : Nat, status : ExecStates]]
        BY DEF QueryInv, QueryTypeOK, RowsKept, Register
    <2> QED BY <2>1, LenProperties
<1>1. PICK r \in NewRows : /\ r.id \notin {o.id : o \in Elems(rows)}
                           /\ rows' \in {<<r>> \o rows, Append(rows, r)}
    BY DEF Register
<1>2. r \in Rows
    BY RowsTyped DEF KnownRows
<1>3. \A i \in 1..Len(rows) : rows[i].id # r.id
    BY <1>1 DEF Elems
<1>4. MaxRows \in Nat
    BY QueryAssumption
<1>5. PICK at \in {1, Len(rows) + 1} :
        /\ rows' \in Seq(Rows) /\ Len(rows') = Len(rows) + 1
        /\ rows'[at] = r
        /\ \A i \in 1..Len(rows) : rows'[IF i < at THEN i ELSE i + 1] = rows[i]
        /\ \A j \in 1..(Len(rows) + 1) :
             j # at => rows'[j] = rows[IF j < at THEN j ELSE j - 1]
    <2>1. CASE rows' = <<r>> \o rows
        <3>1. <<r>> \in Seq(Rows) /\ Len(<<r>>) = 1 /\ <<r>>[1] = r
            BY <1>2
        <3>2. /\ <<r>> \o rows \in Seq(Rows) /\ Len(<<r>> \o rows) = 1 + Len(rows)
              /\ \A i \in 1..(1 + Len(rows)) :
                   (<<r>> \o rows)[i] = IF i <= 1 THEN <<r>>[i] ELSE rows[i - 1]
            BY <1>0, <3>1, ConcatProperties
        <3> QED BY <1>0, <2>1, <3>1, <3>2
    <2>2. CASE rows' = Append(rows, r)
        <3>1. /\ Append(rows, r) \in Seq(Rows) /\ Len(Append(rows, r)) = Len(rows) + 1
              /\ \A i \in 1..Len(rows) : Append(rows, r)[i] = rows[i]
              /\ Append(rows, r)[Len(rows) + 1] = r
            BY <1>0, <1>2, AppendProperties
        <3> QED BY <1>0, <2>2, <3>1
    <2> QED BY <1>1, <2>1, <2>2
<1>6. Distinct(rows')
    <2>1. ASSUME NEW i \in 1..Len(rows'), NEW j \in 1..Len(rows'), rows'[i].id = rows'[j].id
          PROVE  i = j
        <3> DEFINE from(k) == IF k < at THEN k ELSE k - 1
        <3>1. \A k \in 1..Len(rows') :
                k # at => from(k) \in 1..Len(rows) /\ rows'[k] = rows[from(k)]
            BY <1>0, <1>5
        <3>2. CASE i # at /\ j # at
            <4>1. from(i) = from(j)
                BY <1>0, <2>1, <3>1, <3>2 DEF Distinct
            <4> QED BY <1>0, <1>5, <3>2, <4>1
        <3>3. CASE i = at \/ j = at
            BY <1>3, <1>5, <2>1, <3>1, <3>3
        <3> QED BY <3>2, <3>3
    <2> QED BY <2>1 DEF Distinct
<1>7. ASSUME NEW e \in Elems(rows) PROVE \E n \in Elems(rows') : SameRow(e, n)
    <2>1. PICK i \in 1..Len(rows) : rows[i] = e
        BY DEF Elems
    <2>2. PICK k \in 1..Len(rows') : rows'[k] = e
        BY <1>0, <1>5, <2>1
    <2> QED BY <2>2 DEF Elems, SameRow
<1>8. Len(rows') <= MaxRows
    BY <1>0, <1>4, <1>5
<1>9. Changes
    BY DEF Register
<1> QED BY <1>0, <1>5, <1>6, <1>7, <1>8, <1>9, ChangesKeep

\* A workflow's status changes.
LEMMA ChangeStatusKeeps ==
    ASSUME QueryInv, ChangeStatus PROVE QueryInv'
<1>1. PICK i \in 1..Len(rows), s \in RowStates : rows' = [rows EXCEPT ![i].status = s]
    BY DEF ChangeStatus
<1>2. /\ rows \in Seq(Rows) /\ Len(rows) <= MaxRows /\ Distinct(rows)
      /\ execs' \in [ExecIds -> [wf : Nat, status : ExecStates]]
    BY DEF QueryInv, QueryTypeOK, RowsKept, ChangeStatus
<1>3. PICK e : e = [rows[i] EXCEPT !.status = s]
    OBVIOUS
<1>4. e \in Rows /\ SameRow(rows[i], e)
    BY <1>2, <1>3, ElementOfSeq, RowsTyped
<1>5. rows' = [rows EXCEPT ![i] = e]
    BY <1>1, <1>3
<1>6. /\ rows' \in Seq(Rows) /\ Len(rows') = Len(rows)
      /\ \A j \in 1..Len(rows) : rows'[j] = IF j = i THEN e ELSE rows[j]
    BY <1>2, <1>4, <1>5, ExceptSeq
<1>7. \A j \in 1..Len(rows) : SameRow(rows[j], rows'[j])
    BY <1>4, <1>6 DEF SameRow
<1>8. Distinct(rows')
    BY <1>2, <1>6, <1>7 DEF Distinct, SameRow
<1>9. \A r \in Elems(rows) : \E n \in Elems(rows') : SameRow(r, n)
    BY <1>6, <1>7 DEF Elems
<1>10. Changes
    BY DEF ChangeStatus
<1> QED BY <1>2, <1>6, <1>8, <1>9, <1>10, ChangesKeep

\* An execution ends.
LEMMA ExecutionEndsKeeps ==
    ASSUME QueryInv, ExecutionEnds PROVE QueryInv'
<1>1. PICK e \in ExecIds, s \in {"SUCCESS", "FAILURE"} : execs' = [execs EXCEPT ![e].status = s]
    BY DEF ExecutionEnds
<1>2. /\ rows \in Seq(Rows) /\ Len(rows) <= MaxRows /\ Distinct(rows) /\ rows' = rows
      /\ execs \in [ExecIds -> [wf : Nat, status : ExecStates]] /\ Changes
    BY DEF QueryInv, QueryTypeOK, RowsKept, ExecutionEnds
<1>3. execs' \in [ExecIds -> [wf : Nat, status : ExecStates]]
    BY <1>1, <1>2 DEF ExecStates
<1>4. \A r \in Elems(rows) : \E n \in Elems(rows') : SameRow(r, n)
    BY <1>2 DEF SameRow
<1> QED BY <1>2, <1>3, <1>4, ChangesKeep

\* Nothing happens.
LEMMA QueryStutters ==
    ASSUME QueryInv, UNCHANGED queryVars PROVE QueryInv'
<1>1. rows' = rows /\ execs' = execs /\ tenant' = tenant /\ changes' = changes /\ q' = q
    BY DEF queryVars
<1>2. QueryTypeOK'
    BY <1>1 DEF QueryInv, QueryTypeOK
<1>3. /\ AllFound' = AllFound /\ WantedRows' = WantedRows
      /\ AskedRows' = AskedRows /\ ActiveAsked' = ActiveAsked
      /\ \A a : Found(a)' <=> Found(a)
    BY <1>1, SameAnswers
<1>4. RowsKept'
    BY <1>1, <1>3 DEF QueryInv, RowsKept
<1>5. Paging'
    <2>1. PagesBefore' = PagesBefore
        BY <1>1, <1>3 DEF PagesBefore
    <2> QED BY <1>1, <1>3, <2>1 DEF QueryInv, Paging
<1>6. WaysOn'
    <2>1. FindRegistry(q.ask.reg)' = FindRegistry(q.ask.reg)
        BY <1>1 DEF FindRegistry
    <2> QED BY <1>1, <2>1 DEF QueryInv, WaysOn
<1>7. ListShown' /\ NameResolved'
    BY <1>1, <1>3 DEF QueryInv, ListShown, NameResolved
<1> QED BY <1>2, <1>4, <1>5, <1>6, <1>7 DEF QueryInv

\* The invariant is inductive.
LEMMA QueryInvNext ==
    ASSUME QueryInv, [QueryNext]_queryVars PROVE QueryInv'
<1>1. CASE Begin
    BY <1>1, BeginKeeps
<1>2. CASE ListPage
    BY <1>2, ListPageKeeps
<1>3. CASE ShowList
    BY <1>3, ShowListKeeps
<1>4. CASE ResolveByName
    BY <1>4, ResolveByNameKeeps
<1>5. CASE ResolveByWorkflowID
    BY <1>5, ResolveByIDKeeps
<1>6. CASE GetWorkflowSummary \/ GetLatestDeployment \/ ListExecutions \/ Join
    BY <1>6, FetchesKeep
<1>7. CASE FindExecutionByOnChainID
    BY <1>7, FindKeeps
<1>8. CASE GetExecution
    BY <1>8, GetExecutionKeeps
<1>9. CASE ListEventsOrLogs
    BY <1>9, EventsKeep
<1>10. CASE Register
    BY <1>10, RegisterKeeps
<1>11. CASE ChangeStatus
    BY <1>11, ChangeStatusKeeps
<1>12. CASE ExecutionEnds
    BY <1>12, ExecutionEndsKeeps
<1>13. CASE UNCHANGED queryVars
    BY <1>13, QueryStutters
<1> QED BY <1>1, <1>2, <1>3, <1>4, <1>5, <1>6, <1>7, <1>8, <1>9, <1>10, <1>11, <1>12, <1>13
        DEF QueryNext

\* What the properties say follows.
LEMMA QueryInvAnswers == QueryInv => QueriesAnswer
<1> SUFFICES ASSUME QueryInv PROVE QueriesAnswer
    OBVIOUS
<1>1. ListShown /\ NameResolved
    BY DEF QueryInv
<1>2. q.status = "FAILURE" /\ q.at = "done" => q.failures
    BY DEF QueryInv, WaysOn
<1>3. changes = 0 /\ q.ask.cmd = "list" /\ q.at = "done" =>
        Elems(q.all) = WantedRows /\ Len(q.all) = Cardinality(WantedRows)
    BY <1>1 DEF ListShown
<1> QED BY <1>1, <1>2, <1>3 DEF QueriesAnswer, NameResolved, AskedRows, ActiveAsked, WantedRows, ShownIn

-----------------------------------------------------------------------------
LEMMA QueryInvAlways == QuerySpec => []QueryInv
<1>1. QueryInit => QueryInv
    BY QueryInvInit
<1>2. QueryInv /\ [QueryNext]_queryVars => QueryInv'
    BY QueryInvNext
<1> QED BY <1>1, <1>2, PTL DEF QuerySpec

\* Every variable of a query and of the platform it asks stays in its set of
\* values: in particular no listing asks for more pages than there are workflows
\* and one (listWorkflows in the workflow data client, which stops at an empty page).
THEOREM QueryTypeCorrect == QuerySpec => []QueryTypeOK
<1>1. QueryInv => QueryTypeOK
    BY DEF QueryInv
<1> QED BY <1>1, QueryInvAlways, PTL

\* A list that did not change is shown whole over all its pages, each row once and
\* under the registry it is shown with; a name resolves to a workflow of that
\* name, owner and registry whatever changed between the pages; a failed
\* execution is shown with what failed in it.
THEOREM QueriesAnswerHolds == QuerySpec => []QueriesAnswer
<1> QED BY QueryInvAnswers, QueryInvAlways, PTL
=============================================================================
