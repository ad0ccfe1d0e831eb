------------------------------- MODULE Records --------------------------------
(* Creating and updating the records of one doctype through handle(): the     *)
(* permission gates of src/perms, the service's order of checks, the naming   *)
(* series of the JobController, the fetched fields, the meta-driven           *)
(* validation, and the rows in Postgres, by requests that interleave at every *)
(* await.  The reads (getDoc, listDocs) change nothing and are operators;     *)
(* which columns of a row an answer shows (maskRead) is left out.             *)
(*                                                                            *)
(* A context is its user: identity.js reads the roles and the branch of a     *)
(* user once per request, and they do not change here.                        *)
EXTENDS Naturals, FiniteSets

CONSTANTS
    Requests,
    Users,
    Roles,         \* the roles of each user
    Scopes,        \* ctx.scopes of each user: the values of some fields
    Unrestricted,  \* users with the explicit all-rows grant (admin)
    Perms,         \* the docperms: role, permlevel, operations, ifOwner
    Fields,
    Values,        \* what a field may hold
    Binary,        \* of them: 0, 1, false and true
    True,          \* of them: 1 and true
    Order,         \* how < and > see a value and a literal (Null counts as 0)
    Blank,         \* the empty string
    Null,          \* null: a column without a value
    Unset,         \* undefined: a key the document does not have
    Entities,      \* the values of EntityField that have a naming series
    EntityField,   \* the field the series is named after
    ScopeFields,   \* meta.scopeFields
    Level,         \* the permlevel of each field
    Unique,        \* unique fields
    DependsOn,     \* of each field: when it is relevant
    Mandatory,     \* of each field: when it is required
    Links,         \* the Link fields that validateLinks() looks at
    FetchFrom,     \* of some fields: the Link they are fetched over
    Linked,        \* what the linked row may hold then; Unset: there is none
    Payloads,      \* what clients create with: functions on some of the fields
    Patches,       \* what clients update with
    Filters        \* what clients filter lists by

Ops == {"read", "write", "create"}
Owner == "owner"
Columns == Fields \cup {Owner}
Literal == Values \cup {Blank, Null}
Row == [Columns -> Literal \cup Users]
Doc == [Columns -> Literal \cup Users \cup {Unset}]

\* A condition in disjunctive form: some set of tests that all hold, or with
\* not do not hold.
Comparisons == {"gt", "gte", "lt", "lte"}
Test ==
    [field : Fields, not : BOOLEAN, op : {"truthy", "falsy", "set", "notset"}] \cup
    [field : Fields, not : BOOLEAN, op : {"eq", "neq"} \cup Comparisons,
     value : Literal] \cup
    [field : Fields, not : BOOLEAN, op : {"in", "nin"}, value : SUBSET Literal]
Condition == SUBSET SUBSET Test
Always == {{}}   \* no dependsOn
Never == {}      \* no mandatoryDependsOn

Payload == UNION {[F -> Literal] : F \in SUBSET Fields}

ASSUME RecordsAssumption ==
    /\ Roles \in [Users -> SUBSET {p.role : p \in Perms}]
    /\ \A u \in Users : \A f \in ScopeFields \cap DOMAIN Scopes[u] : Scopes[u][f] \in Values
    /\ Unrestricted \subseteq Users
    /\ \A p \in Perms : p.level \in Nat /\ p.ops \subseteq Ops /\ p.ifOwner \in BOOLEAN
    /\ EntityField \in Fields /\ Owner \notin Fields
    /\ Entities \subseteq Values /\ True \subseteq Binary /\ Binary \subseteq Values
    /\ Values \cap {Blank, Null, Unset} = {} /\ Users \cap {Blank, Null, Unset} = {}
    /\ Blank # Null /\ Unset \notin {Blank, Null}
    /\ Order \in [Literal -> [Literal -> {"less", "same", "more", "none"}]]
    /\ ScopeFields \subseteq Fields
    /\ Level \in [Fields -> Nat]
    /\ Unique \subseteq Fields
    /\ DependsOn \in [Fields -> Condition]
    /\ Mandatory \in [Fields -> Condition]
    /\ Payloads \subseteq Payload /\ Patches \subseteq Payload
    /\ Links \subseteq Fields /\ DOMAIN FetchFrom \subseteq Fields
    /\ \A f \in DOMAIN FetchFrom :   \* no Link is itself fetched
          /\ FetchFrom[f] \in Links \ DOMAIN FetchFrom
          /\ \A v \in Values : Linked[f][v] \subseteq Literal \cup {Unset}

VARIABLES
    table,    \* the rows, by name
    series,   \* tab_series: the last number of each entity
    alone,    \* requests are served one after the other
    pc,       \* where each request is
    req,      \* what it asks: who, create or update
    name,     \* the name of its document
    mem,      \* its document
    resp      \* its HTTP status

vars == <<table, series, alone, pc, req, name, mem, resp>>

------------------------------------------------------------------------------
\* perms/permissions.js

Held(u) == {p \in Perms : p.role \in Roles[u]}

\* For create there is no document to own yet.
HasPlainGrant(u, op) ==
    \E p \in Held(u) : p.level = 0 /\ op \in p.ops /\ (op = "create" \/ ~p.ifOwner)

HasOwnerGrant(u, op) ==
    op # "create" /\ \E p \in Held(u) : p.level = 0 /\ op \in p.ops /\ p.ifOwner

\* can() without a document, and with one.
Can(u, op) == HasPlainGrant(u, op) \/ (op = "read" /\ HasOwnerGrant(u, op))
CanDoc(u, op, doc) == HasPlainGrant(u, op) \/ (HasOwnerGrant(u, op) /\ doc[Owner] = u)

\* assertCanMutate(): could this user ever do it?
CanMutate(u, op) == HasPlainGrant(u, op) \/ HasOwnerGrant(u, op)

Levels(u, op) == {p.level : p \in {q \in Held(u) : op \in q.ops}}

\* Fields whose change assertCanWrite() refuses.
Unwritable(u) == {f \in Fields : Level[f] \notin Levels(u, "write")}

\* {...a, ...b}
Spread(a, b) == [k \in DOMAIN a \cup DOMAIN b |-> IF k \in DOMAIN b THEN b[k] ELSE a[k]]

\* The row scope: the user's value on each scope field, the user where every
\* read grant is an owner's.
QueryConditions(u) ==
    IF u \in Unrestricted THEN <<>>
    ELSE Spread([f \in ScopeFields \cap DOMAIN Scopes[u] |-> Scopes[u][f]],
                [k \in {c \in {Owner} : HasOwnerGrant(u, "read") /\ ~HasPlainGrant(u, "read")}
                    |-> u])

Matches(doc, filter) == \A k \in DOMAIN filter : doc[k] = filter[k]
RowInScope(u, doc) == Matches(doc, QueryConditions(u))

\* Mutant: what the client filters by replaces the scope.
ListClientFirst(u, filters) ==
    {n \in DOMAIN table : Matches(table[n], Spread(QueryConditions(u), filters))}

\* listDocs() of a user who passed the read gate.
List(u, filters) ==
    {n \in DOMAIN table : Matches(table[n], Spread(filters, QueryConditions(u)))}

\* getDoc() of a user who passed the read gate answers 200.
Fetchable(u) == {n \in DOMAIN table : RowInScope(u, table[n])}

------------------------------------------------------------------------------
\* runtime/validate.js and depends-on.js

Empty(v) == v \in {Unset, Null, Blank}
ToBoolean(v) == v \in True

Equal(v, value) ==
    IF value \in Binary THEN ToBoolean(v) = ToBoolean(value) ELSE v = value

Satisfying(op) ==
    CASE op = "gt" -> {"more"} [] op = "gte" -> {"more", "same"}
      [] op = "lt" -> {"less"} [] op = "lte" -> {"less", "same"}

\* evalLeaf() on the value of the field.
TestHolds(t, v) ==
    CASE t.op = "truthy" -> ToBoolean(v)
      [] t.op = "falsy" -> ~ToBoolean(v)
      [] t.op = "set" -> ~Empty(v)
      [] t.op = "notset" -> Empty(v)
      [] t.op = "eq" -> Equal(v, t.value)
      [] t.op = "neq" -> ~Equal(v, t.value)
      [] t.op = "in" -> v \in t.value
      [] t.op = "nin" -> v \notin t.value
      [] t.op \in Comparisons -> v # Unset /\ Order[v][t.value] \in Satisfying(t.op)

\* evalCondition()
Holds(cond, doc) == \E all \in cond : \A t \in all : TestHolds(t, doc[t.field]) # t.not
IsRelevant(f, doc) == Holds(DependsOn[f], doc)

\* An irrelevant field is not looked at.
Missing(doc) ==
    {f \in Fields : IsRelevant(f, doc) /\ Holds(Mandatory[f], doc) /\ Empty(doc[f])}

\* Mutant: a document that has its name already is not compared.
ClashOnCreate(r) ==
    req[r].kind = "create" /\
    \E f \in Unique, n \in DOMAIN table :
        /\ IsRelevant(f, mem[r]) /\ ~Empty(mem[r][f])
        /\ n # name[r] /\ table[n][f] = mem[r][f]

\* The unique check lists the rows with the value, relevant there or not.
Clash(r) ==
    \E f \in Unique, n \in DOMAIN table :
        /\ IsRelevant(f, mem[r]) /\ ~Empty(mem[r][f])
        /\ n # name[r] /\ table[n][f] = mem[r][f]

------------------------------------------------------------------------------
\* A request

PC == {"new", "name", "load", "fetch", "validate", "write", "done"}
NoDoc == [c \in Columns |-> Unset]
NoPatch == [f \in {} |-> Null]
NoName == <<Null, 0>>
Names == Entities \X (Nat \ {0})
NoRequest == [user |-> Null, kind |-> "none", patch |-> NoPatch]
Request == [user : Users \cup {Null}, kind : {"none", "create", "update"}, patch : Payload]

TypeOK ==
    /\ DOMAIN table \subseteq Names
    /\ \A n \in DOMAIN table : table[n] \in Row
    /\ series \in [Entities -> Nat]
    /\ alone \in BOOLEAN
    /\ pc \in [Requests -> PC]
    /\ req \in [Requests -> Request]
    /\ name \in [Requests -> Names \cup {NoName}]
    /\ mem \in [Requests -> Doc]
    /\ resp \in [Requests -> {0, 200, 400, 403, 404, 500}]

Init ==
    /\ table = [n \in {} |-> NoDoc]
    /\ series = [e \in Entities |-> 0]
    /\ alone \in BOOLEAN
    /\ pc = [r \in Requests |-> "new"]
    /\ req = [r \in Requests |-> NoRequest]
    /\ name = [r \in Requests |-> NoName]
    /\ mem = [r \in Requests |-> NoDoc]
    /\ resp = [r \in Requests |-> 0]

Goto(r, place) == pc' = [pc EXCEPT ![r] = place] /\ UNCHANGED resp

\* The answer; what the request was and held is gone with it.
Answer(r, status) ==
    /\ pc' = [pc EXCEPT ![r] = "done"] /\ resp' = [resp EXCEPT ![r] = status]
    /\ req' = [req EXCEPT ![r] = NoRequest] /\ name' = [name EXCEPT ![r] = NoName]
    /\ mem' = [mem EXCEPT ![r] = NoDoc]

\* A request may arrive.
Turn(r) == pc[r] = "new" /\ (alone => \A q \in Requests : pc[q] \in {"new", "done"})

\* POST /<doctype>, up to the first await: the create grant, the fields the
\* user may not write, the entity the series is named after.
Create(r) ==
    /\ Turn(r)
    /\ \E u \in Users, p \in Payloads :
          LET doc == Spread(Spread(NoDoc, p), [c \in {Owner} |-> u])
              refused == ~Can(u, "create") \/ DOMAIN p \cap Unwritable(u) # {} IN
          \/ refused /\ Answer(r, 403)
          \/ ~refused /\ doc[EntityField] \notin Entities /\ Answer(r, 400)
          \/ /\ ~refused /\ doc[EntityField] \in Entities
             /\ req' = [req EXCEPT ![r] = [user |-> u, kind |-> "create", patch |-> p]]
             /\ mem' = [mem EXCEPT ![r] = doc]
             /\ Goto(r, "name") /\ UNCHANGED name
    /\ UNCHANGED <<table, series, alone>>

\* Mutant: the highest name in the table plus one.
NextSeriesMax(r) ==
    LET e == mem[r][EntityField] IN
    /\ pc[r] = "name"
    /\ name' = [name EXCEPT ![r] = <<e, Cardinality({n \in DOMAIN table : n[1] = e}) + 1>>]
    /\ Goto(r, "fetch")
    /\ UNCHANGED <<table, series, alone, req, mem>>

\* Mutant: the number before the increment.
NextSeriesFromZero(r) ==
    LET e == mem[r][EntityField] IN
    /\ pc[r] = "name"
    /\ series' = [series EXCEPT ![e] = @ + 1]
    /\ name' = [name EXCEPT ![r] = <<e, series[e]>>]
    /\ Goto(r, "fetch")
    /\ UNCHANGED <<table, alone, req, mem>>

\* nextSeries(): next_series() takes the next number in one statement.
NextSeries(r) ==
    LET e == mem[r][EntityField] IN
    /\ pc[r] = "name"
    /\ series' = [series EXCEPT ![e] = @ + 1]
    /\ name' = [name EXCEPT ![r] = <<e, series[e] + 1>>]
    /\ Goto(r, "fetch")
    /\ UNCHANGED <<table, alone, req, mem>>

\* POST /<doctype>/<name>, up to the first await.
Update(r) ==
    /\ Turn(r)
    /\ \E u \in Users, n \in DOMAIN table, p \in Patches :
          \/ ~CanMutate(u, "write") /\ Answer(r, 403)
          \/ /\ CanMutate(u, "write")
             /\ req' = [req EXCEPT ![r] = [user |-> u, kind |-> "update", patch |-> p]]
             /\ name' = [name EXCEPT ![r] = n]
             /\ Goto(r, "load") /\ UNCHANGED mem
    /\ UNCHANGED <<table, series, alone>>

\* Mutant: no owner check after the load.
LoadUnowned(r) ==
    LET u == req[r].user
        row == table[name[r]]
        doc == Spread(row, req[r].patch) IN
    /\ pc[r] = "load"
    /\ \/ ~RowInScope(u, row) /\ Answer(r, 404)
       \/ /\ RowInScope(u, row) /\ \E f \in Unwritable(u) : doc[f] # row[f]
          /\ Answer(r, 403)
       \/ /\ RowInScope(u, row) /\ \A f \in Unwritable(u) : doc[f] = row[f]
          /\ Goto(r, "fetch") /\ mem' = [mem EXCEPT ![r] = doc]
          /\ UNCHANGED <<req, name>>
    /\ UNCHANGED <<table, series, alone>>

\* updateDoc() from the loaded row to the first await of save(): out of scope
\* reads as not found, the owner check, the patch, the field levels.
Load(r) ==
    LET u == req[r].user
        row == table[name[r]]
        doc == Spread(row, req[r].patch)
        refused == ~CanDoc(u, "write", row) \/ \E f \in Unwritable(u) : doc[f] # row[f] IN
    /\ pc[r] = "load"
    /\ \/ ~RowInScope(u, row) /\ Answer(r, 404)
       \/ RowInScope(u, row) /\ refused /\ Answer(r, 403)
       \/ /\ RowInScope(u, row) /\ ~refused
          /\ Goto(r, "fetch") /\ mem' = [mem EXCEPT ![r] = doc]
          /\ UNCHANGED <<req, name>>
    /\ UNCHANGED <<table, series, alone>>

\* What a field may be fetched as.
Fetched(f, doc) ==
    LET link == doc[FetchFrom[f]] IN
    IF link \in Values THEN Linked[f][link] ELSE {Unset}

Present(found) == [f \in {g \in DOMAIN found : found[g] # Unset} |-> found[f]]

\* resolveFetchFrom(), whatever the levels of the user.
Fetch(r) ==
    /\ pc[r] = "fetch"
    /\ \E found \in [DOMAIN FetchFrom -> Literal \cup {Unset}] :
          /\ \A f \in DOMAIN FetchFrom : found[f] \in Fetched(f, mem[r])
          /\ mem' = [mem EXCEPT ![r] = Spread(@, Present(found))]
    /\ Goto(r, "validate")
    /\ UNCHANGED <<table, series, alone, req, name>>

\* validateAgainstMeta() with its list of the rows that have a unique value, and
\* validateLinks(), which may find no linked row.
Validate(r) ==
    /\ pc[r] = "validate"
    /\ \/ Missing(mem[r]) = {} /\ ~Clash(r) /\ Goto(r, "write")
          /\ UNCHANGED <<req, name, mem>>
       \/ /\ Missing(mem[r]) # {} \/ Clash(r) \/ \E f \in Links : ~Empty(mem[r][f])
          /\ Answer(r, 400)
    /\ UNCHANGED <<table, series, alone>>

\* A column of a key that is not there is null.
Stored(doc) == [c \in Columns |-> IF doc[c] = Unset THEN Null ELSE doc[c]]

\* The insert, or the update of the whole row (save() reads the row again before
\* it, but only for its docstatus, 0 here); the acknowledgement may be lost, and
\* maskRead() may miss a meta that was invalidated meanwhile.
Write(r) ==
    /\ pc[r] = "write"
    /\ \/ /\ req[r].kind = "create" /\ name[r] \in DOMAIN table   \* the primary key
          /\ Answer(r, 500) /\ UNCHANGED table
       \/ /\ req[r].kind = "create" => name[r] \notin DOMAIN table
          /\ table' = [n \in DOMAIN table \cup {name[r]} |->
                          IF n = name[r] THEN Stored(mem[r]) ELSE table[n]]
          /\ \E status \in {200, 404, 500} : Answer(r, status)
    /\ UNCHANGED <<series, alone>>

\* A store call fails, or the instance dies.
Fail(r) ==
    /\ pc[r] \notin {"new", "done"}
    /\ Answer(r, 500)
    /\ UNCHANGED <<table, series, alone>>

Step(r) ==
    \/ Create(r) \/ NextSeries(r) \/ Update(r) \/ Load(r)
    \/ Fetch(r) \/ Validate(r) \/ Write(r) \/ Fail(r)

Next == \E r \in Requests : Step(r)

Spec == Init /\ [][Next]_vars

------------------------------------------------------------------------------
\* Properties

\* The name a create holds, from the series to its insert.
Taken(r) == req[r].kind = "create" /\ pc[r] \in {"fetch", "validate", "write"}

\* No two creates hold one name and no row has it: an insert never meets the
\* primary key, however many creates overlap, fail or are refused on the way
\* (nextSeries() takes a number for good).
FreshNames ==
    \A r \in Requests : Taken(r) =>
        /\ name[r] \notin DOMAIN table
        /\ \A q \in Requests \ {r} : Taken(q) => name[q] # name[r]

\* A condition that holds of a key that is not there as it does of the NULL the
\* key becomes in its column.  Not every one does: NULL >= 0, undefined is not.
Settled(cond) ==
    \A all \in cond : \A t \in all : TestHolds(t, Unset) = TestHolds(t, Null)

\* Every stored row has its relevant required fields, and where requests do
\* not overlap no two rows share a unique value that is relevant in both, also
\* when a field becomes relevant, or is fetched, by a later update
\* (validateAgainstMeta()); of fields whose conditions are settled.
ConstraintsHold ==
    \A n \in DOMAIN table :
        /\ \A f \in Missing(table[n]) : ~Settled(DependsOn[f]) \/ ~Settled(Mandatory[f])
        /\ alone => \A m \in DOMAIN table \ {n}, f \in Unique :
              table[m][f] = table[n][f] =>
                  \/ Empty(table[n][f]) \/ ~Settled(DependsOn[f])
                  \/ ~IsRelevant(f, table[n]) \/ ~IsRelevant(f, table[m])

\* Refuted: every stored row has its relevant required fields, whatever the
\* conditions: a field nobody set is "fail-closed" in a comparison (evalLeaf()).
StoredIsComplete == \A n \in DOMAIN table : Missing(table[n]) = {}

\* A row is changed only by a request whose user may write it; it keeps its
\* owner and, where requests do not overlap, it was in the user's scope and
\* keeps the fields above the user's levels but for those fetched from a row it
\* links (the checks around the load in updateDoc(), which saves the whole row
\* some awaits later, and resolveFetchFrom() in between).
WritesPermitted ==
    [][\A n \in DOMAIN table : table'[n] # table[n] =>
          \E r \in Requests :
             /\ name[r] = n /\ pc[r] = "write" /\ pc'[r] = "done"
             /\ LET u == req[r].user IN
                /\ CanDoc(u, "write", table[n]) /\ table'[n][Owner] = table[n][Owner]
                /\ alone => /\ RowInScope(u, table[n])
                            /\ \A f \in Unwritable(u) :
                                  \/ table'[n][f] = table[n][f]
                                  \/ /\ f \in DOMAIN FetchFrom
                                     /\ table'[n][f] \in Fetched(f, table'[n])]_vars

\* Refuted: where requests do not overlap an update keeps every field above its
\* user's levels (the service "enforces field-level writes").
LevelsEnforced ==
    [][\A r \in Requests : alone /\ pc[r] = "write" /\ req[r].kind = "update" =>
          \A f \in Unwritable(req[r].user) : table'[name[r]][f] = table[name[r]][f]]_vars

\* A reader's list shows what the reader can open and nothing else, and no
\* filter of a client widens it (listDocs() and getDoc() share the scope).
ListShowsFetchable ==
    \A u \in Users : Can(u, "read") =>
        /\ List(u, NoPatch) = Fetchable(u)
        /\ \A filter \in Filters : List(u, filter) \subseteq Fetchable(u)

==============================================================================
