------------------------------- MODULE Install --------------------------------
(* Installing doctypes from ERPNext sources with scripts/generate-doctypes:   *)
(* the choice of what becomes full and what a stub (src/generator), the defs  *)
(* and their validation, and migrate() of each def against Postgres           *)
(* (src/meta/installer.js, ddl.js, pg-admin.js), by operators that may die at *)
(* any await or run at the same time.  Also --emit and the human db push.     *)
(*                                                                            *)
(* A field keeps its name, its kind and its target doctype; permissions and   *)
(* the other properties of a def have no part in what is installed.           *)
EXTENDS Naturals, FiniteSets

CONSTANTS
    Doctypes,    \* doctype names
    NoType,      \* the options of a field that names no doctype
    FieldNames,  \* field names
    Framework,   \* stands for the columns every table has: name, owner, ...
    Trees,       \* the ERPNext source trees the operators may find
    Commands,    \* the command lines they use
    Ops,         \* operators
    Serial,      \* operators wait for each other
    MaxStarts,   \* bound: command lines run
    MaxCrashes   \* bound: processes that die half way

\* One fieldtype per way mapFieldtype() and depsByKind() treat it; "Nonsense"
\* is in none of the three buckets.
ErpKinds == {"Section Break", "Data", "Dynamic Link", "Link", "Table",
             "Table MultiSelect", "Nonsense"}
\* The options of a Dynamic Link name a sibling field.
ErpField ==
    {f \in [name : FieldNames, kind : ErpKinds, options : Doctypes \cup FieldNames \cup {NoType}] :
        f.kind # "Dynamic Link" => f.options \in Doctypes \cup {NoType}}
Tree == [json : SUBSET Doctypes, fields : [Doctypes -> SUBSET ErpField]]
Command == [mode : {"closure", "no-closure", "stub-deps"}, act : {"emit", "apply"},
            seeds : (SUBSET Doctypes) \ {{}}]

ASSUME InstallAssumption ==
    /\ NoType \notin Doctypes
    /\ Framework \notin FieldNames
    /\ Trees \subseteq Tree
    /\ Commands \subseteq Command /\ Commands # {}
    /\ Serial \in BOOLEAN
    /\ MaxStarts \in Nat
    /\ MaxCrashes \in Nat

VARIABLES
    tree,     \* the source tree on disk
    op,       \* what each operator's process is doing
    files,    \* emitted migration files not pushed yet
    cols,     \* the columns of each doctype's table, {} without a table
    row,      \* the meta row of each doctype with its field rows
    silent,   \* doctypes whose meta rows changed since the last version bump
    starts,   \* command lines run so far
    crashes   \* processes that died so far

vars == <<tree, op, files, cols, row, silent, starts, crashes>>

------------------------------------------------------------------------------
\* From ERPNext JSON to defs

Field == [name : FieldNames, kind : {"Data", "Link", "Table"}, options : Doctypes \cup {NoType}]
Def == [name : Doctypes, stub : BOOLEAN, fields : SUBSET Field]
Row == [state : {"absent", "stub", "full"}, fields : SUBSET Field]
Columns == FieldNames \cup {Framework}

\* depsByKind(): the targets by edge.
Links(d) == {f.options : f \in {g \in tree.fields[d] : g.kind = "Link"}} \ {NoType}
Tables(d) ==
    {f.options : f \in {g \in tree.fields[d] : g.kind \in {"Table", "Table MultiSelect"}}}
        \ {NoType}

\* mapField() of the fields that carry data.
MapField(f) ==
    [name |-> f.name,
     kind |-> CASE f.kind \in {"Table", "Table MultiSelect"} -> "Table"
                [] f.kind = "Link" -> "Link"
                [] OTHER -> "Data",
     options |-> IF f.kind = "Dynamic Link" THEN NoType ELSE f.options]

\* erpnextJsonToDef(): layout fields are dropped.
FullDef(d) ==
    [name |-> d, stub |-> FALSE,
     fields |-> {MapField(f) : f \in {g \in tree.fields[d] : g.kind # "Section Break"}}]
StubDef(d) == [name |-> d, stub |-> TRUE, fields |-> {}]

\* The file is found, mapFieldtype() knows every fieldtype, assertValidDef() passes.
Valid(d) ==
    /\ d \in tree.json
    /\ \A f \in tree.fields[d] :
          /\ f.kind # "Nonsense"
          /\ f.kind \in {"Link", "Table", "Table MultiSelect"} => f.options # NoType

\* Mutant: Table fields get a column too.
FieldColumnsOfAll(fields) == {IF f.kind = "Table" THEN NoType ELSE f.name : f \in fields}

\* createTableSql(), alterColumnsSql(): a Table field has no column.
FieldColumns(fields) == {f.name : f \in {g \in fields : g.kind # "Table"}}

------------------------------------------------------------------------------
\* An operator's process

NoDef == [name |-> NoType, stub |-> FALSE, fields |-> {}]
Idle == [at |-> "idle", cmd |-> CHOOSE c \in Commands : TRUE, queue |-> {}, seen |-> {},
         todo |-> {}, def |-> NoDef, upgrade |-> FALSE]
Process == [at : {"idle", "plan", "look", "ddl", "sync", "bump"}, cmd : Commands,
            queue : SUBSET Doctypes, seen : SUBSET Doctypes, todo : SUBSET Def,
            def : Def \cup {NoDef}, upgrade : BOOLEAN]

TypeOK ==
    /\ tree \in Trees
    /\ op \in [Ops -> Process]
    /\ files \subseteq Def
    /\ cols \in [Doctypes -> SUBSET Columns]
    /\ \A d \in Doctypes : cols[d] # {} => Framework \in cols[d]
    /\ row \in [Doctypes -> Row]
    /\ silent \subseteq Doctypes
    /\ starts \in 0..MaxStarts
    /\ crashes \in 0..MaxCrashes

Init ==
    /\ tree \in Trees
    /\ op = [o \in Ops |-> Idle]
    /\ files = {}
    /\ cols = [d \in Doctypes |-> {}]
    /\ row = [d \in Doctypes |-> [state |-> "absent", fields |-> {}]]
    /\ silent = {}
    /\ starts = 0
    /\ crashes = 0

\* parseArgs() accepts the command line.
Start(o) ==
    /\ op[o].at = "idle" /\ starts < MaxStarts
    /\ Serial => \A p \in Ops : op[p].at = "idle"
    /\ \E c \in Commands :
          op' = [op EXCEPT ![o] = [Idle EXCEPT !.at = "plan", !.cmd = c,
                                               !.queue = c.seeds, !.seen = c.seeds]]
    /\ starts' = starts + 1
    /\ UNCHANGED <<tree, files, cols, row, silent, crashes>>

\* process.exit(1), or main().catch(): nothing has been written yet.
Refuse(o) ==
    /\ op' = [op EXCEPT ![o] = Idle]
    /\ UNCHANGED <<tree, files, cols, row, silent, starts, crashes>>

\* Mutant: the bounded plan follows Link edges too.
FollowAll(mode, d) ==
    IF d \notin tree.json \/ mode = "no-closure" THEN {} ELSE Tables(d) \cup Links(d)

\* What the closure follows from a doctype that has a file.
Follow(mode, d) ==
    IF d \notin tree.json \/ mode = "no-closure" THEN {}
    ELSE IF mode = "stub-deps" THEN Tables(d) ELSE Tables(d) \cup Links(d)

\* A dependency that makes the plan fail: a Table child without a file, or,
\* without closure, anything outside the seeds.
DeadEnd(cmd, d, found) ==
    \/ cmd.mode = "stub-deps" /\ found \notin tree.json
    \/ cmd.mode = "no-closure" /\ found \notin cmd.seeds

\* Mutant: the search does not remember what it has visited.
VisitAgain(o) ==
    /\ op[o].at = "plan"
    /\ \E d \in op[o].queue :
          LET new == Follow(op[o].cmd.mode, d) IN
          IF \E c \in new : DeadEnd(op[o].cmd, d, c)
          THEN Refuse(o)
          ELSE /\ op' = [op EXCEPT ![o].queue = (@ \ {d}) \cup new, ![o].seen = @ \cup new]
               /\ UNCHANGED <<tree, files, cols, row, silent, starts, crashes>>

\* One turn of the breadth-first search of planInstall() or closureOver().  The
\* set of doctypes found does not depend on the order of the queue.
Visit(o) ==
    /\ op[o].at = "plan"
    /\ \E d \in op[o].queue :
          LET new == Follow(op[o].cmd.mode, d) \ op[o].seen IN
          IF \E c \in IF op[o].cmd.mode = "no-closure" /\ d \in tree.json
                      THEN Tables(d) \cup Links(d) ELSE new :
                DeadEnd(op[o].cmd, d, c)
          THEN Refuse(o)
          ELSE /\ op' = [op EXCEPT ![o].queue = (@ \ {d}) \cup new, ![o].seen = @ \cup new]
               /\ UNCHANGED <<tree, files, cols, row, silent, starts, crashes>>

\* Mutant: only the Link targets of the seeds are stubbed.
StubsOfSeeds(cmd, full) ==
    IF cmd.mode # "stub-deps" THEN {}
    ELSE (UNION {Links(d) : d \in cmd.seeds \cap tree.json}) \ full

\* The defs of a finished search: a stub for every Link target of a full doctype.
Stubs(cmd, full) ==
    IF cmd.mode # "stub-deps" THEN {} ELSE (UNION {Links(d) : d \in full \cap tree.json}) \ full

Defs(cmd, full) == {FullDef(d) : d \in full} \cup {StubDef(d) : d \in Stubs(cmd, full)}

\* Every def is generated and validated before the first one is applied.
Generate(o) ==
    /\ op[o].at = "plan" /\ op[o].queue = {}
    /\ \/ /\ \E d \in op[o].seen : ~Valid(d)
          /\ Refuse(o)
       \/ /\ \A d \in op[o].seen : Valid(d)
          /\ LET defs == Defs(op[o].cmd, op[o].seen) IN
             \/ /\ op[o].cmd.act = "apply"
                /\ op' = [op EXCEPT ![o].at = "look", ![o].todo = defs]
                /\ files' = files
             \/ /\ op[o].cmd.act = "emit"   \* emitMigration(): always CREATE TABLE
                /\ op' = [op EXCEPT ![o] = Idle]
                /\ files' = files \cup defs
          /\ UNCHANGED <<tree, cols, row, silent, starts, crashes>>

------------------------------------------------------------------------------
\* migrate() of one def after the other, the full ones first

Proceed(p) == IF p.todo = {} THEN Idle ELSE [p EXCEPT !.at = "look", !.def = NoDef]

\* The order of defs[]: stubs come last.
Turn(o, def) == def \in op[o].todo /\ (def.stub => \A e \in op[o].todo : e.stub)

\* Mutant: without the downgrade branch.
LookDowngrading(o) ==
    /\ op[o].at = "look"
    /\ \E def \in op[o].todo :
          /\ Turn(o, def)
          /\ op' = [op EXCEPT ![o] =
                       [@ EXCEPT !.todo = @ \ {def}, !.at = "ddl", !.def = def,
                                 !.upgrade = row[def.name].state = "stub" /\ ~def.stub]]
    /\ UNCHANGED <<tree, files, cols, row, silent, starts, crashes>>

\* migrate() reads the meta row, and leaves at once when a stub is asked for
\* and the doctype is full.
Look(o) ==
    /\ op[o].at = "look"
    /\ \E def \in op[o].todo :
          /\ Turn(o, def)
          /\ LET rest == [op[o] EXCEPT !.todo = @ \ {def}]
                 state == row[def.name].state IN
             op' = [op EXCEPT ![o] =
                       IF def.stub /\ state = "full" THEN Proceed(rest)
                       ELSE [rest EXCEPT !.at = "ddl", !.def = def,
                                         !.upgrade = state = "stub" /\ ~def.stub]]
    /\ UNCHANGED <<tree, files, cols, row, silent, starts, crashes>>

Created(def) == {Framework} \cup FieldColumns(def.fields)

\* Mutant: an upgrade is a CREATE TABLE IF NOT EXISTS too.
DdlCreateOnly(o) ==
    LET def == op[o].def IN
    /\ op[o].at = "ddl"
    /\ cols' = [cols EXCEPT ![def.name] = IF @ = {} THEN Created(def) ELSE @]
    /\ op' = [op EXCEPT ![o].at = "sync"]
    /\ UNCHANGED <<tree, files, row, silent, starts, crashes>>

\* applyDDL(): ALTER TABLE ADD COLUMN IF NOT EXISTS for an upgrade, which fails
\* without the table; CREATE TABLE IF NOT EXISTS otherwise.
Ddl(o) ==
    LET def == op[o].def
        had == cols[def.name] IN
    /\ op[o].at = "ddl"
    /\ \/ /\ op[o].upgrade /\ had = {} /\ FieldColumns(def.fields) # {}
          /\ Refuse(o)
       \/ /\ op[o].upgrade => had # {} \/ FieldColumns(def.fields) = {}
          /\ cols' = [cols EXCEPT ![def.name] =
                         IF op[o].upgrade THEN @ \cup FieldColumns(def.fields)
                         ELSE IF @ = {} THEN Created(def) ELSE @]
          /\ op' = [op EXCEPT ![o].at = "sync"]
          /\ UNCHANGED <<tree, files, row, silent, starts, crashes>>

\* syncDoctype() in its transaction: the row and its field rows, replaced.
Sync(o) ==
    LET def == op[o].def IN
    /\ op[o].at = "sync"
    /\ row' = [row EXCEPT ![def.name] =
                  [state |-> IF def.stub THEN "stub" ELSE "full", fields |-> def.fields]]
    /\ silent' = silent \cup {def.name}
    /\ op' = [op EXCEPT ![o].at = "bump"]
    /\ UNCHANGED <<tree, files, cols, starts, crashes>>

\* Mutant: only an upgrade announces itself.
BumpUpgrades(o) ==
    /\ op[o].at = "bump"
    /\ silent' = IF op[o].upgrade THEN {} ELSE silent
    /\ op' = [op EXCEPT ![o] = Proceed(@)]
    /\ UNCHANGED <<tree, files, cols, row, starts, crashes>>

\* bumpMetaVersion(): warm instances learn of every change before it.
Bump(o) ==
    /\ op[o].at = "bump"
    /\ silent' = {}
    /\ op' = [op EXCEPT ![o] = Proceed(@)]
    /\ UNCHANGED <<tree, files, cols, row, starts, crashes>>

\* The process dies, or a statement of it fails: a lost connection, a primary
\* key another operator's insert took first.
Crash(o) ==
    /\ op[o].at \notin {"idle", "plan"} /\ crashes < MaxCrashes
    /\ op' = [op EXCEPT ![o] = Idle]
    /\ crashes' = crashes + 1
    /\ UNCHANGED <<tree, files, cols, row, silent, starts>>

\* A human pushes a migration file: CREATE TABLE IF NOT EXISTS.
Push ==
    /\ \E def \in files :
          /\ files' = files \ {def}
          /\ cols' = [cols EXCEPT ![def.name] = IF @ = {} THEN Created(def) ELSE @]
    /\ UNCHANGED <<tree, op, row, silent, starts, crashes>>

\* The sources are updated.  A process reads them in one synchronous stretch.
Checkout ==
    /\ \A o \in Ops : op[o].at # "plan"
    /\ tree' \in Trees \ {tree}
    /\ UNCHANGED <<op, files, cols, row, silent, starts, crashes>>

Work(o) == Visit(o) \/ Generate(o) \/ Look(o) \/ Ddl(o) \/ Sync(o) \/ Bump(o)

Next == (\E o \in Ops : Start(o) \/ Work(o) \/ Crash(o)) \/ Push \/ Checkout

Spec == Init /\ [][Next]_vars

\* A process runs on; nobody has to start one, push a file or update sources.
FairSpec == Spec /\ \A o \in Ops : WF_vars(Work(o))

------------------------------------------------------------------------------
\* Properties

\* What the search should find: the least set with the seeds that is closed
\* under the edges the mode follows from the doctypes that have a file.
Edges(mode) ==
    CASE mode = "stub-deps" -> {"Table", "Table MultiSelect"}
      [] mode = "closure" -> {"Table", "Table MultiSelect", "Link"}
      [] mode = "no-closure" -> {}
Targets(mode, d) ==
    {f.options : f \in {g \in tree.fields[d] : g.kind \in Edges(mode)}} \ {NoType}
Reached(mode, seeds) ==
    {d \in Doctypes : \A S \in SUBSET Doctypes :
        seeds \subseteq S /\ (\A e \in S \cap tree.json : Targets(mode, e) \subseteq S) => d \in S}

\* A search that ended without an error found the transitive targets of its
\* seeds and nothing else, over cyclic and shared targets and missing files;
\* every Table child it found has a file (planInstall, closureOver).
PlanIsClosure ==
    \A o \in Ops : op[o].at = "plan" /\ op[o].queue = {} =>
        /\ op[o].seen = Reached(op[o].cmd.mode, op[o].cmd.seeds)
        /\ op[o].cmd.mode = "stub-deps" =>
              \A d \in op[o].seen \cap tree.json :
                 Tables(d) \subseteq tree.json \cup op[o].cmd.seeds

\* A doctype once installed in full never becomes a stub again, whatever is
\* installed later: its Links stay checked (migrate()'s downgrade branch).
NeverDowngraded ==
    [][\A d \in Doctypes : row[d].state = "full" => row'[d].state = "full"]_vars

\* The step that turns a stub into a full doctype finds every column of it in
\* the table, after crashes, pushed files and changed sources (the ALTER of
\* migrate()'s upgrade branch comes before the meta row).
UpgradeHasColumns ==
    [][\A d \in Doctypes : row[d].state = "stub" /\ row'[d].state = "full" =>
          FieldColumns(row'[d].fields) \subseteq cols'[d]]_vars

\* The last migrate() of a process that was not stopped.
Finishes(o) == op[o].at \in {"look", "bump"} /\ op'[o].at = "idle" /\ crashes' = crashes

\* When a process has applied its defs, every doctype of its plan is full, the
\* child tables its fields name are full and the targets its links name are
\* registered: a document of it can be loaded and its links resolved.
FinishedIsClosed ==
    [][\A o \in Ops : Finishes(o) =>
          \A d \in op[o].seen :
             /\ row'[d].state = "full"
             /\ \A f \in row'[d].fields :
                   /\ f.kind = "Table" => row'[f.options].state = "full"
                   /\ f.kind = "Link" => row'[f.options].state # "absent"]_vars

\* When a process has applied its defs, no changed meta row waits for a version
\* bump, not even one a process that died before its bump left behind.
FinishedIsAnnounced == [][\A o \in Ops : Finishes(o) => silent' = {}]_vars

\* A process that started ends: the search ends on cyclic sources.
EveryRunEnds == \A o \in Ops : op[o].at # "idle" ~> op[o].at = "idle"

\* The table of a full doctype has a column for every field of its meta rows: a
\* document with all its fields can be stored (migrate() is "idempotent throughout").
ColumnsExist ==
    \A d \in Doctypes : row[d].state = "full" => FieldColumns(row[d].fields) \subseteq cols[d]

==============================================================================
