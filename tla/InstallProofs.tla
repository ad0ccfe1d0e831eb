---------------------------- MODULE InstallProofs -----------------------------
(* Theorems about Install, for all source trees and command lines and any     *)
(* number of operators, crashes, pushed files and changed sources: the search *)
(* finds the closure of its seeds; when operators wait for each other         *)
(* (Serial), a full doctype stays full, an upgrade finds its columns, and a   *)
(* finished process has announced every change and left its plan closed.      *)
EXTENDS Install, TLAPS

\* One process at a time.
AloneInv == \A o, p \in Ops : op[o].at # "idle" /\ op[p].at # "idle" => o = p

\* What the process has read of its doctype's meta row is still true.
KnowsInv ==
    \A o \in Ops : op[o].at \in {"ddl", "sync"} =>
        /\ op[o].def \in Def
        /\ op[o].def.stub => row[op[o].def.name].state # "full"
        /\ op[o].upgrade <=> row[op[o].def.name].state = "stub" /\ ~op[o].def.stub

\* An upgrade that has altered its table finds the columns there.
ColumnsInv ==
    \A o \in Ops : op[o].at = "sync" /\ op[o].upgrade =>
        FieldColumns(op[o].def.fields) \subseteq cols[op[o].def.name]

\* A process has a seed to install in full, and before it has bumped the version
\* for it, it still has a full def to do.
SilentInv ==
    \A o \in Ops :
        /\ op[o].at = "plan" => op[o].seen # {}
        /\ op[o].at = "look" /\ silent # {} => \E def \in op[o].todo : ~def.stub

\* A process that applies a def has one.
DefInv == \A o \in Ops : op[o].at \in {"ddl", "sync"} => op[o].def \in Def

\* The search has found its seeds and nothing it should not, has what the doctypes it
\* is done with name, and has met no dead end.
Search(o) ==
    /\ op[o].cmd.seeds \subseteq op[o].seen /\ op[o].queue \subseteq op[o].seen
    /\ op[o].seen \subseteq Reached(op[o].cmd.mode, op[o].cmd.seeds)
    /\ \A d \in (op[o].seen \ op[o].queue) \cap tree.json :
          /\ Targets(op[o].cmd.mode, d) \subseteq op[o].seen
          /\ op[o].cmd.mode = "no-closure" => Tables(d) \cup Links(d) \subseteq op[o].cmd.seeds
    /\ op[o].cmd.mode = "stub-deps" => op[o].seen \subseteq tree.json \cup op[o].cmd.seeds

PlanInv == \A o \in Ops : op[o].at = "plan" => Search(o)

\* The defs a process has still to put in the meta rows; what fields name is in its
\* plan, registered, or still to come.
Left(o) == op[o].todo \cup IF op[o].at \in {"ddl", "sync"} THEN {op[o].def} ELSE {}
Linked(o, fields) ==
    \A f \in fields :
        /\ f.kind = "Table" => f.options \in op[o].seen
        /\ f.kind = "Link" => /\ f.options \in Doctypes
                              /\ \/ f.options \in op[o].seen
                                 \/ row[f.options].state # "absent"
                                 \/ \E def \in Left(o) : def.name = f.options

\* Every doctype of the plan is still to come in full, or is full, with what it names.
Applies(o) ==
    /\ \A def \in Left(o) : IF def.stub THEN def.name \notin op[o].seen
                                        ELSE def.name \in op[o].seen /\ Linked(o, def.fields)
    /\ \A d \in op[o].seen :
          \/ \E def \in Left(o) : def.name = d /\ ~def.stub
          \/ row[d].state = "full" /\ Linked(o, row[d].fields)

AppliesInv == \A o \in Ops : op[o].at \in {"look", "ddl", "sync", "bump"} => Applies(o)

IInv == TypeOK /\ AloneInv /\ KnowsInv /\ ColumnsInv /\ SilentInv

------------------------------------------------------------------------------
\* Types

\* A process that is not running has a well-formed state.
LEMMA IdleType == Idle \in Process
<1>1. (CHOOSE c \in Commands : TRUE) \in Commands
  BY InstallAssumption
<1>2. QED
  BY <1>1 DEF Idle, Process, NoDef

\* A doctype of a well-formed tree yields well-formed defs.
LEMMA DefType ==
    ASSUME TypeOK, NEW d \in Doctypes
    PROVE  StubDef(d) \in Def /\ (Valid(d) => FullDef(d) \in Def)
<1>1. tree.fields[d] \subseteq ErpField
  BY InstallAssumption DEF TypeOK, Tree
<1>2. ASSUME NEW f \in tree.fields[d], f.kind # "Nonsense"
      PROVE  MapField(f) \in Field
  <2>1. f \in ErpField
    BY <1>1
  <2>2. /\ f.name \in FieldNames
        /\ f.options \in Doctypes \cup {NoType} \/ f.kind = "Dynamic Link"
    BY <2>1 DEF ErpField
  <2>3. QED
    BY <2>2 DEF MapField, Field
<1>3. Valid(d) => FullDef(d) \in Def
  BY <1>2 DEF Valid, FullDef, Def
<1>4. QED
  BY <1>3 DEF StubDef, Def

\* The edges of a doctype lead to doctypes.
LEMMA TargetType ==
    ASSUME TypeOK, NEW d \in Doctypes
    PROVE  Links(d) \subseteq Doctypes /\ Tables(d) \subseteq Doctypes
<1>1. tree.fields[d] \subseteq ErpField
  BY InstallAssumption DEF TypeOK, Tree
<1>2. QED
  BY <1>1 DEF Links, Tables, ErpField

\* The defs of a finished search are well-formed.
LEMMA DefsType ==
    ASSUME TypeOK, NEW cmd \in Commands, NEW full \in SUBSET Doctypes,
           \A d \in full : Valid(d)
    PROVE  Defs(cmd, full) \subseteq Def
<1>1. \A d \in full : FullDef(d) \in Def
  BY DefType
<1>2. Stubs(cmd, full) \subseteq Doctypes
  BY TargetType DEF Stubs
<1>3. \A d \in Stubs(cmd, full) : StubDef(d) \in Def
  BY <1>2, DefType
<1>4. QED
  BY <1>1, <1>3 DEF Defs

\* What a process does with its next def is well-formed.
LEMMA ProceedType ==
    ASSUME NEW p \in Process
    PROVE  Proceed(p) \in Process /\ Proceed(p).at \in {"idle", "look"}
<1>1. [p EXCEPT !.at = "look", !.def = NoDef] \in Process
  BY DEF Process
<1>2. QED
  BY <1>1, IdleType DEF Proceed, Idle

\* A def creates well-formed columns.
LEMMA ColumnType ==
    ASSUME NEW def \in Def
    PROVE  FieldColumns(def.fields) \subseteq Columns /\ Created(def) \subseteq Columns
  BY DEF Def, Field, FieldColumns, Created, Columns

------------------------------------------------------------------------------
\* Every step keeps the types.

LEMMA InitType == Init => TypeOK
<1>1. Idle \in Process
  BY IdleType
<1>2. QED
  BY <1>1, InstallAssumption DEF Init, TypeOK, Row

\* An operator that starts, is refused or dies.
LEMMA StartType ==
    ASSUME TypeOK, NEW o \in Ops, Start(o) \/ Refuse(o) \/ Crash(o)
    PROVE  TypeOK'
<1>0. Idle \in Process
  BY IdleType
<1>1. CASE Start(o)
  <2>1. PICK c \in Commands :
          op' = [op EXCEPT ![o] = [Idle EXCEPT !.at = "plan", !.cmd = c,
                                               !.queue = c.seeds, !.seen = c.seeds]]
    BY <1>1 DEF Start
  <2>2. c.seeds \in SUBSET Doctypes
    BY InstallAssumption DEF Command
  <2>3. [Idle EXCEPT !.at = "plan", !.cmd = c, !.queue = c.seeds, !.seen = c.seeds] \in Process
    BY <1>0, <2>2 DEF Process
  <2>4. starts' \in 0..MaxStarts
    <3>1. MaxStarts \in Nat /\ starts \in 0..MaxStarts /\ starts < MaxStarts /\ starts' = starts + 1
      BY <1>1, InstallAssumption DEF Start, TypeOK
    <3>2. QED
      BY <3>1
  <2>5. QED
    BY <1>1, <2>1, <2>3, <2>4 DEF Start, TypeOK
<1>2. CASE Refuse(o)
  BY <1>0, <1>2 DEF Refuse, TypeOK
<1>3. CASE Crash(o)
  <2>1. crashes' \in 0..MaxCrashes
    <3>1. /\ MaxCrashes \in Nat /\ crashes \in 0..MaxCrashes
          /\ crashes < MaxCrashes /\ crashes' = crashes + 1
      BY <1>3, InstallAssumption DEF Crash, TypeOK
    <3>2. QED
      BY <3>1
  <2>2. QED
    BY <1>0, <1>3, <2>1 DEF Crash, TypeOK
<1>4. QED
  BY <1>1, <1>2, <1>3

LEMMA VisitType ==
    ASSUME TypeOK, NEW o \in Ops, Visit(o)
    PROVE  TypeOK'
<1>1. CASE Refuse(o)
  BY <1>1, StartType
<1>2. CASE ~Refuse(o)
  <2>1. PICK d \in op[o].queue :
          op' = [op EXCEPT ![o].queue = (@ \ {d}) \cup (Follow(op[o].cmd.mode, d) \ op[o].seen),
                           ![o].seen = @ \cup (Follow(op[o].cmd.mode, d) \ op[o].seen)]
    BY <1>2 DEF Visit
  <2>2. UNCHANGED <<tree, files, cols, row, silent, starts, crashes>>
    BY <1>2 DEF Visit
  <2>3. op[o] \in Process /\ d \in Doctypes
    BY DEF TypeOK, Process
  <2>4. Follow(op[o].cmd.mode, d) \subseteq Doctypes
    BY <2>3, TargetType DEF Follow
  <2>5. [op[o] EXCEPT !.queue = (@ \ {d}) \cup (Follow(op[o].cmd.mode, d) \ op[o].seen),
                      !.seen = @ \cup (Follow(op[o].cmd.mode, d) \ op[o].seen)] \in Process
    BY <2>3, <2>4 DEF Process
  <2>6. op' \in [Ops -> Process]
    BY <2>1, <2>5 DEF TypeOK
  <2>7. QED
    BY <2>2, <2>6 DEF TypeOK
<1>3. QED
  BY <1>1, <1>2

LEMMA GenerateType ==
    ASSUME TypeOK, NEW o \in Ops, Generate(o)
    PROVE  TypeOK'
<1>1. CASE Refuse(o)
  BY <1>1, StartType
<1>2. CASE ~Refuse(o)
  <2>1. op[o] \in Process
    BY DEF TypeOK
  <2>2. \A d \in op[o].seen : Valid(d)
    BY <1>2 DEF Generate
  <2>3. Defs(op[o].cmd, op[o].seen) \subseteq Def
    BY <2>1, <2>2, DefsType DEF Process
  <2>4. UNCHANGED <<tree, cols, row, silent, starts, crashes>>
    BY <1>2 DEF Generate
  <2>5. \/ op' = [op EXCEPT ![o].at = "look", ![o].todo = Defs(op[o].cmd, op[o].seen)] /\ files' = files
        \/ op' = [op EXCEPT ![o] = Idle] /\ files' = files \cup Defs(op[o].cmd, op[o].seen)
    BY <1>2 DEF Generate
  <2>6. [op[o] EXCEPT !.at = "look", !.todo = Defs(op[o].cmd, op[o].seen)] \in Process
    BY <2>1, <2>3 DEF Process
  <2>7. op' \in [Ops -> Process] /\ files' \subseteq Def
    BY <2>3, <2>5, <2>6, IdleType DEF TypeOK
  <2>8. QED
    BY <2>4, <2>7 DEF TypeOK
<1>3. QED
  BY <1>1, <1>2

LEMMA LookType ==
    ASSUME TypeOK, NEW o \in Ops, Look(o)
    PROVE  TypeOK'
<1>1. PICK def \in op[o].todo :
        op' = [op EXCEPT ![o] =
                  IF def.stub /\ row[def.name].state = "full"
                  THEN Proceed([op[o] EXCEPT !.todo = @ \ {def}])
                  ELSE [[op[o] EXCEPT !.todo = @ \ {def}] EXCEPT !.at = "ddl", !.def = def,
                           !.upgrade = row[def.name].state = "stub" /\ ~def.stub]]
  BY DEF Look
<1>2. op[o] \in Process /\ def \in Def
  BY DEF TypeOK, Process
<1>3. [op[o] EXCEPT !.todo = @ \ {def}] \in Process
  BY <1>2 DEF Process
<1>4. Proceed([op[o] EXCEPT !.todo = @ \ {def}]) \in Process
  BY <1>3, ProceedType
<1>5. [[op[o] EXCEPT !.todo = @ \ {def}] EXCEPT !.at = "ddl", !.def = def,
          !.upgrade = row[def.name].state = "stub" /\ ~def.stub] \in Process
  BY <1>2, <1>3 DEF Process
<1>6. op' \in [Ops -> Process]
  BY <1>1, <1>4, <1>5 DEF TypeOK
<1>7. QED
  BY <1>6 DEF TypeOK, Look

LEMMA ApplyType ==
    ASSUME TypeOK, DefInv, NEW o \in Ops, Ddl(o) \/ Sync(o) \/ Bump(o)
    PROVE  TypeOK'
<1>0. op[o] \in Process
  BY DEF TypeOK
<1>1. CASE Ddl(o)
  <2>1. CASE Refuse(o)
    BY <2>1, StartType
  <2>2. CASE ~Refuse(o)
    <3>1. /\ cols' = [cols EXCEPT ![op[o].def.name] =
                        IF op[o].upgrade THEN @ \cup FieldColumns(op[o].def.fields)
                        ELSE IF @ = {} THEN Created(op[o].def) ELSE @]
          /\ op[o].upgrade => cols[op[o].def.name] # {} \/ FieldColumns(op[o].def.fields) = {}
          /\ op' = [op EXCEPT ![o].at = "sync"]
          /\ UNCHANGED <<tree, files, row, silent, starts, crashes>>
      BY <1>1, <2>2 DEF Ddl
    <3>2. op[o].def \in Def /\ op[o].def.name \in Doctypes
      BY <1>1 DEF Ddl, DefInv, Def
    <3>3. FieldColumns(op[o].def.fields) \subseteq Columns /\ Created(op[o].def) \subseteq Columns
      BY <3>2, ColumnType
    <3>4. Framework \in Created(op[o].def)
      BY DEF Created
    <3>5. /\ cols' \in [Doctypes -> SUBSET Columns]
          /\ \A d \in Doctypes : cols'[d] # {} => Framework \in cols'[d]
      BY <3>1, <3>2, <3>3, <3>4 DEF TypeOK
    <3>6. [op[o] EXCEPT !.at = "sync"] \in Process
      BY <1>0 DEF Process
    <3>7. QED
      BY <3>1, <3>5, <3>6 DEF TypeOK
  <2>3. QED
    BY <2>1, <2>2
<1>2. CASE Sync(o)
  <2>1. op[o].def \in Def
    BY <1>2 DEF Sync, DefInv
  <2>2. row' \in [Doctypes -> Row]
    BY <1>2, <2>1 DEF Sync, TypeOK, Def, Row
  <2>3. silent' \subseteq Doctypes
    BY <1>2, <2>1 DEF Sync, TypeOK, Def
  <2>4. [op[o] EXCEPT !.at = "bump"] \in Process
    BY <1>0 DEF Process
  <2>5. QED
    BY <1>2, <2>2, <2>3, <2>4 DEF Sync, TypeOK
<1>3. CASE Bump(o)
  <2>1. Proceed(op[o]) \in Process
    BY <1>0, ProceedType
  <2>2. QED
    BY <1>3, <2>1 DEF Bump, TypeOK
<1>4. QED
  BY <1>1, <1>2, <1>3

\* A pushed file, changed sources.
LEMMA OutsideType ==
    ASSUME TypeOK, Push \/ Checkout
    PROVE  TypeOK'
<1>1. CASE Push
  <2>1. PICK def \in files :
          /\ files' = files \ {def}
          /\ cols' = [cols EXCEPT ![def.name] = IF @ = {} THEN Created(def) ELSE @]
    BY <1>1 DEF Push
  <2>2. def \in Def /\ Created(def) \subseteq Columns /\ Framework \in Created(def)
    BY ColumnType DEF TypeOK, Created
  <2>3. /\ cols' \in [Doctypes -> SUBSET Columns]
        /\ \A d \in Doctypes : cols'[d] # {} => Framework \in cols'[d]
    BY <2>1, <2>2 DEF TypeOK, Def
  <2>4. QED
    BY <1>1, <2>1, <2>3 DEF Push, TypeOK
<1>2. CASE Checkout
  BY <1>2 DEF Checkout, TypeOK
<1>3. QED
  BY <1>1, <1>2

LEMMA StepType ==
    ASSUME TypeOK, DefInv, [Next]_vars
    PROVE  TypeOK'
<1>1. CASE \E o \in Ops : Start(o) \/ Work(o) \/ Crash(o)
  BY <1>1, StartType, VisitType, GenerateType, LookType, ApplyType DEF Work
<1>2. CASE Push \/ Checkout
  BY <1>2, OutsideType
<1>3. CASE UNCHANGED vars
  BY <1>3 DEF vars, TypeOK
<1>4. QED
  BY <1>1, <1>2, <1>3 DEF Next

------------------------------------------------------------------------------
\* The search, whatever other operators do

\* A step of a process is its own.
LEMMA OthersStep ==
    ASSUME TypeOK, NEW o \in Ops, Start(o) \/ Work(o) \/ Crash(o)
    PROVE  \A p \in Ops \ {o} : op'[p] = op[p]
<1>1. CASE Start(o) \/ Crash(o) \/ Refuse(o)
  BY <1>1 DEF Start, Crash, Refuse, TypeOK
<1>2. CASE Look(o) \/ Sync(o) \/ Bump(o)
  BY <1>2 DEF Look, Sync, Bump, TypeOK
<1>3. CASE (Visit(o) \/ Generate(o) \/ Ddl(o)) /\ ~Refuse(o)
  BY <1>3 DEF Visit, Generate, Ddl, TypeOK
<1>4. QED
  BY <1>1, <1>2, <1>3 DEF Work

\* Where a step takes its process: a search goes on from a search or a start, and
\* a def is applied that was taken from the list or is applied already.
LEMMA PlaceStep ==
    ASSUME TypeOK, NEW o \in Ops, Start(o) \/ Work(o) \/ Crash(o)
    PROVE  /\ op'[o].at = "plan" => Start(o) \/ Visit(o)
           /\ op'[o].at \in {"ddl", "sync"} =>
                 op'[o].def \in Def \/ (op[o].at = "ddl" /\ op'[o].def = op[o].def)
<1>0. op[o] \in Process
  BY DEF TypeOK
<1>1. CASE op'[o] = Idle
  BY <1>1 DEF Idle
<1>2. CASE Start(o)
  <2>1. op'[o].at = "plan"
    BY <1>2 DEF Start, TypeOK, Idle
  <2>2. QED
    BY <1>2, <2>1
<1>3. CASE Visit(o) /\ op'[o] # Idle
  <2>1. op'[o].at = "plan"
    BY <1>0, <1>3 DEF Visit, Refuse, TypeOK, Process
  <2>2. QED
    BY <1>3, <2>1
<1>4. CASE Generate(o) /\ op'[o] # Idle
  <2>1. op'[o].at = "look"
    BY <1>0, <1>4 DEF Generate, Refuse, TypeOK, Process
  <2>2. QED
    BY <2>1
<1>5. CASE Look(o)
  <2>1. PICK def \in op[o].todo :
          op' = [op EXCEPT ![o] =
                    IF def.stub /\ row[def.name].state = "full"
                    THEN Proceed([op[o] EXCEPT !.todo = @ \ {def}])
                    ELSE [[op[o] EXCEPT !.todo = @ \ {def}] EXCEPT !.at = "ddl", !.def = def,
                             !.upgrade = row[def.name].state = "stub" /\ ~def.stub]]
    BY <1>5 DEF Look
  <2>2. def \in Def /\ [op[o] EXCEPT !.todo = @ \ {def}] \in Process
    BY <1>0 DEF Process
  <2>3. CASE def.stub /\ row[def.name].state = "full"
    <3>1. op'[o].at \in {"idle", "look"}
      BY <2>1, <2>2, <2>3, ProceedType DEF TypeOK
    <3>2. QED
      BY <3>1
  <2>4. CASE ~(def.stub /\ row[def.name].state = "full")
    <3>1. op'[o].at = "ddl" /\ op'[o].def = def
      BY <1>0, <2>1, <2>4 DEF TypeOK, Process
    <3>2. QED
      BY <2>2, <3>1
  <2>5. QED
    BY <2>3, <2>4
<1>6. CASE Ddl(o) /\ op'[o] # Idle
  <2>1. op[o].at = "ddl" /\ op'[o].at = "sync" /\ op'[o].def = op[o].def
    BY <1>0, <1>6 DEF Ddl, Refuse, TypeOK, Process
  <2>2. QED
    BY <2>1
<1>7. CASE Sync(o)
  <2>1. op'[o].at = "bump"
    BY <1>0, <1>7 DEF Sync, TypeOK, Process
  <2>2. QED
    BY <2>1
<1>8. CASE Bump(o)
  <2>1. op'[o].at \in {"idle", "look"}
    BY <1>0, <1>8, ProceedType DEF Bump, TypeOK
  <2>2. QED
    BY <2>1
<1>9. CASE Crash(o)
  BY <1>1, <1>9 DEF Crash, TypeOK
<1>10. QED
  BY <1>2, <1>1, <1>3, <1>4, <1>5, <1>6, <1>7, <1>8, <1>9 DEF Work

LEMMA DefStep ==
    ASSUME TypeOK, DefInv, [Next]_vars
    PROVE  DefInv'
<1>1. ASSUME NEW o \in Ops, Start(o) \/ Work(o) \/ Crash(o) PROVE DefInv'
  <2>1. \A p \in Ops \ {o} : op'[p] = op[p]
    BY <1>1, OthersStep
  <2>2. op'[o].at \in {"ddl", "sync"} => op'[o].def \in Def
    BY <1>1, PlaceStep DEF DefInv
  <2>3. QED
    BY <2>1, <2>2 DEF DefInv
<1>2. CASE Push \/ Checkout \/ UNCHANGED vars
  BY <1>2 DEF Push, Checkout, vars, DefInv
<1>3. QED
  BY <1>1, <1>2 DEF Next

\* What the search follows are the targets of the mode.
LEMMA FollowIsTargets ==
    ASSUME NEW mode \in {"closure", "no-closure", "stub-deps"}, NEW d \in tree.json
    PROVE  /\ Follow(mode, d) = Targets(mode, d)
           /\ mode = "stub-deps" => Targets(mode, d) = Tables(d)
           /\ mode = "closure" => Targets(mode, d) = Tables(d) \cup Links(d)
<1>1. CASE mode = "no-closure"
  BY <1>1 DEF Follow, Targets, Edges
<1>2. CASE mode = "stub-deps"
  BY <1>2 DEF Follow, Targets, Edges, Tables
<1>3. CASE mode = "closure"
  <2>1. Edges(mode) = {"Table", "Table MultiSelect", "Link"}
    BY <1>3 DEF Edges
  <2>2. {g \in tree.fields[d] : g.kind \in Edges(mode)}
          = {g \in tree.fields[d] : g.kind \in {"Table", "Table MultiSelect"}}
            \cup {g \in tree.fields[d] : g.kind = "Link"}
    BY <2>1
  <2>3. Targets(mode, d) = Tables(d) \cup Links(d)
    BY <2>2 DEF Targets, Tables, Links
  <2>4. QED
    BY <1>3, <2>3 DEF Follow
<1>4. QED
  BY <1>1, <1>2, <1>3

\* A target of what is reached is reached.
LEMMA ReachedCloses ==
    ASSUME NEW mode, NEW seeds, NEW d \in Reached(mode, seeds) \cap tree.json,
           NEW c \in Targets(mode, d), c \in Doctypes
    PROVE  c \in Reached(mode, seeds)
BY DEF Reached

LEMMA SeedsReached ==
    ASSUME NEW mode, NEW seeds \in SUBSET Doctypes
    PROVE  seeds \subseteq Reached(mode, seeds)
BY DEF Reached

\* One turn of the search.
LEMMA VisitSearches ==
    ASSUME TypeOK, NEW o \in Ops, Visit(o), op'[o].at = "plan", Search(o)
    PROVE  Search(o)'
<1> DEFINE p == op[o]
           mode == op[o].cmd.mode
           seeds == op[o].cmd.seeds
<1>0. p \in Process
  BY DEF TypeOK
<1>1. ~Refuse(o)
  BY DEF Refuse, TypeOK, Idle
<1>2. PICK d \in p.queue :
        /\ ~\E c \in IF mode = "no-closure" /\ d \in tree.json
                     THEN Tables(d) \cup Links(d) ELSE Follow(mode, d) \ p.seen :
              DeadEnd(p.cmd, d, c)
        /\ op' = [op EXCEPT ![o].queue = (@ \ {d}) \cup (Follow(mode, d) \ p.seen),
                            ![o].seen = @ \cup (Follow(mode, d) \ p.seen)]
        /\ UNCHANGED <<tree, files, cols, row, silent, starts, crashes>>
  BY <1>1 DEF Visit
<1> DEFINE new == Follow(mode, d) \ p.seen
<1>3. /\ op'[o].cmd = p.cmd /\ op'[o].seen = p.seen \cup new
      /\ op'[o].queue = (p.queue \ {d}) \cup new /\ tree' = tree
  BY <1>0, <1>2 DEF TypeOK, Process
<1>4. mode \in {"closure", "no-closure", "stub-deps"} /\ d \in Doctypes
  BY <1>0, InstallAssumption DEF Process, Command
<1>5. /\ seeds \subseteq p.seen /\ p.queue \subseteq p.seen
      /\ p.seen \subseteq Reached(mode, seeds)
      /\ \A e \in (p.seen \ p.queue) \cap tree.json :
            /\ Targets(mode, e) \subseteq p.seen
            /\ mode = "no-closure" => Tables(e) \cup Links(e) \subseteq seeds
      /\ mode = "stub-deps" => p.seen \subseteq tree.json \cup seeds
  BY DEF Search
<1>6. new \subseteq Doctypes
  BY <1>4, TargetType DEF Follow
<1>7. d \notin tree.json => new = {}
  BY DEF Follow
<1>8. d \in tree.json => Follow(mode, d) = Targets(mode, d)
  BY <1>4, FollowIsTargets
<1>9. p.seen \cup new \subseteq Reached(mode, seeds)
  BY <1>5, <1>6, <1>7, <1>8, ReachedCloses
<1>10. ASSUME NEW e \in ((p.seen \cup new) \ ((p.queue \ {d}) \cup new)) \cap tree.json
       PROVE  /\ Targets(mode, e) \subseteq p.seen \cup new
              /\ mode = "no-closure" => Tables(e) \cup Links(e) \subseteq seeds
  <2>1. CASE e = d
    <3>1. Targets(mode, e) \subseteq p.seen \cup new
      BY <1>8, <1>10, <2>1
    <3>2. mode = "no-closure" => Tables(e) \cup Links(e) \subseteq seeds
      BY <1>2, <1>10, <2>1 DEF DeadEnd
    <3>3. QED
      BY <3>1, <3>2
  <2>2. CASE e # d
    BY <1>5, <1>10, <2>2
  <2>3. QED
    BY <2>1, <2>2
<1>11. mode = "stub-deps" => p.seen \cup new \subseteq tree.json \cup seeds
  BY <1>2, <1>5 DEF DeadEnd
<1>12. \A m, e : Reached(m, e)' = Reached(m, e) /\ Targets(m, e)' = Targets(m, e)
  BY <1>3 DEF Reached, Targets, Edges
<1>13. \A e : Tables(e)' = Tables(e) /\ Links(e)' = Links(e)
  BY <1>3 DEF Tables, Links
<1> HIDE DEF new
<1>14. seeds \subseteq p.seen \cup new /\ (p.queue \ {d}) \cup new \subseteq p.seen \cup new
  BY <1>5
<1>15. QED
  BY <1>3, <1>9, <1>10, <1>11, <1>12, <1>13, <1>14 DEF Search

\* The sources stay while a process searches them.
LEMMA SearchKept ==
    ASSUME NEW o \in Ops, Search(o), op'[o] = op[o], tree' = tree
    PROVE  Search(o)'
<1>1. \A m, e : Reached(m, e)' = Reached(m, e) /\ Targets(m, e)' = Targets(m, e)
  BY DEF Reached, Targets, Edges
<1>2. \A e : Tables(e)' = Tables(e) /\ Links(e)' = Links(e)
  BY DEF Tables, Links
<1>3. QED
  BY <1>1, <1>2 DEF Search

LEMMA StartSearches ==
    ASSUME TypeOK, NEW o \in Ops, Start(o)
    PROVE  Search(o)'
<1>1. PICK c \in Commands :
        op' = [op EXCEPT ![o] = [Idle EXCEPT !.at = "plan", !.cmd = c,
                                             !.queue = c.seeds, !.seen = c.seeds]]
  BY DEF Start
<1>2. op'[o].cmd = c /\ op'[o].queue = c.seeds /\ op'[o].seen = c.seeds
  BY <1>1 DEF TypeOK, Idle
<1>3. c.seeds \subseteq Reached(c.mode, c.seeds)
  BY InstallAssumption, SeedsReached DEF Command
<1>4. tree' = tree
  BY DEF Start
<1>5. Reached(c.mode, c.seeds)' = Reached(c.mode, c.seeds)
  BY <1>4 DEF Reached, Targets
<1>6. QED
  BY <1>2, <1>3, <1>5 DEF Search

LEMMA PlanStep ==
    ASSUME TypeOK, PlanInv, [Next]_vars
    PROVE  PlanInv'
<1> SUFFICES ASSUME NEW p \in Ops, op'[p].at = "plan" PROVE Search(p)'
  BY DEF PlanInv
<1>1. CASE op'[p] = op[p] /\ tree' = tree
  BY <1>1, SearchKept DEF PlanInv
<1>2. ASSUME NEW o \in Ops, Start(o) \/ Work(o) \/ Crash(o) PROVE Search(p)'
  <2>1. CASE o # p
    <3>1. op'[p] = op[p]
      BY <1>2, <2>1, OthersStep
    <3>2. tree' = tree
      BY <1>2 DEF Start, Work, Visit, Generate, Look, Ddl, Sync, Bump, Crash, Refuse
    <3>3. QED
      BY <1>1, <3>1, <3>2
  <2>2. CASE o = p /\ Start(o)
    BY <2>2, StartSearches
  <2>3. CASE o = p /\ Visit(o)
    <3>1. op[o].at = "plan"
      BY <2>3 DEF Visit
    <3>2. QED
      BY <2>3, <3>1, VisitSearches DEF PlanInv
  <2>4. QED
    BY <1>2, <2>1, <2>2, <2>3, PlaceStep
<1>3. CASE Push \/ UNCHANGED vars
  BY <1>1, <1>3 DEF Push, vars
<1>4. CASE Checkout
  BY <1>4 DEF Checkout
<1>5. QED
  BY <1>2, <1>3, <1>4 DEF Next

SearchInv == TypeOK /\ DefInv /\ PlanInv

LEMMA SearchInvariance == Spec => []SearchInv
<1>1. Init => SearchInv
  BY InitType DEF Init, Idle, SearchInv, DefInv, PlanInv
<1>2. SearchInv /\ [Next]_vars => SearchInv'
  BY StepType, DefStep, PlanStep DEF SearchInv
<1>3. QED
  BY <1>1, <1>2, PTL DEF Spec

\* The state of the processes, the database and the sources is well-formed, however
\* installs, crashes, pushes and checkouts interleave.
THEOREM TypeCorrect == Spec => []TypeOK
<1>1. SearchInv => TypeOK
  BY DEF SearchInv
<1>2. QED
  BY <1>1, SearchInvariance, PTL

\* Whatever the graph of links and child tables, cyclic or with files missing, a search
\* that ends without an error has found the closure of its seeds and nothing else.
THEOREM PlanCorrect == Spec => []PlanIsClosure
<1>1. SearchInv => PlanIsClosure
  <2> SUFFICES ASSUME SearchInv, NEW o \in Ops, op[o].at = "plan", op[o].queue = {}
               PROVE  /\ op[o].seen = Reached(op[o].cmd.mode, op[o].cmd.seeds)
                      /\ op[o].cmd.mode = "stub-deps" =>
                            \A d \in op[o].seen \cap tree.json :
                               Tables(d) \subseteq tree.json \cup op[o].cmd.seeds
    BY DEF PlanIsClosure
  <2> DEFINE mode == op[o].cmd.mode
             seeds == op[o].cmd.seeds
             seen == op[o].seen
  <2>1. /\ seeds \subseteq seen /\ seen \subseteq Reached(mode, seeds)
        /\ \A d \in seen \cap tree.json : Targets(mode, d) \subseteq seen
        /\ mode = "stub-deps" => seen \subseteq tree.json \cup seeds
    BY DEF SearchInv, PlanInv, Search
  <2>2. seen \in SUBSET Doctypes
    BY DEF SearchInv, TypeOK, Process
  <2>3. Reached(mode, seeds) \subseteq seen
    BY <2>1, <2>2 DEF Reached
  <2>4. ASSUME mode = "stub-deps", NEW d \in seen \cap tree.json
        PROVE  Tables(d) \subseteq tree.json \cup seeds
    BY <2>1, <2>4, FollowIsTargets
  <2>5. QED
    BY <2>1, <2>3, <2>4
<1>2. QED
  BY <1>1, SearchInvariance, PTL

------------------------------------------------------------------------------
\* Every step keeps the invariant.

\* A step of a process is its own, and it starts only when all others wait.
LEMMA OwnStep ==
    ASSUME Serial, TypeOK, AloneInv, NEW o \in Ops, Start(o) \/ Work(o) \/ Crash(o)
    PROVE  /\ \A p \in Ops \ {o} : op'[p] = op[p] /\ op[p].at = "idle"
           /\ Start(o) \/ op[o].at # "idle"
<1>1. Start(o) \/ op[o].at # "idle"
  BY DEF Work, Visit, Generate, Look, Ddl, Sync, Bump, Crash
<1>2. \A p \in Ops \ {o} : op[p].at = "idle"
  BY <1>1 DEF Start, AloneInv
<1>3. \A p \in Ops \ {o} : op'[p] = op[p]
  BY OthersStep
<1>4. QED
  BY <1>1, <1>2, <1>3

LEMMA AloneStep ==
    ASSUME Serial, TypeOK, AloneInv, [Next]_vars
    PROVE  AloneInv'
<1>1. CASE \E o \in Ops : Start(o) \/ Work(o) \/ Crash(o)
  BY <1>1, OwnStep DEF AloneInv
<1>2. CASE Push \/ Checkout
  BY <1>2 DEF Push, Checkout, AloneInv
<1>3. CASE UNCHANGED vars
  BY <1>3 DEF vars, AloneInv
<1>4. QED
  BY <1>1, <1>2, <1>3 DEF Next

\* What a step of a process makes of its invariants.
LEMMA ProcessStep ==
    ASSUME Serial, IInv, NEW o \in Ops, Start(o) \/ Work(o) \/ Crash(o)
    PROVE  (KnowsInv /\ ColumnsInv /\ SilentInv)'
<1>0. /\ op[o] \in Process
      /\ \A p \in Ops \ {o} : op'[p] = op[p] /\ op[p].at = "idle"
  BY OwnStep DEF IInv, TypeOK
<1> DEFINE Mine == /\ op'[o].at \in {"ddl", "sync"} =>
                         /\ op'[o].def \in Def
                         /\ op'[o].def.stub => row'[op'[o].def.name].state # "full"
                         /\ op'[o].upgrade <=> row'[op'[o].def.name].state = "stub"
                                                  /\ ~op'[o].def.stub
                   /\ op'[o].at = "sync" /\ op'[o].upgrade =>
                         FieldColumns(op'[o].def.fields) \subseteq cols'[op'[o].def.name]
                   /\ op'[o].at = "plan" => op'[o].seen # {}
                   /\ op'[o].at = "look" /\ silent' # {} => \E def \in op'[o].todo : ~def.stub
<1>1. SUFFICES Mine
  BY <1>0 DEF KnowsInv, ColumnsInv, SilentInv
<1>2. CASE op'[o] = Idle
  BY <1>2 DEF Idle
<1>3. CASE Start(o)
  <2>1. PICK c \in Commands :
          op' = [op EXCEPT ![o] = [Idle EXCEPT !.at = "plan", !.cmd = c,
                                               !.queue = c.seeds, !.seen = c.seeds]]
    BY <1>3 DEF Start
  <2>2. c.seeds # {}
    BY InstallAssumption DEF Command
  <2>3. op'[o].at = "plan" /\ op'[o].seen = c.seeds
    BY <2>1 DEF IInv, TypeOK, Idle
  <2>4. QED
    BY <2>2, <2>3
<1>4. CASE Visit(o) /\ op'[o] # Idle
  <2>1. op'[o].at = "plan" /\ op[o].seen \subseteq op'[o].seen /\ op[o].at = "plan"
    BY <1>0, <1>4 DEF Visit, Refuse, IInv, TypeOK, Process
  <2>2. QED
    BY <2>1 DEF IInv, SilentInv
<1>5. CASE Generate(o) /\ op'[o] # Idle
  <2>1. /\ op[o].at = "plan"
        /\ op'[o].at = "look" /\ op'[o].todo = Defs(op[o].cmd, op[o].seen)
    BY <1>0, <1>5 DEF Generate, Refuse, IInv, TypeOK, Process
  <2>2. PICK d \in op[o].seen : TRUE
    BY <2>1 DEF IInv, SilentInv
  <2>3. FullDef(d) \in op'[o].todo /\ ~FullDef(d).stub
    BY <2>1 DEF Defs, FullDef
  <2>4. QED
    BY <2>1, <2>3
<1>6. CASE Look(o)
  <2>1. PICK def \in op[o].todo :
          /\ Turn(o, def)
          /\ op' = [op EXCEPT ![o] =
                       IF def.stub /\ row[def.name].state = "full"
                       THEN Proceed([op[o] EXCEPT !.todo = @ \ {def}])
                       ELSE [[op[o] EXCEPT !.todo = @ \ {def}] EXCEPT !.at = "ddl", !.def = def,
                                !.upgrade = row[def.name].state = "stub" /\ ~def.stub]]
    BY <1>6 DEF Look
  <2>2. row' = row /\ silent' = silent /\ op[o].at = "look" /\ def \in Def
    BY <1>0, <1>6 DEF Look, Process
  <2>3. CASE def.stub /\ row[def.name].state = "full"
    <3>1. silent = {}
      BY <2>1, <2>2, <2>3 DEF Turn, IInv, SilentInv
    <3>2. [op[o] EXCEPT !.todo = @ \ {def}] \in Process
      BY <1>0 DEF Process
    <3>3. op'[o].at \in {"idle", "look"}
      BY <2>1, <2>3, <3>2, ProceedType DEF IInv, TypeOK
    <3>4. QED
      BY <2>2, <3>1, <3>3
  <2>4. CASE ~(def.stub /\ row[def.name].state = "full")
    <3>1. /\ op'[o].at = "ddl" /\ op'[o].def = def
          /\ op'[o].upgrade = (row[def.name].state = "stub" /\ ~def.stub)
      BY <1>0, <2>1, <2>4 DEF IInv, TypeOK, Process
    <3>2. QED
      BY <2>2, <2>4, <3>1
  <2>5. QED
    BY <2>3, <2>4
<1>7. CASE Ddl(o) /\ op'[o] # Idle
  <2>1. /\ op[o].at = "ddl" /\ op'[o].at = "sync" /\ op'[o].def = op[o].def
        /\ op'[o].upgrade = op[o].upgrade
        /\ row' = row
        /\ cols' = [cols EXCEPT ![op[o].def.name] =
                      IF op[o].upgrade THEN @ \cup FieldColumns(op[o].def.fields)
                      ELSE IF @ = {} THEN Created(op[o].def) ELSE @]
    BY <1>0, <1>7 DEF Ddl, Refuse, IInv, TypeOK, Process
  <2>2. op[o].def \in Def /\ op[o].def.name \in Doctypes
    BY <2>1 DEF IInv, KnowsInv, Def
  <2>3. op[o].upgrade => FieldColumns(op[o].def.fields) \subseteq cols'[op[o].def.name]
    BY <2>1, <2>2 DEF IInv, TypeOK
  <2>4. QED
    BY <2>1, <2>2, <2>3 DEF IInv, KnowsInv
<1>8. CASE Sync(o) \/ Bump(o)
  <2>1. CASE Sync(o)
    BY <1>0, <2>1 DEF Sync, IInv, TypeOK, Process
  <2>2. CASE Bump(o)
    BY <1>0, <2>2, ProceedType DEF Bump, IInv, TypeOK
  <2>3. QED
    BY <1>8, <2>1, <2>2
<1>9. CASE Crash(o)
  BY <1>2, <1>9 DEF Crash, IInv, TypeOK
<1>10. QED
  BY <1>2, <1>3, <1>4, <1>5, <1>6, <1>7, <1>8, <1>9 DEF Work

LEMMA InvStep ==
    ASSUME Serial, IInv, [Next]_vars
    PROVE  IInv'
<1>1. TypeOK' /\ AloneInv'
  <2>1. DefInv
    BY DEF IInv, KnowsInv, DefInv
  <2>2. QED
    BY <2>1, StepType, AloneStep DEF IInv
<1>2. CASE \E o \in Ops : Start(o) \/ Work(o) \/ Crash(o)
  BY <1>1, <1>2, ProcessStep DEF IInv
<1>3. CASE Push
  <2>1. \A d \in Doctypes : cols[d] \subseteq cols'[d]
    BY <1>3 DEF Push, IInv, TypeOK, Def
  <2>2. ColumnsInv'
    BY <1>3, <2>1 DEF Push, IInv, ColumnsInv, KnowsInv, Def
  <2>3. QED
    BY <1>1, <1>3, <2>2 DEF Push, IInv, KnowsInv, SilentInv
<1>4. CASE Checkout \/ UNCHANGED vars
  BY <1>1, <1>4 DEF Checkout, vars, IInv, KnowsInv, ColumnsInv, SilentInv
<1>5. QED
  BY <1>2, <1>3, <1>4 DEF Next

LEMMA InvInit == Init => IInv
<1>1. Init => TypeOK
  BY InitType
<1>2. Init => \A o \in Ops : op[o].at = "idle"
  BY DEF Init, Idle
<1>3. QED
  BY <1>1, <1>2 DEF IInv, AloneInv, KnowsInv, ColumnsInv, SilentInv

LEMMA Invariance == Serial => (Spec => []IInv)
<1>1. CASE Serial
  <2>1. Init => IInv
    BY InvInit
  <2>2. IInv /\ [Next]_vars => IInv'
    BY <1>1, InvStep
  <2>3. QED
    BY <2>1, <2>2, PTL DEF Spec
<1>2. QED
  BY <1>1

------------------------------------------------------------------------------
\* The plan of a process that applies its defs

\* The Link targets of a full doctype are full or stubbed, never both.
LEMMA StubsCover ==
    ASSUME NEW cmd, NEW full
    PROVE  /\ \A d \in full \cap tree.json :
                 cmd.mode = "stub-deps" => Links(d) \subseteq full \cup Stubs(cmd, full)
           /\ \A d \in Stubs(cmd, full) :
                 d \notin full /\ \E def \in Defs(cmd, full) : def.name = d
<1>1. ASSUME NEW d \in full \cap tree.json, cmd.mode = "stub-deps"
      PROVE  Links(d) \subseteq full \cup Stubs(cmd, full)
  <2>1. Links(d) \subseteq UNION {Links(e) : e \in full \cap tree.json}
    OBVIOUS
  <2>2. Stubs(cmd, full) = (UNION {Links(e) : e \in full \cap tree.json}) \ full
    BY <1>1 DEF Stubs
  <2>3. QED
    BY <2>1, <2>2
<1>2. ASSUME NEW d \in Stubs(cmd, full) PROVE d \notin full
  <2> DEFINE U == UNION {Links(e) : e \in full \cap tree.json}
  <2>1. Stubs(cmd, full) \in {{}, U \ full}
    BY DEF Stubs
  <2> HIDE DEF U
  <2>2. QED
    BY <2>1
<1>3. ASSUME NEW d \in Stubs(cmd, full)
      PROVE  \E def \in Defs(cmd, full) : def.name = d
  <2>1. StubDef(d) \in Defs(cmd, full)
    BY DEF Defs
  <2>2. StubDef(d).name = d
    BY DEF StubDef
  <2>3. QED
    BY <2>1, <2>2
<1>4. QED
  BY <1>1, <1>2, <1>3

\* What a finished search leaves to do covers its plan, with what each doctype names.
LEMMA GenerateApplies ==
    ASSUME TypeOK, NEW o \in Ops, Generate(o), op'[o].at = "look", Search(o)
    PROVE  Applies(o)'
<1> DEFINE cmd == op[o].cmd
           full == op[o].seen
<1>0. op[o] \in Process /\ op[o].at = "plan" /\ op[o].queue = {}
  BY DEF TypeOK, Generate
<1>1. /\ \A d \in full : Valid(d)
      /\ op' = [op EXCEPT ![o].at = "look", ![o].todo = Defs(cmd, full)]
      /\ row' = row
  BY DEF Generate, Refuse, TypeOK, Idle
<1>2. op'[o].seen = full /\ Left(o)' = Defs(cmd, full)
  BY <1>0, <1>1 DEF TypeOK, Process, Left
<1>3. cmd.mode \in {"closure", "no-closure", "stub-deps"} /\ full \in SUBSET Doctypes
  BY <1>0, InstallAssumption DEF Process, Command
<1>4. ASSUME NEW d \in full
      PROVE  Tables(d) \subseteq full /\ Links(d) \subseteq full \cup Stubs(cmd, full)
  <2>1. d \in tree.json
    BY <1>1 DEF Valid
  <2>2. /\ Targets(cmd.mode, d) \subseteq full
        /\ cmd.mode = "no-closure" => Tables(d) \cup Links(d) \subseteq cmd.seeds
        /\ cmd.seeds \subseteq full
    BY <1>0, <2>1 DEF Search
  <2>3. ASSUME cmd.mode = "stub-deps" PROVE Links(d) \subseteq full \cup Stubs(cmd, full)
    BY <2>1, <2>3, StubsCover
  <2>4. QED
    BY <1>3, <2>1, <2>2, <2>3, FollowIsTargets
<1>5. ASSUME NEW d \in full, NEW f \in FullDef(d).fields
      PROVE  /\ f.kind = "Table" => f.options \in full
             /\ f.kind = "Link" => f.options \in Doctypes
             /\ f.kind = "Link" => \/ f.options \in full
                                   \/ \E def \in Defs(cmd, full) : def.name = f.options
  <2>1. PICK g \in tree.fields[d] : f = MapField(g)
    BY DEF FullDef
  <2>2. CASE g.kind \in {"Table", "Table MultiSelect"}
    <3>1. g.options # NoType
      BY <1>1, <2>2 DEF Valid
    <3>2. f.kind = "Table" /\ f.options = g.options
      BY <2>1, <2>2 DEF MapField
    <3>3. g.options \in Tables(d)
      BY <2>2, <3>1 DEF Tables
    <3>4. QED
      BY <1>4, <3>2, <3>3
  <2>3. CASE g.kind = "Link"
    <3>1. g.options # NoType
      BY <1>1, <2>3 DEF Valid
    <3>2. f.kind = "Link" /\ f.options = g.options
      BY <2>1, <2>3 DEF MapField
    <3>3. g.options \in Links(d)
      BY <2>3, <3>1 DEF Links
    <3>4. ASSUME g.options \in Stubs(cmd, full)
          PROVE  \E def \in Defs(cmd, full) : def.name = g.options
      BY <3>4, StubsCover
    <3>5. g.options \in Doctypes
      BY <1>3, <3>3, TargetType
    <3>6. QED
      BY <1>4, <3>2, <3>3, <3>4, <3>5
  <2>4. CASE g.kind \notin {"Table", "Table MultiSelect", "Link"}
    BY <2>1, <2>4 DEF MapField
  <2>5. QED
    BY <2>2, <2>3, <2>4
<1>6. ASSUME NEW d \in full PROVE Linked(o, FullDef(d).fields)'
  <2>1. FullDef(d)' = FullDef(d)
    <3>1. tree' = tree
      BY <1>1 DEF Generate, Refuse
    <3>2. QED
      BY <3>1 DEF FullDef, MapField
  <2>2. QED
    BY <1>2, <1>5, <2>1 DEF Linked
<1>7. ASSUME NEW def \in Defs(cmd, full)
      PROVE  IF def.stub THEN def.name \notin full
                         ELSE def.name \in full /\ Linked(o, def.fields)'
  <2>1. CASE \E d \in full : def = FullDef(d)
    <3>1. PICK d \in full : def = FullDef(d)
      BY <2>1
    <3>2. ~def.stub /\ def.name = d
      BY <3>1 DEF FullDef
    <3>3. \A f \in def.fields :
             /\ f.kind = "Table" => f.options \in full
             /\ f.kind = "Link" => f.options \in Doctypes
             /\ f.kind = "Link" => \/ f.options \in full
                                   \/ \E e \in Defs(cmd, full) : e.name = f.options
      BY <1>5, <3>1
    <3>4. Linked(o, def.fields)'
      BY <1>2, <3>3 DEF Linked
    <3>5. QED
      BY <3>2, <3>4
  <2>2. CASE \E d \in Stubs(cmd, full) : def = StubDef(d)
    <3>1. PICK d \in Stubs(cmd, full) : def = StubDef(d)
      BY <2>2
    <3>2. def.stub /\ def.name = d
      BY <3>1 DEF StubDef
    <3>3. d \notin full
      BY StubsCover
    <3>4. QED
      BY <3>2, <3>3
  <2>3. QED
    BY <2>1, <2>2 DEF Defs
<1>8. ASSUME NEW d \in full PROVE \E def \in Defs(cmd, full) : def.name = d /\ ~def.stub
  <2>1. FullDef(d) \in Defs(cmd, full) /\ FullDef(d).name = d /\ ~FullDef(d).stub
    BY DEF Defs, FullDef
  <2>2. QED
    BY <2>1
<1>9. QED
  BY <1>2, <1>7, <1>8 DEF Applies

\* A step that leaves the plan, the defs still to do and the meta rows.
LEMMA AppliesKept ==
    ASSUME NEW o \in Ops, Applies(o), op'[o].seen = op[o].seen, Left(o)' = Left(o), row' = row
    PROVE  Applies(o)'
<1>1. \A F : Linked(o, F)' <=> Linked(o, F)
  BY DEF Linked
<1>2. QED
  BY <1>1 DEF Applies

\* A step that is done with a def: its doctype is registered, in full if the def is.
LEMMA AppliesDone ==
    ASSUME NEW o \in Ops, NEW def \in Left(o), Applies(o), op'[o].seen = op[o].seen,
           Left(o) \ {def} \subseteq Left(o)', Left(o)' \subseteq Left(o),
           \A d \in Doctypes \ {def.name} : row'[d] = row[d],
           row'[def.name].state # "absent",
           ~def.stub => row'[def.name].state = "full" /\ row'[def.name].fields = def.fields,
           op[o].seen \subseteq Doctypes
    PROVE  Applies(o)'
<1>1. ASSUME NEW F, Linked(o, F) PROVE Linked(o, F)'
  <2> SUFFICES ASSUME NEW f \in F
               PROVE  /\ f.kind = "Table" => f.options \in op'[o].seen
                      /\ f.kind = "Link" => /\ f.options \in Doctypes
                                            /\ \/ f.options \in op'[o].seen
                                               \/ row'[f.options].state # "absent"
                                               \/ \E e \in Left(o)' : e.name = f.options
    BY DEF Linked
  <2>1. CASE f.kind = "Link" /\ f.options # def.name
    <3>1. /\ f.options \in Doctypes
          /\ \/ f.options \in op[o].seen
             \/ row[f.options].state # "absent"
             \/ \E e \in Left(o) : e.name = f.options
      BY <1>1, <2>1 DEF Linked
    <3>2. row'[f.options] = row[f.options]
      BY <2>1, <3>1
    <3>3. QED
      BY <2>1, <3>1, <3>2 DEF Linked
  <2>2. CASE ~(f.kind = "Link" /\ f.options # def.name)
    BY <1>1, <2>2 DEF Linked
  <2>3. QED
    BY <2>1, <2>2
<1>2. ASSUME NEW e \in Left(o)'
      PROVE  IF e.stub THEN e.name \notin op'[o].seen
                       ELSE e.name \in op'[o].seen /\ Linked(o, e.fields)'
  BY <1>1 DEF Applies
<1>3. ASSUME NEW d \in op'[o].seen
      PROVE  \/ \E e \in Left(o)' : e.name = d /\ ~e.stub
             \/ row'[d].state = "full" /\ \E F : F = row'[d].fields /\ Linked(o, F)'
  <2>1. CASE d = def.name
    <3>1. ~def.stub /\ Linked(o, def.fields)
      BY <2>1 DEF Applies
    <3>2. QED
      BY <1>1, <2>1, <3>1
  <2>2. CASE d # def.name
    <3>1. \/ \E e \in Left(o) : e.name = d /\ ~e.stub
          \/ row[d].state = "full" /\ Linked(o, row[d].fields)
      BY DEF Applies
    <3>2. row'[d] = row[d]
      BY <2>2
    <3>3. CASE \E e \in Left(o) : e.name = d /\ ~e.stub
      BY <2>2, <3>3
    <3>4. CASE row[d].state = "full" /\ Linked(o, row[d].fields)
      <4>1. Linked(o, row[d].fields) /\ row[d].fields = row'[d].fields
        BY <3>2, <3>4
      <4>2. PICK F : F = row[d].fields
        OBVIOUS
      <4>3. Linked(o, F)'
        BY <1>1, <4>1, <4>2
      <4>4. QED
        BY <3>2, <3>4, <4>2, <4>3
    <3>5. QED
      BY <3>1, <3>3, <3>4
  <2>3. QED
    BY <2>1, <2>2
<1>4. ASSUME NEW d \in op'[o].seen, NEW F, F = row'[d].fields, Linked(o, F)'
      PROVE  Linked(o, row[d].fields)'
  BY <1>4 DEF Linked
<1>5. \A d \in op'[o].seen : \/ \E e \in Left(o)' : e.name = d /\ ~e.stub
                             \/ row'[d].state = "full" /\ Linked(o, row[d].fields)'
  BY <1>3, <1>4
<1>6. QED
  BY <1>2, <1>5 DEF Applies

\* A step of a process that applies its defs keeps track of them.
LEMMA AppliesOwnStep ==
    ASSUME IInv, PlanInv, AppliesInv, NEW o \in Ops, Start(o) \/ Work(o) \/ Crash(o),
           op'[o].at \in {"look", "ddl", "sync", "bump"}
    PROVE  Applies(o)'
<1>0. op[o] \in Process /\ op[o].seen \subseteq Doctypes /\ op'[o] # Idle
  BY DEF IInv, TypeOK, Process, Idle
<1>1. CASE Start(o) \/ Visit(o)
  <2>1. CASE Start(o)
    BY <2>1 DEF Start, IInv, TypeOK, Idle
  <2>2. CASE Visit(o)
    BY <1>0, <2>2 DEF Visit, Refuse, IInv, TypeOK, Process
  <2>3. QED
    BY <1>1, <2>1, <2>2
<1>2. CASE Generate(o)
  <2>1. op[o].at = "plan" /\ op'[o].at = "look"
    BY <1>0, <1>2 DEF Generate, Refuse, IInv, TypeOK, Process
  <2>2. QED
    BY <1>2, <2>1, GenerateApplies DEF IInv, PlanInv
<1>3. CASE Look(o)
  <2>1. PICK def \in op[o].todo :
          op' = [op EXCEPT ![o] =
                    IF def.stub /\ row[def.name].state = "full"
                    THEN Proceed([op[o] EXCEPT !.todo = @ \ {def}])
                    ELSE [[op[o] EXCEPT !.todo = @ \ {def}] EXCEPT !.at = "ddl", !.def = def,
                             !.upgrade = row[def.name].state = "stub" /\ ~def.stub]]
    BY <1>3 DEF Look
  <2>2. row' = row /\ op[o].at = "look" /\ Left(o) = op[o].todo /\ Applies(o) /\ def.name \in Doctypes
    BY <1>0, <1>3 DEF Look, Left, AppliesInv, Process, Def
  <2>3. CASE def.stub /\ row[def.name].state = "full"
    <3>1. /\ op'[o].at = "look" /\ op'[o].seen = op[o].seen
          /\ op'[o].todo = op[o].todo \ {def}
      BY <1>0, <2>1, <2>3 DEF IInv, TypeOK, Process, Proceed
    <3>2. Left(o)' = Left(o) \ {def}
      BY <2>2, <3>1 DEF Left
    <3>3. QED
      BY <1>0, <2>2, <2>3, <3>1, <3>2, AppliesDone
  <2>4. CASE ~(def.stub /\ row[def.name].state = "full")
    <3>1. /\ op'[o].at = "ddl" /\ op'[o].seen = op[o].seen /\ op'[o].def = def
          /\ op'[o].todo = op[o].todo \ {def}
      BY <1>0, <2>1, <2>4 DEF IInv, TypeOK, Process
    <3>2. Left(o)' = Left(o)
      BY <2>2, <3>1 DEF Left
    <3>3. QED
      BY <2>2, <3>1, <3>2, AppliesKept
  <2>5. QED
    BY <2>3, <2>4
<1>4. CASE Ddl(o)
  <2>1. /\ op[o].at = "ddl" /\ op'[o].at = "sync" /\ op'[o].seen = op[o].seen /\ row' = row
        /\ op'[o].def = op[o].def /\ op'[o].todo = op[o].todo
    BY <1>0, <1>4 DEF Ddl, Refuse, IInv, TypeOK, Process
  <2>2. Left(o)' = Left(o)
    BY <2>1 DEF Left
  <2>3. QED
    BY <2>1, <2>2, AppliesKept DEF AppliesInv
<1>5. CASE Sync(o)
  <2>1. /\ op[o].at = "sync" /\ op'[o].at = "bump" /\ op'[o].seen = op[o].seen
        /\ op'[o].todo = op[o].todo
        /\ row' = [row EXCEPT ![op[o].def.name] =
                     [state |-> IF op[o].def.stub THEN "stub" ELSE "full",
                      fields |-> op[o].def.fields]]
    BY <1>0, <1>5 DEF Sync, IInv, TypeOK, Process
  <2>2. op[o].def.name \in Doctypes
    BY <2>1 DEF IInv, KnowsInv, Def
  <2>3. /\ op[o].def \in Left(o) /\ Left(o) \ {op[o].def} \subseteq Left(o)'
        /\ Left(o)' \subseteq Left(o)
    BY <2>1 DEF Left
  <2>4. /\ \A d \in Doctypes \ {op[o].def.name} : row'[d] = row[d]
        /\ row'[op[o].def.name].state # "absent"
        /\ ~op[o].def.stub => /\ row'[op[o].def.name].state = "full"
                              /\ row'[op[o].def.name].fields = op[o].def.fields
    BY <2>1, <2>2 DEF IInv, TypeOK
  <2>5. QED
    BY <1>0, <2>1, <2>3, <2>4, AppliesDone DEF AppliesInv
<1>6. CASE Bump(o)
  <2>1. /\ op[o].at = "bump" /\ op'[o].at = "look" /\ op'[o].seen = op[o].seen /\ row' = row
        /\ op'[o].todo = op[o].todo
    BY <1>0, <1>6 DEF Bump, IInv, TypeOK, Process, Proceed
  <2>2. Left(o)' = Left(o)
    BY <2>1 DEF Left
  <2>3. QED
    BY <2>1, <2>2, AppliesKept DEF AppliesInv
<1>7. CASE Crash(o)
  BY <1>0, <1>7 DEF Crash, IInv, TypeOK
<1>8. QED
  BY <1>1, <1>2, <1>3, <1>4, <1>5, <1>6, <1>7 DEF Work

LEMMA AppliesStep ==
    ASSUME Serial, IInv, PlanInv, AppliesInv, [Next]_vars
    PROVE  AppliesInv'
<1>1. ASSUME NEW o \in Ops, Start(o) \/ Work(o) \/ Crash(o) PROVE AppliesInv'
  <2>1. \A p \in Ops \ {o} : op'[p].at = "idle"
    BY <1>1, OwnStep DEF IInv
  <2>2. op'[o].at \in {"look", "ddl", "sync", "bump"} => Applies(o)'
    BY <1>1, AppliesOwnStep
  <2>3. \A p \in Ops : op'[p].at \in {"look", "ddl", "sync", "bump"} => Applies(p)'
    BY <2>1, <2>2
  <2>4. QED
    BY <2>3 DEF AppliesInv
<1>2. ASSUME row' = row, op' = op PROVE AppliesInv'
  <2>1. ASSUME NEW o \in Ops, op[o].at \in {"look", "ddl", "sync", "bump"}
        PROVE  Applies(o)'
    <3>1. Left(o)' = Left(o)
      BY <1>2 DEF Left
    <3>2. QED
      BY <1>2, <2>1, <3>1, AppliesKept DEF AppliesInv
  <2>2. QED
    BY <1>2, <2>1 DEF AppliesInv
<1>3. Push \/ Checkout \/ UNCHANGED vars => row' = row /\ op' = op
  BY DEF Push, Checkout, vars
<1>4. QED
  BY <1>1, <1>2, <1>3 DEF Next

LEMMA AppliesInvariance == Serial => (Spec => []AppliesInv)
<1>1. Init => AppliesInv
  BY DEF Init, Idle, AppliesInv
<1>2. CASE Serial
  <2>1. IInv /\ PlanInv /\ AppliesInv /\ [Next]_vars => AppliesInv'
    BY <1>2, AppliesStep
  <2>2. SearchInv => PlanInv
    BY DEF SearchInv
  <2>3. QED
    BY <1>1, <1>2, <2>1, <2>2, Invariance, SearchInvariance, PTL DEF Spec
<1>3. QED
  BY <1>2

------------------------------------------------------------------------------
\* What installing promises.

\* A def applied over a doctype: only Sync writes a meta row.
LEMMA RowStep ==
    ASSUME [Next]_vars
    PROVE  row' = row \/ \E o \in Ops : Sync(o)
<1>1. ASSUME NEW o \in Ops, Start(o) \/ Visit(o) \/ Generate(o) \/ Look(o) \/ Ddl(o) \/ Bump(o) \/ Crash(o)
      PROVE  row' = row
  BY <1>1 DEF Start, Visit, Generate, Look, Ddl, Bump, Crash, Refuse
<1>2. Push \/ Checkout \/ UNCHANGED vars => row' = row
  BY DEF Push, Checkout, vars
<1>3. QED
  BY <1>1, <1>2 DEF Next, Work

\* No step of migrate() turns a full doctype into a stub.
THEOREM FullForEver == Serial => (Spec => NeverDowngraded)
<1>1. ASSUME IInv, [Next]_vars, NEW d \in Doctypes, row[d].state = "full"
      PROVE  row'[d].state = "full"
  <2>1. CASE row' = row
    BY <1>1, <2>1
  <2>2. CASE \E o \in Ops : Sync(o)
    <3>1. PICK o \in Ops : Sync(o)
      BY <2>2
    <3>2. /\ op[o].def \in Def
          /\ op[o].def.stub => row[op[o].def.name].state # "full"
      BY <1>1, <3>1 DEF Sync, IInv, KnowsInv
    <3>3. QED
      BY <1>1, <3>1, <3>2 DEF Sync, IInv, TypeOK
  <2>3. QED
    BY <1>1, <2>1, <2>2, RowStep
<1>2. IInv /\ [Next]_vars =>
        [\A d \in Doctypes : row[d].state = "full" => row'[d].state = "full"]_vars
  BY <1>1
<1>3. CASE Serial
  BY <1>2, <1>3, Invariance, PTL DEF Spec, NeverDowngraded
<1>4. QED
  BY <1>3

\* The meta row of an upgraded doctype is written over a table that has its
\* columns: the ALTER of migrate() comes first, and nothing drops a column.
THEOREM UpgradeCorrect == Serial => (Spec => UpgradeHasColumns)
<1>1. ASSUME IInv, [Next]_vars, NEW d \in Doctypes,
             row[d].state = "stub", row'[d].state = "full"
      PROVE  FieldColumns(row'[d].fields) \subseteq cols'[d]
  <2>1. PICK o \in Ops : Sync(o)
    BY <1>1, RowStep
  <2>2. d = op[o].def.name /\ ~op[o].def.stub /\ row'[d].fields = op[o].def.fields
    BY <1>1, <2>1 DEF Sync, IInv, TypeOK
  <2>3. op[o].at = "sync" /\ op[o].upgrade /\ cols' = cols
    BY <1>1, <2>1, <2>2 DEF Sync, IInv, KnowsInv
  <2>4. QED
    BY <1>1, <2>2, <2>3 DEF IInv, ColumnsInv
<1>2. IInv /\ [Next]_vars =>
        [\A d \in Doctypes : row[d].state = "stub" /\ row'[d].state = "full" =>
            FieldColumns(row'[d].fields) \subseteq cols'[d]]_vars
  BY <1>1
<1>3. CASE Serial
  BY <1>2, <1>3, Invariance, PTL DEF Spec, UpgradeHasColumns
<1>4. QED
  BY <1>3

\* A process that ends has bumped the version after the last meta row it or a
\* process that died before it wrote.
THEOREM AnnounceCorrect == Serial => (Spec => FinishedIsAnnounced)
<1>1. ASSUME IInv, [Next]_vars, NEW o \in Ops, Finishes(o), Serial
      PROVE  silent' = {}
  <2>1. op[o].at \in {"look", "bump"} /\ op'[o].at = "idle" /\ crashes' = crashes
    BY <1>1 DEF Finishes
  <2>2. \E p \in Ops : Start(p) \/ Work(p) \/ Crash(p)
    BY <1>1, <2>1 DEF Next, vars, Push, Checkout
  <2>3. PICK p \in Ops : Start(p) \/ Work(p) \/ Crash(p)
    BY <2>2
  <2>4. p = o
    BY <1>1, <2>1, <2>3, OwnStep DEF IInv
  <2>5. CASE Look(o)
    <3>1. PICK def \in op[o].todo :
            /\ Turn(o, def)
            /\ ~(def.stub /\ row[def.name].state = "full") => op'[o].at = "ddl"
      BY <1>1, <2>5 DEF Look, IInv, TypeOK, Process
    <3>2. \A e \in op[o].todo : e.stub
      BY <2>1, <3>1 DEF Turn
    <3>3. QED
      BY <1>1, <2>1, <2>5, <3>2 DEF IInv, SilentInv, Look
  <2>6. CASE Bump(o)
    BY <2>6 DEF Bump
  <2>7. ~(Start(o) \/ Visit(o) \/ Generate(o) \/ Ddl(o) \/ Sync(o))
    BY <2>1 DEF Start, Visit, Generate, Ddl, Sync
  <2>8. ~Crash(o)
    BY <1>1, <2>1 DEF Crash, IInv, TypeOK
  <2>9. QED
    BY <2>3, <2>4, <2>5, <2>6, <2>7, <2>8 DEF Work
<1>2. CASE Serial
  <2>1. IInv /\ [Next]_vars => [\A o \in Ops : Finishes(o) => silent' = {}]_vars
    BY <1>1, <1>2
  <2>2. QED
    BY <1>2, <2>1, Invariance, PTL DEF Spec, FinishedIsAnnounced
<1>3. QED
  BY <1>2

\* When a process ends, the doctypes of its plan are full and what their fields name can
\* be loaded or is registered: the child tables are part of the plan, the stubs come last.
THEOREM ClosedCorrect == Serial => (Spec => FinishedIsClosed)
<1> DEFINE Closed(o) == \A d \in op[o].seen :
                 /\ row'[d].state = "full"
                 /\ \A f \in row'[d].fields :
                       /\ f.kind = "Table" => row'[f.options].state = "full"
                       /\ f.kind = "Link" => row'[f.options].state # "absent"
<1>1. ASSUME NEW o \in Ops, Applies(o), row' = row,
             \A e \in Left(o) : e.stub /\ row[e.name].state = "full"
      PROVE  Closed(o)
  <2>1. \A d \in op[o].seen : row[d].state = "full" /\ Linked(o, row[d].fields)
    BY <1>1 DEF Applies
  <2>2. QED
    BY <1>1, <2>1 DEF Linked
<1>2. ASSUME Serial, IInv, AppliesInv, [Next]_vars, NEW o \in Ops, Finishes(o)
      PROVE  Closed(o)
  <2>1. /\ op[o].at \in {"look", "bump"} /\ op'[o].at = "idle" /\ crashes' = crashes
        /\ op[o] \in Process /\ Applies(o) /\ Left(o) = op[o].todo
    BY <1>2 DEF Finishes, IInv, TypeOK, AppliesInv, Left
  <2>2. \E p \in Ops : Start(p) \/ Work(p) \/ Crash(p)
    BY <1>2, <2>1 DEF Next, vars, Push, Checkout
  <2>3. PICK p \in Ops : Start(p) \/ Work(p) \/ Crash(p)
    BY <2>2
  <2>4. p = o
    BY <1>2, <2>1, <2>3, OwnStep DEF IInv
  <2>5. CASE Look(o)
    <3>1. PICK def \in op[o].todo :
          op' = [op EXCEPT ![o] =
                    IF def.stub /\ row[def.name].state = "full"
                    THEN Proceed([op[o] EXCEPT !.todo = @ \ {def}])
                    ELSE [[op[o] EXCEPT !.todo = @ \ {def}] EXCEPT !.at = "ddl", !.def = def,
                             !.upgrade = row[def.name].state = "stub" /\ ~def.stub]]
      BY <2>5 DEF Look
    <3>2. def.stub /\ row[def.name].state = "full"
      BY <1>2, <2>1, <3>1 DEF IInv, TypeOK, Process
    <3>3. op[o].todo \ {def} = {}
      BY <1>2, <2>1, <3>1, <3>2 DEF IInv, TypeOK, Process, Proceed
    <3>4. row' = row
      BY <2>5 DEF Look
    <3>5. QED
      BY <1>1, <2>1, <3>2, <3>3, <3>4
  <2>6. CASE Bump(o)
    <3>1. op[o].todo = {}
      BY <1>2, <2>1, <2>6 DEF Bump, IInv, TypeOK, Process, Proceed
    <3>2. row' = row
      BY <2>6 DEF Bump
    <3>3. QED
      BY <1>1, <2>1, <3>1, <3>2
  <2>7. ~(Start(o) \/ Visit(o) \/ Generate(o) \/ Ddl(o) \/ Sync(o))
    BY <2>1 DEF Start, Visit, Generate, Ddl, Sync
  <2>8. ~Crash(o)
    BY <1>2, <2>1 DEF Crash, IInv, TypeOK
  <2>9. QED
    BY <2>3, <2>4, <2>5, <2>6, <2>7, <2>8 DEF Work
<1>3. CASE Serial
  <2>1. IInv /\ AppliesInv /\ [Next]_vars => [\A o \in Ops : Finishes(o) => Closed(o)]_vars
    BY <1>2, <1>3
  <2>2. QED
    BY <1>3, <2>1, Invariance, AppliesInvariance, PTL DEF Spec, FinishedIsClosed
<1>4. QED
  BY <1>3

------------------------------------------------------------------------------
\* The columns of a full doctype exist, if nothing disturbs the operators.

\* No process has died and no migration file is waiting.
Calm == crashes = 0 /\ files = {}

\* The sources being what they are, a def is the full one of its doctype or its stub.
Sourced(def) == def \in {FullDef(def.name), StubDef(def.name)}

SourcedInv == \A o \in Ops : \A def \in Left(o) : Sourced(def)

\* A full doctype has the fields of the sources and their columns; a table without a
\* meta row is one a process has just created.
TableInv ==
    \A d \in Doctypes :
        /\ row[d].state = "full" => /\ row[d].fields = FullDef(d).fields
                                    /\ FieldColumns(row[d].fields) \subseteq cols[d]
        /\ row[d].state = "absent" /\ cols[d] # {} =>
              \E o \in Ops : op[o].at = "sync" /\ op[o].def.name = d

AlteredInv ==
    \A o \in Ops : op[o].at = "sync" =>
        FieldColumns(op[o].def.fields) \subseteq cols[op[o].def.name]

CalmInv == SourcedInv /\ TableInv /\ AlteredInv

\* A step that writes neither tables nor meta rows, of a process that is not between
\* its table and its meta row.
LEMMA CalmQuiet ==
    ASSUME CalmInv, NEW o \in Ops, op[o].at # "sync", op'[o].at # "sync",
           \A p \in Ops \ {o} : op'[p] = op[p],
           UNCHANGED <<tree, row, cols>>,
           \A def \in Left(o)' : Sourced(def)
    PROVE  CalmInv'
<1>1. ASSUME NEW p \in Ops, NEW def \in Left(p)' PROVE Sourced(def)'
  <2>1. Sourced(def)
    <3>1. CASE p = o
      BY <1>1, <3>1
    <3>2. CASE p # o
      BY <1>1, <3>2 DEF CalmInv, SourcedInv, Left
    <3>3. QED
      BY <3>1, <3>2
  <2>2. QED
    BY <2>1 DEF Sourced, FullDef, StubDef
<1>2. SourcedInv'
  BY <1>1 DEF SourcedInv
<1>3. \A d : FullDef(d)' = FullDef(d)
  BY DEF FullDef
<1>4. TableInv'
  BY <1>3 DEF CalmInv, TableInv
<1>5. AlteredInv'
  BY DEF CalmInv, AlteredInv
<1>6. QED
  BY <1>2, <1>4, <1>5 DEF CalmInv

\* What a search generates comes from the sources.
LEMMA DefsSourced ==
    ASSUME NEW cmd, NEW full, NEW def \in Defs(cmd, full) PROVE Sourced(def)
<1>1. \A d : FullDef(d).name = d /\ StubDef(d).name = d
  BY DEF FullDef, StubDef
<1>2. PICK d : def = FullDef(d) \/ def = StubDef(d)
  BY DEF Defs
<1>3. def.name = d
  BY <1>1, <1>2
<1>4. QED
  BY <1>2, <1>3 DEF Sourced

\* applyDDL() leaves the columns of its def behind: an upgrade alters the table, and a
\* new doctype has no table yet.
LEMMA DdlCalm ==
    ASSUME Serial, IInv, CalmInv, NEW o \in Ops, Ddl(o), op'[o] # Idle PROVE CalmInv'
<1> PICK def : def = op[o].def
  OBVIOUS
<1> DEFINE had == cols[def.name]
<1>0. op[o] \in Process /\ \A p \in Ops \ {o} : op'[p] = op[p] /\ op[p].at = "idle"
  BY OwnStep DEF Work, IInv, TypeOK
<1>1. /\ op[o].at = "ddl" /\ op'[o].at = "sync" /\ op'[o].def = def
      /\ op'[o].todo = op[o].todo /\ UNCHANGED <<tree, row>>
      /\ cols' = [cols EXCEPT ![def.name] =
                    IF op[o].upgrade THEN @ \cup FieldColumns(def.fields)
                    ELSE IF @ = {} THEN Created(def) ELSE @]
  BY <1>0 DEF Ddl, Refuse, IInv, TypeOK, Process
<1>2. def \in Def /\ def.name \in Doctypes /\ Sourced(def)
  <2>1. def \in Def
    BY <1>1 DEF IInv, KnowsInv
  <2>2. Sourced(def)
    BY <1>1 DEF CalmInv, SourcedInv, Left
  <2>3. QED
    BY <2>1, <2>2 DEF Def
<1>3. /\ cols'[def.name] = IF op[o].upgrade THEN had \cup FieldColumns(def.fields)
                            ELSE IF had = {} THEN Created(def) ELSE had
      /\ \A d \in Doctypes \ {def.name} : cols'[d] = cols[d]
  BY <1>1, <1>2 DEF IInv, TypeOK
<1>4. FieldColumns(def.fields) \subseteq cols'[def.name]
  <2>1. CASE op[o].upgrade \/ had = {}
    BY <1>3, <2>1 DEF Created
  <2>2. CASE ~op[o].upgrade /\ had # {} /\ def = StubDef(def.name)
    <3>1. def.fields = {}
      BY <2>2 DEF StubDef
    <3>2. QED
      BY <3>1 DEF FieldColumns
  <2>3. CASE ~op[o].upgrade /\ had # {} /\ def = FullDef(def.name)
    <3>1. ~def.stub
      <4>1. ~FullDef(def.name).stub
        BY DEF FullDef
      <4>2. QED
        BY <2>3, <4>1
    <3>2. row[def.name].state # "stub"
      BY <1>1, <2>3, <3>1 DEF IInv, KnowsInv
    <3>3. row[def.name].state # "absent"
      BY <1>0, <1>1, <1>2, <2>3 DEF CalmInv, TableInv
    <3>4. row[def.name].state = "full"
      BY <1>2, <3>2, <3>3 DEF IInv, TypeOK, Row
    <3>5. FieldColumns(FullDef(def.name).fields) \subseteq had
      BY <1>2, <3>4 DEF CalmInv, TableInv
    <3>6. QED
      BY <1>3, <2>3, <3>5
  <2>4. QED
    BY <1>2, <2>1, <2>2, <2>3 DEF Sourced
<1>5. \A d \in Doctypes : cols[d] \subseteq cols'[d]
  BY <1>3 DEF IInv, TypeOK
<1>6. \A d : FullDef(d)' = FullDef(d) /\ StubDef(d)' = StubDef(d)
  BY <1>1 DEF FullDef, StubDef
<1>7. SourcedInv'
  <2>1. \A p \in Ops : Left(p)' = Left(p)
    BY <1>0, <1>1 DEF Left
  <2>2. QED
    BY <1>6, <2>1 DEF CalmInv, SourcedInv, Sourced
<1>8. TableInv'
  <2> SUFFICES ASSUME NEW d \in Doctypes
               PROVE  /\ row[d].state = "full" =>
                            /\ row[d].fields = FullDef(d).fields
                            /\ FieldColumns(row[d].fields) \subseteq cols'[d]
                      /\ row[d].state = "absent" /\ cols'[d] # {} =>
                            \E p \in Ops : op'[p].at = "sync" /\ op'[p].def.name = d
    BY <1>1, <1>6 DEF TableInv
  <2>1. row[d].state = "full" => /\ row[d].fields = FullDef(d).fields
                                 /\ FieldColumns(row[d].fields) \subseteq cols'[d]
    BY <1>5 DEF CalmInv, TableInv
  <2>2. ASSUME row[d].state = "absent", cols'[d] # {} PROVE d = def.name
    <3>1. ~\E p \in Ops : op[p].at = "sync"
      BY <1>0, <1>1
    <3>2. QED
      BY <1>3, <2>2, <3>1 DEF CalmInv, TableInv
  <2>3. QED
    BY <1>1, <2>1, <2>2
<1>9. AlteredInv'
  BY <1>0, <1>1, <1>4 DEF AlteredInv
<1>10. QED
  BY <1>7, <1>8, <1>9 DEF CalmInv

LEMMA SyncCalm ==
    ASSUME Serial, IInv, CalmInv, NEW o \in Ops, Sync(o) PROVE CalmInv'
<1> PICK def : def = op[o].def
  OBVIOUS
<1>0. op[o] \in Process /\ \A p \in Ops \ {o} : op'[p] = op[p] /\ op[p].at = "idle"
  BY OwnStep DEF Work, IInv, TypeOK
<1>1. /\ op[o].at = "sync" /\ op'[o].at = "bump" /\ op'[o].todo = op[o].todo
      /\ UNCHANGED <<tree, cols>>
      /\ row' = [row EXCEPT ![def.name] = [state |-> IF def.stub THEN "stub" ELSE "full",
                                           fields |-> def.fields]]
  BY <1>0 DEF Sync, IInv, TypeOK, Process
<1>2. /\ def \in Def /\ def.name \in Doctypes /\ Sourced(def)
      /\ FieldColumns(def.fields) \subseteq cols[def.name]
  <2>1. def \in Def
    BY <1>1 DEF IInv, KnowsInv
  <2>2. Sourced(def) /\ FieldColumns(def.fields) \subseteq cols[def.name]
    BY <1>1 DEF CalmInv, SourcedInv, AlteredInv, Left
  <2>3. QED
    BY <2>1, <2>2 DEF Def
<1>3. \A d : FullDef(d)' = FullDef(d) /\ StubDef(d)' = StubDef(d)
  BY <1>1 DEF FullDef, StubDef
<1>4. SourcedInv'
  <2>1. \A p \in Ops : Left(p)' \subseteq Left(p)
    BY <1>0, <1>1 DEF Left
  <2>2. QED
    BY <1>3, <2>1 DEF CalmInv, SourcedInv, Sourced
<1>5. TableInv'
  <2>1. ASSUME NEW d \in Doctypes \ {def.name}
        PROVE  row'[d] = row[d] /\ (row[d].state = "absent" => cols[d] = {})
    BY <1>0, <1>1, <1>2, <2>1 DEF CalmInv, TableInv, IInv, TypeOK
  <2>2. row'[def.name] = [state |-> IF def.stub THEN "stub" ELSE "full", fields |-> def.fields]
    BY <1>1, <1>2 DEF IInv, TypeOK
  <2>3. ~def.stub => def.fields = FullDef(def.name).fields
    BY <1>2 DEF Sourced, StubDef
  <2>4. QED
    BY <1>1, <1>2, <1>3, <2>1, <2>2, <2>3 DEF CalmInv, TableInv
<1>6. AlteredInv'
  BY <1>0, <1>1 DEF AlteredInv
<1>7. QED
  BY <1>4, <1>5, <1>6 DEF CalmInv

LEMMA CalmStep ==
    ASSUME Serial, IInv, CalmInv, Calm, Calm', tree' = tree, [Next]_vars PROVE CalmInv'
<1>1. ASSUME NEW o \in Ops, Start(o) \/ Work(o) \/ Crash(o) PROVE CalmInv'
  <2>0. op[o] \in Process /\ op'[o] \in Process /\ \A p \in Ops \ {o} : op'[p] = op[p]
    <3>1. TypeOK'
      BY InvStep DEF IInv
    <3>2. QED
      BY <1>1, <3>1, OwnStep DEF IInv, TypeOK
  <2>1. CASE Start(o) \/ Visit(o) \/ (Ddl(o) /\ op'[o] = Idle)
    <3>1. op[o].at # "sync" /\ UNCHANGED <<row, cols>>
      <4>1. CASE Start(o) \/ Visit(o)
        BY <4>1 DEF Start, Visit, Refuse
      <4>2. CASE Ddl(o) /\ op'[o] = Idle
        <5>1. Refuse(o) \/ op' = [op EXCEPT ![o].at = "sync"]
          BY <4>2 DEF Ddl
        <5>2. Refuse(o)
          BY <2>0, <4>2, <5>1 DEF Idle, IInv, TypeOK, Process
        <5>3. QED
          BY <4>2, <5>2 DEF Ddl, Refuse
      <4>3. QED
        BY <2>1, <4>1, <4>2
    <3>2. op'[o].at \notin {"ddl", "sync"} /\ op'[o].todo \subseteq op[o].todo
      <4>1. CASE op'[o] = Idle
        BY <4>1 DEF Idle
      <4>2. CASE Start(o)
        BY <4>2 DEF Start, Idle, IInv, TypeOK
      <4>3. CASE Visit(o) /\ op'[o] # Idle
        BY <2>0, <4>3 DEF Visit, Refuse, IInv, TypeOK, Process
      <4>4. QED
        BY <2>1, <4>1, <4>2, <4>3
    <3>3. \A def \in Left(o)' : Sourced(def)
      BY <3>2 DEF CalmInv, SourcedInv, Left
    <3>4. QED
      BY <2>0, <3>1, <3>2, <3>3, CalmQuiet
  <2>2. CASE Generate(o)
    <3>1. op[o].at # "sync" /\ op'[o].at \notin {"ddl", "sync"} /\ UNCHANGED <<row, cols>>
      BY <2>2 DEF Generate, Refuse, Idle, IInv, TypeOK, Process
    <3>2. op'[o].todo = {} \/ op'[o].todo = Defs(op[o].cmd, op[o].seen)
      BY <2>2 DEF Generate, Refuse, Idle, IInv, TypeOK, Process
    <3>3. \A def \in Left(o)' : Sourced(def)
      BY <3>1, <3>2, DefsSourced DEF Left
    <3>4. QED
      BY <2>0, <3>1, <3>3, CalmQuiet
  <2>3. CASE Look(o)
    <3>1. PICK def \in op[o].todo :
            op' = [op EXCEPT ![o] =
                      IF def.stub /\ row[def.name].state = "full"
                      THEN Proceed([op[o] EXCEPT !.todo = @ \ {def}])
                      ELSE [[op[o] EXCEPT !.todo = @ \ {def}] EXCEPT !.at = "ddl", !.def = def,
                               !.upgrade = row[def.name].state = "stub" /\ ~def.stub]]
      BY <2>3 DEF Look
    <3>2. op[o].at # "sync" /\ UNCHANGED <<row, cols>>
      BY <2>3 DEF Look
    <3>3. /\ op'[o].todo \subseteq op[o].todo
          /\ \/ op'[o].at \in {"idle", "look"}
             \/ op'[o].at = "ddl" /\ op'[o].def = def
      BY <2>0, <3>1 DEF Proceed, Idle, IInv, TypeOK, Process
    <3>4. \A e \in Left(o)' : Sourced(e)
      BY <3>3 DEF CalmInv, SourcedInv, Left
    <3>5. QED
      BY <2>0, <3>2, <3>3, <3>4, CalmQuiet
  <2>4. CASE Ddl(o) /\ op'[o] # Idle
    BY <2>4, DdlCalm
  <2>5. CASE Sync(o)
    BY <2>5, SyncCalm
  <2>6. CASE Bump(o)
    <3>1. op[o].at # "sync" /\ UNCHANGED <<row, cols>> /\ op'[o] = Proceed(op[o])
      BY <2>6 DEF Bump, IInv, TypeOK
    <3>2. op'[o].todo \subseteq op[o].todo /\ op'[o].at \in {"idle", "look"}
      BY <2>0, <3>1 DEF Proceed, Idle, Process
    <3>3. \A def \in Left(o)' : Sourced(def)
      BY <3>2 DEF CalmInv, SourcedInv, Left
    <3>4. QED
      BY <2>0, <3>1, <3>2, <3>3, CalmQuiet
  <2>7. ~Crash(o)
    BY DEF Crash, Calm
  <2>8. QED
    BY <1>1, <2>1, <2>2, <2>3, <2>4, <2>5, <2>6, <2>7 DEF Work
<1>2. ~Push
  BY DEF Push, Calm
<1>3. ~Checkout
  BY DEF Checkout
<1>4. CASE UNCHANGED vars
  BY <1>4 DEF vars, CalmInv, SourcedInv, TableInv, AlteredInv, Left, Sourced, FullDef,
                 StubDef
<1>5. QED
  BY <1>1, <1>2, <1>3, <1>4 DEF Next

\* The table of a full doctype has the columns of its fields when operators wait for each
\* other, no process dies, no migration file is emitted and the sources do not change:
\* each of the four is needed, and the run InstallTorn drops the second.
THEOREM ColumnsCorrect ==
    Serial => (Spec /\ []Calm /\ [][tree' = tree]_vars => []ColumnsExist)
<1>1. Init => CalmInv
  BY DEF Init, Idle, CalmInv, SourcedInv, Left, TableInv, AlteredInv
<1>2. CASE Serial
  <2>1. IInv /\ CalmInv /\ Calm /\ Calm' /\ [tree' = tree]_vars /\ [Next]_vars => CalmInv'
    <3>1. [tree' = tree]_vars => tree' = tree
      BY DEF vars
    <3>2. QED
      BY <1>2, <3>1, CalmStep
  <2>2. CalmInv => ColumnsExist
    BY DEF CalmInv, TableInv, ColumnsExist
  <2>3. QED
    BY <1>1, <1>2, <2>1, <2>2, Invariance, PTL DEF Spec
<1>3. QED
  BY <1>2

==============================================================================
