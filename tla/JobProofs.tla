----------------------------- MODULE JobProofs ------------------------------
(* Theorems about JobWorkflow, for any clients, lambdas, patches, stops of    *)
(* the seed and bounds.  For any overlap of requests: types.  For requests    *)
(* that overlap on one connection only (~Overlap): the statements implement   *)
(* the Job status machine, and, when no update sends a status (Quiet), the    *)
(* audit trail is the Job's history and, where job.hooks.js is imported, a    *)
(* scheduled Job is paid for.                                                 *)
EXTENDS JobWorkflow, SequenceTheorems, TLAPS

\* Past the connection's queue.
AtWork(c) == pc[c] \notin {"idle", "queued"}

\* A transition that has found its row.
Decided(c) == IsTx(c) /\ pc[c] \in {"existing", "update", "log", "commit"}

\* What kind of request is where, and what it has read to get there.
Kind(c) ==
    /\ pc[c] \in {"queued", "workflow", "rules", "decide", "log", "commit"} => IsTx(c)
    /\ Decided(c) => rule[c] # NoRule
    /\ pc[c] = "rules" => table # JM!NoWorkflow
    /\ pc[c] = "decide" => Def(c) # Unloaded

KindInv == \A c \in Clients : Kind(c)

\* A cached definition has no row the table has not.
DefInv == \A l \in Lambdas : def[l] # Unloaded => def[l] \in 0..table

\* Requests overlap on one connection only, which the one at work holds.
OneInv ==
    \A b, c \in Clients :
        Active(b) /\ Active(c) /\ b # c => IsTx(b) /\ IsTx(c) /\ Lambda(b) = Lambda(c)

HoldsInv == \A c \in Clients : IsTx(c) /\ AtWork(c) => conn[Lambda(c)] = c

\* What the request at work has read is so: the row, the rows of the workflow, and the
\* document it will write.
Knows(c) ==
    /\ pc[c] \in {"workflow", "rules", "decide"} => mem[c] = row
    /\ Decided(c) =>
          /\ mem[c] = [status |-> JM!Rules[rule[c]].to, paid |-> row.paid]
          /\ JM!GateOf(JM!Rules[rule[c]].action) \subseteq row.paid
          /\ JM!StatusOf(row, table) = JM!Rules[rule[c]].from
          /\ rule[c] <= table
    /\ ~IsTx(c) /\ pc[c] \in {"existing", "update"} =>
          mem[c] = JM!Patched(row, req[c].patch)

KnowsInv == \A c \in Clients : Knows(c)

\* The statuses behind the deposit gate, and what a Job there has passed since it last
\* entered Measure.
Way == {"Measure", "Sign-off", "Manufacturing", "Scheduling", "Install", "Complete", "Hold"}
Needed(status) ==
    CASE status = "Sign-off" -> {"start_signoff"}
      [] status = "Manufacturing" -> {"start_signoff", "to_manufacturing"}
      [] status \in {"Scheduling", "Install", "Complete"} ->
            {"start_signoff", "to_manufacturing", "to_scheduling"}
      [] OTHER -> {}

\* The trail s has passed the actions A, paid for, after its k-th row; its k-th row is
\* its last into Measure.
PassedIn(s, A, k) ==
    \A a \in A : \E i \in (k + 1)..Len(s) :
        s[i].action = a /\ JM!PaymentFor(a) \subseteq s[i].paid
LastIn(s, k) == s[k].to = "Measure" /\ \A j \in (k + 1)..Len(s) : s[j].to # "Measure"

PathInv ==
    hooks /\ row.status \in Way =>
        /\ PassedIn(log, {"start_measure"}, 0)
        /\ \E k \in 1..Len(log) : LastIn(log, k) /\ PassedIn(log, Needed(row.status), k)

-----------------------------------------------------------------------------
(* The transition rows *)

LEMMA RuleCount == Len(JM!Rules) = 15 /\ DOMAIN JM!Rules = 1..15
BY DEF JM!Rules

\* Every row goes from a status to a status.
LEMMA RuleTypes ==
    ASSUME NEW i \in 1..15
    PROVE  /\ JM!Rules[i].from \in JM!States /\ JM!Rules[i].to \in JM!States
           /\ JM!Rules[i].action \in JM!Actions
           /\ JM!Rules[i].to # Null /\ JM!Rules[i].to # Keep
BY RuleCount, JobAssumption DEF JM!States, JM!Actions

LEMMA EntryType ==
    ASSUME NEW i \in 1..15, NEW paid \in SUBSET JM!Gates
    PROVE  JM!Entry(i, paid) \in Entry
BY RuleTypes DEF JM!Entry, Entry

\* How a row leads to a status on the way: from Won or Hold into Measure, else onward
\* with its own action.
LEMMA RuleWay ==
    ASSUME NEW i \in 1..15, JM!Rules[i].to \in Way
    PROVE  \/ JM!Rules[i].to = "Measure" /\ JM!Rules[i].action = "start_measure"
           \/ JM!Rules[i].to = "Measure" /\ JM!Rules[i].from = "Hold"
           \/ /\ JM!Rules[i].to # "Measure" /\ JM!Rules[i].from \in Way
              /\ Needed(JM!Rules[i].to) \subseteq
                    Needed(JM!Rules[i].from) \cup {JM!Rules[i].action}
<1> DEFINE R(j) == JM!Rules[j]
<1>1. /\ R(1) = JM!Rule("start_measure", "Won", "Measure", JM!Admin)
      /\ R(2) = JM!Rule("start_signoff", "Measure", "Sign-off", JM!Admin)
      /\ R(3) = JM!Rule("to_manufacturing", "Sign-off", "Manufacturing", JM!Admin)
      /\ R(4) = JM!Rule("to_scheduling", "Manufacturing", "Scheduling", JM!Both)
      /\ R(5) = JM!Rule("to_install", "Scheduling", "Install", JM!Both)
      /\ R(6) = JM!Rule("complete", "Install", "Complete", JM!Both)
      /\ R(7) = JM!Rule("hold", "Measure", "Hold", JM!Both)
      /\ R(8) = JM!Rule("hold", "Sign-off", "Hold", JM!Both)
      /\ R(9) = JM!Rule("hold", "Manufacturing", "Hold", JM!Both)
      /\ R(10) = JM!Rule("hold", "Scheduling", "Hold", JM!Both)
      /\ R(11) = JM!Rule("resume", "Hold", "Measure", JM!Both)
      /\ R(12) = JM!Rule("cancel", "Won", "Cancelled", JM!Admin)
      /\ R(13) = JM!Rule("cancel", "Measure", "Cancelled", JM!Admin)
      /\ R(14) = JM!Rule("cancel", "Sign-off", "Cancelled", JM!Admin)
      /\ R(15) = JM!Rule("cancel", "Hold", "Cancelled", JM!Admin)
  BY DEF JM!Rules
<1>2. i \in {1, 2, 3, 4, 5, 6, 7, 8, 9, 10, 11, 12, 13, 14, 15}
  OBVIOUS
<1>3. CASE i = 1 BY <1>1, <1>3 DEF JM!Rule
<1>4. CASE i = 2 BY <1>1, <1>4 DEF JM!Rule, Way, Needed
<1>5. CASE i = 3 BY <1>1, <1>5 DEF JM!Rule, Way, Needed
<1>6. CASE i = 4 BY <1>1, <1>6 DEF JM!Rule, Way, Needed
<1>7. CASE i = 5 BY <1>1, <1>7 DEF JM!Rule, Way, Needed
<1>8. CASE i = 6 BY <1>1, <1>8 DEF JM!Rule, Way, Needed
<1>9. CASE i \in {7, 8, 9, 10} BY <1>1, <1>9 DEF JM!Rule, Way, Needed
<1>10. CASE i = 11 BY <1>1, <1>10 DEF JM!Rule
<1>11. CASE i \in {12, 13, 14, 15} BY <1>1, <1>11 DEF JM!Rule, Way
<1>12. QED
  BY <1>2, <1>3, <1>4, <1>5, <1>6, <1>7, <1>8, <1>9, <1>10, <1>11

LEMMA FirstRule == JM!Rules[1].from = "Won"
BY DEF JM!Rules, JM!Rule

\* With at least one row the initial state is Won.
LEMMA StatusWithRules ==
    ASSUME NEW r, NEW n \in 1..15
    PROVE  JM!StatusOf(r, n) = IF r.status = Null THEN "Won" ELSE r.status
<1>1. JM!Initial(n) = "Won"
  BY FirstRule DEF JM!Initial
<1>2. QED
  BY <1>1 DEF JM!StatusOf

LEMMA PatchedType ==
    ASSUME NEW r \in Row, NEW p \in Patches
    PROVE  JM!Patched(r, p) \in Row
<1>1. /\ p.set \subseteq JM!Gates
      /\ p.status \in JM!States \cup {Null, Keep}
  BY JobAssumption
<1>2. r.status \in JM!States \cup {Null} /\ r.paid \in SUBSET JM!Gates
  BY DEF Row
<1>3. QED
  BY <1>1, <1>2 DEF JM!Patched, Row

-----------------------------------------------------------------------------
(* What a step leaves alone *)

Arrive(c) ==
    \/ \E l \in Lambdas : ArriveAction(c, l)
    \/ \E l \in Lambdas, p \in Patches, role \in Roles : ArriveUpdate(c, l, p, role)

\* The steps of a request that is active already.
Serve(c) ==
    \/ \E a \in JM!Actions \cup {"submit"}, role \in Roles : Begin(c, a, role)
    \/ Gate(c) \/ Load(c) \/ Workflow(c) \/ LoadRules(c) \/ Decide(c)
    \/ Existing(c) \/ Update(c) \/ Log(c) \/ Commit(c) \/ MissLate(c) \/ StoreError(c)

LEMMA NextCases ==
    ASSUME [Next]_vars
    PROVE  \/ \E c \in Clients : Arrive(c) \/ Serve(c)
           \/ \E l \in Lambdas : Crash(l)
           \/ Seed
           \/ UNCHANGED vars
BY DEF Next, Arrive, Serve, Finished

LEMMA BlankType ==
    ASSUME NEW l \in Lambdas
    PROVE  /\ Blank("action", l) \in Request /\ Blank("update", l) \in Request
           /\ Blank("action", l).kind = "action" /\ Blank("update", l).kind = "update"
           /\ Blank("action", l).lambda = l /\ Blank("update", l).lambda = l
<1>1. (CHOOSE p \in Patches : TRUE) \in Patches
  BY JobAssumption
<1>2. QED
  BY <1>1 DEF Blank, Request, Roles

LEMMA SomeLambda == (CHOOSE l \in Lambdas : TRUE) \in Lambdas
BY JobAssumption

LEMMA NoRowType == NoRow \in Row
BY DEF NoRow, Row

\* The end of a request, component by component.
LEMMA EndTypes ==
    ASSUME TypeOK, NEW c \in Clients, NEW code \in Codes, End(c, code)
    PROVE  /\ req' \in [Clients -> Request] /\ pc' \in [Clients -> PC]
           /\ mem' \in [Clients -> Row] /\ rule' \in [Clients -> 0..15]
           /\ resp' \in [Clients -> Codes]
           /\ conn' \in [Lambdas -> Clients \cup {NoClient}]
           /\ updates' \in Nat
<1>1. req' \in [Clients -> Request]
  BY BlankType, SomeLambda DEF TypeOK, End
<1>2. pc' \in [Clients -> PC]
  BY DEF TypeOK, End, Goto, PC
<1>3. mem' \in [Clients -> Row]
  BY NoRowType DEF TypeOK, End
<1>4. rule' \in [Clients -> 0..15]
  BY RuleCount DEF TypeOK, End, NoRule
<1>5. resp' \in [Clients -> Codes] /\ updates' \in Nat
  BY DEF TypeOK, End
<1>6. conn' \in [Lambdas -> Clients \cup {NoClient}]
  BY DEF TypeOK, End
<1>7. QED
  BY <1>1, <1>2, <1>3, <1>4, <1>5, <1>6

\* ... and point by point.
LEMMA EndPoints ==
    ASSUME TypeOK, NEW c \in Clients, NEW code, End(c, code)
    PROVE  /\ pc'[c] = "idle"
           /\ \A b \in Clients \ {c} : /\ pc'[b] = pc[b] /\ req'[b] = req[b]
                                       /\ mem'[b] = mem[b] /\ rule'[b] = rule[b]
           /\ \A l \in Lambdas : conn[l] # c => conn'[l] = conn[l]
BY DEF TypeOK, End, Goto

\* find() searches the rows of the definition.
LEMMA FoundIsRule ==
    ASSUME TypeOK, KindInv, NEW c \in Clients, pc[c] = "decide", NEW i \in Found(c)
    PROVE  /\ i \in 1..15 /\ Def(c) \in 1..15 /\ i <= Def(c)
           /\ JM!Rules[i].from = JM!StatusOf(mem[c], Def(c))
<1>1. Def(c) # Unloaded
  BY DEF KindInv, Kind
<1>2. Def(c) \in {Unloaded} \cup 0..15
  <2>1. Lambda(c) \in Lambdas
    BY DEF TypeOK, Lambda, Request
  <2>2. QED
    BY <2>1, RuleCount DEF TypeOK, Def
<1>3. i \in 1..Def(c) /\ JM!Rules[i].from = JM!StatusOf(mem[c], Def(c))
  BY DEF Found
<1>4. QED
  BY <1>1, <1>2, <1>3

LEMMA AskType ==
    ASSUME NEW r \in Request, NEW p \in Patches, NEW role \in Roles
    PROVE  [r EXCEPT !.patch = p, !.role = role] \in Request
BY DEF Request

LEMMA NullOffWay == Null \notin Way /\ "Won" \notin Way
<1>1. Way \subseteq JM!States
  <2> DEFINE R(j) == JM!Rules[j]
  <2>1. /\ R(1).to = "Measure" /\ R(2).to = "Sign-off" /\ R(3).to = "Manufacturing"
        /\ R(4).to = "Scheduling" /\ R(5).to = "Install" /\ R(6).to = "Complete"
        /\ R(7).to = "Hold"
    BY DEF JM!Rules, JM!Rule
  <2>2. \A j \in 1..15 : R(j).to \in JM!States
    BY RuleTypes
  <2>3. {1, 2, 3, 4, 5, 6, 7} \subseteq 1..15
    OBVIOUS
  <2>4. QED
    BY <2>1, <2>2, <2>3 DEF Way
<1>2. QED
  BY <1>1, JobAssumption DEF Way

-----------------------------------------------------------------------------
(* Types *)

KindsInv == TypeOK /\ KindInv /\ DefInv

LEMMA TypeInit == Init => KindsInv
<1> SUFFICES ASSUME Init PROVE KindsInv
  OBVIOUS
<1>1. TypeOK
  <2>1. row \in Row /\ hooks \in BOOLEAN
    BY DEF Init, Row, JM!States, JM!Rules, JM!Rule
  <2>2. log \in Seq(Entry)
    BY DEF Init
  <2>3. table \in JM!NoWorkflow..Len(JM!Rules)
    BY RuleCount DEF Init, JM!NoWorkflow
  <2>4. /\ def \in [Lambdas -> {Unloaded} \cup 0..Len(JM!Rules)]
        /\ pc \in [Clients -> PC] /\ resp \in [Clients -> Codes]
        /\ conn \in [Lambdas -> Clients \cup {NoClient}]
        /\ updates \in Nat /\ faults \in Nat
    BY DEF Init, PC, Codes
  <2>5. req \in [Clients -> Request]
    BY BlankType, SomeLambda DEF Init
  <2>6. mem \in [Clients -> Row] /\ rule \in [Clients -> 0..Len(JM!Rules)]
    BY NoRowType, RuleCount DEF Init, NoRule
  <2>7. QED
    BY <2>1, <2>2, <2>3, <2>4, <2>5, <2>6 DEF TypeOK
<1>2. KindInv
  BY DEF Init, KindInv, Kind, Decided
<1>3. DefInv
  BY DEF Init, DefInv
<1>4. QED
  BY <1>1, <1>2, <1>3 DEF KindsInv

LEMMA ArriveTypes ==
    ASSUME TypeOK, NEW c \in Clients, Arrive(c)
    PROVE  TypeOK'
<1>1. req' \in [Clients -> Request] /\ pc' \in [Clients -> PC]
  <2>1. CASE \E l \in Lambdas : ArriveAction(c, l)
    BY <2>1, BlankType DEF TypeOK, ArriveAction, Goto, PC
  <2>2. ASSUME NEW l \in Lambdas, NEW p \in Patches, NEW role \in Roles,
               ArriveUpdate(c, l, p, role)
        PROVE  req' \in [Clients -> Request] /\ pc' \in [Clients -> PC]
    <3>1. [Blank("update", l) EXCEPT !.patch = p, !.role = role] \in Request
      BY BlankType, AskType
    <3>2. QED
      BY <2>2, <3>1 DEF TypeOK, ArriveUpdate, Goto, PC
  <2>3. QED
    BY <2>1, <2>2 DEF Arrive
<1>2. resp' \in [Clients -> Codes] /\ updates' \in Nat /\ faults' \in Nat
  <2>1. resp' = [resp EXCEPT ![c] = 0] /\ faults' = faults
    BY DEF Arrive, ArriveAction, ArriveUpdate
  <2>2. updates' = updates \/ updates' = updates + 1
    BY DEF Arrive, ArriveAction, ArriveUpdate
  <2>3. QED
    BY <2>1, <2>2 DEF TypeOK, Codes
<1>3. UNCHANGED <<row, log, table, hooks, def, mem, rule, conn>>
  BY DEF Arrive, ArriveAction, ArriveUpdate, machine
<1>4. QED
  BY <1>1, <1>2, <1>3 DEF TypeOK

\* The commit writes a row and an audit row.
LEMMA CommitWrites ==
    ASSUME TypeOK, KindInv, NEW c \in Clients, pc[c] = "commit",
           row' = mem[c], log' = Append(log, JM!Entry(rule[c], row.paid))
    PROVE  /\ row' \in Row
           /\ log' \in Seq(Entry)
<1>1. rule[c] \in 1..15
  <2>1. rule[c] \in 0..15
    BY RuleCount DEF TypeOK
  <2>2. rule[c] # 0
    BY DEF KindInv, Kind, Decided, NoRule
  <2>3. QED
    BY <2>1, <2>2
<1>2. row' \in Row
  BY DEF TypeOK
<1>3. log \in Seq(Entry)
  BY DEF TypeOK
<1>4. JM!Entry(rule[c], row.paid) \in Entry
  BY <1>1, EntryType DEF TypeOK, Row
<1>5. QED
  BY <1>2, <1>3, <1>4, AppendProperties

LEMMA RejectTypes ==
    ASSUME TypeOK, NEW c \in Clients, NEW code \in Codes, Reject(c, code), faults' \in Nat
    PROVE  TypeOK'
<1>1. UNCHANGED <<row, log, table, hooks, def>> /\ End(c, code)
  BY DEF Reject, machine
<1>2. QED
  BY <1>1, EndTypes, RuleCount DEF TypeOK

LEMMA CommitTypes ==
    ASSUME TypeOK, KindInv, NEW c \in Clients, NEW code \in Codes, pc[c] = "commit",
           row' = mem[c], log' = Append(log, JM!Entry(rule[c], row.paid)),
           End(c, code), UNCHANGED <<table, hooks, def>>, faults' \in Nat
    PROVE  TypeOK'
<1>1. /\ row' \in Row
      /\ log' \in Seq(Entry)
  BY CommitWrites
<1>2. /\ req' \in [Clients -> Request] /\ pc' \in [Clients -> PC]
      /\ mem' \in [Clients -> Row] /\ rule' \in [Clients -> 0..15]
      /\ resp' \in [Clients -> Codes]
      /\ conn' \in [Lambdas -> Clients \cup {NoClient}]
      /\ updates' \in Nat
  BY EndTypes
<1>3. QED
  BY <1>1, <1>2, RuleCount DEF TypeOK

LEMMA FaultsNat == TypeOK /\ UNCHANGED faults => faults' \in Nat
BY DEF TypeOK

LEMMA ServeTypes ==
    ASSUME TypeOK, KindInv, NEW c \in Clients, Serve(c)
    PROVE  TypeOK'
<1>0. {200, 400, 403, 404, 409, 500} \subseteq Codes
  BY DEF Codes
<1>1. ASSUME NEW a \in JM!Actions \cup {"submit"}, NEW role \in Roles, Begin(c, a, role)
      PROVE  TypeOK'
  <2>1. [req[c] EXCEPT !.action = a, !.role = role] \in Request
    BY DEF TypeOK, Request
  <2>2. req' \in [Clients -> Request]
    BY <1>1, <2>1 DEF TypeOK, Begin
  <2>3. Lambda(c) \in Lambdas
    BY DEF TypeOK, Lambda, Request
  <2>4. conn' \in [Lambdas -> Clients \cup {NoClient}] /\ pc' \in [Clients -> PC]
    BY <1>1, <2>3 DEF TypeOK, Begin, Goto, PC
  <2>5. UNCHANGED <<row, log, table, hooks, def, mem, rule, resp, updates, faults>>
    BY <1>1 DEF Begin, machine
  <2>6. QED
    BY <2>2, <2>4, <2>5 DEF TypeOK
<1>2. CASE Gate(c)
  <2>1. CASE Reject(c, 403) /\ UNCHANGED faults
    BY <2>1, <1>0, FaultsNat, RejectTypes
  <2>2. CASE /\ Goto(c, "load")
             /\ UNCHANGED <<machine, def, req, mem, rule, resp, conn, updates, faults>>
    BY <2>2 DEF TypeOK, Goto, machine, PC
  <2>3. QED
    BY <1>2, <2>1, <2>2 DEF Gate
<1>3. CASE Load(c)
  <2>1. (IF IsTx(c) THEN row ELSE JM!Patched(row, req[c].patch)) \in Row
    <3>1. row \in Row /\ req[c].patch \in Patches
      BY DEF TypeOK, Request
    <3>2. QED
      BY <3>1, PatchedType
  <2>2. CASE Reject(c, 404) /\ UNCHANGED faults
    BY <2>2, <1>0, FaultsNat, RejectTypes
  <2>3. CASE ~(Reject(c, 404) /\ UNCHANGED faults)
    <3>1. mem' \in [Clients -> Row] /\ pc' \in [Clients -> PC]
      BY <1>3, <2>1, <2>3 DEF TypeOK, Load, Goto, PC
    <3>2. UNCHANGED <<row, log, table, hooks, def, rule, req, resp, conn, updates, faults>>
      BY <1>3, <2>3 DEF Load, machine
    <3>3. QED
      BY <3>1, <3>2 DEF TypeOK
  <2>4. QED
    BY <2>2, <2>3
<1>4. CASE Workflow(c)
  <2>1. CASE Reject(c, 409) /\ UNCHANGED faults
    BY <2>1, <1>0, FaultsNat, RejectTypes
  <2>2. CASE ~(Reject(c, 409) /\ UNCHANGED faults)
    <3>1. pc' \in [Clients -> PC]
      BY <1>4, <2>2 DEF Workflow, TypeOK, Goto, PC
    <3>2. UNCHANGED <<row, log, table, hooks, def, mem, rule, req, resp, conn, updates,
                      faults>>
      BY <1>4, <2>2 DEF Workflow, Stay, machine
    <3>3. QED
      BY <3>1, <3>2 DEF TypeOK
  <2>3. QED
    BY <2>1, <2>2
<1>5. CASE LoadRules(c)
  <2>1. table \in 0..15
    <3>1. table \in -1..15
      BY RuleCount DEF TypeOK, JM!NoWorkflow
    <3>2. table # -1
      BY <1>5 DEF LoadRules, KindInv, Kind, JM!NoWorkflow
    <3>3. QED
      BY <3>1, <3>2
  <2>2. def' \in [Lambdas -> {Unloaded} \cup 0..Len(JM!Rules)] /\ pc' \in [Clients -> PC]
    BY <1>5, <2>1, RuleCount DEF TypeOK, LoadRules, Goto, PC
  <2>3. UNCHANGED <<row, log, table, hooks, mem, rule, req, resp, conn, updates, faults>>
    BY <1>5 DEF LoadRules, Stay, machine
  <2>4. QED
    BY <2>2, <2>3 DEF TypeOK
<1>6. CASE Decide(c)
  <2>0. faults' \in Nat
    BY <1>6 DEF Decide, TypeOK
  <2>1. CASE Reject(c, 409) \/ Reject(c, 403)
    <3>1. CASE Reject(c, 409)
      BY <2>0, <3>1, <1>0, RejectTypes
    <3>2. CASE Reject(c, 403)
      BY <2>0, <3>2, <1>0, RejectTypes
    <3>3. QED
      BY <2>1, <3>1, <3>2
  <2>2. ASSUME NEW i \in Found(c),
               mem' = [mem EXCEPT ![c] = [status |-> JM!Rules[i].to, paid |-> mem[c].paid]],
               rule' = [rule EXCEPT ![c] = i], Goto(c, "existing"),
               UNCHANGED <<machine, def, req, resp, conn, updates, faults>>
        PROVE  TypeOK'
    <3>1. i \in 1..15
      BY <1>6, FoundIsRule DEF Decide
    <3>2. [status |-> JM!Rules[i].to, paid |-> mem[c].paid] \in Row
      BY <3>1, RuleTypes DEF TypeOK, Row
    <3>3. /\ mem' \in [Clients -> Row] /\ rule' \in [Clients -> 0..Len(JM!Rules)]
          /\ pc' \in [Clients -> PC]
      BY <2>2, <3>1, <3>2, RuleCount DEF TypeOK, Goto, PC
    <3>4. QED
      BY <2>2, <3>3 DEF TypeOK, machine
  <2>3. QED
    BY <1>6, <2>1, <2>2 DEF Decide
<1>7. CASE Existing(c)
  <2>1. CASE Reject(c, 400) /\ UNCHANGED faults
    BY <2>1, <1>0, FaultsNat, RejectTypes
  <2>2. CASE /\ Goto(c, "update")
             /\ UNCHANGED <<machine, def, req, mem, rule, resp, conn, updates, faults>>
    BY <2>2 DEF TypeOK, Goto, machine, PC
  <2>3. QED
    BY <1>7, <2>1, <2>2 DEF Existing
<1>8. CASE Update(c)
  <2>1. CASE IsTx(c)
    BY <1>8, <2>1 DEF Update, TypeOK, Goto, machine, PC
  <2>2. CASE ~IsTx(c)
    <3>1. PICK code \in {200, 404} :
             End(c, code) /\ row' = mem[c] /\ UNCHANGED <<log, table, hooks, def, faults>>
      BY <1>8, <2>2 DEF Update
    <3>2. row' \in Row
      BY <3>1 DEF TypeOK
    <3>3. QED
      BY <1>0, <3>1, <3>2, EndTypes, RuleCount DEF TypeOK
  <2>3. QED
    BY <2>1, <2>2
<1>9. CASE Log(c)
  BY <1>9 DEF Log, TypeOK, Goto, Stay, machine, PC
<1>10. CASE Commit(c)
  <2>1. pc[c] = "commit" /\ row' = mem[c] /\ log' = Append(log, JM!Entry(rule[c], row.paid))
    BY <1>10 DEF Commit
  <2>2. End(c, 200) /\ UNCHANGED <<table, hooks, def, faults>>
    BY <1>10 DEF Commit
  <2>3. QED
    BY <1>0, <2>1, <2>2, FaultsNat, CommitTypes
<1>11. CASE StoreError(c)
  <2>1. faults' \in Nat
    BY <1>11 DEF StoreError, TypeOK
  <2>2. CASE Reject(c, 500)
    BY <2>1, <2>2, <1>0, RejectTypes
  <2>3. CASE ~Reject(c, 500)
    <3>1. /\ pc[c] = "commit" /\ row' = mem[c]
          /\ log' = Append(log, JM!Entry(rule[c], row.paid))
      BY <1>11, <2>3 DEF StoreError
    <3>2. End(c, 500) /\ UNCHANGED <<table, hooks, def>>
      BY <1>11, <2>3 DEF StoreError
    <3>3. QED
      BY <1>0, <2>1, <3>1, <3>2, CommitTypes
  <2>4. QED
    BY <2>2, <2>3
<1>12. CASE MissLate(c)
  BY <1>0, <1>12, FaultsNat, RejectTypes DEF MissLate
<1>13. QED
  BY <1>1, <1>2, <1>3, <1>4, <1>5, <1>6, <1>7, <1>8, <1>9, <1>10, <1>11, <1>12 DEF Serve

LEMMA CrashTypes ==
    ASSUME TypeOK, NEW l \in Lambdas, Crash(l)
    PROVE  TypeOK'
<1>1. /\ def' \in [Lambdas -> {Unloaded} \cup 0..Len(JM!Rules)]
      /\ conn' \in [Lambdas -> Clients \cup {NoClient}]
  BY DEF TypeOK, Crash
<1>2. pc' \in [Clients -> PC] /\ resp' \in [Clients -> Codes]
  BY DEF TypeOK, Crash, PC, Codes
<1>3. mem' \in [Clients -> Row] /\ rule' \in [Clients -> 0..Len(JM!Rules)]
  BY NoRowType, RuleCount DEF TypeOK, Crash, NoRule
<1>4. req' \in [Clients -> Request]
  BY BlankType, SomeLambda DEF TypeOK, Crash
<1>5. UNCHANGED <<row, log, table, hooks, updates>> /\ faults' \in Nat
  BY DEF TypeOK, Crash, machine
<1>6. QED
  BY <1>1, <1>2, <1>3, <1>4, <1>5 DEF TypeOK

LEMMA SeedTable ==
    ASSUME TypeOK, Seed
    PROVE  /\ table \in -1..15 /\ table' \in 0..15 /\ table < table'
           /\ UNCHANGED <<row, log, hooks, def, req, pc, mem, rule, resp, conn, updates,
                          faults>>
<1>1. table \in -1..15
  BY RuleCount DEF TypeOK, JM!NoWorkflow
<1>2. table' \in 0..15 /\ table < table'
  BY <1>1, RuleCount, JobAssumption DEF Seed
<1>3. QED
  BY <1>1, <1>2 DEF Seed

LEMMA SeedTypes ==
    ASSUME TypeOK, Seed
    PROVE  TypeOK'
<1>1. UNCHANGED <<row, log, hooks, def, req, pc, mem, rule, resp, conn, updates, faults>>
  BY SeedTable
<1>2. table' \in JM!NoWorkflow..Len(JM!Rules)
  BY SeedTable, RuleCount DEF JM!NoWorkflow
<1>3. QED
  BY <1>1, <1>2 DEF TypeOK

-----------------------------------------------------------------------------
(* The step of a client *)

\* A step leaves the other clients' requests alone, and the connections it does not use.
LEMMA Others ==
    ASSUME TypeOK, NEW c \in Clients, Arrive(c) \/ Serve(c)
    PROVE  /\ \A b \in Clients \ {c} : /\ pc'[b] = pc[b] /\ req'[b] = req[b]
                                       /\ mem'[b] = mem[b] /\ rule'[b] = rule[b]
           /\ \A l \in Lambdas : conn[l] \notin {c, NoClient} => conn'[l] = conn[l]
<1> DEFINE Kept == /\ \A b \in Clients \ {c} : /\ pc'[b] = pc[b] /\ req'[b] = req[b]
                                               /\ mem'[b] = mem[b] /\ rule'[b] = rule[b]
                   /\ \A l \in Lambdas : conn[l] \notin {c, NoClient} => conn'[l] = conn[l]
<1>1. CASE Arrive(c)
  BY <1>1 DEF Arrive, ArriveAction, ArriveUpdate, Goto, TypeOK
<1>2. ASSUME NEW code, End(c, code) PROVE Kept
  BY <1>2, EndPoints
<1>3. ASSUME NEW code, Reject(c, code) PROVE Kept
  BY <1>2, <1>3 DEF Reject
<1>4. CASE \E a \in JM!Actions \cup {"submit"}, role \in Roles : Begin(c, a, role)
  BY <1>4 DEF Begin, Goto, TypeOK
<1>5. CASE Gate(c)
  <2>1. CASE Reject(c, 403)
    BY <2>1, <1>3
  <2>2. CASE ~Reject(c, 403)
    BY <1>5, <2>2 DEF Gate, Goto, TypeOK
  <2>3. QED
    BY <2>1, <2>2
<1>6. CASE Load(c)
  <2>1. CASE Reject(c, 404)
    BY <2>1, <1>3
  <2>2. CASE ~Reject(c, 404)
    BY <1>6, <2>2 DEF Load, Goto, TypeOK
  <2>3. QED
    BY <2>1, <2>2
<1>7. CASE Workflow(c)
  <2>1. CASE Reject(c, 409)
    BY <2>1, <1>3
  <2>2. CASE ~Reject(c, 409)
    BY <1>7, <2>2 DEF Workflow, Goto, Stay, TypeOK
  <2>3. QED
    BY <2>1, <2>2
<1>8. CASE LoadRules(c)
  BY <1>8 DEF LoadRules, Goto, Stay, TypeOK
<1>9. CASE Decide(c)
  <2>1. CASE Reject(c, 409)
    BY <2>1, <1>3
  <2>2. CASE Reject(c, 403)
    BY <2>2, <1>3
  <2>3. CASE ~Reject(c, 409) /\ ~Reject(c, 403)
    BY <1>9, <2>3 DEF Decide, Goto, TypeOK
  <2>4. QED
    BY <2>1, <2>2, <2>3
<1>10. CASE Existing(c)
  <2>1. CASE Reject(c, 400)
    BY <2>1, <1>3
  <2>2. CASE ~Reject(c, 400)
    BY <1>10, <2>2 DEF Existing, Goto, TypeOK
  <2>3. QED
    BY <2>1, <2>2
<1>11. CASE Update(c)
  <2>1. CASE \E code : End(c, code)
    BY <2>1, <1>2
  <2>2. CASE ~\E code : End(c, code)
    BY <1>11, <2>2 DEF Update, Goto, TypeOK
  <2>3. QED
    BY <2>1, <2>2
<1>12. CASE Log(c)
  BY <1>12 DEF Log, Goto, Stay, TypeOK
<1>13. CASE Commit(c)
  BY <1>13, <1>2 DEF Commit
<1>14. CASE StoreError(c) \/ MissLate(c)
  BY <1>14, <1>2, <1>3 DEF StoreError, MissLate
<1>15. QED
  BY <1>1, <1>4, <1>5, <1>6, <1>7, <1>8, <1>9, <1>10, <1>11, <1>12, <1>13, <1>14
     DEF Serve

\* Where a step takes the request of its client.
Went(c, from, to) == pc[c] = from /\ pc'[c] = to
Same(c) ==
    /\ req'[c].kind = req[c].kind /\ req'[c].lambda = req[c].lambda
    /\ req'[c].patch = req[c].patch

Fetched(c) == Went(c, "load", "workflow") /\ IsTx(c) /\ mem'[c] = row
Merged(c) ==
    /\ Went(c, "load", "existing") /\ ~IsTx(c)
    /\ mem'[c] = JM!Patched(row, req[c].patch)
Chose(c) ==
    \E i \in Found(c) :
        /\ Went(c, "decide", "existing") /\ rule'[c] = i
        /\ mem'[c] = [status |-> JM!Rules[i].to, paid |-> mem[c].paid]
        /\ GateMet(c, i)
Walked(c) ==
    /\ \/ Went(c, "gate", "load")
       \/ Went(c, "workflow", "decide") /\ Def(c) # Unloaded
       \/ Went(c, "workflow", "rules") /\ table # JM!NoWorkflow
       \/ Went(c, "rules", "decide") /\ def' = [def EXCEPT ![Lambda(c)] = table]
       \/ Went(c, "existing", "update")
       \/ Went(c, "update", "log") /\ IsTx(c)
       \/ Went(c, "log", "commit")
    /\ mem'[c] = mem[c]

\* A step of a request within its pipeline: nothing is stored, nothing let go.
Within(c) ==
    /\ Same(c) /\ UNCHANGED <<row, log, table, hooks, conn>>
    /\ (UNCHANGED def \/ Went(c, "rules", "decide"))
    /\ \/ Fetched(c) /\ rule'[c] = rule[c]
       \/ Merged(c) /\ rule'[c] = rule[c]
       \/ Chose(c)
       \/ Walked(c) /\ rule'[c] = rule[c]

\* ... that takes the connection, and that ends with or without something stored.
Took(c) ==
    /\ Same(c) /\ UNCHANGED <<row, log, table, hooks, def>>
    /\ Went(c, "queued", "gate")
    /\ conn[Lambda(c)] = NoClient /\ conn' = [conn EXCEPT ![Lambda(c)] = c]

Stored(c) ==
    \/ /\ pc[c] = "update" /\ ~IsTx(c)
       /\ row' = mem[c] /\ UNCHANGED <<log, table, hooks, def>>
    \/ /\ pc[c] = "commit"
       /\ row' = mem[c] /\ log' = Append(log, JM!Entry(rule[c], row.paid))
       /\ UNCHANGED <<table, hooks, def>>

Ended(c) ==
    /\ pc'[c] = "idle" /\ AtWork(c)
    /\ \/ Stored(c)
       \/ UNCHANGED <<row, log, table, hooks, def>>

LEMMA ServeSteps ==
    ASSUME TypeOK, NEW c \in Clients, Serve(c)
    PROVE  Took(c) \/ Within(c) \/ Ended(c)
<1>0. Lambda(c) \in Lambdas
  BY DEF TypeOK, Lambda, Request
<1>1. ASSUME NEW a \in JM!Actions \cup {"submit"}, NEW role \in Roles, Begin(c, a, role)
      PROVE  Took(c)
  <2>1. pc'[c] = "gate"
    BY <1>1 DEF Begin, Goto, TypeOK
  <2>2. Same(c)
    <3>1. req[c] \in Request /\ req'[c] = [req[c] EXCEPT !.action = a, !.role = role]
      BY <1>1 DEF Begin, TypeOK
    <3>2. QED
      BY <3>1 DEF Same, Request
  <2>3. QED
    BY <1>1, <2>1, <2>2 DEF Begin, Took, Went, machine
<1>2. ASSUME NEW code, Reject(c, code), AtWork(c) PROVE Ended(c)
  BY <1>2, EndPoints DEF Reject, Ended, machine
<1>3. ASSUME NEW code, End(c, code), Stored(c), AtWork(c) PROVE Ended(c)
  BY <1>3, EndPoints DEF Ended
<1> DEFINE Still == UNCHANGED <<row, log, table, hooks, conn>> /\ Same(c)
<1>4. CASE Gate(c)
  <2>1. CASE Reject(c, 403)
    BY <1>4, <2>1, <1>2 DEF Gate, AtWork
  <2>2. CASE ~Reject(c, 403)
    BY <1>4, <2>2 DEF Gate, Goto, TypeOK, Within, Walked, Went, Same, machine
  <2>3. QED
    BY <2>1, <2>2
<1>5. CASE Load(c)
  <2>1. CASE Reject(c, 404)
    BY <1>5, <2>1, <1>2 DEF Load, AtWork
  <2>2. CASE ~Reject(c, 404)
    <3>1. Still /\ UNCHANGED def /\ rule'[c] = rule[c]
      BY <1>5, <2>2 DEF Load, Same, machine
    <3>2. Fetched(c) \/ Merged(c)
      BY <1>5, <2>2 DEF Load, Goto, TypeOK, Fetched, Merged, Went
    <3>3. QED
      BY <3>1, <3>2 DEF Within
  <2>3. QED
    BY <2>1, <2>2
<1>6. CASE Workflow(c)
  <2>1. CASE Reject(c, 409)
    BY <1>6, <2>1, <1>2 DEF Workflow, AtWork
  <2>2. CASE ~Reject(c, 409)
    BY <1>6, <2>2 DEF Workflow, Goto, Stay, TypeOK, Within, Walked, Went, Same, machine
  <2>3. QED
    BY <2>1, <2>2
<1>7. CASE LoadRules(c)
  BY <1>7 DEF LoadRules, Goto, Stay, TypeOK, Within, Walked, Went, Same, machine
<1>8. CASE Decide(c)
  <2>1. CASE Reject(c, 409)
    BY <1>8, <2>1, <1>2 DEF Decide, AtWork
  <2>2. CASE Reject(c, 403)
    BY <1>8, <2>2, <1>2 DEF Decide, AtWork
  <2>3. CASE ~Reject(c, 409) /\ ~Reject(c, 403)
    <3>1. PICK i \in Found(c) :
             /\ Allowed(c, i) /\ GateMet(c, i)
             /\ mem' = [mem EXCEPT ![c] = [status |-> JM!Rules[i].to,
                                           paid |-> mem[c].paid]]
             /\ rule' = [rule EXCEPT ![c] = i]
             /\ Goto(c, "existing")
             /\ UNCHANGED <<machine, def, req, resp, conn, updates>>
      BY <1>8, <2>3 DEF Decide
    <3>2. pc[c] = "decide"
      BY <1>8 DEF Decide
    <3>3. Chose(c)
      BY <3>1, <3>2 DEF TypeOK, Goto, Chose, Went
    <3>4. Still /\ UNCHANGED def
      BY <3>1 DEF Same, machine
    <3>5. QED
      BY <3>3, <3>4 DEF Within
  <2>4. QED
    BY <2>1, <2>2, <2>3
<1>9. CASE Existing(c)
  <2>1. CASE Reject(c, 400)
    BY <1>9, <2>1, <1>2 DEF Existing, AtWork
  <2>2. CASE ~Reject(c, 400)
    BY <1>9, <2>2 DEF Existing, Goto, TypeOK, Within, Walked, Went, Same, machine
  <2>3. QED
    BY <2>1, <2>2
<1>10. CASE Update(c)
  <2>1. CASE ~IsTx(c)
    BY <1>10, <2>1, <1>3 DEF Update, AtWork, Stored
  <2>2. CASE IsTx(c)
    BY <1>10, <2>2 DEF Update, Goto, TypeOK, Within, Walked, Went, Same, machine
  <2>3. QED
    BY <2>1, <2>2
<1>11. CASE Log(c)
  BY <1>11 DEF Log, Goto, Stay, TypeOK, Within, Walked, Went, Same, machine
<1>12. CASE Commit(c)
  BY <1>12, <1>3 DEF Commit, AtWork, Stored
<1>13. CASE StoreError(c)
  <2>1. AtWork(c)
    BY <1>13 DEF StoreError, AtWork
  <2>2. CASE Reject(c, 500)
    BY <2>1, <2>2, <1>2
  <2>3. CASE ~Reject(c, 500)
    <3>1. End(c, 500) /\ Stored(c)
      BY <1>13, <2>3 DEF StoreError, Stored
    <3>2. QED
      BY <2>1, <3>1, <1>3
  <2>4. QED
    BY <2>2, <2>3
<1>14. CASE MissLate(c)
  BY <1>14, <1>2 DEF MissLate, AtWork
<1>15. QED
  BY <1>1, <1>4, <1>5, <1>6, <1>7, <1>8, <1>9, <1>10, <1>11, <1>12, <1>13, <1>14 DEF Serve

-----------------------------------------------------------------------------
(* Types, and what kind of request is where *)

\* The rows a definition is loaded from are there.
LEMMA RulesTable ==
    ASSUME TypeOK, KindInv, NEW c \in Clients, pc[c] = "rules"
    PROVE  table \in 0..15 /\ table # Unloaded
<1>1. table \in -1..15 /\ table # -1
  BY RuleCount DEF TypeOK, KindInv, Kind, JM!NoWorkflow
<1>2. QED
  BY <1>1, JobAssumption

\* No definition is dropped while its lambda lives.
LEMMA DefKept ==
    ASSUME TypeOK, KindInv, NEW c \in Clients, Serve(c)
    PROVE  \A l \in Lambdas : def'[l] = def[l] \/ (def'[l] = table /\ table # Unloaded)
<1>1. CASE UNCHANGED def
  BY <1>1
<1>2. CASE Went(c, "rules", "decide") /\ def' = [def EXCEPT ![Lambda(c)] = table]
  BY <1>2, RulesTable DEF Went, TypeOK
<1>3. QED
  <2>1. Took(c) \/ Within(c) \/ Ended(c)
    BY ServeSteps
  <2>2. UNCHANGED def \/ (Went(c, "rules", "decide") /\ Within(c))
    BY <2>1 DEF Took, Within, Ended, Stored
  <2>3. ASSUME Went(c, "rules", "decide"), Within(c)
        PROVE  def' = [def EXCEPT ![Lambda(c)] = table]
    BY <2>3 DEF Within, Went, Fetched, Merged, Chose, Walked
  <2>4. QED
    BY <1>1, <1>2, <2>2, <2>3

LEMMA ServeKinds ==
    ASSUME TypeOK, KindInv, NEW c \in Clients, Serve(c)
    PROVE  KindInv'
<1>1. Took(c) \/ Within(c) \/ Ended(c)
  BY ServeSteps
<1>2. /\ \A b \in Clients \ {c} : /\ pc'[b] = pc[b] /\ req'[b] = req[b]
                                  /\ mem'[b] = mem[b] /\ rule'[b] = rule[b]
  BY Others
<1>3. table' = table
  BY <1>1 DEF Took, Within, Ended, Stored
<1>4. ASSUME NEW b \in Clients \ {c} PROVE Kind(b)'
  <2>1. Kind(b)
    BY DEF KindInv, Kind
  <2>2. pc'[b] = pc[b] /\ req'[b] = req[b] /\ rule'[b] = rule[b]
    BY <1>2
  <2>3. Lambda(b) \in Lambdas
    BY DEF TypeOK, Lambda, Request
  <2>4. Def(b) # Unloaded => Def(b)' # Unloaded
    BY <2>2, <2>3, DefKept DEF Def, Lambda
  <2>5. QED
    BY <1>3, <2>1, <2>2, <2>4 DEF Kind, IsTx, Decided
<1>5. Kind(c)'
  <2>0. Kind(c)
    BY DEF KindInv, Kind
  <2>1. CASE Took(c)
    BY <2>0, <2>1 DEF Kind, Took, Went, Decided
  <2>2. CASE Ended(c)
    BY <2>2 DEF Kind, Ended, Decided
  <2>3. CASE Within(c)
    <3>1. IsTx(c)' <=> IsTx(c)
      BY <2>3 DEF Within, Same, IsTx
    <3>2. CASE Fetched(c) \/ Merged(c)
      BY <2>0, <2>3, <3>1, <3>2 DEF Kind, Fetched, Merged, Went, Decided
    <3>3. CASE Chose(c)
      <4>1. PICK i \in Found(c) : Went(c, "decide", "existing") /\ rule'[c] = i
        BY <3>3 DEF Chose
      <4>2. i # NoRule
        BY <4>1, FoundIsRule DEF Went, NoRule
      <4>3. QED
        BY <2>0, <3>1, <4>1, <4>2 DEF Kind, Went, Decided
    <3>4. CASE Walked(c) /\ rule'[c] = rule[c]
      <4>1. CASE Went(c, "rules", "decide") /\ def' = [def EXCEPT ![Lambda(c)] = table]
        <5>1. Lambda(c) \in Lambdas /\ Lambda(c)' = Lambda(c)
          BY <2>3 DEF TypeOK, Lambda, Request, Within, Same
        <5>2. Def(c)' = table
          BY <4>1, <5>1 DEF TypeOK, Def
        <5>3. QED
          BY <2>0, <3>1, <4>1, <5>2, RulesTable DEF Kind, Went, Decided
      <4>2. CASE Went(c, "workflow", "decide") /\ Def(c) # Unloaded
        <5>1. Lambda(c)' = Lambda(c) /\ UNCHANGED def
          BY <2>3, <4>2 DEF Lambda, Within, Same, Went
        <5>2. QED
          BY <2>0, <3>1, <4>2, <5>1 DEF Kind, Went, Decided, Def
      <4>3. CASE Went(c, "workflow", "rules") /\ table # JM!NoWorkflow
        BY <1>3, <2>0, <3>1, <4>3 DEF Kind, Went, Decided
      <4>4. CASE \/ Went(c, "gate", "load")
                 \/ Went(c, "existing", "update")
                 \/ Went(c, "update", "log") /\ IsTx(c)
                 \/ Went(c, "log", "commit")
        BY <2>0, <3>1, <3>4, <4>4 DEF Kind, Went, Decided
      <4>5. QED
        BY <3>4, <4>1, <4>2, <4>3, <4>4 DEF Walked
    <3>5. QED
      BY <2>3, <3>2, <3>3, <3>4 DEF Within
  <2>4. QED
    BY <1>1, <2>1, <2>2, <2>3
<1>6. QED
  BY <1>4, <1>5 DEF KindInv, Kind

\* An arrival, point by point.
LEMMA ArrivePoints ==
    ASSUME TypeOK, NEW c \in Clients, Arrive(c)
    PROVE  /\ UNCHANGED <<row, log, table, hooks, def, mem, rule, conn>>
           /\ pc[c] = "idle"
           /\ \/ IsTx(c)' /\ pc'[c] = "queued"
              \/ ~IsTx(c)' /\ pc'[c] = "gate"
<1>1. UNCHANGED <<row, log, table, hooks, def, mem, rule, conn>> /\ pc[c] = "idle"
  BY DEF Arrive, ArriveAction, ArriveUpdate, machine
<1>2. CASE \E l \in Lambdas : ArriveAction(c, l)
  BY <1>1, <1>2, BlankType DEF ArriveAction, Goto, TypeOK, IsTx
<1>3. ASSUME NEW l \in Lambdas, NEW p \in Patches, NEW role \in Roles,
             ArriveUpdate(c, l, p, role)
      PROVE  ~IsTx(c)' /\ pc'[c] = "gate"
  <2>1. Blank("update", l) \in Request /\ Blank("update", l).kind = "update"
    BY BlankType
  <2>2. [Blank("update", l) EXCEPT !.patch = p, !.role = role].kind = "update"
    BY <2>1 DEF Request
  <2>3. req'[c].kind = "update"
    BY <1>3, <2>2 DEF ArriveUpdate, TypeOK
  <2>4. QED
    BY <1>3, <2>3 DEF ArriveUpdate, Goto, TypeOK, IsTx
<1>4. QED
  BY <1>1, <1>2, <1>3 DEF Arrive

LEMMA ArriveKinds ==
    ASSUME TypeOK, KindInv, NEW c \in Clients, Arrive(c)
    PROVE  KindInv'
<1>1. \A b \in Clients \ {c} : /\ pc'[b] = pc[b] /\ req'[b] = req[b]
                               /\ mem'[b] = mem[b] /\ rule'[b] = rule[b]
  BY Others
<1>2. UNCHANGED <<table, hooks, def>>
  BY ArrivePoints
<1>3. QED
  BY <1>1, <1>2, ArrivePoints DEF KindInv, Kind, IsTx, Decided, Def, Lambda

\* A crash, client by client.
LEMMA CrashPoints ==
    ASSUME TypeOK, NEW l \in Lambdas, Crash(l)
    PROVE  /\ UNCHANGED <<row, log, table, hooks>>
           /\ \A b \in Clients :
                 IF Active(b) /\ Lambda(b) = l
                 THEN pc'[b] = "idle"
                 ELSE /\ pc'[b] = pc[b] /\ req'[b] = req[b]
                      /\ mem'[b] = mem[b] /\ rule'[b] = rule[b]
           /\ \A k \in Lambdas \ {l} : def'[k] = def[k] /\ conn'[k] = conn[k]
           /\ def'[l] = Unloaded
BY DEF Crash, TypeOK, machine

LEMMA CrashKinds ==
    ASSUME TypeOK, KindInv, NEW l \in Lambdas, Crash(l)
    PROVE  KindInv'
<1>1. ASSUME NEW b \in Clients PROVE Kind(b)'
  <2>1. CASE Active(b) /\ Lambda(b) = l
    <3>1. pc'[b] = "idle"
      BY <2>1, CrashPoints
    <3>2. QED
      BY <3>1 DEF Kind, Decided
  <2>2. CASE ~(Active(b) /\ Lambda(b) = l)
    <3>1. pc'[b] = pc[b] /\ req'[b] = req[b] /\ rule'[b] = rule[b] /\ table' = table
      BY <2>2, CrashPoints
    <3>2. Active(b) => Def(b)' = Def(b)
      <4>1. Lambda(b) \in Lambdas
        BY DEF TypeOK, Lambda, Request
      <4>2. QED
        BY <2>2, <3>1, <4>1, CrashPoints DEF Def, Lambda
    <3>3. Kind(b)
      BY DEF KindInv, Kind
    <3>4. QED
      BY <3>1, <3>2, <3>3 DEF Kind, IsTx, Decided, Active
  <2>3. QED
    BY <2>1, <2>2
<1>2. QED
  BY <1>1 DEF KindInv, Kind

LEMMA SeedKinds ==
    ASSUME TypeOK, KindInv, DefInv, Seed
    PROVE  KindInv' /\ DefInv'
<1>1. KindInv'
  BY SeedTable DEF KindInv, Kind, IsTx, Decided, Def, Lambda, JM!NoWorkflow
<1>2. DefInv'
  BY SeedTable DEF DefInv
<1>3. QED
  BY <1>1, <1>2

LEMMA TypeNext == KindsInv /\ [Next]_vars => KindsInv'
<1> SUFFICES ASSUME KindsInv, [Next]_vars PROVE KindsInv'
  OBVIOUS
<1>0. TypeOK /\ KindInv /\ DefInv
  BY DEF KindsInv
<1>1. ASSUME NEW c \in Clients, Arrive(c) PROVE KindsInv'
  <2>1. DefInv'
    BY <1>0, <1>1, ArrivePoints DEF DefInv
  <2>2. QED
    BY <1>0, <1>1, <2>1, ArriveTypes, ArriveKinds DEF KindsInv
<1>2. ASSUME NEW c \in Clients, Serve(c) PROVE KindsInv'
  <2>1. table' = table
    BY <1>0, <1>2, ServeSteps DEF Took, Within, Ended, Stored
  <2>2. ASSUME NEW l \in Lambdas, def'[l] # Unloaded PROVE def'[l] \in 0..table
    <3>1. CASE def'[l] = def[l]
      BY <1>0, <2>2, <3>1 DEF DefInv
    <3>2. CASE def'[l] # def[l]
      <4>1. Took(c) \/ Within(c) \/ Ended(c)
        BY <1>0, <1>2, ServeSteps
      <4>2. def'[l] = table
        BY <1>0, <1>2, <3>2, DefKept
      <4>3. pc[c] = "rules"
        BY <3>2, <4>1 DEF Took, Within, Ended, Stored, Went
      <4>4. table \in 0..15
        BY <1>0, <4>3, RulesTable
      <4>5. QED
        BY <4>2, <4>4
    <3>3. QED
      BY <3>1, <3>2
  <2>3. DefInv'
    BY <2>1, <2>2 DEF DefInv
  <2>4. QED
    BY <1>0, <1>2, <2>3, ServeTypes, ServeKinds DEF KindsInv
<1>3. ASSUME NEW l \in Lambdas, Crash(l) PROVE KindsInv'
  <2>1. DefInv'
    <3>1. \A k \in Lambdas : k = l \/ def'[k] = def[k]
      BY <1>0, <1>3, CrashPoints
    <3>2. def'[l] = Unloaded /\ table' = table
      BY <1>0, <1>3, CrashPoints
    <3>3. QED
      BY <1>0, <3>1, <3>2 DEF DefInv
  <2>2. QED
    BY <1>0, <1>3, <2>1, CrashTypes, CrashKinds DEF KindsInv
<1>4. CASE Seed
  BY <1>0, <1>4, SeedTypes, SeedKinds DEF KindsInv
<1>5. CASE UNCHANGED vars
  <2>1. TypeOK'
    BY <1>0, <1>5 DEF TypeOK, vars
  <2>2. KindInv' /\ DefInv'
    BY <1>0, <1>5 DEF KindInv, Kind, DefInv, IsTx, Decided, Def, Lambda, vars
  <2>3. QED
    BY <2>1, <2>2 DEF KindsInv
<1>6. QED
  BY <1>1, <1>2, <1>3, <1>4, <1>5, NextCases

\* The row stays a row, the audit trail a trail of entries, and every request in flight
\* of its kind, whoever overlaps whom and whatever fails.
THEOREM TypeCorrect == Spec => []TypeOK
<1>1. KindsInv => TypeOK
  BY DEF KindsInv
<1>2. QED
  BY <1>1, TypeInit, TypeNext, PTL DEF Spec

-----------------------------------------------------------------------------
(* Requests that do not overlap but on one connection *)

\* Whoever is active on arrival shares the connection with the new request.
LEMMA ArriveAlone ==
    ASSUME ~Overlap, TypeOK, NEW c \in Clients, Arrive(c)
    PROVE  \A b \in Clients : Active(b) =>
               IsTx(b) /\ IsTx(c)' /\ Lambda(b) = Lambda(c)'
<1>1. ASSUME NEW l \in Lambdas, ArriveAction(c, l), NEW b \in Clients, Active(b)
      PROVE  IsTx(b) /\ IsTx(c)' /\ Lambda(b) = Lambda(c)'
  <2>1. IsTx(b) /\ Lambda(b) = l
    BY <1>1 DEF ArriveAction, MayArrive
  <2>2. req'[c] = Blank("action", l)
    BY <1>1 DEF ArriveAction, TypeOK
  <2>3. QED
    BY <2>1, <2>2, BlankType DEF IsTx, Lambda
<1>2. ASSUME NEW l \in Lambdas, NEW p \in Patches, NEW role \in Roles,
             ArriveUpdate(c, l, p, role), NEW b \in Clients, Active(b)
      PROVE  FALSE
  BY <1>2 DEF ArriveUpdate, MayArrive
<1>3. QED
  BY <1>1, <1>2 DEF Arrive

\* A step of a request leaves its kind and its lambda, or ends it.
LEMMA ServeKeeps ==
    ASSUME TypeOK, NEW c \in Clients, Serve(c)
    PROVE  /\ Active(c)
           /\ Active(c)' => (IsTx(c)' <=> IsTx(c)) /\ Lambda(c)' = Lambda(c)
<1>1. Took(c) \/ Within(c) \/ Ended(c)
  BY ServeSteps
<1>2. Active(c)
  BY <1>1 DEF Took, Within, Ended, Went, Active, AtWork, Fetched, Merged, Chose, Walked
<1>3. Active(c)' => Same(c)
  BY <1>1 DEF Took, Within, Ended, Active
<1>4. QED
  BY <1>2, <1>3 DEF Same, IsTx, Lambda

LEMMA OneNext ==
    ASSUME ~Overlap, TypeOK, OneInv, [Next]_vars
    PROVE  OneInv'
<1> DEFINE Pair(a, b) == Active(a) /\ Active(b) /\ a # b
                            => IsTx(a) /\ IsTx(b) /\ Lambda(a) = Lambda(b)
<1> SUFFICES \A a, b \in Clients : Pair(a, b)'
  BY DEF OneInv
<1>0. \A a, b \in Clients : Pair(a, b)
  BY DEF OneInv
<1>1. ASSUME NEW c \in Clients, Arrive(c) PROVE \A a, b \in Clients : Pair(a, b)'
  <2>1. \A b \in Clients \ {c} : /\ Active(b)' => Active(b)
                                 /\ Lambda(b)' = Lambda(b) /\ (IsTx(b)' <=> IsTx(b))
    BY <1>1, Others DEF Active, Lambda, IsTx
  <2>2. \A b \in Clients : Active(b) => IsTx(b) /\ IsTx(c)' /\ Lambda(b) = Lambda(c)'
    BY <1>1, ArriveAlone
  <2>3. QED
    BY <1>0, <2>1, <2>2
<1>2. ASSUME NEW c \in Clients, Serve(c) PROVE \A a, b \in Clients : Pair(a, b)'
  <2>1. \A b \in Clients \ {c} : /\ Active(b)' => Active(b)
                                 /\ Lambda(b)' = Lambda(b) /\ (IsTx(b)' <=> IsTx(b))
    BY <1>2, Others DEF Active, Lambda, IsTx
  <2>2. /\ Active(c)
        /\ Active(c)' => (IsTx(c)' <=> IsTx(c)) /\ Lambda(c)' = Lambda(c)
    BY <1>2, ServeKeeps
  <2>3. QED
    BY <1>0, <2>1, <2>2
<1>3. ASSUME NEW l \in Lambdas, Crash(l) PROVE \A a, b \in Clients : Pair(a, b)'
  <2>1. \A b \in Clients : Active(b)' => /\ Active(b) /\ Lambda(b)' = Lambda(b)
                                         /\ (IsTx(b)' <=> IsTx(b))
    BY <1>3, CrashPoints DEF Active, Lambda, IsTx
  <2>2. QED
    BY <1>0, <2>1
<1>4. CASE Seed
  BY <1>0, <1>4, SeedTable DEF Active, Lambda, IsTx
<1>5. CASE UNCHANGED vars
  BY <1>0, <1>5 DEF Active, Lambda, IsTx, vars
<1>6. QED
  BY <1>1, <1>2, <1>3, <1>4, <1>5, NextCases

LEMMA HoldsNext ==
    ASSUME TypeOK, HoldsInv, [Next]_vars
    PROVE  HoldsInv'
<1> DEFINE Holds(b) == IsTx(b) /\ AtWork(b) => conn[Lambda(b)] = b
<1> SUFFICES \A b \in Clients : Holds(b)'
  BY DEF HoldsInv
<1>0. \A b \in Clients : Holds(b) /\ Lambda(b) \in Lambdas
  BY DEF HoldsInv, TypeOK, Lambda, Request
<1>c. NoClient \notin Clients
  BY JobAssumption
<1>1. ASSUME NEW c \in Clients, Arrive(c) PROVE \A b \in Clients : Holds(b)'
  <2>1. conn' = conn
    BY <1>1, ArrivePoints
  <2>2. ASSUME NEW b \in Clients \ {c} PROVE Holds(b)'
    BY <1>0, <1>1, <2>1, Others DEF AtWork, Lambda, IsTx
  <2>3. Holds(c)'
    BY <1>1, ArrivePoints DEF AtWork
  <2>4. QED
    BY <2>2, <2>3
<1>2. ASSUME NEW c \in Clients, Serve(c) PROVE \A b \in Clients : Holds(b)'
  <2>1. ASSUME NEW b \in Clients \ {c} PROVE Holds(b)'
    <3>1. (AtWork(b)' <=> AtWork(b)) /\ Lambda(b)' = Lambda(b) /\ (IsTx(b)' <=> IsTx(b))
      BY <1>2, Others DEF AtWork, Lambda, IsTx
    <3>2. conn[Lambda(b)] = b => conn'[Lambda(b)] = b
      BY <1>0, <1>2, <1>c, Others
    <3>3. QED
      BY <1>0, <3>1, <3>2
  <2>2. Holds(c)'
    <3>1. CASE Took(c)
      <4>1. Lambda(c)' = Lambda(c) /\ Lambda(c) \in Lambdas
        BY <1>0, <3>1 DEF Took, Same, Lambda
      <4>2. conn'[Lambda(c)] = c
        BY <3>1, <4>1 DEF Took, TypeOK
      <4>3. QED
        BY <4>1, <4>2
    <3>2. CASE Within(c)
      <4>1. AtWork(c)
        BY <3>2 DEF Within, Fetched, Merged, Chose, Walked, Went, AtWork
      <4>2. Lambda(c)' = Lambda(c) /\ (IsTx(c)' <=> IsTx(c)) /\ conn' = conn
        BY <3>2 DEF Within, Same, Lambda, IsTx
      <4>3. QED
        BY <1>0, <4>1, <4>2
    <3>3. CASE Ended(c)
      BY <3>3 DEF Ended, AtWork
    <3>4. QED
      BY <1>2, <3>1, <3>2, <3>3, ServeSteps
  <2>3. QED
    BY <2>1, <2>2
<1>3. ASSUME NEW l \in Lambdas, Crash(l) PROVE \A b \in Clients : Holds(b)'
  <2>1. ASSUME NEW b \in Clients PROVE Holds(b)'
    <3>1. CASE Active(b) /\ Lambda(b) = l
      BY <1>3, <3>1, CrashPoints DEF AtWork
    <3>2. CASE ~(Active(b) /\ Lambda(b) = l)
      <4>1. pc'[b] = pc[b] /\ Lambda(b)' = Lambda(b) /\ (IsTx(b)' <=> IsTx(b))
        BY <1>3, <3>2, CrashPoints DEF Lambda, IsTx
      <4>2. AtWork(b) => conn'[Lambda(b)] = conn[Lambda(b)]
        BY <1>0, <1>3, <3>2, CrashPoints DEF AtWork, Active
      <4>3. QED
        BY <1>0, <4>1, <4>2 DEF AtWork
    <3>3. QED
      BY <3>1, <3>2
  <2>2. QED
    BY <2>1
<1>4. CASE Seed
  BY <1>0, <1>4, SeedTable DEF AtWork, Lambda, IsTx
<1>5. CASE UNCHANGED vars
  BY <1>0, <1>5 DEF AtWork, Lambda, IsTx, vars
<1>6. QED
  BY <1>1, <1>2, <1>3, <1>4, <1>5, NextCases

\* At most one request is at work.
LEMMA OneAtWork ==
    ASSUME OneInv, HoldsInv, NEW b \in Clients, NEW c \in Clients, AtWork(b), AtWork(c)
    PROVE  b = c
BY DEF OneInv, HoldsInv, AtWork, Active

\* Nobody stores anything while another request is at work.
LEMMA RowKept ==
    ASSUME TypeOK, OneInv, HoldsInv, NEW b \in Clients, AtWork(b),
           NEW c \in Clients \ {b}, Serve(c)
    PROVE  UNCHANGED <<row, log, table, hooks>>
<1>1. Took(c) \/ Within(c) \/ Ended(c)
  BY ServeSteps
<1>2. ~Ended(c)
  BY OneAtWork DEF Ended
<1>3. QED
  BY <1>1, <1>2 DEF Took, Within

\* What a request knows it knows as long as neither it nor the database changes.
LEMMA KnowsKept ==
    ASSUME NEW b \in Clients, Knows(b), UNCHANGED <<row, table, hooks>>,
           pc'[b] = pc[b], req'[b] = req[b], mem'[b] = mem[b], rule'[b] = rule[b]
    PROVE  Knows(b)'
BY DEF Knows, Decided, IsTx, JM!GateOf

\* find() looks at the row as it is, in the rows as they are.
LEMMA ChoseRight ==
    ASSUME TypeOK, KindInv, DefInv, NEW c \in Clients, Knows(c), Chose(c)
    PROVE  \E i \in 1..15 :
              /\ rule'[c] = i /\ i <= table
              /\ mem'[c] = [status |-> JM!Rules[i].to, paid |-> row.paid]
              /\ JM!GateOf(JM!Rules[i].action) \subseteq row.paid
              /\ JM!StatusOf(row, table) = JM!Rules[i].from
<1>1. PICK i \in Found(c) :
         /\ Went(c, "decide", "existing") /\ rule'[c] = i
         /\ mem'[c] = [status |-> JM!Rules[i].to, paid |-> mem[c].paid]
         /\ GateMet(c, i)
  BY DEF Chose
<1>2. pc[c] = "decide" /\ mem[c] = row
  BY <1>1 DEF Went, Knows
<1>3. /\ i \in 1..15 /\ Def(c) \in 1..15 /\ i <= Def(c)
      /\ JM!Rules[i].from = JM!StatusOf(mem[c], Def(c))
  BY <1>2, FoundIsRule
<1>4. Def(c) <= table /\ table \in 1..15
  <2>1. Lambda(c) \in Lambdas
    BY DEF TypeOK, Lambda, Request
  <2>2. Def(c) \in 0..table
    BY <1>3, <2>1, JobAssumption DEF DefInv, Def
  <2>3. table \in -1..15
    BY RuleCount DEF TypeOK, JM!NoWorkflow
  <2>4. QED
    BY <1>3, <2>2, <2>3
<1>5. JM!StatusOf(row, table) = JM!StatusOf(row, Def(c))
  <2>1. JM!StatusOf(row, table) = IF row.status = Null THEN "Won" ELSE row.status
    BY <1>4, StatusWithRules
  <2>2. JM!StatusOf(row, Def(c)) = IF row.status = Null THEN "Won" ELSE row.status
    BY <1>3, StatusWithRules
  <2>3. QED
    BY <2>1, <2>2
<1>6. JM!GateOf(JM!Rules[i].action) \subseteq row.paid
  BY <1>1, <1>2 DEF GateMet
<1>7. i <= table
  BY <1>3, <1>4
<1>8. JM!StatusOf(row, table) = JM!Rules[i].from
  BY <1>2, <1>3, <1>5
<1>9. QED
  BY <1>1, <1>2, <1>3, <1>6, <1>7, <1>8

LEMMA WithinKnows ==
    ASSUME TypeOK, KindInv, DefInv, NEW c \in Clients, Knows(c), Within(c)
    PROVE  Knows(c)'
<1>1. /\ (IsTx(c)' <=> IsTx(c)) /\ req'[c].patch = req[c].patch
      /\ UNCHANGED <<row, table, hooks>>
  BY DEF Within, Same, IsTx
<1>2. CASE Fetched(c)
  BY <1>1, <1>2 DEF Fetched, Went, Knows, Decided
<1>3. CASE Merged(c)
  BY <1>1, <1>3 DEF Merged, Went, Knows, Decided
<1>4. CASE Chose(c)
  <2>1. IsTx(c) /\ pc'[c] = "existing"
    BY <1>4 DEF Chose, Went, KindInv, Kind
  <2>2. PICK i \in 1..15 :
              /\ rule'[c] = i /\ i <= table
              /\ mem'[c] = [status |-> JM!Rules[i].to, paid |-> row.paid]
              /\ JM!GateOf(JM!Rules[i].action) \subseteq row.paid
              /\ JM!StatusOf(row, table) = JM!Rules[i].from
    BY <1>4, ChoseRight
  <2>3. QED
    BY <1>1, <2>1, <2>2 DEF Knows, Decided, JM!GateOf
<1>5. CASE Walked(c) /\ rule'[c] = rule[c]
  <2>1. mem'[c] = mem[c]
    BY <1>5 DEF Walked
  <2>2. CASE Went(c, "gate", "load")
    BY <2>2 DEF Went, Knows, Decided
  <2>3. CASE \/ Went(c, "workflow", "decide")
             \/ Went(c, "workflow", "rules")
             \/ Went(c, "rules", "decide")
    BY <1>1, <2>1, <2>3 DEF Went, Knows, Decided
  <2>4. CASE \/ Went(c, "existing", "update")
             \/ Went(c, "update", "log") /\ IsTx(c)
    BY <1>1, <1>5, <2>1, <2>4 DEF Went, Knows, Decided, JM!GateOf
  <2>5. CASE Went(c, "log", "commit")
    BY <1>1, <1>5, <2>1, <2>5 DEF Went, Knows, Decided, KindInv, Kind, JM!GateOf
  <2>6. QED
    BY <1>5, <2>2, <2>3, <2>4, <2>5 DEF Walked
<1>6. QED
  BY <1>2, <1>3, <1>4, <1>5 DEF Within

\* More rows change nothing for a request that has found one.
LEMMA SeedKnows ==
    ASSUME TypeOK, KindInv, NEW b \in Clients, Knows(b), Seed
    PROVE  Knows(b)'
<1>1. /\ table \in -1..15 /\ table' \in 0..15 /\ table < table'
      /\ UNCHANGED <<row, log, hooks, def, req, pc, mem, rule, resp, conn, updates, faults>>
  BY SeedTable
<1>2. ASSUME Decided(b) PROVE JM!StatusOf(row, table') = JM!StatusOf(row, table)
                              /\ rule[b] <= table'
  <2>1. rule[b] \in 1..15
    BY <1>2, RuleCount DEF TypeOK, KindInv, Kind, NoRule
  <2>2. rule[b] <= table
    BY <1>2 DEF Knows
  <2>3. table \in 1..15 /\ table' \in 1..15
    BY <1>1, <2>1, <2>2
  <2>4. QED
    BY <1>1, <2>1, <2>2, <2>3, StatusWithRules
<1>3. QED
  BY <1>1, <1>2 DEF Knows, Decided, IsTx, JM!StatusOf, JM!Initial, JM!GateOf

LEMMA KnowsNext ==
    ASSUME TypeOK, KindInv, DefInv, OneInv, HoldsInv, KnowsInv, [Next]_vars
    PROVE  KnowsInv'
<1> SUFFICES \A b \in Clients : Knows(b)'
  BY DEF KnowsInv
<1>0. \A b \in Clients : Knows(b)
  BY DEF KnowsInv
<1>1. ASSUME NEW c \in Clients, Arrive(c) PROVE \A b \in Clients : Knows(b)'
  <2>1. UNCHANGED <<row, table, hooks>>
    BY <1>1, ArrivePoints
  <2>2. ASSUME NEW b \in Clients \ {c} PROVE Knows(b)'
    BY <1>0, <1>1, <2>1, Others, KnowsKept
  <2>3. Knows(c)'
    BY <1>1, ArrivePoints DEF Knows, Decided
  <2>4. QED
    BY <2>2, <2>3
<1>2. ASSUME NEW c \in Clients, Serve(c) PROVE \A b \in Clients : Knows(b)'
  <2>1. ASSUME NEW b \in Clients \ {c} PROVE Knows(b)'
    <3>1. CASE AtWork(b)
      <4>1. UNCHANGED <<row, table, hooks>>
        BY <1>2, <3>1, RowKept
      <4>2. QED
        BY <1>0, <1>2, <4>1, Others, KnowsKept
    <3>2. CASE ~AtWork(b)
      BY <1>2, <3>2, Others DEF AtWork, Knows, Decided
    <3>3. QED
      BY <3>1, <3>2
  <2>2. Knows(c)'
    <3>1. CASE Took(c)
      BY <3>1 DEF Took, Went, Knows, Decided
    <3>2. CASE Within(c)
      BY <1>0, <3>2, WithinKnows
    <3>3. CASE Ended(c)
      BY <3>3 DEF Ended, Knows, Decided
    <3>4. QED
      BY <1>2, <3>1, <3>2, <3>3, ServeSteps
  <2>3. QED
    BY <2>1, <2>2
<1>3. ASSUME NEW l \in Lambdas, Crash(l) PROVE \A b \in Clients : Knows(b)'
  <2>1. ASSUME NEW b \in Clients PROVE Knows(b)'
    <3>1. CASE pc'[b] = "idle"
      BY <3>1 DEF Knows, Decided
    <3>2. CASE pc'[b] # "idle"
      BY <1>0, <1>3, <3>2, CrashPoints, KnowsKept
    <3>3. QED
      BY <3>1, <3>2
  <2>2. QED
    BY <2>1
<1>4. CASE Seed
  BY <1>0, <1>4, SeedKnows
<1>5. CASE UNCHANGED vars
  BY <1>0, <1>5, KnowsKept DEF vars
<1>6. QED
  BY <1>1, <1>2, <1>3, <1>4, <1>5, NextCases

-----------------------------------------------------------------------------
(* The Job status machine *)

SerialInv == ~Overlap /\ KindsInv /\ OneInv /\ HoldsInv /\ KnowsInv

LEMMA SerialInit == ~Overlap /\ Init => SerialInv
<1> SUFFICES ASSUME ~Overlap, Init PROVE SerialInv
  OBVIOUS
<1>1. KindsInv
  BY TypeInit
<1>2. OneInv /\ HoldsInv /\ KnowsInv
  BY DEF Knows, Init, OneInv, HoldsInv, KnowsInv, Active, AtWork, Decided
<1>3. QED
  BY <1>1, <1>2 DEF SerialInv

LEMMA SerialNext == SerialInv /\ [Next]_vars => SerialInv'
BY TypeNext, OneNext, HoldsNext, KnowsNext DEF SerialInv, KindsInv

LEMMA SerialCorrect == ~Overlap /\ Spec => []SerialInv
BY SerialInit, SerialNext, PTL DEF Spec

\* A commit moves the Job along the row the request found.
LEMMA CommitMoves ==
    ASSUME SerialInv, NEW c \in Clients, pc[c] = "commit",
           row' = mem[c], log' = Append(log, JM!Entry(rule[c], row.paid)),
           UNCHANGED <<table, hooks>>
    PROVE  \E i \in DOMAIN JM!Rules : JM!Move(i)
<1>0. TypeOK /\ KindInv /\ Knows(c)
  BY DEF SerialInv, KindsInv, KnowsInv
<1>1. Decided(c)
  BY <1>0 DEF KindInv, Kind, Decided
<1>2. rule[c] \in 1..15
  BY <1>0, <1>1, RuleCount DEF TypeOK, KindInv, Kind, NoRule
<1>3. /\ mem[c] = [status |-> JM!Rules[rule[c]].to, paid |-> row.paid]
      /\ JM!GateOf(JM!Rules[rule[c]].action) \subseteq row.paid
      /\ JM!StatusOf(row, table) = JM!Rules[rule[c]].from
      /\ rule[c] <= table
  BY <1>0, <1>1 DEF Knows
<1>4. row' = [row EXCEPT !.status = JM!Rules[rule[c]].to]
  <2>1. row = [status |-> row.status, paid |-> row.paid]
    BY <1>0 DEF TypeOK, Row
  <2>2. QED
    BY <1>3, <2>1
<1>5. JM!Move(rule[c])
  BY <1>3, <1>4 DEF JM!Move
<1>6. QED
  BY <1>2, <1>5, RuleCount

\* Every step is a step of the machine, or none of its business.
LEMMA MachineStep ==
    ASSUME SerialInv, [Next]_vars
    PROVE  [JM!Next]_machine
<1>0. TypeOK /\ \A c \in Clients : Knows(c)
  BY DEF SerialInv, KindsInv, KnowsInv
<1>1. ASSUME NEW c \in Clients, Arrive(c) PROVE UNCHANGED machine
  BY <1>0, <1>1, ArrivePoints DEF machine
<1>2. ASSUME NEW c \in Clients, Serve(c) PROVE [JM!Next]_machine
  <2>1. CASE Stored(c)
    <3>1. CASE /\ pc[c] = "update" /\ ~IsTx(c)
               /\ row' = mem[c] /\ UNCHANGED <<log, table, hooks, def>>
      <4>1. mem[c] = JM!Patched(row, req[c].patch)
        BY <1>0, <3>1 DEF Knows
      <4>2. req[c].patch \in Patches
        BY <1>0 DEF TypeOK, Request
      <4>3. JM!Update(req[c].patch)
        BY <3>1, <4>1 DEF JM!Update
      <4>4. QED
        BY <4>2, <4>3 DEF JM!Next
    <3>2. CASE /\ pc[c] = "commit" /\ row' = mem[c]
               /\ log' = Append(log, JM!Entry(rule[c], row.paid))
               /\ UNCHANGED <<table, hooks, def>>
      BY <3>2, CommitMoves DEF JM!Next
    <3>3. QED
      BY <2>1, <3>1, <3>2 DEF Stored
  <2>2. CASE UNCHANGED <<row, log, table, hooks>>
    BY <2>2 DEF machine
  <2>3. QED
    BY <1>0, <1>2, <2>1, <2>2, ServeSteps DEF Took, Within, Ended
<1>3. ASSUME NEW l \in Lambdas, Crash(l) PROVE UNCHANGED machine
  BY <1>3 DEF Crash
<1>4. CASE Seed
  <2>1. JM!Seed
    BY <1>4 DEF Seed, JM!Seed
  <2>2. QED
    BY <2>1 DEF JM!Next
<1>5. CASE UNCHANGED vars
  BY <1>5 DEF vars, machine
<1>6. QED
  BY <1>1, <1>2, <1>3, <1>4, <1>5, NextCases

LEMMA MachineInit == Init => JM!Init
BY DEF Init, JM!Init

\* Requests that overlap on one connection only take the Job through its machine: each
\* step leaves the row, the audit trail and the transition rows alone, or is one move
\* from the Job's status, past its gate, with its audit row; or one update; or the seed.
THEOREM MachineCorrect == ~Overlap /\ Spec => ImplementsJobMachine
<1>1. SerialInv /\ [Next]_vars => [JM!Next]_<<row, log, table, hooks>>
  BY MachineStep DEF machine
<1>2. QED
  BY <1>1, MachineInit, SerialCorrect, PTL DEF Spec, ImplementsJobMachine, JM!Spec

-----------------------------------------------------------------------------
(* The audit trail *)

\* No patch sends a status.
Quiet == \A p \in Patches : p.status = Keep

TrailInv == Quiet /\ LogTellsStatus /\ PathInv

LEMMA TrailInit == Quiet /\ Init => TrailInv
BY JobAssumption, NullOffWay DEF Init, TrailInv, LogTellsStatus, PathInv

\* An update that sends no status leaves it.
LEMMA QuietUpdate ==
    ASSUME Quiet, NEW p \in Patches, JM!Update(p)
    PROVE  row'.status = row.status /\ UNCHANGED <<log, hooks>>
BY DEF Quiet, JM!Update, JM!Patched

\* A move, point by point.
LEMMA MovePoints ==
    ASSUME TypeOK, NEW i \in 1..15, JM!Move(i)
    PROVE  /\ Len(log) \in Nat /\ Len(log') = Len(log) + 1
           /\ \A j \in 1..Len(log) : log'[j] = log[j]
           /\ log'[Len(log) + 1] = JM!Entry(i, row.paid)
           /\ row'.status = JM!Rules[i].to
           /\ IF row.status = Null THEN JM!Rules[i].from = "Won"
                                   ELSE JM!Rules[i].from = row.status
<1>1. log \in Seq(Entry)
  BY DEF TypeOK
<1>2. JM!Entry(i, row.paid) \in Entry
  BY EntryType DEF TypeOK, Row
<1>3. log' = Append(log, JM!Entry(i, row.paid))
  BY DEF JM!Move
<1>4. /\ Len(log) \in Nat /\ Len(log') = Len(log) + 1
      /\ \A j \in 1..Len(log) : log'[j] = log[j]
      /\ log'[Len(log) + 1] = JM!Entry(i, row.paid)
  BY <1>1, <1>2, <1>3, AppendProperties
<1>5. row'.status = JM!Rules[i].to
  BY DEF JM!Move, TypeOK, Row
<1>6. table \in 1..15
  BY RuleCount DEF JM!Move, TypeOK, JM!NoWorkflow
<1>7. JM!StatusOf(row, table) = JM!Rules[i].from
  BY DEF JM!Move
<1>8. QED
  BY <1>4, <1>5, <1>6, <1>7, StatusWithRules

LEMMA MoveTells ==
    ASSUME TypeOK, LogTellsStatus, NEW i \in 1..15, JM!Move(i)
    PROVE  LogTellsStatus'
<1>1. /\ Len(log) \in Nat /\ Len(log') = Len(log) + 1
      /\ \A j \in 1..Len(log) : log'[j] = log[j]
      /\ log'[Len(log) + 1] = JM!Entry(i, row.paid)
      /\ row'.status = JM!Rules[i].to
      /\ IF row.status = Null THEN JM!Rules[i].from = "Won"
                              ELSE JM!Rules[i].from = row.status
  BY MovePoints
<1>2. /\ JM!Entry(i, row.paid).from = JM!Rules[i].from
      /\ JM!Entry(i, row.paid).to = JM!Rules[i].to
  BY DEF JM!Entry
<1>3. log' # <<>>
  BY <1>1
<1>4. log # <<>> => log[Len(log)].to = JM!Rules[i].from
  <2>1. CASE log # <<>>
    <3>1. row.status = log[Len(log)].to
      BY <2>1 DEF LogTellsStatus
    <3>2. Len(log) \in 1..Len(log)
      BY <1>1, <2>1 DEF TypeOK
    <3>3. log[Len(log)] \in Entry
      BY <3>2, ElementOfSeq DEF TypeOK
    <3>4. QED
      BY <1>1, <3>1, <3>3, JobAssumption DEF Entry
  <2>2. QED
    BY <2>1
<1>5. ASSUME NEW j \in 1..(Len(log') - 1) PROVE log'[j].to = log'[j + 1].from
  <2>1. CASE j = Len(log)
    <3>1. log # <<>>
      BY <1>1, <2>1
    <3>2. QED
      BY <1>1, <1>2, <1>4, <2>1, <3>1
  <2>2. CASE j # Len(log)
    <3>1. j \in 1..(Len(log) - 1) /\ j + 1 \in 1..Len(log)
      BY <1>1, <2>2
    <3>2. QED
      BY <1>1, <3>1 DEF LogTellsStatus
  <2>3. QED
    BY <2>1, <2>2
<1>6. log'[1].from = "Won"
  <2>1. CASE log = <<>>
    <3>1. Len(log) = 0 /\ row.status \in {"Won", Null}
      BY <2>1 DEF LogTellsStatus
    <3>2. QED
      BY <1>1, <1>2, <3>1
  <2>2. CASE log # <<>>
    <3>1. 1 \in 1..Len(log)
      BY <1>1, <2>2 DEF TypeOK
    <3>2. QED
      BY <1>1, <2>2, <3>1 DEF LogTellsStatus
  <2>3. QED
    BY <2>1, <2>2
<1>7. row'.status = log'[Len(log')].to
  BY <1>1, <1>2
<1>8. QED
  BY <1>3, <1>5, <1>6, <1>7 DEF LogTellsStatus

LEMMA MovePath ==
    ASSUME TypeOK, PathInv, NEW i \in 1..15, JM!Move(i)
    PROVE  PathInv'
<1> SUFFICES ASSUME hooks, JM!Rules[i].to \in Way
             PROVE  /\ PassedIn(log', {"start_measure"}, 0)
                    /\ \E k \in 1..Len(log') :
                          LastIn(log', k) /\ PassedIn(log', Needed(JM!Rules[i].to), k)
  <2>1. row'.status = JM!Rules[i].to /\ hooks' = hooks
    BY MovePoints DEF JM!Move
  <2>2. QED
    BY <2>1 DEF PathInv
<1> DEFINE n == Len(log)
<1>1. /\ n \in Nat /\ Len(log') = n + 1
      /\ \A j \in 1..n : log'[j] = log[j]
      /\ log'[n + 1] = JM!Entry(i, row.paid)
      /\ IF row.status = Null THEN JM!Rules[i].from = "Won"
                              ELSE JM!Rules[i].from = row.status
  BY MovePoints
<1>2. /\ JM!Entry(i, row.paid).action = JM!Rules[i].action
      /\ JM!Entry(i, row.paid).to = JM!Rules[i].to
      /\ JM!Entry(i, row.paid).paid = row.paid
      /\ JM!PaymentFor(JM!Rules[i].action) \subseteq row.paid
  BY DEF JM!Entry, JM!Move, JM!GateOf
<1>3. ASSUME NEW A, NEW k \in 0..n, PassedIn(log, A, k) PROVE PassedIn(log', A, k)
  BY <1>1, <1>3 DEF PassedIn
<1>4. ASSUME JM!Rules[i].to = "Measure"
      PROVE  \E k \in 1..Len(log') :
                LastIn(log', k) /\ PassedIn(log', Needed(JM!Rules[i].to), k)
  <2>1. Needed("Measure") = {}
    BY DEF Needed
  <2>2. LastIn(log', n + 1)
    BY <1>1, <1>2, <1>4 DEF LastIn
  <2>3. PassedIn(log', Needed(JM!Rules[i].to), n + 1)
    BY <1>4, <2>1 DEF PassedIn
  <2>4. QED
    BY <1>1, <2>2, <2>3
<1>5. CASE JM!Rules[i].to = "Measure" /\ JM!Rules[i].action = "start_measure"
  <2>1. PassedIn(log', {"start_measure"}, 0)
    BY <1>1, <1>2, <1>5 DEF PassedIn
  <2>2. QED
    BY <1>4, <1>5, <2>1
<1>6. CASE JM!Rules[i].to = "Measure" /\ JM!Rules[i].from = "Hold"
  <2>1. row.status = "Hold"
    BY <1>1, <1>6
  <2>2. PassedIn(log, {"start_measure"}, 0)
    BY <2>1 DEF PathInv, Way
  <2>3. PassedIn(log', {"start_measure"}, 0)
    BY <1>1, <1>3, <2>2
  <2>4. QED
    BY <1>4, <1>6, <2>3
<1>7. CASE /\ JM!Rules[i].to # "Measure" /\ JM!Rules[i].from \in Way
           /\ Needed(JM!Rules[i].to) \subseteq
                 Needed(JM!Rules[i].from) \cup {JM!Rules[i].action}
  <2>1. row.status = JM!Rules[i].from
    BY <1>1, <1>7 DEF Way
  <2>2. PassedIn(log, {"start_measure"}, 0)
    BY <1>7, <2>1 DEF PathInv
  <2>3. PICK k \in 1..n : LastIn(log, k) /\ PassedIn(log, Needed(row.status), k)
    BY <1>7, <2>1 DEF PathInv
  <2>4. PassedIn(log', {"start_measure"}, 0)
    BY <1>1, <1>3, <2>2
  <2>5. LastIn(log', k)
    BY <1>1, <1>2, <1>7, <2>3 DEF LastIn
  <2>6. PassedIn(log', Needed(JM!Rules[i].to), k)
    <3>1. PassedIn(log', Needed(row.status), k)
      BY <1>3, <2>3
    <3>2. ASSUME NEW a \in Needed(JM!Rules[i].to)
          PROVE  \E j \in (k + 1)..(n + 1) :
                    log'[j].action = a /\ JM!PaymentFor(a) \subseteq log'[j].paid
      <4>1. CASE a \in Needed(row.status)
        BY <1>1, <3>1, <4>1 DEF PassedIn
      <4>2. CASE a = JM!Rules[i].action
        BY <1>1, <1>2, <4>2
      <4>3. QED
        BY <1>7, <2>1, <3>2, <4>1, <4>2
    <3>3. QED
      BY <1>1, <3>2 DEF PassedIn
  <2>7. QED
    BY <1>1, <2>4, <2>5, <2>6
<1>8. QED
  BY <1>5, <1>6, <1>7, RuleWay

\* The machine keeps the trail, step by step.
LEMMA TrailStep ==
    ASSUME TypeOK, TrailInv, [JM!Next]_machine
    PROVE  TrailInv'
<1>0. LogTellsStatus /\ PathInv
  BY DEF TrailInv
<1>1. CASE row'.status = row.status /\ UNCHANGED <<log, hooks>>
  <2>1. LogTellsStatus'
    BY <1>0, <1>1 DEF LogTellsStatus
  <2>2. PathInv'
    BY <1>0, <1>1 DEF PathInv
  <2>3. QED
    BY <2>1, <2>2 DEF TrailInv
<1>2. CASE JM!Seed
  BY <1>1, <1>2 DEF JM!Seed
<1>3. ASSUME NEW i \in DOMAIN JM!Rules, JM!Move(i) PROVE TrailInv'
  BY <1>0, <1>3, RuleCount, MoveTells, MovePath DEF TrailInv
<1>4. ASSUME NEW p \in Patches, JM!Update(p) PROVE TrailInv'
  BY <1>1, <1>4, QuietUpdate DEF TrailInv
<1>5. CASE UNCHANGED machine
  BY <1>1, <1>5 DEF machine
<1>6. QED
  BY <1>2, <1>3, <1>4, <1>5 DEF JM!Next

LEMMA TrailCorrect == ~Overlap /\ Quiet /\ Spec => []TrailInv
<1>1. SerialInv /\ [Next]_vars => TypeOK /\ [JM!Next]_machine
  BY MachineStep DEF SerialInv, KindsInv
<1>2. TrailInv /\ TypeOK /\ [JM!Next]_machine => TrailInv'
  BY TrailStep
<1>3. QED
  BY <1>1, <1>2, TrailInit, SerialCorrect, PTL DEF Spec

\* The audit trail is the Job's history: its rows follow one another, the first leaves
\* Won, and the last ends where the Job is, as long as no update sends a status.
THEOREM LogCorrect == ~Overlap /\ Quiet /\ Spec => []LogTellsStatus
<1>1. TrailInv => LogTellsStatus
  BY DEF TrailInv
<1>2. QED
  BY <1>1, TrailCorrect, PTL

\* A trail has one last entry into Measure.
LEMMA LastMeasureIs ==
    ASSUME TypeOK, NEW k \in 1..Len(log), LastIn(log, k)
    PROVE  LastMeasure = k
<1>1. Len(log) \in Nat
  BY DEF TypeOK
<1>2. LastMeasure \in 1..Len(log) /\ LastIn(log, LastMeasure)
  BY DEF LastMeasure, LastIn
<1>3. ~(LastMeasure < k) /\ ~(k < LastMeasure)
  BY <1>1, <1>2 DEF LastIn
<1>4. QED
  BY <1>1, <1>2, <1>3

\* In a process that imports the hooks a Job that is scheduled, installed or complete was
\* measured with the deposit in its row, and since it last entered Measure it was signed
\* off with the balance and scheduled with the manufacturing payment in its row.
THEOREM PaidCorrect == ~Overlap /\ Quiet /\ Spec => []ScheduledIsPaid
<1>1. TypeOK /\ TrailInv => ScheduledIsPaid
  <2> SUFFICES ASSUME TypeOK, PathInv, hooks,
                      row.status \in {"Scheduling", "Install", "Complete"}
               PROVE  /\ Passed({"start_measure"}, 0)
                      /\ Passed({"start_signoff", "to_manufacturing", "to_scheduling"},
                                LastMeasure)
    BY DEF TrailInv, ScheduledIsPaid
  <2>1. row.status \in Way
    BY DEF Way
  <2>2. PICK k \in 1..Len(log) : LastIn(log, k) /\ PassedIn(log, Needed(row.status), k)
    BY <2>1 DEF PathInv
  <2>3. LastMeasure = k
    BY <2>2, LastMeasureIs
  <2>4. Needed(row.status) = {"start_signoff", "to_manufacturing", "to_scheduling"}
    BY DEF Needed
  <2>5. QED
    BY <2>1, <2>2, <2>3, <2>4 DEF PathInv, Passed, PassedIn
<1>2. QED
  BY <1>1, TrailCorrect, TypeCorrect, PTL

=============================================================================
