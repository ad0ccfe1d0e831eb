---------------------------- MODULE JobWorkflow -----------------------------
(***************************************************************************)
(* One Job moved by workflow actions: handle() of src/src/api/handler.js,  *)
(* transitionDoc and updateDoc of service.js, transition, getWorkflow and  *)
(* loadWorkflow of src/src/workflow/workflow.js and the gates of           *)
(* src/src/doctypes/job/job.hooks.js.                                      *)
(*                                                                         *)
(* Clients send one request after the other; each runs on a lambda.  A     *)
(* transition runs in a transaction on the lambda's one connection         *)
(* (module Lifecycle says more of it); an update writes the whole row back *)
(* and commits by itself.  A lambda keeps the workflow it read in          *)
(* WORKFLOW_DEFS until it dies.                                            *)
(***************************************************************************)
EXTENDS Integers, Sequences

CONSTANTS
    Clients, Lambdas,
    Patches, SeedStops, Null, Keep,   \* see JobMachine
    Unloaded,     \* no definition cached
    NoClient,     \* nobody holds the connection
    Overlap,      \* may requests overlap that do not share a connection?
    MaxLog,       \* bound on the audit rows
    MaxUpdates,   \* bound on the updates sent
    MaxFaults     \* bound on errors and crashes

VARIABLES
    row,      \* the tabJob row: status and the payments cleared
    log,      \* the tabWorkflowAction rows of the Job, in commit order
    table,    \* tabWorkflowTransition: its first rows (-1: no Workflow row either)
    hooks,    \* have the lambdas imported job.hooks.js?  bootstrap.js does not
    def,      \* WORKFLOW_DEFS of each lambda
    req, pc,
    mem,      \* the Document of each request
    rule,     \* the transition it found
    resp,     \* the answer to a client's last request
    conn,     \* the holder of each lambda's one connection
    updates, faults

JM == INSTANCE JobMachine WITH
    Patches <- Patches, SeedStops <- SeedStops, Null <- Null, Keep <- Keep,
    row <- row, log <- log, table <- table, hooks <- hooks

\* What TypeOK needs of the constants: a patch sets and clears payments and may set
\* a status; the seed's first rows are rows; the markers are none of the data.
ASSUME JobAssumption ==
    /\ Clients # {} /\ Lambdas # {} /\ NoClient \notin Clients
    /\ Patches # {}
    /\ \A p \in Patches : /\ p.set \subseteq JM!Gates /\ p.clear \subseteq JM!Gates
                          /\ p.status \in JM!States \cup {Null, Keep}
    /\ Null \notin JM!States /\ Keep \notin JM!States \cup {Null}
    /\ SeedStops \subseteq 0..Len(JM!Rules)
    /\ Unloaded \notin Nat
    /\ Overlap \in BOOLEAN
    /\ MaxLog \in Nat /\ MaxUpdates \in Nat /\ MaxFaults \in Nat

machine == <<row, log, table, hooks>>
vars == <<row, log, table, hooks, def, req, pc, mem, rule, resp, conn, updates, faults>>

Roles == {"admin", "scheduler", "sales"}
Row == [status : JM!States \cup {Null}, paid : SUBSET JM!Gates]
Request == [kind : {"action", "update"}, action : JM!Actions \cup {"submit"},
            role : Roles, patch : Patches, lambda : Lambdas]
PC == {"idle", "queued", "gate", "load", "workflow", "rules", "decide", "existing",
       "update", "log", "commit"}
Codes == {0, 1, 200, 400, 403, 404, 409, 500}
Entry == [from : JM!States, to : JM!States, action : JM!Actions, paid : SUBSET JM!Gates]

TypeOK ==
    /\ row \in Row
    /\ log \in Seq(Entry)
    /\ table \in JM!NoWorkflow..Len(JM!Rules)
    /\ hooks \in BOOLEAN
    /\ def \in [Lambdas -> {Unloaded} \cup 0..Len(JM!Rules)]
    /\ req \in [Clients -> Request]
    /\ pc \in [Clients -> PC]
    /\ mem \in [Clients -> Row]
    /\ rule \in [Clients -> 0..Len(JM!Rules)]
    /\ resp \in [Clients -> Codes]
    /\ conn \in [Lambdas -> Clients \cup {NoClient}]
    /\ updates \in Nat /\ faults \in Nat

-----------------------------------------------------------------------------
(* Helpers *)

IsTx(c) == req[c].kind = "action"
Lambda(c) == req[c].lambda
Active(c) == pc[c] # "idle"
Def(c) == def[Lambda(c)]

\* handle() sends 'submit' and 'cancel' to submitDoc and cancelDoc, every other
\* action to transitionDoc.
Op(c) ==
    CASE req[c].kind = "update" -> "write"
      [] req[c].action \in {"submit", "cancel"} -> req[c].action
      [] OTHER -> "write"

\* The docperms of Job: nobody has submit or cancel.
MayMutate(role, op) == op = "write" /\ role \in {"admin", "scheduler"}

\* The row a transaction has updated stays locked until it ends.
LockedFor(c) == \E b \in Clients \ {c} : IsTx(b) /\ pc[b] \in {"log", "commit"}

Blank(kind, l) == [kind |-> kind, action |-> "submit", role |-> "sales",
                   patch |-> CHOOSE p \in Patches : TRUE, lambda |-> l]
NoRow == [status |-> Null, paid |-> {}]
NoRule == 0

Init ==
    /\ row \in [status : {"Won", Null}, paid : {{}}]
    /\ log = <<>>
    /\ table \in {JM!NoWorkflow, Len(JM!Rules)}
    /\ hooks \in BOOLEAN
    /\ def = [l \in Lambdas |-> Unloaded]
    /\ req = [c \in Clients |-> Blank("action", CHOOSE l \in Lambdas : TRUE)]
    /\ pc = [c \in Clients |-> "idle"]
    /\ mem = [c \in Clients |-> NoRow]
    /\ rule = [c \in Clients |-> NoRule]
    /\ resp = [c \in Clients |-> 0]
    /\ conn = [l \in Lambdas |-> NoClient]
    /\ updates = 0
    /\ faults = 0

Goto(c, label) == pc' = [pc EXCEPT ![c] = label]

\* The request is answered and nothing is left of it; its connection is free, after
\* COMMIT or ROLLBACK.
End(c, code) ==
    /\ Goto(c, "idle")
    /\ req' = [req EXCEPT ![c] = Blank("action", CHOOSE l \in Lambdas : TRUE)]
    /\ resp' = [resp EXCEPT ![c] = code]
    /\ mem' = [mem EXCEPT ![c] = NoRow]
    /\ rule' = [rule EXCEPT ![c] = NoRule]
    /\ conn' = [conn EXCEPT ![Lambda(c)] = IF @ = c THEN NoClient ELSE @]
    /\ UNCHANGED updates

Reject(c, code) == End(c, code) /\ UNCHANGED <<machine, def>>

\* The step moves pc and changes nothing else of the request.
Stay == UNCHANGED <<req, resp, conn, updates, faults>>

-----------------------------------------------------------------------------
(* Requests *)

\* Transitions of one lambda queue for its connection, so they may overlap.
MayArrive(kind, l) ==
    Overlap \/ \A b \in Clients : Active(b) => /\ kind = "action" /\ IsTx(b)
                                               /\ Lambda(b) = l

ArriveAction(c, l) ==
    /\ pc[c] = "idle"
    /\ MayArrive("action", l)
    /\ Len(log) < MaxLog
    /\ req' = [req EXCEPT ![c] = Blank("action", l)]
    /\ resp' = [resp EXCEPT ![c] = 0]
    /\ Goto(c, "queued")
    /\ UNCHANGED <<machine, def, mem, rule, conn, updates, faults>>

ArriveUpdate(c, l, patch, role) ==
    /\ pc[c] = "idle"
    /\ MayArrive("update", l)
    /\ updates < MaxUpdates
    /\ updates' = updates + 1
    /\ req' = [req EXCEPT ![c] = [Blank("update", l) EXCEPT !.patch = patch, !.role = role]]
    /\ resp' = [resp EXCEPT ![c] = 0]
    /\ Goto(c, "gate")
    /\ UNCHANGED <<machine, def, mem, rule, conn, faults>>

\* sql.begin(): the connection is free.  What a queued request asks for makes no
\* difference before this step, so it is only chosen here.
Begin(c, action, role) ==
    /\ pc[c] = "queued"
    /\ conn[Lambda(c)] = NoClient
    /\ conn' = [conn EXCEPT ![Lambda(c)] = c]
    /\ req' = [req EXCEPT ![c] = [@ EXCEPT !.action = action, !.role = role]]
    /\ Goto(c, "gate")
    /\ UNCHANGED <<machine, def, mem, rule, resp, updates, faults>>

\* assertCanMutate: 403 before anything is read.
Gate(c) ==
    /\ pc[c] = "gate"
    /\ \/ /\ ~MayMutate(req[c].role, Op(c))
          /\ Reject(c, 403)
       \/ /\ MayMutate(req[c].role, Op(c))
          /\ Goto(c, "load")
          /\ UNCHANGED <<machine, def, req, mem, rule, resp, conn, updates>>
    /\ UNCHANGED faults

\* loadInScope: a Job outside the user's row scope reads as Not Found, as does one whose
\* meta is gone from the registry.  An update assigns its patch over the document at once.
Load(c) ==
    /\ pc[c] = "load"
    /\ \/ Reject(c, 404)
       \/ /\ mem' = [mem EXCEPT ![c] =
                         IF IsTx(c) THEN row ELSE JM!Patched(row, req[c].patch)]
          /\ Goto(c, IF IsTx(c) THEN "workflow" ELSE "existing")
          /\ UNCHANGED <<machine, def, req, rule, resp, conn, updates>>
    /\ UNCHANGED faults

\* Mutant: the absence of a workflow is cached, too.
WorkflowCachesAbsence(c) ==
    /\ pc[c] = "workflow"
    /\ \/ /\ Def(c) # Unloaded
          /\ Goto(c, "decide")
          /\ UNCHANGED <<machine, def, mem, rule, req, resp, conn, updates>>
       \/ /\ Def(c) = Unloaded /\ table # JM!NoWorkflow
          /\ Goto(c, "rules")
          /\ UNCHANGED <<machine, def, mem, rule, req, resp, conn, updates>>
       \/ /\ Def(c) = Unloaded /\ table = JM!NoWorkflow
          /\ def' = [def EXCEPT ![Lambda(c)] = table]
          /\ End(c, 409)
          /\ UNCHANGED machine
    /\ UNCHANGED faults

\* getWorkflow: the cached definition, else loadWorkflow reads the Workflow row.
\* A Job without one has no workflow (409), and nothing is cached.
Workflow(c) ==
    /\ pc[c] = "workflow"
    /\ \/ /\ Def(c) # Unloaded
          /\ Goto(c, "decide")
          /\ Stay
          /\ UNCHANGED <<machine, def, mem, rule>>
       \/ /\ Def(c) = Unloaded /\ table # JM!NoWorkflow
          /\ Goto(c, "rules")
          /\ Stay
          /\ UNCHANGED <<machine, def, mem, rule>>
       \/ /\ Def(c) = Unloaded /\ table = JM!NoWorkflow
          /\ Reject(c, 409)
          /\ UNCHANGED faults

\* ... and the transition rows, and caches those it finds for every later request.
LoadRules(c) ==
    /\ pc[c] = "rules"
    /\ def' = [def EXCEPT ![Lambda(c)] = table]
    /\ Goto(c, "decide")
    /\ Stay
    /\ UNCHANGED <<machine, mem, rule>>

\* Mutant: find() forgets the from-state.
FoundByAction(c) == {i \in 1..Def(c) : JM!Rules[i].action = req[c].action}

\* The transitions find() may return: (from, action) picks one.
Found(c) ==
    {i \in 1..Def(c) : /\ JM!Rules[i].action = req[c].action
                       /\ JM!Rules[i].from = JM!StatusOf(mem[c], Def(c))}

Allowed(c, i) == req[c].role \in JM!Rules[i].roles

\* Mutant: a hook is registered under a misspelt key, so the action has no condition.
GateOpen(c, i) == TRUE

\* The hook's condition, on the document in memory; without a hook there is none.
GateMet(c, i) == JM!GateOf(JM!Rules[i].action) \subseteq mem[c].paid

\* transition(): find, the roles, the condition; then the state is set.
Decide(c) ==
    /\ pc[c] = "decide"
    /\ \/ /\ Found(c) = {}
          /\ Reject(c, 409)
       \/ /\ \E i \in Found(c) : ~Allowed(c, i)
          /\ Reject(c, 403)
       \/ /\ \E i \in Found(c) : Allowed(c, i) /\ ~GateMet(c, i)
          /\ Reject(c, 409)
       \/ \E i \in Found(c) :
             /\ Allowed(c, i) /\ GateMet(c, i)
             /\ mem' = [mem EXCEPT ![c] = [status |-> JM!Rules[i].to,
                                           paid |-> mem[c].paid]]
             /\ rule' = [rule EXCEPT ![c] = i]
             /\ Goto(c, "existing")
             /\ UNCHANGED <<machine, def, req, resp, conn, updates>>
    /\ UNCHANGED faults

\* save(): validation may refuse (a customer or quotation link that is gone); then
\* the row is read again.  A Job is not submittable, its docstatus stays 0, so the
\* immutability guard lets it pass.
Existing(c) ==
    /\ pc[c] = "existing"
    /\ \/ Reject(c, 400)
       \/ /\ Goto(c, "update")
          /\ UNCHANGED <<machine, def, req, mem, rule, resp, conn, updates>>
    /\ UNCHANGED faults

\* UPDATE writes every scalar of the document in memory.  An update is then answered,
\* by a late 404 if the registry has lost the meta maskRead asks for.
Update(c) ==
    /\ pc[c] = "update"
    /\ ~LockedFor(c)
    /\ \/ /\ IsTx(c)
          /\ Goto(c, "log")
          /\ UNCHANGED <<machine, def, req, mem, rule, resp, conn, updates>>
       \/ /\ ~IsTx(c)
          /\ row' = mem[c]
          /\ \E code \in {200, 404} : End(c, code)
          /\ UNCHANGED <<log, table, hooks, def>>
    /\ UNCHANGED faults

\* The audit row, on the transaction (no Job action has an onTransition hook).
Log(c) ==
    /\ pc[c] = "log"
    /\ Goto(c, "commit")
    /\ Stay
    /\ UNCHANGED <<machine, def, mem, rule>>

\* Mutant: the audit row is inserted through another store and lost.
CommitWithoutLog(c) ==
    /\ pc[c] = "commit"
    /\ row' = mem[c]
    /\ End(c, 200)
    /\ UNCHANGED <<log, table, hooks, def, faults>>

\* The audit row says where the request came from, the row where it went.
Commit(c) ==
    /\ pc[c] = "commit"
    /\ row' = mem[c]
    /\ log' = Append(log, JM!Entry(rule[c], row.paid))
    /\ End(c, 200)
    /\ UNCHANGED <<table, hooks, def, faults>>

\* maskRead runs inside the transaction: its 404 rolls the move back.
MissLate(c) ==
    /\ pc[c] = "commit"
    /\ Reject(c, 404)
    /\ UNCHANGED faults

-----------------------------------------------------------------------------
(* Faults and the seed *)

\* A store call fails, or COMMIT's acknowledgement is lost.
StoreError(c) ==
    /\ pc[c] \notin {"idle", "queued"}
    /\ faults < MaxFaults
    /\ faults' = faults + 1
    /\ \/ Reject(c, 500)
       \/ /\ pc[c] = "commit"
          /\ row' = mem[c]
          /\ log' = Append(log, JM!Entry(rule[c], row.paid))
          /\ End(c, 500)
          /\ UNCHANGED <<table, hooks, def>>

\* The instance dies: its requests are lost and its module state with it.
Crash(l) ==
    LET dead == {c \in Clients : Active(c) /\ Lambda(c) = l} IN
    /\ faults < MaxFaults
    /\ faults' = faults + 1
    /\ def' = [def EXCEPT ![l] = Unloaded]
    /\ conn' = [conn EXCEPT ![l] = NoClient]
    /\ pc' = [c \in Clients |-> IF c \in dead THEN "idle" ELSE pc[c]]
    /\ resp' = [c \in Clients |-> IF c \in dead THEN 1 ELSE resp[c]]
    /\ mem' = [c \in Clients |-> IF c \in dead THEN NoRow ELSE mem[c]]
    /\ rule' = [c \in Clients |-> IF c \in dead THEN NoRule ELSE rule[c]]
    /\ req' = [c \in Clients |-> IF c \in dead
                                THEN Blank("action", CHOOSE k \in Lambdas : TRUE)
                                ELSE req[c]]
    /\ UNCHANGED <<machine, updates>>

\* seedJobWorkflow(), run by an operator, has inserted more rows, or all of them.
Seed ==
    /\ table < Len(JM!Rules)
    /\ table' \in {n \in SeedStops \cup {Len(JM!Rules)} : n > table}
    /\ UNCHANGED <<row, log, hooks, def, req, pc, mem, rule, resp, conn, updates, faults>>

\* Nobody sends another request: a bound is reached.
Finished == (\A c \in Clients : pc[c] = "idle") /\ Len(log) >= MaxLog /\ UNCHANGED vars

Next ==
    \/ \E c \in Clients :
          \/ \E l \in Lambdas : ArriveAction(c, l)
          \/ \E l \in Lambdas, p \in Patches, role \in Roles : ArriveUpdate(c, l, p, role)
          \/ \E a \in JM!Actions \cup {"submit"}, role \in Roles : Begin(c, a, role)
          \/ Gate(c) \/ Load(c) \/ Workflow(c) \/ LoadRules(c) \/ Decide(c)
          \/ Existing(c) \/ Update(c) \/ Log(c) \/ Commit(c) \/ MissLate(c)
          \/ StoreError(c)
    \/ \E l \in Lambdas : Crash(l)
    \/ Seed
    \/ Finished

Spec == Init /\ [][Next]_vars

-----------------------------------------------------------------------------
(* Properties *)

\* Each audit row starts where the one before it ended, the first one at the
\* initial state, and the Job's status is where the last one ended: the audit
\* trail of workflow.js is the Job's history (no patch sends a status).
LogTellsStatus ==
    /\ \A i \in 1..(Len(log) - 1) : log[i].to = log[i + 1].from
    /\ log # <<>> => log[1].from = "Won" /\ row.status = log[Len(log)].to
    /\ log = <<>> => row.status \in {"Won", Null}

\* Where job.hooks.js is imported, a Job is scheduled, installed or complete only along
\* the whole path, and paid for at each gate of it: since it last entered Measure it has
\* passed sign-off with the balance in its row, manufacturing, and scheduling with that
\* payment in its row, and before that it entered Measure from Won with the deposit in
\* its row.  Where it is not, as in the functions under api/, none of it holds.
Passed(actions, after) ==
    \A a \in actions : \E i \in (after + 1)..Len(log) :
        log[i].action = a /\ JM!PaymentFor(a) \subseteq log[i].paid

LastMeasure == CHOOSE i \in 1..Len(log) :
    /\ log[i].to = "Measure"
    /\ \A j \in (i + 1)..Len(log) : log[j].to # "Measure"

ScheduledIsPaid ==
    hooks /\ row.status \in {"Scheduling", "Install", "Complete"} =>
        /\ Passed({"start_measure"}, 0)
        /\ Passed({"start_signoff", "to_manufacturing", "to_scheduling"}, LastMeasure)

\* The statements implement the Job status machine.
ImplementsJobMachine == JM!Spec

=============================================================================
