----------------------------- MODULE JobMachine -----------------------------
(***************************************************************************)
(* The Job status machine of src/src/doctypes/job/: the 15 transition rows *)
(* of the seed, the roles each allows, the payment gates of the hooks in a *)
(* process that imports them, and what one transition promises: it starts  *)
(* from the Job's status, a registered gate is met by the Job's payments,  *)
(* the move and its audit row are one.                                     *)
(*                                                                         *)
(* Module JobWorkflow, the statements of the code, implements it under the *)
(* conditions stated there.                                                *)
(***************************************************************************)
EXTENDS Integers, Sequences

CONSTANTS
    Patches,    \* what an update may do to a Job
    SeedStops,  \* how many transition rows others may find while the seed runs
    Null, Keep  \* no status in the row; no status in the patch

VARIABLES
    row, log, table,
    hooks       \* have the processes imported job.hooks.js?  bootstrap.js does not

\* A row of the seed: the i-th one has idx = i.
Rule(action, from, to, roles) ==
    [action |-> action, from |-> from, to |-> to, roles |-> roles]

Admin == {"admin"}
Both == {"admin", "scheduler"}

Rules == <<
    Rule("start_measure", "Won", "Measure", Admin),
    Rule("start_signoff", "Measure", "Sign-off", Admin),
    Rule("to_manufacturing", "Sign-off", "Manufacturing", Admin),
    Rule("to_scheduling", "Manufacturing", "Scheduling", Both),
    Rule("to_install", "Scheduling", "Install", Both),
    Rule("complete", "Install", "Complete", Both),
    Rule("hold", "Measure", "Hold", Both),
    Rule("hold", "Sign-off", "Hold", Both),
    Rule("hold", "Manufacturing", "Hold", Both),
    Rule("hold", "Scheduling", "Hold", Both),
    Rule("resume", "Hold", "Measure", Both),
    Rule("cancel", "Won", "Cancelled", Admin),
    Rule("cancel", "Measure", "Cancelled", Admin),
    Rule("cancel", "Sign-off", "Cancelled", Admin),
    Rule("cancel", "Hold", "Cancelled", Admin) >>

States == {Rules[i].from : i \in DOMAIN Rules} \cup {Rules[i].to : i \in DOMAIN Rules}
Actions == {Rules[i].action : i \in DOMAIN Rules}

\* The payment a hook's condition asks for, by action.
Gates == {"deposit", "balance", "mfg"}
PaymentFor(action) ==
    CASE action = "start_measure" -> {"deposit"}
      [] action = "start_signoff" -> {"balance"}
      [] action = "to_scheduling" -> {"mfg"}
      [] OTHER -> {}

\* The gate getHooks() finds for the action: importing job.hooks.js registers it, and
\* without that import WORKFLOW_HOOKS is empty and no action has a condition.
GateOf(action) == IF hooks THEN PaymentFor(action) ELSE {}

\* The initial state is the from-state of the first row, '' without any.
Initial(n) == IF n = 0 THEN "" ELSE Rules[1].from

\* `doc.status ?? wf.initial`, under a workflow of the first n rows.
StatusOf(r, n) == IF r.status = Null THEN Initial(n) ELSE r.status

\* No Workflow row.
NoWorkflow == -1

\* A patch sets and clears payments, and may set the status.
Patched(r, p) ==
    [status |-> IF p.status = Keep THEN r.status ELSE p.status,
     paid   |-> (r.paid \ p.clear) \cup p.set]

\* The audit row of a move.  paid is no column of it: it is history, the payments the
\* Job's row held at that moment.
Entry(i, paid) == [from |-> Rules[i].from, to |-> Rules[i].to,
                   action |-> Rules[i].action, paid |-> paid]

Init ==
    /\ row \in [status : {"Won", Null}, paid : {{}}]
    /\ log = <<>>
    /\ table \in {NoWorkflow, Len(Rules)}
    /\ hooks \in BOOLEAN

\* seedJobWorkflow() inserts the Workflow row, then the transition rows one by one.
Seed ==
    /\ table < Len(Rules)
    /\ table' \in {n \in SeedStops \cup {Len(Rules)} : n > table}
    /\ UNCHANGED <<row, log, hooks>>

Move(i) ==
    /\ i <= table
    /\ StatusOf(row, table) = Rules[i].from
    /\ GateOf(Rules[i].action) \subseteq row.paid
    /\ row' = [row EXCEPT !.status = Rules[i].to]
    /\ log' = Append(log, Entry(i, row.paid))
    /\ UNCHANGED <<table, hooks>>

Update(p) ==
    /\ row' = Patched(row, p)
    /\ UNCHANGED <<log, table, hooks>>

Next == Seed \/ (\E i \in DOMAIN Rules : Move(i)) \/ (\E p \in Patches : Update(p))

Spec == Init /\ [][Next]_<<row, log, table, hooks>>

=============================================================================
