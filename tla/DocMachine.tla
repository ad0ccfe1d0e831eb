----------------------------- MODULE DocMachine -----------------------------
(***************************************************************************)
(* What the document runtime promises of one document, whatever requests   *)
(* are running: the docstatus state machine absent -> draft -> submitted   *)
(* -> cancelled, each transition taken at most once and together with the  *)
(* one side effect its hook posts, and edits that only ever reach a draft  *)
(* and never take back an earlier edit.                                    *)
(*                                                                         *)
(* Module Lifecycle, the code's statements one by one, is shown to         *)
(* implement this specification under the conditions stated there.         *)
(***************************************************************************)
EXTENDS Integers

CONSTANTS Docs, Singles, Reqs

VARIABLES rows, ledger

vars == <<rows, ledger>>

Absent == -1
Draft == 0
Submitted == 1
Cancelled == 2

Init ==
    /\ rows \in [Docs -> [status : {Absent, Draft}, patches : {{}}]]
    /\ ledger = [d \in Docs |-> {}]

\* The first save of a document.
Create(d, r) ==
    /\ rows[d].status = Absent
    /\ rows' = [rows EXCEPT ![d] = [status |-> Draft, patches |-> {r}]]
    /\ UNCHANGED ledger

\* A later save: it adds its patch to the draft and keeps every other one.
Edit(d, r) ==
    /\ rows[d].status = Draft
    /\ rows' = [rows EXCEPT ![d] = [status |-> Draft, patches |-> rows[d].patches \cup {r}]]
    /\ UNCHANGED ledger

\* A transition: the status moves by one and the hook's effect is recorded.  A
\* Single that was never saved counts as a draft.
Move(d, r, op, from) ==
    /\ \/ rows[d].status = from
       \/ d \in Singles /\ rows[d].status = Absent /\ from = Draft
    /\ rows' = [rows EXCEPT ![d] = [status |-> from + 1, patches |-> rows[d].patches]]
    /\ ledger' = [ledger EXCEPT ![d] = @ \cup {[by |-> r, op |-> op]}]

Submit(d, r) == Move(d, r, "submit", Draft)
Cancel(d, r) == Move(d, r, "cancel", Submitted)

Next ==
    \E d \in Docs, r \in Reqs :
        Create(d, r) \/ Edit(d, r) \/ Submit(d, r) \/ Cancel(d, r)

Spec == Init /\ [][Next]_vars

=============================================================================
