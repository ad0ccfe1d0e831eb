---------------------------- MODULE SerialProofs -----------------------------
(* Lifecycle under the assumption Serial: one connection for the transitions *)
(* and no edit beside another request on its document.  SerialInv is then    *)
(* inductive, and what users rely on follows from it: the ledger matches the *)
(* docstatus, a submitted document is immutable, the statements implement    *)
(* the document machine of DocMachine, and the children of a document are    *)
(* those of one save.                                                        *)
EXTENDS LifecycleProofs

\* The step is r's: no other request's private state changes.
OnlyRequest(r) ==
    \A q \in Reqs \ {r} : /\ pc'[q] = pc[q] /\ req'[q] = req[q]
                          /\ mem'[q] = mem[q] /\ del'[q] = del[q]

\* The step writes no other document than d.
OnlyDoc(d) ==
    \A e \in Docs \ {d} :
        rows'[e] = rows[e] /\ kids'[e] = kids[e] /\ ledger'[e] = ledger[e]

Knows(r) == KnowsRow(r) /\ KnowsChange(r)

-----------------------------------------------------------------------------
\* Two requests never have open statements on the same document.
LEMMA OneWriter ==
    ASSUME Serial, TypeOK, ConnInv, AloneInv, NEW r \in Reqs, NEW q \in Reqs,
           pc[r] \in OpenPC, pc[q] \in OpenPC, Doc(r) = Doc(q)
    PROVE  r = q
<1>1. req[r].lambda = req[q].lambda
  BY DEF Serial, TypeOK, Request
<1>2. Active(r) /\ Active(q)
  BY DEF Active, OpenPC
<1> QED
  BY <1>1, <1>2 DEF ConnInv, AloneInv

\* What q knows stays true as long as its document is not written, or q has no
\* open statement.
LEMMA Frame ==
    ASSUME TypeOK, NEW q \in Reqs, Knows(q),
           pc'[q] = pc[q], req'[q] = req[q], mem'[q] = mem[q], del'[q] = del[q],
           \/ rows'[Doc(q)] = rows[Doc(q)] /\ kids'[Doc(q)] = kids[Doc(q)]
           \/ pc[q] \notin OpenPC
    PROVE  Knows(q)'
<1>1. CASE rows'[Doc(q)] = rows[Doc(q)] /\ kids'[Doc(q)] = kids[Doc(q)]
  BY <1>1 DEF Knows, KnowsRow, KnowsChange, Doc, IsTx, Shown
<1>2. CASE pc[q] \notin OpenPC
  BY <1>2 DEF Knows, KnowsRow, KnowsChange, Doc, IsTx, Shown, OpenPC, WrotePC
<1> QED
  BY <1>1, <1>2

\* A step of r disturbs nobody else's knowledge.
LEMMA OthersKnow ==
    ASSUME Serial, TypeOK, SerialInv, NEW r \in Reqs, OnlyRequest(r),
           \/ UNCHANGED db
           \/ pc[r] \in OpenPC /\ OnlyDoc(Doc(r)),
           NEW q \in Reqs \ {r}
    PROVE  Knows(q)'
<1>1. Knows(q) /\ Doc(q) \in Docs
  BY DEF SerialInv, KnowsInv, Knows, Doc, TypeOK, Request
<1>2. CASE UNCHANGED db
  BY <1>1, <1>2, Frame DEF OnlyRequest, db
<1>3. CASE pc[r] \in OpenPC /\ OnlyDoc(Doc(r)) /\ Doc(q) = Doc(r)
  <2>1. pc[q] \notin OpenPC
    BY <1>3, OneWriter DEF SerialInv
  <2> QED
    BY <1>1, <2>1, Frame DEF OnlyRequest
<1>4. CASE OnlyDoc(Doc(r)) /\ Doc(q) # Doc(r)
  BY <1>1, <1>4, Frame DEF OnlyRequest, OnlyDoc
<1> QED
  BY <1>2, <1>3, <1>4

-----------------------------------------------------------------------------
(* ConnInv and AloneInv *)

LEMMA LeaveConn ==
    ASSUME TypeOK, ConnInv, NEW r \in Reqs, Leave(r), req' = req,
           pc'[r] \notin OpenPC, \A q \in Reqs \ {r} : pc'[q] = pc[q]
    PROVE  ConnInv'
  BY DEF TypeOK, Request, ConnInv, Leave, IsTx

LEMMA AloneMove ==
    ASSUME TypeOK, AloneInv, req' = req, \A q \in Reqs : Active(q)' => Active(q)
    PROVE  AloneInv'
  BY DEF AloneInv, Doc, IsTx

\* A step of r that keeps its connection and goes to another statement.
LEMMA KeepConn ==
    ASSUME TypeOK, ConnInv, NEW r \in Reqs, pc[r] \in OpenPC,
           UNCHANGED <<req, conn>>, \A q \in Reqs \ {r} : pc'[q] = pc[q]
    PROVE  ConnInv'
  BY DEF TypeOK, ConnInv, IsTx

-----------------------------------------------------------------------------
(* The invariant without KindInv, which KindNext preserves *)

SerialCore == ConnInv /\ AloneInv /\ AbsentInv /\ KnowsInv /\ LedgerMatchesStatus

LEMMA QuietDb ==
    ASSUME UNCHANGED db, AbsentInv, LedgerMatchesStatus
    PROVE  AbsentInv' /\ LedgerMatchesStatus'
  BY DEF db, AbsentInv, LedgerMatchesStatus, LedgerMatches

\* A step of r that keeps the connection, in terms of what it must establish.
LEMMA StepSerial ==
    ASSUME Serial, TypeOK, SerialInv, NEW r \in Reqs, pc[r] \in OpenPC,
           OnlyRequest(r), UNCHANGED <<req, conn>>,
           \/ UNCHANGED db
           \/ OnlyDoc(Doc(r)) /\ AbsentInv' /\ LedgerMatchesStatus',
           Knows(r)'
    PROVE  SerialCore'
<1>1. ConnInv'
  BY KeepConn DEF SerialInv, OnlyRequest
<1>2. AloneInv'
  <2>1. Active(r)
    BY DEF Active, OpenPC
  <2> QED
    BY <2>1, AloneMove DEF SerialInv, OnlyRequest, Active
<1>3. KnowsInv'
  BY OthersKnow DEF KnowsInv, Knows
<1>4. AbsentInv' /\ LedgerMatchesStatus'
  BY QuietDb DEF SerialInv
<1> QED
  BY <1>1, <1>2, <1>3, <1>4 DEF SerialCore

\* The end of a request, its document unwritten: nothing of it is left to know.
LEMMA EndKnows ==
    ASSUME TypeOK, NEW r \in Reqs, Leave(r), req' = req,
           pc'[r] \in {"answer", "done"}
    PROVE  Knows(r)'
  BY DEF TypeOK, Leave, Knows, KnowsRow, KnowsChange, Doc, IsTx, OpenPC, WrotePC

LEMMA EndSerial ==
    ASSUME Serial, TypeOK, SerialInv, NEW r \in Reqs, Leave(r), req' = req,
           Active(r), pc'[r] \in {"answer", "done"}, UNCHANGED db,
           \A q \in Reqs \ {r} : pc'[q] = pc[q]
    PROVE  SerialCore'
<1>1. OnlyRequest(r)
  BY DEF OnlyRequest, Leave, TypeOK
<1>2. ConnInv'
  BY LeaveConn DEF SerialInv, OpenPC
<1>3. AloneInv'
  BY AloneMove DEF SerialInv, Active
<1>4. KnowsInv'
  BY <1>1, OthersKnow, EndKnows DEF KnowsInv, Knows
<1>5. AbsentInv' /\ LedgerMatchesStatus'
  BY QuietDb DEF SerialInv
<1> QED
  BY <1>2, <1>3, <1>4, <1>5 DEF SerialCore

LEMMA RejectSerial ==
    ASSUME Serial, TypeOK, SerialInv, NEW r \in Reqs, NEW code, Active(r),
           Reject(r, code)
    PROVE  SerialCore'
  BY EndSerial DEF Reject, TypeOK

-----------------------------------------------------------------------------
(* Reading *)

LEMMA GateSerial ==
    ASSUME Serial, TypeOK, SerialInv, NEW r \in Reqs, Gate(r) PROVE SerialCore'
<1>1. OnlyRequest(r) /\ pc[r] \in OpenPC
  BY DEF Gate, Goto, OnlyRequest, TypeOK, OpenPC
<1>2. Knows(r)
  BY DEF SerialInv, KnowsInv, Knows
<1>3. Knows(r)'
  BY <1>2 DEF Gate, Goto, Knows, KnowsRow, KnowsChange, Doc, IsTx, Shown, TypeOK, WrotePC,
            db, Transitions, OpenPC
<1> QED
  BY <1>1, <1>3, StepSerial DEF Gate, pool

LEMMA LoadSerial ==
    ASSUME Serial, TypeOK, SerialInv, NEW r \in Reqs, Load(r) PROVE SerialCore'
<1>0. pc[r] \in OpenPC /\ Active(r)
  BY DEF Load, OpenPC, Active
<1>1. CASE Reject(r, 404)
  BY <1>0, <1>1, RejectSerial
<1>2. CASE ~Reject(r, 404)
  <2>1. OnlyRequest(r)
    BY <1>2 DEF Load, Goto, OnlyRequest, TypeOK
  <2>2. Knows(r)
    BY DEF SerialInv, KnowsInv, Knows
  <2>3. req[r].kind # "create" /\ Doc(r) \in Docs
    BY DEF SerialInv, KindInv, Load, Doc, TypeOK, Request
  <2>4. AbsentInv
    BY DEF SerialInv
  <2>5. rows' = rows /\ kids' = kids /\ req' = req /\ del' = del /\ del[r] = {}
    BY <1>2, <2>2 DEF Load, db, Knows, KnowsChange
  <2>6. ASSUME rows[Doc(r)].status # Absent PROVE Knows(r)'
    <3>1. /\ pc'[r] = "children"
          /\ mem'[r].status = rows[Doc(r)].status
          /\ mem'[r].patches = rows[Doc(r)].patches
      BY <1>2, <2>6 DEF Load, Goto, TypeOK
    <3> QED
      BY <2>2, <2>3, <2>5, <2>6, <3>1
      DEF Knows, KnowsRow, KnowsChange, Doc, IsTx, Shown, WrotePC
  <2>7. ASSUME rows[Doc(r)].status = Absent PROVE Knows(r)'
    <3>1. /\ pc'[r] = "check" /\ Doc(r) \in Singles
          /\ mem'[r].status = Draft /\ mem'[r].patches = {} /\ mem'[r].kids = {}
      BY <1>2, <2>7 DEF Load, Goto, TypeOK
    <3>2. rows[Doc(r)].patches = {} /\ kids[Doc(r)] = {}
      BY <2>3, <2>4, <2>7 DEF AbsentInv
    <3> QED
      BY <2>2, <2>3, <2>5, <2>7, <3>1, <3>2
      DEF Knows, KnowsRow, KnowsChange, Doc, IsTx, Shown, WrotePC
  <2> QED
    BY <1>0, <1>2, <2>1, <2>6, <2>7, StepSerial DEF Load, pool
<1> QED
  BY <1>1, <1>2

LEMMA LoadChildrenSerial ==
    ASSUME Serial, TypeOK, SerialInv, NEW r \in Reqs, LoadChildren(r) PROVE SerialCore'
<1>1. OnlyRequest(r) /\ pc[r] \in OpenPC
  BY DEF LoadChildren, Goto, OnlyRequest, TypeOK, OpenPC
<1>2. Knows(r)
  BY DEF SerialInv, KnowsInv, Knows
<1>3. mem'[r].kids = kids[Doc(r)] \ del[r] /\ mem'[r].status = mem[r].status
      /\ mem'[r].patches = mem[r].patches
  BY DEF LoadChildren, TypeOK, Memory, VisibleKids
<1>4. pc'[r] = "check" /\ del[r] = {} /\ pc[r] = "children"
  BY <1>2 DEF LoadChildren, Goto, TypeOK, Knows, KnowsChange
<1>5. Knows(r)'
  BY <1>2, <1>3, <1>4
  DEF LoadChildren, Knows, KnowsRow, KnowsChange, Doc, IsTx, Shown, WrotePC, db, TypeOK
<1> QED
  BY <1>1, <1>5, StepSerial DEF LoadChildren, pool

LEMMA CheckSerial ==
    ASSUME Serial, TypeOK, SerialInv, NEW r \in Reqs, Check(r) PROVE SerialCore'
<1>0. pc[r] \in OpenPC /\ Active(r)
  BY DEF Check, OpenPC, Active
<1>1. CASE Reject(r, 409)
  BY <1>0, <1>1, RejectSerial
<1>2. CASE ~Reject(r, 409)
  <2>1. OnlyRequest(r)
    BY <1>2 DEF Check, Goto, OnlyRequest, TypeOK
  <2>2. Knows(r)
    BY DEF SerialInv, KnowsInv, Knows
  <2>3. mem'[r] = Changed(r) /\ del'[r] = {} /\ ~WrongStatus(r) /\ pc[r] = "check"
    BY <1>2, <2>2 DEF Check, TypeOK, Knows, KnowsChange
  <2>4. pc'[r] = IF req[r].kind = "create" THEN "insert" ELSE "existing"
    BY <1>2 DEF Check, Goto, TypeOK
  <2>5. rows' = rows /\ kids' = kids /\ req' = req
    BY <1>2 DEF Check, db
  <2>6. ASSUME IsTx(r) PROVE Knows(r)'
    <3>1. req[r].kind # "create" /\ req[r].kind # "update"
      BY <2>6 DEF IsTx, Transitions
    <3>2. /\ mem[r].status = FromStatus(req[r].kind)
          /\ mem[r].status = Shown(Doc(r))
          /\ mem[r].patches = rows[Doc(r)].patches /\ mem[r].kids = kids[Doc(r)]
          /\ rows[Doc(r)].status = Absent => Doc(r) \in Singles
      BY <2>2, <2>3, <2>6, <3>1 DEF Knows, KnowsRow, KnowsChange, WrongStatus, OpenPC
    <3>3. /\ mem'[r].status = FromStatus(req[r].kind) + 1
          /\ mem'[r].patches = rows[Doc(r)].patches /\ mem'[r].kids = kids[Doc(r)]
      BY <2>3, <2>6, <3>2 DEF Changed
    <3>4. pc'[r] = "existing" /\ IsTx(r)'
      BY <2>4, <2>5, <2>6, <3>1 DEF IsTx
    <3> QED
      BY <2>3, <2>5, <3>1, <3>2, <3>3, <3>4
      DEF Knows, KnowsRow, KnowsChange, Doc, Shown, WrotePC
  <2>7. ASSUME ~IsTx(r) PROVE Knows(r)'
    <3>1. /\ mem'[r].status = mem[r].status
          /\ mem'[r].patches = mem[r].patches \cup {r}
      BY <2>3, <2>7 DEF Changed
    <3> QED
      BY <2>2, <2>3, <2>4, <2>5, <2>7, <3>1
      DEF Knows, KnowsRow, KnowsChange, Doc, IsTx, Shown, WrotePC, OpenPC
  <2> QED
    BY <1>0, <1>2, <2>1, <2>6, <2>7, StepSerial DEF Check, pool
<1> QED
  BY <1>1, <1>2

LEMMA ExistingSerial ==
    ASSUME Serial, TypeOK, SerialInv, NEW r \in Reqs, Existing(r) PROVE SerialCore'
<1>0. pc[r] \in OpenPC /\ Active(r)
  BY DEF Existing, OpenPC, Active
<1>1. CASE Reject(r, 409)
  BY <1>0, <1>1, RejectSerial
<1>2. CASE ~Reject(r, 409)
  <2>1. OnlyRequest(r)
    BY <1>2 DEF Existing, Goto, OnlyRequest, TypeOK, locals
  <2>2. Knows(r) /\ req[r].kind # "create"
    BY DEF SerialInv, KnowsInv, Knows, KindInv, Existing
  <2>3. pc'[r] = IF rows[Doc(r)].status = Absent THEN "insert" ELSE "update"
    BY <1>2 DEF Existing, Goto, TypeOK
  <2>4. rows' = rows /\ kids' = kids /\ req' = req /\ mem' = mem /\ del' = del
        /\ ~Immutable(rows[Doc(r)].status, mem[r].status) /\ pc[r] = "existing"
    BY <1>2 DEF Existing, db, locals
  <2>5. rows[Doc(r)].status \in Status
    BY DEF TypeOK, Doc, Request, Row
  <2>6. Knows(r)'
    BY <2>2, <2>3, <2>4, <2>5
    DEF Knows, KnowsRow, KnowsChange, Doc, IsTx, Shown, WrotePC, Immutable, OpenPC,
        Status, Absent, Draft, Submitted, Cancelled, Transitions
  <2> QED
    BY <1>0, <1>2, <2>1, <2>6, StepSerial DEF Existing, pool
<1> QED
  BY <1>1, <1>2

LEMMA HookSerial ==
    ASSUME Serial, TypeOK, SerialInv, NEW r \in Reqs, Hook(r) PROVE SerialCore'
<1>1. OnlyRequest(r) /\ pc[r] \in OpenPC
  BY DEF Hook, Goto, OnlyRequest, TypeOK, OpenPC, locals
<1>2. Knows(r)
  BY DEF SerialInv, KnowsInv, Knows
<1>3. Knows(r)'
  BY <1>2 DEF Hook, Goto, Knows, KnowsRow, KnowsChange, Doc, IsTx, Shown, TypeOK, WrotePC,
            db, locals, OpenPC
<1> QED
  BY <1>1, <1>3, StepSerial DEF Hook, pool

-----------------------------------------------------------------------------
(* Writing *)

\* An edit's header: a draft stays or becomes a draft, and its ledger is empty.
LEMMA HeaderSerial ==
    ASSUME TypeOK, SerialInv, NEW r \in Reqs, ~IsTx(r), WriteHeader(r),
           UNCHANGED <<kids, ledger>>, mem[r].status = Draft,
           rows[Doc(r)].status \in {Absent, Draft}
    PROVE  /\ AbsentInv' /\ LedgerMatchesStatus' /\ OnlyDoc(Doc(r))
           /\ rows'[Doc(r)].status = Draft
<1>1. Doc(r) \in Docs
  BY DEF Doc, TypeOK, Request
<1>2. /\ \A e \in Docs \ {Doc(r)} : rows'[e] = rows[e]
      /\ rows'[Doc(r)].status = Draft
  BY <1>1 DEF WriteHeader, TypeOK
<1>3. AbsentInv'
  BY <1>1, <1>2 DEF AbsentInv, SerialInv, Absent, Draft
<1>4. LedgerMatchesStatus'
  BY <1>1, <1>2
  DEF LedgerMatchesStatus, LedgerMatches, SerialInv, Absent, Draft, Submitted, Cancelled
<1> QED
  BY <1>2, <1>3, <1>4 DEF OnlyDoc

LEMMA UpdateSerial ==
    ASSUME Serial, TypeOK, SerialInv, NEW r \in Reqs, Update(r) PROVE SerialCore'
<1>1. OnlyRequest(r) /\ pc[r] \in OpenPC
  BY DEF Update, Goto, OnlyRequest, TypeOK, OpenPC, locals
<1>2. Knows(r) /\ req[r].kind # "create"
  BY DEF SerialInv, KnowsInv, Knows, KindInv, Update
<1>3. /\ pc[r] = "update" /\ pc'[r] = "clear"
      /\ req' = req /\ mem' = mem /\ del' = del /\ kids' = kids /\ ledger' = ledger
      /\ WriteHeader(r)
  BY DEF Update, Goto, TypeOK, locals
<1>4. CASE IsTx(r)
  <2>1. rows' = rows
    BY <1>3, <1>4 DEF WriteHeader
  <2>2. Knows(r)'
    BY <1>2, <1>3, <1>4, <2>1
    DEF Knows, KnowsRow, KnowsChange, Doc, IsTx, Shown, WrotePC, OpenPC
  <2> QED
    BY <1>1, <1>3, <2>1, <2>2, StepSerial DEF Update, pool, db
<1>5. CASE ~IsTx(r)
  <2>1. Active(r)
    BY <1>3 DEF Active
  <2>2. req[r].kind = "update"
    BY <1>2, <1>5, <2>1 DEF SerialInv, KindInv, IsTx, TypeOK, Request, Edits
  <2>3. rows[Doc(r)].status = Draft /\ mem[r].status = Draft
    BY <1>2, <1>3, <2>2 DEF Knows, KnowsChange, Shown
  <2>4. /\ AbsentInv' /\ LedgerMatchesStatus' /\ OnlyDoc(Doc(r))
        /\ rows'[Doc(r)].status = Draft
    BY <1>3, <1>5, <2>3, HeaderSerial
  <2>5. Knows(r)'
    BY <1>2, <1>3, <1>5, <2>2, <2>4
    DEF Knows, KnowsRow, KnowsChange, Doc, IsTx, Absent, Draft
  <2> QED
    BY <1>1, <1>3, <2>4, <2>5, StepSerial DEF Update, pool
<1> QED
  BY <1>4, <1>5

LEMMA InsertSerial ==
    ASSUME Serial, TypeOK, SerialInv, NEW r \in Reqs, Insert(r) PROVE SerialCore'
<1>0. pc[r] \in OpenPC /\ Active(r)
  BY DEF Insert, OpenPC, Active
<1>1. CASE Reject(r, 500)
  BY <1>0, <1>1, RejectSerial
<1>2. CASE ~Reject(r, 500)
  <2>1. OnlyRequest(r)
    BY <1>2 DEF Insert, Goto, OnlyRequest, TypeOK, locals
  <2>2. Knows(r)
    BY DEF SerialInv, KnowsInv, Knows
  <2>3. /\ pc[r] = "insert" /\ pc'[r] \in {"clear", "fill", "hook", "answer"}
        /\ pc'[r] = "hook" => IsTx(r)
        /\ req' = req /\ mem' = mem /\ del' = del /\ kids' = kids /\ ledger' = ledger
        /\ WriteHeader(r) /\ rows[Doc(r)].status = Absent
    BY <1>2 DEF Insert, Goto, TypeOK, locals, AfterKids
  <2>4. CASE IsTx(r)
    <3>1. rows' = rows
      BY <2>3, <2>4 DEF WriteHeader
    <3>2. Knows(r)'
      BY <2>2, <2>3, <2>4, <3>1
      DEF Knows, KnowsRow, KnowsChange, Doc, IsTx, Shown, WrotePC, OpenPC
    <3> QED
      BY <1>0, <1>2, <2>1, <2>3, <3>1, <3>2, StepSerial DEF Insert, pool, db
  <2>5. CASE ~IsTx(r)
    <3>1. req[r].kind \in {"create", "update"}
      BY <1>0, <2>5 DEF SerialInv, KindInv, IsTx, TypeOK, Request, Edits
    <3>2. mem[r].status = Draft
      BY <2>2, <2>3, <3>1 DEF Knows, KnowsChange, Shown
    <3>3. /\ AbsentInv' /\ LedgerMatchesStatus' /\ OnlyDoc(Doc(r))
          /\ rows'[Doc(r)].status = Draft
      BY <2>3, <2>5, <3>2, HeaderSerial
    <3>4. Knows(r)'
      BY <2>2, <2>3, <2>5, <3>1, <3>3
      DEF Knows, KnowsRow, KnowsChange, Doc, IsTx, Absent, Draft
    <3> QED
      BY <1>0, <1>2, <2>1, <2>3, <3>3, <3>4, StepSerial DEF Insert, pool
  <2> QED
    BY <2>4, <2>5
<1> QED
  BY <1>1, <1>2

\* An edit's child rows: its document is a draft, so nothing depends on them.
LEMMA KidsSerial ==
    ASSUME TypeOK, SerialInv, NEW r \in Reqs, rows[Doc(r)].status = Draft,
           NEW S, kids' = [kids EXCEPT ![Doc(r)] = S], UNCHANGED <<rows, ledger>>
    PROVE  AbsentInv' /\ LedgerMatchesStatus' /\ OnlyDoc(Doc(r))
<1>1. OnlyDoc(Doc(r))
  BY DEF OnlyDoc, TypeOK
<1>2. AbsentInv'
  BY DEF AbsentInv, SerialInv, TypeOK, Absent, Draft
<1>3. LedgerMatchesStatus'
  BY DEF LedgerMatchesStatus, LedgerMatches, SerialInv
<1> QED
  BY <1>1, <1>2, <1>3

LEMMA ClearSerial ==
    ASSUME Serial, TypeOK, SerialInv, NEW r \in Reqs, Clear(r) PROVE SerialCore'
<1>0. Doc(r) \in Docs /\ req[r].kind # "create"
  BY DEF Doc, TypeOK, Request, Clear, SerialInv, KindInv
<1>1. OnlyRequest(r) /\ pc[r] \in OpenPC
  BY DEF Clear, Goto, OnlyRequest, TypeOK, OpenPC
<1>2. Knows(r)
  BY DEF SerialInv, KnowsInv, Knows
<1>3. /\ pc[r] = "clear" /\ pc'[r] \in {"fill", "hook", "answer"}
      /\ pc'[r] = "hook" => IsTx(r)
      /\ pc'[r] = "answer" => ~IsTx(r)
      /\ req' = req /\ mem' = mem /\ rows' = rows /\ ledger' = ledger
  BY DEF Clear, Goto, TypeOK, AfterKids
<1>4. CASE IsTx(r)
  <2>1. kids' = kids /\ del'[r] \subseteq kids[Doc(r)]
    BY <1>4 DEF Clear, VisibleKids, TypeOK
  <2>2. Knows(r)'
    BY <1>0, <1>2, <1>3, <1>4, <2>1
    DEF Knows, KnowsRow, KnowsChange, Doc, IsTx, Shown, WrotePC, OpenPC
  <2> QED
    BY <1>1, <1>3, <2>1, <2>2, StepSerial DEF Clear, pool, db
<1>5. CASE ~IsTx(r)
  <2>1. kids' = [kids EXCEPT ![Doc(r)] = {}] /\ del' = del
    BY <1>5 DEF Clear
  <2>2. rows[Doc(r)].status = Draft /\ del[r] = {}
    BY <1>2, <1>3, <1>5 DEF Knows, KnowsChange
  <2>3. AbsentInv' /\ LedgerMatchesStatus' /\ OnlyDoc(Doc(r))
    BY <1>3, <2>1, <2>2, KidsSerial
  <2>4. Knows(r)'
    BY <1>0, <1>2, <1>3, <1>5, <2>1, <2>2
    DEF Knows, KnowsRow, KnowsChange, Doc, IsTx, Absent, Draft
  <2> QED
    BY <1>1, <1>3, <2>3, <2>4, StepSerial DEF Clear, pool
<1> QED
  BY <1>4, <1>5

LEMMA FillSerial ==
    ASSUME Serial, TypeOK, SerialInv, NEW r \in Reqs, Fill(r) PROVE SerialCore'
<1>0. Doc(r) \in Docs /\ pc[r] = "fill" /\ pc[r] \in OpenPC /\ Active(r)
  BY DEF Doc, TypeOK, Request, Fill, OpenPC, Active
<1>1. PICK k \in todo[r] : Fill(r)!(k)
  BY DEF Fill
<1>2. CASE Reject(r, 500)
  BY <1>0, <1>2, RejectSerial
<1>3. CASE ~Reject(r, 500)
  <2>1. /\ OnlyRequest(r)
        /\ pc'[r] \in {"fill", "hook", "answer"}
        /\ pc'[r] = "hook" => IsTx(r)
        /\ pc'[r] = "answer" => ~IsTx(r)
        /\ req' = req /\ mem' = mem /\ rows' = rows /\ ledger' = ledger /\ del' = del
    BY <1>1, <1>3 DEF OnlyRequest, Goto, TypeOK, AfterKids
  <2>2. Knows(r)
    BY DEF SerialInv, KnowsInv, Knows
  <2>3. CASE IsTx(r)
    <3>1. kids' = kids
      BY <1>1, <1>3, <2>3
    <3>2. Knows(r)'
      BY <1>0, <2>1, <2>2, <2>3, <3>1
      DEF Knows, KnowsRow, KnowsChange, Doc, IsTx, Shown, WrotePC, OpenPC
    <3> QED
      BY <1>0, <1>1, <1>3, <2>1, <3>1, <3>2, StepSerial DEF pool, db
  <2>4. CASE ~IsTx(r)
    <3>1. kids' = [kids EXCEPT ![Doc(r)] = kids[Doc(r)] \cup {k}]
      BY <1>1, <1>3, <2>4
    <3>2. rows[Doc(r)].status = Draft /\ del[r] = {}
      BY <1>0, <2>2, <2>4 DEF Knows, KnowsChange
    <3>3. AbsentInv' /\ LedgerMatchesStatus' /\ OnlyDoc(Doc(r))
      BY <2>1, <3>1, <3>2, KidsSerial
    <3>4. Knows(r)'
      BY <1>0, <2>1, <2>2, <2>4, <3>1, <3>2
      DEF Knows, KnowsRow, KnowsChange, Doc, IsTx, Absent, Draft
    <3> QED
      BY <1>0, <1>1, <1>3, <2>1, <3>3, <3>4, StepSerial DEF pool
  <2> QED
    BY <2>3, <2>4
<1> QED
  BY <1>2, <1>3

\* What COMMIT writes: the docstatus one further, the side effect that belongs to
\* it, and nothing else.
LEMMA CommitWrites ==
    ASSUME TypeOK, SerialInv, NEW r \in Reqs, Commit(r)
    PROVE  /\ IsTx(r) /\ Doc(r) \in Docs
           /\ Shown(Doc(r)) = FromStatus(req[r].kind)
           /\ rows[Doc(r)].status = Absent => Doc(r) \in Singles
           /\ OnlyDoc(Doc(r)) /\ kids' = kids
           /\ rows'[Doc(r)] = [status |-> FromStatus(req[r].kind) + 1,
                               patches |-> rows[Doc(r)].patches]
           /\ ledger'[Doc(r)] = ledger[Doc(r)] \cup {[by |-> r, op |-> req[r].kind]}
<1>1. pc[r] = "commit" /\ IsTx(r) /\ Doc(r) \in Docs /\ req[r].kind # "create"
  BY DEF Commit, SerialInv, KindInv, Doc, TypeOK, Request, IsTx, Transitions
<1>2. /\ Shown(Doc(r)) = FromStatus(req[r].kind)
      /\ mem[r].status = FromStatus(req[r].kind) + 1
      /\ mem[r].patches = rows[Doc(r)].patches
      /\ mem[r].kids = kids[Doc(r)] /\ del[r] \subseteq kids[Doc(r)]
      /\ rows[Doc(r)].status = Absent => Doc(r) \in Singles
  BY <1>1 DEF SerialInv, KnowsInv, KnowsChange, OpenPC, WrotePC
<1>3. kids' = kids
  <2>1. kids' = [kids EXCEPT ![Doc(r)] = (kids[Doc(r)] \ del[r]) \cup mem[r].kids]
    BY DEF Commit
  <2>2. (kids[Doc(r)] \ del[r]) \cup mem[r].kids = kids[Doc(r)]
    BY <1>2
  <2> QED
    BY <1>1, <2>1, <2>2 DEF TypeOK
<1> QED
  BY <1>1, <1>2, <1>3 DEF Commit, OnlyDoc, TypeOK

LEMMA CommitSerial ==
    ASSUME Serial, TypeOK, SerialInv, NEW r \in Reqs, Commit(r) PROVE SerialCore'
<1>0. PICK d \in Docs, k \in Transitions : d = Doc(r) /\ k = req[r].kind
  BY CommitWrites DEF IsTx
<1>1. /\ pc[r] \in OpenPC /\ Active(r) /\ Leave(r) /\ req' = req /\ pc'[r] = "answer"
      /\ OnlyRequest(r)
  BY DEF Commit, Goto, OpenPC, Active, TypeOK, Leave, OnlyRequest
<1>2. /\ IsTx(r) /\ d \in Docs /\ Shown(d) = FromStatus(k)
      /\ OnlyDoc(d) /\ kids' = kids
      /\ rows'[d] = [status |-> FromStatus(k) + 1, patches |-> rows[d].patches]
      /\ ledger'[d] = ledger[d] \cup {[by |-> r, op |-> k]}
  BY <1>0, CommitWrites
<1>3. ConnInv' /\ AloneInv'
  BY <1>1, LeaveConn, AloneMove DEF SerialInv, OnlyRequest, OpenPC, Active
<1>4. KnowsInv'
  BY <1>0, <1>1, <1>2, OthersKnow, EndKnows DEF KnowsInv, Knows
<1>5. rows'[d].status = FromStatus(k) + 1
  BY <1>2
<1>6. AbsentInv'
  BY <1>2, <1>5, FromStatusType
  DEF AbsentInv, SerialInv, OnlyDoc, Absent, Submitted, Cancelled
<1>7. LedgerMatches(d)'
  <2>0. LedgerMatches(d)
    BY <1>2 DEF SerialInv, LedgerMatchesStatus
  <2>1. CASE k = "submit"
    <3>1. rows[d].status \in {Absent, Draft} /\ rows'[d].status = Submitted
      BY <2>1, <1>2, <1>5 DEF FromStatus, Shown, Absent, Draft, Submitted
    <3>2. ledger'[d] = {[by |-> r, op |-> "submit"]}
      BY <2>0, <2>1, <3>1, <1>2 DEF LedgerMatches
    <3> QED
      BY <3>1, <3>2 DEF LedgerMatches, Absent, Draft, Submitted, Cancelled
  <2>2. CASE k = "cancel"
    <3>1. rows[d].status = Submitted /\ rows'[d].status = Cancelled
      BY <2>2, <1>2, <1>5 DEF FromStatus, Shown, Absent, Draft, Submitted, Cancelled
    <3>2. PICK q \in Reqs : ledger[d] = {[by |-> q, op |-> "submit"]}
      BY <2>0, <3>1 DEF LedgerMatches
    <3>3. ledger'[d] = {[by |-> q, op |-> "submit"], [by |-> r, op |-> "cancel"]}
      BY <2>2, <3>2, <1>2
    <3> QED
      BY <3>1, <3>3 DEF LedgerMatches, Absent, Draft, Submitted, Cancelled
  <2> QED
    BY <2>1, <2>2 DEF Transitions
<1>8. LedgerMatchesStatus'
  <2>1. ASSUME NEW e \in Docs \ {d} PROVE LedgerMatches(e)'
    BY <1>2 DEF OnlyDoc, LedgerMatches, SerialInv, LedgerMatchesStatus
  <2> QED
    BY <1>7, <2>1 DEF LedgerMatchesStatus
<1> QED
  BY <1>3, <1>4, <1>6, <1>8 DEF SerialCore

-----------------------------------------------------------------------------
(* Arrivals, the queue and crashes *)

LEMMA ArriveSerial ==
    ASSUME Serial, TypeOK, SerialInv, NEW r \in Reqs,
           NEW kind \in Edits \cup Transitions, NEW d \in Docs, NEW l \in Lambdas,
           NEW newKids \in BOOLEAN, Arrive(r, kind, d, l, newKids)
    PROVE  SerialCore'
<1>1. /\ pc[r] = "idle" /\ ~Active(r) /\ OnlyRequest(r) /\ UNCHANGED db /\ conn' = conn
      /\ mem' = mem /\ del' = del
      /\ req'[r] = [kind |-> kind, doc |-> d, lambda |-> l, newKids |-> newKids]
      /\ pc'[r] = IF kind \in Transitions THEN "queued" ELSE "gate"
  BY DEF Arrive, Goto, Active, OnlyRequest, TypeOK, locals
<1>2. ConnInv'
  BY <1>1 DEF ConnInv, SerialInv, IsTx, OpenPC, OnlyRequest
<1>3. AloneInv'
  <2>1. \A q \in Reqs : Active(q) /\ Doc(q) = d
                         => kind \in Transitions /\ req[q].kind \in Transitions
    BY DEF Arrive, MayArrive, Serial
  <2>2. \A q \in Reqs \ {r} : Active(q)' = Active(q) /\ Doc(q)' = Doc(q)
                              /\ IsTx(q)' = IsTx(q)
    BY <1>1 DEF OnlyRequest, Active, Doc, IsTx
  <2>3. Doc(r)' = d /\ IsTx(r)' = (kind \in Transitions)
    BY <1>1 DEF Doc, IsTx
  <2>4. ASSUME NEW p \in Reqs, NEW q \in Reqs, Active(p)', Active(q)', p # q,
               Doc(p)' = Doc(q)'
        PROVE  IsTx(p)' /\ IsTx(q)'
    <3>1. CASE p = r
      BY <2>1, <2>2, <2>3, <2>4, <3>1 DEF IsTx
    <3>2. CASE q = r
      BY <2>1, <2>2, <2>3, <2>4, <3>2 DEF IsTx
    <3>3. CASE p # r /\ q # r
      BY <2>2, <2>4, <3>3 DEF SerialInv, AloneInv
    <3> QED
      BY <3>1, <3>2, <3>3
  <2> QED
    BY <2>4 DEF AloneInv
<1>4. KnowsInv'
  <2>1. Knows(r)
    BY DEF SerialInv, KnowsInv, Knows
  <2>2. Knows(r)'
    BY <1>1, <2>1 DEF Knows, KnowsRow, KnowsChange, Doc, IsTx, OpenPC, WrotePC
  <2> QED
    BY <1>1, <2>2, OthersKnow DEF KnowsInv, Knows
<1> QED
  BY <1>1, <1>2, <1>3, <1>4, QuietDb DEF SerialCore, SerialInv

LEMMA BeginSerial ==
    ASSUME Serial, TypeOK, SerialInv, NEW r \in Reqs, Begin(r) PROVE SerialCore'
<1>1. /\ pc[r] = "queued" /\ Active(r) /\ OnlyRequest(r) /\ UNCHANGED db
      /\ mem' = mem /\ del' = del /\ req' = req /\ pc'[r] = "gate"
      /\ conn[req[r].lambda] = NoReq /\ conn' = [conn EXCEPT ![req[r].lambda] = r]
  BY DEF Begin, Goto, Active, OnlyRequest, TypeOK, locals
<1>2. ConnInv'
  <2>1. ASSUME NEW q \in Reqs, IsTx(q)', pc'[q] \in OpenPC PROVE conn'[req'[q].lambda] = q
    <3>1. req[q].lambda \in Lambdas
      BY DEF TypeOK, Request
    <3>2. CASE q = r
      BY <1>1, <3>1, <3>2 DEF TypeOK
    <3>3. CASE q # r
      <4>1. conn[req[q].lambda] = q
        BY <1>1, <2>1, <3>3 DEF SerialInv, ConnInv, IsTx, OnlyRequest
      <4>2. req[q].lambda # req[r].lambda
        BY <1>1, <4>1, LifecycleAssumption
      <4> QED
        BY <1>1, <3>1, <4>1, <4>2 DEF TypeOK
    <3> QED
      BY <3>2, <3>3
  <2> QED
    BY <2>1 DEF ConnInv
<1>3. AloneInv'
  BY <1>1, AloneMove DEF SerialInv, OnlyRequest, Active
<1>4. KnowsInv'
  <2>1. Knows(r)
    BY DEF SerialInv, KnowsInv, Knows
  <2>2. Knows(r)'
    BY <1>1, <2>1 DEF Knows, KnowsRow, KnowsChange, Doc, IsTx, WrotePC, db
  <2> QED
    BY <1>1, <2>2, OthersKnow DEF KnowsInv, Knows
<1> QED
  BY <1>1, <1>2, <1>3, <1>4, QuietDb DEF SerialCore, SerialInv

LEMMA CrashSerial ==
    ASSUME Serial, TypeOK, SerialInv, NEW l \in Lambdas, Crash(l) PROVE SerialCore'
<1> DEFINE dead == {r \in Reqs : Active(r) /\ req[r].lambda = l}
<1>1. /\ UNCHANGED db /\ req' = req
      /\ \A r \in dead : pc'[r] = "done" /\ mem'[r] = EmptyMemory /\ del'[r] = {}
      /\ \A r \in Reqs \ dead : pc'[r] = pc[r] /\ mem'[r] = mem[r] /\ del'[r] = del[r]
  BY DEF Crash
<1>2. ConnInv'
  BY <1>1 DEF Crash, ConnInv, SerialInv, IsTx, TypeOK, Request, OpenPC, Active
<1>3. AloneInv'
  BY <1>1, AloneMove DEF SerialInv, Active
<1>4. KnowsInv'
  <2>1. ASSUME NEW r \in dead PROVE Knows(r)'
    BY <1>1 DEF Knows, KnowsRow, KnowsChange, Doc, IsTx, OpenPC, WrotePC
  <2>2. ASSUME NEW r \in Reqs \ dead PROVE Knows(r)'
    BY <1>1, Frame DEF SerialInv, KnowsInv, Knows, db
  <2> QED
    BY <2>1, <2>2 DEF KnowsInv, Knows
<1> QED
  BY <1>1, <1>2, <1>3, <1>4, QuietDb DEF SerialCore, SerialInv

LEMMA SerialInit == Init => SerialInv
<1> SUFFICES ASSUME Init PROVE SerialInv
  OBVIOUS
<1>1. \A r \in Reqs : pc[r] = "idle" /\ mem[r] = EmptyMemory /\ del[r] = {}
  BY DEF Init
<1>2. \A d \in Docs : /\ rows[d].patches = {} /\ ledger[d] = {}
                      /\ rows[d].status \in {Absent, Draft}
                      /\ rows[d].status = Absent => kids[d] = {}
  <2>1. ASSUME NEW d \in Docs PROVE rows[d] \in [status : {Absent, Draft}, patches : {{}}]
    BY DEF Init
  <2>2. ASSUME NEW d \in Docs
        PROVE  /\ kids[d] = IF rows[d].status = Draft THEN Payload(Seed) ELSE {}
               /\ ledger[d] = {}
    BY DEF Init
  <2>3. ASSUME NEW d \in Docs
        PROVE  rows[d].patches = {} /\ rows[d].status \in {Absent, Draft}
    BY <2>1
  <2>4. ASSUME NEW d \in Docs, rows[d].status = Absent PROVE kids[d] = {}
    BY <2>2, <2>4 DEF Absent, Draft
  <2> QED
    BY <2>2, <2>3, <2>4
<1>3. KnowsInv
  BY <1>1 DEF KnowsInv, KnowsRow, KnowsChange, OpenPC, WrotePC
<1>4. AbsentInv /\ LedgerMatchesStatus
  BY <1>2 DEF AbsentInv, LedgerMatchesStatus, LedgerMatches, Absent, Draft, Submitted,
              Cancelled
<1> QED
  BY <1>1, <1>3, <1>4, KindInit DEF SerialInv, ConnInv, AloneInv, Active, OpenPC

LEMMA SerialNext ==
    ASSUME Serial, TypeOK, SerialInv, [Next]_vars PROVE SerialInv'
<1>0. KindInv'
  BY KindNext DEF SerialInv
<1>1. ASSUME NEW r \in Reqs, Step(r) PROVE SerialCore'
  <2>1. CASE Answer(r)
    BY <2>1, EndSerial DEF Answer, Goto, TypeOK, Active
  <2> QED
    BY <1>1, <2>1, BeginSerial, GateSerial, LoadSerial, LoadChildrenSerial, CheckSerial,
       ExistingSerial, UpdateSerial, InsertSerial, ClearSerial, FillSerial, HookSerial,
       CommitSerial DEF Step
<1>2. ASSUME NEW r \in Reqs, Refuse(r) \/ MissLate(r) \/ StoreError(r) PROVE SerialCore'
  BY <1>2, RefuseFact, RejectSerial DEF MissLate, StoreError, OpenPC, Active
<1>3. ASSUME UNCHANGED vars PROVE SerialCore'
  BY <1>3, QuietDb DEF vars, db, SerialInv, SerialCore, ConnInv, AloneInv, KnowsInv,
     KnowsRow, KnowsChange, Doc, IsTx, Active, Shown
<1>4. SerialCore'
  BY <1>1, <1>2, <1>3, ArriveSerial, CrashSerial DEF Next, Finished
<1> QED
  BY <1>0, <1>4 DEF SerialInv, SerialCore

-----------------------------------------------------------------------------
\* With one connection and no edit beside another request, what a request has
\* read is still true when it writes (SerialInv).
THEOREM SerialCorrect == Serial /\ Spec => [](TypeOK /\ SerialInv)
<1> DEFINE Inv == Serial /\ TypeOK /\ SerialInv
<1>1. Serial /\ Init => Inv
  BY InitType, SerialInit
<1>2. Inv /\ [Next]_vars => Inv'
  <2> SUFFICES ASSUME Inv, [Next]_vars PROVE Inv'
    OBVIOUS
  <2>1. TypeOK'
    BY TypeNext DEF SerialInv
  <2>2. SerialInv'
    BY SerialNext
  <2>3. Serial'
    BY DEF Serial
  <2> QED
    BY <2>1, <2>2, <2>3
<1>3. Inv => TypeOK /\ SerialInv
  OBVIOUS
<1> QED
  BY <1>1, <1>2, <1>3, PTL DEF Spec

\* Hence docstatus and the hooks' side effects agree at every moment, however many
\* transitions are queued and whatever fails or crashes.
THEOREM LedgerCorrect == Serial /\ Spec => []LedgerMatchesStatus
<1>1. SerialInv => LedgerMatchesStatus
  BY DEF SerialInv
<1> QED
  BY <1>1, SerialCorrect, PTL

-----------------------------------------------------------------------------
(* The steps of the document machine                                         *)

\* What a step may do to the database: nothing; write child rows of a draft;
\* save a draft; or commit a transition.
WriteKids(d) ==
    /\ rows[d].status = Draft
    /\ \A e \in Docs \ {d} : kids'[e] = kids[e]
    /\ UNCHANGED <<rows, ledger>>

Save(r, d) ==
    /\ rows[d].status \in {Absent, Draft}
    /\ rows' = [rows EXCEPT ![d] = [status |-> Draft,
                                    patches |-> rows[d].patches \cup {r}]]
    /\ UNCHANGED <<kids, ledger>>

\* An edit's header adds its patch to a draft, or creates the draft.
LEMMA HeaderSaves ==
    ASSUME TypeOK, SerialInv, NEW r \in Reqs, Active(r), ~IsTx(r), WriteHeader(r),
           UNCHANGED <<kids, ledger>>,
           \/ pc[r] = "update"
           \/ pc[r] = "insert" /\ rows[Doc(r)].status = Absent
    PROVE  Save(r, Doc(r))
<1>1. req[r].kind \in Edits /\ Doc(r) \in Docs /\ (pc[r] = "update" => req[r].kind = "update")
  BY DEF SerialInv, KindInv, IsTx, TypeOK, Request, Edits, Doc
<1>2. KnowsChange(r) /\ AbsentInv
  BY DEF SerialInv, KnowsInv
<1>3. /\ mem[r].status = Draft
      /\ mem[r].patches = rows[Doc(r)].patches \cup {r}
      /\ rows[Doc(r)].status \in {Absent, Draft}
  BY <1>1, <1>2 DEF KnowsChange, AbsentInv, Shown, Edits
<1>4. [status |-> mem[r].status, patches |-> mem[r].patches]
        = [status |-> Draft, patches |-> rows[Doc(r)].patches \cup {r}]
  BY <1>3
<1> QED
  BY <1>3, <1>4 DEF WriteHeader, Save

LEMMA StepWrites ==
    ASSUME Serial, TypeOK, SerialInv, [Next]_vars
    PROVE  \/ UNCHANGED db
           \/ \E d \in Docs : WriteKids(d)
           \/ \E r \in Reqs, d \in Docs : Save(r, d)
           \/ \E r \in Reqs : Commit(r)
<1> DEFINE Goal == \/ UNCHANGED db
                   \/ \E d \in Docs : WriteKids(d)
                   \/ \E r \in Reqs, d \in Docs : Save(r, d)
                   \/ \E r \in Reqs : Commit(r)
<1>0. \A r \in Reqs : Doc(r) \in Docs
  BY DEF Doc, TypeOK, Request
<1>1. ASSUME NEW r \in Reqs, Step(r) PROVE Goal
  <2>1. CASE Update(r)
    <3>1. CASE IsTx(r)
      BY <2>1, <3>1 DEF Update, WriteHeader, db
    <3>2. CASE ~IsTx(r)
      <4>1. Save(r, Doc(r))
        BY <2>1, <3>2, HeaderSaves DEF Update, Active
      <4> QED
        BY <1>0, <4>1
    <3> QED
      BY <3>1, <3>2
  <2>2. CASE Insert(r)
    <3>1. CASE Reject(r, 500)
      BY <3>1 DEF Reject
    <3>2. CASE ~Reject(r, 500) /\ IsTx(r)
      BY <2>2, <3>2 DEF Insert, WriteHeader, db
    <3>3. CASE ~Reject(r, 500) /\ ~IsTx(r)
      <4>1. Save(r, Doc(r))
        BY <2>2, <3>3, HeaderSaves DEF Insert, Active
      <4> QED
        BY <1>0, <4>1
    <3> QED
      BY <3>1, <3>2, <3>3
  <2>3. CASE Clear(r)
    <3>1. CASE IsTx(r)
      BY <2>3, <3>1 DEF Clear, db
    <3>2. CASE ~IsTx(r)
      <4>1. rows[Doc(r)].status = Draft
        BY <2>3, <3>2 DEF SerialInv, KnowsInv, KnowsChange, Clear
      <4>2. WriteKids(Doc(r))
        BY <2>3, <3>2, <4>1 DEF Clear, WriteKids, TypeOK
      <4> QED
        BY <1>0, <4>2
    <3> QED
      BY <3>1, <3>2
  <2>4. CASE Fill(r)
    <3>1. PICK k \in todo[r] : Fill(r)!(k)
      BY <2>4 DEF Fill
    <3>2. CASE Reject(r, 500)
      BY <3>2 DEF Reject
    <3>3. CASE ~Reject(r, 500) /\ IsTx(r)
      BY <3>1, <3>3 DEF db
    <3>4. CASE ~Reject(r, 500) /\ ~IsTx(r)
      <4>1. rows[Doc(r)].status = Draft
        BY <3>1, <3>4 DEF SerialInv, KnowsInv, KnowsChange
      <4>2. WriteKids(Doc(r))
        BY <3>1, <3>4, <4>1 DEF WriteKids, TypeOK
      <4> QED
        BY <1>0, <4>2
    <3> QED
      BY <3>2, <3>3, <3>4
  <2>5. CASE ~(Update(r) \/ Insert(r) \/ Clear(r) \/ Fill(r) \/ Commit(r))
    <3>1. CASE Load(r)
      BY <3>1 DEF Load, Reject
    <3>2. CASE Check(r)
      BY <3>2 DEF Check, Reject
    <3>3. CASE Existing(r)
      BY <3>3 DEF Existing, Reject
    <3>4. CASE Begin(r) \/ Gate(r) \/ LoadChildren(r) \/ Hook(r) \/ Answer(r)
      BY <3>4 DEF Begin, Gate, LoadChildren, Hook, Answer
    <3> QED
      BY <1>1, <2>5, <3>1, <3>2, <3>3, <3>4 DEF Step
  <2> QED
    BY <2>1, <2>2, <2>3, <2>4, <2>5
<1>2. ASSUME \/ \E r \in Reqs : Refuse(r) \/ MissLate(r) \/ StoreError(r)
             \/ \E r \in Reqs, kind \in Edits \cup Transitions, d \in Docs, l \in Lambdas,
                   newKids \in BOOLEAN : Arrive(r, kind, d, l, newKids)
             \/ \E l \in Lambdas : Crash(l)
             \/ UNCHANGED vars
      PROVE  UNCHANGED db
  BY <1>2, RefuseFact DEF MissLate, StoreError, Reject, Arrive, Crash, vars, db
<1> QED
  BY <1>1, <1>2 DEF Next, Finished

-----------------------------------------------------------------------------
(* The docstatus *)

LEMMA GrowStep ==
    ASSUME Serial, TypeOK, SerialInv, [Next]_vars, NEW d \in Docs
    PROVE  rows'[d].status >= rows[d].status
<1>0. rows[d] \in Row /\ rows[d].status \in Status
  BY DEF TypeOK, Row
<1>1. CASE rows'[d].status = rows[d].status
  BY <1>0, <1>1 DEF Status, Absent, Draft, Submitted, Cancelled
<1>2. ASSUME NEW r \in Reqs, NEW e \in Docs, Save(r, e)
      PROVE  \/ rows'[d].status = rows[d].status
             \/ rows'[d].status = Draft /\ rows[d].status = Absent
  <2>1. CASE e # d
    BY <1>2, <2>1 DEF Save, TypeOK
  <2>2. CASE e = d
    <3>1. rows'[d] = [status |-> Draft, patches |-> rows[d].patches \cup {r}]
      BY <1>2, <2>2 DEF Save, TypeOK
    <3> QED
      BY <1>2, <2>2, <3>1 DEF Save
  <2> QED
    BY <2>1, <2>2
<1>3. ASSUME NEW r \in Reqs, Commit(r)
      PROVE  \/ rows'[d].status = rows[d].status
             \/ /\ Shown(d) = FromStatus(req[r].kind)
                /\ rows'[d].status = FromStatus(req[r].kind) + 1
  <2>1. CASE d # Doc(r)
    BY <1>3, <2>1, CommitWrites DEF OnlyDoc
  <2>2. CASE d = Doc(r)
    <3>1. /\ Shown(d) = FromStatus(req[r].kind)
          /\ rows'[d] = [status |-> FromStatus(req[r].kind) + 1,
                         patches |-> rows[d].patches]
      BY <1>3, <2>2, CommitWrites
    <3> QED
      BY <3>1
  <2> QED
    BY <2>1, <2>2
<1>4. ASSUME NEW kind, Shown(d) = FromStatus(kind) PROVE FromStatus(kind) + 1 >= rows[d].status
  BY <1>0, <1>4 DEF Shown, FromStatus, Status, Absent, Draft, Submitted, Cancelled
<1>5. Draft >= Absent
  BY DEF Draft, Absent
<1> QED
  BY <1>1, <1>2, <1>3, <1>4, <1>5, StepWrites DEF db, WriteKids

\* docstatus never goes back where no edit runs beside another request and one
\* connection serves all: the refuting run LifecycleStaleDraft needs the overlap.
THEOREM GrowsCorrect == Serial /\ Spec => DocstatusNeverGoesBack
<1> DEFINE Inv == Serial /\ TypeOK /\ SerialInv
           A == \A d \in Docs : rows'[d].status >= rows[d].status
<1>1. Inv /\ [Next]_vars => [A]_vars
  BY GrowStep
<1>2. Serial /\ Spec => []Inv
  <2>1. Serial => Serial'
    BY DEF Serial
  <2> QED
    BY <2>1, SerialCorrect, PTL DEF Spec
<1> QED
  BY <1>1, <1>2, PTL DEF Spec, DocstatusNeverGoesBack

-----------------------------------------------------------------------------
(* Immutability *)

LEMMA ImmutableStep ==
    ASSUME Serial, TypeOK, SerialInv, [Next]_vars, NEW d \in Docs,
           rows[d].status >= Submitted
    PROVE  /\ \/ rows'[d] = rows[d]
              \/ /\ rows[d].status = Submitted
                 /\ rows'[d] = [rows[d] EXCEPT !.status = Cancelled]
           /\ kids'[d] = kids[d]
<1>0. rows[d] \in Row /\ rows[d].status \notin {Absent, Draft}
  BY DEF TypeOK, Row, Status, Absent, Draft, Submitted, Cancelled
<1>1. CASE UNCHANGED db
  BY <1>1 DEF db
<1>2. ASSUME NEW e \in Docs, WriteKids(e) PROVE rows'[d] = rows[d] /\ kids'[d] = kids[d]
  BY <1>0, <1>2 DEF WriteKids
<1>3. ASSUME NEW r \in Reqs, NEW e \in Docs, Save(r, e)
      PROVE  rows'[d] = rows[d] /\ kids'[d] = kids[d]
  BY <1>0, <1>3 DEF Save, TypeOK
<1>4. ASSUME NEW r \in Reqs, Commit(r)
      PROVE  /\ \/ rows'[d] = rows[d]
                \/ /\ rows[d].status = Submitted
                   /\ rows'[d] = [rows[d] EXCEPT !.status = Cancelled]
             /\ kids'[d] = kids[d]
  <2>1. CASE d # Doc(r)
    BY <1>4, <2>1, CommitWrites DEF OnlyDoc
  <2>2. CASE d = Doc(r)
    <3>1. /\ rows[d].status = FromStatus(req[r].kind) /\ kids'[d] = kids[d]
          /\ rows'[d] = [status |-> FromStatus(req[r].kind) + 1,
                         patches |-> rows[d].patches]
      BY <1>0, <1>4, <2>2, CommitWrites DEF Shown
    <3>2. FromStatus(req[r].kind) = Submitted
      BY <1>0, <3>1 DEF FromStatus
    <3>3. rows[d] = [status |-> Submitted, patches |-> rows[d].patches]
      BY <1>0, <3>1, <3>2 DEF Row
    <3> QED
      BY <3>1, <3>2, <3>3 DEF Submitted, Cancelled
  <2> QED
    BY <2>1, <2>2
<1> QED
  BY <1>1, <1>2, <1>3, <1>4, StepWrites

\* A submitted or cancelled document never changes again, except from submitted
\* to cancelled: the promise save()'s guard is there to keep.
THEOREM ImmutableCorrect == Serial /\ Spec => SubmittedImmutable
<1> DEFINE Inv == Serial /\ TypeOK /\ SerialInv
           A == \A d \in Docs :
                  rows[d].status >= Submitted =>
                    /\ \/ rows'[d] = rows[d]
                       \/ /\ rows[d].status = Submitted
                          /\ rows'[d] = [rows[d] EXCEPT !.status = Cancelled]
                    /\ kids'[d] = kids[d]
<1>1. Inv /\ [Next]_vars => [A]_vars
  BY ImmutableStep
<1>2. Serial /\ Spec => []Inv
  <2>1. Serial => Serial'
    BY DEF Serial
  <2> QED
    BY <2>1, SerialCorrect, PTL DEF Spec
<1> QED
  BY <1>1, <1>2, PTL DEF Spec, SubmittedImmutable

-----------------------------------------------------------------------------
(* Refinement *)

LEMMA RefineInit == Init => DM!Init
  BY DEF Init, DM!Init, Absent, Draft, DM!Absent, DM!Draft

LEMMA RefineStep ==
    ASSUME Serial, TypeOK, SerialInv, [Next]_vars PROVE [DM!Next]_(DM!vars)
<1>1. CASE UNCHANGED <<rows, ledger>>
  BY <1>1 DEF DM!vars
<1>2. ASSUME NEW r \in Reqs, NEW d \in Docs, Save(r, d) PROVE DM!Next
  <2>1. CASE rows[d].status = Absent
    <3>1. rows[d].patches = {}
      BY <2>1 DEF SerialInv, AbsentInv
    <3>2. DM!Create(d, r)
      BY <1>2, <2>1, <3>1 DEF Save, DM!Create, DM!Absent, DM!Draft, Absent, Draft
    <3> QED
      BY <3>2 DEF DM!Next
  <2>2. CASE rows[d].status = Draft
    <3>1. DM!Edit(d, r)
      BY <1>2, <2>2 DEF Save, DM!Edit, DM!Draft, Draft
    <3> QED
      BY <3>1 DEF DM!Next
  <2> QED
    BY <1>2, <2>1, <2>2 DEF Save
<1>3. ASSUME NEW r \in Reqs, Commit(r) PROVE DM!Next
  <2>0. PICK d \in Docs, k \in Transitions : d = Doc(r) /\ k = req[r].kind
    BY <1>3, CommitWrites DEF IsTx
  <2>1. DM!Move(d, r, k, FromStatus(k))
    <3>1. \/ rows[d].status = FromStatus(k)
          \/ d \in Singles /\ rows[d].status = DM!Absent /\ FromStatus(k) = DM!Draft
      BY <1>3, <2>0, CommitWrites DEF Shown, DM!Absent, DM!Draft, Absent, Draft
    <3>2. rows' = [rows EXCEPT ![d] = [status |-> FromStatus(k) + 1,
                                       patches |-> rows[d].patches]]
      BY <1>3, <2>0, CommitWrites DEF Commit, TypeOK
    <3>3. ledger' = [ledger EXCEPT ![d] = ledger[d] \cup {[by |-> r, op |-> k]}]
      BY <1>3, <2>0 DEF Commit
    <3> QED
      BY <3>1, <3>2, <3>3 DEF DM!Move
  <2> QED
    BY <2>1 DEF DM!Next, DM!Submit, DM!Cancel, Transitions, FromStatus, DM!Draft,
                DM!Submitted, Draft, Submitted
<1> QED
  BY <1>1, <1>2, <1>3, StepWrites DEF db, WriteKids

\* Every behaviour of the statements is a behaviour of the document machine:
\* creates, edits, submits and cancels that happen at once, one after the other.
THEOREM Refinement == Serial /\ Spec => ImplementsDocMachine
<1>1. Serial /\ TypeOK /\ SerialInv /\ [Next]_vars => [DM!Next]_(DM!vars)
  BY RefineStep
<1>2. Serial => Serial'
  BY DEF Serial
<1> QED
  BY <1>1, <1>2, RefineInit, SerialCorrect, PTL DEF Spec, ImplementsDocMachine, DM!Spec

-----------------------------------------------------------------------------
(* The children of a document, as long as no call has failed and nobody died.  *)

\* The children r is about to save are those of one save, all of them.
SavesWhole(r) ==
    \/ mem[r].kids = {} /\ Doc(r) \in Singles /\ req[r].kind = "update"
    \/ \E by \in Reqs \cup {Seed} : mem[r].kids = Payload(by)

\* An edit has not written yet, or has finished, and then the children in the database
\* are those of one save; or it is replacing them, and what it has inserted since it
\* deleted the old ones and what it still has to insert make up the ones it saves.
Replaces(r) ==
    /\ pc[r] \notin {"clear", "fill"} => Whole(Doc(r))
    /\ pc[r] = "check" /\ req[r].kind = "update" => mem[r].kids = kids[Doc(r)]
    /\ req[r].kind = "create" => req[r].newKids
    /\ pc[r] \in {"existing", "insert", "update", "clear"} =>
          SavesWhole(r) /\ todo[r] = mem[r].kids
    /\ pc[r] = "fill" =>
          /\ SavesWhole(r)
          /\ kids[Doc(r)] \cup todo[r] = mem[r].kids
          /\ kids[Doc(r)] \cap todo[r] = {}

ReplaceInv == \A r \in Reqs : Active(r) /\ ~IsTx(r) => Replaces(r)

KidsInv == faults = 0 => ChildrenWhole /\ ReplaceInv

\* The step is r's: no other request's document changes, in memory or in the database.
OnlyEdit(r) ==
    /\ OnlyDoc(Doc(r))
    /\ \A q \in Reqs \ {r} : /\ pc'[q] = pc[q] /\ req'[q] = req[q]
                             /\ mem'[q] = mem[q] /\ todo'[q] = todo[q]

LEMMA WholeFrame ==
    ASSUME NEW d, Whole(d), kids'[d] = kids[d],
           rows'[d].status = rows[d].status \/ d \in Singles
    PROVE  Whole(d)'
  BY DEF Whole

LEMMA ReplacesFrame ==
    ASSUME NEW q \in Reqs, Replaces(q),
           pc'[q] = pc[q], req'[q] = req[q], mem'[q] = mem[q], todo'[q] = todo[q],
           rows'[Doc(q)] = rows[Doc(q)], kids'[Doc(q)] = kids[Doc(q)]
    PROVE  Replaces(q)'
<1>1. Doc(q)' = Doc(q)
  BY DEF Doc
<1>2. Whole(Doc(q)) => Whole(Doc(q))'
  BY <1>1, WholeFrame DEF Whole
<1>3. SavesWhole(q)' = SavesWhole(q)
  BY <1>1 DEF SavesWhole
<1> QED
  BY <1>1, <1>2, <1>3 DEF Replaces

\* A step of r, in terms of what it must establish for its own document.
LEMMA KidsStep ==
    ASSUME TypeOK, AloneInv, ChildrenWhole, ReplaceInv, NEW r \in Reqs, Active(r),
           OnlyEdit(r), req' = req,
           Active(r)' /\ ~IsTx(r) => Replaces(r)',
           IsTx(r) /\ Whole(Doc(r)) => Whole(Doc(r))',
           ~Active(r)' /\ ~IsTx(r) => Whole(Doc(r))'
    PROVE  ChildrenWhole' /\ ReplaceInv'
<1>0. \A q \in Reqs : Doc(q) \in Docs /\ Doc(q)' = Doc(q) /\ IsTx(q)' = IsTx(q)
  BY DEF TypeOK, Request, Doc, IsTx
<1>1. \A q \in Reqs \ {r} : Active(q)' = Active(q)
  BY DEF OnlyEdit, Active
<1>2. ASSUME NEW q \in Reqs, Active(q)', ~IsTx(q) PROVE Replaces(q)'
  <2>1. CASE q = r
    BY <1>2, <2>1
  <2>2. CASE q # r
    <3>1. Active(q) /\ Replaces(q)
      BY <1>1, <1>2, <2>2 DEF ReplaceInv
    <3>2. Doc(q) # Doc(r)
      BY <1>2, <2>2, <3>1 DEF AloneInv
    <3> QED
      BY <1>0, <2>2, <3>1, <3>2, ReplacesFrame DEF OnlyEdit, OnlyDoc
  <2> QED
    BY <2>1, <2>2
<1>3. ASSUME NEW d \in Docs, ~Editing(d)' PROVE Whole(d)'
  <2>1. CASE d # Doc(r)
    <3>1. ~Editing(d)
      BY <1>0, <1>1, <1>3, <2>1 DEF Editing
    <3> QED
      BY <2>1, <3>1, WholeFrame DEF ChildrenWhole, OnlyEdit, OnlyDoc
  <2>2. CASE d = Doc(r) /\ ~IsTx(r)
    BY <1>0, <1>3, <2>2 DEF Editing
  <2>3. CASE d = Doc(r) /\ IsTx(r)
    <3>1. ~Editing(d)
      BY <2>3 DEF Editing, AloneInv
    <3> QED
      BY <1>0, <2>3, <3>1 DEF ChildrenWhole
  <2> QED
    BY <2>1, <2>2, <2>3
<1> QED
  BY <1>0, <1>2, <1>3 DEF ChildrenWhole, ReplaceInv

\* Where the database stays as it is, only an edit in the middle of its replacement
\* must not end.
LEMMA KidsQuiet ==
    ASSUME TypeOK, AloneInv, ChildrenWhole, ReplaceInv, NEW r \in Reqs, Active(r),
           UNCHANGED <<db, req>>,
           \A q \in Reqs \ {r} : pc'[q] = pc[q] /\ mem'[q] = mem[q] /\ todo'[q] = todo[q],
           Active(r)' /\ ~IsTx(r) => Replaces(r)',
           ~Active(r)' /\ ~IsTx(r) => pc[r] \notin {"clear", "fill"}
    PROVE  ChildrenWhole' /\ ReplaceInv'
<1>0. Doc(r)' = Doc(r)
  BY DEF Doc
<1>1. OnlyEdit(r)
  BY DEF OnlyEdit, OnlyDoc, db
<1>2. Whole(Doc(r)) => Whole(Doc(r))'
  BY <1>0, WholeFrame DEF db, Whole
<1>3. ~IsTx(r) /\ pc[r] \notin {"clear", "fill"} => Whole(Doc(r))
  BY DEF ReplaceInv, Replaces
<1> QED
  BY <1>1, <1>2, <1>3, KidsStep

LEMMA KidsReject ==
    ASSUME TypeOK, AloneInv, ChildrenWhole, ReplaceInv, NEW r \in Reqs, Active(r),
           NEW code, Reject(r, code), IsTx(r) \/ pc[r] \notin {"clear", "fill"}
    PROVE  ChildrenWhole' /\ ReplaceInv'
<1>1. /\ pc'[r] = "done"
      /\ \A q \in Reqs \ {r} : pc'[q] = pc[q] /\ mem'[q] = mem[q] /\ todo'[q] = todo[q]
  BY DEF Reject, Leave, TypeOK
<1>2. ~Active(r)'
  BY <1>1 DEF Active
<1> QED
  BY <1>1, <1>2, KidsQuiet DEF Reject

LEMMA ReadStepsKids ==
    ASSUME TypeOK, SerialInv, ChildrenWhole, ReplaceInv, NEW r \in Reqs,
           Gate(r) \/ Load(r) \/ LoadChildren(r) \/ Check(r) \/ Existing(r)
    PROVE  ChildrenWhole' /\ ReplaceInv'
<1>0. /\ Active(r) /\ AloneInv /\ Doc(r) \in Docs
      /\ pc[r] \in {"gate", "load", "children", "check", "existing"}
      /\ ~IsTx(r) => Replaces(r) /\ req[r].kind \in Edits
  BY DEF Gate, Load, LoadChildren, Check, Existing, Active, SerialInv, ReplaceInv,
         TypeOK, Request, Doc, IsTx, KindInv, Edits
<1>1. ASSUME NEW code, Reject(r, code) PROVE ChildrenWhole' /\ ReplaceInv'
  BY <1>0, <1>1, KidsReject
<1>2. SUFFICES ASSUME ~\E code : Reject(r, code) PROVE ChildrenWhole' /\ ReplaceInv'
  BY <1>1
<1>3. /\ UNCHANGED <<db, req>>
      /\ \A q \in Reqs \ {r} : pc'[q] = pc[q] /\ mem'[q] = mem[q] /\ todo'[q] = todo[q]
  <2>1. CASE Gate(r)
    BY <2>1 DEF Gate, Goto, TypeOK
  <2>2. CASE Load(r)
    BY <1>2, <2>2 DEF Load, Goto, TypeOK
  <2>3. CASE LoadChildren(r)
    BY <2>3 DEF LoadChildren, Goto, TypeOK
  <2>4. CASE Check(r)
    BY <1>2, <2>4 DEF Check, Goto, TypeOK
  <2>5. CASE Existing(r)
    BY <1>2, <2>5 DEF Existing, Goto, TypeOK, locals
  <2> QED
    BY <2>1, <2>2, <2>3, <2>4, <2>5
<1>4. ASSUME ~IsTx(r) PROVE Replaces(r)'
  <2>0. /\ Replaces(r) /\ req[r].kind \in Edits /\ Doc(r)' = Doc(r) /\ req' = req
        /\ kids' = kids /\ rows' = rows /\ Whole(Doc(r))
    BY <1>0, <1>3, <1>4 DEF Doc, db, Replaces
  <2>1. Whole(Doc(r))'
    BY <2>0, WholeFrame
  <2>2. CASE Gate(r)
    <3>1. pc'[r] \in {"check", "load"} /\ (pc'[r] = "check" => req[r].kind = "create")
      BY <2>2 DEF Gate, Goto, TypeOK
    <3> QED
      BY <2>0, <2>1, <3>1 DEF Replaces, Edits
  <2>3. CASE Load(r)
    <3>1. CASE pc'[r] = "children"
      BY <2>0, <2>1, <3>1 DEF Replaces
    <3>2. CASE pc'[r] # "children"
      <4>1. pc'[r] = "check" /\ rows[Doc(r)].status = Absent /\ mem'[r].kids = {}
        BY <1>2, <2>3, <3>2 DEF Load, Goto, TypeOK
      <4>2. kids[Doc(r)] = {}
        BY <1>0, <4>1 DEF SerialInv, AbsentInv
      <4> QED
        BY <2>0, <2>1, <4>1, <4>2 DEF Replaces
    <3> QED
      BY <3>1, <3>2
  <2>4. CASE LoadChildren(r)
    <3>1. pc'[r] = "check" /\ mem'[r].kids = VisibleKids(r) /\ pc[r] = "children"
      BY <2>4 DEF LoadChildren, Goto, TypeOK, Memory
    <3>2. VisibleKids(r) = kids[Doc(r)]
      BY <1>4, <3>1 DEF VisibleKids, SerialInv, KnowsInv, KnowsChange
    <3> QED
      BY <2>0, <2>1, <3>1, <3>2 DEF Replaces
  <2>5. CASE Check(r)
    <3>1. /\ pc'[r] \in {"insert", "existing"} /\ pc[r] = "check"
          /\ mem'[r] = Changed(r) /\ todo'[r] = Changed(r).kids
      BY <1>2, <2>5 DEF Check, Goto, TypeOK
    <3>2. Changed(r).kids = IF req[r].newKids THEN Payload(r) ELSE mem[r].kids
      BY <1>4 DEF Changed
    <3>3. SavesWhole(r)'
      <4>1. CASE req[r].newKids
        BY <3>1, <3>2, <4>1 DEF SavesWhole, Payload
      <4>2. CASE ~req[r].newKids
        <5>1. req[r].kind = "update" /\ mem'[r].kids = kids[Doc(r)]
          BY <2>0, <3>1, <3>2, <4>2 DEF Replaces, Edits
        <5>2. CASE kids[Doc(r)] = {} /\ (rows[Doc(r)].status = Absent \/ Doc(r) \in Singles)
          <6>1. Doc(r) \in Singles
            BY <3>1, <5>1, <5>2 DEF SerialInv, KnowsInv, KnowsChange, OpenPC
          <6> QED
            BY <2>0, <5>1, <5>2, <6>1 DEF SavesWhole
        <5>3. CASE \E by \in Reqs \cup {Seed} : kids[Doc(r)] = Payload(by)
          BY <5>1, <5>3 DEF SavesWhole, Payload
        <5> QED
          BY <2>0, <5>2, <5>3 DEF Whole
      <4> QED
        BY <4>1, <4>2
    <3> QED
      BY <2>0, <2>1, <3>1, <3>3 DEF Replaces
  <2>6. CASE Existing(r)
    <3>1. /\ pc'[r] \in {"insert", "update"} /\ pc[r] = "existing"
          /\ mem' = mem /\ todo' = todo
      BY <1>2, <2>6 DEF Existing, Goto, TypeOK, locals
    <3>2. SavesWhole(r)'
      BY <2>0, <3>1 DEF Replaces, SavesWhole, Payload
    <3> QED
      BY <2>0, <2>1, <3>1, <3>2 DEF Replaces
  <2> QED
    BY <2>2, <2>3, <2>4, <2>5, <2>6
<1>5. ~IsTx(r) => pc[r] \notin {"clear", "fill"}
  BY <1>0
<1> QED
  BY <1>0, <1>3, <1>4, <1>5, KidsQuiet

\* A transition before COMMIT writes nothing, whatever its statement.
LEMMA OpenTxKids ==
    ASSUME TypeOK, AloneInv, ChildrenWhole, ReplaceInv, NEW r \in Reqs, Active(r), IsTx(r),
           UNCHANGED <<db, req>>,
           \A q \in Reqs \ {r} : pc'[q] = pc[q] /\ mem'[q] = mem[q] /\ todo'[q] = todo[q]
    PROVE  ChildrenWhole' /\ ReplaceInv'
  BY KidsQuiet

LEMMA WriteStepsKids ==
    ASSUME TypeOK, SerialInv, ChildrenWhole, ReplaceInv, NEW r \in Reqs,
           Update(r) \/ Insert(r) \/ Clear(r) \/ Fill(r)
    PROVE  ChildrenWhole' /\ ReplaceInv'
<1>0. /\ Active(r) /\ AloneInv /\ Doc(r) \in Docs
      /\ pc[r] \in {"update", "insert", "clear", "fill"}
      /\ ~IsTx(r) => Replaces(r) /\ req[r].kind \in Edits
  BY DEF Update, Insert, Clear, Fill, Active, SerialInv, ReplaceInv, TypeOK, Request, Doc,
         IsTx, KindInv, Edits
<1>1. ASSUME NEW code, Reject(r, code), IsTx(r) \/ pc[r] = "insert"
      PROVE  ChildrenWhole' /\ ReplaceInv'
  BY <1>0, <1>1, KidsReject
<1>2. CASE Update(r)
  <2>1. /\ pc[r] = "update" /\ pc'[r] = "clear" /\ req' = req /\ mem' = mem /\ todo' = todo
        /\ kids' = kids /\ ledger' = ledger /\ WriteHeader(r)
        /\ \A q \in Reqs \ {r} : pc'[q] = pc[q]
    BY <1>2 DEF Update, Goto, TypeOK, locals
  <2>2. CASE IsTx(r)
    BY <1>0, <2>1, <2>2, OpenTxKids DEF WriteHeader, db
  <2>3. CASE ~IsTx(r)
    <3>1. OnlyEdit(r)
      BY <2>1, <2>3 DEF OnlyEdit, OnlyDoc, WriteHeader, TypeOK
    <3>2. SavesWhole(r)' /\ req[r].kind # "create"
      BY <1>0, <1>2, <2>1, <2>3 DEF Replaces, SavesWhole, Payload, Doc, SerialInv, KindInv,
                              Update
    <3>3. Replaces(r)'
      BY <1>0, <2>1, <2>3, <3>2 DEF Replaces
    <3>4. Active(r)'
      BY <2>1 DEF Active
    <3> QED
      BY <1>0, <2>1, <2>3, <3>1, <3>3, <3>4, KidsStep
  <2> QED
    BY <2>2, <2>3
<1>3. CASE Insert(r)
  <2>0. pc[r] = "insert"
    BY <1>3 DEF Insert
  <2>1. CASE Reject(r, 500)
    BY <1>1, <2>0, <2>1
  <2>2. CASE ~Reject(r, 500)
    <3>1. /\ req' = req /\ mem' = mem /\ todo' = todo
          /\ kids' = kids /\ ledger' = ledger /\ WriteHeader(r)
          /\ \A q \in Reqs \ {r} : pc'[q] = pc[q]
          /\ rows[Doc(r)].status = Absent
          /\ pc'[r] = IF req[r].kind = "create" THEN AfterKids(r, todo[r]) ELSE "clear"
      BY <1>3, <2>2 DEF Insert, Goto, TypeOK, locals
    <3>2. CASE IsTx(r)
      BY <1>0, <3>1, <3>2, OpenTxKids DEF WriteHeader, db
    <3>3. CASE ~IsTx(r)
      <4>1. OnlyEdit(r)
        BY <3>1, <3>3 DEF OnlyEdit, OnlyDoc, WriteHeader, TypeOK
      <4>2. SavesWhole(r) /\ todo[r] = mem[r].kids
        BY <1>0, <2>0, <3>3 DEF Replaces
      <4>3. SavesWhole(r)' /\ Doc(r)' = Doc(r)
        BY <3>1, <4>2 DEF SavesWhole, Payload, Doc
      <4>4. kids[Doc(r)] = {}
        BY <1>0, <3>1 DEF SerialInv, AbsentInv
      <4>5. pc'[r] \in {"clear", "fill", "answer"}
            /\ (pc'[r] = "answer" => req[r].kind = "create" /\ todo[r] = {})
        BY <3>1, <3>3 DEF AfterKids
      <4>6. pc'[r] = "answer" => Whole(Doc(r))'
        BY <3>1, <4>2, <4>3, <4>4, <4>5 DEF SavesWhole, Whole, Payload
      <4>7. Replaces(r)'
        BY <1>0, <3>1, <3>3, <4>2, <4>3, <4>4, <4>5, <4>6 DEF Replaces
      <4>8. Active(r)'
        BY <4>5 DEF Active
      <4> QED
        BY <1>0, <3>1, <3>3, <4>1, <4>7, <4>8, KidsStep
    <3> QED
      BY <3>2, <3>3
  <2> QED
    BY <2>1, <2>2
<1>4. CASE Clear(r)
  <2>1. /\ req' = req /\ mem' = mem /\ todo' = todo /\ rows' = rows /\ ledger' = ledger
        /\ pc[r] = "clear" /\ pc'[r] = AfterKids(r, todo[r])
        /\ \A q \in Reqs \ {r} : pc'[q] = pc[q]
    BY <1>4 DEF Clear, Goto, TypeOK
  <2>2. CASE IsTx(r)
    BY <1>0, <1>4, <2>1, <2>2, OpenTxKids DEF Clear, db
  <2>3. CASE ~IsTx(r)
    <3>1. kids' = [kids EXCEPT ![Doc(r)] = {}]
      BY <1>4, <2>3 DEF Clear
    <3>2. OnlyEdit(r) /\ kids'[Doc(r)] = {} /\ Doc(r)' = Doc(r)
      BY <1>0, <2>1, <3>1 DEF OnlyEdit, OnlyDoc, TypeOK, Doc
    <3>3. SavesWhole(r) /\ todo[r] = mem[r].kids
      BY <1>0, <2>1, <2>3 DEF Replaces
    <3>4. SavesWhole(r)'
      BY <2>1, <3>2, <3>3 DEF SavesWhole, Payload
    <3>5. pc'[r] \in {"fill", "answer"} /\ (pc'[r] = "answer" => todo[r] = {})
      BY <2>1, <2>3 DEF AfterKids
    <3>6. pc'[r] = "answer" => Whole(Doc(r))'
      BY <3>2, <3>3, <3>5 DEF SavesWhole, Whole, Payload
    <3>7. Replaces(r)'
      BY <1>0, <2>1, <2>3, <3>2, <3>3, <3>4, <3>5, <3>6 DEF Replaces
    <3>8. Active(r)'
      BY <3>5 DEF Active
    <3> QED
      BY <1>0, <2>1, <2>3, <3>2, <3>7, <3>8, KidsStep
  <2> QED
    BY <2>2, <2>3
<1>5. CASE Fill(r)
  <2>0. PICK k \in todo[r] : Fill(r)!(k)
    BY <1>5 DEF Fill
  <2>1. CASE Reject(r, 500)
    <3>1. CASE IsTx(r)
      BY <1>1, <2>1, <3>1
    <3>2. CASE ~IsTx(r)
      \* the primary key cannot refuse: the children it inserts were deleted
      <4>1. /\ kids[Doc(r)] \cap todo[r] = {} /\ pc[r] = "fill" /\ VisibleKids(r) = kids[Doc(r)]
        BY <1>0, <2>0, <3>2 DEF Replaces, VisibleKids, SerialInv, KnowsInv, KnowsChange
      <4>2. k \in VisibleKids(r)
        BY <2>0, <2>1, <4>1 DEF Reject, Goto, AfterKids, TypeOK
      <4> QED
        BY <4>1, <4>2
    <3> QED
      BY <3>1, <3>2
  <2>2. CASE ~Reject(r, 500)
    <3>1. /\ req' = req /\ mem' = mem /\ rows' = rows /\ ledger' = ledger
          /\ todo'[r] = todo[r] \ {k} /\ pc[r] = "fill"
          /\ pc'[r] = AfterKids(r, todo[r] \ {k})
          /\ \A q \in Reqs \ {r} : pc'[q] = pc[q] /\ todo'[q] = todo[q]
      BY <2>0, <2>2 DEF Goto, TypeOK
    <3>2. CASE IsTx(r)
      BY <1>0, <2>0, <2>2, <3>1, <3>2, OpenTxKids DEF db
    <3>3. CASE ~IsTx(r)
      <4>1. kids' = [kids EXCEPT ![Doc(r)] = kids[Doc(r)] \cup {k}]
        BY <2>0, <2>2, <3>3
      <4>2. OnlyEdit(r) /\ kids'[Doc(r)] = kids[Doc(r)] \cup {k} /\ Doc(r)' = Doc(r)
        BY <1>0, <3>1, <4>1 DEF OnlyEdit, OnlyDoc, TypeOK, Doc
      <4>3. /\ SavesWhole(r) /\ kids[Doc(r)] \cup todo[r] = mem[r].kids
            /\ kids[Doc(r)] \cap todo[r] = {}
        BY <1>0, <3>1, <3>3 DEF Replaces
      <4>4. SavesWhole(r)'
        BY <3>1, <4>2, <4>3 DEF SavesWhole, Payload
      <4>5. /\ kids'[Doc(r)] \cup todo'[r] = mem'[r].kids
            /\ kids'[Doc(r)] \cap todo'[r] = {}
        BY <2>0, <3>1, <4>2, <4>3
      <4>6. pc'[r] \in {"fill", "answer"} /\ (pc'[r] = "answer" => todo'[r] = {})
        BY <3>1, <3>3 DEF AfterKids
      <4>7. pc'[r] = "answer" => Whole(Doc(r))'
        BY <4>2, <4>4, <4>5, <4>6 DEF SavesWhole, Whole, Payload
      <4>8. Replaces(r)'
        BY <1>0, <3>1, <3>3, <4>2, <4>4, <4>5, <4>6, <4>7 DEF Replaces
      <4>9. Active(r)'
        BY <4>6 DEF Active
      <4> QED
        BY <1>0, <3>1, <3>3, <4>2, <4>8, <4>9, KidsStep
    <3> QED
      BY <3>2, <3>3
  <2> QED
    BY <2>1, <2>2
<1> QED
  BY <1>2, <1>3, <1>4, <1>5

LEMMA TxStepsKids ==
    ASSUME TypeOK, SerialInv, ChildrenWhole, ReplaceInv, NEW r \in Reqs,
           Begin(r) \/ Hook(r)
    PROVE  ChildrenWhole' /\ ReplaceInv'
<1>1. /\ Active(r) /\ IsTx(r) /\ AloneInv
      /\ UNCHANGED <<db, req>> /\ mem' = mem /\ todo' = todo
      /\ \A q \in Reqs \ {r} : pc'[q] = pc[q]
  BY DEF Begin, Hook, Goto, Active, SerialInv, KindInv, locals, TypeOK
<1> QED
  BY <1>1, OpenTxKids

\* COMMIT writes back the children the transaction has read.
LEMMA CommitKids ==
    ASSUME TypeOK, SerialInv, ChildrenWhole, ReplaceInv, NEW r \in Reqs, Commit(r)
    PROVE  ChildrenWhole' /\ ReplaceInv'
<1>1. /\ Active(r) /\ AloneInv /\ req' = req
      /\ \A q \in Reqs \ {r} : pc'[q] = pc[q] /\ mem'[q] = mem[q] /\ todo'[q] = todo[q]
  BY DEF Commit, Leave, Goto, Active, SerialInv, TypeOK
<1>2. /\ IsTx(r) /\ OnlyDoc(Doc(r)) /\ kids' = kids
      /\ rows[Doc(r)].status = Absent => Doc(r) \in Singles
  BY CommitWrites
<1>3. OnlyEdit(r)
  BY <1>1, <1>2 DEF OnlyEdit
<1>4. Whole(Doc(r)) => Whole(Doc(r))'
  BY <1>1, <1>2 DEF Whole, Doc
<1> QED
  BY <1>1, <1>2, <1>3, <1>4, KidsStep

LEMMA AnswerKids ==
    ASSUME TypeOK, SerialInv, ChildrenWhole, ReplaceInv, NEW r \in Reqs,
           Answer(r) \/ MissLate(r)
    PROVE  ChildrenWhole' /\ ReplaceInv'
<1>1. /\ Active(r) /\ AloneInv /\ UNCHANGED <<db, req>>
      /\ pc[r] = "answer" /\ pc'[r] = "done"
      /\ \A q \in Reqs \ {r} : pc'[q] = pc[q] /\ mem'[q] = mem[q] /\ todo'[q] = todo[q]
  BY DEF Answer, MissLate, Reject, Leave, Goto, Active, SerialInv, TypeOK
<1>2. ~Active(r)'
  BY <1>1 DEF Active
<1> QED
  BY <1>1, <1>2, KidsQuiet

\* An edit arrives where nobody is replacing the children.
LEMMA ArriveKids ==
    ASSUME Serial, TypeOK, SerialInv, ChildrenWhole, ReplaceInv, NEW r \in Reqs,
           NEW kind \in Edits \cup Transitions, NEW d \in Docs, NEW l \in Lambdas,
           NEW newKids \in BOOLEAN, Arrive(r, kind, d, l, newKids)
    PROVE  ChildrenWhole' /\ ReplaceInv'
<1>1. /\ ~Active(r) /\ UNCHANGED <<db, mem, todo>>
      /\ \A q \in Reqs \ {r} : pc'[q] = pc[q] /\ req'[q] = req[q]
      /\ req'[r] = [kind |-> kind, doc |-> d, lambda |-> l, newKids |-> newKids]
      /\ pc'[r] = IF kind \in Transitions THEN "queued" ELSE "gate"
      /\ kind = "create" => newKids
  BY DEF Arrive, Goto, Active, TypeOK, locals
<1>2. /\ Doc(r)' = d /\ IsTx(r)' = (kind \in Transitions)
      /\ \A q \in Reqs \ {r} : /\ Active(q)' = Active(q) /\ Doc(q)' = Doc(q)
                               /\ IsTx(q)' = IsTx(q)
  BY <1>1 DEF Doc, IsTx, Active
<1>3. \A e \in Docs : Whole(e) => Whole(e)'
  BY <1>1, WholeFrame DEF db, Whole
<1>4. ChildrenWhole'
  <2> SUFFICES ASSUME NEW e \in Docs, ~Editing(e)' PROVE Whole(e)'
    BY DEF ChildrenWhole
  <2>1. ~Editing(e)
    BY <1>1, <1>2 DEF Editing
  <2> QED
    BY <1>3, <2>1 DEF ChildrenWhole
<1>5. ASSUME NEW q \in Reqs, Active(q)', ~IsTx(q)' PROVE Replaces(q)'
  <2>1. CASE q # r
    <3>1. Replaces(q)
      BY <1>2, <1>5, <2>1 DEF ReplaceInv
    <3> QED
      BY <1>1, <2>1, <3>1, ReplacesFrame DEF db
  <2>2. CASE q = r
    <3>1. \A p \in Reqs : ~(Active(p) /\ Doc(p) = d)
      BY <1>2, <1>5, <2>2 DEF Arrive, MayArrive, Serial
    <3>2. Whole(d)'
      BY <1>3, <3>1 DEF ChildrenWhole, Editing
    <3>3. pc'[r] = "gate"
      BY <1>1, <1>2, <1>5, <2>2
    <3> QED
      BY <1>1, <1>2, <2>2, <3>2, <3>3 DEF Replaces
  <2> QED
    BY <2>1, <2>2
<1> QED
  BY <1>4, <1>5 DEF ReplaceInv

LEMMA KidsInit == Init => KidsInv
<1> SUFFICES ASSUME Init PROVE ChildrenWhole /\ ReplaceInv
  BY DEF KidsInv
<1>1. \A d \in Docs : /\ rows[d].status \in {Absent, Draft}
                      /\ kids[d] = IF rows[d].status = Draft THEN Payload(Seed) ELSE {}
  <2>1. \A d \in Docs : rows[d] \in [status : {Absent, Draft}, patches : {{}}]
    BY DEF Init
  <2> QED
    BY <2>1 DEF Init
<1>2. ChildrenWhole
  BY <1>1 DEF ChildrenWhole, Whole
<1>3. \A r \in Reqs : ~Active(r)
  BY DEF Init, Active
<1> QED
  BY <1>2, <1>3 DEF ReplaceInv

LEMMA KidsNext ==
    ASSUME Serial, TypeOK, SerialInv, KidsInv, [Next]_vars PROVE KidsInv'
<1>1. faults \in Nat /\ (faults' = 0 => faults = 0)
  <2>1. ASSUME NEW r \in Reqs, Step(r) PROVE faults' = faults
    <3>1. CASE Begin(r) \/ Gate(r) \/ Load(r) \/ LoadChildren(r) \/ Check(r) \/ Existing(r)
      BY <3>1 DEF Begin, Gate, Load, LoadChildren, Check, Existing
    <3>2. CASE Update(r) \/ Insert(r) \/ Clear(r) \/ Hook(r) \/ Commit(r) \/ Answer(r)
      BY <3>2 DEF Update, Insert, Clear, Hook, Commit, Answer
    <3>3. CASE Fill(r)
      BY <3>3 DEF Fill
    <3> QED
      BY <2>1, <3>1, <3>2, <3>3 DEF Step
  <2>2. ASSUME NEW r \in Reqs, StoreError(r) PROVE faults' = faults + 1
    BY <2>2 DEF StoreError
  <2>3. ASSUME NEW l \in Lambdas, Crash(l) PROVE faults' = faults + 1
    BY <2>3 DEF Crash
  <2>4. ASSUME \/ \E r \in Reqs : Refuse(r) \/ MissLate(r)
               \/ \E r \in Reqs, kind \in Edits \cup Transitions, d \in Docs,
                    l \in Lambdas, newKids \in BOOLEAN : Arrive(r, kind, d, l, newKids)
               \/ UNCHANGED vars
        PROVE  faults' = faults
    BY <2>4, RefuseFact DEF MissLate, Arrive, vars
  <2>5. faults \in Nat
    BY DEF TypeOK
  <2>6. faults' = faults \/ faults' = faults + 1
    BY <2>1, <2>2, <2>3, <2>4 DEF Next, Finished
  <2> QED
    BY <2>5, <2>6
<1> SUFFICES ASSUME faults' = 0, ChildrenWhole, ReplaceInv
             PROVE  ChildrenWhole' /\ ReplaceInv'
  BY <1>1 DEF KidsInv
<1>2. ASSUME NEW r \in Reqs, Step(r) PROVE ChildrenWhole' /\ ReplaceInv'
  BY <1>2, ReadStepsKids, WriteStepsKids, TxStepsKids, CommitKids, AnswerKids DEF Step
<1>3. ASSUME NEW r \in Reqs, Refuse(r) \/ MissLate(r) PROVE ChildrenWhole' /\ ReplaceInv'
  BY <1>3, RefuseFact, AnswerKids, KidsReject DEF Active, SerialInv, KindInv
<1>4. ~(\E r \in Reqs : StoreError(r)) /\ ~(\E l \in Lambdas : Crash(l))
  BY DEF StoreError, Crash, TypeOK
<1>5. ASSUME UNCHANGED vars PROVE ChildrenWhole' /\ ReplaceInv'
  BY <1>5 DEF vars, ChildrenWhole, ReplaceInv, Editing, Whole, Replaces, SavesWhole, Payload,
              Active, Doc, IsTx
<1> QED
  BY <1>2, <1>3, <1>4, <1>5, ArriveKids DEF Next, Finished

\* save() "replaces wholesale": while nobody edits it and as long as no call has failed,
\* the children of a document are all those of one save, however many transitions ran
\* beside one another.
THEOREM ChildrenCorrect == Serial /\ Spec => []ChildrenWholeWithoutFaults
<1> DEFINE Inv == Serial /\ TypeOK /\ SerialInv
<1>1. Serial /\ Spec => []Inv
  <2>1. Serial => Serial'
    BY DEF Serial
  <2> QED
    BY <2>1, SerialCorrect, PTL DEF Spec
<1>2. Inv /\ KidsInv /\ [Next]_vars => KidsInv'
  BY KidsNext
<1>3. KidsInv => ChildrenWholeWithoutFaults
  BY DEF KidsInv, ChildrenWholeWithoutFaults
<1> QED
  BY <1>1, <1>2, <1>3, KidsInit, PTL DEF Spec

=============================================================================
