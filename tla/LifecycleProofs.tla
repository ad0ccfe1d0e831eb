-------------------------- MODULE LifecycleProofs ---------------------------
(* Theorems about Lifecycle, for every set of documents, requests and lambdas *)
(* and every value of the bounds.                                             *)
EXTENDS Lifecycle, TLAPS

-----------------------------------------------------------------------------
(* Types *)

LEMMA PayloadType ==
    ASSUME NEW by \in Reqs \cup {Seed} PROVE Payload(by) \subseteq Kid
  BY DEF Payload, Kid

LEMMA FromStatusType ==
    ASSUME NEW kind PROVE /\ FromStatus(kind) \in {Draft, Submitted}
                          /\ FromStatus(kind) + 1 \in {Submitted, Cancelled}
  BY DEF FromStatus, Draft, Submitted, Cancelled

LEMMA EmptyMemoryType == EmptyMemory \in Memory
  BY DEF EmptyMemory, Memory, Status

\* What every end of a request does to its private state keeps the types.
LEMMA LeaveType ==
    ASSUME TypeOK, NEW r \in Reqs, Leave(r)
    PROVE  /\ mem' \in [Reqs -> Memory]
           /\ todo' \in [Reqs -> SUBSET Kid]
           /\ del' \in [Reqs -> SUBSET Kid]
           /\ conn' \in [Lambdas -> Reqs \cup {NoReq}]
  BY EmptyMemoryType DEF TypeOK, Leave

LEMMA RejectType ==
    ASSUME TypeOK, NEW r \in Reqs, NEW code \in Codes, Reject(r, code), faults' \in Nat
    PROVE  TypeOK'
<1>1. mem' \in [Reqs -> Memory] /\ todo' \in [Reqs -> SUBSET Kid]
      /\ del' \in [Reqs -> SUBSET Kid] /\ conn' \in [Lambdas -> Reqs \cup {NoReq}]
  BY LeaveType DEF Reject
<1>2. pc' \in [Reqs -> PC] /\ resp' \in [Reqs -> Codes]
  BY DEF TypeOK, Reject, PC
<1> QED
  BY <1>1, <1>2 DEF TypeOK, Reject, db

LEMMA ChangedType ==
    ASSUME TypeOK, NEW r \in Reqs PROVE Changed(r) \in Memory
<1>1. mem[r] \in Memory
  BY DEF TypeOK
<1>2. FromStatus(req[r].kind) + 1 \in Status
  BY FromStatusType DEF Status
<1>3. Payload(r) \subseteq Kid
  BY PayloadType
<1> QED
  BY <1>1, <1>2, <1>3 DEF Changed, Memory

LEMMA InitType == Init => TypeOK
<1> SUFFICES ASSUME Init PROVE TypeOK
  OBVIOUS
<1>1. Blank \in Request
  BY LifecycleAssumption DEF Blank, Request
<1>2. rows \in [Docs -> Row]
  BY DEF Init, Row, Status
<1>3. kids \in [Docs -> SUBSET Kid]
  BY PayloadType DEF Init
<1> QED
  BY <1>1, <1>2, <1>3, EmptyMemoryType DEF Init, TypeOK, PC, Codes

\* Steps that only move pc, or write mem, keep the types.
LEMMA ReadStepsType ==
    ASSUME TypeOK, NEW r \in Reqs,
           Gate(r) \/ Load(r) \/ LoadChildren(r) \/ Check(r) \/ Existing(r)
    PROVE  TypeOK'
<1>1. CASE Gate(r)
  <2>1. [status |-> Draft, patches |-> {}, kids |-> {}] \in Memory
    BY DEF Memory, Status
  <2>2. mem' \in [Reqs -> Memory]
    BY <1>1, <2>1 DEF Gate, TypeOK
  <2>3. pc' \in [Reqs -> PC]
    BY <1>1 DEF Gate, Goto, TypeOK, PC
  <2> QED
    BY <1>1, <2>2, <2>3 DEF Gate, TypeOK, pool, db
<1>2. CASE Load(r)
  <2>1. faults' \in Nat
    BY <1>2 DEF Load, TypeOK
  <2>2. CASE Reject(r, 404)
    BY <2>1, <2>2, RejectType DEF Codes, Refusals
  <2>3. CASE ~Reject(r, 404)
    <3>1. Doc(r) \in Docs /\ mem[r] \in Memory
      BY DEF TypeOK, Doc, Request
    <3>2. rows[Doc(r)].status \in Status /\ rows[Doc(r)].patches \in SUBSET Reqs
      BY <3>1 DEF TypeOK, Row
    <3>3. /\ [status |-> rows[Doc(r)].status, patches |-> rows[Doc(r)].patches,
              kids |-> {}] \in Memory
          /\ [status |-> Draft, patches |-> {}, kids |-> {}] \in Memory
      BY <3>2 DEF Memory, Status
    <3>4. mem' \in [Reqs -> Memory]
      BY <1>2, <2>3, <3>3 DEF Load, TypeOK
    <3> QED
      BY <1>2, <2>1, <2>3, <3>4 DEF Load, Goto, TypeOK, PC, pool, db
  <2> QED
    BY <2>2, <2>3
<1>3. CASE LoadChildren(r)
  <2>1. VisibleKids(r) \subseteq Kid /\ mem \in [Reqs -> Memory]
    BY DEF VisibleKids, Doc, TypeOK, Request
  <2>2. mem' \in [Reqs -> Memory]
    BY <1>3, <2>1 DEF LoadChildren, Memory
  <2>3. pc' \in [Reqs -> PC]
    BY <1>3 DEF LoadChildren, Goto, TypeOK, PC
  <2> QED
    BY <1>3, <2>2, <2>3 DEF LoadChildren, TypeOK, pool, db
<1>4. CASE Check(r)
  <2>1. faults' \in Nat
    BY <1>4 DEF Check, TypeOK
  <2>2. CASE Reject(r, 409)
    BY <2>1, <2>2, RejectType DEF Codes, Refusals
  <2>3. CASE ~Reject(r, 409)
    <3>1. Changed(r) \in Memory /\ Changed(r).kids \subseteq Kid
      BY ChangedType DEF Memory
    <3>2. /\ mem' = [mem EXCEPT ![r] = Changed(r)]
          /\ todo' = [todo EXCEPT ![r] = Changed(r).kids]
          /\ Goto(r, IF req[r].kind = "create" THEN "insert" ELSE "existing")
          /\ UNCHANGED <<db, req, del, resp, pool>>
      BY <1>4, <2>3 DEF Check
    <3>3. mem' \in [Reqs -> Memory]
      BY <3>1, <3>2 DEF TypeOK
    <3>4. todo' \in [Reqs -> SUBSET Kid]
      BY <3>1, <3>2 DEF TypeOK
    <3>5. pc' \in [Reqs -> PC]
      BY <3>2 DEF Goto, TypeOK, PC
    <3> QED
      BY <2>1, <3>2, <3>3, <3>4, <3>5 DEF TypeOK, pool, db
  <2> QED
    BY <2>2, <2>3
<1>5. CASE Existing(r)
  <2>1. faults' \in Nat
    BY <1>5 DEF Existing, TypeOK
  <2>2. CASE Reject(r, 409)
    BY <2>1, <2>2, RejectType DEF Codes, Refusals
  <2>3. CASE ~Reject(r, 409)
    BY <1>5, <2>1, <2>3 DEF Existing, Goto, TypeOK, PC, pool, db, locals
  <2> QED
    BY <2>2, <2>3
<1> QED
  BY <1>1, <1>2, <1>3, <1>4, <1>5

LEMMA WriteStepsType ==
    ASSUME TypeOK, NEW r \in Reqs,
           Update(r) \/ Insert(r) \/ Clear(r) \/ Fill(r)
    PROVE  TypeOK'
<1>0. /\ Doc(r) \in Docs
      /\ [status |-> mem[r].status, patches |-> mem[r].patches] \in Row
  BY DEF TypeOK, Doc, Request, Memory, Row
<1>1. CASE Update(r)
  BY <1>0, <1>1 DEF Update, WriteHeader, Goto, TypeOK, PC, pool, locals
<1>2. CASE Insert(r)
  <2>1. faults' \in Nat
    BY <1>2 DEF Insert, TypeOK
  <2>2. CASE Reject(r, 500)
    BY <2>1, <2>2, RejectType DEF Codes
  <2>3. CASE ~Reject(r, 500)
    BY <1>0, <1>2, <2>1, <2>3
    DEF Insert, WriteHeader, AfterKids, Goto, TypeOK, PC, pool, locals
  <2> QED
    BY <2>2, <2>3
<1>3. CASE Clear(r)
  <2>1. kids' \in [Docs -> SUBSET Kid]
    BY <1>0, <1>3 DEF Clear, TypeOK
  <2>2. VisibleKids(r) \subseteq Kid
    BY <1>0 DEF VisibleKids, TypeOK
  <2>3. del' \in [Reqs -> SUBSET Kid]
    BY <1>3, <2>2 DEF Clear, TypeOK
  <2>4. pc' \in [Reqs -> PC]
    BY <1>3 DEF Clear, AfterKids, Goto, TypeOK, PC
  <2> QED
    BY <1>3, <2>1, <2>3, <2>4 DEF Clear, TypeOK, pool
<1>4. CASE Fill(r)
  <2>1. PICK k \in todo[r] : Fill(r)!(k)
    BY <1>4 DEF Fill
  <2>2. faults' \in Nat
    BY <2>1 DEF TypeOK
  <2>3. CASE Reject(r, 500)
    BY <2>2, <2>3, RejectType DEF Codes
  <2>4. CASE ~Reject(r, 500)
    <3>1. k \in Kid
      BY DEF TypeOK
    <3>2. kids' = IF IsTx(r) THEN kids ELSE [kids EXCEPT ![Doc(r)] = @ \cup {k}]
      BY <2>1, <2>4
    <3>3. kids \in [Docs -> SUBSET Kid]
      BY DEF TypeOK
    <3>4. kids' \in [Docs -> SUBSET Kid]
      BY <1>0, <3>1, <3>2, <3>3
    <3>5. /\ todo' = [todo EXCEPT ![r] = @ \ {k}]
          /\ Goto(r, AfterKids(r, todo[r] \ {k}))
          /\ UNCHANGED <<rows, ledger, req, mem, del, resp, pool>>
      BY <2>1, <2>4
    <3>6. todo' \in [Reqs -> SUBSET Kid] /\ pc' \in [Reqs -> PC]
      BY <3>5 DEF AfterKids, Goto, TypeOK, PC
    <3> QED
      BY <2>2, <3>4, <3>5, <3>6 DEF TypeOK, pool
  <2> QED
    BY <2>3, <2>4
<1> QED
  BY <1>1, <1>2, <1>3, <1>4

\* A refusal ends the request where the code may throw a 4xx: an edit has then not
\* written, a transition not committed.
LEMMA RefuseFact ==
    ASSUME NEW r \in Reqs, Refuse(r)
    PROVE  /\ pc[r] \in {"gate", "check", "hook", "commit"}
           /\ \E code \in Refusals : Reject(r, code)
           /\ faults' = faults
  BY DEF Refuse, RefusalsAt, Refusals

LEMMA EndStepsType ==
    ASSUME TypeOK, KindInv, NEW r \in Reqs,
           \/ Hook(r) \/ Commit(r) \/ Answer(r)
           \/ Refuse(r) \/ MissLate(r) \/ StoreError(r)
    PROVE  TypeOK'
<1>0. /\ Doc(r) \in Docs /\ mem[r].kids \subseteq Kid
      /\ [status |-> mem[r].status, patches |-> mem[r].patches] \in Row
  BY DEF TypeOK, Doc, Request, Memory, Row
<1>1. CASE Hook(r)
  BY <1>1 DEF Hook, Goto, TypeOK, PC, pool, locals, db
<1>3. CASE Answer(r)
  BY <1>3, LeaveType DEF Answer, Goto, TypeOK, PC, Codes, db
<1>4. CASE Refuse(r)
  BY <1>4, RefuseFact, RejectType DEF TypeOK, Codes
<1>6. CASE MissLate(r)
  BY <1>6, RejectType DEF MissLate, TypeOK, Codes
<1>5. CASE StoreError(r)
  BY <1>5, RejectType DEF StoreError, TypeOK, Codes
<1>2. CASE Commit(r)
  <2> DEFINE e == [by |-> r, op |-> req[r].kind]
  <2>1. e \in Effect
    BY <1>2 DEF Effect, KindInv, Commit, IsTx
  <2> QED
    BY <2>1, <1>2, <1>0, LeaveType DEF Commit, Goto, TypeOK, PC
<1> QED
  BY <1>1, <1>2, <1>3, <1>4, <1>5, <1>6

LEMMA QueueStepsType ==
    ASSUME TypeOK, NEW r \in Reqs
    PROVE  /\ Begin(r) => TypeOK'
           /\ \A kind \in Edits \cup Transitions, d \in Docs, l \in Lambdas,
                 newKids \in BOOLEAN : Arrive(r, kind, d, l, newKids) => TypeOK'
<1>1. ASSUME Begin(r) PROVE TypeOK'
  <2> DEFINE l == req[r].lambda
  <2>1. l \in Lambdas /\ waiting[l] \in Seq(Reqs) /\ waiting[l] # <<>>
    BY <1>1 DEF Begin, TypeOK, Request
  <2>2. Tail(waiting[l]) \in Seq(Reqs)
    BY <2>1
  <2>3. waiting' \in [Lambdas -> Seq(Reqs)] /\ conn' \in [Lambdas -> Reqs \cup {NoReq}]
        /\ pc' \in [Reqs -> PC]
    BY <1>1, <2>1, <2>2 DEF Begin, Goto, TypeOK, PC
  <2> QED
    BY <1>1, <2>3 DEF Begin, TypeOK, db, locals
<1>2. ASSUME NEW kind \in Edits \cup Transitions, NEW d \in Docs, NEW l \in Lambdas,
             NEW newKids \in BOOLEAN, Arrive(r, kind, d, l, newKids)
      PROVE  TypeOK'
  <2>1. req' \in [Reqs -> Request]
    BY <1>2 DEF Arrive, TypeOK, Request
  <2>2. Append(waiting[l], r) \in Seq(Reqs)
    BY DEF TypeOK
  <2>3. waiting' \in [Lambdas -> Seq(Reqs)]
    BY <1>2, <2>2 DEF Arrive, TypeOK
  <2>4. pc' \in [Reqs -> PC]
    BY <1>2 DEF Arrive, Goto, TypeOK, PC
  <2> QED
    BY <1>2, <2>1, <2>3, <2>4 DEF Arrive, TypeOK, db, locals
<1> QED
  BY <1>1, <1>2

LEMMA CrashType ==
    ASSUME TypeOK, NEW l \in Lambdas, Crash(l) PROVE TypeOK'
<1>1. mem' \in [Reqs -> Memory] /\ todo' \in [Reqs -> SUBSET Kid]
      /\ del' \in [Reqs -> SUBSET Kid]
  BY EmptyMemoryType DEF Crash, TypeOK
<1>2. pc' \in [Reqs -> PC] /\ resp' \in [Reqs -> Codes]
  BY DEF Crash, TypeOK, PC, Codes
<1>3. conn' \in [Lambdas -> Reqs \cup {NoReq}] /\ waiting' \in [Lambdas -> Seq(Reqs)]
  <2>1. <<>> \in Seq(Reqs)
    OBVIOUS
  <2> QED
    BY <2>1 DEF Crash, TypeOK
<1> QED
  BY <1>1, <1>2, <1>3 DEF Crash, TypeOK, db

LEMMA TypeNext == TypeOK /\ KindInv /\ [Next]_vars => TypeOK'
<1> SUFFICES ASSUME TypeOK, KindInv, [Next]_vars PROVE TypeOK'
  OBVIOUS
<1>1. CASE \E r \in Reqs : Step(r) \/ Refuse(r) \/ MissLate(r) \/ StoreError(r)
  <2>1. PICK r \in Reqs : Step(r) \/ Refuse(r) \/ MissLate(r) \/ StoreError(r)
    BY <1>1
  <2> QED
    BY <2>1, ReadStepsType, WriteStepsType, EndStepsType, QueueStepsType DEF Step
<1>2. CASE \E r \in Reqs, kind \in Edits \cup Transitions, d \in Docs, l \in Lambdas,
              newKids \in BOOLEAN : Arrive(r, kind, d, l, newKids)
  BY <1>2, QueueStepsType
<1>3. CASE \E l \in Lambdas : Crash(l)
  BY <1>3, CrashType
<1>4. CASE UNCHANGED vars
  BY <1>4 DEF TypeOK, vars
<1> QED
  BY <1>1, <1>2, <1>3, <1>4 DEF Next, Finished

LEMMA KindInit == Init => KindInv
  BY DEF Init, KindInv, Active

\* A request that moves from one statement to another passes through those of
\* its kind only.
LEMMA KindMove ==
    ASSUME TypeOK, KindInv, NEW r \in Reqs, NEW x \in PC,
           pc' = [pc EXCEPT ![r] = x], req' = req, Active(r),
           x \in {"queued", "hook", "commit"} => IsTx(r),
           x \in {"load", "children", "existing", "update", "clear"}
              => req[r].kind # "create"
    PROVE  KindInv'
  BY DEF TypeOK, KindInv, Active, IsTx

LEMMA KindNext == TypeOK /\ KindInv /\ [Next]_vars => KindInv'
<1> SUFFICES ASSUME TypeOK, KindInv, [Next]_vars PROVE KindInv'
  OBVIOUS
<1>1. ASSUME NEW r \in Reqs, Step(r) PROVE KindInv'
  <2> USE DEF Goto, Reject, PC, Active
  <2>1. CASE Begin(r)
    BY <2>1, KindMove DEF Begin
  <2>2. CASE Gate(r)
    BY <2>2, KindMove DEF Gate
  <2>3. CASE Load(r)
    BY <2>3, KindMove DEF Load, KindInv
  <2>4. CASE LoadChildren(r)
    BY <2>4, KindMove DEF LoadChildren
  <2>5. CASE Check(r)
    BY <2>5, KindMove DEF Check
  <2>6. CASE Existing(r)
    BY <2>6, KindMove DEF Existing, KindInv
  <2>7. CASE Update(r)
    BY <2>7, KindMove DEF Update, KindInv
  <2>8. CASE Insert(r)
    BY <2>8, KindMove DEF Insert, AfterKids
  <2>9. CASE Clear(r)
    BY <2>9, KindMove DEF Clear, AfterKids
  <2>10. CASE Fill(r)
    BY <2>10, KindMove DEF Fill, AfterKids
  <2>11. CASE Hook(r)
    BY <2>11, KindMove DEF Hook, KindInv
  <2>12. CASE Commit(r)
    BY <2>12, KindMove DEF Commit
  <2>13. CASE Answer(r)
    BY <2>13, KindMove DEF Answer
  <2> QED
    BY <1>1, <2>1, <2>2, <2>3, <2>4, <2>5, <2>6, <2>7, <2>8, <2>9, <2>10, <2>11,
       <2>12, <2>13 DEF Step
<1>2. ASSUME NEW r \in Reqs, Refuse(r) \/ MissLate(r) \/ StoreError(r) PROVE KindInv'
  BY <1>2, RefuseFact, KindMove DEF MissLate, StoreError, Reject, PC, OpenPC, Active
<1>3. ASSUME NEW r \in Reqs, NEW kind \in Edits \cup Transitions, NEW d \in Docs,
             NEW l \in Lambdas, NEW newKids \in BOOLEAN, Arrive(r, kind, d, l, newKids)
      PROVE  KindInv'
  BY <1>3 DEF Arrive, Goto, KindInv, Active, IsTx, TypeOK, Edits, Transitions
<1>4. ASSUME NEW l \in Lambdas, Crash(l) PROVE KindInv'
  BY <1>4 DEF Crash, KindInv, Active, IsTx, TypeOK
<1>5. CASE UNCHANGED vars
  BY <1>5 DEF KindInv, Active, IsTx, vars
<1> QED
  BY <1>1, <1>2, <1>3, <1>4, <1>5 DEF Next, Finished

\* Every variable keeps its type, and a request only passes through the
\* statements of its kind, in every deployment.
THEOREM TypeCorrect == Spec => [](TypeOK /\ KindInv)
<1>1. Init => TypeOK /\ KindInv
  BY InitType, KindInit
<1>2. TypeOK /\ KindInv /\ [Next]_vars => (TypeOK /\ KindInv)'
  BY TypeNext, KindNext
<1> QED
  BY <1>1, <1>2, PTL DEF Spec

-----------------------------------------------------------------------------
(* Whatever overlaps: no hypothesis on the number of instances or on what     *)
(* runs beside an edit.                                                       *)

\* r has not written anything yet, or never will.
Untouched(r) ==
    \/ resp[r] \in Refusals
    \/ pc[r] \in {"idle", "queued", "gate", "load", "children", "check", "existing",
                  "insert", "update"}
    \/ IsTx(r) /\ pc[r] \notin {"answer", "done"}

\* The document q has in memory, and is about to write, holds nothing of r.
NoTraceWith(q, r) ==
    r \notin mem[q].patches /\ \A k \in mem[q].kids \cup todo[q] : k.by # r

\* Nobody has seen anything of a request that has not written.
TraceInv ==
    \A r \in Reqs : Untouched(r) =>
        LeftNoTrace(r) /\ \A q \in Reqs \ {r} : NoTraceWith(q, r)

\* A request is answered at its end.
EndInv == \A r \in Reqs : resp[r] # NoAnswer => pc[r] = "done"

\* From COMMIT on, the side effect of a transition is there.
RecordedInv ==
    \A r \in Reqs : IsTx(r) /\ (pc[r] = "answer" \/ resp[r] = 200) =>
        [by |-> r, op |-> req[r].kind] \in ledger[Doc(r)]

\* After its check a transition holds the docstatus it moves to.
MovedInv ==
    \A r \in Reqs : IsTx(r) /\ pc[r] \in {"existing", "insert", "update"} \cup WrotePC =>
        mem[r].status = FromStatus(req[r].kind) + 1

OverlapInv == TraceInv /\ EndInv /\ RecordedInv /\ MovedInv

\* A step of q alone: it shows the others nothing they had not seen, and where q has
\* not written, its step does not write.
LEMMA TraceStep ==
    ASSUME TraceInv, NEW q \in Reqs,
           \A r \in Reqs \ {q} : /\ pc'[r] = pc[r] /\ resp'[r] = resp[r] /\ req'[r] = req[r]
                                 /\ mem'[r] = mem[r] /\ todo'[r] = todo[r],
           \A r \in Reqs \ {q} : LeftNoTrace(r) /\ NoTraceWith(q, r) =>
                                     LeftNoTrace(r)' /\ NoTraceWith(q, r)',
           Untouched(q)' => Untouched(q) /\ UNCHANGED db
    PROVE  TraceInv'
<1> SUFFICES ASSUME NEW r \in Reqs, Untouched(r)'
             PROVE  LeftNoTrace(r)' /\ \A p \in Reqs \ {r} : NoTraceWith(p, r)'
  BY DEF TraceInv
<1>1. CASE r = q
  <2>1. LeftNoTrace(q) /\ \A p \in Reqs \ {q} : NoTraceWith(p, q)
    BY <1>1 DEF TraceInv
  <2> QED
    BY <1>1, <2>1 DEF LeftNoTrace, NoTraceWith, db
<1>2. CASE r # q
  <2>1. Untouched(r)
    BY <1>2 DEF Untouched, IsTx
  <2>2. LeftNoTrace(r) /\ \A p \in Reqs \ {r} : NoTraceWith(p, r)
    BY <2>1 DEF TraceInv
  <2>3. LeftNoTrace(r)' /\ NoTraceWith(q, r)'
    BY <1>2, <2>2
  <2>4. ASSUME NEW p \in Reqs \ {r}, p # q PROVE NoTraceWith(p, r)'
    BY <2>2, <2>4 DEF NoTraceWith
  <2> QED
    BY <2>3, <2>4
<1> QED
  BY <1>1, <1>2

\* The end of a request, its last writing done.
LEMMA LeaveTrace ==
    ASSUME TypeOK, TraceInv, NEW q \in Reqs, NEW code \in Codes, Leave(q),
           UNCHANGED <<db, req>>, pc' = [pc EXCEPT ![q] = "done"],
           resp' = [resp EXCEPT ![q] = code], code \in Refusals => Untouched(q)
    PROVE  TraceInv'
<1>1. \A r \in Reqs \ {q} : /\ pc'[r] = pc[r] /\ resp'[r] = resp[r] /\ req'[r] = req[r]
                            /\ mem'[r] = mem[r] /\ todo'[r] = todo[r]
  BY DEF TypeOK, Leave
<1>2. mem'[q] = EmptyMemory /\ todo'[q] = {}
  BY DEF TypeOK, Leave
<1>3. ASSUME NEW r \in Reqs \ {q}, LeftNoTrace(r) PROVE LeftNoTrace(r)' /\ NoTraceWith(q, r)'
  BY <1>2, <1>3 DEF LeftNoTrace, NoTraceWith, EmptyMemory, db
<1>4. Untouched(q)' => Untouched(q) /\ UNCHANGED db
  BY DEF TypeOK, Untouched, IsTx
<1> QED
  BY <1>1, <1>3, <1>4, TraceStep

LEMMA RejectTrace ==
    ASSUME TypeOK, TraceInv, NEW q \in Reqs, NEW code \in Codes, Reject(q, code),
           code \in Refusals => Untouched(q)
    PROVE  TraceInv'
  BY LeaveTrace DEF Reject

\* A step that reads: what it puts in memory comes from the database, from memory, or
\* is its own.
LEMMA ReadTrace ==
    ASSUME TypeOK, TraceInv, NEW q \in Reqs, UNCHANGED <<db, req, resp>>,
           NEW x, pc' = [pc EXCEPT ![q] = x], Untouched(q),
           \A r \in Reqs \ {q} : mem'[r] = mem[r] /\ todo'[r] = todo[r],
           mem'[q].patches \subseteq rows[Doc(q)].patches \cup mem[q].patches \cup {q},
           mem'[q].kids \cup todo'[q]
              \subseteq kids[Doc(q)] \cup mem[q].kids \cup todo[q] \cup Payload(q)
    PROVE  TraceInv'
<1>1. \A r \in Reqs \ {q} : /\ pc'[r] = pc[r] /\ resp'[r] = resp[r] /\ req'[r] = req[r]
                            /\ mem'[r] = mem[r] /\ todo'[r] = todo[r]
  BY DEF TypeOK
<1>2. Doc(q) \in Docs
  BY DEF TypeOK, Doc, Request
<1>3. ASSUME NEW r \in Reqs \ {q}, LeftNoTrace(r), NoTraceWith(q, r)
      PROVE  LeftNoTrace(r)' /\ NoTraceWith(q, r)'
  <2>1. \A k \in Payload(q) : k.by = q
    BY DEF Payload
  <2>2. LeftNoTrace(r)'
    BY <1>3 DEF LeftNoTrace, db
  <2>3. NoTraceWith(q, r)'
    BY <1>2, <1>3, <2>1 DEF LeftNoTrace, NoTraceWith
  <2> QED
    BY <2>2, <2>3
<1> QED
  BY <1>1, <1>3, TraceStep

\* ... in particular one that puts nothing there.
LEMMA MoveTrace ==
    ASSUME TypeOK, TraceInv, NEW q \in Reqs, UNCHANGED <<db, req, resp, mem, todo>>,
           NEW x, pc' = [pc EXCEPT ![q] = x], Untouched(q)
    PROVE  TraceInv'
<1>1. \A r \in Reqs \ {q} : mem'[r] = mem[r] /\ todo'[r] = todo[r]
  OBVIOUS
<1>2. /\ mem'[q].patches \subseteq rows[Doc(q)].patches \cup mem[q].patches \cup {q}
      /\ mem'[q].kids \cup todo'[q]
            \subseteq kids[Doc(q)] \cup mem[q].kids \cup todo[q] \cup Payload(q)
  OBVIOUS
<1> QED
  BY <1>1, <1>2, ReadTrace

LEMMA ReadStepsTrace ==
    ASSUME TypeOK, KindInv, TraceInv, NEW q \in Reqs,
           Gate(q) \/ Load(q) \/ LoadChildren(q) \/ Check(q) \/ Existing(q) \/ Hook(q)
    PROVE  TraceInv'
<1>0. {404, 409} \subseteq Codes
  BY DEF Codes, Refusals
<1>1. Untouched(q)
  BY DEF Gate, Load, LoadChildren, Check, Existing, Hook, KindInv, Untouched
<1>2. CASE Gate(q)
  <2>1. PICK x : pc' = [pc EXCEPT ![q] = x]
    BY <1>2 DEF Gate, Goto
  <2>2. /\ \A r \in Reqs \ {q} : mem'[r] = mem[r] /\ todo'[r] = todo[r]
        /\ mem'[q].patches \in {{}, mem[q].patches} /\ mem'[q].kids \in {{}, mem[q].kids}
        /\ todo'[q] = todo[q]
    BY <1>2 DEF Gate, TypeOK
  <2> QED
    BY <1>1, <1>2, <2>1, <2>2, ReadTrace DEF Gate
<1>3. CASE Load(q)
  <2>1. CASE Reject(q, 404)
    BY <1>0, <1>1, <2>1, RejectTrace
  <2>2. CASE ~Reject(q, 404)
    <3>1. PICK x : pc' = [pc EXCEPT ![q] = x]
      BY <1>3, <2>2 DEF Load, Goto
    <3>2. /\ \A r \in Reqs \ {q} : mem'[r] = mem[r] /\ todo'[r] = todo[r]
          /\ mem'[q].patches \in {{}, rows[Doc(q)].patches} /\ mem'[q].kids = {}
          /\ todo'[q] = todo[q] /\ UNCHANGED <<db, req, resp>>
      BY <1>3, <2>2 DEF Load, TypeOK
    <3> QED
      BY <1>1, <3>1, <3>2, ReadTrace
  <2> QED
    BY <2>1, <2>2
<1>4. CASE LoadChildren(q)
  <2>1. PICK x : pc' = [pc EXCEPT ![q] = x]
    BY <1>4 DEF LoadChildren, Goto
  <2>2. VisibleKids(q) \subseteq kids[Doc(q)]
    BY DEF VisibleKids
  <2>3. /\ \A r \in Reqs \ {q} : mem'[r] = mem[r] /\ todo'[r] = todo[r]
        /\ mem'[q].patches = mem[q].patches /\ mem'[q].kids = VisibleKids(q)
        /\ todo'[q] = todo[q]
    BY <1>4 DEF LoadChildren, TypeOK, Memory
  <2> QED
    BY <1>1, <1>4, <2>1, <2>2, <2>3, ReadTrace DEF LoadChildren
<1>5. CASE Check(q)
  <2>1. CASE Reject(q, 409)
    BY <1>0, <1>1, <2>1, RejectTrace
  <2>2. CASE ~Reject(q, 409)
    <3>1. PICK x : pc' = [pc EXCEPT ![q] = x]
      BY <1>5, <2>2 DEF Check, Goto
    <3>2. /\ Changed(q).patches \subseteq mem[q].patches \cup {q}
          /\ Changed(q).kids \subseteq mem[q].kids \cup Payload(q)
      BY DEF Changed
    <3>3. /\ \A r \in Reqs \ {q} : mem'[r] = mem[r] /\ todo'[r] = todo[r]
          /\ mem'[q] = Changed(q) /\ todo'[q] = Changed(q).kids
          /\ UNCHANGED <<db, req, resp>>
      BY <1>5, <2>2 DEF Check, TypeOK
    <3> QED
      BY <1>1, <3>1, <3>2, <3>3, ReadTrace
  <2> QED
    BY <2>1, <2>2
<1>6. CASE Existing(q)
  <2>1. CASE Reject(q, 409)
    BY <1>0, <1>1, <2>1, RejectTrace
  <2>2. CASE ~Reject(q, 409)
    BY <1>1, <1>6, <2>2, MoveTrace DEF Existing, Goto, locals
  <2> QED
    BY <2>1, <2>2
<1>7. CASE Hook(q)
  BY <1>1, <1>7, MoveTrace DEF Hook, Goto, locals
<1> QED
  BY <1>2, <1>3, <1>4, <1>5, <1>6, <1>7

\* A step that writes: what it writes was in its memory or in the database, or is its
\* own, and it is not untouched afterwards, unless the database is.
LEMMA WriteTrace ==
    ASSUME TypeOK, TraceInv, NEW q \in Reqs, UNCHANGED <<req, resp>>,
           NEW x, pc' = [pc EXCEPT ![q] = x],
           \A r \in Reqs \ {q} : mem'[r] = mem[r] /\ todo'[r] = todo[r],
           mem'[q] \in {mem[q], EmptyMemory}, todo'[q] \subseteq todo[q],
           \A d \in Docs :
              /\ rows'[d].patches \subseteq rows[d].patches \cup mem[q].patches
              /\ kids'[d] \subseteq kids[d] \cup mem[q].kids \cup todo[q]
              /\ ledger'[d] \subseteq ledger[d] \cup {[by |-> q, op |-> req[q].kind]},
           Untouched(q)' => Untouched(q) /\ UNCHANGED db
    PROVE  TraceInv'
<1>1. \A r \in Reqs \ {q} : /\ pc'[r] = pc[r] /\ resp'[r] = resp[r] /\ req'[r] = req[r]
                            /\ mem'[r] = mem[r] /\ todo'[r] = todo[r]
  BY DEF TypeOK
<1>3. ASSUME NEW r \in Reqs \ {q}, LeftNoTrace(r), NoTraceWith(q, r)
      PROVE  LeftNoTrace(r)' /\ NoTraceWith(q, r)'
  <2>1. LeftNoTrace(r)'
    BY <1>3 DEF LeftNoTrace, NoTraceWith
  <2>2. NoTraceWith(q, r)'
    BY <1>3 DEF NoTraceWith, EmptyMemory
  <2> QED
    BY <2>1, <2>2
<1> QED
  BY <1>1, <1>3, TraceStep

LEMMA WriteStepsTrace ==
    ASSUME TypeOK, KindInv, TraceInv, EndInv, NEW q \in Reqs,
           Update(q) \/ Insert(q) \/ Clear(q) \/ Fill(q) \/ Commit(q)
    PROVE  TraceInv'
<1>0. Doc(q) \in Docs /\ 500 \in Codes /\ resp[q] = NoAnswer
  <2>1. pc[q] # "done"
    BY DEF Update, Insert, Clear, Fill, Commit
  <2> QED
    BY <2>1 DEF TypeOK, Codes, Doc, Request, EndInv
<1>1. ASSUME WriteHeader(q), UNCHANGED <<kids, ledger>>, NEW d \in Docs
      PROVE  /\ rows'[d].patches \subseteq rows[d].patches \cup mem[q].patches
             /\ kids'[d] = kids[d] /\ ledger'[d] = ledger[d]
  BY <1>1 DEF WriteHeader, TypeOK
<1>2. IsTx(q)' = IsTx(q) /\ resp'[q] = resp[q] => (Untouched(q)' <=>
          \/ pc'[q] \in {"idle", "queued", "gate", "load", "children", "check",
                         "existing", "insert", "update"}
          \/ IsTx(q) /\ pc'[q] \notin {"answer", "done"})
  BY <1>0 DEF Untouched, NoAnswer, Refusals
<1>3. CASE Update(q)
  <2>1. pc'[q] = "clear" /\ req' = req /\ resp' = resp
    BY <1>3 DEF Update, Goto, TypeOK
  <2>2. Untouched(q)' => Untouched(q) /\ UNCHANGED db
    BY <1>2, <1>3, <2>1 DEF Update, WriteHeader, IsTx, Untouched, db
  <2> QED
    BY <1>0, <1>1, <1>3, <2>2, WriteTrace DEF Update, Goto, locals
<1>4. CASE Insert(q)
  <2>1. CASE Reject(q, 500)
    BY <1>0, <2>1, RejectTrace DEF Refusals
  <2>2. CASE ~Reject(q, 500)
    <3>1. PICK x \in {"clear", "fill", "hook", "answer"} : Goto(q, x)
      BY <1>4, <2>2 DEF Insert, AfterKids
    <3>2. pc'[q] = x /\ req' = req /\ resp' = resp /\ UNCHANGED <<kids, ledger>>
      BY <1>4, <2>2, <3>1 DEF Insert, Goto, TypeOK
    <3>3. Untouched(q)' => Untouched(q) /\ UNCHANGED db
      BY <1>2, <1>4, <2>2, <3>1, <3>2 DEF Insert, WriteHeader, IsTx, Untouched, db
    <3> QED
      BY <1>0, <1>1, <1>4, <2>2, <3>1, <3>2, <3>3, WriteTrace DEF Insert, Goto, locals
  <2> QED
    BY <2>1, <2>2
<1>5. CASE Clear(q)
  <2>1. PICK x \in {"fill", "hook", "answer"} : Goto(q, x)
    BY <1>5 DEF Clear, AfterKids
  <2>2. pc'[q] = x /\ UNCHANGED <<req, resp, rows, ledger, mem, todo>>
    BY <1>5, <2>1 DEF Clear, Goto, TypeOK
  <2>3. \A d \in Docs : kids'[d] \subseteq kids[d]
    BY <1>5 DEF Clear, TypeOK
  <2>4. Untouched(q)' => Untouched(q) /\ UNCHANGED db
    BY <1>2, <1>5, <2>1, <2>2 DEF Clear, IsTx, Untouched, db
  <2> QED
    BY <1>0, <2>1, <2>2, <2>3, <2>4, WriteTrace DEF Goto
<1>6. CASE Fill(q)
  <2>0. PICK k \in todo[q] : Fill(q)!(k)
    BY <1>6 DEF Fill
  <2>1. CASE Reject(q, 500)
    BY <1>0, <2>1, RejectTrace DEF Refusals
  <2>2. CASE ~Reject(q, 500)
    <3>1. PICK x \in {"fill", "hook", "answer"} : Goto(q, x)
      BY <2>0, <2>2 DEF AfterKids
    <3>2. /\ pc'[q] = x /\ UNCHANGED <<req, resp, rows, ledger, mem>>
          /\ todo'[q] = todo[q] \ {k} /\ \A r \in Reqs \ {q} : todo'[r] = todo[r]
          /\ IsTx(q) => kids' = kids
      BY <2>0, <2>2, <3>1 DEF Goto, TypeOK
    <3>3. \A d \in Docs :
             /\ rows'[d].patches \subseteq rows[d].patches \cup mem[q].patches
             /\ kids'[d] \subseteq kids[d] \cup mem[q].kids \cup todo[q]
             /\ ledger'[d] \subseteq ledger[d] \cup {[by |-> q, op |-> req[q].kind]}
      BY <2>0, <2>2 DEF TypeOK
    <3>5. pc' = [pc EXCEPT ![q] = x]
      BY <3>1 DEF Goto
    <3>4. Untouched(q)' => Untouched(q) /\ UNCHANGED db
      BY <1>2, <2>0, <3>1, <3>2 DEF IsTx, Untouched, db
    <3> QED
      BY <3>2, <3>3, <3>4, <3>5, WriteTrace
  <2> QED
    BY <2>1, <2>2
<1>7. CASE Commit(q)
  <2>1. /\ Goto(q, "answer") /\ UNCHANGED <<req, resp>>
        /\ mem'[q] = EmptyMemory /\ todo'[q] = {}
        /\ \A r \in Reqs \ {q} : mem'[r] = mem[r] /\ todo'[r] = todo[r]
    BY <1>7 DEF Commit, Leave, TypeOK
  <2>2. ASSUME NEW d \in Docs
        PROVE  /\ rows'[d].patches \subseteq rows[d].patches \cup mem[q].patches
               /\ kids'[d] \subseteq kids[d] \cup mem[q].kids \cup todo[q]
               /\ ledger'[d] \subseteq ledger[d] \cup {[by |-> q, op |-> req[q].kind]}
    BY <1>7 DEF Commit, TypeOK
  <2>3. ~Untouched(q)'
    BY <1>0, <2>1 DEF Untouched, Goto, TypeOK, NoAnswer, Refusals
  <2>4. pc' = [pc EXCEPT ![q] = "answer"]
    BY <2>1 DEF Goto
  <2> QED
    BY <2>1, <2>2, <2>3, <2>4, WriteTrace
<1> QED
  BY <1>3, <1>4, <1>5, <1>6, <1>7

LEMMA CrashTrace ==
    ASSUME TypeOK, TraceInv, NEW l \in Lambdas, Crash(l) PROVE TraceInv'
<1> DEFINE dead == {r \in Reqs : Active(r) /\ req[r].lambda = l}
<1> SUFFICES ASSUME NEW r \in Reqs, Untouched(r)'
             PROVE  LeftNoTrace(r)' /\ \A q \in Reqs \ {r} : NoTraceWith(q, r)'
  BY DEF TraceInv
<1>1. r \notin dead
  <2>1. ASSUME r \in dead PROVE pc'[r] = "done" /\ resp'[r] = Lost
    BY <2>1 DEF Crash
  <2> QED
    BY <2>1 DEF Untouched, Lost, Refusals
<1>2. Untouched(r)
  BY <1>1 DEF Crash, Untouched, IsTx
<1>3. LeftNoTrace(r)'
  BY <1>2 DEF TraceInv, LeftNoTrace, Crash, db
<1>4. ASSUME NEW q \in Reqs \ {r} PROVE NoTraceWith(q, r)'
  <2>1. NoTraceWith(q, r)
    BY <1>2 DEF TraceInv
  <2>2. \/ mem'[q] = mem[q] /\ todo'[q] = todo[q]
        \/ mem'[q] = EmptyMemory /\ todo'[q] = {}
    BY DEF Crash
  <2> QED
    BY <2>1, <2>2 DEF NoTraceWith, EmptyMemory
<1> QED
  BY <1>3, <1>4

\* Arriving and getting the connection show nobody anything.
LEMMA QueueTrace ==
    ASSUME TypeOK, TraceInv, NEW q \in Reqs, NEW x,
           pc' = [pc EXCEPT ![q] = x], UNCHANGED <<db, locals, resp>>,
           \A r \in Reqs \ {q} : req'[r] = req[r], Untouched(q)
    PROVE  TraceInv'
<1>1. \A r \in Reqs \ {q} : /\ pc'[r] = pc[r] /\ resp'[r] = resp[r] /\ req'[r] = req[r]
                            /\ mem'[r] = mem[r] /\ todo'[r] = todo[r]
  BY DEF TypeOK, locals
<1>2. ASSUME NEW r \in Reqs \ {q}, LeftNoTrace(r), NoTraceWith(q, r)
      PROVE  LeftNoTrace(r)' /\ NoTraceWith(q, r)'
  BY <1>2 DEF LeftNoTrace, NoTraceWith, db, locals
<1> QED
  BY <1>1, <1>2, TraceStep

LEMMA TraceNext ==
    ASSUME TypeOK, KindInv, EndInv, TraceInv, [Next]_vars PROVE TraceInv'
<1>1. ASSUME NEW r \in Reqs, Step(r) PROVE TraceInv'
  <2>1. CASE Begin(r)
    BY <2>1, QueueTrace DEF Begin, Goto, Untouched
  <2>2. CASE Answer(r)
    <3>1. 200 \in Codes /\ 200 \notin Refusals
      BY DEF Codes, Refusals
    <3> QED
      BY <2>2, <3>1, LeaveTrace DEF Answer, Goto
  <2> QED
    BY <1>1, <2>1, <2>2, ReadStepsTrace, WriteStepsTrace DEF Step
<1>2. ASSUME NEW r \in Reqs, NEW kind \in Edits \cup Transitions, NEW d \in Docs,
             NEW l \in Lambdas, NEW newKids \in BOOLEAN, Arrive(r, kind, d, l, newKids)
      PROVE  TraceInv'
  <2>1. PICK x : pc' = [pc EXCEPT ![r] = x]
    BY <1>2 DEF Arrive, Goto
  <2>2. \A q \in Reqs \ {r} : req'[q] = req[q]
    BY <1>2 DEF Arrive, TypeOK
  <2> QED
    BY <1>2, <2>1, <2>2, QueueTrace DEF Arrive, Untouched
<1>3. ASSUME NEW r \in Reqs, Refuse(r) \/ MissLate(r) PROVE TraceInv'
  <2>1. CASE Refuse(r)
    <3>1. Untouched(r)
      BY <2>1, RefuseFact DEF KindInv, Untouched
    <3> QED
      BY <2>1, <3>1, RefuseFact, RejectTrace DEF Codes
  <2>2. CASE MissLate(r)
    BY <2>2, RejectTrace DEF MissLate, Codes, Refusals, LateMiss
  <2> QED
    BY <1>3, <2>1, <2>2
<1>4. ASSUME NEW r \in Reqs, StoreError(r) PROVE TraceInv'
  BY <1>4, RejectTrace DEF StoreError, Codes, Refusals
<1>5. CASE UNCHANGED vars
  BY <1>5 DEF vars, TraceInv, Untouched, LeftNoTrace, NoTraceWith, IsTx
<1> QED
  BY <1>1, <1>2, <1>3, <1>4, <1>5, CrashTrace DEF Next, Finished

LEMMA RejectEnd ==
    ASSUME TypeOK, EndInv, NEW r \in Reqs, NEW code, Reject(r, code) PROVE EndInv'
  BY DEF Reject, EndInv, TypeOK

\* A request that goes on has no answer yet.
LEMMA MoveEnd ==
    ASSUME TypeOK, EndInv, NEW r \in Reqs, NEW x, pc' = [pc EXCEPT ![r] = x],
           resp' = resp, pc[r] # "done"
    PROVE  EndInv'
  BY DEF EndInv, TypeOK

LEMMA EndNext ==
    ASSUME TypeOK, EndInv, [Next]_vars PROVE EndInv'
<1>1. ASSUME NEW r \in Reqs, Step(r) PROVE EndInv'
  <2>1. CASE Begin(r) \/ Gate(r) \/ LoadChildren(r) \/ Hook(r)
    BY <2>1, MoveEnd DEF Begin, Gate, LoadChildren, Hook, Goto
  <2>2. CASE Update(r) \/ Clear(r) \/ Commit(r)
    BY <2>2, MoveEnd DEF Update, Clear, Commit, Goto
  <2>3. CASE Load(r)
    BY <2>3, RejectEnd, MoveEnd DEF Load, Goto
  <2>4. CASE Check(r)
    BY <2>4, RejectEnd, MoveEnd DEF Check, Goto
  <2>5. CASE Existing(r)
    BY <2>5, RejectEnd, MoveEnd DEF Existing, Goto
  <2>6. CASE Insert(r)
    BY <2>6, RejectEnd, MoveEnd DEF Insert, Goto
  <2>7. CASE Fill(r)
    BY <2>7, RejectEnd, MoveEnd DEF Fill, Goto
  <2>8. CASE Answer(r)
    BY <2>8 DEF Answer, Goto, EndInv, TypeOK
  <2> QED
    BY <1>1, <2>1, <2>2, <2>3, <2>4, <2>5, <2>6, <2>7, <2>8 DEF Step
<1>2. ASSUME NEW r \in Reqs, NEW kind \in Edits \cup Transitions, NEW d \in Docs,
             NEW l \in Lambdas, NEW newKids \in BOOLEAN, Arrive(r, kind, d, l, newKids)
      PROVE  EndInv'
  BY <1>2 DEF Arrive, Goto, EndInv, TypeOK
<1>3. ASSUME NEW r \in Reqs, Refuse(r) \/ MissLate(r) \/ StoreError(r) PROVE EndInv'
  BY <1>3, RefuseFact, RejectEnd DEF MissLate, StoreError
<1>4. ASSUME NEW l \in Lambdas, Crash(l) PROVE EndInv'
  BY <1>4 DEF Crash, EndInv, TypeOK
<1>5. CASE UNCHANGED vars
  BY <1>5 DEF vars, EndInv
<1> QED
  BY <1>1, <1>2, <1>3, <1>4, <1>5 DEF Next, Finished

\* No step but Commit and the final answer brings a request nearer to 200, and none
\* takes a side effect away.
LEMMA RecordedFrame ==
    ASSUME RecordedInv, \A d \in Docs : ledger[d] \subseteq ledger'[d],
           \A r \in Reqs : IsTx(r)' /\ (pc'[r] = "answer" \/ resp'[r] = 200) =>
               /\ IsTx(r) /\ (pc[r] = "answer" \/ resp[r] = 200)
               /\ req'[r] = req[r],
           \A r \in Reqs : Doc(r) \in Docs
    PROVE  RecordedInv'
  BY DEF RecordedInv, Doc

LEMMA RecordedNext ==
    ASSUME TypeOK, KindInv, EndInv, RecordedInv, [Next]_vars PROVE RecordedInv'
<1>0. \A r \in Reqs : Doc(r) \in Docs
  BY DEF TypeOK, Doc, Request
<1>1. ASSUME NEW r \in Reqs, Step(r) PROVE RecordedInv'
  <2>1. CASE Begin(r)
    BY <1>0, <2>1, RecordedFrame DEF Begin, Goto, TypeOK, db, IsTx
  <2>2. CASE Gate(r) \/ LoadChildren(r) \/ Hook(r)
    BY <1>0, <2>2, RecordedFrame DEF Gate, LoadChildren, Hook, Goto, TypeOK, db, IsTx
  <2>3. CASE Load(r) \/ Check(r) \/ Existing(r)
    BY <1>0, <2>3, RecordedFrame DEF Load, Check, Existing, Reject, Goto, TypeOK, db, IsTx
  <2>4. CASE Update(r) \/ Clear(r)
    BY <1>0, <2>4, RecordedFrame DEF Update, Clear, AfterKids, Goto, TypeOK, IsTx
  <2>5. CASE Insert(r) \/ Fill(r)
    <3>1. ledger' = ledger /\ req' = req
      BY <2>5 DEF Insert, Fill, Reject, db
    <3>2. PICK x \in PC, code \in {resp[r], 500} :
              /\ pc' = [pc EXCEPT ![r] = x] /\ resp' = [resp EXCEPT ![r] = code]
              /\ IsTx(r) => x # "answer"
      <4>1. CASE Insert(r)
        BY <4>1 DEF Insert, Reject, Goto, TypeOK, AfterKids, PC
      <4>2. CASE Fill(r)
        BY <4>2 DEF Fill, Reject, Goto, TypeOK, AfterKids, PC
      <4> QED
        BY <2>5, <4>1, <4>2
    <3>3. /\ \A q \in Reqs \ {r} : pc'[q] = pc[q] /\ resp'[q] = resp[q]
          /\ resp'[r] \in {resp[r], 500} /\ (IsTx(r) => pc'[r] # "answer")
      BY <3>2 DEF TypeOK
    <3> QED
      BY <1>0, <3>1, <3>3, RecordedFrame DEF IsTx
  <2>6. CASE Commit(r)
    <3>1. /\ \A d \in Docs : ledger[d] \subseteq ledger'[d]
          /\ [by |-> r, op |-> req[r].kind] \in ledger'[Doc(r)]
      BY <1>0, <2>6 DEF Commit, TypeOK
    <3>2. \A q \in Reqs \ {r} : pc'[q] = pc[q] /\ resp'[q] = resp[q]
      BY <2>6 DEF Commit, Goto, TypeOK
    <3> QED
      BY <1>0, <2>6, <3>1, <3>2 DEF RecordedInv, Commit, Doc, IsTx
  <2>7. CASE Answer(r)
    <3>1. ledger' = ledger /\ req' = req /\ pc[r] = "answer"
      BY <2>7 DEF Answer, db
    <3>2. \A q \in Reqs \ {r} : pc'[q] = pc[q] /\ resp'[q] = resp[q]
      BY <2>7 DEF Answer, Goto, TypeOK
    <3> QED
      BY <1>0, <3>1, <3>2, RecordedFrame DEF IsTx
  <2> QED
    BY <1>1, <2>1, <2>2, <2>3, <2>4, <2>5, <2>6, <2>7 DEF Step
<1>2. ASSUME NEW r \in Reqs, NEW kind \in Edits \cup Transitions, NEW d \in Docs,
             NEW l \in Lambdas, NEW newKids \in BOOLEAN, Arrive(r, kind, d, l, newKids)
      PROVE  RecordedInv'
  <2>1. /\ ledger' = ledger /\ resp' = resp /\ resp[r] = NoAnswer /\ pc'[r] # "answer"
        /\ \A q \in Reqs \ {r} : pc'[q] = pc[q] /\ req'[q] = req[q]
    BY <1>2 DEF Arrive, Goto, EndInv, TypeOK, db
  <2> QED
    BY <1>0, <2>1, RecordedFrame DEF IsTx, NoAnswer
<1>3. ASSUME NEW r \in Reqs, Refuse(r) \/ MissLate(r) \/ StoreError(r) PROVE RecordedInv'
  <2>1. PICK code \in Codes \ {200} : Reject(r, code)
    BY <1>3, RefuseFact DEF MissLate, StoreError, Codes, Refusals, LateMiss
  <2> QED
    BY <1>0, <2>1, RecordedFrame DEF Reject, db, IsTx, TypeOK
<1>4. ASSUME NEW l \in Lambdas, Crash(l) PROVE RecordedInv'
  <2>1. \A r \in Reqs : \/ pc'[r] = pc[r] /\ resp'[r] = resp[r]
                        \/ pc'[r] = "done" /\ resp'[r] = Lost
    BY <1>4 DEF Crash
  <2> QED
    BY <1>0, <1>4, <2>1, RecordedFrame DEF Crash, db, IsTx, Lost
<1>5. CASE UNCHANGED vars
  BY <1>0, <1>5, RecordedFrame DEF vars, IsTx
<1> QED
  BY <1>1, <1>2, <1>3, <1>4, <1>5 DEF Next, Finished

\* A step that leaves the memory of the requests past their check alone.
LEMMA MovedFrame ==
    ASSUME MovedInv,
           \A r \in Reqs : pc'[r] \in {"existing", "insert", "update"} \cup WrotePC /\ IsTx(r)' =>
               /\ pc[r] \in {"existing", "insert", "update"} \cup WrotePC
               /\ mem'[r] = mem[r] /\ req'[r] = req[r]
    PROVE  MovedInv'
  BY DEF MovedInv, IsTx

LEMMA MovedNext ==
    ASSUME TypeOK, KindInv, MovedInv, [Next]_vars PROVE MovedInv'
<1>1. ASSUME NEW r \in Reqs, NEW code, Reject(r, code) PROVE MovedInv'
  BY <1>1, MovedFrame DEF Reject, Leave, TypeOK, WrotePC
<1>2. ASSUME NEW r \in Reqs, Step(r) PROVE MovedInv'
  <2>1. CASE Begin(r) \/ Gate(r) \/ LoadChildren(r)
    BY <2>1, MovedFrame DEF Begin, Gate, LoadChildren, Goto, TypeOK, locals, WrotePC
  <2>2. CASE Load(r)
    BY <1>1, <2>2, MovedFrame DEF Load, Goto, TypeOK, WrotePC
  <2>3. CASE Check(r)
    <3>1. CASE Reject(r, 409)
      BY <1>1, <3>1
    <3>2. CASE ~Reject(r, 409)
      <4>1. /\ req' = req /\ mem'[r] = Changed(r)
            /\ \A q \in Reqs \ {r} : pc'[q] = pc[q] /\ mem'[q] = mem[q]
        BY <2>3, <3>2 DEF Check, Goto, TypeOK
      <4>2. IsTx(r) => Changed(r).status = FromStatus(req[r].kind) + 1
        BY DEF Changed
      <4> QED
        BY <4>1, <4>2 DEF MovedInv, IsTx
    <3> QED
      BY <3>1, <3>2
  <2>4. CASE Existing(r) \/ Insert(r) \/ Fill(r)
    <3>1. CASE \E code : Reject(r, code)
      BY <1>1, <3>1
    <3>2. CASE ~\E code : Reject(r, code)
      BY <2>4, <3>2, MovedFrame DEF Existing, Insert, Fill, Goto, TypeOK, locals, WrotePC
    <3> QED
      BY <3>1, <3>2
  <2>5. CASE Update(r) \/ Clear(r) \/ Hook(r)
    BY <2>5, MovedFrame DEF Update, Clear, Hook, Goto, TypeOK, locals, WrotePC
  <2>6. CASE Commit(r) \/ Answer(r)
    BY <2>6, MovedFrame DEF Commit, Answer, Goto, Leave, TypeOK, WrotePC
  <2> QED
    BY <1>2, <2>1, <2>2, <2>3, <2>4, <2>5, <2>6 DEF Step
<1>3. ASSUME NEW r \in Reqs, NEW kind \in Edits \cup Transitions, NEW d \in Docs,
             NEW l \in Lambdas, NEW newKids \in BOOLEAN, Arrive(r, kind, d, l, newKids)
      PROVE  MovedInv'
  BY <1>3, MovedFrame DEF Arrive, Goto, TypeOK, locals, WrotePC
<1>4. ASSUME NEW l \in Lambdas, Crash(l) PROVE MovedInv'
  BY <1>4, MovedFrame DEF Crash, TypeOK, WrotePC
<1>5. CASE UNCHANGED vars
  BY <1>5, MovedFrame DEF vars
<1> QED
  BY <1>1, <1>2, <1>3, <1>4, <1>5, RefuseFact DEF Next, MissLate, StoreError, Finished

\* Only COMMIT writes side effects.
LEMMA LedgerStep == [Next]_vars => ledger' = ledger \/ \E r \in Reqs : Commit(r)
<1>1. ASSUME NEW r \in Reqs, Step(r) PROVE ledger' = ledger \/ Commit(r)
  <2>1. Begin(r) \/ Gate(r) \/ LoadChildren(r) \/ Update(r) \/ Clear(r) \/ Hook(r)
        \/ Answer(r) => ledger' = ledger
    BY DEF Begin, Gate, LoadChildren, Update, Clear, Hook, Answer, db
  <2>2. Load(r) \/ Check(r) \/ Existing(r) => ledger' = ledger
    BY DEF Load, Check, Existing, Reject, db
  <2>3. Insert(r) => ledger' = ledger
    BY DEF Insert, Reject, db
  <2>4. Fill(r) => ledger' = ledger
    BY DEF Fill, Reject, db
  <2> QED
    BY <1>1, <2>1, <2>2, <2>3, <2>4 DEF Step
<1>2. ASSUME NEW r \in Reqs, NEW kind \in Edits \cup Transitions, NEW d \in Docs,
             NEW l \in Lambdas, NEW newKids \in BOOLEAN, Arrive(r, kind, d, l, newKids)
      PROVE  ledger' = ledger
  BY <1>2 DEF Arrive, db
<1>3. ASSUME NEW r \in Reqs, Refuse(r) \/ MissLate(r) \/ StoreError(r) PROVE ledger' = ledger
  BY <1>3, RefuseFact DEF MissLate, StoreError, Reject, db
<1>4. ASSUME NEW l \in Lambdas, Crash(l) PROVE ledger' = ledger
  BY <1>4 DEF Crash, db
<1>5. UNCHANGED vars => ledger' = ledger
  BY DEF vars
<1> QED
  BY <1>1, <1>2, <1>3, <1>4, <1>5 DEF Next, Finished

LEMMA OverlapInit == Init => OverlapInv
<1> SUFFICES ASSUME Init PROVE OverlapInv
  OBVIOUS
<1>1. \A r \in Reqs : /\ pc[r] = "idle" /\ mem[r] = EmptyMemory /\ todo[r] = {}
                      /\ resp[r] = NoAnswer /\ ~IsTx(r)
  BY DEF Init, IsTx, Blank, Transitions
<1>2. ASSUME NEW d \in Docs
      PROVE  /\ rows[d].patches = {} /\ ledger[d] = {}
             /\ \A k \in kids[d] : k.by = Seed
  <2>1. rows[d] \in [status : {Absent, Draft}, patches : {{}}]
    BY DEF Init
  <2>2. kids[d] = IF rows[d].status = Draft THEN Payload(Seed) ELSE {}
    BY DEF Init
  <2> QED
    BY <2>1, <2>2 DEF Init, Payload
<1>3. TraceInv
  BY <1>1, <1>2, LifecycleAssumption DEF TraceInv, LeftNoTrace, NoTraceWith, EmptyMemory
<1> QED
  BY <1>1, <1>3 DEF OverlapInv, EndInv, RecordedInv, MovedInv, NoAnswer, WrotePC

LEMMA OverlapCorrect == Spec => [](TypeOK /\ KindInv /\ OverlapInv)
<1> DEFINE Inv == TypeOK /\ KindInv /\ OverlapInv
<1>1. Init => Inv
  BY InitType, KindInit, OverlapInit
<1>2. Inv /\ [Next]_vars => Inv'
  BY TypeNext, KindNext, TraceNext, EndNext, RecordedNext, MovedNext DEF OverlapInv
<1> QED
  BY <1>1, <1>2, PTL DEF Spec

\* The late 404 is an edit's.
LateInv == \A r \in Reqs : resp[r] = LateMiss => ~IsTx(r)

LEMMA LateNext ==
    ASSUME TypeOK, EndInv, LateInv, [Next]_vars PROVE LateInv'
<1>1. ASSUME NEW r \in Reqs, NEW code \in Codes, Reject(r, code), code = LateMiss => ~IsTx(r)
      PROVE  LateInv'
  BY <1>1 DEF Reject, LateInv, IsTx, TypeOK
<1>2. {404, 409, 500} \subseteq Codes \ {LateMiss} /\ Refusals \subseteq Codes \ {LateMiss}
      /\ LateMiss \in Codes
  BY DEF Codes, Refusals, LateMiss
<1>3. ASSUME resp' = resp, \A r \in Reqs : resp[r] = LateMiss => req'[r] = req[r]
      PROVE  LateInv'
  BY <1>3 DEF LateInv, IsTx
<1>4. ASSUME NEW r \in Reqs, Step(r) PROVE LateInv'
  <2>1. CASE Begin(r) \/ Gate(r) \/ LoadChildren(r) \/ Hook(r)
    BY <1>3, <2>1 DEF Begin, Gate, LoadChildren, Hook
  <2>2. CASE Update(r) \/ Clear(r) \/ Commit(r)
    BY <1>3, <2>2 DEF Update, Clear, Commit
  <2>3. CASE Load(r)
    BY <1>1, <1>2, <1>3, <2>3 DEF Load
  <2>4. CASE Check(r) \/ Existing(r)
    BY <1>1, <1>2, <1>3, <2>4 DEF Check, Existing, locals
  <2>5. CASE Insert(r)
    BY <1>1, <1>2, <1>3, <2>5 DEF Insert, locals
  <2>6. CASE Fill(r)
    BY <1>1, <1>2, <1>3, <2>6 DEF Fill
  <2>7. CASE Answer(r)
    BY <2>7 DEF Answer, LateInv, IsTx, LateMiss, TypeOK
  <2> QED
    BY <1>4, <2>1, <2>2, <2>3, <2>4, <2>5, <2>6, <2>7 DEF Step
<1>5. ASSUME NEW r \in Reqs, Refuse(r) \/ MissLate(r) \/ StoreError(r) PROVE LateInv'
  BY <1>1, <1>2, <1>5, RefuseFact DEF MissLate, StoreError
<1>6. ASSUME NEW r \in Reqs, NEW kind \in Edits \cup Transitions, NEW d \in Docs,
             NEW l \in Lambdas, NEW newKids \in BOOLEAN, Arrive(r, kind, d, l, newKids)
      PROVE  LateInv'
  <2>1. resp' = resp /\ resp[r] = NoAnswer /\ \A q \in Reqs \ {r} : req'[q] = req[q]
    BY <1>6 DEF Arrive, EndInv, TypeOK
  <2> QED
    BY <1>3, <2>1 DEF LateMiss, NoAnswer
<1>7. ASSUME NEW l \in Lambdas, Crash(l) PROVE LateInv'
  BY <1>7 DEF Crash, LateInv, IsTx, Lost, LateMiss
<1>8. CASE UNCHANGED vars
  BY <1>3, <1>8 DEF vars
<1> QED
  BY <1>4, <1>5, <1>6, <1>7, <1>8 DEF Next, Finished

\* A request refused with a 4xx has left nothing in the database and nothing in another
\* request's hands that would bring it there, however requests overlap.  The one
\* exception is stated: the late 404, which only an edit gets.
THEOREM RefusalCorrect == Spec => []RefusedLeavesNoTrace
<1> DEFINE Inv == TypeOK /\ KindInv /\ OverlapInv
<1>1. OverlapInv /\ LateInv => RefusedLeavesNoTrace
  BY DEF OverlapInv, TraceInv, LateInv, Untouched, RefusedLeavesNoTrace
<1>2. Init => LateInv
  BY DEF Init, LateInv, NoAnswer, LateMiss
<1>3. Inv /\ LateInv /\ [Next]_vars => LateInv'
  BY LateNext DEF OverlapInv
<1> QED
  BY <1>1, <1>2, <1>3, OverlapCorrect, PTL DEF Spec

\* A transition answered 200 is recorded: the answer comes after COMMIT only.
THEOREM AckCorrect == Spec => []AckedIsRecorded
<1>1. OverlapInv => AckedIsRecorded
  BY DEF OverlapInv, RecordedInv, AckedIsRecorded
<1> QED
  BY <1>1, OverlapCorrect, PTL

\* Whatever overlaps, a side effect becomes visible in the very step that makes its
\* docstatus visible.
THEOREM EffectCorrect == Spec => EffectWithStatus
<1> DEFINE Inv == TypeOK /\ KindInv /\ OverlapInv
           Together == \A d \in Docs : \A e \in ledger'[d] \ ledger[d] :
                           rows'[d].status = FromStatus(e.op) + 1
<1>1. Inv /\ [Next]_vars => [Together]_vars
  <2> SUFFICES ASSUME Inv, [Next]_vars, NEW d \in Docs, NEW e \in ledger'[d] \ ledger[d]
               PROVE  rows'[d].status = FromStatus(e.op) + 1
    OBVIOUS
  <2>1. PICK r \in Reqs : Commit(r)
    BY LedgerStep
  <2>2. d = Doc(r) /\ e = [by |-> r, op |-> req[r].kind]
    BY <2>1 DEF Commit, TypeOK
  <2>3. rows'[d].status = mem[r].status
    BY <2>1, <2>2 DEF Commit, TypeOK
  <2>4. mem[r].status = FromStatus(req[r].kind) + 1
    BY <2>1 DEF Commit, KindInv, OverlapInv, MovedInv, WrotePC
  <2> QED
    BY <2>2, <2>3, <2>4
<1> QED
  BY <1>1, OverlapCorrect, PTL DEF Spec, EffectWithStatus

-----------------------------------------------------------------------------
(* Nobody is stuck.  StuckInv says who may wait for whom: it does not depend on *)
(* what is in the database, and holds whatever overlaps.                        *)

\* A connection taken is the one of an open transaction of that lambda.
PoolInv ==
    \A l \in Lambdas : conn[l] # NoReq =>
        IsTx(conn[l]) /\ req[conn[l]].lambda = l /\ pc[conn[l]] \in OpenPC

\* Queued requests are in the queue of their lambda, nobody else is, and nobody twice.
QueuedInv ==
    \A r \in Reqs : pc[r] = "queued" =>
        \E i \in 1..Len(waiting[req[r].lambda]) : waiting[req[r].lambda][i] = r

QueueInv ==
    \A l \in Lambdas : \A i \in 1..Len(waiting[l]) :
        /\ pc[waiting[l][i]] = "queued" /\ req[waiting[l][i]].lambda = l
        /\ \A j \in 1..Len(waiting[l]) : waiting[l][i] = waiting[l][j] => i = j

\* One open transaction at most has written the header of a document.
LockInv == \A d \in Docs : \A q, p \in Reqs : Holds(q, d) /\ Holds(p, d) => q = p

FillInv == \A r \in Reqs : pc[r] = "fill" => todo[r] # {}

StuckInv == PoolInv /\ QueuedInv /\ QueueInv /\ LockInv /\ FillInv

LEMMA StuckInit == Init => StuckInv
  BY DEF Init, StuckInv, PoolInv, QueuedInv, QueueInv, LockInv, FillInv, Holds, WrotePC

\* Who holds a header in the next state held it before or has just written it.
LEMMA LockStep ==
    ASSUME LockInv, NEW r \in Reqs,
           \A q \in Reqs \ {r}, d \in Docs : Holds(q, d)' => Holds(q, d),
           \A d \in Docs : Holds(r, d)' => Holds(r, d) \/ \A q \in Reqs \ {r} : ~Holds(q, d)
    PROVE  LockInv'
  BY DEF LockInv

\* A request goes from one statement to the next.
LEMMA MoveStuck ==
    ASSUME TypeOK, StuckInv, NEW r \in Reqs, NEW label \in OpenPC \cup {"answer"},
           pc[r] \in OpenPC \cup {"answer"}, pc' = [pc EXCEPT ![r] = label],
           UNCHANGED <<req, pool>>, \A q \in Reqs \ {r} : todo'[q] = todo[q],
           IsTx(r) => label \in OpenPC,
           label \in WrotePC => pc[r] \in WrotePC \/ ~LockedFor(r),
           label = "fill" => todo'[r] # {}
    PROVE  StuckInv'
<1>1. \A q \in Reqs \ {r} : pc'[q] = pc[q]
  BY DEF TypeOK
<1>2. pc'[r] = label /\ req' = req /\ conn' = conn /\ waiting' = waiting
  BY DEF TypeOK, pool
<1>3. PoolInv'
  <2> SUFFICES ASSUME NEW l \in Lambdas, conn[l] # NoReq
               PROVE  IsTx(conn[l]) /\ req[conn[l]].lambda = l /\ pc'[conn[l]] \in OpenPC
    BY <1>2 DEF PoolInv, IsTx
  <2>1. conn[l] \in Reqs /\ IsTx(conn[l]) /\ req[conn[l]].lambda = l /\ pc[conn[l]] \in OpenPC
    BY DEF StuckInv, PoolInv, TypeOK
  <2> QED
    BY <1>1, <1>2, <2>1
<1>4. label # "queued" /\ pc[r] # "queued"
  BY DEF OpenPC
<1>5. QueuedInv'
  BY <1>1, <1>2, <1>4 DEF StuckInv, QueuedInv
<1>6. QueueInv'
  <2> SUFFICES ASSUME NEW l \in Lambdas, NEW i \in 1..Len(waiting[l])
               PROVE  pc'[waiting[l][i]] = "queued"
    BY <1>2 DEF StuckInv, QueueInv
  <2>1. waiting[l][i] \in Reqs /\ pc[waiting[l][i]] = "queued"
    BY DEF StuckInv, QueueInv, TypeOK
  <2> QED
    BY <1>1, <1>4, <2>1
<1>7. LockInv'
  <2>1. \A q \in Reqs \ {r}, d \in Docs : Holds(q, d)' => Holds(q, d)
    BY <1>1, <1>2 DEF Holds, IsTx, Doc
  <2>2. ASSUME NEW d \in Docs, Holds(r, d)'
        PROVE  Holds(r, d) \/ \A q \in Reqs \ {r} : ~Holds(q, d)
    BY <1>2, <2>2 DEF Holds, LockedFor, IsTx, Doc
  <2> QED
    BY <2>1, <2>2, LockStep DEF StuckInv
<1>8. FillInv'
  BY <1>1, <1>2 DEF StuckInv, FillInv
<1> QED
  BY <1>3, <1>5, <1>6, <1>7, <1>8 DEF StuckInv

\* A request ends, or commits: it gives its connection and its locks back.
LEMMA LeaveStuck ==
    ASSUME TypeOK, StuckInv, NEW r \in Reqs, NEW label \in {"answer", "done"},
           pc[r] # "queued", pc' = [pc EXCEPT ![r] = label], Leave(r),
           UNCHANGED <<req, waiting>>
    PROVE  StuckInv'
<1>1. \A q \in Reqs \ {r} : pc'[q] = pc[q] /\ todo'[q] = todo[q]
  BY DEF TypeOK, Leave
<1>2. pc'[r] = label /\ req' = req /\ waiting' = waiting
  BY DEF TypeOK
<1>3. PoolInv'
  <2> SUFFICES ASSUME NEW l \in Lambdas, conn'[l] # NoReq
               PROVE  /\ IsTx(conn'[l]) /\ req[conn'[l]].lambda = l
                      /\ pc'[conn'[l]] \in OpenPC
    BY <1>2 DEF PoolInv, IsTx
  <2>1. conn'[l] = conn[l] /\ (l = req[r].lambda => conn[l] # r)
    BY DEF Leave, TypeOK
  <2>2. conn[l] \in Reqs /\ IsTx(conn[l]) /\ req[conn[l]].lambda = l /\ pc[conn[l]] \in OpenPC
    BY <2>1 DEF StuckInv, PoolInv, TypeOK
  <2>3. conn[l] # r
    BY <2>1, <2>2
  <2> QED
    BY <1>1, <2>1, <2>2, <2>3
<1>4. QueuedInv'
  BY <1>1, <1>2 DEF StuckInv, QueuedInv
<1>5. QueueInv'
  <2> SUFFICES ASSUME NEW l \in Lambdas, NEW i \in 1..Len(waiting[l])
               PROVE  pc'[waiting[l][i]] = "queued"
    BY <1>2 DEF StuckInv, QueueInv
  <2>1. waiting[l][i] \in Reqs /\ pc[waiting[l][i]] = "queued"
    BY DEF StuckInv, QueueInv, TypeOK
  <2> QED
    BY <1>1, <2>1
<1>6. LockInv'
  <2>1. \A q \in Reqs \ {r}, d \in Docs : Holds(q, d)' => Holds(q, d)
    BY <1>1, <1>2 DEF Holds, IsTx, Doc
  <2>2. \A d \in Docs : ~Holds(r, d)'
    BY <1>2 DEF Holds, WrotePC
  <2> QED
    BY <2>1, <2>2, LockStep DEF StuckInv
<1>7. FillInv'
  BY <1>1, <1>2 DEF StuckInv, FillInv
<1> QED
  BY <1>3, <1>4, <1>5, <1>6, <1>7 DEF StuckInv

LEMMA RejectStuck ==
    ASSUME TypeOK, StuckInv, NEW r \in Reqs, NEW code, pc[r] # "queued", Reject(r, code)
    PROVE  StuckInv'
  BY LeaveStuck DEF Reject

\* The steps that only read: reading takes no lock.
LEMMA ReadStepsStuck ==
    ASSUME TypeOK, KindInv, StuckInv, NEW r \in Reqs,
           Gate(r) \/ Load(r) \/ LoadChildren(r) \/ Check(r) \/ Existing(r) \/ Hook(r)
    PROVE  StuckInv'
<1>1. CASE Gate(r)
  BY <1>1, MoveStuck DEF Gate, Goto, OpenPC, WrotePC
<1>2. CASE Load(r)
  <2>1. CASE Reject(r, 404)
    BY <1>2, <2>1, RejectStuck DEF Load
  <2>2. CASE ~Reject(r, 404)
    BY <1>2, <2>2, MoveStuck DEF Load, Goto, OpenPC, WrotePC
  <2> QED
    BY <2>1, <2>2
<1>3. CASE LoadChildren(r)
  BY <1>3, MoveStuck DEF LoadChildren, Goto, OpenPC, WrotePC
<1>4. CASE Check(r)
  <2>1. CASE Reject(r, 409)
    BY <1>4, <2>1, RejectStuck DEF Check
  <2>2. CASE ~Reject(r, 409)
    <3>1. \A q \in Reqs \ {r} : todo'[q] = todo[q]
      BY <1>4, <2>2 DEF Check, TypeOK
    <3> QED
      BY <1>4, <2>2, <3>1, MoveStuck DEF Check, Goto, OpenPC, WrotePC
  <2> QED
    BY <2>1, <2>2
<1>5. CASE Existing(r)
  <2>1. CASE Reject(r, 409)
    BY <1>5, <2>1, RejectStuck DEF Existing
  <2>2. CASE ~Reject(r, 409)
    BY <1>5, <2>2, MoveStuck DEF Existing, Goto, OpenPC, WrotePC, locals
  <2> QED
    BY <2>1, <2>2
<1>6. CASE Hook(r)
  BY <1>6, MoveStuck DEF Hook, Goto, OpenPC, WrotePC, locals
<1> QED
  BY <1>1, <1>2, <1>3, <1>4, <1>5, <1>6

\* The steps that write: the header lock is taken only when nobody has it.
LEMMA WriteStepsStuck ==
    ASSUME TypeOK, KindInv, StuckInv, NEW r \in Reqs,
           Update(r) \/ Insert(r) \/ Clear(r) \/ Fill(r)
    PROVE  StuckInv'
<1>0. ASSUME NEW rest
      PROVE  /\ AfterKids(r, rest) \in OpenPC \cup {"answer"}
             /\ IsTx(r) => AfterKids(r, rest) \in OpenPC
             /\ AfterKids(r, rest) = "fill" => rest # {}
  BY DEF AfterKids, OpenPC
<1>1. CASE Update(r)
  BY <1>1, MoveStuck DEF Update, Goto, OpenPC, WrotePC, locals
<1>2. CASE Insert(r)
  <2>1. CASE Reject(r, 500)
    BY <1>2, <2>1, RejectStuck DEF Insert
  <2>2. CASE ~Reject(r, 500) /\ req[r].kind = "create"
    <3>1. pc[r] = "insert" /\ ~LockedFor(r) /\ pc' = [pc EXCEPT ![r] = AfterKids(r, todo[r])]
          /\ UNCHANGED <<req, pool>> /\ todo' = todo
      BY <1>2, <2>2 DEF Insert, Goto, locals
    <3> QED
      BY <1>0, <3>1, MoveStuck DEF OpenPC
  <2>3. CASE ~Reject(r, 500) /\ req[r].kind # "create"
    BY <1>2, <2>3, MoveStuck DEF Insert, Goto, OpenPC, WrotePC, locals
  <2> QED
    BY <2>1, <2>2, <2>3
<1>3. CASE Clear(r)
  <2>1. pc[r] = "clear" /\ pc' = [pc EXCEPT ![r] = AfterKids(r, todo[r])]
        /\ UNCHANGED <<req, pool>> /\ todo' = todo
    BY <1>3 DEF Clear, Goto
  <2> QED
    BY <1>0, <2>1, MoveStuck DEF OpenPC, WrotePC
<1>4. CASE Fill(r)
  <2>1. PICK k \in todo[r] : Fill(r)!(k)
    BY <1>4 DEF Fill
  <2>2. CASE Reject(r, 500)
    BY <2>1, <2>2, RejectStuck
  <2>3. CASE ~Reject(r, 500)
    <3>1. /\ pc[r] = "fill" /\ pc' = [pc EXCEPT ![r] = AfterKids(r, todo[r] \ {k})]
          /\ UNCHANGED <<req, pool>> /\ todo' = [todo EXCEPT ![r] = @ \ {k}]
      BY <2>1, <2>3 DEF Goto
    <3>2. todo'[r] = todo[r] \ {k} /\ \A q \in Reqs \ {r} : todo'[q] = todo[q]
      BY <3>1 DEF TypeOK
    <3> QED
      BY <1>0, <3>1, <3>2, MoveStuck DEF OpenPC, WrotePC
  <2> QED
    BY <2>2, <2>3
<1> QED
  BY <1>1, <1>2, <1>3, <1>4

LEMMA ArriveStuck ==
    ASSUME TypeOK, StuckInv, NEW r \in Reqs, NEW kind \in Edits \cup Transitions,
           NEW d \in Docs, NEW l \in Lambdas, NEW newKids \in BOOLEAN,
           Arrive(r, kind, d, l, newKids)
    PROVE  StuckInv'
<1>1. /\ pc[r] = "idle" /\ conn' = conn /\ todo' = todo
      /\ \A q \in Reqs \ {r} : pc'[q] = pc[q] /\ req'[q] = req[q]
      /\ req'[r].lambda = l /\ pc'[r] \in {"queued", "gate"}
  BY DEF Arrive, Goto, TypeOK, locals
<1>2. ASSUME NEW m \in Lambdas, NEW i \in 1..Len(waiting[m])
      PROVE  waiting[m][i] \in Reqs \ {r}
  BY <1>1 DEF StuckInv, QueueInv, TypeOK
<1>3. PoolInv'
  <2> SUFFICES ASSUME NEW m \in Lambdas, conn[m] # NoReq
               PROVE  IsTx(conn[m])' /\ req'[conn[m]].lambda = m /\ pc'[conn[m]] \in OpenPC
    BY <1>1 DEF PoolInv, IsTx
  <2>1. conn[m] \in Reqs /\ IsTx(conn[m]) /\ req[conn[m]].lambda = m /\ pc[conn[m]] \in OpenPC
    BY DEF StuckInv, PoolInv, TypeOK
  <2>2. conn[m] # r
    BY <1>1, <2>1 DEF OpenPC
  <2> QED
    BY <1>1, <2>1, <2>2 DEF IsTx
<1>4. LockInv'
  <2>1. \A q \in Reqs \ {r}, e \in Docs : Holds(q, e)' => Holds(q, e)
    BY <1>1 DEF Holds, IsTx, Doc
  <2>2. \A e \in Docs : ~Holds(r, e)'
    BY <1>1 DEF Holds, WrotePC
  <2> QED
    BY <2>1, <2>2, LockStep DEF StuckInv
<1>5. FillInv'
  BY <1>1 DEF StuckInv, FillInv
<1>6. QueuedInv' /\ QueueInv'
  <2>1. CASE kind \in Edits
    <3>1. waiting' = waiting /\ pc'[r] = "gate"
      BY <1>1, <2>1 DEF Arrive, Goto, TypeOK, Edits, Transitions
    <3>2. QueuedInv'
      BY <1>1, <3>1 DEF StuckInv, QueuedInv
    <3>3. QueueInv'
      BY <1>1, <1>2, <3>1 DEF StuckInv, QueueInv
    <3> QED
      BY <3>2, <3>3
  <2>2. CASE kind \in Transitions
    <3>1. pc'[r] = "queued" /\ waiting' = [waiting EXCEPT ![l] = Append(waiting[l], r)]
      BY <2>2 DEF Arrive, Goto, TypeOK
    <3>2. waiting[l] \in Seq(Reqs) /\ waiting'[l] = Append(waiting[l], r)
      BY <3>1 DEF TypeOK
    <3>3. /\ Len(waiting'[l]) = Len(waiting[l]) + 1 /\ Len(waiting[l]) \in Nat
          /\ waiting'[l][Len(waiting[l]) + 1] = r
          /\ \A i \in 1..Len(waiting[l]) : waiting'[l][i] = waiting[l][i]
      BY <3>2
    <3>4. \A m \in Lambdas \ {l} : waiting'[m] = waiting[m]
      BY <3>1 DEF TypeOK
    <3>5. QueuedInv'
      <4> SUFFICES ASSUME NEW q \in Reqs, pc'[q] = "queued"
                   PROVE  \E i \in 1..Len(waiting'[req'[q].lambda]) :
                              waiting'[req'[q].lambda][i] = q
        BY DEF QueuedInv
      <4>1. CASE q = r
        BY <1>1, <3>3, <4>1
      <4>2. CASE q # r
        <5>1. PICK i \in 1..Len(waiting[req[q].lambda]) : waiting[req[q].lambda][i] = q
          BY <1>1, <4>2 DEF StuckInv, QueuedInv
        <5>2. req'[q].lambda = req[q].lambda /\ req[q].lambda \in Lambdas
          BY <1>1, <4>2 DEF TypeOK, Request
        <5>3. CASE req[q].lambda = l
          <6>1. i \in 1..Len(waiting'[l]) /\ waiting'[l][i] = q
            BY <3>3, <5>1, <5>3
          <6> QED
            BY <5>2, <5>3, <6>1
        <5>4. CASE req[q].lambda # l
          BY <3>4, <5>1, <5>2, <5>4
        <5> QED
          BY <5>3, <5>4
      <4> QED
        BY <4>1, <4>2
    <3>6. QueueInv'
      <4> SUFFICES ASSUME NEW m \in Lambdas, NEW i \in 1..Len(waiting'[m])
                   PROVE  /\ pc'[waiting'[m][i]] = "queued"
                          /\ req'[waiting'[m][i]].lambda = m
                          /\ \A j \in 1..Len(waiting'[m]) :
                                waiting'[m][i] = waiting'[m][j] => i = j
        BY DEF QueueInv
      <4>1. CASE m # l
        <5>1. waiting'[m] = waiting[m]
          BY <3>4, <4>1
        <5> QED
          BY <1>1, <1>2, <5>1 DEF StuckInv, QueueInv
      <4>2. CASE m = l
        <5>1. ASSUME NEW k \in 1..Len(waiting'[l])
              PROVE  k \in 1..Len(waiting[l]) \/ k = Len(waiting[l]) + 1
          BY <3>3
        <5>2. CASE i \in 1..Len(waiting[l])
          <6>1. /\ waiting'[l][i] = waiting[l][i] /\ waiting[l][i] \in Reqs \ {r}
                /\ pc[waiting[l][i]] = "queued" /\ req[waiting[l][i]].lambda = l
            BY <1>2, <3>3, <5>2 DEF StuckInv, QueueInv
          <6>2. ASSUME NEW j \in 1..Len(waiting'[l]), waiting'[l][i] = waiting'[l][j]
                PROVE  i = j
            <7>1. j \in 1..Len(waiting[l])
              BY <3>3, <5>1, <6>1, <6>2
            <7> QED
              BY <3>3, <5>2, <6>2, <7>1 DEF StuckInv, QueueInv
          <6> QED
            BY <1>1, <4>2, <6>1, <6>2
        <5>3. CASE i = Len(waiting[l]) + 1
          <6>1. waiting'[l][i] = r
            BY <3>3, <5>3
          <6>2. ASSUME NEW j \in 1..Len(waiting'[l]), waiting'[l][j] = r PROVE i = j
            BY <1>2, <3>3, <5>1, <5>3, <6>2
          <6> QED
            BY <1>1, <3>1, <4>2, <6>1, <6>2
        <5> QED
          BY <4>2, <5>1, <5>2, <5>3
      <4> QED
        BY <4>1, <4>2
    <3> QED
      BY <3>5, <3>6
  <2> QED
    BY <2>1, <2>2
<1> QED
  BY <1>3, <1>4, <1>5, <1>6 DEF StuckInv

LEMMA BeginStuck ==
    ASSUME TypeOK, KindInv, StuckInv, NEW r \in Reqs, Begin(r) PROVE StuckInv'
<1> DEFINE l == req[r].lambda
<1>1. /\ pc[r] = "queued" /\ conn[l] = NoReq /\ req' = req /\ todo' = todo /\ l \in Lambdas
      /\ pc'[r] = "gate" /\ \A q \in Reqs \ {r} : pc'[q] = pc[q]
      /\ IsTx(r) /\ conn'[l] = r /\ \A m \in Lambdas \ {l} : conn'[m] = conn[m]
  BY DEF Begin, Goto, TypeOK, Request, KindInv, locals
<1>2. /\ waiting[l] \in Seq(Reqs) /\ waiting[l] # <<>> /\ Head(waiting[l]) = r
      /\ waiting'[l] = Tail(waiting[l])
      /\ \A m \in Lambdas \ {l} : waiting'[m] = waiting[m]
  BY DEF Begin, TypeOK, Request
<1>3. /\ waiting[l][1] = r /\ Len(waiting[l]) \in Nat \ {0}
      /\ Len(waiting'[l]) = Len(waiting[l]) - 1
      /\ \A i \in 1..Len(waiting'[l]) : waiting'[l][i] = waiting[l][i + 1]
  BY <1>2
<1>4. \A i \in 2..Len(waiting[l]) : waiting[l][i] \in Reqs \ {r}
  <2> SUFFICES ASSUME NEW i \in 2..Len(waiting[l]) PROVE waiting[l][i] \in Reqs \ {r}
    OBVIOUS
  <2>1. i \in 1..Len(waiting[l]) /\ 1 \in 1..Len(waiting[l]) /\ i # 1
    BY <1>3
  <2>2. waiting[l][i] # waiting[l][1]
    BY <1>1, <2>1 DEF StuckInv, QueueInv
  <2> QED
    BY <1>2, <1>3, <2>1, <2>2
<1>5. PoolInv'
  <2> SUFFICES ASSUME NEW m \in Lambdas, conn'[m] # NoReq
               PROVE  /\ IsTx(conn'[m]) /\ req[conn'[m]].lambda = m
                      /\ pc'[conn'[m]] \in OpenPC
    BY <1>1 DEF PoolInv, IsTx
  <2>1. CASE m = l
    BY <1>1, <2>1 DEF OpenPC
  <2>2. CASE m # l
    <3>1. conn'[m] = conn[m] /\ conn[m] \in Reqs
      BY <1>1, <2>2 DEF TypeOK
    <3>2. IsTx(conn[m]) /\ req[conn[m]].lambda = m /\ pc[conn[m]] \in OpenPC
      BY <3>1 DEF StuckInv, PoolInv
    <3>3. conn[m] # r
      BY <2>2, <3>2
    <3> QED
      BY <1>1, <3>1, <3>2, <3>3
  <2> QED
    BY <2>1, <2>2
<1>6. LockInv'
  <2>1. \A q \in Reqs \ {r}, d \in Docs : Holds(q, d)' => Holds(q, d)
    BY <1>1 DEF Holds, IsTx, Doc
  <2>2. \A d \in Docs : ~Holds(r, d)'
    BY <1>1 DEF Holds, WrotePC
  <2> QED
    BY <2>1, <2>2, LockStep DEF StuckInv
<1>7. FillInv'
  BY <1>1 DEF StuckInv, FillInv
<1>8. QueuedInv'
  <2> SUFFICES ASSUME NEW q \in Reqs, pc'[q] = "queued"
               PROVE  \E i \in 1..Len(waiting'[req[q].lambda]) :
                          waiting'[req[q].lambda][i] = q
    BY <1>1 DEF QueuedInv
  <2>1. q # r /\ pc[q] = "queued" /\ req[q].lambda \in Lambdas
    BY <1>1 DEF TypeOK, Request
  <2>2. PICK i \in 1..Len(waiting[req[q].lambda]) : waiting[req[q].lambda][i] = q
    BY <2>1 DEF StuckInv, QueuedInv
  <2>3. CASE req[q].lambda = l
    <3>1. i \in 2..Len(waiting[l])
      BY <1>3, <2>1, <2>2, <2>3
    <3>2. i - 1 \in 1..Len(waiting'[l]) /\ (i - 1) + 1 = i
      BY <1>3, <3>1
    <3>3. waiting'[l][i - 1] = q
      BY <1>3, <2>2, <2>3, <3>2
    <3> QED
      BY <2>3, <3>2, <3>3
  <2>4. CASE req[q].lambda # l
    BY <1>2, <2>1, <2>2, <2>4
  <2> QED
    BY <2>3, <2>4
<1>9. QueueInv'
  <2> SUFFICES ASSUME NEW m \in Lambdas, NEW i \in 1..Len(waiting'[m])
               PROVE  /\ pc'[waiting'[m][i]] = "queued"
                      /\ req[waiting'[m][i]].lambda = m
                      /\ \A j \in 1..Len(waiting'[m]) :
                            waiting'[m][i] = waiting'[m][j] => i = j
    BY <1>1 DEF QueueInv
  <2>1. CASE m # l
    <3>1. waiting'[m] = waiting[m]
      BY <1>2, <2>1
    <3>2. waiting[m][i] \in Reqs /\ pc[waiting[m][i]] = "queued" /\ req[waiting[m][i]].lambda = m
      BY <3>1 DEF StuckInv, QueueInv, TypeOK
    <3>3. waiting[m][i] # r
      BY <2>1, <3>2
    <3> QED
      BY <1>1, <3>1, <3>2, <3>3 DEF StuckInv, QueueInv
  <2>2. CASE m = l
    <3>1. ASSUME NEW j \in 1..Len(waiting'[l])
          PROVE  j + 1 \in 2..Len(waiting[l]) /\ j + 1 \in 1..Len(waiting[l])
      BY <1>3
    <3>2. waiting'[l][i] = waiting[l][i + 1] /\ waiting[l][i + 1] \in Reqs \ {r}
      BY <1>3, <1>4, <2>2, <3>1
    <3>3. pc[waiting[l][i + 1]] = "queued" /\ req[waiting[l][i + 1]].lambda = l
      BY <1>1, <2>2, <3>1 DEF StuckInv, QueueInv
    <3>4. ASSUME NEW j \in 1..Len(waiting'[l]), waiting'[l][i] = waiting'[l][j] PROVE i = j
      <4>1. waiting[l][i + 1] = waiting[l][j + 1]
        BY <1>3, <2>2, <3>4
      <4>2. i + 1 = j + 1
        BY <1>1, <2>2, <3>1, <4>1 DEF StuckInv, QueueInv
      <4> QED
        BY <2>2, <4>2
    <3> QED
      BY <1>1, <2>2, <3>2, <3>3, <3>4
  <2> QED
    BY <2>1, <2>2
<1> QED
  BY <1>5, <1>6, <1>7, <1>8, <1>9 DEF StuckInv

LEMMA CrashStuck ==
    ASSUME TypeOK, StuckInv, NEW l \in Lambdas, Crash(l) PROVE StuckInv'
<1> DEFINE dead == {r \in Reqs : Active(r) /\ req[r].lambda = l}
<1>1. /\ req' = req /\ \A r \in dead : pc'[r] = "done"
      /\ \A r \in Reqs \ dead : pc'[r] = pc[r] /\ todo'[r] = todo[r]
  BY DEF Crash
<1>2. /\ conn'[l] = NoReq /\ waiting'[l] = <<>>
      /\ \A m \in Lambdas \ {l} : conn'[m] = conn[m] /\ waiting'[m] = waiting[m]
  BY DEF Crash, TypeOK
<1>3. ASSUME NEW m \in Lambdas \ {l}, NEW r \in Reqs, req[r].lambda = m PROVE pc'[r] = pc[r]
  BY <1>1, <1>3
<1>4. PoolInv'
  <2> SUFFICES ASSUME NEW m \in Lambdas, conn'[m] # NoReq
               PROVE  /\ IsTx(conn'[m]) /\ req[conn'[m]].lambda = m
                      /\ pc'[conn'[m]] \in OpenPC
    BY <1>1 DEF PoolInv, IsTx
  <2>1. m # l /\ conn'[m] = conn[m] /\ conn[m] \in Reqs
    BY <1>2 DEF TypeOK
  <2> QED
    BY <1>3, <2>1 DEF StuckInv, PoolInv
<1>5. QueuedInv'
  <2> SUFFICES ASSUME NEW r \in Reqs, pc'[r] = "queued"
               PROVE  \E i \in 1..Len(waiting'[req[r].lambda]) :
                          waiting'[req[r].lambda][i] = r
    BY <1>1 DEF QueuedInv
  <2>1. r \notin dead /\ pc[r] = "queued"
    BY <1>1
  <2>2. req[r].lambda \in Lambdas \ {l}
    BY <2>1 DEF Active, TypeOK, Request
  <2> QED
    BY <1>2, <2>1, <2>2 DEF StuckInv, QueuedInv
<1>6. QueueInv'
  <2> SUFFICES ASSUME NEW m \in Lambdas, NEW i \in 1..Len(waiting'[m])
               PROVE  /\ pc'[waiting'[m][i]] = "queued"
                      /\ req[waiting'[m][i]].lambda = m
                      /\ \A j \in 1..Len(waiting'[m]) :
                            waiting'[m][i] = waiting'[m][j] => i = j
    BY <1>1 DEF QueueInv
  <2>1. m # l /\ waiting'[m] = waiting[m]
    BY <1>2
  <2>2. waiting[m][i] \in Reqs /\ pc[waiting[m][i]] = "queued" /\ req[waiting[m][i]].lambda = m
    BY <2>1 DEF StuckInv, QueueInv, TypeOK
  <2> QED
    BY <1>3, <2>1, <2>2 DEF StuckInv, QueueInv
<1>7. LockInv'
  <2>1. \A r \in Reqs, d \in Docs : Holds(r, d)' => Holds(r, d)
    BY <1>1 DEF Holds, IsTx, Doc, WrotePC
  <2> QED
    BY <2>1 DEF StuckInv, LockInv
<1>8. FillInv'
  BY <1>1 DEF StuckInv, FillInv
<1> QED
  BY <1>4, <1>5, <1>6, <1>7, <1>8 DEF StuckInv

LEMMA StuckNext == TypeOK /\ KindInv /\ StuckInv /\ [Next]_vars => StuckInv'
<1> SUFFICES ASSUME TypeOK, KindInv, StuckInv, [Next]_vars PROVE StuckInv'
  OBVIOUS
<1>1. ASSUME NEW r \in Reqs, Step(r) PROVE StuckInv'
  <2>1. CASE Commit(r)
    BY <2>1, LeaveStuck DEF Commit, Goto
  <2>2. CASE Answer(r)
    BY <2>2, LeaveStuck DEF Answer, Goto
  <2> QED
    BY <1>1, <2>1, <2>2, BeginStuck, ReadStepsStuck, WriteStepsStuck DEF Step
<1>2. ASSUME NEW r \in Reqs, Refuse(r) \/ MissLate(r) PROVE StuckInv'
  BY <1>2, RefuseFact, RejectStuck DEF MissLate, OpenPC
<1>3. ASSUME NEW r \in Reqs, StoreError(r) PROVE StuckInv'
  BY <1>3, RejectStuck DEF StoreError, OpenPC
<1>4. CASE UNCHANGED vars
  BY <1>4 DEF vars, StuckInv, PoolInv, QueuedInv, QueueInv, LockInv, FillInv, Holds, IsTx, Doc
<1> QED
  BY <1>1, <1>2, <1>3, <1>4, ArriveStuck, CrashStuck DEF Next, Finished

\* Who holds a header runs: what it still has to write is locked by nobody else.
LEMMA HolderRuns ==
    ASSUME StuckInv, NEW q \in Reqs, NEW d \in Docs, Holds(q, d) PROVE Runs(q)
<1>1. Active(q) /\ pc[q] \in WrotePC /\ Doc(q) = d
  BY DEF Holds, Active, WrotePC
<1>2. \A p \in Reqs \ {q} : ~Holds(p, Doc(q))
  BY <1>1 DEF StuckInv, LockInv
<1> QED
  BY <1>1, <1>2 DEF Runs, Before, WrotePC

\* Who does not wait in the queue runs, or waits for one that does.
LEMMA OpenRuns ==
    ASSUME TypeOK, StuckInv, NEW r \in Reqs, Active(r), pc[r] # "queued"
    PROVE  Runs(r) \/ \E q \in Before(r) : Runs(q)
<1>1. CASE Before(r) = {}
  BY <1>1 DEF Runs
<1>2. CASE Before(r) # {}
  <2>1. PICK q \in Before(r) : q \in Reqs /\ Holds(q, Doc(r))
    BY <1>2 DEF Before
  <2>2. Doc(r) \in Docs
    BY DEF Doc, TypeOK, Request
  <2> QED
    BY <2>1, <2>2, HolderRuns
<1> QED
  BY <1>1, <1>2

\* No request is ever stuck: chains of waiting requests have at most two links and end
\* in one that can take its next step, whatever overlaps, fails or crashes.
THEOREM NeverStuckCorrect == Spec => []NeverStuck
<1> DEFINE Inv == TypeOK /\ KindInv /\ StuckInv
<1>1. Init => Inv
  BY InitType, KindInit, StuckInit
<1>2. Inv /\ [Next]_vars => Inv'
  BY TypeNext, KindNext, StuckNext
<1>3. Inv => NeverStuck
  <2> SUFFICES ASSUME Inv, NEW r \in Reqs, Active(r)
               PROVE  \/ Runs(r)
                      \/ \E q \in Before(r) : Runs(q) \/ \E p \in Before(q) : Runs(p)
    BY DEF NeverStuck, StuckInv, QueuedInv, FillInv
  <2> DEFINE l == req[r].lambda
  <2>1. CASE pc[r] # "queued"
    BY <2>1, OpenRuns
  <2>2. CASE pc[r] = "queued" /\ conn[l] # NoReq
    <3>1. l \in Lambdas /\ conn[l] \in Reqs
      BY <2>2 DEF TypeOK, Request
    <3>2. pc[conn[l]] \in OpenPC
      BY <2>2, <3>1 DEF StuckInv, PoolInv
    <3>3. Active(conn[l]) /\ pc[conn[l]] # "queued" /\ conn[l] # r
      BY <2>2, <3>2 DEF Active, OpenPC
    <3>4. conn[l] \in Before(r)
      BY <2>2, <3>3 DEF Before
    <3> QED
      BY <3>1, <3>3, <3>4, OpenRuns
  <2>3. CASE pc[r] = "queued" /\ conn[l] = NoReq
    <3> DEFINE h == Head(waiting[l])
    <3>1. l \in Lambdas /\ waiting[l] \in Seq(Reqs)
      BY DEF TypeOK, Request
    <3>2. 1 \in 1..Len(waiting[l])
      <4>1. PICK i \in 1..Len(waiting[l]) : waiting[l][i] = r
        BY <2>3 DEF StuckInv, QueuedInv
      <4> QED
        BY <3>1, <4>1
    <3>3. h = waiting[l][1] /\ h \in Reqs
      BY <3>1, <3>2
    <3>4. pc[h] = "queued" /\ req[h].lambda = l
      BY <3>1, <3>2, <3>3 DEF StuckInv, QueueInv
    <3>5. Runs(h)
      BY <2>3, <3>4 DEF Runs, Active, Before
    <3>6. h = r \/ h \in Before(r)
      BY <2>3 DEF Before
    <3> QED
      BY <3>5, <3>6
  <2> QED
    BY <2>1, <2>2, <2>3
<1> QED
  BY <1>1, <1>2, <1>3, PTL DEF Spec

=============================================================================
