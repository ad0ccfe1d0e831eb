----------------------------- MODULE Lifecycle ------------------------------
(***************************************************************************)
(* The document lifecycle of the engine: createDoc, updateDoc, submitDoc   *)
(* and cancelDoc (src/src/api/service.js) running Document.insert, save,   *)
(* submit and cancel (src/src/runtime/document.js) against Postgres.       *)
(*                                                                         *)
(* Requests run on lambdas (warm serverless instances).  Every `await` on  *)
(* a store is a point where other requests may run, so each is a step.     *)
(*   - An edit (create, update) uses SupabaseStore: every call commits by  *)
(*     itself and an error leaves what was already written.                *)
(*   - A transition (submit, cancel) uses the PgStore of its lambda, which *)
(*     has one connection (max: 1): transactions of one lambda queue for   *)
(*     it.  Inside, reads see committed data plus own writes (READ         *)
(*     COMMITTED, no FOR UPDATE) and a written row stays locked.           *)
(*                                                                         *)
(* Data is abstracted: a header row is its docstatus and the set of        *)
(* requests whose patch it holds, a child row is the save that named it    *)
(* and its idx, the hook's side effect is one ledger row.                  *)
(***************************************************************************)
EXTENDS Integers, Sequences

CONSTANTS
    Docs,          \* the documents
    Singles,       \* those of a Single doctype: loadable though no row exists
    Reqs,          \* the requests that may arrive, each at most once
    Lambdas,       \* the warm instances
    Seed,          \* the author of the rows present at the start
    NoReq,         \* nobody holds the connection
    NKids,         \* child rows in a payload
    EditsOverlap,  \* may an edit run beside another request on the document?
    MaxFaults      \* bound on failed calls and crashes

ASSUME LifecycleAssumption ==
    /\ Docs # {} /\ Lambdas # {}
    /\ Singles \subseteq Docs
    /\ Seed \notin Reqs /\ NoReq \notin Reqs
    /\ NKids \in Nat /\ MaxFaults \in Nat
    /\ EditsOverlap \in BOOLEAN

Absent == -1
Draft == 0
Submitted == 1
Cancelled == 2
Status == {Absent, Draft, Submitted, Cancelled}

Edits == {"create", "update"}
Transitions == {"submit", "cancel"}

\* Answers: the HTTP status; Lost when the instance died first; LateMiss for the 404
\* of an edit that had written everything (the client sees a 404 like any other).
NoAnswer == 0
Lost == 1
LateMiss == 2
Refusals == {400, 403, 404, 409}
Codes == {NoAnswer, Lost, LateMiss, 200, 500} \cup Refusals

VARIABLES
    rows,     \* committed header rows
    kids,     \* committed child rows
    ledger,   \* committed side effects of the hooks
    req,      \* what each request asks for
    pc,       \* the next statement of each request
    mem,      \* the Document instance of each request (d.doc)
    todo,     \* children it still has to insert
    del,      \* children its open transaction has deleted
    resp,     \* its answer
    conn,     \* the holder of each lambda's one PgStore connection
    waiting,  \* the transactions queued for it, first come first served
    faults    \* faults so far

db == <<rows, kids, ledger>>
pool == <<conn, waiting>>
locals == <<mem, todo, del>>
vars == <<rows, kids, ledger, req, pc, mem, todo, del, resp, conn, waiting, faults>>

Row == [status : Status, patches : SUBSET Reqs]
Kid == [by : Reqs \cup {Seed}, n : 1..NKids]
Effect == [by : Reqs, op : Transitions]
Request == [kind : Edits \cup Transitions \cup {"none"}, doc : Docs,
            lambda : Lambdas, newKids : BOOLEAN]
Memory == [status : Status, patches : SUBSET Reqs, kids : SUBSET Kid]

PC == {"idle", "queued", "gate", "load", "children", "check", "existing", "insert",
       "update", "clear", "fill", "hook", "commit", "answer", "done"}

\* The statements of an open transaction, and those after it wrote the header.
OpenPC == {"gate", "load", "children", "check", "existing", "insert", "update",
           "clear", "fill", "hook", "commit"}
WrotePC == {"clear", "fill", "hook", "commit"}

TypeOK ==
    /\ rows \in [Docs -> Row]
    /\ kids \in [Docs -> SUBSET Kid]
    /\ ledger \in [Docs -> SUBSET Effect]
    /\ req \in [Reqs -> Request]
    /\ pc \in [Reqs -> PC]
    /\ mem \in [Reqs -> Memory]
    /\ todo \in [Reqs -> SUBSET Kid]
    /\ del \in [Reqs -> SUBSET Kid]
    /\ resp \in [Reqs -> Codes]
    /\ conn \in [Lambdas -> Reqs \cup {NoReq}]
    /\ waiting \in [Lambdas -> Seq(Reqs)]
    /\ faults \in Nat

-----------------------------------------------------------------------------
(* Helpers *)

Doc(r) == req[r].doc
IsTx(r) == req[r].kind \in Transitions
Active(r) == pc[r] \notin {"idle", "done"}

\* Mutant: saveChildren() numbers the children from 0.
PayloadFromZero(by) == [by : {by}, n : 0..(NKids - 1)]

Payload(by) == [by : {by}, n : 1..NKids]

EmptyMemory == [status |-> Absent, patches |-> {}, kids |-> {}]

\* submit() starts from a draft, cancel() from a submitted document.
FromStatus(kind) == IF kind = "submit" THEN Draft ELSE Submitted

\* Mutant: save() has no immutability guard.
ImmutableNever(prev, next) == FALSE

\* Mutant: the guard forgets cancelled documents.
ImmutableSubmittedOnly(prev, next) == prev = Submitted /\ next = prev

\* The immutability guard of save(): a submitted or cancelled row accepts only
\* a save that changes its docstatus.
Immutable(prev, next) == prev >= Submitted /\ next = prev

\* Mutant: submit() and cancel() start from any docstatus.
WrongStatusUnchecked(r) == FALSE

\* submit() and cancel() refuse to start from another docstatus.
WrongStatus(r) == IsTx(r) /\ mem[r].status # FromStatus(req[r].kind)

\* r's open transaction has the header row of d locked.
Holds(r, d) == IsTx(r) /\ Doc(r) = d /\ pc[r] \in WrotePC

LockedFor(r) == \E q \in Reqs \ {r} : Holds(q, Doc(r))

\* The children r's transaction has inserted and not committed.
Inserted(r) == mem[r].kids \ todo[r]

\* Child rows of r's document that another open transaction has deleted or inserted.
KidsHeldAgainst(r) ==
    UNION {del[q] \cup Inserted(q) : q \in {q \in Reqs \ {r} : Holds(q, Doc(r))}}

\* The child rows r's statements see.
VisibleKids(r) == kids[Doc(r)] \ del[r]

-----------------------------------------------------------------------------
Blank == [kind |-> "none", doc |-> CHOOSE d \in Docs : TRUE,
          lambda |-> CHOOSE l \in Lambdas : TRUE, newKids |-> FALSE]

\* A document is absent or a complete draft when the first request arrives.
Init ==
    /\ rows \in [Docs -> [status : {Absent, Draft}, patches : {{}}]]
    /\ kids = [d \in Docs |-> IF rows[d].status = Draft THEN Payload(Seed) ELSE {}]
    /\ ledger = [d \in Docs |-> {}]
    /\ req = [r \in Reqs |-> Blank]
    /\ pc = [r \in Reqs |-> "idle"]
    /\ mem = [r \in Reqs |-> EmptyMemory]
    /\ todo = [r \in Reqs |-> {}]
    /\ del = [r \in Reqs |-> {}]
    /\ resp = [r \in Reqs |-> NoAnswer]
    /\ conn = [l \in Lambdas |-> NoReq]
    /\ waiting = [l \in Lambdas |-> <<>>]
    /\ faults = 0

-----------------------------------------------------------------------------
(* How a request ends *)

\* Nothing of r is left in flight: sql.begin() gives the connection back
\* (after ROLLBACK or COMMIT) and the document instance is garbage.
Leave(r) ==
    /\ mem' = [mem EXCEPT ![r] = EmptyMemory]
    /\ todo' = [todo EXCEPT ![r] = {}]
    /\ del' = [del EXCEPT ![r] = {}]
    /\ conn' = [conn EXCEPT ![req[r].lambda] = IF @ = r THEN NoReq ELSE @]

\* handle() maps what was thrown to an answer; an open transaction rolls back.
Reject(r, code) ==
    /\ pc' = [pc EXCEPT ![r] = "done"]
    /\ resp' = [resp EXCEPT ![r] = code]
    /\ Leave(r)
    /\ UNCHANGED <<db, req, waiting>>

Goto(r, label) == pc' = [pc EXCEPT ![r] = label]

-----------------------------------------------------------------------------
(* Arrival and the connection queue *)

\* Edits run beside nothing else on their document unless EditsOverlap.
MayArrive(kind, d) ==
    \/ EditsOverlap
    \/ \A q \in Reqs : Active(q) /\ Doc(q) = d
                        => kind \in Transitions /\ req[q].kind \in Transitions

\* handle() dispatches: an edit runs at once on SupabaseStore, a transition
\* asks its lambda's PgStore for a transaction.
Arrive(r, kind, d, l, newKids) ==
    /\ pc[r] = "idle"
    /\ MayArrive(kind, d)
    /\ kind # "update" => newKids = (kind = "create")
    /\ req' = [req EXCEPT ![r] = [kind |-> kind, doc |-> d, lambda |-> l,
                                  newKids |-> newKids]]
    /\ IF kind \in Transitions
       THEN /\ Goto(r, "queued")
            /\ waiting' = [waiting EXCEPT ![l] = Append(@, r)]
       ELSE /\ Goto(r, "gate")
            /\ UNCHANGED waiting
    /\ UNCHANGED <<db, locals, resp, conn, faults>>

\* sql.begin(): the first in the queue gets the free connection.
Begin(r) ==
    LET l == req[r].lambda IN
    /\ pc[r] = "queued"
    /\ conn[l] = NoReq
    /\ waiting[l] # <<>> /\ Head(waiting[l]) = r
    /\ conn' = [conn EXCEPT ![l] = r]
    /\ waiting' = [waiting EXCEPT ![l] = Tail(@)]
    /\ Goto(r, "gate")
    /\ UNCHANGED <<db, req, locals, resp, faults>>

-----------------------------------------------------------------------------
(* Reading *)

\* assertCan, assertCanMutate passed.  A create builds its document from the
\* payload; the others load.
Gate(r) ==
    /\ pc[r] = "gate"
    /\ IF req[r].kind = "create"
       THEN /\ Goto(r, "check")
            /\ mem' = [mem EXCEPT ![r] = [status |-> Draft, patches |-> {},
                                          kids |-> {}]]
       ELSE /\ Goto(r, "load")
            /\ UNCHANGED mem
    /\ UNCHANGED <<db, req, todo, del, resp, pool, faults>>

\* loadDoc reads the header.  A Single without a row is made up as a draft.
Load(r) ==
    LET row == rows[Doc(r)] IN
    /\ pc[r] = "load"
    /\ \/ /\ row.status = Absent /\ Doc(r) \notin Singles
          /\ Reject(r, 404)
       \/ /\ row.status # Absent
          /\ mem' = [mem EXCEPT ![r] = [status |-> row.status,
                                        patches |-> row.patches, kids |-> {}]]
          /\ Goto(r, "children")
          /\ UNCHANGED <<db, req, todo, del, resp, pool>>
       \/ /\ row.status = Absent /\ Doc(r) \in Singles
          /\ mem' = [mem EXCEPT ![r] = [status |-> Draft, patches |-> {},
                                        kids |-> {}]]
          /\ Goto(r, "check")
          /\ UNCHANGED <<db, req, todo, del, resp, pool>>
    /\ UNCHANGED faults

\* loadDoc reads the children, a statement later.
LoadChildren(r) ==
    /\ pc[r] = "children"
    /\ mem' = [mem EXCEPT ![r].kids = VisibleKids(r)]
    /\ Goto(r, "check")
    /\ UNCHANGED <<db, req, todo, del, resp, pool, faults>>

\* The document as it will be saved: the patch assigned over it (an edit), or
\* its docstatus moved on (a transition).
Changed(r) ==
    IF IsTx(r)
    THEN [status |-> FromStatus(req[r].kind) + 1,
          patches |-> mem[r].patches, kids |-> mem[r].kids]
    ELSE [status |-> mem[r].status, patches |-> mem[r].patches \cup {r},
          kids |-> IF req[r].newKids THEN Payload(r) ELSE mem[r].kids]

\* submit() and cancel() refuse a wrong docstatus; then the hooks and checks
\* of the save pass.  insert() goes straight to the INSERT.
Check(r) ==
    /\ pc[r] = "check"
    /\ \/ /\ WrongStatus(r)
          /\ Reject(r, 409)
       \/ /\ ~WrongStatus(r)
          /\ mem' = [mem EXCEPT ![r] = Changed(r)]
          /\ todo' = [todo EXCEPT ![r] = Changed(r).kids]
          /\ Goto(r, IF req[r].kind = "create" THEN "insert" ELSE "existing")
          /\ UNCHANGED <<db, req, del, resp, pool>>
    /\ UNCHANGED faults

\* save() reads the header again, for its immutability guard and to choose
\* between UPDATE and INSERT.
Existing(r) ==
    LET prev == rows[Doc(r)].status IN
    /\ pc[r] = "existing"
    /\ \/ /\ Immutable(prev, mem[r].status)
          /\ Reject(r, 409)
       \/ /\ ~Immutable(prev, mem[r].status)
          /\ Goto(r, IF prev = Absent THEN "insert" ELSE "update")
          /\ UNCHANGED <<db, req, locals, resp, pool>>
    /\ UNCHANGED faults

-----------------------------------------------------------------------------
(* Writing.  An edit's statement is committed at once, a transaction's stays *)
(* in mem, todo and del until Commit.                                        *)

\* After the header or the children: what save() does next.
AfterKids(r, rest) ==
    IF rest # {} THEN "fill" ELSE IF IsTx(r) THEN "hook" ELSE "answer"

WriteHeader(r) ==
    IF IsTx(r)
    THEN UNCHANGED rows
    ELSE rows' = [rows EXCEPT ![Doc(r)] = [status |-> mem[r].status,
                                           patches |-> mem[r].patches]]

\* UPDATE writes every scalar of the document, docstatus included.
Update(r) ==
    /\ pc[r] = "update"
    /\ ~LockedFor(r)
    /\ WriteHeader(r)
    /\ Goto(r, "clear")
    /\ UNCHANGED <<kids, ledger, req, locals, resp, pool, faults>>

\* INSERT, refused by the primary key if the row exists by now.  insert()
\* deletes no children, save() does.
Insert(r) ==
    /\ pc[r] = "insert"
    /\ ~LockedFor(r)
    /\ \/ /\ rows[Doc(r)].status # Absent
          /\ Reject(r, 500)
       \/ /\ rows[Doc(r)].status = Absent
          /\ WriteHeader(r)
          /\ Goto(r, IF req[r].kind = "create" THEN AfterKids(r, todo[r]) ELSE "clear")
          /\ UNCHANGED <<kids, ledger, req, locals, resp, pool>>
    /\ UNCHANGED faults

\* Mutant: save() inserts the new children beside the old ones.
ClearNothing(r) ==
    /\ pc[r] = "clear"
    /\ Goto(r, AfterKids(r, todo[r]))
    /\ UNCHANGED <<db, req, locals, resp, pool, faults>>

\* deleteChildren(): waits for rows another open transaction has touched.
Clear(r) ==
    /\ pc[r] = "clear"
    /\ VisibleKids(r) \cap KidsHeldAgainst(r) = {}
    /\ IF IsTx(r)
       THEN /\ del' = [del EXCEPT ![r] = VisibleKids(r)]
            /\ UNCHANGED kids
       ELSE /\ kids' = [kids EXCEPT ![Doc(r)] = {}]
            /\ UNCHANGED del
    /\ Goto(r, AfterKids(r, todo[r]))
    /\ UNCHANGED <<rows, ledger, req, mem, todo, resp, pool, faults>>

\* saveChildren() inserts the children one by one, in idx order.
Fill(r) ==
    \E k \in todo[r] :
        /\ pc[r] = "fill"
        /\ \A j \in todo[r] : k.n <= j.n
        /\ k \notin KidsHeldAgainst(r)
        /\ \/ /\ k \in VisibleKids(r)       \* the primary key refuses the name
              /\ Reject(r, 500)
           \/ /\ k \notin VisibleKids(r)
              /\ todo' = [todo EXCEPT ![r] = @ \ {k}]
              /\ kids' = IF IsTx(r) THEN kids
                         ELSE [kids EXCEPT ![Doc(r)] = @ \cup {k}]
              /\ Goto(r, AfterKids(r, todo[r] \ {k}))
              /\ UNCHANGED <<rows, ledger, req, mem, del, resp, pool>>
        /\ UNCHANGED faults

\* Mutant: the hook posts through a captured outer store, outside the transaction.
HookOnOuterStore(r) ==
    /\ pc[r] = "hook"
    /\ ledger' = [ledger EXCEPT ![Doc(r)] = @ \cup {[by |-> r, op |-> req[r].kind]}]
    /\ Goto(r, "commit")
    /\ UNCHANGED <<rows, kids, req, locals, resp, pool, faults>>

\* Mutant: the hook opens a transaction of its own on the same PgStore.
HookOnOwnTransaction(r) ==
    /\ pc[r] = "hook"
    /\ conn[req[r].lambda] = NoReq
    /\ Goto(r, "commit")
    /\ UNCHANGED <<db, req, locals, resp, pool, faults>>

\* onSubmit() or onCancel() posts its side effect through this.store, the
\* transaction: it is visible to nobody before Commit.
Hook(r) ==
    /\ pc[r] = "hook"
    /\ Goto(r, "commit")
    /\ UNCHANGED <<db, req, locals, resp, pool, faults>>

\* Mutant: nobody awaits the hook, its side effect misses the commit.
CommitWithoutEffect(r) ==
    /\ pc[r] = "commit"
    /\ rows' = [rows EXCEPT ![Doc(r)] = [status |-> mem[r].status,
                                         patches |-> mem[r].patches]]
    /\ kids' = [kids EXCEPT ![Doc(r)] = (@ \ del[r]) \cup mem[r].kids]
    /\ Goto(r, "answer")
    /\ Leave(r)
    /\ UNCHANGED <<ledger, req, resp, waiting, faults>>

\* COMMIT makes the header, the children and the side effect visible at once
\* and frees the connection.
Commit(r) ==
    LET d == Doc(r) IN
    /\ pc[r] = "commit"
    /\ rows' = [rows EXCEPT ![d] = [status |-> mem[r].status,
                                    patches |-> mem[r].patches]]
    /\ kids' = [kids EXCEPT ![d] = (@ \ del[r]) \cup mem[r].kids]
    /\ ledger' = [ledger EXCEPT ![d] = @ \cup {[by |-> r, op |-> req[r].kind]}]
    /\ Goto(r, "answer")
    /\ Leave(r)
    /\ UNCHANGED <<req, resp, waiting, faults>>

Answer(r) ==
    /\ pc[r] = "answer"
    /\ Goto(r, "done")
    /\ resp' = [resp EXCEPT ![r] = 200]
    /\ Leave(r)
    /\ UNCHANGED <<db, req, waiting, faults>>

-----------------------------------------------------------------------------
(* Refusals, errors and crashes *)

\* What may refuse a request: a permission, or meta that another request invalidated
\* (getMeta's 404), at the gate; after the load the owner check, the row scope, such a
\* meta again, a validation or a before- hook; the hook that would have posted the side
\* effect; and last, inside the transaction, the getMeta of maskRead.
RefusalsAt(label) ==
    CASE label = "gate"   -> {403, 404}
      [] label = "check"  -> {400, 403, 404}
      [] label = "hook"   -> {409}
      [] label = "commit" -> {404}
      [] OTHER            -> {}

\* Mutant: transaction() runs its body without BEGIN and ROLLBACK, so the hook that
\* refuses has already written.
RefuseWithoutRollback(r) ==
    /\ \E code \in RefusalsAt(pc[r]) : resp' = [resp EXCEPT ![r] = code]
    /\ Goto(r, "done")
    /\ Leave(r)
    /\ IF pc[r] = "hook"
       THEN /\ rows' = [rows EXCEPT ![Doc(r)].status = mem[r].status]
            /\ ledger' = [ledger EXCEPT ![Doc(r)] = @ \cup {[by |-> r, op |-> req[r].kind]}]
       ELSE UNCHANGED <<rows, ledger>>
    /\ UNCHANGED <<kids, req, waiting, faults>>

Refuse(r) ==
    /\ \E code \in RefusalsAt(pc[r]) : Reject(r, code)
    /\ UNCHANGED faults

\* createDoc and updateDoc mask the answer after their write, outside any transaction:
\* maskRead's getMeta throws NotFoundError when another request of the instance has
\* invalidated the registry during the write (MetaCache's Project shows the cause).
MissLate(r) ==
    /\ pc[r] = "answer" /\ ~IsTx(r)
    /\ Reject(r, LateMiss)
    /\ UNCHANGED faults

\* A store call throws, before or after the server executed it: the error ends
\* the request where it is.  A lost acknowledgement of COMMIT, too: the
\* transaction is then committed and the client is told it failed.
StoreError(r) ==
    /\ pc[r] \in OpenPC \cup {"answer"}
    /\ faults < MaxFaults
    /\ faults' = faults + 1
    /\ Reject(r, 500)

\* The instance is killed (function timeout, redeploy).  Its requests are never
\* answered; Postgres rolls back the transaction of the dead connection.
Crash(l) ==
    LET dead == {r \in Reqs : Active(r) /\ req[r].lambda = l} IN
    /\ dead # {}
    /\ faults < MaxFaults
    /\ faults' = faults + 1
    /\ pc' = [r \in Reqs |-> IF r \in dead THEN "done" ELSE pc[r]]
    /\ resp' = [r \in Reqs |-> IF r \in dead THEN Lost ELSE resp[r]]
    /\ mem' = [r \in Reqs |-> IF r \in dead THEN EmptyMemory ELSE mem[r]]
    /\ todo' = [r \in Reqs |-> IF r \in dead THEN {} ELSE todo[r]]
    /\ del' = [r \in Reqs |-> IF r \in dead THEN {} ELSE del[r]]
    /\ conn' = [conn EXCEPT ![l] = NoReq]
    /\ waiting' = [waiting EXCEPT ![l] = <<>>]
    /\ UNCHANGED <<db, req>>

-----------------------------------------------------------------------------
\* One statement of a request.
Step(r) ==
    \/ Begin(r) \/ Gate(r) \/ Load(r) \/ LoadChildren(r) \/ Check(r)
    \/ Existing(r) \/ Update(r) \/ Insert(r) \/ Clear(r) \/ Fill(r)
    \/ Hook(r) \/ Commit(r) \/ Answer(r)

\* Every request has been answered or lost: nothing is left to do.
Finished == (\A r \in Reqs : pc[r] = "done") /\ UNCHANGED vars

Next ==
    \/ \E r \in Reqs : Step(r)
    \/ \E r \in Reqs, kind \in Edits \cup Transitions, d \in Docs, l \in Lambdas,
          newKids \in BOOLEAN : Arrive(r, kind, d, l, newKids)
    \/ \E r \in Reqs : Refuse(r) \/ MissLate(r)
    \/ \E r \in Reqs : StoreError(r)
    \/ \E l \in Lambdas : Crash(l)
    \/ Finished

Spec == Init /\ [][Next]_vars

\* A request that has arrived goes on: the event loop runs its continuation and
\* Postgres answers.  Nobody is obliged to send a request, to refuse or to fail.
FairSpec == Spec /\ \A r \in Reqs : WF_vars(Step(r))

-----------------------------------------------------------------------------
(* Properties *)

Editing(d) == \E r \in Reqs : Active(r) /\ Doc(r) = d /\ ~IsTx(r)

\* Side effects and docstatus agree at every moment: none for a draft, the one
\* of its submit for a submitted document, one of the submit and one of the
\* cancel for a cancelled one.  It is what "submit and cancel are atomic" of
\* service.js and the hooks' F1 invariant promise together.
LedgerMatches(d) ==
    /\ rows[d].status \in {Absent, Draft} => ledger[d] = {}
    /\ rows[d].status = Submitted =>
          \E r \in Reqs : ledger[d] = {[by |-> r, op |-> "submit"]}
    /\ rows[d].status = Cancelled =>
          \E r, q \in Reqs : ledger[d] = {[by |-> r, op |-> "submit"],
                                          [by |-> q, op |-> "cancel"]}

LedgerMatchesStatus == \A d \in Docs : LedgerMatches(d)

\* A document is submitted once and cancelled once: "the only legal saves at
\* docstatus>=1 are the transition saves themselves (docstatus changes)"
\* (document.js:77), so a second submit must be refused before its hook has run.
EffectOnce == \A d \in Docs : \A e, f \in ledger[d] : e.op = f.op => e = f

\* docstatus only ever grows: 0 -> 1 -> 2 (README.md:41).
DocstatusNeverGoesBack ==
    [][\A d \in Docs : rows'[d].status >= rows[d].status]_vars

\* A submitted or cancelled document changes in one way only, submitted to
\* cancelled, and then nothing but its docstatus changes: no patch and no child
\* row (document.js, the guard of save()).
SubmittedImmutable ==
    [][\A d \in Docs :
        rows[d].status >= Submitted =>
            /\ \/ rows'[d] = rows[d]
               \/ /\ rows[d].status = Submitted
                  /\ rows'[d] = [rows[d] EXCEPT !.status = Cancelled]
            /\ kids'[d] = kids[d]]_vars

\* A side effect appears together with the docstatus it belongs to, in one
\* step: no other session can see one without the other, whatever overlaps
\* (PgStore.transaction).
EffectWithStatus ==
    [][\A d \in Docs : \A e \in ledger'[d] \ ledger[d] :
        rows'[d].status = FromStatus(e.op) + 1]_vars

\* A request refused with a 4xx has changed nothing: neither its patch, nor a
\* child row, nor a side effect of it is in the database, however late it was
\* refused (rollback in sql.begin, the order of checks and writes in save()).  The one
\* refusal that leaves a trace is an edit's late 404; a transition never gets it.
LeftNoTrace(r) ==
    \A d \in Docs : /\ r \notin rows[d].patches
                    /\ \A k \in kids[d] : k.by # r
                    /\ \A e \in ledger[d] : e.by # r

RefusedLeavesNoTrace ==
    \A r \in Reqs : /\ resp[r] \in Refusals => LeftNoTrace(r)
                    /\ resp[r] = LateMiss => ~IsTx(r)

\* A transition answered 200 has its side effect in the database.
AckedIsRecorded ==
    \A r \in Reqs : resp[r] = 200 /\ IsTx(r) =>
        [by |-> r, op |-> req[r].kind] \in ledger[Doc(r)]

\* While nobody edits it, a document's children are those of one save, all of
\* them: save() "replaces wholesale".  (A Single's first save may have none.)
Whole(d) ==
    \/ kids[d] = {} /\ (rows[d].status = Absent \/ d \in Singles)
    \/ \E by \in Reqs \cup {Seed} : kids[d] = Payload(by)

ChildrenWhole == \A d \in Docs : Editing(d) \/ Whole(d)

\* The same as long as no call has failed and no instance has died.
ChildrenWholeWithoutFaults == faults = 0 => ChildrenWhole

\* Every request is answered, or lost with its instance: no wait for the
\* connection, a row lock or a key lasts for ever.
EveryRequestEnds == \A r \in Reqs : pc[r] # "idle" ~> pc[r] = "done"

\* The requests r's next statement waits for: the one on its lambda's connection, or
\* else the first in the queue; the open transactions that hold a row it writes.
Before(r) ==
    LET l == req[r].lambda
        holders == {q \in Reqs \ {r} : Holds(q, Doc(r))}
    IN CASE pc[r] = "queued" ->
              (IF conn[l] = NoReq THEN {Head(waiting[l])} ELSE {conn[l]}) \ {r}
         [] pc[r] \in {"update", "insert"} -> holders
         [] pc[r] = "clear" ->
              {q \in holders : VisibleKids(r) \cap (del[q] \cup Inserted(q)) # {}}
         [] pc[r] = "fill" ->
              {q \in holders : todo[r] \cap (del[q] \cup Inserted(q)) # {}}
         [] OTHER -> {}

Runs(r) == Active(r) /\ Before(r) = {}

\* No request is ever stuck, whatever overlaps and whatever has failed: a queued
\* request is in its lambda's queue, a connection taken is one some open transaction
\* will give back, and whoever waits for a row or a connection waits for a request
\* that runs, or for one that waits for a request that runs.  No cycle of connection,
\* header and child row locks can form, and none is left behind by an error.
NeverStuck ==
    \A r \in Reqs : Active(r) =>
        /\ pc[r] = "queued" =>
              \E i \in 1..Len(waiting[req[r].lambda]) : waiting[req[r].lambda][i] = r
        /\ pc[r] = "fill" => todo[r] # {}
        /\ \/ Runs(r)
           \/ \E q \in Before(r) : Runs(q) \/ \E p \in Before(q) : Runs(p)

-----------------------------------------------------------------------------
(* Why it works when it works.  One lambda, hence one connection, and no edit *)
(* beside another request: then what a request has read is still true when it *)
(* writes.  SerialInv says so step by step and is inductive.                  *)

Serial == (\A l, m \in Lambdas : l = m) /\ ~EditsOverlap

\* The docstatus loadDoc shows for the row of d.
Shown(d) == IF rows[d].status = Absent THEN Draft ELSE rows[d].status

\* Which statements each kind of request passes through.
KindInv ==
    \A r \in Reqs :
        /\ Active(r) => req[r].kind # "none"
        /\ pc[r] \in {"queued", "hook", "commit"} => IsTx(r)
        /\ pc[r] \in {"load", "children", "existing", "update", "clear"}
              => req[r].kind # "create"

\* An open transaction holds its lambda's connection.
ConnInv == \A r \in Reqs : IsTx(r) /\ pc[r] \in OpenPC => conn[req[r].lambda] = r

\* An edit is alone on its document.
AloneInv ==
    \A r, q \in Reqs :
        Active(r) /\ Active(q) /\ r # q /\ Doc(r) = Doc(q) => IsTx(r) /\ IsTx(q)

\* A row that was never written has no patch and no child.
AbsentInv ==
    \A d \in Docs : rows[d].status = Absent => rows[d].patches = {} /\ kids[d] = {}

\* What r read is still so: the document in memory is the one in the database.
KnowsRow(r) ==
    /\ pc[r] \in {"idle", "queued", "gate", "load"} => mem[r] = EmptyMemory
    /\ pc[r] = "children" => rows[Doc(r)].status # Absent
    /\ pc[r] \in {"children", "check"} /\ req[r].kind # "create" =>
          mem[r].status = Shown(Doc(r)) /\ mem[r].patches = rows[Doc(r)].patches
    /\ pc[r] = "check" /\ IsTx(r) => mem[r].kids = kids[Doc(r)]
    /\ pc[r] = "check" /\ req[r].kind = "create" =>
          mem[r].status = Draft /\ mem[r].patches = {}

\* ... and what r is about to write is one change away from it.
KnowsChange(r) ==
    /\ IsTx(r) /\ pc[r] \in {"existing", "insert", "update"} \cup WrotePC =>
          /\ Shown(Doc(r)) = FromStatus(req[r].kind)
          /\ mem[r].status = FromStatus(req[r].kind) + 1
          /\ mem[r].patches = rows[Doc(r)].patches
          /\ mem[r].kids = kids[Doc(r)]
    /\ rows[Doc(r)].status = Absent /\ pc[r] \in OpenPC \ {"gate", "load"}
       /\ req[r].kind # "create" => Doc(r) \in Singles
    /\ req[r].kind = "update" /\ pc[r] \in {"existing", "insert", "update"} =>
          /\ mem[r].status = Shown(Doc(r))
          /\ mem[r].patches = rows[Doc(r)].patches \cup {r}
    /\ req[r].kind = "update" /\ pc[r] = "update" => rows[Doc(r)].status = Draft
    /\ req[r].kind = "create" /\ pc[r] = "insert" =>
          mem[r].status = Draft /\ mem[r].patches = {r}
    /\ ~IsTx(r) /\ pc[r] \in {"clear", "fill"} => rows[Doc(r)].status = Draft
    /\ del[r] \subseteq kids[Doc(r)]
    /\ del[r] # {} => IsTx(r) /\ pc[r] \in {"fill", "hook", "commit"}

KnowsInv == \A r \in Reqs : KnowsRow(r) /\ KnowsChange(r)

SerialInv ==
    /\ KindInv
    /\ ConnInv
    /\ AloneInv
    /\ AbsentInv
    /\ KnowsInv
    /\ LedgerMatchesStatus

-----------------------------------------------------------------------------
DM == INSTANCE DocMachine WITH
    Docs <- Docs, Singles <- Singles, Reqs <- Reqs, rows <- rows, ledger <- ledger

\* The statements implement the document state machine.
ImplementsDocMachine == DM!Spec

=============================================================================
