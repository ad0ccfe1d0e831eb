# Verification of spartan-erp-engine

TLA+ specifications of the engine and the desk client in `src/` of the repository,
model-checked with TLC and proved with TLAPS. Source paths
are relative to the repository (`src/src/...` is the server, `src/public/app/js/...`
the desk client).

    tlc -config LifecycleSerial.cfg MCLifecycle      # a run: see the table below
    tlapm LifecycleProofs.tla                        # a proof module

## 1. The system

A request arrives at a Vercel function, is given a context from its token, and is
handled by `handle()`. The function's process (a *lambda*, a warm instance) serves
several requests, interleaved at every `await`; several instances run side by
side and share only Postgres. The desk client is a page whose session, API client
and views share one event loop, one token and one mount element.

| component | state | operations | hard behaviour | what makes it correct |
|---|---|---|---|---|
| document lifecycle (`runtime/document.js`, `api/service.js`, `api/handler.js`) | header and child rows; one `Document` in memory per request | create, update, submit, cancel | an update is many separate commits; a submit is a transaction on a queue of one connection; the guard compares memory with the row | docstatus 0→1→2 only, submitted documents immutable, hooks exactly once and atomic, children replaced whole, refusals without trace (but for an edit's late 404) |
| stores (`pg-store.js`, `supabase-store.js`) | one pooled connection per instance; row locks | get, insert, update, children, `transaction` | queueing, lock waits, rollback, lost commits | nobody waits for ever; all or nothing |
| records: permissions, naming, validation (`perms/`, `runtime/naming.js`, `runtime/validate.js`, `runtime/depends-on.js`, `job.controller.js`) | the rows of a doctype, `tab_series` | create, update, list, get | checks before and after a load, whole-row writes awaits later, fields that become relevant, numbers taken by creates that fail | deny by default at every write, fresh names, required and unique fields in what is stored, lists that show what can be opened |
| workflow and Job (`workflow/`, `doctypes/job/`) | `tabJob.status`, the payments, `tabWorkflowAction`, `WORKFLOW_DEFS` of each instance | transition, load of the definition, seeding | never-refreshed cache, non-atomic seed, other writers of the status, gates only where `job.hooks.js` is imported | only declared moves, the gates there are met when passed, the audit rows are the history |
| meta cache (`meta/loader.js`, `meta/registry.js`) | cache, version, time of the last poll, per instance | `ensure`, `ensureFresh`, `load`, `invalidate` | shared by all requests in flight; four reads per definition; migrations at any time | bounded staleness; priming that ends and leaves the pipeline what it looks up |
| generator and installer (`generator/`, `meta/installer.js`, `meta/ddl.js`, `scripts/generate-doctypes.mjs`) | tables, `tabDocType` and children, `meta_version`, emitted files | plan, generate, `migrate`, push | stubs and full doctypes in any order, crash between any two statements, cyclic or incomplete sources | the plan is the closure; full stays full; columns before fields; every change announced |
| desk session (`auth/session.js`, `api/client.js`, `main.js`) | token, listeners, the sign-in gate, one retry per request | sign in and out, silent re-authentication, 401 retry, reload | callbacks during iteration, timeouts against late credentials, a GIS script that is not there yet | every request settles; a refused user gets a button |
| desk views (`shell/`, `views/`, `workflow/bar.js`, `meta/cache.js`) | hash, mount element, promise cache, buttons | navigate, render, act, boot again | late renders, shared promises, failing requests, the address shown again by a boot | the view shows its route; no dead button |
| identity, desk bridge, boot meta, widgets | none | pure functions, DOM | – | – |

They interact through calls (`handle` → `ensure` → service → `Document` → store),
through Postgres (everything between instances, and between them and an operator
who installs), and through module state shared by the requests of one instance
(meta cache, workflow cache, connection). The desk sees the engine through its API
client only: a 401 is `Session`'s business, an error or an answer `DeskViews`'.

`PROJECT.json` lists the same components with what is modelled of each, and under
`hazards` the places where this code can go wrong in ways a unit test would
hardly reach.

## 2. The modules

| module | what it is |
|---|---|
| `DocMachine` | the promise of the lifecycle: each of create, edit, submit and cancel is one atomic step on (row, hook effects) |
| `Lifecycle` | the code: one step per `await`, for any number of requests on any number of instances |
| `LifecycleProofs`, `SerialProofs` | theorems about `Lifecycle`: in any deployment, and with one connection and edits alone |
| `Records`, `RecordsProofs` | create and update of a doctype's records through permissions, naming and validation; theorems |
| `JobMachine` | the promise of the Job workflow: the 15 seeded transitions with gates, each one step that moves the status and writes its audit row |
| `JobWorkflow`, `JobProofs` | the code of `transitionDoc` and `updateDoc` on one Job, with the instance's `WORKFLOW_DEFS`; theorems |
| `MetaCache`, `MetaProofs` | one instance's registry, `ensure()`, and `migrate()` behind it; theorems |
| `Install`, `InstallProofs` | generating and installing doctypes from ERPNext sources; theorems |
| `Session`, `SessionProofs` | the desk's session and API client in one browser page; theorems |
| `DeskViews`, `DeskProofs` | the desk's view area: routes, renders, buttons; theorems |
| `MCLifecycle`, `MCRecords`, `MCJobWorkflow`, `MCMetaCache`, `MCInstall` | finite values for TLC |
| `MCSession` | the iteration of `_setToken()` as a loop, which `Session` states in closed form |

Definitions named "Mutant: ..." are plausible bugs of the definition that follows
them. No specification uses them; each shows that a property can fail.

### Lifecycle

`rows`, `kids` and `ledger` are what Postgres has committed: the header rows, the
child rows, the side effects of `onSubmit`/`onCancel`. `mem`, `todo` and `del` are
the locals of each request: its `Document`, the children it still has to insert,
the children its open transaction has deleted. What an open transaction wrote is
derived from its program counter (`Holds`, `Inserted`), and becomes visible in
`Commit`. `conn` and `waiting` are PgStore's single connection (`max: 1`) and its
queue, per instance.

The program counter follows the source: `gate` (assertCan...), `load`, `children`
(loadDoc), `check` (docstatus check, runChecks, before-hooks), `existing` (the
re-read and the guard in `save`), `insert`/`update`, `clear` and `fill` (the
children), `hook`, `commit`, `answer`. An edit skips the last three and commits
each statement by itself. `Refuse` fires where the code can throw a 4xx before
anything is committed: at the gate, after the load, in a hook, and in `maskRead` at the
end of a transaction, which it rolls back. `MissLate` is the 4xx that comes too late:
`createDoc` and `updateDoc` call `maskRead` after a write that is committed, and its
`getMeta` throws a 404 if another request invalidated the registry during the write.
`StoreError` fires wherever a store call can fail, `Crash` kills an instance with all
its requests. Deletes and key conflicts of child rows wait for the transaction that
holds them, as under READ COMMITTED.

Data is abstracted: a header row is its docstatus and the set of requests whose
patch it holds, a child row the save that named it and its `idx`.

### JobWorkflow

One Job; clients send one request after the other. The transitions table is the
seed's, row by row (`JobMachine!Rules`); `table` says how many rows
`seedJobWorkflow()` has inserted, because it is sixteen separate inserts and an
instance that loads the definition in between keeps what it saw. The docperms of
`job.def.js` are `MayMutate`; a Job outside the user's row scope is a 404 of `Load`.
An update may get the late 404 of `Lifecycle`, a transition's `maskRead` rolls the move
back (`MissLate`). Patches set and clear payments; a patch may also carry a status, as
the desk's form does, which `MCPatches` leaves out (see section 3).

`hooks` says whether the processes have imported `job.hooks.js`. Its three payment gates
are registered by that import alone; `bootstrap.js`, the only module the functions under
`api/` import for their doctypes, does not import it, so the deployed API checks no
payment. The abstract machine is parameterised in the same way: `JobMachine!GateOf` is
empty without the hooks. Every run has both kinds of process. The naming series of a Job
depends on a like import, of `job.controller.js`, which `bootstrap.js` does not make
either: `Records` models a process in which it was made.

### MetaCache

A definition is its revision, the number of migrations that changed it, and its Table
and Link targets depend on the revision. A cached `Meta`, assembled from three reads, is
the oldest revision they saw and the one of its fields, which say what it refers to.
The recursion of `_primeDoctype`, `_primeLinkTarget` and `_walkFields` is an explicit
`plan` of calls, so that every read is a step: `RawRead` is the query of `tabDocField`
that plans the targets (`loader.js:205`, `:249`), and the three `Read`s of `load()`
come later and may see another revision. `Gate`, `LinksAndWrite` and `Project` are the
three places of the pipeline that look metas up, up to `maskRead`. `moved` and `loaded`
are history: the requests during which a definition was committed, and what each request
has registered. `past` records the version at each clock tick,
which is what bounded staleness is measured against. One instance is enough:
instances share only the database, and none writes a definition.

### Records

`table` and `series` are Postgres; `mem`, `name` and `req` the locals of each request.
A request's program counter stops at the awaits: `name` (`next_series()`), `load`,
`fetch` (`resolveFetchFrom()`), `validate` (the list of the unique check), `write`.
Everything between two awaits is one action, in the order of the source: the create
grant, the fields above the user's levels and the entity in `Create`; scope, owner,
patch and levels in `Load`. `Fetch` comes after those checks and overwrites fields of
the document with what the linked row holds at that moment, whatever the user's levels.
A docperm is a record of role, level, operations and `ifOwner`. A condition of
`dependsOn` or `mandatoryDependsOn` is in disjunctive form, which any tree of `all`,
`any` and `not` has, over the twelve operators of `evalLeaf()`: `Unset` is a key the
document does not have, `Null` the column of such a key once it is stored, `True` and
`Binary` are what the boolean coercion looks at, and `Order` is JavaScript's comparison.
`QueryConditions` treats all scope fields alike, as the loop over `meta.scopeFields`
does. `alone` is chosen once: in half of the behaviours requests do not overlap, which
some of the properties need.

### Install

A source tree says which doctypes have a JSON file and which fields each has; a
field keeps name, kind and target. A process plans (`Visit`, one turn of the
breadth-first search of `planInstall()` or `closureOver()`), generates and validates
all defs (`Generate`), then migrates one after the other: `Look` reads the meta row
and chooses the branch, `Ddl`, `Sync` and `Bump` are the three statements, and a
process may die between any two. `cols` holds the columns of the tables, `row` the meta
rows, `silent` the changes no version bump has announced yet: it is what ties this
module to `MetaCache`, which starts where a bump or its absence is noticed.
Emitted files are pushed by a human at any later time, and the sources change.

### Session

A step is one task of the event loop with its microtasks. Tokens are numbered as
Google issues them and may expire at any moment; `seen` is the token a request's
re-authentication began with. `Fired` is what the iteration of `_setToken()` comes to
over the array its one-shot listeners remove themselves from: after the listener of
`main.js`, which stays, every other one is called and the rest are skipped. `MCSession`
has the iteration itself, and TLC finds the two equal on every list of up to six
one-shots. A request whose `reauth()` finds no GIS script ends `rejected`: nothing
waits, and nothing is shown. `dom` and `visible` say what the
gate and the app element contain and which is displayed, because `renderGate()` of
the fallback empties the app's element.

### DeskViews

`mount` is the content of the one element all views render into; a render that awaits is
in `renders` and appends or replaces when its answer comes, whatever the mount shows by
then. `renders` is a set: the ids of the calls give the order in which those that wait
for the meta go on (`InOrder`). A hash that is set to what it is fires no event
(`Navigate`, `CreateOk`). On a page that was loaded signed out every credential boots the
desk again: `BootOk` ends in `router.start()`, which dispatches the address that is
there once more, `BootFailed` puts its message into the mount. The Edit button leads to
`#/<doctype>/<name>/edit`, which `parseHash()` reads as a name no row has. `patient` is
chosen once: a patient user waits for requests to end before the next click. The meta
cache is one promise: pending, resolved, or removed by its rejection. `failed` and
`raced` are history: the last view's call was rejected; a boot ended while a view or a
click of the address was waiting.

## 3. The runs

Expected to pass:

| run | instance | what it shows |
|---|---|---|
| `LifecycleSerial` | 1 document, 4 requests, 1 instance, 2 children per payload, 1 fault | with one connection and no edit beside another request everything promised holds, and the code implements `DocMachine` |
| `LifecycleOverlap` | a Single, 2 requests, 2 instances, edits overlap, 1 fault | what still holds when anything may overlap: atomic transactions, refusals without trace (an edit's late 404 apart), acknowledged transitions recorded, every request ends |
| `JobSerial` | 2 clients, 1 instance, with the hooks and without, 6 audit rows, 2 updates, 1 fault, partial seeds of 0 and 3 rows | the audit rows are the Job's history; with the hooks no Job gets past a gate whose payment is not in its row; the code implements `JobMachine` |
| `MetaAlone` | parent with a child table that links back, targets that change with the revision, parent registered in code, 1 request at a time, TTL 2, clock 3, 2 revisions, 2 bumps, 1 fault | bounded staleness, complete priming unless a definition is committed meanwhile, nothing loaded twice, priming ends |
| `Records` | 3 requests of any of 3 users (unrestricted, owner-writes, owner-only), 2 series, a unique field relevant in one branch, a field of level 1 fetched over a link | fresh names, constraints, permitted writes, lists |
| `Session` | 3 requests, 2 tokens, 2 page loads | every request settles, retries carry the newest token, a refused user is offered a sign-in unless `reauth()` rejected for want of GIS |
| `DeskViews` | 2 documents, 2 workflow states, 3 renders | no dead button, the patient user's view, no eternal "Loading" |
| `Install` | 3 doctypes, 4 source trees (cyclic, incomplete, broken, a later release), 5 command lines, 3 commands, 1 crash | closure, no downgrade, columns, announcement, termination |

Expected to fail, each the disagreement of the code with a sentence of its
documentation (`findings` in `PROJECT.json` quotes them):

| run | shows |
|---|---|
| `LifecycleStaleDraft` | an update that loaded a draft and saves after a submit writes docstatus 0 back, since the guard takes any change of docstatus for a transition |
| `MetaStale` | of two requests on one doctype one registers, after an invalidation, a definition it read before; it stays until the next bump |
| `SessionGate` | of two requests waiting for one credential the second is skipped; its timeout puts the gate in place of the desk although the user is signed in |
| `InstallTorn` | a stub's table without its meta row makes a later full install register fields that have no column |

Beside the runs there are small instances of the same modules, each of which makes TLC
print a behaviour that a hypothesis or an exception of the properties above keeps out.
Each is checked like a run, with its own `.cfg`:

| config | module | refuted | because |
|---|---|---|---|
| `LifecycleInstances` | `MCLifecycle` | `EffectOnce` | two submits of one draft on two instances both succeed, and both hooks run |
| `LifecycleChildren` | `MCLifecycle` | `ChildrenWholeWithoutFaults` | an update loads a document whose create has not inserted its children yet, and replaces them by the none it saw |
| `MetaUnprimed` | `MCMetaCache` | `AlwaysPrimed` | a migration adds a target between the raw read that plans the priming and `load()`'s read of the same fields |
| `MetaMiss` | `MCMetaCache` | `NoLateMiss` | another request empties the registry during a write; `maskRead` then answers 404 for a document that is stored |
| `RecordsAbsent` | `MCRecords` | `StoredIsComplete` | `mandatoryDependsOn: margin gte 0` is false of a key that is not there and true of the NULL it is stored as |
| `RecordsLevels` | `MCRecords` | `LevelsEnforced` | `fetchFrom` overwrites a field above the writer's level, after the check |
| `SessionNoGis` | `MCSession` | `NeverWithoutGate` | a token that expired is refused before the GIS script has loaded: `reauth()` rejects, and no button is shown |
| `DeskStacked` | `DeskViews` | `OneView` | a boot shows the address again while its view is waiting, and both append |
| `DeskEdit` | `DeskViews` | `EditShowsForm` | the address of the Edit button is read as the name of a document that does not exist: 404, a blank page |

The models show more without an instance on disk. A failing call in an update loses
children (`ChildrenWholeWithoutFaults` without its premise). Without the hooks, as the
functions under `api/` run, a Job on which nothing was ever paid reaches Scheduling and
Complete (`ScheduledIsPaid` without its premise). The workflow action `cancel` is sent to
`cancelDoc` and answered 403 to an admin whom `docs/adr-job-spine.md:77` gives all
transitions. A patch that carries a status moves a Job outside its workflow, so a form
opened before a transition and saved after it undoes the move. A role with a create
grant and no write grant, as the sales role of `docs/adr-job-spine.md:88`, is answered
403 by `createDoc`, which applies the field levels of `write`. Two operators at once can
make a full doctype a stub again, since `migrate()` reads the meta row before its
transaction. An impatient user may find a form below another view.

**Bounds.** Every counter that grows is bounded in a guard by a constant: `MaxFaults`,
`MaxLog`, `MaxUpdates`, `MaxClock`, `MaxRev`, `MaxVersion`, `MaxTokens`, `MaxLoads`,
`MaxRenders`, `MaxStarts`, `MaxCrashes`; in `Lifecycle` and `Records` each request arrives
once, so the set of requests is the bound. Documents do not interact except
through the connection queue, so one document is the hard case; four requests
allow create, update, submit, cancel or two of each transition in a row, and with
overlapping edits two on two instances meet every lock. Two
children distinguish a torn list from a missing one. A Job reaches Scheduling in four
transitions and can hold, resume and come back within six; of two updates one clears a
payment and one records it. `JobSerial` identifies states that differ in `resp` only
(`VIEW Unread`): no action and no property of the run reads the answers. A clock of 3 has
the last tick of one window of TTL 2 and the first of the next. Three records allow two
that clash and one that makes a field relevant. Three requests of a page are two that
wait and one that boots; two tokens are the refused one and the next. Three renders are
a view, the one that overtakes it, and the one that an action, a create or a boot adds.
Three commands are a stub, a full install and the repair of what a crash between them
left. `MetaAlone` has one request in flight; `MetaStale` shows that it is necessary.

`MetaAlone`, `MetaStale`, `MetaMiss`, `Install` and `InstallTorn`, and the configurations
of `Records`, `Session` and `DeskViews`, do not check deadlock: when the bounds are used
up, or nobody clicks, nobody has to act. What must not stop is stated as liveness there.

**Fairness.** `LifecycleOverlap` assumes weak fairness of each request's own
steps (`FairSpec`). A step is a continuation of the event loop or a statement of
Postgres, and both are executed when they can be; a request that waits (for the
connection, for a row lock) is not enabled, so its progress is not assumed but
follows from the others'. Arrival, refusals, failures and crashes are not fair. The
two waits must end because the holder of a lock never waits for a connection (its
hooks use `this.store`, the F1 invariant of `document.js`); the mutant in which a
hook opens a transaction of its own deadlocks. `MetaAlone` assumes that every await of the
store settles; that a walk over cyclic targets then ends is the visited set's doing, and
its mutant walks for ever. `Session` assumes that the engine answers a request and that
a timer fires; credentials, prompts and users are not fair, so a request settles
without any of them. `DeskViews` assumes that the requests of a view are answered or
fail; clicks, credentials and boots are not fair. `Install` assumes that a process that
was not killed goes on. No run with a liveness property uses symmetry.

## 4. The proofs

For every value of the constants:

| theorem | states |
|---|---|
| `LifecycleProofs!TypeCorrect` | `Spec => [](TypeOK /\ KindInv)` |
| `LifecycleProofs!RefusalCorrect` | `Spec => []RefusedLeavesNoTrace` |
| `LifecycleProofs!AckCorrect` | `Spec => []AckedIsRecorded` |
| `LifecycleProofs!EffectCorrect` | `Spec => EffectWithStatus` |
| `LifecycleProofs!NeverStuckCorrect` | `Spec => []NeverStuck` |
| `SerialProofs!SerialCorrect` | `Serial /\ Spec => [](TypeOK /\ SerialInv)` |
| `SerialProofs!LedgerCorrect` | `Serial /\ Spec => []LedgerMatchesStatus` |
| `SerialProofs!GrowsCorrect` | `Serial /\ Spec => DocstatusNeverGoesBack` |
| `SerialProofs!ImmutableCorrect` | `Serial /\ Spec => SubmittedImmutable` |
| `SerialProofs!Refinement` | `Serial /\ Spec => ImplementsDocMachine` |
| `SerialProofs!ChildrenCorrect` | `Serial /\ Spec => []ChildrenWholeWithoutFaults` |
| `RecordsProofs!TypeCorrect` | `Spec => []TypeOK` |
| `RecordsProofs!NamesCorrect` | `Spec => []FreshNames` |
| `RecordsProofs!PermitCorrect` | `Spec => WritesPermitted` |
| `RecordsProofs!ConstraintsCorrect` | `Spec => []ConstraintsHold` |
| `RecordsProofs!ListCorrect` | `Spec => []ListShowsFetchable` |
| `JobProofs!TypeCorrect` | `Spec => []TypeOK` |
| `JobProofs!MachineCorrect` | `~Overlap /\ Spec => ImplementsJobMachine` |
| `JobProofs!LogCorrect` | `~Overlap /\ Quiet /\ Spec => []LogTellsStatus` |
| `JobProofs!PaidCorrect` | `~Overlap /\ Quiet /\ Spec => []ScheduledIsPaid` |
| `MetaProofs!TypeCorrect` | `Spec => []TypeOK` |
| `MetaProofs!LoadsOnceCorrect` | `Spec => []LoadsOnce` |
| `MetaProofs!FollowsCorrect` | `Alone /\ Spec => []CacheFollowsSeen` |
| `MetaProofs!StalenessCorrect` | `Alone /\ Spec => []BoundedStaleness` |
| `MetaProofs!PrimedCorrect` | `Alone /\ Spec => []PrimedForPipeline` |
| `InstallProofs!TypeCorrect` | `Spec => []TypeOK` |
| `InstallProofs!PlanCorrect` | `Spec => []PlanIsClosure` |
| `InstallProofs!FullForEver` | `Serial => (Spec => NeverDowngraded)` |
| `InstallProofs!UpgradeCorrect` | `Serial => (Spec => UpgradeHasColumns)` |
| `InstallProofs!AnnounceCorrect` | `Serial => (Spec => FinishedIsAnnounced)` |
| `InstallProofs!ClosedCorrect` | `Serial => (Spec => FinishedIsClosed)` |
| `InstallProofs!ColumnsCorrect` | `Serial => (Spec /\ []Calm /\ [][tree' = tree]_vars => []ColumnsExist)` |
| `SessionProofs!TypeCorrect` | `Spec => []TypeOK` |
| `SessionProofs!ListenersCorrect` | `Spec => []ListenersAreWaiters` |
| `SessionProofs!GateCorrect` | `Spec => []GateIffSignedOut` |
| `SessionProofs!OfferCorrect` | `Spec => []SignInOffered` |
| `SessionProofs!RetryCorrect` | `Spec => RetryIsFresh` |
| `SessionProofs!GateOnlyCorrect` | `Spec /\ []AtMostOneWaits => GateOnlyWithoutCredential` |
| `DeskProofs!TypeCorrect` | `Spec => []TypeOK` |
| `DeskProofs!ButtonsCorrect` | `Spec => []NoDeadButton` |
| `DeskProofs!PatientCorrect` | `Spec => []PatientSeesRoute` |

The constants are constrained by the assumption each module declares
(`LifecycleAssumption`, `RecordsAssumption`, `JobAssumption`, `MetaAssumption`,
`InstallAssumption`, `SessionAssumption`, `DeskAssumption`), which TLC evaluates in the
runs. The hypotheses `Serial`, `~Overlap`, `Quiet` and `Alone` are about constants too:
each leaves out a deployment or a client in which the theorem is false, and says which
below. `[]Calm`, `[][tree' = tree]_vars` and `[]AtMostOneWaits` are about behaviours:
they leave out what no constant does.

Each of the four runs that refute a sentence of the documentation has a theorem that says
when the sentence is true: `GrowsCorrect` for `LifecycleStaleDraft`, `StalenessCorrect` for
`MetaStale`, `GateOnlyCorrect` for `SessionGate`, `ColumnsCorrect` for `InstallTorn`. So have
most of the other refuted configurations: `LedgerCorrect` for `LifecycleInstances`,
`ChildrenCorrect` for `LifecycleChildren`, `PrimedCorrect` for `MetaUnprimed`,
`ConstraintsCorrect` for `RecordsAbsent`, `PermitCorrect` for `RecordsLevels`,
`OfferCorrect` for `SessionNoGis`, `PatientCorrect` for `DeskStacked` and `DeskEdit`.

**Lifecycle, whatever overlaps.** That a refused request leaves no trace is not
inductive: what a request has written may be in the hands of another, which read a row
and writes it back later. `TraceInv` says that a request that has not written, or whose
transaction is still open, has no patch, child or effect in the database, *and* none in
the document or the children any other request is about to save. `EndInv` ties the
answer to the end of the request, `LateInv` says that the one 4xx after a committed write,
the late 404, is never a transition's, `RecordedInv` has the ledger entry of a transition
from its COMMIT on, and `MovedInv` the docstatus it holds in between, so that the step
that shows the effect is the step that moves the row.

`NeverStuck` is the safety part of `EveryRequestEnds`: `Before` names the requests one waits
for (the holder of the connection or the head of the queue, the transactions that hold the
row or the children it wants to write), and whoever waits, waits for a request that can take
its next step, or for one that waits for such a request. No cycle of connection, header and
child locks can therefore form, nor one be left behind by an error or a crash. Its invariant
`StuckInv` says that a connection taken is that of an open transaction (`PoolInv`), that the
queues hold the queued requests and no other (`QueuedInv`, `QueueInv`), that one transaction
at most has written a header (`LockInv`), and that a request that fills has a child left to
insert (`FillInv`). A lock holder in turn waits for nobody (`HolderRuns`): past the header,
what it writes only its own transaction can hold.

**Lifecycle, serial.** `Serial` says there is one instance, and so one connection, and
that no edit runs beside another request on its document. It is a hypothesis of the
theorems, not of the model: without its second half `LifecycleStaleDraft` refutes what
the theorems state, without its first two instances submit one draft twice
(`LifecycleInstances`).

`LedgerMatchesStatus` is not inductive: whether `Commit` of a submit keeps it depends
on the row still being a draft when the transaction writes, that is on what the
request read several statements before. `SerialInv` adds what carries that fact from
the read to the write:

- `KindInv`: which statements each kind of request passes through;
- `ConnInv`: a request inside a transaction holds its instance's connection, so with
  one instance there is one such request;
- `AloneInv`: an edit is alone on its document, so nobody else writes the row
  while a request is between its read and its write;
- `AbsentInv`: a row never written has no patch and no child;
- `KnowsInv`: what the request remembers of the row is what the row is, and what it
  is about to write is one legal change away.

Each action preserves each conjunct (one lemma per group of actions in `SerialProofs`).
With `SerialInv` before and after, every step is one `DocMachine` step (the header
UPDATE of an edit, `Commit` of a transition) or a stutter, the docstatus never goes
back, and the guard of `save` makes a submitted row immutable. `ChildrenCorrect` adds
`KidsInv`: an edit that has not reached `clear` finds its document whole; while it
fills, what it has inserted and what it still has to insert are the children it saves; a
transition deletes and inserts inside its transaction what it read. A failed call or a
dead instance breaks it in the middle, hence `faults = 0`.

**Records.** `FreshNames` is not inductive alone: that `next_series()` returns a number
no other create holds depends on every name in the table and in a request's hands
being at most its series' last number. `IInv` adds that (`NumberInv`), which steps hold
a name and a document (`PlaceInv`), that without overlap at most one request is under
way (`AloneInv`), and that what a request passed at `Load` (scope, owner, levels) is still
true of the row and the document it carries (`PermitInv`): the owner of a row never
changes, so the grant lasts whatever else overlaps, while scope and levels last only
as long as nobody else writes the row. Of the fields above the user's levels it says that
they are as they were or, after `fetch`, what the document's link gives. `CheckedInv` is
the same for `validate`: between the list of the unique check and the write, the document
has its required fields, and without overlap no other row has its unique values. What is
stored has NULL for the keys the document lacks, and a condition may tell the two apart
(`RecordsAbsent`), so `ConstraintsHold` speaks of fields whose conditions do not
(`Settled`). `ListShowsFetchable` needs no history:
it follows from the scope being spread over the client's filter, in every state.

**Job.** The transitions of one instance queue for its connection and may overlap there;
`~Overlap` keeps every other pair apart, and without it two instances move one Job twice
from one status. `KnowsInv` carries what a transition read to its write: the row, that
the rule it chose was in the table the instance had loaded (`DefInv`: never more rows
than the seed has inserted), that its gate was met. `OneInv` and `HoldsInv` say why that
stays true: who is past the queue holds the one connection. Given that, `Commit` is one
step of `JobMachine`, and so is an update. The audit trail is then an argument about the
abstract machine alone (`MovePath`, `MoveTells`): `PathInv` remembers, for every status
from Measure on, the last entry into Measure and the actions taken since, each with the
payments that were in the row when it was taken (`Entry`'s `paid`); it speaks of
processes with the hooks, as `ScheduledIsPaid` does, while `MachineCorrect` and `LogCorrect`
hold in both. `Quiet` says
that no patch carries a status; one that does moves a Job without an audit row.

**Meta cache.** `ProgressInv` and `PlanInv` hold for any number of requests: the plan loads
only what the request has visited and not loaded yet, and each once, whatever another
request puts into or empties from the shared cache and whatever migrations do to the
targets; so `ensure()` loads each definition once over any graph. The other three need
`Alone`, one request in flight: with two, one empties the cache the other has just
primed, and `MetaStale` shows a definition read before an invalidation and registered
after it. `SeenInv` bounds the version the registry says it has by the tick it was
checked at, `CacheFollowsSeen` bounds every registered or half-read definition by that
version; together they give `BoundedStaleness`, since a poll is never skipped for longer
than TTL (`DueFacts`, and `PublishedKept`: what was published at a tick does not change
later). `PrimeInv` is the invariant of the priming, for requests that are not in `moved`:
whatever has been visited is cached with its targets visited or planned, or is planned to
be loaded with the targets that the rows name, or is being asked for; and what is half
loaded has the fields of those rows. A definition committed in between breaks the last
two (`MetaUnprimed`).

**Install.** `PlanCorrect` is the correctness of a graph search: `Search` says that what has
been seen is reachable and that whoever left the queue has all its targets seen, so an empty
queue means the least closed set. It holds whatever operators overlap. For the rest
`Serial`, a constant there, says that operators wait for each other; without it two of them
can make a full doctype a stub again. `IInv` says that one process works at a time
(`AloneInv`), that what `Look` read of the meta row is still so when the branch it chose
writes (`KnowsInv`), that after the DDL the table has the columns of the def wherever the
branch is an upgrade (`ColumnsInv`), and that while a change of a dead process is still
silent the running one has a full def to do, which is never skipped and ends with a
bump (`SilentInv`). `AppliesInv` leads from the plan to the end: each doctype of the plan
is still to come in full or is full, and what its fields name is in the plan,
registered, or still to come as a stub (`StubsCover`: `generate` makes a stub for every
target outside the plan).

`ColumnsExist` needs more than `Serial`. `CalmInv` says that every def is the full one
or the stub of the sources as they are (`SourcedInv`), that a full doctype has the
sources' fields and their columns and a table without a meta row is one a process has
just created (`TableInv`), and that the DDL of a def has made its columns
(`AlteredInv`). Each hypothesis is needed, and TLC refutes the theorem without it: a
process that dies between table and meta row leaves a table that `CREATE TABLE` does not
extend (`InstallTorn`); so does a second operator who looks before the first has written
the meta row; so does an emitted file, whose push creates a table without one; and a
full doctype installed again from changed sources gets their fields, while its table is
left as it is.

**Session.** `GateInv` says what the page is without a token: the gate of `start()`,
nothing behind it, and no listener but that of `main.js`; and that with one the gate is
not still waiting for the GIS script. `SentInv` bounds the tokens that requests have
sent by the session's. `ListenersAreWaiters` is its own strengthening, once the list is
known to have no duplicates and the listener of `main.js` in front: that is what makes
the splice take out the right element, and `Fired` skip the right ones (`DropListener`,
`FireListeners`). `SignInOffered` is part of the invariant: a wait that ends without a
credential shows the button in the same step, and only a credential, after which the
token is another one, or a new page takes it away. `GateOnlyCorrect` has `AskedInv`: a
waiting request still waits for the first credential since it began, because a
credential calls the only one-shot listener of a list (`OnlyOneFires`); with two, `Fired`
passes one over and its timeout puts up the gate.

**Desk views.** `NoDeadButton` holds because a button is busy only in the form that was
clicked, and whatever ends its request enables that button (`ClickFailed`) or clears the
mount (`ActionOk`); `BusyInv` adds that the request is a transition's. `ItemInv` says what
an item of the mount can be, `LoadingInv` that a "Loading" has its call in flight,
`MetaInv` that the meta is cached once a form or a click exists and that no empty form
waits for it then, `ClicksInv` that a click on a document's button names a document.
`PatientInv` is what a user who waits has under way and on the screen: every call is of the
address, every item is of the address or the message of a failed boot, all clicks are one
and belong to the address. A blank mount means that the last call is in flight, was
rejected, or found no row (`BlankOK`). And unless a boot ended meanwhile there is one
thing under way, a view or a click, over at most one item, and over none when a form is
still to be appended (`OneThing`); a boot beside a call that waits is what stacks two.

**Only model-checked.** Liveness (`EveryRequestEnds`, `EveryRequestSettles`, `PrimeEnds`,
`LoadingEnds`, `EveryRunEnds`): TLAPS proves no formula with ENABLED. `FiredIsIteration`
compares a closed form with a recursion, and what a recursion computes for every input
needs an induction the provers cannot instantiate: it is an assumption TLC evaluates on
lists of up to six, not a theorem. What the hypotheses above leave out is false and
stays with the runs that refute it.

## 5. Not modelled, and the plan

Not modelled: which columns of a row an answer shows (`maskRead`; the 404 it may end in is
modelled) and the desk bridge's projections, which change nothing; identity, a function of the token and the user's row; rendering and the widgets
of a form; the text of DDL, messages and names; Select options and number formats of a
field; list order and paging; a clock that steps back. Hooks are represented by one side
effect per transition, since the repository registers none; what they may do is
taken from the F1 comment of `document.js`. The read-increment-write fallback of
`nextSeries()` is left out because neither production store reaches it.

Next, in this order:

1. The prime order of `loader.js` over graphs of three doctypes, for the Table target
   that is visited and not yet loaded. What `MetaProofs` proves of any graph holds there
   too; the question is what a Table parent's definition still lacks when it is read.
2. Jobs created with an empty status, and patches that carry one.
