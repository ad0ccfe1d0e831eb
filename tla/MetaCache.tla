----------------------------- MODULE MetaCache ------------------------------
(***************************************************************************)
(* The meta cache of one warm lambda: MetaRegistry                         *)
(* (src/src/meta/registry.js), ensure() and ensureFresh() of               *)
(* src/src/meta/loader.js that fill and expire it at the start of every    *)
(* request, migrate() of src/src/meta/installer.js that changes the        *)
(* definitions behind it, and the places of the request pipeline that read *)
(* it afterwards.  Lambdas share only the database and none writes a       *)
(* definition, so one lambda stands for all.                               *)
(*                                                                         *)
(* A definition is abstracted to its revision: the number of migrations    *)
(* that changed it, 0 when tabDocType has no row (and for the definition   *)
(* the program itself holds).  A cached Meta is the oldest revision its    *)
(* three reads (row, fields, permissions) saw, and the one of its fields,  *)
(* which say what it refers to.                                            *)
(* The version is the number of bumps, 0 for no row: migrate() takes it    *)
(* from the clock, and two bumps of one operator are several round trips   *)
(* apart, so they differ.                                                  *)
(***************************************************************************)
EXTENDS Integers, SequencesExt, FiniteSetsExt

CONSTANTS
    Docs,         \* the doctypes that are not pinned
    Tables,       \* Table targets of each revision of each, in field order
    Links,        \* Link targets of each revision of each, in field order
    InCode,       \* those registerDoctype() puts in the cache at cold start
    Reqs,         \* the requests one instance can have in flight
    None,         \* not cached
    TTL,          \* META_VERSION_TTL_MS, in clock ticks
    MaxClock, MaxRev, MaxVersion, MaxFaults

ASSUME MetaAssumption ==
    /\ Tables \in [Docs -> [0..MaxRev -> Seq(Docs)]]
    /\ Links \in [Docs -> [0..MaxRev -> Seq(Docs)]]
    /\ Docs # {} /\ InCode \subseteq Docs
    /\ None \notin [rev : Nat, fields : Nat]
    /\ TTL \in Nat \ {0}
    /\ {MaxClock, MaxVersion, MaxFaults} \subseteq Nat /\ MaxRev \in Nat \ {0}

VARIABLES
    rows,       \* tabDocType with its DocField and DocPerm rows: the revision
    bumps,      \* what each bump of meta_version published, oldest first
    op,         \* the operator's migrate(): "idle", or "synced" and not bumped
    past,       \* the version at the end of each tick so far
    cache,      \* MetaRegistry's cache
    seen,       \* its version
    checkedAt,  \* its versionCheckedAt
    req,        \* per request: its doctype, and the locals of ensureFresh
    pc,
    plan,       \* the calls _primeDoctype and _primeLinkTarget still have to make
    visited,
    got,        \* the load() in progress: reads done, oldest revision read, fields'
    faults,
    moved,      \* history: requests during which a definition was committed
    loaded      \* history: what each request has registered

database == <<rows, bumps, op, past>>
registry == <<cache, seen, checkedAt>>
locals == <<req, plan, visited, got, loaded>>
vars == <<rows, bumps, op, past, cache, seen, checkedAt, req, pc, plan, visited, got,
          faults, moved, loaded>>

Clock == Len(past)
Version == Len(bumps)
Never == -1
Call == [doc : Docs, load : BOOLEAN]
Meta == [rev : 0..MaxRev, fields : 0..MaxRev]
Priming == {"prime", "raw", "register"}
Pipeline == {"gate", "links", "project"}
PC == {"idle", "poll", "polled"} \cup Priming \cup Pipeline

TypeOK ==
    /\ rows \in [Docs -> 0..MaxRev]
    /\ bumps \in Seq([Docs -> 0..MaxRev])
    /\ op \in {"idle", "synced"}
    /\ past \in Seq(0..Version)
    /\ cache \in [Docs -> {None} \cup Meta]
    /\ \A d \in Docs \ InCode : cache[d] = None \/ cache[d].rev # 0
    /\ seen \in 0..Version
    /\ checkedAt \in Never..Clock
    /\ req \in [Reqs -> [doc : Docs, now : 0..Clock, version : 0..Version,
                         fetched : 0..Version]]
    /\ pc \in [Reqs -> PC]
    /\ plan \in [Reqs -> Seq(Call)]
    /\ visited \in [Reqs -> SUBSET Docs]
    /\ got \in [Reqs -> [reads : 0..3, rev : 0..MaxRev, fields : 0..MaxRev]]
    /\ faults \in 0..MaxFaults
    /\ moved \in SUBSET Reqs
    /\ loaded \in [Reqs -> SUBSET Docs]

-----------------------------------------------------------------------------
Cached(d) == cache[d] # None

Visits(targets) == [i \in DOMAIN targets |-> [doc |-> targets[i], load |-> FALSE]]

\* The cache of a cold start: what bootstrap.js registers.
ColdCache == [d \in Docs |-> IF d \in InCode THEN [rev |-> 0, fields |-> 0] ELSE None]

NoRead == [reads |-> 0, rev |-> 0, fields |-> 0]

Blank == [doc |-> CHOOSE d \in Docs : TRUE, now |-> 0, version |-> 0, fetched |-> 0]

\* Some doctypes are installed; the version row exists or not.
Init ==
    /\ rows \in [Docs -> 0..1]
    /\ bumps \in {<<>>, <<rows>>}
    /\ op = "idle"
    /\ past = <<>>
    /\ cache = ColdCache
    /\ seen = 0
    /\ checkedAt = Never
    /\ req = [r \in Reqs |-> Blank]
    /\ pc = [r \in Reqs |-> "idle"]
    /\ plan = [r \in Reqs |-> <<>>]
    /\ visited = [r \in Reqs |-> {}]
    /\ got = [r \in Reqs |-> NoRead]
    /\ faults = 0
    /\ moved = {}
    /\ loaded = [r \in Reqs |-> {}]

Goto(r, label) == pc' = [pc EXCEPT ![r] = label]

\* The request is answered (handle() never throws) and nothing is left of it.
End(r) ==
    /\ Goto(r, "idle")
    /\ req' = [req EXCEPT ![r] = Blank]
    /\ plan' = [plan EXCEPT ![r] = <<>>]
    /\ visited' = [visited EXCEPT ![r] = {}]
    /\ got' = [got EXCEPT ![r] = NoRead]
    /\ moved' = moved \ {r}
    /\ loaded' = [loaded EXCEPT ![r] = {}]

-----------------------------------------------------------------------------
(* ensureFresh *)

\* Mutant: the window is closed on both ends.
WithinTtlInclusive(now) == checkedAt # Never /\ now - checkedAt <= TTL

\* The version was read less than TTL ago.
WithinTtl(now) == checkedAt # Never /\ now - checkedAt < TTL

\* ensure(): within the window it primes at once, else it asks for the version,
\* remembering the time and the version it knew.
Start(r, d) ==
    /\ pc[r] = "idle"
    /\ req' = [req EXCEPT ![r] = [doc |-> d, now |-> Clock, version |-> seen,
                                  fetched |-> 0]]
    /\ plan' = [plan EXCEPT ![r] = Visits(<<d>>)]
    /\ Goto(r, IF WithinTtl(Clock) THEN "prime" ELSE "poll")
    /\ UNCHANGED <<database, registry, visited, got, faults, moved, loaded>>

\* The database reads meta_version.
Poll(r) ==
    /\ pc[r] = "poll"
    /\ req' = [req EXCEPT ![r].fetched = Version]
    /\ Goto(r, "polled")
    /\ UNCHANGED <<database, registry, plan, visited, got, faults, moved, loaded>>

\* Mutant: the new version is recorded, the old metas stay.
ApplyWithoutInvalidate(r) ==
    /\ pc[r] = "polled"
    /\ seen' = req[r].fetched
    /\ checkedAt' = req[r].now
    /\ req' = [req EXCEPT ![r].version = 0, ![r].fetched = 0]
    /\ Goto(r, "prime")
    /\ UNCHANGED <<database, cache, plan, visited, got, faults, moved, loaded>>

\* setVersionState, and invalidate() if the version is not the one remembered.
ApplyVersion(r) ==
    /\ pc[r] = "polled"
    /\ seen' = req[r].fetched
    /\ checkedAt' = req[r].now
    /\ cache' = IF req[r].fetched = req[r].version THEN cache
                ELSE [d \in Docs |-> None]
    /\ req' = [req EXCEPT ![r].version = 0, ![r].fetched = 0]
    /\ Goto(r, "prime")
    /\ UNCHANGED <<database, plan, visited, got, faults, moved, loaded>>

-----------------------------------------------------------------------------
(* Priming.  The recursion is a plan: the calls still to make, first one first. *)

\* Mutant: a cached doctype's fields are not walked.
WalkNothing(d) == <<>>

\* What a visit of a cached doctype calls: its fields are walked.
Walk(d) == Visits(Tables[d][cache[d].fields] \o Links[d][cache[d].fields])

\* The targets in the rows of tabDocField now.
Stored(targets, d) == IF rows[d] = 0 THEN <<>> ELSE targets[d][rows[d]]

\* What the raw read of the fields of d plans: its Table targets, its load, its Link
\* targets.
Fetched(d) ==
    Visits(Stored(Tables, d)) \o <<[doc |-> d, load |-> TRUE]>>
        \o Visits(Stored(Links, d))

\* A visit that plans no read: the rest of the plan follows the calls.
Continue(r, calls) ==
    LET rest == calls \o Tail(plan[r]) IN
    /\ plan' = [plan EXCEPT ![r] = rest]
    /\ Goto(r, IF rest = <<>> THEN "gate" ELSE "prime")

\* Mutant: no visited set.
VisitAgain(r) ==
    LET d == Head(plan[r]).doc IN
    /\ pc[r] = "prime"
    /\ plan[r] # <<>> /\ ~Head(plan[r]).load
    /\ visited' = [visited EXCEPT ![r] = @ \cup {d}]
    /\ \/ Cached(d) /\ Continue(r, Walk(d))
       \/ ~Cached(d) /\ Goto(r, "raw") /\ UNCHANGED plan
    /\ UNCHANGED <<database, registry, req, got, faults, moved, loaded>>

\* One call of _primeDoctype, _primeLinkTarget or _walkFields: nothing for what has
\* been visited, the fields for what is cached, else tabDocField is asked.
Visit(r) ==
    LET d == Head(plan[r]).doc IN
    /\ pc[r] = "prime"
    /\ plan[r] # <<>> /\ ~Head(plan[r]).load
    /\ visited' = [visited EXCEPT ![r] = @ \cup {d}]
    /\ \/ d \in visited[r] /\ Continue(r, <<>>)
       \/ d \notin visited[r] /\ Cached(d) /\ Continue(r, Walk(d))
       \/ d \notin visited[r] /\ ~Cached(d) /\ Goto(r, "raw") /\ UNCHANGED plan
    /\ UNCHANGED <<database, registry, req, got, faults, moved, loaded>>

\* The database reads the fields of a doctype that is not cached.
RawRead(r) ==
    /\ pc[r] = "raw"
    /\ plan' = [plan EXCEPT ![r] = Fetched(Head(@).doc) \o Tail(@)]
    /\ Goto(r, "prime")
    /\ UNCHANGED <<database, registry, req, visited, got, faults, moved, loaded>>

\* One more read has seen revision rev; the second one is of the fields.
Add(g, rev) ==
    [reads |-> g.reads + 1, rev |-> IF g.reads = 0 THEN rev ELSE Min({g.rev, rev}),
     fields |-> IF g.reads = 1 THEN rev ELSE g.fields]

\* load() of the first call of the plan is in progress.
Loading(r) == pc[r] = "prime" /\ plan[r] # <<>> /\ Head(plan[r]).load

\* Mutant: load() does not notice that the doctype has no row.
ReadUnknown(r) ==
    /\ Loading(r)
    /\ got' = [got EXCEPT ![r] = Add(@, rows[Head(plan[r]).doc])]
    /\ Goto(r, IF got[r].reads = 2 THEN "register" ELSE "prime")
    /\ UNCHANGED <<database, registry, req, plan, visited, faults, moved, loaded>>

\* load() reads the row (NotFoundError without one), the fields, the permissions:
\* three statements, each of which sees what is committed when it runs.
Read(r) ==
    LET rev == rows[Head(plan[r]).doc] IN
    /\ Loading(r)
    /\ \/ /\ got[r].reads = 0 /\ rev = 0
          /\ End(r)
       \/ /\ got[r].reads > 0 \/ rev > 0
          /\ got' = [got EXCEPT ![r] = Add(@, rev)]
          /\ Goto(r, IF got[r].reads = 2 THEN "register" ELSE "prime")
          /\ UNCHANGED <<req, plan, visited, moved, loaded>>
    /\ UNCHANGED <<database, registry, faults>>

\* The last read is answered: a Table target, in the fields read, that is not in the
\* cache throws; else setMeta().
Register(r) ==
    LET d == Head(plan[r]).doc
        tables == ToSet(Tables[d][got[r].fields])
    IN
    /\ pc[r] = "register"
    /\ \/ /\ \E t \in tables : ~Cached(t)
          /\ End(r)
          /\ UNCHANGED cache
       \/ /\ \A t \in tables : Cached(t)
          /\ cache' = [cache EXCEPT ![d] = [rev |-> got[r].rev, fields |-> got[r].fields]]
          /\ Continue(r, <<>>)
          /\ got' = [got EXCEPT ![r] = NoRead]
          /\ loaded' = [loaded EXCEPT ![r] = @ \cup {d}]
          /\ UNCHANGED <<req, visited, moved>>
    /\ UNCHANGED <<database, seen, checkedAt, faults>>

-----------------------------------------------------------------------------
(* The pipeline's reads of the cache *)

\* assertCan: getMeta() throws NotFoundError on a miss.
Gate(r) ==
    /\ pc[r] = "gate"
    /\ \/ /\ ~Cached(req[r].doc)
          /\ End(r)
       \/ /\ Cached(req[r].doc)
          /\ Goto(r, "links")
          /\ UNCHANGED <<locals, moved>>
    /\ UNCHANGED <<database, registry, faults>>

\* After the store was read: fetchFrom and validateLinks look the Link targets up
\* and skip those they do not find, then the document is written.
LinksAndWrite(r) ==
    /\ pc[r] = "links"
    /\ Goto(r, "project")
    /\ UNCHANGED <<database, registry, locals, faults, moved>>

\* After the write: maskRead() calls getMeta() again, and the answer is 200, or 404
\* for a document that has been written.
Project(r) ==
    /\ pc[r] = "project"
    /\ End(r)
    /\ UNCHANGED <<database, registry, faults>>

-----------------------------------------------------------------------------
(* The operator, time and faults *)

\* migrate(): the definition's row, fields and permissions in one transaction ...
Sync(d) ==
    /\ op = "idle"
    /\ rows[d] < MaxRev /\ Version < MaxVersion
    /\ rows' = [rows EXCEPT ![d] = @ + 1]
    /\ op' = "synced"
    /\ moved' = {r \in Reqs : pc[r] # "idle"}
    /\ UNCHANGED <<bumps, past, registry, locals, pc, faults>>

\* ... and then bumpMetaVersion().
Bump ==
    /\ op = "synced"
    /\ bumps' = Append(bumps, rows)
    /\ op' = "idle"
    /\ UNCHANGED <<rows, past, registry, locals, pc, faults, moved>>

\* migrate() dies between the two: the new definition is not announced.
OperatorDies ==
    /\ op = "synced"
    /\ faults < MaxFaults
    /\ faults' = faults + 1
    /\ op' = "idle"
    /\ UNCHANGED <<rows, bumps, past, registry, locals, pc, moved>>

Tick ==
    /\ Clock < MaxClock
    /\ past' = Append(past, Version)
    /\ UNCHANGED <<rows, bumps, op, registry, locals, pc, faults, moved>>

\* A read of the store throws: the request is answered 500, what it has already put
\* in the cache stays.
StoreError(r) ==
    /\ pc[r] \in {"poll", "raw", "links"} \/ Loading(r)
    /\ faults < MaxFaults
    /\ faults' = faults + 1
    /\ End(r)
    /\ UNCHANGED <<database, registry>>

\* The instance is recycled, its module state with it.
Restart ==
    /\ faults < MaxFaults
    /\ faults' = faults + 1
    /\ cache' = ColdCache
    /\ seen' = 0
    /\ checkedAt' = Never
    /\ req' = [r \in Reqs |-> Blank]
    /\ pc' = [r \in Reqs |-> "idle"]
    /\ plan' = [r \in Reqs |-> <<>>]
    /\ visited' = [r \in Reqs |-> {}]
    /\ got' = [r \in Reqs |-> NoRead]
    /\ moved' = {}
    /\ loaded' = [r \in Reqs |-> {}]
    /\ UNCHANGED database

-----------------------------------------------------------------------------
\* A request goes on.
Advance(r) ==
    \/ Poll(r) \/ ApplyVersion(r) \/ Visit(r) \/ RawRead(r) \/ Read(r) \/ Register(r)
    \/ Gate(r) \/ LinksAndWrite(r) \/ Project(r)

Next ==
    \/ \E r \in Reqs : (\E d \in Docs : Start(r, d)) \/ Advance(r) \/ StoreError(r)
    \/ \E d \in Docs : Sync(d)
    \/ Bump \/ OperatorDies \/ Tick \/ Restart

Spec == Init /\ [][Next]_vars

\* Every await of the store is settled, and the event loop runs what is ready.
FairSpec == Spec /\ \A r \in Reqs : WF_vars(Advance(r))

-----------------------------------------------------------------------------
(* Properties *)

\* The revisions published by version v.
Published(v) == IF v = 0 THEN [d \in Docs |-> 0] ELSE bumps[v]

\* The version of TTL ticks before the request arrived.
Due(r) == IF req[r].now < TTL THEN 0 ELSE past[req[r].now - TTL + 1]

\* The definition a request is served with is not older than what had been published
\* TTL before it arrived: "a synced change propagates within META_VERSION_TTL_MS"
\* (docs/adr-meta-as-data.md).
BoundedStaleness ==
    \A r \in Reqs : pc[r] = "gate" /\ Cached(req[r].doc) =>
        cache[req[r].doc].rev >= Published(Due(r))[req[r].doc]

\* What the cached Meta of d refers to.
Targets(d) ==
    ToSet(Tables[d][cache[d].fields]) \cup ToSet(Links[d][cache[d].fields])

\* d, and whatever the cached metas refer to from there on, is cached.
ClosureCached(d) ==
    \E S \in SUBSET Docs :
        /\ d \in S
        /\ \A e \in S : Cached(e) /\ Targets(e) \subseteq S

\* From the end of ensure() to the answer everything the pipeline can look up is in
\* the cache (loader.js, ensure: "prime the MetaRegistry with `doctype` and every
\* Link/Table target it references, transitively"): no 404 for a document just
\* written, no link left unchecked.
AlwaysPrimed == \A r \in Reqs : pc[r] \in Pipeline => ClosureCached(req[r].doc)

\* That is so if no definition was committed while the request was under way,
\* whatever earlier requests and migrations left in the cache.
PrimedForPipeline ==
    \A r \in Reqs \ moved : pc[r] \in Pipeline => ClosureCached(req[r].doc)

\* What maskRead() looks up after the write is there: getMeta's "a miss is a
\* programming error" (registry.js:70-71).
NoLateMiss == \A r \in Reqs : pc[r] = "project" => Cached(req[r].doc)

\* Why staleness is bounded: whatever is cached, or half read, is no older than the
\* version the registry says it is at (ensureFresh: recorded and invalidated in one
\* continuation).
CacheFollowsSeen ==
    /\ \A d \in Docs : Cached(d) => cache[d].rev >= Published(seen)[d]
    /\ \A r \in Reqs : got[r].reads > 0 =>
          got[r].rev >= Published(seen)[Head(plan[r]).doc]

\* Whatever other requests put in the cache or evict meanwhile, a request loads no
\* doctype a second time, nor plans to (loader.js: "Visited-set guards self/mutual
\* reference").
LoadsOnce ==
    \A r \in Reqs : \A i \in DOMAIN plan[r] : plan[r][i].load =>
        /\ plan[r][i].doc \notin loaded[r]
        /\ \A j \in DOMAIN plan[r] \ {i} : plan[r][j].load =>
              plan[r][j].doc # plan[r][i].doc

\* ensure() ends, over cyclic Links too (loader.js: "so cyclic Links (A->B->A)
\* terminate").
PrimeEnds == \A r \in Reqs : pc[r] \in Priming ~> pc[r] \notin Priming

=============================================================================
