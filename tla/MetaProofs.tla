----------------------------- MODULE MetaProofs ------------------------------
(* Theorems about MetaCache, for any graph of Links and Tables at every       *)
(* revision, any TTL and any number of migrations, faults and restarts.  For  *)
(* any number of requests in flight: types, and that ensure() loads nothing   *)
(* twice.  For one request at a time on the instance (Alone): what it is      *)
(* served with is not staler than TTL, and everything its pipeline looks up   *)
(* is in the cache if nothing was migrated meanwhile.  With two at a time     *)
(* neither holds: one empties the cache the other has primed.                 *)
EXTENDS MetaCache, SequenceTheorems, TLAPS

\* No two calls of s load the same doctype.
OneLoad(s) ==
    \A i, j \in DOMAIN s : s[i].load /\ s[j].load /\ i # j => s[i].doc # s[j].doc

\* A request that loads knows what it loads, has read revisions that exist, and loads
\* nothing before it primes or after.
Progress(r) ==
    /\ pc[r] \in {"idle", "poll", "polled"} => visited[r] = {}
    /\ pc[r] = "idle" => plan[r] = <<>>
    /\ pc[r] \in {"poll", "polled"} => plan[r] = Visits(<<req[r].doc>>)
    /\ pc[r] \in Priming => plan[r] # <<>>
    /\ pc[r] \in Pipeline => plan[r] = <<>>
    /\ pc[r] \notin {"prime", "register"} => got[r].reads = 0
    /\ pc[r] = "prime" => got[r].reads < 3
    /\ pc[r] = "register" => got[r].reads = 3
    /\ got[r].reads > 0 => /\ Head(plan[r]).load
                           /\ got[r].rev \in 1..rows[Head(plan[r]).doc]

ProgressInv == \A r \in Reqs : Progress(r)

\* The plan loads what has been visited and not been loaded, and each once; the fields
\* asked for are of a doctype that has been visited and is not to be loaded yet.
Planned(r) ==
    /\ loaded[r] \subseteq visited[r]
    /\ \A i \in DOMAIN plan[r] : plan[r][i].load => plan[r][i].doc \in visited[r] \ loaded[r]
    /\ OneLoad(plan[r])
    /\ pc[r] = "raw" =>
          /\ ~Head(plan[r]).load /\ Head(plan[r]).doc \in visited[r] \ loaded[r]
          /\ \A i \in DOMAIN plan[r] :
                plan[r][i].load => plan[r][i].doc # Head(plan[r]).doc

PlanInv == \A r \in Reqs : Planned(r)

\* Revisions and versions only grow.
BumpsInv ==
    \A v \in DOMAIN bumps : \A d \in Docs :
        /\ bumps[v][d] <= rows[d]
        /\ \A w \in v..Version : bumps[v][d] <= bumps[w][d]

PastInv == \A i \in DOMAIN past : \A j \in i..Clock : past[i] <= past[j]

\* The version at the end of the tick before tick t.
PastAt(t) == IF t = 0 THEN 0 ELSE past[t]

\* One request at a time on the instance.
Alone == \A q, r \in Reqs : q = r

\* The registry's version is not older than the tick it was checked at, and a request
\* it lets through is not due a later one.
Fresh(r) ==
    /\ pc[r] \in {"poll", "polled"} => req[r].version = seen
    /\ pc[r] = "polled" => req[r].fetched >= PastAt(req[r].now)
    /\ pc[r] \in Priming \cup {"gate"} => seen >= Due(r)

SeenInv ==
    /\ checkedAt # Never => seen >= PastAt(checkedAt)
    /\ \A r \in Reqs : Fresh(r)

\* What the rows of tabDocField refer to now.
StoredTargets(d) == ToSet(Stored(Tables, d)) \cup ToSet(Stored(Links, d))

WillVisit(r, d) == d \in visited[r] \/ [doc |-> d, load |-> FALSE] \in ToSet(plan[r])

\* Whatever a request has visited is cached, with its targets visited or planned, or is
\* planned to be loaded, with those its rows name, or is being asked for; what is half
\* loaded has the fields of those rows.
Primed(r) ==
    /\ WillVisit(r, req[r].doc)
    /\ \A d \in visited[r] :
          \/ Cached(d) /\ \A t \in Targets(d) : WillVisit(r, t)
          \/ [doc |-> d, load |-> TRUE] \in ToSet(plan[r])
          \/ pc[r] = "raw" /\ d = Head(plan[r]).doc
    /\ \A d \in Docs : [doc |-> d, load |-> TRUE] \in ToSet(plan[r]) =>
          \A t \in StoredTargets(d) : WillVisit(r, t)
    /\ got[r].reads > 1 => got[r].fields = rows[Head(plan[r]).doc]

PrimeInv == \A r \in Reqs \ moved : pc[r] # "idle" => Primed(r)

-----------------------------------------------------------------------------
(* Sequences of calls *)

\* Every call of s is a visit or the load of d, and d is loaded once at most.
LoadsOnly(s, d) ==
    /\ \A i \in DOMAIN s : s[i].load => s[i].doc = d
    /\ \A i, j \in DOMAIN s : s[i].load /\ s[j].load => i = j

LEMMA VisitsFacts ==
    ASSUME NEW ts \in Seq(Docs)
    PROVE  /\ Visits(ts) \in Seq(Call) /\ Len(Visits(ts)) = Len(ts)
           /\ \A i \in DOMAIN Visits(ts) : ~Visits(ts)[i].load
           /\ \A t \in ToSet(ts) : [doc |-> t, load |-> FALSE] \in ToSet(Visits(ts))
<1>1. DOMAIN ts = 1..Len(ts) /\ Len(ts) \in Nat /\ \A i \in 1..Len(ts) : ts[i] \in Docs
  OBVIOUS
<1>2. Visits(ts) = [i \in 1..Len(ts) |-> [doc |-> ts[i], load |-> FALSE]]
  BY <1>1 DEF Visits
<1>3. Visits(ts) \in Seq(Call) /\ Len(Visits(ts)) = Len(ts)
  BY <1>1, <1>2 DEF Call
<1>4. ASSUME NEW t \in ToSet(ts) PROVE [doc |-> t, load |-> FALSE] \in ToSet(Visits(ts))
  <2>1. PICK i \in 1..Len(ts) : ts[i] = t
    BY <1>1 DEF ToSet
  <2>2. i \in DOMAIN Visits(ts) /\ Visits(ts)[i] = [doc |-> t, load |-> FALSE]
    BY <1>2, <2>1
  <2> QED
    BY <2>2 DEF ToSet
<1> QED
  BY <1>1, <1>2, <1>3, <1>4

LEMMA ConcatFacts ==
    ASSUME NEW S, NEW s \in Seq(S), NEW t \in Seq(S)
    PROVE  /\ s \o t \in Seq(S)
           /\ ToSet(s \o t) = ToSet(s) \cup ToSet(t)
           /\ \A i \in DOMAIN (s \o t) :
                 \/ i \in DOMAIN s /\ (s \o t)[i] = s[i]
                 \/ i - Len(s) \in DOMAIN t /\ (s \o t)[i] = t[i - Len(s)]
<1>1. /\ DOMAIN s = 1..Len(s) /\ DOMAIN t = 1..Len(t) /\ Len(s) \in Nat /\ Len(t) \in Nat
      /\ s \o t \in Seq(S) /\ DOMAIN (s \o t) = 1..(Len(s) + Len(t))
  BY ConcatProperties, LenProperties
<1> DEFINE c == s \o t
<1>2. \A i \in 1..(Len(s) + Len(t)) : c[i] = IF i <= Len(s) THEN s[i] ELSE t[i - Len(s)]
  BY ConcatProperties
<1>3. DOMAIN c = 1..(Len(s) + Len(t))
  BY <1>1
<1> HIDE DEF c
<1>4. \A i \in DOMAIN c : \/ i \in DOMAIN s /\ c[i] = s[i]
                          \/ i - Len(s) \in DOMAIN t /\ c[i] = t[i - Len(s)]
  BY <1>1, <1>2, <1>3
<1>5. \A i \in DOMAIN s : i \in DOMAIN c /\ c[i] = s[i]
  BY <1>1, <1>2, <1>3
<1>6. \A i \in DOMAIN t : i + Len(s) \in DOMAIN c /\ c[i + Len(s)] = t[i]
  BY <1>1, <1>2, <1>3
<1>7. ToSet(c) = ToSet(s) \cup ToSet(t)
  <2>1. ASSUME NEW x \in ToSet(c) PROVE x \in ToSet(s) \cup ToSet(t)
    BY <1>4 DEF ToSet
  <2>2. ASSUME NEW x \in ToSet(s) PROVE x \in ToSet(c)
    BY <1>5 DEF ToSet
  <2>3. ASSUME NEW x \in ToSet(t) PROVE x \in ToSet(c)
    <3>1. PICK i \in DOMAIN t : t[i] = x
      BY DEF ToSet
    <3>2. i + Len(s) \in DOMAIN c /\ c[i + Len(s)] = x
      BY <1>6, <3>1
    <3> QED
      BY <3>2 DEF ToSet
  <2> QED
    BY <2>1, <2>2, <2>3
<1> QED
  BY <1>1, <1>4, <1>7 DEF c

LEMMA SingleFacts ==
    ASSUME NEW c \in Call
    PROVE  <<c>> \in Seq(Call) /\ DOMAIN <<c>> = {1} /\ <<c>>[1] = c /\ ToSet(<<c>>) = {c}
<1>1. <<c>> \in Seq(Call) /\ DOMAIN <<c>> = {1} /\ <<c>>[1] = c
  OBVIOUS
<1> QED
  BY <1>1 DEF ToSet

LEMMA TailFacts ==
    ASSUME NEW s \in Seq(Call), s # <<>>
    PROVE  /\ Head(s) \in Call /\ Head(s) = s[1] /\ 1 \in DOMAIN s /\ Tail(s) \in Seq(Call)
           /\ \A i \in DOMAIN Tail(s) : i + 1 \in DOMAIN s /\ Tail(s)[i] = s[i + 1]
           /\ \A c \in ToSet(s) : c = Head(s) \/ c \in ToSet(Tail(s))
           /\ OneLoad(s) => OneLoad(Tail(s))
<1>1. /\ Head(s) \in Call /\ Tail(s) \in Seq(Call) /\ Len(Tail(s)) = Len(s) - 1
      /\ \A i \in 1..Len(Tail(s)) : Tail(s)[i] = s[i + 1]
      /\ DOMAIN s = 1..Len(s) /\ DOMAIN Tail(s) = 1..Len(Tail(s))
      /\ Len(s) \in Nat /\ Len(s) # 0 /\ Head(s) = s[1]
  BY HeadTailProperties, LenProperties, EmptySeq
<1>2. \A i \in DOMAIN Tail(s) : i + 1 \in DOMAIN s /\ Tail(s)[i] = s[i + 1]
  BY <1>1
<1>3. ASSUME NEW c \in ToSet(s) PROVE c = Head(s) \/ c \in ToSet(Tail(s))
  <2>1. PICK i \in 1..Len(s) : s[i] = c
    BY <1>1 DEF ToSet
  <2>2. CASE i # 1
    <3>1. i - 1 \in DOMAIN Tail(s) /\ Tail(s)[i - 1] = c
      BY <1>1, <2>1, <2>2
    <3> QED
      BY <3>1 DEF ToSet
  <2> QED
    BY <1>1, <2>1, <2>2
<1>4. OneLoad(s) => OneLoad(Tail(s))
  BY <1>1, <1>2 DEF OneLoad
<1> QED
  BY <1>1, <1>2, <1>3, <1>4

\* A visit's calls in front of the rest of the plan.
LEMMA OneLoadConcat ==
    ASSUME NEW s \in Seq(Call), NEW t \in Seq(Call), NEW d \in Docs, LoadsOnly(s, d), OneLoad(t),
           \A i \in DOMAIN t : t[i].load => t[i].doc # d
    PROVE  OneLoad(s \o t)
<1> DEFINE c == s \o t
<1> SUFFICES ASSUME NEW i \in DOMAIN c, NEW j \in DOMAIN c, c[i].load, c[j].load, i # j
             PROVE  c[i].doc # c[j].doc
  BY DEF OneLoad
<1>1. Len(s) \in Nat /\ i \in Nat /\ j \in Nat
  BY ConcatFacts, LenProperties
<1>2. CASE i \in DOMAIN s /\ c[i] = s[i]
  <2>1. CASE j \in DOMAIN s /\ c[j] = s[j]
    BY <1>2, <2>1 DEF LoadsOnly
  <2>2. CASE j - Len(s) \in DOMAIN t /\ c[j] = t[j - Len(s)]
    BY <1>2, <2>2 DEF LoadsOnly
  <2> QED
    BY <2>1, <2>2, ConcatFacts
<1>3. CASE i - Len(s) \in DOMAIN t /\ c[i] = t[i - Len(s)]
  <2>1. CASE j \in DOMAIN s /\ c[j] = s[j]
    BY <1>3, <2>1 DEF LoadsOnly
  <2>2. CASE j - Len(s) \in DOMAIN t /\ c[j] = t[j - Len(s)]
    BY <1>1, <1>3, <2>2 DEF OneLoad
  <2> QED
    BY <2>1, <2>2, ConcatFacts
<1> QED
  BY <1>2, <1>3, ConcatFacts

LEMMA CachedFacts ==
    ASSUME TypeOK, NEW d \in Docs, Cached(d)
    PROVE  /\ cache[d] \in Meta /\ Tables[d][cache[d].fields] \in Seq(Docs)
           /\ Links[d][cache[d].fields] \in Seq(Docs) /\ Targets(d) \subseteq Docs
<1>1. cache[d] \in Meta
  BY DEF TypeOK, Cached
<1>2. cache[d].fields \in 0..MaxRev
  BY <1>1 DEF Meta
<1>3. Tables[d][cache[d].fields] \in Seq(Docs) /\ Links[d][cache[d].fields] \in Seq(Docs)
  BY <1>2, MetaAssumption
<1> QED
  BY <1>1, <1>3, ElementOfSeq, LenProperties DEF Targets, ToSet

\* The walk of a cached doctype visits its targets.
LEMMA WalkFacts ==
    ASSUME TypeOK, NEW d \in Docs, Cached(d)
    PROVE  /\ Walk(d) \in Seq(Call) /\ \A i \in DOMAIN Walk(d) : ~Walk(d)[i].load
           /\ \A t \in Targets(d) : [doc |-> t, load |-> FALSE] \in ToSet(Walk(d))
<1> DEFINE both == Tables[d][cache[d].fields] \o Links[d][cache[d].fields]
<1>1. both \in Seq(Docs) /\ ToSet(both) = Targets(d)
  BY CachedFacts, ConcatFacts DEF Targets
<1>2. Walk(d) = Visits(both)
  BY DEF Walk
<1> QED
  BY <1>1, <1>2, VisitsFacts

LEMMA StoredFacts ==
    ASSUME TypeOK, NEW d \in Docs
    PROVE  Stored(Tables, d) \in Seq(Docs) /\ Stored(Links, d) \in Seq(Docs)
<1>1. rows[d] \in 0..MaxRev
  BY DEF TypeOK
<1>2. <<>> \in Seq(Docs)
  BY EmptySeq
<1> QED
  BY <1>1, <1>2, MetaAssumption DEF Stored

\* The raw read of d plans its targets and its load.
LEMMA FetchedFacts ==
    ASSUME TypeOK, NEW d \in Docs
    PROVE  /\ Fetched(d) \in Seq(Call) /\ LoadsOnly(Fetched(d), d)
           /\ \A t \in StoredTargets(d) : [doc |-> t, load |-> FALSE] \in ToSet(Fetched(d))
           /\ [doc |-> d, load |-> TRUE] \in ToSet(Fetched(d))
<1> DEFINE ld == [doc |-> d, load |-> TRUE]
           T == Visits(Stored(Tables, d))
           L == Visits(Stored(Links, d))
           front == T \o <<ld>>
<1>1. Stored(Tables, d) \in Seq(Docs) /\ Stored(Links, d) \in Seq(Docs)
  BY StoredFacts
<1>2. /\ T \in Seq(Call) /\ L \in Seq(Call) /\ ld \in Call
      /\ \A i \in DOMAIN T : ~T[i].load
      /\ \A i \in DOMAIN L : ~L[i].load
  BY <1>1, VisitsFacts DEF Call
<1>3. /\ <<ld>> \in Seq(Call) /\ DOMAIN <<ld>> = {1} /\ <<ld>>[1] = ld
      /\ ToSet(<<ld>>) = {ld}
  BY <1>2, SingleFacts
<1>4. Fetched(d) = front \o L
  BY <1>2, <1>3, ConcatAssociative DEF Fetched
<1>5. front \in Seq(Call) /\ ToSet(front) = ToSet(T) \cup {ld} /\ Len(T) \in Nat
  BY <1>2, <1>3, ConcatFacts, LenProperties
<1>6. \A i \in DOMAIN front : front[i].load => i = Len(T) + 1 /\ front[i] = ld
  <2> SUFFICES ASSUME NEW i \in DOMAIN front, front[i].load
               PROVE  i = Len(T) + 1 /\ front[i] = ld
    OBVIOUS
  <2>1. i - Len(T) \in DOMAIN <<ld>> /\ front[i] = <<ld>>[i - Len(T)]
    BY <1>2, <1>3, ConcatFacts
  <2>2. i \in Nat
    BY <1>5, LenProperties
  <2>3. i - Len(T) = 1
    BY <1>3, <2>1
  <2>4. i = Len(T) + 1
    BY <1>5, <2>2, <2>3
  <2>5. front[i] = <<ld>>[1]
    BY <2>1, <2>3
  <2> QED
    BY <1>3, <2>4, <2>5
<1>7. \A i \in DOMAIN Fetched(d) :
         Fetched(d)[i].load => i = Len(T) + 1 /\ Fetched(d)[i].doc = d
  <2> SUFFICES ASSUME NEW i \in DOMAIN Fetched(d), Fetched(d)[i].load
               PROVE  i = Len(T) + 1 /\ Fetched(d)[i].doc = d
    OBVIOUS
  <2>1. i \in DOMAIN front /\ Fetched(d)[i] = front[i]
    BY <1>2, <1>4, <1>5, ConcatFacts
  <2> QED
    BY <1>6, <2>1
<1>8. ToSet(Fetched(d)) = ToSet(T) \cup {ld} \cup ToSet(L) /\ Fetched(d) \in Seq(Call)
  <2> HIDE DEF front
  <2>1. front \o L \in Seq(Call) /\ ToSet(front \o L) = ToSet(front) \cup ToSet(L)
    BY <1>2, <1>5, ConcatFacts
  <2> QED
    BY <1>4, <1>5, <2>1
<1>9. LoadsOnly(Fetched(d), d)
  BY <1>7 DEF LoadsOnly
<1> QED
  BY <1>1, <1>8, <1>9, VisitsFacts DEF StoredTargets

-----------------------------------------------------------------------------
(* Types *)

LEMMA MinFacts ==
    ASSUME NEW a \in Int, NEW b \in Int
    PROVE  /\ Min({a, b}) \in {a, b} /\ Min({a, b}) <= a /\ Min({a, b}) <= b
<1>1. \E x \in {a, b} : \A y \in {a, b} : x <= y
  <2>1. CASE a <= b
    BY <2>1
  <2>2. CASE b <= a
    BY <2>2
  <2> QED
    BY <2>1, <2>2
<1>2. /\ Min({a, b}) \in {a, b}
      /\ \A y \in {a, b} : Min({a, b}) <= y
  BY <1>1 DEF Min
<1> QED
  BY <1>2

\* The step touches the local state of r alone.
Only(r) ==
    \A q \in Reqs \ {r} : /\ req'[q] = req[q] /\ pc'[q] = pc[q] /\ plan'[q] = plan[q]
                          /\ visited'[q] = visited[q] /\ got'[q] = got[q]
                          /\ loaded'[q] = loaded[q] /\ (q \in moved' <=> q \in moved)

LEMMA EndFacts ==
    ASSUME TypeOK, NEW r \in Reqs, End(r)
    PROVE  /\ pc'[r] = "idle" /\ req'[r] = Blank /\ plan'[r] = <<>> /\ visited'[r] = {}
           /\ got'[r] = NoRead /\ loaded'[r] = {} /\ Only(r)
  BY DEF End, Goto, TypeOK, Only

LocalTypes ==
    /\ req \in [Reqs -> [doc : Docs, now : 0..Clock, version : 0..Version,
                         fetched : 0..Version]]
    /\ pc \in [Reqs -> PC]
    /\ plan \in [Reqs -> Seq(Call)]
    /\ visited \in [Reqs -> SUBSET Docs]
    /\ got \in [Reqs -> [reads : 0..3, rev : 0..MaxRev, fields : 0..MaxRev]]
    /\ moved \in SUBSET Reqs
    /\ loaded \in [Reqs -> SUBSET Docs]

LEMMA VersionTypes ==
    ASSUME TypeOK PROVE /\ Version \in Nat /\ Clock \in Nat
                        /\ DOMAIN bumps = 1..Version /\ DOMAIN past = 1..Clock
                        /\ MaxRev \in Nat /\ TTL \in Nat \ {0} /\ MaxFaults \in Nat
  BY LenProperties, MetaAssumption DEF TypeOK, Version, Clock

LEMMA BlankType ==
    ASSUME TypeOK
    PROVE  /\ Blank \in [doc : Docs, now : 0..Clock, version : 0..Version, fetched : 0..Version]
           /\ NoRead \in [reads : 0..3, rev : 0..MaxRev, fields : 0..MaxRev]
<1>1. (CHOOSE d \in Docs : TRUE) \in Docs
  BY MetaAssumption
<1> QED
  BY <1>1, VersionTypes DEF Blank, NoRead

LEMMA EndTypes ==
    ASSUME TypeOK, NEW r \in Reqs, End(r), UNCHANGED <<past, bumps>> PROVE LocalTypes'
<1>1. LocalTypes /\ Clock' = Clock /\ Version' = Version
  BY DEF TypeOK, LocalTypes, Clock, Version
<1> QED
  BY <1>1, BlankType, EmptySeq DEF End, Goto, LocalTypes, PC

\* The calls of a visit that asks the database nothing.
Walked(r) ==
    LET d == Head(plan[r]).doc IN IF d \in visited[r] THEN <<>> ELSE Walk(d)

LEMMA VisitFacts ==
    ASSUME TypeOK, NEW r \in Reqs, Visit(r)
    PROVE  LET d == Head(plan[r]).doc IN
           /\ pc[r] = "prime" /\ plan[r] # <<>> /\ ~Head(plan[r]).load
           /\ d \in Docs /\ Tail(plan[r]) \in Seq(Call) /\ plan[r] \in Seq(Call)
           /\ visited' = [visited EXCEPT ![r] = visited[r] \cup {d}]
           /\ UNCHANGED <<database, registry, req, got, faults, moved, loaded>>
           /\ \/ /\ Continue(r, Walked(r)) /\ Walked(r) \in Seq(Call)
                 /\ \A i \in DOMAIN Walked(r) : ~Walked(r)[i].load
                 /\ d \notin visited[r] =>
                       /\ Cached(d)
                       /\ \A t \in Targets(d) :
                             [doc |-> t, load |-> FALSE] \in ToSet(Walked(r))
              \/ /\ d \notin visited[r] /\ UNCHANGED plan
                 /\ pc' = [pc EXCEPT ![r] = "raw"]
<1> DEFINE d == Head(plan[r]).doc
<1>1. /\ plan[r] # <<>> /\ plan[r] \in Seq(Call) /\ Tail(plan[r]) \in Seq(Call)
      /\ d \in Docs
  BY TailFacts DEF Visit, TypeOK, Call
<1>2. CASE d \in visited[r]
  <2>1. Walked(r) = <<>> /\ <<>> \in Seq(Call) /\ DOMAIN <<>> = {}
    BY <1>2, EmptySeq DEF Walked
  <2> QED
    BY <1>1, <1>2, <2>1 DEF Visit
<1>3. CASE d \notin visited[r] /\ Cached(d)
  <2>1. Walked(r) = Walk(d)
    BY <1>3 DEF Walked
  <2>2. /\ Walk(d) \in Seq(Call) /\ \A i \in DOMAIN Walk(d) : ~Walk(d)[i].load
        /\ \A t \in Targets(d) : [doc |-> t, load |-> FALSE] \in ToSet(Walk(d))
    BY <1>1, <1>3, WalkFacts
  <2>3. Continue(r, Walk(d))
    BY <1>3 DEF Visit
  <2> QED
    BY <1>1, <1>3, <2>1, <2>2, <2>3 DEF Visit
<1>4. CASE d \notin visited[r] /\ ~Cached(d)
  BY <1>1, <1>4 DEF Visit, Goto
<1> QED
  BY <1>2, <1>3, <1>4

LEMMA ContinueFacts ==
    ASSUME TypeOK, NEW r \in Reqs, NEW calls \in Seq(Call), plan[r] # <<>>, Continue(r, calls)
    PROVE  /\ calls \o Tail(plan[r]) \in Seq(Call)
           /\ plan' = [plan EXCEPT ![r] = calls \o Tail(plan[r])]
           /\ plan'[r] = calls \o Tail(plan[r]) /\ plan' \in [Reqs -> Seq(Call)]
           /\ pc' = [pc EXCEPT ![r] = IF plan'[r] = <<>> THEN "gate" ELSE "prime"]
           /\ pc'[r] = IF plan'[r] = <<>> THEN "gate" ELSE "prime"
<1> DEFINE rest == calls \o Tail(plan[r])
<1>1. Tail(plan[r]) \in Seq(Call)
  BY TailFacts DEF TypeOK
<1>2. rest \in Seq(Call)
  BY <1>1, ConcatProperties
<1>3. plan' = [plan EXCEPT ![r] = rest]
      /\ pc' = [pc EXCEPT ![r] = IF rest = <<>> THEN "gate" ELSE "prime"]
  BY DEF Continue, Goto
<1>4. plan'[r] = rest /\ plan' \in [Reqs -> Seq(Call)]
  BY <1>2, <1>3 DEF TypeOK
<1> QED
  BY <1>2, <1>3, <1>4 DEF TypeOK

LEMMA RawFacts ==
    ASSUME TypeOK, ProgressInv, NEW r \in Reqs, RawRead(r)
    PROVE  LET d == Head(plan[r]).doc IN
           /\ pc[r] = "raw" /\ plan[r] # <<>> /\ d \in Docs
           /\ Tail(plan[r]) \in Seq(Call) /\ plan[r] \in Seq(Call)
           /\ Fetched(d) \in Seq(Call) /\ plan'[r] = Fetched(d) \o Tail(plan[r])
           /\ plan'[r] # <<>> /\ plan' \in [Reqs -> Seq(Call)]
           /\ plan' = [plan EXCEPT ![r] = Fetched(d) \o Tail(plan[r])]
           /\ pc' = [pc EXCEPT ![r] = "prime"]
           /\ UNCHANGED <<database, registry, req, visited, got, faults, moved, loaded>>
<1> DEFINE d == Head(plan[r]).doc
           rest == Tail(plan[r])
<1>1. pc[r] = "raw" /\ plan[r] # <<>> /\ plan[r] \in Seq(Call)
  BY DEF RawRead, ProgressInv, Progress, Priming, TypeOK
<1>2. rest \in Seq(Call) /\ d \in Docs
  BY <1>1, TailFacts DEF Call
<1>3. /\ Fetched(d) \in Seq(Call) /\ [doc |-> d, load |-> TRUE] \in ToSet(Fetched(d))
  BY <1>2, FetchedFacts
<1> HIDE DEF d, rest
<1>4. /\ Fetched(d) \o rest \in Seq(Call)
      /\ ToSet(Fetched(d) \o rest) = ToSet(Fetched(d)) \cup ToSet(rest)
  BY <1>2, <1>3, ConcatFacts
<1>5. Fetched(d) \o rest # <<>>
  <2>1. ToSet(<<>>) = {}
    BY DEF ToSet
  <2> QED
    BY <1>3, <1>4, <2>1
<1>6. plan' = [plan EXCEPT ![r] = Fetched(d) \o rest]
  BY DEF RawRead, d, rest
<1>7. plan'[r] = Fetched(d) \o rest /\ plan' \in [Reqs -> Seq(Call)]
  BY <1>4, <1>6 DEF TypeOK
<1> QED
  BY <1>1, <1>2, <1>3, <1>5, <1>6, <1>7 DEF RawRead, Goto, d, rest

\* The step reads once more, or it ends the request.
Reads(r) ==
    LET rev == rows[Head(plan[r]).doc] IN
    /\ got' = [got EXCEPT ![r] = Add(got[r], rev)]
    /\ pc' = [pc EXCEPT ![r] = IF got[r].reads = 2 THEN "register" ELSE "prime"]
    /\ UNCHANGED <<req, plan, visited, moved, loaded>>

LEMMA ReadFacts ==
    ASSUME TypeOK, ProgressInv, NEW r \in Reqs, Read(r)
    PROVE  /\ pc[r] = "prime" /\ plan[r] # <<>> /\ Head(plan[r]).load
           /\ Head(plan[r]).doc \in Docs /\ UNCHANGED <<database, registry, faults>>
           /\ \/ End(r)
              \/ /\ Reads(r)
                 /\ Add(got[r], rows[Head(plan[r]).doc]).reads = got[r].reads + 1
                 /\ Add(got[r], rows[Head(plan[r]).doc]).fields =
                       IF got[r].reads = 1 THEN rows[Head(plan[r]).doc] ELSE got[r].fields
                 /\ LET rev == Add(got[r], rows[Head(plan[r]).doc]).rev IN
                    /\ rev \in 1..rows[Head(plan[r]).doc]
                    /\ \/ rev = rows[Head(plan[r]).doc]
                       \/ got[r].reads > 0 /\ rev = got[r].rev
<1> DEFINE d == Head(plan[r]).doc
<1>0. /\ pc[r] = "prime" /\ plan[r] # <<>> /\ Head(plan[r]).load
      /\ UNCHANGED <<database, registry, faults>>
  BY DEF Read, Loading
<1>1. End(r) \/ (Reads(r) /\ (got[r].reads > 0 \/ rows[d] > 0))
  <2>1. CASE End(r)
    BY <2>1
  <2>2. CASE ~End(r)
    BY <2>2 DEF Read, Reads, Goto
  <2> QED
    BY <2>1, <2>2
<1>2. d \in Docs /\ rows[d] \in 0..MaxRev /\ got[r] \in [reads : 0..3, rev : 0..MaxRev, fields : 0..MaxRev]
  BY <1>0, TailFacts DEF TypeOK, Call
<1>3. got[r].reads > 0 => got[r].rev \in 1..rows[d]
  BY DEF ProgressInv, Progress
<1>4. MaxRev \in Nat
  BY MetaAssumption
<1>5. CASE got[r].reads > 0
  <2>1. Add(got[r], rows[d]) =
          [reads |-> got[r].reads + 1, rev |-> Min({got[r].rev, rows[d]}),
           fields |-> IF got[r].reads = 1 THEN rows[d] ELSE got[r].fields]
    BY <1>2, <1>5 DEF Add
  <2>2. Min({got[r].rev, rows[d]}) = got[r].rev
    <3>1. got[r].rev \in Int /\ rows[d] \in Int /\ got[r].rev <= rows[d]
      BY <1>2, <1>3, <1>4, <1>5
    <3>2. /\ Min({got[r].rev, rows[d]}) \in {got[r].rev, rows[d]}
          /\ Min({got[r].rev, rows[d]}) <= got[r].rev
      BY <3>1, MinFacts
    <3> QED
      BY <3>1, <3>2
  <2> QED
    BY <1>0, <1>1, <1>2, <1>3, <1>5, <2>1, <2>2
<1>6. CASE ~(got[r].reads > 0)
  <2>1. got[r].reads = 0
    BY <1>2, <1>6
  <2>2. Add(got[r], rows[d]) =
          [reads |-> got[r].reads + 1, rev |-> rows[d],
           fields |-> IF got[r].reads = 1 THEN rows[d] ELSE got[r].fields]
    BY <2>1 DEF Add
  <2> QED
    BY <1>0, <1>1, <1>2, <1>4, <2>1, <2>2
<1> QED
  BY <1>5, <1>6

\* The step puts what it has loaded in the cache.
Registers(r) ==
    /\ cache' = [cache EXCEPT ![Head(plan[r]).doc] =
                    [rev |-> got[r].rev, fields |-> got[r].fields]]
    /\ plan' = [plan EXCEPT ![r] = Tail(plan[r])]
    /\ got' = [got EXCEPT ![r] = NoRead]
    /\ pc' = [pc EXCEPT ![r] = IF Tail(plan[r]) = <<>> THEN "gate" ELSE "prime"]
    /\ loaded' = [loaded EXCEPT ![r] = loaded[r] \cup {Head(plan[r]).doc}]
    /\ UNCHANGED <<req, visited, moved>>

LEMMA RegisterFacts ==
    ASSUME TypeOK, ProgressInv, NEW r \in Reqs, Register(r)
    PROVE  /\ pc[r] = "register" /\ plan[r] # <<>> /\ Head(plan[r]).load
           /\ Head(plan[r]).doc \in Docs /\ got[r].reads > 0
           /\ got[r].rev \in 1..rows[Head(plan[r]).doc]
           /\ UNCHANGED <<database, seen, checkedAt, faults>>
           /\ \/ End(r) /\ UNCHANGED cache
              \/ Registers(r)
<1>1. pc[r] = "register" /\ UNCHANGED <<database, seen, checkedAt, faults>>
  BY DEF Register
<1>2. /\ plan[r] # <<>> /\ Head(plan[r]).load /\ got[r].reads > 0
      /\ got[r].rev \in 1..rows[Head(plan[r]).doc]
  <2>1. Progress(r)
    BY DEF ProgressInv
  <2>2. plan[r] # <<>> /\ got[r].reads = 3
    BY <1>1, <2>1 DEF Progress, Priming
  <2> QED
    BY <2>1, <2>2 DEF Progress
<1>3. Head(plan[r]).doc \in Docs
  BY <1>2, TailFacts DEF TypeOK, Call
<1>4. (End(r) /\ UNCHANGED cache) \/ Registers(r)
  <2>1. CASE End(r) /\ UNCHANGED cache
    BY <2>1
  <2>2. CASE ~(End(r) /\ UNCHANGED cache)
    <3>1. <<>> \o Tail(plan[r]) = Tail(plan[r])
      BY <1>2, TailFacts, ConcatEmptySeq DEF TypeOK
    <3> QED
      BY <2>2, <3>1 DEF Register, Registers, Continue, Goto
  <2> QED
    BY <2>1, <2>2
<1> QED
  BY <1>1, <1>2, <1>3, <1>4

LEMMA TypeNext ==
    ASSUME TypeOK, ProgressInv, [Next]_vars PROVE TypeOK'
<1> USE VersionTypes
<1>0. LocalTypes
  BY DEF TypeOK, LocalTypes
<1>b. /\ Version \in Nat /\ 0 \in 0..Version /\ Version \in 0..Version
      /\ faults \in 0..MaxFaults /\ MaxFaults \in Nat
      /\ \A r \in Reqs : /\ req[r] \in [doc : Docs, now : 0..Clock, version : 0..Version,
                                         fetched : 0..Version]
                          /\ req[r].doc \in Docs /\ req[r].now \in 0..Clock
                          /\ req[r].version \in 0..Version /\ req[r].fetched \in 0..Version
  <2>1. \A r \in Reqs : req[r] \in [doc : Docs, now : 0..Clock, version : 0..Version,
                                    fetched : 0..Version]
    BY DEF TypeOK
  <2>2. faults \in 0..MaxFaults
    BY DEF TypeOK
  <2> QED
    BY <2>1, <2>2
<1>a. UNCHANGED database => Clock' = Clock /\ Version' = Version
  BY DEF database, Clock, Version
\* what a step that leaves the version and the clock alone keeps
<1>1. ASSUME UNCHANGED database, LocalTypes',
             UNCHANGED registry, faults' \in 0..MaxFaults
      PROVE  TypeOK'
  BY <1>1 DEF TypeOK, LocalTypes, database, registry, Version, Clock
<1>2. ASSUME NEW r \in Reqs, End(r), UNCHANGED <<database, registry>>,
             faults' \in 0..MaxFaults
      PROVE  TypeOK'
  BY <1>1, <1>2, EndTypes DEF database
<1>3. ASSUME NEW r \in Reqs, NEW d \in Docs, Start(r, d) PROVE TypeOK'
  <2>1. <<d>> \in Seq(Docs)
    OBVIOUS
  <2>2. Visits(<<d>>) \in Seq(Call)
    BY <2>1, VisitsFacts
  <2>3. [doc |-> d, now |-> Clock, version |-> seen, fetched |-> 0]
          \in [doc : Docs, now : 0..Clock, version : 0..Version, fetched : 0..Version]
    <3>1. seen \in 0..Version
      BY DEF TypeOK
    <3>2. Clock \in 0..Clock
      OBVIOUS
    <3> QED
      BY <1>b, <3>1, <3>2
  <2>4. UNCHANGED <<past, bumps, faults>> /\ Clock' = Clock /\ Version' = Version
    BY <1>3 DEF Start, Clock, Version, database
  <2>5. LocalTypes'
    BY <1>0, <1>3, <2>2, <2>3, <2>4 DEF Start, Goto, LocalTypes, PC, Priming
  <2> QED
    BY <1>1, <1>3, <2>4, <2>5 DEF Start, TypeOK
<1>4. ASSUME NEW r \in Reqs, Poll(r) PROVE TypeOK'
  <2>1. Clock' = Clock /\ Version' = Version
    BY <1>a, <1>4 DEF Poll
  <2>2. LocalTypes'
    <3>1. [req[r] EXCEPT !.fetched = Version]
             \in [doc : Docs, now : 0..Clock, version : 0..Version, fetched : 0..Version]
      BY <1>b
    <3>2. req' = [req EXCEPT ![r] = [req[r] EXCEPT !.fetched = Version]]
      BY <1>4 DEF Poll
    <3> QED
      BY <1>0, <1>4, <2>1, <3>1, <3>2 DEF Poll, Goto, LocalTypes, PC
  <2> QED
    BY <1>1, <1>4, <2>2 DEF Poll, TypeOK
<1>5. ASSUME NEW r \in Reqs, ApplyVersion(r) PROVE TypeOK'
  <2>1. Clock' = Clock /\ Version' = Version /\ UNCHANGED <<database, faults>>
    BY <1>a, <1>5 DEF ApplyVersion
  <2>2. LocalTypes'
    <3>1. [req[r] EXCEPT !.version = 0, !.fetched = 0]
             \in [doc : Docs, now : 0..Clock, version : 0..Version, fetched : 0..Version]
      BY <1>b
    <3>2. req' = [req EXCEPT ![r] = [req[r] EXCEPT !.version = 0, !.fetched = 0]]
      BY <1>0, <1>5 DEF ApplyVersion, LocalTypes
    <3> QED
      BY <1>0, <1>5, <2>1, <3>1, <3>2 DEF ApplyVersion, Goto, LocalTypes, PC, Priming
  <2>3. /\ cache' \in [Docs -> {None} \cup Meta]
        /\ \A d \in Docs \ InCode : cache'[d] = None \/ cache'[d].rev # 0
    <3>1. CASE cache' = cache
      BY <3>1 DEF TypeOK
    <3>2. CASE cache' = [d \in Docs |-> None]
      BY <3>2
    <3> QED
      BY <1>5, <3>1, <3>2 DEF ApplyVersion
  <2>4. seen' \in 0..Version /\ checkedAt' \in Never..Clock
    BY <1>5 DEF ApplyVersion, TypeOK, Never
  <2> QED
    BY <2>1, <2>2, <2>3, <2>4 DEF TypeOK, LocalTypes, database
<1>6. ASSUME NEW r \in Reqs, Visit(r) PROVE TypeOK'
  <2>0. /\ UNCHANGED <<database, registry, req, got, faults, moved, loaded>>
        /\ visited' = [visited EXCEPT ![r] = visited[r] \cup {Head(plan[r]).doc}]
        /\ Head(plan[r]).doc \in Docs
    BY <1>6, VisitFacts
  <2>1. plan' \in [Reqs -> Seq(Call)] /\ pc' \in [Reqs -> PC]
    <3>1. CASE Continue(r, Walked(r)) /\ Walked(r) \in Seq(Call)
      <4>1. /\ plan' \in [Reqs -> Seq(Call)]
            /\ pc' = [pc EXCEPT ![r] = IF plan'[r] = <<>> THEN "gate" ELSE "prime"]
        BY <1>6, <3>1, VisitFacts, ContinueFacts
      <4> QED
        BY <1>0, <4>1 DEF LocalTypes, PC, Priming, Pipeline
    <3>2. CASE UNCHANGED plan /\ pc' = [pc EXCEPT ![r] = "raw"]
      BY <1>0, <3>2 DEF LocalTypes, PC, Priming
    <3> QED
      BY <1>6, <3>1, <3>2, VisitFacts
  <2>2. LocalTypes'
    BY <1>0, <1>a, <2>0, <2>1 DEF LocalTypes
  <2> QED
    BY <1>1, <2>0, <2>2 DEF TypeOK
<1>6a. ASSUME NEW r \in Reqs, RawRead(r) PROVE TypeOK'
  <2>1. /\ UNCHANGED <<database, registry, req, visited, got, faults, moved, loaded>>
        /\ plan' \in [Reqs -> Seq(Call)] /\ pc' = [pc EXCEPT ![r] = "prime"]
    BY <1>6a, RawFacts
  <2>2. LocalTypes'
    BY <1>0, <1>a, <2>1 DEF LocalTypes, PC, Priming
  <2> QED
    BY <1>1, <2>1, <2>2 DEF TypeOK
<1>7. ASSUME NEW r \in Reqs, Read(r) PROVE TypeOK'
  <2> DEFINE d == Head(plan[r]).doc
  <2>1. CASE End(r)
    BY <1>2, <1>7, <2>1, ReadFacts DEF TypeOK
  <2>2. CASE ~End(r)
    <3>1. /\ Reads(r) /\ d \in Docs /\ pc[r] = "prime"
          /\ Add(got[r], rows[d]).reads = got[r].reads + 1
          /\ Add(got[r], rows[d]).rev \in 1..rows[d]
          /\ Add(got[r], rows[d]).fields \in {rows[d], got[r].fields}
      BY <1>7, <2>2, ReadFacts
    <3>2. rows[d] \in 0..MaxRev /\ got[r] \in [reads : 0..3, rev : 0..MaxRev, fields : 0..MaxRev] /\ got[r].reads < 3
      BY <3>1 DEF TypeOK, ProgressInv, Progress
    <3>3. Add(got[r], rows[d])
             = [reads |-> Add(got[r], rows[d]).reads, rev |-> Add(got[r], rows[d]).rev,
                fields |-> Add(got[r], rows[d]).fields]
      BY DEF Add
    <3>4. Add(got[r], rows[d]) \in [reads : 0..3, rev : 0..MaxRev, fields : 0..MaxRev]
      BY <3>1, <3>2, <3>3
    <3>5. LocalTypes'
      BY <1>0, <1>7, <3>1, <3>4, ReadFacts DEF Reads, LocalTypes, PC, Priming, Pipeline, database, Version, Clock
    <3> QED
      BY <1>1, <1>7, <3>5, ReadFacts DEF TypeOK
  <2> QED
    BY <2>1, <2>2
<1>8. ASSUME NEW r \in Reqs, Register(r) PROVE TypeOK'
  <2> DEFINE d == Head(plan[r]).doc
  <2>1. CASE End(r) /\ UNCHANGED cache
    BY <1>2, <1>8, <2>1, RegisterFacts DEF TypeOK, registry
  <2>2. CASE ~(End(r) /\ UNCHANGED cache)
    <3>1. /\ Registers(r) /\ d \in Docs /\ got[r].rev \in 1..rows[d]
          /\ UNCHANGED <<database, seen, checkedAt, faults>> /\ Tail(plan[r]) \in Seq(Call)
      BY <1>8, <2>2, RegisterFacts, TailFacts DEF TypeOK
    <3>2. Clock' = Clock /\ Version' = Version
      BY <3>1 DEF database, Clock, Version
    <3>3. LocalTypes'
      BY <1>0, <3>1, <3>2, BlankType DEF Registers, LocalTypes, PC, Priming, Pipeline
    <3>4. rows[d] \in 0..MaxRev /\ got[r].fields \in 0..MaxRev
      BY <3>1 DEF TypeOK
    <3>5. /\ cache' \in [Docs -> {None} \cup Meta]
          /\ \A e \in Docs \ InCode : cache'[e] = None \/ cache'[e].rev # 0
      <4> DEFINE m == [rev |-> got[r].rev, fields |-> got[r].fields]
      <4>1. m \in Meta /\ m.rev # 0
        BY <3>1, <3>4 DEF Meta
      <4>2. cache' = [cache EXCEPT ![d] = m]
        BY <3>1 DEF Registers
      <4> HIDE DEF m
      <4> QED
        BY <3>1, <4>1, <4>2 DEF TypeOK
    <3> QED
      BY <3>1, <3>2, <3>3, <3>5 DEF TypeOK, LocalTypes, database
  <2> QED
    BY <2>1, <2>2
<1>9. ASSUME NEW r \in Reqs, Gate(r) \/ LinksAndWrite(r) PROVE TypeOK'
  <2>1. CASE End(r)
    BY <1>2, <1>9, <2>1 DEF Gate, LinksAndWrite, TypeOK
  <2>2. CASE ~End(r)
    <3>1. /\ UNCHANGED <<database, registry, locals, faults, moved>>
          /\ pc' = [pc EXCEPT ![r] = "links"] \/ pc' = [pc EXCEPT ![r] = "project"]
      BY <1>9, <2>2 DEF Gate, LinksAndWrite, Goto
    <3>2. LocalTypes'
      BY <1>0, <3>1 DEF LocalTypes, locals, PC, Priming, Pipeline, database, Version, Clock
    <3> QED
      BY <1>1, <3>1, <3>2 DEF TypeOK
  <2> QED
    BY <2>1, <2>2
<1>10. ASSUME NEW r \in Reqs, Project(r) \/ StoreError(r) PROVE TypeOK'
  <2>1. faults' \in 0..MaxFaults
    BY <1>b, <1>10 DEF Project, StoreError
  <2> QED
    BY <1>2, <1>10, <2>1 DEF Project, StoreError
<1>11. ASSUME NEW d \in Docs, Sync(d) PROVE TypeOK'
  <2>1. /\ rows' = [rows EXCEPT ![d] = rows[d] + 1] /\ rows[d] < MaxRev /\ op' = "synced"
        /\ UNCHANGED <<bumps, past, registry, locals, pc, faults>> /\ moved' \in SUBSET Reqs
    BY <1>11 DEF Sync
  <2>2. rows' \in [Docs -> 0..MaxRev]
    <3>1. rows \in [Docs -> 0..MaxRev]
      BY DEF TypeOK
    <3>2. MaxRev \in Nat
      BY MetaAssumption
    <3>3. rows[d] + 1 \in 0..MaxRev
      BY <2>1, <3>1, <3>2
    <3> QED
      BY <2>1, <3>1, <3>3
  <2>3. Clock' = Clock /\ Version' = Version
    BY <2>1 DEF Clock, Version
  <2> QED
    BY <2>1, <2>2, <2>3 DEF TypeOK, registry, locals
<1>12. CASE Bump
  <2>1. bumps' = Append(bumps, rows) /\ rows \in [Docs -> 0..MaxRev]
    BY <1>12 DEF Bump, TypeOK
  <2>2. bumps' \in Seq([Docs -> 0..MaxRev]) /\ Version' = Version + 1
    BY <2>1, AppendProperties DEF TypeOK, Version
  <2>3. past \in Seq(0..Version + 1)
    <3>1. past \in [1..Clock -> 0..Version]
      BY LenProperties DEF TypeOK, Clock
    <3>2. past \in [1..Clock -> 0..(Version + 1)]
      BY <3>1
    <3> QED
      BY <3>2
  <2>4. Clock' = Clock /\ past' \in Seq(0..Version')
    BY <1>12, <2>2, <2>3 DEF Bump, Clock
  <2>5. seen \in 0..Version' /\ \A r \in Reqs : req[r] \in
            [doc : Docs, now : 0..Clock, version : 0..Version', fetched : 0..Version']
    <3>1. 0..Version \subseteq 0..Version'
      BY <1>b, <2>2
    <3> QED
      BY <1>b, <3>1 DEF TypeOK
  <2>6. req \in [Reqs -> [doc : Docs, now : 0..Clock, version : 0..Version',
                          fetched : 0..Version']]
    BY <2>5 DEF TypeOK
  <2> QED
    BY <1>12, <2>2, <2>4, <2>5, <2>6 DEF Bump, TypeOK, registry, locals
<1>13. CASE OperatorDies
  <2>1. faults' \in 0..MaxFaults /\ Clock' = Clock /\ Version' = Version
    BY <1>13 DEF OperatorDies, TypeOK, Version, Clock
  <2> QED
    BY <1>13, <2>1 DEF OperatorDies, TypeOK, registry, locals
<1>14. CASE Tick
  <2>1. past' \in Seq(0..Version) /\ Clock' = Clock + 1 /\ Version' = Version
    BY <1>14, AppendProperties DEF Tick, TypeOK, Clock, Version
  <2>2. checkedAt \in Never..Clock'
    BY <2>1 DEF TypeOK, Never
  <2>3. \A r \in Reqs : req[r] \in [doc : Docs, now : 0..Clock', version : 0..Version,
                                    fetched : 0..Version]
    <3>1. 0..Clock \subseteq 0..Clock'
      BY <2>1
    <3> QED
      BY <1>b, <3>1
  <2>4. req \in [Reqs -> [doc : Docs, now : 0..Clock', version : 0..Version,
                          fetched : 0..Version]]
    BY <2>3 DEF TypeOK
  <2> QED
    BY <1>14, <2>1, <2>2, <2>4 DEF Tick, TypeOK, registry, locals
<1>15. CASE Restart
  <2>1. Clock' = Clock /\ Version' = Version
    BY <1>a, <1>15 DEF Restart
  <2>2. /\ ColdCache \in [Docs -> {None} \cup Meta]
        /\ \A d \in Docs \ InCode : ColdCache[d] = None \/ ColdCache[d].rev # 0
    BY MetaAssumption DEF ColdCache, Meta
  <2>3. faults' \in 0..MaxFaults
    BY <1>15 DEF Restart, TypeOK
  <2>4. LocalTypes'
    BY <1>15, <2>1, BlankType, EmptySeq DEF Restart, LocalTypes, PC
  <2>5. cache' = ColdCache /\ seen' = 0 /\ checkedAt' = Never /\ UNCHANGED database
    BY <1>15 DEF Restart
  <2>6. Never \in Never..Clock /\ 0 \in 0..Version
    BY DEF Never
  <2> QED
    BY <2>1, <2>2, <2>3, <2>4, <2>5, <2>6 DEF TypeOK, LocalTypes, database
<1>16. CASE UNCHANGED vars
  BY <1>16 DEF vars, TypeOK, Version, Clock
<1> QED
  BY <1>3, <1>4, <1>5, <1>6, <1>6a, <1>7, <1>8, <1>9, <1>10, <1>11, <1>12, <1>13, <1>14,
     <1>15, <1>16
     DEF Next, Advance

-----------------------------------------------------------------------------
(* Progress of a request, and the loads it has planned *)

LEMMA RowsGrow ==
    ASSUME TypeOK, [Next]_vars
    PROVE  \A d \in Docs : rows[d] \in Nat /\ rows'[d] \in Nat /\ rows[d] <= rows'[d]
<1>1. MaxRev \in Nat /\ \A d \in Docs : rows[d] \in Nat
  BY MetaAssumption DEF TypeOK
<1>2. CASE UNCHANGED rows
  BY <1>1, <1>2
<1>3. ASSUME NEW d \in Docs, Sync(d) PROVE \A e \in Docs : rows'[e] \in Nat /\ rows[e] <= rows'[e]
  BY <1>1, <1>3 DEF Sync, TypeOK
<1>4. ASSUME NEW r \in Reqs,
             \/ \E d \in Docs : Start(r, d)
             \/ Poll(r) \/ ApplyVersion(r) \/ Visit(r) \/ RawRead(r) \/ Read(r) \/ Register(r)
             \/ Gate(r) \/ LinksAndWrite(r) \/ Project(r) \/ StoreError(r)
      PROVE  UNCHANGED rows
  BY <1>4 DEF Start, Poll, ApplyVersion, Visit, RawRead, Read, Register, Gate, LinksAndWrite,
              Project, StoreError, database
<1>5. ASSUME Bump \/ OperatorDies \/ Tick \/ Restart \/ UNCHANGED vars PROVE UNCHANGED rows
  BY <1>5 DEF Bump, OperatorDies, Tick, Restart, vars, database
<1> QED
  BY <1>1, <1>2, <1>3, <1>4, <1>5 DEF Next, Advance

LEMMA ProgressFrame ==
    ASSUME TypeOK, [Next]_vars, NEW q \in Reqs, Progress(q), Planned(q),
           req'[q] = req[q], pc'[q] = pc[q], plan'[q] = plan[q], visited'[q] = visited[q],
           got'[q] = got[q], loaded'[q] = loaded[q]
    PROVE  Progress(q)' /\ Planned(q)'
<1>1. ASSUME got[q].reads > 0 PROVE got[q].rev \in 1..rows'[Head(plan[q]).doc]
  <2>1. pc[q] \in Priming
    BY <1>1 DEF Progress, TypeOK, Priming
  <2>2. Head(plan[q]).doc \in Docs
    BY <2>1, TailFacts DEF Progress, TypeOK, Call
  <2> QED
    BY <1>1, <2>2, RowsGrow DEF Progress
<1>2. Planned(q)'
  BY DEF Planned
<1> QED
  BY <1>1, <1>2 DEF Progress

\* A step of r keeps the others'.
LEMMA ProgressOnly ==
    ASSUME TypeOK, ProgressInv, PlanInv, [Next]_vars, NEW r \in Reqs, Only(r),
           Progress(r)', Planned(r)'
    PROVE  ProgressInv' /\ PlanInv'
<1> SUFFICES ASSUME NEW q \in Reqs PROVE Progress(q)' /\ Planned(q)'
  BY DEF ProgressInv, PlanInv
<1> QED
  BY ProgressFrame DEF Only, ProgressInv, PlanInv

LEMMA NoPlan ==
    ASSUME NEW r \in Reqs, plan'[r] = <<>>, got'[r].reads = 0, loaded'[r] \subseteq visited'[r],
           \/ pc'[r] \in Pipeline
           \/ pc'[r] = "idle" /\ visited'[r] = {}
    PROVE  Progress(r)' /\ Planned(r)'
<1>1. DOMAIN plan'[r] = {}
  OBVIOUS
<1>2. Planned(r)'
  BY <1>1 DEF Planned, OneLoad, Pipeline
<1> QED
  BY <1>2 DEF Progress, Pipeline, Priming

LEMMA VisitPlans ==
    ASSUME TypeOK, ProgressInv, PlanInv, NEW r \in Reqs, Visit(r)
    PROVE  Progress(r)' /\ Planned(r)'
<1> DEFINE d == Head(plan[r]).doc
           rest == Tail(plan[r])
<1>1. /\ pc[r] = "prime" /\ plan[r] # <<>> /\ ~Head(plan[r]).load
      /\ d \in Docs /\ plan[r] \in Seq(Call) /\ rest \in Seq(Call)
      /\ visited'[r] = visited[r] \cup {d} /\ got' = got /\ loaded' = loaded
  BY VisitFacts DEF TypeOK
<1>2. got[r].reads = 0 /\ Planned(r)
  <2>1. got[r].reads \in 0..3
    BY DEF TypeOK
  <2>2. Progress(r) /\ Planned(r)
    BY DEF ProgressInv, PlanInv
  <2> QED
    BY <1>1, <2>1, <2>2 DEF Progress
<1>3. /\ OneLoad(rest)
      /\ \A i \in DOMAIN rest : rest[i].load => rest[i].doc \in visited[r] \ loaded[r]
  BY <1>1, <1>2, TailFacts DEF Planned
<1> HIDE DEF d, rest
<1>4. CASE /\ Continue(r, Walked(r)) /\ Walked(r) \in Seq(Call)
           /\ \A i \in DOMAIN Walked(r) : ~Walked(r)[i].load
  <2>1. /\ plan'[r] = Walked(r) \o rest
        /\ pc'[r] = IF plan'[r] = <<>> THEN "gate" ELSE "prime"
    BY <1>1, <1>4, ContinueFacts DEF rest
  <2>2. LoadsOnly(Walked(r), d)
    BY <1>4 DEF LoadsOnly
  <2>3. \A i \in DOMAIN (Walked(r) \o rest) : (Walked(r) \o rest)[i].load =>
           \E j \in DOMAIN rest : (Walked(r) \o rest)[i] = rest[j]
    BY <1>1, <1>4, ConcatFacts
  <2>4. OneLoad(Walked(r) \o rest)
    <3> SUFFICES ASSUME NEW i \in DOMAIN (Walked(r) \o rest), NEW j \in DOMAIN (Walked(r) \o rest),
                        (Walked(r) \o rest)[i].load, (Walked(r) \o rest)[j].load, i # j
                 PROVE  (Walked(r) \o rest)[i].doc # (Walked(r) \o rest)[j].doc
      BY DEF OneLoad
    <3>1. /\ i - Len(Walked(r)) \in DOMAIN rest
          /\ (Walked(r) \o rest)[i] = rest[i - Len(Walked(r))]
          /\ j - Len(Walked(r)) \in DOMAIN rest
          /\ (Walked(r) \o rest)[j] = rest[j - Len(Walked(r))]
      BY <1>1, <1>4, ConcatFacts
    <3>2. i \in Int /\ j \in Int /\ Len(Walked(r)) \in Int
      BY <1>1, <1>4, ConcatFacts, LenProperties
    <3> QED
      BY <1>3, <3>1, <3>2 DEF OneLoad
  <2>5. Planned(r)'
    BY <1>1, <1>2, <1>3, <2>1, <2>3, <2>4 DEF Planned
  <2>6. Progress(r)'
    BY <1>1, <1>2, <2>1 DEF Progress, Priming, Pipeline
  <2> QED
    BY <2>5, <2>6
<1>5. CASE d \notin visited[r] /\ UNCHANGED plan /\ pc' = [pc EXCEPT ![r] = "raw"]
  <2>1. pc'[r] = "raw" /\ plan'[r] = plan[r]
    BY <1>5 DEF TypeOK
  <2>2. Planned(r)'
    BY <1>1, <1>2, <1>5, <2>1 DEF Planned, d
  <2>3. Progress(r)'
    BY <1>1, <1>2, <2>1 DEF Progress, Priming, Pipeline
  <2> QED
    BY <2>2, <2>3
<1> QED
  BY <1>4, <1>5, VisitFacts DEF d

LEMMA RawPlans ==
    ASSUME TypeOK, ProgressInv, PlanInv, NEW r \in Reqs, RawRead(r)
    PROVE  Progress(r)' /\ Planned(r)'
<1> DEFINE d == Head(plan[r]).doc
           front == Fetched(d)
           rest == Tail(plan[r])
<1>1. /\ pc[r] = "raw" /\ plan[r] # <<>> /\ d \in Docs /\ plan[r] \in Seq(Call)
      /\ front \in Seq(Call) /\ rest \in Seq(Call)
      /\ plan'[r] = front \o rest /\ plan'[r] # <<>> /\ pc'[r] = "prime"
      /\ visited' = visited /\ got' = got /\ loaded' = loaded
  BY RawFacts DEF TypeOK
<1>2. Planned(r) /\ got[r].reads = 0
  BY <1>1 DEF PlanInv, ProgressInv, Progress
<1>3. /\ OneLoad(rest) /\ LoadsOnly(front, d) /\ d \in visited[r] \ loaded[r]
      /\ \A i \in DOMAIN rest : rest[i].load =>
            rest[i].doc \in visited[r] \ loaded[r] /\ rest[i].doc # d
  <2>1. LoadsOnly(front, d)
    BY <1>1, FetchedFacts
  <2> HIDE DEF d, front
  <2>2. /\ OneLoad(rest) /\ \A i \in DOMAIN rest : i + 1 \in DOMAIN plan[r] /\ rest[i] = plan[r][i + 1]
    BY <1>1, <1>2, TailFacts DEF Planned
  <2>3. d \in visited[r] \ loaded[r] /\ \A i \in DOMAIN plan[r] : plan[r][i].load =>
          plan[r][i].doc \in visited[r] \ loaded[r] /\ plan[r][i].doc # d
    BY <1>1, <1>2 DEF Planned, d
  <2> QED
    BY <2>1, <2>2, <2>3
<1>4. OneLoad(front \o rest)
  BY <1>1, <1>3, OneLoadConcat
<1>5. ASSUME NEW i \in DOMAIN (front \o rest), (front \o rest)[i].load
      PROVE  (front \o rest)[i].doc \in visited[r] \ loaded[r]
  <2> HIDE DEF front, rest, d
  <2>1. CASE i \in DOMAIN front /\ (front \o rest)[i] = front[i]
    BY <1>3, <1>5, <2>1 DEF LoadsOnly
  <2>2. CASE i - Len(front) \in DOMAIN rest /\ (front \o rest)[i] = rest[i - Len(front)]
    BY <1>3, <1>5, <2>2
  <2> QED
    BY <1>1, <2>1, <2>2, ConcatFacts
<1>6. Planned(r)'
  <2> HIDE DEF front, rest, d
  <2> QED
    BY <1>1, <1>2, <1>4, <1>5 DEF Planned
<1>7. Progress(r)'
  <2> HIDE DEF front, rest, d
  <2> QED
    BY <1>1, <1>2 DEF Progress, Priming, Pipeline
<1> QED
  BY <1>6, <1>7

LEMMA ReadProgress ==
    ASSUME TypeOK, ProgressInv, PlanInv, NEW r \in Reqs, Read(r)
    PROVE  Progress(r)' /\ Planned(r)'
<1>1. CASE End(r)
  BY <1>1, EndFacts, NoPlan DEF NoRead
<1>2. CASE ~End(r)
  <2> DEFINE d == Head(plan[r]).doc
  <2>1. /\ pc[r] = "prime" /\ plan[r] # <<>> /\ Head(plan[r]).load /\ Reads(r)
        /\ Add(got[r], rows[d]).reads = got[r].reads + 1
        /\ Add(got[r], rows[d]).rev \in 1..rows[d] /\ UNCHANGED database
    BY <1>2, ReadFacts
  <2>2. /\ got'[r] = Add(got[r], rows[d]) /\ rows' = rows
        /\ plan'[r] = plan[r] /\ visited'[r] = visited[r] /\ loaded'[r] = loaded[r]
        /\ pc'[r] = IF got[r].reads = 2 THEN "register" ELSE "prime"
    BY <2>1 DEF Reads, TypeOK, database
  <2>3. Planned(r)'
    <3>1. pc'[r] # "raw"
      BY <2>2
    <3> QED
      BY <2>2, <3>1 DEF PlanInv, Planned
  <2>4. got[r].reads \in 0..2
    <3>1. got[r].reads \in 0..3
      BY DEF TypeOK
    <3>2. Progress(r)
      BY DEF ProgressInv
    <3> QED
      BY <2>1, <3>1, <3>2 DEF Progress
  <2> QED
    BY <2>1, <2>2, <2>3, <2>4 DEF Progress, Priming, Pipeline
<1> QED
  BY <1>1, <1>2

LEMMA RegisterProgress ==
    ASSUME TypeOK, ProgressInv, PlanInv, NEW r \in Reqs, Register(r)
    PROVE  Progress(r)' /\ Planned(r)'
<1>1. CASE End(r)
  BY <1>1, EndFacts, NoPlan DEF NoRead
<1>2. CASE ~End(r)
  <2>1. Registers(r) /\ plan[r] # <<>> /\ plan[r] \in Seq(Call)
    BY <1>2, RegisterFacts DEF TypeOK
  <2>2. /\ got'[r] = NoRead /\ visited'[r] = visited[r] /\ plan'[r] = Tail(plan[r])
        /\ pc'[r] = IF Tail(plan[r]) = <<>> THEN "gate" ELSE "prime"
        /\ loaded'[r] = loaded[r] \cup {Head(plan[r]).doc}
    BY <2>1 DEF Registers, TypeOK
  <2>3. Planned(r)'
    <3> DEFINE s == plan[r]
    <3>1. /\ s[1] = Head(s) /\ 1 \in DOMAIN s /\ Head(s).load /\ OneLoad(Tail(s))
          /\ \A i \in DOMAIN Tail(s) : i + 1 \in DOMAIN s /\ Tail(s)[i] = s[i + 1]
      BY <1>2, <2>1, RegisterFacts, TailFacts DEF PlanInv, Planned
    <3>2. Planned(r) /\ Head(s).doc \in visited[r]
      BY <3>1 DEF PlanInv, Planned
    <3>3. \A i \in DOMAIN Tail(s) : i \in 1..Len(Tail(s)) /\ i + 1 # 1
      BY <2>1, TailFacts, LenProperties
    <3>4. \A i \in DOMAIN Tail(s) : Tail(s)[i].load =>
             Tail(s)[i].doc \in visited[r] \ loaded[r] /\ Tail(s)[i].doc # Head(s).doc
      BY <3>1, <3>2, <3>3 DEF Planned, OneLoad
    <3> HIDE DEF s
    <3> QED
      BY <2>2, <3>1, <3>2, <3>4 DEF Planned, s
  <2> QED
    BY <2>2, <2>3 DEF Progress, NoRead, Priming, Pipeline
<1> QED
  BY <1>1, <1>2

LEMMA ProgressNext ==
    ASSUME TypeOK, ProgressInv, PlanInv, [Next]_vars PROVE ProgressInv' /\ PlanInv'
<1>1. ASSUME NEW r \in Reqs, End(r) PROVE ProgressInv' /\ PlanInv'
  BY <1>1, EndFacts, NoPlan, ProgressOnly DEF NoRead
<1>2. ASSUME NEW r \in Reqs, NEW d \in Docs, Start(r, d) PROVE ProgressInv' /\ PlanInv'
  <2>1. /\ pc[r] = "idle" /\ Only(r) /\ plan'[r] = Visits(<<d>>) /\ req'[r].doc = d
        /\ pc'[r] \in {"prime", "poll"} /\ visited'[r] = visited[r] /\ got'[r] = got[r]
        /\ loaded'[r] = loaded[r]
    BY <1>2 DEF Start, Goto, TypeOK, Only
  <2>2. /\ Visits(<<d>>) \in Seq(Call) /\ Len(Visits(<<d>>)) = 1
        /\ \A i \in DOMAIN Visits(<<d>>) : ~Visits(<<d>>)[i].load
    <3>1. <<d>> \in Seq(Docs) /\ Len(<<d>>) = 1
      OBVIOUS
    <3> QED
      BY <3>1, VisitsFacts
  <2>3. Visits(<<d>>) # <<>>
    BY <2>2
  <2>4. visited[r] = {} /\ got[r].reads = 0 /\ loaded[r] = {}
    BY <2>1 DEF ProgressInv, Progress, PlanInv, Planned
  <2>5. Planned(r)'
    BY <2>1, <2>2, <2>4 DEF Planned, OneLoad
  <2>6. Progress(r)'
    BY <2>1, <2>3, <2>4 DEF Progress, Priming, Pipeline
  <2> QED
    BY <2>1, <2>5, <2>6, ProgressOnly
<1>3. ASSUME NEW r \in Reqs, Poll(r) \/ ApplyVersion(r) PROVE ProgressInv' /\ PlanInv'
  <2>1. /\ pc[r] \in {"poll", "polled"} /\ Only(r) /\ plan'[r] = plan[r]
        /\ req'[r].doc = req[r].doc /\ pc'[r] \in {"polled", "prime"}
        /\ visited'[r] = visited[r] /\ got'[r] = got[r] /\ loaded'[r] = loaded[r]
    BY <1>3 DEF Poll, ApplyVersion, Goto, TypeOK, Only
  <2>2. Progress(r) /\ Planned(r)
    BY DEF ProgressInv, PlanInv
  <2>3. plan[r] # <<>>
    <3>1. <<req[r].doc>> \in Seq(Docs) /\ Len(<<req[r].doc>>) = 1
      BY DEF TypeOK
    <3>2. Len(Visits(<<req[r].doc>>)) = 1
      BY <3>1, VisitsFacts
    <3>3. Visits(<<req[r].doc>>) # <<>>
      BY <3>1, <3>2, VisitsFacts
    <3> QED
      BY <2>1, <2>2, <3>3 DEF Progress
  <2>4. Planned(r)'
    BY <2>1, <2>2 DEF Planned
  <2>5. Progress(r)'
    BY <2>1, <2>2, <2>3 DEF Progress, Priming, Pipeline
  <2> QED
    BY <2>1, <2>4, <2>5, ProgressOnly
<1>4. ASSUME NEW r \in Reqs, Visit(r) PROVE ProgressInv' /\ PlanInv'
  <2>1. Only(r)
    <3>1. /\ UNCHANGED <<req, got, moved, loaded>>
          /\ visited' = [visited EXCEPT ![r] = visited[r] \cup {Head(plan[r]).doc}]
      BY <1>4, VisitFacts
    <3>2. \A q \in Reqs \ {r} : plan'[q] = plan[q] /\ pc'[q] = pc[q]
      <4>1. CASE Continue(r, Walked(r)) /\ Walked(r) \in Seq(Call)
        <5>1. /\ plan' = [plan EXCEPT ![r] = Walked(r) \o Tail(plan[r])]
              /\ pc' = [pc EXCEPT ![r] = IF plan'[r] = <<>> THEN "gate" ELSE "prime"]
          BY <1>4, <4>1, VisitFacts, ContinueFacts
        <5> QED
          BY <5>1 DEF TypeOK
      <4>2. CASE UNCHANGED plan /\ pc' = [pc EXCEPT ![r] = "raw"]
        BY <4>2 DEF TypeOK
      <4> QED
        BY <1>4, <4>1, <4>2, VisitFacts
    <3> QED
      BY <3>1, <3>2 DEF Only, TypeOK
  <2> QED
    BY <1>4, <2>1, VisitPlans, ProgressOnly
<1>4a. ASSUME NEW r \in Reqs, RawRead(r) PROVE ProgressInv' /\ PlanInv'
  <2>1. Only(r)
    <3>1. /\ UNCHANGED <<req, visited, got, moved, loaded>>
          /\ plan' = [plan EXCEPT ![r] = Fetched(Head(plan[r]).doc) \o Tail(plan[r])]
          /\ pc' = [pc EXCEPT ![r] = "prime"]
      BY <1>4a, RawFacts
    <3> QED
      BY <3>1 DEF Only, TypeOK
  <2> QED
    BY <1>4a, <2>1, RawPlans, ProgressOnly
<1>5. ASSUME NEW r \in Reqs, Read(r) PROVE ProgressInv' /\ PlanInv'
  <2>1. Reads(r) => Only(r)
    BY DEF Only, TypeOK, Reads
  <2> QED
    BY <1>1, <1>5, <2>1, ReadFacts, ReadProgress, ProgressOnly
<1>6. ASSUME NEW r \in Reqs, Register(r) PROVE ProgressInv' /\ PlanInv'
  <2>1. Registers(r) => Only(r)
    BY DEF Only, TypeOK, Registers
  <2> QED
    BY <1>1, <1>6, <2>1, RegisterFacts, RegisterProgress, ProgressOnly
<1>7. ASSUME NEW r \in Reqs, Gate(r) \/ LinksAndWrite(r), ~End(r) PROVE ProgressInv' /\ PlanInv'
  <2>1. /\ pc[r] \in {"gate", "links"} /\ pc'[r] \in {"links", "project"} /\ Only(r)
        /\ plan'[r] = plan[r] /\ got'[r] = got[r] /\ loaded'[r] = loaded[r]
        /\ visited'[r] = visited[r]
    BY <1>7 DEF Gate, LinksAndWrite, Goto, TypeOK, Only, locals
  <2>2. plan[r] = <<>> /\ got[r].reads = 0 /\ loaded[r] \subseteq visited[r]
    BY <2>1 DEF ProgressInv, Progress, Pipeline, PlanInv, Planned
  <2> QED
    BY <2>1, <2>2, NoPlan, ProgressOnly DEF Pipeline
<1>8. ASSUME NEW r \in Reqs, Project(r) \/ StoreError(r) PROVE ProgressInv' /\ PlanInv'
  BY <1>1, <1>8 DEF Project, StoreError
<1>9. ASSUME UNCHANGED <<locals, pc>> PROVE ProgressInv' /\ PlanInv'
  <2> SUFFICES ASSUME NEW q \in Reqs PROVE Progress(q)' /\ Planned(q)'
    BY DEF ProgressInv, PlanInv
  <2> QED
    BY <1>9, ProgressFrame DEF locals, ProgressInv, PlanInv
<1>10. CASE Restart
  BY <1>10, NoPlan DEF Restart, NoRead, ProgressInv, PlanInv
<1> QED
  BY <1>1, <1>2, <1>3, <1>4, <1>4a, <1>5, <1>6, <1>7, <1>8, <1>9, <1>10
     DEF Next, Advance, Sync, Bump, OperatorDies, Tick, vars, locals

LEMMA MetaInit == Init => TypeOK /\ ProgressInv /\ PlanInv
<1> SUFFICES ASSUME Init PROVE TypeOK /\ ProgressInv /\ PlanInv
  OBVIOUS
<1>1. MaxRev \in Nat \ {0} /\ MaxFaults \in Nat
  BY MetaAssumption
<1>2. rows \in [Docs -> 0..MaxRev]
  BY <1>1 DEF Init
<1>3. /\ bumps \in Seq([Docs -> 0..MaxRev]) /\ Version \in Nat
      /\ past \in Seq(0..Version) /\ Clock = 0
  <2>1. past = <<>> /\ Len(past) = 0
    BY DEF Init
  <2>2. CASE bumps = <<>>
    BY <2>1, <2>2 DEF Version, Clock
  <2>3. CASE bumps = <<rows>>
    <3>1. <<rows>> \in Seq([Docs -> 0..MaxRev]) /\ Len(<<rows>>) = 1
      BY <1>2
    <3> QED
      BY <2>1, <2>3, <3>1 DEF Version, Clock
  <2> QED
    BY <2>2, <2>3 DEF Init
<1>4. /\ ColdCache \in [Docs -> {None} \cup Meta]
      /\ \A d \in Docs \ InCode : ColdCache[d] = None \/ ColdCache[d].rev # 0
  BY <1>1 DEF ColdCache, Meta
<1>5. Blank \in [doc : Docs, now : 0..Clock, version : 0..Version, fetched : 0..Version]
  <2>1. (CHOOSE d \in Docs : TRUE) \in Docs
    BY MetaAssumption
  <2> QED
    BY <1>3, <2>1 DEF Blank
<1>6. TypeOK
  BY <1>1, <1>2, <1>3, <1>4, <1>5, EmptySeq DEF Init, TypeOK, PC, NoRead, Never
<1>7. ASSUME NEW r \in Reqs PROVE Progress(r) /\ Planned(r)
  <2>1. plan[r] = <<>> /\ pc[r] = "idle" /\ visited[r] = {} /\ got[r].reads = 0 /\ loaded[r] = {}
    BY DEF Init, NoRead
  <2>2. DOMAIN plan[r] = {}
    BY <2>1
  <2> QED
    BY <2>1, <2>2 DEF Progress, Planned, OneLoad, Priming, Pipeline
<1> QED
  BY <1>6, <1>7 DEF ProgressInv, PlanInv

\* What the registry and the requests hold is well formed: among it, a doctype that has
\* no definition is never cached as one (load() throws NotFoundError).
THEOREM TypeCorrect == Spec => []TypeOK
<1> DEFINE Inv == TypeOK /\ ProgressInv /\ PlanInv
<1>1. Inv /\ [Next]_vars => Inv'
  BY TypeNext, ProgressNext
<1> QED
  BY <1>1, MetaInit, PTL DEF Spec

\* Whatever other requests put in the cache, evict or migrate meanwhile and however the
\* Links and Tables run in circles, a request loads no doctype it has loaded, nor plans to
\* load one twice (loader.js: "Visited-set guards self/mutual reference"): it makes at most
\* one load() for each doctype.
THEOREM LoadsOnceCorrect == Spec => []LoadsOnce
<1> DEFINE Inv == TypeOK /\ ProgressInv /\ PlanInv
<1>1. Inv /\ [Next]_vars => Inv'
  BY TypeNext, ProgressNext
<1>2. Inv => LoadsOnce
  BY DEF PlanInv, Planned, OneLoad, LoadsOnce
<1> QED
  BY <1>1, <1>2, MetaInit, PTL DEF Spec

-----------------------------------------------------------------------------
(* Revisions and versions only grow *)

LEMMA HistoryFacts ==
    ASSUME TypeOK
    PROVE  /\ \A v \in 1..Version : bumps[v] \in [Docs -> 0..MaxRev]
           /\ \A t \in 1..Clock : past[t] \in 0..Version
           /\ \A d \in Docs : rows[d] \in 0..MaxRev
           /\ Version \in Nat /\ Clock \in Nat /\ MaxRev \in Nat /\ TTL \in Nat \ {0}
           /\ DOMAIN bumps = 1..Version /\ DOMAIN past = 1..Clock
<1>1. /\ \A v \in 1..Version : bumps[v] \in [Docs -> 0..MaxRev]
      /\ \A t \in 1..Clock : past[t] \in 0..Version
  BY ElementOfSeq DEF TypeOK, Version, Clock
<1>2. \A d \in Docs : rows[d] \in 0..MaxRev
  BY DEF TypeOK
<1> QED
  BY <1>1, <1>2, VersionTypes

\* bumps and past stay, or grow at the end.
LEMMA HistoryGrows ==
    ASSUME TypeOK, [Next]_vars
    PROVE  /\ \A v \in 1..Version : bumps'[v] = bumps[v]
           /\ \A t \in 1..Clock : past'[t] = past[t]
           /\ \/ UNCHANGED bumps /\ Version' = Version
              \/ Version' = Version + 1 /\ bumps'[Version'] = rows /\ UNCHANGED rows
           /\ \/ UNCHANGED past /\ Clock' = Clock
              \/ Clock' = Clock + 1 /\ past'[Clock'] = Version
<1>1. CASE UNCHANGED <<bumps, past>>
  BY <1>1 DEF Version, Clock
<1>2. CASE Bump
  <2>1. bumps' = Append(bumps, rows) /\ UNCHANGED <<past, rows>> /\ rows \in [Docs -> 0..MaxRev]
    BY <1>2 DEF Bump, TypeOK
  <2> QED
    BY <2>1, AppendProperties DEF TypeOK, Version, Clock
<1>3. CASE Tick
  <2>1. past' = Append(past, Version) /\ UNCHANGED bumps /\ Version \in 0..Version
    BY <1>3, VersionTypes DEF Tick
  <2> QED
    BY <2>1, AppendProperties DEF TypeOK, Version, Clock
<1>4. ASSUME NEW r \in Reqs,
             \/ \E d \in Docs : Start(r, d)
             \/ Poll(r) \/ ApplyVersion(r) \/ Visit(r) \/ RawRead(r) \/ Read(r) \/ Register(r)
             \/ Gate(r) \/ LinksAndWrite(r) \/ Project(r) \/ StoreError(r)
      PROVE  UNCHANGED <<bumps, past>>
  BY <1>4 DEF Start, Poll, ApplyVersion, Visit, RawRead, Read, Register, Gate, LinksAndWrite,
              Project, StoreError, database
<1>5. ASSUME \/ \E d \in Docs : Sync(d)
             \/ OperatorDies \/ Restart \/ UNCHANGED vars
      PROVE  UNCHANGED <<bumps, past>>
  BY <1>5 DEF Sync, OperatorDies, Restart, vars, database
<1> QED
  BY <1>1, <1>2, <1>3, <1>4, <1>5 DEF Next, Advance

LEMMA BumpsNext ==
    ASSUME TypeOK, BumpsInv, [Next]_vars PROVE BumpsInv'
<1>1. /\ Version \in Nat /\ DOMAIN bumps = 1..Version /\ Version' \in Nat
      /\ DOMAIN bumps' = 1..Version'
  <2>1. Version' = Version \/ Version' = Version + 1
    BY HistoryGrows
  <2>2. DOMAIN bumps' = 1..Version'
    <3>1. CASE UNCHANGED bumps
      BY <3>1, HistoryFacts DEF Version
    <3>2. CASE ~UNCHANGED bumps
      <4>1. Bump
        BY <3>2 DEF Next, Advance, Start, Poll, ApplyVersion, Visit, RawRead, Read, Register, Gate,
           LinksAndWrite, Project, StoreError, database, Sync, OperatorDies, Tick, Restart, vars
      <4>2. bumps' \in Seq([Docs -> 0..MaxRev])
        <5>1. rows \in [Docs -> 0..MaxRev]
          BY DEF TypeOK
        <5> QED
          BY <4>1, <5>1, AppendProperties DEF Bump, TypeOK
      <4> QED
        BY <4>2, LenProperties DEF Version
    <3> QED
      BY <3>1, <3>2
  <2> QED
    BY <2>1, <2>2, HistoryFacts
<1>2. ASSUME NEW v \in 1..Version, NEW d \in Docs
      PROVE  bumps'[v] = bumps[v] /\ bumps[v][d] \in Nat /\ bumps[v][d] <= rows[d]
             /\ rows[d] \in Nat /\ rows'[d] \in Nat /\ rows[d] <= rows'[d]
  <2>1. bumps'[v] = bumps[v]
    BY HistoryGrows
  <2>2. bumps[v][d] \in Nat
    BY HistoryFacts
  <2>3. bumps[v][d] <= rows[d]
    BY <1>1 DEF BumpsInv
  <2> QED
    BY <2>1, <2>2, <2>3, RowsGrow
<1>3. ASSUME NEW v \in 1..Version', NEW d \in Docs
      PROVE  /\ bumps'[v][d] <= rows'[d]
             /\ \A w \in v..Version' : bumps'[v][d] <= bumps'[w][d]
  <2>1. CASE Version' = Version
    BY <1>1, <1>2, <2>1, HistoryGrows DEF BumpsInv
  <2>2. CASE Version' = Version + 1 /\ bumps'[Version'] = rows /\ UNCHANGED rows
    <3>1. rows[d] \in Nat
      BY RowsGrow
    <3>2. CASE v = Version'
      BY <1>1, <2>2, <3>1, <3>2
    <3>3. CASE v # Version'
      <4>1. v \in 1..Version
        BY <1>1, <2>2, <3>3
      <4>2. ASSUME NEW w \in v..Version' PROVE bumps'[v][d] <= bumps'[w][d]
        <5>1. CASE w = Version'
          BY <1>2, <2>2, <4>1, <5>1
        <5>2. CASE w # Version'
          <6>1. w \in v..Version /\ w \in 1..Version
            BY <1>1, <2>2, <4>1, <5>2
          <6> QED
            BY <1>1, <1>2, <4>1, <6>1 DEF BumpsInv
        <5> QED
          BY <5>1, <5>2
      <4> QED
        BY <1>2, <2>2, <4>1, <4>2
    <3> QED
      BY <3>2, <3>3
  <2> QED
    BY <2>1, <2>2, HistoryGrows
<1> QED
  BY <1>1, <1>3 DEF BumpsInv

LEMMA PastNext ==
    ASSUME TypeOK, PastInv, [Next]_vars PROVE PastInv'
<1>1. /\ Clock \in Nat /\ DOMAIN past = 1..Clock /\ Version \in Nat
      /\ \A t \in 1..Clock : past[t] \in 0..Version
  BY HistoryFacts
<1>2. CASE UNCHANGED past
  BY <1>2 DEF PastInv, Clock
<1>3. CASE Tick
  <2>1. past' \in Seq(0..Version) /\ Clock' = Clock + 1
    BY <1>1, <1>3, AppendProperties DEF Tick, TypeOK, Clock
  <2>2. DOMAIN past' = 1..Clock'
    BY <2>1, LenProperties DEF Clock
  <2>3. past'[Clock'] = Version /\ \A t \in 1..Clock : past'[t] = past[t]
    BY <2>1, <1>1, HistoryGrows
  <2>4. ASSUME NEW i \in 1..Clock', NEW j \in i..Clock' PROVE past'[i] <= past'[j]
    <3>1. CASE j = Clock'
      BY <1>1, <2>1, <2>3, <3>1
    <3>2. CASE j # Clock'
      <4>1. i \in 1..Clock /\ j \in i..Clock /\ j \in 1..Clock
        BY <1>1, <2>1, <3>2
      <4>2. past[i] <= past[j]
        BY <1>1, <4>1 DEF PastInv
      <4> QED
        BY <2>3, <4>1, <4>2
    <3> QED
      BY <3>1, <3>2
  <2> QED
    BY <2>2, <2>4 DEF PastInv
<1>4. ASSUME ~Tick PROVE UNCHANGED past
  BY <1>4 DEF Next, Advance, Start, Poll, ApplyVersion, Visit, RawRead, Read, Register, Gate,
     LinksAndWrite, Project, StoreError, database, Sync, Bump, OperatorDies, Restart, vars
<1> QED
  BY <1>2, <1>3, <1>4

LEMMA PublishedGrows ==
    ASSUME TypeOK, BumpsInv, NEW d \in Docs, NEW w \in 0..Version
    PROVE  /\ Published(w)[d] \in Nat /\ Published(w)[d] <= rows[d]
           /\ \A v \in 0..w : Published(v)[d] <= Published(w)[d]
<1>1. /\ Version \in Nat /\ rows[d] \in Nat /\ DOMAIN bumps = 1..Version
      /\ \A v \in 1..Version : bumps[v][d] \in Nat
  BY HistoryFacts
<1>2. \A v \in 0..Version : Published(v)[d] = IF v = 0 THEN 0 ELSE bumps[v][d]
  BY DEF Published
<1> QED
  BY <1>1, <1>2 DEF BumpsInv

LEMMA PublishedKept ==
    ASSUME TypeOK, [Next]_vars
    PROVE  \A v \in 0..Version : Published(v)' = Published(v)
<1> SUFFICES ASSUME NEW v \in 0..Version PROVE Published(v)' = Published(v)
  OBVIOUS
<1>1. v # 0 => v \in 1..Version
  BY HistoryFacts
<1> QED
  BY <1>1, HistoryGrows DEF Published

\* What a request is due has been published, no later than the tick it arrived at.
LEMMA DueFacts ==
    ASSUME TypeOK, PastInv, NEW r \in Reqs
    PROVE  Due(r) \in 0..Version /\ Due(r) <= PastAt(req[r].now) /\ PastAt(req[r].now) \in 0..Version
<1>1. /\ Clock \in Nat /\ TTL \in Nat \ {0} /\ Version \in Nat /\ req[r].now \in 0..Clock
      /\ \A t \in 1..Clock : past[t] \in 0..Version
      /\ DOMAIN past = 1..Clock
  BY HistoryFacts DEF TypeOK
<1>2. CASE req[r].now < TTL
  BY <1>1, <1>2 DEF Due, PastAt
<1>3. CASE ~(req[r].now < TTL)
  <2>1. req[r].now - TTL + 1 \in 1..Clock /\ req[r].now \in (req[r].now - TTL + 1)..Clock
        /\ req[r].now # 0 /\ req[r].now \in 1..Clock
    <3>1. req[r].now \in Int /\ TTL \in Int /\ Clock \in Int /\ TTL >= 1 /\ req[r].now <= Clock
      BY <1>1
    <3>2. req[r].now >= TTL
      BY <1>3, <3>1
    <3> QED
      BY <3>1, <3>2
  <2>2. Due(r) = past[req[r].now - TTL + 1] /\ PastAt(req[r].now) = past[req[r].now]
    BY <1>3, <2>1 DEF Due, PastAt
  <2> QED
    BY <1>1, <2>1, <2>2 DEF PastInv
<1> QED
  BY <1>2, <1>3

\* Time passing changes none of it.
LEMMA PastKept ==
    ASSUME TypeOK, [Next]_vars
    PROVE  /\ \A t \in 0..Clock : PastAt(t)' = PastAt(t)
           /\ \A r \in Reqs : req'[r] = req[r] => Due(r)' = Due(r)
<1>1. /\ Clock \in Nat /\ TTL \in Nat \ {0} /\ \A r \in Reqs : req[r].now \in 0..Clock
  BY HistoryFacts DEF TypeOK
<1>2. \A t \in 1..Clock : past'[t] = past[t]
  BY HistoryGrows
<1>3. ASSUME NEW t \in 0..Clock PROVE PastAt(t)' = PastAt(t)
  <2>1. t # 0 => t \in 1..Clock
    BY <1>1
  <2> QED
    BY <1>2, <2>1 DEF PastAt
<1>4. ASSUME NEW r \in Reqs, req'[r] = req[r] PROVE Due(r)' = Due(r)
  <2>1. ~(req[r].now < TTL) => req[r].now - TTL + 1 \in 1..Clock
    BY <1>1
  <2> QED
    BY <1>2, <1>4, <2>1 DEF Due
<1> QED
  BY <1>3, <1>4

-----------------------------------------------------------------------------
(* One request at a time: what it is served with is not stale *)

StaleInv == BumpsInv /\ PastInv /\ SeenInv /\ CacheFollowsSeen

MetaInv == TypeOK /\ ProgressInv /\ PlanInv

\* What r has half read is no older than the registry's version.
GotFresh(r) == got[r].reads > 0 => got[r].rev >= Published(seen)[Head(plan[r]).doc]

CacheFresh == \A d \in Docs : Cached(d) => cache[d].rev >= Published(seen)[d]

CheckedFresh == checkedAt # Never => seen >= PastAt(checkedAt)

LEMMA StaleParts ==
    SeenInv /\ CacheFollowsSeen <=>
        CheckedFresh /\ CacheFresh /\ \A r \in Reqs : Fresh(r) /\ GotFresh(r)
  BY DEF SeenInv, CacheFollowsSeen, CheckedFresh, CacheFresh, GotFresh

LEMMA SeenTypes ==
    ASSUME TypeOK
    PROVE  /\ seen \in 0..Version /\ seen \in Int /\ Version \in Nat
           /\ checkedAt # Never => checkedAt \in 0..Clock
  BY HistoryFacts DEF TypeOK, Never

\* The registry is left alone: what it knows keeps being true.
LEMMA RegistryKept ==
    ASSUME MetaInv, [Next]_vars, StaleInv, UNCHANGED registry
    PROVE  CheckedFresh' /\ CacheFresh' /\ Published(seen)' = Published(seen)
<1>1. seen' = seen /\ cache' = cache /\ checkedAt' = checkedAt
  BY DEF registry
<1>2. Published(seen)' = Published(seen)
  BY <1>1, PublishedKept, SeenTypes DEF MetaInv, Published
<1>3. checkedAt # Never => PastAt(checkedAt)' = PastAt(checkedAt)
  BY <1>1, PastKept, SeenTypes DEF MetaInv, PastAt
<1> QED
  BY <1>1, <1>2, <1>3, StaleParts DEF StaleInv, CheckedFresh, CacheFresh, Cached

\* ... and r's locals are, too.
LEMMA FreshFrame ==
    ASSUME MetaInv, [Next]_vars, StaleInv, UNCHANGED registry, NEW r \in Reqs,
           pc'[r] = pc[r], req'[r] = req[r], plan'[r] = plan[r], got'[r] = got[r]
    PROVE  Fresh(r)' /\ GotFresh(r)'
<1>1. seen' = seen /\ Published(seen)' = Published(seen)
  BY RegistryKept DEF registry
<1>2. Fresh(r) /\ GotFresh(r)
  BY StaleParts DEF StaleInv
<1>3. Due(r)' = Due(r)
  BY PastKept DEF MetaInv
<1>4. PastAt(req[r].now)' = PastAt(req[r].now)
  <2>1. req[r].now \in 0..Clock
    BY DEF MetaInv, TypeOK
  <2> QED
    BY <2>1, PastKept DEF MetaInv, PastAt
<1>5. Fresh(r)'
  BY <1>1, <1>2, <1>3, <1>4 DEF Fresh
<1>6. GotFresh(r)'
  BY <1>1, <1>2 DEF GotFresh
<1> QED
  BY <1>5, <1>6

\* A request that is over, or is past the cache, is owed nothing.
LEMMA FreshDone ==
    ASSUME NEW r \in Reqs, pc'[r] \in {"idle", "links", "project"}, got'[r].reads = 0
    PROVE  Fresh(r)' /\ GotFresh(r)'
  BY DEF Fresh, GotFresh, Priming

LEMMA StartFresh ==
    ASSUME MetaInv, [Next]_vars, StaleInv, NEW r \in Reqs, NEW d \in Docs, Start(r, d)
    PROVE  Fresh(r)' /\ GotFresh(r)'
<1>1. /\ pc[r] = "idle" /\ got'[r] = got[r] /\ UNCHANGED <<database, registry>>
      /\ req'[r].now = Clock /\ req'[r].version = seen
      /\ pc'[r] = IF WithinTtl(Clock) THEN "prime" ELSE "poll"
  BY DEF Start, Goto, MetaInv, TypeOK
<1>2. got[r].reads = 0
  BY <1>1 DEF MetaInv, ProgressInv, Progress
<1>3. /\ Clock \in Nat /\ TTL \in Nat \ {0} /\ seen \in 0..Version /\ Version \in Nat
      /\ checkedAt # Never => checkedAt \in 0..Clock
      /\ DOMAIN past = 1..Clock /\ \A t \in 1..Clock : past[t] \in 0..Version
  BY HistoryFacts, SeenTypes DEF MetaInv
<1>4. seen' = seen /\ past' = past
  BY <1>1 DEF registry, database
<1>5. ASSUME WithinTtl(Clock) PROVE seen >= Due(r)'
  <2>1. Due(r)' = IF Clock < TTL THEN 0 ELSE past[Clock - TTL + 1]
    BY <1>1, <1>4 DEF Due
  <2>2. checkedAt # Never /\ Clock - checkedAt < TTL /\ checkedAt \in 0..Clock
        /\ seen >= PastAt(checkedAt)
    BY <1>3, <1>5 DEF WithinTtl, StaleInv, SeenInv
  <2>3. CASE Clock < TTL
    BY <1>3, <2>1, <2>3
  <2>4. CASE ~(Clock < TTL)
    <3>1. /\ Clock - TTL + 1 \in 1..Clock /\ checkedAt \in (Clock - TTL + 1)..Clock
          /\ checkedAt \in 1..Clock
      BY <1>3, <2>2, <2>4
    <3>2. past[Clock - TTL + 1] <= past[checkedAt]
      BY <1>3, <3>1 DEF StaleInv, PastInv
    <3>3. PastAt(checkedAt) = past[checkedAt]
      BY <3>1 DEF PastAt
    <3>4. past[Clock - TTL + 1] \in Int /\ past[checkedAt] \in Int /\ seen \in Int
      BY <1>3, <3>1
    <3> QED
      BY <2>1, <2>2, <2>4, <3>2, <3>3, <3>4
  <2> QED
    BY <2>3, <2>4
<1>6. Fresh(r)'
  BY <1>1, <1>4, <1>5 DEF Fresh, Priming
<1> QED
  BY <1>1, <1>2, <1>6 DEF GotFresh

LEMMA PollFresh ==
    ASSUME MetaInv, [Next]_vars, StaleInv, NEW r \in Reqs, Poll(r)
    PROVE  Fresh(r)' /\ GotFresh(r)'
<1>1. /\ pc[r] = "poll" /\ pc'[r] = "polled" /\ got'[r] = got[r]
      /\ req'[r].now = req[r].now /\ req'[r].version = req[r].version
      /\ req'[r].fetched = Version /\ UNCHANGED <<database, registry>>
  BY DEF Poll, Goto, MetaInv, TypeOK
<1>2. got[r].reads = 0 /\ req[r].version = seen
  BY <1>1 DEF MetaInv, ProgressInv, Progress, StaleInv, SeenInv, Fresh, Priming
<1>3. seen' = seen /\ past' = past
  BY <1>1 DEF registry, database
<1>4. PastAt(req[r].now) \in 0..Version /\ Version \in Nat
  BY DueFacts, HistoryFacts DEF MetaInv, StaleInv
<1>5. PastAt(req[r].now)' = PastAt(req[r].now)
  BY <1>1, <1>3 DEF PastAt
<1>6. Fresh(r)'
  BY <1>1, <1>2, <1>3, <1>4, <1>5 DEF Fresh, Priming
<1> QED
  BY <1>1, <1>2, <1>6 DEF GotFresh

LEMMA ApplyFresh ==
    ASSUME MetaInv, [Next]_vars, StaleInv, NEW r \in Reqs, ApplyVersion(r)
    PROVE  /\ Fresh(r)' /\ GotFresh(r)' /\ CheckedFresh' /\ CacheFresh'
<1>1. /\ pc[r] = "polled" /\ pc'[r] = "prime" /\ got'[r] = got[r]
      /\ req'[r].now = req[r].now
      /\ seen' = req[r].fetched /\ checkedAt' = req[r].now /\ UNCHANGED database
      /\ cache' = IF req[r].fetched = req[r].version THEN cache ELSE [d \in Docs |-> None]
  BY DEF ApplyVersion, Goto, MetaInv, TypeOK
<1>2. got[r].reads = 0 /\ req[r].version = seen /\ req[r].fetched >= PastAt(req[r].now)
  BY <1>1 DEF MetaInv, ProgressInv, Progress, StaleInv, SeenInv, Fresh, Priming
<1>3. past' = past /\ bumps' = bumps
  BY <1>1 DEF database
<1>4. /\ Due(r) \in Int /\ PastAt(req[r].now) \in Int /\ Due(r) <= PastAt(req[r].now)
      /\ req[r].fetched \in Int
  <2>1. req[r].fetched \in 0..Version
    BY DEF MetaInv, TypeOK
  <2>2. /\ Due(r) \in 0..Version /\ Due(r) <= PastAt(req[r].now)
        /\ PastAt(req[r].now) \in 0..Version
    BY DueFacts DEF MetaInv, StaleInv
  <2>3. Version \in Nat
    BY HistoryFacts DEF MetaInv
  <2> QED
    BY <2>1, <2>2, <2>3
<1>5. PastAt(checkedAt)' = PastAt(req[r].now) /\ Due(r)' = Due(r)
  BY <1>1, <1>3 DEF PastAt, Due
<1>6. Fresh(r)' /\ CheckedFresh'
  BY <1>1, <1>2, <1>4, <1>5 DEF Fresh, CheckedFresh, Priming
<1>7. CacheFresh'
  <2>1. CASE req[r].fetched = req[r].version
    <3>1. Published(seen)' = Published(seen) /\ cache' = cache
      BY <1>1, <1>2, <1>3, <2>1 DEF Published
    <3> QED
      BY <3>1, StaleParts DEF StaleInv, CacheFresh, Cached
  <2>2. CASE req[r].fetched # req[r].version
    BY <1>1, <2>2 DEF CacheFresh, Cached
  <2> QED
    BY <2>1, <2>2
<1> QED
  BY <1>1, <1>2, <1>6, <1>7 DEF GotFresh

\* Between two awaits of a prime nothing is read from the registry but what is there.
LEMMA VisitFresh ==
    ASSUME MetaInv, [Next]_vars, StaleInv, NEW r \in Reqs, Visit(r) \/ RawRead(r)
    PROVE  Fresh(r)' /\ GotFresh(r)'
<1>1. /\ pc[r] \in {"prime", "raw"} /\ (pc[r] = "prime" => ~Head(plan[r]).load)
      /\ UNCHANGED <<database, registry, req, got>> /\ pc'[r] \in {"gate", "prime", "raw"}
  <2>1. CASE Visit(r)
    <3>1. pc'[r] \in {"gate", "prime", "raw"}
      <4>1. CASE Continue(r, Walked(r)) /\ Walked(r) \in Seq(Call)
        BY <2>1, <4>1, VisitFacts, ContinueFacts DEF MetaInv
      <4>2. CASE pc' = [pc EXCEPT ![r] = "raw"]
        BY <4>2 DEF MetaInv, TypeOK
      <4> QED
        BY <2>1, <4>1, <4>2, VisitFacts DEF MetaInv
    <3> QED
      BY <2>1, <3>1, VisitFacts DEF MetaInv
  <2>2. CASE RawRead(r)
    BY <2>2, RawFacts DEF MetaInv, TypeOK
  <2> QED
    BY <2>1, <2>2
<1>2. seen' = seen
  BY <1>1 DEF registry
<1>3. got[r].reads = 0
  <2>1. Progress(r) /\ got[r].reads \in 0..3
    BY DEF MetaInv, ProgressInv, TypeOK
  <2> QED
    BY <1>1, <2>1 DEF Progress
<1>4. Due(r)' = Due(r)
  BY <1>1, PastKept DEF MetaInv
<1>5. seen >= Due(r)
  BY <1>1 DEF StaleInv, SeenInv, Fresh, Priming
<1>6. Fresh(r)'
  BY <1>1, <1>2, <1>4, <1>5 DEF Fresh, Priming
<1> QED
  BY <1>1, <1>3, <1>6 DEF GotFresh

LEMMA ReadFresh ==
    ASSUME MetaInv, [Next]_vars, StaleInv, NEW r \in Reqs, Read(r)
    PROVE  Fresh(r)' /\ GotFresh(r)'
<1>1. CASE End(r)
  BY <1>1, EndFacts, FreshDone DEF NoRead, MetaInv
<1>2. CASE ~End(r)
  <2> DEFINE d == Head(plan[r]).doc
             rev == Add(got[r], rows[d]).rev
  <2>1. /\ pc[r] = "prime" /\ d \in Docs /\ UNCHANGED <<database, registry>> /\ Reads(r)
        /\ rev = rows[d] \/ (got[r].reads > 0 /\ rev = got[r].rev)
    BY <1>2, ReadFacts DEF MetaInv
  <2>2. /\ pc'[r] \in {"register", "prime"} /\ seen' = seen /\ req' = req /\ plan' = plan
        /\ got'[r] = Add(got[r], rows[d])
    BY <2>1 DEF Reads, registry, MetaInv, TypeOK
  <2>3. Fresh(r)'
    <3>1. Due(r)' = Due(r)
      BY <2>2, PastKept DEF MetaInv
    <3>2. seen >= Due(r)
      BY <2>1 DEF StaleInv, SeenInv, Fresh, Priming
    <3> QED
      BY <2>2, <3>1, <3>2 DEF Fresh, Priming
  <2>4. rev >= Published(seen)[d]
    <3>1. rows[d] >= Published(seen)[d]
      BY <2>1, SeenTypes, PublishedGrows, RowsGrow DEF MetaInv, StaleInv
    <3>2. got[r].reads > 0 => got[r].rev >= Published(seen)[d]
      BY StaleParts DEF StaleInv, GotFresh
    <3> QED
      BY <2>1, <3>1, <3>2
  <2>5. Published(seen)' = Published(seen)
    BY <2>1, RegistryKept
  <2> QED
    BY <2>2, <2>3, <2>4, <2>5 DEF GotFresh
<1> QED
  BY <1>1, <1>2

LEMMA RegisterFresh ==
    ASSUME MetaInv, [Next]_vars, StaleInv, NEW r \in Reqs, Register(r)
    PROVE  /\ Fresh(r)' /\ GotFresh(r)' /\ CheckedFresh' /\ CacheFresh'
<1>1. CASE End(r) /\ UNCHANGED cache
  <2>1. UNCHANGED registry
    BY <1>1, RegisterFacts DEF registry, MetaInv
  <2> QED
    BY <1>1, <2>1, EndFacts, FreshDone, RegistryKept DEF NoRead, MetaInv
<1>2. CASE ~(End(r) /\ UNCHANGED cache)
  <2> DEFINE d == Head(plan[r]).doc
  <2>1. /\ pc[r] = "register" /\ d \in Docs /\ got[r].reads > 0 /\ Registers(r)
        /\ UNCHANGED <<database, seen, checkedAt>>
    BY <1>2, RegisterFacts DEF MetaInv
  <2>2. /\ cache' = [cache EXCEPT ![d] = [rev |-> got[r].rev, fields |-> got[r].fields]]
        /\ req' = req /\ got'[r] = NoRead /\ pc'[r] \in {"gate", "prime"}
    BY <2>1 DEF Registers, MetaInv, TypeOK
  <2>3. Fresh(r)'
    <3>1. Due(r)' = Due(r)
      BY <2>2, PastKept DEF MetaInv
    <3>2. seen >= Due(r)
      BY <2>1 DEF StaleInv, SeenInv, Fresh, Priming
    <3> QED
      BY <2>1, <2>2, <3>1, <3>2 DEF Fresh, Priming
  <2>4. Published(seen)' = Published(seen)
    BY <2>1 DEF Published, database
  <2>5. got[r].rev >= Published(seen)[d] /\ CacheFresh
    BY <2>1, StaleParts DEF StaleInv, GotFresh
  <2>6. ASSUME NEW e \in Docs, Cached(e)' PROVE cache'[e].rev >= Published(seen)[e]
    BY <2>2, <2>5, <2>6 DEF CacheFresh, Cached, MetaInv, TypeOK
  <2>7. CacheFresh'
    BY <2>4, <2>6 DEF CacheFresh
  <2>8. CheckedFresh'
    BY <2>1, StaleParts DEF StaleInv, CheckedFresh, PastAt, database
  <2> QED
    BY <2>2, <2>3, <2>7, <2>8 DEF GotFresh, NoRead
<1> QED
  BY <1>1, <1>2

LEMMA StaleNext ==
    ASSUME Alone, MetaInv, [Next]_vars, StaleInv PROVE StaleInv'
<1>0. BumpsInv' /\ PastInv'
  BY BumpsNext, PastNext DEF MetaInv, StaleInv
<1>1. ASSUME NEW r \in Reqs, Fresh(r)', GotFresh(r)', CheckedFresh', CacheFresh' PROVE StaleInv'
  <2>1. \A q \in Reqs : q = r
    BY DEF Alone
  <2>2. SeenInv' /\ CacheFollowsSeen'
    BY <1>1, <2>1 DEF SeenInv, CacheFollowsSeen, CheckedFresh, CacheFresh, GotFresh
  <2> QED
    BY <1>0, <2>2 DEF StaleInv
<1>2. ASSUME NEW r \in Reqs, Fresh(r)', GotFresh(r)', UNCHANGED registry PROVE StaleInv'
  BY <1>1, <1>2, RegistryKept
<1>3. ASSUME NEW r \in Reqs, End(r), UNCHANGED registry PROVE StaleInv'
  BY <1>2, <1>3, EndFacts, FreshDone DEF NoRead, MetaInv
<1>4. ASSUME NEW r \in Reqs,
             \/ \E d \in Docs : Start(r, d)
             \/ Poll(r) \/ ApplyVersion(r) \/ Visit(r) \/ RawRead(r) \/ Read(r) \/ Register(r)
      PROVE  StaleInv'
  <2>1. ASSUME NEW d \in Docs, Start(r, d) PROVE StaleInv'
    BY <1>2, <2>1, StartFresh DEF Start
  <2>2. CASE Poll(r)
    BY <1>2, <2>2, PollFresh DEF Poll
  <2>3. CASE ApplyVersion(r)
    BY <1>1, <2>3, ApplyFresh
  <2>4. CASE Visit(r) \/ RawRead(r)
    BY <1>2, <2>4, VisitFresh DEF Visit, RawRead
  <2>5. CASE Read(r)
    BY <1>2, <2>5, ReadFresh DEF Read
  <2>6. CASE Register(r)
    BY <1>1, <2>6, RegisterFresh
  <2> QED
    BY <1>4, <2>1, <2>2, <2>3, <2>4, <2>5, <2>6
<1>5. ASSUME NEW r \in Reqs, Gate(r) \/ LinksAndWrite(r) \/ Project(r) \/ StoreError(r)
      PROVE  StaleInv'
  <2>1. CASE End(r)
    BY <1>3, <1>5, <2>1 DEF Gate, LinksAndWrite, Project, StoreError
  <2>2. CASE ~End(r)
    <3>1. /\ pc[r] \in {"gate", "links"} /\ pc'[r] \in {"links", "project"}
          /\ got'[r] = got[r] /\ UNCHANGED registry
      BY <1>5, <2>2 DEF Gate, LinksAndWrite, Project, StoreError, Goto, locals, MetaInv, TypeOK
    <3>2. got[r].reads = 0
      BY <3>1 DEF MetaInv, ProgressInv, Progress
    <3> QED
      BY <1>2, <3>1, <3>2, FreshDone
  <2> QED
    BY <2>1, <2>2
<1>6. ASSUME UNCHANGED <<registry, locals, pc>> PROVE StaleInv'
  <2>1. CheckedFresh' /\ CacheFresh'
    BY <1>6, RegistryKept
  <2>2. \A r \in Reqs : Fresh(r)' /\ GotFresh(r)'
    BY <1>6, FreshFrame DEF locals
  <2>3. SeenInv' /\ CacheFollowsSeen'
    BY <2>1, <2>2 DEF SeenInv, CacheFollowsSeen, CheckedFresh, CacheFresh, GotFresh
  <2> QED
    BY <1>0, <2>3 DEF StaleInv
<1>7. CASE Restart
  <2>1. /\ seen' = 0 /\ checkedAt' = Never /\ cache' = ColdCache
        /\ \A r \in Reqs : pc'[r] = "idle" /\ got'[r].reads = 0
    BY <1>7 DEF Restart, NoRead
  <2>2. CheckedFresh' /\ \A r \in Reqs : Fresh(r)' /\ GotFresh(r)'
    BY <2>1, FreshDone DEF CheckedFresh
  <2>3. CacheFresh'
    BY <2>1 DEF CacheFresh, Cached, ColdCache, Published
  <2>4. SeenInv' /\ CacheFollowsSeen'
    BY <2>2, <2>3 DEF SeenInv, CacheFollowsSeen, CheckedFresh, CacheFresh, GotFresh
  <2> QED
    BY <1>0, <2>4 DEF StaleInv
<1> QED
  BY <1>4, <1>5, <1>6, <1>7 
     DEF Next, Advance, Sync, Bump, OperatorDies, Tick, vars, registry, locals

-----------------------------------------------------------------------------
(* One request at a time: what its pipeline looks up is in the cache *)

\* What the rows refer to does not change in a step that leaves them alone.
LEMMA StoredKept ==
    ASSUME UNCHANGED rows PROVE \A d \in Docs : StoredTargets(d)' = StoredTargets(d)
  BY DEF StoredTargets, Stored

\* Nothing of the request, of the cache and of the rows changes.
LEMMA PrimedFrame ==
    ASSUME MetaInv, NEW r \in Reqs, Primed(r), req'[r].doc = req[r].doc, plan'[r] = plan[r],
           visited'[r] = visited[r], got'[r] = got[r], UNCHANGED rows,
           pc[r] # "raw" \/ pc'[r] = pc[r], cache' = cache \/ visited[r] = {}
    PROVE  Primed(r)'
<1>1. \A d : WillVisit(r, d)' <=> WillVisit(r, d)
  BY DEF WillVisit
<1>2. ASSUME NEW d \in visited[r]
      PROVE  \/ Cached(d)' /\ \A t \in Targets(d)' : WillVisit(r, t)'
             \/ [doc |-> d, load |-> TRUE] \in ToSet(plan'[r])
             \/ pc'[r] = "raw" /\ d = Head(plan'[r]).doc
  <2>1. cache' = cache
    BY <1>2
  <2>2. (Cached(d)' <=> Cached(d)) /\ Targets(d)' = Targets(d)
    BY <2>1 DEF Cached, Targets
  <2> QED
    BY <1>1, <1>2, <2>2 DEF Primed
<1> QED
  BY <1>1, <1>2, StoredKept DEF Primed

LEMMA StartPrimed ==
    ASSUME MetaInv, NEW r \in Reqs, NEW d \in Docs, Start(r, d) PROVE Primed(r)'
<1>1. /\ pc[r] = "idle" /\ req'[r].doc = d /\ visited'[r] = visited[r]
      /\ plan'[r] = Visits(<<d>>) /\ got'[r] = got[r]
  BY DEF Start, MetaInv, TypeOK
<1>2. visited[r] = {} /\ got[r].reads = 0
  BY <1>1 DEF MetaInv, ProgressInv, Progress
<1>3. <<d>> \in Seq(Docs) /\ DOMAIN <<d>> = {1} /\ <<d>>[1] = d
  OBVIOUS
<1>4. [doc |-> d, load |-> FALSE] \in ToSet(Visits(<<d>>))
  <2>1. d \in ToSet(<<d>>)
    BY <1>3 DEF ToSet
  <2> QED
    BY <1>3, <2>1, VisitsFacts
<1>5. \A e \in Docs : [doc |-> e, load |-> TRUE] \notin ToSet(Visits(<<d>>))
  BY <1>3, VisitsFacts DEF ToSet
<1> QED
  BY <1>1, <1>2, <1>4, <1>5 DEF Primed, WillVisit

\* Calls without loads take the place of the visit at the head of the plan.
LEMMA WillVisitKept ==
    ASSUME MetaInv, NEW r \in Reqs, plan[r] # <<>>, ~Head(plan[r]).load,
           NEW calls \in Seq(Call), plan'[r] = calls \o Tail(plan[r]),
           visited'[r] = visited[r] \cup {Head(plan[r]).doc}
    PROVE  /\ \A t : WillVisit(r, t) => WillVisit(r, t)'
           /\ ToSet(plan'[r]) = ToSet(calls) \cup ToSet(Tail(plan[r]))
           /\ \A c \in ToSet(plan[r]) : c.load => c \in ToSet(plan'[r])
<1> DEFINE rest == Tail(plan[r])
<1>1. /\ plan[r] \in Seq(Call) /\ rest \in Seq(Call)
      /\ \A c \in ToSet(plan[r]) : c = Head(plan[r]) \/ c \in ToSet(rest)
  BY TailFacts DEF MetaInv, TypeOK
<1>0. plan'[r] = calls \o rest
  OBVIOUS
<1> HIDE DEF rest
<1>2. ToSet(plan'[r]) = ToSet(calls) \cup ToSet(rest)
  <2>1. ToSet(calls \o rest) = ToSet(calls) \cup ToSet(rest)
    BY <1>1, ConcatFacts
  <2> QED
    BY <1>0, <2>1
<1>3. ASSUME NEW t, WillVisit(r, t) PROVE WillVisit(r, t)'
  <2>1. CASE [doc |-> t, load |-> FALSE] = Head(plan[r])
    <3>1. t = Head(plan[r]).doc
      BY <2>1
    <3> QED
      BY <3>1 DEF WillVisit
  <2>2. CASE [doc |-> t, load |-> FALSE] # Head(plan[r])
    BY <1>1, <1>2, <1>3, <2>2 DEF WillVisit
  <2> QED
    BY <2>1, <2>2
<1> QED
  BY <1>1, <1>2, <1>3 DEF rest

LEMMA VisitPrimed ==
    ASSUME MetaInv, NEW r \in Reqs, Primed(r), Visit(r) PROVE Primed(r)'
<1> DEFINE d == Head(plan[r]).doc
           rest == Tail(plan[r])
<1>1. /\ pc[r] = "prime" /\ plan[r] # <<>> /\ ~Head(plan[r]).load /\ d \in Docs
      /\ visited'[r] = visited[r] \cup {d} /\ visited[r] \subseteq Docs
      /\ UNCHANGED <<database, registry, req, got>>
  BY VisitFacts DEF MetaInv, TypeOK
<1>2. rows' = rows /\ cache' = cache /\ \A e : Targets(e)' = Targets(e) /\ (Cached(e)' <=> Cached(e))
  BY <1>1 DEF database, registry, Targets, Cached
<1>3. got[r].reads = 0
  <2>1. Progress(r) /\ got[r].reads \in 0..3
    BY DEF MetaInv, ProgressInv, TypeOK
  <2> QED
    BY <1>1, <2>1 DEF Progress
<1> HIDE DEF d, rest
<1>4. CASE /\ Continue(r, Walked(r)) /\ Walked(r) \in Seq(Call)
           /\ \A i \in DOMAIN Walked(r) : ~Walked(r)[i].load
           /\ d \notin visited[r] =>
                 /\ Cached(d)
                 /\ \A t \in Targets(d) : [doc |-> t, load |-> FALSE] \in ToSet(Walked(r))
  <2>1. plan'[r] = Walked(r) \o rest
    BY <1>1, <1>4, ContinueFacts DEF MetaInv, rest
  <2>2. /\ \A t : WillVisit(r, t) => WillVisit(r, t)'
        /\ ToSet(plan'[r]) = ToSet(Walked(r)) \cup ToSet(rest)
        /\ \A c \in ToSet(plan[r]) : c.load => c \in ToSet(plan'[r])
    BY <1>1, <1>4, <2>1, WillVisitKept DEF d, rest
  <2>3. \A c \in ToSet(Walked(r)) : ~c.load
    BY <1>4 DEF ToSet
  <2>4. \A e \in Docs : [doc |-> e, load |-> TRUE] \in ToSet(plan'[r]) =>
                          [doc |-> e, load |-> TRUE] \in ToSet(plan[r])
    <3>1. rest \in Seq(Call) /\ \A c \in ToSet(rest) : c \in ToSet(plan[r])
      <4>1. /\ rest \in Seq(Call)
            /\ \A i \in DOMAIN rest : i + 1 \in DOMAIN plan[r] /\ rest[i] = plan[r][i + 1]
        BY <1>1, TailFacts DEF MetaInv, TypeOK, rest
      <4> QED
        BY <4>1 DEF ToSet
    <3> QED
      BY <2>2, <2>3, <3>1
  <2>5. ASSUME NEW e \in visited'[r]
        PROVE  \/ Cached(e) /\ \A t \in Targets(e) : WillVisit(r, t)'
               \/ [doc |-> e, load |-> TRUE] \in ToSet(plan'[r])
    <3>1. CASE e \in visited[r]
      BY <1>1, <2>2, <3>1 DEF Primed
    <3>2. CASE e \notin visited[r]
      <4>1. e = d
        BY <1>1, <3>2
      <4> QED
        BY <1>4, <2>2, <3>2, <4>1 DEF WillVisit
    <3> QED
      BY <3>1, <3>2
  <2> QED
    BY <1>1, <1>2, <1>3, <2>2, <2>4, <2>5, StoredKept DEF Primed
<1>5. CASE d \notin visited[r] /\ UNCHANGED plan /\ pc' = [pc EXCEPT ![r] = "raw"]
  <2>1. pc'[r] = "raw" /\ plan'[r] = plan[r]
    BY <1>5 DEF MetaInv, TypeOK
  <2>2. \A t : WillVisit(r, t) => WillVisit(r, t)'
    BY <1>1, <2>1 DEF WillVisit
  <2>3. ASSUME NEW e \in visited'[r]
        PROVE  \/ Cached(e) /\ \A t \in Targets(e) : WillVisit(r, t)'
               \/ [doc |-> e, load |-> TRUE] \in ToSet(plan'[r])
               \/ e = d
    BY <1>1, <2>1, <2>2 DEF Primed
  <2> QED
    BY <1>1, <1>2, <1>3, <2>1, <2>2, <2>3, StoredKept DEF Primed, d
<1> QED
  BY <1>4, <1>5, VisitFacts DEF MetaInv, d

LEMMA RawPrimed ==
    ASSUME MetaInv, NEW r \in Reqs, Primed(r), RawRead(r) PROVE Primed(r)'
<1> DEFINE d == Head(plan[r]).doc
           rest == Tail(plan[r])
<1>1. /\ pc[r] = "raw" /\ plan[r] # <<>> /\ d \in Docs /\ pc'[r] = "prime"
      /\ Fetched(d) \in Seq(Call) /\ plan'[r] = Fetched(d) \o rest
      /\ UNCHANGED <<database, registry, req, visited, got>>
  BY RawFacts DEF MetaInv, TypeOK
<1>2. /\ ~Head(plan[r]).load /\ d \in visited[r] /\ got[r].reads = 0 /\ visited[r] \subseteq Docs
      /\ \A c \in ToSet(plan[r]) : c.load => c.doc # d
  <2>1. Planned(r) /\ Progress(r) /\ visited[r] \subseteq Docs
    BY DEF MetaInv, PlanInv, ProgressInv, TypeOK
  <2>2. \A i \in DOMAIN plan[r] : plan[r][i].load => plan[r][i].doc # d
    BY <1>1, <2>1 DEF Planned
  <2>3. \A c \in ToSet(plan[r]) : \E i \in DOMAIN plan[r] : c = plan[r][i]
    BY DEF ToSet
  <2>4. ~Head(plan[r]).load /\ d \in visited[r] /\ got[r].reads = 0
    BY <1>1, <2>1 DEF Planned, Progress
  <2> HIDE DEF d
  <2> QED
    BY <2>1, <2>2, <2>3, <2>4
<1>3. rows' = rows /\ \A e : Targets(e)' = Targets(e) /\ (Cached(e)' <=> Cached(e))
  BY <1>1 DEF database, registry, Targets, Cached
<1>4. /\ LoadsOnly(Fetched(d), d) /\ [doc |-> d, load |-> TRUE] \in ToSet(Fetched(d))
      /\ \A t \in StoredTargets(d) : [doc |-> t, load |-> FALSE] \in ToSet(Fetched(d))
  BY <1>1, FetchedFacts DEF MetaInv
<1>5. rest \in Seq(Call) /\ \A c \in ToSet(rest) : c \in ToSet(plan[r])
  <2>1. /\ rest \in Seq(Call)
        /\ \A i \in DOMAIN rest : i + 1 \in DOMAIN plan[r] /\ rest[i] = plan[r][i + 1]
    BY <1>1, TailFacts DEF MetaInv, TypeOK
  <2> QED
    BY <2>1 DEF ToSet
<1>6. visited'[r] = visited[r] \cup {d}
  BY <1>1, <1>2
<1> HIDE DEF d, rest
<1>7. /\ \A t : WillVisit(r, t) => WillVisit(r, t)'
      /\ ToSet(plan'[r]) = ToSet(Fetched(d)) \cup ToSet(rest)
      /\ \A c \in ToSet(plan[r]) : c.load => c \in ToSet(plan'[r])
  BY <1>1, <1>2, <1>6, WillVisitKept DEF d, rest
<1>8. ASSUME NEW e \in visited[r]
      PROVE  \/ Cached(e) /\ \A t \in Targets(e) : WillVisit(r, t)'
             \/ [doc |-> e, load |-> TRUE] \in ToSet(plan'[r])
  <2>1. CASE e = d
    BY <1>4, <1>7, <2>1
  <2>2. CASE e # d
    BY <1>7, <2>2 DEF Primed, d
  <2> QED
    BY <2>1, <2>2
<1>9. ASSUME NEW e \in Docs, [doc |-> e, load |-> TRUE] \in ToSet(plan'[r]),
             NEW t \in StoredTargets(e)
      PROVE  WillVisit(r, t)'
  <2>1. CASE [doc |-> e, load |-> TRUE] \in ToSet(Fetched(d))
    <3>1. e = d
      BY <2>1, <1>4 DEF LoadsOnly, ToSet
    <3> QED
      BY <1>4, <1>7, <1>9, <3>1 DEF WillVisit
  <2>2. CASE [doc |-> e, load |-> TRUE] \in ToSet(rest)
    BY <1>5, <1>7, <1>9, <2>2 DEF Primed
  <2> QED
    BY <1>7, <1>9, <2>1, <2>2
<1> QED
  BY <1>1, <1>2, <1>3, <1>7, <1>8, <1>9, StoredKept DEF Primed

LEMMA ReadPrimed ==
    ASSUME MetaInv, NEW r \in Reqs, Primed(r), Read(r), ~End(r) PROVE Primed(r)'
<1> DEFINE d == Head(plan[r]).doc
<1>1. /\ pc[r] = "prime" /\ d \in Docs /\ UNCHANGED <<database, registry>> /\ Reads(r)
      /\ Add(got[r], rows[d]).reads = got[r].reads + 1
      /\ Add(got[r], rows[d]).fields = IF got[r].reads = 1 THEN rows[d] ELSE got[r].fields
  BY ReadFacts DEF MetaInv
<1>2. /\ req' = req /\ plan' = plan /\ visited' = visited /\ got'[r] = Add(got[r], rows[d])
      /\ cache' = cache /\ rows' = rows
  BY <1>1 DEF Reads, registry, database, MetaInv, TypeOK
<1>3. got'[r].reads > 1 => got'[r].fields = rows[d]
  <2>1. got[r].reads \in 0..3
    BY DEF MetaInv, TypeOK
  <2>2. got[r].reads > 1 => got[r].fields = rows[d]
    BY DEF Primed
  <2> QED
    BY <1>1, <1>2, <2>1, <2>2
<1>4. \A e : /\ WillVisit(r, e)' <=> WillVisit(r, e)
             /\ Targets(e)' = Targets(e) /\ (Cached(e)' <=> Cached(e))
  BY <1>2 DEF WillVisit, Targets, Cached
<1>5. \A e \in visited[r] : \/ Cached(e) /\ \A t \in Targets(e) : WillVisit(r, t)
                            \/ [doc |-> e, load |-> TRUE] \in ToSet(plan[r])
  BY <1>1 DEF Primed
<1> QED
  BY <1>2, <1>3, <1>4, <1>5, StoredKept DEF Primed

LEMMA RegisterPrimed ==
    ASSUME MetaInv, NEW r \in Reqs, Primed(r), Registers(r), Register(r) PROVE Primed(r)'
<1>0. PICK d \in Docs : d = Head(plan[r]).doc
  BY RegisterFacts DEF MetaInv
<1> DEFINE rest == Tail(plan[r])
           m == [rev |-> got[r].rev, fields |-> got[r].fields]
<1>1. /\ pc[r] = "register" /\ plan[r] # <<>> /\ Head(plan[r]).load /\ d \in Docs
      /\ got[r].rev \in 1..rows[d] /\ UNCHANGED database
  BY <1>0, RegisterFacts DEF MetaInv
<1>2. plan[r] \in Seq(Call) /\ visited[r] \subseteq Docs /\ rows[d] \in 0..MaxRev /\ MaxRev \in Nat
  BY <1>1, MetaAssumption DEF MetaInv, TypeOK
<1>3. /\ plan'[r] = rest /\ visited' = visited /\ req' = req /\ got'[r].reads = 0
      /\ cache' = [cache EXCEPT ![d] = m] /\ rows' = rows /\ pc'[r] # "raw"
  BY <1>0, <1>1 DEF Registers, MetaInv, TypeOK, database, NoRead
<1>4. /\ rest \in Seq(Call)
      /\ \A c \in ToSet(plan[r]) : c = Head(plan[r]) \/ c \in ToSet(rest)
      /\ \A c \in ToSet(rest) : c \in ToSet(plan[r])
  <2>1. /\ rest \in Seq(Call)
        /\ \A i \in DOMAIN rest : i + 1 \in DOMAIN plan[r] /\ rest[i] = plan[r][i + 1]
    BY <1>1, <1>2, TailFacts
  <2>2. \A c \in ToSet(rest) : c \in ToSet(plan[r])
    BY <2>1 DEF ToSet
  <2> QED
    BY <1>1, <1>2, <2>1, <2>2, TailFacts
<1>5. got[r].fields = rows[d] /\ rows[d] > 0
  <2>1. got[r].reads = 3
    BY <1>1 DEF MetaInv, ProgressInv, Progress
  <2> QED
    BY <1>0, <1>1, <1>2, <2>1 DEF Primed
<1>6. Cached(d)' /\ Targets(d)' = StoredTargets(d)
  <2>1. m # None
    <3>1. m \in [rev : Nat, fields : Nat]
      BY <1>1, <1>2, <1>5
    <3> QED
      BY <3>1, MetaAssumption
  <2>2. cache'[d] = m
    BY <1>1, <1>3 DEF MetaInv, TypeOK
  <2>3. cache'[d].fields = rows[d]
    BY <1>5, <2>2
  <2> HIDE DEF m
  <2>4. Stored(Tables, d) = Tables[d][rows[d]] /\ Stored(Links, d) = Links[d][rows[d]]
    BY <1>2, <1>5 DEF Stored
  <2>5. StoredTargets(d) = ToSet(Tables[d][rows[d]]) \cup ToSet(Links[d][rows[d]])
    BY <2>4 DEF StoredTargets
  <2>6. Targets(d)' = ToSet(Tables[d][cache'[d].fields]) \cup ToSet(Links[d][cache'[d].fields])
    BY DEF Targets
  <2>7. Targets(d)' = StoredTargets(d)
    BY <2>3, <2>5, <2>6
  <2> QED
    BY <2>1, <2>2, <2>7 DEF Cached
<1>7. \A e \in Docs \ {d} : (Cached(e)' <=> Cached(e)) /\ Targets(e)' = Targets(e)
  <2>1. \A e \in Docs \ {d} : cache'[e] = cache[e]
    BY <1>3 DEF MetaInv, TypeOK
  <2> QED
    BY <2>1 DEF Cached, Targets
<1>8. [doc |-> d, load |-> TRUE] \in ToSet(plan[r])
  <2>1. Head(plan[r]) \in Call /\ Head(plan[r]) = plan[r][1] /\ 1 \in DOMAIN plan[r]
    BY <1>1, <1>2, TailFacts
  <2>2. Head(plan[r]) = [doc |-> d, load |-> TRUE]
    BY <1>0, <1>1, <2>1 DEF Call
  <2> QED
    BY <2>1, <2>2 DEF ToSet
<1> HIDE DEF rest, m
<1>9. ASSUME NEW t, WillVisit(r, t) PROVE WillVisit(r, t)'
  <2>1. [doc |-> t, load |-> FALSE] # Head(plan[r])
    BY <1>1
  <2> QED
    BY <1>3, <1>4, <1>9, <2>1 DEF WillVisit
<1>10. ASSUME NEW e \in visited[r]
       PROVE  \/ Cached(e)' /\ \A t \in Targets(e)' : WillVisit(r, t)'
              \/ [doc |-> e, load |-> TRUE] \in ToSet(plan'[r])
  <2>1. CASE e = d
    <3>1. \A t \in StoredTargets(d) : WillVisit(r, t)
      BY <1>1, <1>8 DEF Primed
    <3>2. Targets(e)' = StoredTargets(d) /\ Cached(e)'
      BY <1>6, <2>1
    <3> QED
      BY <1>9, <3>1, <3>2
  <2>2. CASE e # d
    <3>1. [doc |-> e, load |-> TRUE] # Head(plan[r])
      BY <1>0, <2>2
    <3>2. \/ Cached(e) /\ \A t \in Targets(e) : WillVisit(r, t)
          \/ [doc |-> e, load |-> TRUE] \in ToSet(plan[r])
      BY <1>1 DEF Primed
    <3> QED
      BY <1>2, <1>3, <1>4, <1>7, <1>9, <2>2, <3>1, <3>2
  <2> QED
    BY <2>1, <2>2
<1>11. ASSUME NEW e \in Docs, [doc |-> e, load |-> TRUE] \in ToSet(plan'[r])
       PROVE  \A t \in StoredTargets(e) : WillVisit(r, t)'
  BY <1>3, <1>4, <1>9, <1>11 DEF Primed
<1>12. WillVisit(r, req[r].doc)'
  <2>1. WillVisit(r, req[r].doc)
    BY DEF Primed
  <2>2. req[r].doc \in visited'[r] \/ [doc |-> req[r].doc, load |-> FALSE] \in ToSet(plan'[r])
    BY <1>9, <2>1 DEF WillVisit
  <2> QED
    BY <1>3, <2>2 DEF WillVisit
<1> QED
  BY <1>3, <1>10, <1>11, <1>12, StoredKept DEF Primed, WillVisit

LEMMA PrimeNext ==
    ASSUME Alone, MetaInv, [Next]_vars, PrimeInv PROVE PrimeInv'
<1>1. ASSUME NEW r \in Reqs, pc'[r] = "idle" \/ Primed(r)' PROVE PrimeInv'
  <2>1. \A q \in Reqs : q = r
    BY DEF Alone
  <2> QED
    BY <1>1, <2>1 DEF PrimeInv
<1>2. ASSUME NEW r \in Reqs, End(r) PROVE PrimeInv'
  BY <1>1, <1>2, EndFacts DEF MetaInv
\* a step during which nothing is migrated, of a request under way
<1>a. ASSUME NEW r \in Reqs, pc[r] # "idle", moved' = moved, r \in moved \/ Primed(r)'
      PROVE  PrimeInv'
  <2>1. \A q \in Reqs : q = r
    BY DEF Alone
  <2> QED
    BY <1>a, <2>1 DEF PrimeInv
<1>3. ASSUME NEW r \in Reqs, NEW d \in Docs, Start(r, d) PROVE PrimeInv'
  BY <1>1, <1>3, StartPrimed
<1>4. ASSUME NEW r \in Reqs, Poll(r) \/ ApplyVersion(r) PROVE PrimeInv'
  <2>1. /\ pc[r] \in {"poll", "polled"} /\ req'[r].doc = req[r].doc /\ plan'[r] = plan[r]
        /\ visited'[r] = visited[r] /\ got' = got /\ rows' = rows /\ moved' = moved
    BY <1>4 DEF Poll, ApplyVersion, MetaInv, TypeOK, database
  <2>2. visited[r] = {}
    BY <2>1 DEF MetaInv, ProgressInv, Progress
  <2>3. r \in moved \/ Primed(r)
    BY <2>1 DEF PrimeInv
  <2>4. r \in moved \/ Primed(r)'
    BY <2>1, <2>2, <2>3, PrimedFrame
  <2> QED
    BY <1>a, <2>1, <2>4
<1>5. ASSUME NEW r \in Reqs, Visit(r) PROVE PrimeInv'
  BY <1>a, <1>5, VisitPrimed DEF PrimeInv, Visit
<1>5a. ASSUME NEW r \in Reqs, RawRead(r) PROVE PrimeInv'
  BY <1>a, <1>5a, RawPrimed DEF PrimeInv, RawRead
<1>6. ASSUME NEW r \in Reqs, Read(r) PROVE PrimeInv'
  <2>1. CASE End(r)
    BY <1>2, <2>1
  <2>2. CASE ~End(r)
    <3>1. pc[r] = "prime" /\ moved' = moved
      BY <1>6, <2>2, ReadFacts DEF MetaInv, Reads
    <3> QED
      BY <1>a, <1>6, <2>2, <3>1, ReadPrimed DEF PrimeInv
  <2> QED
    BY <2>1, <2>2
<1>7. ASSUME NEW r \in Reqs, Register(r) PROVE PrimeInv'
  <2>1. CASE End(r)
    BY <1>2, <2>1
  <2>2. CASE ~End(r)
    <3>1. Registers(r) /\ pc[r] = "register" /\ moved' = moved
      BY <1>7, <2>2, RegisterFacts DEF MetaInv, Registers
    <3> QED
      BY <1>a, <1>7, <3>1, RegisterPrimed DEF PrimeInv
  <2> QED
    BY <2>1, <2>2
<1>8. ASSUME NEW r \in Reqs, Gate(r) \/ LinksAndWrite(r) \/ Project(r) \/ StoreError(r)
      PROVE  PrimeInv'
  <2>1. CASE End(r)
    BY <1>2, <2>1
  <2>2. CASE ~End(r)
    <3>1. /\ pc[r] \in {"gate", "links"} /\ req' = req /\ plan' = plan /\ visited' = visited
          /\ cache' = cache /\ got' = got /\ rows' = rows /\ moved' = moved
      BY <1>8, <2>2 DEF Gate, LinksAndWrite, Project, StoreError, locals, registry, database
    <3>2. r \in moved \/ Primed(r)'
      BY <3>1, PrimedFrame DEF PrimeInv
    <3> QED
      BY <1>a, <3>1, <3>2
  <2> QED
    BY <2>1, <2>2
<1>9. ASSUME UNCHANGED <<registry, locals, pc, moved, rows>> PROVE PrimeInv'
  <2> SUFFICES ASSUME NEW r \in Reqs \ moved, pc[r] # "idle" PROVE Primed(r)'
    BY <1>9 DEF PrimeInv
  <2> QED
    BY <1>9, PrimedFrame DEF PrimeInv, registry, locals
<1>10. ASSUME NEW d \in Docs, Sync(d) PROVE PrimeInv'
  BY <1>10 DEF Sync, PrimeInv
<1>11. CASE Restart
  BY <1>11 DEF Restart, PrimeInv
<1> QED
  BY <1>3, <1>4, <1>5, <1>5a, <1>6, <1>7, <1>8, <1>9, <1>10, <1>11
     DEF Next, Advance, Bump, OperatorDies, Tick, vars, registry, locals

-----------------------------------------------------------------------------
LEMMA AloneInit == Init => StaleInv /\ PrimeInv
<1> SUFFICES ASSUME Init PROVE StaleInv /\ PrimeInv
  OBVIOUS
<1>1. MetaInv
  BY MetaInit DEF MetaInv
<1>2. \A r \in Reqs : pc[r] = "idle" /\ got[r].reads = 0
  BY DEF Init, NoRead
<1>3. BumpsInv
  <2>1. \A d \in Docs : rows[d] \in Nat
    BY <1>1, RowsGrow DEF MetaInv, Init
  <2>2. CASE bumps = <<>>
    BY <2>2 DEF BumpsInv
  <2>3. CASE bumps = <<rows>>
    <3>1. DOMAIN bumps = {1} /\ Version = 1 /\ bumps[1] = rows
      BY <2>3 DEF Version
    <3> QED
      BY <2>1, <3>1 DEF BumpsInv
  <2> QED
    BY <2>2, <2>3 DEF Init
<1>4. PastInv
  BY DEF Init, PastInv
<1>5. SeenInv
  BY <1>2 DEF Init, SeenInv, Fresh, Priming
<1>6. CacheFollowsSeen
  BY <1>2 DEF Init, CacheFollowsSeen, Cached, ColdCache, Published
<1> QED
  BY <1>2, <1>3, <1>4, <1>5, <1>6 DEF StaleInv, PrimeInv

AloneInv == Alone /\ MetaInv /\ StaleInv /\ PrimeInv

LEMMA AloneCorrect == Alone /\ Spec => []AloneInv
<1>1. AloneInv /\ [Next]_vars => AloneInv'
  <2> SUFFICES ASSUME AloneInv, [Next]_vars PROVE AloneInv'
    OBVIOUS
  <2>1. MetaInv'
    BY TypeNext, ProgressNext DEF AloneInv, MetaInv
  <2>2. Alone'
    BY DEF AloneInv, Alone
  <2> QED
    BY <2>1, <2>2, StaleNext, PrimeNext DEF AloneInv
<1>2. Alone /\ Init => AloneInv
  BY MetaInit, AloneInit DEF AloneInv, MetaInv
<1> QED
  BY <1>1, <1>2, PTL DEF Spec

\* An instance that serves one request at a time: whatever is cached or half read is no
\* older than the version the registry says it is at.
THEOREM FollowsCorrect == Alone /\ Spec => []CacheFollowsSeen
<1>1. AloneInv => CacheFollowsSeen
  BY DEF AloneInv, StaleInv
<1> QED
  BY <1>1, AloneCorrect, PTL

\* ... so a request is served with a definition no older than what had been published TTL
\* before it arrived, whatever is migrated, dies or restarts meanwhile.
THEOREM StalenessCorrect == Alone /\ Spec => []BoundedStaleness
<1>1. AloneInv => BoundedStaleness
  <2> SUFFICES ASSUME AloneInv, NEW r \in Reqs, pc[r] = "gate", Cached(req[r].doc)
               PROVE  cache[req[r].doc].rev >= Published(Due(r))[req[r].doc]
    BY DEF BoundedStaleness
  <2> DEFINE d == req[r].doc
  <2>1. MetaInv /\ StaleInv /\ d \in Docs
    BY DEF AloneInv, MetaInv, TypeOK
  <2>2. seen >= Due(r) /\ cache[d].rev >= Published(seen)[d]
    BY <2>1 DEF StaleInv, SeenInv, Fresh, CacheFollowsSeen
  <2>3. seen \in 0..Version /\ Due(r) \in 0..seen
    BY <2>1, <2>2, SeenTypes, DueFacts DEF MetaInv, StaleInv
  <2>4. Published(Due(r))[d] <= Published(seen)[d] /\ Published(seen)[d] \in Nat
    BY <2>1, <2>3, PublishedGrows DEF MetaInv, StaleInv
  <2>5. Published(Due(r))[d] \in Int /\ cache[d].rev \in Int
    <3>1. Due(r) \in 0..Version
      BY <2>1, DueFacts DEF MetaInv, StaleInv
    <3>2. Published(Due(r))[d] \in Nat
      BY <2>1, <3>1, PublishedGrows DEF MetaInv, StaleInv
    <3>3. cache[d].rev \in 0..MaxRev
      BY <2>1, CachedFacts DEF MetaInv, Meta
    <3> QED
      BY <3>2, <3>3
  <2> QED
    BY <2>2, <2>4, <2>5
<1> QED
  BY <1>1, AloneCorrect, PTL

\* ... and if no definition is committed while the request is under way, everything its
\* pipeline can look up is in the cache, from the gate to the answer, and so is whatever the
\* cached metas refer to from there on: whatever the graph of Links and Tables is like and
\* whatever earlier requests and migrations have left in the cache.
THEOREM PrimedCorrect == Alone /\ Spec => []PrimedForPipeline
<1>1. AloneInv => PrimedForPipeline
  <2> SUFFICES ASSUME AloneInv, NEW r \in Reqs \ moved, pc[r] \in Pipeline
               PROVE  ClosureCached(req[r].doc)
    BY DEF PrimedForPipeline
  <2>1. plan[r] = <<>> /\ Primed(r) /\ pc[r] # "raw" /\ visited[r] \in SUBSET Docs
    BY DEF AloneInv, MetaInv, ProgressInv, Progress, PrimeInv, Pipeline, TypeOK
  <2>2. ToSet(plan[r]) = {}
    BY <2>1 DEF ToSet
  <2>3. \A t : WillVisit(r, t) => t \in visited[r]
    BY <2>2 DEF WillVisit
  <2>4. req[r].doc \in visited[r]
    BY <2>1, <2>3 DEF Primed
  <2>5. \A e \in visited[r] : Cached(e) /\ Targets(e) \subseteq visited[r]
    BY <2>1, <2>2, <2>3 DEF Primed
  <2> QED
    BY <2>1, <2>4, <2>5 DEF ClosureCached
<1> QED
  BY <1>1, AloneCorrect, PTL

=============================================================================
