---------------------------- MODULE RecordsProofs -----------------------------
(* Theorems about Records, for every set of requests, users, docperms, fields *)
(* and conditions: the names of overlapping creates differ, a row changes     *)
(* only by who may write it, stored rows keep the constraints of the doctype, *)
(* and a list shows what its reader can open.                                 *)
EXTENDS Records, TLAPS

Writing(r) == pc[r] \in {"fetch", "validate", "write"}

\* What holds of a request at each place: a create has an entity and then a
\* name, an update a row, of which it holds every column.
PlaceInv ==
    \A r \in Requests :
        /\ pc[r] \notin {"new", "done"} =>
              req[r].user \in Users /\ req[r].kind \in {"create", "update"}
        /\ pc[r] = "name" => req[r].kind = "create" /\ mem[r][EntityField] \in Entities
        /\ Writing(r) => name[r] \in Names
        /\ pc[r] = "load" => req[r].kind = "update"
        /\ pc[r] = "load" \/ (Writing(r) /\ req[r].kind = "update") => name[r] \in DOMAIN table
        /\ Writing(r) /\ req[r].kind = "update" => mem[r] \in Row

\* Every number in use has been taken from the series.
NumberInv ==
    /\ \A n \in DOMAIN table : n[2] <= series[n[1]]
    /\ \A r \in Requests : Taken(r) => name[r][2] <= series[name[r][1]]

\* Where requests do not overlap, one is under way.
AloneInv ==
    alone => \A r, q \in Requests :
        pc[r] \notin {"new", "done"} /\ pc[q] \notin {"new", "done"} => r = q

\* A field is as it was, or as its link says once that has been looked at.
KeptOrFetched(f, row, doc, looked) ==
    \/ doc[f] = row[f]
    \/ looked /\ f \in DOMAIN FetchFrom /\ doc[f] \in Fetched(f, doc)

\* An update that passed the checks may write the row as it is now.
PermitInv ==
    \A r \in Requests : Writing(r) /\ req[r].kind = "update" =>
        LET u == req[r].user
            row == table[name[r]] IN
        /\ CanDoc(u, "write", row)
        /\ mem[r][Owner] = row[Owner]
        /\ alone => /\ RowInScope(u, row)
                    /\ \A f \in Unwritable(u) : KeptOrFetched(f, row, mem[r], pc[r] # "fetch")

\* A document about to be written has what it needs, and where requests do not
\* overlap no row has its unique values.
Shares(f, doc, row) == IsRelevant(f, doc) /\ ~Empty(doc[f]) /\ row[f] = doc[f]

CheckedInv ==
    \A r \in Requests : pc[r] = "write" =>
        /\ Missing(mem[r]) = {}
        /\ alone => \A f \in Unique, n \in DOMAIN table \ {name[r]} :
                        ~Shares(f, mem[r], table[n])

IInv ==
    /\ TypeOK /\ PlaceInv /\ NumberInv /\ FreshNames /\ AloneInv /\ PermitInv
    /\ CheckedInv /\ ConstraintsHold

------------------------------------------------------------------------------
\* Documents

\* A document spread with a payload is a document with its owner.
LEMMA PatchedType ==
    ASSUME NEW S, Literal \subseteq S, NEW row \in [Columns -> S], NEW p \in Payload
    PROVE  /\ Spread(row, p) = [k \in Columns |-> IF k \in DOMAIN p THEN p[k] ELSE row[k]]
           /\ Spread(row, p) \in [Columns -> S] /\ Spread(row, p)[Owner] = row[Owner]
<1>1. DOMAIN p \subseteq Fields /\ \A f \in DOMAIN p : p[f] \in Literal
  BY DEF Payload
<1>2. DOMAIN row = Columns /\ DOMAIN row \cup DOMAIN p = Columns
  BY <1>1 DEF Columns
<1>3. Owner \notin DOMAIN p /\ Owner \in Columns
  BY <1>1, RecordsAssumption DEF Columns
<1>4. \A k \in Columns : (IF k \in DOMAIN p THEN p[k] ELSE row[k]) \in S
  BY <1>1
<1>5. Spread(row, p) = [k \in Columns |-> IF k \in DOMAIN p THEN p[k] ELSE row[k]]
  BY <1>2 DEF Spread
<1>6. QED
  BY <1>3, <1>4, <1>5

LEMMA CreatedType ==
    ASSUME NEW u \in Users, NEW p \in Payload
    PROVE  Spread(Spread(NoDoc, p), [c \in {Owner} |-> u]) \in Doc
<1>1. NoDoc \in Doc
  BY DEF NoDoc, Doc
<1> DEFINE d == Spread(NoDoc, p)
<1>2. d \in Doc
  BY <1>1, PatchedType DEF Doc
<1>3. DOMAIN d \cup DOMAIN [c \in {Owner} |-> u] = Columns
  BY <1>2 DEF Doc, Columns
<1>4. \A k \in Columns :
        (IF k \in DOMAIN [c \in {Owner} |-> u] THEN [c \in {Owner} |-> u][k] ELSE d[k])
            \in Literal \cup Users \cup {Unset}
  BY <1>2 DEF Doc
<1>5. Spread(d, [c \in {Owner} |-> u]) =
        [k \in Columns |-> IF k \in DOMAIN [c \in {Owner} |-> u]
                           THEN [c \in {Owner} |-> u][k] ELSE d[k]]
  BY <1>3 DEF Spread
<1> HIDE DEF d
<1>6. Spread(d, [c \in {Owner} |-> u]) \in Doc
  BY <1>4, <1>5 DEF Doc
<1>7. QED
  BY <1>6 DEF d

\* Fetching sets fetched fields to what their links say, and nothing else.
LEMMA FetchedDoc ==
    ASSUME NEW S, Literal \subseteq S, NEW doc \in [Columns -> S],
           NEW found \in [DOMAIN FetchFrom -> Literal \cup {Unset}],
           \A f \in DOMAIN FetchFrom : found[f] \in Fetched(f, doc),
           NEW got, got = Spread(doc, Present(found))
    PROVE  /\ got \in [Columns -> S] /\ got[Owner] = doc[Owner]
           /\ \A f \in Fields : KeptOrFetched(f, doc, got, TRUE)
<1> DEFINE set == {g \in DOMAIN found : found[g] # Unset}
           p == [f \in set |-> found[f]]
<1>1. set \subseteq DOMAIN FetchFrom /\ set \subseteq Fields /\ \A f \in set : found[f] \in Literal
  BY RecordsAssumption
<1>2. p \in [set -> Literal]
  BY <1>1
<1>3. p \in Payload
  BY <1>1, <1>2 DEF Payload
<1>4. DOMAIN p = set /\ \A f \in set : p[f] = found[f]
  OBVIOUS
<1>0. got = Spread(doc, p)
  BY DEF Present
<1> HIDE DEF p
<1> DEFINE spread == Spread(doc, p)
<1>7. /\ spread = [k \in Columns |-> IF k \in DOMAIN p THEN p[k] ELSE doc[k]]
      /\ spread \in [Columns -> S] /\ spread[Owner] = doc[Owner]
  BY <1>3, PatchedType
<1> HIDE DEF spread
<1>8. got = spread
  BY <1>0 DEF spread
<1>5. /\ got = [k \in Columns |-> IF k \in DOMAIN p THEN p[k] ELSE doc[k]]
      /\ got \in [Columns -> S] /\ got[Owner] = doc[Owner]
  BY <1>7, <1>8
<1> HIDE DEF set
<1>6. ASSUME NEW f \in Fields PROVE KeptOrFetched(f, doc, got, TRUE)
  <2>1. f \in Columns
    BY DEF Columns
  <2>2. CASE f \notin set
    BY <1>4, <1>5, <2>1, <2>2 DEF KeptOrFetched
  <2>3. CASE f \in set
    <3>1. f \in DOMAIN FetchFrom /\ got[f] = found[f] /\ found[f] \in Fetched(f, doc)
      BY <1>1, <1>4, <1>5, <2>1, <2>3
    <3>2. FetchFrom[f] \in Columns /\ FetchFrom[f] \notin set
      BY <1>1, <3>1, RecordsAssumption DEF Columns
    <3>3. got[FetchFrom[f]] = doc[FetchFrom[f]]
      BY <1>4, <1>5, <3>2
    <3>4. Fetched(f, got) = Fetched(f, doc)
      BY <3>3 DEF Fetched
    <3>5. QED
      BY <3>1, <3>4 DEF KeptOrFetched
  <2>4. QED
    BY <2>2, <2>3
<1>9. QED
  BY <1>5, <1>6

\* What a row keeps of a document.
LEMMA StoredType ==
    ASSUME NEW doc \in Doc
    PROVE  /\ Stored(doc) \in Row
           /\ \A c \in Columns : IF doc[c] = Unset THEN Stored(doc)[c] = Null
                                 ELSE Stored(doc)[c] = doc[c]
           /\ doc \in Row => Stored(doc) = doc
<1>1. Unset \notin Literal \cup Users
  BY RecordsAssumption DEF Literal
<1>2. Stored(doc) \in Row
  BY DEF Stored, Doc, Row, Literal
<1>3. ASSUME doc \in Row PROVE Stored(doc) = doc
  <2>1. \A c \in Columns : doc[c] # Unset
    BY <1>1, <1>3 DEF Row
  <2>2. Stored(doc) = [c \in Columns |-> doc[c]]
    BY <2>1 DEF Stored
  <2>3. QED
    BY <1>3, <2>2 DEF Row
<1>4. QED
  BY <1>2, <1>3 DEF Stored

\* A settled condition holds of the row as it does of the document.
LEMMA SettledStored ==
    ASSUME NEW doc \in Doc, NEW cond \in Condition, Settled(cond)
    PROVE  Holds(cond, Stored(doc)) = Holds(cond, doc)
<1>1. ASSUME NEW all \in cond, NEW t \in all
      PROVE  TestHolds(t, Stored(doc)[t.field]) = TestHolds(t, doc[t.field])
  <2>1. t \in Test
    BY <1>1 DEF Condition
  <2>2. t.field \in Columns
    BY <2>1 DEF Test, Columns
  <2>3. CASE doc[t.field] = Unset
    <3>1. Stored(doc)[t.field] = Null
      BY <2>2, <2>3, StoredType
    <3>2. TestHolds(t, Unset) = TestHolds(t, Null)
      BY <1>1 DEF Settled
    <3>3. QED
      BY <2>3, <3>1, <3>2
  <2>4. CASE doc[t.field] # Unset
    BY <2>2, <2>4, StoredType
  <2>5. QED
    BY <2>3, <2>4
<1>2. QED
  BY <1>1 DEF Holds

\* The rows a write leaves: the written one and the others as they were.
LEMMA WrittenType ==
    ASSUME TypeOK, PlaceInv, NEW r \in Requests, Write(r)
    PROVE  /\ table' = table \/ /\ DOMAIN table' = DOMAIN table \cup {name[r]}
                                /\ table'[name[r]] = Stored(mem[r])
                                /\ \A n \in DOMAIN table \ {name[r]} : table'[n] = table[n]
                                /\ req[r].kind = "create" => name[r] \notin DOMAIN table
           /\ DOMAIN table' \subseteq Names /\ \A n \in DOMAIN table' : table'[n] \in Row
<1>1. name[r] \in Names /\ Stored(mem[r]) \in Row
  BY StoredType DEF Write, Writing, PlaceInv, TypeOK
<1>2. CASE table' = table
  BY <1>2 DEF TypeOK
<1>3. CASE /\ req[r].kind = "create" => name[r] \notin DOMAIN table
           /\ table' = [n \in DOMAIN table \cup {name[r]} |->
                           IF n = name[r] THEN Stored(mem[r]) ELSE table[n]]
  <2>1. /\ DOMAIN table' = DOMAIN table \cup {name[r]}
        /\ table'[name[r]] = Stored(mem[r])
        /\ \A n \in DOMAIN table \ {name[r]} : table'[n] = table[n]
    BY <1>3
  <2>2. QED
    BY <1>1, <1>3, <2>1 DEF TypeOK
<1>4. QED
  BY <1>2, <1>3 DEF Write

------------------------------------------------------------------------------
\* Types and places

RequestsTyped ==
    /\ pc \in [Requests -> PC] /\ resp \in [Requests -> {0, 200, 400, 403, 404, 500}]
    /\ req \in [Requests -> Request] /\ name \in [Requests -> Names \cup {NoName}]
    /\ mem \in [Requests -> Doc]

LEMMA NothingType == NoDoc \in Doc /\ NoRequest \in Request
<1>1. NoPatch \in Payload
  BY DEF NoPatch, Payload
<1>2. QED
  BY <1>1 DEF NoDoc, Doc, NoRequest, Request

LEMMA AnswerType ==
    ASSUME TypeOK, NEW r \in Requests, NEW status \in {200, 400, 403, 404, 500}, Answer(r, status)
    PROVE  RequestsTyped' /\ pc'[r] = "done"
  BY NothingType DEF TypeOK, Answer, PC, RequestsTyped

LEMMA GotoType ==
    ASSUME TypeOK, NEW r \in Requests, NEW place \in PC, Goto(r, place),
           req' \in [Requests -> Request], name' \in [Requests -> Names \cup {NoName}],
           mem' \in [Requests -> Doc]
    PROVE  RequestsTyped' /\ pc'[r] = place
<1>1. pc' \in [Requests -> PC] /\ pc'[r] = place
  BY DEF TypeOK, Goto
<1>2. resp' \in [Requests -> {0, 200, 400, 403, 404, 500}]
  BY DEF TypeOK, Goto
<1>3. QED
  BY <1>1, <1>2 DEF RequestsTyped

LEMMA InitType == Init => TypeOK
<1>1. ASSUME Init PROVE TypeOK
  <2>1. DOMAIN table = {}
    BY <1>1 DEF Init
  <2>2. QED
    BY <1>1, <2>1, NothingType DEF Init, TypeOK, PC
<1>2. QED
  BY <1>1

\* Arrivals.
LEMMA CreateType ==
    ASSUME TypeOK, NEW r \in Requests, Create(r)
    PROVE  /\ TypeOK'
           /\ \/ pc'[r] = "done"
              \/ /\ pc'[r] = "name" /\ req'[r].user \in Users /\ req'[r].kind = "create"
                 /\ mem'[r][EntityField] \in Entities
<1> DEFINE Created(u, p) == Spread(Spread(NoDoc, p), [c \in {Owner} |-> u])
<1>1. PICK u \in Users, p \in Payloads :
        LET doc == Created(u, p) IN
        \/ Answer(r, 403) \/ Answer(r, 400)
        \/ /\ doc[EntityField] \in Entities
           /\ req' = [req EXCEPT ![r] = [user |-> u, kind |-> "create", patch |-> p]]
           /\ mem' = [mem EXCEPT ![r] = doc]
           /\ Goto(r, "name") /\ UNCHANGED name
  BY Zenon DEF Create
<1>2. p \in Payload
  BY RecordsAssumption
<1> DEFINE d == Created(u, p)
<1>3. d \in Doc
  BY <1>2, CreatedType
<1>4. Answer(r, 403) \/ Answer(r, 400) \/
        /\ d[EntityField] \in Entities
        /\ req' = [req EXCEPT ![r] = [user |-> u, kind |-> "create", patch |-> p]]
        /\ mem' = [mem EXCEPT ![r] = d]
        /\ Goto(r, "name") /\ UNCHANGED name
  BY <1>1
<1> HIDE DEF d, Created
<1>5. table' = table /\ series' = series /\ alone' = alone
  BY DEF Create
<1>6. CASE Answer(r, 403) \/ Answer(r, 400)
  <2>1. RequestsTyped' /\ pc'[r] = "done"
    BY <1>6, AnswerType
  <2>2. QED
    BY <1>5, <2>1 DEF TypeOK, RequestsTyped
<1>7. CASE /\ d[EntityField] \in Entities
           /\ req' = [req EXCEPT ![r] = [user |-> u, kind |-> "create", patch |-> p]]
           /\ mem' = [mem EXCEPT ![r] = d]
           /\ Goto(r, "name") /\ UNCHANGED name
  <2>1. req' \in [Requests -> Request] /\ mem' \in [Requests -> Doc]
    BY <1>2, <1>3, <1>7 DEF TypeOK, Request
  <2>2. RequestsTyped' /\ pc'[r] = "name"
    BY <1>7, <2>1, GotoType DEF TypeOK, PC
  <2>3. req'[r].user = u /\ req'[r].kind = "create" /\ mem'[r] = d
    BY <1>7 DEF TypeOK
  <2>4. QED
    BY <1>5, <1>7, <2>2, <2>3 DEF TypeOK, RequestsTyped
<1>8. QED
  BY <1>4, <1>6, <1>7

LEMMA UpdateType ==
    ASSUME TypeOK, NEW r \in Requests, Update(r)
    PROVE  /\ TypeOK'
           /\ \/ pc'[r] = "done"
              \/ /\ pc'[r] = "load" /\ req'[r].user \in Users /\ req'[r].kind = "update"
                 /\ name'[r] \in DOMAIN table
<1>1. PICK u \in Users, n \in DOMAIN table, p \in Patches :
        \/ Answer(r, 403)
        \/ /\ req' = [req EXCEPT ![r] = [user |-> u, kind |-> "update", patch |-> p]]
           /\ name' = [name EXCEPT ![r] = n]
           /\ Goto(r, "load") /\ UNCHANGED mem
  BY DEF Update
<1>2. p \in Payload /\ n \in Names
  BY RecordsAssumption DEF TypeOK
<1>3. table' = table /\ series' = series /\ alone' = alone
  BY DEF Update
<1>4. CASE Answer(r, 403)
  <2>1. RequestsTyped' /\ pc'[r] = "done"
    BY <1>4, AnswerType
  <2>2. QED
    BY <1>3, <2>1 DEF TypeOK, RequestsTyped
<1>5. CASE /\ req' = [req EXCEPT ![r] = [user |-> u, kind |-> "update", patch |-> p]]
           /\ name' = [name EXCEPT ![r] = n]
           /\ Goto(r, "load") /\ UNCHANGED mem
  <2>1. req' \in [Requests -> Request] /\ name' \in [Requests -> Names \cup {NoName}]
    BY <1>2, <1>5 DEF TypeOK, Request
  <2>2. RequestsTyped' /\ pc'[r] = "load"
    BY <1>5, <2>1, GotoType DEF TypeOK, PC
  <2>3. req'[r].user = u /\ req'[r].kind = "update" /\ name'[r] = n
    BY <1>5 DEF TypeOK
  <2>4. QED
    BY <1>3, <2>2, <2>3 DEF TypeOK, RequestsTyped
<1>6. QED
  BY <1>1, <1>4, <1>5

LEMMA NextSeriesType ==
    ASSUME TypeOK, PlaceInv, NEW r \in Requests, NextSeries(r)
    PROVE  /\ TypeOK'
           /\ mem[r][EntityField] \in Entities /\ req[r].kind = "create"
           /\ name'[r] = <<mem[r][EntityField], series[mem[r][EntityField]] + 1>>
           /\ name'[r] \in Names /\ pc'[r] = "fetch" /\ req' = req /\ mem' = mem
<1> DEFINE e == mem[r][EntityField]
<1>1. e \in Entities /\ req[r].kind = "create" /\ series[e] \in Nat
  BY DEF NextSeries, PlaceInv, TypeOK
<1>2. series' = [series EXCEPT ![e] = @ + 1] /\ name' = [name EXCEPT ![r] = <<e, series[e] + 1>>]
  BY DEF NextSeries
<1> HIDE DEF e
<1>3. <<e, series[e] + 1>> \in Names
  BY <1>1 DEF Names
<1>4. series' \in [Entities -> Nat] /\ name' \in [Requests -> Names \cup {NoName}]
  BY <1>1, <1>2, <1>3 DEF TypeOK
<1>5. UNCHANGED <<table, alone, req, mem>> /\ Goto(r, "fetch") /\ "fetch" \in PC
  BY DEF NextSeries, PC
<1>6. RequestsTyped' /\ pc'[r] = "fetch"
  BY <1>4, <1>5, GotoType DEF TypeOK
<1>7. TypeOK'
  BY <1>4, <1>5, <1>6 DEF TypeOK, RequestsTyped
<1>8. name'[r] = <<e, series[e] + 1>>
  BY <1>2 DEF TypeOK
<1>9. QED
  BY <1>1, <1>3, <1>5, <1>6, <1>7, <1>8 DEF e

LEMMA LoadType ==
    ASSUME TypeOK, PlaceInv, NEW r \in Requests, Load(r)
    PROVE  /\ TypeOK'
           /\ \/ pc'[r] = "done"
              \/ LET u == req[r].user
                     row == table[name[r]] IN
                 /\ pc'[r] = "fetch" /\ UNCHANGED <<table, req, name>>
                 /\ name[r] \in Names /\ name[r] \in DOMAIN table
                 /\ CanDoc(u, "write", row) /\ RowInScope(u, row)
                 /\ \A f \in Unwritable(u) : mem'[r][f] = row[f]
                 /\ mem'[r] \in Row /\ mem'[r][Owner] = row[Owner]
<1> DEFINE u == req[r].user
           row == table[name[r]]
           doc == Spread(row, req[r].patch)
<1>1. name[r] \in DOMAIN table /\ name[r] \in Names /\ row \in Row
  BY DEF Load, PlaceInv, TypeOK
<1>2. doc \in Row /\ doc[Owner] = row[Owner]
  BY <1>1, PatchedType DEF TypeOK, Request, Row
<1>3. \/ Answer(r, 404) \/ Answer(r, 403)
      \/ /\ RowInScope(u, row) /\ CanDoc(u, "write", row)
         /\ \A f \in Unwritable(u) : doc[f] = row[f]
         /\ Goto(r, "fetch") /\ mem' = [mem EXCEPT ![r] = doc] /\ UNCHANGED <<req, name>>
  BY DEF Load
<1>4. UNCHANGED <<table, series, alone>>
  BY DEF Load
<1> HIDE DEF u, row, doc
<1>5. CASE Answer(r, 404) \/ Answer(r, 403)
  <2>1. RequestsTyped' /\ pc'[r] = "done"
    BY <1>5, AnswerType
  <2>2. QED
    BY <1>4, <2>1 DEF TypeOK, RequestsTyped
<1>6. CASE /\ RowInScope(u, row) /\ CanDoc(u, "write", row)
           /\ \A f \in Unwritable(u) : doc[f] = row[f]
           /\ Goto(r, "fetch") /\ mem' = [mem EXCEPT ![r] = doc] /\ UNCHANGED <<req, name>>
  <2>1. mem' \in [Requests -> Doc] /\ mem'[r] = doc
    BY <1>2, <1>6 DEF TypeOK, Row, Doc
  <2>2. RequestsTyped' /\ pc'[r] = "fetch"
    BY <1>6, <2>1, GotoType DEF TypeOK, PC
  <2>3. TypeOK'
    BY <1>4, <2>2 DEF TypeOK, RequestsTyped
  <2>4. QED
    BY <1>1, <1>2, <1>4, <1>6, <2>1, <2>2, <2>3 DEF u, row
<1>7. QED
  BY <1>3, <1>5, <1>6

LEMMA FetchType ==
    ASSUME TypeOK, PlaceInv, NEW r \in Requests, Fetch(r)
    PROVE  /\ TypeOK' /\ pc'[r] = "validate" /\ UNCHANGED <<table, alone, series, req, name>>
           /\ mem[r] \in Row => mem'[r] \in Row
           /\ mem'[r][Owner] = mem[r][Owner]
           /\ \A f \in Fields : KeptOrFetched(f, mem[r], mem'[r], TRUE)
<1>1. PICK found \in [DOMAIN FetchFrom -> Literal \cup {Unset}] :
        /\ \A f \in DOMAIN FetchFrom : found[f] \in Fetched(f, mem[r])
        /\ mem' = [mem EXCEPT ![r] = Spread(@, Present(found))]
  BY DEF Fetch
<1> DEFINE got == Spread(mem[r], Present(found))
<1>0. got = Spread(mem[r], Present(found))
  OBVIOUS
<1>5. mem' = [mem EXCEPT ![r] = got]
  BY <1>1
<1> HIDE DEF got
<1>2. mem[r] \in Doc
  BY DEF TypeOK
<1>3. /\ got \in Doc /\ got[Owner] = mem[r][Owner]
      /\ \A f \in Fields : KeptOrFetched(f, mem[r], got, TRUE)
  <2> DEFINE S == Literal \cup Users \cup {Unset}
  <2>1. Literal \subseteq S /\ mem[r] \in [Columns -> S]
    BY <1>2 DEF Doc
  <2>2. S = Literal \cup Users \cup {Unset}
    OBVIOUS
  <2> HIDE DEF S
  <2>3. /\ got \in [Columns -> S] /\ got[Owner] = mem[r][Owner]
        /\ \A f \in Fields : KeptOrFetched(f, mem[r], got, TRUE)
    BY <1>0, <1>1, <2>1, FetchedDoc
  <2>4. QED
    BY <2>2, <2>3 DEF Doc
<1>4. ASSUME mem[r] \in Row PROVE got \in Row
  <2> DEFINE S == Literal \cup Users
  <2>1. Literal \subseteq S /\ mem[r] \in [Columns -> S]
    BY <1>4 DEF Row
  <2>2. S = Literal \cup Users
    OBVIOUS
  <2> HIDE DEF S
  <2>3. got \in [Columns -> S]
    BY <1>0, <1>1, <2>1, FetchedDoc
  <2>4. QED
    BY <2>2, <2>3 DEF Row
<1>6. mem' \in [Requests -> Doc] /\ mem'[r] = got
  BY <1>3, <1>5 DEF TypeOK
<1>7. UNCHANGED <<table, series, alone, req, name>> /\ Goto(r, "validate") /\ "validate" \in PC
  BY DEF Fetch, PC
<1>8. RequestsTyped' /\ pc'[r] = "validate"
  BY <1>6, <1>7, GotoType DEF TypeOK
<1>9. TypeOK'
  BY <1>7, <1>8 DEF TypeOK, RequestsTyped
<1>10. QED
  BY <1>3, <1>4, <1>6, <1>7, <1>8, <1>9

LEMMA EndType ==
    ASSUME TypeOK, PlaceInv, NEW r \in Requests, Validate(r) \/ Write(r) \/ Fail(r)
    PROVE  /\ TypeOK'
           /\ \/ pc'[r] = "done"
              \/ /\ Validate(r) /\ pc'[r] = "write" /\ UNCHANGED <<table, req, name, mem>>
                 /\ Missing(mem[r]) = {} /\ ~Clash(r)
<1>1. UNCHANGED <<series, alone>>
  BY DEF Validate, Write, Fail
<1>2. DOMAIN table' \subseteq Names /\ \A n \in DOMAIN table' : table'[n] \in Row
  BY WrittenType DEF Validate, Fail, TypeOK
<1>3. \/ Answer(r, 200) \/ Answer(r, 400) \/ Answer(r, 404) \/ Answer(r, 500)
      \/ /\ Validate(r) /\ Goto(r, "write") /\ UNCHANGED <<table, req, name, mem>>
         /\ Missing(mem[r]) = {} /\ ~Clash(r)
  BY DEF Validate, Write, Fail
<1>4. CASE Answer(r, 200) \/ Answer(r, 400) \/ Answer(r, 404) \/ Answer(r, 500)
  <2>1. RequestsTyped' /\ pc'[r] = "done"
    BY <1>4, AnswerType
  <2>2. QED
    BY <1>1, <1>2, <2>1 DEF TypeOK, RequestsTyped
<1>5. CASE /\ Validate(r) /\ Goto(r, "write") /\ UNCHANGED <<table, req, name, mem>>
           /\ Missing(mem[r]) = {} /\ ~Clash(r)
  <2>1. RequestsTyped' /\ pc'[r] = "write"
    BY <1>5, GotoType DEF TypeOK, PC
  <2>2. QED
    BY <1>1, <1>2, <1>5, <2>1 DEF TypeOK, RequestsTyped
<1>6. QED
  BY <1>3, <1>4, <1>5

\* A step of a request is its own.
LEMMA OwnStep ==
    ASSUME TypeOK, NEW r \in Requests, Step(r), NEW q \in Requests, q # r
    PROVE  pc'[q] = pc[q] /\ req'[q] = req[q] /\ name'[q] = name[q] /\ mem'[q] = mem[q]
<1> USE DEF Step, Create, NextSeries, Update, Load, Fetch, Validate, Write, Fail, Answer, Goto,
            TypeOK
<1>1. pc'[q] = pc[q]
  OBVIOUS
<1>2. req'[q] = req[q]
  OBVIOUS
<1>3. name'[q] = name[q]
  OBVIOUS
<1>4. CASE Fetch(r)
  BY <1>1, <1>2, <1>3, <1>4
<1>5. CASE ~Fetch(r)
  <2>1. CASE Create(r)
    BY <1>1, <1>2, <1>3, <2>1
  <2>2. CASE NextSeries(r) \/ Update(r)
    BY <1>1, <1>2, <1>3, <2>2
  <2>3. CASE Load(r)
    BY <1>1, <1>2, <1>3, <2>3
  <2>4. CASE Validate(r) \/ Write(r) \/ Fail(r)
    BY <1>1, <1>2, <1>3, <2>4
  <2>5. QED
    BY <1>5, <2>1, <2>2, <2>3, <2>4
<1>6. QED
  BY <1>4, <1>5

------------------------------------------------------------------------------
\* The steps and the invariant

\* Rows stay; only a write changes them.
LEMMA TableStep ==
    ASSUME TypeOK, PlaceInv, NEW r \in Requests, Step(r)
    PROVE  /\ DOMAIN table \subseteq DOMAIN table' /\ (table' = table \/ Write(r))
           /\ alone' = alone /\ (NextSeries(r) \/ series' = series)
<1>1. CASE Write(r)
  BY <1>1, WrittenType DEF Write
<1>2. CASE ~Write(r)
  BY <1>2 DEF Step, Create, NextSeries, Update, Load, Fetch, Validate, Fail
<1>3. QED
  BY <1>1, <1>2

LEMMA StepType ==
    ASSUME TypeOK, PlaceInv, NEW r \in Requests, Step(r)
    PROVE  TypeOK'
  BY CreateType, UpdateType, NextSeriesType, LoadType, FetchType, EndType DEF Step

LEMMA PlaceStep ==
    ASSUME TypeOK, PlaceInv, NEW r \in Requests, Step(r)
    PROVE  PlaceInv'
<1> DEFINE Place(q) ==
        /\ pc'[q] \notin {"new", "done"} =>
              req'[q].user \in Users /\ req'[q].kind \in {"create", "update"}
        /\ pc'[q] = "name" => req'[q].kind = "create" /\ mem'[q][EntityField] \in Entities
        /\ pc'[q] \in {"fetch", "validate", "write"} => name'[q] \in Names
        /\ pc'[q] = "load" => req'[q].kind = "update"
        /\ pc'[q] = "load" \/ (pc'[q] \in {"fetch", "validate", "write"} /\ req'[q].kind = "update")
              => name'[q] \in DOMAIN table'
        /\ pc'[q] \in {"fetch", "validate", "write"} /\ req'[q].kind = "update" => mem'[q] \in Row
<1>0. DOMAIN table \subseteq DOMAIN table'
  BY TableStep
<1>1. \A q \in Requests \ {r} : Place(q)
  BY <1>0, OwnStep DEF PlaceInv, Writing
<1>2. ASSUME pc'[r] = "done" PROVE Place(r)
  BY <1>2
<1>3. ASSUME Create(r), pc'[r] # "done" PROVE Place(r)
  BY <1>3, CreateType
<1>4. ASSUME Update(r), pc'[r] # "done" PROVE Place(r)
  BY <1>0, <1>4, UpdateType
<1>5. ASSUME NextSeries(r) PROVE Place(r)
  BY <1>5, NextSeriesType DEF PlaceInv, NextSeries
<1>6. ASSUME Load(r), pc'[r] # "done" PROVE Place(r)
  BY <1>0, <1>6, LoadType DEF PlaceInv, Load
<1>7. ASSUME Fetch(r) PROVE Place(r)
  BY <1>0, <1>7, FetchType DEF PlaceInv, Writing, Fetch
<1>8. ASSUME Validate(r) \/ Write(r) \/ Fail(r), pc'[r] # "done" PROVE Place(r)
  BY <1>0, <1>8, EndType DEF PlaceInv, Writing, Validate
<1>9. Place(r)
  <2> HIDE DEF Place
  <2>1. QED
    BY <1>2, <1>3, <1>4, <1>5, <1>6, <1>7, <1>8 DEF Step
<1>10. QED
  BY <1>1, <1>9 DEF PlaceInv, Writing

\* The creates under way after a step: those from before, and the one that has
\* just taken its number.
LEMMA TakenStep ==
    ASSUME TypeOK, PlaceInv, NEW r \in Requests, Step(r), NEW q \in Requests, Taken(q)'
    PROVE  \/ Taken(q) /\ name'[q] = name[q] /\ (q = r => ~Write(r))
           \/ q = r /\ NextSeries(r)
<1>1. CASE q # r
  BY <1>1, OwnStep DEF Taken
<1>2. CASE q = r /\ (Create(r) \/ Update(r))
  BY <1>2, CreateType, UpdateType DEF Taken
<1>3. CASE q = r /\ Load(r)
  BY <1>3, LoadType DEF Taken, Load, PlaceInv
<1>4. CASE q = r /\ Fetch(r)
  BY <1>4, FetchType DEF Taken, Fetch, Write
<1>5. CASE q = r /\ (Validate(r) \/ Write(r) \/ Fail(r))
  BY <1>5, EndType DEF Taken, Validate, Write
<1>6. QED
  BY <1>1, <1>2, <1>3, <1>4, <1>5 DEF Step

LEMMA NamesStep ==
    ASSUME TypeOK, PlaceInv, NumberInv, FreshNames, NEW r \in Requests, Step(r)
    PROVE  NumberInv' /\ FreshNames'
<1>1. CASE NextSeries(r)
  <2> DEFINE e == mem[r][EntityField]
  <2>1. /\ e \in Entities /\ series[e] \in Nat
        /\ series' = [series EXCEPT ![e] = @ + 1] /\ table' = table
        /\ name'[r] = <<e, series[e] + 1>>
    <3>1. e \in Entities /\ name'[r] = <<e, series[e] + 1>>
      BY <1>1, NextSeriesType
    <3>2. series' = [series EXCEPT ![e] = @ + 1] /\ table' = table
      BY <1>1 DEF NextSeries
    <3>3. series[e] \in Nat
      BY <3>1 DEF TypeOK
    <3>4. QED
      BY <3>1, <3>2, <3>3
  <2> HIDE DEF e
  <2>2. \A d \in Entities : series[d] \in Nat /\ series[d] <= series'[d]
    BY <2>1 DEF TypeOK
  <2>3. series'[e] = series[e] + 1 /\ name'[r][1] = e /\ name'[r][2] = series[e] + 1
    BY <2>1 DEF TypeOK
  <2>4. \A n \in Names : n[1] \in Entities /\ n[2] \in Nat
    BY DEF Names
  <2>5. \A n \in DOMAIN table : n[2] <= series'[n[1]] /\ n # name'[r]
    <3>1. TAKE n \in DOMAIN table
    <3>2. n \in Names /\ n[2] <= series[n[1]]
      BY DEF TypeOK, NumberInv
    <3>3. QED
      BY <2>1, <2>2, <2>3, <2>4, <3>2 DEF TypeOK
  <2>6. \A q \in Requests \ {r} : Taken(q)' => Taken(q) /\ name'[q] = name[q]
    BY TakenStep
  <2>7. \A q \in Requests \ {r} : Taken(q)' =>
          /\ name'[q][2] <= series'[name'[q][1]]
          /\ name'[q] # name'[r]
          /\ name'[q] \notin DOMAIN table'
    <3>1. SUFFICES ASSUME NEW q \in Requests \ {r}, Taken(q)'
                   PROVE  /\ name'[q][2] <= series'[name'[q][1]]
                          /\ name'[q] # name'[r]
                          /\ name'[q] \notin DOMAIN table'
      OBVIOUS
    <3>2. Taken(q) /\ name'[q] = name[q]
      BY <2>6, <3>1
    <3>3. name[q] \in Names /\ name[q][2] <= series[name[q][1]] /\ name[q] \notin DOMAIN table
      BY <3>2 DEF Taken, PlaceInv, Writing, NumberInv, FreshNames
    <3>4. QED
      BY <2>1, <2>2, <2>3, <2>4, <3>2, <3>3 DEF TypeOK
  <2>8. name'[r][2] <= series'[name'[r][1]]
    BY <2>1, <2>3
  <2>9. NumberInv'
    BY <2>1, <2>5, <2>7, <2>8 DEF NumberInv
  <2>10. \A q, p \in Requests : q # p /\ Taken(q)' /\ Taken(p)' => name'[q] # name'[p]
    BY <2>6, <2>7 DEF FreshNames
  <2>11. FreshNames'
    BY <2>1, <2>5, <2>7, <2>10 DEF FreshNames
  <2>12. QED
    BY <2>9, <2>11
<1>2. CASE ~NextSeries(r)
  <2>1. series' = series
    BY <1>2, TableStep
  <2>2. \A q \in Requests : Taken(q)' => Taken(q) /\ name'[q] = name[q] /\ (q = r => ~Write(r))
    BY <1>2, TakenStep
  <2>3. CASE table' = table
    BY <2>1, <2>2, <2>3 DEF NumberInv, FreshNames
  <2>4. CASE table' # table
    <3>0. Write(r)
      BY <2>4, TableStep
    <3>1. Write(r) /\ pc[r] = "write"
      BY <3>0 DEF Write
    <3>2. DOMAIN table' = DOMAIN table \cup {name[r]}
      BY <2>4, <3>1, WrittenType
    <3>3. Taken(r) \/ name[r] \in DOMAIN table
      BY <3>1 DEF Taken, PlaceInv, Writing
    <3>4. name[r][2] <= series[name[r][1]]
      BY <3>3 DEF NumberInv
    <3>5. \A q \in Requests : Taken(q)' => q # r /\ name[q] # name[r]
      BY <2>2, <3>0, <3>3 DEF FreshNames
    <3>6. NumberInv'
      BY <2>1, <2>2, <3>2, <3>4 DEF NumberInv
    <3>7. FreshNames'
      BY <2>2, <3>2, <3>5 DEF FreshNames
    <3>8. QED
      BY <3>6, <3>7
  <2>5. QED
    BY <2>3, <2>4
<1>3. QED
  BY <1>1, <1>2

LEMMA AloneStep ==
    ASSUME TypeOK, PlaceInv, AloneInv, NEW r \in Requests, Step(r)
    PROVE  AloneInv'
<1>1. alone' = alone
  BY TableStep
<1>2. \A q \in Requests \ {r} : pc'[q] = pc[q]
  BY OwnStep
<1>3. alone => \A q \in Requests \ {r} : pc[q] \in {"new", "done"}
  <2>1. CASE Turn(r)
    BY <2>1 DEF Turn
  <2>2. CASE pc[r] \notin {"new", "done"}
    BY <2>2 DEF AloneInv
  <2>3. QED
    BY <2>1, <2>2 DEF Step, Create, NextSeries, Update, Load, Fetch, Validate, Write, Fail
<1>4. QED
  BY <1>1, <1>2, <1>3 DEF AloneInv

\* A write leaves the owner of a row as it is.
LEMMA OwnerStays ==
    ASSUME TypeOK, PlaceInv, PermitInv, NEW r \in Requests, Step(r), NEW n \in DOMAIN table
    PROVE  /\ table'[n][Owner] = table[n][Owner]
           /\ table'[n] = table[n] \/ (/\ Write(r) /\ n = name[r] /\ table'[n] = mem[r]
                                       /\ req[r].kind = "update" /\ Writing(r))
<1>1. CASE table' = table
  BY <1>1
<1>2. CASE table' # table
  <2>1. Write(r)
    BY <1>2, TableStep
  <2>2. Writing(r) /\ req[r].kind \in {"create", "update"}
    BY <2>1 DEF Write, Writing, PlaceInv
  <2>3. /\ table'[name[r]] = Stored(mem[r])
        /\ \A m \in DOMAIN table \ {name[r]} : table'[m] = table[m]
        /\ req[r].kind = "create" => name[r] \notin DOMAIN table
    BY <1>2, <2>1, WrittenType
  <2>4. CASE n = name[r]
    <3>1. req[r].kind = "update" /\ mem[r] \in Row /\ mem[r] \in Doc
      BY <2>2, <2>3, <2>4 DEF PlaceInv, TypeOK
    <3>2. table'[n] = mem[r]
      BY <2>3, <2>4, <3>1, StoredType
    <3>3. QED
      BY <2>1, <2>2, <2>4, <3>1, <3>2 DEF PermitInv
  <2>5. CASE n # name[r]
    BY <2>3, <2>5
  <2>6. QED
    BY <2>4, <2>5
<1>3. QED
  BY <1>1, <1>2

LEMMA PermitStep ==
    ASSUME TypeOK, PlaceInv, AloneInv, PermitInv, NEW r \in Requests, Step(r)
    PROVE  PermitInv'
<1> DEFINE May(q) == LET u == req'[q].user
                         row == table'[name'[q]] IN
                     /\ CanDoc(u, "write", row)
                     /\ mem'[q][Owner] = row[Owner]
                     /\ alone' => /\ RowInScope(u, row)
                                  /\ \A f \in Unwritable(u) :
                                        KeptOrFetched(f, row, mem'[q], pc'[q] # "fetch")
<1>1. SUFFICES ASSUME NEW q \in Requests, pc'[q] \in {"fetch", "validate", "write"},
                      req'[q].kind = "update"
               PROVE  May(q)
  BY DEF PermitInv, Writing
<1>2. alone' = alone
  BY TableStep
<1>3. CASE q # r
  <2>1. /\ Writing(q) /\ req[q].kind = "update" /\ name[q] \in DOMAIN table
        /\ req'[q] = req[q] /\ name'[q] = name[q] /\ mem'[q] = mem[q] /\ pc'[q] = pc[q]
    BY <1>1, <1>3, OwnStep DEF Writing, PlaceInv
  <2>2. table'[name[q]][Owner] = table[name[q]][Owner]
    BY <2>1, OwnerStays
  <2>3. CanDoc(req[q].user, "write", table[name[q]]) /\ mem[q][Owner] = table[name[q]][Owner]
    BY <2>1 DEF PermitInv
  <2>4. CanDoc(req[q].user, "write", table'[name[q]])
    BY <2>2, <2>3 DEF CanDoc
  <2>5. ASSUME alone PROVE table'[name[q]] = table[name[q]]
    <3>1. ~Writing(r)
      BY <1>3, <2>1, <2>5 DEF AloneInv, Writing
    <3>2. QED
      BY <2>1, <3>1, OwnerStays
  <2>6. alone => /\ RowInScope(req[q].user, table[name[q]])
                 /\ \A f \in Unwritable(req[q].user) :
                       KeptOrFetched(f, table[name[q]], mem[q], pc[q] # "fetch")
    BY <2>1 DEF PermitInv
  <2>7. QED
    BY <1>2, <2>1, <2>2, <2>3, <2>4, <2>5, <2>6
<1>4. CASE q = r /\ Load(r)
  <2>1. LET u == req[r].user
            row == table[name[r]] IN
        /\ UNCHANGED <<table, req, name>>
        /\ CanDoc(u, "write", row) /\ RowInScope(u, row)
        /\ \A f \in Unwritable(u) : mem'[r][f] = row[f]
        /\ mem'[r][Owner] = row[Owner]
    BY <1>1, <1>4, LoadType
  <2>2. QED
    BY <1>4, <2>1 DEF KeptOrFetched
<1>5. CASE q = r /\ Fetch(r)
  <2>1. /\ UNCHANGED <<table, req, name>> /\ Writing(r) /\ pc[r] = "fetch" /\ pc'[r] = "validate"
        /\ mem'[r][Owner] = mem[r][Owner]
        /\ \A f \in Fields : KeptOrFetched(f, mem[r], mem'[r], TRUE)
    BY <1>5, FetchType DEF Fetch, Writing
  <2>2. LET u == req[r].user
            row == table[name[r]] IN
        /\ CanDoc(u, "write", row)
        /\ mem[r][Owner] = row[Owner]
        /\ alone => /\ RowInScope(u, row)
                    /\ \A f \in Unwritable(u) : mem[r][f] = row[f]
    BY <1>1, <1>5, <2>1 DEF PermitInv, KeptOrFetched
  <2>3. \A f \in Unwritable(req[r].user) : f \in Fields
    BY DEF Unwritable
  <2>4. ASSUME alone, NEW f \in Unwritable(req[r].user)
        PROVE  KeptOrFetched(f, table[name[r]], mem'[r], TRUE)
    BY <2>1, <2>2, <2>3, <2>4 DEF KeptOrFetched
  <2>5. QED
    BY <1>2, <1>5, <2>1, <2>2, <2>4
<1>6. CASE q = r /\ (Validate(r) \/ Write(r) \/ Fail(r))
  <2>1. UNCHANGED <<table, req, name, mem>> /\ pc[r] = "validate" /\ pc'[r] = "write"
    BY <1>1, <1>6, EndType DEF Validate
  <2>2. QED
    BY <1>1, <1>2, <1>6, <2>1 DEF PermitInv, Writing
<1>7. CASE q = r /\ (Create(r) \/ Update(r) \/ NextSeries(r))
  BY <1>1, <1>7, CreateType, UpdateType, NextSeriesType
<1>8. QED
  BY <1>3, <1>4, <1>5, <1>6, <1>7 DEF Step

\* Where requests do not overlap nobody steps between another's check and its write.
LEMMA AloneTurn ==
    ASSUME AloneInv, alone, NEW q \in Requests, pc[q] = "write",
           NEW r \in Requests, Step(r)
    PROVE  r = q
<1>1. CASE Turn(r)
  BY <1>1 DEF Turn
<1>2. CASE pc[r] \notin {"new", "done"}
  BY <1>2 DEF AloneInv
<1>3. QED
  BY <1>1, <1>2 DEF Step, Create, NextSeries, Update, Load, Fetch, Validate, Write, Fail

\* Validate lets a document through to its write.
LEMMA Validated ==
    ASSUME TypeOK, PlaceInv, NEW r \in Requests, Step(r), pc'[r] = "write"
    PROVE  /\ Validate(r) /\ Missing(mem[r]) = {} /\ ~Clash(r)
           /\ UNCHANGED <<table, name, mem, alone>>
  BY TableStep, CreateType, UpdateType, NextSeriesType, LoadType, FetchType, EndType
     DEF Step, Create

LEMMA CheckedStep ==
    ASSUME TypeOK, PlaceInv, AloneInv, CheckedInv, NEW r \in Requests, Step(r)
    PROVE  CheckedInv'
<1> SUFFICES ASSUME NEW q \in Requests, pc'[q] = "write"
             PROVE  /\ Missing(mem'[q]) = {}
                    /\ alone' => \A f \in Unique, n \in DOMAIN table' \ {name'[q]} :
                                    ~Shares(f, mem'[q], table'[n])
  BY DEF CheckedInv
<1>1. CASE q = r
  <2>1. Missing(mem[q]) = {} /\ ~Clash(q) /\ UNCHANGED <<table, name, mem, alone>>
    BY <1>1, Validated
  <2>2. \A f \in Unique, n \in DOMAIN table \ {name[q]} : ~Shares(f, mem[q], table[n])
    BY <2>1 DEF Clash, Shares
  <2>3. QED
    BY <2>1, <2>2
<1>2. CASE q # r
  <2>1. pc[q] = "write" /\ mem'[q] = mem[q] /\ alone' = alone
    BY <1>2, OwnStep, TableStep
  <2>2. Missing(mem[q]) = {}
    BY <2>1 DEF CheckedInv
  <2>3. ~alone
    BY <1>2, <2>1, AloneTurn
  <2>4. QED
    BY <2>1, <2>2, <2>3
<1>3. QED
  BY <1>1, <1>2

\* What is missing in the row of a document, or shared by it, was in the document,
\* but for fields whose conditions are not settled.
LEMMA StoredConstraints ==
    ASSUME NEW doc \in Doc, NEW f \in Fields, Settled(DependsOn[f])
    PROVE  /\ IsRelevant(f, Stored(doc)) = IsRelevant(f, doc)
           /\ Empty(Stored(doc)[f]) = Empty(doc[f])
           /\ ~Empty(doc[f]) => Stored(doc)[f] = doc[f]
           /\ Settled(Mandatory[f]) /\ f \in Missing(Stored(doc)) => f \in Missing(doc)
<1>1. DependsOn[f] \in Condition /\ Mandatory[f] \in Condition /\ f \in Columns
  BY RecordsAssumption DEF Columns
<1>2. IsRelevant(f, Stored(doc)) = IsRelevant(f, doc)
  BY <1>1, SettledStored DEF IsRelevant
<1>3. Empty(Stored(doc)[f]) = Empty(doc[f]) /\ (~Empty(doc[f]) => Stored(doc)[f] = doc[f])
  BY <1>1, StoredType DEF Empty
<1>4. Settled(Mandatory[f]) => Holds(Mandatory[f], Stored(doc)) = Holds(Mandatory[f], doc)
  BY <1>1, SettledStored
<1>5. QED
  BY <1>2, <1>3, <1>4 DEF Missing

LEMMA ConstraintsStep ==
    ASSUME TypeOK, PlaceInv, CheckedInv, ConstraintsHold, NEW r \in Requests, Step(r)
    PROVE  ConstraintsHold'
<1> DEFINE Complete(a) == \A f \in Missing(a) : ~Settled(DependsOn[f]) \/ ~Settled(Mandatory[f])
           Apart(a, b) == \A f \in Unique : b[f] = a[f] =>
               \/ Empty(a[f]) \/ ~Settled(DependsOn[f])
               \/ ~IsRelevant(f, a) \/ ~IsRelevant(f, b)
<1>0. alone' = alone
  BY TableStep
<1>1. CASE table' = table
  BY <1>0, <1>1 DEF ConstraintsHold
<1>2. CASE table' # table
  <2>1. Write(r) /\ pc[r] = "write"
    BY <1>2, TableStep DEF Write
  <2>2. /\ DOMAIN table' = DOMAIN table \cup {name[r]}
        /\ table'[name[r]] = Stored(mem[r])
        /\ \A n \in DOMAIN table \ {name[r]} : table'[n] = table[n]
    BY <1>2, <2>1, WrittenType
  <2>3. mem[r] \in Doc
    BY DEF TypeOK
  <2>4. \A n \in DOMAIN table : Complete(table[n])
    BY DEF ConstraintsHold
  <2>5. Complete(Stored(mem[r]))
    <3>1. Missing(mem[r]) = {}
      BY <2>1 DEF CheckedInv
    <3>2. \A f \in Missing(Stored(mem[r])) : f \in Fields
      BY DEF Missing
    <3>3. QED
      BY <2>3, <3>1, <3>2, StoredConstraints
  <2>6. \A n \in DOMAIN table' : Complete(table'[n])
    BY <2>2, <2>4, <2>5
  <2>7. ASSUME alone, NEW n \in DOMAIN table', NEW m \in DOMAIN table' \ {n}
        PROVE  Apart(table'[n], table'[m])
    <3>1. ASSUME NEW f \in Unique, NEW k \in DOMAIN table \ {name[r]}, Settled(DependsOn[f]),
                 IsRelevant(f, Stored(mem[r])), table[k][f] = Stored(mem[r])[f]
          PROVE  Empty(table[k][f])
      <4>1. f \in Fields
        BY RecordsAssumption
      <4>2. ~Shares(f, mem[r], table[k])
        BY <2>1, <2>7, <3>1 DEF CheckedInv
      <4>3. QED
        BY <2>3, <3>1, <4>1, <4>2, StoredConstraints DEF Shares
    <3>2. CASE n = name[r]
      <4>1. m \in DOMAIN table \ {name[r]} /\ table'[m] = table[m]
            /\ table'[n] = Stored(mem[r])
        BY <2>2, <2>7, <3>2
      <4>2. QED
        BY <3>1, <4>1
    <3>3. CASE m = name[r]
      <4>1. n \in DOMAIN table \ {name[r]} /\ table'[n] = table[n]
            /\ table'[m] = Stored(mem[r])
        BY <2>2, <2>7, <3>3
      <4>2. QED
        BY <3>1, <4>1
    <3>4. CASE n # name[r] /\ m # name[r]
      <4>1. /\ n \in DOMAIN table /\ m \in DOMAIN table \ {n}
            /\ table'[n] = table[n] /\ table'[m] = table[m]
        BY <2>2, <2>7, <3>4
      <4>2. Apart(table[n], table[m])
        BY <2>7, <4>1 DEF ConstraintsHold
      <4>3. QED
        BY <4>1, <4>2
    <3>5. QED
      BY <3>2, <3>3, <3>4
  <2>8. QED
    BY <1>0, <2>6, <2>7 DEF ConstraintsHold
<1>3. QED
  BY <1>1, <1>2

LEMMA InvStep ==
    ASSUME IInv, [Next]_vars
    PROVE  IInv'
<1>1. CASE Next
  <2>1. PICK r \in Requests : Step(r)
    BY <1>1 DEF Next
  <2>2. QED
    BY <2>1, StepType, PlaceStep, NamesStep, AloneStep, PermitStep, CheckedStep,
       ConstraintsStep DEF IInv
<1>2. CASE UNCHANGED vars
  <2>1. TypeOK' /\ PlaceInv' /\ NumberInv' /\ FreshNames' /\ AloneInv' /\ PermitInv'
    BY <1>2 DEF vars, IInv, TypeOK, PlaceInv, NumberInv, FreshNames, Taken, AloneInv,
                PermitInv, Writing
  <2>2. CheckedInv' /\ ConstraintsHold'
    BY <1>2 DEF vars, IInv, CheckedInv, ConstraintsHold
  <2>3. QED
    BY <2>1, <2>2 DEF IInv
<1>3. QED
  BY <1>1, <1>2

LEMMA InvInit == Init => IInv
<1>1. ASSUME Init PROVE IInv
  <2>1. TypeOK
    BY <1>1, InitType
  <2>2. DOMAIN table = {} /\ \A r \in Requests : pc[r] = "new"
    BY <1>1 DEF Init
  <2>3. QED
    BY <2>1, <2>2 DEF IInv, PlaceInv, NumberInv, FreshNames, Taken, AloneInv, PermitInv,
                      Writing, CheckedInv, ConstraintsHold
<1>2. QED
  BY <1>1

LEMMA Invariance == Spec => []IInv
<1>1. IInv /\ [Next]_vars => IInv'
  BY InvStep
<1>2. QED
  BY <1>1, InvInit, PTL DEF Spec

------------------------------------------------------------------------------
\* What the service promises.

\* The state of every request and row is well-formed.
THEOREM TypeCorrect == Spec => []TypeOK
<1>1. IInv => TypeOK
  BY DEF IInv
<1>2. QED
  BY <1>1, Invariance, PTL

\* However many creates overlap, fail or are refused, each has a name of its own
\* that no row has: next_series() takes a number for good.
THEOREM NamesCorrect == Spec => []FreshNames
<1>1. IInv => FreshNames
  BY DEF IInv
<1>2. QED
  BY <1>1, Invariance, PTL

\* Whatever the docperms, a row changes only by who may write it, and where
\* requests do not overlap only within the writer's scope, and above the writer's
\* levels only by what is fetched from the rows it links.
THEOREM PermitCorrect == Spec => WritesPermitted
<1> DEFINE Permitted(n) == \E r \in Requests :
             /\ name[r] = n /\ pc[r] = "write" /\ pc'[r] = "done"
             /\ LET u == req[r].user IN
                /\ CanDoc(u, "write", table[n]) /\ table'[n][Owner] = table[n][Owner]
                /\ alone => /\ RowInScope(u, table[n])
                            /\ \A f \in Unwritable(u) :
                                  \/ table'[n][f] = table[n][f]
                                  \/ /\ f \in DOMAIN FetchFrom
                                     /\ table'[n][f] \in Fetched(f, table'[n])
<1>1. ASSUME IInv, Next, NEW n \in DOMAIN table, table'[n] # table[n]
      PROVE  Permitted(n)
  <2>1. PICK r \in Requests : Step(r)
    BY <1>1 DEF Next
  <2>2. /\ Write(r) /\ n = name[r] /\ table'[n] = mem[r] /\ req[r].kind = "update" /\ Writing(r)
        /\ table'[n][Owner] = table[n][Owner]
    BY <1>1, <2>1, OwnerStays DEF IInv
  <2>3. pc[r] = "write" /\ pc'[r] = "done"
    BY <1>1, <2>2, EndType DEF Write, Validate, IInv
  <2>4. LET u == req[r].user IN
        /\ CanDoc(u, "write", table[n])
        /\ alone => /\ RowInScope(u, table[n])
                    /\ \A f \in Unwritable(u) : KeptOrFetched(f, table[n], table'[n], TRUE)
    BY <1>1, <2>2, <2>3 DEF IInv, PermitInv
  <2>5. QED
    BY <2>2, <2>3, <2>4 DEF KeptOrFetched
<1>2. IInv /\ [Next]_vars =>
        [\A n \in DOMAIN table : table'[n] # table[n] => Permitted(n)]_vars
  BY <1>1
<1>3. QED
  BY <1>2, Invariance, PTL DEF Spec, WritesPermitted

\* Of fields whose conditions see an absent key as they see its NULL, every stored
\* row has the relevant required ones, and where requests do not overlap no unique
\* value relevant in two rows is shared.
THEOREM ConstraintsCorrect == Spec => []ConstraintsHold
<1>1. IInv => ConstraintsHold
  BY DEF IInv
<1>2. QED
  BY <1>1, Invariance, PTL

------------------------------------------------------------------------------
\* Lists

\* A filter spread over by the conditions is at least the conditions.
LEMMA ScopeWins ==
    ASSUME NEW doc, NEW filter, NEW scope, Matches(doc, Spread(filter, scope))
    PROVE  Matches(doc, scope)
<1>1. \A k \in DOMAIN scope : k \in DOMAIN Spread(filter, scope)
                              /\ Spread(filter, scope)[k] = scope[k]
  BY DEF Spread
<1>2. QED
  BY <1>1 DEF Matches

LEMMA NoFilter ==
    ASSUME NEW doc, NEW scope, Matches(doc, scope)
    PROVE  Matches(doc, Spread(NoPatch, scope))
<1>1. DOMAIN NoPatch = {}
  BY DEF NoPatch
<1>2. /\ DOMAIN Spread(NoPatch, scope) = DOMAIN scope
      /\ \A k \in DOMAIN scope : Spread(NoPatch, scope)[k] = scope[k]
  BY <1>1 DEF Spread
<1>3. QED
  BY <1>2 DEF Matches

\* Whatever the grants, the scope fields and the filters a client sends, a list shows
\* nothing its reader cannot open, and without filters all of it.
THEOREM ListCorrect == Spec => []ListShowsFetchable
<1>1. ListShowsFetchable
  <2>1. ASSUME NEW u \in Users, NEW filter PROVE List(u, filter) \subseteq Fetchable(u)
    BY ScopeWins DEF List, Fetchable, RowInScope
  <2>2. ASSUME NEW u \in Users PROVE Fetchable(u) \subseteq List(u, NoPatch)
    BY NoFilter DEF List, Fetchable, RowInScope
  <2>3. QED
    BY <2>1, <2>2 DEF ListShowsFetchable
<1>2. QED
  BY <1>1, PTL

==============================================================================
