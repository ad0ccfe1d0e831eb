----------------------------- MODULE DeskProofs ------------------------------
(* Theorems about DeskViews, for any documents, workflow states and number of *)
(* render calls: no transition button stays dead, whatever the user clicks,   *)
(* and what a user who waits sees, also on a page that boots again.           *)
EXTENDS DeskViews, FiniteSetTheorems, SequenceTheorems, TLAPS

\* A list, its placeholder and its error message have the route of a list; a form the
\* route of a document, not of its Edit address, or of an empty form.
ItemOK(x) ==
    /\ x.what \in {Loading, "list", "error"} => x.route.mode = "list"
    /\ x.what = "form" => /\ x.route.mode \in {"view", "create"} /\ x.route.tail = ""
                          /\ x.id # 0
    /\ x.what = "boot" => x = BootError

ItemInv == \A k \in DOMAIN mount : ItemOK(mount[k])

\* "Loading" has its call in flight.
LoadingInv ==
    \A k \in DOMAIN mount : mount[k].what = Loading =>
        \E r \in renders : r.id = mount[k].id /\ r.route.mode = "list"

\* Once the meta is there it stays: forms and clicks need it, and an empty form does
\* not wait any more.
MetaInv ==
    /\ \A r \in renders : /\ r.at = "data" => cache = "ok"
                          /\ r.route.mode = "create" => cache # "ok"
    /\ \A k \in DOMAIN mount : mount[k].what = "form" => cache = "ok"
    /\ clicks # {} => cache = "ok"

\* As many calls are in flight as were made, at most.
FiniteInv == IsFiniteSet(renders)

\* A disabled button is a transition button with its click in flight.
BusyInv ==
    \A k \in DOMAIN mount : mount[k].busy =>
        \E c \in clicks : c.id = mount[k].id /\ c.mode = "view"

\* A click on a document's button names the document.
ClicksInv == \A c \in clicks : c.mode = "view" => c.name \in Names

\* Unless a boot interfered, one thing is under way: a view, over a mount that is empty
\* unless the view replaces it; or a click.
OneThing ==
    /\ \A q, r \in renders : q = r
    /\ renders = {} \/ clicks = {}
    /\ renders # {} /\ route.mode # "list" => mount = <<>>
    /\ Len(mount) <= 1

\* The mount is blank while the last view is in flight, or because it was rejected.
BlankOK ==
    \/ \E r \in renders : r.id = calls
    \/ route.mode # "list" /\ (failed \/ NoRow(route))

\* A user who waits has nothing on the screen and nothing under way but what belongs to
\* the address.
PatientInv ==
    patient =>
        /\ \A r \in renders : r.route = route
        /\ \A k \in DOMAIN mount : mount[k].what = "boot" \/ mount[k].route = route
        /\ \A b, c \in clicks : b = c
        /\ \A c \in clicks : /\ route.mode = c.mode
                             /\ c.mode = "view" => route = To("view", c.name, "")
        /\ mount = <<>> /\ route # Nowhere => BlankOK
        /\ ~raced => OneThing

IInv == /\ TypeOK /\ FiniteInv /\ ClicksInv /\ BusyInv
        /\ ItemInv /\ LoadingInv /\ MetaInv /\ PatientInv

------------------------------------------------------------------------------
\* The mount element and the routes

LEMMA RouteFacts ==
    ASSUME NEW r \in Routes
    PROVE  /\ r # Nowhere /\ r.mode # "none"
           /\ r.mode \in {"list", "create", "view"}
           /\ r.mode # "view" => r.name = NoName /\ r.tail = ""
           /\ r.mode = "view" => r.name \in Names /\ r.tail \in {"", "/edit"}
           /\ r.mode = "view" /\ r.tail = "" => r = To("view", r.name, "")
<1>1. Nowhere.mode = "none"
  BY DEF Nowhere, To
<1>2. CASE r \in [mode : {"list", "create"}, name : {NoName}, tail : {""}]
  BY <1>1, <1>2
<1>3. CASE r \in [mode : {"view"}, name : Names, tail : {"", "/edit"}]
  <2>1. r.mode = "view" /\ r.name \in Names /\ r.tail \in {"", "/edit"}
    BY <1>3
  <2>2. r.tail = "" => r = To("view", r.name, "")
    BY <1>3, <2>1 DEF To
  <2>3. QED
    BY <1>1, <2>1, <2>2
<1>4. QED
  BY <1>2, <1>3 DEF Routes

LEMMA NowhereMode == Nowhere.mode = "none" /\ Nowhere.mode \notin {"view", "create", "list"}
BY DEF Nowhere, To

LEMMA ViewRoute ==
    ASSUME NEW n \in Names, NEW tail \in {"", "/edit"}
    PROVE  To("view", n, tail) \in Routes /\ To("view", n, tail).mode = "view"
BY DEF Routes, To

\* An item in front of nothing.
LEMMA OneItem ==
    ASSUME NEW x \in Item
    PROVE  /\ <<x>> \in Seq(Item) /\ DOMAIN <<x>> = {1} /\ <<x>>[1] = x
           /\ Len(<<x>>) = 1 /\ <<x>> # <<>>
OBVIOUS

LEMMA NoItem == <<>> \in Seq(Item) /\ DOMAIN <<>> = {} /\ Len(<<>>) = 0
OBVIOUS

\* What is put below the items of a mount leaves them as they are.
LEMMA Below ==
    ASSUME NEW m \in Seq(Item), NEW s \in Seq(Item)
    PROVE  /\ m \o s \in Seq(Item)
           /\ \A k \in DOMAIN (m \o s) : \/ k \in DOMAIN m /\ (m \o s)[k] = m[k]
                                         \/ \E i \in DOMAIN s : (m \o s)[k] = s[i]
<1>1. /\ DOMAIN m = 1..Len(m) /\ DOMAIN s = 1..Len(s) /\ Len(m) \in Nat /\ Len(s) \in Nat
      /\ m \o s \in Seq(Item) /\ DOMAIN (m \o s) = 1..(Len(m) + Len(s))
  BY ConcatProperties, LenProperties
<1> DEFINE c == m \o s
<1>2. \A k \in 1..(Len(m) + Len(s)) : c[k] = IF k <= Len(m) THEN m[k] ELSE s[k - Len(m)]
  BY ConcatProperties
<1>3. c \in Seq(Item) /\ DOMAIN c = 1..(Len(m) + Len(s))
  BY <1>1
<1> HIDE DEF c
<1>4. ASSUME NEW k \in DOMAIN c
      PROVE  \/ k \in DOMAIN m /\ c[k] = m[k]
             \/ \E i \in DOMAIN s : c[k] = s[i]
  <2>1. CASE k <= Len(m)
    BY <1>1, <1>2, <1>3, <2>1
  <2>2. CASE ~(k <= Len(m))
    <3>1. k - Len(m) \in DOMAIN s /\ c[k] = s[k - Len(m)]
      BY <1>1, <1>2, <1>3, <2>2
    <3>2. QED
      BY <3>1
  <2>3. QED
    BY <2>1, <2>2
<1>5. QED
  BY <1>3, <1>4 DEF c

LEMMA Below1 ==
    ASSUME NEW m \in Seq(Item), NEW x \in Item
    PROVE  /\ Append(m, x) \in Seq(Item)
           /\ \A k \in DOMAIN Append(m, x) : \/ k \in DOMAIN m /\ Append(m, x)[k] = m[k]
                                             \/ Append(m, x)[k] = x
           /\ m = <<>> => Append(m, x) = <<x>>
<1> DEFINE a == Append(m, x)
<1>1. /\ a \in Seq(Item) /\ Len(a) = Len(m) + 1 /\ Len(m) \in Nat
      /\ \A k \in 1..Len(m) : a[k] = m[k]
      /\ a[Len(m) + 1] = x
      /\ DOMAIN m = 1..Len(m) /\ DOMAIN a = 1..Len(a)
  BY AppendProperties, LenProperties
<1>2. m = <<>> => a = <<x>>
  OBVIOUS
<1> HIDE DEF a
<1>3. \A k \in DOMAIN a : (k \in DOMAIN m /\ a[k] = m[k]) \/ a[k] = x
  BY <1>1
<1>4. QED
  BY <1>1, <1>2, <1>3 DEF a

\* A view's item is one.
LEMMA ItemType ==
    ASSUME NEW r \in Render, NEW what \in {Loading, "list", "error", "form", "boot"},
           NEW state \in 0..MaxState
    PROVE  /\ MkItem(r, what, state) \in Item
           /\ MkItem(r, what, state).what = what /\ MkItem(r, what, state).route = r.route
           /\ MkItem(r, what, state).id = r.id /\ ~MkItem(r, what, state).busy
<1>1. r.id \in 0..MaxRenders /\ r.route \in Routes
  BY DeskAssumption DEF Render
<1>2. QED
  BY <1>1 DEF MkItem, Item

LEMMA BootErrorType == BootError \in Item /\ BootError.what = "boot" /\ ~BootError.busy
<1>1. 0 \in 0..MaxRenders /\ 0 \in 0..MaxState
  BY DeskAssumption
<1>2. QED
  BY <1>1 DEF BootError, Item

LEMMA Whats == "boot" # Loading /\ "form" # Loading /\ "list" # Loading /\ "error" # Loading
BY DEF Loading

\* The forms that waited for the meta are built and put in a row.
LEMMA FormsBuilt ==
    ASSUME IsFiniteSet(renders), renders \subseteq Render,
           NEW forms \in InOrder(WaitingIn("create"))
    PROVE  LET new == [i \in DOMAIN forms |-> Built(forms[i])] IN
           /\ new \in Seq(Item)
           /\ \A i \in DOMAIN new : /\ new[i].what = "form" /\ ~new[i].busy /\ new[i].id # 0
                                    /\ \E r \in WaitingIn("create") : new[i].route = r.route
           /\ \A r : WaitingIn("create") = {r} => new = <<Built(r)>>
           /\ WaitingIn("create") = {} => new = <<>>
           /\ new = <<>> => WaitingIn("create") = {}
<1> DEFINE W == WaitingIn("create")
           n == Cardinality(W)
           new == [i \in DOMAIN forms |-> Built(forms[i])]
<1>1. W \subseteq renders
  BY DEF WaitingIn
<1>2. IsFiniteSet(W) /\ n \in Nat
  BY <1>1, FS_Subset, FS_CardinalityType
<1>3. forms \in [1..n -> W]
  BY DEF InOrder
<1>4. \A r \in W : Built(r) \in Item /\ Built(r).what = "form" /\ ~Built(r).busy
                   /\ Built(r).route = r.route /\ Built(r).id # 0
  <2> SUFFICES ASSUME NEW r \in W
               PROVE  Built(r) \in Item /\ Built(r).what = "form" /\ ~Built(r).busy
                      /\ Built(r).route = r.route /\ Built(r).id # 0
    OBVIOUS
  <2>1. r \in Render /\ r.route.mode = "create" /\ r.id # 0
    BY <1>1, DeskAssumption DEF WaitingIn, Render
  <2>2. 0 \in 0..MaxState
    BY DeskAssumption
  <2>3. QED
    BY <2>1, <2>2, ItemType DEF Built
<1>5. DOMAIN new = 1..n /\ \A i \in 1..n : forms[i] \in W /\ new[i] = Built(forms[i])
  BY <1>3
<1>6. new \in Seq(Item)
  <2>1. new \in [1..n -> Item]
    BY <1>3, <1>4
  <2>2. QED
    BY <1>2, <2>1
<1>7. ASSUME NEW r, W = {r} PROVE new = <<Built(r)>>
  <2>1. n = 1
    BY <1>7, FS_Singleton
  <2>2. new = [i \in 1..1 |-> Built(r)]
    BY <1>3, <1>7, <2>1
  <2>3. QED
    BY <2>2
<1>8. W = {} => new = <<>>
  <2>1. W = {} => n = 0
    BY FS_EmptySet
  <2>2. QED
    BY <1>3, <2>1
<1>9. new = <<>> => W = {}
  <2>1. new = <<>> => n = 0
    BY <1>2, <1>5
  <2>2. QED
    BY <1>2, <2>1, FS_EmptySet
<1>10. QED
  BY <1>4, <1>5, <1>6, <1>7, <1>8, <1>9

------------------------------------------------------------------------------
\* Every step keeps the invariant.

LEMMA InvInit == Init => IInv
<1> SUFFICES ASSUME Init PROVE IInv
  OBVIOUS
<1>1. TypeOK
  <2>1. \A n \in Names : docs[n] \in 0..MaxState
    BY DeskAssumption DEF Init
  <2>2. docs \in [Names -> 0..MaxState]
    BY <2>1 DEF Init
  <2>3. /\ patient \in BOOLEAN /\ failed \in BOOLEAN /\ booting \in BOOLEAN
        /\ raced \in BOOLEAN
    BY DEF Init
  <2>4. mount \in Seq(Item)
    BY NoItem DEF Init
  <2>5. /\ route \in Routes \cup {Nowhere} /\ renders \subseteq Render
        /\ cache \in {"none", "pending", "ok"} /\ clicks \subseteq Click
        /\ calls \in 0..MaxRenders
    BY DeskAssumption DEF Init
  <2>6. QED
    BY <2>2, <2>3, <2>4, <2>5 DEF TypeOK
<1>2. FiniteInv
  BY FS_EmptySet DEF Init, FiniteInv
<1>3. ItemInv /\ LoadingInv /\ MetaInv /\ ClicksInv /\ BusyInv
  BY NoItem DEF Init, ItemInv, LoadingInv, MetaInv, ClicksInv, BusyInv
<1>4. PatientInv
  <2>1. mount = <<>>
    BY DEF Init
  <2>2. Len(mount) <= 1
    BY <2>1, NoItem
  <2>3. QED
    BY <2>2, NoItem DEF Init, PatientInv, OneThing
<1>5. QED
  BY <1>1, <1>2, <1>3, <1>4 DEF IInv

\* A route is shown: nothing is on the screen but what it puts there.  A user who waits
\* has nothing else under way, or only what belongs to the same address.
LEMMA ShowStep ==
    ASSUME IInv, NEW r \in Routes, Show(r), UNCHANGED patient,
           clicks' \subseteq clicks, docs' \in [Names -> 0..MaxState],
           raced' \in BOOLEAN, booting' \in BOOLEAN,
           patient => \/ renders = {} /\ clicks' = {}
                      \/ r = route /\ raced'
    PROVE  IInv'
<1> DEFINE new == [id |-> calls + 1, route |-> r,
                   at |-> IF cache = "ok" THEN "data" ELSE "meta"]
<1>1. TypeOK /\ IsFiniteSet(renders) /\ MetaInv /\ PatientInv
  BY DEF IInv, FiniteInv
<1>2. /\ new \in Render /\ new.route = r /\ new.id = calls' /\ calls' \in 0..MaxRenders
      /\ new.id # 0
      /\ new.at = "data" => cache = "ok"
  BY <1>1, DeskAssumption DEF Show, TypeOK, Render
<1>3. /\ route' = r /\ cache' \in {"none", "pending", "ok"} /\ (cache' = "ok" <=> cache = "ok")
      /\ failed' = FALSE
      /\ \/ /\ r.mode = "create" /\ mount' = <<Built(new)>> /\ renders' = renders
            /\ cache = "ok"
         \/ /\ r.mode = "list" /\ mount' = <<MkItem(new, Loading, 0)>>
            /\ renders' = renders \cup {new}
         \/ /\ r.mode # "list" /\ mount' = <<>> /\ renders' = renders \cup {new}
            /\ r.mode = "create" => cache # "ok"
  BY <1>1 DEF Show, TypeOK, Asked
<1> HIDE DEF new
<1>4. 0 \in 0..MaxState
  BY DeskAssumption
<1>5. /\ Built(new) \in Item /\ MkItem(new, Loading, 0) \in Item
      /\ Built(new).what = "form" /\ MkItem(new, Loading, 0).what = Loading
      /\ Built(new).route = r /\ MkItem(new, Loading, 0).route = r
      /\ MkItem(new, Loading, 0).id = new.id /\ Built(new).id = new.id
      /\ ~Built(new).busy /\ ~MkItem(new, Loading, 0).busy
  BY <1>2, <1>4, ItemType DEF Built
<1>6. mount' \in Seq(Item) /\ Len(mount') <= 1
  <2>1. CASE mount' = <<>>
    BY <2>1, NoItem
  <2>2. CASE mount' = <<Built(new)>>
    BY <1>5, <2>2, OneItem
  <2>3. CASE mount' = <<MkItem(new, Loading, 0)>>
    BY <1>5, <2>3, OneItem
  <2>4. QED
    BY <1>3, <2>1, <2>2, <2>3
<1>7. TypeOK'
  <2>1. renders' \subseteq Render
    BY <1>1, <1>2, <1>3 DEF TypeOK
  <2>2. QED
    BY <1>1, <1>2, <1>3, <1>6, <2>1 DEF TypeOK
<1>8. FiniteInv'
  BY <1>1, <1>3, FS_AddElement DEF FiniteInv
<1>9. ASSUME NEW k \in DOMAIN mount'
      PROVE  /\ ~mount'[k].busy /\ mount'[k].route = r /\ mount'[k].id = new.id
             /\ \/ mount'[k].what = "form" /\ r.mode = "create" /\ cache = "ok"
                \/ /\ mount'[k].what = Loading /\ r.mode = "list"
                   /\ new \in renders'
  BY <1>3, <1>5, OneItem, NoItem
<1>10. ItemInv' /\ BusyInv' /\ LoadingInv'
  <2>1. ItemInv'
    BY <1>2, <1>9, Whats, RouteFacts DEF ItemInv, ItemOK
  <2>2. BusyInv'
    BY <1>9 DEF BusyInv
  <2>3. LoadingInv'
    BY <1>2, <1>9, Whats DEF LoadingInv
  <2>4. QED
    BY <2>1, <2>2, <2>3
<1>11. MetaInv' /\ ClicksInv'
  <2>1. ASSUME NEW q \in renders'
        PROVE  (q.at = "data" => cache' = "ok") /\ (q.route.mode = "create" => cache' # "ok")
    BY <1>1, <1>2, <1>3, <2>1 DEF MetaInv
  <2>2. \A k \in DOMAIN mount' : mount'[k].what = "form" => cache' = "ok"
    BY <1>3, <1>9, Whats
  <2>3. QED
    BY <1>1, <1>3, <2>1, <2>2 DEF MetaInv, ClicksInv, IInv
<1>12. PatientInv'
  <2> SUFFICES ASSUME patient PROVE PatientInv'
    BY DEF PatientInv
  <2>1. \A q \in renders' : q.route = r
    <3>1. \A q \in renders : q.route = r
      <4>1. \A q \in renders : q.route = route
        BY <1>1 DEF PatientInv
      <4>2. renders = {} \/ r = route
        OBVIOUS
      <4>3. QED
        BY <4>1, <4>2
    <3>2. QED
      BY <1>2, <1>3, <3>1
  <2>2. /\ \A b, c \in clicks' : b = c
        /\ \A c \in clicks' : /\ r.mode = c.mode
                              /\ c.mode = "view" => r = To("view", c.name, "")
    <3>1. CASE clicks' = {}
      BY <3>1
    <3>2. CASE r = route
      <4>1. /\ \A b, c \in clicks : b = c
            /\ \A c \in clicks : /\ route.mode = c.mode
                                 /\ c.mode = "view" => route = To("view", c.name, "")
        BY <1>1 DEF PatientInv
      <4>2. QED
        BY <3>2, <4>1
    <3>3. QED
      BY <3>1, <3>2
  <2>3. mount' = <<>> => \E q \in renders' : q.id = calls'
    BY <1>2, <1>3, <1>5, OneItem
  <2>4. ~raced' => OneThing'
    <3> SUFFICES ASSUME ~raced' PROVE OneThing'
      OBVIOUS
    <3>1. renders = {} /\ clicks' = {}
      OBVIOUS
    <3>2. \A p, q \in renders' : p = q
      BY <1>3, <3>1
    <3>3. renders' # {} /\ r.mode # "list" => mount' = <<>>
      BY <1>3, <3>1
    <3>4. QED
      BY <1>3, <1>6, <3>1, <3>2, <3>3 DEF OneThing
  <2>5. QED
    BY <1>3, <1>9, <2>1, <2>2, <2>3, <2>4 DEF PatientInv, BlankOK
<1>13. QED
  BY <1>7, <1>8, <1>10, <1>11, <1>12 DEF IInv

LEMMA NavigateStep ==
    ASSUME IInv, NEW r \in Routes, Navigate(r)
    PROVE  IInv'
BY ShowStep DEF Navigate, Quiet, IInv, TypeOK

\* The meta arrives.
LEMMA MetaOkStep == IInv /\ MetaOk => IInv'
<1> SUFFICES ASSUME IInv, MetaOk PROVE IInv'
  OBVIOUS
<1>1. /\ TypeOK /\ IsFiniteSet(renders) /\ renders \subseteq Render /\ MetaInv /\ PatientInv
      /\ mount \in Seq(Item)
  BY DEF IInv, FiniteInv, TypeOK
<1>0. /\ UNCHANGED <<patient, route, clicks, docs, calls, booting, failed, raced>>
      /\ cache = "pending" /\ cache' = "ok"
  BY DEF MetaOk, history
<1> DEFINE W == WaitingIn("create")
           go(r) == [r EXCEPT !.at = "data"]
<1>2. PICK forms \in InOrder(W) : mount' = mount \o [i \in DOMAIN forms |-> Built(forms[i])]
  BY DEF MetaOk
<1> DEFINE new == [i \in DOMAIN forms |-> Built(forms[i])]
<1>3. /\ new \in Seq(Item)
      /\ \A i \in DOMAIN new : /\ new[i].what = "form" /\ ~new[i].busy /\ new[i].id # 0
                               /\ \E r \in W : new[i].route = r.route
      /\ \A r : W = {r} => new = <<Built(r)>>
      /\ W = {} => new = <<>>
      /\ new = <<>> => W = {}
  BY <1>1, FormsBuilt
<1>4. mount' = mount \o new
  BY <1>2
<1> HIDE DEF new
<1>5. /\ mount' \in Seq(Item)
      /\ \A k \in DOMAIN mount' : \/ k \in DOMAIN mount /\ mount'[k] = mount[k]
                                  \/ \E i \in DOMAIN new : mount'[k] = new[i]
  BY <1>1, <1>3, <1>4, Below
<1>6. renders' = {go(r) : r \in renders \ W}
  BY DEF MetaOk
<1>7. \A r \in renders : /\ go(r) \in Render /\ go(r).route = r.route /\ go(r).id = r.id
  BY <1>1 DEF Render
<1>8. \A r \in W : r \in renders /\ r.route \in Routes /\ r.route.mode = "create"
  BY <1>1 DEF WaitingIn, Render
<1>9. \A r \in renders : r.route.mode = "create" => r \in W
  <2>1. \A r \in renders : r.at # "data"
    BY <1>0, <1>1 DEF MetaInv
  <2>2. \A r \in renders : r.at = "meta"
    BY <1>1, <2>1 DEF Render
  <2>3. QED
    BY <2>2 DEF WaitingIn, Waiting
<1>10. TypeOK'
  BY <1>0, <1>1, <1>5, <1>6, <1>7 DEF TypeOK
<1>11. FiniteInv'
  <2> DEFINE g == [r \in renders \ W |-> go(r)]
  <2>1. g \in Surjection(renders \ W, renders')
    BY <1>6 DEF Surjection
  <2>2. IsFiniteSet(renders \ W)
    BY <1>1, FS_Subset
  <2>3. QED
    BY <2>1, <2>2, FS_Surjection DEF FiniteInv
<1> HIDE DEF go, W
<1>12. \A k \in DOMAIN mount' :
          \/ k \in DOMAIN mount /\ mount'[k] = mount[k]
          \/ /\ mount'[k].what = "form" /\ ~mount'[k].busy /\ mount'[k].id # 0
             /\ \E r \in W : mount'[k].route = r.route
  BY <1>3, <1>5
<1>13. ItemInv' /\ BusyInv' /\ ClicksInv'
  <2>1. ItemInv'
    <3> SUFFICES ASSUME NEW k \in DOMAIN mount' PROVE ItemOK(mount'[k])
      BY DEF ItemInv
    <3>1. CASE k \in DOMAIN mount /\ mount'[k] = mount[k]
      BY <3>1 DEF IInv, ItemInv
    <3>2. CASE /\ mount'[k].what = "form" /\ mount'[k].id # 0
               /\ \E r \in W : mount'[k].route = r.route
      <4>1. mount'[k].route.mode = "create" /\ mount'[k].route.tail = ""
        BY <1>8, <3>2, RouteFacts
      <4>2. QED
        BY <3>2, <4>1, Whats DEF ItemOK
    <3>3. QED
      BY <1>12, <3>1, <3>2
  <2>2. QED
    BY <1>0, <1>12, <2>1 DEF IInv, BusyInv, ClicksInv
<1>14. LoadingInv'
  <2> SUFFICES ASSUME NEW k \in DOMAIN mount', mount'[k].what = Loading
               PROVE  \E r \in renders' : r.id = mount'[k].id /\ r.route.mode = "list"
    BY DEF LoadingInv
  <2>1. k \in DOMAIN mount /\ mount'[k] = mount[k]
    BY <1>12, Whats
  <2>2. PICK r \in renders : r.id = mount[k].id /\ r.route.mode = "list"
    BY <2>1 DEF IInv, LoadingInv
  <2>3. r \notin W
    BY <1>8, <2>2
  <2>4. QED
    BY <1>6, <1>7, <2>1, <2>2, <2>3
<1>15. MetaInv'
  <2>1. ASSUME NEW q \in renders' PROVE q.route.mode # "create"
    <3>1. PICK r \in renders \ W : q = go(r)
      BY <1>6
    <3>2. QED
      BY <1>7, <1>9, <3>1
  <2>2. QED
    BY <1>0, <2>1 DEF MetaInv
<1>16. PatientInv'
  <2> SUFFICES ASSUME patient PROVE PatientInv'
    BY <1>0 DEF PatientInv
  <2>1. /\ \A r \in renders : r.route = route
        /\ \A k \in DOMAIN mount : mount[k].what = "boot" \/ mount[k].route = route
        /\ mount = <<>> /\ route # Nowhere => BlankOK
        /\ ~raced => OneThing
    BY <1>1 DEF PatientInv
  <2>2. \A q \in renders' : q.route = route
    BY <1>6, <1>7, <2>1
  <2>3. \A k \in DOMAIN mount' : mount'[k].what = "boot" \/ mount'[k].route = route
    BY <1>8, <1>12, <2>1
  <2>4. mount' = <<>> => mount = <<>> /\ new = <<>>
    <3>1. mount \in Seq(Item) /\ new \in Seq(Item)
      BY <1>1, <1>3
    <3>2. mount \o new = <<>> => mount = <<>> /\ new = <<>>
      BY <3>1, ConcatProperties, LenProperties, EmptySeq
    <3>3. QED
      BY <1>4, <3>2
  <2>5. ASSUME mount' = <<>>, route # Nowhere PROVE BlankOK'
    <3>1. BlankOK /\ W = {}
      BY <1>3, <2>1, <2>4, <2>5
    <3>2. CASE \E r \in renders : r.id = calls
      <4>1. \E q \in renders' : q.id = calls
        BY <1>6, <1>7, <3>1, <3>2
      <4>2. QED
        BY <1>0, <4>1 DEF BlankOK
    <3>3. CASE route.mode # "list" /\ (failed \/ NoRow(route))
      BY <1>0, <3>3 DEF BlankOK, NoRow
    <3>4. QED
      BY <3>1, <3>2, <3>3 DEF BlankOK
  <2>6. ASSUME ~raced PROVE OneThing'
    <3>1. OneThing /\ \A p, q \in renders : p = q
      BY <2>1, <2>6 DEF OneThing
    <3>2. CASE W = {}
      <4>1. mount' = mount
        BY <1>1, <1>3, <1>4, <3>2, ConcatEmptySeq
      <4>2. \A p, q \in renders' : p = q
        BY <1>6, <3>1
      <4>3. renders' # {} => renders # {}
        BY <1>6
      <4>4. QED
        BY <1>0, <3>1, <4>1, <4>2, <4>3 DEF OneThing
    <3>3. CASE W # {}
      <4>1. PICK r \in W : r \in renders /\ r.route \in Routes /\ r.route.mode = "create"
        BY <1>8, <3>3
      <4>2. W = {r} /\ renders = {r}
        BY <1>8, <3>1, <4>1
      <4>3. renders' = {}
        BY <1>6, <4>2
      <4>4. mount = <<>>
        BY <2>1, <3>1, <4>1 DEF OneThing
      <4>5. mount' = <<Built(r)>>
        BY <1>3, <1>4, <4>2, <4>4, ConcatEmptySeq
      <4>6. Len(mount') <= 1
        BY <4>5
      <4>7. QED
        BY <4>3, <4>6 DEF OneThing
    <3>4. QED
      BY <3>2, <3>3
  <2>7. QED
    BY <1>0, <1>1, <2>2, <2>3, <2>5, <2>6 DEF PatientInv
<1>17. QED
  BY <1>10, <1>11, <1>13, <1>14, <1>15, <1>16 DEF IInv

\* The meta does not come.
LEMMA MetaErrorStep == IInv /\ MetaError => IInv'
<1> SUFFICES ASSUME IInv, MetaError PROVE IInv'
  OBVIOUS
<1> DEFINE W == WaitingIn("list")
           V == {r \in renders : Waiting(r) /\ r.route.mode # "list"}
<1>1. TypeOK /\ IsFiniteSet(renders) /\ PatientInv /\ MetaInv /\ renders \subseteq Render
  BY DEF IInv, FiniteInv, TypeOK
<1>2. /\ UNCHANGED <<patient, route, clicks, docs, calls, booting, raced>>
      /\ cache = "pending" /\ cache' = "none"
      /\ failed' = (failed \/ \E r \in V : r.id = calls)
  BY DEF MetaError, Rejects
<1>3. /\ renders' = {r \in renders : ~Waiting(r)} /\ renders' \subseteq renders
      /\ \A r \in renders : r.at = "data" \/ Waiting(r)
  BY <1>1 DEF MetaError, Waiting, Render
<1>4. renders' = {} /\ clicks = {}
  BY <1>1, <1>2, <1>3 DEF MetaInv, Waiting
<1>5. \/ W = {} /\ mount' = mount
      \/ \E r \in W : mount' = ListShown(r, "error")
  BY DEF MetaError
<1>6. ASSUME NEW r \in W
      PROVE  /\ r \in renders /\ r.route.mode = "list"
             /\ MkItem(r, "error", 0) \in Item /\ ~MkItem(r, "error", 0).busy
             /\ MkItem(r, "error", 0).what = "error"
             /\ MkItem(r, "error", 0).route = r.route
  <2>1. r \in renders /\ r.route.mode = "list" /\ 0 \in 0..MaxState
    BY DeskAssumption DEF WaitingIn
  <2>2. r \in Render
    BY <1>1, <2>1
  <2>3. QED
    BY <2>1, <2>2, ItemType
<1>7. \/ W = {} /\ mount' = mount
      \/ /\ mount' \in Seq(Item) /\ Len(mount') <= 1 /\ mount' # <<>>
         /\ \E r \in renders : \A k \in DOMAIN mount' :
               /\ mount'[k].what = "error" /\ ~mount'[k].busy
               /\ mount'[k].route = r.route /\ r.route.mode = "list"
  <2>1. CASE \E r \in W : mount' = ListShown(r, "error")
    <3>1. PICK r \in W : mount' = <<MkItem(r, "error", 0)>>
      BY <2>1 DEF ListShown
    <3> DEFINE item == MkItem(r, "error", 0)
    <3>2. /\ item \in Item /\ item.what = "error" /\ ~item.busy /\ mount' = <<item>>
          /\ item.route = r.route /\ r \in renders /\ r.route.mode = "list"
      BY <1>6, <3>1
    <3> HIDE DEF item
    <3>3. Len(mount') <= 1
      BY <3>2
    <3>4. QED
      BY <3>2, <3>3, OneItem
  <2>2. QED
    BY <1>5, <2>1
<1>8. TypeOK'
  BY <1>1, <1>2, <1>3, <1>7 DEF TypeOK
<1>9. FiniteInv' /\ ClicksInv' /\ MetaInv'
  <2>1. \A k \in DOMAIN mount' : mount'[k].what # "form"
    BY <1>1, <1>2, <1>7 DEF MetaInv
  <2>2. QED
    BY <1>1, <1>2, <1>4, <2>1, FS_EmptySet DEF FiniteInv, ClicksInv, MetaInv
<1>10. ItemInv' /\ BusyInv'
  BY <1>2, <1>7, Whats DEF IInv, ItemInv, ItemOK, BusyInv
<1>11. LoadingInv'
  <2>1. CASE W = {} /\ mount' = mount
    <3>1. \A r \in renders : r.route.mode # "list"
      BY <1>3, <1>4, <2>1 DEF WaitingIn
    <3>2. QED
      BY <2>1, <3>1 DEF IInv, LoadingInv
  <2>2. CASE \A k \in DOMAIN mount' : mount'[k].what = "error"
    BY <2>2, Whats DEF LoadingInv
  <2>3. QED
    BY <1>7, <2>1, <2>2
<1>12. PatientInv'
  <2> SUFFICES ASSUME patient PROVE PatientInv'
    BY <1>2 DEF PatientInv
  <2>1. /\ \A r \in renders : r.route = route
        /\ \A k \in DOMAIN mount : mount[k].what = "boot" \/ mount[k].route = route
        /\ mount = <<>> /\ route # Nowhere => BlankOK
        /\ ~raced => OneThing
    BY <1>1 DEF PatientInv
  <2>2. \A k \in DOMAIN mount' : mount'[k].what = "boot" \/ mount'[k].route = route
    BY <1>7, <2>1
  <2>3. ASSUME mount' = <<>>, route # Nowhere PROVE BlankOK'
    <3>1. W = {} /\ mount = <<>> /\ BlankOK
      BY <1>7, <2>1, <2>3
    <3>2. ASSUME NEW r \in renders, r.id = calls PROVE route.mode # "list" /\ failed'
      <4>1. Waiting(r) /\ r.route = route /\ r \notin W
        BY <1>3, <1>4, <2>1, <3>1, <3>2
      <4>2. r \in V
        BY <4>1 DEF WaitingIn
      <4>3. QED
        BY <1>2, <3>2, <4>1, <4>2
    <3>3. QED
      BY <1>2, <3>1, <3>2 DEF BlankOK, NoRow
  <2>4. ~raced => OneThing'
    <3>1. ~raced => Len(mount') <= 1
      BY <1>7, <2>1 DEF OneThing
    <3>2. QED
      BY <1>4, <3>1 DEF OneThing
  <2>5. QED
    BY <1>2, <1>4, <2>2, <2>3, <2>4 DEF PatientInv
<1>13. QED
  BY <1>8, <1>9, <1>10, <1>11, <1>12 DEF IInv

\* A view has what it asked for, or an error: its call is over.  A list replaces what is on
\* the screen, a form comes below it.
LEMMA DoneStep ==
    ASSUME IInv, NEW r \in renders, Done(r),
           UNCHANGED <<patient, route, cache, clicks, docs, calls, booting, raced>>,
           failed' \in BOOLEAN, failed => failed', mount' \in Seq(Item),
           r.at = "data", r.route.mode \in {"list", "view"},
           \A k \in DOMAIN mount' :
              \/ k \in DOMAIN mount /\ mount'[k] = mount[k] /\ r.route.mode = "view"
              \/ /\ ~mount'[k].busy /\ mount'[k].route = r.route /\ ItemOK(mount'[k])
                 /\ mount'[k].what \in {"list", "error", "form"},
           mount' = <<>> => /\ mount = <<>> /\ r.route.mode = "view"
                            /\ r.id = calls => failed' \/ NoRow(r.route),
           r.route.mode = "list" \/ mount = <<>> => Len(mount') <= 1
    PROVE  IInv'
<1>1. TypeOK /\ MetaInv /\ PatientInv /\ renders' = renders \ {r} /\ cache = "ok"
  BY DEF IInv, Done, MetaInv
<1>2. TypeOK' /\ FiniteInv'
  BY <1>1, FS_Subset DEF IInv, TypeOK, FiniteInv
<1>3. ItemInv' /\ BusyInv' /\ ClicksInv'
  BY DEF IInv, ItemInv, BusyInv, ClicksInv
<1>4. MetaInv'
  BY <1>1 DEF MetaInv
<1>5. LoadingInv'
  <2> SUFFICES ASSUME NEW k \in DOMAIN mount', mount'[k].what = Loading
               PROVE  \E q \in renders' : q.id = mount'[k].id /\ q.route.mode = "list"
    BY DEF LoadingInv
  <2>1. k \in DOMAIN mount /\ mount'[k] = mount[k] /\ r.route.mode = "view"
    BY Whats
  <2>2. PICK q \in renders : q.id = mount[k].id /\ q.route.mode = "list"
    BY <2>1 DEF IInv, LoadingInv
  <2>3. q # r
    BY <2>1, <2>2
  <2>4. QED
    BY <1>1, <2>1, <2>2, <2>3
<1>6. PatientInv'
  <2> SUFFICES ASSUME patient PROVE PatientInv'
    BY DEF PatientInv
  <2>1. /\ \A q \in renders : q.route = route
        /\ \A k \in DOMAIN mount : mount[k].what = "boot" \/ mount[k].route = route
        /\ mount = <<>> /\ route # Nowhere => BlankOK
        /\ ~raced => OneThing
    BY <1>1 DEF PatientInv
  <2>2. \A k \in DOMAIN mount' : mount'[k].what = "boot" \/ mount'[k].route = route
    BY <2>1
  <2>3. ASSUME mount' = <<>>, route # Nowhere PROVE BlankOK'
    <3>1. /\ mount = <<>> /\ r.route.mode = "view" /\ r.route = route /\ BlankOK
          /\ r.id = calls => failed' \/ NoRow(route)
      BY <2>1, <2>3
    <3>2. CASE \E q \in renders \ {r} : q.id = calls
      BY <1>1, <3>2 DEF BlankOK
    <3>3. CASE r.id = calls \/ failed \/ NoRow(route)
      BY <3>1, <3>3 DEF BlankOK, NoRow
    <3>4. QED
      BY <3>1, <3>2, <3>3 DEF BlankOK
  <2>4. ASSUME ~raced PROVE OneThing'
    <3>1. OneThing
      BY <2>1, <2>4
    <3>2. renders' = {}
      BY <1>1, <3>1 DEF OneThing
    <3>3. r.route.mode = "list" \/ mount = <<>>
      BY <2>1, <3>1 DEF OneThing
    <3>4. QED
      BY <3>2, <3>3 DEF OneThing
  <2>5. QED
    BY <1>1, <2>1, <2>2, <2>3, <2>4 DEF PatientInv
<1>7. QED
  BY <1>2, <1>3, <1>4, <1>5, <1>6 DEF IInv

LEMMA ListAnsweredStep ==
    ASSUME IInv, NEW r \in renders, ListAnswered(r)
    PROVE  IInv'
<1>1. PICK what \in {"list", "error"} : mount' = <<MkItem(r, what, 0)>>
  BY DEF ListAnswered, ListShown
<1> DEFINE item == MkItem(r, what, 0)
<1>2. item \in Item /\ item.what = what /\ item.route = r.route /\ ~item.busy
  BY DeskAssumption, ItemType DEF IInv, TypeOK
<1>3. mount' = <<item>>
  BY <1>1
<1> HIDE DEF item
<1>4. /\ mount' \in Seq(Item) /\ Len(mount') = 1 /\ mount' # <<>>
      /\ \A k \in DOMAIN mount' : mount'[k] = item
  BY <1>2, <1>3, OneItem
<1>5. ItemOK(item)
  BY <1>2 DEF ItemOK, ListAnswered
<1>6. /\ Done(r) /\ r.at = "data" /\ r.route.mode = "list"
      /\ UNCHANGED <<patient, route, cache, clicks, docs, calls, booting, raced, failed>>
  BY DEF ListAnswered, history
<1>7. Len(mount') <= 1 /\ failed' \in BOOLEAN
  BY <1>4, <1>6 DEF IInv, TypeOK
<1>8. QED
  BY <1>2, <1>4, <1>5, <1>6, <1>7, DoneStep

LEMMA FormAnsweredStep ==
    ASSUME IInv, NEW r \in renders, FormAnswered(r)
    PROVE  IInv'
<1>1. /\ TypeOK /\ r \in Render /\ r.route.mode = "view" /\ r.route \in Routes /\ r.at = "data"
      /\ Done(r) /\ mount \in Seq(Item) /\ r.id # 0
      /\ UNCHANGED <<patient, route, cache, clicks, docs, calls, booting, raced>>
  BY DeskAssumption DEF IInv, TypeOK, FormAnswered, Render
<1>2. CASE mount' = mount /\ ((NoRow(r.route) /\ UNCHANGED failed) \/ Rejects({r}))
  <2>1. /\ failed' \in BOOLEAN /\ (failed => failed')
        /\ r.id = calls => failed' \/ NoRow(r.route)
    BY <1>1, <1>2 DEF Rejects, TypeOK
  <2>2. mount = <<>> => Len(mount') <= 1
    BY <1>2
  <2>3. QED
    BY <1>1, <1>2, <2>1, <2>2, DoneStep
<1>3. CASE /\ ~NoRow(r.route) /\ UNCHANGED failed
           /\ mount' = Append(mount, MkItem(r, "form", docs[r.route.name]))
  <2> DEFINE item == MkItem(r, "form", docs[r.route.name])
  <2>1. docs[r.route.name] \in 0..MaxState
    BY <1>1, RouteFacts DEF TypeOK
  <2>2. /\ item \in Item /\ item.what = "form" /\ item.route = r.route /\ ~item.busy
        /\ item.id = r.id
    BY <1>1, <2>1, ItemType
  <2>3. mount' = Append(mount, item)
    BY <1>3
  <2> HIDE DEF item
  <2>4. /\ mount' \in Seq(Item)
        /\ \A k \in DOMAIN mount' : \/ k \in DOMAIN mount /\ mount'[k] = mount[k]
                                    \/ mount'[k] = item
        /\ mount = <<>> => mount' = <<item>>
    BY <1>1, <2>2, <2>3, Below1
  <2>5. ItemOK(item)
    BY <1>1, <1>3, <2>2, Whats DEF ItemOK, NoRow
  <2>6. mount' # <<>>
    <3>1. Len(mount') = Len(mount) + 1 /\ Len(mount) \in Nat
      BY <1>1, <2>2, <2>3, AppendProperties, LenProperties
    <3>2. Len(mount') # Len(<<>>)
      BY <3>1
    <3>3. QED
      BY <3>2
  <2>7. mount = <<>> => Len(mount') <= 1
    BY <2>2, <2>4, OneItem
  <2>8. failed' \in BOOLEAN /\ (failed => failed')
    BY <1>1, <1>3 DEF TypeOK
  <2>9. QED
    BY <1>1, <2>2, <2>4, <2>5, <2>6, <2>7, <2>8, DoneStep
<1>4. QED
  BY <1>2, <1>3 DEF FormAnswered

\* A credential comes: the boot begins behind the view.
LEMMA CredentialStep == IInv /\ Credential => IInv'
<1> SUFFICES ASSUME IInv, Credential PROVE IInv'
  OBVIOUS
<1>1. /\ UNCHANGED <<patient, route, mount, renders, cache, clicks, docs, calls, failed, raced>>
      /\ booting' = TRUE
  BY DEF Credential, history
<1>2. TypeOK'
  BY <1>1 DEF IInv, TypeOK
<1>3. QED
  BY <1>1, <1>2 DEF IInv, FiniteInv, ClicksInv, BusyInv, ItemInv, ItemOK, LoadingInv,
                    MetaInv, PatientInv, OneThing, BlankOK, NoRow

\* The address is shown again.
LEMMA BootOkStep == IInv /\ BootOk => IInv'
<1> SUFFICES ASSUME IInv, BootOk PROVE IInv'
  OBVIOUS
<1>1. /\ UNCHANGED <<patient, clicks, docs>> /\ booting' = FALSE
      /\ raced' = (raced \/ ~Quiet) /\ raced' \in BOOLEAN
      /\ docs \in [Names -> 0..MaxState]
  BY DEF BootOk, BootEnds, IInv, TypeOK
<1>2. CASE route # Nowhere /\ Show(route)
  <2>1. route \in Routes
    BY <1>2 DEF IInv, TypeOK
  <2>2. patient => (renders = {} /\ clicks' = {}) \/ raced'
    BY <1>1 DEF Quiet
  <2>3. QED
    BY <1>1, <1>2, <2>1, <2>2, ShowStep
<1>3. CASE route = Nowhere /\ cache' = Asked /\ UNCHANGED <<route, mount, renders, calls, failed>>
  <2>1. cache' \in {"none", "pending", "ok"} /\ (cache' = "ok" <=> cache = "ok")
    BY <1>3 DEF Asked, IInv, TypeOK
  <2>2. TypeOK'
    BY <1>1, <1>3, <2>1 DEF IInv, TypeOK
  <2>3. MetaInv'
    BY <1>1, <1>3, <2>1 DEF IInv, MetaInv
  <2>4. PatientInv'
    BY <1>1, <1>3 DEF IInv, PatientInv, OneThing
  <2>5. QED
    BY <1>1, <1>3, <2>2, <2>3, <2>4
    DEF IInv, FiniteInv, ClicksInv, BusyInv, ItemInv, ItemOK, LoadingInv
<1>4. QED
  BY <1>2, <1>3 DEF BootOk

\* The message of a failed boot is on the screen, what is under way comes below it.
LEMMA BootFailedStep == IInv /\ BootFailed => IInv'
<1> SUFFICES ASSUME IInv, BootFailed PROVE IInv'
  OBVIOUS
<1>1. /\ UNCHANGED <<patient, route, renders, cache, clicks, docs, calls, failed>>
      /\ mount' = <<BootError>> /\ booting' = FALSE
      /\ raced' = (raced \/ ~Quiet) /\ raced' \in BOOLEAN
  BY DEF BootFailed, BootEnds, IInv, TypeOK
<1>2. /\ mount' \in Seq(Item) /\ DOMAIN mount' = {1} /\ mount'[1] = BootError
      /\ Len(mount') = 1 /\ mount' # <<>>
  BY <1>1, BootErrorType, OneItem
<1>3. TypeOK'
  BY <1>1, <1>2 DEF IInv, TypeOK
<1>4. ItemInv' /\ LoadingInv' /\ BusyInv'
  BY <1>2, BootErrorType, Whats DEF ItemInv, ItemOK, LoadingInv, BusyInv
<1>5. MetaInv' /\ FiniteInv' /\ ClicksInv'
  BY <1>1, <1>2, BootErrorType DEF IInv, MetaInv, FiniteInv, ClicksInv
<1>6. PatientInv'
  <2>1. Len(mount') <= 1
    BY <1>2
  <2>2. ~raced' => OneThing'
    BY <1>1, <2>1 DEF Quiet, OneThing
  <2>3. QED
    BY <1>1, <1>2, <2>2, BootErrorType DEF IInv, PatientInv
<1>7. QED
  BY <1>3, <1>4, <1>5, <1>6 DEF IInv

\* The form a waiting user clicks on is the view of the address.
LEMMA PatientClick ==
    ASSUME IInv, patient, NEW k \in DOMAIN mount, NEW mode \in {"view", "create"},
           OnForm(k, mode)
    PROVE  /\ route # Nowhere /\ mount[k].route = route /\ route.mode = mode
           /\ mode = "view" => route = To("view", mount[k].route.name, "")
<1>1. mount[k] \in Item /\ ItemOK(mount[k]) /\ mount[k].what = "form" /\ mount[k].route.mode = mode
  BY LenProperties DEF IInv, TypeOK, OnForm, ItemInv
<1>2. mount[k].route = route
  BY <1>1 DEF IInv, PatientInv
<1>3. route # Nowhere /\ route \in Routes
  BY <1>1, <1>2, NowhereMode DEF IInv, TypeOK
<1>4. route.tail = ""
  BY <1>1, <1>2 DEF ItemOK
<1>5. QED
  BY <1>1, <1>2, <1>3, <1>4, RouteFacts

LEMMA ClickActionStep ==
    ASSUME IInv, NEW k \in DOMAIN mount, ClickAction(k)
    PROVE  IInv'
<1> DEFINE c == [id |-> mount[k].id, mode |-> "view",
                 name |-> mount[k].route.name, nth |-> 1]
<1>1. /\ TypeOK /\ mount \in Seq(Item) /\ k \in 1..Len(mount) /\ OnForm(k, "view")
      /\ DOMAIN mount = 1..Len(mount) /\ Len(mount) \in Nat
  BY LenProperties DEF IInv, TypeOK, ClickAction
<1>2. mount[k] \in Item /\ mount[k].what = "form" /\ mount[k].id # 0
  <2>1. mount[k] \in Item /\ mount[k].what = "form"
    BY <1>1 DEF OnForm
  <2>2. ItemOK(mount[k])
    BY DEF IInv, ItemInv
  <2>3. QED
    BY <2>1, <2>2 DEF ItemOK
<1>3. mount[k].route.name \in Names
  <2>1. mount[k].route \in Routes
    BY <1>1, <1>2, NowhereMode DEF Item, OnForm
  <2>2. QED
    BY <1>1, <2>1, RouteFacts DEF OnForm
<1>4. c \in Click /\ c.mode = "view" /\ c.name = mount[k].route.name /\ c.id = mount[k].id
  BY <1>2, <1>3, DeskAssumption DEF Item, Click
<1>5. /\ clicks' = clicks \cup {c}
      /\ UNCHANGED <<patient, route, renders, cache, docs, calls, booting, failed, raced>>
  BY DEF ClickAction, history
<1> DEFINE busy == [mount[k] EXCEPT !.busy = TRUE]
<1>6. busy \in Item /\ busy.what = mount[k].what /\ busy.route = mount[k].route
      /\ busy.id = mount[k].id
  BY <1>2 DEF Item
<1>7. mount' = [mount EXCEPT ![k] = busy]
  BY DEF ClickAction
<1> HIDE DEF c, busy
<1>8. /\ mount' \in Seq(Item) /\ Len(mount') = Len(mount) /\ DOMAIN mount' = DOMAIN mount
      /\ \A i \in DOMAIN mount : mount'[i] = IF i = k THEN busy ELSE mount[i]
  BY <1>1, <1>6, <1>7, ExceptSeq, LenProperties
<1>9. \A i \in DOMAIN mount : /\ mount'[i].what = mount[i].what
                              /\ mount'[i].route = mount[i].route
                              /\ mount'[i].id = mount[i].id
  BY <1>6, <1>8
<1>10. TypeOK'
  BY <1>1, <1>4, <1>5, <1>8 DEF TypeOK
<1>11. FiniteInv' /\ ClicksInv' /\ LoadingInv'
  BY <1>3, <1>4, <1>5, <1>8, <1>9 DEF IInv, FiniteInv, ClicksInv, LoadingInv
<1>12. ItemInv'
  <2>1. ItemOK(busy)
    BY <1>1, <1>2, <1>6 DEF IInv, ItemInv, ItemOK
  <2>2. QED
    BY <1>8, <2>1 DEF IInv, ItemInv
<1>13. MetaInv'
  <2>1. cache = "ok"
    BY <1>1, <1>2 DEF IInv, MetaInv
  <2>2. QED
    BY <1>5, <1>8, <1>9, <2>1 DEF IInv, MetaInv
<1>14. BusyInv'
  BY <1>4, <1>5, <1>6, <1>8 DEF IInv, BusyInv
<1>15. PatientInv'
  <2> SUFFICES ASSUME patient PROVE PatientInv'
    BY <1>5 DEF PatientInv
  <2>1. renders = {} /\ clicks = {} /\ PatientInv
    BY DEF ClickAction, Quiet, IInv
  <2>2. route.mode = "view" /\ route = To("view", mount[k].route.name, "")
    BY <1>1, PatientClick
  <2>3. mount' # <<>>
    <3>1. Len(mount') # Len(<<>>)
      BY <1>1, <1>8
    <3>2. QED
      BY <3>1
  <2>4. clicks' = {c} /\ renders' = {}
    BY <1>5, <2>1
  <2>5. ~raced' => OneThing'
    BY <1>5, <1>8, <2>1, <2>4 DEF PatientInv, OneThing
  <2>6. QED
    BY <1>4, <1>5, <1>8, <1>9, <2>1, <2>2, <2>3, <2>4, <2>5 DEF PatientInv
<1>16. QED
  BY <1>10, <1>11, <1>12, <1>13, <1>14, <1>15 DEF IInv

LEMMA ClickCreateStep ==
    ASSUME IInv, NEW k \in DOMAIN mount, NEW nth \in 1..2, ClickCreate(k, nth)
    PROVE  IInv'
<1> DEFINE c == [id |-> mount[k].id, mode |-> "create", name |-> NoName, nth |-> nth]
<1>1. /\ TypeOK /\ mount[k] \in Item /\ OnForm(k, "create") /\ mount[k].id # 0
      /\ mount[k].what = "form"
  BY LenProperties DEF IInv, TypeOK, ClickCreate, OnForm, ItemInv, ItemOK
<1>2. c \in Click /\ c.mode = "create"
  BY <1>1, DeskAssumption DEF Item, Click
<1>3. /\ clicks' = clicks \cup {c}
      /\ UNCHANGED <<patient, route, mount, renders, cache, docs, calls, booting, failed, raced>>
  BY DEF ClickCreate, history
<1>4. patient => Quiet
  BY DEF ClickCreate
<1> HIDE DEF c
<1>5. TypeOK'
  BY <1>1, <1>2, <1>3 DEF TypeOK
<1>6. FiniteInv' /\ ClicksInv' /\ ItemInv' /\ LoadingInv' /\ BusyInv'
  BY <1>2, <1>3 DEF IInv, FiniteInv, ClicksInv, ItemInv, ItemOK, LoadingInv, BusyInv
<1>7. MetaInv'
  BY <1>1, <1>3 DEF IInv, MetaInv
<1>8. PatientInv'
  <2> SUFFICES ASSUME patient PROVE PatientInv'
    BY <1>3 DEF PatientInv
  <2>1. /\ route # Nowhere /\ route.mode = "create" /\ PatientInv
        /\ renders = {} /\ clicks = {} /\ clicks' = {c}
    BY <1>1, <1>3, <1>4, PatientClick DEF Quiet, IInv
  <2>2. BlankOK => BlankOK'
    BY <1>3 DEF BlankOK, NoRow
  <2>3. ~raced => OneThing'
    BY <1>3, <2>1 DEF PatientInv, OneThing
  <2>4. QED
    BY <1>2, <1>3, <2>1, <2>2, <2>3 DEF PatientInv
<1>9. QED
  BY <1>5, <1>6, <1>7, <1>8 DEF IInv

LEMMA ClickEditStep ==
    ASSUME IInv, NEW k \in DOMAIN mount, ClickEdit(k)
    PROVE  IInv'
<1>1. mount[k] \in Item /\ mount[k].route.mode = "view"
  BY LenProperties DEF IInv, TypeOK, ClickEdit, OnForm
<1>2. mount[k].route \in Routes
  BY <1>1, NowhereMode DEF Item
<1>3. To("view", mount[k].route.name, "/edit") \in Routes
  BY <1>1, <1>2, RouteFacts, ViewRoute
<1>4. QED
  BY <1>3, NavigateStep DEF ClickEdit

LEMMA ActionOkStep ==
    ASSUME IInv, NEW c \in clicks, ActionOk(c)
    PROVE  IInv'
<1> DEFINE to == To("view", c.name, "")
           new == [id |-> calls + 1, at |-> "data", route |-> to]
<1>1. TypeOK /\ c.name \in Names /\ MetaInv /\ cache = "ok" /\ c.mode = "view"
  BY DEF IInv, ClicksInv, ActionOk, MetaInv
<1>2. to \in Routes /\ to.mode = "view"
  BY <1>1, ViewRoute
<1>3. /\ new \in Render /\ new.route = to /\ new.id = calls' /\ new.at = "data"
      /\ calls' \in 0..MaxRenders
  <2>1. calls + 1 \in 1..MaxRenders /\ calls' = calls + 1
    <3>1. calls < MaxRenders /\ calls' = calls + 1
      BY DEF ActionOk
    <3>2. calls \in 0..MaxRenders
      BY <1>1 DEF TypeOK
    <3>3. QED
      BY <3>1, <3>2, DeskAssumption
  <2> HIDE DEF to
  <2>2. QED
    BY <1>2, <2>1 DEF Render
<1>4. /\ clicks' = clicks \ {c} /\ mount' = <<>> /\ renders' = renders \cup {new}
      /\ UNCHANGED <<patient, route, cache, booting, raced>> /\ failed' = FALSE
  BY DEF ActionOk
<1>5. docs' \in [Names -> 0..MaxState]
  <2>1. /\ docs \in [Names -> 0..MaxState] /\ docs[c.name] + 1 \in 0..MaxState
        /\ docs' = [docs EXCEPT ![c.name] = docs[c.name] + 1]
    <3>1. docs[c.name] \in 1..(MaxState - 1) /\ docs \in [Names -> 0..MaxState]
      BY <1>1 DEF ActionOk, TypeOK
    <3>2. docs' = [docs EXCEPT ![c.name] = docs[c.name] + 1]
      BY DEF ActionOk
    <3>3. QED
      BY <3>1, <3>2, DeskAssumption
  <2>2. QED
    BY <1>1, <2>1
<1> HIDE DEF to, new
<1>6. TypeOK'
  BY <1>1, <1>3, <1>4, <1>5, NoItem DEF TypeOK
<1>7. FiniteInv'
  BY <1>4, FS_AddElement DEF IInv, FiniteInv
<1>8. ItemInv' /\ LoadingInv' /\ ClicksInv' /\ BusyInv'
  BY <1>4, NoItem DEF IInv, ItemInv, LoadingInv, ClicksInv, BusyInv
<1>9. MetaInv'
  <2>1. new.route.mode # "create"
    BY <1>2, <1>3
  <2>2. QED
    BY <1>1, <1>4, <2>1, NoItem DEF MetaInv
<1>10. PatientInv'
  <2> SUFFICES ASSUME patient PROVE PatientInv'
    BY <1>4 DEF PatientInv
  <2>1. clicks' = {} /\ route = to /\ PatientInv
    <3>1. (\A b \in clicks : b = c) /\ (c.mode = "view" => route = To("view", c.name, ""))
      BY DEF IInv, PatientInv
    <3>2. QED
      BY <1>1, <1>4, <3>1 DEF IInv, to
  <2>2. \A q \in renders' : q.route = route
    BY <1>3, <1>4, <2>1 DEF PatientInv
  <2>3. BlankOK'
    BY <1>3, <1>4 DEF BlankOK
  <2>4. ~raced => OneThing'
    <3> SUFFICES ASSUME ~raced PROVE OneThing'
      OBVIOUS
    <3>1. renders = {}
      BY <2>1 DEF PatientInv, OneThing
    <3>2. renders' = {new}
      BY <1>4, <3>1
    <3>3. Len(<<>>) <= 1
      OBVIOUS
    <3>4. QED
      BY <1>4, <2>1, <3>2, <3>3 DEF OneThing
  <2>5. QED
    BY <1>4, <2>1, <2>2, <2>3, <2>4, NoItem DEF PatientInv
<1>11. QED
  BY <1>6, <1>7, <1>8, <1>9, <1>10 DEF IInv

LEMMA CreateOkStep ==
    ASSUME IInv, NEW c \in clicks, NEW n \in Names, CreateOk(c, n)
    PROVE  IInv'
<1> DEFINE to == To("view", n, "")
<1>1. to \in Routes /\ to.mode = "view"
  BY ViewRoute
<1>2. docs' \in [Names -> 0..MaxState]
  <2>1. docs \in [Names -> 0..MaxState] /\ docs' = [docs EXCEPT ![n] = 1]
    BY DEF IInv, TypeOK, CreateOk
  <2>2. 1 \in 0..MaxState
    BY DeskAssumption
  <2>3. QED
    BY <2>1, <2>2
<1>3. /\ clicks' = clicks \ {c} /\ UNCHANGED <<patient, booting, raced>> /\ c.mode = "create"
      /\ raced \in BOOLEAN /\ booting \in BOOLEAN
  BY DEF CreateOk, IInv, TypeOK
<1>4. patient => renders = {} /\ clicks' = {} /\ route # to
  <2> SUFFICES ASSUME patient PROVE renders = {} /\ clicks' = {} /\ route # to
    OBVIOUS
  <2>1. clicks' = {} /\ route.mode = "create"
    <3>1. (\A b \in clicks : b = c) /\ route.mode = c.mode
      BY DEF IInv, PatientInv
    <3>2. QED
      BY <1>3, <3>1
  <2>2. \A r \in renders : r.route.mode = "create" /\ cache = "ok" /\ cache # "ok"
    BY <2>1 DEF IInv, PatientInv, MetaInv
  <2>3. QED
    BY <1>1, <2>1, <2>2
<1> HIDE DEF to
<1>5. CASE route # to /\ Show(to)
  BY <1>1, <1>2, <1>3, <1>4, <1>5, ShowStep
<1>6. CASE route = to /\ UNCHANGED <<route, mount, renders, cache, calls, failed>>
  <2>1. ~patient
    BY <1>4, <1>6
  <2>2. TypeOK'
    BY <1>2, <1>3, <1>6 DEF IInv, TypeOK
  <2>3. BusyInv'
    BY <1>3, <1>6 DEF IInv, BusyInv
  <2>4. QED
    BY <1>3, <1>6, <2>1, <2>2, <2>3
    DEF IInv, FiniteInv, ClicksInv, ItemInv, ItemOK, LoadingInv, MetaInv, PatientInv
<1>7. QED
  BY <1>5, <1>6 DEF CreateOk, to

LEMMA ClickFailedStep ==
    ASSUME IInv, NEW c \in clicks, ClickFailed(c)
    PROVE  IInv'
<1>1. /\ TypeOK /\ mount \in Seq(Item) /\ DOMAIN mount = 1..Len(mount)
      /\ Len(mount) \in Nat /\ c \in Click
  BY LenProperties DEF IInv, TypeOK
<1>2. /\ clicks' = clicks \ {c}
      /\ UNCHANGED <<patient, route, renders, cache, docs, calls, booting, failed, raced>>
      /\ mount' = [k \in DOMAIN mount |->
                      IF mount[k].id = c.id THEN [mount[k] EXCEPT !.busy = FALSE]
                      ELSE mount[k]]
  BY DEF ClickFailed, history
<1>3. \A k \in DOMAIN mount : mount[k] \in Item /\ ItemOK(mount[k])
  BY <1>1 DEF IInv, ItemInv
<1>4. \A k \in DOMAIN mount :
         /\ mount'[k] \in Item /\ mount'[k].what = mount[k].what
         /\ mount'[k].route = mount[k].route /\ mount'[k].id = mount[k].id
         /\ mount'[k].busy => mount[k].busy /\ mount[k].id # c.id
  BY <1>2, <1>3 DEF Item
<1>5. \A k \in DOMAIN mount : ItemOK(mount'[k])
  <2> SUFFICES ASSUME NEW k \in DOMAIN mount PROVE ItemOK(mount'[k])
    OBVIOUS
  <2>1. CASE mount[k].what = "boot"
    <3>1. mount[k] = BootError
      BY <1>3, <2>1 DEF ItemOK
    <3>2. mount[k].id # c.id
      BY <1>1, <3>1 DEF BootError, Click
    <3>3. mount'[k] = mount[k]
      BY <1>2, <3>2
    <3>4. QED
      BY <1>3, <3>3
  <2>2. CASE mount[k].what # "boot"
    BY <1>3, <1>4, <2>2 DEF ItemOK
  <2>3. QED
    BY <2>1, <2>2
<1>6. mount' \in [1..Len(mount) -> Item] /\ DOMAIN mount' = DOMAIN mount
  BY <1>1, <1>2, <1>4
<1>7. mount' \in Seq(Item) /\ Len(mount') = Len(mount)
  BY <1>1, <1>6
<1>8. mount' = <<>> <=> mount = <<>>
  BY <1>1, <1>7, EmptySeq
<1>9. TypeOK'
  BY <1>1, <1>2, <1>7 DEF TypeOK
<1>10. FiniteInv' /\ ClicksInv'
  BY <1>2 DEF IInv, FiniteInv, ClicksInv
<1>11. ItemInv'
  BY <1>5, <1>6 DEF ItemInv
<1>12. BusyInv'
  BY <1>2, <1>4, <1>6 DEF IInv, BusyInv
<1>13. LoadingInv'
  BY <1>2, <1>4, <1>6 DEF IInv, LoadingInv
<1>14. MetaInv'
  BY <1>2, <1>4, <1>6 DEF IInv, MetaInv
<1>15. PatientInv'
  <2> SUFFICES ASSUME patient PROVE PatientInv'
    BY <1>2 DEF PatientInv
  <2>1. BlankOK => BlankOK'
    BY <1>2 DEF BlankOK, NoRow
  <2>2. OneThing => OneThing'
    BY <1>2, <1>7, <1>8 DEF OneThing
  <2>3. PatientInv
    BY DEF IInv
  <2>4. QED
    BY <1>2, <1>4, <1>6, <1>8, <2>1, <2>2, <2>3 DEF PatientInv
<1>16. QED
  BY <1>9, <1>10, <1>11, <1>12, <1>13, <1>14, <1>15 DEF IInv

\* Another user's transition: a document that is there stays there.
LEMMA OtherUserStep ==
    ASSUME IInv, NEW n \in Names, OtherUser(n)
    PROVE  IInv'
<1>1. UNCHANGED <<patient, route, mount, renders, cache, clicks, calls, booting, failed, raced>>
  BY DEF OtherUser, history
<1>2. /\ docs' \in [Names -> 0..MaxState] /\ docs \in [Names -> 0..MaxState]
      /\ docs' = [docs EXCEPT ![n] = docs[n] + 1] /\ docs[n] \in 1..(MaxState - 1)
  BY DeskAssumption DEF IInv, TypeOK, OtherUser
<1>3. TypeOK'
  BY <1>1, <1>2 DEF IInv, TypeOK
<1>4. ASSUME NEW r \in Routes, NoRow(r) PROVE NoRow(r)'
  <2>1. r.mode = "view" /\ r.name \in Names /\ (r.tail # "" \/ docs[r.name] = 0)
    BY <1>4, RouteFacts DEF NoRow
  <2>2. docs[r.name] = 0 => docs'[r.name] = 0
    BY <1>2, <2>1
  <2>3. QED
    BY <2>1, <2>2 DEF NoRow
<1>5. PatientInv'
  <2> SUFFICES ASSUME patient PROVE PatientInv'
    BY <1>1 DEF PatientInv
  <2>1. BlankOK /\ route # Nowhere => BlankOK'
    BY <1>1, <1>4 DEF BlankOK, IInv, TypeOK
  <2>2. OneThing => OneThing'
    BY <1>1 DEF OneThing
  <2>3. QED
    BY <1>1, <2>1, <2>2 DEF PatientInv, IInv
<1>6. QED
  BY <1>1, <1>3, <1>5
  DEF IInv, FiniteInv, ClicksInv, BusyInv, ItemInv, ItemOK, LoadingInv, MetaInv

LEMMA InvStep == IInv /\ [Next]_vars => IInv'
<1> SUFFICES ASSUME IInv, [Next]_vars PROVE IInv'
  OBVIOUS
<1>1. CASE UNCHANGED vars
  <2>1. UNCHANGED <<patient, route, mount, renders, cache, clicks, docs, calls, booting,
                    failed, raced>>
    BY <1>1 DEF vars, history
  <2>2. TypeOK'
    BY <2>1 DEF IInv, TypeOK
  <2>3. PatientInv'
    BY <2>1 DEF IInv, PatientInv, OneThing, BlankOK, NoRow
  <2>4. QED
    BY <2>1, <2>2, <2>3
    DEF IInv, FiniteInv, ClicksInv, BusyInv, ItemInv, ItemOK, LoadingInv, MetaInv
<1>2. CASE Next
  BY <1>2, NavigateStep, MetaOkStep, MetaErrorStep, CredentialStep, BootOkStep,
     BootFailedStep, ListAnsweredStep, FormAnsweredStep, ClickActionStep, ClickCreateStep,
     ClickEditStep, ActionOkStep, CreateOkStep, ClickFailedStep, OtherUserStep DEF Next
<1>3. QED
  BY <1>1, <1>2

LEMMA Invariance == Spec => []IInv
BY InvInit, InvStep, PTL DEF Spec

------------------------------------------------------------------------------
\* What the desk promises.

\* The mount holds items, the calls in flight are views of routes, the clicks requests of
\* forms.
THEOREM TypeCorrect == Spec => []TypeOK
<1>1. IInv => TypeOK
  BY DEF IInv
<1>2. QED
  BY <1>1, Invariance, PTL

\* Whatever order answers, clicks and renderings come in, a disabled transition button on
\* the screen has its request in flight, whose failure enables it again and whose success
\* clears the mount.
THEOREM ButtonsCorrect == Spec => []NoDeadButton
<1>1. IInv => NoDeadButton
  BY DEF IInv, BusyInv, NoDeadButton
<1>2. QED
  BY <1>1, Invariance, PTL

\* A user who waits for requests to end sees the view of the address or the message of a
\* failed boot and nothing else, after every navigation, creation, transition and boot; the
\* page is blank only for a form whose own request failed or found no row, and the view
\* stands twice only if a boot ended while it was under way.
THEOREM PatientCorrect == Spec => []PatientSeesRoute
<1>1. ASSUME IInv, patient, Quiet, route # Nowhere
      PROVE  /\ \A k \in DOMAIN mount : ViewOf(mount[k], route) \/ mount[k] = BootError
             /\ mount = <<>> => route.mode # "list" /\ (failed \/ NoRow(route))
             /\ Len(mount) > 1 => raced
  <2>1. TypeOK /\ ItemInv /\ LoadingInv /\ PatientInv /\ renders = {}
    BY <1>1 DEF IInv, Quiet
  <2>2. ASSUME NEW k \in DOMAIN mount PROVE ViewOf(mount[k], route) \/ mount[k] = BootError
    <3>1. mount[k] \in Item
      BY <2>1, LenProperties DEF TypeOK
    <3>2. mount[k].what \in {"list", "error", "form", "boot"}
      BY <2>1, <3>1 DEF LoadingInv, Item
    <3>3. mount[k].what = "boot" \/ mount[k].route = route
      BY <1>1, <2>1 DEF PatientInv
    <3>4. ItemOK(mount[k])
      BY <2>1 DEF ItemInv
    <3>5. CASE mount[k].what = "boot"
      BY <3>4, <3>5 DEF ItemOK
    <3>6. CASE mount[k].what \in {"list", "error"}
      <4>1. mount[k].route = route /\ route.mode = "list"
        BY <3>3, <3>4, <3>6 DEF ItemOK
      <4>2. QED
        BY <3>6, <4>1 DEF ViewOf
    <3>7. CASE mount[k].what = "form"
      <4>1. mount[k].route = route /\ route.mode \in {"view", "create"}
        BY <3>3, <3>4, <3>7 DEF ItemOK
      <4>2. QED
        BY <3>7, <4>1 DEF ViewOf
    <3>8. QED
      BY <3>2, <3>5, <3>6, <3>7
  <2>3. mount = <<>> => route.mode # "list" /\ (failed \/ NoRow(route))
    BY <1>1, <2>1 DEF PatientInv, BlankOK
  <2>4. Len(mount) > 1 => raced
    <3>1. mount \in Seq(Item) /\ Len(mount) \in Nat
      BY <2>1, LenProperties DEF TypeOK
    <3>2. CASE ~raced
      <4>1. OneThing
        BY <1>1, <2>1, <3>2 DEF PatientInv
      <4>2. Len(mount) <= 1
        BY <4>1 DEF OneThing
      <4>3. QED
        BY <3>1, <4>2
    <3>3. QED
      BY <3>2
  <2>5. QED
    BY <2>2, <2>3, <2>4
<1>2. IInv => PatientSeesRoute
  BY <1>1 DEF PatientSeesRoute
<1>3. QED
  BY <1>2, Invariance, PTL

==============================================================================
