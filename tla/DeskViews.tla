------------------------------ MODULE DeskViews ------------------------------
(* The view area of the desk, #desk-view: the router's hash, the list and    *)
(* form views that render into one mount element after their answers came,   *)
(* the workflow bar's buttons, the Create button, the meta cache every view  *)
(* asks first, and the boot that each new credential starts again on a page  *)
(* loaded signed out.  public/app/js: main.js onRoute and _afterSignIn,      *)
(* shell/router.js, views/list-view.js, views/form-view.js, workflow/bar.js, *)
(* meta/cache.js.                                                            *)
(*                                                                           *)
(* One doctype with one meta.  A step is one task of the event loop with its *)
(* microtasks: an await of a settled promise continues in the same step.     *)
EXTENDS Naturals, Sequences, FiniteSets

CONSTANTS
    Names,       \* document names
    NoName,      \* the name of a route without one
    MaxState,    \* the workflow's states are 1..MaxState
    MaxRenders   \* bound: calls of renderListView() and renderFormView()

ASSUME DeskAssumption ==
    /\ NoName \notin Names
    /\ MaxState \in Nat \ {0}
    /\ MaxRenders \in Nat \ {0}

VARIABLES
    patient,     \* the user waits for the view before the next click
    route,       \* the route of location.hash
    mount,       \* what #desk-view contains, in order
    renders,     \* the calls that await something; their ids tell the order they began in
    cache,       \* the promise of the doctype's meta: "none", "pending", "ok"
    clicks,      \* requests of the bar's and the form's buttons in flight
    docs,        \* the engine's rows: the workflow state, 0 without a row
    calls,       \* render calls so far
    failed,      \* the last of them was rejected, its request failed
    booting,     \* a credential came, /api/boot is in flight
    raced        \* a boot ended while a view or a click of this address awaited its answer

history == <<failed, raced>>
vars == <<patient, route, mount, renders, cache, clicks, docs, calls, booting, history>>

\* parseHash(): a route.  The address a document's Edit button leads to is
\* read as the name <name>/edit, kept as a name and a tail.
Routes ==
    [mode : {"list", "create"}, name : {NoName}, tail : {""}]
    \cup [mode : {"view"}, name : Names, tail : {"", "/edit"}]
To(mode, name, tail) == [mode |-> mode, name |-> name, tail |-> tail]
Nowhere == To("none", NoName, "")

Loading == "loading"
Item == [what : {Loading, "list", "error", "form", "boot"}, route : Routes \cup {Nowhere},
         id : 0..MaxRenders, state : 0..MaxState, busy : BOOLEAN]
Render == [id : 1..MaxRenders, route : Routes, at : {"meta", "data"}]
Click == [id : 1..MaxRenders, mode : {"view", "create"}, name : Names \cup {NoName},
          nth : 1..2]

TypeOK ==
    /\ patient \in BOOLEAN
    /\ route \in Routes \cup {Nowhere}
    /\ mount \in Seq(Item)
    /\ renders \subseteq Render
    /\ cache \in {"none", "pending", "ok"}
    /\ clicks \subseteq Click
    /\ docs \in [Names -> 0..MaxState]
    /\ calls \in 0..MaxRenders
    /\ failed \in BOOLEAN /\ booting \in BOOLEAN /\ raced \in BOOLEAN

Quiet == renders = {} /\ clicks = {}

\* The desk has booted, and the sidebar has asked for the meta.
Init ==
    /\ patient \in BOOLEAN
    /\ route = Nowhere /\ mount = <<>> /\ renders = {} /\ clicks = {}
    /\ cache \in {"pending", "ok"}
    /\ docs \in [Names -> {0, 1}]
    /\ calls = 0 /\ failed = FALSE
    /\ booting = FALSE /\ raced = FALSE

-----------------------------------------------------------------------------
(* Rendering *)

MkItem(r, what, state) ==
    [what |-> what, route |-> r.route, id |-> r.id, state |-> state, busy |-> FALSE]

\* A form that needs no document is built as soon as the meta is there.
Built(r) == MkItem(r, "form", 0)

Asked == IF cache = "none" THEN "pending" ELSE cache

\* onRoute(): the mount is cleared.  A list says "Loading" and every view asks for the
\* meta; with the meta in the cache it goes on to its own request, or to the
\* empty form.
Show(r) ==
    LET id == calls + 1
        new == [id |-> id, route |-> r, at |-> IF cache = "ok" THEN "data" ELSE "meta"] IN
    /\ calls < MaxRenders
    /\ calls' = id
    /\ route' = r
    /\ cache' = Asked
    /\ failed' = FALSE
    /\ IF r.mode = "create" /\ cache = "ok"
       THEN mount' = <<Built(new)>> /\ UNCHANGED renders
       ELSE /\ mount' = IF r.mode = "list" THEN <<MkItem(new, Loading, 0)>> ELSE <<>>
            /\ renders' = renders \cup {new}

\* The hash of a sidebar link, a row, the New button, a typed address.  Setting
\* the hash it has already fires no event.
Navigate(r) ==
    /\ r # route
    /\ patient => Quiet
    /\ Show(r)
    /\ raced' = FALSE
    /\ UNCHANGED <<patient, clicks, docs, booting>>

Waiting(r) == r.at = "meta"

\* Mutant: a list view appends below what the mount shows.
ListWithoutClear(r, what) == Append(mount, MkItem(r, what, 0))

\* A list view replaces whatever the mount shows by now.
ListShown(r, what) == <<MkItem(r, what, 0)>>

\* The waiting views of a mode, and how they go on: in the order they began.
WaitingIn(mode) == {r \in renders : Waiting(r) /\ r.route.mode = mode}
InOrder(S) ==
    {s \in [1..Cardinality(S) -> S] : \A i, j \in DOMAIN s : i < j => s[i].id < s[j].id}

\* The meta arrives: lists and documents send their own request, empty forms
\* are appended to the mount.
MetaOk ==
    /\ cache = "pending"
    /\ cache' = "ok"
    /\ renders' = {[r EXCEPT !.at = "data"] : r \in renders \ WaitingIn("create")}
    /\ \E forms \in InOrder(WaitingIn("create")) :
          mount' = mount \o [i \in DOMAIN forms |-> Built(forms[i])]
    /\ UNCHANGED <<patient, route, clicks, docs, calls, booting, history>>

\* A view's call is rejected, nothing is shown.
Rejects(S) == failed' = (failed \/ \E r \in S : r.id = calls)

\* Mutant: the rejected promise reaches the form views only.
MetaErrorUnhandled ==
    /\ cache = "pending"
    /\ cache' = "none"
    /\ renders' = {r \in renders : Waiting(r) => r.route.mode = "list"}
    /\ Rejects({r \in renders : Waiting(r) /\ r.route.mode # "list"})
    /\ UNCHANGED <<patient, route, mount, clicks, docs, calls, booting, raced>>

\* The meta request failed: it leaves the cache.  A list view says so (the last
\* of several stays), a form view rejects and leaves the mount as it is.
MetaError ==
    /\ cache = "pending"
    /\ cache' = "none"
    /\ renders' = {r \in renders : ~Waiting(r)}
    /\ \/ WaitingIn("list") = {} /\ UNCHANGED mount
       \/ \E r \in WaitingIn("list") :
             /\ \A q \in WaitingIn("list") : q.id <= r.id
             /\ mount' = ListShown(r, "error")
    /\ Rejects({r \in renders : Waiting(r) /\ r.route.mode # "list"})
    /\ UNCHANGED <<patient, route, clicks, docs, calls, booting, raced>>

Done(r) == renders' = renders \ {r}

\* Mutant: an empty list returns before the mount is cleared.
ListAnsweredEmpty(r) ==
    /\ r.at = "data" /\ r.route.mode = "list"
    /\ Done(r)
    /\ \/ mount' = ListShown(r, "list")
       \/ UNCHANGED mount
    /\ UNCHANGED <<patient, route, cache, clicks, docs, calls, booting, history>>

\* apiClient.list() answers, with rows or an error.
ListAnswered(r) ==
    /\ r.at = "data" /\ r.route.mode = "list"
    /\ Done(r)
    /\ \E what \in {"list", "error"} : mount' = ListShown(r, what)
    /\ UNCHANGED <<patient, route, cache, clicks, docs, calls, booting, history>>

\* The address of a document the engine does not have.
NoRow(r) == r.mode = "view" /\ (r.tail # "" \/ docs[r.name] = 0)

\* apiClient.get() answers: the form is appended, below whatever the mount
\* shows by now.  A missing row (404) or an error rejects: nothing is shown.
FormAnswered(r) ==
    /\ r.at = "data" /\ r.route.mode = "view"
    /\ Done(r)
    /\ \/ /\ ~NoRow(r.route)
          /\ mount' = Append(mount, MkItem(r, "form", docs[r.route.name]))
          /\ UNCHANGED failed
       \/ NoRow(r.route) /\ UNCHANGED <<mount, failed>>
       \/ Rejects({r}) /\ UNCHANGED mount
    /\ UNCHANGED <<patient, route, cache, clicks, docs, calls, booting, raced>>

-----------------------------------------------------------------------------
(* The desk boots again *)

\* A credential, on a page that was loaded signed out: the listener of main.js
\* boots the desk again, whatever the views are doing.
Credential ==
    /\ ~booting
    /\ booting' = TRUE
    /\ UNCHANGED <<patient, route, mount, renders, cache, clicks, docs, calls, history>>

BootEnds == booting /\ booting' = FALSE /\ raced' = (raced \/ ~Quiet)

\* The sidebar is built anew, and router.start() shows the address again.  Its
\* hashchange listener is the one that is registered already.
BootOk ==
    /\ BootEnds
    /\ \/ route # Nowhere /\ Show(route)
       \/ /\ route = Nowhere /\ cache' = Asked
          /\ UNCHANGED <<route, mount, renders, calls, failed>>
    /\ UNCHANGED <<patient, clicks, docs>>

\* "Boot failed" replaces whatever the mount shows.
BootError == [what |-> "boot", route |-> Nowhere, id |-> 0, state |-> 0, busy |-> FALSE]
BootFailed ==
    /\ BootEnds
    /\ mount' = <<BootError>>
    /\ UNCHANGED <<patient, route, renders, cache, clicks, docs, calls, failed>>

-----------------------------------------------------------------------------
(* Buttons *)

\* A form on the screen.  Its buttons can be clicked unless disabled.
OnForm(k, mode) == mount[k].what = "form" /\ mount[k].route.mode = mode

\* The bar's button is shown if a transition leaves the state the form loaded,
\* and is disabled by the click.
ClickAction(k) ==
    /\ OnForm(k, "view") /\ ~mount[k].busy
    /\ mount[k].state < MaxState
    /\ patient => Quiet
    /\ mount' = [mount EXCEPT ![k].busy = TRUE]
    /\ clicks' = clicks \cup {[id |-> mount[k].id, mode |-> "view",
                               name |-> mount[k].route.name, nth |-> 1]}
    /\ UNCHANGED <<patient, route, renders, cache, docs, calls, booting, history>>

\* The Create button is not disabled by the click: a second one sends again.
ClickCreate(k, nth) ==
    LET click(n) == [id |-> mount[k].id, mode |-> "create", name |-> NoName, nth |-> n] IN
    /\ OnForm(k, "create")
    /\ patient => Quiet
    /\ click(nth) \notin clicks
    /\ nth = 2 => click(1) \in clicks
    /\ clicks' = clicks \cup {click(nth)}
    /\ UNCHANGED <<patient, route, mount, renders, cache, docs, calls, booting, history>>

\* Edit leads to #/<dt>/<name>/edit, which the router reads as a name.
ClickEdit(k) ==
    /\ OnForm(k, "view")
    /\ Navigate(To("view", mount[k].route.name, "/edit"))

\* Mutant: the bar calls no onChanged() when the action succeeded.
ActionOkUnnoticed(c) ==
    /\ c.mode = "view"
    /\ clicks' = clicks \ {c}
    /\ docs[c.name] \in 1..(MaxState - 1)
    /\ docs' = [docs EXCEPT ![c.name] = @ + 1]
    /\ UNCHANGED <<patient, route, mount, renders, cache, calls, booting, history>>

\* Mutant: the re-rendered view is put below the old one.
ActionOkStacked(c) ==
    /\ c.mode = "view"
    /\ clicks' = clicks \ {c}
    /\ docs[c.name] \in 1..(MaxState - 1)
    /\ docs' = [docs EXCEPT ![c.name] = @ + 1]
    /\ calls < MaxRenders
    /\ calls' = calls + 1
    /\ renders' = renders \cup {[id |-> calls + 1, at |-> "data",
                                 route |-> To("view", c.name, "")]}
    /\ failed' = FALSE
    /\ UNCHANGED <<patient, route, mount, cache, booting, raced>>

\* The action succeeded: onChanged() renders the document's view, whatever the
\* mount shows by now.  The hash stays.
ActionOk(c) ==
    /\ c.mode = "view"
    /\ clicks' = clicks \ {c}
    /\ docs[c.name] \in 1..(MaxState - 1)
    /\ docs' = [docs EXCEPT ![c.name] = @ + 1]
    /\ calls < MaxRenders
    /\ calls' = calls + 1
    /\ mount' = <<>>
    /\ renders' = renders \cup {[id |-> calls + 1, at |-> "data",
                                 route |-> To("view", c.name, "")]}
    /\ failed' = FALSE
    /\ UNCHANGED <<patient, route, cache, booting, raced>>

\* The create succeeded: navigate() to the new document.  An address that is
\* there already fires no event.
CreateOk(c, n) ==
    /\ c.mode = "create"
    /\ docs[n] = 0
    /\ clicks' = clicks \ {c}
    /\ docs' = [docs EXCEPT ![n] = 1]
    /\ \/ route # To("view", n, "") /\ Show(To("view", n, ""))
       \/ /\ route = To("view", n, "")
          /\ UNCHANGED <<route, mount, renders, cache, calls, failed>>
    /\ UNCHANGED <<patient, booting, raced>>

\* The request failed: the message is shown in place and the button enabled.
ClickFailed(c) ==
    /\ clicks' = clicks \ {c}
    /\ mount' = [k \in DOMAIN mount |->
                    IF mount[k].id = c.id THEN [mount[k] EXCEPT !.busy = FALSE]
                    ELSE mount[k]]
    /\ UNCHANGED <<patient, route, renders, cache, docs, calls, booting, history>>

\* Somebody else moves a document on.
OtherUser(n) ==
    /\ docs[n] \in 1..(MaxState - 1)
    /\ docs' = [docs EXCEPT ![n] = @ + 1]
    /\ UNCHANGED <<patient, route, mount, renders, cache, clicks, calls, booting, history>>

-----------------------------------------------------------------------------
Next ==
    \/ \E r \in Routes : r.tail = "" /\ Navigate(r)
    \/ MetaOk \/ MetaError
    \/ Credential \/ BootOk \/ BootFailed
    \/ \E r \in renders : ListAnswered(r) \/ FormAnswered(r)
    \/ \E k \in DOMAIN mount : \/ ClickAction(k) \/ ClickEdit(k)
                               \/ \E nth \in 1..2 : ClickCreate(k, nth)
    \/ \E c \in clicks : ActionOk(c) \/ ClickFailed(c) \/ \E n \in Names : CreateOk(c, n)
    \/ \E n \in Names : OtherUser(n)

\* Every request of a view is answered or fails.
Fairness ==
    /\ WF_vars(MetaOk \/ MetaError)
    /\ WF_vars(\E r \in renders : ListAnswered(r) \/ FormAnswered(r))

Spec == Init /\ [][Next]_vars
FairSpec == Spec /\ Fairness

-----------------------------------------------------------------------------
(* Properties *)

\* A disabled button on the screen has its request in flight: no order of
\* answers and renderings leaves a transition button dead.
NoDeadButton ==
    \A k \in DOMAIN mount :
        mount[k].busy => \E c \in clicks : c.id = mount[k].id

\* An item of the view of a route.
ViewOf(item, r) ==
    /\ item.route = r
    /\ item.what \in IF r.mode = "list" THEN {"list", "error"} ELSE {"form"}

\* A user who waits for the view before the next click sees the view of the
\* address or the message of a failed boot and nothing else, also after a save,
\* a transition and its re-rendering; a blank page only for a document's own
\* request that failed or found no row; and the view once, unless a boot ended
\* while the view or a click was waiting for its answer.
PatientSeesRoute ==
    patient /\ Quiet /\ route # Nowhere =>
        /\ \A k \in DOMAIN mount : ViewOf(mount[k], route) \/ mount[k] = BootError
        /\ mount = <<>> => route.mode # "list" /\ (failed \/ NoRow(route))
        /\ Len(mount) > 1 => raced

\* main.js: "clear the view mount and render into it".  A user who waits never
\* sees two views at once.
OneView == patient /\ Quiet => Cardinality({k \in DOMAIN mount : mount[k] # BootError}) <= 1

\* form-view.js: "mode: 'view'|'edit'|'create'".  The address of the Edit button
\* shows a form to a user who waits, unless its request failed.
EditShowsForm == patient /\ Quiet /\ route.tail = "/edit" => mount # <<>> \/ failed

\* "Loading" does not stay: it ends with rows, an error or another view.
LoadingEnds ==
    (mount # <<>> /\ mount[1].what = Loading)
        ~> (mount = <<>> \/ mount[1].what # Loading)

=============================================================================
