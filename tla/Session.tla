------------------------------- MODULE Session -------------------------------
(* The desk's session and its API client in one browser page: the sign-in    *)
(* gate, the token of Google Identity Services (GIS), the single retry of a  *)
(* request answered 401 and the silent re-authentication it waits for.       *)
(* public/app/js/auth/session.js, api/client.js and the start of main.js.    *)
(*                                                                           *)
(* A step is one task of the browser's event loop with the microtasks it     *)
(* leaves behind: a request resolved by reauth() is sent again in the same   *)
(* step.  The token in memory and its mirror in sessionStorage are written   *)
(* together and are one variable.                                            *)
EXTENDS Naturals, Sequences, SequencesExt

CONSTANTS
    Reqs,        \* API requests of one page load
    BootMark,    \* the listener main.js registers with onSignedIn()
    MaxTokens,   \* bound: tokens Google issues
    MaxLoads     \* bound: page loads

ASSUME SessionAssumption ==
    /\ BootMark \notin Reqs
    /\ MaxTokens \in Nat \ {0} /\ MaxLoads \in Nat \ {0}

SignedOut == 0       \* getToken() is null

VARIABLES
    token,       \* the session's token, by the order Google issued them
    issued,      \* tokens issued so far
    live,        \* the tokens the engine accepts
    gis,         \* the GIS script: "loading" or "ready"
    mount,       \* where the last renderGate() that found GIS put its button
    dom,         \* content of #desk-gate and #desk-app
    visible,     \* which of the two is displayed
    listeners,   \* _listeners, in order
    prompts,     \* requests whose prompt() has not ended
    pc,          \* where each request is
    kind,        \* "boot" or "data"
    sent,        \* the token each request last sent
    seen,        \* the token when its re-authentication began or was rejected
    started,     \* router.start() ran: views send requests
    loads        \* page loads so far

google == <<issued, live>>
page == <<gis, mount, dom, visible, listeners, prompts, started>>
calls == <<pc, kind, sent, seen>>
vars == <<token, google, page, calls, loads>>

Mounts == {"gate", "app"}
\* A request ends with an answer, or rejected because reauth() found no GIS.
Ended == {"ok", "failed", "rejected"}
PC == {"idle", "sent", "waiting", "resent"} \cup Ended

TypeOK ==
    /\ token \in SignedOut..issued /\ issued \in 0..MaxTokens
    /\ live \subseteq 1..issued
    /\ gis \in {"loading", "ready"} /\ mount \in Mounts \cup {"none"}
    /\ dom \in [Mounts -> {"empty", "shell", "wanted", "button", "gave up"}]
    /\ visible \in Mounts
    /\ listeners \in Seq(Reqs \cup {BootMark})
    /\ \A i \in DOMAIN listeners : listeners[i] = BootMark => i = 1
    /\ prompts \subseteq Reqs
    /\ pc \in [Reqs -> PC] /\ kind \in [Reqs -> {"boot", "data"}]
    /\ sent \in [Reqs -> 0..issued] /\ seen \in [Reqs -> 0..issued]
    /\ started \in BOOLEAN /\ loads \in 1..MaxLoads

-----------------------------------------------------------------------------
(* A page load *)

FirstReq == CHOOSE r \in Reqs : TRUE

\* A settled request makes room for another.
Free(r) == pc[r] \in {"idle"} \cup Ended

\* start() of main.js: without a token the gate is shown and awaits a
\* credential, with one the desk boots at once.
Start(tok) ==
    LET boots == IF tok = SignedOut THEN {} ELSE {FirstReq} IN
    [dom |-> [gate |-> IF tok = SignedOut THEN "wanted" ELSE "empty", app |-> "shell"],
     visible |-> IF tok = SignedOut THEN "gate" ELSE "app",
     listeners |-> IF tok = SignedOut THEN <<BootMark>> ELSE <<>>,
     pc |-> [r \in Reqs |-> IF r \in boots THEN "sent" ELSE "idle"],
     kind |-> [r \in Reqs |-> IF r \in boots THEN "boot" ELSE "data"],
     sent |-> [r \in Reqs |-> IF r \in boots THEN tok ELSE SignedOut]]

\* The tab may hold the token of an earlier load, live or expired.
Init ==
    /\ issued \in 0..1
    /\ token \in SignedOut..issued
    /\ live \in SUBSET (1..issued)
    /\ dom = Start(token).dom
    /\ visible = Start(token).visible
    /\ listeners = Start(token).listeners
    /\ pc = Start(token).pc
    /\ kind = Start(token).kind
    /\ sent = Start(token).sent
    /\ seen = [r \in Reqs |-> SignedOut]
    /\ gis = "loading" /\ mount = "none" /\ prompts = {} /\ started = FALSE
    /\ loads = 1

\* Mutant: signing out does not reload, the gate of signOut() is all there is.
SignOutInPlace(keep) ==
    /\ started /\ gis = "ready"
    /\ token' = SignedOut
    /\ dom' = [dom EXCEPT !.app = "button"]
    /\ mount' = "app"
    /\ UNCHANGED <<google, gis, visible, listeners, prompts, started, calls, loads>>

\* The sign-out link: signOut() clears the token, location.reload() drops the
\* rest of the page.  A plain reload keeps the token.
Reload(keep) ==
    /\ loads < MaxLoads
    /\ keep \/ started
    /\ loads' = loads + 1
    /\ token' = IF keep THEN token ELSE SignedOut
    /\ dom' = Start(token').dom
    /\ visible' = Start(token').visible
    /\ listeners' = Start(token').listeners
    /\ pc' = Start(token').pc
    /\ kind' = Start(token').kind
    /\ sent' = Start(token').sent
    /\ seen' = [r \in Reqs |-> SignedOut]
    /\ gis' = "loading" /\ mount' = "none" /\ prompts' = {} /\ started' = FALSE
    /\ UNCHANGED google

-----------------------------------------------------------------------------
(* The gate *)

\* Mutant: the gate is put in document.body, the element of the fallback.
RenderGateInBody(m) ==
    /\ dom' = dom
    /\ mount' = "body"

\* renderGate() with GIS loaded: the mount is emptied, whatever was in it, and
\* GIS reports credentials to this gate from now on.
RenderGate(m) ==
    /\ dom' = [dom EXCEPT ![m] = "button"]
    /\ mount' = m

\* The deferred GIS script arrives.
LoadGis ==
    /\ gis = "loading"
    /\ gis' = "ready"
    /\ UNCHANGED <<token, google, mount, dom, visible, listeners, prompts, started,
                   calls, loads>>

\* renderGate() looks for GIS every 150 ms, 50 times.
RetryGate ==
    /\ dom.gate = "wanted"
    /\ \/ gis = "ready" /\ RenderGate("gate")
       \/ gis = "loading" /\ dom' = [dom EXCEPT !.gate = "gave up"] /\ UNCHANGED mount
    /\ UNCHANGED <<token, google, gis, visible, listeners, prompts, started, calls, loads>>

-----------------------------------------------------------------------------
(* A credential *)

\* _setToken() calls the listeners while they are in the list.  A one-shot
\* listener of reauth() takes itself out, and the one behind it moves to its
\* place: the iteration passes over it.  main.js comes first and stays, so
\* every other one-shot listener is called (MCSession has the iteration).
Fired(ls) ==
    LET boot == IF ls # <<>> /\ ls[1] = BootMark THEN 1 ELSE 0 IN
    [fired |-> {ls[i] : i \in {j \in DOMAIN ls : j = boot \/ (j + boot) % 2 = 1}},
     kept |-> [i \in 1..((Len(ls) + boot) \div 2) |-> ls[2 * i - boot]]]

Button == mount # "none" /\ dom[mount] = "button" /\ visible = mount

\* GIS hands a credential to the callback of the last gate: after a click on
\* its button, or from a prompt, also one whose request timed out.  The
\* listeners run, then the gate's wrapper is removed, and the requests whose
\* wait ended are sent again.  The listener of main.js shows the app and boots
\* the desk, every time.
Credential(boot) ==
    LET run == Fired(listeners)
        new == issued + 1
        boots == IF BootMark \in run.fired THEN {boot} ELSE {}
        again == run.fired \cap Reqs IN
    /\ mount # "none"
    /\ Button \/ prompts # {}
    /\ issued < MaxTokens
    /\ Free(boot)
    /\ issued' = new /\ live' = live \cup {new} /\ token' = new
    /\ listeners' = run.kept
    /\ dom' = [dom EXCEPT ![mount] = "empty"]
    /\ prompts' = {}
    /\ visible' = IF boots # {} THEN "app" ELSE visible
    /\ pc' = [r \in Reqs |-> IF r \in again THEN "resent"
                             ELSE IF r \in boots THEN "sent" ELSE pc[r]]
    /\ sent' = [r \in Reqs |-> IF r \in again \cup boots THEN new ELSE sent[r]]
    /\ kind' = [r \in Reqs |-> IF r \in boots THEN "boot" ELSE kind[r]]
    /\ seen' = [r \in Reqs |-> IF r \in boots THEN SignedOut ELSE seen[r]]
    /\ UNCHANGED <<gis, mount, started, loads>>

\* A token is good for an hour.
Expire(t) ==
    /\ t \in live
    /\ live' = live \ {t}
    /\ UNCHANGED <<token, issued, page, calls, loads>>

-----------------------------------------------------------------------------
(* Requests *)

\* A view, the sidebar or a picker calls the client.
Send(r) ==
    /\ started /\ Free(r)
    /\ pc' = [pc EXCEPT ![r] = "sent"]
    /\ sent' = [sent EXCEPT ![r] = token]
    /\ seen' = [seen EXCEPT ![r] = SignedOut]
    /\ kind' = [kind EXCEPT ![r] = "data"]
    /\ UNCHANGED <<token, google, page, loads>>

\* The request settles.  A boot that succeeded starts the router, also when it
\* was started before.
Settle(r, end) ==
    /\ pc' = [pc EXCEPT ![r] = end]
    /\ started' = (started \/ (kind[r] = "boot" /\ end = "ok"))
    /\ UNCHANGED <<kind, sent, seen, gis, mount, dom, visible>>

\* A live token: the engine serves the request or refuses it for another reason.
Served(r) ==
    /\ pc[r] \in {"sent", "resent"}
    /\ sent[r] \in live
    /\ \E end \in {"ok", "failed"} : Settle(r, end)
    /\ UNCHANGED <<listeners, prompts, token, google, loads>>

\* reauth(): without GIS it rejects, and the request fails with it.  With GIS
\* the request waits behind the others, a prompt on the screen.
Reauth(r) ==
    /\ seen' = [seen EXCEPT ![r] = token]
    /\ \/ /\ gis = "loading"
          /\ pc' = [pc EXCEPT ![r] = "rejected"]
          /\ UNCHANGED <<listeners, prompts>>
       \/ /\ gis = "ready"
          /\ pc' = [pc EXCEPT ![r] = "waiting"]
          /\ listeners' = Append(listeners, r)
          /\ prompts' = prompts \cup {r}
    /\ UNCHANGED <<kind, sent, gis, mount, dom, visible, started>>

\* Mutant: the retry of a 401 is retried in turn.
UnauthorizedAgain(r) ==
    /\ pc[r] \in {"sent", "resent"}
    /\ sent[r] \notin live
    /\ Reauth(r)
    /\ UNCHANGED <<token, google, loads>>

\* 401.  The first time the request asks for a re-authentication, the retry is
\* not retried.
Unauthorized(r) ==
    /\ pc[r] \in {"sent", "resent"}
    /\ sent[r] \notin live
    /\ \/ pc[r] = "sent" /\ Reauth(r)
       \/ pc[r] = "resent" /\ Settle(r, "failed") /\ UNCHANGED <<listeners, prompts>>
    /\ UNCHANGED <<token, google, loads>>

\* Mutant: the timer leaves the listener behind.
FallBackSubscribed(r) ==
    /\ pc[r] = "waiting"
    /\ RenderGate("app")
    /\ pc' = [pc EXCEPT ![r] = "resent"]
    /\ sent' = [sent EXCEPT ![r] = token]
    /\ UNCHANGED <<listeners, kind, seen, gis, visible, started, token, google, loads>>

\* Mutant: the fallback resolves without rendering the gate.
FallBackWithoutGate(r) ==
    /\ pc[r] = "waiting"
    /\ listeners' = RemoveFirst(listeners, r)
    /\ pc' = [pc EXCEPT ![r] = "resent"]
    /\ sent' = [sent EXCEPT ![r] = token]
    /\ UNCHANGED <<kind, seen, gis, mount, dom, visible, started, token, google, loads>>

\* Mutant: the client keeps the token it read before the wait.
FallBackOldToken(r) ==
    /\ pc[r] = "waiting"
    /\ listeners' = RemoveFirst(listeners, r)
    /\ RenderGate("app")
    /\ pc' = [pc EXCEPT ![r] = "resent"]
    /\ UNCHANGED <<sent, kind, seen, gis, visible, started, token, google, loads>>

\* reauth() gives up: no listener, the gate in place of the desk, and the
\* request is sent again with the token there is.
FallBack(r) ==
    /\ pc[r] = "waiting"
    /\ listeners' = RemoveFirst(listeners, r)
    /\ RenderGate("app")
    /\ pc' = [pc EXCEPT ![r] = "resent"]
    /\ sent' = [sent EXCEPT ![r] = token]
    /\ UNCHANGED <<kind, seen, gis, visible, started, token, google, loads>>

\* Three seconds are over; the prompt may still be on the screen.
Timeout(r) == FallBack(r) /\ UNCHANGED prompts

\* The prompt cannot be shown or was skipped.
Decline(r) ==
    /\ r \in prompts
    /\ prompts' = prompts \ {r}
    /\ FallBack(r)

-----------------------------------------------------------------------------

Next ==
    \/ LoadGis \/ RetryGate
    \/ \E keep \in BOOLEAN : Reload(keep)
    \/ \E t \in live : Expire(t)
    \/ \E r \in Reqs : \/ Credential(r) \/ Send(r) \/ Served(r) \/ Unauthorized(r)
                       \/ Timeout(r) \/ Decline(r)

\* The engine answers every request, and setTimeout() fires.
Fairness == \A r \in Reqs : WF_vars(Served(r) \/ Unauthorized(r)) /\ WF_vars(Timeout(r))

Spec == Init /\ [][Next]_vars
FairSpec == Spec /\ Fairness

-----------------------------------------------------------------------------
(* Properties *)

\* Every request that waits for a re-authentication has its one listener, and
\* nothing else is in the list: a listener that outlives its request would
\* take the place of another's in the next iteration of _setToken().
ListenersAreWaiters ==
    /\ ToSet(listeners) \ {BootMark} = {r \in Reqs : pc[r] = "waiting"}
    /\ \A i, j \in DOMAIN listeners : listeners[i] = listeners[j] => i = j

\* main.js: "exactly ONE must be shown".  The gate is in front exactly while
\* nobody is signed in, whatever one-shot listeners come and go around the
\* one that shows the app.
GateIffSignedOut == visible = "gate" <=> token = SignedOut

\* The token a request was refused with is still the session's, and the request
\* waits for no other.
Refused(r) == pc[r] \in {"resent"} \cup Ended /\ seen[r] # SignedOut /\ token = seen[r]

\* A user whose token was refused has a button to sign in with until a
\* credential comes, whatever prompts, timeouts and credentials cross: each
\* request went through the fallback of reauth() to renderGate().  The one
\* exception is the request whose reauth() rejected for want of GIS; it gets
\* the button of another request or none (NeverWithoutGate).
SignInOffered == \A r \in Reqs : Refused(r) => Button \/ pc[r] = "rejected"

\* session.js: "falls back to renderGate() so the app is never left in a
\* white-screen state".  A user whose token was refused always has the button.
NeverWithoutGate == \A r \in Reqs : Refused(r) => Button

\* A retry carries the session's token of that moment, not the one that was
\* refused: no retry goes out with an older token than another request sent
\* before it (client.js reads getToken() again after the wait).
RetryIsFresh ==
    [][\A r \in Reqs : pc[r] = "waiting" /\ pc'[r] = "resent"
                           => \A q \in Reqs : sent'[q] <= sent'[r]]_vars

\* Every request settles, the ones a 401 made wait included (reauth(): "MUST
\* resolve or reject within the timeout - never hangs").
EveryRequestSettles ==
    \A r \in Reqs : pc[r] = "sent" ~> pc[r] \in Ended \cup {"idle"}

\* session.js: "If no credential arrives within the timeout, falls back to
\* renderGate()".  The desk is replaced by the gate only if no credential came
\* since the re-authentication began.
GateOnlyWithoutCredential ==
    [][\A r \in Reqs : /\ pc[r] = "waiting" /\ pc'[r] = "resent"
                       /\ mount' = "app" /\ dom'.app = "button"
                       => token = seen[r]]_vars

=============================================================================
