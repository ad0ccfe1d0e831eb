------------------------------ MODULE MCSession -------------------------------
(* Session with the iteration of _setToken() as a reference for Fired: one    *)
(* callback after the other, over an array that a callback shortens.          *)
EXTENDS Session

\* for (const cb of _listeners) cb(idToken), where one-shot callbacks splice
\* themselves out of _listeners.
Iterated(ls) ==
    LET call(run, cb) ==
            IF run.skip THEN [run EXCEPT !.skip = FALSE, !.kept = Append(@, cb)]
            ELSE IF cb = BootMark
                 THEN [run EXCEPT !.fired = @ \cup {cb}, !.kept = Append(@, cb)]
                 ELSE [run EXCEPT !.fired = @ \cup {cb}, !.skip = TRUE]
        end == FoldLeft(call, [fired |-> {}, kept |-> <<>>, skip |-> FALSE], ls)
    IN  [fired |-> end.fired, kept |-> end.kept]

\* Lists of up to six one-shot listeners, with and without main.js's in front.
OneShots == {[i \in 1..n |-> i] : n \in 0..6}
Lists == OneShots \cup {<<BootMark>> \o ls : ls \in OneShots}

ASSUME FiredIsIteration == \A ls \in Lists : Fired(ls) = Iterated(ls)

==============================================================================
