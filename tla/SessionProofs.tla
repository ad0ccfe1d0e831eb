----------------------------- MODULE SessionProofs -----------------------------
(* Theorems about Session, for any number of requests, tokens and page loads: *)
(* the listeners are those of the waiting requests, the gate is in front when *)
(* nobody is signed in, a refused user is offered a sign-in, and a retry has  *)
(* the newest token.                                                          *)
EXTENDS Session, SequenceTheorems, TLAPS

\* Without a token the page is the gate of start(): nothing runs behind it, and only
\* main.js waits for a credential.  With one, that gate is not looking for GIS.
GateInv ==
    /\ token = SignedOut =>
          /\ visible = "gate" /\ mount # "app" /\ listeners = <<BootMark>>
          /\ prompts = {} /\ ~started
          /\ \A r \in Reqs : pc[r] = "idle"
    /\ token # SignedOut => visible = "app" /\ dom.gate # "wanted"

\* No request has sent a token newer than the session's; one that has not been answered
\* yet has not begun a re-authentication.
SentInv ==
    /\ \A r \in Reqs : sent[r] <= token
    /\ \A r \in Reqs : pc[r] = "sent" => seen[r] = SignedOut

IInv == TypeOK /\ ListenersAreWaiters /\ GateInv /\ SentInv /\ SignInOffered

------------------------------------------------------------------------------
\* The list of listeners

\* A list of distinct listeners, the one of main.js in front if it is there.
Distinct(ls) ==
    /\ ls \in Seq(Reqs \cup {BootMark})
    /\ \A i \in DOMAIN ls : ls[i] = BootMark => i = 1
    /\ \A i, j \in DOMAIN ls : ls[i] = ls[j] => i = j

\* unsubscribe() takes out its listener and leaves the others in order.
LEMMA DropListener ==
    ASSUME NEW ls, Distinct(ls), NEW r \in Reqs
    PROVE  Distinct(RemoveFirst(ls, r)) /\ ToSet(RemoveFirst(ls, r)) = ToSet(ls) \ {r}
<1> DEFINE S == Reqs \cup {BootMark}
<1>0. Len(ls) \in Nat /\ DOMAIN ls = 1..Len(ls) /\ ls \in [1..Len(ls) -> S] /\ ls \in Seq(S)
  BY LenProperties DEF Distinct
<1>1. CASE ~\E i \in 1..Len(ls) : ls[i] = r
  <2>1. RemoveFirst(ls, r) = ls
    BY <1>1 DEF RemoveFirst
  <2>2. r \notin ToSet(ls)
    BY <1>0, <1>1 DEF ToSet
  <2>3. QED
    BY <2>1, <2>2
<1>2. CASE \E i \in 1..Len(ls) : ls[i] = r
  <2>1. PICK k \in 1..Len(ls) : ls[k] = r
    BY <1>2
  <2>2. {i \in 1..Len(ls) : ls[i] = r} = {k}
    BY <1>0, <2>1 DEF Distinct
  <2>3. RemoveFirst(ls, r) = RemoveAt(ls, SelectInSeq(ls, LAMBDA v : v = r))
    BY <1>2 DEF RemoveFirst
  <2>4. SelectInSeq(ls, LAMBDA v : v = r) = k
    <3>1. Min({k}) = k
      BY <2>1, <1>0 DEF Min
    <3>2. QED
      BY <2>2, <3>1 DEF SelectInSeq
  <2> DEFINE left == RemoveAt(ls, k)
  <2>5. /\ left \in Seq(S) /\ Len(left) = Len(ls) - 1
        /\ \A i \in 1..(Len(ls) - 1) : left[i] = IF i < k THEN ls[i] ELSE ls[i + 1]
    <3> DEFINE a == SubSeq(ls, 1, k - 1)
               b == SubSeq(ls, k + 1, Len(ls))
    <3>1. /\ a \in Seq(S) /\ Len(a) = k - 1
          /\ \A i \in 1..(k - 1) : a[i] = ls[i]
      <4>1. \A i \in 1..(k - 1) : ls[i] \in S
        BY <1>0, <2>1
      <4>2. /\ a \in Seq(S) /\ Len(a) = IF 1 <= k - 1 THEN (k - 1) - 1 + 1 ELSE 0
            /\ \A i \in 1..((k - 1) - 1 + 1) : a[i] = ls[1 + i - 1]
        BY <1>0, <2>1, <4>1, SubSeqProperties
      <4>3. QED
        BY <1>0, <2>1, <4>2
    <3>2. /\ b \in Seq(S) /\ Len(b) = Len(ls) - k
          /\ \A i \in 1..(Len(ls) - k) : b[i] = ls[k + i]
      <4>1. \A i \in (k + 1)..Len(ls) : ls[i] \in S
        BY <1>0, <2>1
      <4>2. /\ b \in Seq(S) /\ Len(b) = IF k + 1 <= Len(ls) THEN Len(ls) - (k + 1) + 1 ELSE 0
            /\ \A i \in 1..(Len(ls) - (k + 1) + 1) : b[i] = ls[(k + 1) + i - 1]
        BY <1>0, <2>1, <4>1, SubSeqProperties
      <4>3. ASSUME NEW i \in 1..(Len(ls) - k) PROVE b[i] = ls[k + i]
        <5>1. i \in 1..(Len(ls) - (k + 1) + 1) /\ (k + 1) + i - 1 = k + i
          BY <1>0, <2>1
        <5>2. QED
          BY <4>2, <5>1
      <4>4. Len(b) = Len(ls) - k
        <5>1. Len(b) = IF k + 1 <= Len(ls) THEN Len(ls) - (k + 1) + 1 ELSE 0
          BY <4>2
        <5>2. \A n \in Nat : \A m \in 1..n :
                 (IF m + 1 <= n THEN n - (m + 1) + 1 ELSE 0) = n - m
          OBVIOUS
        <5>3. Len(ls) \in Nat
          BY <1>0
        <5>4. QED
          BY <2>1, <5>1, <5>2, <5>3
      <4>5. QED
        BY <4>2, <4>3, <4>4
    <3>3. left = a \o b
      BY DEF RemoveAt
    <3> HIDE DEF a, b, left
    <3>4. /\ left \in Seq(S) /\ Len(left) = Len(a) + Len(b)
          /\ \A i \in 1..(Len(a) + Len(b)) : left[i] = IF i <= Len(a) THEN a[i] ELSE b[i - Len(a)]
      BY <3>1, <3>2, <3>3, ConcatProperties
    <3>5. ASSUME NEW i \in 1..(Len(ls) - 1)
          PROVE  left[i] = IF i < k THEN ls[i] ELSE ls[i + 1]
      <4>0. /\ Len(a) + Len(b) = Len(ls) - 1 /\ (i <= Len(a) <=> i < k)
            /\ i - Len(a) = i - (k - 1)
        BY <1>0, <2>1, <3>1, <3>2
      <4>1. CASE i < k
        <5>1. left[i] = a[i]
          BY <3>4, <4>0, <4>1
        <5>2. i \in 1..(k - 1)
          BY <1>0, <2>1, <4>1
        <5>3. QED
          BY <3>1, <4>1, <5>1, <5>2
      <4>2. CASE i >= k
        <5>1. i - (k - 1) \in 1..(Len(ls) - k) /\ k + (i - (k - 1)) = i + 1
          BY <1>0, <2>1, <4>2
        <5>2. left[i] = IF i <= Len(a) THEN a[i] ELSE b[i - Len(a)]
          BY <3>4, <4>0
        <5>3. ~(i <= Len(a))
          BY <1>0, <2>1, <4>0, <4>2
        <5>4. left[i] = b[i - (k - 1)]
          BY <4>0, <5>2, <5>3
        <5>5. QED
          BY <1>0, <2>1, <3>2, <4>2, <5>1, <5>4
      <4>3. QED
        BY <1>0, <2>1, <4>1, <4>2
    <3>6. QED
      BY <1>0, <2>1, <3>1, <3>2, <3>4, <3>5
  <2> HIDE DEF left
  <2>6. DOMAIN left = 1..(Len(ls) - 1)
    BY <2>5, LenProperties
  <2>7. Distinct(left)
    <3>1. \A i \in DOMAIN left : left[i] = BootMark => i = 1
      BY <1>0, <2>1, <2>5, <2>6, SessionAssumption DEF Distinct
    <3>2. ASSUME NEW i \in DOMAIN left, NEW j \in DOMAIN left, left[i] = left[j]
          PROVE  i = j
      <4>1. \E m, n \in DOMAIN ls : /\ m = IF i < k THEN i ELSE i + 1
                                    /\ n = IF j < k THEN j ELSE j + 1
                                    /\ ls[m] = ls[n]
        BY <1>0, <2>1, <2>5, <2>6, <3>2
      <4>2. (IF i < k THEN i ELSE i + 1) = (IF j < k THEN j ELSE j + 1)
        BY <4>1 DEF Distinct
      <4>3. QED
        BY <1>0, <2>1, <2>6, <4>2
    <3>3. QED
      BY <2>5, <3>1, <3>2 DEF Distinct
  <2>8. ToSet(left) = ToSet(ls) \ {r}
    <3>1. ASSUME NEW i \in DOMAIN left PROVE left[i] \in ToSet(ls) /\ left[i] # r
      BY <1>0, <2>1, <2>5, <2>6 DEF Distinct, ToSet
    <3>2. ASSUME NEW i \in DOMAIN ls, ls[i] # r PROVE \E j \in DOMAIN left : left[j] = ls[i]
      <4>1. CASE i < k
        BY <1>0, <2>1, <2>5, <2>6, <4>1
      <4>2. CASE i > k
        <5>1. i - 1 \in DOMAIN left /\ left[i - 1] = ls[(i - 1) + 1] /\ (i - 1) + 1 = i
          BY <1>0, <2>1, <2>5, <2>6, <4>2
        <5>2. QED
          BY <5>1
      <4>3. QED
        BY <1>0, <2>1, <3>2, <4>1, <4>2
    <3>3. QED
      BY <3>1, <3>2 DEF ToSet
  <2>9. QED
    BY <2>3, <2>4, <2>7, <2>8 DEF left
<1>3. QED
  BY <1>1, <1>2

\* A credential takes out the one-shot listeners it calls, and no other.
LEMMA FireListeners ==
    ASSUME NEW ls, Distinct(ls)
    PROVE  /\ Distinct(Fired(ls).kept)
           /\ Fired(ls).fired \subseteq ToSet(ls)
           /\ ToSet(Fired(ls).kept) \cap Reqs = (ToSet(ls) \ Fired(ls).fired) \cap Reqs
           /\ ls = <<BootMark>> => BootMark \in Fired(ls).fired /\ Fired(ls).kept = <<BootMark>>
<1> DEFINE S == Reqs \cup {BootMark}
           boot == IF ls # <<>> /\ ls[1] = BootMark THEN 1 ELSE 0
           n == (Len(ls) + boot) \div 2
           fired == {ls[i] : i \in {j \in DOMAIN ls : j = boot \/ (j + boot) % 2 = 1}}
           kept == [i \in 1..n |-> ls[2 * i - boot]]
<1>0. Len(ls) \in Nat /\ DOMAIN ls = 1..Len(ls) /\ ls \in [1..Len(ls) -> S] /\ ls \in Seq(S)
  BY LenProperties DEF Distinct
<1>1. Fired(ls).fired = fired /\ Fired(ls).kept = kept
  BY DEF Fired
<1>2. boot \in {0, 1} /\ (boot = 1 => Len(ls) > 0 /\ ls[1] = BootMark)
  <2>1. ls # <<>> => Len(ls) > 0
    BY <1>0, EmptySeq
  <2>2. QED
    BY <2>1
<1> HIDE DEF boot
<1>3. n \in Nat
  BY <1>0, <1>2
<1>4. ASSUME NEW i \in 1..n
      PROVE  2 * i - boot \in 1..Len(ls) /\ ~((2 * i - boot) + boot) % 2 = 1
  BY <1>0, <1>2
<1>5. ASSUME NEW j \in 1..Len(ls), ~((j + boot) % 2 = 1)
      PROVE  \E i \in 1..n : j = 2 * i - boot
  <2>1. (j + boot) \div 2 \in 1..n /\ j = 2 * ((j + boot) \div 2) - boot
    BY <1>0, <1>2, <1>5
  <2>2. QED
    BY <2>1
<1> HIDE DEF n
<1>6. kept \in Seq(S) /\ Len(kept) = n /\ DOMAIN kept = 1..n
  <2>1. \A i \in 1..n : ls[2 * i - boot] \in S
    BY <1>0, <1>4
  <2>2. kept \in [1..n -> S]
    BY <2>1
  <2>3. kept \in Seq(S)
    BY <1>3, <2>2
  <2>4. DOMAIN kept = 1..n
    OBVIOUS
  <2>5. Len(kept) = n
    BY <1>3, <2>3, <2>4, LenProperties
  <2>6. QED
    BY <2>3, <2>4, <2>5
<1>7. \A i \in 1..n : kept[i] = ls[2 * i - boot]
  OBVIOUS
<1> HIDE DEF kept
<1>8. Distinct(kept)
  <2>1. ASSUME NEW i \in 1..n, kept[i] = BootMark PROVE i = 1
    <3>1. 2 * i - boot = 1
      BY <1>0, <1>4, <1>7, <2>1 DEF Distinct
    <3>2. QED
      BY <1>2, <1>3, <3>1
  <2>2. ASSUME NEW i \in 1..n, NEW j \in 1..n, kept[i] = kept[j] PROVE i = j
    <3>1. 2 * i - boot = 2 * j - boot
      BY <1>0, <1>4, <1>7, <2>2 DEF Distinct
    <3>2. QED
      BY <1>2, <1>3, <3>1
  <2>3. QED
    BY <1>6, <2>1, <2>2 DEF Distinct
<1>9. fired \subseteq ToSet(ls)
  BY DEF ToSet
<1>10. ASSUME NEW j \in 1..Len(ls), ls[j] \in Reqs
       PROVE  ls[j] \in fired <=> (j + boot) % 2 = 1
  <2>1. j # boot
    BY <1>2, <1>10, SessionAssumption
  <2>2. ls[j] \in fired <=>
          \E i \in 1..Len(ls) : (i = boot \/ (i + boot) % 2 = 1) /\ ls[j] = ls[i]
    BY <1>0
  <2>3. \A i \in 1..Len(ls) : ls[j] = ls[i] => i = j
    BY <1>0 DEF Distinct
  <2>4. QED
    BY <2>1, <2>2, <2>3
<1> HIDE DEF fired
<1>11. ToSet(kept) \cap Reqs = (ToSet(ls) \ fired) \cap Reqs
  <2>1. ASSUME NEW i \in 1..n, kept[i] \in Reqs
        PROVE  kept[i] \in ToSet(ls) /\ kept[i] \notin fired
    <3>1. kept[i] = ls[2 * i - boot] /\ 2 * i - boot \in 1..Len(ls)
      BY <1>4, <1>7
    <3>2. ~((2 * i - boot) + boot) % 2 = 1
      BY <1>4
    <3>3. kept[i] \notin fired
      BY <1>10, <2>1, <3>1, <3>2
    <3>4. QED
      BY <1>0, <3>1, <3>3 DEF ToSet
  <2>2. ASSUME NEW j \in 1..Len(ls), ls[j] \in Reqs, ls[j] \notin fired
        PROVE  ls[j] \in ToSet(kept)
    <3>1. PICK i \in 1..n : j = 2 * i - boot
      BY <1>5, <1>10, <2>2
    <3>2. QED
      BY <1>6, <1>7, <3>1 DEF ToSet
  <2>3. \A x \in ToSet(kept) : \E i \in 1..n : x = kept[i]
    BY <1>6 DEF ToSet
  <2>4. \A x \in ToSet(ls) : \E j \in 1..Len(ls) : x = ls[j]
    BY <1>0 DEF ToSet
  <2>5. QED
    BY <2>1, <2>2, <2>3, <2>4
<1>12. ASSUME ls = <<BootMark>> PROVE BootMark \in fired /\ kept = <<BootMark>>
  <2>1. boot = 1 /\ Len(ls) = 1 /\ ls[1] = BootMark
    BY <1>12 DEF boot
  <2>2. n = 1
    BY <2>1 DEF n
  <2>3. BootMark \in fired
    BY <1>0, <2>1 DEF fired
  <2>4. kept[1] = ls[2 * 1 - boot] /\ 2 * 1 - boot = 1
    BY <1>7, <2>1, <2>2
  <2>5. kept[1] = BootMark /\ Len(kept) = 1 /\ kept \in Seq(S)
    BY <1>6, <2>1, <2>2, <2>4
  <2>6. QED
    BY <2>3, <2>5
<1>13. QED
  BY <1>1, <1>8, <1>9, <1>11, <1>12

\* A listener that is new comes last.
LEMMA AppendListener ==
    ASSUME NEW ls, Distinct(ls), NEW r \in Reqs, r \notin ToSet(ls)
    PROVE  Distinct(Append(ls, r)) /\ ToSet(Append(ls, r)) = ToSet(ls) \cup {r}
<1> DEFINE S == Reqs \cup {BootMark}
           new == Append(ls, r)
<1>0. Len(ls) \in Nat /\ DOMAIN ls = 1..Len(ls) /\ ls \in Seq(S)
  BY LenProperties DEF Distinct
<1>1. /\ new \in Seq(S) /\ Len(new) = Len(ls) + 1
      /\ \A i \in 1..Len(ls) : new[i] = ls[i]
      /\ new[Len(ls) + 1] = r
  BY <1>0, AppendProperties
<1> HIDE DEF new
<1>2. DOMAIN new = 1..(Len(ls) + 1)
  BY <1>1, LenProperties
<1>3. \A i \in 1..Len(ls) : ls[i] # r
  BY <1>0 DEF ToSet
<1>4. ASSUME NEW i \in DOMAIN new, new[i] = BootMark PROVE i = 1
  <2>1. i \in 1..Len(ls)
    BY <1>0, <1>1, <1>2, <1>4, SessionAssumption
  <2>2. QED
    BY <1>0, <1>1, <1>4, <2>1 DEF Distinct
<1>5. ASSUME NEW i \in DOMAIN new, NEW j \in DOMAIN new, new[i] = new[j] PROVE i = j
  <2>1. CASE i \in 1..Len(ls) /\ j \in 1..Len(ls)
    BY <1>0, <1>1, <1>5, <2>1 DEF Distinct
  <2>2. CASE ~(i \in 1..Len(ls) /\ j \in 1..Len(ls))
    BY <1>0, <1>1, <1>2, <1>3, <1>5, <2>2
  <2>3. QED
    BY <2>1, <2>2
<1>6. ToSet(new) = ToSet(ls) \cup {r}
  <2>1. \A x \in ToSet(new) : x = r \/ x \in ToSet(ls)
    BY <1>0, <1>1, <1>2 DEF ToSet
  <2>2. ASSUME NEW i \in 1..Len(ls) PROVE ls[i] \in ToSet(new)
    BY <1>0, <1>1, <1>2, <2>2 DEF ToSet
  <2>3. r \in ToSet(new)
    BY <1>0, <1>1, <1>2 DEF ToSet
  <2>4. \A x \in ToSet(ls) : x \in ToSet(new)
    BY <1>0, <2>2 DEF ToSet
  <2>5. QED
    BY <2>1, <2>3, <2>4
<1>7. QED
  BY <1>1, <1>4, <1>5, <1>6 DEF Distinct, new

\* The two ways to say what the list holds.
ListOK == Distinct(listeners) /\ ToSet(listeners) \cap Reqs = {r \in Reqs : pc[r] = "waiting"}

LEMMA ListMeaning == TypeOK /\ ListenersAreWaiters => ListOK
<1>1. Distinct(listeners) => ToSet(listeners) \ {BootMark} = ToSet(listeners) \cap Reqs
  <2>1. Distinct(listeners) => \A x \in ToSet(listeners) : x \in Reqs \cup {BootMark}
    BY LenProperties DEF Distinct, ToSet
  <2>2. QED
    BY <2>1, SessionAssumption
<1>2. TypeOK /\ ListenersAreWaiters => Distinct(listeners)
  BY DEF TypeOK, ListenersAreWaiters, Distinct
<1>3. QED
  BY <1>1, <1>2 DEF ListenersAreWaiters, ListOK

LEMMA ListWaits == ListOK => ListenersAreWaiters
<1>1. Distinct(listeners) => ToSet(listeners) \ {BootMark} = ToSet(listeners) \cap Reqs
  <2>1. Distinct(listeners) => \A x \in ToSet(listeners) : x \in Reqs \cup {BootMark}
    BY LenProperties DEF Distinct, ToSet
  <2>2. QED
    BY <2>1, SessionAssumption
<1>2. QED
  BY <1>1 DEF ListenersAreWaiters, Distinct, ListOK

\* The types of the tokens and of the requests.
LEMMA CallTypes ==
    ASSUME TypeOK
    PROVE  /\ token \in Nat /\ issued \in Nat /\ token <= issued /\ token \in 0..issued
           /\ issued \in 0..MaxTokens /\ MaxTokens \in Nat
           /\ pc \in [Reqs -> PC] /\ kind \in [Reqs -> {"boot", "data"}]
           /\ sent \in [Reqs -> 0..issued] /\ seen \in [Reqs -> 0..issued]
           /\ dom \in [Mounts -> {"empty", "shell", "wanted", "button", "gave up"}]
<1>1. token \in 0..issued /\ issued \in 0..MaxTokens
  BY DEF TypeOK, SignedOut
<1>0. /\ pc \in [Reqs -> PC] /\ kind \in [Reqs -> {"boot", "data"}]
      /\ sent \in [Reqs -> 0..issued] /\ seen \in [Reqs -> 0..issued]
      /\ dom \in [Mounts -> {"empty", "shell", "wanted", "button", "gave up"}]
  BY DEF TypeOK
<1>2. MaxTokens \in Nat
  BY SessionAssumption
<1>3. issued \in Nat
  BY <1>1, <1>2
<1>4. token \in Nat /\ token <= issued
  BY <1>1, <1>3
<1>5. QED
  BY <1>0, <1>1, <1>2, <1>3, <1>4

------------------------------------------------------------------------------
\* A page load

\* A page that has just loaded.
Loaded ==
    /\ token \in SignedOut..issued /\ issued \in 0..MaxTokens /\ live \subseteq 1..issued
    /\ dom = Start(token).dom /\ visible = Start(token).visible
    /\ listeners = Start(token).listeners
    /\ pc = Start(token).pc /\ kind = Start(token).kind /\ sent = Start(token).sent
    /\ seen = [r \in Reqs |-> SignedOut]
    /\ gis = "loading" /\ mount = "none" /\ prompts = {} /\ started = FALSE
    /\ loads \in 1..MaxLoads

LEMMA LoadedInv == Loaded => IInv
<1> SUFFICES ASSUME Loaded PROVE IInv
  OBVIOUS
<1>0. token \in Nat /\ issued \in Nat
  BY SessionAssumption DEF Loaded, SignedOut
<1>1. /\ dom = [gate |-> IF token = SignedOut THEN "wanted" ELSE "empty", app |-> "shell"]
      /\ visible = IF token = SignedOut THEN "gate" ELSE "app"
      /\ listeners = IF token = SignedOut THEN <<BootMark>> ELSE <<>>
  BY DEF Loaded, Start
<1>2. \A r \in Reqs : /\ pc[r] \in {"sent", "idle"} /\ kind[r] \in {"boot", "data"}
                      /\ sent[r] \in {token, SignedOut}
                      /\ token = SignedOut => pc[r] = "idle"
  BY DEF Loaded, Start
<1>3. /\ DOMAIN pc = Reqs /\ DOMAIN kind = Reqs /\ DOMAIN sent = Reqs
      /\ pc = [r \in Reqs |-> pc[r]] /\ kind = [r \in Reqs |-> kind[r]]
      /\ sent = [r \in Reqs |-> sent[r]]
  BY DEF Loaded, Start
<1>4. Distinct(listeners) /\ ToSet(listeners) \cap Reqs = {}
  <2>1. CASE token = SignedOut
    <3>1. /\ listeners \in Seq(Reqs \cup {BootMark}) /\ DOMAIN listeners = {1}
          /\ listeners[1] = BootMark
      BY <1>1, <2>1
    <3>2. QED
      BY <3>1, SessionAssumption DEF Distinct, ToSet
  <2>2. CASE token # SignedOut
    <3>1. listeners \in Seq(Reqs \cup {BootMark}) /\ DOMAIN listeners = {}
      BY <1>1, <2>2
    <3>2. QED
      BY <3>1 DEF Distinct, ToSet
  <2>3. QED
    BY <2>1, <2>2
<1>5. ListenersAreWaiters
  BY <1>2, <1>4, ListWaits DEF ListOK
<1>6. TypeOK
  <2>1. /\ dom \in [Mounts -> {"empty", "shell", "wanted", "button", "gave up"}]
        /\ visible \in Mounts
    <3>1. DOMAIN dom = Mounts /\ dom = [m \in Mounts |-> dom[m]]
      BY <1>1 DEF Mounts
    <3>2. dom["gate"] \in {"empty", "wanted"} /\ dom["app"] = "shell"
      BY <1>1
    <3>3. QED
      BY <1>1, <3>1, <3>2 DEF Mounts
  <2>2. pc \in [Reqs -> PC] /\ kind \in [Reqs -> {"boot", "data"}]
    BY <1>2, <1>3 DEF PC
  <2>3. sent \in [Reqs -> 0..issued] /\ seen \in [Reqs -> 0..issued]
    <3>1. \A r \in Reqs : sent[r] \in 0..issued
      BY <1>0, <1>2 DEF Loaded, SignedOut
    <3>2. QED
      BY <1>0, <1>3, <3>1 DEF Loaded, SignedOut
  <2>4. /\ listeners \in Seq(Reqs \cup {BootMark})
        /\ \A i \in DOMAIN listeners : listeners[i] = BootMark => i = 1
    BY <1>4 DEF Distinct
  <2>5. QED
    BY <2>1, <2>2, <2>3, <2>4 DEF Loaded, TypeOK
<1>7. GateInv /\ SentInv
  <2>1. \A r \in Reqs : sent[r] <= token /\ seen[r] = SignedOut
    BY <1>0, <1>2 DEF Loaded, SignedOut
  <2>2. SentInv
    BY <2>1 DEF SentInv
  <2>3. GateInv
    BY <1>1, <1>2 DEF Loaded, GateInv
  <2>4. QED
    BY <2>2, <2>3
<1>8. SignInOffered
  BY DEF Loaded, SignInOffered, Refused
<1>9. QED
  BY <1>5, <1>6, <1>7, <1>8 DEF IInv

LEMMA InitLoaded == Init => Loaded
  BY SessionAssumption DEF Init, Loaded, SignedOut

LEMMA ReloadStep ==
    ASSUME IInv, NEW keep \in BOOLEAN, Reload(keep)
    PROVE  IInv'
<1>1. Loaded'
  <2>0. /\ loads < MaxLoads /\ loads' = loads + 1 /\ token' \in {token, SignedOut}
        /\ issued' = issued /\ live' = live
    BY DEF Reload, google
  <2> /\ loads \in 1..MaxLoads /\ token \in SignedOut..issued /\ issued \in 0..MaxTokens
      /\ live \subseteq 1..issued
    BY DEF IInv, TypeOK
  <2>1. loads' \in 1..MaxLoads
    BY <2>0, SessionAssumption
  <2>2. token' \in SignedOut..issued' /\ issued' \in 0..MaxTokens /\ live' \subseteq 1..issued'
    BY <2>0, SessionAssumption DEF SignedOut
  <2>3. QED
    BY <2>1, <2>2 DEF Reload, Loaded
<1>2. Loaded' => IInv'
  BY LoadedInv, PTL
<1>3. QED
  BY <1>1, <1>2

------------------------------------------------------------------------------
\* The other steps

\* GIS arrives, a token expires, or nothing happens.
LEMMA QuietStep ==
    ASSUME IInv, LoadGis \/ (\E t \in live : Expire(t)) \/ UNCHANGED vars
    PROVE  IInv'
<1>1. /\ gis' \in {gis, "ready"} /\ live' \subseteq live
      /\ UNCHANGED <<token, issued, mount, dom, visible, listeners, prompts, pc, kind, sent, seen,
                     started, loads>>
  BY DEF LoadGis, Expire, vars, google, page, calls
<1>2. TypeOK'
  BY <1>1 DEF IInv, TypeOK
<1>3. ListenersAreWaiters' /\ GateInv' /\ SentInv'
  BY <1>1 DEF IInv, ListenersAreWaiters, GateInv, SentInv
<1>4. SignInOffered'
  BY <1>1 DEF IInv, SignInOffered, Refused, Button
<1>5. QED
  BY <1>2, <1>3, <1>4 DEF IInv

\* Only the gate of a page without a token waits for GIS.
LEMMA RetryGateStep ==
    ASSUME IInv, RetryGate
    PROVE  IInv'
<1>1. /\ token = SignedOut /\ mount # "app"
      /\ mount' \in {mount, "gate"}
      /\ \E c \in {"button", "gave up"} : dom' = [dom EXCEPT !["gate"] = c]
      /\ UNCHANGED <<token, issued, live, gis, visible, listeners, prompts, pc, kind, sent, seen,
                     started, loads>>
  BY DEF IInv, GateInv, RetryGate, RenderGate, google, calls
<1>2. TypeOK'
  <2>1. dom' \in [Mounts -> {"empty", "shell", "wanted", "button", "gave up"}]
    BY <1>1 DEF IInv, TypeOK
  <2>2. mount' \in Mounts \cup {"none"}
    BY <1>1 DEF IInv, TypeOK, Mounts
  <2>3. QED
    BY <1>1, <2>1, <2>2 DEF IInv, TypeOK
<1>3. ListenersAreWaiters' /\ GateInv' /\ SentInv'
  BY <1>1 DEF IInv, ListenersAreWaiters, GateInv, SentInv
<1>4. SignInOffered'
  BY <1>1 DEF IInv, SignInOffered, Refused
<1>5. QED
  BY <1>2, <1>3, <1>4 DEF IInv

\* What a request sends is the session's token.
LEMMA SendStep ==
    ASSUME IInv, NEW r \in Reqs, Send(r)
    PROVE  IInv'
<1>1. /\ started /\ pc[r] # "waiting"
      /\ pc' = [pc EXCEPT ![r] = "sent"] /\ sent' = [sent EXCEPT ![r] = token]
      /\ seen' = [seen EXCEPT ![r] = SignedOut] /\ kind' = [kind EXCEPT ![r] = "data"]
      /\ UNCHANGED <<token, issued, live, gis, mount, dom, visible, listeners, prompts, started,
                     loads>>
  BY DEF Send, Free, Ended, google, page
<1>2. /\ token \in 0..issued /\ issued \in Nat
      /\ pc \in [Reqs -> PC] /\ kind \in [Reqs -> {"boot", "data"}]
      /\ sent \in [Reqs -> 0..issued] /\ seen \in [Reqs -> 0..issued]
  BY CallTypes DEF IInv
<1>3. /\ pc' \in [Reqs -> PC] /\ kind' \in [Reqs -> {"boot", "data"}]
      /\ sent' \in [Reqs -> 0..issued] /\ seen' \in [Reqs -> 0..issued]
  BY <1>1, <1>2 DEF PC, SignedOut
<1>4. TypeOK'
  BY <1>1, <1>3 DEF IInv, TypeOK
<1>5. ListenersAreWaiters'
  BY <1>1, <1>2 DEF IInv, ListenersAreWaiters
<1>6. GateInv'
  BY <1>1 DEF IInv, GateInv
<1>7. SentInv'
  BY <1>1, <1>2 DEF IInv, SentInv
<1>8. SignInOffered'
  BY <1>1, <1>2 DEF IInv, SignInOffered, Refused, Button, Ended
<1>9. QED
  BY <1>4, <1>5, <1>6, <1>7, <1>8 DEF IInv

\* A request settles with what it has: it does not wait for a credential.
LEMMA SettleStep ==
    ASSUME IInv, NEW r \in Reqs, NEW end \in Ended, pc[r] \in {"sent", "resent"}, Settle(r, end),
           UNCHANGED <<listeners, prompts, token, google, loads>>
    PROVE  IInv'
<1>1. /\ pc' = [pc EXCEPT ![r] = end] /\ started' \in BOOLEAN
      /\ UNCHANGED <<token, issued, live, gis, mount, dom, visible, listeners, prompts, kind, sent,
                     seen, loads>>
  <2>1. started \in BOOLEAN
    BY DEF IInv, TypeOK
  <2>2. QED
    BY <2>1 DEF Settle, google
<1>2. /\ pc \in [Reqs -> PC] /\ pc' \in [Reqs -> PC] /\ end \in PC
      /\ end \notin {"sent", "waiting", "idle"}
  <2>1. pc \in [Reqs -> PC] /\ end \in PC /\ end \notin {"sent", "waiting", "idle"}
    BY DEF IInv, TypeOK, PC, Ended
  <2>2. QED
    BY <1>1, <2>1
<1>3. token # SignedOut
  BY DEF IInv, GateInv
<1>4. TypeOK'
  BY <1>1, <1>2 DEF IInv, TypeOK
<1>5. ListenersAreWaiters'
  BY <1>1, <1>2 DEF IInv, ListenersAreWaiters
<1>6. GateInv'
  BY <1>1, <1>3 DEF IInv, GateInv
<1>7. SentInv'
  BY <1>1, <1>2 DEF IInv, SentInv
<1>8. SignInOffered'
  <2>1. \A q \in Reqs : pc'[q] \in {"resent"} \cup Ended /\ seen[q] # SignedOut /\ token = seen[q]
            => Button \/ pc'[q] = "rejected"
    BY <1>1, <1>2 DEF IInv, SignInOffered, SentInv, Refused
  <2>2. QED
    BY <1>1, <2>1 DEF SignInOffered, Refused, Button
<1>9. QED
  BY <1>4, <1>5, <1>6, <1>7, <1>8 DEF IInv

\* A request that was refused waits behind the others.
LEMMA WaitStep ==
    ASSUME IInv, NEW r \in Reqs, pc[r] = "sent",
           pc' = [pc EXCEPT ![r] = "waiting"], seen' = [seen EXCEPT ![r] = token],
           listeners' = Append(listeners, r), prompts' = prompts \cup {r},
           UNCHANGED <<kind, sent, gis, mount, dom, visible, started, token, google, loads>>
    PROVE  IInv'
<1>1. UNCHANGED <<token, issued, live>> /\ token # SignedOut
  BY DEF google, IInv, GateInv
<1>2. /\ token \in 0..issued /\ pc \in [Reqs -> PC] /\ seen \in [Reqs -> 0..issued]
  BY CallTypes DEF IInv
<1>3. Distinct(listeners) /\ ToSet(listeners) \cap Reqs = {q \in Reqs : pc[q] = "waiting"}
  BY ListMeaning DEF IInv, ListOK
<1>4. Distinct(listeners') /\ ToSet(listeners') = ToSet(listeners) \cup {r}
  BY <1>3, AppendListener
<1>5. ToSet(listeners') \cap Reqs = {q \in Reqs : pc'[q] = "waiting"}
  BY <1>2, <1>3, <1>4
<1>6. ListenersAreWaiters'
  <2>1. ListOK' => ListenersAreWaiters'
    BY ListWaits, PTL
  <2>2. QED
    BY <1>4, <1>5, <2>1 DEF ListOK
<1>7. TypeOK'
  <2>1. pc' \in [Reqs -> PC] /\ seen' \in [Reqs -> 0..issued]
    BY <1>2 DEF PC
  <2>2. /\ listeners' \in Seq(Reqs \cup {BootMark})
        /\ \A i \in DOMAIN listeners' : listeners'[i] = BootMark => i = 1
    BY <1>4 DEF Distinct
  <2>3. prompts' \subseteq Reqs
    BY DEF IInv, TypeOK
  <2>4. QED
    BY <1>1, <2>1, <2>2, <2>3 DEF IInv, TypeOK
<1>8. GateInv' /\ SentInv'
  BY <1>1, <1>2 DEF IInv, GateInv, SentInv
<1>9. SignInOffered'
  BY <1>1, <1>2 DEF IInv, SignInOffered, Refused, Button, Ended
<1>10. QED
  BY <1>6, <1>7, <1>8, <1>9 DEF IInv

\* A request whose re-authentication is rejected: nobody waits, nothing is shown.
LEMMA RejectStep ==
    ASSUME IInv, NEW r \in Reqs, pc[r] = "sent",
           pc' = [pc EXCEPT ![r] = "rejected"], seen' = [seen EXCEPT ![r] = token],
           UNCHANGED <<listeners, prompts, kind, sent, gis, mount, dom, visible, started, token,
                       google, loads>>
    PROVE  IInv'
<1>1. UNCHANGED <<token, issued, live>> /\ token # SignedOut
  BY DEF google, IInv, GateInv
<1>2. /\ token \in 0..issued /\ pc \in [Reqs -> PC] /\ seen \in [Reqs -> 0..issued]
  BY CallTypes DEF IInv
<1>3. pc' \in [Reqs -> PC] /\ seen' \in [Reqs -> 0..issued]
  BY <1>2 DEF PC, Ended
<1>4. TypeOK'
  BY <1>1, <1>3 DEF IInv, TypeOK
<1>5. ListenersAreWaiters'
  BY <1>2 DEF IInv, ListenersAreWaiters
<1>6. GateInv' /\ SentInv'
  BY <1>1, <1>2 DEF IInv, GateInv, SentInv
<1>7. SignInOffered'
  BY <1>1, <1>2 DEF IInv, SignInOffered, Refused, Button, Ended
<1>8. QED
  BY <1>4, <1>5, <1>6, <1>7 DEF IInv

\* A request that gives up waiting leaves the gate in place of the desk.
LEMMA FallBackStep ==
    ASSUME IInv, NEW r \in Reqs, FallBack(r), prompts' \subseteq prompts
    PROVE  IInv' /\ \A q \in Reqs : sent'[q] <= sent'[r]
<1>1. /\ pc[r] = "waiting" /\ listeners' = RemoveFirst(listeners, r)
      /\ dom' = [dom EXCEPT !["app"] = "button"] /\ mount' = "app"
      /\ pc' = [pc EXCEPT ![r] = "resent"] /\ sent' = [sent EXCEPT ![r] = token]
      /\ UNCHANGED <<kind, seen, gis, visible, started, token, issued, live, loads>>
  BY DEF FallBack, RenderGate, google
<1>2. /\ token \in 0..issued /\ issued \in Nat /\ pc \in [Reqs -> PC]
      /\ sent \in [Reqs -> 0..issued]
      /\ dom \in [Mounts -> {"empty", "shell", "wanted", "button", "gave up"}]
  BY CallTypes DEF IInv
<1>3. token # SignedOut /\ visible = "app" /\ dom.gate # "wanted"
  BY <1>1 DEF IInv, GateInv
<1>4. Distinct(listeners) /\ ToSet(listeners) \cap Reqs = {q \in Reqs : pc[q] = "waiting"}
  BY ListMeaning DEF IInv, ListOK
<1>5. Distinct(listeners') /\ ToSet(listeners') = ToSet(listeners) \ {r}
  BY <1>1, <1>4, DropListener
<1>6. ToSet(listeners') \cap Reqs = {q \in Reqs : pc'[q] = "waiting"}
  BY <1>1, <1>2, <1>4, <1>5
<1>7. ListenersAreWaiters'
  <2>1. ListOK' => ListenersAreWaiters'
    BY ListWaits, PTL
  <2>2. QED
    BY <1>5, <1>6, <2>1 DEF ListOK
<1>8. TypeOK'
  <2>1. pc' \in [Reqs -> PC] /\ sent' \in [Reqs -> 0..issued]
    BY <1>1, <1>2 DEF PC
  <2>2. /\ listeners' \in Seq(Reqs \cup {BootMark})
        /\ \A i \in DOMAIN listeners' : listeners'[i] = BootMark => i = 1
    BY <1>5 DEF Distinct
  <2>3. /\ dom' \in [Mounts -> {"empty", "shell", "wanted", "button", "gave up"}]
        /\ mount' \in Mounts \cup {"none"}
    BY <1>1, <1>2 DEF Mounts
  <2>4. prompts' \subseteq Reqs
    BY DEF IInv, TypeOK
  <2>5. QED
    BY <1>1, <2>1, <2>2, <2>3, <2>4 DEF IInv, TypeOK
<1>9. GateInv'
  BY <1>1, <1>2, <1>3 DEF GateInv, Mounts
<1>10. \A q \in Reqs : sent'[q] <= token
  <2>1. \A q \in Reqs : sent[q] <= token /\ (q # r => sent'[q] = sent[q])
    BY <1>1, <1>2 DEF IInv, SentInv
  <2>2. sent'[r] = token
    BY <1>1, <1>2
  <2>3. token <= token
    <3>1. token \in Nat
      BY CallTypes DEF IInv
    <3>2. QED
      BY <3>1
  <2>4. QED
    BY <2>1, <2>2, <2>3
<1>11. SentInv'
  BY <1>1, <1>2, <1>10 DEF IInv, SentInv
<1>12. SignInOffered'
  <2>1. Button'
    BY <1>1, <1>2, <1>3 DEF Button, Mounts
  <2>2. QED
    BY <2>1 DEF SignInOffered, Refused
<1>13. QED
  BY <1>1, <1>2, <1>7, <1>8, <1>9, <1>10, <1>11, <1>12 DEF IInv

\* A credential serves the listeners it calls; without a token, the one of main.js.
LEMMA CredentialStep ==
    ASSUME IInv, NEW boot \in Reqs, Credential(boot)
    PROVE  /\ IInv'
           /\ \A r \in Reqs : pc[r] = "waiting" /\ pc'[r] = "resent" =>
                 \A q \in Reqs : sent'[q] <= sent'[r]
<1> DEFINE run == Fired(listeners)
           again == run.fired \cap Reqs
           boots == IF BootMark \in run.fired THEN {boot} ELSE {}
           new == issued + 1
<1>1. /\ mount # "none" /\ issued < MaxTokens /\ pc[boot] \in {"idle"} \cup Ended
      /\ issued' = new /\ live' = live \cup {new} /\ token' = new
      /\ listeners' = run.kept
      /\ dom' = [dom EXCEPT ![mount] = "empty"]
      /\ prompts' = {}
      /\ visible' = IF boots # {} THEN "app" ELSE visible
      /\ UNCHANGED <<gis, mount, started, loads>>
  BY DEF Credential, Free
<1>2. /\ pc' = [r \in Reqs |-> IF r \in again THEN "resent"
                               ELSE IF r \in boots THEN "sent" ELSE pc[r]]
      /\ sent' = [r \in Reqs |-> IF r \in again \cup boots THEN new ELSE sent[r]]
      /\ kind' = [r \in Reqs |-> IF r \in boots THEN "boot" ELSE kind[r]]
      /\ seen' = [r \in Reqs |-> IF r \in boots THEN SignedOut ELSE seen[r]]
  BY DEF Credential
<1>3. Distinct(listeners) /\ ToSet(listeners) \cap Reqs = {q \in Reqs : pc[q] = "waiting"}
  BY ListMeaning DEF IInv, ListOK
<1>4. /\ Distinct(run.kept) /\ run.fired \subseteq ToSet(listeners)
      /\ ToSet(run.kept) \cap Reqs = (ToSet(listeners) \ run.fired) \cap Reqs
      /\ listeners = <<BootMark>> => BootMark \in run.fired /\ run.kept = <<BootMark>>
  BY <1>3, FireListeners
<1> HIDE DEF run
<1>5. \A r \in again : pc[r] = "waiting"
  BY <1>3, <1>4
<1>6. boots \subseteq {boot} /\ boot \notin again /\ pc[boot] \notin {"waiting", "sent", "resent"}
  BY <1>1, <1>5 DEF Ended
<1>7. token = SignedOut => boots = {boot} /\ listeners' = <<BootMark>>
  BY <1>1, <1>4 DEF IInv, GateInv
<1>8. ToSet(listeners') \cap Reqs = {q \in Reqs : pc'[q] = "waiting"}
  <2>1. ASSUME NEW q \in Reqs PROVE q \in ToSet(listeners') <=> pc'[q] = "waiting"
    <3>1. q \in ToSet(listeners') <=> q \in ToSet(listeners) /\ q \notin again
      BY <1>1, <1>4
    <3>2. q \in ToSet(listeners) <=> pc[q] = "waiting"
      BY <1>3
    <3>3. pc'[q] = "waiting" <=> q \notin again /\ pc[q] = "waiting"
      BY <1>2, <1>6
    <3>4. QED
      BY <3>1, <3>2, <3>3
  <2>2. QED
    BY <2>1
<1>9. ListenersAreWaiters'
  <2>1. ListOK' => ListenersAreWaiters'
    BY ListWaits, PTL
  <2>2. QED
    BY <1>1, <1>4, <1>8, <2>1 DEF ListOK
<1> HIDE DEF again, boots
<1>10. /\ issued \in Nat /\ new \in Nat /\ new \in 0..MaxTokens /\ token \in 0..issued
       /\ token <= issued
  <2>1. issued \in Nat /\ MaxTokens \in Nat /\ token \in 0..issued
    BY CallTypes DEF IInv
  <2>2. QED
    BY <1>1, <2>1
<1>11. ASSUME NEW r \in Reqs
       PROVE  /\ pc'[r] \in PC /\ kind'[r] \in {"boot", "data"}
              /\ sent'[r] \in 0..new /\ seen'[r] \in 0..issued
              /\ sent'[r] <= new
              /\ pc'[r] = "sent" => seen'[r] = SignedOut
              /\ r \in again \cup boots => sent'[r] = new
  <2>1. /\ pc[r] \in PC /\ kind[r] \in {"boot", "data"}
        /\ pc[r] = "sent" => seen[r] = SignedOut
    BY CallTypes DEF IInv, SentInv
  <2>2. sent[r] \in 0..issued /\ seen[r] \in 0..issued
    BY CallTypes DEF IInv
  <2>3. sent[r] \in 0..new /\ new \in 0..new /\ SignedOut \in 0..issued
    BY <1>10, <2>2 DEF SignedOut
  <2>4. /\ sent'[r] \in 0..new /\ seen'[r] \in 0..issued
        /\ r \in again \cup boots => sent'[r] = new
    BY <1>2, <2>2, <2>3
  <2>5. pc'[r] \in PC /\ kind'[r] \in {"boot", "data"}
    BY <1>2, <2>1 DEF PC
  <2>6. pc'[r] = "sent" => seen'[r] = SignedOut
    BY <1>2, <2>1
  <2>7. sent'[r] <= new
    BY <1>10, <2>4
  <2>8. QED
    BY <2>4, <2>5, <2>6, <2>7
<1>12. TypeOK'
  <2>1. pc' \in [Reqs -> PC] /\ kind' \in [Reqs -> {"boot", "data"}]
    BY <1>2, <1>11
  <2>2. sent' \in [Reqs -> 0..new]
    BY <1>2, <1>11
  <2>3. seen' \in [Reqs -> 0..new]
    <3>1. 0..issued \subseteq 0..new
      BY <1>10
    <3>2. QED
      BY <1>2, <1>11, <3>1
  <2>4. /\ listeners' \in Seq(Reqs \cup {BootMark})
        /\ \A i \in DOMAIN listeners' : listeners'[i] = BootMark => i = 1
    BY <1>1, <1>4 DEF Distinct
  <2>5. /\ dom' \in [Mounts -> {"empty", "shell", "wanted", "button", "gave up"}]
        /\ visible' \in Mounts
    <3>1. /\ dom \in [Mounts -> {"empty", "shell", "wanted", "button", "gave up"}]
          /\ visible \in Mounts
      BY DEF IInv, TypeOK
    <3>2. QED
      BY <1>1, <3>1 DEF Mounts
  <2>6. token' \in SignedOut..issued' /\ issued' \in 0..MaxTokens
    BY <1>1, <1>10 DEF SignedOut
  <2>7. live' \subseteq 1..issued'
    <3>1. live \subseteq 1..issued
      BY DEF IInv, TypeOK
    <3>2. 1..issued \subseteq 1..new /\ new \in 1..new
      BY <1>10
    <3>3. QED
      BY <1>1, <3>1, <3>2
  <2>8. /\ gis' \in {"loading", "ready"} /\ mount' \in Mounts \cup {"none"}
        /\ started' \in BOOLEAN /\ loads' \in 1..MaxLoads
    BY <1>1 DEF IInv, TypeOK
  <2>9. prompts' \subseteq Reqs
    BY <1>1
  <2> HIDE DEF new
  <2>10. sent' \in [Reqs -> 0..issued'] /\ seen' \in [Reqs -> 0..issued']
    BY <1>1, <2>2, <2>3
  <2>11. QED
    BY <2>1, <2>4, <2>5, <2>6, <2>7, <2>8, <2>9, <2>10 DEF TypeOK
<1>13. token' # SignedOut
  BY <1>1, <1>10 DEF SignedOut
<1>14. GateInv'
  <2>1. visible' = "app"
    BY <1>1, <1>7 DEF IInv, GateInv
  <2>2. dom'.gate # "wanted"
    <3>1. /\ dom \in [Mounts -> {"empty", "shell", "wanted", "button", "gave up"}]
          /\ mount \in Mounts
      BY <1>1 DEF IInv, TypeOK
    <3>2. CASE token = SignedOut
      <4>1. mount = "gate"
        BY <1>1, <3>1, <3>2 DEF IInv, GateInv, Mounts
      <4>2. QED
        BY <1>1, <3>1, <4>1 DEF Mounts
    <3>3. CASE token # SignedOut
      BY <1>1, <3>1, <3>3 DEF IInv, GateInv, Mounts
    <3>4. QED
      BY <3>2, <3>3
  <2>3. QED
    BY <1>13, <2>1, <2>2 DEF GateInv
<1>15. SentInv'
  BY <1>1, <1>11 DEF SentInv
<1>16. SignInOffered'
  <2>1. ASSUME NEW r \in Reqs PROVE seen'[r] # new
    <3>1. seen'[r] \in 0..issued
      BY <1>11
    <3>2. QED
      BY <1>10, <3>1
  <2>2. QED
    BY <1>1, <2>1 DEF SignInOffered, Refused
<1>17. ASSUME NEW r \in Reqs, pc[r] = "waiting", pc'[r] = "resent", NEW q \in Reqs
       PROVE  sent'[q] <= sent'[r]
  <2>1. r \in again
    BY <1>2, <1>17
  <2>2. sent'[r] = new
    BY <1>11, <2>1
  <2>3. QED
    BY <1>11, <2>2
<1>18. QED
  BY <1>9, <1>12, <1>14, <1>15, <1>16, <1>17 DEF IInv

------------------------------------------------------------------------------
\* The invariant

LEMMA InvInit == Init => IInv
  BY InitLoaded, LoadedInv

LEMMA AnswerStep ==
    ASSUME IInv, NEW r \in Reqs, Served(r) \/ Unauthorized(r)
    PROVE  IInv'
<1>1. CASE Served(r)
  BY <1>1, SettleStep DEF Served, Ended
<1>2. CASE Unauthorized(r) /\ pc[r] = "resent"
  <2>1. /\ pc[r] \in {"sent", "resent"} /\ Settle(r, "failed")
        /\ UNCHANGED <<listeners, prompts, token, google, loads>>
    BY <1>2 DEF Unauthorized
  <2>2. QED
    BY <2>1, SettleStep DEF Ended
<1>3. CASE Unauthorized(r) /\ pc[r] = "sent"
  <2>1. Reauth(r) /\ UNCHANGED <<token, google, loads>>
    BY <1>3 DEF Unauthorized
  <2>2. CASE gis = "loading"
    BY <1>3, <2>1, <2>2, RejectStep DEF Reauth
  <2>3. CASE gis = "ready"
    BY <1>3, <2>1, <2>3, WaitStep DEF Reauth
  <2>4. QED
    BY <2>1, <2>2, <2>3 DEF Reauth
<1>4. QED
  BY <1>1, <1>2, <1>3 DEF Unauthorized

LEMMA GiveUpStep ==
    ASSUME IInv, NEW r \in Reqs, Timeout(r) \/ Decline(r)
    PROVE  IInv' /\ \A q \in Reqs : sent'[q] <= sent'[r]
<1>1. FallBack(r) /\ prompts' \subseteq prompts
  BY DEF Timeout, Decline
<1>2. QED
  BY <1>1, FallBackStep

LEMMA InvStep == IInv /\ [Next]_vars => IInv'
<1> SUFFICES ASSUME IInv, [Next]_vars PROVE IInv'
  OBVIOUS
<1>1. CASE LoadGis \/ (\E t \in live : Expire(t)) \/ UNCHANGED vars
  BY <1>1, QuietStep
<1>2. CASE RetryGate
  BY <1>2, RetryGateStep
<1>3. CASE \E keep \in BOOLEAN : Reload(keep)
  BY <1>3, ReloadStep
<1>4. ASSUME NEW r \in Reqs,
             Credential(r) \/ Send(r) \/ Served(r) \/ Unauthorized(r) \/ Timeout(r) \/ Decline(r)
      PROVE  IInv'
  BY <1>4, CredentialStep, SendStep, AnswerStep, GiveUpStep
<1>5. QED
  BY <1>1, <1>2, <1>3, <1>4 DEF Next

LEMMA Invariance == Spec => []IInv
  BY InvInit, InvStep, PTL DEF Spec

------------------------------------------------------------------------------
\* What the session promises

\* The page, its token and its requests are well-formed, and main.js's listener, if it is
\* registered, is the first of the list: Fired() counts on it.
THEOREM TypeCorrect == Spec => []TypeOK
<1>1. IInv => TypeOK
  BY DEF IInv
<1>2. QED
  BY <1>1, Invariance, PTL

\* However credentials, timeouts and declined prompts cross, a listener of reauth() lives
\* exactly as long as its request waits.
THEOREM ListenersCorrect == Spec => []ListenersAreWaiters
<1>1. IInv => ListenersAreWaiters
  BY DEF IInv
<1>2. QED
  BY <1>1, Invariance, PTL

\* Exactly one of gate and desk is in front: the gate when there is no token.
THEOREM GateCorrect == Spec => []GateIffSignedOut
<1>1. IInv => GateIffSignedOut
  BY DEF IInv, GateInv, GateIffSignedOut
<1>2. QED
  BY <1>1, Invariance, PTL

\* A user whose token was refused has a button to sign in with, however credentials,
\* timeouts and declined prompts cross, unless reauth() rejected the request for want of
\* GIS: the case of the run SessionNoGis, and the only one.
THEOREM OfferCorrect == Spec => []SignInOffered
<1>1. IInv => SignInOffered
  BY DEF IInv
<1>2. QED
  BY <1>1, Invariance, PTL

\* A retry goes out with the newest token any request has sent.
THEOREM RetryCorrect == Spec => RetryIsFresh
<1> DEFINE Newest == \A r \in Reqs : pc[r] = "waiting" /\ pc'[r] = "resent"
                         => \A q \in Reqs : sent'[q] <= sent'[r]
<1>1. ASSUME IInv, [Next]_vars, NEW r \in Reqs, pc[r] = "waiting", pc'[r] = "resent"
      PROVE  \A q \in Reqs : sent'[q] <= sent'[r]
  <2>0. pc \in [Reqs -> PC]
    BY <1>1 DEF IInv, TypeOK
  <2>1. CASE LoadGis \/ (\E t \in live : Expire(t)) \/ RetryGate \/ UNCHANGED vars
    BY <1>1, <2>1 DEF LoadGis, Expire, RetryGate, vars, calls
  <2>2. CASE \E keep \in BOOLEAN : Reload(keep)
    <3>1. \A q \in Reqs : Start(token').pc[q] \in {"sent", "idle"}
      BY DEF Start
    <3>2. QED
      BY <1>1, <2>2, <3>1 DEF Reload
  <2>3. ASSUME NEW p \in Reqs, Credential(p) PROVE \A q \in Reqs : sent'[q] <= sent'[r]
    BY <1>1, <2>3, CredentialStep
  <2>4. ASSUME NEW p \in Reqs, Send(p) \/ Served(p) \/ Unauthorized(p) PROVE FALSE
    <3>1. pc[p] # "waiting" /\ \E at \in PC \ {"resent"} : pc' = [pc EXCEPT ![p] = at]
      BY <2>4 DEF Send, Free, Served, Unauthorized, Reauth, Settle, Ended, PC
    <3>2. QED
      BY <1>1, <2>0, <3>1
  <2>5. ASSUME NEW p \in Reqs, Timeout(p) \/ Decline(p) PROVE \A q \in Reqs : sent'[q] <= sent'[r]
    <3>1. pc' = [pc EXCEPT ![p] = "resent"]
      BY <2>5 DEF Timeout, Decline, FallBack
    <3>2. p = r
      BY <1>1, <2>0, <3>1
    <3>3. QED
      BY <1>1, <2>5, <3>2, GiveUpStep
  <2>6. QED
    BY <1>1, <2>1, <2>2, <2>3, <2>4, <2>5 DEF Next
<1>2. IInv /\ [Next]_vars => [Newest]_vars
  BY <1>1
<1>3. QED
  BY <1>2, Invariance, PTL DEF Spec, RetryIsFresh

------------------------------------------------------------------------------
\* The gate of reauth(), when never two requests wait for it at once

\* One request at most waits for the re-authentication.
AtMostOneWaits == \A q, r \in Reqs : pc[q] = "waiting" /\ pc[r] = "waiting" => q = r

\* No credential has come since a waiting request began to wait.
AskedInv == \A r \in Reqs : pc[r] = "waiting" => seen[r] = token

\* The only one-shot listener of a list is never passed over.
LEMMA OnlyOneFires ==
    ASSUME NEW ls, Distinct(ls), NEW r \in Reqs, ToSet(ls) \cap Reqs = {r}
    PROVE  r \in Fired(ls).fired
<1> DEFINE boot == IF ls # <<>> /\ ls[1] = BootMark THEN 1 ELSE 0
<1>0. Len(ls) \in Nat /\ DOMAIN ls = 1..Len(ls)
  BY LenProperties DEF Distinct
<1>1. PICK i \in DOMAIN ls : ls[i] = r
  BY DEF ToSet
<1>2. \A j \in DOMAIN ls : ls[j] = BootMark \/ ls[j] = r
  <2>1. \A j \in DOMAIN ls : ls[j] \in Reqs \cup {BootMark} /\ ls[j] \in ToSet(ls)
    BY <1>0 DEF Distinct, ToSet
  <2>2. QED
    BY <2>1
<1>3. r # BootMark /\ ls # <<>> /\ 1 \in DOMAIN ls
  BY <1>0, <1>1, SessionAssumption
<1>4. i = boot + 1
  <2>1. CASE ls[1] = BootMark
    <3>1. i # 1
      BY <1>1, <1>3, <2>1
    <3>2. 2 \in DOMAIN ls
      BY <1>0, <1>1, <3>1
    <3>3. ls[2] # BootMark
      BY <3>2 DEF Distinct
    <3>4. ls[2] = r
      BY <1>2, <3>2, <3>3
    <3>5. i = 2
      BY <1>1, <3>2, <3>4 DEF Distinct
    <3>6. QED
      BY <1>3, <2>1, <3>5
  <2>2. CASE ls[1] # BootMark
    <3>1. ls[1] = r
      BY <1>2, <1>3, <2>2
    <3>2. i = 1
      BY <1>1, <1>3, <3>1 DEF Distinct
    <3>3. QED
      BY <2>2, <3>2
  <2>3. QED
    BY <2>1, <2>2
<1>5. (i + boot) % 2 = 1
  <2>1. (boot = 0 /\ i = 1) \/ (boot = 1 /\ i = 2)
    BY <1>4
  <2>2. 1 % 2 = 1 /\ 3 % 2 = 1
    OBVIOUS
  <2>3. i + boot = 1 \/ i + boot = 3
    BY <2>1
  <2>4. QED
    BY <2>2, <2>3
<1>6. Fired(ls).fired = {ls[k] : k \in {j \in DOMAIN ls : j = boot \/ (j + boot) % 2 = 1}}
  BY DEF Fired
<1> HIDE DEF boot
<1>7. QED
  BY <1>1, <1>5, <1>6

LEMMA AskedStep ==
    ASSUME IInv, AtMostOneWaits, AskedInv, [Next]_vars PROVE AskedInv'
<1> SUFFICES ASSUME NEW r \in Reqs, pc'[r] = "waiting" PROVE seen'[r] = token'
  BY DEF AskedInv
<1>0. /\ pc \in [Reqs -> PC] /\ seen \in [Reqs -> 0..issued]
      /\ pc[r] = "waiting" => seen[r] = token
  BY DEF IInv, TypeOK, AskedInv
<1>1. CASE LoadGis \/ (\E t \in live : Expire(t)) \/ RetryGate \/ UNCHANGED vars
  BY <1>0, <1>1 DEF LoadGis, Expire, RetryGate, vars, calls
<1>2. CASE \E keep \in BOOLEAN : Reload(keep)
  <2>1. \A q \in Reqs : Start(token').pc[q] \in {"sent", "idle"}
    BY DEF Start
  <2>2. QED
    BY <1>2, <2>1 DEF Reload
<1>3. ASSUME NEW p \in Reqs, Credential(p) PROVE FALSE
  <2>1. pc'[r] = IF r \in Fired(listeners).fired \cap Reqs THEN "resent"
                 ELSE IF r \in (IF BootMark \in Fired(listeners).fired THEN {p} ELSE {})
                      THEN "sent" ELSE pc[r]
    BY <1>3 DEF Credential
  <2>2. pc[r] = "waiting" /\ r \notin Fired(listeners).fired
    BY <2>1
  <2>3. Distinct(listeners) /\ ToSet(listeners) \cap Reqs = {q \in Reqs : pc[q] = "waiting"}
    BY ListMeaning DEF IInv, ListOK
  <2>4. ToSet(listeners) \cap Reqs = {r}
    BY <2>2, <2>3 DEF AtMostOneWaits
  <2>5. QED
    BY <2>2, <2>3, <2>4, OnlyOneFires
<1>4. ASSUME NEW p \in Reqs, Send(p) \/ Served(p) PROVE seen'[r] = token'
  <2>1. p # r
    BY <1>0, <1>4 DEF Send, Served, Settle, Ended
  <2>2. pc'[r] = pc[r] /\ seen'[r] = seen[r] /\ token' = token
    BY <1>0, <1>4, <2>1 DEF Send, Served, Settle
  <2>3. QED
    BY <1>0, <2>2
<1>5. ASSUME NEW p \in Reqs, Unauthorized(p) PROVE seen'[r] = token'
  <2>1. CASE Settle(p, "failed")
    <3>1. p # r
      BY <1>0, <2>1 DEF Settle
    <3>2. pc'[r] = pc[r] /\ seen'[r] = seen[r] /\ token' = token
      BY <1>0, <1>5, <2>1, <3>1 DEF Unauthorized, Settle
    <3>3. QED
      BY <1>0, <3>2
  <2>2. CASE ~Settle(p, "failed")
    <3>1. /\ pc' \in {[pc EXCEPT ![p] = "waiting"], [pc EXCEPT ![p] = "rejected"]}
          /\ seen' = [seen EXCEPT ![p] = token] /\ token' = token
      BY <1>5, <2>2 DEF Unauthorized, Reauth
    <3>2. QED
      BY <1>0, <3>1
  <2>3. QED
    BY <2>1, <2>2
<1>6. ASSUME NEW p \in Reqs, Timeout(p) \/ Decline(p) PROVE seen'[r] = token'
  BY <1>0, <1>6 DEF Timeout, Decline, FallBack
<1>7. QED
  BY <1>1, <1>2, <1>3, <1>4, <1>5, <1>6 DEF Next

\* The desk gives way to the gate only if no credential has come, as long as never two
\* requests wait for the re-authentication at once: it takes a second listener to be
\* passed over by the iteration of _setToken(), as in the run SessionGate.
THEOREM GateOnlyCorrect == Spec /\ []AtMostOneWaits => GateOnlyWithoutCredential
<1> DEFINE Only == \A r \in Reqs : /\ pc[r] = "waiting" /\ pc'[r] = "resent"
                                   /\ mount' = "app" /\ dom'.app = "button"
                                   => token = seen[r]
<1>1. ASSUME IInv, AskedInv PROVE Only
  BY <1>1 DEF AskedInv
<1>2. Init => AskedInv
  <2>1. \A q \in Reqs : Start(token).pc[q] \in {"sent", "idle"}
    BY DEF Start
  <2>2. QED
    BY <2>1 DEF Init, AskedInv
<1>3. IInv /\ AtMostOneWaits /\ AskedInv /\ [Next]_vars => AskedInv'
  BY AskedStep
<1>4. IInv /\ AskedInv => [Only]_vars
  BY <1>1
<1>5. QED
  BY <1>2, <1>3, <1>4, Invariance, PTL DEF Spec, GateOnlyWithoutCredential

==============================================================================
