--------------------------- MODULE Session_proofs ---------------------------
(***************************************************************************)
(* Proofs about Session, for any number of tabs, users, tokens, reloads    *)
(* and saves: in every interleaving of tabs, answers and expiring tokens,  *)
(* what one user loaded reaches the next one only over a 401 or over the   *)
(* late answer to a profile save, never over the sign-out button alone.    *)
(***************************************************************************)
EXTENDS Session, TLAPS

\* A tab, localStorage and the calls on their way only hold tokens that were issued.
Issued ==
  /\ \A t \in Tabs : SignedIn(t) => owner[auth[t].token] # Nobody
  /\ disk.token # Nobody => owner[disk.token] # Nobody
  /\ \A t \in Tabs : \A c \in calls[t] : owner[c.token] # Nobody

\* What an uncut tab holds belongs to its session, and so do the loads whose answers may
\* still enter the cache; signed out, it holds nothing. Nothing is said of profile saves,
\* which outlive the button: their answers cut the tab when they come.
Own(t) ==
  /\ SignedIn(t) => cache[t] \in {Nobody, owner[auth[t].token]}
  /\ ~SignedIn(t) => cache[t] = Nobody
  /\ \A c \in calls[t] : c.kind = "me" /\ c.live => SignedIn(t) /\ c.token = auth[t].token
SessionInv == TypeOK /\ Issued /\ \A t \in Tabs : ~cut[t] => Own(t)

LEMMA SessionInit == Init => SessionInv
<1> SUFFICES ASSUME Init PROVE SessionInv
  OBVIOUS
<1>1. TypeOK
  BY BoundsAssumption DEF Init, TypeOK, AuthState, SignedOut
<1>2. Issued
  BY DEF Init, Issued, SignedIn, SignedOut
<1>3. \A t \in Tabs : Own(t)
  BY DEF Init, Own, SignedIn, SignedOut
<1> QED
  BY <1>1, <1>2, <1>3 DEF SessionInv

\* A tab and localStorage take over the same state.
LEMMA Remembered ==
  ASSUME TypeOK, NEW t \in Tabs, NEW state \in AuthState, Remember(t, state)
  PROVE  /\ auth' \in [Tabs -> AuthState] /\ disk' \in AuthState
         /\ auth'[t] = state /\ disk' = state
         /\ \A s \in Tabs : s # t => auth'[s] = auth[s]
BY DEF Remember, TypeOK

\* A new session begins in a tab that holds nothing.
LEMMA KeepsLogin ==
  ASSUME SessionInv, NEW t \in Tabs, NEW u \in Users, NEW k \in Tokens, Login(t, u, k)
  PROVE  SessionInv'
<1> DEFINE state == [token |-> k, user |-> u]
<1>1. state \in AuthState /\ Remember(t, state) /\ k # Nobody
  BY NobodyAssumption, BoundsAssumption DEF AuthState, Login, Tokens
<1> HIDE DEF state
<1>2. /\ auth' \in [Tabs -> AuthState] /\ disk' \in AuthState
      /\ auth'[t] = state /\ disk' = state
      /\ \A s \in Tabs : s # t => auth'[s] = auth[s]
  BY <1>1, Remembered DEF SessionInv
<1>3. /\ owner' = [owner EXCEPT ![k] = u] /\ owner[k] = Nobody /\ u # Nobody
      /\ dead' = dead /\ cache' = cache /\ calls' = calls /\ cut' = cut /\ reloads' = reloads
      /\ owner \in [Tokens -> Users \cup {Nobody}]
  BY NobodyAssumption DEF Login, Tokens, SessionInv, TypeOK
<1>4. TypeOK'
  BY <1>2, <1>3 DEF SessionInv, TypeOK
<1>5. \A j \in Tokens : owner[j] # Nobody => owner'[j] = owner[j]
  BY <1>3
<1>6. owner'[k] # Nobody /\ state.token = k
  BY <1>3 DEF state
<1>7. /\ \A s \in Tabs : SignedIn(s) => auth[s].token \in Tokens
      /\ disk.token # Nobody => disk.token \in Tokens
      /\ \A s \in Tabs : \A c \in calls[s] : c.token \in Tokens
  BY DEF SessionInv, TypeOK, AuthState, Call, SignedIn
<1>8. Issued'
  <2>1. \A s \in Tabs : SignedIn(s)' => owner'[auth'[s].token] # Nobody
    BY <1>2, <1>5, <1>6, <1>7 DEF SessionInv, Issued, SignedIn
  <2>2. \A s \in Tabs : \A c \in calls[s] : owner'[c.token] # Nobody
    BY <1>3, <1>5, <1>7 DEF SessionInv, Issued
  <2> QED
    BY <1>2, <1>3, <1>6, <2>1, <2>2 DEF Issued
<1>9. ASSUME NEW s \in Tabs, ~cut'[s] PROVE Own(s)'
  <2>1. Own(s)
    BY <1>3, <1>9 DEF SessionInv
  <2>2. CASE s = t
    <3>1. cache[s] = Nobody /\ \A c \in calls[s] : ~(c.kind = "me" /\ c.live)
      BY <2>1, <2>2 DEF Own, Login
    <3> QED
      BY <1>3, <2>1, <3>1 DEF Own
  <2>3. CASE s # t
    <3>1. auth'[s] = auth[s] /\ (SignedIn(s) => owner'[auth[s].token] = owner[auth[s].token])
      BY <1>2, <1>5, <1>7, <2>3 DEF SessionInv, Issued
    <3> QED
      BY <1>3, <2>1, <3>1 DEF Own, SignedIn
  <2> QED
    BY <2>2, <2>3
<1> QED
  BY <1>4, <1>8, <1>9 DEF SessionInv

\* The button empties the cache, and what is still on its way is not kept.
LEMMA KeepsSignOut ==
  ASSUME SessionInv, NEW t \in Tabs, SignOut(t)
  PROVE  SessionInv'
<1>1. SignedOut \in AuthState /\ Remember(t, SignedOut) /\ SignedOut.token = Nobody
  BY DEF AuthState, SignedOut, SignOut
<1>2. /\ auth' \in [Tabs -> AuthState] /\ disk' \in AuthState
      /\ auth'[t] = SignedOut /\ disk' = SignedOut
      /\ \A s \in Tabs : s # t => auth'[s] = auth[s]
  BY <1>1, Remembered DEF SessionInv
<1>3. /\ owner' = owner /\ dead' = dead /\ reloads' = reloads
      /\ cache' = [cache EXCEPT ![t] = Nobody]
      /\ calls' = [calls EXCEPT ![t] = {Forgotten(c) : c \in calls[t]}]
      /\ cut' = [cut EXCEPT ![t] = FALSE]
      /\ cache \in [Tabs -> Users \cup {Nobody}] /\ calls \in [Tabs -> SUBSET Call] /\ cut \in [Tabs -> BOOLEAN]
  BY DEF SignOut, Emptied, SessionInv, TypeOK
<1>4. \A c \in calls[t] : /\ Forgotten(c) \in Call /\ Forgotten(c).token = c.token
                          /\ Forgotten(c).kind = c.kind /\ (c.kind = "me" => ~Forgotten(c).live)
  <2> SUFFICES ASSUME NEW c \in Call
               PROVE  /\ Forgotten(c) \in Call /\ Forgotten(c).token = c.token
                      /\ Forgotten(c).kind = c.kind /\ (c.kind = "me" => ~Forgotten(c).live)
    BY <1>3
  <2>1. CASE c.kind = "me"
    <3>1. Forgotten(c) = [c EXCEPT !.live = FALSE]
      BY <2>1 DEF Forgotten
    <3> QED
      BY <3>1 DEF Call
  <2>2. CASE c.kind # "me"
    BY <2>2 DEF Forgotten
  <2> QED
    BY <2>1, <2>2
<1>5. {Forgotten(c) : c \in calls[t]} \in SUBSET Call
  BY <1>4
<1>6. TypeOK'
  BY <1>2, <1>3, <1>5 DEF SessionInv, TypeOK
<1>7. Issued'
  <2>1. \A s \in Tabs : SignedIn(s)' => owner'[auth'[s].token] # Nobody
    BY <1>1, <1>2, <1>3 DEF SessionInv, Issued, SignedIn
  <2>2. \A s \in Tabs : \A c \in calls'[s] : \E d \in calls[s] : c.token = d.token
    BY <1>3, <1>4
  <2> QED
    BY <1>1, <1>2, <1>3, <2>1, <2>2 DEF SessionInv, Issued
<1>8. ASSUME NEW s \in Tabs, ~cut'[s] PROVE Own(s)'
  <2>1. CASE s = t
    <3>1. cache'[s] = Nobody /\ ~SignedIn(s)'
      BY <1>1, <1>2, <1>3, <2>1 DEF SignedIn
    <3>2. \A c \in calls'[s] : ~(c.kind = "me" /\ c.live)
      BY <1>3, <1>4, <2>1
    <3> QED
      BY <3>1, <3>2 DEF Own
  <2>2. CASE s # t
    <3>1. Own(s) /\ auth'[s] = auth[s] /\ cache'[s] = cache[s] /\ calls'[s] = calls[s]
      BY <1>2, <1>3, <1>8, <2>2 DEF SessionInv
    <3> QED
      BY <1>3, <3>1 DEF Own, SignedIn
  <2> QED
    BY <2>1, <2>2
<1> QED
  BY <1>6, <1>7, <1>8 DEF SessionInv

\* A call is sent with the token of the session.
LEMMA KeepsSend ==
  ASSUME SessionInv, NEW t \in Tabs, NEW kind \in Kinds, Send(t, kind)
  PROVE  SessionInv'
<1> DEFINE new == [kind |-> kind, token |-> auth[t].token, live |-> TRUE, doomed |-> auth[t].token \in dead]
<1>1. /\ owner' = owner /\ dead' = dead /\ disk' = disk /\ auth' = auth /\ cache' = cache /\ cut' = cut
      /\ reloads' = reloads /\ SignedIn(t)
      /\ calls' = [calls EXCEPT ![t] = @ \cup {new}] /\ calls \in [Tabs -> SUBSET Call]
  BY DEF Send, store, SessionInv, TypeOK
<1>2. auth[t].token \in Tokens
  BY <1>1 DEF SessionInv, TypeOK, AuthState, SignedIn
<1>3. new \in Call /\ new.token = auth[t].token /\ new.live
  BY <1>2 DEF Call
<1> HIDE DEF new
<1>4. TypeOK'
  BY <1>1, <1>3 DEF SessionInv, TypeOK
<1>5. Issued'
  BY <1>1, <1>3 DEF SessionInv, Issued, SignedIn
<1>6. ASSUME NEW s \in Tabs, ~cut'[s] PROVE Own(s)'
  <2>1. Own(s) /\ calls'[s] \subseteq calls[s] \cup (IF s = t THEN {new} ELSE {})
    BY <1>1, <1>6 DEF SessionInv
  <2>2. \A c \in calls'[s] : c \in calls[s] \/ (s = t /\ c = new)
    BY <2>1
  <2> QED
    BY <1>1, <1>3, <2>1, <2>2 DEF Own, SignedIn
<1> QED
  BY <1>4, <1>5, <1>6 DEF SessionInv

\* The name in the store changes, and the session stays.
LEMMA Renamed ==
  ASSUME SessionInv, NEW t \in Tabs, NEW u \in Users
  PROVE  [auth[t] EXCEPT !.user = u] \in AuthState /\ [auth[t] EXCEPT !.user = u].token = auth[t].token
<1>1. auth[t] \in AuthState
  BY DEF SessionInv, TypeOK
<1> QED
  BY <1>1 DEF AuthState

\* An answer enters the cache of the session it was asked for, or it cuts the tab.
LEMMA KeepsReceive ==
  ASSUME SessionInv, NEW t \in Tabs, NEW c \in calls[t], Receive(t, c)
  PROVE  SessionInv'
<1> DEFINE u == owner[c.token]
<1>1. /\ owner' = owner /\ dead' = dead /\ reloads' = reloads
      /\ cut' = [cut EXCEPT ![t] = @ \/ Late(t, c)] /\ cut \in [Tabs -> BOOLEAN]
      /\ calls' = [calls EXCEPT ![t] = @ \ {c}] /\ calls \in [Tabs -> SUBSET Call]
      /\ cache' = IF c.live THEN [cache EXCEPT ![t] = u] ELSE cache
      /\ cache \in [Tabs -> Users \cup {Nobody}] /\ c \in Call
  BY DEF Receive, SessionInv, TypeOK
<1>2. u \in Users
  <2>1. c.token \in Tokens
    BY <1>1 DEF Call
  <2> QED
    BY <2>1 DEF SessionInv, TypeOK, Issued
<1> HIDE DEF u
<1>3. /\ auth' \in [Tabs -> AuthState] /\ disk' \in AuthState
      /\ auth'[t].token = auth[t].token /\ disk'.token \in {disk.token, auth[t].token}
      /\ \A s \in Tabs : s # t => auth'[s] = auth[s]
  <2>1. CASE c.kind = "profile"
    <3>1. Remember(t, [auth[t] EXCEPT !.user = u])
      BY <2>1 DEF Receive, u
    <3> QED
      BY <1>2, <3>1, Renamed, Remembered DEF SessionInv
  <2>2. CASE c.kind # "profile"
    <3>1. auth' = auth /\ disk' = disk
      BY <2>2 DEF Receive
    <3> QED
      BY <3>1 DEF SessionInv, TypeOK
  <2> QED
    BY <2>1, <2>2
<1>4. TypeOK'
  <2>1. cut' \in [Tabs -> BOOLEAN]
    BY <1>1 DEF Late
  <2> QED
    BY <1>1, <1>2, <1>3, <2>1 DEF SessionInv, TypeOK
<1>5. \A s \in Tabs : auth'[s].token = auth[s].token /\ SignedIn(s)' = SignedIn(s) /\ calls'[s] \subseteq calls[s]
  BY <1>1, <1>3 DEF SignedIn
<1>6. Issued'
  BY <1>1, <1>3, <1>5 DEF SessionInv, Issued, SignedIn
<1>7. ASSUME NEW s \in Tabs, ~cut'[s] PROVE Own(s)'
  <2>1. ~cut[s] /\ (s = t => ~Late(t, c))
    BY <1>1, <1>7
  <2>2. Own(s)
    BY <2>1 DEF SessionInv
  <2>3. CASE s = t /\ c.live
    <3>1. c.token = auth[s].token /\ c.token # Nobody
      BY <1>1, <2>1, <2>2, <2>3, NobodyAssumption DEF Own, Late, Call, Kinds, Tokens
    <3>2. SignedIn(s) /\ cache'[s] = owner[auth[s].token]
      BY <1>1, <2>3, <3>1 DEF SignedIn, u
    <3> QED
      BY <1>1, <1>5, <2>2, <3>2 DEF Own
  <2>4. CASE ~(s = t /\ c.live)
    <3>1. cache'[s] = cache[s]
      BY <1>1, <2>4
    <3> QED
      BY <1>1, <1>5, <2>2, <3>1 DEF Own
  <2> QED
    BY <2>3, <2>4
<1> QED
  BY <1>4, <1>6, <1>7 DEF SessionInv

\* A 401 cuts the session: nothing is said about its cache.
LEMMA KeepsReceiveRefusal ==
  ASSUME SessionInv, NEW t \in Tabs, NEW c \in calls[t], ReceiveRefusal(t, c)
  PROVE  SessionInv'
<1>1. SignedOut \in AuthState /\ Remember(t, SignedOut) /\ SignedOut.token = Nobody
  BY DEF AuthState, SignedOut, ReceiveRefusal, Refused
<1>2. /\ auth' \in [Tabs -> AuthState] /\ disk' \in AuthState
      /\ auth'[t] = SignedOut /\ disk' = SignedOut
      /\ \A s \in Tabs : s # t => auth'[s] = auth[s]
  BY <1>1, Remembered DEF SessionInv
<1>3. /\ owner' = owner /\ dead' = dead /\ cache' = cache /\ reloads' = reloads
      /\ calls' = [calls EXCEPT ![t] = @ \ {c}] /\ calls \in [Tabs -> SUBSET Call]
      /\ cut' = [cut EXCEPT ![t] = TRUE] /\ cut \in [Tabs -> BOOLEAN]
  BY DEF ReceiveRefusal, SessionInv, TypeOK
<1>4. TypeOK'
  BY <1>2, <1>3 DEF SessionInv, TypeOK
<1>5. Issued'
  <2>1. \A s \in Tabs : SignedIn(s)' => owner'[auth'[s].token] # Nobody
    BY <1>1, <1>2, <1>3 DEF SessionInv, Issued, SignedIn
  <2>2. \A s \in Tabs : calls'[s] \subseteq calls[s]
    BY <1>3
  <2> QED
    BY <1>1, <1>2, <1>3, <2>1, <2>2 DEF SessionInv, Issued
<1>6. ASSUME NEW s \in Tabs, ~cut'[s] PROVE Own(s)'
  <2>1. s # t
    BY <1>3, <1>6
  <2>2. Own(s) /\ auth'[s] = auth[s] /\ calls'[s] = calls[s]
    BY <1>2, <1>3, <1>6, <2>1 DEF SessionInv
  <2> QED
    BY <1>3, <2>2 DEF Own, SignedIn
<1> QED
  BY <1>4, <1>5, <1>6 DEF SessionInv

LEMMA KeepsLose ==
  ASSUME SessionInv, NEW t \in Tabs, NEW c \in calls[t], Lose(t, c)
  PROVE  SessionInv'
<1>1. /\ owner' = owner /\ dead' = dead /\ disk' = disk /\ auth' = auth /\ cache' = cache /\ cut' = cut
      /\ reloads' = reloads
      /\ calls' = [calls EXCEPT ![t] = @ \ {c}] /\ calls \in [Tabs -> SUBSET Call]
  BY DEF Lose, store, SessionInv, TypeOK
<1>2. \A s \in Tabs : calls'[s] \subseteq calls[s] /\ (SignedIn(s)' <=> SignedIn(s))
  BY <1>1 DEF SignedIn
<1>3. TypeOK'
  BY <1>1 DEF SessionInv, TypeOK
<1>4. Issued'
  BY <1>1, <1>2 DEF SessionInv, Issued
<1>5. \A s \in Tabs : ~cut'[s] => Own(s)'
  BY <1>1, <1>2 DEF SessionInv, Own
<1> QED
  BY <1>3, <1>4, <1>5 DEF SessionInv

LEMMA KeepsSetUser ==
  ASSUME SessionInv, NEW t \in Tabs, SetUser(t)
  PROVE  SessionInv'
<1>1. /\ owner' = owner /\ dead' = dead /\ cache' = cache /\ cut' = cut /\ reloads' = reloads
      /\ calls' = calls /\ cache[t] \in Users /\ Remember(t, [auth[t] EXCEPT !.user = cache[t]])
  BY DEF SetUser, AdoptMe, SessionInv, TypeOK
<1>2. [auth[t] EXCEPT !.user = cache[t]] \in AuthState /\ [auth[t] EXCEPT !.user = cache[t]].token = auth[t].token
  BY <1>1, Renamed
<1>3. /\ auth' \in [Tabs -> AuthState] /\ disk' \in AuthState /\ disk'.token = auth[t].token
      /\ \A s \in Tabs : auth'[s].token = auth[s].token
  BY <1>1, <1>2, Remembered DEF SessionInv
<1>4. TypeOK'
  BY <1>1, <1>3 DEF SessionInv, TypeOK
<1>5. Issued'
  BY <1>1, <1>3 DEF SessionInv, Issued, SignedIn
<1>6. \A s \in Tabs : ~cut'[s] => Own(s)'
  BY <1>1, <1>3 DEF SessionInv, Own, SignedIn
<1> QED
  BY <1>4, <1>5, <1>6 DEF SessionInv

\* A reloaded tab starts with an empty cache.
LEMMA KeepsReload ==
  ASSUME SessionInv, NEW t \in Tabs, Reload(t)
  PROVE  SessionInv'
<1>1. /\ owner' = owner /\ dead' = dead /\ disk' = disk /\ reloads' = reloads + 1 /\ reloads < MaxReloads
      /\ auth' = [auth EXCEPT ![t] = disk] /\ auth \in [Tabs -> AuthState] /\ disk \in AuthState
      /\ cache' = [cache EXCEPT ![t] = Nobody] /\ cache \in [Tabs -> Users \cup {Nobody}]
      /\ calls' = [calls EXCEPT ![t] = {}] /\ calls \in [Tabs -> SUBSET Call]
      /\ cut' = [cut EXCEPT ![t] = FALSE] /\ cut \in [Tabs -> BOOLEAN]
      /\ reloads \in 0 .. MaxReloads
  BY DEF Reload, SessionInv, TypeOK
<1>2. TypeOK'
  BY <1>1, BoundsAssumption DEF SessionInv, TypeOK
<1>3. Issued'
  BY <1>1 DEF SessionInv, Issued, SignedIn
<1>4. ASSUME NEW s \in Tabs, ~cut'[s] PROVE Own(s)'
  <2>1. CASE s = t
    <3>1. cache'[s] = Nobody /\ calls'[s] = {}
      BY <1>1, <2>1
    <3> QED
      BY <3>1 DEF Own
  <2>2. CASE s # t
    <3>1. Own(s) /\ auth'[s] = auth[s] /\ cache'[s] = cache[s] /\ calls'[s] = calls[s]
      BY <1>1, <1>4, <2>2 DEF SessionInv
    <3> QED
      BY <1>1, <3>1 DEF Own, SignedIn
  <2> QED
    BY <2>1, <2>2
<1> QED
  BY <1>2, <1>3, <1>4 DEF SessionInv

LEMMA SessionStep == SessionInv /\ [Next]_vars => SessionInv'
<1> SUFFICES ASSUME SessionInv, [Next]_vars PROVE SessionInv'
  OBVIOUS
<1>1. CASE \E t \in Tabs, u \in Users, k \in Tokens : Login(t, u, k)
  BY <1>1, KeepsLogin
<1>2. CASE \E t \in Tabs : SignOut(t) \/ SetUser(t) \/ Reload(t)
  BY <1>2, KeepsSignOut, KeepsSetUser, KeepsReload
<1>3. CASE \E t \in Tabs, kind \in Kinds : Send(t, kind)
  BY <1>3, KeepsSend
<1>4. CASE \E t \in Tabs : \E c \in calls[t] : Receive(t, c) \/ ReceiveRefusal(t, c) \/ Lose(t, c)
  BY <1>4, KeepsReceive, KeepsReceiveRefusal, KeepsLose
<1>5. ASSUME NEW k \in Tokens, Expire(k) PROVE SessionInv'
  BY <1>5 DEF Expire, SessionInv, TypeOK, Issued, Own, SignedIn
<1>6. CASE UNCHANGED vars
  BY <1>6 DEF vars, SessionInv, TypeOK, Issued, Own, SignedIn
<1> QED
  BY <1>1, <1>2, <1>3, <1>4, <1>5, <1>6 DEF Next

\* Tokens, names, caches and calls have their types in every tab.
THEOREM SessionTypes == Spec => []TypeOK
<1>1. SessionInv => TypeOK
  BY DEF SessionInv
<1> QED
  BY <1>1, SessionInit, SessionStep, PTL DEF Spec

\* A user meets what another one loaded only in a tab that, since its cache was last
\* emptied, lost a session to a 401 or took in the answer to a profile saved in another
\* session, however many tabs share the browser. In a tab where neither happened the
\* button keeps what it held from the next user, the loads it interrupted included.
THEOREM SignOutKeepsApart == Spec => []CleanAfterSignOut
<1>1. SessionInv => CleanAfterSignOut
  BY DEF SessionInv, Own, CleanAfterSignOut, Foreign
<1> QED
  BY <1>1, SessionInit, SessionStep, PTL DEF Spec
=============================================================================
