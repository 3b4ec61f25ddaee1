------------------------------- MODULE Session -------------------------------
(***************************************************************************)
(* Who is signed in, in the tabs of one browser. A tab keeps its token and *)
(* the name of its user in memory and writes both to localStorage, which   *)
(* all tabs share and read only when they are reloaded. What the server    *)
(* answers is kept in a query cache of the tab. A session ends by the      *)
(* button, which also empties that cache, or by an answer 401, which does  *)
(* not: the interceptor only knows the store of tokens.                    *)
(*                                                                         *)
(* Source: api/client.ts, features/auth/store.ts and the logout handlers   *)
(* of admin-web, user-web and mobile-h5, which have the same text, and     *)
(* packages/api-client/src/client.ts.                                      *)
(***************************************************************************)
EXTENDS Naturals, FiniteSets

CONSTANTS
    Tabs,           \* tabs of one browser
    Users,          \* people who sign in with it
    MaxTokens,      \* bound: access tokens the server issues
    Nobody,         \* null
    MaxReloads,     \* bound: reloads of tabs
    MaxSaves        \* bound: profile saves on their way in the browser

ASSUME NobodyAssumption == Nobody \notin Users /\ Nobody \notin Nat
ASSUME BoundsAssumption == MaxTokens \in Nat /\ MaxReloads \in Nat /\ MaxSaves \in Nat

Tokens == 1 .. MaxTokens

\* Every query is kept alike: "me", which is read back into the store, stands for all.
\* Of the mutations the one of the profile puts its answer into the cache and the store.
Kinds == {"me", "profile"}

VARIABLES
    owner,          \* user of a token, Nobody while it is not issued
    dead,           \* tokens that expired or were ended by a new password
    disk,           \* localStorage: token and user
    auth,           \* the auth store of each tab: token and user
    cache,          \* the query cache of each tab: whose answer it holds
    calls,          \* requests of each tab on their way, with the token they were sent with
    cut,            \* history: since the tab's cache was last emptied, a 401 ended a session of
                    \* the tab, or the answer to a profile saved in another session came in
    reloads         \* history: reloads so far

store == <<owner, dead, disk, auth>>
vars == <<owner, dead, disk, auth, cache, calls, cut, reloads>>

SignedOut == [token |-> Nobody, user |-> Nobody]
AuthState == [token : {Nobody}, user : Users \cup {Nobody}] \cup [token : Tokens, user : Users]
\* live: the query the call was made for is still in the cache. doomed: its token was
\* dead when it was sent.
Call == [kind : Kinds, token : Tokens, live : BOOLEAN, doomed : BOOLEAN]

TypeOK ==
    /\ owner \in [Tokens -> Users \cup {Nobody}]
    /\ dead \in SUBSET Tokens
    /\ disk \in AuthState
    /\ auth \in [Tabs -> AuthState]
    /\ cache \in [Tabs -> Users \cup {Nobody}]
    /\ calls \in [Tabs -> SUBSET Call]
    /\ cut \in [Tabs -> BOOLEAN]
    /\ reloads \in 0 .. MaxReloads

Init ==
    /\ owner = [k \in Tokens |-> Nobody]
    /\ dead = {}
    /\ disk = SignedOut
    /\ auth = [t \in Tabs |-> SignedOut]
    /\ cache = [t \in Tabs |-> Nobody]
    /\ calls = [t \in Tabs |-> {}]
    /\ cut = [t \in Tabs |-> FALSE]
    /\ reloads = 0

\* RequireAuth and PublicOnly: the pages are shown with a token, the login form without.
SignedIn(t) == auth[t].token # Nobody

-----------------------------------------------------------------------------
\* set of the store, and persist: memory and localStorage change together.
Remember(t, state) ==
    /\ auth' = [auth EXCEPT ![t] = state]
    /\ disk' = state

\* The login form: setSession(access_token, user). Nothing is cleared. A login that is
\* refused changes nothing: the login views have no authenticator, so the server answers
\* it with 403, which the interceptor leaves alone.
Login(t, u, k) ==
    /\ ~SignedIn(t)
    /\ \A j \in Tokens : owner[j] = Nobody <=> j >= k
    /\ owner' = [owner EXCEPT ![k] = u]
    /\ Remember(t, [token |-> k, user |-> u])
    /\ UNCHANGED <<dead, cache, calls, cut, reloads>>

\* handleLogout: logout(), queryClient.clear(). Loads on their way are cancelled, but
\* their answers still pass the interceptor; a mutation still runs its onSuccess.
Forgotten(c) == IF c.kind = "me" THEN [c EXCEPT !.live = FALSE] ELSE c
Emptied_Kept(t) == cache      \* mutant: the button leaves the cache as it is
Emptied(t) == [cache EXCEPT ![t] = Nobody]
SignOut(t) ==
    /\ SignedIn(t)
    /\ Remember(t, SignedOut)
    /\ cache' = Emptied(t)
    /\ calls' = [calls EXCEPT ![t] = {Forgotten(c) : c \in calls[t]}]
    /\ cut' = [cut EXCEPT ![t] = FALSE]
    /\ UNCHANGED <<owner, dead, reloads>>

Saving(t) == \E c \in calls[t] : c.kind = "profile"
\* A query or a mutation sends a request; the interceptor adds the token the store
\* holds then. A query has one request at a time.
Send(t, kind) ==
    /\ SignedIn(t)
    /\ ~\E c \in calls[t] : c.kind = kind /\ c.live
    /\ kind = "profile" => Cardinality({s \in Tabs : Saving(s)}) < MaxSaves
    /\ calls' = [calls EXCEPT ![t] = @ \cup
            {[kind |-> kind, token |-> auth[t].token, live |-> TRUE,
              doomed |-> auth[t].token \in dead]}]
    /\ UNCHANGED <<store, cache, cut, reloads>>

\* The server looked at the token while it was good. The answer of a query goes into the
\* cache while the query is there; onSuccess of a saved profile runs wherever the user
\* is by then: setUser and setQueryData.
Late(t, c) == c.kind = "profile" /\ c.token # auth[t].token
Receive(t, c) ==
    /\ ~c.doomed
    /\ calls' = [calls EXCEPT ![t] = @ \ {c}]
    /\ cache' = IF c.live THEN [cache EXCEPT ![t] = owner[c.token]] ELSE cache
    /\ IF c.kind = "profile" THEN Remember(t, [auth[t] EXCEPT !.user = owner[c.token]])
                             ELSE UNCHANGED <<auth, disk>>
    /\ cut' = [cut EXCEPT ![t] = @ \/ Late(t, c)]
    /\ UNCHANGED <<owner, dead, reloads>>

\* The server found the token dead. The response interceptor calls logout() at any
\* 401, whatever token was refused.
Refused_Ignored(t) == auth[t]       \* mutant: the interceptor does not log out
Refused_NameOnly(t) == [auth[t] EXCEPT !.user = Nobody]     \* mutant: it leaves the token
Refused(t) == SignedOut
ReceiveRefusal(t, c) ==
    /\ c.token \in dead
    /\ calls' = [calls EXCEPT ![t] = @ \ {c}]
    /\ Remember(t, Refused(t))
    /\ cut' = [cut EXCEPT ![t] = TRUE]
    /\ UNCHANGED <<owner, dead, cache, reloads>>

\* No answer within the 15 s of the client, or no network.
Lose(t, c) ==
    /\ calls' = [calls EXCEPT ![t] = @ \ {c}]
    /\ UNCHANGED <<store, cache, cut, reloads>>

\* useEffect: the user of the cached "me" differs from the one in the store.
AdoptMe_Never(t) == FALSE       \* mutant: no such effect
AdoptMe(t) == SignedIn(t) /\ cache[t] \notin {Nobody, auth[t].user}
SetUser(t) ==
    /\ AdoptMe(t)
    /\ Remember(t, [auth[t] EXCEPT !.user = cache[t]])
    /\ UNCHANGED <<owner, dead, cache, calls, cut, reloads>>

\* The page is loaded again: memory is gone, the store is read from localStorage.
Reload(t) ==
    /\ reloads < MaxReloads
    /\ reloads' = reloads + 1
    /\ auth' = [auth EXCEPT ![t] = disk]
    /\ cache' = [cache EXCEPT ![t] = Nobody]
    /\ calls' = [calls EXCEPT ![t] = {}]
    /\ cut' = [cut EXCEPT ![t] = FALSE]
    /\ UNCHANGED <<owner, dead, disk>>

\* A token expires, or its user sets a new password elsewhere (pwd_ts).
Expire(k) ==
    /\ owner[k] # Nobody
    /\ dead' = dead \cup {k}
    /\ k \notin dead
    /\ UNCHANGED <<owner, disk, auth, cache, calls, cut, reloads>>

Next ==
    \/ \E t \in Tabs, u \in Users, k \in Tokens : Login(t, u, k)
    \/ \E t \in Tabs : SignOut(t) \/ SetUser(t) \/ Reload(t)
    \/ \E t \in Tabs, kind \in Kinds : Send(t, kind)
    \/ \E t \in Tabs : \E c \in calls[t] :
            Receive(t, c) \/ ReceiveRefusal(t, c) \/ Lose(t, c)
    \/ \E k \in Tokens : Expire(k)

Spec == Init /\ [][Next]_vars

\* The user goes on using the page, effects run, and of calls that are made again and
\* again one gets through (the queries retry).
MyCalls(t) == {c \in calls[t] : c.kind = "me" /\ c.live}
Fairness == \A t \in Tabs :
    /\ WF_vars(Send(t, "me"))
    /\ SF_vars(\E c \in MyCalls(t) : Receive(t, c) \/ ReceiveRefusal(t, c))
    /\ WF_vars(SetUser(t))
FairSpec == Spec /\ Fairness

-----------------------------------------------------------------------------
\* Someone else's answers are in the cache of a tab in which a user is signed in.
Foreign(t) == SignedIn(t) /\ cache[t] \notin {Nobody, owner[auth[t].token]}

\* A member sees nothing but what is theirs (docs: 14-module-implementation-spec.md:58).
\* The code breaks it: a 401 ends a session and leaves the cache to the next one. (So does
\* the answer to a profile save that arrives after the button emptied the cache.)
OwnDataOnly == \A t \in Tabs : ~Foreign(t)

\* The two ways are the only ones. What another user loaded is met only in a tab that,
\* since its cache was last emptied, lost a session to a 401 or took in the answer to a
\* profile saved in another session. Leaving by the button, with loads on their way in
\* any number and any tab, is not enough.
CleanAfterSignOut == \A t \in Tabs : Foreign(t) => cut[t]

\* 08-qa-security-deployment.md:58, a session that is over leads to the login form: a
\* tab does not stay on its pages with a token the server refuses with 401, as it does one
\* that expired or is older than the password. (A frozen member keeps a good token and is
\* answered 403, authentication.py:38-39, which ends no session in the front end.)
DeadSessionLeaves == \A t \in Tabs : auth[t].token \in dead ~> auth[t].token \notin dead

\* The name in the header, which may be taken from a stranger's cache or from another
\* tab's localStorage, becomes the name of the session in the end, or the session ends.
NameHeals == \A t \in Tabs :
    SignedIn(t) ~> (~SignedIn(t) \/ auth[t].user = owner[auth[t].token])
=============================================================================
