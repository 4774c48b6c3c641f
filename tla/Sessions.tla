------------------------------ MODULE Sessions ------------------------------
(***************************************************************************)
(* A user's session: the refresh tokens of user-service (table             *)
(* refresh_tokens) and the tabs of one browser that use them (lib/api.js   *)
(* and App).  A request that is answered 401 refreshes the tokens and is   *)
(* sent again; requests of one tab share one refresh, tabs share the local *)
(* storage.                                                                *)
(*                                                                         *)
(* A pair of tokens is a number, in the order in which pairs are made.     *)
(* Access tokens expire at some moment, so any request may be answered 401.*)
(* Local storage holds two tokens, which several tabs write.               *)
(***************************************************************************)
EXTENDS Naturals, FiniteSets

CONSTANTS
    Tab,
    Request,       \* slots for the requests that a tab has in flight
    Call,          \* slots for calls of /v1/auth/login and /v1/auth/refresh
    None,          \* "no call holds this row", "no tab awaits this call"
    MaxPairs,      \* bound: pairs of tokens that are made
    AnswerIsNested \* does the answer to a refresh hold `tokens`, as api.js reads it?

ASSUME SessionsAssumption ==
    /\ None \notin Tab \cup Call
    /\ MaxPairs \in Nat \ {0}
    /\ AnswerIsNested \in BOOLEAN

VARIABLES
    stored,     \* the pairs whose refresh token is in the table
    holder,     \* holder[n]: the call whose transaction has locked row n
    made,       \* how many pairs were made
    login,      \* login[n]: the login that pair n descends from (history)
    heard,      \* heard[n]: the tab that was given a new pair for pair n (history)
    call,       \* call[k]: handler and answer of a call
    local,      \* the pair whose refresh token is in localStorage, 0 if none
    access,     \* the pair whose access token is in localStorage, 0 if none
    due,        \* the tabs that still have to run the effect of their accessToken
    tab,        \* tab[t]: the pair in the state of App, 0 if signed out
    refreshing, \* refreshing[t]: refreshPromise
    request     \* request[r]: a request of api.js that wants authorization

server == <<stored, holder, made, login>>
browser == <<local, access, due, tab, refreshing, request>>
vars == <<server, call, browser, heard>>

Pair == 1 .. MaxPairs
Pairs == 0 .. MaxPairs
IdleCall == [pc |-> "idle", kind |-> "login", tab |-> None, old |-> 0, new |-> 0]
Sent(kind, t, old) ==
    [pc |-> "sent", kind |-> kind, tab |-> t, old |-> old, new |-> 0]
Made(c, n) ==
    [pc |-> "made", kind |-> c.kind, tab |-> c.tab, old |-> c.old, new |-> n]
IdleRequest == [pc |-> "idle", tab |-> None]

Init ==
    /\ stored = {}
    /\ holder = [n \in Pair |-> None]
    /\ made = 0
    /\ login = [n \in Pair |-> 0]
    /\ heard = [n \in Pair |-> None]
    /\ call = [k \in Call |-> IdleCall]
    /\ local = 0
    /\ access = 0
    /\ due = {}
    /\ tab = [t \in Tab |-> 0]
    /\ refreshing = [t \in Tab |-> None]
    /\ request = [r \in Request |-> IdleRequest]

-----------------------------------------------------------------------------
(* The browser.                                                            *)

\* setLoggedIn, onUpdateAccessToken: both tokens are stored, or cleared, and the
\* state of App is set.  The effect of accessToken stores it again later.
Keep(t, n) ==
    /\ local' = n
    /\ access' = n
    /\ tab' = [tab EXCEPT ![t] = n]
    /\ due' = IF tab[t] = n THEN due ELSE due \cup {t}

Render(t) ==
    /\ t \in due
    /\ access' = tab[t]
    /\ due' = due \ {t}
    /\ UNCHANGED <<server, call, local, tab, refreshing, request, heard>>

\* The page is loaded: App starts with what localStorage holds; promises and
\* requests of the page before are gone, the service does not notice.
Reload(t) ==
    /\ tab' = [tab EXCEPT ![t] = access]
    /\ due' = due \cup {t}
    /\ refreshing' = [refreshing EXCEPT ![t] = None]
    /\ request' = [r \in Request |->
                     IF request[r].tab = t THEN IdleRequest ELSE request[r]]
    /\ call' = [k \in Call |->
                  IF call[k].tab = t THEN [call[k] EXCEPT !.tab = None] ELSE call[k]]
    /\ UNCHANGED <<server, local, access, heard>>

\* onLogin, onCompleteRegistration: the form is sent.
SignIn(t) ==
    /\ tab[t] = 0
    /\ \E k \in Call :
          /\ call[k].pc = "idle"
          /\ call' = [call EXCEPT ![k] = Sent("login", t, 0)]
    /\ UNCHANGED <<server, browser, heard>>

\* onLogout; a refresh in flight goes on.
SignOut(t) ==
    /\ tab[t] # 0
    /\ Keep(t, 0)
    /\ UNCHANGED <<server, call, refreshing, request, heard>>

Send(r) ==
    /\ request[r].pc = "idle"
    /\ \E t \in Tab :
          /\ tab[t] # 0
          /\ request' = [request EXCEPT ![r] = [pc |-> "sent", tab |-> t]]
    /\ UNCHANGED <<server, call, local, access, due, tab, refreshing, heard>>

\* Any answer but 401, and every answer to the second attempt, is the caller's.
Answered(r) ==
    /\ request[r].pc \in {"sent", "again"}
    /\ request' = [request EXCEPT ![r] = IdleRequest]
    /\ UNCHANGED <<server, call, local, access, due, tab, refreshing, heard>>

\* The second attempt is inside the same try as the refresh: if its connection
\* breaks, everybody is signed out.
RetryFails(r) ==
    /\ request[r].pc = "again"
    /\ request' = [request EXCEPT ![r] = IdleRequest]
    /\ Keep(request[r].tab, 0)
    /\ UNCHANGED <<server, call, refreshing, heard>>

\* refreshAccessToken: join the refresh of this tab, or begin one.  (The variant
\* never joins.)
JoinsNone(t) == FALSE
Joins(t) == refreshing[t] # None

\* 401: refresh with the token in storage.  With none there, the request fails and
\* App is not told.
Denied(r) ==
    LET t == request[r].tab IN
    /\ request[r].pc = "sent"
    /\ IF local = 0
       THEN /\ request' = [request EXCEPT ![r] = IdleRequest]
            /\ access' = 0
            /\ UNCHANGED <<call, refreshing>>
       ELSE /\ access' = access
            /\ request' = [request EXCEPT ![r].pc = "waiting"]
            /\ \/ Joins(t) /\ UNCHANGED <<call, refreshing>>
               \/ /\ ~Joins(t)
                  /\ \E k \in Call :
                        /\ call[k].pc = "idle"
                        /\ call' = [call EXCEPT ![k] = Sent("refresh", t, local)]
                        /\ refreshing' = [refreshing EXCEPT ![t] = k]
    /\ UNCHANGED <<server, local, due, tab, heard>>

\* The requests of the tab that waited for this refresh.
Waiting(t) == {r \in Request : request[r].tab = t /\ request[r].pc = "waiting"}
Resumed(t, pc) ==
    [r \in Request |->
       IF r \notin Waiting(t) THEN request[r]
       ELSE IF pc = "idle" THEN IdleRequest
       ELSE [request[r] EXCEPT !.pc = pc]]

\* The promise is fulfilled: the new pair is kept and the requests are sent again.
Refreshed(t, n) ==
    /\ Keep(t, n)
    /\ request' = Resumed(t, "again")

\* It is rejected, by an error of any kind: everybody is signed out.
RefreshFailed(t) ==
    /\ Keep(t, 0)
    /\ request' = Resumed(t, "idle")

\* The answer arrives.  One of a refresh that has no `tokens` fails like an error.
Receive(k) ==
    LET t == call[k].tab  n == call[k].new IN
    /\ call[k].pc \in {"granted", "refused"} /\ t # None
    /\ call' = [call EXCEPT ![k] = IdleCall]
    /\ IF call[k].kind = "login"
       THEN /\ IF call[k].pc = "granted"
               THEN Keep(t, n)
               ELSE UNCHANGED <<local, access, due, tab>>
            /\ UNCHANGED <<refreshing, request>>
       ELSE /\ IF call[k].pc = "granted" /\ AnswerIsNested
               THEN Refreshed(t, n) ELSE RefreshFailed(t)
            /\ refreshing' = [refreshing EXCEPT ![t] = None]
    /\ heard' = IF call[k].kind = "refresh" /\ call[k].pc = "granted"
                THEN [heard EXCEPT ![call[k].old] = t] ELSE heard
    /\ UNCHANGED server

\* The connection of a call breaks; the service goes on with it.
LoseConnection(k) ==
    LET t == call[k].tab IN
    /\ call[k].pc # "idle" /\ t # None
    /\ call' = [call EXCEPT ![k].tab = None]
    /\ IF call[k].kind = "refresh"
       THEN RefreshFailed(t) /\ refreshing' = [refreshing EXCEPT ![t] = None]
       ELSE UNCHANGED browser
    /\ UNCHANGED <<server, heard>>

\* Nobody reads the answer.
Drop(k) ==
    /\ call[k].pc \in {"granted", "refused"} /\ call[k].tab = None
    /\ call' = [call EXCEPT ![k] = IdleCall]
    /\ UNCHANGED <<server, browser, heard>>

-----------------------------------------------------------------------------
(* user-service.                                                           *)

\* The user is looked up and a pair of tokens is made; or the call is refused: an
\* unknown user, a wrong password, a refresh token that has expired, an error.
MakePair(k) ==
    /\ call[k].pc = "sent"
    /\ \/ /\ made < MaxPairs
          /\ made' = made + 1
          /\ login' = [login EXCEPT ![made + 1] =
                         IF call[k].kind = "login" THEN made + 1 ELSE login[call[k].old]]
          /\ call' = [call EXCEPT ![k] = Made(call[k], made + 1)]
       \/ call' = [call EXCEPT ![k].pc = "refused"] /\ UNCHANGED <<made, login>>
    /\ UNCHANGED <<stored, holder, browser, heard>>

\* issueTokenPair: StoreRefreshToken.
Store(k) ==
    /\ call[k].pc = "made" /\ call[k].kind = "login"
    /\ \/ /\ stored' = stored \cup {call[k].new}
          /\ call' = [call EXCEPT ![k].pc = "granted"]
       \/ call' = [call EXCEPT ![k].pc = "refused"] /\ UNCHANGED stored
    /\ UNCHANGED <<holder, made, login, browser, heard>>

\* RotateRefreshToken: SELECT ... FOR UPDATE waits for the row, and finds it, or
\* fails: it is gone or out of date, or there was an error.
\* (The variant is a plain SELECT.)
UnlockedAlways(n) == TRUE
Unlocked(n) == holder[n] = None

LockRow(k) ==
    LET n == call[k].old IN
    /\ call[k].pc = "made" /\ call[k].kind = "refresh"
    /\ Unlocked(n)
    /\ \/ /\ n \in stored
          /\ holder' = [holder EXCEPT ![n] = k]
          /\ call' = [call EXCEPT ![k].pc = "locked"]
       \/ call' = [call EXCEPT ![k].pc = "refused"] /\ UNCHANGED holder
    /\ UNCHANGED <<stored, made, login, browser, heard>>

\* DELETE, INSERT and COMMIT; or the transaction is rolled back.
Rotate(k) ==
    LET n == call[k].old IN
    /\ call[k].pc = "locked"
    /\ holder' = [holder EXCEPT ![n] = None]
    /\ \/ /\ stored' = (stored \ {n}) \cup {call[k].new}
          /\ call' = [call EXCEPT ![k].pc = "granted"]
       \/ /\ call' = [call EXCEPT ![k].pc = "refused"]
          /\ UNCHANGED stored
    /\ UNCHANGED <<made, login, browser, heard>>

Next ==
    \/ \E t \in Tab : Reload(t) \/ Render(t) \/ SignIn(t) \/ SignOut(t)
    \/ \E r \in Request : Send(r) \/ Answered(r) \/ Denied(r) \/ RetryFails(r)
    \/ \E k \in Call : \/ Receive(k) \/ LoseConnection(k) \/ Drop(k)
                       \/ MakePair(k) \/ Store(k) \/ LockRow(k) \/ Rotate(k)

Spec == Init /\ [][Next]_vars

-----------------------------------------------------------------------------
CallType ==
    [pc : {"idle", "sent", "made", "locked", "granted", "refused"},
     kind : {"login", "refresh"}, tab : Tab \cup {None}, old : Pairs, new : Pairs]
RequestType ==
    {IdleRequest} \cup [pc : {"sent", "waiting", "again"}, tab : Tab]

TypeOK ==
    /\ stored \subseteq Pair
    /\ holder \in [Pair -> Call \cup {None}]
    /\ made \in Pairs
    /\ login \in [Pair -> Pairs]
    /\ heard \in [Pair -> Tab \cup {None}]
    /\ call \in [Call -> CallType]
    /\ local \in Pairs /\ access \in Pairs
    /\ due \subseteq Tab
    /\ tab \in [Tab -> Pairs]
    /\ refreshing \in [Tab -> Call \cup {None}]
    /\ request \in [Request -> RequestType]

\* A page has one refresh in flight at most, the one that its requests wait for:
\* nobody waits for an answer that has come.
OneRefreshPerPage ==
    /\ \A k \in Call :
          call[k].kind = "refresh" /\ call[k].tab # None => refreshing[call[k].tab] = k
    /\ \A t \in Tab :
          refreshing[t] # None => call[refreshing[t]].tab = t
    /\ \A r \in Request :
          request[r].pc = "waiting" => refreshing[request[r].tab] # None

\* A refresh token can be exchanged once: however many tabs and lost answers there
\* are, one login has one token in the table at most.
OneTokenPerLogin ==
    \A m, n \in stored : login[m] = login[n] => m = n

\* What a browser stores only moves forward along the tokens of a login: a late
\* answer never brings back a token that another tab has exchanged.
StorageMovesForward ==
    [][local # 0 /\ local' # 0 /\ login[local] = login[local'] => local <= local']_vars

\* A page finds its token gone from the table only when another tab has exchanged
\* it, or when it did not wait for the answer: it was given no new one for it, and
\* none is on its way to it.  Requests of one page are never in each other's way.
RefusalHasACause ==
    \A k \in Call :
        /\ call[k].pc \in {"sent", "made"} /\ call[k].kind = "refresh" /\ call[k].tab # None
        /\ call[k].old \notin stored
        => /\ heard[call[k].old] # call[k].tab
           /\ \A j \in Call \ {k} :
                 ~(call[j].tab = call[k].tab /\ call[j].old = call[k].old)

\* api.js:134 "try to refresh token", and openapi.yaml:195 of the gateway "Token
\* refreshed" with the pair: a tab is not signed out by an answer that grants it.
GrantKeepsTheSession ==
    [][\A k \in Call :
         call[k].pc = "granted" /\ call[k].tab # None /\ call'[k].pc = "idle" =>
            tab'[call[k].tab] = call[k].new]_vars
-----------------------------------------------------------------------------
(* The inductive invariant of OneTokenPerLogin.                            *)

\* Whatever names a pair names one that was made.
OnlyMadePairs ==
    /\ made \in Pairs
    /\ local <= made
    /\ \A n \in stored : n <= made
    /\ \A n \in 1 .. made : login[n] <= made
    /\ \A k \in Call : call[k].old <= made /\ call[k].new <= made
    /\ \A k \in Call : call[k].kind = "refresh" => call[k].old # 0

\* A call that has made its pair: the pair is of the login that was refreshed, or
\* starts a login that has no token in the table yet.
LineageOf(k) ==
    call[k].pc \in {"made", "locked"} =>
        /\ call[k].new # 0
        /\ call[k].kind = "refresh" => login[call[k].new] = login[call[k].old]
        /\ call[k].kind = "login" =>
              /\ login[call[k].new] = call[k].new
              /\ \A m \in stored : login[m] # call[k].new

\* No two calls made the same pair.
PairsAreFresh ==
    \A j, k \in Call :
        j # k /\ call[j].pc \in {"made", "locked"} /\ call[k].pc \in {"made", "locked"} =>
            call[j].new # call[k].new

\* A transaction past its SELECT holds the lock, and the row is there.
LockOf(k) ==
    call[k].pc = "locked" =>
        /\ call[k].kind = "refresh"
        /\ call[k].old \in stored
        /\ holder[call[k].old] = k

IInv ==
    /\ TypeOK
    /\ OnlyMadePairs
    /\ PairsAreFresh
    /\ \A k \in Call : LineageOf(k) /\ LockOf(k)
    /\ OneTokenPerLogin

-----------------------------------------------------------------------------
(* The inductive invariants of the pages.                                  *)

\* What a page awaits is a refresh that is under way.
PageInv ==
    /\ OneRefreshPerPage
    /\ \A t \in Tab : refreshing[t] # None =>
          call[refreshing[t]].kind = "refresh" /\ call[refreshing[t]].pc # "idle"

\* Nobody has heard of a pair before it is delivered: not the storage, no refresh, no
\* page, and a login has no other pair before its first is delivered.
UnheardOf(k) ==
    call[k].pc \in {"made", "locked", "granted"} =>
        /\ call[k].new # 0 /\ call[k].new # local
        /\ heard[call[k].new] = None
        /\ \A j \in Call : call[j].old # call[k].new
        /\ \A j \in Call \ {k} : call[j].pc \in {"made", "locked", "granted"} =>
              call[j].new # call[k].new
        /\ call[k].kind = "login" =>
              \A m \in 1 .. made : login[m] = call[k].new => m = call[k].new

\* A pair is made after the one that it replaces, and is in the table when it is granted.
PairOf(k) ==
    /\ call[k].kind = "login" => call[k].old = 0
    /\ call[k].pc \in {"made", "locked"} => call[k].old < call[k].new
    /\ call[k].pc = "granted" => call[k].new \in stored

\* A page asks for a new pair for a token with which it was given none yet.
AsksOnce(k) ==
    call[k].kind = "refresh" /\ call[k].tab # None => heard[call[k].old] # call[k].tab

\* The table is never behind the storage.
TableIsAhead ==
    /\ local # 0 => heard[local] = None
    /\ \A n \in stored : local # 0 /\ login[local] = login[n] => local <= n

HeardInv ==
    /\ \A n \in Pair : heard[n] # None => n <= made
    /\ \A k \in Call : UnheardOf(k) /\ PairOf(k) /\ AsksOnce(k)
    /\ TableIsAhead
=============================================================================
