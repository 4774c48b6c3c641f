--------------------------- MODULE SessionsProofs ---------------------------
(* Why a login has one refresh token: the inductive invariant of Sessions,   *)
(* for any number of tabs, requests and calls, lost answers included, and    *)
(* whether or not the page can read the answer to a refresh.                 *)
EXTENDS SessionsRotation, TLAPS

USE SessionsAssumption

LEMMA IdleTypes == IdleCall \in CallType /\ IdleRequest \in RequestType
  BY DEF IdleCall, IdleRequest, CallType, RequestType, Pairs

LEMMA CallFields ==
  ASSUME TypeOK, NEW k \in Call
  PROVE  /\ call[k] \in CallType
         /\ call[k].old \in Pairs /\ call[k].new \in Pairs
         /\ call[k].tab \in Tab \cup {None}
  BY DEF TypeOK, CallType

LEMMA InitInv == Init => IInv
  <1> SUFFICES ASSUME Init PROVE IInv
    OBVIOUS
  <1>1. TypeOK
    BY IdleTypes DEF Init, TypeOK, Pairs
  <1>2. OnlyMadePairs
    BY DEF Init, OnlyMadePairs, IdleCall, Pairs
  <1>3. PairsAreFresh /\ \A k \in Call : LineageOf(k) /\ LockOf(k)
    BY DEF Init, PairsAreFresh, LineageOf, LockOf, IdleCall
  <1>4. OneTokenPerLogin
    BY DEF Init, OneTokenPerLogin
  <1>5. QED
    BY <1>1, <1>2, <1>3, <1>4 DEF IInv

LEMMA KeepType ==
  ASSUME TypeOK, NEW t \in Tab, NEW n \in Pairs, Keep(t, n)
  PROVE  /\ local' \in Pairs /\ access' \in Pairs /\ local' = n
         /\ tab' \in [Tab -> Pairs] /\ due' \subseteq Tab
  BY DEF TypeOK, Keep

-----------------------------------------------------------------------------
(* The browser: whatever it does, a call stays as it is to the service, or   *)
(* is one that has no pair in the making.                                    *)

Same(k) ==
    /\ call'[k].pc = call[k].pc /\ call'[k].kind = call[k].kind
    /\ call'[k].old = call[k].old /\ call'[k].new = call[k].new
Harmless(k) ==
    /\ call'[k].pc \notin {"made", "locked"}
    /\ call'[k].old <= made /\ call'[k].new <= made
    /\ call'[k].kind = "refresh" => call'[k].old # 0

LEMMA QuietStep ==
  ASSUME IInv, TypeOK', UNCHANGED server, local' <= made,
         \A k \in Call : Same(k) \/ Harmless(k)
  PROVE  IInv'
  <1> USE DEF server
  <1>1. OnlyMadePairs'
    BY DEF IInv, OnlyMadePairs, Same, Harmless
  <1>2. PairsAreFresh'
    BY DEF IInv, PairsAreFresh, Same, Harmless
  <1>3. \A k \in Call : LineageOf(k)'
    BY DEF IInv, LineageOf, Same, Harmless
  <1>4. \A k \in Call : LockOf(k)'
    BY DEF IInv, LockOf, Same, Harmless
  <1>5. OneTokenPerLogin'
    BY DEF IInv, OneTokenPerLogin
  <1>6. QED
    BY <1>1, <1>2, <1>3, <1>4, <1>5 DEF IInv

LEMMA UntouchedCalls ==
  ASSUME IInv, TypeOK', UNCHANGED <<server, call>>, local' <= made
  PROVE  IInv'
  BY QuietStep DEF Same, server

LEMMA ReloadInv == ASSUME IInv, NEW t \in Tab, Reload(t) PROVE IInv'
  <1> USE DEF Reload, server
  <1>1. \A k \in Call :
           call'[k] = IF call[k].tab = t THEN [call[k] EXCEPT !.tab = None] ELSE call[k]
    OBVIOUS
  <1>2. \A k \in Call : call'[k] \in CallType /\ Same(k)
    BY <1>1 DEF IInv, TypeOK, CallType, Same
  <1>3. request' \in [Request -> RequestType]
    BY IdleTypes DEF IInv, TypeOK
  <1>4. TypeOK'
    BY <1>2, <1>3 DEF IInv, TypeOK
  <1>5. QED
    BY <1>2, <1>4, QuietStep DEF IInv, OnlyMadePairs

LEMMA RenderInv == ASSUME IInv, NEW t \in Tab, Render(t) PROVE IInv'
  <1>1. TypeOK'
    BY DEF Render, server, IInv, TypeOK
  <1>2. QED
    BY <1>1, UntouchedCalls DEF Render, IInv, OnlyMadePairs

LEMMA SignInInv == ASSUME IInv, NEW t \in Tab, SignIn(t) PROVE IInv'
  <1> USE DEF SignIn, server, browser
  <1>1. PICK k \in Call :
          /\ call[k].pc = "idle"
          /\ call' = [call EXCEPT ![k] = Sent("login", t, 0)]
    OBVIOUS
  <1>2. \A j \in Call : call'[j] = IF j = k THEN Sent("login", t, 0) ELSE call[j]
    BY <1>1 DEF IInv, TypeOK
  <1>3. Sent("login", t, 0) \in CallType
    BY DEF Sent, CallType, Pairs
  <1>4. TypeOK'
    BY <1>1, <1>3 DEF IInv, TypeOK
  <1>5. \A j \in Call : Same(j) \/ Harmless(j)
    BY <1>2 DEF IInv, OnlyMadePairs, Pairs, Sent, Same, Harmless
  <1>6. QED
    BY <1>4, <1>5, QuietStep DEF IInv, OnlyMadePairs

LEMMA SignOutInv == ASSUME IInv, NEW t \in Tab, SignOut(t) PROVE IInv'
  <1> USE DEF SignOut, server
  <1>1. 0 \in Pairs
    BY DEF Pairs
  <1>2. TypeOK' /\ local' = 0
    BY <1>1, KeepType DEF IInv, TypeOK
  <1>3. QED
    BY <1>2, UntouchedCalls DEF IInv, OnlyMadePairs, Pairs

LEMMA SendInv == ASSUME IInv, NEW r \in Request, Send(r) PROVE IInv'
  <1> USE DEF Send, server
  <1>1. PICK t \in Tab :
          request' = [request EXCEPT ![r] = [pc |-> "sent", tab |-> t]]
    OBVIOUS
  <1>2. [pc |-> "sent", tab |-> t] \in RequestType
    BY DEF IInv, TypeOK, RequestType
  <1>3. TypeOK'
    BY <1>1, <1>2 DEF IInv, TypeOK
  <1>4. QED
    BY <1>3, UntouchedCalls DEF IInv, OnlyMadePairs

LEMMA AnsweredInv == ASSUME IInv, NEW r \in Request, Answered(r) PROVE IInv'
  <1>1. TypeOK'
    BY IdleTypes DEF Answered, server, IInv, TypeOK
  <1>2. QED
    BY <1>1, UntouchedCalls DEF Answered, IInv, OnlyMadePairs

LEMMA RetryFailsInv == ASSUME IInv, NEW r \in Request, RetryFails(r) PROVE IInv'
  <1> USE DEF RetryFails, server
  <1>1. request[r].tab \in Tab /\ 0 \in Pairs
    BY DEF IInv, TypeOK, RequestType, IdleRequest, Pairs
  <1>2. request' \in [Request -> RequestType]
    BY IdleTypes DEF IInv, TypeOK
  <1>3. TypeOK' /\ local' = 0
    BY <1>1, <1>2, KeepType DEF IInv, TypeOK
  <1>4. QED
    BY <1>3, UntouchedCalls DEF IInv, OnlyMadePairs, Pairs

LEMMA DeniedInv == ASSUME IInv, NEW r \in Request, Denied(r) PROVE IInv'
  <1> DEFINE t == request[r].tab
  <1> USE DEF Denied, server
  <1>1. request' \in [Request -> RequestType]
    <2>1. CASE local = 0
      BY <2>1, IdleTypes DEF IInv, TypeOK
    <2>2. CASE local # 0
      <3>1. request' = [request EXCEPT ![r].pc = "waiting"]
        BY <2>2
      <3>2. [request[r] EXCEPT !.pc = "waiting"] \in RequestType
        BY DEF IInv, TypeOK, RequestType, IdleRequest
      <3>3. QED
        BY <3>1, <3>2 DEF IInv, TypeOK
    <2>3. QED
      BY <2>1, <2>2
  <1>0. access' \in Pairs
    BY DEF IInv, TypeOK, Pairs
  <1>2. CASE UNCHANGED <<call, refreshing>>
    <2>1. TypeOK'
      BY <1>0, <1>1, <1>2 DEF IInv, TypeOK
    <2>2. QED
      BY <1>2, <2>1, UntouchedCalls DEF IInv, OnlyMadePairs
  <1>3. CASE /\ local # 0
             /\ \E k \in Call :
                  /\ call[k].pc = "idle"
                  /\ call' = [call EXCEPT ![k] = Sent("refresh", t, local)]
                  /\ refreshing' = [refreshing EXCEPT ![t] = k]
    <2>1. PICK k \in Call :
            /\ call[k].pc = "idle"
            /\ call' = [call EXCEPT ![k] = Sent("refresh", t, local)]
            /\ refreshing' = [refreshing EXCEPT ![t] = k]
      BY <1>3
    <2>2. t \in Tab /\ local \in Pairs
      BY DEF IInv, TypeOK, RequestType, IdleRequest
    <2>3. Sent("refresh", t, local) \in CallType
      BY <2>2 DEF Sent, CallType, Pairs
    <2>4. TypeOK'
      BY <1>0, <1>1, <2>1, <2>3 DEF IInv, TypeOK
    <2>5. \A j \in Call : call'[j] = IF j = k THEN Sent("refresh", t, local) ELSE call[j]
      BY <2>1 DEF IInv, TypeOK
    <2>6. \A j \in Call : Same(j) \/ Harmless(j)
      BY <1>3, <2>2, <2>5 DEF IInv, OnlyMadePairs, Pairs, Sent, Same, Harmless
    <2>7. QED
      BY <2>4, <2>6, QuietStep DEF IInv, OnlyMadePairs
  <1>4. QED
    BY <1>2, <1>3

\* What Refreshed and RefreshFailed write has the right type.
LEMMA ResumedType ==
  ASSUME TypeOK, NEW t \in Tab, NEW pc \in {"idle", "again"}
  PROVE  Resumed(t, pc) \in [Request -> RequestType]
  <1>1. ASSUME NEW r \in Waiting(t)
        PROVE  [request[r] EXCEPT !.pc = "again"] \in RequestType
    BY DEF TypeOK, RequestType, IdleRequest, Waiting
  <1>2. ASSUME NEW r \in Request PROVE Resumed(t, pc)[r] \in RequestType
    BY <1>1, IdleTypes DEF TypeOK, Resumed
  <1>3. QED
    BY <1>2 DEF Resumed

LEMMA ReceiveInv == ASSUME IInv, NEW k \in Call, Receive(k) PROVE IInv'
  <1> DEFINE t == call[k].tab  n == call[k].new
  <1> USE DEF Receive, server
  <1>1. t \in Tab /\ n \in Pairs /\ n <= made /\ call[k].old \in Pairs
    BY CallFields DEF IInv, OnlyMadePairs
  <1>2. UNCHANGED <<local, access, due, tab>> \/ Keep(t, n) \/ Keep(t, 0)
    BY DEF Refreshed, RefreshFailed
  <1>3. /\ local' \in Pairs /\ local' <= made /\ access' \in Pairs
        /\ due' \subseteq Tab /\ tab' \in [Tab -> Pairs]
    <2>1. 0 \in Pairs /\ 0 <= made
      BY DEF IInv, TypeOK, Pairs
    <2>2. CASE UNCHANGED <<local, access, due, tab>>
      BY <2>2 DEF IInv, TypeOK, OnlyMadePairs
    <2>3. CASE Keep(t, n)
      BY <1>1, <2>3, KeepType DEF IInv
    <2>4. CASE Keep(t, 0)
      BY <1>1, <2>1, <2>4, KeepType DEF IInv
    <2>5. QED
      BY <1>2, <2>2, <2>3, <2>4
  <1>5. request' \in [Request -> RequestType]
    <2>1. request' \in {request, Resumed(t, "again"), Resumed(t, "idle")}
      BY DEF Refreshed, RefreshFailed
    <2>2. QED
      BY <1>1, <2>1, ResumedType DEF IInv, TypeOK, Pairs
  <1>6. call' \in [Call -> CallType]
    BY IdleTypes DEF IInv, TypeOK
  <1>7. refreshing' \in [Tab -> Call \cup {None}] /\ heard' \in [Pair -> Tab \cup {None}]
    BY <1>1 DEF IInv, TypeOK
  <1>8. TypeOK'
    BY <1>3, <1>5, <1>6, <1>7 DEF IInv, TypeOK
  <1>9. \A j \in Call : Same(j) \/ Harmless(j)
    BY DEF IInv, TypeOK, OnlyMadePairs, Pairs, IdleCall, Same, Harmless
  <1>10. QED
    BY <1>3, <1>8, <1>9, QuietStep

LEMMA LoseConnectionInv == ASSUME IInv, NEW k \in Call, LoseConnection(k) PROVE IInv'
  <1> DEFINE t == call[k].tab
  <1> USE DEF LoseConnection, server, browser
  <1>1. t \in Tab
    BY CallFields DEF IInv
  <1>2. /\ local' \in {local, 0} /\ local' \in Pairs /\ access' \in Pairs
        /\ due' \subseteq Tab /\ tab' \in [Tab -> Pairs]
    <2>1. 0 \in Pairs
      BY DEF Pairs
    <2>2. CASE UNCHANGED browser
      BY <2>2 DEF IInv, TypeOK
    <2>3. CASE Keep(t, 0)
      BY <1>1, <2>1, <2>3, KeepType DEF IInv
    <2>4. QED
      BY <2>2, <2>3 DEF RefreshFailed
  <1>3. refreshing' \in [Tab -> Call \cup {None}]
    BY <1>1 DEF IInv, TypeOK
  <1>4. request' \in [Request -> RequestType]
    <2>1. request' \in {request, Resumed(t, "idle")}
      BY DEF RefreshFailed
    <2>2. Resumed(t, "idle") \in [Request -> RequestType]
      BY <1>1, ResumedType DEF IInv
    <2>3. QED
      BY <2>1, <2>2 DEF IInv, TypeOK
  <1>5. call' \in [Call -> CallType]
    <2>1. [call[k] EXCEPT !.tab = None] \in CallType
      BY DEF IInv, TypeOK, CallType
    <2>2. QED
      BY <2>1 DEF IInv, TypeOK
  <1>6. TypeOK'
    BY <1>2, <1>3, <1>4, <1>5 DEF IInv, TypeOK, Pairs
  <1>7. \A j \in Call : Same(j)
    BY DEF IInv, TypeOK, CallType, Same
  <1>8. QED
    BY <1>2, <1>6, <1>7, QuietStep DEF IInv, OnlyMadePairs, Pairs

LEMMA DropInv == ASSUME IInv, NEW k \in Call, Drop(k) PROVE IInv'
  <1> USE DEF Drop, server, browser
  <1>1. TypeOK'
    BY IdleTypes DEF IInv, TypeOK
  <1>2. \A j \in Call : Same(j) \/ Harmless(j)
    BY DEF IInv, TypeOK, OnlyMadePairs, Pairs, IdleCall, Same, Harmless
  <1>3. QED
    BY <1>1, <1>2, QuietStep DEF IInv, OnlyMadePairs

-----------------------------------------------------------------------------
(* The service.                                                            *)

\* A call may be refused at any time: it then has nothing in the making.
LEMMA Refusal ==
  ASSUME IInv, NEW k \in Call,
         call' = [call EXCEPT ![k].pc = "refused"]
  PROVE  call' \in [Call -> CallType] /\ \A j \in Call : Same(j) \/ Harmless(j)
  <1>1. [call[k] EXCEPT !.pc = "refused"] \in CallType
    BY DEF IInv, TypeOK, CallType
  <1>2. call' \in [Call -> CallType]
    BY <1>1 DEF IInv, TypeOK
  <1>3. \A j \in Call : Same(j) \/ Harmless(j)
    BY DEF IInv, TypeOK, CallType, OnlyMadePairs, Same, Harmless
  <1>4. QED
    BY <1>2, <1>3

LEMMA MakePairInv == ASSUME IInv, NEW k \in Call, MakePair(k) PROVE IInv'
  <1> USE DEF MakePair, server, browser
  <1>1. CASE call' = [call EXCEPT ![k].pc = "refused"] /\ UNCHANGED <<made, login>>
    <2>1. TypeOK'
      BY <1>1, Refusal DEF IInv, TypeOK
    <2>2. QED
      BY <1>1, <2>1, Refusal, QuietStep DEF IInv, OnlyMadePairs
  <1>2. CASE /\ made < MaxPairs
             /\ made' = made + 1
             /\ login' = [login EXCEPT ![made + 1] =
                            IF call[k].kind = "login" THEN made + 1
                            ELSE login[call[k].old]]
             /\ call' = [call EXCEPT ![k] = Made(call[k], made + 1)]
    <2> USE <1>2
    <2>1. /\ made \in Nat /\ made + 1 \in Pair /\ made + 1 \in Pairs
          /\ stored \subseteq 1 .. made
      BY DEF IInv, TypeOK, OnlyMadePairs, Pair, Pairs
    <2>2. /\ call'[k].pc = "made" /\ call'[k].new = made + 1
          /\ call'[k].kind = call[k].kind /\ call'[k].old = call[k].old
          /\ \A j \in Call \ {k} : call'[j] = call[j]
      BY DEF Made, IInv, TypeOK, CallType
    <2>3. /\ \A n \in 1 .. made : login'[n] = login[n]
          /\ call[k].kind = "login" => login'[made + 1] = made + 1
          /\ call[k].kind # "login" => login'[made + 1] = login[call[k].old]
      BY <2>1 DEF IInv, TypeOK, Pair
    <2>4. \A j \in Call : /\ call[j].old \in 0 .. made /\ call[j].new \in 0 .. made
                          /\ call[j].kind \in {"login", "refresh"}
                          /\ call[j].kind = "refresh" => call[j].old \in 1 .. made
      BY <2>1 DEF IInv, TypeOK, CallType, OnlyMadePairs, Pairs
    <2>5. TypeOK'
      <3>1. Made(call[k], made + 1) \in CallType
        BY <2>1 DEF Made, IInv, TypeOK, CallType
      <3>2. call' \in [Call -> CallType]
        BY <3>1 DEF IInv, TypeOK
      <3>3. login' \in [Pair -> Pairs]
        <4>1. \A n \in 1 .. made : login[n] \in Pairs
          BY <2>1 DEF IInv, TypeOK, Pair, Pairs
        <4>2. (IF call[k].kind = "login" THEN made + 1 ELSE login[call[k].old]) \in Pairs
          BY <2>1, <2>4, <4>1
        <4>3. QED
          BY <4>2 DEF IInv, TypeOK
      <3>4. QED
        BY <2>1, <3>2, <3>3 DEF IInv, TypeOK
    <2>6. OnlyMadePairs'
      <3>1. \A n \in 1 .. made + 1 : login'[n] <= made + 1
        <4>1. \A n \in 1 .. made : login[n] <= made /\ login[n] \in Nat
          BY <2>1 DEF IInv, TypeOK, OnlyMadePairs, Pair, Pairs
        <4>2. login'[made + 1] <= made + 1
          BY <2>1, <2>3, <2>4, <4>1
        <4>3. QED
          BY <2>1, <2>3, <4>1, <4>2
      <3>2. \A j \in Call : call'[j].old <= made + 1 /\ call'[j].new <= made + 1
        BY <2>1, <2>2, <2>4
      <3>3. \A j \in Call : call'[j].kind = "refresh" => call'[j].old # 0
        BY <2>2, <2>4
      <3>4. local' <= made + 1 /\ \A n \in stored' : n <= made + 1
        BY <2>1 DEF IInv, TypeOK, OnlyMadePairs, Pairs
      <3>5. QED
        BY <2>1, <3>1, <3>2, <3>3, <3>4 DEF OnlyMadePairs
    <2>7. PairsAreFresh'
      BY <2>1, <2>2, <2>4 DEF IInv, PairsAreFresh
    <2>8. ASSUME NEW j \in Call PROVE LineageOf(j)'
      <3>1. CASE j = k
        <4>1. \A m \in stored : login'[m] # made + 1
          BY <2>1, <2>3 DEF IInv, TypeOK, OnlyMadePairs, Pair, Pairs
        <4>2. QED
          BY <2>1, <2>2, <2>3, <2>4, <3>1, <4>1 DEF LineageOf
      <3>2. CASE j # k
        BY <2>1, <2>2, <2>3, <2>4, <3>2 DEF IInv, LineageOf
      <3>3. QED
        BY <3>1, <3>2
    <2>9. \A j \in Call : LockOf(j)'
      BY <2>2 DEF IInv, LockOf
    <2>10. OneTokenPerLogin'
      BY <2>1, <2>3 DEF IInv, OneTokenPerLogin
    <2>11. QED
      BY <2>5, <2>6, <2>7, <2>8, <2>9, <2>10 DEF IInv
  <1>3. QED
    BY <1>1, <1>2

\* The first token of a login: nothing of that login is in the table.
LEMMA StoreInv == ASSUME IInv, NEW k \in Call, Store(k) PROVE IInv'
  <1> USE DEF Store, browser
  <1>1. CASE call' = [call EXCEPT ![k].pc = "refused"] /\ UNCHANGED stored
    <2>1. TypeOK'
      BY <1>1, Refusal DEF IInv, TypeOK
    <2>2. QED
      BY <1>1, <2>1, Refusal, QuietStep DEF IInv, OnlyMadePairs, server
  <1>2. CASE /\ stored' = stored \cup {call[k].new}
             /\ call' = [call EXCEPT ![k].pc = "granted"]
    <2> USE <1>2
    <2>1. /\ call[k].new \in Pair /\ call[k].new <= made
          /\ login[call[k].new] = call[k].new
          /\ \A m \in stored : login[m] # call[k].new
      BY CallFields DEF IInv, OnlyMadePairs, LineageOf, Pair, Pairs
    <2>2. /\ call'[k].pc = "granted" /\ \A j \in Call : j # k => call'[j] = call[j]
          /\ call'[k].old = call[k].old /\ call'[k].new = call[k].new
          /\ call'[k].kind = call[k].kind
      BY DEF IInv, TypeOK, CallType
    <2>3. TypeOK'
      <3>1. [call[k] EXCEPT !.pc = "granted"] \in CallType
        BY DEF IInv, TypeOK, CallType
      <3>2. QED
        BY <2>1, <3>1 DEF IInv, TypeOK
    <2>4. OnlyMadePairs'
      BY <2>1, <2>2 DEF IInv, OnlyMadePairs
    <2>5. PairsAreFresh'
      BY <2>2 DEF IInv, PairsAreFresh
    <2>6. ASSUME NEW j \in Call PROVE LineageOf(j)'
      <3>1. CASE j = k
        BY <2>2, <3>1 DEF LineageOf
      <3>2. CASE j # k
        <4>1. call[j].pc \in {"made", "locked"} => call[j].new # call[k].new
          BY <3>2 DEF IInv, PairsAreFresh
        <4>2. QED
          BY <2>1, <2>2, <3>2, <4>1 DEF IInv, LineageOf
      <3>3. QED
        BY <3>1, <3>2
    <2>7. \A j \in Call : LockOf(j)'
      BY <2>2 DEF IInv, LockOf
    <2>8. OneTokenPerLogin'
      BY <2>1 DEF IInv, OneTokenPerLogin
    <2>9. QED
      BY <2>3, <2>4, <2>5, <2>6, <2>7, <2>8 DEF IInv
  <1>3. QED
    BY <1>1, <1>2

LEMMA LockRowInv == ASSUME IInv, NEW k \in Call, LockRow(k) PROVE IInv'
  <1> DEFINE n == call[k].old
  <1> USE DEF LockRow, Unlocked, browser
  <1>1. CASE call' = [call EXCEPT ![k].pc = "refused"] /\ UNCHANGED holder
    <2>1. TypeOK'
      BY <1>1, Refusal DEF IInv, TypeOK
    <2>2. QED
      BY <1>1, <2>1, Refusal, QuietStep DEF IInv, OnlyMadePairs, server
  <1>2. CASE /\ n \in stored
             /\ holder' = [holder EXCEPT ![n] = k]
             /\ call' = [call EXCEPT ![k].pc = "locked"]
    <2> USE <1>2
    <2>1. n \in Pair /\ holder[n] = None
      BY DEF IInv, TypeOK
    <2>2. /\ call'[k].pc = "locked" /\ \A j \in Call : j # k => call'[j] = call[j]
          /\ call'[k].old = call[k].old /\ call'[k].new = call[k].new
          /\ call'[k].kind = call[k].kind
      BY DEF IInv, TypeOK, CallType
    <2>3. TypeOK'
      <3>1. [call[k] EXCEPT !.pc = "locked"] \in CallType
        BY SMTT(30) DEF IInv, TypeOK, CallType
      <3>2. QED
        BY <2>1, <3>1 DEF IInv, TypeOK
    <2>4. OnlyMadePairs'
      BY <2>2 DEF IInv, OnlyMadePairs
    <2>5. PairsAreFresh'
      BY <2>2 DEF IInv, PairsAreFresh
    <2>6. \A j \in Call : LineageOf(j)'
      BY <2>2 DEF IInv, LineageOf
    <2>7. \A j \in Call : LockOf(j)'
      BY <2>1, <2>2 DEF IInv, TypeOK, LockOf
    <2>8. OneTokenPerLogin'
      BY DEF IInv, OneTokenPerLogin
    <2>9. QED
      BY <2>3, <2>4, <2>5, <2>6, <2>7, <2>8 DEF IInv
  <1>3. QED
    BY <1>1, <1>2

\* The exchange: the token that goes and the token that comes are of one login.
LEMMA RotateInv == ASSUME IInv, NEW k \in Call, Rotate(k) PROVE IInv'
  <1> DEFINE n == call[k].old  m == call[k].new
  <1> USE DEF Rotate, browser
  <1>1. /\ n \in stored /\ n \in Pair /\ m \in Pair /\ m <= made
        /\ holder[n] = k /\ login[m] = login[n]
    BY CallFields DEF IInv, TypeOK, OnlyMadePairs, LineageOf, LockOf, Pair, Pairs
  <1>2. PICK pc \in {"granted", "refused"} :
          /\ call' = [call EXCEPT ![k].pc = pc]
          /\ pc = "granted" => stored' = (stored \ {n}) \cup {m}
          /\ pc = "refused" => stored' = stored
    OBVIOUS
  <1>3. /\ call'[k].pc = pc /\ \A j \in Call : j # k => call'[j] = call[j]
        /\ call'[k].old = call[k].old /\ call'[k].new = call[k].new
        /\ call'[k].kind = call[k].kind
    BY <1>2 DEF IInv, TypeOK, CallType
  <1>4. stored' = stored \/ stored' = (stored \ {n}) \cup {m}
    BY <1>2
  <1>5. TypeOK'
    <2> HIDE DEF Rotate
    <2>0. call[k] \in CallType /\ (pc = "granted" \/ pc = "refused")
      BY DEF IInv, TypeOK
    <2>1. [call[k] EXCEPT !.pc = pc] \in CallType
      BY <2>0 DEF CallType
    <2> USE DEF Rotate
    <2>2. QED
      BY <1>1, <1>2, <1>4, <2>1 DEF IInv, TypeOK
  <1>6. OnlyMadePairs'
    BY <1>1, <1>3, <1>4 DEF IInv, OnlyMadePairs
  <1>7. PairsAreFresh'
    BY <1>3 DEF IInv, PairsAreFresh
  <1>8. ASSUME NEW j \in Call PROVE LineageOf(j)'
    <2>1. CASE j = k
      BY <1>3, <2>1 DEF LineageOf
    <2>2. CASE j # k
      <3>1. \A l \in stored' : \E i \in stored : login[l] = login[i]
        BY <1>1, <1>4
      <3>2. QED
        BY <1>3, <2>2, <3>1 DEF IInv, LineageOf
    <2>3. QED
      BY <2>1, <2>2
  <1>9. ASSUME NEW j \in Call PROVE LockOf(j)'
    <2>1. CASE j = k
      BY <1>3, <2>1 DEF LockOf
    <2>2. CASE j # k /\ call[j].pc = "locked"
      <3>1. call[j].kind = "refresh" /\ call[j].old \in stored /\ holder[call[j].old] = j
        BY <2>2 DEF IInv, LockOf
      <3>2. call[j].old # n
        BY <1>1, <2>2, <3>1
      <3>3. holder'[call[j].old] = j
        BY <3>1, <3>2 DEF IInv, TypeOK
      <3>4. QED
        BY <1>3, <1>4, <2>2, <3>1, <3>2, <3>3 DEF LockOf
    <2>3. CASE j # k /\ call[j].pc # "locked"
      BY <1>3, <2>3 DEF LockOf
    <2>4. QED
      BY <2>1, <2>2, <2>3
  <1>10. OneTokenPerLogin'
    BY <1>1, <1>4 DEF IInv, OneTokenPerLogin
  <1>11. QED
    BY <1>5, <1>6, <1>7, <1>8, <1>9, <1>10 DEF IInv

-----------------------------------------------------------------------------
LEMMA NextInv == IInv /\ [Next]_vars => IInv'
  <1> SUFFICES ASSUME IInv, [Next]_vars PROVE IInv'
    OBVIOUS
  <1>1. CASE \E t \in Tab : Reload(t) \/ Render(t) \/ SignIn(t) \/ SignOut(t)
    BY <1>1, ReloadInv, RenderInv, SignInInv, SignOutInv
  <1>2. CASE \E r \in Request : Send(r) \/ Answered(r) \/ Denied(r) \/ RetryFails(r)
    BY <1>2, SendInv, AnsweredInv, DeniedInv, RetryFailsInv
  <1>3. CASE \E k \in Call : Receive(k) \/ LoseConnection(k) \/ Drop(k)
    BY <1>3, ReceiveInv, LoseConnectionInv, DropInv
  <1>4. CASE \E k \in Call : MakePair(k) \/ Store(k) \/ LockRow(k) \/ Rotate(k)
    BY <1>4, MakePairInv, StoreInv, LockRowInv, RotateInv
  <1>6. CASE UNCHANGED vars
    <2>1. UNCHANGED server /\ UNCHANGED call /\ local' = local
      BY <1>6 DEF vars, server, browser
    <2>2. TypeOK'
      BY <1>6 DEF vars, server, browser, IInv, TypeOK
    <2>3. QED
      BY <2>1, <2>2, UntouchedCalls DEF IInv, OnlyMadePairs
  <1>7. QED
    BY <1>1, <1>2, <1>3, <1>4, <1>6 DEF Next

\* Type correctness together with what makes OneTokenPerLogin inductive: which pairs
\* are in the making, of which login, and who holds the lock of a row.
THEOREM SessionsInvariance == Spec => []IInv
  BY InitInv, NextInv, PTL DEF Spec

\* A refresh token can be exchanged once: of every login there is one in the table
\* at most, however many pages refresh at once and however many answers are lost.
THEOREM TokensAreUsedOnce == Spec => []OneTokenPerLogin
  <1>1. IInv => OneTokenPerLogin
    BY DEF IInv
  <1>2. QED
    BY <1>1, SessionsInvariance, PTL

-----------------------------------------------------------------------------
(* The pages: a refresh in flight is the one that its page awaits.         *)

\* What the service and the storage do leaves the promises of the pages alone.
LEMMA QuietPage ==
  ASSUME TypeOK, PageInv, refreshing' = refreshing,
         \A k \in Call : /\ call'[k].kind = call[k].kind /\ call'[k].tab = call[k].tab
                         /\ call[k].pc # "idle" => call'[k].pc # "idle",
         \A r \in Request : request'[r].pc = "waiting" => request'[r] = request[r]
  PROVE  PageInv'
  <1>1. \A t \in Tab : refreshing[t] # None => refreshing[t] \in Call
    BY DEF TypeOK
  <1>2. QED
    BY <1>1 DEF PageInv, OneRefreshPerPage

LEMMA InitPage == Init => PageInv
  BY DEF Init, PageInv, OneRefreshPerPage, IdleCall, IdleRequest

LEMMA RequestFields ==
  ASSUME TypeOK, NEW r \in Request
  PROVE  /\ request[r].pc = "waiting" => request[r].tab \in Tab
         /\ request[r].pc # "idle" => request[r].tab \in Tab
  BY DEF TypeOK, RequestType, IdleRequest

LEMMA ReloadPage == ASSUME TypeOK, PageInv, NEW t \in Tab, Reload(t) PROVE PageInv'
  <1>1. \A k \in Call : /\ call'[k].kind = call[k].kind /\ call'[k].pc = call[k].pc
                        /\ call'[k].tab = IF call[k].tab = t THEN None ELSE call[k].tab
    BY DEF Reload, TypeOK, CallType
  <1>2. \A u \in Tab : /\ refreshing'[u] = IF u = t THEN None ELSE refreshing[u]
                       /\ refreshing[u] # None => refreshing[u] \in Call
    BY DEF Reload, TypeOK
  <1>3. \A r \in Request : request'[r].pc = "waiting" =>
            request'[r] = request[r] /\ request[r].tab \in Tab \ {t}
    BY RequestFields DEF Reload, IdleRequest
  <1>4. \A k \in Call : call[k].tab \in Tab \cup {None}
    BY CallFields
  <1>5. QED
    BY <1>1, <1>2, <1>3, <1>4 DEF PageInv, OneRefreshPerPage

LEMMA SignInPage == ASSUME TypeOK, PageInv, NEW t \in Tab, SignIn(t) PROVE PageInv'
  <1>1. PICK k \in Call : call[k].pc = "idle" /\ call' = [call EXCEPT ![k] = Sent("login", t, 0)]
    BY DEF SignIn
  <1>2. call'[k].kind = "login" /\ \A j \in Call \ {k} : call'[j] = call[j]
    BY <1>1 DEF TypeOK, Sent
  <1>3. refreshing' = refreshing /\ request' = request
    BY DEF SignIn, browser
  <1>4. \A u \in Tab : refreshing[u] # None => refreshing[u] \in Call \ {k}
    BY <1>1 DEF TypeOK, PageInv
  <1>5. QED
    BY <1>2, <1>3, <1>4 DEF PageInv, OneRefreshPerPage

LEMMA RequestPage ==
  ASSUME TypeOK, PageInv, NEW r \in Request, Send(r) \/ Answered(r) \/ RetryFails(r)
  PROVE  PageInv'
  <1>1. refreshing' = refreshing /\ call' = call
    BY DEF Send, Answered, RetryFails
  <1>2. \E x : x.pc # "waiting" /\ request' = [request EXCEPT ![r] = x]
    BY DEF Send, Answered, RetryFails, IdleRequest
  <1>3. \A q \in Request : request'[q].pc = "waiting" => request'[q] = request[q]
    BY <1>2 DEF TypeOK
  <1>4. QED
    BY <1>1, <1>3, QuietPage

LEMMA DeniedPage == ASSUME TypeOK, PageInv, NEW r \in Request, Denied(r) PROVE PageInv'
  <1> DEFINE t == request[r].tab
  <1>0. t \in Tab /\ t # None /\ call \in [Call -> CallType]
    BY RequestFields DEF Denied, TypeOK
  <1>1. CASE local = 0
    <2>1. refreshing' = refreshing /\ call' = call /\ request' = [request EXCEPT ![r] = IdleRequest]
      BY <1>1 DEF Denied
    <2>2. \A q \in Request : request'[q].pc = "waiting" => request'[q] = request[q]
      BY <2>1 DEF TypeOK, IdleRequest
    <2>3. QED
      BY <2>1, <2>2, QuietPage
  <1>2. CASE local # 0 /\ Joins(t) /\ UNCHANGED <<call, refreshing>>
    <2>1. \A q \in Request : request'[q].tab = request[q].tab /\ (q # r => request'[q] = request[q])
      BY <1>2 DEF Denied, TypeOK, RequestType, IdleRequest
    <2>2. refreshing[t] # None
      BY <1>2 DEF Joins
    <2>3. QED
      BY <1>2, <2>1, <2>2 DEF PageInv, OneRefreshPerPage
  <1>3. CASE /\ local # 0 /\ ~Joins(t)
             /\ \E k \in Call :
                  /\ call[k].pc = "idle"
                  /\ call' = [call EXCEPT ![k] = Sent("refresh", t, local)]
                  /\ refreshing' = [refreshing EXCEPT ![t] = k]
    <2>1. PICK k \in Call :
            /\ call[k].pc = "idle"
            /\ call' = [call EXCEPT ![k] = Sent("refresh", t, local)]
            /\ refreshing' = [refreshing EXCEPT ![t] = k]
      BY <1>3
    <2>2. /\ call'[k].kind = "refresh" /\ call'[k].tab = t /\ call'[k].pc # "idle"
          /\ \A j \in Call \ {k} : call'[j] = call[j]
      BY <2>1 DEF TypeOK, Sent
    <2>3. refreshing'[t] = k /\ \A u \in Tab \ {t} : refreshing'[u] = refreshing[u]
      BY <1>0, <2>1 DEF TypeOK
    <2>4. /\ refreshing[t] = None
          /\ \A u \in Tab : refreshing[u] # None => refreshing[u] \in Call \ {k}
      BY <1>3, <2>1 DEF Joins, TypeOK, PageInv
    <2>5. \A q \in Request : /\ request'[q].tab = request[q].tab
                             /\ q # r => request'[q] = request[q]
      BY <1>3 DEF Denied, TypeOK, RequestType, IdleRequest
    <2>6. \A j \in Call : call[j].tab \in Tab \cup {None}
      BY CallFields
    <2>7. \A q \in Request : request[q].pc = "waiting" => request[q].tab \in Tab
      BY RequestFields
    <2>8. k # None
      OBVIOUS
    <2>9. QED
      BY <1>0, <2>2, <2>3, <2>4, <2>5, <2>6, <2>7, <2>8 DEF PageInv, OneRefreshPerPage
  <1>4. QED
    BY <1>1, <1>2, <1>3 DEF Denied

LEMMA ResumedFields ==
  ASSUME TypeOK, NEW t \in Tab, NEW pc \in {"idle", "again"}, request' = Resumed(t, pc)
  PROVE  \A r \in Request : request'[r].pc = "waiting" =>
             request'[r] = request[r] /\ request[r].tab \in Tab \ {t}
  <1>1. \A r \in Waiting(t) : [request[r] EXCEPT !.pc = "again"].pc = "again"
    BY DEF TypeOK, RequestType, IdleRequest, Waiting
  <1>2. QED
    BY <1>1, RequestFields DEF Resumed, Waiting, IdleRequest

\* The end of a refresh frees the page, whatever the answer.
LEMMA EndPage ==
  ASSUME TypeOK, PageInv, NEW k \in Call, call[k].kind = "refresh", call[k].tab # None,
         refreshing' = [refreshing EXCEPT ![call[k].tab] = None],
         \A j \in Call \ {k} : call'[j] = call[j],
         call'[k].kind # "refresh" \/ call'[k].tab = None,
         \A r \in Request : request'[r].pc = "waiting" =>
             request'[r] = request[r] /\ request[r].tab \in Tab \ {call[k].tab}
  PROVE  PageInv'
  <1>1. \A j \in Call : call[j].tab \in Tab \cup {None}
    BY CallFields
  <1>2. refreshing[call[k].tab] = k
    BY DEF PageInv, OneRefreshPerPage
  <1>3. \A u \in Tab : refreshing'[u] = IF u = call[k].tab THEN None ELSE refreshing[u]
    BY DEF TypeOK
  <1>4. \A u \in Tab : refreshing'[u] # None => refreshing[u] \in Call \ {k} /\ u # call[k].tab
    BY <1>3 DEF TypeOK, PageInv, OneRefreshPerPage
  <1>5. QED
    BY <1>1, <1>2, <1>3, <1>4 DEF PageInv, OneRefreshPerPage

\* The end of a call that no page awaits.
LEMMA OtherEndPage ==
  ASSUME TypeOK, PageInv, NEW k \in Call, call[k].kind # "refresh" \/ call[k].tab = None,
         refreshing' = refreshing, request' = request,
         \A j \in Call \ {k} : call'[j] = call[j],
         call'[k].kind # "refresh" \/ call'[k].tab = None
  PROVE  PageInv'
  <1>1. \A u \in Tab : refreshing[u] # None => refreshing[u] \in Call \ {k}
    BY DEF TypeOK, PageInv, OneRefreshPerPage
  <1>2. QED
    BY <1>1 DEF PageInv, OneRefreshPerPage

LEMMA ReceivePage == ASSUME TypeOK, PageInv, NEW k \in Call, Receive(k) PROVE PageInv'
  <1>1. /\ call'[k].kind = "login" /\ \A j \in Call \ {k} : call'[j] = call[j]
        /\ call[k].tab # None /\ call[k].tab \in Tab
    BY CallFields DEF Receive, TypeOK, IdleCall
  <1>2. CASE call[k].kind = "login"
    <2>1. refreshing' = refreshing /\ request' = request
      BY <1>2 DEF Receive
    <2>2. QED
      BY <1>1, <1>2, <2>1, OtherEndPage
  <1>3. CASE call[k].kind # "login"
    <2>1. /\ call[k].kind = "refresh"
          /\ refreshing' = [refreshing EXCEPT ![call[k].tab] = None]
          /\ \/ request' = Resumed(call[k].tab, "again")
             \/ request' = Resumed(call[k].tab, "idle")
      BY <1>3 DEF Receive, Refreshed, RefreshFailed, TypeOK, CallType
    <2>2. \A r \in Request : request'[r].pc = "waiting" =>
             request'[r] = request[r] /\ request[r].tab \in Tab \ {call[k].tab}
      BY <1>1, <2>1, ResumedFields
    <2>3. QED
      BY <1>1, <2>1, <2>2, EndPage
  <1>4. QED
    BY <1>2, <1>3

LEMMA LoseConnectionPage ==
  ASSUME TypeOK, PageInv, NEW k \in Call, LoseConnection(k) PROVE PageInv'
  <1>1. /\ call'[k].tab = None /\ \A j \in Call \ {k} : call'[j] = call[j]
        /\ call[k].tab # None /\ call[k].tab \in Tab
    BY CallFields DEF LoseConnection, TypeOK, CallType
  <1>2. CASE call[k].kind # "refresh"
    <2>1. refreshing' = refreshing /\ request' = request
      BY <1>2 DEF LoseConnection, browser
    <2>2. QED
      BY <1>1, <1>2, <2>1, OtherEndPage
  <1>3. CASE call[k].kind = "refresh"
    <2>1. /\ refreshing' = [refreshing EXCEPT ![call[k].tab] = None]
          /\ request' = Resumed(call[k].tab, "idle")
      BY <1>3 DEF LoseConnection, RefreshFailed
    <2>2. \A r \in Request : request'[r].pc = "waiting" =>
             request'[r] = request[r] /\ request[r].tab \in Tab \ {call[k].tab}
      BY <1>1, <2>1, ResumedFields
    <2>3. QED
      BY <1>1, <1>3, <2>1, <2>2, EndPage
  <1>4. QED
    BY <1>2, <1>3

\* The service keeps of a call who made it and for what.
LEMMA ServiceFrame ==
  ASSUME TypeOK, NEW k \in Call, MakePair(k) \/ Store(k) \/ LockRow(k) \/ Rotate(k)
  PROVE  /\ UNCHANGED <<browser, heard>>
         /\ \A j \in Call \ {k} : call'[j] = call[j]
         /\ call'[k].kind = call[k].kind /\ call'[k].tab = call[k].tab
         /\ call'[k].old = call[k].old /\ call'[k].pc # "idle"
         /\ MakePair(k) \/ call'[k].new = call[k].new
  <1>1. UNCHANGED <<browser, heard>>
    BY DEF MakePair, Store, LockRow, Rotate
  <1>2. \/ MakePair(k) /\ call' = [call EXCEPT ![k] = Made(call[k], made + 1)]
        \/ \E pc \in {"refused", "granted", "locked"} : call' = [call EXCEPT ![k].pc = pc]
    BY DEF MakePair, Store, LockRow, Rotate
  <1>3. CASE MakePair(k) /\ call' = [call EXCEPT ![k] = Made(call[k], made + 1)]
    BY <1>1, <1>3 DEF Made, TypeOK
  <1>4. ASSUME NEW pc \in {"refused", "granted", "locked"}, call' = [call EXCEPT ![k].pc = pc]
        PROVE  /\ \A j \in Call \ {k} : call'[j] = call[j]
               /\ call'[k].kind = call[k].kind /\ call'[k].tab = call[k].tab
               /\ call'[k].old = call[k].old /\ call'[k].pc # "idle"
               /\ call'[k].new = call[k].new
    <2>1. call[k] \in CallType /\ pc # "idle"
      BY CallFields
    <2>2. QED
      BY <1>4, <2>1 DEF TypeOK, CallType
  <1>5. QED
    BY <1>1, <1>2, <1>3, <1>4

LEMMA NextPage == IInv /\ PageInv /\ [Next]_vars => PageInv'
  <1> SUFFICES ASSUME IInv, TypeOK, PageInv, [Next]_vars PROVE PageInv'
    BY DEF IInv
  <1>1. CASE UNCHANGED vars
    BY <1>1, QuietPage DEF vars, browser
  <1>2. ASSUME NEW t \in Tab, Reload(t) \/ Render(t) \/ SignIn(t) \/ SignOut(t) PROVE PageInv'
    <2>1. CASE Render(t) \/ SignOut(t)
      BY <2>1, QuietPage DEF Render, SignOut
    <2>2. QED
      BY <1>2, <2>1, ReloadPage, SignInPage
  <1>3. ASSUME NEW r \in Request, Send(r) \/ Answered(r) \/ Denied(r) \/ RetryFails(r)
        PROVE  PageInv'
    BY <1>3, RequestPage, DeniedPage
  <1>4. ASSUME NEW k \in Call, Receive(k) \/ LoseConnection(k) \/ Drop(k) PROVE PageInv'
    <2>1. CASE Drop(k)
      <3>1. /\ call[k].tab = None /\ call'[k].tab = None
            /\ \A j \in Call \ {k} : call'[j] = call[j]
            /\ refreshing' = refreshing /\ request' = request
        BY <2>1 DEF Drop, TypeOK, IdleCall, browser
      <3>2. QED
        BY <3>1, OtherEndPage
    <2>2. QED
      BY <1>4, <2>1, ReceivePage, LoseConnectionPage
  <1>5. ASSUME NEW k \in Call, MakePair(k) \/ Store(k) \/ LockRow(k) \/ Rotate(k) PROVE PageInv'
    <2>1. refreshing' = refreshing /\ request' = request
      BY <1>5, ServiceFrame DEF browser
    <2>2. \A j \in Call : /\ call'[j].kind = call[j].kind /\ call'[j].tab = call[j].tab
                          /\ call[j].pc # "idle" => call'[j].pc # "idle"
      BY <1>5, ServiceFrame
    <2>3. QED
      BY <2>1, <2>2, QuietPage
  <1>6. QED
    BY <1>1, <1>2, <1>3, <1>4, <1>5 DEF Next

LEMMA SessionsPages == Spec => []PageInv
  BY InitPage, NextPage, SessionsInvariance, PTL DEF Spec

\* A page has one refresh in flight at most, the one its requests wait for, whatever is
\* lost, reloaded or answered late.
THEOREM PagesRefreshOnce == Spec => []OneRefreshPerPage
  <1>1. PageInv => OneRefreshPerPage
    BY DEF PageInv
  <1>2. QED
    BY <1>1, SessionsPages, PTL

-----------------------------------------------------------------------------
(* Who has heard of which pair.                                            *)

LEMMA InitHeard == Init => HeardInv
  BY DEF Init, HeardInv, UnheardOf, PairOf, AsksOnce, TableIsAhead, IdleCall

\* A call stays as it is, or is refused; or it is a new one, or none any more.
Keeps(k) ==
    /\ call'[k].kind = call[k].kind /\ call'[k].old = call[k].old
    /\ call'[k].new = call[k].new /\ call'[k].tab \in {call[k].tab, None}
    /\ call'[k].pc \in {call[k].pc, "refused"}
Blank(k) ==
    /\ call'[k].pc \notin {"made", "locked", "granted"}
    /\ call'[k].kind = "login" => call'[k].old = 0
    /\ call'[k].kind # "login" => call'[k].old = local /\ local # 0

\* Steps in which nobody hears of a pair.
LEMMA QuietHeard ==
  ASSUME IInv, HeardInv, UNCHANGED server, heard' = heard, local' \in {local, 0},
         \A k \in Call : Keeps(k) \/ Blank(k)
  PROVE  HeardInv'
  <1> USE DEF server
  <1>0. \A k \in Call : call[k].kind \in {"login", "refresh"}
    BY DEF IInv, TypeOK, CallType
  <1>1. ASSUME NEW k \in Call PROVE UnheardOf(k)'
    <2>1. CASE call'[k].pc \notin {"made", "locked", "granted"}
      BY <2>1 DEF UnheardOf
    <2>2. CASE call'[k].pc \in {"made", "locked", "granted"}
      <3>1. /\ call'[k].pc = call[k].pc /\ call'[k].new = call[k].new
            /\ call'[k].kind = call[k].kind
        BY <2>2 DEF Keeps, Blank
      <3>2. UnheardOf(k) /\ call[k].pc \in {"made", "locked", "granted"}
        BY <2>2, <3>1 DEF HeardInv
      <3>3. \A j \in Call : call'[j].old # call[k].new
        BY <3>2 DEF Keeps, Blank, UnheardOf
      <3>4. \A j \in Call \ {k} : call'[j].pc \in {"made", "locked", "granted"} =>
               call'[j].new # call[k].new
        BY <3>2 DEF Keeps, Blank, UnheardOf
      <3>5. QED
        BY <3>1, <3>2, <3>3, <3>4 DEF UnheardOf
    <2>3. QED
      BY <2>1, <2>2
  <1>2. ASSUME NEW k \in Call PROVE PairOf(k)'
    BY DEF HeardInv, PairOf, Keeps, Blank
  <1>3. ASSUME NEW k \in Call PROVE AsksOnce(k)'
    <2>1. AsksOnce(k) /\ (local # 0 => heard[local] = None)
      BY DEF HeardInv, TableIsAhead
    <2>2. QED
      BY <1>0, <2>1 DEF AsksOnce, Keeps, Blank
  <1>4. TableIsAhead'
    BY DEF HeardInv, TableIsAhead
  <1>5. QED
    BY <1>1, <1>2, <1>3, <1>4 DEF HeardInv

LEMMA NoPairs == 0 \notin Pair /\ 0 \in Pairs /\ \A n \in Pairs : n # 0 => n \in Pair
  BY DEF Pair, Pairs

LEMMA BrowserHeard ==
  ASSUME IInv, HeardInv,
         \/ \E t \in Tab : Reload(t) \/ Render(t) \/ SignIn(t) \/ SignOut(t)
         \/ \E r \in Request : Send(r) \/ Answered(r) \/ Denied(r) \/ RetryFails(r)
  PROVE  HeardInv'
  <1> USE DEF server
  <1>1. ASSUME NEW t \in Tab, Reload(t) PROVE HeardInv'
    <2>1. \A k \in Call : call'[k] = IF call[k].tab = t THEN [call[k] EXCEPT !.tab = None] ELSE call[k]
      BY <1>1 DEF Reload
    <2>2. \A k \in Call : Keeps(k)
      BY <2>1, CallFields, ZenonT(40) DEF IInv, CallType, Keeps
    <2>3. UNCHANGED server /\ heard' = heard /\ local' = local
      BY <1>1 DEF Reload
    <2>4. QED
      BY <2>2, <2>3, QuietHeard
  <1>2. ASSUME NEW t \in Tab, SignIn(t) PROVE HeardInv'
    <2>1. PICK k \in Call : call' = [call EXCEPT ![k] = Sent("login", t, 0)]
      BY <1>2 DEF SignIn
    <2>2. \A j \in Call : call'[j] = IF j = k THEN Sent("login", t, 0) ELSE call[j]
      BY <2>1 DEF IInv, TypeOK
    <2>3. \A j \in Call : Keeps(j) \/ Blank(j)
      BY <2>2 DEF Keeps, Blank, Sent
    <2>4. UNCHANGED server /\ heard' = heard /\ local' = local
      BY <1>2 DEF SignIn, browser
    <2>5. QED
      BY <2>3, <2>4, QuietHeard
  <1>3. ASSUME NEW t \in Tab, Render(t) \/ SignOut(t) PROVE HeardInv'
    <2>1. \A k \in Call : Keeps(k)
      BY <1>3 DEF Render, SignOut, Keeps
    <2>2. UNCHANGED server /\ heard' = heard /\ local' \in {local, 0}
      BY <1>3 DEF Render, SignOut, Keep
    <2>3. QED
      BY <2>1, <2>2, QuietHeard
  <1>4. ASSUME NEW r \in Request, Send(r) \/ Answered(r) \/ RetryFails(r) PROVE HeardInv'
    <2>1. \A k \in Call : Keeps(k)
      BY <1>4 DEF Send, Answered, RetryFails, Keeps
    <2>2. UNCHANGED server /\ heard' = heard /\ local' \in {local, 0}
      BY <1>4 DEF Send, Answered, RetryFails, Keep
    <2>3. QED
      BY <2>1, <2>2, QuietHeard
  <1>5. ASSUME NEW r \in Request, Denied(r) PROVE HeardInv'
    <2>1. UNCHANGED server /\ heard' = heard /\ local' = local
      BY <1>5 DEF Denied
    <2>2. CASE call' = call
      BY <2>1, <2>2, QuietHeard DEF Keeps
    <2>3. ASSUME local # 0, NEW k \in Call,
                 call' = [call EXCEPT ![k] = Sent("refresh", request[r].tab, local)]
          PROVE  HeardInv'
      <3>1. \A j \in Call : call'[j] = IF j = k THEN Sent("refresh", request[r].tab, local)
                                       ELSE call[j]
        BY <2>3 DEF IInv, TypeOK
      <3>2. \A j \in Call : Keeps(j) \/ Blank(j)
        BY <2>3, <3>1 DEF Keeps, Blank, Sent
      <3>3. QED
        BY <2>1, <3>2, QuietHeard
    <2>4. QED
      BY <1>5, <2>2, <2>3 DEF Denied
  <1>6. QED
    BY <1>1, <1>2, <1>3, <1>4, <1>5

LEMMA EndHeard ==
  ASSUME IInv, HeardInv, NEW k \in Call, LoseConnection(k) \/ Drop(k)
  PROVE  HeardInv'
  <1>1. UNCHANGED server /\ heard' = heard /\ local' \in {local, 0}
    BY DEF LoseConnection, Drop, RefreshFailed, Keep, browser
  <1>2. CASE Drop(k)
    <2>1. \A j \in Call : call'[j] = IF j = k THEN IdleCall ELSE call[j]
      BY <1>2 DEF Drop, IInv, TypeOK
    <2>2. QED
      BY <1>1, <2>1, QuietHeard DEF Keeps, Blank, IdleCall
  <1>3. CASE LoseConnection(k)
    <2>1. \A j \in Call : call'[j] = IF j = k THEN [call[k] EXCEPT !.tab = None] ELSE call[j]
      BY <1>3 DEF LoseConnection, IInv, TypeOK
    <2>2. \A j \in Call : Keeps(j)
      BY <2>1, CallFields DEF IInv, CallType, Keeps
    <2>3. QED
      BY <1>1, <2>2, QuietHeard
  <1>4. QED
    BY <1>2, <1>3

\* A pair is delivered: it becomes the pair of the storage, or is thrown away.
LEMMA DeliverHeard ==
  ASSUME IInv, PageInv, HeardInv, NEW k \in Call, UNCHANGED server,
         call[k].pc = "granted", call[k].tab # None,
         \A j \in Call : call'[j] = IF j = k THEN IdleCall ELSE call[j],
         \/ heard' = heard /\ local' \in {local, call[k].new, 0}
         \/ /\ call[k].kind = "refresh" /\ local' \in {call[k].new, 0}
            /\ heard' = [heard EXCEPT ![call[k].old] = call[k].tab]
  PROVE  HeardInv'
  <1> DEFINE n == call[k].new
  <1> USE DEF server
  <1>1. /\ UnheardOf(k) /\ n # 0 /\ n \in Pair /\ n \in stored /\ n \in Nat
        /\ call[k].old # n /\ heard[n] = None
    BY CallFields, NoPairs DEF HeardInv, UnheardOf, PairOf, IInv, Pair
  <1>2. \A m \in Pair : /\ heard'[m] # heard[m] => m = call[k].old /\ call[k].kind = "refresh"
                        /\ heard'[m] \in {heard[m], call[k].tab}
    BY DEF IInv, TypeOK
  <1>3. ASSUME NEW j \in Call PROVE UnheardOf(j)'
    <2>1. CASE j = k
      BY <2>1 DEF UnheardOf, IdleCall
    <2>2. CASE j # k /\ call[j].pc \in {"made", "locked", "granted"}
      <3>1. UnheardOf(j) /\ call[j].new \in Pair
        BY <2>2, CallFields, NoPairs DEF HeardInv, UnheardOf, IInv
      <3>2. call[j].new # n /\ call[j].new # call[k].old
        BY <2>2, <3>1 DEF UnheardOf
      <3>3. local' # call[j].new /\ heard'[call[j].new] = None
        BY <1>2, <2>2, <3>1, <3>2 DEF UnheardOf
      <3>4. /\ \A i \in Call : call'[i].old # call[j].new
            /\ \A i \in Call \ {j} : call'[i].pc \in {"made", "locked", "granted"} =>
                  call'[i].new # call[j].new
        BY <2>2, <3>1 DEF UnheardOf, IdleCall
      <3>5. QED
        BY <2>2, <3>1, <3>3, <3>4 DEF UnheardOf
    <2>3. CASE j # k /\ call[j].pc \notin {"made", "locked", "granted"}
      BY <2>3 DEF UnheardOf
    <2>4. QED
      BY <2>1, <2>2, <2>3
  <1>4. ASSUME NEW j \in Call PROVE PairOf(j)'
    BY DEF PairOf, HeardInv, IdleCall
  <1>5. ASSUME NEW j \in Call PROVE AsksOnce(j)'
    <2>1. CASE j # k /\ call[j].kind = "refresh" /\ call[j].tab # None
      <3>1. call[j].old \in Pair /\ heard[call[j].old] # call[j].tab
        BY <2>1, CallFields, NoPairs DEF HeardInv, AsksOnce, IInv, OnlyMadePairs
      <3>2. call[k].kind = "refresh" => call[j].tab # call[k].tab
        BY <2>1 DEF PageInv, OneRefreshPerPage
      <3>3. QED
        BY <1>2, <2>1, <3>1, <3>2 DEF AsksOnce
    <2>2. QED
      BY <2>1 DEF AsksOnce, IdleCall
  <1>6. TableIsAhead'
    <2>1. CASE local' = n
      <3>1. heard'[n] = None
        BY <1>1, <1>2
      <3>2. \A m \in stored : login[n] = login[m] => m = n
        BY <1>1 DEF IInv, OneTokenPerLogin
      <3>3. QED
        BY <1>1, <2>1, <3>1, <3>2 DEF TableIsAhead
    <2>2. CASE local' = 0
      BY <2>2 DEF TableIsAhead
    <2>3. CASE local' = local /\ heard' = heard
      BY <2>3 DEF TableIsAhead, HeardInv
    <2>4. QED
      BY <2>1, <2>2, <2>3
  <1>7. \A m \in Pair : heard'[m] # None => m <= made'
    <2>1. call[k].old <= made
      BY DEF IInv, OnlyMadePairs
    <2>2. QED
      BY <1>2, <2>1 DEF HeardInv
  <1>8. QED
    BY <1>3, <1>4, <1>5, <1>6, <1>7 DEF HeardInv

LEMMA ReceiveHeard ==
  ASSUME IInv, PageInv, HeardInv, NEW k \in Call, Receive(k)
  PROVE  HeardInv'
  <1>1. /\ UNCHANGED server /\ call[k].tab # None
        /\ \A j \in Call : call'[j] = IF j = k THEN IdleCall ELSE call[j]
        /\ call[k].pc \in {"granted", "refused"}
    BY DEF Receive, IInv, TypeOK
  <1>2. CASE call[k].pc = "refused"
    <2>1. heard' = heard /\ local' \in {local, 0}
      BY <1>2 DEF Receive, RefreshFailed, Keep
    <2>2. \A j \in Call : Keeps(j) \/ Blank(j)
      BY <1>1 DEF Keeps, Blank, IdleCall
    <2>3. QED
      BY <1>1, <2>1, <2>2, QuietHeard
  <1>3. CASE call[k].pc = "granted" /\ call[k].kind = "login"
    <2>1. heard' = heard /\ local' = call[k].new
      BY <1>3 DEF Receive, Keep
    <2>2. QED
      BY <1>1, <1>3, <2>1, DeliverHeard
  <1>4. CASE call[k].pc = "granted" /\ call[k].kind # "login"
    <2>1. call[k].kind = "refresh"
      BY <1>4, CallFields DEF IInv, CallType
    <2>2. /\ local' \in {call[k].new, 0}
          /\ heard' = [heard EXCEPT ![call[k].old] = call[k].tab]
      BY <1>4, <2>1 DEF Receive, Refreshed, RefreshFailed, Keep
    <2>3. QED
      BY <1>1, <1>4, <2>1, <2>2, DeliverHeard
  <1>5. QED
    BY <1>1, <1>2, <1>3, <1>4

\* A call that goes on in the service, or is refused, while no pair is made.
LEMMA ProgressHeard ==
  ASSUME IInv, HeardInv, NEW k \in Call, made' = made, login' = login, local' = local,
         heard' = heard, \A j \in Call \ {k} : call'[j] = call[j],
         /\ call'[k].kind = call[k].kind /\ call'[k].tab = call[k].tab
         /\ call'[k].old = call[k].old /\ call'[k].new = call[k].new,
         call[k].pc \in {"made", "locked"},
         call'[k].pc = "granted" => call[k].new \in stored',
         \A j \in Call \ {k} : call[j].pc = "granted" => call[j].new \in stored',
         TableIsAhead'
  PROVE  HeardInv'
  <1>1. ASSUME NEW j \in Call PROVE UnheardOf(j)'
    <2>1. \A i \in Call : /\ call'[i].old = call[i].old /\ call'[i].new = call[i].new
                          /\ call'[i].kind = call[i].kind
                          /\ call'[i].pc \in {"made", "locked", "granted"} =>
                                call[i].pc \in {"made", "locked", "granted"}
      OBVIOUS
    <2>2. UnheardOf(j)
      BY DEF HeardInv
    <2>3. QED
      BY <2>1, <2>2 DEF UnheardOf
  <1>2. ASSUME NEW j \in Call PROVE PairOf(j)'
    BY DEF HeardInv, PairOf
  <1>3. ASSUME NEW j \in Call PROVE AsksOnce(j)'
    BY DEF HeardInv, AsksOnce
  <1>4. QED
    BY <1>1, <1>2, <1>3 DEF HeardInv

LEMMA PcOfService ==
  ASSUME TypeOK, NEW k \in Call, NEW pc, call' = [call EXCEPT ![k].pc = pc]
  PROVE  /\ call'[k].pc = pc /\ call'[k].kind = call[k].kind /\ call'[k].tab = call[k].tab
         /\ call'[k].old = call[k].old /\ call'[k].new = call[k].new
         /\ \A j \in Call \ {k} : call'[j] = call[j]
  BY CallFields DEF TypeOK, CallType

LEMMA RefusedHeard ==
  ASSUME IInv, HeardInv, NEW k \in Call, UNCHANGED server, heard' = heard, local' = local,
         call' = [call EXCEPT ![k].pc = "refused"]
  PROVE  HeardInv'
  <1>1. \A j \in Call : Keeps(j)
    BY PcOfService DEF IInv, Keeps
  <1>2. QED
    BY <1>1, QuietHeard

LEMMA MakePairHeard ==
  ASSUME IInv, HeardInv, NEW k \in Call, MakePair(k)
  PROVE  HeardInv'
  <1>1. CASE call' = [call EXCEPT ![k].pc = "refused"] /\ UNCHANGED <<made, login>>
    BY <1>1, RefusedHeard DEF MakePair, server, browser
  <1>2. CASE /\ made < MaxPairs
             /\ made' = made + 1
             /\ login' = [login EXCEPT ![made + 1] =
                            IF call[k].kind = "login" THEN made + 1
                            ELSE login[call[k].old]]
             /\ call' = [call EXCEPT ![k] = Made(call[k], made + 1)]
    <2>0. UNCHANGED <<stored, holder, browser, heard>> /\ call[k].pc = "sent"
      BY DEF MakePair
    <2>1. /\ made \in Nat /\ made + 1 \in Pair /\ stored \subseteq 1 .. made
          /\ local \in 0 .. made /\ made + 1 # 0
      BY <1>2 DEF IInv, TypeOK, OnlyMadePairs, Pair, Pairs
    <2>2. /\ call'[k].pc = "made" /\ call'[k].new = made + 1
          /\ call'[k].kind = call[k].kind /\ call'[k].old = call[k].old
          /\ call'[k].tab = call[k].tab
          /\ \A j \in Call \ {k} : call'[j] = call[j]
      BY <1>2 DEF Made, IInv, TypeOK, CallType
    <2>3. /\ \A n \in 1 .. made : login'[n] = login[n]
          /\ call[k].kind = "login" => login'[made + 1] = made + 1
          /\ call[k].kind # "login" => login'[made + 1] = login[call[k].old]
      BY <1>2, <2>1 DEF IInv, TypeOK, Pair
    <2>4. \A j \in Call : /\ call[j].old \in 0 .. made /\ call[j].new \in 0 .. made
                          /\ call[j].kind \in {"login", "refresh"}
                          /\ call[j].kind = "refresh" => call[j].old \in 1 .. made
      BY <2>1 DEF IInv, TypeOK, CallType, OnlyMadePairs, Pairs
    <2>5. \A n \in 1 .. made : login[n] \in 0 .. made
      BY <2>1 DEF IInv, TypeOK, OnlyMadePairs, Pair, Pairs
    <2>6. \A n \in 1 .. made + 1 : n \in 1 .. made \/ n = made + 1
      BY <2>1
    <2>7. ASSUME NEW j \in Call PROVE UnheardOf(j)'
      <3>1. CASE j = k
        <4>1. heard[made + 1] = None
          BY <2>1 DEF HeardInv
        <4>2. \A i \in Call : call'[i].old # made + 1
          BY <2>1, <2>2, <2>4
        <4>3. \A i \in Call \ {k} : call'[i].new # made + 1
          BY <2>1, <2>2, <2>4
        <4>4. \A n \in 1 .. made : login'[n] # made + 1
          BY <2>1, <2>3, <2>5
        <4>5. \A n \in 1 .. made' : login'[n] = made + 1 => n = made + 1
          BY <1>2, <2>6, <4>4
        <4>6. local' # made + 1 /\ heard'[made + 1] = None
          BY <2>0, <2>1, <4>1 DEF browser
        <4>7. QED
          BY <2>1, <2>2, <3>1, <4>2, <4>3, <4>5, <4>6 DEF UnheardOf
      <3>2. CASE j # k /\ call[j].pc \in {"made", "locked", "granted"}
        <4>1. UnheardOf(j) /\ call'[j] = call[j]
          BY <2>2, <3>2 DEF HeardInv
        <4>2. \A i \in Call : call'[i].old # call[j].new
          BY <2>2, <3>2, <4>1 DEF UnheardOf
        <4>3. \A i \in Call \ {j} : call'[i].pc \in {"made", "locked", "granted"} =>
                 call'[i].new # call[j].new
          BY <2>1, <2>2, <2>4, <3>2, <4>1 DEF UnheardOf
        <4>4. call[j].kind = "login" => login'[made + 1] # call[j].new
          <5>1. CASE call[k].kind = "login"
            BY <2>1, <2>3, <2>4, <5>1
          <5>2. CASE call[k].kind # "login"
            BY <2>3, <2>4, <3>2, <4>1, <5>2 DEF UnheardOf
          <5>3. QED
            BY <5>1, <5>2
        <4>5. call[j].kind = "login" =>
                 \A n \in 1 .. made' : login'[n] = call[j].new => n = call[j].new
          BY <1>2, <2>3, <2>6, <3>2, <4>1, <4>4 DEF UnheardOf
        <4>6. QED
          BY <2>0, <3>2, <4>1, <4>2, <4>3, <4>5 DEF UnheardOf, browser
      <3>3. CASE j # k /\ call[j].pc \notin {"made", "locked", "granted"}
        BY <2>2, <3>3 DEF UnheardOf
      <3>4. QED
        BY <3>1, <3>2, <3>3
    <2>8. ASSUME NEW j \in Call PROVE PairOf(j)'
      <3>1. CASE j = k
        BY <2>1, <2>2, <2>4, <3>1 DEF PairOf, HeardInv
      <3>2. CASE j # k
        BY <2>0, <2>2, <3>2 DEF PairOf, HeardInv
      <3>3. QED
        BY <3>1, <3>2
    <2>9. ASSUME NEW j \in Call PROVE AsksOnce(j)'
      BY <2>0, <2>2 DEF AsksOnce, HeardInv
    <2>10. TableIsAhead'
      <3>1. /\ local' = local /\ heard' = heard /\ stored' = stored
            /\ local # 0 => login'[local] = login[local]
            /\ \A n \in stored : login'[n] = login[n]
        BY <2>0, <2>1, <2>3 DEF browser
      <3>2. QED
        BY <3>1 DEF TableIsAhead, HeardInv
    <2>11. \A n \in Pair : heard'[n] # None => n <= made'
      <3>1. \A n \in Pair : heard[n] # None => n <= made /\ n \in Nat
        BY DEF HeardInv, Pair
      <3>2. QED
        BY <1>2, <2>0, <2>1, <3>1
    <2>12. QED
      BY <2>7, <2>8, <2>9, <2>10, <2>11 DEF HeardInv
  <1>3. QED
    BY <1>1, <1>2 DEF MakePair

LEMMA StoreHeard == ASSUME IInv, HeardInv, NEW k \in Call, Store(k) PROVE HeardInv'
  <1> DEFINE n == call[k].new
  <1>0. /\ call[k].pc = "made" /\ call[k].kind = "login"
        /\ UNCHANGED <<holder, made, login, browser, heard>>
    BY DEF Store
  <1>1. CASE call' = [call EXCEPT ![k].pc = "refused"] /\ UNCHANGED stored
    BY <1>0, <1>1, RefusedHeard DEF server, browser
  <1>2. CASE stored' = stored \cup {n} /\ call' = [call EXCEPT ![k].pc = "granted"]
    <2>1. UnheardOf(k) /\ login[n] = n
      BY <1>0 DEF HeardInv, IInv, LineageOf
    <2>2. local # 0 => login[local] # n
      <3>1. local # 0 => local \in 1 .. made
        BY DEF IInv, TypeOK, OnlyMadePairs, Pairs
      <3>2. QED
        BY <1>0, <2>1, <3>1 DEF UnheardOf
    <2>3. TableIsAhead'
      BY <1>0, <1>2, <2>1, <2>2 DEF HeardInv, TableIsAhead, browser
    <2>4. \A j \in Call : call[j].pc = "granted" => call[j].new \in stored'
      BY <1>2 DEF HeardInv, PairOf
    <2>5. QED
      BY <1>0, <1>2, <2>3, <2>4, PcOfService, ProgressHeard DEF IInv, browser
  <1>3. QED
    BY <1>1, <1>2 DEF Store

LEMMA LockRowHeard == ASSUME IInv, HeardInv, NEW k \in Call, LockRow(k) PROVE HeardInv'
  <1>0. /\ call[k].pc = "made" /\ UNCHANGED <<stored, made, login, browser, heard>>
    BY DEF LockRow
  <1>1. CASE call' = [call EXCEPT ![k].pc = "refused"] /\ UNCHANGED holder
    BY <1>0, <1>1, RefusedHeard DEF server, browser
  <1>2. CASE call' = [call EXCEPT ![k].pc = "locked"]
    <2>1. TableIsAhead'
      BY <1>0 DEF HeardInv, TableIsAhead, browser
    <2>2. \A j \in Call : call[j].pc = "granted" => call[j].new \in stored'
      BY <1>0 DEF HeardInv, PairOf
    <2>3. QED
      BY <1>0, <1>2, <2>1, <2>2, PcOfService, ProgressHeard DEF IInv, browser
  <1>3. QED
    BY <1>1, <1>2 DEF LockRow

LEMMA RotateHeard == ASSUME IInv, HeardInv, NEW k \in Call, Rotate(k) PROVE HeardInv'
  <1> DEFINE n == call[k].old  m == call[k].new
  <1>0. /\ call[k].pc = "locked" /\ UNCHANGED <<made, login, browser, heard>>
    BY DEF Rotate
  <1>1. /\ n \in stored /\ login[m] = login[n] /\ n < m
        /\ n \in Nat /\ m \in Nat /\ local \in Nat
    BY <1>0, CallFields DEF HeardInv, PairOf, IInv, TypeOK, LineageOf, LockOf, Pairs
  <1>2. \A j \in Call \ {k} : call[j].pc = "granted" => call[j].new \in stored \ {n}
    BY DEF HeardInv, PairOf, UnheardOf
  <1>3. CASE call' = [call EXCEPT ![k].pc = "refused"] /\ UNCHANGED stored
    <2>1. TableIsAhead'
      BY <1>0, <1>3 DEF HeardInv, TableIsAhead, browser
    <2>2. QED
      BY <1>0, <1>2, <1>3, <2>1, PcOfService, ProgressHeard DEF IInv, browser
  <1>4. CASE call' = [call EXCEPT ![k].pc = "granted"] /\ stored' = (stored \ {n}) \cup {m}
    <2>1. local # 0 /\ login[local] = login[m] => local <= m
      BY <1>1 DEF HeardInv, TableIsAhead
    <2>2. TableIsAhead'
      BY <1>0, <1>4, <2>1 DEF HeardInv, TableIsAhead, browser
    <2>3. QED
      BY <1>0, <1>2, <1>4, <2>2, PcOfService, ProgressHeard DEF IInv, browser
  <1>5. QED
    BY <1>3, <1>4 DEF Rotate

LEMMA NextHeard == IInv /\ PageInv /\ HeardInv /\ [Next]_vars => HeardInv'
  <1> SUFFICES ASSUME IInv, PageInv, HeardInv, [Next]_vars PROVE HeardInv'
    OBVIOUS
  <1>1. CASE UNCHANGED vars
    BY <1>1, QuietHeard DEF vars, browser, Keeps
  <1>2. QED
    BY <1>1, BrowserHeard, EndHeard, ReceiveHeard, MakePairHeard, StoreHeard, LockRowHeard,
       RotateHeard DEF Next

LEMMA SessionsHeard == Spec => []HeardInv
  BY InitHeard, NextHeard, SessionsInvariance, SessionsPages, PTL DEF Spec

\* A page finds its token gone only for a cause of its own or of another tab: it was
\* given no new one for it, and none is on its way to it.
THEOREM RefusalsHaveACause == Spec => []RefusalHasACause
  <1>1. IInv /\ PageInv /\ HeardInv => RefusalHasACause
    <2> SUFFICES ASSUME IInv, PageInv, HeardInv, NEW k \in Call,
                        call[k].kind = "refresh", call[k].tab # None
                 PROVE  /\ heard[call[k].old] # call[k].tab
                        /\ \A j \in Call \ {k} :
                              ~(call[j].tab = call[k].tab /\ call[j].old = call[k].old)
      BY DEF RefusalHasACause
    <2>1. heard[call[k].old] # call[k].tab
      BY DEF HeardInv, AsksOnce
    <2>2. ASSUME NEW j \in Call \ {k}, call[j].tab = call[k].tab, call[j].old = call[k].old
          PROVE  FALSE
      <3>1. call[j].kind = "refresh"
        BY <2>2, CallFields DEF HeardInv, PairOf, IInv, OnlyMadePairs, CallType
      <3>2. QED
        BY <2>2, <3>1 DEF PageInv, OneRefreshPerPage
    <2>3. QED
      BY <2>1, <2>2
  <1>2. QED
    BY <1>1, SessionsInvariance, SessionsPages, SessionsHeard, PTL

\* A late answer never brings back a token that another tab has exchanged: the storage
\* only takes pairs that were delivered to it, and those are in the table.
THEOREM StorageNeverGoesBack == Spec => StorageMovesForward
  <1> DEFINE Forward ==
        local # 0 /\ local' # 0 /\ login[local] = login[local'] => local <= local'
  <1>1. IInv /\ HeardInv /\ [Next]_vars => [Forward]_vars
    <2> SUFFICES ASSUME IInv, HeardInv, Next PROVE Forward
      OBVIOUS
    <2>0. local \in Nat
      BY DEF IInv, TypeOK, Pairs
    <2>1. local' \in {local, 0} \/ \E k \in Call : call[k].pc = "granted" /\ local' = call[k].new
      <3>1. ASSUME NEW t \in Tab, Reload(t) \/ Render(t) \/ SignIn(t) \/ SignOut(t)
            PROVE  local' \in {local, 0}
        BY <3>1 DEF Reload, Render, SignIn, SignOut, Keep, browser
      <3>2. ASSUME NEW r \in Request, Send(r) \/ Answered(r) \/ Denied(r) \/ RetryFails(r)
            PROVE  local' \in {local, 0}
        BY <3>2 DEF Send, Answered, Denied, RetryFails, Keep
      <3>3. ASSUME NEW k \in Call, LoseConnection(k) \/ Drop(k)
            PROVE  local' \in {local, 0}
        BY <3>3 DEF LoseConnection, Drop, RefreshFailed, Keep, browser
      <3>4. ASSUME NEW k \in Call, MakePair(k) \/ Store(k) \/ LockRow(k) \/ Rotate(k)
            PROVE  local' \in {local, 0}
        BY <3>4 DEF MakePair, Store, LockRow, Rotate, browser
      <3>5. ASSUME NEW k \in Call, Receive(k)
            PROVE  local' \in {local, 0} \/ (call[k].pc = "granted" /\ local' = call[k].new)
        BY <3>5 DEF Receive, Refreshed, RefreshFailed, Keep
      <3>6. QED
        BY <3>1, <3>2, <3>3, <3>4, <3>5 DEF Next
    <2>2. ASSUME NEW k \in Call, call[k].pc = "granted", local' = call[k].new PROVE Forward
      BY <2>2 DEF HeardInv, PairOf, TableIsAhead
    <2>3. CASE local' \in {local, 0}
      BY <2>0, <2>3
    <2>4. QED
      BY <2>1, <2>2, <2>3
  <1>2. QED
    BY <1>1, SessionsInvariance, SessionsHeard, PTL DEF Spec, StorageMovesForward
-----------------------------------------------------------------------------
(* The refinement: Sessions implements TokenRotation.                        *)

LEMMA InitRotation == Init => Promise!Init /\ LoginsHaveNumbers
  <1> SUFFICES ASSUME Init PROVE Promise!Init /\ LoginsHaveNumbers
    OBVIOUS
  <1>1. \A k \in Call : call[k] = IdleCall /\ IdleCall.pc = "idle"
    BY DEF Init, IdleCall
  <1>2. TokensOf = [l \in Pair |-> {}]
    BY DEF Init, TokensOf
  <1>3. StageOf = [k \in Call |-> "none"] /\ GotOf = [k \in Call |-> 0]
    BY <1>1 DEF StageOf, GotOf, Meaning
  <1>4. 1 .. made = {}
    BY DEF Init
  <1>5. QED
    BY <1>2, <1>3, <1>4 DEF Promise!Init, LoginsHaveNumbers

\* A pair gets its login when it is made, and keeps it.
LEMMA NextLogins == IInv /\ LoginsHaveNumbers /\ [Next]_vars => LoginsHaveNumbers'
  <1> SUFFICES ASSUME IInv, LoginsHaveNumbers, [Next]_vars PROVE LoginsHaveNumbers'
    OBVIOUS
  <1>1. CASE UNCHANGED <<made, login>>
    BY <1>1 DEF LoginsHaveNumbers
  <1>2. ASSUME NEW k \in Call, MakePair(k) PROVE LoginsHaveNumbers'
    <2>1. CASE UNCHANGED <<made, login>>
      BY <1>1, <2>1
    <2>2. CASE /\ made < MaxPairs /\ made' = made + 1
               /\ login' = [login EXCEPT ![made + 1] =
                              IF call[k].kind = "login" THEN made + 1
                              ELSE login[call[k].old]]
      <3>0. made \in Nat /\ made < MaxPairs /\ MaxPairs \in Nat
        BY <2>2 DEF IInv, TypeOK, Pairs
      <3>1. made \in Nat /\ made + 1 \in Pair /\ login \in [Pair -> Pairs]
        BY <3>0 DEF IInv, TypeOK, Pair
      <3>2. call[k].kind # "login" => call[k].old \in 1 .. made
        BY <3>1, CallFields DEF IInv, OnlyMadePairs, CallType, Pairs
      <3>3. login'[made + 1] # 0
        BY <2>2, <3>1, <3>2 DEF LoginsHaveNumbers
      <3>4. \A n \in 1 .. made : login'[n] # 0
        BY <2>2, <3>1 DEF LoginsHaveNumbers, Pair
      <3>5. \A n \in 1 .. made + 1 : n \in 1 .. made \/ n = made + 1
        BY <3>1
      <3>6. QED
        BY <2>2, <3>3, <3>4, <3>5 DEF LoginsHaveNumbers
    <2>3. QED
      BY <1>2, <2>1, <2>2 DEF MakePair
  <1>3. QED
    BY <1>1, <1>2 DEF Next, vars, server, browser, Reload, Render, SignIn, SignOut, Send,
       Answered, Denied, RetryFails, Receive, LoseConnection, Drop, Store, LockRow, Rotate

LEMMA SameTokens ==
  ASSUME stored' = stored, \A n \in stored : login'[n] = login[n]
  PROVE  UNCHANGED TokensOf
  BY DEF TokensOf

\* A step that the promise does not see.
LEMMA NothingRotates ==
  ASSUME stored' = stored, \A n \in stored : login'[n] = login[n],
         \A j \in Call : /\ Meaning(call'[j].pc) = Meaning(call[j].pc)
                         /\ call'[j].old = call[j].old
                         /\ (call'[j].pc = "granted") = (call[j].pc = "granted")
                         /\ call[j].pc = "granted" => call'[j].new = call[j].new
  PROVE  UNCHANGED Promise!rotationVars
  <1>1. UNCHANGED StageOf /\ UNCHANGED OldOf /\ UNCHANGED GotOf
    BY DEF StageOf, OldOf, GotOf
  <1>2. QED
    BY <1>1, SameTokens DEF Promise!rotationVars

\* What a step shows of the one call that it changes.
LEMMA OneMovesOn ==
  ASSUME NEW k \in Call, \A j \in Call \ {k} : call'[j] = call[j]
  PROVE  /\ StageOf[k] = Meaning(call[k].pc) /\ OldOf[k] = call[k].old
         /\ StageOf' = [StageOf EXCEPT ![k] = Meaning(call'[k].pc)]
         /\ StageOf'[k] = Meaning(call'[k].pc)
         /\ GotOf' = [GotOf EXCEPT ![k] = IF call'[k].pc = "granted" THEN call'[k].new ELSE 0]
         /\ GotOf'[k] = IF call'[k].pc = "granted" THEN call'[k].new ELSE 0
         /\ Promise!OthersStay(k)
         /\ call'[k].old = call[k].old => UNCHANGED OldOf
  <1>1. StageOf' = [StageOf EXCEPT ![k] = Meaning(call'[k].pc)]
    BY DEF StageOf
  <1>2. GotOf' = [GotOf EXCEPT ![k] = IF call'[k].pc = "granted" THEN call'[k].new ELSE 0]
    BY DEF GotOf
  <1>3. Promise!OthersStay(k)
    BY DEF Promise!OthersStay, OldOf, GotOf
  <1>4. call'[k].old = call[k].old => UNCHANGED OldOf
    BY DEF OldOf
  <1>5. QED
    BY <1>1, <1>2, <1>3, <1>4 DEF StageOf, OldOf, GotOf

LEMMA CallAsks ==
  ASSUME NEW k \in Call, \A j \in Call \ {k} : call'[j] = call[j],
         UNCHANGED <<stored, login>>, call[k].pc = "idle", call'[k].pc = "sent"
  PROVE  Promise!Next
  <1>1. Meaning(call[k].pc) = "none" /\ Meaning(call'[k].pc) = "asked"
    BY DEF Meaning
  <1>2. Promise!Ask(k)
    BY <1>1, OneMovesOn, SameTokens DEF Promise!Ask
  <1>3. QED
    BY <1>1, <1>2, OneMovesOn DEF Promise!Next, Promise!Step

LEMMA CallEnds ==
  ASSUME NEW k \in Call, \A j \in Call \ {k} : call'[j] = call[j],
         UNCHANGED <<stored, login>>, call[k].pc \in {"granted", "refused"},
         call'[k].pc = "idle"
  PROVE  Promise!Next
  <1>1. Meaning(call[k].pc) \in {"granted", "refused"} /\ Meaning(call'[k].pc) = "none"
    BY DEF Meaning
  <1>2. Promise!End(k)
    BY <1>1, OneMovesOn, SameTokens DEF Promise!End
  <1>3. QED
    BY <1>1, <1>2, OneMovesOn DEF Promise!Next, Promise!Step

LEMMA CallRefused ==
  ASSUME TypeOK, NEW k \in Call, UNCHANGED <<stored, login>>,
         call[k].pc \in {"sent", "made", "locked"},
         call' = [call EXCEPT ![k].pc = "refused"]
  PROVE  Promise!Next
  <1>1. /\ \A j \in Call \ {k} : call'[j] = call[j]
        /\ call'[k].pc = "refused" /\ call'[k].old = call[k].old
    BY PcOfService
  <1>2. Meaning(call[k].pc) = "asked" /\ Meaning(call'[k].pc) = "refused"
    BY <1>1 DEF Meaning
  <1>3. UNCHANGED GotOf
    BY <1>1 DEF GotOf
  <1>4. Promise!Refuse(k)
    BY <1>1, <1>2, <1>3, OneMovesOn, SameTokens DEF Promise!Refuse
  <1>5. QED
    BY <1>1, <1>2, <1>4, OneMovesOn DEF Promise!Next, Promise!Step

\* A call that is granted its pair has put it into the table.
LEMMA CallGranted ==
  ASSUME TypeOK, NEW k \in Call, NEW l \in Pair, UNCHANGED login,
         call[k].pc \in {"made", "locked"},
         call' = [call EXCEPT ![k].pc = "granted"],
         TokensOf' = [TokensOf EXCEPT ![l] = {call[k].new}]
  PROVE  /\ Promise!Grant(k, l, call[k].new)
         /\ StageOf[k] = "asked" /\ StageOf'[k] # StageOf[k] /\ OldOf[k] = call[k].old
  <1>1. /\ \A j \in Call \ {k} : call'[j] = call[j]
        /\ call'[k].pc = "granted" /\ call'[k].old = call[k].old /\ call'[k].new = call[k].new
    BY PcOfService
  <1>2. Meaning(call[k].pc) = "asked" /\ Meaning(call'[k].pc) = "granted"
    BY <1>1 DEF Meaning
  <1>3. QED
    BY <1>1, <1>2, OneMovesOn DEF Promise!Grant

LEMMA StoreRotation ==
  ASSUME IInv, HeardInv, NEW k \in Call, Store(k) PROVE Promise!Next
  <1> DEFINE n == call[k].new
  <1>0. /\ call[k].pc = "made" /\ call[k].kind = "login" /\ login' = login /\ TypeOK
    BY DEF Store, IInv
  <1>1. CASE call' = [call EXCEPT ![k].pc = "refused"] /\ UNCHANGED stored
    BY <1>0, <1>1, CallRefused
  <1>2. CASE stored' = stored \cup {n} /\ call' = [call EXCEPT ![k].pc = "granted"]
    <2>1. /\ n \in Pair /\ login[n] = n /\ call[k].old = 0
          /\ \A m \in stored : login[m] # n
      BY <1>0, CallFields DEF IInv, LineageOf, Pair, Pairs, HeardInv, PairOf
    <2>2. TokensOf[n] = {}
      BY <2>1 DEF TokensOf
    <2>3. TokensOf' = [TokensOf EXCEPT ![n] = {n}]
      BY <1>0, <1>2, <2>1 DEF TokensOf
    <2>4. /\ Promise!Grant(k, n, n)
          /\ StageOf[k] = "asked" /\ StageOf'[k] # StageOf[k] /\ OldOf[k] = call[k].old
      BY <1>0, <1>2, <2>1, <2>3, CallGranted
    <2>5. Promise!Open(k)
      BY <2>1, <2>2, <2>4 DEF Promise!Open
    <2>6. QED
      BY <2>4, <2>5 DEF Promise!Next, Promise!Step
  <1>3. QED
    BY <1>1, <1>2 DEF Store

LEMMA RotateRotation ==
  ASSUME IInv, HeardInv, LoginsHaveNumbers, NEW k \in Call, Rotate(k) PROVE Promise!Next
  <1> DEFINE n == call[k].old  m == call[k].new  l == login[n]
  <1>0. /\ call[k].pc = "locked" /\ login' = login /\ TypeOK
    BY DEF Rotate, IInv
  <1>1. CASE call' = [call EXCEPT ![k].pc = "refused"] /\ UNCHANGED stored
    BY <1>0, <1>1, CallRefused
  <1>2. CASE call' = [call EXCEPT ![k].pc = "granted"] /\ stored' = (stored \ {n}) \cup {m}
    <2>1. /\ n \in stored /\ n \in Pair /\ m \in Pair /\ login[m] = l /\ n < m
          /\ n \in 1 .. made
      BY <1>0, CallFields DEF HeardInv, PairOf, IInv, TypeOK, LineageOf, LockOf,
         OnlyMadePairs, Pair, Pairs
    <2>2. l \in Pair
      BY <2>1 DEF LoginsHaveNumbers, IInv, TypeOK, Pair, Pairs
    <2>3. \A i \in stored : login[i] = l => i = n
      BY <2>1 DEF IInv, OneTokenPerLogin
    <2>4. TokensOf[l] = {n}
      BY <2>1, <2>2, <2>3 DEF TokensOf
    <2>5. TokensOf' = [TokensOf EXCEPT ![l] = {m}]
      BY <1>0, <1>2, <2>1, <2>2, <2>3 DEF TokensOf
    <2> HIDE DEF l
    <2>6. /\ Promise!Grant(k, l, m)
          /\ StageOf[k] = "asked" /\ StageOf'[k] # StageOf[k] /\ OldOf[k] = n
      BY <1>0, <1>2, <2>2, <2>5, CallGranted
    <2>7. n # 0 /\ m > n
      BY <2>1 DEF Pair
    <2>8. Promise!Exchange(k)
      BY <2>1, <2>2, <2>4, <2>6, <2>7 DEF Promise!Exchange
    <2>9. QED
      BY <2>6, <2>8 DEF Promise!Next, Promise!Step
  <1>3. QED
    BY <1>1, <1>2 DEF Rotate

LEMMA BrowserRotation ==
  ASSUME IInv, Next,
         \A k \in Call : ~(MakePair(k) \/ Store(k) \/ LockRow(k) \/ Rotate(k))
  PROVE  Promise!Next \/ UNCHANGED Promise!rotationVars
  <1>0. UNCHANGED <<stored, login>> /\ TypeOK
    BY DEF Next, server, IInv, Reload, Render, SignIn, SignOut, Send, Answered, Denied,
       RetryFails, Receive, LoseConnection, Drop
  <1>1. CASE \A j \in Call : Same(j)
    BY <1>0, <1>1, NothingRotates DEF Same
  <1>2. ASSUME NEW k \in Call, call[k].pc = "idle", NEW kind, NEW t, NEW old,
               call' = [call EXCEPT ![k] = Sent(kind, t, old)]
        PROVE  Promise!Next
    <2>1. call'[k].pc = "sent" /\ \A j \in Call \ {k} : call'[j] = call[j]
      BY <1>0, <1>2 DEF TypeOK, Sent
    <2>2. QED
      BY <1>0, <1>2, <2>1, CallAsks
  <1>3. ASSUME NEW k \in Call, call[k].pc \in {"granted", "refused"},
               call' = [call EXCEPT ![k] = IdleCall]
        PROVE  Promise!Next
    <2>1. call'[k].pc = "idle" /\ \A j \in Call \ {k} : call'[j] = call[j]
      BY <1>0, <1>3 DEF TypeOK, IdleCall
    <2>2. QED
      BY <1>0, <1>3, <2>1, CallEnds
  <1>4. ASSUME NEW t \in Tab, Reload(t) PROVE \A j \in Call : Same(j)
    BY <1>0, <1>4 DEF Reload, Same
  <1>5. ASSUME NEW k \in Call, LoseConnection(k) PROVE \A j \in Call : Same(j)
    <2>1. call' = [call EXCEPT ![k].tab = None]
      BY <1>5 DEF LoseConnection
    <2>2. \A j \in Call :
             call'[j] = IF j = k THEN [call[j] EXCEPT !.tab = None] ELSE call[j]
      BY <1>0, <2>1 DEF TypeOK
    <2>3. \A j \in Call :
             /\ [call[j] EXCEPT !.tab = None].pc = call[j].pc
             /\ [call[j] EXCEPT !.tab = None].kind = call[j].kind
             /\ [call[j] EXCEPT !.tab = None].old = call[j].old
             /\ [call[j] EXCEPT !.tab = None].new = call[j].new
      BY <1>0 DEF TypeOK, CallType
    <2>4. QED
      BY <2>2, <2>3 DEF Same
  <1>6. ASSUME UNCHANGED call PROVE \A j \in Call : Same(j)
    BY <1>6 DEF Same
  <1>7. ASSUME NEW t \in Tab, SignIn(t) PROVE Promise!Next
    <2>1. PICK k \in Call :
            call[k].pc = "idle" /\ call' = [call EXCEPT ![k] = Sent("login", t, 0)]
      BY <1>7 DEF SignIn
    <2>2. QED
      BY <1>2, <2>1
  <1>8. ASSUME NEW r \in Request, Denied(r) PROVE Promise!Next \/ UNCHANGED call
    <2>1. CASE UNCHANGED call
      BY <2>1
    <2>2. ASSUME NEW k \in Call, call[k].pc = "idle",
                 call' = [call EXCEPT ![k] = Sent("refresh", request[r].tab, local)]
          PROVE  Promise!Next
      BY <1>2, <2>2
    <2>3. QED
      BY <1>8, <2>1, <2>2 DEF Denied
  <1>9. ASSUME NEW k \in Call, Receive(k) \/ Drop(k) PROVE Promise!Next
    <2>1. call[k].pc \in {"granted", "refused"} /\ call' = [call EXCEPT ![k] = IdleCall]
      BY <1>9 DEF Receive, Drop
    <2>2. QED
      BY <1>3, <2>1
  <1>10. ASSUME NEW t \in Tab, Render(t) \/ SignOut(t) PROVE UNCHANGED call
    BY <1>10 DEF Render, SignOut
  <1>11. ASSUME NEW r \in Request, Send(r) \/ Answered(r) \/ RetryFails(r)
         PROVE  UNCHANGED call
    BY <1>11 DEF Send, Answered, RetryFails
  <1>12. QED
    BY <1>1, <1>4, <1>5, <1>6, <1>7, <1>8, <1>9, <1>10, <1>11 DEF Next

LEMMA MakePairRotation ==
  ASSUME IInv, NEW k \in Call, MakePair(k)
  PROVE  Promise!Next \/ UNCHANGED Promise!rotationVars
  <1>0. TypeOK /\ call[k].pc = "sent" /\ stored' = stored
    BY DEF MakePair, IInv
  <1>1. CASE call' = [call EXCEPT ![k].pc = "refused"] /\ UNCHANGED <<made, login>>
    BY <1>0, <1>1, CallRefused
  <1>2. CASE /\ made < MaxPairs /\ call' = [call EXCEPT ![k] = Made(call[k], made + 1)]
             /\ login' = [login EXCEPT ![made + 1] =
                            IF call[k].kind = "login" THEN made + 1
                            ELSE login[call[k].old]]
    <2>1. /\ call'[k].pc = "made" /\ call'[k].old = call[k].old
          /\ \A j \in Call \ {k} : call'[j] = call[j]
      BY <1>0, <1>2 DEF TypeOK, Made
    <2>2. \A n \in stored : n \in Pair /\ n <= made /\ made \in Nat
      BY <1>0 DEF IInv, TypeOK, OnlyMadePairs, Pairs
    <2>3. \A n \in stored : login'[n] = login[n]
      BY <1>0, <1>2, <2>2 DEF TypeOK, Pair
    <2>4. Meaning(call'[k].pc) = Meaning(call[k].pc)
      BY <1>0, <2>1 DEF Meaning
    <2>5. QED
      BY <1>0, <2>1, <2>3, <2>4, NothingRotates
  <1>3. QED
    BY <1>1, <1>2 DEF MakePair

LEMMA LockRowRotation ==
  ASSUME IInv, NEW k \in Call, LockRow(k)
  PROVE  Promise!Next \/ UNCHANGED Promise!rotationVars
  <1>0. TypeOK /\ call[k].pc = "made" /\ UNCHANGED <<stored, login>>
    BY DEF LockRow, IInv
  <1>1. CASE call' = [call EXCEPT ![k].pc = "refused"]
    BY <1>0, <1>1, CallRefused
  <1>2. CASE call' = [call EXCEPT ![k].pc = "locked"]
    <2>1. /\ call'[k].pc = "locked" /\ call'[k].old = call[k].old
          /\ \A j \in Call \ {k} : call'[j] = call[j]
      BY <1>0, <1>2, PcOfService
    <2>2. Meaning(call'[k].pc) = Meaning(call[k].pc)
      BY <1>0, <2>1 DEF Meaning
    <2>3. QED
      BY <1>0, <2>1, <2>2, NothingRotates
  <1>3. QED
    BY <1>1, <1>2 DEF LockRow

\* Every step is one that the promise allows, or none.
LEMMA NextRotation ==
  IInv /\ HeardInv /\ LoginsHaveNumbers /\ [Next]_vars
    => [Promise!Next]_Promise!rotationVars
  <1> SUFFICES ASSUME IInv, HeardInv, LoginsHaveNumbers, [Next]_vars
               PROVE  Promise!Next \/ UNCHANGED Promise!rotationVars
    OBVIOUS
  <1>1. CASE UNCHANGED vars
    BY <1>1, NothingRotates DEF vars, server
  <1>2. ASSUME NEW k \in Call, MakePair(k) \/ LockRow(k)
        PROVE  Promise!Next \/ UNCHANGED Promise!rotationVars
    BY <1>2, MakePairRotation, LockRowRotation
  <1>3. ASSUME NEW k \in Call, Store(k) \/ Rotate(k) PROVE Promise!Next
    BY <1>3, StoreRotation, RotateRotation
  <1>4. CASE /\ Next
             /\ \A k \in Call : ~(MakePair(k) \/ Store(k) \/ LockRow(k) \/ Rotate(k))
    BY <1>4, BrowserRotation
  <1>5. QED
    BY <1>1, <1>2, <1>3, <1>4

\* Whatever the transactions read and lock between each other's statements, whichever
\* answers are lost and however many tabs use one storage: a refresh exchanges, at one
\* moment, the very token that it was sent for a newer one of its login (RotateRefreshToken),
\* and a call that is refused changes nothing.
THEOREM RefreshesExchangeTokens == Spec => ImplementsRotation
  <1>1. Init => LoginsHaveNumbers /\ Promise!Init
    BY InitRotation
  <1>2. QED
    BY <1>1, SessionsInvariance, SessionsHeard, NextLogins, NextRotation, PTL
       DEF Spec, ImplementsRotation, Promise!Spec
=============================================================================
