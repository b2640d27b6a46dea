------------------------ MODULE ServiceWorker_proof ------------------------
(***************************************************************************)
(* Proofs about ServiceWorker with its server, for every set of sockets    *)
(* and requests and every choice of those with a body.                     *)
(*                                                                         *)
(* The invariant says where a request can be: in pendingRequests exactly   *)
(* while it may be answered, in one message on its way, or at the server.  *)
(* It needs no type of what the server sends: an identifier that is not    *)
(* pending changes nothing.                                                *)
(***************************************************************************)
EXTENDS ServiceWorker, TLAPS

States == {"new", "loading", "waiting", "sent", "response", "network", "failed"}

HttpIsTyped == http \in [Req -> Seq(Socket)]

PendingIsSent == \A r \in pending : req[r] = "sent"

RequestsInv == SentIsPending /\ PendingIsSent

-----------------------------------------------------------------------------
(* Where a request is. *)

Places(s) == 1..Len(toServer[s])

Carries(s, i, r) ==
    toServer[s][i].type = "enc" /\ toServer[s][i].body = HttpRequest(r)

InFlight(r) == \E s \in Socket : \E i \in Places(s) : Carries(s, i, r)

(* r has not left the worker. *)
Unsent(r) == \/ req[r] \in {"new", "loading", "waiting"}
             \/ req[r] = "network" /\ r \in WithBody

AtMostOnce(r) ==
    \A s, t \in Socket : \A i \in Places(s), j \in Places(t) :
        Carries(s, i, r) /\ Carries(t, j, r) => s = t /\ i = j

SentOnce(r) ==
    /\ AtMostOnce(r)
    /\ Unsent(r) => ~InFlight(r)
    /\ Unsent(r) \/ InFlight(r) => http[r] = <<>>

(* The worker opens no WebSockets: all its envelopes hold requests. *)
OnlyRequests ==
    \A s \in Socket : \A i \in Places(s) :
        toServer[s][i].type = "enc" => toServer[s][i].body.type = "http_request"

WireInv == OnlyRequests /\ \A r \in Req : SentOnce(r)

IInv == TypeOK /\ HttpIsTyped /\ RequestsInv /\ WireInv

(* IInv implies the property the run checks. *)
LEMMA OnceImplies == IInv => BodiesSentOnce
BY BodyAssumption DEF IInv, WireInv, SentOnce, Unsent, BodiesSentOnce

LEMMA InitIInv == Init => IInv
<1>. SUFFICES ASSUME Init PROVE IInv
  OBVIOUS
<1>1. TypeOK
  <2>1. toServer \in [Socket -> Seq(ClientMsg)]
    BY DEF Init
  <2>. QED
    BY <2>1 DEF Init, TypeOK
<1>2. HttpIsTyped /\ RequestsInv
  BY DEF Init, Srv!Init, HttpIsTyped, RequestsInv, SentIsPending, PendingIsSent
<1>3. \A s \in Socket : Places(s) = {}
  BY DEF Init, Places
<1>4. WireInv
  BY <1>3 DEF Init, Srv!Init, WireInv, OnlyRequests, SentOnce, AtMostOnce, InFlight
<1>. QED
  BY <1>1, <1>2, <1>4 DEF IInv

-----------------------------------------------------------------------------
(* What keeps each part. *)

LEMMA RequestsKept ==
    ASSUME RequestsInv, UNCHANGED <<req, pending>>
    PROVE  RequestsInv'
BY DEF RequestsInv, SentIsPending, PendingIsSent

(* Requests move on, and nothing is sent. *)
LEMMA WireKept ==
    ASSUME WireInv, UNCHANGED <<toServer, http>>,
           \A r \in Req : Unsent(r)' => Unsent(r)
    PROVE  WireInv'
<1>1. OnlyRequests'
  BY DEF WireInv, OnlyRequests, Places
<1>2. ASSUME NEW r \in Req
      PROVE  SentOnce(r)'
  BY DEF WireInv, SentOnce, AtMostOnce, InFlight, Places, Carries
<1>. QED
  BY <1>1, <1>2 DEF WireInv

(* What a request falls back to when it is rejected or never sent. *)
LEMMA FallsBack ==
    ASSUME NEW r \in Req
    PROVE  /\ FallBack(r) \in {"network", "failed"}
           /\ req[r] = "sent" /\ r \in WithBody => FallBack(r) = "failed"
BY DEF FallBack

(* The end of a socket rejects everything that is pending. *)
LEMMA RejectIsSound ==
    ASSUME IInv, req' = RejectPending, pending' = {}
    PROVE  /\ req' \in [Req -> States]
           /\ pending' \subseteq Req
           /\ RequestsInv'
           /\ \A r \in Req : Unsent(r)' => Unsent(r)
<1>1. \A r \in Req : req'[r] = IF r \in pending THEN FallBack(r) ELSE req[r]
  BY DEF RejectPending
<1>2. req' \in [Req -> States]
  BY FallsBack DEF IInv, TypeOK, RejectPending, States
<1>3. RequestsInv'
  BY <1>1, FallsBack DEF IInv, RequestsInv, SentIsPending, PendingIsSent
<1>4. ASSUME NEW r \in Req, Unsent(r)'
      PROVE  Unsent(r)
  <2>1. CASE r \in pending
    <3>1. req[r] = "sent" /\ req'[r] = FallBack(r)
      BY <1>1, <2>1 DEF IInv, RequestsInv, PendingIsSent
    <3>. QED
      BY <1>4, <3>1, FallsBack DEF Unsent
  <2>2. CASE r \notin pending
    BY <1>1, <1>4, <2>2 DEF Unsent
  <2>. QED
    BY <2>1, <2>2
<1>. QED
  BY <1>2, <1>3, <1>4

-----------------------------------------------------------------------------
(* The ways in which toServer changes. *)

Older(x, i) == i \in Places(x) /\ toServer'[x][i] = toServer[x][i]

LEMMA SentUplink ==
    ASSUME TypeOK, NEW m \in ClientMsg, WsSend(m)
    PROVE  /\ toServer' \in [Socket -> Seq(ClientMsg)]
           /\ \A x \in Socket : \A i \in Places(x)' :
                 \/ Older(x, i)
                 \/ /\ x = ws /\ i = Len(toServer[ws]) + 1
                    /\ toServer'[x][i] = m
<1>1. toServer \in [Socket -> Seq(ClientMsg)]
  BY DEF TypeOK
<1>2. CASE toServer' = toServer
  BY <1>1, <1>2 DEF Places, Older
<1>3. CASE ws \in Socket /\ toServer' = [toServer EXCEPT ![ws] = Append(@, m)]
  <2>1. \A x \in Socket : x # ws => toServer'[x] = toServer[x]
    BY <1>1, <1>3
  <2>2. toServer'[ws] = Append(toServer[ws], m)
    BY <1>1, <1>3
  <2>3. toServer' \in [Socket -> Seq(ClientMsg)]
    BY <1>1, <1>3
  <2>4. ASSUME NEW i \in 1..Len(Append(toServer[ws], m))
        PROVE  \/ /\ i \in 1..Len(toServer[ws])
                  /\ Append(toServer[ws], m)[i] = toServer[ws][i]
               \/ i = Len(toServer[ws]) + 1 /\ Append(toServer[ws], m)[i] = m
    BY <1>1, <1>3
  <2>5. ASSUME NEW x \in Socket, x # ws, NEW i \in Places(x)'
        PROVE  Older(x, i)
    BY <2>1, <2>5 DEF Places, Older
  <2>6. ASSUME NEW x \in Socket, x = ws, NEW i \in Places(x)'
        PROVE  \/ Older(x, i)
               \/ i = Len(toServer[ws]) + 1 /\ toServer'[x][i] = m
    BY <2>2, <2>4, <2>6 DEF Places, Older
  <2>. QED
    BY <2>3, <2>5, <2>6
<1>4. ws \notin Socket => toServer' = toServer
  BY <1>1 DEF WsSend
<1>. QED
  BY <1>2, <1>3, <1>4 DEF WsSend

(* The server takes the first message of s, or the end of s drops them all. *)
Drains(s) ==
    \/ toServer[s] # <<>> /\ toServer' = [toServer EXCEPT ![s] = Tail(@)]
    \/ toServer' = [toServer EXCEPT ![s] = <<>>]

Place(s, x, i) == IF x = s THEN i + 1 ELSE i

LEMMA DrainedUplink ==
    ASSUME TypeOK, NEW s \in Socket, Drains(s)
    PROVE  /\ toServer' \in [Socket -> Seq(ClientMsg)]
           /\ \A x \in Socket : \A i \in Places(x)' :
                 /\ Place(s, x, i) \in Places(x)
                 /\ toServer'[x][i] = toServer[x][Place(s, x, i)]
<1>1. toServer \in [Socket -> Seq(ClientMsg)]
  BY DEF TypeOK
<1>2. CASE toServer[s] # <<>> /\ toServer' = [toServer EXCEPT ![s] = Tail(@)]
  <2>1. toServer'[s] = Tail(toServer[s]) /\ toServer' \in [Socket -> Seq(ClientMsg)]
    BY <1>1, <1>2
  <2>2. \A i \in 1..Len(Tail(toServer[s])) :
          i + 1 \in 1..Len(toServer[s]) /\ Tail(toServer[s])[i] = toServer[s][i + 1]
    BY <1>1, <1>2
  <2>3. \A x \in Socket : x # s => toServer'[x] = toServer[x]
    BY <1>1, <1>2
  <2>. QED
    BY <2>1, <2>2, <2>3 DEF Places, Place
<1>3. CASE toServer' = [toServer EXCEPT ![s] = <<>>]
  <2>1. toServer'[s] = <<>> /\ toServer' \in [Socket -> Seq(ClientMsg)]
    BY <1>1, <1>3
  <2>2. Places(s)' = {}
    BY <2>1 DEF Places
  <2>3. \A x \in Socket : x # s => toServer'[x] = toServer[x]
    BY <1>1, <1>3
  <2>. QED
    BY <2>1, <2>2, <2>3 DEF Places, Place
<1>. QED
  BY <1>2, <1>3 DEF Drains

LEMMA DrainedIsOnce ==
    ASSUME TypeOK, NEW s \in Socket, Drains(s), NEW r \in Req
    PROVE  /\ AtMostOnce(r) => AtMostOnce(r)'
           /\ InFlight(r)' => InFlight(r)
           /\ AtMostOnce(r) /\ 1 \in Places(s) /\ Carries(s, 1, r) => ~InFlight(r)'
<1>1. ASSUME NEW x \in Socket, NEW i \in Places(x)', Carries(x, i, r)'
      PROVE  Place(s, x, i) \in Places(x) /\ Carries(x, Place(s, x, i), r)
  BY <1>1, DrainedUplink DEF Carries
<1>2. \A x \in Socket : \A i, j \in Places(x)' :
        /\ Place(s, x, i) = Place(s, x, j) => i = j
        /\ Place(s, s, i) # 1
  BY DEF Place, Places
<1>3. AtMostOnce(r) => AtMostOnce(r)'
  BY <1>1, <1>2 DEF AtMostOnce
<1>4. InFlight(r)' => InFlight(r)
  BY <1>1 DEF InFlight
<1>5. AtMostOnce(r) /\ 1 \in Places(s) /\ Carries(s, 1, r) => ~InFlight(r)'
  BY <1>1, <1>2 DEF AtMostOnce, InFlight
<1>. QED
  BY <1>3, <1>4, <1>5

LEMMA DrainedOnlyRequests ==
    ASSUME TypeOK, NEW s \in Socket, Drains(s), OnlyRequests
    PROVE  OnlyRequests'
BY DrainedUplink DEF OnlyRequests

-----------------------------------------------------------------------------
(* Requests. *)

LEMMA InterceptIInv ==
    ASSUME IInv, NEW r \in Req, Intercept(r) \/ Loaded(r), UNCHANGED serverVars
    PROVE  IInv'
<1>. USE DEF serverVars, serverState
<1>1. /\ \/ req' = [req EXCEPT ![r] = "waiting"]
         \/ req' = [req EXCEPT ![r] = "loading"]
      /\ req[r] \in {"new", "loading"}
      /\ UNCHANGED <<sodium, settled, symKey, pending, toServer, http>>
  BY DEF Intercept, Loaded, Await, NewSocket
<1>2. TypeOK'
  <2>1. \A q \in Req, p \in Socket \cup {NoSocket} : Await(q, p) =>
          /\ reqAwaits' \in [Req -> Socket \cup {NoSocket}]
          /\ UNCHANGED <<ws, rs, promise>>
    BY DEF IInv, TypeOK, Await
  <2>2. NewSocket(r) =>
          /\ reqAwaits' \in [Req -> Socket \cup {NoSocket}]
          /\ ws' \in Socket /\ promise' \in Socket
          /\ rs' \in [Socket -> {"none", "connecting", "open", "closing", "failed", "closed"}]
    BY DEF IInv, TypeOK, NewSocket
  <2>3. /\ reqAwaits' \in [Req -> Socket \cup {NoSocket}]
        /\ ws' \in Socket \cup {NoSocket} /\ promise' \in Socket \cup {NoSocket}
        /\ rs' \in [Socket -> {"none", "connecting", "open", "closing", "failed", "closed"}]
    BY <2>1, <2>2 DEF IInv, TypeOK, Intercept, Loaded
  <2>4. req' \in [Req -> States]
    BY <1>1 DEF IInv, TypeOK, States
  <2>. QED
    BY <1>1, <2>3, <2>4 DEF IInv, TypeOK, States
<1>3. RequestsInv'
  BY <1>1 DEF IInv, TypeOK, RequestsInv, SentIsPending, PendingIsSent
<1>4. WireInv'
  <2>1. \A q \in Req : Unsent(q)' => Unsent(q)
    BY <1>1 DEF IInv, TypeOK, Unsent
  <2>. QED
    BY <1>1, <2>1, WireKept DEF IInv
<1>. QED
  BY <1>1, <1>2, <1>3, <1>4 DEF IInv, HttpIsTyped

LEMMA SodiumReadyIInv ==
    ASSUME IInv, SodiumReady, UNCHANGED serverVars
    PROVE  IInv'
<1>. USE DEF SodiumReady, serverVars, serverState
<1>1. WireInv'
  <2>1. \A q \in Req : Unsent(q)' => Unsent(q)
    BY DEF Unsent
  <2>. QED
    BY <2>1, WireKept DEF IInv
<1>. QED
  BY <1>1, RequestsKept DEF IInv, TypeOK, HttpIsTyped

LEMMA SendIInv ==
    ASSUME IInv, NEW r \in Req, Send(r), UNCHANGED serverVars
    PROVE  IInv'
<1>. USE DEF serverVars, serverState
<1>1. /\ req[r] = "waiting"
      /\ UNCHANGED <<sodium, ws, rs, promise, settled, symKey, reqAwaits, http>>
  BY DEF Send
<1>2. CASE CannotSend
  <2>1. /\ req' = [req EXCEPT ![r] = IF r \in WithBody THEN "failed" ELSE "network"]
        /\ UNCHANGED <<pending, toServer>>
    BY <1>2 DEF Send
  <2>2. TypeOK' /\ HttpIsTyped'
    BY <1>1, <2>1 DEF IInv, TypeOK, HttpIsTyped
  <2>3. RequestsInv'
    BY <1>1, <2>1 DEF IInv, TypeOK, RequestsInv, SentIsPending, PendingIsSent
  <2>4. \A q \in Req : Unsent(q)' => Unsent(q)
    BY <1>1, <2>1 DEF IInv, TypeOK, Unsent
  <2>. QED
    BY <1>1, <2>1, <2>2, <2>3, <2>4, WireKept DEF IInv
<1>3. CASE ~CannotSend
  <2>. DEFINE m == Enc(symKey, HttpRequest(r))
  <2>1. /\ req' = [req EXCEPT ![r] = "sent"]
        /\ pending' = pending \cup {r}
        /\ WsSend(m)
    BY <1>3 DEF Send
  <2>2. /\ m \in ClientMsg
        /\ m.type = "enc" /\ m.body = HttpRequest(r) /\ m.body.type = "http_request"
        /\ \A q \in Req : m.body = HttpRequest(q) => q = r
    BY <1>3 DEF CannotSend, IInv, TypeOK, Enc, HttpRequest, ClientMsg, ClientBody
  <2>. HIDE DEF m
  <2>3. /\ toServer' \in [Socket -> Seq(ClientMsg)]
        /\ \A x \in Socket : \A i \in Places(x)' :
              \/ Older(x, i)
              \/ x = ws /\ i = Len(toServer[ws]) + 1 /\ toServer'[x][i] = m
    BY <2>1, <2>2, SentUplink DEF IInv
  <2>4. TypeOK' /\ HttpIsTyped'
    BY <1>1, <2>1, <2>3 DEF IInv, TypeOK, HttpIsTyped
  <2>5. RequestsInv'
    BY <1>1, <2>1 DEF IInv, TypeOK, RequestsInv, SentIsPending, PendingIsSent
  <2>6. OnlyRequests'
    BY <2>2, <2>3 DEF IInv, WireInv, OnlyRequests, Older
  <2>7. ASSUME NEW q \in Req, q # r
        PROVE  SentOnce(q)'
    <3>1. ASSUME NEW x \in Socket, NEW i \in Places(x)', Carries(x, i, q)'
          PROVE  i \in Places(x) /\ Carries(x, i, q)
      BY <2>2, <2>3, <2>7, <3>1 DEF Carries, Older
    <3>2. Unsent(q)' => Unsent(q)
      BY <2>1, <2>7 DEF IInv, TypeOK, Unsent
    <3>3. AtMostOnce(q)'
      BY <3>1 DEF IInv, WireInv, SentOnce, AtMostOnce
    <3>4. InFlight(q)' => InFlight(q)
      BY <3>1 DEF InFlight
    <3>. QED
      BY <1>1, <3>2, <3>3, <3>4 DEF IInv, WireInv, SentOnce
  <2>8. SentOnce(r)'
    <3>1. Unsent(r) /\ ~Unsent(r)'
      BY <1>1, <2>1 DEF IInv, TypeOK, Unsent
    <3>2. ~InFlight(r) /\ http'[r] = <<>>
      BY <1>1, <3>1 DEF IInv, WireInv, SentOnce
    <3>3. ASSUME NEW x \in Socket, NEW i \in Places(x)', Carries(x, i, r)'
          PROVE  x = ws /\ i = Len(toServer[ws]) + 1
      BY <2>3, <3>2, <3>3 DEF InFlight, Carries, Older
    <3>4. AtMostOnce(r)'
      BY <3>3 DEF AtMostOnce
    <3>. QED
      BY <3>1, <3>2, <3>4 DEF SentOnce
  <2>9. WireInv'
    BY <2>6, <2>7, <2>8 DEF WireInv
  <2>. QED
    BY <2>4, <2>5, <2>9 DEF IInv
<1>. QED
  BY <1>2, <1>3

(* The connection of a request fails, or its timer fires. *)
LEMMA GivesUpIInv ==
    ASSUME IInv, NEW r \in Req, ConnectionFails(r) \/ Timeout(r), UNCHANGED serverVars
    PROVE  IInv'
<1>. USE DEF serverVars, serverState
<1>1. /\ req' = [req EXCEPT ![r] = FallBack(r)]
      /\ pending' = pending \ {r}
      /\ \/ req[r] = "waiting"
         \/ req[r] = "sent"
      /\ UNCHANGED <<sodium, ws, rs, promise, settled, symKey, reqAwaits, toServer, http>>
  BY DEF ConnectionFails, Timeout, IInv, RequestsInv, PendingIsSent
<1>2. TypeOK' /\ HttpIsTyped'
  BY <1>1, FallsBack DEF IInv, TypeOK, HttpIsTyped
<1>3. RequestsInv'
  BY <1>1, FallsBack DEF IInv, TypeOK, RequestsInv, SentIsPending, PendingIsSent
<1>4. \A q \in Req : Unsent(q)' => Unsent(q)
  BY <1>1, FallsBack DEF IInv, TypeOK, Unsent
<1>5. WireInv'
  BY <1>1, <1>4, WireKept DEF IInv
<1>. QED
  BY <1>2, <1>3, <1>5 DEF IInv

-----------------------------------------------------------------------------
(* Events of a socket. *)

LEMMA SocketOpenIInv ==
    ASSUME IInv, NEW s \in Socket, SocketOpen(s) \/ SocketClosing(s), UNCHANGED serverVars
    PROVE  IInv'
<1>. USE DEF SocketOpen, SocketClosing, serverVars, serverState
<1>1. WireInv'
  <2>1. \A q \in Req : Unsent(q)' => Unsent(q)
    BY DEF Unsent
  <2>. QED
    BY <2>1, WireKept DEF IInv
<1>2. TypeOK' /\ HttpIsTyped'
  BY DEF IInv, TypeOK, HttpIsTyped
<1>3. RequestsInv'
  BY RequestsKept DEF IInv
<1>. QED
  BY <1>1, <1>2, <1>3 DEF IInv

LEMMA SocketEndIInv ==
    ASSUME IInv, NEW s \in Socket, SocketError(s) \/ SocketClose(s), UNCHANGED serverState
    PROVE  IInv'
<1>. USE DEF serverState
<1>1. /\ req' = RejectPending /\ pending' = {}
      /\ UNCHANGED <<sodium, ws, reqAwaits, toServer, http>>
  BY DEF SocketError, SocketClose
<1>2. /\ rs' \in [Socket -> {"none", "connecting", "open", "closing", "failed", "closed"}]
      /\ promise' \in Socket \cup {NoSocket}
      /\ settled' \in [Socket -> {"pending", "resolved", "rejected"}]
      /\ symKey' \in Key \cup {NoKey}
  BY DEF IInv, TypeOK, SocketError, SocketClose
<1>3. TypeOK' /\ HttpIsTyped'
  BY <1>1, <1>2, RejectIsSound DEF IInv, TypeOK, HttpIsTyped, States
<1>4. WireInv'
  BY <1>1, RejectIsSound, WireKept DEF IInv
<1>. QED
  BY <1>1, <1>3, <1>4, RejectIsSound DEF IInv

(* What the server sends, whatever it is. *)
LEMMA ReceiveIInv ==
    ASSUME IInv, NEW s \in Socket, NEW m, Receive(s, m), UNCHANGED serverState
    PROVE  IInv'
<1>. USE DEF serverState
<1>1. CASE ReceiveServerKx(s)
  <2>1. /\ ClientKx(s) \in ClientMsg /\ ClientKx(s).type # "enc"
        /\ WsSend(ClientKx(s))
        /\ symKey' = s
        /\ promise' = NoSocket
        /\ settled' \in [Socket -> {"pending", "resolved", "rejected"}]
        /\ UNCHANGED <<sodium, ws, rs, req, reqAwaits, pending, http>>
    BY <1>1, KeyAssumption DEF ReceiveServerKx, ClientKx, ClientMsg, IInv, TypeOK
  <2>2. /\ toServer' \in [Socket -> Seq(ClientMsg)]
        /\ \A x \in Socket : \A i \in Places(x)' :
              Older(x, i) \/ toServer'[x][i] = ClientKx(s)
    BY <2>1, SentUplink DEF IInv
  <2>3. TypeOK' /\ HttpIsTyped'
    BY <2>1, <2>2, KeyAssumption DEF IInv, TypeOK, HttpIsTyped
  <2>4. OnlyRequests'
    BY <2>1, <2>2 DEF IInv, WireInv, OnlyRequests, Older
  <2>5. ASSUME NEW q \in Req
        PROVE  SentOnce(q)'
    <3>1. ASSUME NEW x \in Socket, NEW i \in Places(x)', Carries(x, i, q)'
          PROVE  i \in Places(x) /\ Carries(x, i, q)
      BY <2>1, <2>2, <3>1 DEF Carries, Older
    <3>2. AtMostOnce(q)'
      BY <3>1 DEF IInv, WireInv, SentOnce, AtMostOnce
    <3>3. InFlight(q)' => InFlight(q)
      BY <3>1 DEF InFlight
    <3>. QED
      BY <2>1, <3>2, <3>3 DEF IInv, WireInv, SentOnce, Unsent
  <2>. QED
    BY <2>1, <2>3, <2>4, <2>5, RequestsKept DEF IInv, WireInv
<1>2. ASSUME NEW r, NEW ok, HandleHttpResponse(r, ok)
      PROVE  IInv'
  <2>1. /\ pending' = pending \ {r}
        /\ UNCHANGED <<sodium, ws, rs, promise, settled, symKey, reqAwaits, toServer, http>>
    BY <1>2 DEF HandleHttpResponse
  <2>2. \/ UNCHANGED req /\ (r \in pending => r \in Bodiless)
        \/ /\ r \in Req /\ req[r] = "sent"
           /\ \/ req' = [req EXCEPT ![r] = "response"]
              \/ req' = [req EXCEPT ![r] = FallBack(r)]
    BY <1>2 DEF HandleHttpResponse, IInv, TypeOK, RequestsInv, PendingIsSent
  <2>3. req' \in [Req -> States]
    BY <2>2, FallsBack DEF IInv, TypeOK, States
  <2>4. TypeOK' /\ HttpIsTyped'
    BY <2>1, <2>3 DEF IInv, TypeOK, HttpIsTyped, States
  <2>5. RequestsInv'
    BY <2>1, <2>2, FallsBack DEF IInv, TypeOK, RequestsInv, SentIsPending, PendingIsSent
  <2>6. \A q \in Req : Unsent(q)' => Unsent(q)
    BY <2>2, FallsBack DEF IInv, TypeOK, Unsent
  <2>. QED
    BY <2>1, <2>4, <2>5, <2>6, WireKept DEF IInv
<1>3. CASE UNCHANGED workerVars
  <2>1. UNCHANGED <<sodium, ws, rs, promise, settled, symKey, req, reqAwaits, pending,
                    toServer, http>>
    BY <1>3 DEF workerVars, workerState
  <2>2. \A q \in Req : Unsent(q)' => Unsent(q)
    BY <2>1 DEF Unsent
  <2>3. TypeOK' /\ HttpIsTyped'
    BY <2>1 DEF IInv, TypeOK, HttpIsTyped
  <2>. QED
    BY <2>1, <2>2, <2>3, RequestsKept, WireKept DEF IInv
<1>. QED
  BY <1>1, <1>2, <1>3 DEF Receive

-----------------------------------------------------------------------------
(* The server. *)

(* Everything of the worker but what it has sent. *)
LEMMA ServerIInv ==
    ASSUME IInv, UNCHANGED <<workerVars, http>>
    PROVE  IInv'
<1>1. UNCHANGED <<sodium, ws, rs, promise, settled, symKey, req, reqAwaits, pending,
                  toServer, http>>
  BY DEF workerVars, workerState
<1>2. TypeOK' /\ HttpIsTyped'
  BY <1>1 DEF IInv, TypeOK, HttpIsTyped
<1>3. \A q \in Req : Unsent(q)' => Unsent(q)
  BY <1>1 DEF Unsent
<1>. QED
  BY <1>1, <1>2, <1>3, RequestsKept, WireKept DEF IInv

(* The message the server takes is one its open system allows. *)
LEMMA UplinkHead ==
    ASSUME IInv, NEW s \in Socket, toServer[s] # <<>>
    PROVE  LET m == Head(toServer[s]) IN
           /\ m \in Srv!ClientMsg
           /\ m.type = "enc" =>
                /\ m.body.type = "http_request"
                /\ m.body.id \in Req
                /\ 1 \in Places(s) /\ Carries(s, 1, m.body.id)
                /\ http[m.body.id] = <<>>
<1>. DEFINE m == Head(toServer[s])
<1>1. 1 \in Places(s) /\ toServer[s][1] = m /\ m \in ClientMsg
  BY DEF IInv, TypeOK, Places
<1>2. m \in Srv!ClientMsg
  BY <1>1 DEF ClientMsg, Srv!ClientMsg, ClientBody, Srv!ClientBody, WsMessages,
              Srv!WsMessages, Plaintext, Srv!Plaintext
<1>3. ASSUME m.type = "enc"
      PROVE  /\ m.body.type = "http_request"
             /\ m.body.id \in Req
             /\ Carries(s, 1, m.body.id)
             /\ http[m.body.id] = <<>>
  <2>1. m.body.type = "http_request"
    BY <1>1, <1>3 DEF IInv, WireInv, OnlyRequests
  <2>2. m.body \in ClientBody
    BY <1>1, <1>3 DEF ClientMsg, Plaintext
  <2>3. m.body.id \in Req /\ m.body = HttpRequest(m.body.id)
    BY <2>1, <2>2 DEF ClientBody, WsMessages, HttpRequest
  <2>4. Carries(s, 1, m.body.id)
    BY <1>1, <1>3, <2>3 DEF Carries
  <2>. QED
    BY <1>1, <2>1, <2>3, <2>4 DEF InFlight, IInv, WireInv, SentOnce
<1>. QED
  BY <1>1, <1>2, <1>3

(* A request is handled by the server when its message is taken. *)
LEMMA ServerTakes ==
    ASSUME IInv, NEW s \in Socket, ToServer(s)
    PROVE  \/ UNCHANGED http
           \/ \E r \in Req : /\ 1 \in Places(s) /\ Carries(s, 1, r)
                             /\ http' = [http EXCEPT ![r] = Append(@, s)]
<1>. DEFINE m == Head(toServer[s])
<1>1. toServer[s] # <<>> /\ Srv!Receive(s, m)
  BY DEF ToServer
<1>2. m.type = "enc" =>
        /\ m.body.type = "http_request"
        /\ m.body.id \in Req
        /\ 1 \in Places(s) /\ Carries(s, 1, m.body.id)
  BY <1>1, UplinkHead
<1>. HIDE DEF m
<1>3. CASE Srv!AcceptKey(s, m) \/ Srv!DropMessage(s, m)
  BY <1>3 DEF Srv!AcceptKey, Srv!DropMessage, Srv!httpVars, Srv!vars
<1>4. CASE m.type = "enc" /\ Srv!Dispatch(s, m.body)
  BY <1>2, <1>4 DEF Srv!Dispatch, Srv!HandleHttpRequest
<1>. QED
  BY <1>1, <1>3, <1>4 DEF Srv!Receive, Srv!Readable

(* Messages leave the link to the server; a request may be handled. *)
LEMMA DrainIInv ==
    ASSUME IInv, NEW s \in Socket, Drains(s), UNCHANGED workerState,
           \/ UNCHANGED http
           \/ \E r \in Req : /\ 1 \in Places(s) /\ Carries(s, 1, r)
                             /\ http' = [http EXCEPT ![r] = Append(@, s)]
    PROVE  IInv'
<1>1. UNCHANGED <<sodium, ws, rs, promise, settled, symKey, req, reqAwaits, pending>>
  BY DEF workerState
<1>2. TypeOK' /\ HttpIsTyped'
  <2>1. TypeOK'
    BY <1>1, DrainedUplink DEF IInv, TypeOK
  <2>2. ASSUME NEW r \in Req, http' = [http EXCEPT ![r] = Append(@, s)]
        PROVE  HttpIsTyped'
    BY <2>2 DEF IInv, HttpIsTyped
  <2>3. UNCHANGED http => HttpIsTyped'
    BY DEF IInv, HttpIsTyped
  <2>. QED
    BY <2>1, <2>2, <2>3
<1>3. RequestsInv'
  BY <1>1, RequestsKept DEF IInv
<1>4. OnlyRequests'
  BY DrainedOnlyRequests DEF IInv, WireInv
<1>5. ASSUME NEW q \in Req
      PROVE  SentOnce(q)'
  <2>1. SentOnce(q) /\ TypeOK
    BY DEF IInv, WireInv
  <2>2. AtMostOnce(q)' /\ (InFlight(q)' => InFlight(q)) /\ (Unsent(q)' <=> Unsent(q))
    BY <1>1, <2>1, DrainedIsOnce DEF SentOnce, Unsent
  <2>3. CASE http'[q] = http[q]
    BY <2>1, <2>2, <2>3 DEF SentOnce
  <2>4. CASE http'[q] # http[q]
    <3>1. 1 \in Places(s) /\ Carries(s, 1, q)
      BY <2>4 DEF IInv, HttpIsTyped
    <3>2. InFlight(q) /\ ~InFlight(q)'
      BY <2>1, <3>1, DrainedIsOnce DEF SentOnce, InFlight
    <3>. QED
      BY <2>1, <2>2, <3>2 DEF SentOnce
  <2>. QED
    BY <2>3, <2>4
<1>. QED
  BY <1>2, <1>3, <1>4, <1>5 DEF IInv, WireInv

-----------------------------------------------------------------------------
LEMMA NextIInv ==
    ASSUME IInv, [Next]_vars
    PROVE  IInv'
<1>1. CASE Worker
  BY <1>1, SodiumReadyIInv, InterceptIInv, SendIInv, GivesUpIInv, SocketOpenIInv,
     SocketEndIInv DEF Worker, serverVars
<1>2. ASSUME NEW s \in Socket, Accept(s)
      PROVE  IInv'
  BY <1>2, ServerIInv DEF Accept, Srv!ControlConnect, Srv!httpVars
<1>3. ASSUME NEW s \in Socket, Opened(s)
      PROVE  IInv'
  BY <1>3, SocketOpenIInv DEF Opened
<1>4. ASSUME NEW s \in Socket, WorkerClose(s)
      PROVE  IInv'
  BY <1>4, SocketEndIInv DEF WorkerClose
<1>5. ASSUME NEW s \in Socket, ServerEnd(s)
      PROVE  IInv'
  BY <1>5, DrainIInv DEF ServerEnd, Srv!ControlClose, Srv!httpVars, Drains
<1>6. ASSUME NEW s \in Socket, ToServer(s)
      PROVE  IInv'
  <2>1. Drains(s) /\ UNCHANGED workerState
    BY <1>6 DEF ToServer, Drains
  <2>. QED
    BY <1>6, <2>1, ServerTakes, DrainIInv
<1>7. ASSUME NEW s \in Socket, ToWorker(s)
      PROVE  IInv'
  BY <1>7, ReceiveIInv DEF ToWorker
<1>8. ASSUME NEW r \in Req, Respond(r)
      PROVE  IInv'
  BY <1>8, ServerIInv DEF Respond, Srv!HttpRespond
<1>9. CASE UNCHANGED vars
  BY <1>9, ServerIInv DEF vars, serverVars, serverState
<1>. QED
  BY <1>1, <1>2, <1>3, <1>4, <1>5, <1>6, <1>7, <1>8, <1>9 DEF Next

(* The inductive invariant holds in every reachable state.                 *)
THEOREM Invariance == Spec => []IInv
BY InitIInv, NextIInv, PTL DEF Spec

(* Every variable of the worker keeps its type.                            *)
THEOREM TypeCorrect == Spec => []TypeOK
<1>1. IInv => TypeOK
  BY DEF IInv
<1>. QED
  BY <1>1, Invariance, PTL

(* A request that went out and has no answer is in pendingRequests         *)
(* (sw.ts:245-269): its response, its timer and the end of any socket find *)
(* it there.                                                               *)
THEOREM SentArePending == Spec => []SentIsPending
<1>1. IInv => SentIsPending
  BY DEF IInv, RequestsInv
<1>. QED
  BY <1>1, Invariance, PTL

(* A request with a body that is repeated on the network has not reached   *)
(* the application through the tunnel (sw.ts:288-299), over any number of  *)
(* sockets.                                                                *)
THEOREM BodiesAreSentOnce == Spec => []BodiesSentOnce
BY OnceImplies, Invariance, PTL

-----------------------------------------------------------------------------
LEMMA EndedIsFinal ==
    ASSUME IInv, [Next]_vars, NEW r \in Req, req[r] \in Ended
    PROVE  req'[r] = req[r]
<1>1. r \notin pending /\ req \in [Req -> States]
  BY DEF IInv, TypeOK, States, RequestsInv, PendingIsSent, Ended
<1>2. CASE UNCHANGED req
  BY <1>2
<1>3. CASE req' = RejectPending
  BY <1>1, <1>3 DEF RejectPending
<1>4. ASSUME NEW q, q # r, NEW v, req' = [req EXCEPT ![q] = v]
      PROVE  req'[r] = req[r]
  BY <1>1, <1>4
<1>5. ASSUME NEW q \in Req,
             \/ Intercept(q) \/ Loaded(q) \/ Send(q)
             \/ ConnectionFails(q) \/ Timeout(q)
      PROVE  req'[r] = req[r]
  <2>1. /\ req[q] \in {"new", "loading", "waiting"} \/ q \in pending
        /\ \/ req' = [req EXCEPT ![q] = "waiting"]
           \/ req' = [req EXCEPT ![q] = "loading"]
           \/ req' = [req EXCEPT ![q] = "sent"]
           \/ req' = [req EXCEPT ![q] = IF q \in WithBody THEN "failed" ELSE "network"]
           \/ req' = [req EXCEPT ![q] = FallBack(q)]
    BY <1>5 DEF Intercept, Loaded, Await, NewSocket, Send, ConnectionFails, Timeout
  <2>2. q # r
    BY <1>1, <2>1 DEF Ended
  <2>. QED
    BY <1>4, <2>1, <2>2
<1>6. CASE Worker
  BY <1>2, <1>3, <1>5, <1>6 DEF Worker, SodiumReady, SocketError, SocketClosing
<1>7. ASSUME NEW s \in Socket, ToWorker(s)
      PROVE  req'[r] = req[r]
  <2>1. ASSUME NEW q, NEW ok, HandleHttpResponse(q, ok)
        PROVE  req'[r] = req[r]
    <3>1. CASE q \in pending
      BY <1>1, <2>1, <3>1, <1>4 DEF HandleHttpResponse
    <3>2. CASE q \notin pending
      BY <1>2, <2>1, <3>2 DEF HandleHttpResponse
    <3>. QED
      BY <3>1, <3>2
  <2>2. ReceiveServerKx(s) \/ UNCHANGED workerVars => UNCHANGED req
    BY DEF ReceiveServerKx, workerVars, workerState
  <2>. QED
    BY <1>2, <1>7, <2>1, <2>2 DEF ToWorker, Receive
<1>8. ASSUME NEW s \in Socket,
             \/ Accept(s) \/ Opened(s) \/ WorkerClose(s)
             \/ ServerEnd(s) \/ ToServer(s)
      PROVE  req'[r] = req[r]
  BY <1>2, <1>3, <1>8 DEF Accept, Opened, WorkerClose, ServerEnd, ToServer, SocketOpen,
     SocketClose, workerVars, workerState
<1>9. CASE (\E q \in Req : Respond(q)) \/ UNCHANGED vars
  BY <1>2, <1>9 DEF Respond, vars, workerVars, workerState
<1>. QED
  BY <1>6, <1>7, <1>8, <1>9 DEF Next

(* The page sees one outcome: no late response, timer or close event of    *)
(* any socket changes it (sw.ts:98-118, 120-160, 261-266).                 *)
THEOREM RequestsSettleOnce == Spec => SettledOnce
<1>1. IInv /\ [Next]_vars => \A r \in Req : req[r] \in Ended => req'[r] = req[r]
  BY EndedIsFinal
<1>. QED
  BY <1>1, Invariance, PTL DEF Spec, SettledOnce

-----------------------------------------------------------------------------
(* The worker is one of the peers TunnelServer allows. *)

LinkIsFunction == toClient = [s \in Socket |-> toClient[s]]

LEMMA ServerReceives ==
    ASSUME IInv, NEW s \in Socket, ToServer(s)
    PROVE  Srv!PeerSends(s) /\ UNCHANGED toClient
<1>. DEFINE m == Head(toServer[s])
<1>1. toServer[s] # <<>> /\ Srv!Receive(s, m)
  BY DEF ToServer
<1>2. /\ m \in Srv!ClientMsg
      /\ m.type = "enc" => m.body.type = "http_request" /\ http[m.body.id] = <<>>
  BY <1>1, UplinkHead
<1>. HIDE DEF m
<1>3. Srv!PeerSends(s)
  BY <1>1, <1>2 DEF Srv!PeerSends, Srv!PeerMaySend
<1>4. CASE Srv!AcceptKey(s, m) \/ Srv!DropMessage(s, m)
  BY <1>3, <1>4 DEF Srv!AcceptKey, Srv!DropMessage, Srv!vars
<1>5. CASE m.type = "enc" /\ Srv!Dispatch(s, m.body)
  BY <1>2, <1>3, <1>5 DEF Srv!Dispatch, Srv!HandleHttpRequest
<1>. QED
  BY <1>1, <1>4, <1>5 DEF Srv!Receive, Srv!Readable

LEMMA LinkKept ==
    ASSUME IInv, LinkIsFunction, [Next]_vars
    PROVE  LinkIsFunction'
<1>1. CASE UNCHANGED toClient
  BY <1>1 DEF LinkIsFunction
<1>2. ASSUME NEW s, NEW q, toClient' = [toClient EXCEPT ![s] = q]
      PROVE  LinkIsFunction'
  BY <1>2 DEF LinkIsFunction
<1>3. CASE Worker \/ UNCHANGED vars
  BY <1>1, <1>3 DEF Worker, vars, serverVars
<1>4. ASSUME NEW s \in Socket, Accept(s) \/ WorkerClose(s) \/ ToWorker(s)
      PROVE  LinkIsFunction'
  BY <1>2, <1>4 DEF Accept, WorkerClose, ToWorker, Srv!ControlConnect
<1>5. ASSUME NEW s \in Socket, Opened(s) \/ ServerEnd(s) \/ ToServer(s)
      PROVE  LinkIsFunction'
  BY <1>1, <1>5, ServerReceives DEF Opened, ServerEnd, Srv!ControlClose, serverVars
<1>6. ASSUME NEW r \in Req, Respond(r)
      PROVE  LinkIsFunction'
  BY <1>1, <1>2, <1>6 DEF Respond, Srv!HttpRespond, Srv!SendEncrypted
<1>. QED
  BY <1>3, <1>4, <1>5, <1>6 DEF Next

LEMMA ServerSteps ==
    ASSUME IInv, LinkIsFunction, [Next]_vars
    PROVE  [Srv!Next]_(Srv!vars)
<1>1. UNCHANGED serverVars => UNCHANGED Srv!vars
  BY DEF serverVars, serverState, Srv!vars
<1>2. CASE Worker \/ UNCHANGED vars
  BY <1>1, <1>2 DEF Worker, vars
<1>3. ASSUME NEW s \in Socket, Accept(s) \/ ServerEnd(s) \/ ToServer(s)
      PROVE  Srv!Next
  BY <1>3, ServerReceives DEF Accept, ServerEnd, Srv!Next
<1>4. ASSUME NEW s \in Socket, Opened(s)
      PROVE  UNCHANGED Srv!vars
  BY <1>1, <1>4 DEF Opened
<1>5. ASSUME NEW s \in Socket, WorkerClose(s)
      PROVE  [Srv!Next]_(Srv!vars)
  <2>1. CASE toClient[s] = <<>>
    <3>1. toClient' = toClient
      BY <1>5, <2>1 DEF WorkerClose, LinkIsFunction
    <3>. QED
      BY <1>1, <1>5, <3>1 DEF WorkerClose, serverVars
  <2>2. CASE toClient[s] # <<>>
    <3>1. Srv!Lose(s)
      BY <1>5, <2>2 DEF WorkerClose, serverState, Srv!Lose, Srv!linkVars, Srv!connVars,
                        Srv!httpVars
    <3>. QED
      BY <3>1 DEF Srv!Next
  <2>. QED
    BY <2>1, <2>2
<1>6. ASSUME NEW s \in Socket, ToWorker(s)
      PROVE  Srv!Next
  <2>1. Srv!Take(s)
    BY <1>6 DEF ToWorker, serverState, Srv!Take, Srv!linkVars, Srv!connVars, Srv!httpVars
  <2>. QED
    BY <2>1 DEF Srv!Next
<1>7. ASSUME NEW r \in Req, Respond(r)
      PROVE  Srv!Next
  BY <1>7 DEF Respond, Srv!Next
<1>. QED
  BY <1>2, <1>3, <1>4, <1>5, <1>6, <1>7 DEF Next

(* With the worker at the other end the server is the one TunnelServer     *)
(* describes, so what is proved there against any peer holds here.  In     *)
(* particular each request is handled at most once (server.ts:363), over   *)
(* all sockets the worker opens.                                           *)
THEOREM ServerIsImplemented == Spec => ImplementsServer
<1>1. Init => Srv!Init /\ LinkIsFunction
  BY DEF Init, Srv!Init, LinkIsFunction
<1>2. IInv /\ LinkIsFunction /\ [Next]_vars => LinkIsFunction' /\ [Srv!Next]_(Srv!vars)
  BY LinkKept, ServerSteps
<1>. QED
  BY <1>1, <1>2, Invariance, PTL DEF Spec, ImplementsServer, Srv!Spec
=============================================================================
