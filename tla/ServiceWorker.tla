--------------------------- MODULE ServiceWorker ---------------------------
(***************************************************************************)
(* The service worker (packages/tunnel/src/sw.ts) and the TunnelServer it  *)
(* talks to.  It intercepts the requests of a page, sends them through a   *)
(* tunnel of its own, and falls back to the network when that fails.       *)
(*                                                                         *)
(* A WebSocket object, its promise and the key drawn for its server_kx are *)
(* known by one name.  As in TunnelClient, Quiet holds when no             *)
(* continuation and no close event is due before the next task.  There is  *)
(* no verification of the quote.  The server is TunnelServer, which        *)
(* announces itself once on each socket.                                   *)
(***************************************************************************)
EXTENDS TunnelTypes, Sequences, FiniteSets, Functions

CONSTANTS
    Socket,      \* WebSocket objects the worker may create: bounds reconnects
    NoSocket,    \* null
    Self,        \* the server
    WithBody,    \* requests whose body is read before they are tunneled
    Bodiless     \* requests answered with a status that allows no body (205, 304)

ASSUME KeyAssumption == Key = Socket /\ NoSocket \notin Socket
ASSUME SelfAssumption == Self \in Server
ASSUME BodyAssumption == WithBody \cup Bodiless \subseteq Req

Throwing == {}       \* for TunnelServer: the worker opens no connections
MaxQueue == 0

VARIABLES
    sodium,      \* libsodium has loaded
    ws,          \* ws
    rs,          \* readyState of each WebSocket object
    promise,     \* connectionPromise
    settled,     \* state of each connection promise
    symKey,      \* symmetricKey
    req,         \* state of each intercepted request
    reqAwaits,   \* the promise it awaits; NoSocket for one already resolved
    pending,     \* keys of pendingRequests
    toServer,    \* messages sent on each socket and not yet taken
    ctl, keyOf, live, sockets, via, mock, clients, inbox, http, answered,
    listening, gone, toClient

Srv == INSTANCE TunnelServer

workerState == <<sodium, ws, rs, promise, settled, symKey, req, reqAwaits, pending>>
workerVars  == <<workerState, toServer>>
serverState == <<ctl, keyOf, live, sockets, via, mock, clients, inbox, http,
                 answered, listening, gone>>
serverVars  == <<serverState, toClient>>
vars        == <<workerVars, serverVars>>

TypeOK ==
    /\ sodium \in BOOLEAN
    /\ ws \in Socket \cup {NoSocket}
    /\ rs \in [Socket ->
               {"none", "connecting", "open", "closing", "failed", "closed"}]
    /\ promise \in Socket \cup {NoSocket}
    /\ settled \in [Socket -> {"pending", "resolved", "rejected"}]
    /\ symKey \in Key \cup {NoKey}
    /\ req \in [Req -> {"new", "loading", "waiting", "sent",
                        "response", "network", "failed"}]
    /\ reqAwaits \in [Req -> Socket \cup {NoSocket}]
    /\ pending \subseteq Req
    /\ toServer \in [Socket -> Seq(ClientMsg)]

Init ==
    /\ sodium = FALSE
    /\ ws = NoSocket
    /\ rs = [s \in Socket |-> "none"]
    /\ promise = NoSocket
    /\ settled = [s \in Socket |-> "pending"]
    /\ symKey = NoKey
    /\ req = [r \in Req |-> "new"]
    /\ reqAwaits = [r \in Req |-> NoSocket]
    /\ pending = {}
    /\ toServer = [s \in Socket |-> <<>>]
    /\ Srv!Init

-----------------------------------------------------------------------------
Established == ws # NoSocket /\ rs[ws] = "open" /\ symKey # NoKey

Settled(p) == p # NoSocket => settled[p] # "pending"
Failed(p)  == p # NoSocket /\ settled[p] = "rejected"

(* A continuation is due: only a body still to be read holds it up. *)
Due(r) == \/ req[r] = "loading" /\ sodium
          \/ /\ req[r] = "waiting" /\ Settled(reqAwaits[r])
             /\ r \notin WithBody \/ Failed(reqAwaits[r])

Quiet == (\A r \in Req : ~Due(r)) /\ (\A s \in Socket : rs[s] # "failed")

(* WebSocket.send: discarded unless OPEN, and an exception while CONNECTING. *)
SendThrows == rs[ws] = "connecting"

WsSend(m) ==
    toServer' = IF rs[ws] = "open" THEN [toServer EXCEPT ![ws] = Append(@, m)]
                                   ELSE toServer

(***************************************************************************)
(* A tunneled request is rejected, and the page's request is repeated on   *)
(* the network.  A body that has been read cannot be sent again: then the  *)
(* page sees a network error.                                              *)
(***************************************************************************)
(* Mutants: the body is kept for a second attempt; or that attempt is made *)
(* in the tunnel, under the same id.                                       *)
FallBackAnyway(r) == "network"
FallBackInTunnel(r) == IF r \in WithBody THEN "failed" ELSE "waiting"

FallBack(r) == IF req[r] = "sent" /\ r \in WithBody THEN "failed" ELSE "network"

(* Mutant: the entries are cleared without being rejected. *)
RejectNone == req

RejectPending == [r \in Req |-> IF r \in pending THEN FallBack(r) ELSE req[r]]

-----------------------------------------------------------------------------
(* Requests: tunnelFetch() with ensureConnection(), and the fallback. *)

(* A new socket with its promise, whatever ws and connectionPromise hold. *)
NewSocket(r) ==
    \E p \in Socket :
        /\ rs[p] = "none"
        /\ ws' = p
        /\ rs' = [rs EXCEPT ![p] = "connecting"]
        /\ promise' = p
        /\ reqAwaits' = [reqAwaits EXCEPT ![r] = p]
        /\ req' = [req EXCEPT ![r] = "waiting"]

Await(r, p) ==
    /\ reqAwaits' = [reqAwaits EXCEPT ![r] = p]
    /\ req' = [req EXCEPT ![r] = "waiting"]
    /\ UNCHANGED <<ws, rs, promise>>

Intercept(r) ==
    /\ Quiet
    /\ req[r] = "new"
    /\ \/ Established /\ Await(r, NoSocket)
       \/ ~Established /\ promise # NoSocket /\ Await(r, promise)
       \/ /\ ~Established /\ promise = NoSocket /\ sodium
          /\ NewSocket(r)
       \/ /\ ~Established /\ promise = NoSocket /\ ~sodium
          /\ req' = [req EXCEPT ![r] = "loading"]
          /\ UNCHANGED <<ws, rs, promise, reqAwaits>>
    /\ UNCHANGED <<sodium, settled, symKey, pending, toServer>>

SodiumReady ==
    /\ ~sodium
    /\ sodium' = TRUE
    /\ UNCHANGED <<ws, rs, promise, settled, symKey, req, reqAwaits, pending,
                   toServer>>

(* After "await sodium.ready" connectionPromise is not looked at again. *)
Loaded(r) ==
    /\ req[r] = "loading"
    /\ sodium
    /\ NewSocket(r)
    /\ UNCHANGED <<sodium, settled, symKey, pending, toServer>>

(* Mutant: the missing key is not noticed. *)
CannotSendOnly == SendThrows

(* encryptPayload or send throws. *)
CannotSend == symKey = NoKey \/ SendThrows

(* The connection is there and the body has been read. *)
Send(r) ==
    /\ req[r] = "waiting"
    /\ Settled(reqAwaits[r]) /\ ~Failed(reqAwaits[r])
    /\ IF CannotSend
       THEN /\ req' = [req EXCEPT ![r] = IF r \in WithBody THEN "failed"
                                                           ELSE "network"]
            /\ UNCHANGED <<pending, toServer>>
       ELSE /\ req' = [req EXCEPT ![r] = "sent"]
            /\ pending' = pending \cup {r}
            /\ WsSend(Enc(symKey, HttpRequest(r)))
    /\ UNCHANGED <<sodium, ws, rs, promise, settled, symKey, reqAwaits>>

(* The connection failed, before the body was read. *)
ConnectionFails(r) ==
    /\ req[r] = "waiting"
    /\ Failed(reqAwaits[r])
    /\ req' = [req EXCEPT ![r] = FallBack(r)]
    /\ UNCHANGED <<sodium, ws, rs, promise, settled, symKey, reqAwaits, pending,
                   toServer>>

(* Mutant: the timer deletes the entry and does not reject. *)
TimeoutSilent(r) ==
    /\ Quiet
    /\ r \in pending
    /\ pending' = pending \ {r}
    /\ UNCHANGED <<sodium, ws, rs, promise, settled, symKey, req, reqAwaits, toServer>>

Timeout(r) ==
    /\ Quiet
    /\ r \in pending
    /\ pending' = pending \ {r}
    /\ req' = [req EXCEPT ![r] = FallBack(r)]
    /\ UNCHANGED <<sodium, ws, rs, promise, settled, symKey, reqAwaits, toServer>>

-----------------------------------------------------------------------------
(* Events of a socket; "failed" is CLOSED with the close event still due. *)

SocketOpen(s) ==
    /\ Quiet
    /\ rs[s] = "connecting"
    /\ rs' = [rs EXCEPT ![s] = "open"]
    /\ UNCHANGED <<sodium, ws, promise, settled, symKey, req, reqAwaits, pending,
                   toServer>>

SocketClosing(s) ==
    /\ Quiet
    /\ rs[s] = "open"
    /\ rs' = [rs EXCEPT ![s] = "closing"]
    /\ UNCHANGED <<sodium, ws, promise, settled, symKey, req, reqAwaits, pending,
                   toServer>>

SocketError(s) ==
    /\ Quiet
    /\ rs[s] \in {"connecting", "open"}
    /\ rs' = [rs EXCEPT ![s] = "failed"]
    /\ promise' = NoSocket
    /\ settled' = [settled EXCEPT ![s] = IF @ = "pending" THEN "rejected" ELSE @]
    /\ req' = RejectPending
    /\ pending' = {}
    /\ UNCHANGED <<sodium, ws, symKey, reqAwaits, toServer>>

(* Whichever socket it is; the promise of s is not settled. *)
SocketClose(s) ==
    /\ \A r \in Req : ~Due(r)
    /\ rs[s] = "failed" \/ (rs[s] = "closing" /\ Quiet)
    /\ rs' = [rs EXCEPT ![s] = "closed"]
    /\ promise' = NoSocket
    /\ symKey' = NoKey
    /\ req' = RejectPending
    /\ pending' = {}
    /\ UNCHANGED <<sodium, ws, settled, reqAwaits, toServer>>

(* The key of s is announced on ws, which need not be s. *)
ReceiveServerKx(s) ==
    /\ symKey' = s
    /\ promise' = NoSocket
    /\ settled' = [settled EXCEPT ![s] =
                     IF @ # "pending" THEN @
                     ELSE IF SendThrows THEN "rejected" ELSE "resolved"]
    /\ WsSend(ClientKx(s))
    /\ UNCHANGED <<sodium, ws, rs, req, reqAwaits, pending>>

(* Mutant: the entry is not looked up. *)
HandleHttpResponseLate(r, ok) ==
    /\ pending' = pending \ {r}
    /\ req' = [req EXCEPT ![r] = IF ok THEN "response" ELSE FallBack(r)]
    /\ UNCHANGED <<sodium, ws, rs, promise, settled, symKey, reqAwaits, toServer>>

(* new Response(...) throws for a status that allows no body: the message is *)
(* dropped as malformed, with the entry deleted.                             *)
HandleHttpResponse(r, ok) ==
    /\ pending' = pending \ {r}
    /\ req' = IF r \notin pending \/ (ok /\ r \in Bodiless) THEN req
              ELSE [req EXCEPT ![r] = IF ok THEN "response" ELSE FallBack(r)]
    /\ UNCHANGED <<sodium, ws, rs, promise, settled, symKey, reqAwaits, toServer>>

(* An envelope under another key than the current one is dropped. *)
Receive(s, m) ==
    /\ Quiet
    /\ rs[s] = "open"
    /\ \/ m.type = "server_kx" /\ ReceiveServerKx(s)
       \/ /\ m.type = "enc" /\ m.key = symKey
          /\ HandleHttpResponse(m.body.id, m.body.ok)
       \/ m.type = "enc" /\ m.key # symKey /\ UNCHANGED workerVars

-----------------------------------------------------------------------------
(* The worker, the control WebSockets and the server together. *)

Worker ==
    /\ \/ SodiumReady
       \/ \E r \in Req : \/ Intercept(r) \/ Loaded(r) \/ Send(r)
                          \/ ConnectionFails(r) \/ Timeout(r)
       \/ \E s \in Socket : SocketError(s) \/ SocketClosing(s)
    /\ UNCHANGED serverVars

Accept(s) ==
    /\ rs[s] = "connecting"
    /\ Srv!ControlConnect(s)
    /\ UNCHANGED workerVars

Opened(s) == ctl[s] # "none" /\ SocketOpen(s) /\ UNCHANGED serverVars

WorkerClose(s) ==
    /\ SocketClose(s)
    /\ toClient' = [toClient EXCEPT ![s] = <<>>]
    /\ UNCHANGED serverState

ServerEnd(s) ==
    /\ Srv!ControlClose(s)
    /\ toServer' = [toServer EXCEPT ![s] = <<>>]
    /\ UNCHANGED workerState

ToServer(s) ==
    /\ toServer[s] # <<>>
    /\ Srv!Receive(s, Head(toServer[s]))
    /\ toServer' = [toServer EXCEPT ![s] = Tail(@)]
    /\ UNCHANGED workerState

ToWorker(s) ==
    /\ toClient[s] # <<>>
    /\ Receive(s, Head(toClient[s]))
    /\ toClient' = [toClient EXCEPT ![s] = Tail(@)]
    /\ UNCHANGED serverState

Respond(r) ==
    /\ \E ok \in BOOLEAN : Srv!HttpRespond(r, ok)
    /\ UNCHANGED workerVars

Next ==
    \/ Worker
    \/ \E s \in Socket : \/ Accept(s) \/ Opened(s) \/ WorkerClose(s)
                         \/ ServerEnd(s) \/ ToServer(s) \/ ToWorker(s)
    \/ \E r \in Req : Respond(r)

Spec == Init /\ [][Next]_vars

(* Timers fire, and continuations run: nothing is asked of network or server. *)
Fairness ==
    \A r \in Req : WF_vars((Send(r) \/ ConnectionFails(r) \/ Timeout(r) \/ Loaded(r))
                              /\ UNCHANGED serverVars)
                  /\ \A s \in Socket : WF_vars(rs[s] = "failed" /\ WorkerClose(s))

FairSpec == Spec /\ Fairness

-----------------------------------------------------------------------------
Ended == {"response", "network", "failed"}

(***************************************************************************)
(* A request that went out and has no answer is in pendingRequests, where  *)
(* the timer, a response and the end of a socket find it (sw.ts:246).      *)
(***************************************************************************)
SentIsPending == \A r \in Req \ Bodiless : req[r] = "sent" => r \in pending

(***************************************************************************)
(* The page sees one outcome: no late response, timer or close event of    *)
(* any socket changes it, nor repeats a request that was answered.         *)
(***************************************************************************)
SettledOnce == [][\A r \in Req : req[r] \in Ended => req'[r] = req[r]]_vars

(***************************************************************************)
(* A request with a body that is repeated on the network has not reached   *)
(* the application through the tunnel: nothing is done twice (sw.ts:296).  *)
(***************************************************************************)
BodiesSentOnce ==
    \A r \in WithBody : req[r] = "network" => http[r] = <<>>

(***************************************************************************)
(* A request that went into the tunnel comes out of it, with a response or *)
(* by falling back (sw.ts:257, the timer).                                 *)
(***************************************************************************)
SentIsSettled == \A r \in Req \ Bodiless : req[r] = "sent" ~> req[r] \in Ended

(***************************************************************************)
(* Refinement: the worker is a peer as TunnelServer allows them.  No       *)
(* request is handled twice by the server, on one socket or on two,        *)
(* whatever is repeated on the network (sw.ts:228, a fresh requestId).     *)
(***************************************************************************)
ImplementsServer == Srv!Spec

=============================================================================
