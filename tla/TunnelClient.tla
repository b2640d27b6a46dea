--------------------------- MODULE TunnelClient ---------------------------
(***************************************************************************)
(* TunnelClient (packages/tunnel/src/client.ts) and its mock WebSockets    *)
(* (ClientRAWebSocket.ts), as an open system: the server may send any      *)
(* message, sockets may fail at any time, and the application may fetch,   *)
(* open, send and close at any time.                                       *)
(*                                                                         *)
(* Each connection attempt creates one WebSocket object s and, with it,    *)
(* one promise: the promise is known by its socket.  Every server_kx that  *)
(* comes starts a handshake, which is known by the fresh key k it draws;   *)
(* several may overlap, on one socket or on several.                       *)
(*                                                                         *)
(* JavaScript runs one task at a time.  What an await separates is two     *)
(* actions here.  The continuation of an await whose promise has settled   *)
(* runs before the next task, and so does the close event that follows an  *)
(* error event: Quiet holds when neither is due.                           *)
(***************************************************************************)
EXTENDS TunnelTypes, Sequences, FiniteSets, Naturals

CONSTANTS
    Socket,      \* WebSocket objects the client may create: bounds reconnects
    NoSocket,    \* null
    WrongPort,   \* connections whose URL names another port than the origin
    Bodiless,    \* requests answered with a status that allows no body (205, 304)
    OncloseThrows,  \* connections whose application "onclose" throws
    Custom,      \* the application's own checks that are configured: "quote"
                 \* (customVerifyQuote), "binding" (customVerifyX25519Binding)
    MaxSend,     \* bound on the application's send() calls per connection
    MaxReceive   \* bound on the record kept of what a connection received

ASSUME NoSocketAssumption == NoSocket \notin Socket
ASSUME CustomAssumption   == Custom \subseteq {"quote", "binding"}
ASSUME DataAssumption     == MaxSend \in Nat /\ Data = 1..MaxSend

VARIABLES
    ws,          \* this.ws
    rs,          \* readyState of each WebSocket object
    promise,     \* this.connectionPromise
    settled,     \* state of each connection promise
    kx,          \* progress of each handshake
    on,          \* the socket whose handler runs it
    heard,       \* the server_kx it answers
    symKey,      \* this.symmetricKey
    serverKey,   \* this.serverX25519PublicKey
    bindingData, \* this.reportBindingData
    timers,      \* reconnect timers that have not fired
    req,         \* state of each fetch(), as its caller sees it
    reqAwaits,   \* the promise it awaits; NoSocket for one already resolved
    pending,     \* keys of pendingRequests
    readyState,  \* readyState of each mock WebSocket; "new" before it exists
    connect,     \* progress of its connect()
    connAwaits,  \* the promise connect() awaits, as reqAwaits
    registered,  \* keys of webSocketConnections
    queue,       \* messageQueue of each mock
    nsent,       \* send() calls the application has made on it
    received,    \* the first MaxReceive "message" events it dispatched (a history)
    toServer     \* messages sent on each socket and not yet taken

vars == <<ws, rs, promise, settled, kx, on, heard, symKey, serverKey, bindingData,
          timers, req, reqAwaits, pending, readyState, connect, connAwaits,
          registered, queue, nsent, received, toServer>>

linkVars == <<ws, rs, promise>>
handVars == <<kx, on, heard, serverKey, bindingData>>
kxVars   == <<settled, symKey, handVars>>
reqVars  == <<req, reqAwaits, pending>>
connVars == <<readyState, connect, connAwaits, registered, queue, nsent, received>>

TypeOK ==
    /\ ws \in Socket \cup {NoSocket}
    /\ rs \in [Socket ->
               {"none", "connecting", "open", "closing", "failed", "closed"}]
    /\ promise \in Socket \cup {NoSocket}
    /\ settled \in [Socket -> {"pending", "resolved", "rejected"}]
    /\ kx \in [Key -> {"idle", "verifying", "invalid", "approving", "binding",
                        "refused", "done"}]
    /\ on \in [Key -> Socket \cup {NoSocket}]
    /\ heard \in [Key -> Announcement]
    /\ symKey \in Key \cup {NoKey}
    /\ serverKey \in Server \cup {NoServer}
    /\ bindingData \in Server \cup {NoServer}
    /\ timers \in Nat
    /\ req \in [Req -> {"new", "waiting", "sent", "resolved", "rejected"}]
    /\ reqAwaits \in [Req -> Socket \cup {NoSocket}]
    /\ pending \subseteq Req
    /\ readyState \in [Conn -> {"new", "connecting", "open", "closing", "closed"}]
    /\ connect \in [Conn -> {"none", "awaiting", "done"}]
    /\ connAwaits \in [Conn -> Socket \cup {NoSocket}]
    /\ registered \subseteq Conn
    /\ queue \in [Conn -> Seq(Data)]
    /\ nsent \in [Conn -> 0..MaxSend]
    /\ received \in [Conn -> Seq(Data)]
    /\ toServer \in [Socket -> Seq(ClientMsg)]

Init ==
    /\ ws = NoSocket
    /\ rs = [s \in Socket |-> "none"]
    /\ promise = NoSocket
    /\ settled = [s \in Socket |-> "pending"]
    /\ kx = [k \in Key |-> "idle"]
    /\ on = [k \in Key |-> NoSocket]
    /\ heard = [k \in Key |-> ServerKx(NoServer, NoServer, NoServer)]
    /\ symKey = NoKey
    /\ serverKey = NoServer
    /\ bindingData = NoServer
    /\ timers = 0
    /\ req = [r \in Req |-> "new"]
    /\ reqAwaits = [r \in Req |-> NoSocket]
    /\ pending = {}
    /\ readyState = [c \in Conn |-> "new"]
    /\ connect = [c \in Conn |-> "none"]
    /\ connAwaits = [c \in Conn |-> NoSocket]
    /\ registered = {}
    /\ queue = [c \in Conn |-> <<>>]
    /\ nsent = [c \in Conn |-> 0]
    /\ received = [c \in Conn |-> <<>>]
    /\ toServer = [s \in Socket |-> <<>>]

-----------------------------------------------------------------------------
Usable  == ws # NoSocket /\ rs[ws] = "open"     \* the test made before sending
CanSend == Usable /\ symKey # NoKey             \* send() of a payload succeeds

Settled(p) == p # NoSocket => settled[p] # "pending"
Failed(p)  == p # NoSocket /\ settled[p] = "rejected"

(* connect() is past its await: its continuation runs before the next task. *)
Queued(c) == connect[c] = "awaiting" /\ Settled(connAwaits[c])
Quiet     == /\ \A c \in Conn : ~Queued(c)
             /\ \A s \in Socket : rs[s] # "failed"

(* The payloads go out, sealed with the client's current key, on this.ws. *)
SendAll(bodies) ==
    toServer' = [toServer EXCEPT ![ws] =
                    @ \o [i \in 1..Len(bodies) |-> Enc(symKey, bodies[i])]]

(* Mutants: the key is not looked at; everything goes out twice. *)
TrySendUnkeyed(bodies) == IF Usable THEN SendAll(bodies) ELSE UNCHANGED toServer

TrySendTwice(bodies) ==
    IF CanSend THEN SendAll(bodies \o bodies) ELSE UNCHANGED toServer

TrySend(bodies) == IF CanSend THEN SendAll(bodies) ELSE UNCHANGED toServer

(***************************************************************************)
(* ensureConnection(): nothing to wait for if this.ws is OPEN, else the    *)
(* promise under way, else a new socket p with a new promise.              *)
(***************************************************************************)
EnsureConnection(p) ==
    \/ /\ Usable
       /\ p = NoSocket
       /\ UNCHANGED linkVars
    \/ /\ ~Usable
       /\ promise # NoSocket
       /\ p = promise
       /\ UNCHANGED linkVars
    \/ /\ ~Usable
       /\ promise = NoSocket
       /\ p \in Socket
       /\ rs[p] = "none"
       /\ ws' = p
       /\ rs' = [rs EXCEPT ![p] = "connecting"]
       /\ promise' = p

Awaitable == Socket \cup {NoSocket}

-----------------------------------------------------------------------------
(* Events of a socket.  "failed" is CLOSED with the close event still due. *)

SocketOpen(s) ==
    /\ Quiet
    /\ rs[s] = "connecting"
    /\ rs' = [rs EXCEPT ![s] = "open"]
    /\ UNCHANGED <<ws, promise, kxVars, timers, reqVars, connVars, toServer>>

(* The mocks are told of the error too, which changes nothing in them.  In  *)
(* between error and close only continuations and the application may run.  *)
SocketError(s) ==
    /\ Quiet
    /\ rs[s] \in {"connecting", "open"}
    /\ rs' = [rs EXCEPT ![s] = "failed"]
    /\ promise' = NoSocket
    /\ timers' = IF ws # NoSocket /\ rs'[ws] = "open" THEN timers ELSE timers + 1
    /\ settled' = [settled EXCEPT ![s] = IF @ = "pending" THEN "rejected" ELSE @]
    /\ UNCHANGED <<ws, handVars, symKey, reqVars, connVars, toServer>>

SocketClosing(s) ==
    /\ Quiet
    /\ rs[s] = "open"
    /\ rs' = [rs EXCEPT ![s] = "closing"]
    /\ UNCHANGED <<ws, promise, kxVars, timers, reqVars, connVars, toServer>>

(* Mutant: the mocks are unregistered but not told. *)
EndMocksSilently == registered' = {} /\ UNCHANGED readyState

(***************************************************************************)
(* The registered mocks are told that the tunnel closed, up to the first   *)
(* whose onclose throws: it is CLOSED but stays registered, and the loop   *)
(* ends there (any order of the others stands for the Map's).              *)
(***************************************************************************)
EndMocks ==
    \E told \in SUBSET registered :
        LET threw == told \cap OncloseThrows IN
        /\ \/ told = registered /\ threw = {}
           \/ Cardinality(threw) = 1
        /\ readyState' = [c \in Conn |-> IF c \in told THEN "closed"
                                                       ELSE readyState[c]]
        /\ registered' = IF threw = {} THEN {} ELSE (registered \ told) \cup threw

(***************************************************************************)
(* onclose writes the fields of the client whichever socket closed: every  *)
(* registered mock, every pending request and the current key, even if     *)
(* this.ws is a newer socket by now.  It does not settle the promise of s. *)
(***************************************************************************)
SocketClose(s) ==
    /\ \A c \in Conn : ~Queued(c)
    /\ rs[s] = "failed" \/ (rs[s] = "closing" /\ Quiet)
    /\ rs' = [rs EXCEPT ![s] = "closed"]
    /\ promise' = NoSocket
    /\ EndMocks
    /\ req' = [r \in Req |-> IF r \in pending THEN "rejected" ELSE req[r]]
    /\ pending' = {}
    /\ symKey' = NoKey
    /\ timers' = timers + 1
    /\ UNCHANGED <<ws, settled, handVars, reqAwaits, connect, connAwaits, queue, nsent,
                   received, toServer>>

TimerFires ==
    /\ Quiet
    /\ timers > 0
    /\ timers' = timers - 1
    /\ \E p \in Awaitable : EnsureConnection(p)
    /\ UNCHANGED <<kxVars, reqVars, connVars, toServer>>

-----------------------------------------------------------------------------
(* The server_kx handler: up to the quote verification, up to the end of   *)
(* the application's check of the quote if there is one, up to the end of  *)
(* the binding check, and the reply.  An empty quote ends it at once.      *)
ReceiveServerKx(s, m) ==
    IF m.quote = NoServer THEN UNCHANGED vars
    ELSE \E k \in Key :
           /\ kx[k] = "idle"
           /\ kx' = [kx EXCEPT ![k] = "verifying"]
           /\ on' = [on EXCEPT ![k] = s]
           /\ heard' = [heard EXCEPT ![k] = m]
           /\ UNCHANGED <<linkVars, settled, symKey, serverKey, bindingData, timers,
                          reqVars, connVars, toServer>>

(* An invalid quote: the handler throws, and the promise is left as it was. *)
QuoteInvalid(k) ==
    /\ Quiet
    /\ kx[k] = "verifying"
    /\ kx' = [kx EXCEPT ![k] = "invalid"]
    /\ UNCHANGED <<linkVars, settled, on, heard, symKey, serverKey, bindingData,
                   timers, reqVars, connVars, toServer>>

(***************************************************************************)
(* isX25519Bound: the quote of this handshake against the fields of the    *)
(* client, as they are at the moment.  Mutant: the key is not hashed.      *)
(***************************************************************************)
BoundByData(k, pub, data) == heard[k].quote = data

Bound(k, pub, data) == heard[k].quote = pub /\ heard[k].quote = data

(* mrtd and report_data may be other than configured; else the binding check *)
(* is under way.  A check of the application's own may say anything.         *)
CheckBinding(k, pub, data) ==
    \/ kx' = [kx EXCEPT ![k] = "refused"]
    \/ /\ "binding" \in Custom \/ Bound(k, pub, data)
       /\ kx' = [kx EXCEPT ![k] = "binding"]

(***************************************************************************)
(* A valid quote: the fields of the client are those of this handshake,    *)
(* the data of an earlier one staying if this one has none, and            *)
(* this.symmetricKey is set before the binding is checked.  A server key   *)
(* that cannot be used makes the handler throw.                            *)
(***************************************************************************)
QuoteValid(k) ==
    /\ Quiet
    /\ kx[k] = "verifying"
    /\ bindingData' = IF heard[k].data = NoServer THEN bindingData ELSE heard[k].data
    /\ IF heard[k].pub = NoServer
       THEN /\ kx' = [kx EXCEPT ![k] = "invalid"]
            /\ UNCHANGED <<symKey, serverKey>>
       ELSE /\ serverKey' = heard[k].pub
            /\ symKey' = k
            /\ IF "quote" \in Custom
               THEN kx' = [kx EXCEPT ![k] = "approving"]
               ELSE CheckBinding(k, serverKey', bindingData')
    /\ UNCHANGED <<linkVars, settled, on, heard, timers, reqVars, connVars, toServer>>

(* Mutant: the reply does not wait for the binding check. *)
QuoteApprovedEager(k) ==
    /\ Quiet
    /\ kx[k] = "approving"
    /\ CheckBinding(k, serverKey, bindingData)
    /\ toServer' = IF Usable THEN [toServer EXCEPT ![ws] = Append(@, ClientKx(k))]
                             ELSE toServer
    /\ UNCHANGED <<linkVars, settled, on, heard, symKey, serverKey, bindingData,
                   timers, reqVars, connVars>>

(* customVerifyQuote has answered: the fields may be another handshake's now. *)
QuoteApproved(k) ==
    /\ Quiet
    /\ kx[k] = "approving"
    /\ CheckBinding(k, serverKey, bindingData)
    /\ UNCHANGED <<linkVars, settled, on, heard, symKey, serverKey, bindingData,
                   timers, reqVars, connVars, toServer>>

(* The reply goes out on this.ws, which need not be on[k] any more. *)
BindingChecked(k) ==
    /\ Quiet
    /\ kx[k] = "binding"
    /\ kx' = [kx EXCEPT ![k] = "done"]
    /\ promise' = NoSocket
    /\ settled' = [settled EXCEPT ![on[k]] =
                     IF @ # "pending" THEN @
                     ELSE IF Usable THEN "resolved" ELSE "rejected"]
    /\ toServer' = IF Usable THEN [toServer EXCEPT ![ws] = Append(@, ClientKx(k))]
                             ELSE toServer
    /\ UNCHANGED <<ws, rs, on, heard, symKey, serverKey, bindingData, timers,
                   reqVars, connVars>>

-----------------------------------------------------------------------------
(* Decrypted messages from the server. *)

(* Mutants: the entry is deleted but its promise is not settled; the entry is *)
(* not looked up.                                                            *)
HandleHttpResponseLost(r, ok) ==
    /\ pending' = pending \ {r}
    /\ UNCHANGED <<linkVars, kxVars, timers, req, reqAwaits, connVars, toServer>>

HandleHttpResponseLate(r, ok) ==
    /\ pending' = pending \ {r}
    /\ req' = [req EXCEPT ![r] = IF ok THEN "resolved" ELSE "rejected"]
    /\ UNCHANGED <<linkVars, kxVars, timers, reqAwaits, connVars, toServer>>

(* A status that allows no body makes new Response(...) throw, with the entry *)
(* already deleted.                                                          *)
HandleHttpResponse(r, ok) ==
    LET settles == r \in pending /\ req[r] = "sent" /\ ~(ok /\ r \in Bodiless) IN
    /\ pending' = pending \ {r}
    /\ req' = IF settles
              THEN [req EXCEPT ![r] = IF ok THEN "resolved" ELSE "rejected"]
              ELSE req
    /\ UNCHANGED <<linkVars, kxVars, timers, reqAwaits, connVars, toServer>>

(* Mutant: the queue is emptied but not sent. *)
HandleOpenForgetful(c) ==
    /\ readyState' = [readyState EXCEPT ![c] = "open"]
    /\ queue' = [queue EXCEPT ![c] = <<>>]
    /\ UNCHANGED <<linkVars, kxVars, timers, reqVars, connect, connAwaits,
                   registered, nsent, received, toServer>>

(* "open" flushes the messages queued while CONNECTING. *)
HandleOpen(c) ==
    /\ readyState' = [readyState EXCEPT ![c] = "open"]
    /\ queue' = [queue EXCEPT ![c] = <<>>]
    /\ TrySend([i \in 1..Len(queue[c]) |-> WsMessage(c, queue[c][i])])
    /\ UNCHANGED <<linkVars, kxVars, timers, reqVars, connect, connAwaits,
                   registered, nsent, received>>

(* Mutant: a closed connection stays registered. *)
HandleCloseStays(c) ==
    /\ readyState' = [readyState EXCEPT ![c] = "closed"]
    /\ UNCHANGED <<linkVars, kxVars, timers, reqVars, connect, connAwaits,
                   registered, queue, nsent, received, toServer>>

(* A throwing onclose leaves the connection registered. *)
HandleClose(c) ==
    /\ readyState' = [readyState EXCEPT ![c] = "closed"]
    /\ registered' = IF c \in OncloseThrows THEN registered ELSE registered \ {c}
    /\ UNCHANGED <<linkVars, kxVars, timers, reqVars, connect, connAwaits, queue,
                   nsent, received, toServer>>

HandleMessage(c, d) ==
    /\ received' = [received EXCEPT ![c] = IF Len(@) < MaxReceive THEN Append(@, d) ELSE @]
    /\ UNCHANGED <<linkVars, kxVars, timers, reqVars, readyState, connect,
                   connAwaits, registered, queue, nsent, toServer>>

(* Error events, and whatever is about an unknown connection. *)
NoEffect(b) ==
    /\ b.type \in {"ws_event", "ws_message"}
    /\ b.id \notin registered \/ b = WsEvent(b.id, "error")
    /\ UNCHANGED vars

Dispatch(b) ==
    \/ b.type = "http_response" /\ HandleHttpResponse(b.id, b.ok)
    \/ b.type = "ws_event" /\ b.id \in registered /\ b.event = "open" /\ HandleOpen(b.id)
    \/ b.type = "ws_event" /\ b.id \in registered /\ b.event = "close" /\ HandleClose(b.id)
    \/ b.type = "ws_message" /\ b.id \in registered /\ HandleMessage(b.id, b.data)
    \/ NoEffect(b)

(* No key, or another key than the client's current one: onmessage throws. *)
DropMessage(m) ==
    /\ m.type = "enc"
    /\ m.key # symKey
    /\ UNCHANGED vars

Receive(s, m) ==
    /\ Quiet
    /\ rs[s] = "open"
    /\ \/ m.type = "server_kx" /\ ReceiveServerKx(s, m)
       \/ DropMessage(m)
       \/ m.type = "enc" /\ m.key = symKey /\ Dispatch(m.body)

-----------------------------------------------------------------------------
(* fetch(). *)

FetchStart(r) ==
    /\ req[r] = "new"
    /\ \E p \in Awaitable : /\ EnsureConnection(p)
                            /\ reqAwaits' = [reqAwaits EXCEPT ![r] = p]
    /\ req' = [req EXCEPT ![r] = "waiting"]
    /\ UNCHANGED <<kxVars, timers, pending, connVars, toServer>>

(***************************************************************************)
(* After the await (and the reading of the body, which may take time): the *)
(* request is entered in pendingRequests and sent.  A send that fails      *)
(* rejects it, but leaves its entry.                                       *)
(***************************************************************************)
FetchSend(r) ==
    /\ req[r] = "waiting"
    /\ Settled(reqAwaits[r]) /\ ~Failed(reqAwaits[r])
    /\ pending' = pending \cup {r}
    /\ req' = [req EXCEPT ![r] = IF CanSend THEN "sent" ELSE "rejected"]
    /\ TrySend(<<HttpRequest(r)>>)
    /\ UNCHANGED <<linkVars, kxVars, timers, reqAwaits, connVars>>

(* The promise was rejected, or the body cannot be read. *)
FetchFails(r) ==
    /\ req[r] = "waiting"
    /\ Settled(reqAwaits[r])
    /\ req' = [req EXCEPT ![r] = "rejected"]
    /\ UNCHANGED <<linkVars, kxVars, timers, reqAwaits, pending, connVars, toServer>>

(* Mutant: the timer deletes the entry and does not reject. *)
FetchTimeoutSilent(r) ==
    /\ Quiet
    /\ req[r] = "sent"
    /\ r \in pending
    /\ pending' = pending \ {r}
    /\ UNCHANGED <<linkVars, kxVars, timers, req, reqAwaits, connVars, toServer>>

(* The 30 second timer, set once the request has been sent. *)
FetchTimeout(r) ==
    /\ Quiet
    /\ req[r] = "sent"
    /\ r \in pending
    /\ pending' = pending \ {r}
    /\ req' = [req EXCEPT ![r] = "rejected"]
    /\ UNCHANGED <<linkVars, kxVars, timers, reqAwaits, connVars, toServer>>

-----------------------------------------------------------------------------
(* Mock WebSockets. *)

NewWebSocket(c) ==
    /\ readyState[c] = "new"
    /\ readyState' = [readyState EXCEPT ![c] = "connecting"]
    /\ registered' = registered \cup {c}
    /\ connect' = [connect EXCEPT ![c] = "awaiting"]
    /\ \E p \in Awaitable : /\ EnsureConnection(p)
                            /\ connAwaits' = [connAwaits EXCEPT ![c] = p]
    /\ UNCHANGED <<kxVars, timers, reqVars, queue, nsent, received, toServer>>

(* Mutant: the mock is OPEN as soon as ws_connect is sent. *)
ConnectResumeOpens(c) ==
    /\ Queued(c)
    /\ connect' = [connect EXCEPT ![c] = "done"]
    /\ IF Failed(connAwaits[c]) \/ c \in WrongPort
       THEN UNCHANGED <<readyState, toServer>>
       ELSE /\ TrySend(<<WsConnect(c)>>)
            /\ readyState' = [readyState EXCEPT ![c] = "open"]
    /\ UNCHANGED <<linkVars, kxVars, timers, reqVars, connAwaits, registered,
                   queue, nsent, received>>

(* The rest of connect(): no look at readyState.  A rejected promise, another *)
(* port or a tunnel that cannot send end in an error event and nothing else.  *)
ConnectResume(c) ==
    /\ Queued(c)
    /\ connect' = [connect EXCEPT ![c] = "done"]
    /\ IF Failed(connAwaits[c]) \/ c \in WrongPort
       THEN UNCHANGED toServer
       ELSE TrySend(<<WsConnect(c)>>)
    /\ UNCHANGED <<linkVars, kxVars, timers, reqVars, readyState, connAwaits,
                   registered, queue, nsent, received>>

(* send() queues while CONNECTING; an OPEN mock that cannot send loses d. *)
MockSend(c) ==
    LET d == nsent[c] + 1 IN
    /\ nsent[c] < MaxSend
    /\ nsent' = [nsent EXCEPT ![c] = d]
    /\ \/ /\ readyState[c] = "connecting"
          /\ queue' = [queue EXCEPT ![c] = Append(@, d)]
          /\ UNCHANGED toServer
       \/ /\ readyState[c] = "open"
          /\ TrySend(<<WsMessage(c, d)>>)
          /\ UNCHANGED queue
    /\ UNCHANGED <<linkVars, kxVars, timers, reqVars, readyState, connect,
                   connAwaits, registered, received>>

(* Mutant: a closing mock stays registered. *)
MockCloseStays(c) ==
    /\ readyState[c] \in {"connecting", "open"}
    /\ readyState' = [readyState EXCEPT ![c] = "closing"]
    /\ TrySend(<<WsClose(c)>>)
    /\ UNCHANGED <<linkVars, kxVars, timers, reqVars, connect, connAwaits,
                   registered, queue, nsent, received>>

MockClose(c) ==
    /\ readyState[c] \in {"connecting", "open"}
    /\ readyState' = [readyState EXCEPT ![c] = "closing"]
    /\ registered' = registered \ {c}
    /\ TrySend(<<WsClose(c)>>)
    /\ UNCHANGED <<linkVars, kxVars, timers, reqVars, connect, connAwaits, queue,
                   nsent, received>>

-----------------------------------------------------------------------------
(* The server takes the oldest message, or the connection loses them all. *)
Take(s) ==
    /\ toServer[s] # <<>>
    /\ toServer' = [toServer EXCEPT ![s] = Tail(@)]
    /\ UNCHANGED <<linkVars, kxVars, timers, reqVars, connVars>>

Lose(s) ==
    /\ toServer[s] # <<>>
    /\ toServer' = [toServer EXCEPT ![s] = <<>>]
    /\ UNCHANGED <<linkVars, kxVars, timers, reqVars, connVars>>

SocketEvent(s) ==
    \/ SocketOpen(s) \/ SocketError(s) \/ SocketClosing(s) \/ SocketClose(s)

Handshake(k) ==
    QuoteInvalid(k) \/ QuoteValid(k) \/ QuoteApproved(k) \/ BindingChecked(k)

Fetch(r) == FetchStart(r) \/ FetchSend(r) \/ FetchFails(r) \/ FetchTimeout(r)

MockWebSocket(c) ==
    NewWebSocket(c) \/ ConnectResume(c) \/ MockSend(c) \/ MockClose(c)

ServerSends(s) == \E m \in ServerMsg : Receive(s, m)

Next ==
    \/ \E s \in Socket : SocketEvent(s) \/ ServerSends(s) \/ Take(s) \/ Lose(s)
    \/ \E k \in Key : Handshake(k)
    \/ \E r \in Req : Fetch(r)
    \/ \E c \in Conn : MockWebSocket(c)
    \/ TimerFires

Spec == Init /\ [][Next]_vars

-----------------------------------------------------------------------------
(* Safety. *)

(***************************************************************************)
(* A request that went out and has no answer is in pendingRequests: its    *)
(* timeout, its response and a disconnect will all find it.  Not so if its *)
(* response could not be made into a Response.                             *)
(***************************************************************************)
SentIsPending == \A r \in Req \ Bodiless : req[r] = "sent" => r \in pending

(***************************************************************************)
(* A mock that is CONNECTING or OPEN is registered, so onclose reaches it; *)
(* and only such mocks are, so events never revive a closed one, unless    *)
(* its own onclose threw.                                                  *)
(***************************************************************************)
RegisteredIsActive ==
    \A c \in Conn :
        /\ readyState[c] \in {"connecting", "open"} => c \in registered
        /\ c \in registered \ OncloseThrows => readyState[c] \in {"connecting", "open"}

(***************************************************************************)
(* An OPEN mock implies a control socket that has not finished closing,    *)
(* every mock hearing of the end of the tunnel it was opened over, as long *)
(* as no onclose handler throws.                                           *)
(***************************************************************************)
OpenMockHasTunnel ==
    \A c \in Conn : readyState[c] = "open" =>
        \/ \E s \in Socket : rs[s] \in {"open", "closing", "failed"}
        \/ registered \cap OncloseThrows # {}

(***************************************************************************)
(* Nothing is sealed with a key before the quote of its handshake has been *)
(* verified.  Unless the application checks the binding itself, a key is   *)
(* handed over only if that very quote is bound to the key of the server   *)
(* it is sealed for, whatever other handshakes have written into the       *)
(* client meanwhile; with a customVerifyQuote to wait for, this is so of   *)
(* the key the client seals with.                                          *)
(***************************************************************************)
KeysFollowVerification ==
    \A s \in Socket : \A i \in 1..Len(toServer[s]) :
        LET m == toServer[s][i] IN
        /\ m.type = "enc" => kx[m.key] \in {"approving", "binding", "refused", "done"}
        /\ m.type = "client_kx" =>
              /\ kx[m.key] = "done"
              /\ "binding" \notin Custom /\ ("quote" \in Custom => symKey = m.key)
                    => heard[m.key].quote = heard[m.key].pub

(***************************************************************************)
(* client.ts:294: "Validate report_data to X25519 key binding, using       *)
(* default and custom validators": a key is handed over only if the quote  *)
(* of its handshake is bound to the key it is sealed for, also where       *)
(* customVerifyQuote is awaited before.  The check reads the fields of the *)
(* client (client.ts:654-656), by then perhaps another handshake's.        *)
(***************************************************************************)
HandedOverIsBound ==
    \A s \in Socket : \A i \in 1..Len(toServer[s]) :
        LET m == toServer[s][i] IN
        m.type = "client_kx" /\ "binding" \notin Custom =>
            heard[m.key].quote = heard[m.key].pub

(***************************************************************************)
(* fetch() settles once: neither a late response, nor the timer, nor a     *)
(* disconnect changes the outcome its caller has seen.                     *)
(***************************************************************************)
SettledOnce ==
    [][\A r \in Req : req[r] \in {"resolved", "rejected"} => req'[r] = req[r]]_vars

(***************************************************************************)
(* A mock never becomes OPEN again once it is CLOSING or CLOSED, unless    *)
(* its onclose threw.                                                      *)
(***************************************************************************)
ClosedForGood ==
    [][\A c \in Conn \ OncloseThrows : readyState[c] \in {"closing", "closed"} =>
                          readyState'[c] \in {"closing", "closed"}]_vars

=============================================================================
