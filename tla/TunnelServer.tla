--------------------------- MODULE TunnelServer ---------------------------
(***************************************************************************)
(* TunnelServer (packages/tunnel/src/server.ts) and the mock WebSockets it *)
(* hands to the application (ServerRAWebSocket.ts), as an open system: its *)
(* peers may send any message on any control socket, and the application   *)
(* may send, close and answer at any time.                                 *)
(*                                                                         *)
(* A control socket is known by the connection it is (s \in Socket, used   *)
(* once).  A mock WebSocket is known by its connection id: a client sends  *)
(* ws_connect once for an id it has just drawn, so an id names one mock.   *)
(***************************************************************************)
EXTENDS TunnelTypes, Sequences, FiniteSets, Functions

CONSTANTS
    Socket,      \* control WebSockets
    NoSocket,    \* absence of one
    Self,        \* this server, as its X25519 key and its quote name it
    Throwing,    \* connections whose application "close" handler throws
    MaxQueue     \* bound on messages in flight, in AppSend, and on the records
                 \* kept of what mocks have emitted

ASSUME NoSocketAssumption == NoSocket \notin Socket
ASSUME ThrowingAssumption == Throwing \subseteq Conn
ASSUME SelfAssumption     == Self \in Server

VARIABLES
    ctl,        \* readyState of each control socket; "none" before it exists
    keyOf,      \* symmetricKeyBySocket
    live,       \* livenessBySocket: "none", or isAlive as "alive" / "pinged"
    sockets,    \* sockets: the control socket an id is registered with
    via,        \* the control socket captured by the mock's callbacks
    mock,       \* readyState of the mock the application holds
    clients,    \* wss.clients
    inbox,      \* the first MaxQueue messages the mock emitted (a history)
    http,       \* the control sockets a request was handled on, one by one:
                \* each handling answers on its own
    answered,   \* requests whose response has been produced
    listening,  \* the HTTP server still accepts connections
    gone,       \* sockets whose peer vanished without closing
    toClient    \* messages sent on each control socket and not yet taken

vars == <<ctl, keyOf, live, sockets, via, mock, clients, inbox, http,
          answered, listening, gone, toClient>>

Live    == {"open", "closing"}
Tracked == {s \in Socket : ctl[s] \in Live}     \* controlWss.clients

TypeOK ==
    /\ ctl \in [Socket -> {"none", "open", "closing", "closed"}]
    /\ keyOf \in [Socket -> Key \cup {NoKey}]
    /\ live \in [Socket -> {"none", "alive", "pinged"}]
    /\ sockets \in [Conn -> Socket \cup {NoSocket}]
    /\ via \in [Conn -> Socket \cup {NoSocket}]
    /\ mock \in [Conn -> {"none", "open", "closed"}]
    /\ clients \subseteq Conn
    /\ inbox \in [Conn -> Seq(Data)]
    /\ http \in [Req -> Seq(Socket)]
    /\ answered \subseteq Req
    /\ listening \in BOOLEAN
    /\ gone \subseteq Socket
    /\ toClient \in [Socket -> Seq(ServerMsg)]

Init ==
    /\ ctl = [s \in Socket |-> "none"]
    /\ keyOf = [s \in Socket |-> NoKey]
    /\ live = [s \in Socket |-> "none"]
    /\ sockets = [c \in Conn |-> NoSocket]
    /\ via = [c \in Conn |-> NoSocket]
    /\ mock = [c \in Conn |-> "none"]
    /\ clients = {}
    /\ inbox = [c \in Conn |-> <<>>]
    /\ http = [r \in Req |-> <<>>]
    /\ answered = {}
    /\ listening = TRUE
    /\ gone = {}
    /\ toClient = [s \in Socket |-> <<>>]

connVars == <<sockets, via, mock, clients, inbox>>
httpVars == <<http, answered>>
linkVars == <<ctl, keyOf, live, listening, gone>>

-----------------------------------------------------------------------------
(***************************************************************************)
(* sendEncrypted: without a key it throws and every caller catches; on a   *)
(* socket that is no longer OPEN the ws library discards the message.      *)
(***************************************************************************)
Envelopes(s, bodies) == [i \in 1..Len(bodies) |-> Enc(keyOf[s], bodies[i])]

CanSend(s) == keyOf[s] # NoKey /\ ctl[s] = "open"

SendEncrypted(s, bodies) ==
    toClient' = IF CanSend(s)
                THEN [toClient EXCEPT ![s] = @ \o Envelopes(s, bodies)]
                ELSE toClient

Announce == ServerKx(Self, Self, Self)

(* Mutant: liveness starts with the first pong. *)
ControlConnectUnwatched(s) ==
    /\ listening
    /\ ctl[s] = "none"
    /\ ctl' = [ctl EXCEPT ![s] = "open"]
    /\ toClient' = [toClient EXCEPT ![s] = Append(@, Announce)]
    /\ UNCHANGED <<keyOf, live, connVars, httpVars, listening, gone>>

(* A control socket is accepted: liveness starts and server_kx goes out. *)
ControlConnect(s) ==
    /\ listening
    /\ ctl[s] = "none"
    /\ ctl' = [ctl EXCEPT ![s] = "open"]
    /\ live' = [live EXCEPT ![s] = "alive"]
    /\ toClient' = [toClient EXCEPT ![s] = Append(@, Announce)]
    /\ UNCHANGED <<keyOf, connVars, httpVars, listening, gone>>

Pong(s) ==
    /\ s \notin gone
    /\ live[s] # "none"
    /\ live' = [live EXCEPT ![s] = "alive"]
    /\ UNCHANGED <<ctl, keyOf, connVars, httpVars, listening, gone, toClient>>

(* Mutants: the mocks, wss.clients or the table are not updated. *)
ForgetSilently(ended, forgot) ==
    /\ UNCHANGED mock
    /\ clients' = clients \ forgot
    /\ sockets' = [c \in Conn |-> IF c \in forgot THEN NoSocket ELSE sockets[c]]

ForgetKeepsClients(ended, forgot) ==
    /\ mock' = [c \in Conn |-> IF c \in ended THEN "closed" ELSE mock[c]]
    /\ sockets' = [c \in Conn |-> IF c \in forgot THEN NoSocket ELSE sockets[c]]
    /\ UNCHANGED clients

ForgetKeepsEntry(ended, forgot) ==
    /\ mock' = [c \in Conn |-> IF c \in ended THEN "closed" ELSE mock[c]]
    /\ clients' = clients \ forgot
    /\ UNCHANGED sockets

(* Mocks end (emitClose), and ids leave the table and wss.clients. *)
Forget(ended, forgot) ==
    /\ mock' = [c \in Conn |-> IF c \in ended THEN "closed" ELSE mock[c]]
    /\ clients' = clients \ forgot
    /\ sockets' = [c \in Conn |-> IF c \in forgot THEN NoSocket ELSE sockets[c]]

(***************************************************************************)
(* The "close" event of a control socket.  The loop over its entries       *)
(* closes each mock, then forgets it; an application "close" handler that  *)
(* throws leaves its entry behind.                                         *)
(***************************************************************************)
ControlClose(s) ==
    LET owned == {c \in Conn : sockets[c] = s}
        kept  == {c \in owned \cap Throwing : mock[c] = "open"}
    IN /\ ctl[s] \in Live
       /\ ctl' = [ctl EXCEPT ![s] = "closed"]
       /\ keyOf' = [keyOf EXCEPT ![s] = NoKey]
       /\ live' = [live EXCEPT ![s] = "none"]
       /\ Forget(owned, owned \ kept)
       /\ UNCHANGED <<via, inbox, httpVars, listening, gone, toClient>>

-----------------------------------------------------------------------------
(* The intercepted "message" event, one operator per branch. *)

(* Mutant: a later key replaces the first. *)
AcceptAnyKey(s, m) ==
    /\ m.type = "client_kx"
    /\ m.key # NoKey
    /\ keyOf' = [keyOf EXCEPT ![s] = m.key]
    /\ UNCHANGED <<ctl, live, connVars, httpVars, listening, gone, toClient>>

(* The first client_kx whose seal opens sets the key of its socket. *)
AcceptKey(s, m) ==
    /\ m.type = "client_kx"
    /\ keyOf[s] = NoKey
    /\ m.key # NoKey
    /\ keyOf' = [keyOf EXCEPT ![s] = m.key]
    /\ UNCHANGED <<ctl, live, connVars, httpVars, listening, gone, toClient>>

Readable(s, m) == m.type = "enc" /\ keyOf[s] # NoKey /\ m.key = keyOf[s]

(* A second or unopenable key, anything before the key, anything that is not *)
(* an envelope, and an envelope under another key: all dropped.              *)
DropMessage(s, m) ==
    /\ IF m.type = "client_kx"
       THEN keyOf[s] # NoKey \/ m.key = NoKey
       ELSE ~Readable(s, m)
    /\ UNCHANGED vars

HandleHttpRequest(s, r) ==
    /\ http' = [http EXCEPT ![r] = Append(@, s)]
    /\ UNCHANGED <<linkVars, connVars, answered, toClient>>

(***************************************************************************)
(* ws_connect registers the mock and runs the application's "connection"   *)
(* handler inside addClient, before "open" is signalled.  The handler may  *)
(* greet the client, close the mock and throw; a throw is reported to the  *)
(* client as an error event in place of "open".                            *)
(***************************************************************************)
HandleWsConnect(s, c) ==
    \E greeting \in {<<>>} \cup {<<WsMessage(c, d)>> : d \in Data},
       closes, throws \in BOOLEAN :
        /\ via' = [via EXCEPT ![c] = s]
        /\ sockets' = [sockets EXCEPT ![c] = s]
        /\ clients' = clients \cup {c}
        /\ mock' = [mock EXCEPT ![c] = IF closes THEN "closed" ELSE "open"]
        /\ SendEncrypted(s,
               greeting \o (IF closes THEN <<WsEvent(c, "close")>> ELSE <<>>)
                        \o <<WsEvent(c, IF throws THEN "error" ELSE "open")>>)
        /\ UNCHANGED <<linkVars, inbox, httpVars>>

(* Mutant: the payload is emitted in place of its data. *)
HandleWsPayload(c, d) ==
    /\ inbox' = IF sockets[c] # NoSocket /\ mock[c] = "open"
                THEN [inbox EXCEPT ![c] = Append(@, WsMessage(c, d))]
                ELSE inbox
    /\ UNCHANGED <<linkVars, sockets, via, mock, clients, httpVars, toClient>>

(* The sender's socket is not looked at: the table alone routes by id. *)
HandleWsMessage(c, d) ==
    /\ inbox' = IF sockets[c] # NoSocket /\ mock[c] = "open"
                THEN [inbox EXCEPT ![c] = IF Len(@) < MaxQueue THEN Append(@, d) ELSE @]
                ELSE inbox
    /\ UNCHANGED <<linkVars, sockets, via, mock, clients, httpVars, toClient>>

(* Here a throwing "close" handler is caught before the entry is removed. *)
HandleWsClose(c) ==
    /\ IF sockets[c] # NoSocket
       THEN Forget({c}, {c})
       ELSE UNCHANGED <<mock, clients, sockets>>
    /\ UNCHANGED <<linkVars, via, inbox, httpVars, toClient>>

Dispatch(s, b) ==
    \/ b.type = "http_request" /\ HandleHttpRequest(s, b.id)
    \/ b.type = "ws_connect" /\ HandleWsConnect(s, b.id)
    \/ b.type = "ws_message" /\ HandleWsMessage(b.id, b.data)
    \/ b.type = "ws_close" /\ HandleWsClose(b.id)

(* A message reaches a control socket, which may already be closing. *)
Receive(s, m) ==
    /\ ctl[s] \in Live
    /\ s \notin gone
    /\ \/ AcceptKey(s, m)
       \/ DropMessage(s, m)
       \/ Readable(s, m) /\ Dispatch(s, m.body)

-----------------------------------------------------------------------------
(* The application. *)

(* res "end" (ok), or res "error" and the catch blocks (not ok). *)
HttpRespond(r, ok) ==
    /\ r \notin answered
    /\ answered' = answered \cup {r}
    /\ \E i \in DOMAIN http[r] : SendEncrypted(http[r][i], <<HttpResponse(r, ok)>>)
    /\ UNCHANGED <<linkVars, connVars, http>>

(* Mutant: send() does not look at readyState. *)
AppSendAnytime(c, d) ==
    /\ mock[c] # "none"
    /\ Len(toClient[via[c]]) < MaxQueue
    /\ SendEncrypted(via[c], <<WsMessage(c, d)>>)
    /\ UNCHANGED <<linkVars, connVars, httpVars>>

AppSend(c, d) ==
    /\ mock[c] = "open"
    /\ Len(toClient[via[c]]) < MaxQueue
    /\ SendEncrypted(via[c], <<WsMessage(c, d)>>)
    /\ UNCHANGED <<linkVars, connVars, httpVars>>

(* mock.close(): the client is told, but the table and clients keep the id. *)
AppClose(c) ==
    /\ mock[c] = "open"
    /\ mock' = [mock EXCEPT ![c] = "closed"]
    /\ SendEncrypted(via[c], <<WsEvent(c, "close")>>)
    /\ UNCHANGED <<linkVars, sockets, via, clients, inbox, httpVars>>

(* wss.close(): every member is closed, in some order, and the set emptied. *)
Orders == {q \in UNION {[1..n -> Conn] : n \in 0..Cardinality(Conn)} : IsInjective(q)}

WssClose ==
    LET closing(s) == {c \in clients : mock[c] = "open" /\ via[c] = s}
    IN \E order \in [Socket -> Orders] :
        /\ \A s \in Socket : Range(order[s]) = closing(s)
        /\ toClient' =
             [s \in Socket |->
                IF CanSend(s)
                THEN toClient[s] \o Envelopes(s,
                        [i \in 1..Len(order[s]) |-> WsEvent(order[s][i], "close")])
                ELSE toClient[s]]
        /\ mock' = [c \in Conn |-> IF c \in clients THEN "closed" ELSE mock[c]]
        /\ clients' = {}
        /\ UNCHANGED <<linkVars, sockets, via, inbox, httpVars>>

-----------------------------------------------------------------------------
(***************************************************************************)
(* heartbeatSweep.  Clock readings are abstracted: any set of sockets may  *)
(* have been idle for longer than heartbeatTimeout.                        *)
(***************************************************************************)
(* Mutant: a missed pong is forgiven. *)
UnresponsiveOnlyIdle(s, idle) == live[s] = "alive" /\ s \in idle

Unresponsive(s, idle) ==
    live[s] = "pinged" \/ (live[s] = "alive" /\ s \in idle)

HeartbeatSweep ==
    \E idle \in SUBSET Tracked :
        LET doomed == {s \in Tracked : Unresponsive(s, idle)}
            stray  == {s \in Socket \ Tracked : keyOf[s] # NoKey}
        IN /\ listening \/ Tracked # {}
           /\ ctl' = [s \in Socket |-> IF s \in doomed THEN "closing" ELSE ctl[s]]
           /\ live' = [s \in Socket |->
                         IF s \in stray THEN "none"
                         ELSE IF s \in Tracked \ doomed
                              THEN IF live[s] = "alive" THEN "pinged" ELSE "alive"
                              ELSE live[s]]
           /\ keyOf' = [s \in Socket |-> IF s \in stray THEN NoKey ELSE keyOf[s]]
           /\ UNCHANGED <<connVars, httpVars, listening, gone, toClient>>

(* server.close(): no new connection; the timer lasts until the last one ends. *)
ServerClose ==
    /\ listening
    /\ listening' = FALSE
    /\ UNCHANGED <<ctl, keyOf, live, connVars, httpVars, gone, toClient>>

-----------------------------------------------------------------------------
(* The environment. *)

(* The peer takes the oldest message, or the connection loses them all. *)
Take(s) ==
    /\ toClient[s] # <<>>
    /\ toClient' = [toClient EXCEPT ![s] = Tail(@)]
    /\ UNCHANGED <<linkVars, connVars, httpVars>>

Lose(s) ==
    /\ toClient[s] # <<>>
    /\ toClient' = [toClient EXCEPT ![s] = <<>>]
    /\ UNCHANGED <<linkVars, connVars, httpVars>>

(* The peer disappears: no close, no pong, no message from now on. *)
Vanish(s) ==
    /\ ctl[s] = "open"
    /\ gone' = gone \cup {s}
    /\ UNCHANGED <<ctl, keyOf, live, connVars, httpVars, listening, toClient>>

(***************************************************************************)
(* Clients never reuse an id: utils/client.ts draws it from the time and a *)
(* random number.                                                          *)
(***************************************************************************)
PeerMaySend(m) ==
    m.type = "enc" =>
        /\ m.body.type = "ws_connect"   => mock[m.body.id] = "none"
        /\ m.body.type = "http_request" => http[m.body.id] = <<>>

PeerSends(s) == \E m \in ClientMsg : PeerMaySend(m) /\ Receive(s, m)

Next ==
    \/ \E s \in Socket : \/ ControlConnect(s) \/ Pong(s) \/ ControlClose(s)
                         \/ PeerSends(s)
                         \/ Take(s) \/ Lose(s) \/ Vanish(s)
    \/ \E r \in Req, ok \in BOOLEAN : HttpRespond(r, ok)
    \/ \E c \in Conn : AppClose(c) \/ \E d \in Data : AppSend(c, d)
    \/ WssClose
    \/ HeartbeatSweep
    \/ ServerClose

Spec == Init /\ [][Next]_vars

(***************************************************************************)
(* The interval timer keeps firing, and a terminated socket gets its       *)
(* "close" event.  Nothing else is promised: not pongs, not peers closing. *)
(***************************************************************************)
Fairness ==
    /\ WF_vars(HeartbeatSweep)
    /\ \A s \in Socket : WF_vars(ctl[s] = "closing" /\ ControlClose(s))

FairSpec == Spec /\ Fairness

-----------------------------------------------------------------------------
(* Safety. *)

(***************************************************************************)
(* Keys and liveness records are kept for live control sockets only, so    *)
(* the sweep's second loop (server.ts:726) never finds anything to remove. *)
(***************************************************************************)
BookkeepingIsLive ==
    \A s \in Socket :
        /\ keyOf[s] # NoKey => ctl[s] \in Live
        /\ live[s] # "none" <=> ctl[s] \in Live

(***************************************************************************)
(* A mock the application sees as OPEN is registered under the socket its  *)
(* callbacks send on, and that socket is live and has a key: no mock       *)
(* survives its tunnel, and every open mock can be closed by the client.   *)
(***************************************************************************)
OpenMockIsRouted ==
    \A c \in Conn : mock[c] = "open" =>
        /\ via[c] \in Socket
        /\ sockets[c] = via[c]
        /\ ctl[via[c]] \in Live
        /\ keyOf[via[c]] # NoKey

(***************************************************************************)
(* The table does not outlive its control sockets: an entry belongs to a   *)
(* live, keyed socket unless the application's "close" handler threw while *)
(* the socket was being cleaned up (server.ts:231-246).                    *)
(***************************************************************************)
NoOrphanEntry ==
    \A c \in Conn \ Throwing : sockets[c] # NoSocket =>
        /\ sockets[c] = via[c]
        /\ ctl[sockets[c]] \in Live
        /\ keyOf[sockets[c]] # NoKey

(***************************************************************************)
(* Whatever wss.clients still lists has an entry in the table, so the end  *)
(* of its control socket takes it out of wss.clients.                      *)
(***************************************************************************)
ClientsAreTracked == \A c \in clients : sockets[c] # NoSocket

(***************************************************************************)
(* On the wire: server_kx is sent once and first, every envelope is under  *)
(* the one key its socket had, and after the "close" of a connection no    *)
(* message of that connection follows.                                     *)
(***************************************************************************)
WireDiscipline ==
    \A s \in Socket : \A j \in 1..Len(toClient[s]) :
        LET m == toClient[s][j] IN
        /\ m.type = "server_kx" => j = 1
        /\ m.type = "enc" => keyOf[s] \in {m.key, NoKey}
        /\ \A i \in 1..(j-1) :
              (toClient[s][i].type = "enc" /\ m.type = "enc") =>
                 /\ toClient[s][i].key = m.key
                 /\ ~ (/\ toClient[s][i].body = WsEvent(m.body.id, "close")
                       /\ m.body.type = "ws_message")

(***************************************************************************)
(* A socket keeps the first key it accepted until it closes ("Only accept  *)
(* a single symmetric key per WebSocket", server.ts:269).                  *)
(***************************************************************************)
KeyIsWriteOnce ==
    [][\A s \in Socket :
          keyOf[s] # NoKey => keyOf'[s] = keyOf[s] \/ ctl'[s] = "closed"]_vars

(***************************************************************************)
(* A peer that vanished without closing is detected by the heartbeat, and  *)
(* then its key is gone and its mocks have ended.                          *)
(***************************************************************************)
VanishedPeerIsCleaned ==
    \A s \in Socket :
        s \in gone ~> /\ ctl[s] = "closed"
                      /\ keyOf[s] = NoKey
                      /\ \A c \in Conn : via[c] = s => mock[c] = "closed"

=============================================================================
