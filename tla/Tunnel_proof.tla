--------------------------- MODULE Tunnel_proof ---------------------------
(***************************************************************************)
(* Proofs about Tunnel, for every set of sockets, connections and          *)
(* requests: what was proved of each side against any peer holds of the    *)
(* two together, and each keeps what the other relies on.                  *)
(*                                                                         *)
(* Each step of the composition is a step of either side or leaves it      *)
(* alone.  That needs the invariants of the other side (a ws_connect is    *)
(* sent once), and these in turn need that its steps are steps of the open *)
(* system: one induction carries all of them.                              *)
(***************************************************************************)
EXTENDS Tunnel, TLAPS

CliP == INSTANCE TunnelClient_proof
SrvP == INSTANCE TunnelServer_proof

-----------------------------------------------------------------------------
(* The modules of the proofs define the actions anew: they are the same.   *)

LEMMA CliInit ==
    ASSUME Cli!Init
    PROVE  CliP!Init
BY DEF Cli!Init, CliP!Init, Cli!ServerKx, CliP!ServerKx

LEMMA CliSocketEvent ==
    ASSUME NEW s \in Socket, Cli!SocketEvent(s)
    PROVE  CliP!SocketEvent(s)
BY DEF Cli!SocketEvent, CliP!SocketEvent, Cli!SocketOpen, CliP!SocketOpen,
       Cli!SocketError, CliP!SocketError, Cli!SocketClosing,
       CliP!SocketClosing, Cli!SocketClose, CliP!SocketClose, Cli!Quiet,
       CliP!Quiet, Cli!kxVars, CliP!kxVars, Cli!handVars, CliP!handVars, Cli!reqVars, CliP!reqVars,
       Cli!connVars, CliP!connVars, Cli!Queued, CliP!Queued, Cli!EndMocks,
       CliP!EndMocks, Cli!Settled, CliP!Settled, Cli!Cardinality,
       CliP!Cardinality

LEMMA CliHandshake ==
    ASSUME NEW k \in Key, Cli!Handshake(k)
    PROVE  CliP!Handshake(k)
BY DEF Cli!Handshake, CliP!Handshake, Cli!QuoteInvalid, CliP!QuoteInvalid,
       Cli!QuoteValid, CliP!QuoteValid, Cli!QuoteApproved, CliP!QuoteApproved,
       Cli!BindingChecked, CliP!BindingChecked, Cli!CheckBinding,
       CliP!CheckBinding, Cli!Bound, CliP!Bound, Cli!Quiet, CliP!Quiet,
       Cli!linkVars, CliP!linkVars, Cli!reqVars, CliP!reqVars, Cli!connVars,
       CliP!connVars, Cli!Usable, CliP!Usable, Cli!ClientKx, CliP!ClientKx,
       Cli!Queued, CliP!Queued, Cli!Settled, CliP!Settled

LEMMA CliServerSends ==
    ASSUME NEW s \in Socket, Cli!ServerSends(s)
    PROVE  CliP!ServerSends(s)
BY DEF Cli!ServerSends, CliP!ServerSends, Cli!ServerMsg, CliP!ServerMsg,
       Cli!Announcement, CliP!Announcement, Cli!Receive, CliP!Receive,
       Cli!ServerBody, CliP!ServerBody,
       Cli!Quiet, CliP!Quiet, Cli!ReceiveServerKx, CliP!ReceiveServerKx,
       Cli!DropMessage, CliP!DropMessage, Cli!Dispatch, CliP!Dispatch,
       Cli!WsEvents, CliP!WsEvents, Cli!WsMessages, CliP!WsMessages,
       Cli!Queued, CliP!Queued, Cli!linkVars, CliP!linkVars, Cli!reqVars,
       CliP!reqVars, Cli!connVars, CliP!connVars, Cli!vars, CliP!vars,
       Cli!HandleHttpResponse, CliP!HandleHttpResponse, Cli!HandleOpen,
       CliP!HandleOpen, Cli!HandleClose, CliP!HandleClose, Cli!HandleMessage,
       CliP!HandleMessage, Cli!NoEffect, CliP!NoEffect, Cli!Settled,
       CliP!Settled, Cli!kxVars, CliP!kxVars, Cli!handVars, CliP!handVars, Cli!TrySend, CliP!TrySend,
       Cli!WsMessage, CliP!WsMessage, Cli!WsEvent, CliP!WsEvent, Cli!CanSend,
       CliP!CanSend, Cli!SendAll, CliP!SendAll, Cli!Usable, CliP!Usable,
       Cli!Enc, CliP!Enc

LEMMA CliTake ==
    ASSUME NEW s \in Socket, Cli!Take(s)
    PROVE  CliP!Take(s)
BY DEF Cli!Take, CliP!Take, Cli!linkVars, CliP!linkVars, Cli!kxVars,
       CliP!kxVars, Cli!handVars, CliP!handVars, Cli!reqVars, CliP!reqVars, Cli!connVars, CliP!connVars

LEMMA CliLose ==
    ASSUME NEW s \in Socket, Cli!Lose(s)
    PROVE  CliP!Lose(s)
BY DEF Cli!Lose, CliP!Lose, Cli!linkVars, CliP!linkVars, Cli!kxVars,
       CliP!kxVars, Cli!handVars, CliP!handVars, Cli!reqVars, CliP!reqVars, Cli!connVars, CliP!connVars

LEMMA CliFetch ==
    ASSUME NEW r \in Req, Cli!Fetch(r)
    PROVE  CliP!Fetch(r)
BY DEF Cli!Fetch, CliP!Fetch, Cli!FetchStart, CliP!FetchStart, Cli!FetchSend,
       CliP!FetchSend, Cli!FetchFails, CliP!FetchFails, Cli!FetchTimeout,
       CliP!FetchTimeout, Cli!Awaitable, CliP!Awaitable, Cli!EnsureConnection,
       CliP!EnsureConnection, Cli!kxVars, CliP!kxVars, Cli!handVars, CliP!handVars, Cli!connVars,
       CliP!connVars, Cli!Settled, CliP!Settled, Cli!Failed, CliP!Failed,
       Cli!CanSend, CliP!CanSend, Cli!TrySend, CliP!TrySend, Cli!HttpRequest,
       CliP!HttpRequest, Cli!linkVars, CliP!linkVars, Cli!Quiet, CliP!Quiet,
       Cli!Usable, CliP!Usable, Cli!SendAll, CliP!SendAll, Cli!Queued,
       CliP!Queued, Cli!Enc, CliP!Enc

LEMMA CliMockWebSocket ==
    ASSUME NEW c \in Conn, Cli!MockWebSocket(c)
    PROVE  CliP!MockWebSocket(c)
BY DEF Cli!MockWebSocket, CliP!MockWebSocket, Cli!NewWebSocket,
       CliP!NewWebSocket, Cli!ConnectResume, CliP!ConnectResume, Cli!MockSend,
       CliP!MockSend, Cli!MockClose, CliP!MockClose, Cli!Awaitable,
       CliP!Awaitable, Cli!EnsureConnection, CliP!EnsureConnection,
       Cli!kxVars, CliP!kxVars, Cli!handVars, CliP!handVars, Cli!reqVars, CliP!reqVars, Cli!Queued,
       CliP!Queued, Cli!Failed, CliP!Failed, Cli!TrySend, CliP!TrySend,
       Cli!WsConnect, CliP!WsConnect, Cli!linkVars, CliP!linkVars,
       Cli!WsMessage, CliP!WsMessage, Cli!WsClose, CliP!WsClose, Cli!Usable,
       CliP!Usable, Cli!Settled, CliP!Settled, Cli!CanSend, CliP!CanSend,
       Cli!SendAll, CliP!SendAll, Cli!Enc, CliP!Enc

LEMMA CliTimerFires ==
    ASSUME Cli!TimerFires
    PROVE  CliP!TimerFires
BY DEF Cli!TimerFires, CliP!TimerFires, Cli!Quiet, CliP!Quiet, Cli!Awaitable,
       CliP!Awaitable, Cli!EnsureConnection, CliP!EnsureConnection,
       Cli!kxVars, CliP!kxVars, Cli!handVars, CliP!handVars, Cli!reqVars, CliP!reqVars, Cli!connVars,
       CliP!connVars, Cli!Queued, CliP!Queued, Cli!Usable, CliP!Usable,
       Cli!linkVars, CliP!linkVars, Cli!Settled, CliP!Settled

LEMMA SrvInit ==
    ASSUME Srv!Init
    PROVE  SrvP!Init
BY DEF Srv!Init, SrvP!Init

LEMMA SrvControlConnect ==
    ASSUME NEW s \in Socket, Srv!ControlConnect(s)
    PROVE  SrvP!ControlConnect(s)
BY DEF Srv!ControlConnect, SrvP!ControlConnect, Srv!Announce, SrvP!Announce,
       Srv!ServerKx, SrvP!ServerKx, Srv!connVars, SrvP!connVars, Srv!httpVars, SrvP!httpVars

LEMMA SrvPong ==
    ASSUME NEW s \in Socket, Srv!Pong(s)
    PROVE  SrvP!Pong(s)
BY DEF Srv!Pong, SrvP!Pong, Srv!connVars, SrvP!connVars, Srv!httpVars,
       SrvP!httpVars

LEMMA SrvControlClose ==
    ASSUME NEW s \in Socket, Srv!ControlClose(s)
    PROVE  SrvP!ControlClose(s)
BY DEF Srv!ControlClose, SrvP!ControlClose, Srv!Live, SrvP!Live, Srv!Forget,
       SrvP!Forget, Srv!httpVars, SrvP!httpVars

LEMMA SrvPeerSends ==
    ASSUME NEW s \in Socket, Srv!PeerSends(s)
    PROVE  SrvP!PeerSends(s)
BY DEF Srv!PeerSends, SrvP!PeerSends, Srv!ClientMsg, SrvP!ClientMsg,
       Srv!PeerMaySend, SrvP!PeerMaySend, Srv!Receive, SrvP!Receive,
       Srv!ClientBody, SrvP!ClientBody, Srv!Plaintext, SrvP!Plaintext,
       Srv!Live, SrvP!Live, Srv!AcceptKey, SrvP!AcceptKey, Srv!DropMessage,
       SrvP!DropMessage, Srv!Readable, SrvP!Readable, Srv!Dispatch,
       SrvP!Dispatch, Srv!WsMessages, SrvP!WsMessages, Srv!connVars,
       SrvP!connVars, Srv!httpVars, SrvP!httpVars, Srv!vars, SrvP!vars,
       Srv!HandleHttpRequest, SrvP!HandleHttpRequest, Srv!HandleWsConnect,
       SrvP!HandleWsConnect, Srv!HandleWsMessage, SrvP!HandleWsMessage,
       Srv!HandleWsClose, SrvP!HandleWsClose, Srv!linkVars, SrvP!linkVars,
       Srv!WsMessage, SrvP!WsMessage, Srv!SendEncrypted, SrvP!SendEncrypted,
       Srv!WsEvent, SrvP!WsEvent, Srv!Forget, SrvP!Forget, Srv!CanSend,
       SrvP!CanSend, Srv!Envelopes, SrvP!Envelopes, Srv!Enc, SrvP!Enc

LEMMA SrvTake ==
    ASSUME NEW s \in Socket, Srv!Take(s)
    PROVE  SrvP!Take(s)
BY DEF Srv!Take, SrvP!Take, Srv!linkVars, SrvP!linkVars, Srv!connVars,
       SrvP!connVars, Srv!httpVars, SrvP!httpVars

LEMMA SrvLose ==
    ASSUME NEW s \in Socket, Srv!Lose(s)
    PROVE  SrvP!Lose(s)
BY DEF Srv!Lose, SrvP!Lose, Srv!linkVars, SrvP!linkVars, Srv!connVars,
       SrvP!connVars, Srv!httpVars, SrvP!httpVars

LEMMA SrvVanish ==
    ASSUME NEW s \in Socket, Srv!Vanish(s)
    PROVE  SrvP!Vanish(s)
BY DEF Srv!Vanish, SrvP!Vanish, Srv!connVars, SrvP!connVars, Srv!httpVars,
       SrvP!httpVars

LEMMA SrvHttpRespond ==
    ASSUME NEW r \in Req, NEW ok \in BOOLEAN, Srv!HttpRespond(r, ok)
    PROVE  SrvP!HttpRespond(r, ok)
BY DEF Srv!HttpRespond, SrvP!HttpRespond, Srv!SendEncrypted,
       SrvP!SendEncrypted, Srv!HttpResponse, SrvP!HttpResponse, Srv!linkVars,
       SrvP!linkVars, Srv!connVars, SrvP!connVars, Srv!CanSend, SrvP!CanSend,
       Srv!Envelopes, SrvP!Envelopes, Srv!Enc, SrvP!Enc

LEMMA SrvAppClose ==
    ASSUME NEW c \in Conn, Srv!AppClose(c)
    PROVE  SrvP!AppClose(c)
BY DEF Srv!AppClose, SrvP!AppClose, Srv!SendEncrypted, SrvP!SendEncrypted,
       Srv!WsEvent, SrvP!WsEvent, Srv!linkVars, SrvP!linkVars, Srv!httpVars,
       SrvP!httpVars, Srv!CanSend, SrvP!CanSend, Srv!Envelopes,
       SrvP!Envelopes, Srv!Enc, SrvP!Enc

LEMMA SrvAppSend ==
    ASSUME NEW c \in Conn, NEW d \in Data, Srv!AppSend(c, d)
    PROVE  SrvP!AppSend(c, d)
BY DEF Srv!AppSend, SrvP!AppSend, Srv!SendEncrypted, SrvP!SendEncrypted,
       Srv!WsMessage, SrvP!WsMessage, Srv!linkVars, SrvP!linkVars,
       Srv!connVars, SrvP!connVars, Srv!httpVars, SrvP!httpVars, Srv!CanSend,
       SrvP!CanSend, Srv!Envelopes, SrvP!Envelopes, Srv!Enc, SrvP!Enc

LEMMA SrvWssClose ==
    ASSUME Srv!WssClose
    PROVE  SrvP!WssClose
BY DEF Srv!WssClose, SrvP!WssClose, Srv!Orders, SrvP!Orders, Srv!Range,
       SrvP!Range, Srv!CanSend, SrvP!CanSend, Srv!Envelopes, SrvP!Envelopes,
       Srv!WsEvent, SrvP!WsEvent, Srv!linkVars, SrvP!linkVars, Srv!httpVars,
       SrvP!httpVars, Srv!Cardinality, SrvP!Cardinality, Srv!IsInjective,
       SrvP!IsInjective, Srv!Enc, SrvP!Enc

LEMMA SrvHeartbeatSweep ==
    ASSUME Srv!HeartbeatSweep
    PROVE  SrvP!HeartbeatSweep
BY DEF Srv!HeartbeatSweep, SrvP!HeartbeatSweep, Srv!Tracked, SrvP!Tracked,
       Srv!Unresponsive, SrvP!Unresponsive, Srv!connVars, SrvP!connVars,
       Srv!httpVars, SrvP!httpVars, Srv!Live, SrvP!Live

LEMMA SrvServerClose ==
    ASSUME Srv!ServerClose
    PROVE  SrvP!ServerClose
BY DEF Srv!ServerClose, SrvP!ServerClose, Srv!connVars, SrvP!connVars,
       Srv!httpVars, SrvP!httpVars

LEMMA CliSteps == [Cli!Next]_(Cli!vars) => [CliP!Next]_(CliP!vars)
<1>1. UNCHANGED Cli!vars => UNCHANGED CliP!vars
  BY DEF Cli!vars, CliP!vars
<1>2. Cli!Next => CliP!Next
  BY CliSocketEvent, CliHandshake, CliServerSends, CliTake, CliLose, CliFetch,
       CliMockWebSocket, CliTimerFires
     DEF Cli!Next, CliP!Next
<1>. QED
  BY <1>1, <1>2

LEMMA SrvSteps == [Srv!Next]_(Srv!vars) => [SrvP!Next]_(SrvP!vars)
<1>1. UNCHANGED Srv!vars => UNCHANGED SrvP!vars
  BY DEF Srv!vars, SrvP!vars
<1>2. Srv!Next => SrvP!Next
  BY SrvControlConnect, SrvPong, SrvControlClose, SrvPeerSends, SrvTake,
       SrvLose, SrvVanish, SrvHttpRespond, SrvAppClose, SrvAppSend,
       SrvWssClose, SrvHeartbeatSweep, SrvServerClose
     DEF Srv!Next, SrvP!Next
<1>. QED
  BY <1>1, <1>2


-----------------------------------------------------------------------------
(* What each side relies on. *)

(* What a client may yet start is unknown to the server. *)
DueIsUnknown ==
    /\ \A r \in Req : CliP!Due(CliP!HttpRequest(r)) => http[r] = <<>>
    /\ \A c \in Conn : CliP!Due(CliP!WsConnect(c)) => mock[c] = "none"

(* A socket has one server_kx, so it has one handshake. *)
KxComesOnce ==
    /\ \A k \in Key : kx[k] # "idle" =>
          /\ on[k] \in Socket /\ ctl[on[k]] # "none"
          /\ \A j \in SrvP!InFlight(on[k]) : toClient[on[k]][j].type # "server_kx"
    /\ \A k, l \in Key : kx[k] # "idle" /\ kx[l] # "idle" /\ on[k] = on[l] => k = l

(* All handshakes are with this server, and so is what they compare. *)
OneServer ==
    /\ serverKey \in {NoServer, Self}
    /\ \A k \in Key : kx[k] # "idle" => heard[k] = SrvP!Announce
    /\ \A k \in Key : kx[k] \in CliP!Verified => serverKey = Self

ClientInv == CliP!IInv /\ CliP!StartsOnce
ServerInv == SrvP!IInv /\ SrvP!WireInv

IInv ==
    /\ ClientInv
    /\ ServerInv
    /\ DueIsUnknown
    /\ KxComesOnce
    /\ OneServer
    /\ ServedAfterAttestation
    /\ OpenMocksExist

LEMMA ThrowingNobody == SrvP!ThrowingAssumption /\ Throwing = {} /\ OncloseThrows = {}
BY DEF Throwing, OncloseThrows

LEMMA ClientKept == ClientInv /\ [Cli!Next]_(Cli!vars) => ClientInv'
BY CliSteps, CliP!NextIInv, CliP!StartsKept, NoSocketAssumption, DataAssumption,
   NoKeyAssumption, NoServerAssumption, CustomAssumption, ThrowingNobody DEF ClientInv

LEMMA ServerKept == ServerInv /\ [Srv!Next]_(Srv!vars) => ServerInv' /\ SrvP!WireStep
BY SrvSteps, SrvP!NextIInv, SrvP!NextWire, NoSocketAssumption, NoKeyAssumption,
   NoServerAssumption, SelfAssumption, ThrowingNobody
   DEF ServerInv, SrvP!WireStep

LEMMA InitIInv == Init => IInv
<1>. SUFFICES ASSUME Init PROVE IInv
  OBVIOUS
<1>1. ClientInv
  BY CliInit, CliP!InitIInv, CliP!InitStarts, NoSocketAssumption, DataAssumption,
     NoKeyAssumption, NoServerAssumption, CustomAssumption, ThrowingNobody DEF Init, ClientInv
<1>2. ServerInv
  BY SrvInit, SrvP!InitIInv, SrvP!InitWire, NoSocketAssumption, NoKeyAssumption,
   NoServerAssumption, SelfAssumption, ThrowingNobody
     DEF Init, ServerInv
<1>. QED
  BY <1>1, <1>2 DEF Init, IInv, DueIsUnknown, KxComesOnce, OneServer,
     ServedAfterAttestation, OpenMocksExist, CliP!Verified, Cli!Init, Srv!Init


-----------------------------------------------------------------------------
(* The message each end takes is one its open system allows. *)

LEMMA DownlinkHead ==
    ASSUME IInv, NEW s \in Socket, toClient[s] # <<>>
    PROVE  /\ toClient[s] \in Seq(SrvP!ServerMsg)
           /\ 1 \in SrvP!InFlight(s) /\ toClient[s][1] = Head(toClient[s])
           /\ Head(toClient[s]) \in Cli!ServerMsg
           /\ Head(toClient[s]).type = "server_kx" => Head(toClient[s]) = SrvP!Announce
<1>1. toClient[s] \in Seq(SrvP!ServerMsg)
  BY DEF IInv, ServerInv, SrvP!IInv, SrvP!TypeOK
<1>2. 1 \in 1..Len(toClient[s]) /\ toClient[s][1] = Head(toClient[s])
  BY <1>1
<1>3. Head(toClient[s]) \in SrvP!ServerMsg /\ 1 \in SrvP!InFlight(s)
  BY <1>1, <1>2 DEF SrvP!InFlight, SrvP!Places
<1>4. Head(toClient[s]) \in Cli!ServerMsg
  BY <1>3 DEF SrvP!ServerMsg, Cli!ServerMsg, SrvP!Announcement, Cli!Announcement,
              SrvP!ServerBody, Cli!ServerBody, SrvP!WsEvents, Cli!WsEvents,
              SrvP!WsMessages, Cli!WsMessages
<1>5. Head(toClient[s]).type = "server_kx" => Head(toClient[s]) = SrvP!Announce
  BY <1>2, <1>3 DEF IInv, ServerInv, SrvP!WireInv, SrvP!KxIsFirst
<1>. QED
  BY <1>1, <1>2, <1>3, <1>4, <1>5

LEMMA UplinkHead ==
    ASSUME IInv, NEW s \in Socket, toServer[s] # <<>>
    PROVE  /\ Head(toServer[s]) \in Srv!ClientMsg
           /\ Srv!PeerMaySend(Head(toServer[s]))
<1>. DEFINE m == Head(toServer[s])
<1>1. toServer[s] \in Seq(CliP!ClientMsg)
  BY DEF IInv, ClientInv, CliP!IInv, CliP!TypeOK
<1>2. 1 \in 1..Len(toServer[s]) /\ toServer[s][1] = m
  BY <1>1
<1>3. m \in CliP!ClientMsg
  BY <1>1, <1>2
<1>4. m \in Srv!ClientMsg
  BY <1>3 DEF CliP!ClientMsg, Srv!ClientMsg, CliP!ClientBody, Srv!ClientBody,
              CliP!WsMessages, Srv!WsMessages, CliP!Plaintext, Srv!Plaintext
<1>5. m.type = "enc" => CliP!InFlight(m.body) /\ m.body \in CliP!ClientBody
  BY <1>2, <1>3 DEF CliP!InFlight, CliP!Places, CliP!Carries, CliP!ClientMsg, CliP!Plaintext
<1>6. ASSUME m.type = "enc", m.body.type = "ws_connect"
      PROVE  mock[m.body.id] = "none"
  <2>1. m.body.id \in Conn /\ m.body = CliP!WsConnect(m.body.id)
    BY <1>5, <1>6 DEF CliP!ClientBody, CliP!WsMessages, CliP!WsConnect
  <2>. QED
    BY <1>5, <1>6, <2>1 DEF IInv, DueIsUnknown, CliP!Due
<1>7. ASSUME m.type = "enc", m.body.type = "http_request"
      PROVE  http[m.body.id] = <<>>
  <2>1. m.body.id \in Req /\ m.body = CliP!HttpRequest(m.body.id)
    BY <1>5, <1>7 DEF CliP!ClientBody, CliP!WsMessages, CliP!HttpRequest
  <2>. QED
    BY <1>5, <1>7, <2>1 DEF IInv, DueIsUnknown, CliP!Due
<1>8. Srv!PeerMaySend(m)
  BY <1>6, <1>7 DEF Srv!PeerMaySend
<1>. QED
  BY <1>4, <1>8

-----------------------------------------------------------------------------
(* Each step is a step of either side, or leaves it alone. *)

LEMMA ClientUnchanged ==
    ASSUME UNCHANGED clientVars
    PROVE  UNCHANGED Cli!vars
BY DEF clientVars, clientState, Cli!vars

LEMMA ServerUnchanged ==
    ASSUME UNCHANGED serverVars
    PROVE  UNCHANGED Srv!vars
BY DEF serverVars, serverState, Srv!vars

LEMMA ClientStutters ==
    ASSUME UNCHANGED clientState, toServer' = toServer
    PROVE  UNCHANGED Cli!vars
BY DEF clientState, Cli!vars

LEMMA ClientLinkSteps ==
    ASSUME IInv, NEW s \in Socket, Link(s)
    PROVE  [Cli!Next]_(Cli!vars)
<1>1. CASE Accept(s)
  BY <1>1, ClientUnchanged DEF Accept
<1>2. CASE Opened(s)
  BY <1>2 DEF Opened, Cli!Next, Cli!SocketEvent
<1>3. CASE ClientError(s) \/ ClientClosing(s) \/ ClientClose(s)
  BY <1>3 DEF ClientError, ClientClosing, ClientClose, Cli!Next, Cli!SocketEvent
<1>4. CASE ServerEnd(s)
  <2>1. CASE toServer[s] = <<>>
    <3>1. toServer' = toServer
      BY <1>4, <2>1 DEF ServerEnd, IInv, ClientInv, CliP!IInv, CliP!TypeOK
    <3>. QED
      BY <1>4, <3>1, ClientStutters DEF ServerEnd
  <2>2. CASE toServer[s] # <<>>
    <3>1. Cli!Lose(s)
      BY <1>4, <2>2 DEF ServerEnd, clientState, Cli!Lose, Cli!linkVars, Cli!kxVars, Cli!handVars,
                        Cli!reqVars, Cli!connVars
    <3>. QED
      BY <3>1 DEF Cli!Next
  <2>. QED
    BY <2>1, <2>2
<1>5. CASE ToServer(s)
  <2>1. Cli!Take(s)
    BY <1>5 DEF ToServer, clientState, Cli!Take, Cli!linkVars, Cli!kxVars, Cli!handVars, Cli!reqVars,
                Cli!connVars
  <2>. QED
    BY <2>1 DEF Cli!Next
<1>6. CASE ToClient(s)
  BY <1>6, DownlinkHead DEF ToClient, Cli!Next, Cli!ServerSends
<1>7. CASE Discard(s)
  BY <1>7, ClientUnchanged DEF Discard, Cli!Next
<1>. QED
  BY <1>1, <1>2, <1>3, <1>4, <1>5, <1>6, <1>7 DEF Link

LEMMA ClientSteps ==
    ASSUME IInv, [Next]_vars
    PROVE  [Cli!Next]_(Cli!vars)
<1>1. CASE UNCHANGED vars
  BY <1>1, ClientUnchanged DEF vars
<1>2. CASE Client
  BY <1>2 DEF Client, Cli!Next
<1>3. CASE ServerApp
  BY <1>3, ClientUnchanged DEF ServerApp
<1>. QED
  BY <1>1, <1>2, <1>3, ClientLinkSteps DEF Next

LEMMA ServerStutters ==
    ASSUME UNCHANGED serverState, toClient' = toClient
    PROVE  UNCHANGED Srv!vars
BY DEF serverState, Srv!vars

LEMMA ServerLinkSteps ==
    ASSUME IInv, NEW s \in Socket, Link(s)
    PROVE  [Srv!Next]_(Srv!vars)
<1>1. CASE Opened(s) \/ ClientError(s) \/ ClientClosing(s)
  BY <1>1, ServerUnchanged DEF Opened, ClientError, ClientClosing
<1>2. CASE Accept(s) \/ ServerEnd(s)
  BY <1>2 DEF Accept, ServerEnd, Srv!Next
<1>3. CASE ClientClose(s)
  <2>1. CASE toClient[s] = <<>>
    <3>1. toClient' = toClient
      BY <1>3, <2>1 DEF ClientClose, IInv, ServerInv, SrvP!IInv, SrvP!TypeOK
    <3>. QED
      BY <1>3, <3>1, ServerStutters DEF ClientClose
  <2>2. CASE toClient[s] # <<>>
    <3>1. Srv!Lose(s)
      BY <1>3, <2>2 DEF ClientClose, serverState, Srv!Lose, Srv!linkVars, Srv!connVars,
                        Srv!httpVars
    <3>. QED
      BY <3>1 DEF Srv!Next
  <2>. QED
    BY <2>1, <2>2
<1>4. CASE ToServer(s)
  BY <1>4, UplinkHead DEF ToServer, Srv!Next, Srv!PeerSends
<1>5. CASE ToClient(s)
  <2>1. Srv!Take(s)
    BY <1>5 DEF ToClient, serverState, Srv!Take, Srv!linkVars, Srv!connVars, Srv!httpVars
  <2>. QED
    BY <2>1 DEF Srv!Next
<1>6. CASE Discard(s)
  BY <1>6, ServerUnchanged DEF Discard, Srv!Next
<1>. QED
  BY <1>1, <1>2, <1>3, <1>4, <1>5, <1>6 DEF Link

LEMMA ServerSteps ==
    ASSUME IInv, [Next]_vars
    PROVE  [Srv!Next]_(Srv!vars)
<1>1. CASE UNCHANGED vars
  BY <1>1, ServerUnchanged DEF vars
<1>2. CASE Client
  BY <1>2, ServerUnchanged DEF Client
<1>3. CASE ServerApp
  BY <1>3 DEF ServerApp, Srv!Next
<1>. QED
  BY <1>1, <1>2, <1>3, ServerLinkSteps DEF Next

-----------------------------------------------------------------------------
(* What only a message of the client brings about at the server. *)

Brings(s, b) ==
    CliP!Take(s) /\ Head(toServer[s]).type = "enc" /\ Head(toServer[s]).body = b

NothingBrought ==
    /\ UNCHANGED http
    /\ \A c \in Conn : mock[c] = "none" => mock'[c] = "none"
    /\ \A s \in Socket : keyOf'[s] \in {keyOf[s], NoKey}

LEMMA ServerAloneBringsNothing ==
    ASSUME IInv, [Next]_vars, \A s \in Socket : ~ToServer(s)
    PROVE  NothingBrought
<1>1. SrvP!FreshIsUnknown /\ SrvP!TypeOK
  BY DEF IInv, ServerInv, SrvP!IInv
<1>2. CASE UNCHANGED <<http, mock, keyOf>>
  BY <1>2 DEF NothingBrought
<1>3. ASSUME NEW s \in Socket, Link(s)
      PROVE  NothingBrought
  <2>1. CASE Accept(s) \/ Opened(s) \/ ClientError(s) \/ ClientClosing(s) \/ ClientClose(s)
             \/ ToClient(s) \/ Discard(s)
    BY <1>2, <2>1 DEF Accept, Opened, ClientError, ClientClosing, ClientClose, ToClient, Discard,
       Srv!ControlConnect, Srv!Lose, Srv!linkVars, Srv!connVars, Srv!httpVars, serverVars,
       serverState
  <2>2. CASE ServerEnd(s)
    BY <1>1, <2>2, NoSocketAssumption
       DEF ServerEnd, Srv!ControlClose, Srv!Forget, Srv!httpVars, NothingBrought,
           SrvP!FreshIsUnknown, SrvP!TypeOK
  <2>. QED
    BY <1>3, <2>1, <2>2 DEF Link
<1>4. CASE Client
  BY <1>2, <1>4 DEF Client, serverVars, serverState
<1>5. CASE ServerApp
  <2>1. ASSUME NEW r \in Req, NEW ok \in BOOLEAN, Srv!HttpRespond(r, ok)
        PROVE  NothingBrought
    BY <1>2, <2>1 DEF Srv!HttpRespond, Srv!linkVars, Srv!connVars
  <2>2. ASSUME NEW c \in Conn, Srv!AppClose(c)
        PROVE  NothingBrought
    BY <1>1, <2>2 DEF Srv!AppClose, Srv!linkVars, Srv!httpVars, NothingBrought, SrvP!TypeOK
  <2>3. ASSUME NEW c \in Conn, NEW d \in Data, Srv!AppSend(c, d)
        PROVE  NothingBrought
    BY <1>2, <2>3 DEF Srv!AppSend, Srv!linkVars, Srv!connVars, Srv!httpVars
  <2>4. CASE Srv!WssClose
    <3>1. /\ mock' = [c \in Conn |-> IF c \in clients THEN "closed" ELSE mock[c]]
          /\ UNCHANGED <<keyOf, http>>
      BY <2>4 DEF Srv!WssClose, Srv!linkVars, Srv!httpVars
    <3>. QED
      BY <1>1, <3>1 DEF NothingBrought, SrvP!FreshIsUnknown
  <2>. QED
    BY <1>5, <2>1, <2>2, <2>3, <2>4 DEF ServerApp
<1>6. CASE UNCHANGED vars
  BY <1>2, <1>6 DEF vars, serverVars, serverState
<1>. QED
  BY <1>3, <1>4, <1>5, <1>6 DEF Next

LEMMA ClientBrings ==
    ASSUME IInv, NEW s \in Socket, ToServer(s)
    PROVE  /\ \A r \in Req : http'[r] # http[r] =>
                 /\ Brings(s, CliP!HttpRequest(r))
                 /\ http[r] = <<>>
                 /\ http' = [http EXCEPT ![r] = Append(@, s)] /\ UNCHANGED answered
           /\ \A c \in Conn : mock[c] = "none" /\ mock'[c] # "none" =>
                 Brings(s, CliP!WsConnect(c))
           /\ \A x \in Socket : keyOf'[x] \notin {keyOf[x], NoKey} =>
                 Head(toServer[s]) = CliP!ClientKx(keyOf'[x])
           /\ UNCHANGED http => UNCHANGED answered
<1>. DEFINE m == Head(toServer[s])
<1>1. SrvP!FreshIsUnknown /\ SrvP!TypeOK
  BY DEF IInv, ServerInv, SrvP!IInv
<1>2. /\ CliP!Take(s) /\ Srv!Receive(s, m) /\ toServer[s] # <<>>
      /\ m \in Srv!ClientMsg /\ Srv!PeerMaySend(m)
  BY UplinkHead DEF ToServer, clientState, CliP!Take, CliP!linkVars, CliP!kxVars, Cli!handVars, CliP!handVars,
     CliP!reqVars, CliP!connVars
<1>. HIDE DEF m
<1>3. CASE Srv!AcceptKey(s, m)
  <2>1. m = CliP!ClientKx(m.key)
    BY <1>2, <1>3 DEF Srv!AcceptKey, Srv!ClientMsg, Srv!Plaintext, CliP!ClientKx
  <2>. QED
    BY <1>1, <1>3, <2>1 DEF Srv!AcceptKey, Srv!connVars, Srv!httpVars, SrvP!TypeOK, m
<1>4. CASE Srv!DropMessage(s, m)
  BY <1>4 DEF Srv!DropMessage, Srv!vars
<1>5. ASSUME m.type = "enc", Srv!Dispatch(s, m.body)
      PROVE  /\ \A r \in Req : http'[r] # http[r] =>
                   /\ Brings(s, CliP!HttpRequest(r))
                   /\ http[r] = <<>>
                   /\ http' = [http EXCEPT ![r] = Append(@, s)] /\ UNCHANGED answered
             /\ \A c \in Conn : mock[c] = "none" /\ mock'[c] # "none" =>
                   Brings(s, CliP!WsConnect(c))
             /\ UNCHANGED keyOf
             /\ UNCHANGED http => UNCHANGED answered
  <2>1. m.body \in Srv!ClientBody
    BY <1>2, <1>5 DEF Srv!ClientMsg, Srv!Plaintext
  <2>2. CASE m.body.type = "http_request" /\ Srv!HandleHttpRequest(s, m.body.id)
    <3>1. /\ m.body.id \in Req /\ m.body = CliP!HttpRequest(m.body.id)
          /\ http[m.body.id] = <<>>
      BY <1>2, <1>5, <2>1, <2>2 DEF Srv!ClientBody, Srv!WsMessages, CliP!HttpRequest,
         Srv!PeerMaySend
    <3>. QED
      BY <1>1, <1>2, <1>5, <2>2, <3>1 DEF Srv!HandleHttpRequest, Srv!linkVars, Srv!connVars,
         Brings, SrvP!TypeOK, m
  <2>3. CASE m.body.type = "ws_connect" /\ Srv!HandleWsConnect(s, m.body.id)
    <3>1. m.body.id \in Conn /\ m.body = CliP!WsConnect(m.body.id)
      BY <2>1, <2>3 DEF Srv!ClientBody, Srv!WsMessages, CliP!WsConnect
    <3>2. /\ \A c \in Conn : c # m.body.id => mock'[c] = mock[c]
          /\ UNCHANGED <<keyOf, http, answered>>
      BY <1>1, <2>3 DEF Srv!HandleWsConnect, Srv!linkVars, Srv!httpVars, SrvP!TypeOK
    <3>. QED
      BY <1>2, <1>5, <3>1, <3>2 DEF Brings, m
  <2>4. CASE m.body.type = "ws_message" /\ Srv!HandleWsMessage(m.body.id, m.body.data)
    BY <2>4 DEF Srv!HandleWsMessage, Srv!linkVars, Srv!httpVars
  <2>5. CASE m.body.type = "ws_close" /\ Srv!HandleWsClose(m.body.id)
    BY <1>1, <2>5 DEF Srv!HandleWsClose, Srv!Forget, Srv!linkVars, Srv!httpVars,
       SrvP!FreshIsUnknown
  <2>. QED
    BY <1>5, <2>2, <2>3, <2>4, <2>5 DEF Srv!Dispatch
<1>. QED
  BY <1>2, <1>3, <1>4, <1>5 DEF Srv!Receive, Srv!Readable

-----------------------------------------------------------------------------
(* What only a message of the server brings about at the client. *)

(* A handshake starts with the server_kx that is taken. *)
Starts(k, s) ==
    /\ ToClient(s) /\ toClient[s] # <<>> /\ Head(toClient[s]).type = "server_kx"
    /\ kx[k] = "idle"
    /\ kx' = [kx EXCEPT ![k] = "verifying"]
    /\ on' = [on EXCEPT ![k] = s]
    /\ heard' = [heard EXCEPT ![k] = Head(toClient[s])]
    /\ UNCHANGED serverKey

(* A handshake under way gets to v, which leaves the server's key known. *)
Proceeds(k, v) ==
    /\ kx[k] \notin {"idle", "done"} /\ v # "idle"
    /\ kx' = [kx EXCEPT ![k] = v]
    /\ UNCHANGED <<on, heard>>
    /\ \/ serverKey' = heard[k].pub
       \/ serverKey' = serverKey /\ (kx[k] \in CliP!Verified \/ v \notin CliP!Verified)

Progress ==
    \/ UNCHANGED <<kx, on, heard, serverKey>>
    \/ \E k \in Key : \E s \in Socket : Starts(k, s)
    \/ \E k \in Key : \E v : Proceeds(k, v)

LEMMA HandshakeProgress ==
    ASSUME NEW k \in Key, Cli!Handshake(k)
    PROVE  \E v : Proceeds(k, v)
<1>1. CASE Cli!QuoteInvalid(k)
  <2>1. Proceeds(k, "invalid")
    BY <1>1 DEF Cli!QuoteInvalid, Proceeds, CliP!Verified
  <2>. QED
    BY <2>1
<1>2. CASE Cli!QuoteValid(k)
  <2>1. CASE heard[k].pub = NoServer
    <3>1. Proceeds(k, "invalid")
      BY <1>2, <2>1 DEF Cli!QuoteValid, Proceeds, CliP!Verified
    <3>. QED
      BY <3>1
  <2>2. CASE heard[k].pub # NoServer
    <3>1. \E v \in {"approving", "refused", "binding"} : kx' = [kx EXCEPT ![k] = v]
      BY <1>2, <2>2 DEF Cli!QuoteValid, Cli!CheckBinding
    <3>. QED
      BY <1>2, <2>2, <3>1 DEF Cli!QuoteValid, Proceeds
  <2>. QED
    BY <2>1, <2>2
<1>3. CASE Cli!QuoteApproved(k)
  <2>1. \E v \in {"refused", "binding"} : kx' = [kx EXCEPT ![k] = v]
    BY <1>3 DEF Cli!QuoteApproved, Cli!CheckBinding
  <2>. QED
    BY <1>3, <2>1 DEF Cli!QuoteApproved, Proceeds, CliP!Verified
<1>4. CASE Cli!BindingChecked(k)
  <2>1. Proceeds(k, "done")
    BY <1>4 DEF Cli!BindingChecked, Proceeds, CliP!Verified
  <2>. QED
    BY <2>1
<1>. QED
  BY <1>1, <1>2, <1>3, <1>4 DEF Cli!Handshake

LEMMA NextProgress ==
    ASSUME IInv, [Next]_vars
    PROVE  Progress
<1>2. CASE UNCHANGED <<kx, on, heard, serverKey>>
  BY <1>2 DEF Progress
<1>3. ASSUME NEW s \in Socket, Link(s)
      PROVE  Progress
  <2>1. CASE Accept(s) \/ Opened(s) \/ ClientError(s) \/ ClientClosing(s) \/ ClientClose(s)
             \/ ServerEnd(s) \/ ToServer(s) \/ Discard(s)
    BY <1>2, <2>1 DEF Accept, Opened, ClientError, ClientClosing, ClientClose, ServerEnd,
       ToServer, Discard, Cli!SocketOpen, Cli!SocketError, Cli!SocketClosing, Cli!SocketClose,
       Cli!Lose, Cli!kxVars, Cli!handVars, clientVars, clientState
  <2>2. CASE ToClient(s)
    <3>. DEFINE m == Head(toClient[s])
    <3>0. Cli!Receive(s, m) /\ toClient[s] # <<>>
      BY <2>2 DEF ToClient
    <3>. HIDE DEF m
    <3>1. CASE m.type = "server_kx" /\ Cli!ReceiveServerKx(s, m)
      <4>1. CASE UNCHANGED Cli!vars
        BY <1>2, <4>1 DEF Cli!vars
      <4>2. CASE \E k \in Key :
                   /\ kx[k] = "idle"
                   /\ kx' = [kx EXCEPT ![k] = "verifying"]
                   /\ on' = [on EXCEPT ![k] = s]
                   /\ heard' = [heard EXCEPT ![k] = m]
                   /\ UNCHANGED serverKey
        <5>1. PICK k \in Key :
                   /\ kx[k] = "idle"
                   /\ kx' = [kx EXCEPT ![k] = "verifying"]
                   /\ on' = [on EXCEPT ![k] = s]
                   /\ heard' = [heard EXCEPT ![k] = m]
                   /\ UNCHANGED serverKey
          BY <4>2
        <5>2. Starts(k, s)
          BY <2>2, <3>0, <3>1, <5>1 DEF Starts, m
        <5>. QED
          BY <5>2 DEF Progress
      <4>. QED
        BY <3>1, <4>1, <4>2 DEF Cli!ReceiveServerKx
    <3>2. CASE Cli!DropMessage(m) \/ (m.type = "enc" /\ Cli!Dispatch(m.body))
      BY <1>2, <3>2 DEF Cli!DropMessage, Cli!Dispatch,
         Cli!HandleHttpResponse, Cli!HandleOpen, Cli!HandleClose, Cli!HandleMessage,
         Cli!NoEffect, Cli!kxVars, Cli!handVars, Cli!vars
    <3>. QED
      BY <3>0, <3>1, <3>2 DEF Cli!Receive
  <2>. QED
    BY <1>3, <2>1, <2>2 DEF Link
<1>4. CASE Client
  <2>1. ASSUME NEW k \in Key, Cli!Handshake(k)
        PROVE  Progress
    BY <2>1, HandshakeProgress DEF Progress
  <2>2. ASSUME NEW r \in Req, Cli!Fetch(r)
        PROVE  Progress
    BY <1>2, <2>2 DEF Cli!Fetch, Cli!FetchStart, Cli!FetchSend, Cli!FetchFails,
       Cli!FetchTimeout, Cli!kxVars, Cli!handVars
  <2>3. ASSUME NEW c \in Conn, Cli!MockWebSocket(c)
        PROVE  Progress
    BY <1>2, <2>3 DEF Cli!MockWebSocket, Cli!NewWebSocket, Cli!ConnectResume, Cli!MockSend,
       Cli!MockClose, Cli!kxVars, Cli!handVars
  <2>4. CASE Cli!TimerFires
    BY <1>2, <2>4 DEF Cli!TimerFires, Cli!kxVars, Cli!handVars
  <2>. QED
    BY <1>4, <2>1, <2>2, <2>3, <2>4 DEF Client
<1>5. CASE ServerApp \/ UNCHANGED vars
  BY <1>2, <1>5 DEF ServerApp, vars, clientVars, clientState
<1>. QED
  BY <1>3, <1>4, <1>5 DEF Next

LEMMA HandshakeTypes ==
    IInv => /\ kx \in [Key -> {"idle", "verifying", "invalid", "approving", "binding",
                              "refused", "done"}]
            /\ on \in [Key -> Socket \cup {NoSocket}]
            /\ heard \in [Key -> CliP!Announcement]
BY DEF IInv, ClientInv, CliP!IInv, CliP!TypeOK

(* c is OPEN, or has received something. *)
Alive(c) == readyState[c] = "open" \/ received[c] # <<>>

(* The same after a step. *)
NowAlive(c) == readyState'[c] = "open" \/ received'[c] # <<>>

Tells(s, c) ==
    /\ ToClient(s)
    /\ Head(toClient[s]).type = "enc"
    /\ Head(toClient[s]).body.type \in {"ws_event", "ws_message"}
    /\ Head(toClient[s]).body.id = c

LEMMA AliveIsTold ==
    ASSUME IInv, [Next]_vars, NEW c \in Conn, NowAlive(c)
    PROVE  Alive(c) \/ \E s \in Socket : Tells(s, c)
<1>1. CliP!TypeOK
  BY DEF IInv, ClientInv, CliP!IInv
<1>2. CASE UNCHANGED <<readyState, received>>
  BY <1>2 DEF Alive, NowAlive
<1>3. CASE received' = received /\ (readyState'[c] = "open" => readyState[c] = "open")
  BY <1>3 DEF Alive, NowAlive
<1>4. ASSUME NEW s \in Socket, Link(s)
      PROVE  Alive(c) \/ Tells(s, c)
  <2>1. CASE Accept(s) \/ Opened(s) \/ ClientError(s) \/ ClientClosing(s)
             \/ ServerEnd(s) \/ ToServer(s) \/ Discard(s)
    BY <1>2, <2>1 DEF Accept, Opened, ClientError, ClientClosing, ServerEnd,
       ToServer, Discard, Cli!SocketOpen, Cli!SocketError, Cli!SocketClosing,
       Cli!Lose, Cli!connVars, clientVars, clientState, Alive, NowAlive
  <2>2. CASE ClientClose(s)
    <3>1. received' = received /\ \A x \in Conn : readyState'[x] \in {readyState[x], "closed"}
      BY <2>2 DEF ClientClose, Cli!SocketClose, Cli!EndMocks
    <3>2. readyState'[c] = "open" => readyState[c] = "open"
      BY <3>1
    <3>. QED
      BY <3>1, <3>2 DEF Alive, NowAlive
  <2>3. CASE ToClient(s)
    <3>. DEFINE m == Head(toClient[s])
    <3>1. Cli!Receive(s, m)
      BY <2>3 DEF ToClient
    <3>. HIDE DEF m
    <3>2. CASE UNCHANGED <<readyState, received>>
      BY <3>2 DEF Alive, NowAlive
    <3>3. ASSUME m.type = "enc", m.body.type \in {"ws_event", "ws_message"},
                 /\ \A x \in Conn : x # m.body.id => readyState'[x] = readyState[x]
                 /\ \A x \in Conn : x # m.body.id => received'[x] = received[x]
          PROVE  Alive(c) \/ Tells(s, c)
      BY <2>3, <3>3 DEF Alive, NowAlive, Tells, m
    <3>4. CASE Cli!ReceiveServerKx(s, m) \/ Cli!DropMessage(m)
      BY <3>2, <3>4 DEF Cli!ReceiveServerKx, Cli!DropMessage, Cli!connVars, Cli!vars
    <3>5. CASE m.type = "enc" /\ Cli!Dispatch(m.body)
      <4>1. CASE Cli!HandleHttpResponse(m.body.id, m.body.ok) \/ Cli!NoEffect(m.body)
        BY <3>2, <4>1 DEF Cli!HandleHttpResponse, Cli!NoEffect, Cli!connVars, Cli!vars
      <4>2. CASE /\ m.body.type = "ws_event"
                 /\ Cli!HandleOpen(m.body.id) \/ Cli!HandleClose(m.body.id)
        BY <1>1, <3>3, <3>5, <4>2 DEF Cli!HandleOpen, Cli!HandleClose, CliP!TypeOK
      <4>3. CASE m.body.type = "ws_message" /\ Cli!HandleMessage(m.body.id, m.body.data)
        BY <1>1, <3>3, <3>5, <4>3 DEF Cli!HandleMessage, Cli!connVars, CliP!TypeOK
      <4>. QED
        BY <3>5, <4>1, <4>2, <4>3 DEF Cli!Dispatch
    <3>. QED
      BY <3>1, <3>4, <3>5 DEF Cli!Receive
  <2>. QED
    BY <1>4, <2>1, <2>2, <2>3 DEF Link
<1>5. CASE Client
  <2>1. ASSUME NEW k \in Key, Cli!Handshake(k)
        PROVE  UNCHANGED <<readyState, received>>
    BY <2>1 DEF Cli!Handshake, Cli!QuoteInvalid, Cli!QuoteValid, Cli!QuoteApproved,
       Cli!BindingChecked, Cli!connVars
  <2>2. ASSUME NEW r \in Req, Cli!Fetch(r)
        PROVE  UNCHANGED <<readyState, received>>
    BY <2>2 DEF Cli!Fetch, Cli!FetchStart, Cli!FetchSend, Cli!FetchFails, Cli!FetchTimeout,
       Cli!connVars
  <2>3. ASSUME NEW x \in Conn, Cli!MockWebSocket(x)
        PROVE  received' = received /\ (readyState'[c] = "open" => readyState[c] = "open")
    BY <1>1, <2>3 DEF Cli!MockWebSocket, Cli!NewWebSocket, Cli!ConnectResume, Cli!MockSend,
       Cli!MockClose, CliP!TypeOK
  <2>4. CASE Cli!TimerFires
    BY <1>2, <2>4 DEF Cli!TimerFires, Cli!connVars
  <2>. QED
    BY <1>2, <1>3, <1>5, <2>1, <2>2, <2>3, <2>4 DEF Client
<1>6. CASE ServerApp \/ UNCHANGED vars
  BY <1>2, <1>6 DEF ServerApp, vars, clientVars, clientState
<1>. QED
  BY <1>4, <1>5, <1>6 DEF Next

-----------------------------------------------------------------------------
(* The invariant is kept. *)

LEMMA SidesKept ==
    ASSUME IInv, [Next]_vars
    PROVE  ClientInv' /\ ServerInv' /\ SrvP!WireStep
BY ClientSteps, ServerSteps, ClientKept, ServerKept DEF IInv

LEMMA DueKept ==
    ASSUME IInv, [Next]_vars
    PROVE  DueIsUnknown'
<1>1. /\ CliP!IInv /\ CliP!StartsOnce /\ [CliP!Next]_(CliP!vars)
      /\ \A b \in CliP!Starts : CliP!Due(b)' => CliP!Due(b)
  BY ClientSteps, CliSteps, CliP!DueDwindles, NoSocketAssumption, DataAssumption,
     NoKeyAssumption, NoServerAssumption, CustomAssumption, ThrowingNobody DEF IInv, ClientInv
<1>2. ASSUME NEW s \in Socket, NEW b \in CliP!Starts, Brings(s, b)
      PROVE  ~CliP!Due(b)'
  BY <1>1, <1>2, CliP!TakenIsNotDue, NoSocketAssumption, DataAssumption,
     NoKeyAssumption, NoServerAssumption, CustomAssumption, ThrowingNobody DEF Brings
<1>3. ASSUME NEW r \in Req, CliP!Due(CliP!HttpRequest(r))'
      PROVE  http'[r] = <<>>
  <2>1. CliP!HttpRequest(r) \in CliP!Starts
    BY DEF CliP!Starts
  <2>2. http[r] = <<>>
    BY <1>1, <1>3, <2>1 DEF IInv, DueIsUnknown
  <2>3. CASE http'[r] # http[r]
    <3>1. PICK s \in Socket : ToServer(s)
      BY <2>3, ServerAloneBringsNothing DEF NothingBrought
    <3>2. Brings(s, CliP!HttpRequest(r))
      BY <2>3, <3>1, ClientBrings
    <3>. QED
      BY <1>2, <1>3, <2>1, <3>2
  <2>. QED
    BY <2>2, <2>3
<1>4. ASSUME NEW c \in Conn, CliP!Due(CliP!WsConnect(c))'
      PROVE  mock'[c] = "none"
  <2>1. CliP!WsConnect(c) \in CliP!Starts
    BY DEF CliP!Starts
  <2>2. mock[c] = "none"
    BY <1>1, <1>4, <2>1 DEF IInv, DueIsUnknown
  <2>3. CASE mock'[c] # "none"
    <3>1. PICK s \in Socket : ToServer(s)
      BY <2>2, <2>3, ServerAloneBringsNothing DEF NothingBrought
    <3>2. Brings(s, CliP!WsConnect(c))
      BY <2>2, <2>3, <3>1, ClientBrings
    <3>. QED
      BY <1>2, <1>4, <2>1, <3>2
  <2>. QED
    BY <2>3
<1>. QED
  BY <1>3, <1>4 DEF DueIsUnknown

(* On a socket whose handshake goes on nothing changes that matters. *)
LEMMA OldKxKept ==
    ASSUME IInv, [Next]_vars, NEW k \in Key, kx[k] # "idle"
    PROVE  /\ on[k] \in Socket /\ ctl'[on[k]] # "none"
           /\ \A j \in SrvP!Places(toClient'[on[k]]) : toClient'[on[k]][j].type # "server_kx"
<1>1. SrvP!KxKept /\ SrvP!SocketsKept
  BY SidesKept DEF SrvP!WireStep
<1>2. /\ on[k] \in Socket /\ ctl[on[k]] # "none"
      /\ \A j \in SrvP!InFlight(on[k]) : toClient[on[k]][j].type # "server_kx"
  BY DEF IInv, KxComesOnce
<1>. DEFINE s == on[k]
<1>3. /\ s \in Socket /\ ctl[s] # "none"
      /\ \A j \in SrvP!InFlight(s) : toClient[s][j].type # "server_kx"
  BY <1>2
<1>4. ASSUME NEW x \in Socket, ctl[x] # "none",
             \A j \in SrvP!InFlight(x) : toClient[x][j].type # "server_kx"
      PROVE  /\ ctl'[x] # "none"
             /\ \A j \in SrvP!InFlight(x)' : toClient'[x][j].type # "server_kx"
  BY <1>1, <1>4 DEF SrvP!KxKept, SrvP!SocketsKept
<1>5. /\ ctl'[s] # "none"
      /\ \A j \in SrvP!Places(toClient'[s]) : toClient'[s][j].type # "server_kx"
  <2>. HIDE DEF s
  <2>. QED
    BY <1>3, <1>4 DEF SrvP!InFlight, SrvP!Places
<1>. QED
  BY <1>3, <1>5

(* The one that starts has taken the only server_kx of its socket. *)
LEMMA NewKxTaken ==
    ASSUME IInv, NEW k \in Key, NEW s \in Socket, Starts(k, s)
    PROVE  /\ ctl'[s] # "none"
           /\ \A j \in SrvP!InFlight(s)' : toClient'[s][j].type # "server_kx"
           /\ \A l \in Key : kx[l] # "idle" => on[l] # s
<1>1. toClient[s] # <<>> /\ toClient' = [toClient EXCEPT ![s] = Tail(@)] /\ ctl' = ctl
  BY DEF Starts, ToClient, serverState
<1>2. /\ toClient[s] \in Seq(SrvP!ServerMsg)
      /\ toClient \in [Socket -> Seq(SrvP!ServerMsg)]
  BY DEF IInv, ServerInv, SrvP!IInv, SrvP!TypeOK
<1>3. ctl[s] # "none"
  BY <1>1 DEF IInv, ServerInv, SrvP!WireInv, SrvP!SilentUntilAccepted
<1>4. ASSUME NEW j \in SrvP!InFlight(s)', toClient'[s][j].type = "server_kx"
      PROVE  FALSE
  <2>1. /\ j + 1 \in SrvP!InFlight(s) /\ j \in Nat /\ j > 0
        /\ toClient'[s][j] = toClient[s][j + 1]
    BY <1>1, <1>2 DEF SrvP!InFlight, SrvP!Places
  <2>2. j + 1 = 1
    BY <1>4, <2>1 DEF IInv, ServerInv, SrvP!WireInv, SrvP!KxIsFirst
  <2>. QED
    BY <2>1, <2>2
<1>5. 1 \in SrvP!InFlight(s) /\ toClient[s][1].type = "server_kx"
  BY <1>1, DownlinkHead DEF Starts
<1>6. \A l \in Key : kx[l] # "idle" => on[l] # s
  BY <1>5 DEF IInv, KxComesOnce
<1>. QED
  BY <1>1, <1>3, <1>4, <1>6

LEMMA KxComesOnceKept ==
    ASSUME IInv, [Next]_vars
    PROVE  KxComesOnce'
<1>. DEFINE Spent(s) == /\ s \in Socket /\ ctl'[s] # "none"
                        /\ \A j \in SrvP!Places(toClient'[s]) :
                              toClient'[s][j].type # "server_kx"
<1>1. \A k \in Key : kx[k] # "idle" => Spent(on[k])
  BY OldKxKept
<1>2. \A k, l \in Key : kx[k] # "idle" /\ kx[l] # "idle" /\ on[k] = on[l] => k = l
  BY DEF IInv, KxComesOnce
<1>3. SUFFICES /\ \A k \in Key : kx'[k] # "idle" => Spent(on'[k])
               /\ \A k, l \in Key :
                     kx'[k] # "idle" /\ kx'[l] # "idle" /\ on'[k] = on'[l] => k = l
  BY DEF KxComesOnce, SrvP!InFlight, SrvP!Places
<1>4. CASE UNCHANGED <<kx, on>>
  <2>. HIDE DEF Spent
  <2>. QED
    BY <1>1, <1>2, <1>4
<1>5. ASSUME NEW k \in Key, NEW s \in Socket, Starts(k, s)
      PROVE  /\ \A l \in Key : kx'[l] # "idle" => Spent(on'[l])
             /\ \A h, l \in Key :
                   kx'[h] # "idle" /\ kx'[l] # "idle" /\ on'[h] = on'[l] => h = l
  <2>1. Spent(s) /\ \A l \in Key : kx[l] # "idle" => on[l] # s
    BY <1>5, NewKxTaken DEF SrvP!InFlight, SrvP!Places
  <2>2. /\ kx'[k] = "verifying" /\ on'[k] = s
        /\ \A l \in Key : l # k => kx'[l] = kx[l] /\ on'[l] = on[l]
    BY <1>5, HandshakeTypes DEF Starts
  <2>. HIDE DEF Spent
  <2>. QED
    BY <1>1, <1>2, <2>1, <2>2
<1>6. ASSUME NEW k \in Key, NEW v, Proceeds(k, v)
      PROVE  /\ \A l \in Key : kx'[l] # "idle" => Spent(on'[l])
             /\ \A h, l \in Key :
                   kx'[h] # "idle" /\ kx'[l] # "idle" /\ on'[h] = on'[l] => h = l
  <2>1. on' = on /\ \A l \in Key : kx'[l] # "idle" => kx[l] # "idle"
    BY <1>6, HandshakeTypes DEF Proceeds
  <2>. HIDE DEF Spent
  <2>. QED
    BY <1>1, <1>2, <2>1
<1>. HIDE DEF Spent
<1>. QED
  BY <1>4, <1>5, <1>6, NextProgress DEF Progress

LEMMA OneServerKept ==
    ASSUME IInv, [Next]_vars
    PROVE  OneServer'
<1>. USE DEF OneServer
<1>0. OneServer
  BY DEF IInv
<1>1. CASE UNCHANGED <<kx, on, heard, serverKey>>
  BY <1>0, <1>1
<1>2. ASSUME NEW k \in Key, NEW s \in Socket, Starts(k, s)
      PROVE  OneServer'
  <2>1. Head(toClient[s]) = SrvP!Announce
    BY <1>2, DownlinkHead DEF Starts
  <2>. QED
    BY <1>0, <1>2, <2>1, HandshakeTypes DEF Starts, CliP!Verified
<1>3. ASSUME NEW k \in Key, NEW v, Proceeds(k, v)
      PROVE  OneServer'
  <2>1. heard[k].pub = Self
    BY <1>0, <1>3 DEF Proceeds, SrvP!Announce, SrvP!ServerKx
  <2>2. serverKey' = Self \/ serverKey' = serverKey
    BY <1>3, <2>1 DEF Proceeds
  <2>3. \A l \in Key : kx'[l] # "idle" => heard'[l] = SrvP!Announce
    BY <1>0, <1>3, HandshakeTypes DEF Proceeds
  <2>4. \A l \in Key : kx'[l] \in CliP!Verified => serverKey' = Self
    BY <1>0, <1>3, <2>1, HandshakeTypes DEF Proceeds
  <2>. QED
    BY <1>0, <2>2, <2>3, <2>4
<1>. QED
  BY <1>1, <1>2, <1>3, NextProgress DEF Progress

(* A handshake that is done stays so. *)
LEMMA DoneKept ==
    ASSUME IInv, [Next]_vars, NEW k \in Key, kx[k] = "done"
    PROVE  kx'[k] = "done"
<1>1. \A l \in Key, s \in Socket : Starts(l, s) => kx'[k] = "done"
  BY HandshakeTypes DEF Starts
<1>2. \A l \in Key : \A v : Proceeds(l, v) => kx'[k] = "done"
  BY HandshakeTypes DEF Proceeds
<1>. QED
  BY <1>1, <1>2, NextProgress DEF Progress

LEMMA AttestationKept ==
    ASSUME IInv, [Next]_vars
    PROVE  ServedAfterAttestation'
<1>. SUFFICES ASSUME NEW s \in Socket, keyOf'[s] # NoKey
              PROVE  /\ kx'[keyOf'[s]] = "done"
                     /\ heard'[keyOf'[s]].quote = serverKey' /\ serverKey' = Self
  BY DEF ServedAfterAttestation
<1>1. keyOf[s] \in Key \cup {NoKey}
  BY DEF IInv, ServerInv, SrvP!IInv, SrvP!TypeOK
<1>2. keyOf'[s] \in Key /\ kx'[keyOf'[s]] = "done"
  <2>1. CASE keyOf'[s] = keyOf[s]
    BY <1>1, <2>1, DoneKept DEF IInv, ServedAfterAttestation
  <2>2. CASE keyOf'[s] # keyOf[s]
    <3>1. PICK x \in Socket : ToServer(x)
      BY <2>2, ServerAloneBringsNothing DEF NothingBrought
    <3>2. Head(toServer[x]) = CliP!ClientKx(keyOf'[s]) /\ toServer[x] # <<>> /\ kx' = kx
      BY <2>2, <3>1, ClientBrings DEF ToServer, clientState
    <3>3. toServer[x] \in Seq(CliP!ClientMsg)
      BY DEF IInv, ClientInv, CliP!IInv, CliP!TypeOK
    <3>4. 1 \in 1..Len(toServer[x]) /\ toServer[x][1] = CliP!ClientKx(keyOf'[s])
      BY <3>2, <3>3
    <3>5. CliP!Founded(CliP!ClientKx(keyOf'[s]))
      BY <3>4 DEF IInv, ClientInv, CliP!IInv, CliP!KeysInv, CliP!SentIsFounded
    <3>. QED
      BY <3>2, <3>5 DEF CliP!Founded, CliP!ClientKx
  <2>. QED
    BY <2>1, <2>2
<1>3. heard'[keyOf'[s]] = SrvP!Announce /\ serverKey' = Self
  BY <1>2, OneServerKept DEF OneServer, CliP!Verified
<1>4. SrvP!Announce.quote = Self
  BY DEF SrvP!Announce, SrvP!ServerKx
<1>. QED
  BY <1>2, <1>3, <1>4

(* What the client is told by the message it takes is so. *)
LEMMA TakenIsTold ==
    ASSUME IInv, NEW s \in Socket, toClient[s] # <<>>, Head(toClient[s]).type = "enc"
    PROVE  SrvP!Told(Head(toClient[s]).body)
BY DownlinkHead DEF IInv, ServerInv, SrvP!WireInv, SrvP!TellsTrue

LEMMA MocksExistKept ==
    ASSUME IInv, [Next]_vars
    PROVE  OpenMocksExist'
<1>. SUFFICES ASSUME NEW c \in Conn, NowAlive(c)
              PROVE  mock'[c] # "none"
  BY DEF OpenMocksExist, NowAlive
<1>1. mock[c] # "none" => mock'[c] # "none"
  BY SidesKept DEF SrvP!WireStep, SrvP!Onward
<1>2. CASE Alive(c)
  BY <1>1, <1>2 DEF IInv, OpenMocksExist, Alive
<1>3. ASSUME NEW s \in Socket, Tells(s, c)
      PROVE  mock[c] # "none"
  BY <1>3, TakenIsTold DEF Tells, ToClient, SrvP!Told
<1>. QED
  BY <1>1, <1>2, <1>3, AliveIsTold

LEMMA NextIInv == IInv /\ [Next]_vars => IInv'
BY SidesKept, DueKept, KxComesOnceKept, OneServerKept, AttestationKept, MocksExistKept
   DEF IInv

-----------------------------------------------------------------------------
(* Theorems. *)

(***************************************************************************)
(* What was proved of each side alone holds of the two together, and with  *)
(* it what each relies on of the other.                                    *)
(***************************************************************************)
THEOREM Invariance == Spec => []IInv
BY InitIInv, NextIInv, PTL DEF Spec

(***************************************************************************)
(* Every variable of both ends keeps its type.                             *)
(***************************************************************************)
THEOREM TypeCorrect == Spec => []TypeOK
<1>1. CliP!TypeOK => Cli!TypeOK
  BY DEF CliP!TypeOK, Cli!TypeOK, CliP!ClientMsg, Cli!ClientMsg, CliP!ClientBody, Cli!ClientBody,
     CliP!WsMessages, Cli!WsMessages, CliP!Plaintext, Cli!Plaintext, CliP!Announcement,
     Cli!Announcement
<1>2. SrvP!TypeOK => Srv!TypeOK
  BY DEF SrvP!TypeOK, Srv!TypeOK, SrvP!ServerMsg, Srv!ServerMsg, SrvP!ServerBody, Srv!ServerBody,
     SrvP!WsMessages, Srv!WsMessages, SrvP!WsEvents, Srv!WsEvents, SrvP!Announcement, Srv!Announcement
<1>3. IInv => TypeOK
  BY <1>1, <1>2 DEF IInv, ClientInv, ServerInv, CliP!IInv, SrvP!IInv, TypeOK
<1>. QED
  BY <1>3, Invariance, PTL

(***************************************************************************)
(* Every key the server holds is of a handshake that went through all      *)
(* checks of the client (client.ts:223-340, server.ts:266-290), and what   *)
(* they compared was this server's, whichever handshake wrote the client's *)
(* fields last: the quote of the handshake is bound to the server's key.   *)
(***************************************************************************)
THEOREM ServesAttested == Spec => []ServedAfterAttestation
<1>1. IInv => ServedAfterAttestation
  BY DEF IInv
<1>. QED
  BY <1>1, Invariance, PTL

(***************************************************************************)
(* A client mock that is OPEN or has received something has a counterpart  *)
(* at the server (server.ts:468-557, ClientRAWebSocket.ts:168-224).        *)
(***************************************************************************)
THEOREM MocksExist == Spec => []OpenMocksExist
<1>1. IInv => OpenMocksExist
  BY DEF IInv
<1>. QED
  BY <1>1, Invariance, PTL

(***************************************************************************)
(* The composition seen from the server is a behaviour of TunnelServer:    *)
(* its client never reuses an id.                                          *)
(***************************************************************************)
THEOREM ServerIsImplemented == Spec => ImplementsServer
<1>1. Init => Srv!Init
  BY DEF Init
<1>2. IInv /\ [Next]_vars => [Srv!Next]_(Srv!vars)
  BY ServerSteps
<1>. QED
  BY <1>1, <1>2, Invariance, PTL DEF Spec, ImplementsServer, Srv!Spec

-----------------------------------------------------------------------------
(* The calls of RemoteCalls. *)

(* How a fetch() in state x looks to its caller. *)
Look(x) == CASE x = "new" -> "idle"
             [] x \in {"waiting", "sent"} -> "busy"
             [] OTHER -> x

callers == [r \in Req |-> Look(req[r])]

(* A failure ends the calls of the set f. *)
Ends(f) ==
    /\ \A r \in f : callers[r] = "busy"
    /\ callers' = [r \in Req |-> IF r \in f THEN "rejected" ELSE callers[r]]
    /\ UNCHANGED <<http, answered>>

LEMMA CallsOfFetches ==
    /\ Calls!Init <=> callers = [r \in Req |-> "idle"] /\ http = [r \in Req |-> <<>>]
                      /\ answered = {}
    /\ UNCHANGED Calls!vars <=> UNCHANGED <<callers, http, answered>>
    /\ \A r \in Req : Calls!Begin(r) <=>
          /\ callers[r] = "idle" /\ callers' = [callers EXCEPT ![r] = "busy"]
          /\ UNCHANGED <<http, answered>>
    /\ \A r \in Req : Calls!Resolve(r) <=>
          /\ callers[r] = "busy" /\ r \in answered
          /\ callers' = [callers EXCEPT ![r] = "resolved"]
          /\ UNCHANGED <<http, answered>>
    /\ \A r \in Req, s \in Socket : Calls!Handle(r, s) <=>
          /\ callers[r] # "idle" /\ http[r] = <<>>
          /\ http' = [http EXCEPT ![r] = Append(@, s)]
          /\ UNCHANGED <<callers, answered>>
    /\ \A r \in Req : Calls!Answer(r) <=>
          /\ http[r] # <<>>
          /\ answered' = answered \cup {r}
          /\ UNCHANGED <<callers, http>>
BY DEF Calls!Init, Calls!vars, Calls!Begin, Calls!Resolve, Calls!Abandon, Calls!Handle,
       Calls!Answer, callers, Look

LEMMA EndedCalls ==
    ASSUME NEW f \in SUBSET Req, Ends(f)
    PROVE  Calls!Next
<1>1. Calls!Abandon(f)
  BY DEF Ends, Calls!Abandon, callers, Look
<1>. QED
  BY <1>1 DEF Calls!Next

CallStep == [Calls!Next]_(Calls!vars)

LEMMA QuietCalls ==
    ASSUME UNCHANGED <<req, http, answered>>
    PROVE  CallStep
<1>1. UNCHANGED callers
  BY DEF callers
<1>. QED
  BY <1>1, CallsOfFetches DEF CallStep

(* One fetch() moves on. *)
LEMMA OneCall ==
    ASSUME IInv, UNCHANGED <<http, answered>>, NEW r \in Req, NEW new,
           req' = [req EXCEPT ![r] = new],
           \/ req[r] = "new" /\ new = "waiting"
           \/ req[r] = "waiting" /\ new \in {"sent", "rejected"}
           \/ req[r] = "sent" /\ new = "rejected"
           \/ req[r] = "sent" /\ new = "resolved" /\ r \in answered
    PROVE  CallStep
<1>1. req \in [Req -> {"new", "waiting", "sent", "resolved", "rejected"}]
  BY DEF IInv, ClientInv, CliP!IInv, CliP!TypeOK
<1>2. callers' = [callers EXCEPT ![r] = Look(new)]
  BY <1>1 DEF callers
<1>3. CASE req[r] = "new" /\ new = "waiting"
  <2>1. Calls!Begin(r)
    BY <1>2, <1>3, CallsOfFetches DEF callers, Look
  <2>. QED
    BY <2>1 DEF CallStep, Calls!Next
<1>4. CASE req[r] = "waiting" /\ new = "sent"
  <2>1. callers' = callers
    BY <1>2, <1>4 DEF callers, Look
  <2>. QED
    BY <2>1, CallsOfFetches DEF CallStep
<1>5. CASE req[r] \in {"waiting", "sent"} /\ new = "rejected"
  <2>1. callers[r] = "busy" /\ Look(new) = "rejected"
    BY <1>5 DEF callers, Look
  <2>2. callers' = [q \in Req |-> IF q \in {r} THEN "rejected" ELSE callers[q]]
    BY <1>2, <2>1 DEF callers
  <2>3. Ends({r})
    BY <2>1, <2>2 DEF Ends
  <2>. QED
    BY <2>3, EndedCalls DEF CallStep
<1>6. CASE req[r] = "sent" /\ new = "resolved" /\ r \in answered
  <2>1. Calls!Resolve(r)
    BY <1>2, <1>6, CallsOfFetches DEF callers, Look
  <2>. QED
    BY <2>1 DEF CallStep, Calls!Next
<1>. QED
  BY <1>3, <1>4, <1>5, <1>6

LEMMA ToServerCalls ==
    ASSUME IInv, NEW s \in Socket, ToServer(s), [Next]_vars
    PROVE  CallStep
<1>1. UNCHANGED req
  BY DEF ToServer, clientState
<1>2. http \in [Req -> Seq(Socket)] /\ http' \in [Req -> Seq(Socket)]
  BY SidesKept DEF IInv, ServerInv, SrvP!IInv, SrvP!TypeOK
<1>3. CASE UNCHANGED http
  BY <1>1, <1>3, ClientBrings, QuietCalls
<1>4. ASSUME NEW r \in Req, http'[r] # http[r]
      PROVE  CallStep
  <2>1. /\ Brings(s, CliP!HttpRequest(r)) /\ http[r] = <<>>
        /\ http' = [http EXCEPT ![r] = Append(@, s)] /\ UNCHANGED answered
    BY <1>4, ClientBrings
  <2>2. req[r] \notin {"new", "waiting"}
    <3>1. toServer[s] \in Seq(CliP!ClientMsg) /\ toServer[s] # <<>>
      BY DEF IInv, ClientInv, CliP!IInv, CliP!TypeOK, ToServer
    <3>2. 1 \in 1..Len(toServer[s]) /\ toServer[s][1] = Head(toServer[s])
      BY <3>1
    <3>3. CliP!InFlight(CliP!HttpRequest(r))
      BY <2>1, <3>2 DEF Brings, CliP!InFlight, CliP!Places, CliP!Carries
    <3>4. ~CliP!Unsent(CliP!HttpRequest(r))
      BY <3>3 DEF IInv, ClientInv, CliP!StartsOnce, CliP!Starts
    <3>. QED
      BY <3>4 DEF CliP!Unsent
  <2>3. callers[r] # "idle" /\ UNCHANGED callers
    BY <1>1, <2>2 DEF callers, Look, IInv, ClientInv, CliP!IInv, CliP!TypeOK
  <2>4. Calls!Handle(r, s)
    BY <2>1, <2>3, CallsOfFetches
  <2>. QED
    BY <2>4 DEF CallStep, Calls!Next
<1>5. http' # http => \E r \in Req : http'[r] # http[r]
  BY <1>2
<1>. QED
  BY <1>3, <1>4, <1>5

LEMMA ToClientCalls ==
    ASSUME IInv, NEW s \in Socket, ToClient(s)
    PROVE  CallStep
<1>. DEFINE m == Head(toClient[s])
<1>1. Cli!Receive(s, m) /\ UNCHANGED <<http, answered>>
  BY DEF ToClient, serverState
<1>2. m.type = "enc" => SrvP!Told(m.body)
  BY TakenIsTold DEF ToClient
<1>3. m \in Cli!ServerMsg
  BY DownlinkHead DEF ToClient
<1>. HIDE DEF m
<1>4. CASE UNCHANGED req
  BY <1>1, <1>4, QuietCalls
<1>5. CASE Cli!ReceiveServerKx(s, m) \/ Cli!DropMessage(m)
  BY <1>4, <1>5 DEF Cli!ReceiveServerKx, Cli!DropMessage, Cli!reqVars, Cli!vars
<1>6. CASE m.type = "enc" /\ Cli!Dispatch(m.body)
  <2>1. CASE m.body.type = "http_response" /\ Cli!HandleHttpResponse(m.body.id, m.body.ok)
    <3>1. m.body.id \in Req
      BY <1>3, <1>6, <2>1 DEF Cli!ServerMsg, Cli!Announcement, Cli!ServerBody, Cli!WsEvents,
         Cli!WsMessages
    <3>2. m.body.id \in answered
      BY <1>2, <1>6, <2>1 DEF SrvP!Told
    <3>3. CASE req' # req
      <4>1. \E new \in {"resolved", "rejected"} :
               req[m.body.id] = "sent" /\ req' = [req EXCEPT ![m.body.id] = new]
        BY <2>1, <3>3 DEF Cli!HandleHttpResponse
      <4>. QED
        BY <1>1, <3>1, <3>2, <4>1, OneCall
    <3>. QED
      BY <1>4, <3>3
  <2>2. CASE Cli!HandleOpen(m.body.id) \/ Cli!HandleClose(m.body.id)
             \/ Cli!HandleMessage(m.body.id, m.body.data) \/ Cli!NoEffect(m.body)
    BY <1>4, <2>2 DEF Cli!HandleOpen, Cli!HandleClose, Cli!HandleMessage, Cli!NoEffect,
       Cli!reqVars, Cli!vars
  <2>. QED
    BY <1>6, <2>1, <2>2 DEF Cli!Dispatch
<1>. QED
  BY <1>1, <1>5, <1>6 DEF Cli!Receive

LEMMA SocketCloseCalls ==
    ASSUME IInv, NEW s \in Socket, Cli!SocketClose(s), UNCHANGED <<http, answered>>
    PROVE  CallStep
<1>. DEFINE failed == {r \in pending : req[r] = "sent"}
<1>1. /\ pending \subseteq Req
      /\ \A r \in pending : req[r] \in {"sent", "rejected"}
      /\ req \in [Req -> {"new", "waiting", "sent", "resolved", "rejected"}]
  BY DEF IInv, ClientInv, CliP!IInv, CliP!TypeOK, CliP!RequestsInv, CliP!PendingIsSent
<1>2. req' = [r \in Req |-> IF r \in failed THEN "rejected" ELSE req[r]]
  BY <1>1 DEF Cli!SocketClose
<1>3. \A r \in failed : callers[r] = "busy"
  BY <1>1 DEF callers, Look
<1>4. callers' = [r \in Req |-> IF r \in failed THEN "rejected" ELSE callers[r]]
  BY <1>1, <1>2 DEF callers, Look
<1>5. failed \in SUBSET Req
  BY <1>1
<1>6. Ends(failed)
  BY <1>3, <1>4 DEF Ends
<1>. HIDE DEF failed
<1>. QED
  BY <1>5, <1>6, EndedCalls DEF CallStep

LEMMA LinkCalls ==
    ASSUME IInv, [Next]_vars, NEW s \in Socket, Link(s)
    PROVE  CallStep
<1>1. CASE Accept(s) \/ Opened(s) \/ ClientError(s) \/ ClientClosing(s) \/ ServerEnd(s)
           \/ Discard(s)
  BY <1>1, QuietCalls DEF Accept, Opened, ClientError, ClientClosing, ServerEnd, Discard,
     Cli!SocketOpen, Cli!SocketError, Cli!SocketClosing, Cli!Lose, Cli!reqVars,
     Srv!ControlConnect, Srv!ControlClose, Srv!Lose, Srv!httpVars, clientVars, clientState,
     serverVars, serverState
<1>2. CASE ClientClose(s)
  BY <1>2, SocketCloseCalls DEF ClientClose, serverState
<1>. QED
  BY <1>1, <1>2, ToServerCalls, ToClientCalls DEF Link

LEMMA ClientCalls ==
    ASSUME IInv, Client
    PROVE  CallStep
<1>1. UNCHANGED <<http, answered>>
  BY DEF Client, serverVars, serverState
<1>2. CASE UNCHANGED req
  BY <1>1, <1>2, QuietCalls
<1>3. ASSUME NEW k \in Key, Cli!Handshake(k)
      PROVE  CallStep
  BY <1>2, <1>3 DEF Cli!Handshake, Cli!QuoteInvalid, Cli!QuoteValid, Cli!QuoteApproved,
     Cli!BindingChecked, Cli!reqVars
<1>4. ASSUME NEW r \in Req, Cli!Fetch(r)
      PROVE  CallStep
  <2>1. \E new : /\ req' = [req EXCEPT ![r] = new]
                 /\ \/ req[r] = "new" /\ new = "waiting"
                    \/ req[r] = "waiting" /\ new \in {"sent", "rejected"}
                    \/ req[r] = "sent" /\ new = "rejected"
    BY <1>4 DEF Cli!Fetch, Cli!FetchStart, Cli!FetchSend, Cli!FetchFails, Cli!FetchTimeout
  <2>. QED
    BY <1>1, <2>1, OneCall
<1>5. ASSUME NEW c \in Conn, Cli!MockWebSocket(c)
      PROVE  CallStep
  BY <1>2, <1>5 DEF Cli!MockWebSocket, Cli!NewWebSocket, Cli!ConnectResume, Cli!MockSend,
     Cli!MockClose, Cli!reqVars
<1>6. CASE Cli!TimerFires
  BY <1>2, <1>6 DEF Cli!TimerFires, Cli!reqVars
<1>. QED
  BY <1>3, <1>4, <1>5, <1>6 DEF Client

LEMMA ServerAppCalls ==
    ASSUME ServerApp
    PROVE  CallStep
<1>1. UNCHANGED req
  BY DEF ServerApp, clientVars, clientState
<1>2. ASSUME NEW r \in Req, NEW ok \in BOOLEAN, Srv!HttpRespond(r, ok)
      PROVE  CallStep
  <2>1. http[r] # <<>>
    BY <1>2 DEF Srv!HttpRespond
  <2>2. Calls!Answer(r)
    BY <1>1, <1>2, <2>1, CallsOfFetches DEF Srv!HttpRespond, callers
  <2>. QED
    BY <2>2 DEF CallStep, Calls!Next
<1>3. CASE ~(\E r \in Req, ok \in BOOLEAN : Srv!HttpRespond(r, ok))
  BY <1>1, <1>3, QuietCalls DEF ServerApp, Srv!AppClose, Srv!AppSend, Srv!WssClose, Srv!httpVars
<1>. QED
  BY <1>2, <1>3

LEMMA NextCalls == IInv /\ [Next]_vars => [Calls!Next]_(Calls!vars)
<1>1. CASE UNCHANGED vars
  BY <1>1, QuietCalls DEF vars, clientVars, clientState, serverVars, serverState, CallStep
<1>. QED
  BY <1>1, LinkCalls, ClientCalls, ServerAppCalls DEF Next, CallStep

(***************************************************************************)
(* fetch() is a remote call: handled at most once, resolved only after the *)
(* application has answered, its outcome final (client.ts:418-439,         *)
(* 480-628, server.ts:363-466), over however many control sockets.         *)
(***************************************************************************)
THEOREM FetchIsRemoteCall == Spec => ImplementsCalls
<1>1. Init => Calls!Init
  BY CallsOfFetches DEF Init, Cli!Init, Srv!Init, callers, Look
<1>. QED
  BY <1>1, NextCalls, Invariance, PTL DEF Spec, ImplementsCalls, Calls!Spec

=============================================================================
