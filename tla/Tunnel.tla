------------------------------- MODULE Tunnel -------------------------------
(***************************************************************************)
(* One TunnelClient connected to one TunnelServer: the two open systems    *)
(* composed over control WebSockets.                                       *)
(*                                                                         *)
(* A control WebSocket carries messages in order in both directions until  *)
(* one end closes; the ends learn of it independently, and what is still   *)
(* in flight towards an end that has closed is lost.  rs[s] is the state   *)
(* of the client's end and ctl[s] that of the server's.                    *)
(*                                                                         *)
(* The heartbeat is left to TunnelServer: here a control socket may end at *)
(* any time, whatever the reason.                                          *)
(***************************************************************************)
EXTENDS TunnelTypes, Sequences, FiniteSets, Functions, Naturals

CONSTANTS
    Socket,      \* control WebSockets the client may create: bounds reconnects
    NoSocket,    \* no socket
    Self,        \* the server
    Custom,      \* checks of the application's own that the client is given
    WrongPort,   \* connections whose URL names another port than the origin
    Bodiless,    \* requests answered with a status that allows no body (205, 304)
    MaxSend,     \* bound on send() calls per connection, at the client
    MaxReceive   \* bound on messages per connection to the client

Throwing      == {}      \* application "close" handlers do not throw: see the
OncloseThrows == {}      \* runs of TunnelServer and TunnelClient for that
MaxQueue == MaxReceive + MaxSend

ASSUME NoSocketAssumption == NoSocket \notin Socket
ASSUME CustomAssumption   == Custom \subseteq {"quote", "binding"}
ASSUME SelfAssumption     == Self \in Server
ASSUME DataAssumption     == MaxSend \in Nat /\ Data = 1..MaxSend
ASSUME BoundAssumption    == MaxReceive \in Nat

VARIABLES
    ws, rs, promise, settled, kx, on, heard, symKey, serverKey, bindingData,
    timers, req, reqAwaits, pending, readyState, connect, connAwaits, registered,
    queue, nsent, received, toServer,
    ctl, keyOf, live, sockets, via, mock, clients, inbox, http, answered,
    listening, gone, toClient

Cli == INSTANCE TunnelClient
Srv == INSTANCE TunnelServer

(* Each side: its own state, and the channel it sends on. *)
clientState == <<ws, rs, promise, settled, kx, on, heard, symKey, serverKey,
                 bindingData, timers, req, reqAwaits, pending, readyState, connect,
                 connAwaits, registered, queue, nsent, received>>
serverState == <<ctl, keyOf, live, sockets, via, mock, clients, inbox, http,
                 answered, listening, gone>>
clientVars  == <<clientState, toServer>>
serverVars  == <<serverState, toClient>>

vars == <<clientVars, serverVars>>

Init == Cli!Init /\ Srv!Init

-----------------------------------------------------------------------------
(* The control WebSocket. *)

Accept(s) ==
    /\ rs[s] = "connecting"
    /\ Srv!ControlConnect(s)
    /\ UNCHANGED clientVars

Opened(s) ==
    /\ ctl[s] # "none"
    /\ Cli!SocketOpen(s)
    /\ UNCHANGED serverVars

ClientError(s)   == Cli!SocketError(s) /\ UNCHANGED serverVars
ClientClosing(s) == Cli!SocketClosing(s) /\ UNCHANGED serverVars

ClientClose(s) ==
    /\ Cli!SocketClose(s)
    /\ toClient' = [toClient EXCEPT ![s] = <<>>]
    /\ UNCHANGED serverState

ServerEnd(s) ==
    /\ Srv!ControlClose(s)
    /\ toServer' = [toServer EXCEPT ![s] = <<>>]
    /\ UNCHANGED clientState

(* A message is handed to the end it was sent to. *)
ToServer(s) ==
    /\ toServer[s] # <<>>
    /\ Srv!Receive(s, Head(toServer[s]))
    /\ toServer' = [toServer EXCEPT ![s] = Tail(@)]
    /\ UNCHANGED clientState

(* The handler of the message may itself send on other sockets. *)
ToClient(s) ==
    /\ toClient[s] # <<>>
    /\ Cli!Receive(s, Head(toClient[s]))
    /\ toClient' = [toClient EXCEPT ![s] = Tail(@)]
    /\ UNCHANGED serverState

(* Sent to an end that has closed. *)
Discard(s) ==
    \/ ctl[s] = "closed" /\ Cli!Lose(s) /\ UNCHANGED serverVars
    \/ rs[s] = "closed" /\ Srv!Lose(s) /\ UNCHANGED clientVars

Link(s) ==
    \/ Accept(s) \/ Opened(s)
    \/ ClientError(s) \/ ClientClosing(s) \/ ClientClose(s) \/ ServerEnd(s)
    \/ ToServer(s) \/ ToClient(s) \/ Discard(s)

Client ==
    /\ \/ \E k \in Key : Cli!Handshake(k)
       \/ \E r \in Req : Cli!Fetch(r)
       \/ \E c \in Conn : Cli!MockWebSocket(c)
       \/ Cli!TimerFires
    /\ UNCHANGED serverVars

DownlinkRoom(c) ==
    mock[c] = "open" /\ Len(received[c]) + Len(toClient[via[c]]) < MaxReceive

ServerApp ==
    /\ \/ \E r \in Req, ok \in BOOLEAN : Srv!HttpRespond(r, ok)
       \/ \E c \in Conn : Srv!AppClose(c)
       \/ \E c \in Conn, d \in Data : DownlinkRoom(c) /\ Srv!AppSend(c, d)
       \/ Srv!WssClose
    /\ UNCHANGED clientVars

Next == (\E s \in Socket : Link(s)) \/ Client \/ ServerApp

Spec == Init /\ [][Next]_vars

(***************************************************************************)
(* What eventually happens: messages travel, the verification of a quote   *)
(* ends (well or badly), an end that has closed is noticed by the other,   *)
(* timers fire, continuations run.  Nothing is assumed of the application  *)
(* on either side, nor that a socket ever closes or that a server answers. *)
(***************************************************************************)
Fairness ==
    /\ \A s \in Socket :
          /\ WF_vars(Accept(s)) /\ WF_vars(Opened(s))
          /\ WF_vars(ToServer(s)) /\ WF_vars(ToClient(s))
          /\ WF_vars(ctl[s] = "closed" /\ ClientClosing(s))
          /\ WF_vars(ClientClose(s))
          /\ WF_vars(rs[s] = "closed" /\ ServerEnd(s))
    /\ \A k \in Key : WF_vars(Cli!Handshake(k) /\ UNCHANGED serverVars)
    /\ \A r \in Req :
          WF_vars((Cli!FetchSend(r) \/ Cli!FetchFails(r) \/ Cli!FetchTimeout(r))
                    /\ UNCHANGED serverVars)
    /\ \A c \in Conn : WF_vars(Cli!ConnectResume(c) /\ UNCHANGED serverVars)
    /\ WF_vars(Cli!TimerFires /\ UNCHANGED serverVars)

FairSpec == Spec /\ Fairness

-----------------------------------------------------------------------------
(* Safety. *)

TypeOK == Cli!TypeOK /\ Srv!TypeOK

(***************************************************************************)
(* The server holds, and therefore acts on, only keys whose handshake went *)
(* through all checks of the client.  What those checks compare is of this *)
(* one server, whichever handshake wrote the client's fields last.         *)
(***************************************************************************)
ServedAfterAttestation ==
    \A s \in Socket : keyOf[s] # NoKey =>
        /\ kx[keyOf[s]] = "done"
        /\ heard[keyOf[s]].quote = serverKey /\ serverKey = Self

(***************************************************************************)
(* A client mock that is OPEN, or has received anything, has a counterpart *)
(* the application at the server was given.                                *)
(***************************************************************************)
OpenMocksExist ==
    \A c \in Conn :
        (readyState[c] = "open" \/ received[c] # <<>>) => mock[c] # "none"

(***************************************************************************)
(* As long as the client has needed no second control socket, what the     *)
(* application at the server receives on a connection is what was sent, in *)
(* order, from the first message on, those queued before "open" included.  *)
(***************************************************************************)
UplinkIsPrefix ==
    \A c \in Conn :
        (\A s \in Socket : rs[s] # "none" => s = via[c])
            => \A i \in 1..Len(inbox[c]) : inbox[c][i] = i

(***************************************************************************)
(* Refinement: seen from the server, the composition is the open system    *)
(* proved about alone.  In particular the assumption made there on its     *)
(* peers holds: no request or connection id is ever sent twice.            *)
(***************************************************************************)
ImplementsServer == Srv!Spec

(***************************************************************************)
(* Refinement: fetch() is a remote call that is handled at most once (http *)
(* records every handling, a repeat on the same control socket included);  *)
(* that resolves only once the application at the server has answered it;  *)
(* and whose outcome no late response, timer or disconnect changes.        *)
(***************************************************************************)
Calls == INSTANCE RemoteCalls WITH
            Call     <- Req,
            Site     <- Socket,
            caller   <- [r \in Req |-> CASE req[r] = "new" -> "idle"
                                         [] req[r] \in {"waiting", "sent"} -> "busy"
                                         [] OTHER -> req[r]],
            sites    <- http,
            answered <- answered

ImplementsCalls == Calls!Spec

-----------------------------------------------------------------------------
(* Liveness. *)

(***************************************************************************)
(* When the server's end of a control socket is closed, every client mock  *)
(* opened over it ends, and the other way around.                          *)
(***************************************************************************)
MocksEndWithTunnel ==
    \A c \in Conn :
        /\ (readyState[c] = "open" /\ via[c] # NoSocket /\ ctl[via[c]] = "closed")
              ~> readyState[c] # "open"
        /\ (mock[c] = "open" /\ rs[via[c]] = "closed") ~> mock[c] # "open"

(***************************************************************************)
(* A request that went out is settled, whatever becomes of the tunnel,     *)
(* provided that its response can be made into a Response.                 *)
(***************************************************************************)
SentIsSettled ==
    \A r \in Req \ Bodiless : req[r] = "sent" ~> req[r] \in {"resolved", "rejected"}

-----------------------------------------------------------------------------
(* Stated by the documentation or by comments, and not so. *)

(***************************************************************************)
(* client.ts:162: "Drop symmetric key; a new handshake will set it on      *)
(* reconnect": an OPEN control socket with its handshake over has a key.   *)
(***************************************************************************)
HandshakenHasKey ==
    (/\ ws # NoSocket /\ rs[ws] = "open"
     /\ \E k \in Key : on[k] = ws /\ kx[k] = "done") => symKey # NoKey

(***************************************************************************)
(* README.md:224: "The default client request timeout is 30 seconds": no   *)
(* fetch stays unsettled forever.                                          *)
(***************************************************************************)
FetchSettles ==
    \A r \in Req : req[r] = "waiting" ~> req[r] \in {"resolved", "rejected"}

=============================================================================
