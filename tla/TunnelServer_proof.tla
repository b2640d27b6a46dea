------------------------ MODULE TunnelServer_proof ------------------------
(***************************************************************************)
(* Proofs about TunnelServer, for every set of sockets, connections,       *)
(* requests, keys and payloads.                                            *)
(*                                                                         *)
(* The invariant IInv adds to the properties what ties the table, the      *)
(* callbacks and the mocks of one connection together; without it the      *)
(* step "a control socket closes" could leave an open mock behind, and the *)
(* callbacks of a mock could send on no socket at all.                     *)
(***************************************************************************)
EXTENDS TunnelServer, TLAPS

(* A connection that has no mock yet is unknown everywhere. *)
FreshIsUnknown ==
    \A c \in Conn : mock[c] = "none" =>
        /\ sockets[c] = NoSocket
        /\ c \notin clients

(* An entry names the socket of the mock's callbacks; that socket is live   *)
(* and keyed, unless a throwing handler left the entry of a closed mock.    *)
EntryIsOwned ==
    \A c \in Conn : sockets[c] # NoSocket =>
        /\ sockets[c] = via[c]
        /\ \/ ctl[via[c]] \in Live /\ keyOf[via[c]] # NoKey
           \/ c \in Throwing /\ mock[c] = "closed"

IInv ==
    /\ TypeOK
    /\ BookkeepingIsLive
    /\ OpenMockIsRouted
    /\ ClientsAreTracked
    /\ FreshIsUnknown
    /\ EntryIsOwned

(* What IInv says of the properties the runs check. *)
LEMMA IInvImplies == IInv => NoOrphanEntry
BY DEF IInv, EntryIsOwned, NoOrphanEntry, TypeOK

-----------------------------------------------------------------------------
(* Types of what is sent. *)

LEMMA BodiesAreTyped ==
    /\ \A r \in Req, ok \in BOOLEAN : HttpResponse(r, ok) \in ServerBody
    /\ \A c \in Conn, d \in Data : WsMessage(c, d) \in ServerBody
    /\ \A c \in Conn : \A e \in {"open", "close", "error"} :
          WsEvent(c, e) \in ServerBody
BY DEF HttpResponse, WsMessage, WsEvent, ServerBody, WsMessages, WsEvents

(* An envelope sequence under a key is a sequence of server messages. *)
LEMMA EnvelopesAreTyped ==
    ASSUME NEW s \in Socket, keyOf[s] \in Key,
           NEW bodies \in Seq(ServerBody)
    PROVE  Envelopes(s, bodies) \in Seq(ServerMsg)
<1>1. \A i \in 1..Len(bodies) : Enc(keyOf[s], bodies[i]) \in ServerMsg
  BY DEF Enc, ServerMsg
<1>. QED
  BY <1>1 DEF Envelopes

LEMMA SendKeepsType ==
    ASSUME TypeOK, NEW s \in Socket, NEW bodies \in Seq(ServerBody),
           SendEncrypted(s, bodies)
    PROVE  toClient' \in [Socket -> Seq(ServerMsg)]
<1>1. CASE CanSend(s)
  <2>1. keyOf[s] \in Key
    BY <1>1 DEF CanSend, TypeOK
  <2>2. Envelopes(s, bodies) \in Seq(ServerMsg)
    BY <2>1, EnvelopesAreTyped
  <2>3. toClient[s] \o Envelopes(s, bodies) \in Seq(ServerMsg)
    BY <2>2 DEF TypeOK
  <2>. QED
    BY <1>1, <2>3 DEF SendEncrypted, TypeOK
<1>2. CASE ~CanSend(s)
  BY <1>2 DEF SendEncrypted, TypeOK
<1>. QED
  BY <1>1, <1>2

-----------------------------------------------------------------------------
(* A step that changes nothing but outputs and bookkeeping IInv types only. *)
LEMMA QuietStepIInv ==
    ASSUME IInv, TypeOK', UNCHANGED <<ctl, keyOf, sockets, via, mock, clients>>,
           \A s \in Socket : live'[s] = "none" <=> live[s] = "none"
    PROVE  IInv'
<1>1. BookkeepingIsLive' /\ OpenMockIsRouted' /\ EntryIsOwned'
  BY DEF IInv, BookkeepingIsLive, OpenMockIsRouted, EntryIsOwned
<1>2. ClientsAreTracked' /\ FreshIsUnknown'
  BY DEF IInv, ClientsAreTracked, FreshIsUnknown
<1>. QED
  BY <1>1, <1>2 DEF IInv

-----------------------------------------------------------------------------
(* The link: connecting, keys, liveness and the end of a control socket. *)

LEMMA InitIInv == Init => IInv
BY NoSocketAssumption
   DEF Init, IInv, TypeOK, BookkeepingIsLive, OpenMockIsRouted, ClientsAreTracked,
       FreshIsUnknown, EntryIsOwned, Live

LEMMA ControlConnectIInv ==
    ASSUME IInv, NEW s \in Socket, ControlConnect(s)
    PROVE  IInv'
<1>. USE DEF IInv, ControlConnect, connVars, httpVars
<1>1. TypeOK'
  <2>1. Announce \in ServerMsg
    BY SelfAssumption DEF Announce, ServerKx, Announcement, ServerMsg
  <2>2. Append(toClient[s], Announce) \in Seq(ServerMsg)
    BY <2>1 DEF TypeOK
  <2>. QED
    BY <2>2 DEF TypeOK
<1>2. BookkeepingIsLive'
  BY DEF TypeOK, BookkeepingIsLive, Live
<1>3. OpenMockIsRouted' /\ EntryIsOwned'
  BY DEF TypeOK, OpenMockIsRouted, EntryIsOwned, Live
<1>4. ClientsAreTracked' /\ FreshIsUnknown'
  BY DEF ClientsAreTracked, FreshIsUnknown
<1>. QED
  BY <1>1, <1>2, <1>3, <1>4

LEMMA ControlCloseIInv ==
    ASSUME IInv, NEW s \in Socket, ControlClose(s)
    PROVE  IInv'
<1>. USE DEF IInv, ControlClose, Forget, httpVars
<1>. DEFINE owned  == {c \in Conn : sockets[c] = s}
            forgot == owned \ {c \in owned \cap Throwing : mock[c] = "open"}
<1>1. TypeOK'
  BY DEF TypeOK
<1>2. BookkeepingIsLive'
  BY DEF TypeOK, BookkeepingIsLive, Live
<1>3. ASSUME NEW c \in Conn, mock'[c] = "open"
      PROVE  c \notin owned /\ mock[c] = "open" /\ via[c] # s
  BY <1>3 DEF TypeOK, OpenMockIsRouted
<1>4. OpenMockIsRouted'
  BY <1>3 DEF TypeOK, OpenMockIsRouted
<1>5. EntryIsOwned'
  BY NoSocketAssumption DEF TypeOK, EntryIsOwned
<1>6. ClientsAreTracked'
  BY DEF TypeOK, ClientsAreTracked
<1>7. FreshIsUnknown'
  BY DEF TypeOK, FreshIsUnknown
<1>. QED
  BY <1>1, <1>2, <1>4, <1>5, <1>6, <1>7

LEMMA SweepIInv ==
    ASSUME IInv, HeartbeatSweep
    PROVE  IInv'
<1>. USE DEF IInv, connVars, httpVars
<1>1. \A s \in Socket \ Tracked : keyOf[s] = NoKey
  BY DEF Tracked, BookkeepingIsLive
<1>2. PICK idle \in SUBSET Tracked :
        LET doomed == {s \in Tracked : Unresponsive(s, idle)}
            stray  == {s \in Socket \ Tracked : keyOf[s] # NoKey}
        IN /\ ctl' = [s \in Socket |-> IF s \in doomed THEN "closing" ELSE ctl[s]]
           /\ live' = [s \in Socket |->
                         IF s \in stray THEN "none"
                         ELSE IF s \in Tracked \ doomed
                              THEN IF live[s] = "alive" THEN "pinged" ELSE "alive"
                              ELSE live[s]]
           /\ keyOf' = [s \in Socket |-> IF s \in stray THEN NoKey ELSE keyOf[s]]
           /\ UNCHANGED <<connVars, httpVars, listening, gone, toClient>>
  BY DEF HeartbeatSweep
<1>3. keyOf' = keyOf
  BY <1>1, <1>2 DEF TypeOK
<1>4. \A s \in Socket : ctl[s] \in Live <=> ctl'[s] \in Live
  BY <1>2 DEF TypeOK, Tracked, Live
<1>5. live' \in [Socket -> {"none", "alive", "pinged"}]
  BY <1>2 DEF TypeOK
<1>6. \A s \in Socket : live'[s] = "none" <=> live[s] = "none"
  BY <1>1, <1>2 DEF TypeOK, Tracked, BookkeepingIsLive
<1>7. ctl' \in [Socket -> {"none", "open", "closing", "closed"}]
  BY <1>2 DEF TypeOK
<1>8. TypeOK'
  BY <1>2, <1>3, <1>5, <1>7 DEF TypeOK
<1>9. BookkeepingIsLive'
  BY <1>3, <1>4, <1>6 DEF BookkeepingIsLive
<1>10. UNCHANGED <<sockets, via, mock, clients>>
  BY <1>2
<1>11. OpenMockIsRouted' /\ EntryIsOwned'
  BY <1>3, <1>4, <1>10 DEF TypeOK, OpenMockIsRouted, EntryIsOwned
<1>12. ClientsAreTracked' /\ FreshIsUnknown'
  BY <1>10 DEF ClientsAreTracked, FreshIsUnknown
<1>. QED
  BY <1>8, <1>9, <1>11, <1>12

-----------------------------------------------------------------------------
(* Messages from a peer. *)

LEMMA AcceptKeyIInv ==
    ASSUME IInv, NEW s \in Socket, NEW m \in ClientMsg, ctl[s] \in Live,
           AcceptKey(s, m)
    PROVE  IInv'
<1>. USE DEF IInv, AcceptKey, connVars, httpVars
<1>1. m.key \in Key \cup {NoKey}
  BY DEF ClientMsg, ClientBody, Plaintext
<1>2. TypeOK'
  BY <1>1 DEF TypeOK
<1>3. BookkeepingIsLive'
  BY DEF TypeOK, BookkeepingIsLive
<1>4. OpenMockIsRouted' /\ EntryIsOwned'
  BY DEF TypeOK, OpenMockIsRouted, EntryIsOwned
<1>5. ClientsAreTracked' /\ FreshIsUnknown'
  BY DEF ClientsAreTracked, FreshIsUnknown
<1>. QED
  BY <1>2, <1>3, <1>4, <1>5

LEMMA WsConnectIInv ==
    ASSUME IInv, NEW s \in Socket, NEW c \in Conn, ctl[s] \in Live,
           keyOf[s] # NoKey, mock[c] = "none", HandleWsConnect(s, c)
    PROVE  IInv'
<1>. USE DEF IInv, linkVars, httpVars
<1>1. PICK greeting \in {<<>>} \cup {<<WsMessage(c, d)>> : d \in Data},
           closes \in BOOLEAN, throws \in BOOLEAN :
        /\ via' = [via EXCEPT ![c] = s]
        /\ sockets' = [sockets EXCEPT ![c] = s]
        /\ clients' = clients \cup {c}
        /\ mock' = [mock EXCEPT ![c] = IF closes THEN "closed" ELSE "open"]
        /\ SendEncrypted(s,
               greeting \o (IF closes THEN <<WsEvent(c, "close")>> ELSE <<>>)
                        \o <<WsEvent(c, IF throws THEN "error" ELSE "open")>>)
        /\ UNCHANGED <<linkVars, inbox, httpVars>>
  BY DEF HandleWsConnect
<1>2. greeting \in Seq(ServerBody)
  <2>1. CASE greeting = <<>>
    BY <2>1
  <2>2. ASSUME NEW d \in Data, greeting = <<WsMessage(c, d)>>
        PROVE  greeting \in Seq(ServerBody)
    <3>1. WsMessage(c, d) \in ServerBody
      BY BodiesAreTyped
    <3>. QED
      BY <2>2, <3>1
  <2>. QED
    BY <2>1, <2>2
<1>3. (IF closes THEN <<WsEvent(c, "close")>> ELSE <<>>) \in Seq(ServerBody)
  BY BodiesAreTyped
<1>4. <<WsEvent(c, IF throws THEN "error" ELSE "open")>> \in Seq(ServerBody)
  BY BodiesAreTyped
<1>5. toClient' \in [Socket -> Seq(ServerMsg)]
  <2>. DEFINE bodies ==
          greeting \o (IF closes THEN <<WsEvent(c, "close")>> ELSE <<>>)
                   \o <<WsEvent(c, IF throws THEN "error" ELSE "open")>>
  <2>1. bodies \in Seq(ServerBody)
    BY <1>2, <1>3, <1>4
  <2>2. SendEncrypted(s, bodies)
    BY <1>1
  <2>. HIDE DEF bodies
  <2>. QED
    BY <2>1, <2>2, SendKeepsType
<1>6. TypeOK'
  BY <1>1, <1>5 DEF TypeOK
<1>7. BookkeepingIsLive'
  BY <1>1 DEF BookkeepingIsLive
<1>8. OpenMockIsRouted' /\ EntryIsOwned'
  BY <1>1 DEF TypeOK, OpenMockIsRouted, EntryIsOwned
<1>9. ClientsAreTracked' /\ FreshIsUnknown'
  BY <1>1, NoSocketAssumption DEF TypeOK, ClientsAreTracked, FreshIsUnknown
<1>. QED
  BY <1>6, <1>7, <1>8, <1>9

LEMMA WsMessageIInv ==
    ASSUME IInv, NEW c \in Conn, NEW d \in Data, HandleWsMessage(c, d)
    PROVE  IInv'
<1>. USE DEF HandleWsMessage, linkVars, httpVars
<1>1. TypeOK'
  BY DEF IInv, TypeOK
<1>. QED
  BY <1>1, QuietStepIInv

LEMMA WsCloseIInv ==
    ASSUME IInv, NEW c \in Conn, HandleWsClose(c)
    PROVE  IInv'
<1>. USE DEF IInv, HandleWsClose, Forget, linkVars, httpVars
<1>1. TypeOK'
  BY DEF TypeOK
<1>2. BookkeepingIsLive'
  BY DEF BookkeepingIsLive
<1>3. OpenMockIsRouted' /\ EntryIsOwned'
  BY NoSocketAssumption DEF TypeOK, OpenMockIsRouted, EntryIsOwned
<1>4. ClientsAreTracked' /\ FreshIsUnknown'
  BY DEF TypeOK, ClientsAreTracked, FreshIsUnknown
<1>. QED
  BY <1>1, <1>2, <1>3, <1>4

LEMMA HttpRequestIInv ==
    ASSUME IInv, NEW s \in Socket, NEW r \in Req, HandleHttpRequest(s, r)
    PROVE  IInv'
<1>. USE DEF HandleHttpRequest, linkVars, connVars
<1>1. TypeOK'
  BY DEF IInv, TypeOK
<1>. QED
  BY <1>1, QuietStepIInv

LEMMA PeerSendsIInv ==
    ASSUME IInv, NEW s \in Socket, PeerSends(s)
    PROVE  IInv'
<1>1. PICK m \in ClientMsg : PeerMaySend(m) /\ Receive(s, m)
  BY DEF PeerSends
<1>2. ctl[s] \in Live
  BY <1>1 DEF Receive
<1>3. CASE AcceptKey(s, m)
  BY <1>2, <1>3, AcceptKeyIInv
<1>4. CASE DropMessage(s, m)
  <2>1. UNCHANGED vars
    BY <1>4 DEF DropMessage
  <2>. QED
    BY <2>1 DEF vars, IInv, TypeOK, BookkeepingIsLive, OpenMockIsRouted,
                ClientsAreTracked, FreshIsUnknown, EntryIsOwned, Tracked
<1>5. CASE Readable(s, m) /\ Dispatch(s, m.body)
  <2>1. m.type = "enc" /\ keyOf[s] # NoKey
    BY <1>5 DEF Readable
  <2>2. m.body \in ClientBody
    BY <2>1 DEF ClientMsg, Plaintext
  <2>3. CASE m.body.type = "http_request" /\ HandleHttpRequest(s, m.body.id)
    <3>1. m.body.id \in Req
      BY <2>2, <2>3 DEF ClientBody, WsMessages
    <3>. QED
      BY <2>3, <3>1, HttpRequestIInv
  <2>4. CASE m.body.type = "ws_connect" /\ HandleWsConnect(s, m.body.id)
    <3>1. m.body.id \in Conn
      BY <2>2, <2>4 DEF ClientBody, WsMessages
    <3>2. mock[m.body.id] = "none"
      BY <1>1, <2>1, <2>4 DEF PeerMaySend
    <3>. QED
      BY <1>2, <2>1, <2>4, <3>1, <3>2, WsConnectIInv
  <2>5. CASE m.body.type = "ws_message" /\ HandleWsMessage(m.body.id, m.body.data)
    <3>1. m.body.id \in Conn /\ m.body.data \in Data
      BY <2>2, <2>5 DEF ClientBody, WsMessages
    <3>. QED
      BY <2>5, <3>1, WsMessageIInv
  <2>6. CASE m.body.type = "ws_close" /\ HandleWsClose(m.body.id)
    <3>1. m.body.id \in Conn
      BY <2>2, <2>6 DEF ClientBody, WsMessages
    <3>. QED
      BY <2>6, <3>1, WsCloseIInv
  <2>. QED
    BY <1>5, <2>3, <2>4, <2>5, <2>6 DEF Dispatch
<1>. QED
  BY <1>1, <1>3, <1>4, <1>5 DEF Receive

-----------------------------------------------------------------------------
(* The application and the environment. *)

(* The callbacks of an open mock send on a control socket. *)
LEMMA AppSendIInv ==
    ASSUME IInv, NEW c \in Conn, NEW d \in Data, AppSend(c, d)
    PROVE  IInv'
<1>. USE DEF AppSend, linkVars, connVars, httpVars
<1>1. via[c] \in Socket
  BY DEF IInv, OpenMockIsRouted
<1>2. <<WsMessage(c, d)>> \in Seq(ServerBody)
  BY BodiesAreTyped
<1>3. toClient' \in [Socket -> Seq(ServerMsg)]
  BY <1>1, <1>2, SendKeepsType DEF IInv
<1>4. TypeOK'
  BY <1>3 DEF IInv, TypeOK
<1>. QED
  BY <1>4, QuietStepIInv

LEMMA HttpRespondIInv ==
    ASSUME IInv, NEW r \in Req, NEW ok \in BOOLEAN, HttpRespond(r, ok)
    PROVE  IInv'
<1>. USE DEF HttpRespond, linkVars, connVars
<1>1. http[r] \in Seq(Socket)
  BY DEF IInv, TypeOK
<1>2. <<HttpResponse(r, ok)>> \in Seq(ServerBody)
  BY BodiesAreTyped
<1>3. PICK i \in DOMAIN http[r] : SendEncrypted(http[r][i], <<HttpResponse(r, ok)>>)
  OBVIOUS
<1>4. http[r][i] \in Socket
  BY <1>1, <1>3
<1>5. toClient' \in [Socket -> Seq(ServerMsg)]
  BY <1>2, <1>3, <1>4, SendKeepsType DEF IInv
<1>6. TypeOK'
  BY <1>5 DEF IInv, TypeOK
<1>. QED
  BY <1>6, QuietStepIInv

LEMMA AppCloseIInv ==
    ASSUME IInv, NEW c \in Conn, AppClose(c)
    PROVE  IInv'
<1>. USE DEF IInv, AppClose, linkVars, httpVars
<1>1. via[c] \in Socket
  BY DEF OpenMockIsRouted
<1>2. <<WsEvent(c, "close")>> \in Seq(ServerBody)
  BY BodiesAreTyped
<1>3. toClient' \in [Socket -> Seq(ServerMsg)]
  BY <1>1, <1>2, SendKeepsType
<1>4. TypeOK'
  BY <1>3 DEF TypeOK
<1>5. BookkeepingIsLive' /\ ClientsAreTracked'
  BY DEF BookkeepingIsLive, ClientsAreTracked
<1>6. OpenMockIsRouted' /\ EntryIsOwned' /\ FreshIsUnknown'
  BY DEF TypeOK, OpenMockIsRouted, EntryIsOwned, FreshIsUnknown
<1>. QED
  BY <1>4, <1>5, <1>6

LEMMA WssCloseIInv ==
    ASSUME IInv, WssClose
    PROVE  IInv'
<1>. USE DEF IInv, linkVars, httpVars
<1>. DEFINE evs(q) == [i \in 1..Len(q) |-> WsEvent(q[i], "close")]
<1>1. PICK order \in [Socket -> Orders] :
        toClient' = [s \in Socket |->
                        IF CanSend(s) THEN toClient[s] \o Envelopes(s, evs(order[s]))
                                      ELSE toClient[s]]
  BY DEF WssClose
<1>2. ASSUME NEW s \in Socket, CanSend(s)
      PROVE  toClient[s] \o Envelopes(s, evs(order[s])) \in Seq(ServerMsg)
  <2>1. order[s] \in Seq(Conn)
    BY DEF Orders
  <2>2. evs(order[s]) \in Seq(ServerBody)
    BY <2>1, BodiesAreTyped
  <2>3. keyOf[s] \in Key
    BY <1>2 DEF CanSend, TypeOK
  <2>. HIDE DEF evs
  <2>4. Envelopes(s, evs(order[s])) \in Seq(ServerMsg)
    BY <2>2, <2>3, EnvelopesAreTyped
  <2>. QED
    BY <2>4 DEF TypeOK
<1>3. toClient' \in [Socket -> Seq(ServerMsg)]
  BY <1>1, <1>2 DEF TypeOK
<1>4. TypeOK'
  BY <1>3 DEF WssClose, TypeOK
<1>5. BookkeepingIsLive' /\ ClientsAreTracked'
  BY DEF WssClose, BookkeepingIsLive, ClientsAreTracked
<1>6. OpenMockIsRouted'
  BY DEF WssClose, TypeOK, OpenMockIsRouted
<1>7. EntryIsOwned'
  BY DEF WssClose, TypeOK, EntryIsOwned
<1>8. FreshIsUnknown'
  BY DEF WssClose, TypeOK, FreshIsUnknown
<1>. QED
  BY <1>4, <1>5, <1>6, <1>7, <1>8

LEMMA PongIInv ==
    ASSUME IInv, NEW s \in Socket, Pong(s)
    PROVE  IInv'
<1>1. TypeOK'
  BY DEF IInv, Pong, connVars, httpVars, TypeOK
<1>2. \A x \in Socket : live'[x] = "none" <=> live[x] = "none"
  BY DEF IInv, Pong, TypeOK
<1>. QED
  BY <1>1, <1>2, QuietStepIInv DEF Pong, connVars

(* Take, Lose, Vanish and ServerClose. *)
LEMMA OutsideIInv ==
    ASSUME IInv,
           (\E s \in Socket : Take(s) \/ Lose(s) \/ Vanish(s)) \/ ServerClose
    PROVE  IInv'
<1>. USE DEF linkVars, connVars, httpVars
<1>1. ASSUME NEW s \in Socket, Take(s) PROVE IInv'
  <2>1. Tail(toClient[s]) \in Seq(ServerMsg)
    BY <1>1 DEF Take, IInv, TypeOK
  <2>2. TypeOK'
    BY <1>1, <2>1 DEF Take, IInv, TypeOK
  <2>. QED
    BY <1>1, <2>2, QuietStepIInv DEF Take
<1>2. ASSUME NEW s \in Socket, Lose(s) PROVE IInv'
  <2>1. TypeOK'
    BY <1>2 DEF Lose, IInv, TypeOK
  <2>. QED
    BY <1>2, <2>1, QuietStepIInv DEF Lose
<1>3. ASSUME NEW s \in Socket, Vanish(s) PROVE IInv'
  <2>1. TypeOK'
    BY <1>3 DEF Vanish, IInv, TypeOK
  <2>. QED
    BY <1>3, <2>1, QuietStepIInv DEF Vanish
<1>4. CASE ServerClose
  <2>1. TypeOK'
    BY <1>4 DEF ServerClose, IInv, TypeOK
  <2>. QED
    BY <1>4, <2>1, QuietStepIInv DEF ServerClose
<1>. QED
  BY <1>1, <1>2, <1>3, <1>4

-----------------------------------------------------------------------------
(* Every step preserves IInv. *)
LEMMA NextIInv == IInv /\ [Next]_vars => IInv'
<1>. SUFFICES ASSUME IInv, [Next]_vars PROVE IInv'
  OBVIOUS
<1>1. CASE UNCHANGED vars
  BY <1>1 DEF vars, IInv, TypeOK, BookkeepingIsLive, OpenMockIsRouted,
              ClientsAreTracked, FreshIsUnknown, EntryIsOwned
<1>2. ASSUME NEW s \in Socket,
             ControlConnect(s) \/ Pong(s) \/ ControlClose(s) \/ PeerSends(s)
      PROVE  IInv'
  BY <1>2, ControlConnectIInv, PongIInv, ControlCloseIInv, PeerSendsIInv
<1>3. ASSUME NEW s \in Socket, Take(s) \/ Lose(s) \/ Vanish(s)
      PROVE  IInv'
  BY <1>3, OutsideIInv
<1>4. ASSUME NEW r \in Req, NEW ok \in BOOLEAN, HttpRespond(r, ok)
      PROVE  IInv'
  BY <1>4, HttpRespondIInv
<1>5. ASSUME NEW c \in Conn, AppClose(c) \/ \E d \in Data : AppSend(c, d)
      PROVE  IInv'
  BY <1>5, AppCloseIInv, AppSendIInv
<1>6. CASE WssClose
  BY <1>6, WssCloseIInv
<1>7. CASE HeartbeatSweep
  BY <1>7, SweepIInv
<1>8. CASE ServerClose
  BY <1>8, OutsideIInv
<1>. QED
  BY <1>1, <1>2, <1>3, <1>4, <1>5, <1>6, <1>7, <1>8 DEF Next

(***************************************************************************)
(* The invariant holds in every behaviour of the server, whatever its      *)
(* peers send and whatever the application does.                           *)
(***************************************************************************)
THEOREM Invariance == Spec => []IInv
<1>1. Init => IInv
  BY InitIInv
<1>2. IInv /\ [Next]_vars => IInv'
  BY NextIInv
<1>. QED
  BY <1>1, <1>2, PTL DEF Spec

(***************************************************************************)
(* Every variable of the server keeps its type; in particular the          *)
(* callbacks of a mock never send before their socket has a key.           *)
(***************************************************************************)
THEOREM TypeCorrect == Spec => []TypeOK
<1>1. IInv => TypeOK
  BY DEF IInv
<1>. QED
  BY <1>1, Invariance, PTL

(***************************************************************************)
(* Keys and liveness records exist for live control sockets only           *)
(* (server.ts:228-248, 693-738).                                           *)
(***************************************************************************)
THEOREM BookkeepingTheorem == Spec => []BookkeepingIsLive
<1>1. IInv => BookkeepingIsLive
  BY DEF IInv
<1>. QED
  BY <1>1, Invariance, PTL

(***************************************************************************)
(* A mock the application sees as OPEN has an entry that leads back to it, *)
(* and a live control socket with a key (server.ts:468-595).               *)
(***************************************************************************)
THEOREM OpenMocksAreRouted == Spec => []OpenMockIsRouted
<1>1. IInv => OpenMockIsRouted
  BY DEF IInv
<1>. QED
  BY <1>1, Invariance, PTL

(***************************************************************************)
(* Entries do not outlive their control socket, except where an            *)
(* application handler threw (server.ts:231-246, 548-595).                 *)
(***************************************************************************)
THEOREM NoOrphans == Spec => []NoOrphanEntry
<1>1. IInv => NoOrphanEntry
  BY IInvImplies
<1>. QED
  BY <1>1, Invariance, PTL

(***************************************************************************)
(* wss.clients lists no connection that is not in the table, whatever the  *)
(* handlers do, so the end of a control socket empties its share of it     *)
(* (server.ts:231-246).                                                    *)
(***************************************************************************)
THEOREM ClientsStayTracked == Spec => []ClientsAreTracked
<1>1. IInv => ClientsAreTracked
  BY DEF IInv
<1>. QED
  BY <1>1, Invariance, PTL

(***************************************************************************)
(* A control socket keeps the first key it accepted until it closes        *)
(* (server.ts:269).                                                        *)
(***************************************************************************)
THEOREM KeysAreWriteOnce == Spec => KeyIsWriteOnce
<1>. DEFINE Once == \A s \in Socket :
                keyOf[s] # NoKey => keyOf'[s] = keyOf[s] \/ ctl'[s] = "closed"
<1>1. ASSUME IInv, [Next]_vars PROVE [Once]_vars
  <2>. SUFFICES ASSUME Next, NEW s \in Socket, keyOf[s] # NoKey
                PROVE  keyOf'[s] = keyOf[s] \/ ctl'[s] = "closed"
    BY <1>1
  <2>0. /\ keyOf \in [Socket -> Key \cup {NoKey}]
        /\ ctl \in [Socket -> {"none", "open", "closing", "closed"}]
    BY <1>1 DEF IInv, TypeOK
  <2>1. ASSUME NEW x \in Socket, ControlClose(x)
        PROVE  keyOf'[s] = keyOf[s] \/ ctl'[s] = "closed"
    BY <2>0, <2>1 DEF ControlClose
  <2>2. ASSUME NEW x \in Socket, PeerSends(x)
        PROVE  keyOf'[s] = keyOf[s]
    <3>1. PICK m \in ClientMsg : Receive(x, m)
      BY <2>2 DEF PeerSends
    <3>2. CASE AcceptKey(x, m)
      BY <2>0, <3>2 DEF AcceptKey
    <3>3. CASE DropMessage(x, m)
      BY <3>3 DEF DropMessage, vars
    <3>4. CASE Dispatch(x, m.body)
      BY <3>4 DEF Dispatch, HandleHttpRequest, HandleWsConnect, HandleWsMessage,
                  HandleWsClose, linkVars
    <3>. QED
      BY <3>1, <3>2, <3>3, <3>4 DEF Receive
  <2>3. CASE HeartbeatSweep
    <3>1. s \in Tracked
      BY <1>1 DEF IInv, BookkeepingIsLive, Tracked
    <3>. QED
      BY <2>3, <3>1 DEF HeartbeatSweep
  <2>4. ASSUME NEW x \in Socket,
               ControlConnect(x) \/ Pong(x) \/ Take(x) \/ Lose(x) \/ Vanish(x)
        PROVE  keyOf'[s] = keyOf[s]
    BY <2>4 DEF ControlConnect, Pong, Take, Lose, Vanish, linkVars
  <2>5. ASSUME NEW r \in Req, NEW ok \in BOOLEAN, HttpRespond(r, ok)
        PROVE  keyOf'[s] = keyOf[s]
    BY <2>5 DEF HttpRespond, linkVars
  <2>6. ASSUME NEW c \in Conn, AppClose(c) \/ \E d \in Data : AppSend(c, d)
        PROVE  keyOf'[s] = keyOf[s]
    BY <2>6 DEF AppClose, AppSend, linkVars
  <2>7. CASE WssClose \/ ServerClose
    BY <2>7 DEF WssClose, ServerClose, linkVars
  <2>. QED
    BY <2>1, <2>2, <2>3, <2>4, <2>5, <2>6, <2>7 DEF Next
<1>. QED
  BY <1>1, Invariance, PTL DEF Spec, KeyIsWriteOnce

-----------------------------------------------------------------------------
(***************************************************************************)
(* Proof of WireDiscipline: what TunnelServer sends on a control socket,   *)
(* for every set of sockets, connections, requests and keys.               *)
(*                                                                         *)
(* WireDiscipline speaks of messages in flight, so it is tied to the state *)
(* that produced them: a socket that does not exist carries nothing, the   *)
(* envelopes of a live socket are under its present key, and a "close" in  *)
(* flight is about a mock that is CLOSED, which sends nothing any more.    *)
(***************************************************************************)

IsClose(m) == m.type = "enc" /\ m.body = WsEvent(m.body.id, "close")

(* m is a message of a connection whose "close" is l. *)
Late(l, m) ==
    /\ l.type = "enc" /\ m.type = "enc"
    /\ l.body = WsEvent(m.body.id, "close")
    /\ m.body.type = "ws_message"

SameKey(l, m) == (l.type = "enc" /\ m.type = "enc") => l.key = m.key

Places(q) == 1..Len(q)     \* of the elements of a sequence

Before(j) == 1..(j - 1)

InFlight(s) == Places(toClient[s])

SilentUntilAccepted == \A s \in Socket : ctl[s] = "none" => toClient[s] = <<>>

KxIsFirst ==
    \A s \in Socket : \A j \in InFlight(s) :
        toClient[s][j].type = "server_kx" => j = 1 /\ toClient[s][j] = Announce

SealedWithPresentKey ==
    \A s \in Socket : \A j \in InFlight(s) :
        (toClient[s][j].type = "enc" /\ ctl[s] \in Live) => toClient[s][j].key = keyOf[s]

CloseIsTrue ==
    \A s \in Socket : \A j \in InFlight(s) :
        IsClose(toClient[s][j]) => mock[toClient[s][j].body.id] = "closed"

InOrder ==
    \A s \in Socket : \A j \in InFlight(s) : \A i \in Before(j) :
        SameKey(toClient[s][i], toClient[s][j]) /\ ~Late(toClient[s][i], toClient[s][j])

(* What the client is told has happened: the response was produced, and the *)
(* application was given the mock the event or message is about.            *)
Told(b) ==
    /\ b.type = "http_response" => b.id \in answered
    /\ b.type \in {"ws_event", "ws_message"} => mock[b.id] # "none"

(* The same after a step. *)
NowTold(b) ==
    /\ b.type = "http_response" => b.id \in answered'
    /\ b.type \in {"ws_event", "ws_message"} => mock'[b.id] # "none"

TellsTrue ==
    \A s \in Socket : \A j \in InFlight(s) :
        toClient[s][j].type = "enc" => Told(toClient[s][j].body)

WireInv ==
    /\ TellsTrue
    /\ SilentUntilAccepted
    /\ KxIsFirst
    /\ SealedWithPresentKey
    /\ CloseIsTrue
    /\ InOrder

LEMMA WireImplies == IInv /\ WireInv => WireDiscipline
<1>. SUFFICES ASSUME IInv, WireInv, NEW s \in Socket, NEW j \in 1..Len(toClient[s])
              PROVE  LET m == toClient[s][j] IN
                     /\ m.type = "server_kx" => j = 1
                     /\ m.type = "enc" => keyOf[s] \in {m.key, NoKey}
                     /\ \A i \in 1..(j-1) :
                           (toClient[s][i].type = "enc" /\ m.type = "enc") =>
                              /\ toClient[s][i].key = m.key
                              /\ ~ (/\ toClient[s][i].body = WsEvent(m.body.id, "close")
                                    /\ m.body.type = "ws_message")
  BY DEF WireDiscipline
<1>1. toClient[s][j].type = "server_kx" => j = 1
  BY DEF WireInv, KxIsFirst, InFlight, Places, Before
<1>2. toClient[s][j].type = "enc" => keyOf[s] \in {toClient[s][j].key, NoKey}
  BY DEF WireInv, SealedWithPresentKey, InFlight, Places, Before, IInv, BookkeepingIsLive
<1>3. \A i \in 1..(j-1) :
        SameKey(toClient[s][i], toClient[s][j]) /\ ~Late(toClient[s][i], toClient[s][j])
  BY DEF WireInv, InOrder, InFlight, Places, Before
<1>. QED
  BY <1>1, <1>2, <1>3 DEF SameKey, Late

LEMMA InitWire == Init => WireInv
BY DEF Init, WireInv, TellsTrue, SilentUntilAccepted, KxIsFirst, SealedWithPresentKey, CloseIsTrue,
       InOrder, InFlight, Places, Before

-----------------------------------------------------------------------------
(* Steps that send nothing. *)

LEMMA TypedInFlight ==
    ASSUME IInv
    PROVE  \A s \in Socket : /\ toClient[s] \in Seq(ServerMsg)
                             /\ \A j \in InFlight(s) : toClient[s][j] \in ServerMsg
BY DEF IInv, TypeOK, InFlight, Places, Before

LEMMA MessageFields ==
    ASSUME NEW m \in ServerMsg
    PROVE  /\ m.type # "server_kx" <=> m.type = "enc"
           /\ m.type = "enc" => m.key \in Key /\ m.key # NoKey /\ m.body \in ServerBody
           /\ IsClose(m) => m.body.id \in Conn
<1>1. /\ m.type # "server_kx" <=> m.type = "enc"
      /\ m.type = "enc" => m.key \in Key /\ m.key # NoKey /\ m.body \in ServerBody
  BY NoKeyAssumption DEF ServerMsg, Announcement
<1>2. ASSUME IsClose(m)
      PROVE  m.body.id \in Conn
  <2>1. m.body \in ServerBody /\ m.body.type = "ws_event"
    BY <1>1, <1>2 DEF IsClose, WsEvent
  <2>. QED
    BY <2>1 DEF ServerBody, WsEvents, WsMessages
<1>. QED
  BY <1>1, <1>2

(* Responses stay produced, mocks stay known, and CLOSED once they are. *)
Onward ==
    /\ answered \subseteq answered'
    /\ \A c \in Conn : /\ mock[c] = "closed" => mock'[c] = "closed"
                       /\ mock[c] # "none" => mock'[c] # "none"

(* What a step does to a wire: no server_kx comes again, no socket is new     *)
(* again, and the invariant is kept.                                         *)
KxKept ==
    \A s \in Socket : \A j \in InFlight(s)' : toClient'[s][j].type = "server_kx" =>
        ctl[s] = "none" \/ \E i \in InFlight(s) : toClient[s][i].type = "server_kx"

SocketsKept == \A s \in Socket : ctl'[s] = "none" => ctl[s] = "none"

WireStep == WireInv' /\ Onward /\ KxKept /\ SocketsKept

LEMMA ToldStays ==
    ASSUME Onward, NEW b \in ServerBody, Told(b)
    PROVE  NowTold(b)
<1>1. b.type \in {"ws_event", "ws_message"} => b.id \in Conn
  BY DEF ServerBody, WsEvents, WsMessages
<1>. QED
  BY <1>1 DEF Onward, Told, NowTold

(* No message leaves or comes; a key may be set where there was none. *)
LEMMA QuietWire ==
    ASSUME IInv, WireInv, toClient' = toClient,
           \A s \in Socket : ctl'[s] = "none" => ctl[s] = "none",
           \A s \in Socket : ctl'[s] \in Live =>
               ctl[s] \in Live /\ keyOf[s] \in {keyOf'[s], NoKey},
           Onward
    PROVE  WireStep
<1>. USE DEF WireInv
<1>1. SilentUntilAccepted'
  BY DEF SilentUntilAccepted
<1>2. KxIsFirst' /\ InOrder'
  BY DEF KxIsFirst, InOrder, InFlight, Places, Before
<1>3. SealedWithPresentKey'
  BY TypedInFlight, MessageFields DEF SealedWithPresentKey, InFlight, Places, Before
<1>4. CloseIsTrue'
  BY TypedInFlight, MessageFields DEF CloseIsTrue, InFlight, Places, Before, Onward
<1>5. TellsTrue'
  <2>. SUFFICES ASSUME NEW s \in Socket, NEW j \in InFlight(s), toClient[s][j].type = "enc"
                PROVE  NowTold(toClient[s][j].body)
    BY DEF TellsTrue, InFlight, Places, Told, NowTold
  <2>1. toClient[s][j].body \in ServerBody /\ Told(toClient[s][j].body)
    BY TypedInFlight, MessageFields DEF TellsTrue
  <2>. QED
    BY <2>1, ToldStays
<1>6. KxKept /\ SocketsKept
  BY DEF KxKept, SocketsKept, InFlight, Places
<1>. QED
  BY <1>1, <1>2, <1>3, <1>4, <1>5, <1>6 DEF WireStep

(* Messages leave from the front. *)
LEMMA TakenWire ==
    ASSUME IInv, WireInv, NEW s \in Socket, Take(s) \/ Lose(s)
    PROVE  WireStep
<1>. USE DEF WireInv
<1>. DEFINE off == IF Take(s) THEN 1 ELSE Len(toClient[s])
            n(x) == IF x = s THEN off ELSE 0
<1>1. /\ toClient[s] \in Seq(ServerMsg) /\ toClient[s] # <<>>
      /\ UNCHANGED <<linkVars, connVars, httpVars>>
  BY TypedInFlight DEF Take, Lose
<1>2. ASSUME NEW x \in Socket, NEW j \in InFlight(x)'
      PROVE  /\ j + n(x) \in InFlight(x)
             /\ toClient'[x][j] = toClient[x][j + n(x)]
             /\ n(x) \in Nat
  <2>1. CASE x # s
    BY <2>1, TypedInFlight DEF Take, Lose, InFlight, Places, Before, IInv, TypeOK
  <2>2. CASE x = s /\ Take(s)
    BY <1>1, <2>2 DEF Take, InFlight, Places, Before, IInv, TypeOK
  <2>3. CASE x = s /\ ~Take(s)
    BY <1>1, <1>2, <2>3 DEF Lose, InFlight, Places, Before, IInv, TypeOK
  <2>. QED
    BY <2>1, <2>2, <2>3
<1>. HIDE DEF n
<1>3. SilentUntilAccepted'
  BY <1>1 DEF Take, Lose, SilentUntilAccepted, linkVars, IInv, TypeOK
<1>4. SealedWithPresentKey' /\ CloseIsTrue'
  BY <1>1, <1>2 DEF SealedWithPresentKey, CloseIsTrue, linkVars, connVars
<1>5. KxIsFirst'
  <2>. SUFFICES ASSUME NEW x \in Socket, NEW j \in InFlight(x)', toClient'[x][j].type = "server_kx"
                PROVE  j = 1 /\ toClient'[x][j] = Announce
    BY DEF KxIsFirst
  <2>1. j + n(x) = 1 /\ n(x) \in Nat /\ j \in Nat /\ j >= 1 /\ toClient'[x][j] = Announce
    BY <1>2 DEF KxIsFirst, InFlight, Places, Before
  <2>. QED
    BY <2>1
<1>6. InOrder'
  <2>. SUFFICES ASSUME NEW x \in Socket, NEW j \in InFlight(x)', NEW i \in Before(j)
                PROVE  /\ SameKey(toClient'[x][i], toClient'[x][j])
                       /\ ~Late(toClient'[x][i], toClient'[x][j])
    BY DEF InOrder, SameKey, Late
  <2>1. i \in InFlight(x)' /\ i \in Nat /\ j \in Nat /\ i <= j - 1 /\ i >= 1
    BY DEF InFlight, Places, Before
  <2>2. i + n(x) \in Before(j + n(x))
    BY <1>2, <2>1 DEF Before
  <2>3. SameKey(toClient[x][i + n(x)], toClient[x][j + n(x)])
        /\ ~Late(toClient[x][i + n(x)], toClient[x][j + n(x)])
    BY <1>2, <2>2 DEF InOrder
  <2>. QED
    BY <1>2, <2>1, <2>3
<1>7. TellsTrue'
  BY <1>1, <1>2 DEF TellsTrue, Told, connVars, httpVars
<1>8. Onward /\ KxKept /\ SocketsKept
  BY <1>1, <1>2 DEF Onward, KxKept, SocketsKept, linkVars, connVars, httpVars
<1>. QED
  BY <1>3, <1>4, <1>5, <1>6, <1>7, <1>8 DEF WireStep

-----------------------------------------------------------------------------
(* Steps that send: out[s] is sent on s. *)

Sends(out) ==
    /\ out \in [Socket -> Seq(ServerMsg)]
    /\ toClient' = [s \in Socket |-> toClient[s] \o out[s]]

(* m is an envelope that may go out on s in a step. *)
MaySend(s, m) ==
    /\ CanSend(s)
    /\ m.type = "enc" /\ m.key = keyOf[s]
    /\ IsClose(m) => mock'[m.body.id] = "closed"
    /\ m.body.type = "ws_message" => mock[m.body.id] # "closed"
    /\ NowTold(m.body)

LEMMA Concatenation ==
    ASSUME NEW S, NEW p \in Seq(S), NEW q \in Seq(S)
    PROVE  /\ Places(q) = {} => p \o q = p
           /\ \A k \in Places(q) : q[k] \in S
           /\ \A j \in Places(p) : j \in Places(p \o q) /\ (p \o q)[j] = p[j]
           /\ \A j \in Places(p \o q) \ Places(p) : \E k \in Places(q) :
                 (p \o q)[j] = q[k] /\ k = j - Len(p)
<1>1. Len(p \o q) = Len(p) + Len(q) /\ Len(p) \in Nat /\ Len(q) \in Nat
  OBVIOUS
<1>2. Places(q) = {} => q = <<>>
  <2>1. 1 \notin Places(q) => Len(q) = 0
    BY <1>1 DEF Places
  <2>2. Len(q) = 0 => q = <<>>
    OBVIOUS
  <2>. QED
    BY <2>1, <2>2
<1>3. p \o <<>> = p
  OBVIOUS
<1>4. \A j \in Places(p) : j \in Places(p \o q) /\ (p \o q)[j] = p[j]
  BY <1>1 DEF Places
<1>5. ASSUME NEW j \in Places(p \o q) \ Places(p)
      PROVE  j - Len(p) \in Places(q) /\ (p \o q)[j] = q[j - Len(p)]
  BY <1>1 DEF Places
<1>. QED
  BY <1>2, <1>3, <1>4, <1>5 DEF Places

LEMMA SentMessages ==
    ASSUME IInv, NEW out, Sends(out), NEW s \in Socket
    PROVE  /\ Places(out[s]) = {} => toClient'[s] = toClient[s]
           /\ \A k \in Places(out[s]) : out[s][k] \in ServerMsg
           /\ \A j \in InFlight(s) :
                 j \in InFlight(s)' /\ toClient'[s][j] = toClient[s][j]
           /\ \A j \in InFlight(s)' \ InFlight(s) : \E k \in Places(out[s]) :
                 toClient'[s][j] = out[s][k] /\ k = j - Len(toClient[s])
<1>1. toClient[s] \in Seq(ServerMsg) /\ out[s] \in Seq(ServerMsg)
  BY TypedInFlight DEF Sends
<1>2. toClient'[s] = toClient[s] \o out[s]
  BY DEF Sends
<1>3. InFlight(s) = Places(toClient[s]) /\ InFlight(s)' = Places(toClient[s] \o out[s])
  BY <1>2 DEF InFlight, Places
<1>. DEFINE p == toClient[s]
            q == out[s]
<1>4. /\ Places(q) = {} => p \o q = p
      /\ \A k \in Places(q) : q[k] \in ServerMsg
      /\ \A j \in Places(p) : j \in Places(p \o q) /\ (p \o q)[j] = p[j]
      /\ \A j \in Places(p \o q) \ Places(p) : \E k \in Places(q) :
            (p \o q)[j] = q[k] /\ k = j - Len(p)
  <2>. HIDE DEF p, q
  <2>1. p \in Seq(ServerMsg) /\ q \in Seq(ServerMsg)
    BY <1>1 DEF p, q
  <2>. QED
    BY <2>1, Concatenation
<1>. QED
  BY <1>2, <1>3, <1>4

LEMMA SentWire ==
    ASSUME IInv, WireInv, UNCHANGED <<ctl, keyOf>>, Onward,
           NEW out, Sends(out),
           \A s \in Socket : \A k \in Places(out[s]) :
              /\ MaySend(s, out[s][k])
              /\ \A i \in Before(k) : ~Late(out[s][i], out[s][k])
    PROVE  WireStep
<1>. USE DEF WireInv
<1>. DEFINE old(s, j) == j \in InFlight(s) /\ toClient'[s][j] = toClient[s][j]
            sent(s, m) == MaySend(s, m) /\ m \in ServerMsg
<1>1. ASSUME NEW s \in Socket, NEW j \in InFlight(s)'
      PROVE  old(s, j) \/ sent(s, toClient'[s][j])
  BY SentMessages
<1>2. SilentUntilAccepted'
  <2>. SUFFICES ASSUME NEW s \in Socket, ctl'[s] = "none"
                PROVE  toClient'[s] = <<>>
    BY DEF SilentUntilAccepted
  <2>1. ~CanSend(s) /\ toClient[s] = <<>>
    BY DEF CanSend, SilentUntilAccepted
  <2>2. Places(out[s]) = {}
    BY <2>1 DEF MaySend
  <2>. QED
    BY <2>1, <2>2, SentMessages
<1>3. ASSUME NEW s \in Socket, NEW j \in InFlight(s)', toClient'[s][j].type = "server_kx"
      PROVE  j = 1 /\ toClient'[s][j] = Announce
  <2>1. ~sent(s, toClient'[s][j])
    BY <1>3, MessageFields DEF MaySend
  <2>. QED
    BY <1>1, <1>3, <2>1 DEF KxIsFirst
<1>4. ASSUME NEW s \in Socket, NEW j \in InFlight(s)',
             toClient'[s][j].type = "enc", ctl'[s] \in Live
      PROVE  toClient'[s][j].key = keyOf'[s]
  BY <1>1, <1>4 DEF SealedWithPresentKey, MaySend
<1>5. ASSUME NEW s \in Socket, NEW j \in InFlight(s)', IsClose(toClient'[s][j])
      PROVE  mock'[toClient'[s][j].body.id] = "closed"
  <2>1. CASE old(s, j)
    <3>1. /\ mock[toClient[s][j].body.id] = "closed"
          /\ toClient[s][j].body.id \in Conn
      BY <1>5, <2>1, TypedInFlight, MessageFields DEF CloseIsTrue
    <3>. QED
      BY <2>1, <3>1 DEF Onward
  <2>2. CASE sent(s, toClient'[s][j])
    BY <1>5, <2>2 DEF MaySend
  <2>. QED
    BY <1>1, <2>1, <2>2
<1>6. ASSUME NEW s \in Socket, NEW j \in InFlight(s)', NEW i \in Before(j)
      PROVE  /\ SameKey(toClient'[s][i], toClient'[s][j])
             /\ ~Late(toClient'[s][i], toClient'[s][j])
  <2>1. i \in InFlight(s)'
    BY <1>6 DEF InFlight, Places, Before
  <2>2. CASE j \in InFlight(s)
    <3>1. i \in InFlight(s)
      BY <2>2 DEF InFlight, Places, Before
    <3>2. toClient'[s][i] = toClient[s][i] /\ toClient'[s][j] = toClient[s][j]
      BY <2>2, <3>1, SentMessages
    <3>. QED
      BY <2>2, <3>2 DEF InOrder
  <2>3. CASE i \in InFlight(s) /\ j \notin InFlight(s)
    <3>1. toClient'[s][i] = toClient[s][i] /\ toClient[s][i] \in ServerMsg
      BY <2>3, SentMessages, TypedInFlight
    <3>2. sent(s, toClient'[s][j])
      BY <1>1, <2>3
    <3>3. SameKey(toClient[s][i], toClient'[s][j])
      BY <2>3, <3>2 DEF SealedWithPresentKey, SameKey, MaySend, CanSend, Live
    <3>4. ~Late(toClient[s][i], toClient'[s][j])
      <4>. SUFFICES ASSUME NEW l, l = toClient[s][i], NEW m, m = toClient'[s][j],
                           Late(l, m)
                    PROVE  FALSE
        OBVIOUS
      <4>1. /\ l.type = "enc" /\ m.body.type = "ws_message"
            /\ l.body = WsEvent(m.body.id, "close")
        BY DEF Late
      <4>2. IsClose(l) /\ l.body.id = m.body.id
        BY <4>1 DEF IsClose, WsEvent
      <4>3. mock[l.body.id] = "closed"
        BY <2>3, <4>2 DEF CloseIsTrue
      <4>4. mock[m.body.id] # "closed"
        BY <3>2, <4>1 DEF MaySend
      <4>. QED
        BY <4>2, <4>3, <4>4
    <3>. QED
      BY <3>1, <3>3, <3>4
  <2>4. CASE i \notin InFlight(s)
    <3>1. j \notin InFlight(s)
      BY <2>1, <2>4 DEF InFlight, Places, Before
    <3>2. PICK a \in Places(out[s]) :
            toClient'[s][i] = out[s][a] /\ a = i - Len(toClient[s])
      BY <2>1, <2>4, SentMessages
    <3>3. PICK b \in Places(out[s]) :
            toClient'[s][j] = out[s][b] /\ b = j - Len(toClient[s])
      BY <3>1, SentMessages
    <3>4. a \in Before(b)
      <4>1. toClient[s] \in Seq(ServerMsg) /\ out[s] \in Seq(ServerMsg)
        BY TypedInFlight DEF Sends
      <4>. QED
        BY <4>1, <3>2, <3>3 DEF InFlight, Places, Before
    <3>5. /\ ~Late(out[s][a], out[s][b])
          /\ MaySend(s, out[s][a]) /\ MaySend(s, out[s][b])
      BY <3>4
    <3>. QED
      BY <3>2, <3>3, <3>5 DEF SameKey, MaySend
  <2>. QED
    BY <2>2, <2>3, <2>4
<1>7. KxIsFirst' /\ SealedWithPresentKey' /\ CloseIsTrue'
  BY <1>3, <1>4, <1>5 DEF KxIsFirst, SealedWithPresentKey, CloseIsTrue
<1>8. InOrder'
  BY <1>6 DEF InOrder, SameKey, Late
<1>9. TellsTrue'
  <2>. SUFFICES ASSUME NEW s \in Socket, NEW j \in InFlight(s)', toClient'[s][j].type = "enc"
                PROVE  NowTold(toClient'[s][j].body)
    BY DEF TellsTrue, Told, NowTold
  <2>1. CASE old(s, j)
    <3>1. toClient[s][j].body \in ServerBody /\ Told(toClient[s][j].body)
      BY <2>1, TypedInFlight, MessageFields DEF TellsTrue
    <3>2. NowTold(toClient[s][j].body)
      BY <3>1, ToldStays
    <3>. QED
      BY <2>1, <3>2
  <2>2. CASE sent(s, toClient'[s][j])
    BY <2>2 DEF MaySend
  <2>. QED
    BY <1>1, <2>1, <2>2
<1>10. KxKept
  <2>. SUFFICES ASSUME NEW s \in Socket, NEW j \in InFlight(s)', toClient'[s][j].type = "server_kx"
                PROVE  \E i \in InFlight(s) : toClient[s][i].type = "server_kx"
    BY DEF KxKept
  <2>1. ~sent(s, toClient'[s][j])
    BY MessageFields DEF MaySend
  <2>. QED
    BY <1>1, <2>1
<1>. QED
  BY <1>2, <1>7, <1>8, <1>9, <1>10 DEF WireStep, SocketsKept

(* The same for what sendEncrypted sends on one socket. *)
LEMMA SendWire ==
    ASSUME IInv, WireInv, UNCHANGED <<ctl, keyOf>>, Onward,
           NEW s \in Socket, NEW bodies \in Seq(ServerBody), SendEncrypted(s, bodies),
           \A j \in Places(bodies) :
              /\ NowTold(bodies[j])
              /\ \A c \in Conn : bodies[j] = WsEvent(c, "close") => mock'[c] = "closed"
              /\ bodies[j].type = "ws_message" => mock[bodies[j].id] # "closed"
              /\ \A i \in Before(j) : bodies[j].type = "ws_message" =>
                     bodies[i] # WsEvent(bodies[j].id, "close")
    PROVE  WireStep
<1>1. CASE ~CanSend(s)
  BY <1>1, QuietWire DEF SendEncrypted
<1>2. CASE CanSend(s)
  <2>. DEFINE env == Envelopes(s, bodies)
              out == [x \in Socket |-> IF x = s THEN env ELSE <<>>]
  <2>1. keyOf[s] \in Key
    BY <1>2 DEF CanSend, IInv, TypeOK
  <2>2. env \in Seq(ServerMsg)
    BY <2>1, EnvelopesAreTyped
  <2>3. Places(env) = Places(bodies)
    BY DEF Envelopes, Places
  <2>4. \A j \in Places(bodies) : env[j] = Enc(keyOf[s], bodies[j])
    BY DEF Envelopes, Places
  <2>. HIDE DEF env
  <2>5. Sends(out)
    <3>1. toClient \in [Socket -> Seq(ServerMsg)]
      BY DEF IInv, TypeOK
    <3>2. \A x \in Socket : toClient[x] \o <<>> = toClient[x]
      BY <3>1
    <3>3. toClient' = [toClient EXCEPT ![s] = @ \o env]
      BY <1>2 DEF SendEncrypted, env
    <3>4. out \in [Socket -> Seq(ServerMsg)]
      BY <2>2
    <3>5. \A x \in Socket : toClient'[x] = toClient[x] \o out[x]
      BY <3>1, <3>2, <3>3
    <3>6. toClient' = [x \in Socket |-> toClient[x] \o out[x]]
      BY <3>1, <3>3, <3>5
    <3>. QED
      BY <3>4, <3>6 DEF Sends
  <2>6. ASSUME NEW j \in Places(bodies)
        PROVE  MaySend(s, env[j])
    <3>. DEFINE m == Enc(keyOf[s], bodies[j])
    <3>1. bodies[j] \in ServerBody
      BY DEF Places
    <3>2. m \in ServerMsg /\ m.type = "enc" /\ m.key = keyOf[s] /\ m.body = bodies[j]
      BY <2>1, <3>1 DEF ServerMsg, Enc
    <3>. HIDE DEF m
    <3>3. IsClose(m) => m.body.id \in Conn /\ bodies[j] = WsEvent(m.body.id, "close")
      BY <3>2, MessageFields DEF IsClose
    <3>4. MaySend(s, m)
      BY <1>2, <3>2, <3>3 DEF MaySend
    <3>. QED
      BY <2>4, <3>4 DEF m
  <2>7. ASSUME NEW j \in Places(bodies), NEW i \in Before(j)
        PROVE  ~Late(env[i], env[j])
    <3>1. i \in Places(bodies)
      BY DEF Places, Before
    <3>2. \A b : Enc(keyOf[s], b).body = b
      BY DEF Enc
    <3>3. env[i].body = bodies[i] /\ env[j].body = bodies[j]
      BY <2>4, <3>1, <3>2
    <3>. QED
      BY <3>3 DEF Late
  <2>8. ASSUME NEW x \in Socket, NEW k \in Places(out[x])
        PROVE  x = s /\ out[x] = env /\ k \in Places(bodies)
    <3>1. CASE x = s
      BY <2>3, <3>1
    <3>2. CASE x # s
      BY <3>2 DEF Places
    <3>. QED
      BY <3>1, <3>2
  <2>9. \A x \in Socket : \A k \in Places(out[x]) :
           /\ MaySend(x, out[x][k])
           /\ \A i \in Before(k) : ~Late(out[x][i], out[x][k])
    <3>. HIDE DEF out
    <3>. QED
      BY <2>6, <2>7, <2>8
  <2>. HIDE DEF out
  <2>. QED
    BY <2>5, <2>9, SentWire
<1>. QED
  BY <1>1, <1>2

-----------------------------------------------------------------------------
(* One lemma per action that sends. *)

LEMMA ControlConnectWire ==
    ASSUME IInv, WireInv, NEW s \in Socket, ControlConnect(s)
    PROVE  WireStep
<1>. USE DEF WireInv
<1>1. toClient[s] = <<>> /\ ctl[s] = "none"
  BY DEF ControlConnect, SilentUntilAccepted
<1>2. /\ toClient \in [Socket -> Seq(ServerMsg)]
      /\ ctl \in [Socket -> {"none", "open", "closing", "closed"}]
  BY DEF IInv, TypeOK
<1>3. /\ toClient' = [toClient EXCEPT ![s] = <<Announce>>]
      /\ ctl' = [ctl EXCEPT ![s] = "open"]
      /\ keyOf' = keyOf /\ mock' = mock /\ answered' = answered
  BY <1>1 DEF ControlConnect, connVars, httpVars
<1>4. ASSUME NEW x \in Socket, NEW j \in InFlight(x)'
      PROVE  \/ /\ x = s /\ j = 1 /\ toClient'[x][j].type = "server_kx"
                /\ toClient'[x][j] = Announce
             \/ /\ x # s /\ j \in InFlight(x) /\ toClient'[x] = toClient[x]
                /\ ctl'[x] = ctl[x]
  BY <1>2, <1>3, SMTT(30) DEF InFlight, Places, Announce, ServerKx
<1>5. SilentUntilAccepted'
  BY <1>2, <1>3 DEF SilentUntilAccepted
<1>6. KxIsFirst'
  BY <1>4 DEF KxIsFirst
<1>7. SealedWithPresentKey' /\ CloseIsTrue'
  BY <1>3, <1>4 DEF SealedWithPresentKey, CloseIsTrue, Announce, ServerKx, IsClose
<1>8. InOrder'
  <2>1. Before(1) = {}
    BY DEF Before
  <2>. QED
    BY <1>4, <2>1 DEF InOrder, SameKey, Late
<1>9. TellsTrue'
  BY <1>3, <1>4 DEF TellsTrue, Told, Announce, ServerKx
<1>10. Onward /\ KxKept /\ SocketsKept
  BY <1>1, <1>2, <1>3, <1>4 DEF Onward, KxKept, SocketsKept
<1>. QED
  BY <1>5, <1>6, <1>7, <1>8, <1>9, <1>10 DEF WireStep

(* A new mock may greet, may be closed and is announced, in that order. *)
LEMMA WsConnectWire ==
    ASSUME IInv, WireInv, NEW s \in Socket, NEW c \in Conn,
           mock[c] = "none", HandleWsConnect(s, c)
    PROVE  WireStep
<1>1. PICK greeting \in {<<>>} \cup {<<WsMessage(c, d)>> : d \in Data},
           closes \in BOOLEAN, throws \in BOOLEAN :
        /\ mock' = [mock EXCEPT ![c] = IF closes THEN "closed" ELSE "open"]
        /\ SendEncrypted(s,
               greeting \o (IF closes THEN <<WsEvent(c, "close")>> ELSE <<>>)
                        \o <<WsEvent(c, IF throws THEN "error" ELSE "open")>>)
        /\ UNCHANGED linkVars
  BY DEF HandleWsConnect
<1>. DEFINE closing == IF closes THEN <<WsEvent(c, "close")>> ELSE <<>>
            final   == WsEvent(c, IF throws THEN "error" ELSE "open")
            bodies  == greeting \o closing \o <<final>>
<1>2. mock \in [Conn -> {"none", "open", "closed"}]
  BY DEF IInv, TypeOK
<1>3. /\ \A d \in Data : WsMessage(c, d) \in ServerBody
      /\ WsEvent(c, "close") \in ServerBody
      /\ final \in ServerBody
  BY BodiesAreTyped
<1>4. greeting = <<>> \/ \E d \in Data : greeting = <<WsMessage(c, d)>>
  OBVIOUS
<1>5. closing = <<>> \/ (closing = <<WsEvent(c, "close")>> /\ closes)
  OBVIOUS
<1>. HIDE DEF closing, final
<1>6. greeting \in Seq(ServerBody) /\ closing \in Seq(ServerBody)
  <2>1. ASSUME NEW b \in ServerBody PROVE <<b>> \in Seq(ServerBody)
    OBVIOUS
  <2>2. <<>> \in Seq(ServerBody)
    OBVIOUS
  <2>3. greeting \in Seq(ServerBody)
    BY <1>3, <1>4, <2>1, <2>2, Zenon
  <2>4. closing \in Seq(ServerBody)
    BY <1>3, <1>5, <2>1, <2>2, Zenon
  <2>. QED
    BY <2>3, <2>4
<1>7. bodies \in Seq(ServerBody)
  BY <1>3, <1>6
<1>8. ASSUME NEW j \in Places(bodies)
      PROVE  \/ /\ j = 1 /\ \E d \in Data : bodies[j] = WsMessage(c, d)
             \/ bodies[j] = WsEvent(c, "close") /\ closes
             \/ bodies[j] = final
  BY <1>4, <1>5 DEF Places
<1>9. ASSUME NEW j \in Places(bodies)
      PROVE  /\ \A x \in Conn : bodies[j] = WsEvent(x, "close") => mock'[x] = "closed"
             /\ bodies[j].type = "ws_message" => mock[bodies[j].id] # "closed" /\ j = 1
             /\ NowTold(bodies[j])
  <2>1. \A x, e : /\ WsEvent(x, e).type = "ws_event" /\ WsEvent(x, e).id = x
                  /\ WsEvent(x, e).event = e
    BY DEF WsEvent
  <2>2. \A d : WsMessage(c, d).type = "ws_message" /\ WsMessage(c, d).id = c
    BY DEF WsMessage
  <2>3. final.type = "ws_event" /\ final.id = c /\ final.event \in {"open", "error"}
    BY <2>1 DEF final
  <2>4. (closes => mock'[c] = "closed") /\ mock'[c] # "none"
    BY <1>1, <1>2
  <2>. HIDE DEF bodies
  <2>8. \A b : b.type \in {"ws_event", "ws_message"} /\ b.id = c => NowTold(b)
    BY <2>4 DEF NowTold
  <2>5. CASE j = 1 /\ \E d \in Data : bodies[j] = WsMessage(c, d)
    BY <2>1, <2>2, <2>5, <2>8
  <2>6. CASE bodies[j] = WsEvent(c, "close") /\ closes
    <3>1. bodies[j].type = "ws_event" /\ bodies[j].id = c
      BY <2>1, <2>6
    <3>2. \A x : bodies[j] = WsEvent(x, "close") => x = c
      BY <2>1, <3>1
    <3>. QED
      BY <2>4, <2>6, <2>8, <3>1, <3>2
  <2>7. CASE bodies[j] = final
    BY <2>1, <2>3, <2>7, <2>8
  <2>. QED
    BY <1>8, <2>5, <2>6, <2>7
<1>10. Before(1) = {}
  BY DEF Before
<1>11. SendEncrypted(s, bodies) /\ UNCHANGED <<ctl, keyOf>>
  BY <1>1 DEF closing, final, linkVars
<1>12. Onward
  BY <1>1, <1>2 DEF Onward, HandleWsConnect, httpVars
<1>. HIDE DEF bodies
<1>. QED
  BY <1>7, <1>9, <1>10, <1>11, <1>12, SendWire

LEMMA HttpRespondWire ==
    ASSUME IInv, WireInv, NEW r \in Req, NEW ok \in BOOLEAN, HttpRespond(r, ok)
    PROVE  WireStep
<1>. DEFINE bodies == <<HttpResponse(r, ok)>>
<1>1. bodies \in Seq(ServerBody) /\ Places(bodies) = {1} /\ Before(1) = {}
  BY BodiesAreTyped DEF Places, Before
<1>2. /\ bodies[1].type = "http_response" /\ bodies[1].id = r
      /\ \A c : WsEvent(c, "close").type = "ws_event"
  BY DEF HttpResponse, WsEvent
<1>3. /\ \E s \in Socket : SendEncrypted(s, bodies)
      /\ UNCHANGED <<ctl, keyOf, mock>>
      /\ answered' = answered \cup {r}
  <2>1. http[r] \in Seq(Socket)
    BY DEF IInv, TypeOK
  <2>2. PICK i \in DOMAIN http[r] : SendEncrypted(http[r][i], bodies)
    BY DEF HttpRespond
  <2>3. http[r][i] \in Socket
    BY <2>1, <2>2
  <2>. QED
    BY <2>2, <2>3 DEF HttpRespond, linkVars, connVars
<1>. HIDE DEF bodies
<1>4. Onward /\ NowTold(bodies[1])
  BY <1>2, <1>3 DEF Onward, NowTold
<1>. QED
  BY <1>1, <1>2, <1>3, <1>4, SendWire

LEMMA AppSendWire ==
    ASSUME IInv, WireInv, NEW c \in Conn, NEW d \in Data, AppSend(c, d)
    PROVE  WireStep
<1>. DEFINE bodies == <<WsMessage(c, d)>>
<1>1. bodies \in Seq(ServerBody) /\ Places(bodies) = {1} /\ Before(1) = {}
  BY BodiesAreTyped DEF Places, Before
<1>2. /\ bodies[1].type = "ws_message" /\ bodies[1].id = c
      /\ \A x : WsEvent(x, "close").type = "ws_event"
  BY DEF WsMessage, WsEvent
<1>3. /\ via[c] \in Socket /\ mock[c] = "open"
      /\ SendEncrypted(via[c], bodies) /\ UNCHANGED <<ctl, keyOf, mock, answered>>
  BY DEF AppSend, linkVars, connVars, httpVars, IInv, OpenMockIsRouted
<1>. HIDE DEF bodies
<1>4. Onward /\ NowTold(bodies[1])
  BY <1>2, <1>3 DEF Onward, NowTold
<1>. QED
  BY <1>1, <1>2, <1>3, <1>4, SendWire

LEMMA AppCloseWire ==
    ASSUME IInv, WireInv, NEW c \in Conn, AppClose(c)
    PROVE  WireStep
<1>. DEFINE bodies == <<WsEvent(c, "close")>>
<1>1. bodies \in Seq(ServerBody) /\ Places(bodies) = {1} /\ Before(1) = {}
  BY BodiesAreTyped DEF Places, Before
<1>2. /\ bodies[1].type = "ws_event" /\ bodies[1].id = c
      /\ \A x : WsEvent(x, "close").id = x
  BY DEF WsEvent
<1>3. /\ via[c] \in Socket /\ mock' = [mock EXCEPT ![c] = "closed"]
      /\ SendEncrypted(via[c], bodies) /\ UNCHANGED <<ctl, keyOf, answered>>
  BY DEF AppClose, linkVars, httpVars, IInv, OpenMockIsRouted
<1>4. mock'[c] = "closed" /\ Onward
  BY <1>3 DEF IInv, TypeOK, Onward
<1>. HIDE DEF bodies
<1>5. NowTold(bodies[1])
  BY <1>2, <1>4 DEF NowTold
<1>. QED
  BY <1>1, <1>2, <1>3, <1>4, <1>5, SendWire

LEMMA WssCloseWire ==
    ASSUME IInv, WireInv, WssClose
    PROVE  WireStep
<1>. DEFINE evs(q) == [i \in 1..Len(q) |-> WsEvent(q[i], "close")]
<1>1. PICK order \in [Socket -> Orders] :
        /\ \A s \in Socket : Range(order[s]) = {c \in clients : mock[c] = "open" /\ via[c] = s}
        /\ toClient' = [s \in Socket |->
                          IF CanSend(s) THEN toClient[s] \o Envelopes(s, evs(order[s]))
                                        ELSE toClient[s]]
        /\ mock' = [c \in Conn |-> IF c \in clients THEN "closed" ELSE mock[c]]
        /\ UNCHANGED <<linkVars, answered>>
  BY DEF WssClose, httpVars
<1>. DEFINE out == [s \in Socket |-> IF CanSend(s) THEN Envelopes(s, evs(order[s])) ELSE <<>>]
<1>2. /\ clients \subseteq Conn
      /\ toClient \in [Socket -> Seq(ServerMsg)]
      /\ keyOf \in [Socket -> Key \cup {NoKey}]
  BY DEF IInv, TypeOK
<1>3. ASSUME NEW s \in Socket
      PROVE  order[s] \in Seq(Conn) /\ \A k \in Places(order[s]) : order[s][k] \in clients
  <2>1. order[s] \in Orders
    OBVIOUS
  <2>2. order[s] \in Seq(Conn) /\ DOMAIN order[s] = 1..Len(order[s])
    BY <2>1 DEF Orders
  <2>3. \A k \in Places(order[s]) : order[s][k] \in Range(order[s])
    BY <2>2 DEF Places, Range
  <2>. QED
    BY <1>1, <2>2, <2>3
<1>4. ASSUME NEW s \in Socket
      PROVE  /\ Places(evs(order[s])) = Places(order[s])
             /\ \A k \in Places(order[s]) : evs(order[s])[k] = WsEvent(order[s][k], "close")
             /\ evs(order[s]) \in Seq(ServerBody)
  <2>1. \A k \in 1..Len(order[s]) : WsEvent(order[s][k], "close") \in ServerBody
    BY <1>3, BodiesAreTyped DEF Places
  <2>2. Len(order[s]) \in Nat
    BY <1>3
  <2>. QED
    BY <2>1, <2>2 DEF Places
<1>. HIDE DEF evs
<1>5. ASSUME NEW s \in Socket, CanSend(s)
      PROVE  /\ Envelopes(s, evs(order[s])) \in Seq(ServerMsg)
             /\ Places(Envelopes(s, evs(order[s]))) = Places(order[s])
             /\ \A k \in Places(order[s]) :
                   Envelopes(s, evs(order[s]))[k] = Enc(keyOf[s], WsEvent(order[s][k], "close"))
  <2>1. keyOf[s] \in Key
    BY <1>2, <1>5 DEF CanSend
  <2>2. Envelopes(s, evs(order[s])) \in Seq(ServerMsg)
    BY <1>4, <2>1, EnvelopesAreTyped
  <2>3. /\ Places(Envelopes(s, evs(order[s]))) = Places(evs(order[s]))
        /\ \A k \in Places(evs(order[s])) :
              Envelopes(s, evs(order[s]))[k] = Enc(keyOf[s], evs(order[s])[k])
    BY DEF Envelopes, Places
  <2>. QED
    BY <1>4, <2>2, <2>3
<1>6. ASSUME NEW s \in Socket, ~CanSend(s)
      PROVE  Places(out[s]) = {}
  BY <1>6 DEF Places
<1>7. Sends(out)
  <2>1. out \in [Socket -> Seq(ServerMsg)]
    BY <1>5
  <2>2. \A s \in Socket : toClient[s] \o <<>> = toClient[s]
    BY <1>2
  <2>3. \A s \in Socket : toClient'[s] = toClient[s] \o out[s]
    BY <1>1, <2>2
  <2>4. toClient' = [s \in Socket |-> toClient[s] \o out[s]]
    BY <1>1, <2>3
  <2>. QED
    BY <2>1, <2>4 DEF Sends
<1>8. ASSUME NEW s \in Socket, NEW k \in Places(out[s])
      PROVE  /\ CanSend(s) /\ k \in Places(order[s])
             /\ out[s][k] = Enc(keyOf[s], WsEvent(order[s][k], "close"))
  BY <1>5, <1>6
<1>. HIDE DEF out
<1>9. ASSUME NEW s \in Socket, NEW k \in Places(out[s])
      PROVE  /\ MaySend(s, out[s][k])
             /\ \A i \in Before(k) : ~Late(out[s][i], out[s][k])
  <2>. DEFINE m == out[s][k]
              c == order[s][k]
  <2>1. c \in clients /\ m = Enc(keyOf[s], WsEvent(c, "close")) /\ CanSend(s)
    BY <1>3, <1>8
  <2>. HIDE DEF m, c
  <2>2. /\ m.type = "enc" /\ m.key = keyOf[s] /\ m.body.id = c
        /\ m.body.type = "ws_event"
    BY <2>1 DEF Enc, WsEvent
  <2>3. mock'[c] = "closed"
    BY <1>1, <1>2, <2>1
  <2>4. MaySend(s, m)
    BY <2>1, <2>2, <2>3 DEF MaySend, NowTold
  <2>. QED
    BY <2>2, <2>4 DEF Late, m
<1>10. Onward
  BY <1>1 DEF Onward
<1>. QED
  BY <1>1, <1>7, <1>9, <1>10, SentWire DEF linkVars

-----------------------------------------------------------------------------
(* Messages from a peer, and the steps that send nothing. *)

LEMMA PeerSendsWire ==
    ASSUME IInv, WireInv, NEW s \in Socket, PeerSends(s)
    PROVE  WireStep
<1>1. PICK m \in ClientMsg : PeerMaySend(m) /\ Receive(s, m)
  BY DEF PeerSends
<1>2. CASE AcceptKey(s, m)
  <2>1. \A x \in Socket : keyOf[x] \in {keyOf'[x], NoKey}
    BY <1>2 DEF AcceptKey, IInv, TypeOK
  <2>. QED
    BY <1>2, <2>1, QuietWire DEF AcceptKey, connVars, httpVars, Onward
<1>3. CASE DropMessage(s, m)
  BY <1>3, QuietWire DEF DropMessage, vars, Onward
<1>4. CASE Readable(s, m) /\ Dispatch(s, m.body)
  <2>1. m.type = "enc" /\ m.body \in ClientBody
    BY <1>4 DEF Readable, ClientMsg, Plaintext
  <2>2. CASE HandleHttpRequest(s, m.body.id)
    BY <2>2, QuietWire DEF HandleHttpRequest, linkVars, connVars, Onward
  <2>3. CASE m.body.type = "ws_connect" /\ HandleWsConnect(s, m.body.id)
    <3>1. m.body.id \in Conn
      BY <2>1, <2>3 DEF ClientBody, WsMessages
    <3>2. mock[m.body.id] = "none"
      BY <1>1, <2>1, <2>3 DEF PeerMaySend
    <3>. QED
      BY <2>3, <3>1, <3>2, WsConnectWire
  <2>4. CASE HandleWsMessage(m.body.id, m.body.data)
    BY <2>4, QuietWire DEF HandleWsMessage, linkVars, httpVars, Onward
  <2>5. CASE HandleWsClose(m.body.id)
    <3>1. Onward
      BY <2>5 DEF HandleWsClose, Forget, httpVars, Onward
    <3>. QED
      BY <2>5, <3>1, QuietWire DEF HandleWsClose, linkVars
  <2>. QED
    BY <1>4, <2>2, <2>3, <2>4, <2>5 DEF Dispatch
<1>. QED
  BY <1>1, <1>2, <1>3, <1>4 DEF Receive

LEMMA ControlCloseWire ==
    ASSUME IInv, WireInv, NEW s \in Socket, ControlClose(s)
    PROVE  WireStep
<1>1. \A x \in Socket : /\ ctl'[x] = "none" => ctl[x] = "none"
                        /\ ctl'[x] \in Live => ctl[x] \in Live /\ keyOf[x] = keyOf'[x]
  BY DEF ControlClose, IInv, TypeOK, Live
<1>2. Onward
  BY DEF ControlClose, Forget, httpVars, Onward
<1>. QED
  BY <1>1, <1>2, QuietWire DEF ControlClose

LEMMA SweepWire ==
    ASSUME IInv, WireInv, HeartbeatSweep
    PROVE  WireStep
<1>1. \A s \in Socket \ Tracked : keyOf[s] = NoKey
  BY DEF IInv, BookkeepingIsLive, Tracked
<1>2. \A s \in Socket : /\ ctl'[s] = ctl[s] \/ (ctl'[s] = "closing" /\ ctl[s] \in Live)
                        /\ keyOf'[s] = keyOf[s]
  <2>1. /\ ctl \in [Socket -> {"none", "open", "closing", "closed"}]
        /\ keyOf \in [Socket -> Key \cup {NoKey}]
    BY DEF IInv, TypeOK
  <2>2. PICK doomed \in SUBSET Tracked :
          /\ ctl' = [s \in Socket |-> IF s \in doomed THEN "closing" ELSE ctl[s]]
          /\ keyOf' = [s \in Socket |->
                IF s \in {x \in Socket \ Tracked : keyOf[x] # NoKey} THEN NoKey ELSE keyOf[s]]
    BY DEF HeartbeatSweep
  <2>3. \A s \in Socket : ctl'[s] = ctl[s] \/ (ctl'[s] = "closing" /\ ctl[s] \in Live)
    BY <2>1, <2>2 DEF Tracked
  <2>4. keyOf' = keyOf
    BY <1>1, <2>1, <2>2
  <2>. QED
    BY <2>3, <2>4
<1>3. UNCHANGED <<toClient, mock, answered>>
  BY DEF HeartbeatSweep, connVars, httpVars
<1>. QED
  BY <1>2, <1>3, QuietWire DEF Live, Onward

LEMMA NextWire == IInv /\ WireInv /\ [Next]_vars => WireStep
<1>. SUFFICES ASSUME IInv, WireInv, [Next]_vars PROVE WireStep
  OBVIOUS
<1>1. CASE UNCHANGED vars
  BY <1>1, QuietWire DEF vars, Onward
<1>2. ASSUME NEW s \in Socket, ControlConnect(s) \/ ControlClose(s) \/ PeerSends(s)
      PROVE  WireStep
  BY <1>2, ControlConnectWire, ControlCloseWire, PeerSendsWire
<1>3. ASSUME NEW s \in Socket, Take(s) \/ Lose(s)
      PROVE  WireStep
  BY <1>3, TakenWire
<1>4. ASSUME NEW s \in Socket, Pong(s) \/ Vanish(s)
      PROVE  WireStep
  BY <1>4, QuietWire DEF Pong, Vanish, connVars, httpVars, Onward
<1>5. CASE ServerClose
  BY <1>5, QuietWire DEF ServerClose, connVars, httpVars, Onward
<1>6. ASSUME NEW r \in Req, NEW ok \in BOOLEAN, HttpRespond(r, ok)
      PROVE  WireStep
  BY <1>6, HttpRespondWire
<1>7. ASSUME NEW c \in Conn, AppClose(c) \/ \E d \in Data : AppSend(c, d)
      PROVE  WireStep
  BY <1>7, AppCloseWire, AppSendWire
<1>8. CASE WssClose \/ HeartbeatSweep
  BY <1>8, WssCloseWire, SweepWire
<1>. QED
  BY <1>1, <1>2, <1>3, <1>4, <1>5, <1>6, <1>7, <1>8 DEF Next

(***************************************************************************)
(* On every control socket server_kx comes once and first, all envelopes   *)
(* are under the one key the socket has had, and nothing of a connection   *)
(* follows its "close" event (server.ts:165-205, 468-595).                 *)
(***************************************************************************)
THEOREM WireIsDisciplined == Spec => []WireDiscipline
<1>1. Init => WireInv
  BY InitWire
<1>2. IInv /\ WireInv /\ [Next]_vars => WireInv'
  BY NextWire DEF WireStep
<1>3. IInv /\ WireInv => WireDiscipline
  BY WireImplies
<1>. QED
  BY <1>1, <1>2, <1>3, Invariance, PTL DEF Spec

=============================================================================
