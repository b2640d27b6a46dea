------------------------ MODULE TunnelClient_proof ------------------------
(***************************************************************************)
(* Proofs about TunnelClient, for every set of sockets, connections,       *)
(* requests and handshakes, whatever the servers send.                     *)
(*                                                                         *)
(* The invariant has three parts beside the types, and every action        *)
(* disturbs at most two of them: the table of requests, the mocks with     *)
(* the sockets they hang on, and the keys with what was sealed with them.  *)
(***************************************************************************)
EXTENDS TunnelClient, FiniteSetTheorems, TLAPS

(* An entry of pendingRequests belongs to a request that was sent, or whose *)
(* send failed: never to one that resolved, or has yet to be sent.          *)
PendingIsSent == \A r \in pending : req[r] \in {"sent", "rejected"}

RequestsInv == SentIsPending /\ PendingIsSent

Present == {"open", "closing", "failed"}

(* OpenMockHasTunnel, naming the mock that interrupted the loop of onclose: *)
(* it is CLOSED, so close() can no longer take it out of the table.         *)
OpenMockIsCarried ==
    \A c \in Conn : readyState[c] = "open" =>
        \/ \E s \in Socket : rs[s] \in Present
        \/ \E x \in registered \cap OncloseThrows : readyState[x] = "closed"

MocksInv == RegisteredIsActive /\ OpenMockIsCarried

Verified == {"approving", "binding", "refused", "done"}

(* The current key went through the verification of its quote. *)
KeyIsVerified == symKey # NoKey => kx[symKey] \in Verified

(* The key of k is the one in use, or nothing is awaited between the writes  *)
(* of the fields of the client and the binding check of k that reads them.   *)
Alone(k) == "quote" \in Custom => symKey = k

(* While an application judges the quote of the handshake whose key is in    *)
(* use, the server's key is that of this handshake too; so a key that passed *)
(* the client's own check is bound, unless another has taken its place.      *)
CheckedIsBound ==
    \A k \in Key :
        /\ "quote" \notin Custom => kx[k] # "approving"
        /\ kx[k] = "approving" /\ symKey = k => serverKey = heard[k].pub
        /\ "binding" \notin Custom /\ Alone(k) /\ kx[k] \in {"binding", "done"}
              => heard[k].quote = heard[k].pub

(* KeysFollowVerification, and a seal that was sent holds a key. *)
Founded(m) ==
    /\ m.type = "enc" => kx[m.key] \in Verified
    /\ m.type = "client_kx" => m.key \in Key /\ kx[m.key] = "done"

SentIsFounded ==
    \A s \in Socket : \A i \in 1..Len(toServer[s]) : Founded(toServer[s][i])

KeysInv == KeyIsVerified /\ CheckedIsBound /\ SentIsFounded

IInv == TypeOK /\ RequestsInv /\ MocksInv /\ KeysInv

(* IInv implies the properties the runs check. *)
LEMMA CarriedImplies == IInv => OpenMockHasTunnel
BY DEF IInv, MocksInv, OpenMockIsCarried, OpenMockHasTunnel, Present

LEMMA FoundedImplies == IInv => KeysFollowVerification
BY DEF IInv, KeysInv, CheckedIsBound, Alone, SentIsFounded, Founded, Verified,
       KeysFollowVerification

LEMMA InitIInv == Init => IInv
<1>. SUFFICES ASSUME Init PROVE IInv
  OBVIOUS
<1>1. ServerKx(NoServer, NoServer, NoServer) \in Announcement
  BY DEF ServerKx, Announcement
<1>2. TypeOK
  BY <1>1, DataAssumption DEF Init, TypeOK
<1>3. RequestsInv /\ MocksInv
  BY DEF Init, RequestsInv, SentIsPending, PendingIsSent, MocksInv,
         RegisteredIsActive, OpenMockIsCarried
<1>4. KeysInv
  BY DEF Init, KeysInv, KeyIsVerified, CheckedIsBound, SentIsFounded
<1>. QED
  BY <1>2, <1>3, <1>4 DEF IInv

-----------------------------------------------------------------------------
(* What keeps each part. *)

LEMMA RequestsKept ==
    ASSUME RequestsInv, UNCHANGED <<req, pending>>
    PROVE  RequestsInv'
BY DEF RequestsInv, SentIsPending, PendingIsSent

LEMMA MocksKept ==
    ASSUME MocksInv, UNCHANGED <<readyState, registered>>,
           \A s \in Socket : rs[s] \in Present => rs'[s] \in Present
    PROVE  MocksInv'
BY DEF MocksInv, RegisteredIsActive, OpenMockIsCarried

LEMMA KeysKept ==
    ASSUME KeysInv, UNCHANGED <<kx, heard, symKey, serverKey, toServer>>
    PROVE  KeysInv'
BY DEF KeysInv, KeyIsVerified, CheckedIsBound, Alone, SentIsFounded, Founded

(* What founded a message stays. *)
LEMMA FoundedKept ==
    ASSUME \A k \in Key : kx[k] \in Verified => kx'[k] \in Verified,
           \A k \in Key : kx[k] = "done" => kx'[k] = "done",
           NEW m \in ClientMsg, Founded(m)
    PROVE  Founded(m)'
<1>1. m.type = "enc" => m.key \in Key
  BY DEF ClientMsg, Plaintext
<1>. QED
  BY <1>1 DEF Founded

(* A handshake goes on and nothing is sent: no progress of it is lost. *)
LEMMA HandshakeKeepsKeys ==
    ASSUME TypeOK, KeysInv, UNCHANGED toServer, CheckedIsBound',
           symKey' = symKey \/ symKey' = NoKey \/ kx'[symKey'] \in Verified,
           \A k \in Key : kx[k] \in Verified => kx'[k] \in Verified,
           \A k \in Key : kx[k] = "done" => kx'[k] = "done"
    PROVE  KeysInv'
<1>1. KeyIsVerified'
  BY DEF KeysInv, KeyIsVerified, TypeOK
<1>2. \A m \in ClientMsg : Founded(m) => Founded(m)'
  BY FoundedKept
<1>3. ASSUME NEW s \in Socket, NEW i \in 1..Len(toServer[s])
      PROVE  toServer[s][i] \in ClientMsg
  BY DEF TypeOK
<1>4. SentIsFounded'
  BY <1>2, <1>3 DEF KeysInv, SentIsFounded
<1>. QED
  BY <1>1, <1>4 DEF KeysInv

-----------------------------------------------------------------------------
(* What is sent, and how a connection is ensured. *)

LEMMA BodiesAreTyped ==
    /\ \A r \in Req : HttpRequest(r) \in ClientBody
    /\ \A c \in Conn : WsConnect(c) \in ClientBody /\ WsClose(c) \in ClientBody
    /\ \A c \in Conn, d \in Data : WsMessage(c, d) \in ClientBody
BY DEF HttpRequest, WsConnect, WsClose, WsMessage, ClientBody, WsMessages

LEMMA TrySendIsSound ==
    ASSUME TypeOK, NEW bodies \in Seq(ClientBody), TrySend(bodies)
    PROVE  /\ toServer' \in [Socket -> Seq(ClientMsg)]
           /\ KeysInv /\ UNCHANGED <<kx, heard, symKey, serverKey>> => KeysInv'
<1>1. CASE ~CanSend
  BY <1>1, KeysKept DEF TrySend, TypeOK
<1>2. CASE CanSend
  <2>. DEFINE sent == [i \in 1..Len(bodies) |-> Enc(symKey, bodies[i])]
  <2>1. ws \in Socket /\ symKey \in Key /\ symKey # NoKey
    BY <1>2, NoSocketAssumption DEF CanSend, Usable, TypeOK
  <2>2. \A i \in 1..Len(bodies) : Enc(symKey, bodies[i]) \in ClientMsg
    BY <2>1 DEF Enc, ClientMsg
  <2>3. sent \in Seq(ClientMsg)
    BY <2>2
  <2>4. toServer' = [toServer EXCEPT ![ws] = @ \o sent]
    BY <1>2 DEF TrySend, SendAll
  <2>5. toServer' \in [Socket -> Seq(ClientMsg)]
    BY <2>1, <2>3, <2>4 DEF TypeOK
  <2>6. ASSUME KeysInv, UNCHANGED <<kx, heard, symKey, serverKey>>
        PROVE  KeysInv'
    <3>1. KeyIsVerified' /\ CheckedIsBound'
      BY <2>6 DEF KeysInv, KeyIsVerified, CheckedIsBound, Alone
    <3>2. \A i \in 1..Len(sent) : Founded(sent[i])
      BY <2>1, <2>6 DEF KeysInv, KeyIsVerified, Founded, Enc
    <3>3. ASSUME NEW s \in Socket, NEW i \in 1..Len(toServer'[s])
          PROVE  Founded(toServer'[s][i])
      <4>1. CASE s # ws \/ i <= Len(toServer[s])
        <5>1. i \in 1..Len(toServer[s]) /\ toServer'[s][i] = toServer[s][i]
          BY <2>1, <2>3, <2>4, <4>1 DEF TypeOK
        <5>. QED
          BY <2>6, <5>1 DEF KeysInv, SentIsFounded
      <4>2. CASE s = ws /\ i > Len(toServer[s])
        <5>1. /\ i - Len(toServer[s]) \in 1..Len(sent)
              /\ toServer'[s][i] = sent[i - Len(toServer[s])]
          BY <2>1, <2>3, <2>4, <4>2 DEF TypeOK
        <5>. QED
          BY <3>2, <5>1
      <4>. QED
        BY <4>1, <4>2, <2>3, <2>4 DEF TypeOK
    <3>4. SentIsFounded'
      BY <2>6, <3>3 DEF SentIsFounded, Founded
    <3>. QED
      BY <3>1, <3>4 DEF KeysInv
  <2>. QED
    BY <2>5, <2>6
<1>. QED
  BY <1>1, <1>2

LEMMA EnsureIsSound ==
    ASSUME TypeOK, NEW p \in Awaitable, EnsureConnection(p)
    PROVE  /\ ws' \in Socket \cup {NoSocket}
           /\ promise' \in Socket \cup {NoSocket}
           /\ rs' \in [Socket -> {"none", "connecting", "open", "closing", "failed",
                                  "closed"}]
           /\ \A s \in Socket : rs[s] \in Present => rs'[s] \in Present
BY ZenonT(40) DEF TypeOK, Awaitable, EnsureConnection, linkVars, Present

-----------------------------------------------------------------------------
(* Events of a socket. *)

LEMMA SocketOpenIInv ==
    ASSUME IInv, NEW s \in Socket, SocketOpen(s) \/ SocketClosing(s)
    PROVE  IInv'
<1>. USE DEF IInv, SocketOpen, SocketClosing, kxVars, handVars, reqVars, connVars
<1>1. TypeOK'
  BY ZenonT(40) DEF TypeOK
<1>2. RequestsInv' /\ KeysInv'
  BY RequestsKept, KeysKept
<1>3. MocksInv'
  <2>1. \A x \in Socket : rs[x] \in Present => rs'[x] \in Present
    BY DEF TypeOK, Present
  <2>. QED
    BY <2>1, MocksKept
<1>. QED
  BY <1>1, <1>2, <1>3

LEMMA SocketErrorIInv ==
    ASSUME IInv, NEW s \in Socket, SocketError(s)
    PROVE  IInv'
<1>. USE DEF IInv, SocketError, handVars, reqVars, connVars
<1>1. TypeOK'
  BY DEF TypeOK
<1>2. RequestsInv' /\ KeysInv'
  BY RequestsKept, KeysKept
<1>3. MocksInv'
  <2>1. \A x \in Socket : rs[x] \in Present => rs'[x] \in Present
    BY DEF TypeOK, Present
  <2>. QED
    BY <2>1, MocksKept
<1>. QED
  BY <1>1, <1>2, <1>3

(* What onclose leaves: no registered mock that was not told is lost, and  *)
(* no mock stays OPEN unless one that threw is left in the table, CLOSED.  *)
LEMMA EndMocksIsSound ==
    ASSUME TypeOK, MocksInv, EndMocks
    PROVE  /\ readyState' \in [Conn -> {"new", "connecting", "open", "closing", "closed"}]
           /\ registered' \subseteq Conn
           /\ RegisteredIsActive'
           /\ \A c \in Conn : readyState'[c] = "open" =>
                 \E x \in registered' \cap OncloseThrows : readyState'[x] = "closed"
<1>1. PICK told \in SUBSET registered :
        LET threw == told \cap OncloseThrows IN
        /\ \/ told = registered /\ threw = {}
           \/ Cardinality(threw) = 1
        /\ readyState' = [c \in Conn |-> IF c \in told THEN "closed"
                                                       ELSE readyState[c]]
        /\ registered' = IF threw = {} THEN {} ELSE (registered \ told) \cup threw
  BY DEF EndMocks
<1>. DEFINE threw == told \cap OncloseThrows
<1>2. CASE told = registered /\ threw = {}
  BY <1>1, <1>2 DEF TypeOK, MocksInv, RegisteredIsActive
<1>3. CASE threw # {}
  BY <1>1, <1>3 DEF TypeOK, MocksInv, RegisteredIsActive
<1>4. Cardinality(threw) = 1 => threw # {}
  BY FS_EmptySet
<1>. QED
  BY <1>1, <1>2, <1>3, <1>4

LEMMA SocketCloseIInv ==
    ASSUME IInv, NEW s \in Socket, SocketClose(s)
    PROVE  IInv'
<1>. USE DEF IInv, SocketClose, handVars
<1>1. /\ readyState' \in [Conn -> {"new", "connecting", "open", "closing", "closed"}]
      /\ registered' \subseteq Conn
      /\ MocksInv'
  BY EndMocksIsSound DEF MocksInv, OpenMockIsCarried
<1>2. TypeOK'
  BY <1>1 DEF TypeOK
<1>3. RequestsInv'
  BY DEF TypeOK, RequestsInv, SentIsPending, PendingIsSent
<1>4. KeysInv'
  <2>1. CheckedIsBound'
    BY NoKeyAssumption DEF KeysInv, CheckedIsBound, Alone
  <2>. QED
    BY <2>1, HandshakeKeepsKeys
<1>. QED
  BY <1>1, <1>2, <1>3, <1>4

LEMMA TimerFiresIInv ==
    ASSUME IInv, TimerFires
    PROVE  IInv'
<1>. USE DEF IInv, TimerFires, kxVars, handVars, reqVars, connVars
<1>1. PICK p \in Awaitable : EnsureConnection(p)
  OBVIOUS
<1>2. TypeOK'
  BY <1>1, EnsureIsSound DEF TypeOK
<1>3. RequestsInv' /\ KeysInv'
  BY RequestsKept, KeysKept
<1>4. MocksInv'
  BY <1>1, EnsureIsSound, MocksKept
<1>. QED
  BY <1>2, <1>3, <1>4

-----------------------------------------------------------------------------
(* The handshake. *)

LEMMA QuoteRejectedIInv ==
    ASSUME IInv, NEW k \in Key, QuoteInvalid(k)
    PROVE  IInv'
<1>. USE DEF IInv, QuoteInvalid, linkVars, reqVars, connVars
<1>1. TypeOK'
  BY DEF TypeOK
<1>2. RequestsInv' /\ MocksInv'
  BY RequestsKept, MocksKept
<1>3. /\ CheckedIsBound'
      /\ \A x \in Key : kx[x] \in Verified => kx'[x] \in Verified
      /\ \A x \in Key : kx[x] = "done" => kx'[x] = "done"
  BY DEF TypeOK, Verified, KeysInv, CheckedIsBound, Alone
<1>4. KeysInv'
  BY <1>3, HandshakeKeepsKeys
<1>. QED
  BY <1>1, <1>2, <1>4

(* What the binding check lets pass is bound to the key the client holds. *)
LEMMA CheckIsSound ==
    ASSUME TypeOK, NEW k \in Key, NEW pub, NEW data, CheckBinding(k, pub, data)
    PROVE  /\ kx' = [kx EXCEPT ![k] = "refused"] \/ kx' = [kx EXCEPT ![k] = "binding"]
           /\ kx'[k] \in {"refused", "binding"}
           /\ "binding" \notin Custom /\ kx'[k] = "binding" => heard[k].quote = pub
BY DEF TypeOK, CheckBinding, Bound

LEMMA QuoteValidIInv ==
    ASSUME IInv, NEW k \in Key, QuoteValid(k)
    PROVE  IInv'
<1>. USE DEF IInv, linkVars, reqVars, connVars
<1>1. heard[k].pub \in Server \cup {NoServer} /\ heard[k].data \in Server \cup {NoServer}
  BY DEF TypeOK, Announcement
<1>2. \E v \in {"invalid", "approving", "refused", "binding"} :
        /\ kx' = [kx EXCEPT ![k] = v]
        /\ v \in Verified => symKey' = k
        /\ v = "invalid" => symKey' = symKey /\ serverKey' = serverKey
        /\ v \in Verified => serverKey' = heard[k].pub
        /\ "quote" \notin Custom => v # "approving"
        /\ "binding" \notin Custom /\ v = "binding" => heard[k].quote = heard[k].pub
  <2>1. CASE heard[k].pub = NoServer
    BY <2>1 DEF QuoteValid, Verified
  <2>2. CASE heard[k].pub # NoServer /\ "quote" \in Custom
    BY <2>2 DEF QuoteValid, Verified
  <2>3. CASE heard[k].pub # NoServer /\ "quote" \notin Custom
    <3>1. /\ symKey' = k /\ serverKey' = heard[k].pub
          /\ CheckBinding(k, heard[k].pub, bindingData')
      BY <2>3 DEF QuoteValid
    <3>. QED
      BY <3>1, CheckIsSound DEF Verified, CheckBinding, Bound
  <2>. QED
    BY <2>1, <2>2, <2>3
<1>3. PICK v \in {"invalid", "approving", "refused", "binding"} :
        /\ kx' = [kx EXCEPT ![k] = v]
        /\ v \in Verified => symKey' = k
        /\ v = "invalid" => symKey' = symKey /\ serverKey' = serverKey
        /\ v \in Verified => serverKey' = heard[k].pub
        /\ "quote" \notin Custom => v # "approving"
        /\ "binding" \notin Custom /\ v = "binding" => heard[k].quote = heard[k].pub
  BY <1>2
<1>4. /\ kx[k] = "verifying"
      /\ serverKey' \in {serverKey, heard[k].pub}
      /\ bindingData' \in {bindingData, heard[k].data}
      /\ UNCHANGED <<linkVars, settled, on, heard, timers, reqVars, connVars, toServer>>
  BY DEF QuoteValid
<1>5. symKey' = symKey \/ symKey' = k
  BY <1>3 DEF Verified
<1>6. TypeOK'
  BY <1>1, <1>3, <1>4, <1>5 DEF TypeOK
<1>7. RequestsInv' /\ MocksInv'
  BY <1>4, RequestsKept, MocksKept
<1>8. /\ CheckedIsBound'
      /\ \A x \in Key : kx[x] \in Verified => kx'[x] \in Verified
      /\ \A x \in Key : kx[x] = "done" => kx'[x] = "done"
      /\ symKey' = symKey \/ kx'[symKey'] \in Verified
  BY <1>3, <1>4, NoKeyAssumption DEF TypeOK, Verified, KeysInv, CheckedIsBound, Alone
<1>9. KeysInv'
  BY <1>4, <1>8, HandshakeKeepsKeys
<1>. QED
  BY <1>6, <1>7, <1>9

LEMMA QuoteApprovedIInv ==
    ASSUME IInv, NEW k \in Key, QuoteApproved(k)
    PROVE  IInv'
<1>. USE DEF IInv, QuoteApproved, linkVars, reqVars, connVars
<1>1. PICK v \in {"refused", "binding"} :
        /\ kx' = [kx EXCEPT ![k] = v]
        /\ "binding" \notin Custom /\ v = "binding" => heard[k].quote = serverKey
  BY CheckIsSound DEF TypeOK
<1>2. TypeOK'
  BY <1>1 DEF TypeOK
<1>3. RequestsInv' /\ MocksInv'
  BY RequestsKept, MocksKept
<1>4. /\ "quote" \in Custom
      /\ symKey = k => serverKey = heard[k].pub
  BY DEF KeysInv, CheckedIsBound
<1>5. /\ CheckedIsBound'
      /\ \A x \in Key : kx[x] \in Verified => kx'[x] \in Verified
      /\ \A x \in Key : kx[x] = "done" => kx'[x] = "done"
  BY <1>1, <1>4 DEF TypeOK, Verified, KeysInv, CheckedIsBound, Alone
<1>6. KeysInv'
  BY <1>5, HandshakeKeepsKeys
<1>. QED
  BY <1>2, <1>3, <1>6

LEMMA BindingCheckedIInv ==
    ASSUME IInv, NEW k \in Key, BindingChecked(k)
    PROVE  IInv'
<1>. USE DEF IInv, BindingChecked, reqVars, connVars
<1>1. ClientKx(k) \in ClientMsg
  BY DEF ClientKx, ClientMsg
<1>2. ws \in Socket \/ ~Usable
  BY DEF Usable, TypeOK
<1>3. TypeOK'
  <2>1. toServer' \in [Socket -> Seq(ClientMsg)]
    BY <1>1, <1>2 DEF TypeOK
  <2>2. settled' \in [Socket -> {"pending", "resolved", "rejected"}]
    BY ZenonT(40) DEF TypeOK
  <2>3. kx' \in [Key -> {"idle", "verifying", "invalid", "approving", "binding",
                         "refused", "done"}]
    BY DEF TypeOK
  <2>. QED
    BY <2>1, <2>2, <2>3 DEF TypeOK
<1>4. RequestsInv' /\ MocksInv'
  BY RequestsKept, MocksKept
<1>5. /\ \A x \in Key : kx[x] \in Verified => kx'[x] \in Verified
      /\ \A x \in Key : kx[x] = "done" => kx'[x] = "done"
  BY DEF TypeOK, Verified
<1>6. SentIsFounded'
  <2>1. \A m \in ClientMsg : Founded(m) => Founded(m)'
    BY <1>5, FoundedKept
  <2>2. Founded(ClientKx(k))'
    BY DEF TypeOK, Founded, ClientKx
  <2>3. ASSUME NEW x \in Socket, NEW i \in 1..Len(toServer'[x])
        PROVE  \/ i \in 1..Len(toServer[x]) /\ toServer'[x][i] = toServer[x][i]
               \/ toServer'[x][i] = ClientKx(k)
    <3>1. CASE ~Usable
      BY <3>1 DEF TypeOK
    <3>2. CASE Usable
      BY <1>1, <1>2, <3>2 DEF TypeOK
    <3>. QED
      BY <3>1, <3>2
  <2>4. \A x \in Socket : \A i \in 1..Len(toServer[x]) :
           toServer[x][i] \in ClientMsg /\ Founded(toServer[x][i])
    BY DEF TypeOK, KeysInv, SentIsFounded
  <2>. QED
    BY <2>1, <2>2, <2>3, <2>4 DEF SentIsFounded
<1>7. KeyIsVerified' /\ CheckedIsBound'
  BY <1>5 DEF TypeOK, KeysInv, KeyIsVerified, CheckedIsBound, Alone
<1>8. KeysInv'
  BY <1>6, <1>7 DEF KeysInv
<1>. QED
  BY <1>3, <1>4, <1>8

-----------------------------------------------------------------------------
(* Messages from the server. *)

LEMMA HttpResponseIInv ==
    ASSUME IInv, NEW r \in Req, NEW ok \in BOOLEAN, HandleHttpResponse(r, ok)
    PROVE  IInv'
<1>. USE DEF IInv, HandleHttpResponse, linkVars, kxVars, handVars, connVars
<1>1. TypeOK'
  BY DEF TypeOK
<1>2. RequestsInv'
  BY DEF TypeOK, RequestsInv, SentIsPending, PendingIsSent
<1>3. MocksInv' /\ KeysInv'
  BY MocksKept, KeysKept
<1>. QED
  BY <1>1, <1>2, <1>3

LEMMA HandleOpenIInv ==
    ASSUME IInv, NEW s \in Socket, rs[s] = "open", NEW c \in registered, HandleOpen(c)
    PROVE  IInv'
<1>. USE DEF IInv, HandleOpen, linkVars, kxVars, handVars, reqVars
<1>. DEFINE bodies == [i \in 1..Len(queue[c]) |-> WsMessage(c, queue[c][i])]
<1>1. c \in Conn
  BY DEF TypeOK
<1>2. bodies \in Seq(ClientBody)
  <2>1. queue[c] \in Seq(Data)
    BY <1>1 DEF TypeOK
  <2>2. \A i \in 1..Len(queue[c]) : WsMessage(c, queue[c][i]) \in ClientBody
    BY <1>1, <2>1, BodiesAreTyped
  <2>. QED
    BY <2>1, <2>2
<1>3. toServer' \in [Socket -> Seq(ClientMsg)] /\ KeysInv'
  <2>1. TrySend(bodies)
    OBVIOUS
  <2>. HIDE DEF bodies
  <2>. QED
    BY <1>2, <2>1, TrySendIsSound
<1>4. TypeOK'
  BY <1>1, <1>3 DEF TypeOK
<1>5. MocksInv'
  <2>1. RegisteredIsActive'
    BY DEF TypeOK, MocksInv, RegisteredIsActive
  <2>2. OpenMockIsCarried'
    BY DEF OpenMockIsCarried, Present
  <2>. QED
    BY <2>1, <2>2 DEF MocksInv
<1>6. RequestsInv'
  BY RequestsKept
<1>. QED
  BY <1>3, <1>4, <1>5, <1>6

LEMMA HandleCloseIInv ==
    ASSUME IInv, NEW s \in Socket, rs[s] = "open", NEW c \in registered, HandleClose(c)
    PROVE  IInv'
<1>. USE DEF IInv, HandleClose, linkVars, kxVars, handVars, reqVars
<1>1. TypeOK'
  BY DEF TypeOK
<1>2. RegisteredIsActive'
  BY DEF TypeOK, MocksInv, RegisteredIsActive
<1>3. OpenMockIsCarried'
  BY DEF OpenMockIsCarried, Present
<1>4. RequestsInv' /\ KeysInv'
  BY RequestsKept, KeysKept
<1>. QED
  BY <1>1, <1>2, <1>3, <1>4 DEF MocksInv

LEMMA HandleMessageIInv ==
    ASSUME IInv, NEW c \in Conn, NEW d \in Data, HandleMessage(c, d)
    PROVE  IInv'
<1>. USE DEF IInv, HandleMessage, linkVars, kxVars, handVars, reqVars
<1>1. TypeOK'
  BY DEF TypeOK
<1>2. RequestsInv' /\ KeysInv' /\ MocksInv'
  BY RequestsKept, KeysKept, MocksKept
<1>. QED
  BY <1>1, <1>2

LEMMA StutterIInv ==
    ASSUME IInv, UNCHANGED vars
    PROVE  IInv'
<1>. USE DEF IInv, vars
<1>1. TypeOK'
  BY DEF TypeOK
<1>2. RequestsInv' /\ KeysInv' /\ MocksInv'
  BY RequestsKept, KeysKept, MocksKept
<1>. QED
  BY <1>1, <1>2

LEMMA DispatchIInv ==
    ASSUME IInv, NEW s \in Socket, rs[s] = "open", NEW b \in ServerBody, Dispatch(b)
    PROVE  IInv'
<1>1. CASE b.type = "http_response" /\ HandleHttpResponse(b.id, b.ok)
  <2>1. b.id \in Req /\ b.ok \in BOOLEAN
    BY <1>1 DEF ServerBody, WsEvents, WsMessages
  <2>. QED
    BY <1>1, <2>1, HttpResponseIInv
<1>2. CASE b.id \in registered /\ HandleOpen(b.id)
  BY <1>2, HandleOpenIInv
<1>3. CASE b.id \in registered /\ HandleClose(b.id)
  BY <1>3, HandleCloseIInv
<1>4. CASE b.type = "ws_message" /\ HandleMessage(b.id, b.data)
  <2>1. b.id \in Conn /\ b.data \in Data
    BY <1>4 DEF ServerBody, WsEvents, WsMessages
  <2>. QED
    BY <1>4, <2>1, HandleMessageIInv
<1>5. CASE NoEffect(b)
  BY <1>5, StutterIInv DEF NoEffect
<1>. QED
  BY <1>1, <1>2, <1>3, <1>4, <1>5 DEF Dispatch

LEMMA ServerSendsIInv ==
    ASSUME IInv, NEW s \in Socket, ServerSends(s)
    PROVE  IInv'
<1>1. PICK m \in ServerMsg : Receive(s, m)
  BY DEF ServerSends
<1>2. CASE m.type = "server_kx" /\ ReceiveServerKx(s, m)
  <2>. USE DEF IInv, linkVars, reqVars, connVars
  <2>1. CASE m.quote = NoServer
    BY <1>2, <2>1, StutterIInv DEF ReceiveServerKx
  <2>2. ASSUME NEW k \in Key, kx[k] = "idle",
               kx' = [kx EXCEPT ![k] = "verifying"],
               on' = [on EXCEPT ![k] = s],
               heard' = [heard EXCEPT ![k] = m],
               UNCHANGED <<linkVars, settled, symKey, serverKey, bindingData, timers,
                           reqVars, connVars, toServer>>
        PROVE  IInv'
    <3>1. m \in Announcement
      BY <1>2 DEF ServerMsg
    <3>2. TypeOK'
      BY <2>2, <3>1 DEF TypeOK
    <3>3. /\ CheckedIsBound'
          /\ \A x \in Key : kx[x] \in Verified => kx'[x] \in Verified
          /\ \A x \in Key : kx[x] = "done" => kx'[x] = "done"
      BY <2>2 DEF TypeOK, Verified, KeysInv, CheckedIsBound, Alone
    <3>4. KeysInv'
      BY <2>2, <3>3, HandshakeKeepsKeys
    <3>5. RequestsInv' /\ MocksInv'
      BY <2>2, RequestsKept, MocksKept
    <3>. QED
      BY <3>2, <3>4, <3>5
  <2>. QED
    BY <1>2, <2>1, <2>2 DEF ReceiveServerKx
<1>3. CASE DropMessage(m)
  BY <1>3, StutterIInv DEF DropMessage
<1>4. CASE m.type = "enc" /\ Dispatch(m.body)
  <2>1. rs[s] = "open"
    BY <1>1 DEF Receive
  <2>2. m.body \in ServerBody
    BY <1>4 DEF ServerMsg, Announcement
  <2>. QED
    BY <1>4, <2>1, <2>2, DispatchIInv
<1>. QED
  BY <1>1, <1>2, <1>3, <1>4 DEF Receive

-----------------------------------------------------------------------------
(* fetch(). *)

LEMMA FetchStartIInv ==
    ASSUME IInv, NEW r \in Req, FetchStart(r)
    PROVE  IInv'
<1>. USE DEF IInv, FetchStart, kxVars, handVars, connVars
<1>1. PICK p \in Awaitable : EnsureConnection(p) /\ reqAwaits' = [reqAwaits EXCEPT ![r] = p]
  OBVIOUS
<1>2. TypeOK'
  BY <1>1, EnsureIsSound DEF TypeOK, Awaitable
<1>3. RequestsInv'
  BY DEF TypeOK, RequestsInv, SentIsPending, PendingIsSent
<1>4. MocksInv' /\ KeysInv'
  BY <1>1, EnsureIsSound, MocksKept, KeysKept
<1>. QED
  BY <1>2, <1>3, <1>4

LEMMA FetchSendIInv ==
    ASSUME IInv, NEW r \in Req, FetchSend(r)
    PROVE  IInv'
<1>. USE DEF IInv, FetchSend, linkVars, kxVars, handVars, connVars
<1>1. <<HttpRequest(r)>> \in Seq(ClientBody)
  BY BodiesAreTyped
<1>2. toServer' \in [Socket -> Seq(ClientMsg)] /\ KeysInv'
  BY <1>1, TrySendIsSound
<1>3. TypeOK'
  BY <1>2 DEF TypeOK
<1>4. RequestsInv'
  BY DEF TypeOK, RequestsInv, SentIsPending, PendingIsSent
<1>5. MocksInv'
  BY MocksKept
<1>. QED
  BY <1>2, <1>3, <1>4, <1>5

(* A fetch is rejected before it was sent, or by its timer. *)
LEMMA FetchRejectedIInv ==
    ASSUME IInv, NEW r \in Req, FetchFails(r) \/ FetchTimeout(r)
    PROVE  IInv'
<1>1. /\ req' = [req EXCEPT ![r] = "rejected"]
      /\ pending' \subseteq pending
      /\ \A x \in Req : x # r => (x \in pending' <=> x \in pending)
  BY DEF FetchFails, FetchTimeout
<1>2. UNCHANGED <<linkVars, kxVars, timers, reqAwaits, connVars, toServer>>
  BY DEF FetchFails, FetchTimeout
<1>3. TypeOK'
  <2>1. req' \in [Req -> {"new", "waiting", "sent", "resolved", "rejected"}]
        /\ pending' \subseteq Req
    BY <1>1 DEF IInv, TypeOK
  <2>. QED
    BY <1>2, <2>1 DEF IInv, TypeOK, linkVars, kxVars, handVars, connVars
<1>4. RequestsInv'
  BY <1>1 DEF IInv, TypeOK, RequestsInv, SentIsPending, PendingIsSent
<1>5. MocksInv'
  BY <1>2, MocksKept DEF IInv, linkVars, connVars
<1>6. KeysInv'
  BY <1>2, KeysKept DEF IInv, linkVars, kxVars, handVars
<1>. QED
  BY <1>3, <1>4, <1>5, <1>6 DEF IInv

-----------------------------------------------------------------------------
(* Mock WebSockets. *)

LEMMA NewWebSocketIInv ==
    ASSUME IInv, NEW c \in Conn, NewWebSocket(c)
    PROVE  IInv'
<1>. USE DEF IInv, NewWebSocket, kxVars, handVars, reqVars
<1>1. PICK p \in Awaitable :
        EnsureConnection(p) /\ connAwaits' = [connAwaits EXCEPT ![c] = p]
  OBVIOUS
<1>2. TypeOK'
  BY <1>1, EnsureIsSound DEF TypeOK, Awaitable
<1>3. RegisteredIsActive'
  BY DEF TypeOK, MocksInv, RegisteredIsActive
<1>4. OpenMockIsCarried'
  <2>1. \A s \in Socket : rs[s] \in Present => rs'[s] \in Present
    BY <1>1, EnsureIsSound
  <2>. QED
    BY <2>1 DEF TypeOK, MocksInv, OpenMockIsCarried
<1>5. RequestsInv' /\ KeysInv'
  BY RequestsKept, KeysKept
<1>. QED
  BY <1>2, <1>3, <1>4, <1>5 DEF MocksInv

LEMMA ConnectResumeIInv ==
    ASSUME IInv, NEW c \in Conn, ConnectResume(c)
    PROVE  IInv'
<1>. USE DEF IInv, ConnectResume, linkVars, kxVars, handVars, reqVars
<1>1. <<WsConnect(c)>> \in Seq(ClientBody)
  BY BodiesAreTyped
<1>2. toServer' \in [Socket -> Seq(ClientMsg)] /\ KeysInv'
  <2>1. CASE TrySend(<<WsConnect(c)>>)
    BY <1>1, <2>1, TrySendIsSound
  <2>2. CASE UNCHANGED toServer
    BY <2>2, KeysKept DEF TypeOK
  <2>. QED
    BY <2>1, <2>2
<1>3. TypeOK'
  BY <1>2 DEF TypeOK
<1>4. RequestsInv' /\ MocksInv'
  BY RequestsKept, MocksKept
<1>. QED
  BY <1>2, <1>3, <1>4

LEMMA MockSendIInv ==
    ASSUME IInv, NEW c \in Conn, MockSend(c)
    PROVE  IInv'
<1>. USE DEF IInv, MockSend, linkVars, kxVars, handVars, reqVars
<1>. DEFINE d == nsent[c] + 1
<1>1. d \in Data /\ d \in 0..MaxSend
  BY DataAssumption DEF TypeOK
<1>2. <<WsMessage(c, d)>> \in Seq(ClientBody)
  BY <1>1, BodiesAreTyped
<1>3. toServer' \in [Socket -> Seq(ClientMsg)] /\ KeysInv'
  <2>1. CASE TrySend(<<WsMessage(c, d)>>)
    BY <1>2, <2>1, TrySendIsSound
  <2>2. CASE UNCHANGED toServer
    BY <2>2, KeysKept DEF TypeOK
  <2>. QED
    BY <2>1, <2>2
<1>4. queue' \in [Conn -> Seq(Data)]
  <2>1. queue[c] \in Seq(Data)
    BY DEF TypeOK
  <2>2. Append(queue[c], d) \in Seq(Data)
    BY <1>1, <2>1
  <2>3. queue' = [queue EXCEPT ![c] = Append(@, d)] \/ queue' = queue
    OBVIOUS
  <2>. HIDE DEF MockSend, d
  <2>. QED
    BY <2>2, <2>3 DEF TypeOK
<1>5. TypeOK'
  BY <1>1, <1>3, <1>4 DEF TypeOK
<1>6. RequestsInv' /\ MocksInv'
  BY RequestsKept, MocksKept
<1>. QED
  BY <1>3, <1>5, <1>6

LEMMA MockCloseIInv ==
    ASSUME IInv, NEW c \in Conn, MockClose(c)
    PROVE  IInv'
<1>. USE DEF IInv, MockClose, linkVars, kxVars, handVars, reqVars
<1>1. <<WsClose(c)>> \in Seq(ClientBody)
  BY BodiesAreTyped
<1>2. toServer' \in [Socket -> Seq(ClientMsg)] /\ KeysInv'
  BY <1>1, TrySendIsSound
<1>3. TypeOK'
  BY <1>2 DEF TypeOK
<1>4. MocksInv'
  BY ZenonT(40) DEF TypeOK, MocksInv, RegisteredIsActive, OpenMockIsCarried
<1>5. RequestsInv'
  BY RequestsKept
<1>. QED
  BY <1>2, <1>3, <1>4, <1>5

-----------------------------------------------------------------------------
(* What was sent is taken, or lost. *)
LEMMA TakeIInv ==
    ASSUME IInv, NEW s \in Socket, Take(s) \/ Lose(s)
    PROVE  IInv'
<1>. USE DEF IInv
<1>. DEFINE left == IF Take(s) THEN Tail(toServer[s]) ELSE <<>>
<1>1. /\ toServer[s] # <<>>
      /\ toServer' = [toServer EXCEPT ![s] = left]
      /\ UNCHANGED <<linkVars, kxVars, timers, reqVars, connVars>>
  BY DEF Take, Lose
<1>2. toServer[s] \in Seq(ClientMsg)
  BY DEF TypeOK
<1>3. /\ left \in Seq(ClientMsg)
      /\ \A i \in 1..Len(left) : \E j \in 1..Len(toServer[s]) : left[i] = toServer[s][j]
  <2>1. /\ Tail(toServer[s]) \in Seq(ClientMsg)
        /\ \A i \in 1..Len(Tail(toServer[s])) :
              i + 1 \in 1..Len(toServer[s]) /\ Tail(toServer[s])[i] = toServer[s][i + 1]
    BY <1>1, <1>2
  <2>2. CASE Take(s)
    BY <2>1, <2>2
  <2>3. CASE ~Take(s)
    BY <2>3
  <2>. QED
    BY <2>2, <2>3
<1>. HIDE DEF left
<1>4. TypeOK'
  BY <1>1, <1>3 DEF TypeOK, linkVars, kxVars, handVars, reqVars, connVars
<1>5. KeysInv'
  <2>1. ASSUME NEW x \in Socket, NEW i \in 1..Len(toServer'[x])
        PROVE  \E j \in 1..Len(toServer[x]) : toServer'[x][i] = toServer[x][j]
    BY <1>1, <1>3 DEF TypeOK
  <2>2. SentIsFounded'
    BY <1>1, <2>1 DEF KeysInv, SentIsFounded, Founded, kxVars, handVars
  <2>. QED
    BY <1>1, <2>2 DEF KeysInv, KeyIsVerified, CheckedIsBound, Alone, kxVars, handVars
<1>6. RequestsInv' /\ MocksInv'
  BY <1>1, RequestsKept, MocksKept DEF linkVars, reqVars, connVars
<1>. QED
  BY <1>4, <1>5, <1>6

-----------------------------------------------------------------------------
LEMMA NextIInv ==
    ASSUME IInv, [Next]_vars
    PROVE  IInv'
<1>1. ASSUME NEW s \in Socket, SocketEvent(s)
      PROVE  IInv'
  BY <1>1, SocketOpenIInv, SocketErrorIInv, SocketCloseIInv DEF SocketEvent
<1>2. ASSUME NEW k \in Key, Handshake(k)
      PROVE  IInv'
  BY <1>2, QuoteRejectedIInv, QuoteValidIInv, QuoteApprovedIInv, BindingCheckedIInv
     DEF Handshake
<1>3. ASSUME NEW s \in Socket, ServerSends(s) \/ Take(s) \/ Lose(s)
      PROVE  IInv'
  BY <1>3, ServerSendsIInv, TakeIInv
<1>4. ASSUME NEW r \in Req, Fetch(r)
      PROVE  IInv'
  BY <1>4, FetchStartIInv, FetchSendIInv, FetchRejectedIInv DEF Fetch
<1>5. ASSUME NEW c \in Conn, MockWebSocket(c)
      PROVE  IInv'
  BY <1>5, NewWebSocketIInv, ConnectResumeIInv, MockSendIInv, MockCloseIInv
     DEF MockWebSocket
<1>6. CASE TimerFires
  BY <1>6, TimerFiresIInv
<1>7. CASE UNCHANGED vars
  BY <1>7, StutterIInv
<1>. QED
  BY <1>1, <1>2, <1>3, <1>4, <1>5, <1>6, <1>7 DEF Next

(* The inductive invariant holds in every reachable state.                 *)
THEOREM Invariance == Spec => []IInv
BY InitIInv, NextIInv, PTL DEF Spec

(* Every variable of the client keeps its type, whatever the server sends. *)
THEOREM TypeCorrect == Spec => []TypeOK
<1>1. IInv => TypeOK
  BY DEF IInv
<1>. QED
  BY <1>1, Invariance, PTL

(* A request that went out and has no answer is in pendingRequests         *)
(* (client.ts:594-616), so its response, its timer and a disconnect find   *)
(* it.                                                                     *)
THEOREM SentArePending == Spec => []SentIsPending
<1>1. IInv => SentIsPending
  BY DEF IInv, RequestsInv
<1>. QED
  BY <1>1, Invariance, PTL

(* The mocks in webSocketConnections are those that are CONNECTING or      *)
(* OPEN, but for those whose onclose threw.                                *)
THEOREM RegisteredAreActive == Spec => []RegisteredIsActive
<1>1. IInv => RegisteredIsActive
  BY DEF IInv, MocksInv
<1>. QED
  BY <1>1, Invariance, PTL

(* An OPEN mock has a control socket that has not finished closing, unless *)
(* an onclose threw while the others were being told (client.ts:132-152).  *)
THEOREM OpenMocksHaveTunnel == Spec => []OpenMockHasTunnel
BY CarriedImplies, Invariance, PTL

(* Nothing is sealed with a key before the quote of its handshake was      *)
(* verified, and a key is handed over only after a binding check           *)
(* (client.ts:223-340), whatever and however often servers announce.       *)
(* Unless the application checks the binding itself, the quote of that     *)
(* handshake is bound to the key it was sealed for; where customVerifyQuote*)
(* is awaited this is so of the key in use, and need not be of a key that  *)
(* an overlapping handshake has replaced: HandedOverIsBound does not hold. *)
THEOREM KeysFollowVerifications == Spec => []KeysFollowVerification
BY FoundedImplies, Invariance, PTL

-----------------------------------------------------------------------------
(* A fetch settles once: its late response, its timer and a disconnect all *)
(* look at pendingRequests, where only requests not yet resolved are.      *)
THEOREM FetchSettlesOnce == Spec => SettledOnce
<1>1. ASSUME IInv, [Next]_vars, NEW r \in Req, req[r] \in {"resolved", "rejected"}
      PROVE  req'[r] = req[r]
  <2>0. req \in [Req -> {"new", "waiting", "sent", "resolved", "rejected"}]
    BY <1>1 DEF IInv, TypeOK
  <2>1. ASSUME NEW s \in Socket, SocketEvent(s)
        PROVE  req'[r] = req[r]
    <3>1. r \in pending => req[r] = "rejected"
      BY <1>1 DEF IInv, RequestsInv, PendingIsSent
    <3>. QED
      BY <2>1, <3>1 DEF SocketEvent, SocketOpen, SocketError, SocketClosing,
                        SocketClose, reqVars
  <2>2. ASSUME NEW s \in Socket, Take(s) \/ Lose(s)
        PROVE  req'[r] = req[r]
    BY <2>2 DEF Take, Lose, reqVars
  <2>7. ASSUME NEW k \in Key, Handshake(k)
        PROVE  req'[r] = req[r]
    BY <2>7 DEF Handshake, QuoteInvalid, QuoteValid, QuoteApproved, BindingChecked, reqVars
  <2>3. ASSUME NEW s \in Socket, ServerSends(s)
        PROVE  req'[r] = req[r]
    <3>1. PICK m \in ServerMsg : Receive(s, m)
      BY <2>3 DEF ServerSends
    <3>2. CASE Dispatch(m.body)
      <4>1. ASSUME NEW q, NEW ok, HandleHttpResponse(q, ok)
            PROVE  req'[r] = req[r]
        BY <1>1, <2>0, <4>1 DEF HandleHttpResponse
      <4>2. ASSUME NEW c, NEW d, HandleOpen(c) \/ HandleClose(c) \/ HandleMessage(c, d)
            PROVE  req'[r] = req[r]
        BY <4>2 DEF HandleOpen, HandleClose, HandleMessage, reqVars
      <4>3. NoEffect(m.body) => req'[r] = req[r]
        BY DEF NoEffect, vars
      <4>. QED
        BY <3>2, <4>1, <4>2, <4>3 DEF Dispatch
    <3>. QED
      BY <3>1, <3>2 DEF Receive, ReceiveServerKx, DropMessage, reqVars, vars
  <2>4. ASSUME NEW q \in Req, Fetch(q)
        PROVE  req'[r] = req[r]
    BY <1>1, <2>0, <2>4 DEF Fetch, FetchStart, FetchSend, FetchFails, FetchTimeout
  <2>5. ASSUME NEW c \in Conn, MockWebSocket(c)
        PROVE  req'[r] = req[r]
    BY <2>5 DEF MockWebSocket, NewWebSocket, ConnectResume, MockSend, MockClose, reqVars
  <2>6. CASE TimerFires \/ UNCHANGED vars
    BY <2>6 DEF TimerFires, reqVars, vars
  <2>. QED
    BY <1>1, <2>1, <2>2, <2>3, <2>4, <2>5, <2>6, <2>7 DEF Next
<1>2. IInv /\ [Next]_vars =>
        \A r \in Req : req[r] \in {"resolved", "rejected"} => req'[r] = req[r]
  BY <1>1
<1>. QED
  BY <1>2, Invariance, PTL DEF Spec, SettledOnce

(* A mock that is CLOSING or CLOSED never opens again, unless its onclose  *)
(* threw: what the tunnel reports reaches registered mocks only.           *)
THEOREM MocksCloseForGood == Spec => ClosedForGood
<1>1. ASSUME IInv, [Next]_vars, NEW c \in Conn \ OncloseThrows, readyState[c] \in {"closing", "closed"}
      PROVE  readyState'[c] \in {"closing", "closed"}
  <2>0. /\ readyState \in [Conn -> {"new", "connecting", "open", "closing", "closed"}]
        /\ c \notin registered
    BY <1>1 DEF IInv, TypeOK, MocksInv, RegisteredIsActive
  <2>1. ASSUME NEW s \in Socket, SocketEvent(s)
        PROVE  readyState'[c] \in {"closing", "closed"}
    <3>1. EndMocks => readyState'[c] \in {"closing", "closed"}
      BY <1>1, <2>0 DEF EndMocks
    <3>. QED
      BY <1>1, <2>1, <3>1 DEF SocketEvent, SocketOpen, SocketError, SocketClosing,
                              SocketClose, connVars
  <2>2. ASSUME NEW s \in Socket, Take(s) \/ Lose(s)
        PROVE  readyState'[c] \in {"closing", "closed"}
    BY <1>1, <2>2 DEF Take, Lose, connVars
  <2>7. ASSUME NEW k \in Key, Handshake(k)
        PROVE  readyState'[c] \in {"closing", "closed"}
    BY <1>1, <2>7 DEF Handshake, QuoteInvalid, QuoteValid, QuoteApproved, BindingChecked,
                      connVars
  <2>3. ASSUME NEW s \in Socket, ServerSends(s)
        PROVE  readyState'[c] \in {"closing", "closed"}
    <3>1. PICK m \in ServerMsg : Receive(s, m)
      BY <2>3 DEF ServerSends
    <3>2. CASE Dispatch(m.body)
      <4>1. ASSUME NEW x \in registered, HandleOpen(x) \/ HandleClose(x)
            PROVE  readyState'[c] \in {"closing", "closed"}
        BY <1>1, <2>0, <4>1 DEF HandleOpen, HandleClose
      <4>2. ASSUME NEW x, NEW y, HandleHttpResponse(x, y) \/ HandleMessage(x, y)
            PROVE  readyState'[c] \in {"closing", "closed"}
        BY <1>1, <4>2 DEF HandleHttpResponse, HandleMessage, connVars
      <4>3. NoEffect(m.body) => readyState' = readyState
        BY DEF NoEffect, vars
      <4>. QED
        BY <1>1, <3>2, <4>1, <4>2, <4>3 DEF Dispatch
    <3>. QED
      BY <1>1, <3>1, <3>2 DEF Receive, ReceiveServerKx, DropMessage, connVars, vars
  <2>4. ASSUME NEW q \in Req, Fetch(q)
        PROVE  readyState'[c] \in {"closing", "closed"}
    BY <1>1, <2>4 DEF Fetch, FetchStart, FetchSend, FetchFails, FetchTimeout, connVars
  <2>5. ASSUME NEW x \in Conn, MockWebSocket(x)
        PROVE  readyState'[c] \in {"closing", "closed"}
    BY <1>1, <2>0, <2>5 DEF MockWebSocket, NewWebSocket, ConnectResume, MockSend, MockClose
  <2>6. CASE TimerFires \/ UNCHANGED vars
    BY <1>1, <2>6 DEF TimerFires, connVars, vars
  <2>. QED
    BY <1>1, <2>1, <2>2, <2>3, <2>4, <2>5, <2>6, <2>7 DEF Next
<1>2. IInv /\ [Next]_vars =>
        \A c \in Conn \ OncloseThrows : readyState[c] \in {"closing", "closed"} =>
                                        readyState'[c] \in {"closing", "closed"}
  BY <1>1
<1>. QED
  BY <1>2, Invariance, PTL DEF Spec, ClosedForGood

-----------------------------------------------------------------------------
(***************************************************************************)
(* What TunnelClient starts it starts once: the http_request of a fetch()  *)
(* and the ws_connect of a mock WebSocket leave at most once, over         *)
(* whichever control socket is current then.                               *)
(***************************************************************************)

Places(s) == 1..Len(toServer[s])

Carries(s, i, b) == toServer[s][i].type = "enc" /\ toServer[s][i].body = b

InFlight(b) == \E s \in Socket : \E i \in Places(s) : Carries(s, i, b)

AtMostOnce(b) ==
    \A s, t \in Socket : \A i \in Places(s), j \in Places(t) :
        Carries(s, i, b) /\ Carries(t, j, b) => s = t /\ i = j

(* The messages that start something, and those that have yet to leave. *)
Starts == {HttpRequest(r) : r \in Req} \cup {WsConnect(c) : c \in Conn}

Unsent(b) ==
    \/ \E r \in Req : b = HttpRequest(r) /\ req[r] \in {"new", "waiting"}
    \/ \E c \in Conn : b = WsConnect(c) /\ connect[c] \in {"none", "awaiting"}

NewIsUnconnected == \A c \in Conn : readyState[c] = "new" => connect[c] = "none"

StartsOnce ==
    /\ NewIsUnconnected
    /\ \A b \in Starts : AtMostOnce(b) /\ (Unsent(b) => ~InFlight(b))

(* b may yet reach the server. *)
Due(b) == Unsent(b) \/ InFlight(b)

(* In a step no b comes into flight: each was there, n[s] places behind. *)
NothingNew(b) ==
    \E n \in [Socket -> Nat] : \A s \in Socket : \A i \in Places(s)' :
        Carries(s, i, b)' => i + n[s] \in Places(s) /\ Carries(s, i + n[s], b)

LEMMA InitStarts == Init => StartsOnce
BY DEF Init, StartsOnce, NewIsUnconnected, AtMostOnce, InFlight, Places

LEMMA NothingNewKeeps ==
    ASSUME NEW b, NothingNew(b)
    PROVE  /\ InFlight(b)' => InFlight(b)
           /\ AtMostOnce(b) => AtMostOnce(b)'
<1>1. PICK n \in [Socket -> Nat] : \A s \in Socket : \A i \in Places(s)' :
        Carries(s, i, b)' => i + n[s] \in Places(s) /\ Carries(s, i + n[s], b)
  BY DEF NothingNew
<1>2. InFlight(b)' => InFlight(b)
  BY <1>1 DEF InFlight
<1>3. ASSUME AtMostOnce(b), NEW s \in Socket, NEW t \in Socket,
             NEW i \in Places(s)', NEW j \in Places(t)',
             Carries(s, i, b)', Carries(t, j, b)'
      PROVE  s = t /\ i = j
  <2>1. s = t /\ i + n[s] = j + n[t]
    BY <1>1, <1>3 DEF AtMostOnce
  <2>2. i \in Nat /\ j \in Nat /\ n[s] \in Nat
    BY <1>1 DEF Places
  <2>. QED
    BY <2>1, <2>2
<1>4. AtMostOnce(b) => AtMostOnce(b)'
  BY <1>3 DEF AtMostOnce
<1>. QED
  BY <1>2, <1>4

-----------------------------------------------------------------------------
(* The ways in which toServer changes. *)

LEMMA QuietUplink ==
    ASSUME UNCHANGED toServer
    PROVE  \A b : NothingNew(b)
<1>. DEFINE n == [s \in Socket |-> 0]
<1>1. n \in [Socket -> Nat]
  OBVIOUS
<1>2. \A b : \A s \in Socket : \A i \in Places(s)' :
        Carries(s, i, b)' => i + n[s] \in Places(s) /\ Carries(s, i + n[s], b)
  BY DEF Places, Carries
<1>. QED
  BY <1>1, <1>2 DEF NothingNew

LEMMA TakenUplink ==
    ASSUME TypeOK, NEW s \in Socket, Take(s) \/ Lose(s)
    PROVE  \A b : NothingNew(b)
<1>. DEFINE n == [x \in Socket |-> IF x = s THEN 1 ELSE 0]
<1>1. n \in [Socket -> Nat]
  OBVIOUS
<1>2. toServer \in [Socket -> Seq(ClientMsg)]
  BY DEF TypeOK
<1>3. ASSUME NEW x \in Socket, NEW i \in Places(x)'
      PROVE  i + n[x] \in Places(x) /\ toServer'[x][i] = toServer[x][i + n[x]]
  <2>1. CASE x # s
    BY <1>2, <2>1 DEF Take, Lose, Places
  <2>2. CASE x = s /\ Take(s)
    BY <1>2, <2>2 DEF Take, Places
  <2>3. CASE x = s /\ Lose(s)
    BY <1>2, <2>3 DEF Lose, Places
  <2>. QED
    BY <2>1, <2>2, <2>3
<1>. QED
  BY <1>1, <1>3 DEF NothingNew, Carries

(* Place i of x holds what it held, or an element of out, sent on w. *)
Older(x, i) == i \in Places(x) /\ toServer'[x][i] = toServer[x][i]

Newer(x, i, w, out) ==
    /\ x = w
    /\ \E k \in 1..Len(out) : i = Len(toServer[w]) + k /\ toServer'[x][i] = out[k]

LEMMA AppendedUplink ==
    ASSUME TypeOK, NEW w \in Socket, NEW out \in Seq(ClientMsg),
           toServer' = [toServer EXCEPT ![w] = @ \o out]
    PROVE  \A x \in Socket : \A i \in Places(x)' :
               Older(x, i) \/ Newer(x, i, w, out)
<1>1. toServer \in [Socket -> Seq(ClientMsg)]
  BY DEF TypeOK
<1>2. ASSUME NEW x \in Socket, x # w
      PROVE  toServer'[x] = toServer[x]
  BY <1>1, <1>2
<1>3. toServer'[w] = toServer[w] \o out
  BY <1>1
<1>. DEFINE p == toServer[w]
<1>4. p \in Seq(ClientMsg)
  BY <1>1
<1>5. toServer'[w] = p \o out
  BY <1>3
<1>. HIDE DEF p
<1>6. ASSUME NEW i \in 1..Len(p \o out)
      PROVE  \/ i \in 1..Len(p) /\ (p \o out)[i] = p[i]
             \/ \E k \in 1..Len(out) : i = Len(p) + k /\ (p \o out)[i] = out[k]
  <2>1. \/ i \in 1..Len(p) /\ (p \o out)[i] = p[i]
        \/ /\ i - Len(p) \in 1..Len(out) /\ i = Len(p) + (i - Len(p))
           /\ (p \o out)[i] = out[i - Len(p)]
    BY <1>4
  <2>. QED
    BY <2>1
<1>7. ASSUME NEW x \in Socket, x # w, NEW i \in Places(x)'
      PROVE  Older(x, i)
  BY <1>2, <1>7 DEF Places, Older
<1>8. ASSUME NEW i \in Places(w)'
      PROVE  Older(w, i) \/ Newer(w, i, w, out)
  <2>1. i \in 1..Len(p \o out)
    BY <1>5, <1>8 DEF Places
  <2>2. CASE i \in 1..Len(p) /\ (p \o out)[i] = p[i]
    BY <1>5, <2>2 DEF Places, p, Older
  <2>3. CASE \E k \in 1..Len(out) : i = Len(p) + k /\ (p \o out)[i] = out[k]
    BY <1>5, <2>3 DEF p, Newer
  <2>. QED
    BY <1>6, <2>1, <2>2, <2>3
<1>. QED
  BY <1>7, <1>8

LEMMA OthersUplink ==
    ASSUME TypeOK, NEW w \in Socket, NEW out \in Seq(ClientMsg), NEW b,
           toServer' = [toServer EXCEPT ![w] = @ \o out],
           \A k \in 1..Len(out) : ~ (out[k].type = "enc" /\ out[k].body = b)
    PROVE  NothingNew(b)
<1>. DEFINE n == [x \in Socket |-> 0]
<1>1. n \in [Socket -> Nat]
  OBVIOUS
<1>2. ASSUME NEW x \in Socket, NEW i \in Places(x)', Carries(x, i, b)'
      PROVE  i \in Places(x) /\ Carries(x, i, b)
  <2>1. Older(x, i) \/ Newer(x, i, w, out)
    BY AppendedUplink
  <2>2. toServer'[x][i].type = "enc" /\ toServer'[x][i].body = b
    BY <1>2 DEF Carries
  <2>. QED
    BY <2>1, <2>2 DEF Carries, Older, Newer
<1>3. \A x \in Socket : \A i \in Places(x) : i + n[x] = i
  BY DEF Places
<1>. QED
  BY <1>1, <1>2, <1>3 DEF NothingNew

(* The envelopes TrySend appends, or none. *)
LEMMA TrySendUplink ==
    ASSUME IInv, NEW bodies \in Seq(ClientBody), TrySend(bodies)
    PROVE  \/ UNCHANGED toServer
           \/ \E out \in Seq(ClientMsg) :
                 /\ Len(out) = Len(bodies) /\ ws \in Socket
                 /\ \A k \in 1..Len(out) : out[k].type = "enc" /\ out[k].body = bodies[k]
                 /\ toServer' = [toServer EXCEPT ![ws] = @ \o out]
<1>1. CASE ~CanSend
  BY <1>1 DEF TrySend
<1>2. CASE CanSend
  <2>. DEFINE out == [i \in 1..Len(bodies) |-> Enc(symKey, bodies[i])]
  <2>1. ws \in Socket /\ symKey \in Key
    BY <1>2 DEF CanSend, Usable, IInv, TypeOK
  <2>2. \A i \in 1..Len(bodies) : Enc(symKey, bodies[i]) \in ClientMsg
    BY <2>1 DEF Enc, ClientMsg
  <2>3. out \in Seq(ClientMsg) /\ Len(out) = Len(bodies)
    BY <2>2
  <2>4. \A k \in 1..Len(bodies) : out[k].type = "enc" /\ out[k].body = bodies[k]
    BY DEF Enc
  <2>5. toServer' = [toServer EXCEPT ![ws] = @ \o out]
    BY <1>2 DEF TrySend, SendAll
  <2>. HIDE DEF out
  <2>. QED
    BY <2>1, <2>3, <2>4, <2>5
<1>. QED
  BY <1>1, <1>2

LEMMA OtherBodiesUplink ==
    ASSUME IInv, NEW bodies \in Seq(ClientBody), TrySend(bodies), NEW b,
           \A k \in 1..Len(bodies) : bodies[k] # b
    PROVE  NothingNew(b)
<1>1. CASE UNCHANGED toServer
  BY <1>1, QuietUplink
<1>2. ASSUME NEW out \in Seq(ClientMsg),
             Len(out) = Len(bodies) /\ ws \in Socket,
             \A k \in 1..Len(out) : out[k].type = "enc" /\ out[k].body = bodies[k],
             toServer' = [toServer EXCEPT ![ws] = @ \o out]
      PROVE  NothingNew(b)
  <2>1. \A k \in 1..Len(out) : out[k].body # b
    BY <1>2
  <2>. QED
    BY <1>2, <2>1, OthersUplink DEF IInv
<1>. QED
  BY <1>1, <1>2, TrySendUplink

(* The first b to come into flight is the only one. *)
LEMMA FirstUplink ==
    ASSUME IInv, NEW b \in ClientBody, TrySend(<<b>>), ~InFlight(b)
    PROVE  AtMostOnce(b)'
<1>1. <<b>> \in Seq(ClientBody) /\ Len(<<b>>) = 1
  OBVIOUS
<1>2. CASE UNCHANGED toServer
  BY <1>2 DEF AtMostOnce, InFlight, Places, Carries
<1>3. ASSUME NEW out \in Seq(ClientMsg),
             Len(out) = 1 /\ ws \in Socket,
             toServer' = [toServer EXCEPT ![ws] = @ \o out]
      PROVE  AtMostOnce(b)'
  <2>1. ASSUME NEW x \in Socket, NEW i \in Places(x)', Carries(x, i, b)'
        PROVE  x = ws /\ i = Len(toServer[ws]) + 1
    <3>1. ~Older(x, i)
      BY <2>1 DEF InFlight, Carries, Older
    <3>2. Older(x, i) \/ Newer(x, i, ws, out)
      BY <1>3, AppendedUplink DEF IInv
    <3>. QED
      BY <1>3, <3>1, <3>2 DEF Newer
  <2>. QED
    BY <2>1 DEF AtMostOnce
<1>. QED
  BY <1>1, <1>2, <1>3, TrySendUplink

-----------------------------------------------------------------------------
(* Every action keeps what has left apart from what has yet to leave. *)

LEMMA StartsAreApart ==
    /\ \A r, q : HttpRequest(r) = HttpRequest(q) => r = q
    /\ \A c, d : WsConnect(c) = WsConnect(d) => c = d
    /\ \A r, c : HttpRequest(r) # WsConnect(c)
    /\ \A b \in Starts : b.type \in {"http_request", "ws_connect"} /\ b \in ClientBody
BY DEF Starts, HttpRequest, WsConnect, ClientBody

(* In a step b does not become due, or it is what leaves, once. *)
Leaves(b) == Unsent(b) /\ ~Unsent(b)' /\ AtMostOnce(b)'

KeepsApart(b) == (NothingNew(b) /\ (Unsent(b)' => Unsent(b))) \/ Leaves(b)

(* Fetches and connects that have yet to leave do not come back. *)
NoneAnew ==
    /\ \A r \in Req : req'[r] \in {"new", "waiting"} => req[r] \in {"new", "waiting"}
    /\ \A c \in Conn : connect'[c] \in {"none", "awaiting"} => connect[c] \in {"none", "awaiting"}

LEMMA QuietStarts ==
    ASSUME NoneAnew, NEW b, NothingNew(b)
    PROVE  KeepsApart(b)
BY DEF NoneAnew, KeepsApart, Unsent

LEMMA OtherStarts ==
    ASSUME IInv, NoneAnew, NEW bodies \in Seq(ClientBody), TrySend(bodies),
           \A k \in 1..Len(bodies) : bodies[k].type \in {"ws_message", "ws_close"}
    PROVE  \A b \in Starts : KeepsApart(b)
<1>. SUFFICES ASSUME NEW b \in Starts PROVE KeepsApart(b)
  OBVIOUS
<1>1. \A k \in 1..Len(bodies) : bodies[k] # b
  BY StartsAreApart
<1>. QED
  BY <1>1, OtherBodiesUplink, QuietStarts

LEMMA SocketStarts ==
    ASSUME IInv, NEW s \in Socket, SocketEvent(s) \/ Take(s) \/ Lose(s)
    PROVE  \A b \in Starts : KeepsApart(b)
<1>1. CASE SocketEvent(s)
  <2>1. NoneAnew /\ UNCHANGED toServer
    BY <1>1 DEF SocketEvent, SocketOpen, SocketError, SocketClosing, SocketClose,
                NoneAnew, reqVars, connVars
  <2>. QED
    BY <2>1, QuietUplink, QuietStarts
<1>2. CASE Take(s) \/ Lose(s)
  <2>1. NoneAnew
    BY <1>2 DEF Take, Lose, NoneAnew, reqVars, connVars
  <2>. QED
    BY <1>2, <2>1, TakenUplink, QuietStarts DEF IInv
<1>. QED
  BY <1>1, <1>2

LEMMA HandshakeStarts ==
    ASSUME IInv, NEW k \in Key, Handshake(k)
    PROVE  \A b \in Starts : KeepsApart(b)
<1>1. CASE QuoteInvalid(k) \/ QuoteValid(k) \/ QuoteApproved(k)
  <2>1. NoneAnew /\ UNCHANGED toServer
    BY <1>1 DEF QuoteInvalid, QuoteValid, QuoteApproved, NoneAnew, reqVars, connVars
  <2>. QED
    BY <2>1, QuietUplink, QuietStarts
<1>2. CASE BindingChecked(k)
  <2>1. NoneAnew
    BY <1>2 DEF BindingChecked, NoneAnew, reqVars, connVars
  <2>2. CASE ~Usable
    BY <1>2, <2>1, <2>2, QuietUplink, QuietStarts DEF BindingChecked
  <2>3. CASE Usable
    <3>1. ws \in Socket /\ toServer \in [Socket -> Seq(ClientMsg)]
      BY <2>3 DEF Usable, IInv, TypeOK
    <3>2. /\ <<ClientKx(k)>> \in Seq(ClientMsg) /\ Len(<<ClientKx(k)>>) = 1
          /\ <<ClientKx(k)>>[1].type = "client_kx"
      BY DEF ClientKx, ClientMsg
    <3>3. toServer' = [toServer EXCEPT ![ws] = Append(@, ClientKx(k))]
      BY <1>2, <2>3 DEF BindingChecked
    <3>4. Append(toServer[ws], ClientKx(k)) = toServer[ws] \o <<ClientKx(k)>>
      BY <3>1, <3>2
    <3>5. toServer' = [toServer EXCEPT ![ws] = @ \o <<ClientKx(k)>>]
      BY <3>1, <3>3, <3>4
    <3>. DEFINE out == <<ClientKx(k)>>
    <3>6. out \in Seq(ClientMsg) /\ \A i \in 1..Len(out) : out[i].type # "enc"
      BY <3>2
    <3>7. toServer' = [toServer EXCEPT ![ws] = @ \o out]
      BY <3>5
    <3>. HIDE DEF out
    <3>8. \A b : NothingNew(b)
      BY <3>1, <3>6, <3>7, OthersUplink DEF IInv
    <3>. QED
      BY <2>1, <3>8, QuietStarts
  <2>. QED
    BY <2>2, <2>3
<1>. QED
  BY <1>1, <1>2 DEF Handshake

LEMMA ReceiveStarts ==
    ASSUME IInv, NEW s \in Socket, NEW m \in ServerMsg, Receive(s, m)
    PROVE  \A b \in Starts : KeepsApart(b)
<1>. DEFINE b == m.body
<1>1. CASE ReceiveServerKx(s, m) \/ UNCHANGED vars
  <2>1. NoneAnew /\ UNCHANGED toServer
    BY <1>1 DEF ReceiveServerKx, NoneAnew, reqVars, connVars, vars
  <2>. QED
    BY <2>1, QuietUplink, QuietStarts
<1>2. CASE HandleHttpResponse(b.id, b.ok) \/ HandleClose(b.id) \/ HandleMessage(b.id, b.data)
  <2>1. NoneAnew /\ UNCHANGED toServer
    BY <1>2 DEF HandleHttpResponse, HandleClose, HandleMessage, NoneAnew, reqVars, connVars,
                IInv, TypeOK
  <2>. QED
    BY <2>1, QuietUplink, QuietStarts
<1>3. ASSUME NEW c \in Conn, HandleOpen(c)
      PROVE  \A x \in Starts : KeepsApart(x)
  <2>. DEFINE bodies == [i \in 1..Len(queue[c]) |-> WsMessage(c, queue[c][i])]
  <2>1. NoneAnew /\ TrySend(bodies)
    BY <1>3 DEF HandleOpen, NoneAnew, reqVars
  <2>2. \A d \in Data : WsMessage(c, d) \in ClientBody /\ WsMessage(c, d).type = "ws_message"
    BY DEF WsMessage, ClientBody, WsMessages
  <2>3. \A i \in 1..Len(queue[c]) : queue[c][i] \in Data
    BY DEF IInv, TypeOK
  <2>4. bodies \in Seq(ClientBody) /\ \A k \in 1..Len(bodies) : bodies[k].type = "ws_message"
    BY <2>2, <2>3 DEF IInv, TypeOK
  <2>. HIDE DEF bodies
  <2>. QED
    BY <2>1, <2>4, OtherStarts
<1>4. b.type = "ws_event" /\ b.id \in registered => b.id \in Conn
  BY DEF IInv, TypeOK
<1>. QED
  BY <1>1, <1>2, <1>3, <1>4 DEF Receive, DropMessage, Dispatch, NoEffect

LEMMA FetchStarts ==
    ASSUME IInv, StartsOnce, NEW r \in Req, Fetch(r)
    PROVE  \A b \in Starts : KeepsApart(b)
<1>1. CASE FetchStart(r) \/ FetchFails(r) \/ FetchTimeout(r)
  <2>1. NoneAnew /\ UNCHANGED toServer
    BY <1>1 DEF FetchStart, FetchFails, FetchTimeout, NoneAnew, connVars, IInv, TypeOK
  <2>. QED
    BY <2>1, QuietUplink, QuietStarts
<1>2. CASE FetchSend(r)
  <2>. DEFINE h == HttpRequest(r)
  <2>1. /\ TrySend(<<h>>) /\ req[r] = "waiting" /\ req'[r] \in {"sent", "rejected"}
        /\ NoneAnew
    BY <1>2 DEF FetchSend, NoneAnew, connVars, IInv, TypeOK
  <2>2. h \in Starts /\ h \in ClientBody /\ Unsent(h)
    BY <2>1, StartsAreApart DEF Starts, Unsent
  <2>3. ~Unsent(h)'
    BY <2>1, StartsAreApart DEF Unsent
  <2>4. Leaves(h)
    BY <2>1, <2>2, <2>3, FirstUplink DEF Leaves, StartsOnce
  <2>5. ASSUME NEW b \in Starts, b # h
        PROVE  KeepsApart(b)
    <3>1. <<h>> \in Seq(ClientBody) /\ \A k \in 1..Len(<<h>>) : <<h>>[k] # b
      BY <2>2, <2>5
    <3>. QED
      BY <2>1, <3>1, OtherBodiesUplink, QuietStarts
  <2>. QED
    BY <2>4, <2>5 DEF KeepsApart
<1>. QED
  BY <1>1, <1>2 DEF Fetch

LEMMA MockStarts ==
    ASSUME IInv, StartsOnce, NEW c \in Conn, MockWebSocket(c)
    PROVE  \A b \in Starts : KeepsApart(b)
<1>1. CASE NewWebSocket(c)
  <2>1. NoneAnew /\ UNCHANGED toServer
    BY <1>1 DEF NewWebSocket, NoneAnew, reqVars, IInv, TypeOK, StartsOnce, NewIsUnconnected
  <2>. QED
    BY <2>1, QuietUplink, QuietStarts
<1>2. CASE ConnectResume(c)
  <2>. DEFINE h == WsConnect(c)
  <2>1. /\ TrySend(<<h>>) \/ UNCHANGED toServer
        /\ connect[c] = "awaiting" /\ connect'[c] = "done" /\ NoneAnew
    BY <1>2 DEF ConnectResume, Queued, NoneAnew, reqVars, IInv, TypeOK
  <2>2. h \in Starts /\ h \in ClientBody /\ Unsent(h)
    BY <2>1, StartsAreApart DEF Starts, Unsent
  <2>3. ~Unsent(h)'
    BY <2>1, StartsAreApart DEF Unsent
  <2>4. CASE UNCHANGED toServer
    BY <2>1, <2>4, QuietUplink, QuietStarts
  <2>5. CASE TrySend(<<h>>)
    <3>1. Leaves(h)
      BY <2>2, <2>3, <2>5, FirstUplink DEF Leaves, StartsOnce
    <3>2. ASSUME NEW b \in Starts, b # h
          PROVE  KeepsApart(b)
      <4>1. <<h>> \in Seq(ClientBody) /\ \A k \in 1..Len(<<h>>) : <<h>>[k] # b
        BY <2>2, <3>2
      <4>. QED
        BY <2>1, <2>5, <4>1, OtherBodiesUplink, QuietStarts
    <3>. QED
      BY <3>1, <3>2 DEF KeepsApart
  <2>. QED
    BY <2>1, <2>4, <2>5
<1>3. CASE MockSend(c) \/ MockClose(c)
  <2>1. NoneAnew
    BY <1>3 DEF MockSend, MockClose, NoneAnew, reqVars
  <2>2. \/ UNCHANGED toServer
        \/ \E d \in Data : TrySend(<<WsMessage(c, d)>>)
        \/ TrySend(<<WsClose(c)>>)
    <3>1. CASE MockSend(c)
      <4>1. nsent[c] + 1 \in Data
        BY <3>1, DataAssumption DEF MockSend, IInv, TypeOK
      <4>. QED
        BY <3>1, <4>1 DEF MockSend
    <3>. QED
      BY <1>3, <3>1 DEF MockClose
  <2>3. ASSUME NEW b, b = WsClose(c) \/ \E d \in Data : b = WsMessage(c, d)
        PROVE  /\ <<b>> \in Seq(ClientBody)
               /\ \A k \in 1..Len(<<b>>) : <<b>>[k].type \in {"ws_message", "ws_close"}
    <3>1. b \in ClientBody /\ b.type \in {"ws_message", "ws_close"}
      BY <2>3 DEF WsClose, WsMessage, ClientBody, WsMessages
    <3>. QED
      BY <3>1
  <2>4. CASE UNCHANGED toServer
    BY <2>1, <2>4, QuietUplink, QuietStarts
  <2>5. ASSUME NEW d \in Data, TrySend(<<WsMessage(c, d)>>)
        PROVE  \A b \in Starts : KeepsApart(b)
    BY <2>1, <2>3, <2>5, OtherStarts
  <2>6. CASE TrySend(<<WsClose(c)>>)
    BY <2>1, <2>3, <2>6, OtherStarts
  <2>. QED
    BY <2>2, <2>4, <2>5, <2>6
<1>. QED
  BY <1>1, <1>2, <1>3 DEF MockWebSocket

LEMMA NextStarts ==
    ASSUME IInv, StartsOnce, [Next]_vars
    PROVE  \A b \in Starts : KeepsApart(b)
<1>1. CASE UNCHANGED vars
  <2>1. NoneAnew /\ UNCHANGED toServer
    BY <1>1 DEF vars, NoneAnew
  <2>. QED
    BY <2>1, QuietUplink, QuietStarts
<1>2. CASE TimerFires
  <2>1. NoneAnew /\ UNCHANGED toServer
    BY <1>2 DEF TimerFires, NoneAnew, reqVars, connVars
  <2>. QED
    BY <2>1, QuietUplink, QuietStarts
<1>. QED
  BY <1>1, <1>2, SocketStarts, HandshakeStarts, ReceiveStarts, FetchStarts, MockStarts
     DEF Next, ServerSends

LEMMA UnconnectedKept ==
    ASSUME IInv, NewIsUnconnected, [Next]_vars
    PROVE  NewIsUnconnected'
<1>. USE DEF NewIsUnconnected
<1>1. CASE UNCHANGED <<readyState, connect>>
  BY <1>1
<1>2. ASSUME NEW s \in Socket, SocketClose(s)
      PROVE  NewIsUnconnected'
  BY <1>2 DEF SocketClose, EndMocks, IInv, TypeOK
<1>3. ASSUME NEW s \in Socket, SocketEvent(s), ~SocketClose(s)
      PROVE  NewIsUnconnected'
  BY <1>1, <1>3 DEF SocketEvent, SocketOpen, SocketError, SocketClosing, connVars
<1>4. ASSUME NEW s \in Socket, Take(s) \/ Lose(s)
      PROVE  NewIsUnconnected'
  BY <1>1, <1>4 DEF Take, Lose, connVars
<1>9. ASSUME NEW k \in Key, Handshake(k)
      PROVE  NewIsUnconnected'
  BY <1>1, <1>9 DEF Handshake, QuoteInvalid, QuoteValid, QuoteApproved, BindingChecked,
                    connVars
<1>5. ASSUME NEW s \in Socket, ServerSends(s)
      PROVE  NewIsUnconnected'
  <2>1. PICK m \in ServerMsg : Receive(s, m)
    BY <1>5 DEF ServerSends
  <2>2. \/ UNCHANGED <<readyState, connect>>
        \/ /\ connect' = connect
           /\ \E c : readyState' = [readyState EXCEPT ![c] = "open"]
        \/ /\ connect' = connect
           /\ \E c : readyState' = [readyState EXCEPT ![c] = "closed"]
    BY <2>1 DEF Receive, ReceiveServerKx, DropMessage, Dispatch, HandleHttpResponse,
                HandleOpen, HandleClose, HandleMessage, NoEffect, connVars, vars
  <2>. QED
    BY <2>2 DEF IInv, TypeOK
<1>6. ASSUME NEW r \in Req, Fetch(r)
      PROVE  NewIsUnconnected'
  BY <1>1, <1>6 DEF Fetch, FetchStart, FetchSend, FetchFails, FetchTimeout, connVars
<1>7. ASSUME NEW c \in Conn, MockWebSocket(c)
      PROVE  NewIsUnconnected'
  BY <1>7 DEF MockWebSocket, NewWebSocket, ConnectResume, Queued, MockSend, MockClose,
              IInv, TypeOK
<1>8. CASE TimerFires
  BY <1>1, <1>8 DEF TimerFires, connVars
<1>. QED
  BY <1>1, <1>2, <1>3, <1>4, <1>5, <1>6, <1>7, <1>8, <1>9 DEF Next, vars

LEMMA StartsKept == IInv /\ StartsOnce /\ [Next]_vars => StartsOnce'
<1>. SUFFICES ASSUME IInv, StartsOnce, [Next]_vars PROVE StartsOnce'
  OBVIOUS
<1>1. NewIsUnconnected'
  BY UnconnectedKept DEF StartsOnce
<1>2. ASSUME NEW b \in Starts
      PROVE  AtMostOnce(b)' /\ (Unsent(b)' => ~InFlight(b)')
  <2>1. KeepsApart(b)
    BY NextStarts
  <2>. QED
    BY <2>1, NothingNewKeeps DEF KeepsApart, Leaves, StartsOnce
<1>. QED
  BY <1>1, <1>2 DEF StartsOnce, Starts

(* What is not due any more will not be again. *)
LEMMA DueDwindles ==
    ASSUME IInv, StartsOnce, [Next]_vars
    PROVE  \A b \in Starts : Due(b)' => Due(b)
BY NextStarts, NothingNewKeeps DEF KeepsApart, Leaves, Due

(* What the server takes is not due any more. *)
LEMMA TakenIsNotDue ==
    ASSUME IInv, StartsOnce, NEW s \in Socket, Take(s),
           NEW b \in Starts, Head(toServer[s]).type = "enc", Head(toServer[s]).body = b
    PROVE  ~Due(b)'
<1>1. toServer[s] \in Seq(ClientMsg) /\ toServer[s] # <<>> /\ toServer \in [Socket -> Seq(ClientMsg)]
  BY DEF Take, IInv, TypeOK
<1>2. 1 \in Places(s) /\ Carries(s, 1, b)
  BY <1>1 DEF Places, Carries
<1>3. ~Unsent(b)
  BY <1>2 DEF StartsOnce, InFlight
<1>4. ~Unsent(b)'
  BY <1>3 DEF Take, Unsent, reqVars, connVars
<1>5. ASSUME NEW x \in Socket, NEW i \in Places(x)', Carries(x, i, b)'
      PROVE  FALSE
  <2>1. CASE x = s
    <3>1. i + 1 \in Places(s) /\ toServer'[s][i] = toServer[s][i + 1] /\ i \in Nat /\ i > 0
      BY <1>1, <1>5, <2>1 DEF Take, Places
    <3>2. Carries(s, i + 1, b)
      BY <1>5, <2>1, <3>1 DEF Carries
    <3>3. i + 1 = 1
      BY <1>2, <3>1, <3>2 DEF StartsOnce, AtMostOnce
    <3>. QED
      BY <3>1, <3>3
  <2>2. CASE x # s
    <3>1. i \in Places(x) /\ Carries(x, i, b)
      BY <1>1, <1>5, <2>2 DEF Take, Places, Carries
    <3>. QED
      BY <1>2, <2>2, <3>1 DEF StartsOnce, AtMostOnce
  <2>. QED
    BY <2>1, <2>2
<1>. QED
  BY <1>4, <1>5 DEF Due, InFlight

(***************************************************************************)
(* The http_request of a fetch() and the ws_connect of a mock leave at     *)
(* most once, over all control sockets (client.ts:595-616,                 *)
(* ClientRAWebSocket.ts:75-90).                                            *)
(***************************************************************************)
THEOREM StartsLeaveOnce == Spec => []StartsOnce
BY InitStarts, StartsKept, Invariance, PTL DEF Spec

=============================================================================
