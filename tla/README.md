# Verification of the TEE tunnel

TLA+ models, TLC runs and TLAPS proofs about the packages of this repository,
above all `packages/tunnel`: a client and a server that open an encrypted
channel over one WebSocket after a remote attestation, and tunnel HTTP requests
and WebSockets through it. Paths below are relative to the repository; `server.ts`
and the like are in `packages/tunnel/src`.

## 1. The system

### Components, their state, their operations

| Component | State | Operations |
|---|---|---|
| Tunnel server (`server.ts`) | control sockets, `symmetricKeyBySocket`, `livenessBySocket`, `sockets` (connection id to mock and control socket), heartbeat timer | accept a control socket and send `server_kx`; `message` (key exchange, early returns, dispatch to HTTP, connect, message, close); `close` cleanup; `pong`; `#heartbeatSweep`; server close |
| Server mocks (`ServerRAWebSocket.ts`) | `readyState` of each mock; `wss.clients` | `send`, `close`, `emitMessage`, `emitClose`; `addClient`, `deleteClient`, `wss.close` |
| Tunnel client (`client.ts`) | `ws`, `connectionPromise`, `symmetricKey`, `serverX25519PublicKey`, `reportBindingData`, `pendingRequests`, `webSocketConnections`, reconnect timers | `ensureConnection`; `onclose`, `onerror`, `onmessage` (`server_kx` with its awaits, `enc`); `fetch` with its timer; `send` |
| Client mocks (`ClientRAWebSocket.ts`) | `readyState`, `messageQueue` | `connect`, `send`, `close`, `handleTunnelEvent`, `handleTunnelMessage` |
| Messages (`types.ts`, `typeguards.ts`) | none | constructors and type tests |
| Service worker (`sw.ts`) | a socket, a key and pending requests of its own | intercept `fetch`, tunnel it, or fall back to a direct fetch |
| Quote verification (`packages/qvl/src`) | none | certificate chain, QE report, QE identity, TCB level, quote signature |
| Demo (`packages/demo`) | at the server `messages`, `totalMessageCount`; in a page its mock (`wsRef`), `messages`, `hiddenMessagesCount`, `connected` | a connection gets the backlog, a chat message is kept and broadcast; mount and unmount, send, the connection button |

### How they interact

The application at the client calls `fetch` or opens a mock WebSocket. Both call
`ensureConnection`, which opens a control WebSocket. The server answers it with
`server_kx` (its X25519 key and its quote); the client verifies the quote and its
binding to that key, and replies with `client_kx`, a symmetric key sealed to the
server. From then on both ends exchange `enc` envelopes: requests and responses,
and `ws_connect`, `ws_event`, `ws_message`, `ws_close` of the tunneled WebSockets.
The server runs requests against the Express application and hands it mock
WebSockets through callbacks that capture the control socket they arrived on.

### What is hard, and what correctness means

* *Awaits.* The client's handshake awaits the verification of the quote, a custom
  check, and the check of the binding; `fetch` and `connect` await the connection.
  Everything may change meanwhile: the socket, the key, the mock's `readyState`.
  Correct: only attested keys are used; every fetch settles, once.
* *Sockets and handshakes that overlap.* The handlers of an old socket write the
  fields of the client after a newer one has replaced it; a handshake that resumes
  finds in them what another has left.
* *Ends that close apart.* Each end learns of a closed socket on its own, and
  loses what was in flight. Correct: the mocks and tables of both ends are
  cleaned, and an open mock can always be reached from the other end.
* *Application callbacks* run inside the handlers: before `open` is signalled, in
  the loop that cleans up after a socket; they may send, close or throw.
* *Peers that vanish.* Only the heartbeat notices.
* *History and news.* A chat client that joins gets a backlog and then broadcasts:
  no message may come twice or not at all.

`PROJECT.json` lists each hazard at its line, with the properties about it.

## 2. Modules

| Module | Models |
|---|---|
| `TunnelTypes` | the messages of the channel |
| `TunnelServer` | `server.ts` and `ServerRAWebSocket.ts`, open to any peers and any application |
| `TunnelClient` | `client.ts` and `ClientRAWebSocket.ts`, open to any server and any application |
| `Tunnel` | one client and one server, composed over control WebSockets |
| `RemoteCalls` | the abstract specification of `fetch()`: what callers may rely on |
| `Chat` | the chat room of `packages/demo`, server and pages, over mock WebSockets |
| `Heartbeat` | the heartbeat of `server.ts` with its clock, for one control socket |
| `ServiceWorker` | `sw.ts` and the `TunnelServer` it talks to |
| `VerifyQuote` | `verifyTdx`, `verifySgx`, `verifyPCKChain` and `verifyTcb` of `packages/qvl` |
| `TunnelServer_proof`, `TunnelClient_proof`, `ServiceWorker_proof`, `Heartbeat_proof`, `VerifyQuote_proof`, `Chat_proof` | theorems about one module |
| `Tunnel_proof` | theorems about the composition and its refinements |
| `Uplink_proof` | the order of messages from the application at the client to the one at the server, on top of `Tunnel_proof` |
| `MCTunnelServer`, `MCTunnelClient`, `MCTunnel`, `MCServiceWorker`, `MCVerifyQuote` | instances for TLC |

**Conventions.** A control socket is identified by the connection it is, and is
used once; the client's promise is identified by its socket, since each has one. A
handshake is identified by the fresh key `k` it draws: a server may announce itself
any number of times on a socket, and `client.ts:223` begins a handshake each time. A
server is identified by its X25519 key; `report_data` and the binding data of a quote
name the server they were made for. A mock is identified by its connection id;
ids are drawn from time and a random number (`utils/client.ts`) and taken to be
unique. An envelope is the pair of its key and its body, read by whoever holds
the key; the key is sealed to the server, which opens it. Contents of requests
and responses, close codes and reasons, and the CBOR encoding are left out.

**`TunnelServer`.** A variable per field: `keyOf` is `symmetricKeyBySocket`,
`live` is `livenessBySocket` (its `isAlive`; `lastActivityMs` is abstracted to
the choice of the `idle` sockets at a sweep), `sockets` the table, `via` the
control socket captured by the callbacks of a mock (which differs from the table
once the entry is gone), `clients` is `wss.clients`. `ctl` is the `readyState`
of the control sockets, `toClient` what was sent on them. `Receive` has one
disjunct per branch of the `message` handler; `HandleWsConnect` contains the call
of the application's handler (which may greet, close and throw) and the `open` or
`error` event that follows. `Throwing` names connections whose application
`close` handler throws. `http` lists the control sockets a request was handled on,
once for each handling, so that a repeat shows even on the same socket.

**`TunnelClient`.** JavaScript runs one task at a time and what an `await`
separates is two actions. The handshake of key `k` runs in the handler of socket
`on[k]` and answers the announcement `heard[k]`, which are its locals; its progress
`kx[k]` is `verifying` (the quote is being verified), `approving`
(`customVerifyQuote` is awaited), `binding` (the binding check has compared, and is
awaited), then `done`; or `invalid`, `refused`. What it writes into the client is
`symKey`, `serverKey` (`serverX25519PublicKey`) and `bindingData`
(`reportBindingData`, which stays as it was if an announcement brings none), each
the last one written by any handshake; `Bound` compares the local quote with the
shared fields, as `isX25519Bound` does, while `client_kx` carries the local key,
sealed to the local `heard[k].pub`. `Custom` names the checks of the application
that are configured; one of the binding may say anything. `this.quote`, which nothing
reads, is left out, and so is the configuration of `mrtd` and `report_data` beyond
that such a check may refuse. A fetch is `waiting` for its connection
(or its body), `sent`, `resolved` or `rejected`. `Quiet` orders tasks: the
continuations of a settled promise and the close event after an error event come
before the next task. `Bodiless` names requests answered with a status for which
the `Response` constructor refuses a body (205, 304); `OncloseThrows` connections
whose `onclose` throws; `WrongPort` connections to another port than the origin.
An exception in `onmessage` is an unhandled rejection: the model goes on, as a
browser does.

**`Tunnel`** joins a send at one end with a receipt at the other, in order, and
relates the two ends of a socket: the server's is accepted while the client's is
connecting, the client's opens after that, either closes on its own, and what is
in flight towards a closed end is lost. It is shown to implement `TunnelServer`
(`ImplementsServer`), which assumes of its peers that identifiers are fresh;
`TunnelClient` assumes nothing of the server, so that the composition implements it
says nothing more, and each step being one of its steps is part of the proofs. Seen by
the callers of `fetch()` it implements
`RemoteCalls` (`ImplementsCalls`): `caller` is the state of a request at the
client, `sites` the control sockets it was handled on at the server and `answered`
the responses the application has produced.

**`Heartbeat`.** `TunnelServer` lets any socket count as idle at a sweep; here
time is a number, the interval timer fires at most `Lag` late, and a peer that is
there answers a ping within `Latency`. Deadlines are met by letting time pass
only while none is overdue. The sweep treats each socket by itself, so one is
enough. `pinged` is the ping that is out, which the code need not remember.

**`ServiceWorker`** has the fields of `sw.ts`, which are those of the client
without mocks and without verification, and the order of tasks of
`TunnelClient`. `sodium` says that libsodium has loaded: until then the test for a
connection and its creation are two tasks, so that two requests can open two
sockets. Handlers name the socket they belong to (`s`) and write the shared
fields, `server_kx` answers on `ws`, and `WebSocket.send` throws while the socket
is CONNECTING. A request whose body has been read cannot be repeated on the
network and fails. The server is an instance of `TunnelServer`, and the two together
are shown to implement it (`ImplementsServer`): the worker is no other peer than
those it was proved about.

**`VerifyQuote`** is one call of `verifyTdx` or `verifySgx`. A certificate is a
record of what parsing it yields; its signature is the key that made it; dates,
root hashes are what they say of the certificate (`inWindow`, `pinned`). A CRL is
the list of the fields that can be read from `tbsCertList` on, of any kind and in any
order, as many of them inside `tbsCertList` as its length says. `Opens`,
`RevokedCertificates` and `Before` step over them as `parseCrlRevokedSerials` does,
with its early returns: a field of another kind where a mandatory one is expected, or
one that cannot be read, makes the result empty, and so does an entry that cannot be
read; an entry that is no SEQUENCE ends the list. Serials are strings of hexadecimal
digits, normalised as in `utils.ts`. Whose CRL it is and who signed it is not checked, as in
the code. The chain is a sequence of positions in the list given, because the
code compares certificates as objects and finds issuers by name. `verifyPCKChain`
runs twice, as in the code: with a date for the verdict, and without one for the
key of the QE report. The callback is `verifyTcb`; the answer of Intel's service
is any of `TcbInfo`.

**`Chat`** has the state of `packages/demo/server.ts` and `src/App.tsx`, and keeps
of the tunnel what the other modules show: each direction of a mock delivers in
order, `open` follows what the `connection` handler sent, either end may end on
its own and loses what is in flight towards it. A page opens one mock when it is
mounted and another when it is mounted again. `log` records every message
accepted; messages are named by mock and number, since texts, user names and the
ids drawn from the clock play no part. The button awaits the control socket before it
shows "connected": `ClickConnect` is what runs after the await, at any time later, as
the click itself changes nothing the module has.

Definitions named in the comments as mutants (`ForgetKeepsEntry`, ...) belong to
no specification: each is a variant of the definition below it with a plausible
bug, and the property that `PROJECT.json` pairs it with fails under it.

## 3. Runs

| Run | Instance | Shows |
|---|---|---|
| `ServerSockets` | 2 sockets, 2 keys, 1 connection | `TypeOK`; keys and liveness records belong to live sockets (`BookkeepingIsLive`), an open mock is routed to a live socket with a key (`OpenMockIsRouted`), the first key stays (`KeyIsWriteOnce`), order and keys on the wire (`WireDiscipline`) |
| `ServerMocks` | 1 socket, 2 connections, one throwing; fair | no stale entries (`NoOrphanEntry`, `ClientsAreTracked`), a vanished peer is cleaned up (`VanishedPeerIsCleaned`) |
| `ClientAlone` | 2 sockets, 2 keys, 2 servers, `customVerifyQuote`, 1 request, 2 connections, one throwing, one to a wrong port, a message on each; at most 3 handshakes, requests, connections and connections that send together | `TypeOK`; what was sent is in `pendingRequests` (`SentIsPending`), settles once (`SettledOnce`); no envelope before the quote of its handshake is verified, the key in use handed over to no other server than that quote is bound to (`KeysFollowVerification`); `RegisteredIsActive`, `OpenMockHasTunnel`, `ClosedForGood` |
| `TunnelLive` | 1 socket, 1 request, 1 connection; fair | what was sent is settled (`SentIsSettled`), mocks end with their tunnel (`MocksEndWithTunnel`), `fetch()` is a remote call, handled once at most, a repeat on the same socket included (`ImplementsCalls`) |
| `TunnelRefines` | 2 sockets, 2 keys, 1 connection, 2 messages up, 1 down, `customVerifyQuote` configured | the server only holds keys of handshakes that passed every check (`ServedAfterAttestation`), `OpenMocksExist`, `UplinkIsPrefix`, `ImplementsServer` |
| `Worker` | 2 sockets, 2 requests, one with a body, one answered with a status without body; fair | what was sent is pending (`SentIsPending`), ends (`SentIsSettled`) and ends once (`SettledOnce`); a request with a body never reaches the application over both ways (`BodiesSentOnce`), and the server handles none twice, on one socket or on two (`ImplementsServer`) |
| `Heartbeat` | interval 3, timeout 4, lag 1, latency 2, up to time 16 | `PresentIsKept`, `VanishedIsFound` |
| `Quotes` | 3 certificates in every arrangement, at most one defect; the proper chain with every SVN, source and type, with two CRLs of every form, and with CRLs that cannot be read before and after one that can; fair | what is accepted has a path to a pinned root, none of it listed by a well-formed CRL (`AcceptedIsCertified`), a proper chain in any order is not rejected (`ProperIsAccepted`), a higher SVN is no worse (`TcbIsMonotone`), the walk ends (`Terminates`) |
| `ChatRoom` | 2 pages, 2 mocks, 2 messages, a history of 1; fair | the history is the end of what was accepted (`HistoryIsTail`), a page shows a stretch of it (`ViewIsStretch`) and lacks nothing while in contact (`NothingIsMissed`); who sends sees the message unless the connection ends (`SentIsShown`) |

Runs that end in a counterexample:

| Run | Statement | What happens |
|---|---|---|
| `HungFetch` | README.md:224, the request timeout of 30 seconds | the socket closes during the handshake, or the quote is refused: nothing settles the promise that `fetch` awaits, and its timer has not started |
| `LostKey` | client.ts:162, "a new handshake will set it on reconnect" | the close event of an old socket arrives after the handshake of the new one and drops its key |
| `RacedBinding` | client.ts:294, "Validate report_data to X25519 key binding" (`HandedOverIsBound`) | with `customVerifyQuote`, a handshake announces a key with a quote that is not bound to it; while it awaits, another one replaces the client's server key and binding data, and the check compares the first quote with those |

Other behaviours the models contain, and that a reader of the properties should
know:

* `TunnelClient`: `ensureConnection` returns when the socket is OPEN, and the key
  is set before the binding is checked. A second fetch may send its request in
  between, under a key the server does not have unless the binding holds
  (`KeysFollowVerification` and `ServedAfterAttestation` say what does hold).
* `TunnelClient`: without `customVerifyQuote` nothing is awaited between the writes of
  the shared fields and the comparison, so that overlapping handshakes do no harm
  (second conjunct of `KeysFollowVerification`). With it, a handshake whose key has been
  replaced may pass with a quote that is bound to another key (`RacedBinding`), but not
  one whose key is in use. The same handshakes with one honest server compare what is
  the same for all (`ServedAfterAttestation`). A check configured as
  `customVerifyX25519Binding` is given the client and so reads the same fields, and may
  read them whenever it likes: nothing is claimed then but that it passed.
* `TunnelClient`, `ServiceWorker`: for a response with status 205 or 304 the
  entry is deleted, then the `Response` constructor throws, and the timer no
  longer finds the entry. Such requests are `Bodiless`, and the properties about
  settling leave them out.
* `TunnelClient`: a mock closed while CONNECTING still sends `ws_connect` when its
  await ends; the server's mock stays open until its control socket ends. So does the
  server's mock whose `connection` handler threw, while the client's, which is only
  told of an error, stays CONNECTING.
* `ServiceWorker`: with two sockets the handshake of the first may be answered on
  the second. While that one is CONNECTING the send throws and the request falls
  back to the network; later, the server has the key of the first handshake and
  ignores that of the second, and requests time out and fall back.
* `VerifyQuote`: the walk up the chain has no bound. If the first certificates of
  the issuers' names form a circle it does not end; `Acyclic` excludes that, and
  `MaxChain` stops the model there.
* `VerifyQuote`: a CRL that cannot be read up to the end of its list, or has another
  field where a mandatory one belongs, revokes nothing (`utils.ts:112-143`, `178`), and
  nobody is told. `AcceptedIsCertified` therefore speaks of what well-formed CRLs list.
* `VerifyQuote`: `verifyTdx.ts:38` says "Expects at least two certificates", and only
  the empty list is rejected (`verifyTdx.ts:52`). One certificate is its own leaf and
  root, and passes if it is pinned and no CA; `AcceptedIsCertified` has such a path.
  The pinned root that comes with the package is a CA.
* `VerifyQuote`: CRLs are searched for serials alone, so one issuer's CRL also
  rejects another issuer's certificate of the same serial.
* `Chat`: when the connection was lost, the button opens a control socket and shows
  "connected", while the mock stays CLOSED: the form is enabled and sends nothing
  until the page is mounted anew.
* `Chat`: a page mounted twice in a row (StrictMode) closes its first mock while
  CONNECTING; its `ws_connect` still goes out, and the server broadcasts to it
  until the control socket ends.
* `VerifyQuote`: of the components of a TCB level only those of the quote's own
  technology are compared; for TDX, `sgxtcbcomponents` are not.

**Bounds.** `MaxUse` bounds, by the constraint `SmallMix`, how many handshakes,
requests, connections and connections that send a behaviour of `ClientAlone` and
`RacedBinding` has together: every mix of three, but for two handshakes beside a
connection, whose messages meet handshakes only in the key and the socket, as requests
do; `TunnelRefines` has such mixes. `Key` bounds the handshakes; with fairness there are
as many keys as sockets, so that one is never missing. Two servers are an honest one and
another. `Socket` bounds the control sockets: with two, one closes late while the other
is in use, which is the case the client's shared fields are exposed to; a third adds no
new pair of overlapping sockets. Two connections or two requests show whether one is
mistaken for another or blocks another. `MaxQueue`, `MaxSend` and `MaxReceive` bound
messages and appear in the guards of the actions that send; two messages on a connection
can be reordered. What a mock has received (`inbox`, `received`) is recorded up to that
bound, and receiving is not bounded by it. In `ChatRoom` a history of one message is
full after the first, so that the second is trimmed; the two mocks are those of two
pages, or of one that is mounted twice. In `Heartbeat` the horizon is two silent sweeps
of a vanished peer and more after the longest possible delay before it vanishes; its
theorems have no horizon. Three certificates are a leaf, an intermediate and a root, as
Intel issues them, and every way to misname or reorder them; `MaxChain` is one more,
since a chain without repetition has at most three. Deadlock is not checked: sockets are
used once, and once all are closed the system has stopped.

**Symmetry** is used over sockets and keys in runs of safety properties only.

**Fairness.** At the server: the interval timer fires again and again, and a
terminated socket emits `close`. Nothing else, in particular no pong. In `Tunnel`:
messages in transit arrive, verifications end one way or the other, an end whose
peer has closed learns of it, continuations run and timers fire. These are what
the event loop and the network stack provide. In `ServiceWorker` only timers,
continuations and the close event after an error event are fair; in
`VerifyQuote`, the call goes on; in `Chat`, messages arrive and a control socket
that is closing closes. Neither application is assumed to
do anything: no request need be answered.

## 4. Proofs

Every invariant and every action property that a passing run checks, and each
refinement, is also a theorem, for every value of the constants that satisfies
the assumptions named below. What is left to TLC is listed at the end.

**`TunnelServer_proof`** proves for every set of sockets, connections, requests,
keys, payloads and throwing connections that `TunnelServer` satisfies `TypeOK`,
`BookkeepingIsLive`, `OpenMockIsRouted`, `NoOrphanEntry`, `ClientsAreTracked` and
`KeyIsWriteOnce`. The only assumptions are those on the constants: `NoKey` is no
key, `NoSocket` no socket, throwing connections are connections, and this server is
one of the servers.

None of the invariants is inductive alone. `IInv` adds to them:

* `ClientsAreTracked`: what `wss.clients` lists has an entry, so that the actions
  that look only at the table reach it;
* `FreshIsUnknown`: an id that was never connected is in no table, so that
  `ws_connect` does not overwrite anything;
* `EntryIsOwned`: an entry names the socket its mock captured, and that socket is
  live and keyed unless the entry was kept by a throwing handler. Without it,
  closing a socket could leave behind an open mock whose entry names another.

The step lemma has one part per action; the actions that only touch the link or
the requests share `QuietStepIInv`. `NoOrphans` follows from `EntryIsOwned`,
and `KeysAreWriteOnce` from the fact that the sweep only removes keys of
sockets that are no longer tracked, which `BookkeepingIsLive` excludes.

The same module proves `WireDiscipline`, which speaks of messages in flight,
from a second invariant. `WireInv` ties them to the state that produced them: a socket not yet
accepted carries nothing, `server_kx` can only be first, envelopes of a live socket
are under its present key, and a `close` in flight is about a mock that is CLOSED
and so sends nothing any more. `TellsTrue`, that a response or an event in flight
is about something that has happened, is what the composition needs of the server.

**`TunnelClient_proof`** proves for every set of sockets, connections and requests,
whatever the server sends: `TypeOK`, `SentIsPending`, `RegisteredIsActive`,
`OpenMockHasTunnel`, `KeysFollowVerification`, `SettledOnce` and `ClosedForGood`. Its
invariant has three parts beside the types, and each action disturbs at most two.
`PendingIsSent` is the converse of `SentIsPending`, and gives `SettledOnce`;
`OpenMockIsCarried` names the mock whose handler interrupted the loop of `onclose`;
`KeyIsVerified` speaks of the current key, which is what the next envelope is sealed
with, although handlers of any socket set and drop it; and `CheckedIsBound`, that while
an application judges the quote of the handshake whose key is in use, the server key the
client holds is that of this handshake. So what the binding check then compares is its
own, unless another key has taken its place; without a `customVerifyQuote` nothing is
awaited between writing the fields and comparing them, and it is so of every handshake.
`RacedBinding` is the counterexample for the rest.

The same module proves `StartsOnce`: an `http_request` and a
`ws_connect` leave at most once over all control sockets, and none is in flight
that has yet to be sent. Each step either brings no such message into flight
(`NothingNew`: what is there now was there before, some places behind), or is the
one that sends it.

**`Tunnel_proof`** is about the composition. Each of its steps is a step of either
side or leaves it alone: `TunnelServer` takes identifiers to be fresh, which the
client guarantees by `StartsOnce`. One induction carries the invariants of both
(`ClientInv`, `ServerInv`) and what ties them: `DueIsUnknown`, that a request or
connection yet to be received is unknown to the server; `KxComesOnce`, that with this
server a control socket has one handshake at most, and no `server_kx` is coming once
it has begun; and `OneServer`, that the fields the handshakes share hold nothing but this
server's key once one of them has been verified. The first lemmas show
that the actions the instanced proof modules define are those of `Tunnel`. From it:

* `ServerIsImplemented`: the composition is a behaviour of `TunnelServer`;
* `ServesAttested`, `MocksExist`: the two properties that relate the ends. What the
  checks of a handshake read may have been written by another, but both are with this
  one server (`OneServer`), so the quote that was checked is bound to its key;
* `FetchIsRemoteCall`: `fetch()` implements `RemoteCalls`. Every step maps to a
  step or a stutter; a close that rejects several requests is one `Abandon`, and a
  response resolves a call only since `TellsTrue` says that it was produced.

**`Uplink_proof`** proves `UplinkIsPrefix`: as long as the client has needed no second
control socket, what the application at the server receives on a mock is a prefix of
what the one at the client sent on it, for any number of connections and messages and
whatever ends meanwhile. It adds to the assumptions of `Tunnel_proof` that `MaxReceive`
is a number. What was received, what is in flight and what is queued at the client
continue each other; `FlowInv` says so by positions in the control socket's queue, since
messages of other connections are mixed in: each one in flight is the next after those
received or has its predecessor before it (`Stream`), none is beyond what was sent
(`Within`), and the last one sent is there (`Reaches`) while both the mock and the
socket are OPEN at the client. Afterwards messages may be lost, but what is sent then is
lost too, so no gap is ever received; and nothing is received on a mock that has ended.
Until a mock is OPEN all it was given to send is in its `messageQueue`, and afterwards
nothing is (`QueueInv`); of a connection that does not exist at both ends nothing was
sent or received (`FreshInv`); and the one control socket is the one the client and the
mock at the server use (`UsedInv`, `ViaInv`), with one handshake and so one key
(`OneKey`). Most actions leave a connection's stream as it is (`Calm`); the induction
step has a case for each of those that lose the rest of it, send on it, open it, or
deliver its next message.

**`ServiceWorker_proof`** proves `TypeOK`, `SentIsPending`, `BodiesSentOnce`,
`SettledOnce` and `ImplementsServer` of the worker and its server, for every set of
sockets and requests and every choice of those with a body; the assumptions are that
a key is named by its socket (its server announces itself once on each), that those
with a body are requests, and that the server is one of the servers. The invariant
says where a request is. `PendingIsSent` is the converse of `SentIsPending`, so that
a request that ended is out of reach of every handler. `SentOnce` follows a request
on its way: it is in at most one message over all sockets, in none before it is
sent, and unknown to the server until its message is taken. A request with a body
falls back to the network only if it was never sent, hence `BodiesSentOnce`; and a
message taken is one that `TunnelServer` allows, hence `ImplementsServer`. Nothing
is assumed of what the worker receives: an identifier that is not pending changes
nothing.

**`Heartbeat_proof`** proves for every interval, timeout, lag, latency and horizon:

* `PresentPeersStay`: if the latency is below the interval, and the timeout at
  least the interval and the lag, a peer that is there keeps its socket. The code
  checks neither condition of its configuration (`server.ts:134`).
* `VanishedPeersGo`: a peer that vanished loses its socket within twice the
  interval and the lag, even if the server keeps sending to it, which the code
  counts as activity.

The inductive invariant places the next sweep in time: at most an interval
ahead, exactly an interval after the ping that is out; with no ping out the last
activity is no older than the last sweep; and the ping a vanished peer will never
answer went out at the first sweep after it left.

**`VerifyQuote_proof`** proves for every set of calls and of answers of Intel's
service, the assumption being only that they are calls and answers:

* `AcceptedAreCertified`: whatever certificates are given, in whatever order and with
  whatever names, an accepted quote has a path of certification to a pinned root. The
  chain is walked twice, and only the first walk is judged for dates, revocation and its
  root, while the second gives the key that checks the QE report. The inductive
  invariant keeps a complete chain that was judged, of which the second walk is a
  prefix: both start at the same leaf and each step is determined by the certificate
  before, so the second ends where the first did. That none of it is on a CRL is stated
  of the numbers that well-formed CRLs list, whatever others are given, and rests on two
  lemmas: in every well-formed CRL the field that is read is the list (`ListIsParsed`),
  and two strings of digits are the same number only if they are normalised alike
  (`SameIsNormalizedAlike`).
* `ProperAreAccepted`, the converse: if the certificates given are one path to a pinned
  root, in whatever order, no CRL mentions them anywhere, readable or not, and the rest
  of the quote is in order, then only the service that is asked for the TCB level can
  end the call with an error. As many different positions as certificates were given are
  all of them (`PathHasAll`, by cardinality), so the only certificate that carries an
  issuer's name is the next on the path, and the one that issued none is its first
  (`PathIsFollowed`). Both walks keep to the path and end where it does. There every
  check passes: the CAs below a certificate are as many as its position says, and what
  is revoked is mentioned (`RevokedIsMentioned`, from `NormalizedAlikeIsSame` and
  `ParsedIsThere`, the converses of the two lemmas above).
* `BetterIsNotRefused`: if levels are sorted by status, one SVN more never turns an
  accepted platform into a refused one. The levels that are met can only grow, so
  the first of them can only move forward.

The bound `MaxChain` on the chain is a guard of `Walk`, and any positive number.

**`Chat_proof`** proves for every set of pages and mocks, every number of messages
and every limit on the history that the room satisfies `TypeOK`, `HistoryIsTail`,
`ViewIsStretch` and `NothingIsMissed`. The assumptions are that the limit is a
positive number, as `MAX_MESSAGES` is, that the bound on what is sent is a number,
and that no page and no mock are neither of them. What a page shows says nothing of
what it will get next, so the invariant follows what is in flight to each mock:

* `FlightIsFormed`: a backlog, which is a stretch of the log, and "open" after it
  come first, and broadcasts follow;
* `FlightContinues`: to a mock that is registered, the broadcasts go on where the
  backlog ends, or the page if that has come, and while the server has not ended the
  mock they reach the end of the log. `hiddenCount` is what turns the length of a
  view into a position in the log;
* `MockIsHeld` and `AskedOnce`: a mock that is registered is the one its page holds,
  so that a page that was mounted again is not fed by two, and a backlog is the first
  thing a mock is ever sent.

`ViewIsStretch` is then kept by every `onmessage`, since the next broadcast is the
next message of the log.

**Model-checked only:** the liveness properties `SentIsSettled`,
`MocksEndWithTunnel`, `VanishedPeerIsCleaned`, `Terminates` and `SentIsShown`, and the
liveness of the two runs that end in a counterexample: temporal reasoning under
fairness needs ENABLED, which the provers used do not handle.

## 5. Not modelled

* `verifyQeIdentity`: neither `verifyTdx` nor `verifySgx` calls it; a comparison of
  the fields of one report with one document.
* `swMiddleware.ts`, `registerServiceWorker.ts`: serving the worker's script and
  registering it.
* Of the demo: the uptime and counter routes, the panel with the attested values
  and its verification button; ids of chat messages, which are the time in
  milliseconds and may collide.
* The scripts for nginx and systemd.
* `encryptedOnly`, body parsing, header cleaning: functions of one request.
* Byte layouts of quotes and certificates, lengths in DER, PEM, hexadecimal: data
  without control.
* Cryptography: a seal opens for its key and nothing else.
* Application callbacks that call back into the client: an `onclose` that opens a new
  mock while `client.ts:134` iterates over the live `Map` has it reached, and closed, by
  the same loop.

## 6. Plan

1. Done: `TunnelTypes`, `TunnelServer`, `TunnelClient`, `Tunnel` with `RemoteCalls`,
   `ServiceWorker`, `Heartbeat`, `VerifyQuote` and `Chat`; theorems for all their
   invariants, action properties and refinements.
2. Left: the order of messages in the other direction, from the server's application
   to the client's, as the counterpart of `UplinkIsPrefix`; the QE identity as an
   operator beside `VerifyQuote`.
