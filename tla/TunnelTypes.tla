---------------------------- MODULE TunnelTypes ----------------------------
(***************************************************************************)
(* The messages of the encrypted channel (packages/tunnel/src/types.ts).   *)
(*                                                                         *)
(* A message keeps what the two peers branch on: its type, the request or  *)
(* connection it is about, and the key it was sealed with.  URLs, headers, *)
(* bodies, close codes and the CBOR encoding are left out.  A ciphertext   *)
(* is a pair of a key and a body that only the holder of that key reads.   *)
(*                                                                         *)
(* A server is known by its X25519 key.  The report_data of its quote is   *)
(* the hash of that key and of a nonce of its own, its binding data are    *)
(* that nonce: both are named by the server they were made for.            *)
(***************************************************************************)

CONSTANTS
    Conn,    \* connection ids of tunneled WebSockets
    Req,     \* request ids of tunneled HTTP requests
    Key,     \* symmetric keys a client may generate
    NoKey,   \* no key; also the content of a seal that does not open
    Data,    \* payloads of WebSocket messages
    Server,  \* servers that may answer at the client's origin
    NoServer \* a key that cannot be used, an empty quote, no binding data

ASSUME NoKeyAssumption    == NoKey \notin Key
ASSUME NoServerAssumption == NoServer \notin Server

-----------------------------------------------------------------------------
(* Payloads of encrypted envelopes. *)

HttpRequest(r)      == [type |-> "http_request", id |-> r]
HttpResponse(r, ok) == [type |-> "http_response", id |-> r, ok |-> ok]
WsConnect(c)        == [type |-> "ws_connect", id |-> c]
WsClose(c)          == [type |-> "ws_close", id |-> c]
WsMessage(c, d)     == [type |-> "ws_message", id |-> c, data |-> d]
WsEvent(c, e)       == [type |-> "ws_event", id |-> c, event |-> e]

WsMessages == [type : {"ws_message"}, id : Conn, data : Data]
WsEvents   == [type : {"ws_event"}, id : Conn, event : {"open", "close", "error"}]

ClientBody ==
    [type : {"http_request"}, id : Req]
        \cup [type : {"ws_connect", "ws_close"}, id : Conn]
        \cup WsMessages

ServerBody ==
    [type : {"http_response"}, id : Req, ok : BOOLEAN]
        \cup WsEvents
        \cup WsMessages

(***************************************************************************)
(* Control channel messages.  Plaintext stands for whatever decodes to     *)
(* neither a client_kx nor an envelope (or does not decode at all).        *)
(***************************************************************************)
ServerKx(pub, quote, data) ==
    [type |-> "server_kx", pub |-> pub, quote |-> quote, data |-> data]
ClientKx(k) == [type |-> "client_kx", key |-> k]
Enc(k, b)   == [type |-> "enc", key |-> k, body |-> b]
Plaintext   == [type |-> "plaintext"]

Announcement == [type : {"server_kx"}, pub : Server \cup {NoServer},
                 quote : Server \cup {NoServer}, data : Server \cup {NoServer}]

ClientMsg ==
    [type : {"client_kx"}, key : Key \cup {NoKey}]
        \cup [type : {"enc"}, key : Key, body : ClientBody]
        \cup {Plaintext}

ServerMsg ==
    Announcement \cup [type : {"enc"}, key : Key, body : ServerBody]

=============================================================================
