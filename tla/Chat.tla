-------------------------------- MODULE Chat --------------------------------
(***************************************************************************)
(* The chat room of packages/demo: the application behind TunnelServer     *)
(* (server.ts) and the page that talks to it (src/App.tsx).                *)
(*                                                                         *)
(* Of the tunnel this keeps what the other modules show of a mock          *)
(* WebSocket c: each direction delivers in order, "open" comes after what  *)
(* the "connection" handler sent, either end may end on its own, and what  *)
(* then is in flight towards it is lost.  A page opens one mock when it is *)
(* mounted, and another when it is mounted again (StrictMode).  A control  *)
(* socket opened anew carries nothing of a mock that is still ending.      *)
(***************************************************************************)
EXTENDS Naturals, Sequences, SequencesExt, Functions

CONSTANTS
    Page,
    Conn,         \* mock WebSockets the pages may open: bounds mounting
    NoPage, NoConn,
    MAX_MESSAGES,
    MaxSent       \* bound on the chat messages sent, over all mocks

ASSUME ChatAssumption ==
    /\ NoPage \notin Page /\ NoConn \notin Conn
    /\ MAX_MESSAGES \in Nat \ {0} /\ MaxSent \in Nat

VARIABLES
    messages,           \* what the server keeps of the history
    totalMessageCount,
    log,                \* every message accepted, in order (a history)
    peer,               \* readyState of the server's end of each mock
    page,               \* the page that opened a mock
    readyState,         \* of the page's end; "new" before it is opened
    asked,              \* mocks whose connect() is past its await
    ending,             \* mocks whose control socket the page has closed, or that ended
    up, down,           \* in flight, from and to the page
    wsRef,              \* the mock a page holds
    view,               \* the "messages" state of a page
    hidden,             \* its hiddenMessagesCount
    connected,          \* its "connected"
    sent                \* chat messages sent on each mock

serverVars == <<messages, totalMessageCount, log>>
linkVars   == <<peer, page, readyState, asked, ending>>
pageVars   == <<wsRef, view, hidden, connected, sent>>
vars       == <<serverVars, linkVars, up, down, pageVars>>

(* A chat message is known by the mock it was sent on and its number. *)
Message == Conn \X (1..MaxSent)

Backlog(ms, n) == [type |-> "backlog", messages |-> ms, hiddenCount |-> n]
Broadcast(m)   == [type |-> "message", message |-> m]
Open           == [type |-> "open"]

UpMsg == [type : {"connect", "close"}] \cup [type : {"chat"}, id : Message]

DownMsg ==
    [type : {"backlog"}, messages : Seq(Message), hiddenCount : Nat]
        \cup [type : {"message"}, message : Message] \cup {Open}

TypeOK ==
    /\ messages \in Seq(Message)
    /\ totalMessageCount \in Nat
    /\ log \in Seq(Message)
    /\ peer \in [Conn -> {"none", "open", "closed"}]
    /\ page \in [Conn -> Page \cup {NoPage}]
    /\ readyState \in [Conn -> {"new", "connecting", "open", "closing", "closed"}]
    /\ asked \subseteq Conn
    /\ ending \subseteq Conn
    /\ up \in [Conn -> Seq(UpMsg)]
    /\ down \in [Conn -> Seq(DownMsg)]
    /\ wsRef \in [Page -> Conn \cup {NoConn}]
    /\ view \in [Page -> Seq(Message)]
    /\ hidden \in [Page -> Nat]
    /\ connected \in [Page -> BOOLEAN]
    /\ sent \in [Conn -> 0..MaxSent]

Init ==
    /\ messages = <<>>
    /\ totalMessageCount = 0
    /\ log = <<>>
    /\ peer = [c \in Conn |-> "none"]
    /\ page = [c \in Conn |-> NoPage]
    /\ readyState = [c \in Conn |-> "new"]
    /\ asked = {}
    /\ ending = {}
    /\ up = [c \in Conn |-> <<>>]
    /\ down = [c \in Conn |-> <<>>]
    /\ wsRef = [p \in Page |-> NoConn]
    /\ view = [p \in Page |-> <<>>]
    /\ hidden = [p \in Page |-> 0]
    /\ connected = [p \in Page |-> FALSE]
    /\ sent = [c \in Conn |-> 0]

Registered(c) == readyState[c] \in {"connecting", "open"}

-----------------------------------------------------------------------------
(* The server. *)

(* Mutant: one message more is kept. *)
KeepLastOneMore(ms) ==
    IF Len(ms) > MAX_MESSAGES + 1
    THEN SubSeq(ms, Len(ms) - MAX_MESSAGES + 1, Len(ms)) ELSE ms

KeepLast(ms) ==
    IF Len(ms) > MAX_MESSAGES
    THEN SubSeq(ms, Len(ms) - MAX_MESSAGES + 1, Len(ms)) ELSE ms

(* Mutant: one less is hidden. *)
HiddenOneLess == totalMessageCount - Len(messages) - 1

hiddenCount == totalMessageCount - Len(messages)

(* The "connection" handler sends the backlog; then the tunnel says "open". *)
OnConnection(c) ==
    /\ peer' = [peer EXCEPT ![c] = "open"]
    /\ down' = [down EXCEPT ![c] = @ \o <<Backlog(messages, hiddenCount), Open>>]
    /\ UNCHANGED serverVars

(* Mutant: the sender is left out. *)
OnChatOthers(c, m) ==
    /\ log' = Append(log, m)
    /\ messages' = KeepLast(Append(messages, m))
    /\ totalMessageCount' = totalMessageCount + 1
    /\ down' = [x \in Conn |-> IF peer[x] = "open" /\ x # c
                               THEN Append(down[x], Broadcast(m)) ELSE down[x]]
    /\ UNCHANGED peer

(* A chat message enters the history and goes to every open client. *)
OnChat(c, m) ==
    /\ log' = Append(log, m)
    /\ messages' = KeepLast(Append(messages, m))
    /\ totalMessageCount' = totalMessageCount + 1
    /\ down' = [x \in Conn |-> IF peer[x] = "open"
                               THEN Append(down[x], Broadcast(m)) ELSE down[x]]
    /\ UNCHANGED peer

(* The tunnel hands over what a page sent; a mock that is gone gets nothing. *)
ToServer(c) ==
    LET m == Head(up[c]) IN
    /\ up[c] # <<>>
    /\ up' = [up EXCEPT ![c] = Tail(@)]
    /\ \/ m.type = "connect" /\ OnConnection(c)
       \/ m.type = "chat" /\ peer[c] = "open" /\ OnChat(c, m.id)
       \/ m.type = "chat" /\ peer[c] # "open" /\ UNCHANGED <<serverVars, peer, down>>
       \/ /\ m.type = "close"
          /\ peer' = [peer EXCEPT ![c] = IF @ = "open" THEN "closed" ELSE @]
          /\ UNCHANGED <<serverVars, down>>
    /\ UNCHANGED <<page, readyState, asked, ending, pageVars>>

(* The server's end of the control socket is gone. *)
ServerEnds(c) ==
    /\ peer[c] = "open"
    /\ peer' = [peer EXCEPT ![c] = "closed"]
    /\ up' = [up EXCEPT ![c] = <<>>]
    /\ UNCHANGED <<serverVars, page, readyState, asked, ending, down, pageVars>>

-----------------------------------------------------------------------------
(* The page. *)

SendUp(c, m) == up' = [up EXCEPT ![c] = Append(@, m)]

(* The effect opens a new mock; after a cleanup the page holds none. *)
Mount(p) ==
    LET c == CHOOSE c \in Conn : page[c] = NoPage IN
    /\ wsRef[p] = NoConn
    /\ \E x \in Conn : page[x] = NoPage
    /\ page' = [page EXCEPT ![c] = p]
    /\ wsRef' = [wsRef EXCEPT ![p] = c]
    /\ readyState' = [readyState EXCEPT ![c] = "connecting"]
    /\ UNCHANGED <<serverVars, peer, asked, ending, up, down, view, hidden,
                   connected, sent>>

(* The cleanup closes it: the server hears of it if the tunnel can send. *)
Unmount(p) ==
    LET c == wsRef[p] IN
    /\ c # NoConn
    /\ wsRef' = [wsRef EXCEPT ![p] = NoConn]
    /\ readyState' = [readyState EXCEPT ![c] = IF Registered(c) THEN "closing" ELSE @]
    /\ \/ UNCHANGED up
       \/ /\ Registered(c) /\ c \notin ending
          /\ SendUp(c, [type |-> "close"])
    /\ UNCHANGED <<serverVars, peer, page, asked, ending, down, view, hidden,
                   connected, sent>>

(* connect() goes on whatever became of the mock: it asks, or it fails. *)
Connect(c) ==
    /\ page[c] # NoPage
    /\ c \notin asked
    /\ asked' = asked \cup {c}
    /\ \/ /\ SendUp(c, [type |-> "connect"])
          /\ UNCHANGED connected
       \/ /\ connected' = [connected EXCEPT ![page[c]] = FALSE]
          /\ UNCHANGED up
    /\ UNCHANGED <<serverVars, peer, page, readyState, ending, down, wsRef, view,
                   hidden, sent>>

(* Mutants: a backlog is added to what is there; a message is not appended    *)
(* unless the connection is shown as open.                                    *)
OnMessageAdds(p, m) ==
    \/ /\ m.type = "backlog"
       /\ view' = [view EXCEPT ![p] = @ \o m.messages]
       /\ hidden' = [hidden EXCEPT ![p] = m.hiddenCount]
    \/ /\ m.type = "message"
       /\ view' = [view EXCEPT ![p] = Append(@, m.message)]
       /\ UNCHANGED hidden

OnMessageIfConnected(p, m) ==
    \/ /\ m.type = "backlog"
       /\ view' = [view EXCEPT ![p] = m.messages]
       /\ hidden' = [hidden EXCEPT ![p] = m.hiddenCount]
    \/ /\ m.type = "message"
       /\ view' = [view EXCEPT ![p] = IF connected[p] THEN Append(@, m.message) ELSE @]
       /\ UNCHANGED hidden

OnMessage(p, m) ==
    \/ /\ m.type = "backlog"
       /\ view' = [view EXCEPT ![p] = m.messages]
       /\ hidden' = [hidden EXCEPT ![p] = m.hiddenCount]
    \/ /\ m.type = "message"
       /\ view' = [view EXCEPT ![p] = Append(@, m.message)]
       /\ UNCHANGED hidden

(* What comes for a mock that is no longer registered is dropped. *)
ToPage(c) ==
    LET m == Head(down[c]) IN
    /\ down[c] # <<>>
    /\ down' = [down EXCEPT ![c] = Tail(@)]
    /\ \/ /\ Registered(c) /\ m.type # "open" /\ OnMessage(page[c], m)
          /\ UNCHANGED <<readyState, connected>>
       \/ /\ Registered(c) /\ m.type = "open"
          /\ readyState' = [readyState EXCEPT ![c] = "open"]
          /\ connected' = [connected EXCEPT ![page[c]] = TRUE]
          /\ UNCHANGED <<view, hidden>>
       \/ ~Registered(c) /\ UNCHANGED <<readyState, connected, view, hidden>>
    /\ UNCHANGED <<serverVars, peer, page, asked, ending, up, wsRef, sent>>

(* A form that is shown disabled sends nothing, nor does a mock not OPEN. A *)
(* send the tunnel refuses is lost, with an error event.                    *)
SendMessage(p) ==
    LET c == wsRef[p] IN
    /\ connected[p]
    /\ c # NoConn
    /\ readyState[c] = "open"
    /\ sent[c] < MaxSent /\ FoldFunction(+, 0, sent) < MaxSent
    /\ sent' = [sent EXCEPT ![c] = @ + 1]
    /\ IF c \in ending
       THEN connected' = [connected EXCEPT ![p] = FALSE] /\ UNCHANGED up
       ELSE /\ SendUp(c, [type |-> "chat", id |-> <<c, sent[c] + 1>>])
            /\ UNCHANGED connected
    /\ UNCHANGED <<serverVars, linkVars, down, wsRef, view, hidden>>

(***************************************************************************)
(* The button closes the control socket, or only shows "connected".  The   *)
(* latter comes after an await: this is its continuation, which may run at *)
(* any later time.  The click itself changes nothing here, and if the page *)
(* shows "connected" by then for another reason, nothing happens at all.   *)
(***************************************************************************)
ClickConnect(p) ==
    /\ \/ /\ connected[p]
          /\ ending' = ending \cup {c \in Conn : page[c] = p /\ Registered(c)}
          /\ UNCHANGED connected
       \/ /\ ~connected[p]
          /\ connected' = [connected EXCEPT ![p] = TRUE]
          /\ UNCHANGED ending
    /\ UNCHANGED <<serverVars, peer, page, readyState, asked, up, down, wsRef,
                   view, hidden, sent>>

(* The page's end of the control socket closes, and the mock hears of it. *)
ClientEnds(c) ==
    /\ Registered(c)
    /\ ending' = ending \cup {c}
    /\ readyState' = [readyState EXCEPT ![c] = "closed"]
    /\ connected' = [connected EXCEPT ![page[c]] = FALSE]
    /\ down' = [down EXCEPT ![c] = <<>>]
    /\ UNCHANGED <<serverVars, peer, page, asked, up, wsRef, view, hidden, sent>>

Next ==
    \/ \E c \in Conn : \/ ToServer(c) \/ ServerEnds(c)
                       \/ Connect(c) \/ ToPage(c) \/ ClientEnds(c)
    \/ \E p \in Page : \/ Mount(p) \/ Unmount(p) \/ SendMessage(p)
                       \/ ClickConnect(p)

Spec == Init /\ [][Next]_vars

(* Messages arrive, and a control socket that is closing closes. *)
Fairness ==
    \A c \in Conn :
        WF_vars(ToServer(c)) /\ WF_vars(ToPage(c)) /\ WF_vars(c \in ending /\ ClientEnds(c))

FairSpec == Spec /\ Fairness

-----------------------------------------------------------------------------
(***************************************************************************)
(* The history is the end of everything accepted, as long as MAX_MESSAGES  *)
(* allows, and totalMessageCount counts the rest (server.ts:139-142).      *)
(***************************************************************************)
HistoryIsTail ==
    /\ totalMessageCount = Len(log)
    /\ Len(messages) = IF Len(log) < MAX_MESSAGES THEN Len(log) ELSE MAX_MESSAGES
    /\ messages = SubSeq(log, Len(log) - Len(messages) + 1, Len(log))

(***************************************************************************)
(* What a page shows is a stretch of what was accepted, without gap or     *)
(* repetition, right after as many messages as it says are hidden.         *)
(***************************************************************************)
ViewIsStretch ==
    \A p \in Page :
        /\ hidden[p] + Len(view[p]) <= Len(log)
        /\ view[p] = SubSeq(log, hidden[p] + 1, hidden[p] + Len(view[p]))

(***************************************************************************)
(* A page in contact with the server lacks nothing: what it shows, or the  *)
(* backlog on its way, with the messages on their way, is the history up   *)
(* to now.  A message is in the backlog or broadcast, never both, and no   *)
(* broadcast overtakes the backlog or the "open" after it.                 *)
(***************************************************************************)
Ahead(q) == CASE q = <<>> -> 0
              [] q # <<>> /\ Head(q).type = "backlog" -> 2
              [] q # <<>> /\ Head(q).type = "open" -> 1
              [] OTHER -> 0

NothingIsMissed ==
    \A c \in Conn : (Registered(c) /\ peer[c] = "open") =>
        LET news  == SubSeq(down[c], Ahead(down[c]) + 1, Len(down[c]))
            first == IF Ahead(down[c]) = 2 THEN Head(down[c])
                     ELSE Backlog(view[page[c]], hidden[page[c]])
        IN /\ \A i \in DOMAIN news : news[i].type = "message"
           /\ first.messages \o [i \in DOMAIN news |-> news[i].message]
                 = SubSeq(log, first.hiddenCount + 1, Len(log))

(***************************************************************************)
(* Who sends a message sees it in the room, unless the connection ends.    *)
(***************************************************************************)
SentIsShown ==
    \A c \in Conn : \A n \in 1..MaxSent :
        Contains(up[c], [type |-> "chat", id |-> <<c, n>>])
            ~> \/ \E p \in Page : page[c] = p /\ Contains(view[p], <<c, n>>)
               \/ readyState[c] # "open"
               \/ peer[c] # "open"

=============================================================================
