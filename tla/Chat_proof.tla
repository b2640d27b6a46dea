----------------------------- MODULE Chat_proof -----------------------------
(***************************************************************************)
(* Proofs about Chat, for every set of pages and mocks, and every limit on *)
(* the history.                                                            *)
(*                                                                         *)
(* What a page shows says nothing of the next message it will get, so the  *)
(* invariant follows what is in flight to each mock, by positions in the   *)
(* log: at most a backlog and the "open" after it, then broadcasts that go *)
(* on where the backlog, or else the page, ends; and as long as the mock   *)
(* is open at the server they go on to the end of the log.                 *)
(***************************************************************************)
EXTENDS Chat, TLAPS

(* s is what t holds right after its first k elements. *)
Stretch(t, s, k) ==
    /\ k + Len(s) <= Len(t)
    /\ \A i \in 1..Len(s) : s[i] = t[k + i]

(* The backlogs in a queue are stretches of t; "open" follows a backlog, and *)
(* broadcasts follow these.                                                  *)
Formed(q, t) ==
    /\ Ahead(q) <= Len(q)
    /\ Ahead(q) = 2 => /\ q[2] = Open
                       /\ Stretch(t, q[1].messages, q[1].hiddenCount)
    /\ \A i \in 1..Len(q) : i > Ahead(q) => q[i].type = "message"

(* Where in the log a page is that shows v after h hidden messages, once the *)
(* backlog in q has come.                                                    *)
Start(q, v, h) ==
    IF Ahead(q) = 2 THEN q[1].hiddenCount + Len(q[1].messages) ELSE h + Len(v)

(* Where it is when everything in q has come. *)
End(q, v, h) == Start(q, v, h) + Len(q) - Ahead(q)

(* The broadcasts in q go on from there. *)
Continues(q, v, h, t) ==
    /\ End(q, v, h) <= Len(t)
    /\ \A i \in 1..Len(q) :
          i > Ahead(q) => q[i].message = t[Start(q, v, h) + i - Ahead(q)]

-----------------------------------------------------------------------------
(* Stretches and queues. *)

LEMMA StretchIsSubSeq ==
    ASSUME NEW S, NEW t \in Seq(S), NEW s \in Seq(S), NEW k \in Nat,
           Stretch(t, s, k)
    PROVE  s = SubSeq(t, k + 1, k + Len(s))
<1>1. /\ Len(t) \in Nat /\ Len(s) \in Nat
      /\ k + Len(s) <= Len(t)
  BY DEF Stretch
<1>2. DEFINE u == SubSeq(t, k + 1, k + Len(s))
<1>3. u \in Seq(S) /\ Len(u) = Len(s)
  BY <1>1
<1>4. \A i \in 1..Len(s) : u[i] = t[k + i]
  BY <1>1
<1>5. \A i \in 1..Len(s) : s[i] = u[i]
  BY <1>4 DEF Stretch
<1>. HIDE DEF u
<1>6. s = u
  BY <1>3, <1>5
<1>. QED
  BY <1>6 DEF u

LEMMA StretchGrows ==
    ASSUME NEW S, NEW t \in Seq(S), NEW s \in Seq(S), NEW k \in Nat, NEW m \in S,
           Stretch(t, s, k)
    PROVE  Stretch(Append(t, m), s, k)
<1>1. Len(Append(t, m)) = Len(t) + 1 /\ Len(t) \in Nat /\ Len(s) \in Nat
  OBVIOUS
<1>2. \A i \in 1..Len(t) : Append(t, m)[i] = t[i]
  OBVIOUS
<1>3. k + Len(s) <= Len(t) /\ \A i \in 1..Len(s) : s[i] = t[k + i] /\ k + i \in 1..Len(t)
  BY <1>1 DEF Stretch
<1>. QED
  BY <1>1, <1>2, <1>3 DEF Stretch

(* The history is at the end of the log, and KeepLast keeps it there. *)
AtEnd(t, s) ==
    /\ Len(s) = IF Len(t) < MAX_MESSAGES THEN Len(t) ELSE MAX_MESSAGES
    /\ Stretch(t, s, Len(t) - Len(s))

LEMMA KeepLastIsEnd ==
    ASSUME NEW t \in Seq(Message), NEW s \in Seq(Message), NEW m \in Message,
           AtEnd(t, s)
    PROVE  /\ KeepLast(Append(s, m)) \in Seq(Message)
           /\ AtEnd(Append(t, m), KeepLast(Append(s, m)))
<1>. DEFINE a == Append(s, m)
            b == Append(t, m)
            n == Len(a) - MAX_MESSAGES
<1>1. /\ Len(s) \in Nat /\ Len(t) \in Nat /\ MAX_MESSAGES \in Nat \ {0}
      /\ Len(s) = IF Len(t) < MAX_MESSAGES THEN Len(t) ELSE MAX_MESSAGES
  BY ChatAssumption DEF AtEnd
<1>2. \A i \in 1..Len(s) : s[i] = t[Len(t) - Len(s) + i]
  BY DEF AtEnd, Stretch
<1>3. /\ a \in Seq(Message) /\ b \in Seq(Message)
      /\ Len(a) = Len(s) + 1 /\ Len(b) = Len(t) + 1
  OBVIOUS
<1>4. /\ \A i \in 1..Len(s) : a[i] = s[i]
      /\ \A i \in 1..Len(t) : b[i] = t[i]
      /\ a[Len(s) + 1] = m /\ b[Len(t) + 1] = m
  OBVIOUS
<1>. HIDE DEF a, b
<1>5. ASSUME NEW i \in 1..Len(a)
      PROVE  a[i] = b[Len(b) - Len(a) + i]
  <2>1. CASE i = Len(s) + 1
    <3>1. Len(b) - Len(a) + i = Len(t) + 1
      BY <2>1, Len(s) \in Nat, Len(t) \in Nat, <1>3
    <3>. QED
      BY <3>1, <2>1, <1>4
  <2>2. CASE i # Len(s) + 1
    <3>1. /\ i \in 1..Len(s)
          /\ Len(b) - Len(a) + i = Len(t) - Len(s) + i
          /\ Len(t) - Len(s) + i \in 1..Len(t)
      BY <2>2, <1>1, <1>3
    <3>. QED
      BY <3>1, <1>2, <1>4
  <2>. QED
    BY <2>1, <2>2
<1>6. CASE ~(Len(a) > MAX_MESSAGES)
  <2>1. KeepLast(a) = a
    BY <1>6 DEF KeepLast
  <2>2. Len(a) = (IF Len(b) < MAX_MESSAGES THEN Len(b) ELSE MAX_MESSAGES)
    BY <1>6, <1>1, <1>3
  <2>3. Len(b) - Len(a) + Len(a) <= Len(b)
    BY Len(a) \in Nat, Len(b) \in Nat, <1>3
  <2>4. AtEnd(b, a)
    BY <2>2, <2>3, <1>5 DEF AtEnd, Stretch
  <2>. QED
    BY <2>1, <2>4, <1>3 DEF a, b
<1>7. CASE Len(a) > MAX_MESSAGES
  <2>. DEFINE z == SubSeq(a, n + 1, Len(a))
  <2>1. KeepLast(a) = z
    BY <1>7 DEF KeepLast
  <2>2. n = 1 /\ Len(a) = MAX_MESSAGES + 1 /\ Len(b) >= Len(a)
    BY <1>7, <1>1, <1>3
  <2>3. /\ z \in Seq(Message) /\ Len(z) = MAX_MESSAGES
        /\ \A i \in 1..MAX_MESSAGES : z[i] = a[1 + i]
    BY <2>2, <1>1, <1>3
  <2>. HIDE DEF z, n
  <2>4. ASSUME NEW i \in 1..Len(z)
        PROVE  z[i] = b[Len(b) - Len(z) + i]
    <3>1. 1 + i \in 1..Len(a) /\ Len(b) - Len(a) + (1 + i) = Len(b) - Len(z) + i
      BY <2>2, <2>3, <1>1, <1>3
    <3>2. z[i] = a[1 + i]
      BY <2>3
    <3>3. a[1 + i] = b[Len(b) - Len(a) + (1 + i)]
      BY <3>1, <1>5
    <3>. QED
      BY <3>1, <3>2, <3>3
  <2>5. Len(z) = (IF Len(b) < MAX_MESSAGES THEN Len(b) ELSE MAX_MESSAGES)
    BY <2>2, <2>3, <1>1, <1>3
  <2>6. Len(b) - Len(z) + Len(z) <= Len(b)
    BY <2>3, <1>1, <1>3
  <2>7. AtEnd(b, z)
    BY <2>4, <2>5, <2>6 DEF AtEnd, Stretch
  <2>. QED
    BY <2>1, <2>3, <2>7 DEF a, b
<1>. QED
  BY <1>6, <1>7

LEMMA DownTypes ==
    /\ \A m \in Message : Broadcast(m) \in DownMsg
    /\ Open \in DownMsg
    /\ \A ms \in Seq(Message), n \in Nat : Backlog(ms, n) \in DownMsg
    /\ \A d \in DownMsg :
          /\ d.type \in {"backlog", "message", "open"}
          /\ d.type = "backlog" => d.messages \in Seq(Message) /\ d.hiddenCount \in Nat
          /\ d.type = "message" => d.message \in Message
BY DEF DownMsg, Broadcast, Open, Backlog

LEMMA DownFields ==
    /\ \A m : Broadcast(m).type = "message" /\ Broadcast(m).message = m
    /\ Open.type = "open"
    /\ \A ms, n : /\ Backlog(ms, n).type = "backlog"
                  /\ Backlog(ms, n).messages = ms
                  /\ Backlog(ms, n).hiddenCount = n
BY DEF Broadcast, Open, Backlog

LEMMA AheadIs ==
    ASSUME NEW q \in Seq(DownMsg)
    PROVE  /\ Ahead(q) \in {0, 1, 2}
           /\ q = <<>> => Ahead(q) = 0
           /\ q # <<>> => /\ Ahead(q) = 2 <=> q[1].type = "backlog"
                          /\ Ahead(q) = 1 <=> q[1].type = "open"
<1>1. CASE q = <<>>
  BY <1>1 DEF Ahead
<1>2. CASE q # <<>>
  <2>1. Head(q) = q[1]
    BY <1>2
  <2>. QED
    BY <1>2, <2>1 DEF Ahead
<1>. QED
  BY <1>1, <1>2

LEMMA EmptyFlight ==
    ASSUME NEW t \in Seq(Message)
    PROVE  Formed(<<>>, t)
<1>1. Ahead(<<>>) = 0 /\ Len(<<>>) = 0
  BY DEF Ahead
<1>. QED
  BY <1>1 DEF Formed

(* A message is accepted, and broadcast or not. *)
LEMMA FormedGrows ==
    ASSUME NEW q \in Seq(DownMsg), NEW t \in Seq(Message), NEW m \in Message,
           Formed(q, t)
    PROVE  Formed(q, Append(t, m))
<1>1. ASSUME Ahead(q) = 2
      PROVE  Stretch(Append(t, m), q[1].messages, q[1].hiddenCount)
  <2>1. q # <<>> /\ q[1] \in DownMsg /\ q[1].type = "backlog"
    BY <1>1, AheadIs DEF Formed
  <2>2. q[1].messages \in Seq(Message) /\ q[1].hiddenCount \in Nat
    BY <2>1, DownTypes
  <2>. QED
    BY <1>1, <2>2, StretchGrows DEF Formed
<1>. QED
  BY <1>1 DEF Formed

LEMMA BroadcastIsLast ==
    ASSUME NEW q \in Seq(DownMsg), NEW m \in Message, Ahead(q) <= Len(q)
    PROVE  LET a == Append(q, Broadcast(m)) IN
           /\ a \in Seq(DownMsg) /\ Len(a) = Len(q) + 1
           /\ Ahead(a) = Ahead(q)
           /\ \A i \in 1..Len(q) : a[i] = q[i]
           /\ a[Len(q) + 1].type = "message"
           /\ a[Len(q) + 1].message = m
<1>. DEFINE a == Append(q, Broadcast(m))
<1>1. /\ a \in Seq(DownMsg) /\ Len(a) = Len(q) + 1
      /\ \A i \in 1..Len(q) : a[i] = q[i]
      /\ a[Len(q) + 1] = Broadcast(m)
      /\ a # <<>>
  BY DownTypes
<1>. HIDE DEF a
<1>2. a[Len(q) + 1].type = "message" /\ a[Len(q) + 1].message = m
  BY <1>1, DownFields
<1>3. Ahead(a) = Ahead(q)
  <2>1. CASE q = <<>>
    <3>1. a[1].type = "message"
      BY <2>1, <1>1, <1>2
    <3>. QED
      BY <3>1, <2>1, <1>1, AheadIs
  <2>2. CASE q # <<>>
    <3>1. a[1] = q[1]
      BY <2>2, <1>1
    <3>. QED
      BY <3>1, <2>2, <1>1, AheadIs
  <2>. QED
    BY <2>1, <2>2
<1>. QED
  BY <1>1, <1>2, <1>3 DEF a

LEMMA FormedWithBroadcast ==
    ASSUME NEW q \in Seq(DownMsg), NEW t \in Seq(Message), NEW m \in Message,
           Formed(q, t)
    PROVE  Formed(Append(q, Broadcast(m)), Append(t, m))
<1>. DEFINE a == Append(q, Broadcast(m))
            b == Append(t, m)
<1>1. Formed(q, b)
  BY FormedGrows
<1>2. /\ a \in Seq(DownMsg) /\ Len(a) = Len(q) + 1
      /\ Ahead(a) = Ahead(q)
      /\ \A i \in 1..Len(q) : a[i] = q[i]
      /\ a[Len(q) + 1].type = "message"
  BY BroadcastIsLast DEF Formed
<1>. HIDE DEF a, b
<1>3. Len(q) \in Nat /\ Ahead(q) \in {0, 1, 2} /\ Ahead(q) <= Len(q)
  BY AheadIs DEF Formed
<1>4. ASSUME NEW i \in 1..Len(a), i > Ahead(a)
      PROVE  a[i].type = "message"
  <2>1. i \in 1..Len(q) \/ i = Len(q) + 1
    BY <1>2, <1>3
  <2>. QED
    BY <2>1, <1>1, <1>2, <1>4 DEF Formed
<1>5. ASSUME Ahead(a) = 2
      PROVE  a[2] = Open /\ Stretch(b, a[1].messages, a[1].hiddenCount)
  <2>1. a[1] = q[1] /\ a[2] = q[2]
    BY <1>5, <1>2, <1>3
  <2>. QED
    BY <2>1, <1>1, <1>2, <1>5 DEF Formed
<1>6. Ahead(a) <= Len(a)
  BY <1>2, <1>3
<1>7. Formed(a, b)
  BY <1>4, <1>5, <1>6 DEF Formed
<1>. QED
  BY <1>7 DEF a, b

LEMMA StartIsNat ==
    ASSUME NEW q \in Seq(DownMsg), NEW v \in Seq(Message), NEW h \in Nat,
           Ahead(q) <= Len(q)
    PROVE  Start(q, v, h) \in Nat
<1>1. CASE Ahead(q) = 2
  <2>1. q # <<>> /\ q[1] \in DownMsg /\ q[1].type = "backlog"
    BY <1>1, AheadIs
  <2>. QED
    BY <1>1, <2>1, DownTypes DEF Start
<1>2. CASE Ahead(q) # 2
  BY <1>2 DEF Start
<1>. QED
  BY <1>1, <1>2

LEMMA ContinuesGrows ==
    ASSUME NEW q \in Seq(DownMsg), NEW t \in Seq(Message), NEW m \in Message,
           NEW v \in Seq(Message), NEW h \in Nat,
           Formed(q, t), Continues(q, v, h, t)
    PROVE  Continues(q, v, h, Append(t, m))
<1>. DEFINE b == Append(t, m)
            k == Start(q, v, h)
            n == Ahead(q)
<1>1. k \in Nat /\ n \in {0, 1, 2} /\ Len(q) \in Nat /\ Len(t) \in Nat /\ n <= Len(q)
  <2>1. n <= Len(q)
    BY DEF Formed
  <2>2. k \in Nat
    BY <2>1, StartIsNat
  <2>. QED
    BY <2>1, <2>2, AheadIs
<1>2. Len(b) = Len(t) + 1 /\ \A i \in 1..Len(t) : b[i] = t[i]
  OBVIOUS
<1>3. /\ k + Len(q) - n <= Len(t)
      /\ \A i \in 1..Len(q) : i > n => q[i].message = t[k + i - n]
  BY DEF Continues, End
<1>. HIDE DEF b, k, n
<1>4. ASSUME NEW i \in 1..Len(q), i > n
      PROVE  q[i].message = b[k + i - n]
  <2>1. k + i - n \in 1..Len(t)
    BY <1>1, <1>3, <1>4
  <2>. QED
    BY <2>1, <1>2, <1>3, <1>4
<1>5. k + Len(q) - n <= Len(b)
  BY <1>1, <1>2, <1>3
<1>. QED
  BY <1>4, <1>5 DEF Continues, End, b, k, n

LEMMA ContinuesWithBroadcast ==
    ASSUME NEW q \in Seq(DownMsg), NEW t \in Seq(Message), NEW m \in Message,
           NEW v \in Seq(Message), NEW h \in Nat,
           Formed(q, t), Continues(q, v, h, t), End(q, v, h) = Len(t)
    PROVE  LET a == Append(q, Broadcast(m))
               b == Append(t, m)
           IN Continues(a, v, h, b) /\ End(a, v, h) = Len(b)
<1>. DEFINE a == Append(q, Broadcast(m))
            b == Append(t, m)
            k == Start(q, v, h)
            n == Ahead(q)
<1>1. k \in Nat /\ n \in {0, 1, 2} /\ Len(q) \in Nat /\ Len(t) \in Nat /\ n <= Len(q)
  <2>1. n <= Len(q)
    BY DEF Formed
  <2>2. k \in Nat
    BY <2>1, StartIsNat
  <2>. QED
    BY <2>1, <2>2, AheadIs
<1>2. /\ a \in Seq(DownMsg) /\ Len(a) = Len(q) + 1
      /\ Ahead(a) = n
      /\ \A i \in 1..Len(q) : a[i] = q[i]
      /\ a[Len(q) + 1].message = m
  BY BroadcastIsLast DEF Formed
<1>3. Len(b) = Len(t) + 1 /\ b[Len(t) + 1] = m
  OBVIOUS
<1>4. /\ k + Len(q) - n = Len(t)
      /\ \A i \in 1..Len(q) : i > n => q[i].message = b[k + i - n]
  BY ContinuesGrows DEF Continues, End
<1>5. Start(a, v, h) = k
  <2>1. CASE n = 2
    <3>1. a[1] = q[1]
      BY <2>1, <1>1, <1>2
    <3>. QED
      BY <3>1, <1>2, <2>1 DEF Start
  <2>2. CASE n # 2
    BY <2>2, <1>2 DEF Start
  <2>. QED
    BY <2>1, <2>2
<1>. HIDE DEF a, b, k, n
<1>6. End(a, v, h) = Len(b)
  BY <1>1, <1>2, <1>3, <1>4, <1>5 DEF End
<1>7. ASSUME NEW i \in 1..Len(a), i > n
      PROVE  a[i].message = b[k + i - n]
  <2>1. CASE i \in 1..Len(q)
    BY <2>1, <1>2, <1>4, <1>7
  <2>2. CASE i = Len(q) + 1
    <3>1. k + i - n = Len(t) + 1
      BY <2>2, <1>1, <1>4
    <3>. QED
      BY <3>1, <2>2, <1>2, <1>3
  <2>. QED
    BY <2>1, <2>2, <1>1, <1>2
<1>8. Len(b) <= Len(b)
  BY <1>1, <1>3
<1>9. Continues(a, v, h, b)
  BY <1>2, <1>5, <1>6, <1>7, <1>8 DEF Continues
<1>. QED
  BY <1>6, <1>9 DEF a, b

(* The "connection" handler sends the end of the log. *)
LEMMA BacklogStarts ==
    ASSUME NEW t \in Seq(Message), NEW ms \in Seq(Message), AtEnd(t, ms),
           NEW v \in Seq(Message), NEW h \in Nat
    PROVE  LET q == <<>> \o <<Backlog(ms, Len(t) - Len(ms)), Open>> IN
           /\ q \in Seq(DownMsg)
           /\ Formed(q, t)
           /\ Continues(q, v, h, t)
           /\ End(q, v, h) = Len(t)
<1>. DEFINE n == Len(t) - Len(ms)
            q == <<>> \o <<Backlog(ms, n), Open>>
<1>1. n \in Nat /\ n + Len(ms) = Len(t)
  BY ChatAssumption DEF AtEnd
<1>2. /\ Len(q) = 2 /\ q[1] = Backlog(ms, n) /\ q[2] = Open
      /\ q \in Seq(DownMsg)
  BY <1>1, DownTypes
<1>3. Stretch(t, ms, n)
  BY DEF AtEnd
<1>. HIDE DEF q, n
<1>4. Ahead(q) = 2
  BY <1>2, AheadIs, DownFields
<1>5. q[1].messages = ms /\ q[1].hiddenCount = n
  BY <1>2, DownFields
<1>6. Formed(q, t)
  BY <1>2, <1>3, <1>4, <1>5 DEF Formed
<1>7. Start(q, v, h) = Len(t)
  BY <1>1, <1>4, <1>5 DEF Start
<1>8. End(q, v, h) = Len(t) /\ Len(t) <= Len(t)
  BY <1>2, <1>4, <1>7 DEF End
<1>9. Continues(q, v, h, t)
  BY <1>2, <1>4, <1>8 DEF Continues
<1>. QED
  BY <1>2, <1>6, <1>8, <1>9 DEF q, n

LEMMA TailAhead ==
    ASSUME NEW q \in Seq(DownMsg), NEW t \in Seq(Message), Formed(q, t), q # <<>>
    PROVE  /\ Tail(q) \in Seq(DownMsg)
           /\ Len(Tail(q)) = Len(q) - 1
           /\ \A i \in 1..Len(Tail(q)) : Tail(q)[i] = q[i + 1]
           /\ Ahead(Tail(q)) = IF Ahead(q) = 0 THEN 0 ELSE Ahead(q) - 1
<1>. DEFINE u == Tail(q)
<1>1. /\ u \in Seq(DownMsg)
      /\ Len(u) = Len(q) - 1
      /\ \A i \in 1..Len(u) : u[i] = q[i + 1]
      /\ Len(q) \in Nat /\ Len(q) >= 1
  OBVIOUS
<1>. HIDE DEF u
<1>2. /\ Ahead(q) \in {0, 1, 2} /\ Ahead(q) <= Len(q)
      /\ Ahead(q) = 2 => q[2] = Open
      /\ \A i \in 1..Len(q) : i > Ahead(q) => q[i].type = "message"
  BY AheadIs DEF Formed
<1>3. CASE Ahead(q) = 2
  <2>1. u # <<>> /\ u[1].type = "open"
    BY <1>1, <1>2, <1>3, DownFields
  <2>2. Ahead(u) = 1
    BY <1>1, <2>1, AheadIs
  <2>. QED
    BY <1>1, <1>3, <2>2 DEF u
<1>4. CASE Ahead(q) # 2
  <2>1. u # <<>> => u[1].type = "message"
    <3>1. HAVE u # <<>>
    <3>2. 1 \in 1..Len(u) /\ 2 \in 1..Len(q) /\ 2 > Ahead(q)
      BY <3>1, <1>1, <1>2, <1>4
    <3>. QED
      BY <3>2, <1>1, <1>2
  <2>2. Ahead(u) = 0
    BY <2>1, <1>1, AheadIs
  <2>. QED
    BY <1>1, <1>2, <1>4, <2>2 DEF u
<1>. QED
  BY <1>3, <1>4

(* The page takes the first item, or drops it. *)
LEMMA FormedTail ==
    ASSUME NEW q \in Seq(DownMsg), NEW t \in Seq(Message), Formed(q, t), q # <<>>
    PROVE  Formed(Tail(q), t)
<1>. DEFINE u == Tail(q)
<1>1. /\ u \in Seq(DownMsg)
      /\ Len(u) = Len(q) - 1
      /\ \A i \in 1..Len(u) : u[i] = q[i + 1]
      /\ Ahead(u) = IF Ahead(q) = 0 THEN 0 ELSE Ahead(q) - 1
  BY TailAhead
<1>2. Ahead(q) \in {0, 1, 2} /\ Len(q) \in Nat /\ Len(q) >= 1 /\ Ahead(q) <= Len(q)
  <2>1. Ahead(q) <= Len(q)
    BY DEF Formed
  <2>. QED
    BY <2>1, AheadIs
<1>. HIDE DEF u
<1>3. ASSUME NEW i \in 1..Len(u), i > Ahead(u)
      PROVE  u[i].type = "message"
  <2>1. i + 1 \in 1..Len(q) /\ i + 1 > Ahead(q)
    BY <1>1, <1>2, <1>3
  <2>. QED
    BY <2>1, <1>1 DEF Formed
<1>4. Ahead(u) <= Len(u) /\ Ahead(u) # 2
  BY <1>1, <1>2
<1>5. Formed(u, t)
  BY <1>3, <1>4 DEF Formed
<1>. QED
  BY <1>5 DEF u

(* What is left of a queue continues from what was shown of it. *)
LEMMA RestContinues ==
    ASSUME NEW q \in Seq(DownMsg), NEW t \in Seq(Message), Formed(q, t), q # <<>>,
           NEW v \in Seq(Message), NEW h \in Nat, Continues(q, v, h, t),
           NEW w \in Seq(Message), NEW g \in Nat,
           Ahead(q) = 0 => g + Len(w) = Start(q, v, h) + 1,
           Ahead(q) # 0 => g + Len(w) = Start(q, v, h)
    PROVE  /\ Continues(Tail(q), w, g, t)
           /\ End(Tail(q), w, g) = End(q, v, h)
<1>. DEFINE u == Tail(q)
            k == Start(q, v, h)
            n == Ahead(q)
<1>1. /\ Len(u) = Len(q) - 1
      /\ \A i \in 1..Len(u) : u[i] = q[i + 1]
      /\ Ahead(u) = IF n = 0 THEN 0 ELSE n - 1
  BY TailAhead
<1>2. k \in Nat /\ n \in {0, 1, 2} /\ Len(q) \in Nat /\ Len(q) >= 1 /\ Len(t) \in Nat
  <2>1. n <= Len(q)
    BY DEF Formed
  <2>2. k \in Nat
    BY <2>1, StartIsNat
  <2>. QED
    BY <2>1, <2>2, AheadIs
<1>3. Ahead(u) # 2
  BY <1>1, <1>2
<1>4. Start(u, w, g) = IF n = 0 THEN k + 1 ELSE k
  BY <1>3 DEF Start
<1>5. /\ k + Len(q) - n <= Len(t)
      /\ \A i \in 1..Len(q) : i > n => q[i].message = t[k + i - n]
  BY DEF Continues, End
<1>. HIDE DEF u, k, n
<1>6. Start(u, w, g) - Ahead(u) = k - n + 1 /\ Ahead(u) \in {0, 1}
  BY <1>1, <1>2, <1>4
<1>7. End(u, w, g) = k + Len(q) - n
  <2>. DEFINE x == Start(u, w, g)
              y == Ahead(u)
              l == Len(q)
  <2>1. End(u, w, g) = x + (l - 1) - y
    BY <1>1 DEF End
  <2>2. /\ x \in Nat /\ y \in Nat /\ k \in Nat /\ n \in Nat /\ l \in Nat
        /\ x - y = k - n + 1
    BY <1>2, <1>4, <1>6
  <2>. HIDE DEF x, y, l
  <2>3. x + (l - 1) - y = k + l - n
    BY <2>2
  <2>. QED
    BY <2>1, <2>3 DEF l
<1>8. ASSUME NEW i \in 1..Len(u), i > Ahead(u)
      PROVE  u[i].message = t[Start(u, w, g) + i - Ahead(u)]
  <2>1. i + 1 \in 1..Len(q) /\ i + 1 > n
    BY <1>1, <1>2, <1>8
  <2>2. Start(u, w, g) + i - Ahead(u) = k + (i + 1) - n
    BY <1>2, <1>4, <1>6
  <2>. QED
    BY <2>1, <2>2, <1>1, <1>5
<1>9. End(u, w, g) <= Len(t)
  BY <1>5, <1>7
<1>. QED
  BY <1>7, <1>8, <1>9 DEF Continues, End, u, k, n

LEMMA BacklogTaken ==
    ASSUME NEW q \in Seq(DownMsg), NEW t \in Seq(Message), Formed(q, t), q # <<>>,
           q[1].type = "backlog"
    PROVE  /\ q[1].messages \in Seq(Message) /\ q[1].hiddenCount \in Nat
           /\ Stretch(t, q[1].messages, q[1].hiddenCount)
           /\ \A v \in Seq(Message), h \in Nat : Continues(q, v, h, t) =>
                 /\ Continues(Tail(q), q[1].messages, q[1].hiddenCount, t)
                 /\ End(Tail(q), q[1].messages, q[1].hiddenCount) = End(q, v, h)
<1>. DEFINE w == q[1].messages
            g == q[1].hiddenCount
<1>1. Ahead(q) = 2
  BY AheadIs
<1>2. q[1] \in DownMsg
  OBVIOUS
<1>3. w \in Seq(Message) /\ g \in Nat
  BY <1>2, DownTypes
<1>4. Stretch(t, w, g)
  BY <1>1 DEF Formed
<1>5. ASSUME NEW v \in Seq(Message), NEW h \in Nat, Continues(q, v, h, t)
      PROVE  Continues(Tail(q), w, g, t) /\ End(Tail(q), w, g) = End(q, v, h)
  <2>1. Start(q, v, h) = g + Len(w)
    BY <1>1 DEF Start
  <2>. HIDE DEF w, g
  <2>. QED
    BY <1>1, <1>3, <1>5, <2>1, RestContinues
<1>. QED
  BY <1>3, <1>4, <1>5

LEMMA OpenTaken ==
    ASSUME NEW q \in Seq(DownMsg), NEW t \in Seq(Message), Formed(q, t), q # <<>>,
           q[1].type = "open",
           NEW v \in Seq(Message), NEW h \in Nat, Continues(q, v, h, t)
    PROVE  /\ Continues(Tail(q), v, h, t)
           /\ End(Tail(q), v, h) = End(q, v, h)
<1>1. Ahead(q) = 1
  BY AheadIs
<1>2. Start(q, v, h) = h + Len(v)
  BY <1>1 DEF Start
<1>. QED
  BY <1>1, <1>2, RestContinues

LEMMA MessageTaken ==
    ASSUME NEW q \in Seq(DownMsg), NEW t \in Seq(Message), Formed(q, t), q # <<>>,
           q[1].type = "message",
           NEW v \in Seq(Message), NEW h \in Nat, Stretch(t, v, h),
           Continues(q, v, h, t)
    PROVE  LET w == Append(v, q[1].message) IN
           /\ w \in Seq(Message)
           /\ Stretch(t, w, h)
           /\ Continues(Tail(q), w, h, t)
           /\ End(Tail(q), w, h) = End(q, v, h)
<1>. DEFINE m == q[1].message
            w == Append(v, m)
<1>1. Ahead(q) = 0 /\ Len(q) \in Nat /\ Len(q) >= 1
  BY AheadIs
<1>2. q[1] \in DownMsg
  OBVIOUS
<1>3. m \in Message
  BY <1>2, DownTypes
<1>4. /\ w \in Seq(Message) /\ Len(w) = Len(v) + 1 /\ Len(v) \in Nat
      /\ \A i \in 1..Len(v) : w[i] = v[i]
      /\ w[Len(v) + 1] = m
  BY <1>3
<1>5. Start(q, v, h) = h + Len(v)
  BY <1>1 DEF Start
<1>6. h + Len(v) + Len(q) <= Len(t) /\ m = t[h + Len(v) + 1]
  <2>1. h + Len(v) + Len(q) - 0 <= Len(t)
    BY <1>1, <1>5 DEF Continues, End
  <2>2. 1 \in 1..Len(q) /\ 1 > Ahead(q)
    BY <1>1
  <2>3. m = t[Start(q, v, h) + 1 - Ahead(q)]
    BY <2>2 DEF Continues
  <2>. QED
    BY <2>1, <2>3, <1>1, <1>4, <1>5
<1>. HIDE DEF m, w
<1>7. Stretch(t, w, h)
  <2>1. h + Len(w) <= Len(t)
    BY <1>1, <1>4, <1>6
  <2>2. ASSUME NEW i \in 1..Len(w)
        PROVE  w[i] = t[h + i]
    <3>1. CASE i = Len(v) + 1
      <4>1. h + i = h + Len(v) + 1
        BY <3>1, <1>4
      <4>. QED
        BY <4>1, <3>1, <1>4, <1>6
    <3>2. CASE i \in 1..Len(v)
      BY <3>2, <1>4 DEF Stretch
    <3>. QED
      BY <3>1, <3>2, <1>4
  <2>. QED
    BY <2>1, <2>2 DEF Stretch
<1>8. Ahead(q) = 0 /\ h + Len(w) = Start(q, v, h) + 1
  BY <1>1, <1>4, <1>5
<1>9. Continues(Tail(q), w, h, t) /\ End(Tail(q), w, h) = End(q, v, h)
  <2>1. w \in Seq(Message)
    BY <1>4
  <2>. QED
    BY <2>1, <1>8, RestContinues
<1>. QED
  BY <1>4, <1>7, <1>9 DEF m, w

-----------------------------------------------------------------------------
(* The invariant. *)

HistoryInv == totalMessageCount = Len(log) /\ AtEnd(log, messages)

(* A mock that is registered is the one its page holds, so that the queues of *)
(* two mocks never feed one page.                                             *)
MockIsHeld ==
    /\ \A c \in Conn : page[c] = NoPage => readyState[c] = "new" /\ c \notin asked
    /\ \A c \in Conn : Registered(c) => page[c] \in Page /\ wsRef[page[c]] = c
    /\ \A p \in Page : wsRef[p] # NoConn => page[wsRef[p]] = p

(* A mock asks for its connection once: its backlog is the first thing it is *)
(* ever sent.                                                                *)
Asks(c, i) == up[c][i].type = "connect"

AskedOnce ==
    \A c \in Conn :
        /\ c \notin asked => peer[c] = "none"
        /\ c \notin asked \/ peer[c] # "none" => \A i \in 1..Len(up[c]) : ~Asks(c, i)
        /\ \A i, j \in 1..Len(up[c]) : Asks(c, i) /\ Asks(c, j) => i = j

FlightIsFormed ==
    \A c \in Conn :
        /\ peer[c] = "none" => down[c] = <<>>
        /\ Formed(down[c], log)

FlightContinues ==
    \A c \in Conn : Registered(c) =>
        /\ Continues(down[c], view[page[c]], hidden[page[c]], log)
        /\ peer[c] = "open" =>
              End(down[c], view[page[c]], hidden[page[c]]) = Len(log)

ViewsAreStretches == \A p \in Page : Stretch(log, view[p], hidden[p])

IInv ==
    /\ TypeOK
    /\ HistoryInv
    /\ MockIsHeld
    /\ AskedOnce
    /\ FlightIsFormed
    /\ FlightContinues
    /\ ViewsAreStretches

LEMMA InitIInv == Init => IInv
<1>. SUFFICES ASSUME Init
              PROVE  IInv
  OBVIOUS
<1>1. TypeOK
  BY ChatAssumption DEF Init, TypeOK
<1>2. HistoryInv
  BY ChatAssumption DEF Init, HistoryInv, AtEnd, Stretch
<1>3. MockIsHeld
  BY DEF Init, MockIsHeld, Registered
<1>4. AskedOnce
  BY DEF Init, AskedOnce
<1>5. FlightIsFormed
  <2>1. <<>> \in Seq(Message)
    OBVIOUS
  <2>2. Formed(<<>>, <<>>)
    BY <2>1, EmptyFlight
  <2>. QED
    BY <2>2 DEF Init, FlightIsFormed
<1>6. FlightContinues
  BY DEF Init, FlightContinues, Registered
<1>7. ViewsAreStretches
  BY DEF Init, ViewsAreStretches, Stretch
<1>. QED
  BY <1>1, <1>2, <1>3, <1>4, <1>5, <1>6, <1>7 DEF IInv

-----------------------------------------------------------------------------
(* The steps of the server. *)

LEMMA TakenFromUp ==
    ASSUME IInv, NEW c \in Conn, up[c] # <<>>,
           up' = [up EXCEPT ![c] = Tail(@)]
    PROVE  /\ Head(up[c]) \in UpMsg /\ Head(up[c]) = up[c][1] /\ 1 \in 1..Len(up[c])
           /\ up' \in [Conn -> Seq(UpMsg)]
           /\ Len(up'[c]) = Len(up[c]) - 1
           /\ \A i \in 1..Len(up'[c]) : up'[c][i] = up[c][i + 1] /\ i + 1 \in 1..Len(up[c])
           /\ \A x \in Conn : x # c => up'[x] = up[x]
<1>1. up \in [Conn -> Seq(UpMsg)] /\ up[c] \in Seq(UpMsg)
  BY DEF IInv, TypeOK
<1>2. /\ Tail(up[c]) \in Seq(UpMsg) /\ Len(Tail(up[c])) = Len(up[c]) - 1
      /\ \A i \in 1..Len(Tail(up[c])) : Tail(up[c])[i] = up[c][i + 1]
      /\ Len(up[c]) \in Nat /\ Len(up[c]) >= 1
      /\ Head(up[c]) \in UpMsg /\ Head(up[c]) = up[c][1]
  BY <1>1
<1>3. up'[c] = Tail(up[c]) /\ \A x \in Conn : x # c => up'[x] = up[x]
  BY <1>1
<1>4. up' \in [Conn -> Seq(UpMsg)]
  BY <1>1, <1>2
<1>. QED
  BY <1>2, <1>3, <1>4

LEMMA AskedStaysOnce ==
    ASSUME IInv, NEW c \in Conn, up[c] # <<>>,
           up' = [up EXCEPT ![c] = Tail(@)],
           UNCHANGED asked,
           \A x \in Conn : \/ peer'[x] = peer[x]
                           \/ x = c /\ (peer[c] # "none" \/ Asks(c, 1))
    PROVE  AskedOnce'
<1>1. /\ 1 \in 1..Len(up[c])
      /\ \A i \in 1..Len(up'[c]) : up'[c][i] = up[c][i + 1] /\ i + 1 \in 1..Len(up[c])
      /\ \A x \in Conn : x # c => up'[x] = up[x]
  BY TakenFromUp
<1>2. AskedOnce
  BY DEF IInv
<1>3. ASSUME NEW x \in Conn, x # c
      PROVE  /\ x \notin asked => peer'[x] = "none"
             /\ x \notin asked \/ peer'[x] # "none" => \A i \in 1..Len(up'[x]) : up'[x][i].type # "connect"
             /\ \A i, j \in 1..Len(up'[x]) : up'[x][i].type = "connect" /\ up'[x][j].type = "connect" => i = j
  BY <1>1, <1>2, <1>3 DEF AskedOnce, Asks
<1>4. c \notin asked => peer'[c] = "none"
  BY <1>1, <1>2 DEF AskedOnce, Asks
<1>5. ASSUME c \notin asked \/ peer'[c] # "none", NEW i \in 1..Len(up'[c])
      PROVE  up'[c][i].type # "connect"
  <2>1. CASE Asks(c, 1)
    <3>1. i + 1 # 1 /\ i + 1 \in 1..Len(up[c])
      BY <1>1
    <3>2. ~Asks(c, i + 1)
      BY <3>1, <2>1, <1>1, <1>2 DEF AskedOnce
    <3>. QED
      BY <3>2, <1>1 DEF Asks
  <2>2. CASE ~Asks(c, 1)
    <3>1. c \notin asked \/ peer[c] # "none"
      BY <2>2, <1>5
    <3>2. ~Asks(c, i + 1)
      BY <3>1, <1>1, <1>2 DEF AskedOnce
    <3>. QED
      BY <3>2, <1>1 DEF Asks
  <2>. QED
    BY <2>1, <2>2
<1>6. ASSUME NEW i \in 1..Len(up'[c]), NEW j \in 1..Len(up'[c]),
             up'[c][i].type = "connect", up'[c][j].type = "connect"
      PROVE  i = j
  <2>1. Asks(c, i + 1) /\ Asks(c, j + 1)
    BY <1>1, <1>6 DEF Asks
  <2>2. i + 1 = j + 1
    BY <2>1, <1>1, <1>2 DEF AskedOnce
  <2>. QED
    BY <2>2
<1>7. ASSUME NEW x \in Conn
      PROVE  /\ x \notin asked => peer'[x] = "none"
             /\ x \notin asked \/ peer'[x] # "none" => \A i \in 1..Len(up'[x]) : up'[x][i].type # "connect"
             /\ \A i, j \in 1..Len(up'[x]) : up'[x][i].type = "connect" /\ up'[x][j].type = "connect" => i = j
  <2>1. CASE x = c
    BY <2>1, <1>4, <1>5, <1>6, ZenonT(40)
  <2>2. CASE x # c
    BY <2>2, <1>3
  <2>. QED
    BY <2>1, <2>2
<1>. QED
  BY <1>7 DEF AskedOnce, Asks

(* What a step leaves alone keeps the parts of the invariant that speak of it. *)
LEMMA HistoryKept ==
    ASSUME IInv, UNCHANGED serverVars
    PROVE  HistoryInv'
BY DEF IInv, HistoryInv, serverVars

LEMMA MocksKept ==
    ASSUME IInv, UNCHANGED <<page, readyState, asked, wsRef>>
    PROVE  MockIsHeld'
BY DEF IInv, MockIsHeld, Registered

LEMMA ViewsKept ==
    ASSUME IInv, UNCHANGED <<log, view, hidden>>
    PROVE  ViewsAreStretches'
BY DEF IInv, ViewsAreStretches

LEMMA RegisteredPage ==
    ASSUME IInv, NEW c \in Conn, Registered(c)
    PROVE  /\ page[c] \in Page
           /\ view[page[c]] \in Seq(Message)
           /\ hidden[page[c]] \in Nat
           /\ Stretch(log, view[page[c]], hidden[page[c]])
           /\ Continues(down[c], view[page[c]], hidden[page[c]], log)
           /\ peer[c] = "open" =>
                 End(down[c], view[page[c]], hidden[page[c]]) = Len(log)
<1>1. page[c] \in Page
  BY DEF IInv, MockIsHeld
<1>. QED
  BY <1>1 DEF IInv, TypeOK, ViewsAreStretches, FlightContinues

LEMMA ConnectionStep ==
    ASSUME IInv, NEW c \in Conn, up[c] # <<>>, Head(up[c]).type = "connect",
           up' = [up EXCEPT ![c] = Tail(@)], OnConnection(c),
           UNCHANGED <<page, readyState, asked, ending, pageVars>>
    PROVE  IInv'
<1>1. /\ Head(up[c]) = up[c][1] /\ 1 \in 1..Len(up[c])
      /\ up' \in [Conn -> Seq(UpMsg)]
  BY TakenFromUp
<1>2. Asks(c, 1)
  BY <1>1 DEF Asks
<1>3. peer[c] = "none" /\ down[c] = <<>>
  BY <1>1, <1>2 DEF IInv, AskedOnce, FlightIsFormed
<1>. DEFINE n == Len(log) - Len(messages)
            q == <<>> \o <<Backlog(messages, n), Open>>
<1>4. hiddenCount = n
  BY DEF IInv, HistoryInv, hiddenCount
<1>5. /\ down \in [Conn -> Seq(DownMsg)] /\ peer \in [Conn -> {"none", "open", "closed"}]
      /\ log \in Seq(Message) /\ messages \in Seq(Message) /\ AtEnd(log, messages)
  BY DEF IInv, TypeOK, HistoryInv
<1>6. /\ down' = [down EXCEPT ![c] = q]
      /\ peer' = [peer EXCEPT ![c] = "open"]
      /\ UNCHANGED serverVars
  BY <1>3, <1>4, <1>5 DEF OnConnection
<1>7. /\ q \in Seq(DownMsg) /\ Formed(q, log)
      /\ \A v \in Seq(Message), h \in Nat :
            Continues(q, v, h, log) /\ End(q, v, h) = Len(log)
  BY <1>5, BacklogStarts
<1>. HIDE DEF n, q
<1>8. /\ down' \in [Conn -> Seq(DownMsg)]
      /\ peer' \in [Conn -> {"none", "open", "closed"}]
      /\ down'[c] = q /\ peer'[c] = "open"
      /\ \A x \in Conn : x # c => down'[x] = down[x] /\ peer'[x] = peer[x]
  BY <1>5, <1>6, <1>7
<1>9. TypeOK'
  BY <1>1, <1>6, <1>8 DEF IInv, TypeOK, pageVars, serverVars
<1>10. HistoryInv' /\ MockIsHeld' /\ ViewsAreStretches'
  BY <1>6, HistoryKept, MocksKept, ViewsKept DEF pageVars, serverVars
<1>11. AskedOnce'
  BY <1>2, <1>8, AskedStaysOnce
<1>12. FlightIsFormed'
  BY <1>6, <1>7, <1>8 DEF IInv, FlightIsFormed, serverVars
<1>13. FlightContinues'
  <2>. SUFFICES ASSUME NEW x \in Conn, Registered(x)
                PROVE  /\ Continues(down'[x], view[page[x]], hidden[page[x]], log)
                       /\ peer'[x] = "open" =>
                             End(down'[x], view[page[x]], hidden[page[x]]) = Len(log)
    BY <1>6 DEF FlightContinues, Registered, pageVars, serverVars
  <2>1. /\ view[page[x]] \in Seq(Message) /\ hidden[page[x]] \in Nat
        /\ Continues(down[x], view[page[x]], hidden[page[x]], log)
        /\ peer[x] = "open" => End(down[x], view[page[x]], hidden[page[x]]) = Len(log)
    BY RegisteredPage
  <2>2. CASE x = c
    BY <2>1, <2>2, <1>7, <1>8
  <2>3. CASE x # c
    BY <2>1, <2>3, <1>8
  <2>. QED
    BY <2>2, <2>3
<1>. QED
  BY <1>9, <1>10, <1>11, <1>12, <1>13 DEF IInv

LEMMA ChatStep ==
    ASSUME IInv, NEW c \in Conn, up[c] # <<>>, Head(up[c]).type = "chat",
           up' = [up EXCEPT ![c] = Tail(@)], OnChat(c, Head(up[c]).id),
           UNCHANGED <<page, readyState, asked, ending, pageVars>>
    PROVE  IInv'
<1>. DEFINE m == Head(up[c]).id
<1>1. Head(up[c]) \in UpMsg /\ up' \in [Conn -> Seq(UpMsg)]
  BY TakenFromUp
<1>2. m \in Message
  BY <1>1 DEF UpMsg
<1>. HIDE DEF m
<1>3. /\ log' = Append(log, m)
      /\ messages' = KeepLast(Append(messages, m))
      /\ totalMessageCount' = totalMessageCount + 1
      /\ down' = [x \in Conn |-> IF peer[x] = "open"
                                 THEN Append(down[x], Broadcast(m)) ELSE down[x]]
      /\ peer' = peer
  BY DEF OnChat, m
<1>4. /\ log \in Seq(Message) /\ messages \in Seq(Message)
      /\ down \in [Conn -> Seq(DownMsg)]
      /\ totalMessageCount = Len(log) /\ AtEnd(log, messages)
  BY DEF IInv, TypeOK, HistoryInv
<1>5. messages' \in Seq(Message) /\ AtEnd(log', messages')
  BY <1>2, <1>3, <1>4, KeepLastIsEnd
<1>6. log' \in Seq(Message) /\ Len(log') = Len(log) + 1
  BY <1>2, <1>3, <1>4
<1>7. /\ down' \in [Conn -> Seq(DownMsg)]
      /\ \A x \in Conn : down'[x] = IF peer[x] = "open"
                                    THEN Append(down[x], Broadcast(m)) ELSE down[x]
  <2>1. \A x \in Conn : Append(down[x], Broadcast(m)) \in Seq(DownMsg)
    BY <1>2, <1>4, DownTypes
  <2>. QED
    BY <2>1, <1>3, <1>4
<1>8. totalMessageCount' = Len(log') /\ totalMessageCount' \in Nat
  BY <1>3, <1>4, <1>6
<1>9. TypeOK'
  BY <1>1, <1>3, <1>5, <1>6, <1>7, <1>8 DEF IInv, TypeOK, pageVars
<1>10. HistoryInv' /\ MockIsHeld'
  BY <1>5, <1>8, MocksKept DEF HistoryInv, pageVars
<1>11. AskedOnce'
  BY <1>3, AskedStaysOnce
<1>12. ViewsAreStretches'
  <2>1. \A p \in Page : /\ view[p] \in Seq(Message) /\ hidden[p] \in Nat
                        /\ Stretch(log, view[p], hidden[p])
    BY DEF IInv, TypeOK, ViewsAreStretches
  <2>2. \A p \in Page : Stretch(log', view[p], hidden[p])
    BY <2>1, <1>2, <1>3, <1>4, StretchGrows
  <2>. QED
    BY <2>2 DEF ViewsAreStretches, pageVars
<1>13. FlightIsFormed'
  <2>1. ASSUME NEW x \in Conn
        PROVE  (peer[x] = "none" => down'[x] = <<>>) /\ Formed(down'[x], log')
    <3>1. down[x] \in Seq(DownMsg) /\ Formed(down[x], log)
      BY <1>4 DEF IInv, FlightIsFormed
    <3>2. CASE peer[x] = "open"
      <4>1. Formed(Append(down[x], Broadcast(m)), Append(log, m))
        BY <3>1, <1>2, <1>4, FormedWithBroadcast
      <4>. QED
        BY <4>1, <3>2, <1>3, <1>7
    <3>3. CASE peer[x] # "open"
      <4>1. Formed(down[x], Append(log, m))
        BY <3>1, <1>2, <1>4, FormedGrows
      <4>. QED
        BY <4>1, <3>3, <1>3, <1>7 DEF IInv, FlightIsFormed
    <3>. QED
      BY <3>2, <3>3
  <2>. QED
    BY <2>1, <1>3 DEF FlightIsFormed
<1>14. FlightContinues'
  <2>. SUFFICES ASSUME NEW x \in Conn, Registered(x)
                PROVE  /\ Continues(down'[x], view[page[x]], hidden[page[x]], log')
                       /\ peer[x] = "open" =>
                             End(down'[x], view[page[x]], hidden[page[x]]) = Len(log')
    BY <1>3 DEF FlightContinues, Registered, pageVars
  <2>. DEFINE v == view[page[x]]
              h == hidden[page[x]]
  <2>1. /\ v \in Seq(Message) /\ h \in Nat
        /\ Continues(down[x], v, h, log)
        /\ peer[x] = "open" => End(down[x], v, h) = Len(log)
    BY RegisteredPage
  <2>2. down[x] \in Seq(DownMsg) /\ Formed(down[x], log)
    BY <1>4 DEF IInv, FlightIsFormed
  <2>. HIDE DEF v, h
  <2>3. CASE peer[x] = "open"
    <3>1. /\ Continues(Append(down[x], Broadcast(m)), v, h, Append(log, m))
          /\ End(Append(down[x], Broadcast(m)), v, h) = Len(Append(log, m))
      BY <2>1, <2>2, <2>3, <1>2, <1>4, ContinuesWithBroadcast
    <3>. QED
      BY <3>1, <2>3, <1>3, <1>7 DEF v, h
  <2>4. CASE peer[x] # "open"
    <3>1. Continues(down[x], v, h, Append(log, m))
      BY <2>1, <2>2, <1>2, <1>4, ContinuesGrows
    <3>. QED
      BY <3>1, <2>4, <1>3, <1>7 DEF v, h
  <2>. QED
    BY <2>3, <2>4
<1>. QED
  BY <1>9, <1>10, <1>11, <1>12, <1>13, <1>14 DEF IInv

(* An end of the server's ends nothing that is in flight to the page. *)
LEMMA PeerEnds ==
    ASSUME IInv, AskedOnce', up' \in [Conn -> Seq(UpMsg)],
           NEW c \in Conn,
           peer' = peer \/ (peer[c] = "open" /\ peer' = [peer EXCEPT ![c] = "closed"]),
           UNCHANGED <<serverVars, page, readyState, asked, ending, down, pageVars>>
    PROVE  IInv'
<1>1. /\ peer' \in [Conn -> {"none", "open", "closed"}]
      /\ \A x \in Conn : peer'[x] = peer[x] \/ (peer[x] = "open" /\ peer'[x] = "closed")
  BY DEF IInv, TypeOK
<1>2. TypeOK'
  BY <1>1 DEF IInv, TypeOK, pageVars, serverVars
<1>3. HistoryInv' /\ MockIsHeld' /\ ViewsAreStretches'
  BY HistoryKept, MocksKept, ViewsKept DEF pageVars, serverVars
<1>4. FlightIsFormed'
  BY <1>1 DEF IInv, FlightIsFormed, serverVars
<1>5. FlightContinues'
  BY <1>1 DEF IInv, FlightContinues, Registered, serverVars, pageVars
<1>. QED
  BY <1>2, <1>3, <1>4, <1>5 DEF IInv

LEMMA ToServerStep ==
    ASSUME IInv, NEW c \in Conn, ToServer(c)
    PROVE  IInv'
<1>. DEFINE m == Head(up[c])
<1>1. /\ up[c] # <<>> /\ up' = [up EXCEPT ![c] = Tail(@)]
      /\ UNCHANGED <<page, readyState, asked, ending, pageVars>>
  BY DEF ToServer
<1>2. up' \in [Conn -> Seq(UpMsg)]
  BY <1>1, TakenFromUp
<1>3. CASE m.type = "connect" /\ OnConnection(c)
  BY <1>1, <1>3, ConnectionStep
<1>4. CASE m.type = "chat" /\ peer[c] = "open" /\ OnChat(c, m.id)
  BY <1>1, <1>4, ChatStep
<1>5. CASE m.type = "chat" /\ peer[c] # "open" /\ UNCHANGED <<serverVars, peer, down>>
  <2>1. AskedOnce'
    BY <1>1, <1>5, AskedStaysOnce
  <2>. QED
    BY <2>1, <1>1, <1>2, <1>5, PeerEnds
<1>6. CASE /\ m.type = "close"
           /\ peer' = [peer EXCEPT ![c] = IF @ = "open" THEN "closed" ELSE @]
           /\ UNCHANGED <<serverVars, down>>
  <2>1. peer' = peer \/ (peer[c] = "open" /\ peer' = [peer EXCEPT ![c] = "closed"])
    BY <1>6 DEF IInv, TypeOK
  <2>2. \A x \in Conn : peer'[x] = peer[x] \/ (x = c /\ peer[c] # "none")
    BY <2>1 DEF IInv, TypeOK
  <2>3. AskedOnce'
    BY <2>2, <1>1, AskedStaysOnce
  <2>. QED
    BY <2>1, <2>3, <1>1, <1>2, <1>6, PeerEnds
<1>. QED
  BY <1>3, <1>4, <1>5, <1>6 DEF ToServer

LEMMA ServerEndsStep ==
    ASSUME IInv, NEW c \in Conn, ServerEnds(c)
    PROVE  IInv'
<1>1. /\ up' \in [Conn -> Seq(UpMsg)]
      /\ up'[c] = <<>> /\ \A x \in Conn : x # c => up'[x] = up[x]
      /\ peer[c] = "open" /\ peer' = [peer EXCEPT ![c] = "closed"]
      /\ \A x \in Conn : x # c => peer'[x] = peer[x]
      /\ asked' = asked
  BY DEF IInv, TypeOK, ServerEnds
<1>2. c \in asked
  BY <1>1 DEF IInv, AskedOnce
<1>3. AskedOnce'
  <2>. SUFFICES ASSUME NEW x \in Conn
                PROVE  /\ x \notin asked => peer'[x] = "none"
                       /\ x \notin asked \/ peer'[x] # "none" =>
                             \A i \in 1..Len(up'[x]) : up'[x][i].type # "connect"
                       /\ \A i, j \in 1..Len(up'[x]) :
                             up'[x][i].type = "connect" /\ up'[x][j].type = "connect" => i = j
    BY <1>1 DEF AskedOnce, Asks
  <2>1. CASE x = c
    BY <2>1, <1>1, <1>2
  <2>2. CASE x # c
    BY <2>2, <1>1 DEF IInv, AskedOnce, Asks
  <2>. QED
    BY <2>1, <2>2
<1>. QED
  BY <1>1, <1>3, PeerEnds DEF ServerEnds

-----------------------------------------------------------------------------
(* The steps of the page. *)

LEMMA SentUp ==
    ASSUME IInv, NEW c \in Conn, NEW m \in UpMsg, SendUp(c, m)
    PROVE  /\ up' \in [Conn -> Seq(UpMsg)]
           /\ Len(up'[c]) = Len(up[c]) + 1 /\ Len(up[c]) \in Nat
           /\ \A i \in 1..Len(up[c]) : up'[c][i] = up[c][i]
           /\ up'[c][Len(up[c]) + 1] = m
           /\ \A x \in Conn : x # c => up'[x] = up[x]
<1>1. up \in [Conn -> Seq(UpMsg)] /\ up[c] \in Seq(UpMsg)
  BY DEF IInv, TypeOK
<1>2. /\ Append(up[c], m) \in Seq(UpMsg) /\ Len(Append(up[c], m)) = Len(up[c]) + 1
      /\ \A i \in 1..Len(up[c]) : Append(up[c], m)[i] = up[c][i]
      /\ Append(up[c], m)[Len(up[c]) + 1] = m
      /\ Len(up[c]) \in Nat
  BY <1>1
<1>3. up' = [up EXCEPT ![c] = Append(@, m)]
  BY DEF SendUp
<1>4. up'[c] = Append(up[c], m) /\ \A x \in Conn : x # c => up'[x] = up[x]
  BY <1>1, <1>3
<1>5. up' \in [Conn -> Seq(UpMsg)]
  BY <1>1, <1>2, <1>3
<1>. QED
  BY <1>2, <1>4, <1>5

(* Anything may be sent but a second "connect". *)
LEMMA AskedOnceSends ==
    ASSUME IInv, NEW c \in Conn, NEW m \in UpMsg, SendUp(c, m), UNCHANGED peer,
           \/ m.type # "connect" /\ asked' = asked
           \/ c \notin asked /\ asked' = asked \cup {c}
    PROVE  AskedOnce'
<1>1. /\ Len(up'[c]) = Len(up[c]) + 1 /\ Len(up[c]) \in Nat
      /\ \A i \in 1..Len(up[c]) : up'[c][i] = up[c][i]
      /\ up'[c][Len(up[c]) + 1] = m
      /\ \A x \in Conn : x # c => up'[x] = up[x]
  BY SentUp
<1>2. /\ AskedOnce
      /\ \A x \in Conn : x # c => (x \in asked' <=> x \in asked)
  BY DEF IInv
<1>3. ASSUME NEW i \in 1..Len(up'[c])
      PROVE  \/ i \in 1..Len(up[c]) /\ up'[c][i] = up[c][i]
             \/ i = Len(up[c]) + 1 /\ up'[c][i] = m
  <2>1. i \in 1..Len(up[c]) \/ i = Len(up[c]) + 1
    BY <1>1
  <2>. QED
    BY <2>1, <1>1
<1>4. c \notin asked' => peer[c] = "none"
  BY <1>2 DEF AskedOnce
<1>5. ASSUME c \notin asked' \/ peer[c] # "none", NEW i \in 1..Len(up'[c])
      PROVE  up'[c][i].type # "connect"
  <2>1. m.type # "connect" /\ asked' = asked
    BY <1>2, <1>5 DEF AskedOnce
  <2>2. i \in 1..Len(up[c]) => up[c][i].type # "connect"
    BY <2>1, <1>2, <1>5 DEF AskedOnce, Asks
  <2>. QED
    BY <2>1, <2>2, <1>3
<1>6. ASSUME NEW i \in 1..Len(up'[c]), NEW j \in 1..Len(up'[c]),
             up'[c][i].type = "connect", up'[c][j].type = "connect"
      PROVE  i = j
  <2>1. CASE m.type # "connect"
    <3>1. /\ i \in 1..Len(up[c]) /\ up[c][i].type = "connect"
          /\ j \in 1..Len(up[c]) /\ up[c][j].type = "connect"
      BY <2>1, <1>3, <1>6
    <3>. QED
      BY <3>1, <1>2 DEF AskedOnce, Asks
  <2>2. CASE c \notin asked
    <3>1. \A k \in 1..Len(up[c]) : up[c][k].type # "connect"
      BY <2>2, <1>2 DEF AskedOnce, Asks
    <3>2. i = Len(up[c]) + 1 /\ j = Len(up[c]) + 1
      BY <3>1, <1>3, <1>6
    <3>. QED
      BY <3>2
  <2>. QED
    BY <2>1, <2>2
<1>7. ASSUME NEW x \in Conn
      PROVE  /\ x \notin asked' => peer[x] = "none"
             /\ x \notin asked' \/ peer[x] # "none" => \A i \in 1..Len(up'[x]) : up'[x][i].type # "connect"
             /\ \A i, j \in 1..Len(up'[x]) : up'[x][i].type = "connect" /\ up'[x][j].type = "connect" => i = j
  <2>1. CASE x = c
    BY <2>1, <1>4, <1>5, <1>6
  <2>2. CASE x # c
    BY <2>2, <1>1, <1>2 DEF AskedOnce, Asks
  <2>. QED
    BY <2>1, <2>2
<1>. QED
  BY <1>7 DEF AskedOnce, Asks

LEMMA AskedOnceKept ==
    ASSUME IInv, UNCHANGED <<up, peer>>, asked \subseteq asked'
    PROVE  AskedOnce'
BY DEF IInv, AskedOnce, Asks

LEMMA NothingContinues ==
    ASSUME NEW t \in Seq(Message), NEW v \in Seq(Message), NEW h \in Nat,
           Stretch(t, v, h)
    PROVE  Continues(<<>>, v, h, t)
<1>1. Ahead(<<>>) = 0 /\ Len(<<>>) = 0
  BY DEF Ahead
<1>2. Start(<<>>, v, h) = h + Len(v)
  BY <1>1 DEF Start
<1>3. End(<<>>, v, h) = h + Len(v)
  BY <1>1, <1>2 DEF End
<1>. QED
  BY <1>1, <1>3 DEF Continues, Stretch

LEMMA MountStep ==
    ASSUME IInv, NEW p \in Page, Mount(p)
    PROVE  IInv'
<1>. DEFINE c == CHOOSE c \in Conn : page[c] = NoPage
<1>1. c \in Conn /\ page[c] = NoPage
  BY DEF Mount
<1>2. /\ wsRef[p] = NoConn
      /\ page' = [page EXCEPT ![c] = p]
      /\ wsRef' = [wsRef EXCEPT ![p] = c]
      /\ readyState' = [readyState EXCEPT ![c] = "connecting"]
      /\ UNCHANGED <<serverVars, peer, asked, ending, up, down, view, hidden,
                     connected, sent>>
  BY DEF Mount
<1>. HIDE DEF c
<1>3. /\ page' \in [Conn -> Page \cup {NoPage}]
      /\ page'[c] = p /\ \A x \in Conn : x # c => page'[x] = page[x]
      /\ wsRef' \in [Page -> Conn \cup {NoConn}]
      /\ wsRef'[p] = c /\ \A y \in Page : y # p => wsRef'[y] = wsRef[y]
      /\ readyState' \in [Conn -> {"new", "connecting", "open", "closing", "closed"}]
      /\ readyState'[c] = "connecting" /\ \A x \in Conn : x # c => readyState'[x] = readyState[x]
  BY <1>1, <1>2 DEF IInv, TypeOK
<1>4. TypeOK'
  BY <1>2, <1>3 DEF IInv, TypeOK, serverVars
<1>5. HistoryInv' /\ AskedOnce' /\ ViewsAreStretches'
  BY <1>2, HistoryKept, AskedOnceKept, ViewsKept DEF serverVars
<1>6. peer[c] = "none" /\ down[c] = <<>>
  BY <1>1 DEF IInv, MockIsHeld, AskedOnce, FlightIsFormed
<1>7. \A x \in Conn : x # c => (Registered(x)' <=> Registered(x))
  BY <1>3 DEF Registered
<1>8. MockIsHeld'
  <2>1. \A x \in Conn : page'[x] = NoPage => readyState'[x] = "new" /\ x \notin asked
    BY <1>3, ChatAssumption DEF IInv, MockIsHeld
  <2>2. ASSUME NEW x \in Conn, Registered(x)'
        PROVE  page'[x] \in Page /\ wsRef'[page'[x]] = x
    <3>1. CASE x = c
      BY <3>1, <1>3
    <3>2. CASE x # c
      <4>1. page[x] \in Page /\ wsRef[page[x]] = x
        BY <3>2, <2>2, <1>7 DEF IInv, MockIsHeld
      <4>2. page[x] # p
        BY <4>1, <1>2, ChatAssumption
      <4>. QED
        BY <3>2, <4>1, <4>2, <1>3
    <3>. QED
      BY <3>1, <3>2
  <2>3. ASSUME NEW y \in Page, wsRef'[y] # NoConn
        PROVE  page'[wsRef'[y]] = y
    <3>1. CASE y = p
      BY <3>1, <1>3
    <3>2. CASE y # p
      <4>1. wsRef[y] \in Conn /\ page[wsRef[y]] = y
        BY <3>2, <2>3, <1>3 DEF IInv, TypeOK, MockIsHeld
      <4>2. wsRef[y] # c
        BY <4>1, <1>1, ChatAssumption
      <4>. QED
        BY <3>2, <4>1, <4>2, <1>3
    <3>. QED
      BY <3>1, <3>2
  <2>. QED
    BY <2>1, <2>2, <2>3, <1>2 DEF MockIsHeld
<1>9. FlightIsFormed'
  BY <1>2 DEF IInv, FlightIsFormed, serverVars
<1>10. FlightContinues'
  <2>. SUFFICES ASSUME NEW x \in Conn, Registered(x)'
                PROVE  /\ Continues(down[x], view[page'[x]], hidden[page'[x]], log)
                       /\ peer[x] = "open" =>
                             End(down[x], view[page'[x]], hidden[page'[x]]) = Len(log)
    BY <1>2 DEF FlightContinues, serverVars
  <2>1. CASE x = c
    <3>1. /\ log \in Seq(Message) /\ view[p] \in Seq(Message) /\ hidden[p] \in Nat
          /\ Stretch(log, view[p], hidden[p])
      BY DEF IInv, TypeOK, ViewsAreStretches
    <3>2. Continues(<<>>, view[p], hidden[p], log)
      BY <3>1, NothingContinues
    <3>. QED
      BY <2>1, <3>2, <1>3, <1>6
  <2>2. CASE x # c
    <3>1. Registered(x) /\ page'[x] = page[x]
      BY <2>2, <1>3, <1>7
    <3>. QED
      BY <3>1, RegisteredPage
  <2>. QED
    BY <2>1, <2>2
<1>. QED
  BY <1>4, <1>5, <1>8, <1>9, <1>10 DEF IInv

LEMMA UnmountStep ==
    ASSUME IInv, NEW p \in Page, Unmount(p)
    PROVE  IInv'
<1>. DEFINE c == wsRef[p]
            close == [type |-> "close"]
<1>1. c \in Conn /\ page[c] = p
  BY DEF IInv, TypeOK, MockIsHeld, Unmount
<1>2. /\ wsRef' = [wsRef EXCEPT ![p] = NoConn]
      /\ readyState' = [readyState EXCEPT ![c] = IF Registered(c) THEN "closing" ELSE @]
      /\ UNCHANGED up \/ SendUp(c, close)
      /\ UNCHANGED <<serverVars, peer, page, asked, ending, down, view, hidden,
                     connected, sent>>
  BY DEF Unmount
<1>3. close \in UpMsg /\ close.type # "connect"
  BY DEF UpMsg
<1>. HIDE DEF c, close
<1>4. up' \in [Conn -> Seq(UpMsg)]
  <2>1. CASE UNCHANGED up
    BY <2>1 DEF IInv, TypeOK
  <2>2. CASE SendUp(c, close)
    BY <2>2, <1>1, <1>3, SentUp
  <2>. QED
    BY <2>1, <2>2, <1>2
<1>5. AskedOnce'
  <2>1. CASE UNCHANGED up
    BY <2>1, <1>2, AskedOnceKept
  <2>2. CASE SendUp(c, close)
    BY <2>2, <1>1, <1>2, <1>3, AskedOnceSends
  <2>. QED
    BY <2>1, <2>2, <1>2
<1>6. /\ wsRef' \in [Page -> Conn \cup {NoConn}]
      /\ wsRef'[p] = NoConn /\ \A y \in Page : y # p => wsRef'[y] = wsRef[y]
      /\ readyState' \in [Conn -> {"new", "connecting", "open", "closing", "closed"}]
      /\ \A x \in Conn : x # c => readyState'[x] = readyState[x]
  BY <1>1, <1>2 DEF IInv, TypeOK
<1>7. /\ readyState'[c] \notin {"connecting", "open"}
      /\ readyState[c] = "new" => readyState'[c] = "new"
  BY <1>1, <1>2 DEF IInv, TypeOK, Registered
<1>8. \A x \in Conn : Registered(x)' => x # c /\ Registered(x)
  BY <1>6, <1>7 DEF Registered
<1>9. TypeOK'
  BY <1>2, <1>4, <1>6 DEF IInv, TypeOK, serverVars
<1>10. HistoryInv' /\ ViewsAreStretches'
  BY <1>2, HistoryKept, ViewsKept DEF serverVars
<1>11. MockIsHeld'
  <2>1. \A x \in Conn : page[x] = NoPage => readyState'[x] = "new" /\ x \notin asked
    BY <1>6, <1>7 DEF IInv, MockIsHeld
  <2>2. ASSUME NEW x \in Conn, Registered(x)'
        PROVE  page[x] \in Page /\ wsRef'[page[x]] = x
    <3>1. x # c /\ page[x] \in Page /\ wsRef[page[x]] = x
      BY <2>2, <1>8 DEF IInv, MockIsHeld
    <3>2. page[x] # p
      BY <3>1 DEF c
    <3>. QED
      BY <3>1, <3>2, <1>6
  <2>3. \A y \in Page : wsRef'[y] # NoConn => page[wsRef'[y]] = y
    BY <1>6 DEF IInv, MockIsHeld
  <2>. QED
    BY <2>1, <2>2, <2>3, <1>2 DEF MockIsHeld
<1>12. FlightIsFormed'
  BY <1>2 DEF IInv, FlightIsFormed, serverVars
<1>13. FlightContinues'
  BY <1>2, <1>8 DEF IInv, FlightContinues, serverVars
<1>. QED
  BY <1>5, <1>9, <1>10, <1>11, <1>12, <1>13 DEF IInv

LEMMA ConnectStep ==
    ASSUME IInv, NEW c \in Conn, Connect(c)
    PROVE  IInv'
<1>. DEFINE m == [type |-> "connect"]
<1>1. /\ page[c] # NoPage /\ c \notin asked /\ asked' = asked \cup {c}
      /\ UNCHANGED <<serverVars, peer, page, readyState, ending, down, wsRef, view,
                     hidden, sent>>
  BY DEF Connect
<1>2. m \in UpMsg
  BY DEF UpMsg
<1>3. /\ up' \in [Conn -> Seq(UpMsg)]
      /\ connected' \in [Page -> BOOLEAN]
      /\ AskedOnce'
  <2>1. CASE SendUp(c, m) /\ UNCHANGED connected
    <3>. HIDE DEF m
    <3>1. up' \in [Conn -> Seq(UpMsg)]
      BY <2>1, <1>2, SentUp
    <3>2. AskedOnce'
      BY <2>1, <1>1, <1>2, AskedOnceSends
    <3>. QED
      BY <3>1, <3>2, <2>1 DEF IInv, TypeOK
  <2>2. CASE connected' = [connected EXCEPT ![page[c]] = FALSE] /\ UNCHANGED up
    <3>1. AskedOnce'
      BY <2>2, <1>1, AskedOnceKept
    <3>. QED
      BY <3>1, <2>2 DEF IInv, TypeOK
  <2>. QED
    BY <2>1, <2>2 DEF Connect
<1>4. TypeOK'
  BY <1>1, <1>3 DEF IInv, TypeOK, serverVars
<1>5. HistoryInv' /\ ViewsAreStretches'
  BY <1>1, HistoryKept, ViewsKept DEF serverVars
<1>6. MockIsHeld'
  BY <1>1 DEF IInv, MockIsHeld, Registered
<1>7. FlightIsFormed' /\ FlightContinues'
  BY <1>1 DEF IInv, FlightIsFormed, FlightContinues, Registered, serverVars
<1>. QED
  BY <1>3, <1>4, <1>5, <1>6, <1>7 DEF IInv

LEMMA TakenFromDown ==
    ASSUME IInv, NEW c \in Conn, down[c] # <<>>,
           down' = [down EXCEPT ![c] = Tail(@)],
           UNCHANGED <<log, peer>>
    PROVE  /\ down[c] \in Seq(DownMsg) /\ log \in Seq(Message) /\ Formed(down[c], log)
           /\ Head(down[c]) = down[c][1]
           /\ down' \in [Conn -> Seq(DownMsg)]
           /\ down'[c] = Tail(down[c])
           /\ \A x \in Conn : x # c => down'[x] = down[x]
           /\ FlightIsFormed'
<1>1. /\ down \in [Conn -> Seq(DownMsg)] /\ down[c] \in Seq(DownMsg)
      /\ log \in Seq(Message) /\ Formed(down[c], log)
  BY DEF IInv, TypeOK, FlightIsFormed
<1>2. Tail(down[c]) \in Seq(DownMsg) /\ Head(down[c]) = down[c][1]
  BY <1>1
<1>3. /\ down' \in [Conn -> Seq(DownMsg)]
      /\ down'[c] = Tail(down[c])
      /\ \A x \in Conn : x # c => down'[x] = down[x]
  BY <1>1, <1>2
<1>4. Formed(Tail(down[c]), log)
  BY <1>1, FormedTail
<1>5. ASSUME NEW x \in Conn
      PROVE  (peer[x] = "none" => down'[x] = <<>>) /\ Formed(down'[x], log)
  <2>1. CASE x = c
    BY <2>1, <1>3, <1>4 DEF IInv, FlightIsFormed
  <2>2. CASE x # c
    BY <2>2, <1>3 DEF IInv, FlightIsFormed
  <2>. QED
    BY <2>1, <2>2
<1>6. FlightIsFormed'
  BY <1>5 DEF FlightIsFormed
<1>. QED
  BY <1>1, <1>2, <1>3, <1>6

(* A page is shown the rest of a queue: no other page is, since it has no *)
(* other mock that is registered.                                         *)
LEMMA Shown ==
    ASSUME IInv, NEW c \in Conn, Registered(c), down[c] # <<>>,
           down' = [down EXCEPT ![c] = Tail(@)],
           UNCHANGED <<serverVars, peer, page, asked, ending, up, wsRef, sent>>,
           readyState' \in [Conn -> {"new", "connecting", "open", "closing", "closed"}],
           \A x \in Conn : \/ readyState'[x] = readyState[x]
                           \/ Registered(x) /\ readyState'[x] = "open",
           connected' \in [Page -> BOOLEAN],
           NEW v \in Seq(Message), NEW h \in Nat, Stretch(log, v, h),
           view' = [view EXCEPT ![page[c]] = v],
           hidden' = [hidden EXCEPT ![page[c]] = h],
           Continues(Tail(down[c]), v, h, log),
           peer[c] = "open" => End(Tail(down[c]), v, h) = Len(log)
    PROVE  IInv'
<1>1. page[c] \in Page
  BY RegisteredPage
<1>2. /\ down' \in [Conn -> Seq(DownMsg)]
      /\ down'[c] = Tail(down[c])
      /\ \A x \in Conn : x # c => down'[x] = down[x]
      /\ FlightIsFormed'
  BY TakenFromDown DEF serverVars
<1>3. /\ view' \in [Page -> Seq(Message)] /\ hidden' \in [Page -> Nat]
      /\ view'[page[c]] = v /\ hidden'[page[c]] = h
      /\ \A y \in Page : y # page[c] => view'[y] = view[y] /\ hidden'[y] = hidden[y]
  BY <1>1 DEF IInv, TypeOK
<1>4. \A x \in Conn : Registered(x)' <=> Registered(x)
  BY DEF Registered
<1>5. TypeOK'
  BY <1>2, <1>3 DEF IInv, TypeOK, serverVars
<1>6. HistoryInv' /\ AskedOnce'
  BY HistoryKept, AskedOnceKept
<1>7. MockIsHeld'
  BY <1>4 DEF IInv, MockIsHeld, Registered
<1>8. ViewsAreStretches'
  BY <1>3 DEF IInv, ViewsAreStretches, serverVars
<1>9. FlightContinues'
  <2>. SUFFICES ASSUME NEW x \in Conn, Registered(x)
                PROVE  /\ Continues(down'[x], view'[page[x]], hidden'[page[x]], log)
                       /\ peer[x] = "open" =>
                             End(down'[x], view'[page[x]], hidden'[page[x]]) = Len(log)
    BY <1>4 DEF FlightContinues, serverVars
  <2>1. CASE x = c
    BY <2>1, <1>2, <1>3
  <2>2. CASE x # c
    <3>1. page[x] \in Page /\ page[x] # page[c]
      BY <2>2 DEF IInv, MockIsHeld
    <3>. QED
      BY <3>1, <2>2, <1>2, <1>3, RegisteredPage
  <2>. QED
    BY <2>1, <2>2
<1>. QED
  BY <1>2, <1>5, <1>6, <1>7, <1>8, <1>9 DEF IInv

LEMMA ToPageStep ==
    ASSUME IInv, NEW c \in Conn, ToPage(c)
    PROVE  IInv'
<1>. DEFINE m == down[c][1]
            p == page[c]
<1>1. /\ down[c] # <<>> /\ down' = [down EXCEPT ![c] = Tail(@)]
      /\ UNCHANGED <<serverVars, peer, page, asked, ending, up, wsRef, sent>>
  BY DEF ToPage
<1>2. /\ down[c] \in Seq(DownMsg) /\ log \in Seq(Message) /\ Formed(down[c], log)
      /\ Head(down[c]) = m
      /\ down' \in [Conn -> Seq(DownMsg)]
      /\ down'[c] = Tail(down[c])
      /\ \A x \in Conn : x # c => down'[x] = down[x]
      /\ FlightIsFormed'
  BY <1>1, TakenFromDown DEF serverVars
<1>3. /\ readyState \in [Conn -> {"new", "connecting", "open", "closing", "closed"}]
      /\ connected \in [Page -> BOOLEAN]
      /\ view \in [Page -> Seq(Message)] /\ hidden \in [Page -> Nat]
  BY DEF IInv, TypeOK
<1>4. CASE Registered(c) /\ m.type = "backlog" /\ OnMessage(p, m) /\ UNCHANGED <<readyState, connected>>
  <2>1. /\ p \in Page /\ view[p] \in Seq(Message) /\ hidden[p] \in Nat
        /\ Continues(down[c], view[p], hidden[p], log)
        /\ peer[c] = "open" => End(down[c], view[p], hidden[p]) = Len(log)
    BY <1>4, RegisteredPage
  <2>2. /\ view' = [view EXCEPT ![p] = m.messages]
        /\ hidden' = [hidden EXCEPT ![p] = m.hiddenCount]
    BY <1>4 DEF OnMessage
  <2>3. /\ m.messages \in Seq(Message) /\ m.hiddenCount \in Nat
        /\ Stretch(log, m.messages, m.hiddenCount)
        /\ Continues(Tail(down[c]), m.messages, m.hiddenCount, log)
        /\ End(Tail(down[c]), m.messages, m.hiddenCount) = End(down[c], view[p], hidden[p])
    BY <2>1, <1>1, <1>2, <1>4, BacklogTaken
  <2>4. \A x \in Conn : readyState'[x] = readyState[x]
    BY <1>4
  <2>. QED
    BY <2>1, <2>2, <2>3, <2>4, <1>1, <1>3, <1>4, Shown
<1>5. CASE Registered(c) /\ m.type = "message" /\ OnMessage(p, m) /\ UNCHANGED <<readyState, connected>>
  <2>1. /\ p \in Page /\ view[p] \in Seq(Message) /\ hidden[p] \in Nat
        /\ Stretch(log, view[p], hidden[p])
        /\ Continues(down[c], view[p], hidden[p], log)
        /\ peer[c] = "open" => End(down[c], view[p], hidden[p]) = Len(log)
    BY <1>5, RegisteredPage
  <2>2. view' = [view EXCEPT ![p] = Append(@, m.message)] /\ hidden' = hidden
    BY <1>5 DEF OnMessage
  <2>. DEFINE w == Append(view[p], m.message)
  <2>3. view' = [view EXCEPT ![p] = w] /\ hidden' = [hidden EXCEPT ![p] = hidden[p]]
    BY <2>1, <2>2, <1>3
  <2>4. /\ w \in Seq(Message) /\ Stretch(log, w, hidden[p])
        /\ Continues(Tail(down[c]), w, hidden[p], log)
        /\ End(Tail(down[c]), w, hidden[p]) = End(down[c], view[p], hidden[p])
    BY <2>1, <1>1, <1>2, <1>5, MessageTaken
  <2>5. \A x \in Conn : readyState'[x] = readyState[x]
    BY <1>5
  <2>. HIDE DEF w
  <2>. QED
    BY <2>1, <2>3, <2>4, <2>5, <1>1, <1>3, <1>5, Shown
<1>6. CASE /\ Registered(c) /\ m.type = "open"
           /\ readyState' = [readyState EXCEPT ![c] = "open"]
           /\ connected' = [connected EXCEPT ![p] = TRUE]
           /\ UNCHANGED <<view, hidden>>
  <2>1. /\ p \in Page /\ view[p] \in Seq(Message) /\ hidden[p] \in Nat
        /\ Stretch(log, view[p], hidden[p])
        /\ Continues(down[c], view[p], hidden[p], log)
        /\ peer[c] = "open" => End(down[c], view[p], hidden[p]) = Len(log)
    BY <1>6, RegisteredPage
  <2>2. /\ view' = [view EXCEPT ![p] = view[p]]
        /\ hidden' = [hidden EXCEPT ![p] = hidden[p]]
    BY <2>1, <1>3, <1>6
  <2>3. /\ readyState' \in [Conn -> {"new", "connecting", "open", "closing", "closed"}]
        /\ connected' \in [Page -> BOOLEAN]
        /\ \A x \in Conn : \/ readyState'[x] = readyState[x]
                           \/ Registered(x) /\ readyState'[x] = "open"
    BY <1>3, <1>6
  <2>4. /\ Continues(Tail(down[c]), view[p], hidden[p], log)
        /\ End(Tail(down[c]), view[p], hidden[p]) = End(down[c], view[p], hidden[p])
    BY <2>1, <1>1, <1>2, <1>6, OpenTaken
  <2>5. Registered(c) /\ down[c] # <<>>
    BY <1>1, <1>6
  <2>6. peer[c] = "open" => End(Tail(down[c]), view[p], hidden[p]) = Len(log)
    BY <2>1, <2>4
  <2>. QED
    BY <2>1, <2>2, <2>3, <2>4, <2>5, <2>6, <1>1, Shown
<1>7. CASE ~Registered(c) /\ UNCHANGED <<readyState, connected, view, hidden>>
  <2>1. TypeOK'
    BY <1>1, <1>2, <1>7 DEF IInv, TypeOK, serverVars
  <2>2. HistoryInv' /\ AskedOnce' /\ MockIsHeld' /\ ViewsAreStretches'
    BY <1>1, <1>7, HistoryKept, AskedOnceKept, MocksKept, ViewsKept DEF serverVars
  <2>3. FlightContinues'
    BY <1>1, <1>2, <1>7 DEF IInv, FlightContinues, Registered, serverVars
  <2>. QED
    BY <1>2, <2>1, <2>2, <2>3 DEF IInv
<1>8. Registered(c) /\ m.type # "open" /\ OnMessage(p, m) => m.type \in {"backlog", "message"}
  BY DEF OnMessage
<1>. QED
  BY <1>2, <1>4, <1>5, <1>6, <1>7, <1>8 DEF ToPage

LEMMA SendMessageStep ==
    ASSUME IInv, NEW p \in Page, SendMessage(p)
    PROVE  IInv'
<1>. DEFINE c == wsRef[p]
            m == [type |-> "chat", id |-> <<c, sent[c] + 1>>]
<1>1. /\ c \in Conn /\ sent[c] \in 0..MaxSent /\ sent[c] < MaxSent
      /\ sent' = [sent EXCEPT ![c] = @ + 1]
      /\ UNCHANGED <<serverVars, linkVars, down, wsRef, view, hidden>>
  BY DEF IInv, TypeOK, SendMessage
<1>2. sent' \in [Conn -> 0..MaxSent]
  <2>1. sent[c] + 1 \in 0..MaxSent
    BY <1>1, ChatAssumption
  <2>. QED
    BY <2>1, <1>1 DEF IInv, TypeOK
<1>3. m \in UpMsg /\ m.type # "connect"
  <2>1. <<c, sent[c] + 1>> \in Message
    BY <1>1, ChatAssumption DEF Message
  <2>. QED
    BY <2>1 DEF UpMsg
<1>4. /\ up' \in [Conn -> Seq(UpMsg)]
      /\ connected' \in [Page -> BOOLEAN]
      /\ AskedOnce'
  <2>1. CASE SendUp(c, m) /\ UNCHANGED connected
    <3>. HIDE DEF m, c
    <3>1. up' \in [Conn -> Seq(UpMsg)]
      BY <2>1, <1>1, <1>3, SentUp
    <3>2. AskedOnce'
      BY <2>1, <1>1, <1>3, AskedOnceSends DEF linkVars
    <3>. QED
      BY <3>1, <3>2, <2>1 DEF IInv, TypeOK
  <2>2. CASE connected' = [connected EXCEPT ![p] = FALSE] /\ UNCHANGED up
    <3>1. AskedOnce'
      BY <2>2, <1>1, AskedOnceKept DEF linkVars
    <3>. QED
      BY <3>1, <2>2 DEF IInv, TypeOK
  <2>. QED
    BY <2>1, <2>2 DEF SendMessage
<1>. HIDE DEF c, m
<1>5. TypeOK'
  BY <1>1, <1>2, <1>4 DEF IInv, TypeOK, serverVars, linkVars
<1>6. HistoryInv' /\ MockIsHeld' /\ ViewsAreStretches'
  BY <1>1, HistoryKept, MocksKept, ViewsKept DEF serverVars, linkVars
<1>7. FlightIsFormed' /\ FlightContinues'
  BY <1>1 DEF IInv, FlightIsFormed, FlightContinues, Registered, serverVars, linkVars
<1>. QED
  BY <1>4, <1>5, <1>6, <1>7 DEF IInv

LEMMA ClickConnectStep ==
    ASSUME IInv, NEW p \in Page, ClickConnect(p)
    PROVE  IInv'
<1>1. /\ ending' \subseteq Conn /\ connected' \in [Page -> BOOLEAN]
      /\ UNCHANGED <<serverVars, peer, page, readyState, asked, up, down, wsRef,
                     view, hidden, sent>>
  BY DEF IInv, TypeOK, ClickConnect
<1>2. TypeOK'
  BY <1>1 DEF IInv, TypeOK, serverVars
<1>3. HistoryInv' /\ AskedOnce' /\ MockIsHeld' /\ ViewsAreStretches'
  BY <1>1, HistoryKept, AskedOnceKept, MocksKept, ViewsKept DEF serverVars
<1>4. FlightIsFormed' /\ FlightContinues'
  BY <1>1 DEF IInv, FlightIsFormed, FlightContinues, Registered, serverVars
<1>. QED
  BY <1>2, <1>3, <1>4 DEF IInv

LEMMA ClientEndsStep ==
    ASSUME IInv, NEW c \in Conn, ClientEnds(c)
    PROVE  IInv'
<1>1. /\ Registered(c)
      /\ ending' = ending \cup {c}
      /\ readyState' = [readyState EXCEPT ![c] = "closed"]
      /\ connected' = [connected EXCEPT ![page[c]] = FALSE]
      /\ down' = [down EXCEPT ![c] = <<>>]
      /\ UNCHANGED <<serverVars, peer, page, asked, up, wsRef, view, hidden, sent>>
  BY DEF ClientEnds
<1>2. /\ readyState' \in [Conn -> {"new", "connecting", "open", "closing", "closed"}]
      /\ readyState'[c] = "closed" /\ \A x \in Conn : x # c => readyState'[x] = readyState[x]
      /\ connected' \in [Page -> BOOLEAN]
      /\ down' \in [Conn -> Seq(DownMsg)]
      /\ down'[c] = <<>> /\ \A x \in Conn : x # c => down'[x] = down[x]
  <2>1. /\ readyState \in [Conn -> {"new", "connecting", "open", "closing", "closed"}]
        /\ connected \in [Page -> BOOLEAN]
        /\ down \in [Conn -> Seq(DownMsg)]
        /\ <<>> \in Seq(DownMsg)
    BY DEF IInv, TypeOK
  <2>2. connected' \in [Page -> BOOLEAN]
    BY <2>1, <1>1
  <2>3. /\ down' \in [Conn -> Seq(DownMsg)]
        /\ down'[c] = <<>> /\ \A x \in Conn : x # c => down'[x] = down[x]
    BY <2>1, <1>1
  <2>4. /\ readyState' \in [Conn -> {"new", "connecting", "open", "closing", "closed"}]
        /\ readyState'[c] = "closed" /\ \A x \in Conn : x # c => readyState'[x] = readyState[x]
    BY <2>1, <1>1
  <2>. QED
    BY <2>2, <2>3, <2>4
<1>3. TypeOK'
  BY <1>1, <1>2 DEF IInv, TypeOK, serverVars
<1>4. HistoryInv' /\ AskedOnce' /\ ViewsAreStretches'
  BY <1>1, HistoryKept, AskedOnceKept, ViewsKept DEF serverVars
<1>5. \A x \in Conn : Registered(x)' => x # c /\ Registered(x)
  BY <1>2 DEF Registered
<1>6. MockIsHeld'
  <2>1. page[c] # NoPage
    BY <1>1, RegisteredPage, ChatAssumption
  <2>2. \A x \in Conn : page[x] = NoPage => readyState'[x] = "new" /\ x \notin asked
    BY <2>1, <1>2 DEF IInv, MockIsHeld
  <2>. QED
    BY <2>2, <1>1, <1>5 DEF IInv, MockIsHeld
<1>7. FlightIsFormed'
  <2>1. Formed(<<>>, log)
    BY EmptyFlight DEF IInv, TypeOK
  <2>2. ASSUME NEW x \in Conn
        PROVE  (peer[x] = "none" => down'[x] = <<>>) /\ Formed(down'[x], log)
    <3>1. CASE x = c
      BY <3>1, <2>1, <1>2
    <3>2. CASE x # c
      BY <3>2, <1>2 DEF IInv, FlightIsFormed
    <3>. QED
      BY <3>1, <3>2
  <2>. QED
    BY <2>2, <1>1 DEF FlightIsFormed, serverVars
<1>8. FlightContinues'
  BY <1>1, <1>2, <1>5 DEF IInv, FlightContinues, serverVars
<1>. QED
  BY <1>3, <1>4, <1>6, <1>7, <1>8 DEF IInv

LEMMA NextIInv == IInv /\ [Next]_vars => IInv'
<1>. SUFFICES ASSUME IInv, [Next]_vars
              PROVE  IInv'
  OBVIOUS
<1>1. ASSUME NEW c \in Conn, ToServer(c) \/ ServerEnds(c) \/ Connect(c) \/ ToPage(c) \/ ClientEnds(c)
      PROVE  IInv'
  BY <1>1, ToServerStep, ServerEndsStep, ConnectStep, ToPageStep, ClientEndsStep
<1>2. ASSUME NEW p \in Page, Mount(p) \/ Unmount(p) \/ SendMessage(p) \/ ClickConnect(p)
      PROVE  IInv'
  BY <1>2, MountStep, UnmountStep, SendMessageStep, ClickConnectStep
<1>3. CASE UNCHANGED vars
  <2>1. /\ UNCHANGED <<serverVars, up, down, wsRef, view, hidden, connected, sent>>
        /\ UNCHANGED <<peer, page, readyState, asked, ending>>
    BY <1>3 DEF vars, linkVars, pageVars
  <2>2. TypeOK'
    BY <2>1 DEF IInv, TypeOK, serverVars
  <2>3. HistoryInv' /\ AskedOnce' /\ MockIsHeld' /\ ViewsAreStretches'
    BY <2>1, HistoryKept, AskedOnceKept, MocksKept, ViewsKept DEF serverVars
  <2>4. FlightIsFormed' /\ FlightContinues'
    BY <2>1 DEF IInv, FlightIsFormed, FlightContinues, Registered, serverVars
  <2>. QED
    BY <2>2, <2>3, <2>4 DEF IInv
<1>. QED
  BY <1>1, <1>2, <1>3 DEF Next

-----------------------------------------------------------------------------
(***************************************************************************)
(* What the invariant says of the history, of what a page shows and of     *)
(* what is on its way to it.                                               *)
(***************************************************************************)
LEMMA HistoryImplied == IInv => HistoryIsTail
<1>. SUFFICES ASSUME IInv
              PROVE  HistoryIsTail
  OBVIOUS
<1>1. /\ log \in Seq(Message) /\ messages \in Seq(Message)
      /\ totalMessageCount = Len(log) /\ AtEnd(log, messages)
  BY DEF IInv, TypeOK, HistoryInv
<1>. DEFINE k == Len(log) - Len(messages)
<1>2. k \in Nat /\ k + Len(messages) = Len(log)
  BY <1>1, ChatAssumption DEF AtEnd
<1>3. Stretch(log, messages, k)
  BY <1>1 DEF AtEnd
<1>. HIDE DEF k
<1>4. messages = SubSeq(log, k + 1, Len(log))
  BY <1>1, <1>2, <1>3, StretchIsSubSeq
<1>. QED
  BY <1>1, <1>4 DEF HistoryIsTail, AtEnd, k

LEMMA ViewsImplied == IInv => ViewIsStretch
<1>. SUFFICES ASSUME IInv, NEW p \in Page
              PROVE  /\ hidden[p] + Len(view[p]) <= Len(log)
                     /\ view[p] = SubSeq(log, hidden[p] + 1, hidden[p] + Len(view[p]))
  BY DEF ViewIsStretch
<1>1. /\ log \in Seq(Message) /\ view[p] \in Seq(Message) /\ hidden[p] \in Nat
      /\ Stretch(log, view[p], hidden[p])
  BY DEF IInv, TypeOK, ViewsAreStretches
<1>2. hidden[p] + Len(view[p]) <= Len(log)
  BY <1>1 DEF Stretch
<1>. QED
  BY <1>1, <1>2, StretchIsSubSeq

LEMMA StretchToEnd ==
    ASSUME NEW t \in Seq(Message), NEW w \in Seq(Message), NEW g \in Nat,
           NEW f \in Seq(Message), Stretch(t, w, g),
           g + Len(w) + Len(f) = Len(t),
           \A i \in 1..Len(f) : f[i] = t[g + Len(w) + i]
    PROVE  w \o f = SubSeq(t, g + 1, Len(t))
<1>. DEFINE s == w \o f
<1>1. /\ s \in Seq(Message) /\ Len(s) = Len(w) + Len(f)
      /\ Len(w) \in Nat /\ Len(f) \in Nat
      /\ \A i \in 1..Len(s) : s[i] = IF i <= Len(w) THEN w[i] ELSE f[i - Len(w)]
  OBVIOUS
<1>. HIDE DEF s
<1>2. g + Len(s) = Len(t) /\ Len(t) <= Len(t)
  BY <1>1
<1>3. ASSUME NEW i \in 1..Len(s)
      PROVE  s[i] = t[g + i]
  <2>0. i \in Int /\ 1 <= i /\ i <= Len(w) + Len(f)
    BY <1>1
  <2>1. CASE i <= Len(w)
    <3>1. s[i] = w[i]
      BY <2>1, <1>1
    <3>2. i \in 1..Len(w)
      BY <2>0, <2>1, <1>1
    <3>3. w[i] = t[g + i]
      BY <3>2, Zenon DEF Stretch
    <3>. QED
      BY <3>1, <3>3
  <2>2. CASE ~(i <= Len(w))
    <3>1. s[i] = f[i - Len(w)]
      BY <2>2, <1>1
    <3>2. i - Len(w) \in 1..Len(f)
      BY <2>0, <2>2, <1>1
    <3>3. f[i - Len(w)] = t[g + Len(w) + (i - Len(w))]
      BY <3>2, Zenon
    <3>4. g + Len(w) + (i - Len(w)) = g + i
      BY <2>0, <1>1
    <3>. QED
      BY <3>1, <3>3, <3>4
  <2>. QED
    BY <2>1, <2>2
<1>4. Stretch(t, s, g)
  BY <1>2, <1>3 DEF Stretch
<1>5. s = SubSeq(t, g + 1, Len(t))
  BY <1>1, <1>2, <1>4, StretchIsSubSeq
<1>. QED
  BY <1>5 DEF s

LEMMA NewsImplied == IInv => NothingIsMissed
<1>. SUFFICES ASSUME IInv, NEW c \in Conn, Registered(c), peer[c] = "open"
              PROVE  LET news  == SubSeq(down[c], Ahead(down[c]) + 1, Len(down[c]))
                         first == IF Ahead(down[c]) = 2 THEN Head(down[c])
                                  ELSE Backlog(view[page[c]], hidden[page[c]])
                     IN /\ \A i \in DOMAIN news : news[i].type = "message"
                        /\ first.messages \o [i \in DOMAIN news |-> news[i].message]
                              = SubSeq(log, first.hiddenCount + 1, Len(log))
  BY DEF NothingIsMissed
<1>. DEFINE q == down[c]
            v == view[page[c]]
            h == hidden[page[c]]
            n == Ahead(q)
            k == Start(q, v, h)
            news == SubSeq(q, n + 1, Len(q))
            first == IF n = 2 THEN Head(q) ELSE Backlog(v, h)
            f == [i \in DOMAIN news |-> news[i].message]
<1>1. /\ q \in Seq(DownMsg) /\ log \in Seq(Message) /\ Formed(q, log)
      /\ v \in Seq(Message) /\ h \in Nat /\ Stretch(log, v, h)
      /\ Continues(q, v, h, log) /\ End(q, v, h) = Len(log)
  BY RegisteredPage DEF IInv, TypeOK, FlightIsFormed
<1>. HIDE DEF q, v, h
<1>2. n \in {0, 1, 2} /\ n <= Len(q) /\ Len(q) \in Nat /\ k \in Nat
  <2>1. n <= Len(q)
    BY <1>1 DEF Formed
  <2>. QED
    BY <1>1, <2>1, AheadIs, StartIsNat
<1>3. k + Len(q) - n = Len(log)
  BY <1>1 DEF End
<1>4. \A i \in 1..Len(q) : i > n => /\ q[i].type = "message"
                                    /\ q[i].message = log[k + i - n]
  BY <1>1 DEF Formed, Continues
<1>5. /\ first.messages \in Seq(Message) /\ first.hiddenCount \in Nat
      /\ Stretch(log, first.messages, first.hiddenCount)
      /\ first.hiddenCount + Len(first.messages) = k
  <2>1. CASE n = 2
    <3>1. q # <<>> /\ q[1].type = "backlog"
      BY <2>1, <1>1, <1>2, AheadIs
    <3>2. first = q[1]
      BY <2>1, <3>1, <1>1
    <3>3. k = q[1].hiddenCount + Len(q[1].messages)
      BY <2>1 DEF Start
    <3>4. /\ q[1].messages \in Seq(Message) /\ q[1].hiddenCount \in Nat
          /\ Stretch(log, q[1].messages, q[1].hiddenCount)
      BY <3>1, <1>1, BacklogTaken
    <3>. QED
      BY <3>2, <3>3, <3>4
  <2>2. CASE n # 2
    <3>1. first.messages = v /\ first.hiddenCount = h
      BY <2>2, DownFields
    <3>2. k = h + Len(v)
      BY <2>2 DEF Start
    <3>. QED
      BY <3>1, <3>2, <1>1
  <2>. QED
    BY <2>1, <2>2
<1>6. /\ news \in Seq(DownMsg) /\ Len(news) = Len(q) - n /\ DOMAIN news = 1..(Len(q) - n)
      /\ \A i \in 1..(Len(q) - n) : news[i] = q[n + i]
  <2>1. /\ n + 1 \in 1..(Len(q) + 1) /\ Len(q) - (n + 1) + 1 = Len(q) - n
        /\ Len(q) - n \in Nat /\ n \in Nat
    BY <1>2
  <2>2. /\ news \in Seq(DownMsg) /\ Len(news) = Len(q) - n
    BY <2>1, <1>1
  <2>3. \A i \in 1..(Len(q) - n) : news[i] = q[n + i]
    BY <2>1, <1>1
  <2>. QED
    BY <2>2, <2>3
<1>. HIDE DEF n, k, news, first
<1>7. ASSUME NEW i \in 1..(Len(q) - n)
      PROVE  /\ news[i].type = "message"
             /\ news[i].message = log[k + i]
             /\ news[i].message \in Message
  <2>1. /\ n + i \in 1..Len(q) /\ n + i > n /\ k + (n + i) - n = k + i
        /\ k + i \in 1..Len(log)
    BY <1>2, <1>3
  <2>. QED
    BY <2>1, <1>1, <1>4, <1>6
<1>8. /\ f \in Seq(Message) /\ Len(f) = Len(q) - n
      /\ \A i \in 1..Len(f) : f[i] = log[k + i]
  <2>1. f = [i \in 1..(Len(q) - n) |-> news[i].message]
    BY <1>6
  <2>2. Len(q) - n \in Nat
    BY <1>2
  <2>. HIDE DEF f
  <2>3. f \in [1..(Len(q) - n) -> Message]
    BY <2>1, <1>7
  <2>4. f \in Seq(Message) /\ Len(f) = Len(q) - n
    BY <2>2, <2>3
  <2>. QED
    BY <2>1, <2>4, <1>7
<1>. HIDE DEF f
<1>9. first.messages \o f = SubSeq(log, first.hiddenCount + 1, Len(log))
  <2>. DEFINE w == first.messages
              g == first.hiddenCount
  <2>1. /\ w \in Seq(Message) /\ g \in Nat /\ Stretch(log, w, g) /\ g + Len(w) = k
    BY <1>5
  <2>. HIDE DEF w, g
  <2>2. g + Len(w) + Len(f) = Len(log)
    BY <2>1, <1>2, <1>3, <1>8
  <2>3. \A i \in 1..Len(f) : f[i] = log[g + Len(w) + i]
    BY <2>1, <1>8
  <2>4. w \o f = SubSeq(log, g + 1, Len(log))
    BY <2>1, <2>2, <2>3, <1>1, <1>8, StretchToEnd
  <2>. QED
    BY <2>4 DEF w, g
<1>. QED
  BY <1>6, <1>7, <1>9 DEF f, news, first, n, q, v, h

-----------------------------------------------------------------------------
(***************************************************************************)
(* The conjunction above holds in every reachable state.                   *)
(***************************************************************************)
THEOREM Invariance == Spec => []IInv
BY InitIInv, NextIInv, PTL DEF Spec

(***************************************************************************)
(* The variables of the room and of its pages keep their types.            *)
(***************************************************************************)
THEOREM TypeCorrect == Spec => []TypeOK
<1>1. IInv => TypeOK
  BY DEF IInv
<1>. QED
  BY <1>1, Invariance, PTL

(***************************************************************************)
(* The server keeps the last MAX_MESSAGES of what it accepted, and counts  *)
(* the rest.                                                               *)
(***************************************************************************)
THEOREM HistoryIsKept == Spec => []HistoryIsTail
BY Invariance, HistoryImplied, PTL

(***************************************************************************)
(* What a page shows has no gap and no repetition, however often it was    *)
(* mounted, closed and connected.                                          *)
(***************************************************************************)
THEOREM ViewsHaveNoGap == Spec => []ViewIsStretch
BY Invariance, ViewsImplied, PTL

(***************************************************************************)
(* A page in contact lacks nothing of the history, what is on its way      *)
(* counted.                                                                *)
(***************************************************************************)
THEOREM NoneIsMissed == Spec => []NothingIsMissed
BY Invariance, NewsImplied, PTL

=============================================================================
