---------------------------- MODULE Uplink_proof ----------------------------
(***************************************************************************)
(* UplinkIsPrefix of Tunnel, for every set of sockets, connections and     *)
(* requests and every number of messages.                                  *)
(*                                                                         *)
(* What the application at the server received, then what is in flight,    *)
(* then what is queued at the client, continue each other: this is stated  *)
(* by positions in the control socket's queue.  A message may be lost, but *)
(* only where nothing of its connection is received afterwards: a mock at  *)
(* the server that has ended never comes back, and a control socket of the *)
(* client that is not OPEN any more never is again.                        *)
(***************************************************************************)
EXTENDS Tunnel_proof

(* A "ws_message" of connection c, and the position of its data among what *)
(* the application sent on c.                                               *)
For(m, c) == m.type = "enc" /\ m.body.type = "ws_message" /\ m.body.id = c
Number(m) == m.body.data

Slots(q) == 1..Len(q)

Silent(q, c) == \A i \in Slots(q) : ~For(q[i], c)

(* The messages of c in q are numbers l + 1, l + 2, ... in this order, ... *)
Stream(q, c, l) ==
    \A i \in Slots(q) : For(q[i], c) =>
        /\ \/ Number(q[i]) = l + 1
           \/ \E j \in 1..(i - 1) : For(q[j], c) /\ Number(q[j]) = Number(q[i]) - 1
        /\ \A j \in Slots(q) : For(q[j], c) /\ Number(q[j]) = Number(q[i]) => j = i

(* ... n at most, ... *)
Within(q, c, n) == \A i \in Slots(q) : For(q[i], c) => Number(q[i]) <= n

(* ... and n at least. *)
Reaches(q, c, l, n) == n = l \/ \E i \in Slots(q) : For(q[i], c) /\ Number(q[i]) = n

(* Numbered(q, c): what the messages of c in q carry are numbers. *)
Numbered(q, c) == \A i \in Slots(q) : For(q[i], c) => Number(q[i]) \in Nat

-----------------------------------------------------------------------------
(* The head of the queue is taken; something is appended to it. *)

LEMMA TailSlots ==
    ASSUME NEW S, NEW q \in Seq(S), q # <<>>
    PROVE  /\ Tail(q) \in Seq(S) /\ Len(q) \in Nat /\ Len(Tail(q)) = Len(q) - 1
           /\ 1 \in Slots(q) /\ q[1] = Head(q)
           /\ \A i \in Slots(Tail(q)) : i + 1 \in Slots(q) /\ Tail(q)[i] = q[i + 1]
BY DEF Slots

LEMMA OthersTaken ==
    ASSUME NEW S, NEW q \in Seq(S), q # <<>>, NEW c, NEW l \in Nat, NEW n \in Nat,
           ~For(Head(q), c)
    PROVE  /\ Stream(q, c, l) => Stream(Tail(q), c, l)
           /\ Reaches(q, c, l, n) => Reaches(Tail(q), c, l, n)
<1>. DEFINE t == Tail(q)
            ll == Len(q)
<1>1. /\ Len(t) = ll - 1 /\ ll \in Nat
      /\ \A i \in 1..(ll - 1) : t[i] = q[i + 1]
      /\ ~For(q[1], c)
  BY TailSlots DEF Slots
<1>2. Slots(t) = 1..(ll - 1) /\ Slots(q) = 1..ll
  BY <1>1 DEF Slots
<1>. HIDE DEF t, ll
<1>3. ASSUME Stream(q, c, l), NEW i \in 1..(ll - 1), For(t[i], c)
      PROVE  /\ \/ Number(t[i]) = l + 1
                \/ \E j \in 1..(i - 1) : For(t[j], c) /\ Number(t[j]) = Number(t[i]) - 1
             /\ \A j \in 1..(ll - 1) : For(t[j], c) /\ Number(t[j]) = Number(t[i]) => j = i
  <2>1. i + 1 \in 1..ll /\ t[i] = q[i + 1]
    BY <1>1, <1>3
  <2>2. ASSUME NEW j \in 1..((i + 1) - 1), For(q[j], c), Number(q[j]) = Number(q[i + 1]) - 1
        PROVE  \E k \in 1..(i - 1) : For(t[k], c) /\ Number(t[k]) = Number(t[i]) - 1
    <3>1. j # 1
      BY <1>1, <2>2
    <3>2. j - 1 \in 1..(i - 1) /\ j - 1 \in 1..(ll - 1) /\ (j - 1) + 1 = j
      BY <1>1, <3>1
    <3>3. t[j - 1] = q[j]
      BY <1>1, <3>2
    <3>. QED
      BY <2>1, <2>2, <3>2, <3>3
  <2>3. \/ Number(q[i + 1]) = l + 1
        \/ \E j \in 1..((i + 1) - 1) : For(q[j], c) /\ Number(q[j]) = Number(q[i + 1]) - 1
    BY <1>2, <1>3, <2>1 DEF Stream
  <2>4. ASSUME NEW j \in 1..(ll - 1), For(t[j], c), Number(t[j]) = Number(t[i])
        PROVE  j = i
    <3>1. j + 1 \in 1..ll /\ t[j] = q[j + 1]
      BY <1>1
    <3>2. j + 1 = i + 1
      BY <1>2, <1>3, <2>1, <2>4, <3>1 DEF Stream
    <3>. QED
      BY <3>2
  <2>. QED
    BY <2>1, <2>2, <2>3, <2>4
<1>4. Stream(q, c, l) => Stream(t, c, l)
  BY <1>2, <1>3 DEF Stream
<1>5. ASSUME NEW i \in 1..ll, For(q[i], c), Number(q[i]) = n
      PROVE  \E j \in 1..(ll - 1) : For(t[j], c) /\ Number(t[j]) = n
  <2>1. i # 1
    BY <1>1, <1>5
  <2>2. i - 1 \in 1..(ll - 1) /\ (i - 1) + 1 = i
    BY <1>1, <2>1
  <2>3. t[i - 1] = q[i]
    BY <1>1, <2>2
  <2>. QED
    BY <1>5, <2>2, <2>3
<1>. QED
  BY <1>2, <1>4, <1>5 DEF Reaches, t

LEMMA OneTaken ==
    ASSUME NEW S, NEW q \in Seq(S), q # <<>>, NEW c, NEW l \in Nat, NEW n \in Nat,
           For(Head(q), c), Numbered(q, c), Stream(q, c, l)
    PROVE  /\ Number(Head(q)) = l + 1
           /\ Stream(Tail(q), c, l + 1)
           /\ Reaches(q, c, l, n) /\ l + 1 <= n => Reaches(Tail(q), c, l + 1, n)
<1>. DEFINE t == Tail(q)
            ll == Len(q)
<1>1. /\ Len(t) = ll - 1 /\ ll \in Nat
      /\ \A i \in 1..(ll - 1) : t[i] = q[i + 1]
      /\ For(q[1], c) /\ q[1] = Head(q) /\ 1 \in 1..ll
  BY TailSlots DEF Slots
<1>2. Slots(t) = 1..(ll - 1) /\ Slots(q) = 1..ll
  BY <1>1 DEF Slots
<1>. HIDE DEF t, ll
<1>3. Number(q[1]) = l + 1
  <2>1. ~(\E j \in 1..(1 - 1) : For(q[j], c) /\ Number(q[j]) = Number(q[1]) - 1)
    OBVIOUS
  <2>. QED
    BY <1>1, <1>2, <2>1 DEF Stream
<1>4. ASSUME NEW i \in 1..(ll - 1), For(t[i], c)
      PROVE  /\ \/ Number(t[i]) = (l + 1) + 1
                \/ \E j \in 1..(i - 1) : For(t[j], c) /\ Number(t[j]) = Number(t[i]) - 1
             /\ \A j \in 1..(ll - 1) : For(t[j], c) /\ Number(t[j]) = Number(t[i]) => j = i
  <2>1. i + 1 \in 1..ll /\ t[i] = q[i + 1] /\ i + 1 # 1
    BY <1>1, <1>4
  <2>2. Number(t[i]) # l + 1 /\ Number(t[i]) \in Nat
    BY <1>1, <1>2, <1>3, <1>4, <2>1 DEF Stream, Numbered
  <2>3. PICK j \in 1..((i + 1) - 1) : For(q[j], c) /\ Number(q[j]) = Number(q[i + 1]) - 1
    BY <1>2, <1>4, <2>1, <2>2 DEF Stream
  <2>4. ASSUME j = 1
        PROVE  Number(t[i]) = (l + 1) + 1
    <3>1. Number(q[1]) = Number(t[i]) - 1
      BY <2>1, <2>3, <2>4
    <3>2. Number(t[i]) = (l + 1) + 1
      BY <1>3, <2>2, <3>1
    <3>. QED
      BY <3>2
  <2>5. ASSUME j # 1
        PROVE  \E k \in 1..(i - 1) : For(t[k], c) /\ Number(t[k]) = Number(t[i]) - 1
    <3>1. j - 1 \in 1..(i - 1) /\ j - 1 \in 1..(ll - 1) /\ (j - 1) + 1 = j
      BY <1>1, <2>5
    <3>2. t[j - 1] = q[j]
      BY <1>1, <3>1
    <3>3. For(t[j - 1], c) /\ Number(t[j - 1]) = Number(t[i]) - 1
      BY <2>1, <2>3, <3>2
    <3>. QED
      BY <3>1, <3>3
  <2>6. ASSUME NEW k \in 1..(ll - 1), For(t[k], c), Number(t[k]) = Number(t[i])
        PROVE  k = i
    <3>1. k + 1 \in 1..ll /\ t[k] = q[k + 1]
      BY <1>1
    <3>2. k + 1 = i + 1
      BY <1>2, <1>4, <2>1, <2>6, <3>1 DEF Stream
    <3>. QED
      BY <3>2
  <2>7. \/ Number(t[i]) = (l + 1) + 1
        \/ \E k \in 1..(i - 1) : For(t[k], c) /\ Number(t[k]) = Number(t[i]) - 1
    BY <2>4, <2>5
  <2>. QED
    BY <2>6, <2>7
<1>5. Stream(t, c, l + 1)
  BY <1>2, <1>4 DEF Stream
<1>6. ASSUME Reaches(q, c, l, n), l + 1 <= n
      PROVE  Reaches(t, c, l + 1, n)
  <2>1. PICK i \in 1..ll : For(q[i], c) /\ Number(q[i]) = n
    BY <1>2, <1>6 DEF Reaches
  <2>2. CASE i = 1
    BY <1>3, <2>1, <2>2 DEF Reaches
  <2>3. CASE i # 1
    <3>1. i - 1 \in 1..(ll - 1) /\ (i - 1) + 1 = i
      BY <1>1, <2>3
    <3>2. t[i - 1] = q[i]
      BY <1>1, <3>1
    <3>. QED
      BY <1>2, <2>1, <3>1, <3>2 DEF Reaches
  <2>. QED
    BY <2>2, <2>3
<1>. QED
  BY <1>1, <1>3, <1>5, <1>6 DEF t

LEMMA WithinTail ==
    ASSUME NEW S, NEW q \in Seq(S), q # <<>>, NEW c, NEW n
    PROVE  /\ Within(q, c, n) => Within(Tail(q), c, n)
           /\ Silent(q, c) => Silent(Tail(q), c)
           /\ For(Head(q), c) => ~Silent(q, c)
BY TailSlots DEF Within, Silent

(* What is appended is about other connections. *)
LEMMA OthersSent ==
    ASSUME NEW S, NEW q \in Seq(S), NEW out \in Seq(S), NEW c, NEW l, NEW n,
           Silent(out, c)
    PROVE  /\ Stream(q, c, l) => Stream(q \o out, c, l)
           /\ Within(q, c, n) => Within(q \o out, c, n)
           /\ Reaches(q, c, l, n) => Reaches(q \o out, c, l, n)
           /\ Silent(q, c) => Silent(q \o out, c)
<1>. DEFINE p == q \o out
<1>1. /\ \A i \in Slots(q) : i \in Slots(p) /\ p[i] = q[i]
      /\ \A i \in Slots(p) : For(p[i], c) => i \in Slots(q)
  <2>1. \A i \in Slots(q) : i \in Slots(p) /\ p[i] = q[i]
    BY DEF Slots
  <2>2. ASSUME NEW i \in Slots(p), i \notin Slots(q)
        PROVE  ~For(p[i], c)
    <3>1. i - Len(q) \in Slots(out) /\ p[i] = out[i - Len(q)]
      BY <2>2 DEF Slots
    <3>. QED
      BY <3>1 DEF Silent
  <2>. QED
    BY <2>1, <2>2
<1>2. \A i \in Slots(q) : \A j \in 1..(i - 1) : j \in Slots(q)
  BY DEF Slots
<1>. HIDE DEF p
<1>3. Stream(q, c, l) => Stream(p, c, l)
  BY <1>1, <1>2 DEF Stream
<1>4. Within(q, c, n) => Within(p, c, n)
  BY <1>1 DEF Within
<1>5. Reaches(q, c, l, n) => Reaches(p, c, l, n)
  BY <1>1 DEF Reaches
<1>6. Silent(q, c) => Silent(p, c)
  BY <1>1 DEF Silent
<1>. QED
  BY <1>3, <1>4, <1>5, <1>6 DEF p

(* What is appended are the messages n + 1, n + 2, ... of c. *)
LEMMA MoreSent ==
    ASSUME NEW S, NEW q \in Seq(S), NEW out \in Seq(S), NEW c, NEW l \in Nat, NEW n \in Nat,
           Numbered(q, c), Stream(q, c, l), Within(q, c, n), Reaches(q, c, l, n),
           \A i \in Slots(out) : For(out[i], c) /\ Number(out[i]) = n + i
    PROVE  /\ Stream(q \o out, c, l)
           /\ Within(q \o out, c, n + Len(out))
           /\ Reaches(q \o out, c, l, n + Len(out))
<1>. DEFINE p == q \o out
            lq == Len(q)
            lo == Len(out)
<1>1. /\ lq \in Nat /\ lo \in Nat
      /\ Slots(q) = 1..lq /\ Slots(out) = 1..lo /\ Slots(p) = 1..(lq + lo)
      /\ \A i \in 1..lq : p[i] = q[i]
      /\ \A i \in 1..lo : p[lq + i] = out[i]
  BY DEF Slots
<1>. HIDE DEF p, lq, lo
<1>2. \A i \in 1..lo : For(p[lq + i], c) /\ Number(p[lq + i]) = n + i
  BY <1>1
<1>3. \A i \in 1..(lq + lo) : i \in 1..lq \/ (i > lq /\ i - lq \in 1..lo /\ lq + (i - lq) = i)
  BY <1>1
<1>4. \A i \in 1..lq : For(q[i], c) => Number(q[i]) \in Nat /\ Number(q[i]) <= n
  BY <1>1 DEF Numbered, Within
<1>5. ASSUME NEW i \in 1..lq, For(p[i], c)
      PROVE  /\ \/ Number(p[i]) = l + 1
                \/ \E j \in 1..(i - 1) : For(p[j], c) /\ Number(p[j]) = Number(p[i]) - 1
             /\ \A j \in 1..(lq + lo) : For(p[j], c) /\ Number(p[j]) = Number(p[i]) => j = i
  <2>1. For(q[i], c) /\ p[i] = q[i] /\ \A j \in 1..(i - 1) : j \in 1..lq
    BY <1>1, <1>5
  <2>2. \/ Number(p[i]) = l + 1
        \/ \E j \in 1..(i - 1) : For(p[j], c) /\ Number(p[j]) = Number(p[i]) - 1
    BY <1>1, <2>1 DEF Stream
  <2>3. ASSUME NEW j \in 1..(lq + lo), For(p[j], c), Number(p[j]) = Number(p[i])
        PROVE  j = i
    <3>1. CASE j \in 1..lq
      BY <1>1, <2>1, <2>3, <3>1 DEF Stream
    <3>2. CASE j - lq \in 1..lo /\ lq + (j - lq) = j
      <4>1. Number(p[j]) = n + (j - lq)
        BY <1>2, <3>2
      <4>2. Number(p[i]) \in Nat /\ Number(p[i]) <= n
        BY <1>4, <2>1
      <4>. QED
        BY <2>3, <3>2, <4>1, <4>2
    <3>. QED
      BY <1>3, <3>1, <3>2
  <2>. QED
    BY <2>2, <2>3
<1>6. ASSUME NEW k \in 1..lo
      PROVE  /\ \/ Number(p[lq + k]) = l + 1
                \/ \E j \in 1..((lq + k) - 1) : For(p[j], c) /\ Number(p[j]) = Number(p[lq + k]) - 1
             /\ \A j \in 1..(lq + lo) :
                   For(p[j], c) /\ Number(p[j]) = Number(p[lq + k]) => j = lq + k
  <2>1. Number(p[lq + k]) = n + k
    BY <1>2
  <2>. DEFINE follows ==
                \/ Number(p[lq + k]) = l + 1
                \/ \E j \in 1..((lq + k) - 1) : For(p[j], c) /\ Number(p[j]) = Number(p[lq + k]) - 1
  <2>2. ASSUME k # 1
        PROVE  follows
    <3>1. k - 1 \in 1..lo /\ lq + (k - 1) \in 1..((lq + k) - 1) /\ n + (k - 1) = (n + k) - 1
      BY <1>1, <2>2
    <3>2. For(p[lq + (k - 1)], c) /\ Number(p[lq + (k - 1)]) = (n + k) - 1
      BY <1>2, <3>1
    <3>. QED
      BY <2>1, <3>1, <3>2
  <2>3. ASSUME k = 1
        PROVE  follows
    <3>1. CASE n = l
      BY <2>1, <2>3, <3>1
    <3>2. ASSUME NEW i \in 1..lq, For(q[i], c), Number(q[i]) = n
          PROVE  follows
      <4>1. i \in 1..((lq + k) - 1) /\ n = (n + k) - 1
        BY <1>1, <2>3
      <4>2. For(p[i], c) /\ Number(p[i]) = n
        BY <1>1, <3>2
      <4>. QED
        BY <2>1, <4>1, <4>2
    <3>. QED
      BY <1>1, <3>1, <3>2 DEF Reaches
  <2>4. ASSUME NEW j \in 1..(lq + lo), For(p[j], c), Number(p[j]) = Number(p[lq + k])
        PROVE  j = lq + k
    <3>1. CASE j \in 1..lq
      <4>1. Number(p[j]) \in Nat /\ Number(p[j]) <= n
        BY <1>1, <1>4, <2>4, <3>1
      <4>. QED
        BY <2>1, <2>4, <4>1
    <3>2. CASE j - lq \in 1..lo /\ lq + (j - lq) = j
      <4>1. Number(p[j]) = n + (j - lq)
        BY <1>2, <3>2
      <4>. QED
        BY <1>1, <2>1, <2>4, <3>2, <4>1
    <3>. QED
      BY <1>3, <3>1, <3>2
  <2>. QED
    BY <2>2, <2>3, <2>4
<1>7. ASSUME NEW i \in 1..(lq + lo), For(p[i], c)
      PROVE  /\ \/ Number(p[i]) = l + 1
                \/ \E j \in 1..(i - 1) : For(p[j], c) /\ Number(p[j]) = Number(p[i]) - 1
             /\ \A j \in 1..(lq + lo) : For(p[j], c) /\ Number(p[j]) = Number(p[i]) => j = i
  <2>1. CASE i \in 1..lq
    BY <1>5, <1>7, <2>1
  <2>2. CASE i - lq \in 1..lo /\ lq + (i - lq) = i
    <3>. DEFINE k == i - lq
    <3>1. k \in 1..lo /\ i = lq + k
      BY <2>2
    <3>. HIDE DEF k
    <3>. QED
      BY <1>6, <3>1
  <2>. QED
    BY <1>3, <2>1, <2>2
<1>8. Stream(p, c, l)
  BY <1>1, <1>7 DEF Stream
<1>9. ASSUME NEW i \in 1..(lq + lo), For(p[i], c)
      PROVE  Number(p[i]) <= n + lo
  <2>1. CASE i \in 1..lq
    <3>1. Number(p[i]) \in Nat /\ Number(p[i]) <= n
      BY <1>1, <1>4, <1>9, <2>1
    <3>. QED
      BY <1>1, <3>1
  <2>2. CASE i - lq \in 1..lo /\ lq + (i - lq) = i
    <3>1. Number(p[i]) = n + (i - lq)
      BY <1>2, <2>2
    <3>. QED
      BY <1>1, <2>2, <3>1
  <2>. QED
    BY <1>3, <2>1, <2>2
<1>10. Reaches(p, c, l, n + lo)
  <2>1. CASE lo = 0
    <3>1. n + lo = n
      BY <2>1
    <3>2. \A i \in 1..lq : i \in 1..(lq + lo)
      BY <1>1
    <3>. QED
      BY <1>1, <3>1, <3>2 DEF Reaches
  <2>2. CASE lo # 0
    <3>1. lo \in 1..lo /\ lq + lo \in 1..(lq + lo)
      BY <1>1, <2>2
    <3>. QED
      BY <1>1, <1>2, <3>1 DEF Reaches
  <2>. QED
    BY <2>1, <2>2
<1>11. Within(p, c, n + lo)
  BY <1>1, <1>9 DEF Within
<1>. QED
  BY <1>8, <1>10, <1>11 DEF p, lo

(* Where there is nothing of c, it all begins. *)
LEMMA NothingYet ==
    ASSUME NEW q, NEW c, Silent(q, c)
    PROVE  Stream(q, c, 0) /\ Within(q, c, 0) /\ Reaches(q, c, 0, 0) /\ Numbered(q, c)
BY DEF Silent, Stream, Within, Reaches, Numbered

-----------------------------------------------------------------------------
(* The invariant. *)

(* Only sockets that were created are accepted, used, or the current one. *)
UsedInv ==
    /\ \A x \in Socket : ctl[x] # "none" \/ toServer[x] # <<>> => rs[x] # "none"
    /\ \A x \in Socket : rs[x] # "none" => ws # NoSocket
    /\ ws # NoSocket => rs[ws] # "none"

(* A mock queues, from the first message on, until it is OPEN. *)
QueueInv ==
    \A c \in Conn :
        /\ readyState[c] \in {"new", "connecting"} => queue[c] = [i \in 1..nsent[c] |-> i]
        /\ readyState[c] = "open" => queue[c] = <<>>

(* Until both ends of a connection exist, nothing of it was sent. *)
FreshInv ==
    \A c \in Conn : mock[c] = "none" \/ readyState[c] \in {"new", "connecting"} =>
        inbox[c] = <<>> /\ \A x \in Socket : Silent(toServer[x], c)

OneSocket(s) == \A x \in Socket : rs[x] # "none" => x = s

(***************************************************************************)
(* What was received on c, and what of c is in flight on the one control   *)
(* socket s.  The last number sent is there unless it was lost, which only *)
(* happens once the client's end is not OPEN any more.                     *)
(***************************************************************************)
Flows(s, c) ==
    /\ \A i \in 1..Len(inbox[c]) : inbox[c][i] = i
    /\ readyState[c] = "open" /\ rs[s] = "open" => symKey # NoKey
    /\ mock[c] = "open" =>
          /\ Len(inbox[c]) <= nsent[c]
          /\ Stream(toServer[s], c, Len(inbox[c]))
          /\ Within(toServer[s], c, nsent[c])
          /\ readyState[c] = "open" /\ rs[s] = "open" =>
                Reaches(toServer[s], c, Len(inbox[c]), nsent[c])

FlowInv == \A s \in Socket, c \in Conn : OneSocket(s) => Flows(s, c)

(* A mock at the server sends on a control socket. *)
ViaInv == \A c \in Conn : mock[c] # "none" => via[c] \in Socket

UplinkInv == UsedInv /\ ViaInv /\ QueueInv /\ FreshInv /\ FlowInv

Present == {"open", "closing", "failed"}

LEMMA Typed ==
    ASSUME IInv
    PROVE  /\ ws \in Socket \cup {NoSocket}
           /\ rs \in [Socket -> {"none", "connecting", "open", "closing", "failed", "closed"}]
           /\ symKey \in Key \cup {NoKey}
           /\ NoKey \notin Key /\ NoSocket \notin Socket
           /\ readyState \in [Conn -> {"new", "connecting", "open", "closing", "closed"}]
           /\ registered \subseteq Conn
           /\ queue \in [Conn -> Seq(Data)]
           /\ nsent \in [Conn -> 0..MaxSend]
           /\ toServer \in [Socket -> Seq(CliP!ClientMsg)]
           /\ ctl \in [Socket -> {"none", "open", "closing", "closed"}]
           /\ mock \in [Conn -> {"none", "open", "closed"}]
           /\ inbox \in [Conn -> Seq(Data)]
           /\ clients \subseteq Conn
           /\ \A c \in clients : mock[c] # "none"
BY NoSocketAssumption, NoKeyAssumption
   DEF IInv, ClientInv, ServerInv, CliP!IInv, SrvP!IInv, CliP!TypeOK, SrvP!TypeOK,
       SrvP!FreshIsUnknown

(* What the messages in flight carry. *)
LEMMA Numbers ==
    ASSUME IInv, NEW s \in Socket, NEW c \in Conn
    PROVE  /\ Numbered(toServer[s], c)
           /\ \A i \in Slots(toServer[s]) :
                 For(toServer[s][i], c) => Number(toServer[s][i]) \in 1..MaxSend
<1>1. ASSUME NEW m \in CliP!ClientMsg, For(m, c)
      PROVE  Number(m) \in 1..MaxSend
  <2>1. m.body \in CliP!WsMessages
    BY <1>1 DEF For, CliP!ClientMsg, CliP!ClientBody, CliP!Plaintext
  <2>. QED
    BY <2>1, DataAssumption DEF CliP!WsMessages, Number
<1>2. \A i \in Slots(toServer[s]) : toServer[s][i] \in CliP!ClientMsg
  BY Typed DEF Slots
<1>3. \A i \in Slots(toServer[s]) :
         For(toServer[s][i], c) => Number(toServer[s][i]) \in 1..MaxSend
  BY <1>1, <1>2
<1>4. 1..MaxSend \subseteq Nat
  BY DataAssumption
<1>. QED
  BY <1>3, <1>4 DEF Numbered

-----------------------------------------------------------------------------
(* What a step does to the sockets, and to a connection it is not about. *)

Moves ==
    /\ \A x \in Socket : rs[x] # "none" => rs'[x] # "none"
    /\ \A x \in Socket : rs'[x] = "open" => rs[x] \in {"open", "connecting"}
    /\ \A x \in Socket : ctl'[x] # "none" => ctl[x] # "none" \/ rs[x] # "none"
    /\ \A x \in Socket : toServer'[x] # <<>> => toServer[x] # <<>> \/ rs[x] = "open"
    /\ \/ ws' = ws /\ \A x \in Socket : rs'[x] # "none" => rs[x] # "none"
       \/ ws' \in Socket /\ rs'[ws'] # "none"
    /\ symKey' = NoKey => \/ symKey = NoKey
                          \/ \E x \in Socket : rs[x] \in Present /\ rs'[x] = "closed"

SendsOthers(c) ==
    \A x \in Socket : \E out \in Seq(CliP!ClientMsg) :
        toServer'[x] = toServer[x] \o out /\ Silent(out, c)

ClientCalm(c) ==
    /\ nsent'[c] = nsent[c]
    /\ \/ readyState'[c] = readyState[c] /\ queue'[c] = queue[c]
       \/ readyState'[c] \in {"closing", "closed"}
       \/ readyState[c] = "new" /\ readyState'[c] = "connecting" /\ queue'[c] = queue[c]

ServerCalm(c) ==
    /\ inbox'[c] = inbox[c]
    /\ mock'[c] = mock[c] \/ (mock[c] # "none" /\ mock'[c] = "closed")

Calm(c) == ClientCalm(c) /\ ServerCalm(c) /\ SendsOthers(c)

LEMMA NothingSent ==
    ASSUME IInv, toServer' = toServer, NEW c
    PROVE  SendsOthers(c)
<1>1. \A x \in Socket : toServer'[x] = toServer[x] \o <<>>
  BY Typed
<1>2. <<>> \in Seq(CliP!ClientMsg) /\ Silent(<<>>, c)
  BY DEF Silent, Slots
<1>. QED
  BY <1>1, <1>2 DEF SendsOthers

(* The client is left alone, or the server is. *)
LEMMA ClientAlone ==
    ASSUME IInv, UNCHANGED clientState
    PROVE  /\ \A c \in Conn : ClientCalm(c)
           /\ UNCHANGED <<ws, rs, symKey>>
BY DEF clientState, ClientCalm

LEMMA ServerAlone ==
    ASSUME IInv, UNCHANGED serverState
    PROVE  /\ \A c \in Conn : ServerCalm(c)
           /\ UNCHANGED ctl
BY DEF serverState, ServerCalm

LEMMA SocketsAlone ==
    ASSUME IInv, UNCHANGED <<ws, rs, symKey>>,
           \A x \in Socket : ctl'[x] # "none" => ctl[x] # "none" \/ rs[x] # "none",
           \A x \in Socket : toServer'[x] # <<>> => toServer[x] # <<>> \/ rs[x] = "open"
    PROVE  Moves
BY Typed DEF Moves

(* The payloads bodies were tried to be sent. *)
LEMMA Tried ==
    ASSUME IInv, NEW bodies \in Seq(CliP!ClientBody), Cli!TrySend(bodies)
    PROVE  /\ \A x \in Socket : toServer'[x] # <<>> => toServer[x] # <<>> \/ rs[x] = "open"
           /\ \A c \in Conn :
                 (\A i \in Slots(bodies) : bodies[i].type = "ws_message" => bodies[i].id # c)
                    => SendsOthers(c)
<1>1. CASE ~Cli!CanSend
  BY <1>1, NothingSent DEF Cli!TrySend
<1>2. CASE Cli!CanSend
  <2>. DEFINE out == [i \in 1..Len(bodies) |-> Cli!Enc(symKey, bodies[i])]
  <2>1. ws \in Socket /\ symKey \in Key /\ rs[ws] = "open"
    BY <1>2, Typed DEF Cli!CanSend, Cli!Usable
  <2>2. toServer' = [toServer EXCEPT ![ws] = @ \o out]
    BY <1>2 DEF Cli!TrySend, Cli!SendAll
  <2>3. out \in Seq(CliP!ClientMsg)
    <3>1. \A i \in 1..Len(bodies) : Cli!Enc(symKey, bodies[i]) \in CliP!ClientMsg
      BY <2>1 DEF Cli!Enc, CliP!ClientMsg
    <3>. QED
      BY <3>1
  <2>4. ASSUME NEW c \in Conn,
               \A i \in Slots(bodies) : bodies[i].type = "ws_message" => bodies[i].id # c
        PROVE  Silent(out, c)
    BY <2>4 DEF Silent, For, Slots, Cli!Enc
  <2>5. /\ \A x \in Socket : x # ws => toServer'[x] = toServer[x] \o <<>>
        /\ toServer'[ws] = toServer[ws] \o out
    BY <2>1, <2>2, Typed
  <2>6. <<>> \in Seq(CliP!ClientMsg) /\ \A c \in Conn : Silent(<<>>, c)
    BY DEF Silent, Slots
  <2>7. \A x \in Socket : x # ws => toServer'[x] = toServer[x]
    BY <2>1, <2>2, Typed
  <2>. HIDE DEF out
  <2>. QED
    BY <2>1, <2>3, <2>4, <2>5, <2>6, <2>7 DEF SendsOthers
<1>. QED
  BY <1>1, <1>2

LEMMA OneTried ==
    ASSUME IInv, NEW b \in CliP!ClientBody, Cli!TrySend(<<b>>)
    PROVE  /\ \A x \in Socket : toServer'[x] # <<>> => toServer[x] # <<>> \/ rs[x] = "open"
           /\ \A c \in Conn : (b.type = "ws_message" => b.id # c) => SendsOthers(c)
<1>1. <<b>> \in Seq(CliP!ClientBody) /\ \A i \in Slots(<<b>>) : <<b>>[i] = b
  BY DEF Slots
<1>. QED
  BY <1>1, Tried

LEMMA Bodies ==
    /\ \A r \in Req : Cli!HttpRequest(r) \in CliP!ClientBody
                      /\ Cli!HttpRequest(r).type # "ws_message"
    /\ \A c \in Conn : /\ Cli!WsConnect(c) \in CliP!ClientBody
                       /\ Cli!WsConnect(c).type # "ws_message"
                       /\ Cli!WsClose(c) \in CliP!ClientBody
                       /\ Cli!WsClose(c).type # "ws_message"
    /\ \A c \in Conn, d \in Data : /\ Cli!WsMessage(c, d) \in CliP!ClientBody
                                   /\ Cli!WsMessage(c, d).id = c
                                   /\ Cli!WsMessage(c, d).type = "ws_message"
                                   /\ Cli!WsMessage(c, d).data = d
BY DEF Cli!HttpRequest, Cli!WsConnect, Cli!WsClose, Cli!WsMessage, CliP!ClientBody,
       CliP!WsMessages

-----------------------------------------------------------------------------
(* Steps of the client. *)

LEMMA Ensured ==
    ASSUME IInv, NEW p, Cli!EnsureConnection(p), UNCHANGED <<symKey, toServer, ctl>>
    PROVE  Moves
<1>1. CASE UNCHANGED Cli!linkVars
  BY <1>1, SocketsAlone DEF Cli!linkVars
<1>2. CASE p \in Socket /\ rs[p] = "none" /\ ws' = p /\ rs' = [rs EXCEPT ![p] = "connecting"]
  BY <1>2, Typed DEF Moves
<1>. QED
  BY <1>1, <1>2 DEF Cli!EnsureConnection

LEMMA HandshakeMoves ==
    ASSUME IInv, NEW k \in Key, Cli!Handshake(k), UNCHANGED serverVars
    PROVE  Moves /\ \A c \in Conn : Calm(c)
<1>1. UNCHANGED serverState
  BY DEF serverVars
<1>2. (\A c \in Conn : ClientCalm(c)) /\ UNCHANGED <<ws, rs, ctl>>
  BY <1>1, ServerAlone
     DEF Cli!Handshake, Cli!QuoteInvalid, Cli!QuoteValid, Cli!QuoteApproved,
         Cli!BindingChecked,
         Cli!linkVars, Cli!connVars, ClientCalm
<1>3. symKey' = symKey \/ symKey' = k
  BY DEF Cli!Handshake, Cli!QuoteInvalid, Cli!QuoteValid, Cli!QuoteApproved,
         Cli!BindingChecked
<1>4. /\ \A x \in Socket : toServer'[x] # <<>> => toServer[x] # <<>> \/ rs[x] = "open"
      /\ \A c \in Conn : SendsOthers(c)
  <2>1. CASE toServer' = toServer
    BY <2>1, NothingSent
  <2>2. CASE Cli!Usable /\ toServer' = [toServer EXCEPT ![ws] = Append(@, Cli!ClientKx(k))]
    <3>1. ws \in Socket /\ rs[ws] = "open"
      BY <2>2, Typed DEF Cli!Usable
    <3>2. Cli!ClientKx(k) \in CliP!ClientMsg /\ \A c \in Conn : ~For(Cli!ClientKx(k), c)
      BY DEF Cli!ClientKx, CliP!ClientMsg, For
    <3>. DEFINE out == <<Cli!ClientKx(k)>>
    <3>3. out \in Seq(CliP!ClientMsg) /\ \A c \in Conn : Silent(out, c)
      BY <3>2 DEF Silent, Slots
    <3>4. toServer'[ws] = toServer[ws] \o out
      <4>1. toServer[ws] \in Seq(CliP!ClientMsg) /\ toServer'[ws] = Append(toServer[ws], Cli!ClientKx(k))
        BY <2>2, <3>1, Typed
      <4>. QED
        BY <3>2, <4>1
    <3>5. <<>> \in Seq(CliP!ClientMsg) /\ \A c \in Conn : Silent(<<>>, c)
      BY DEF Silent, Slots
    <3>6. \A x \in Socket : x # ws => toServer'[x] = toServer[x] /\ toServer'[x] = toServer[x] \o <<>>
      BY <2>2, <3>1, Typed
    <3>. HIDE DEF out
    <3>. QED
      BY <3>1, <3>3, <3>4, <3>5, <3>6 DEF SendsOthers
  <2>. QED
    BY <2>1, <2>2 DEF Cli!Handshake, Cli!QuoteInvalid, Cli!QuoteValid, Cli!QuoteApproved,
         Cli!BindingChecked
<1>5. Moves
  BY <1>2, <1>3, <1>4, Typed DEF Moves
<1>. QED
  BY <1>1, <1>2, <1>4, <1>5, ServerAlone DEF Calm

LEMMA FetchMoves ==
    ASSUME IInv, NEW r \in Req, Cli!Fetch(r), UNCHANGED serverVars
    PROVE  Moves /\ \A c \in Conn : Calm(c)
<1>1. UNCHANGED serverState
  BY DEF serverVars
<1>2. (\A c \in Conn : ClientCalm(c)) /\ UNCHANGED <<symKey, ctl>>
  BY <1>1, ServerAlone
     DEF Cli!Fetch, Cli!FetchStart, Cli!FetchSend, Cli!FetchFails, Cli!FetchTimeout,
         Cli!kxVars, Cli!connVars, ClientCalm
<1>3. CASE Cli!FetchStart(r)
  BY <1>1, <1>2, <1>3, Ensured, NothingSent, ServerAlone DEF Cli!FetchStart, Calm
<1>4. CASE Cli!FetchSend(r)
  BY <1>1, <1>2, <1>4, Bodies, OneTried, ServerAlone, SocketsAlone
     DEF Cli!FetchSend, Cli!linkVars, Calm
<1>5. CASE Cli!FetchFails(r) \/ Cli!FetchTimeout(r)
  BY <1>1, <1>2, <1>5, NothingSent, ServerAlone, SocketsAlone
     DEF Cli!FetchFails, Cli!FetchTimeout, Cli!linkVars, Calm
<1>. QED
  BY <1>3, <1>4, <1>5 DEF Cli!Fetch

LEMMA TimerMoves ==
    ASSUME IInv, Cli!TimerFires, UNCHANGED serverVars
    PROVE  Moves /\ \A c \in Conn : Calm(c)
<1>1. UNCHANGED serverState
  BY DEF serverVars
<1>2. (\A c \in Conn : ClientCalm(c)) /\ UNCHANGED <<symKey, ctl, toServer>>
  BY <1>1, ServerAlone DEF Cli!TimerFires, Cli!kxVars, Cli!connVars, ClientCalm
<1>. QED
  BY <1>1, <1>2, Ensured, NothingSent, ServerAlone DEF Cli!TimerFires, Calm

(* A mock that does not send data; its send() is below. *)
LEMMA MockMoves ==
    ASSUME IInv, NEW b \in Conn, UNCHANGED serverVars,
           Cli!NewWebSocket(b) \/ Cli!ConnectResume(b) \/ Cli!MockClose(b)
    PROVE  Moves /\ \A c \in Conn : Calm(c)
<1>1. UNCHANGED serverState
  BY DEF serverVars
<1>2. UNCHANGED <<symKey, ctl>>
  BY <1>1, ServerAlone
     DEF Cli!NewWebSocket, Cli!ConnectResume, Cli!MockClose, Cli!kxVars
<1>3. CASE Cli!NewWebSocket(b)
  <2>1. \A c \in Conn : ClientCalm(c)
    BY <1>3, Typed DEF Cli!NewWebSocket, ClientCalm
  <2>. QED
    BY <1>1, <1>2, <1>3, <2>1, Ensured, NothingSent, ServerAlone DEF Cli!NewWebSocket, Calm
<1>4. CASE Cli!ConnectResume(b)
  <2>1. \A c \in Conn : ClientCalm(c)
    BY <1>4, Typed DEF Cli!ConnectResume, ClientCalm
  <2>2. CASE UNCHANGED toServer
    BY <1>1, <1>2, <1>4, <2>1, <2>2, NothingSent, ServerAlone, SocketsAlone
       DEF Cli!ConnectResume, Cli!linkVars, Calm
  <2>3. CASE Cli!TrySend(<<Cli!WsConnect(b)>>)
    BY <1>1, <1>2, <1>4, <2>1, <2>3, Bodies, OneTried, ServerAlone, SocketsAlone
       DEF Cli!ConnectResume, Cli!linkVars, Calm
  <2>. QED
    BY <1>4, <2>2, <2>3 DEF Cli!ConnectResume
<1>5. CASE Cli!MockClose(b)
  <2>1. \A c \in Conn : ClientCalm(c)
    BY <1>5, Typed DEF Cli!MockClose, ClientCalm
  <2>. QED
    BY <1>1, <1>2, <1>5, <2>1, Bodies, OneTried, ServerAlone, SocketsAlone
       DEF Cli!MockClose, Cli!linkVars, Calm
<1>. QED
  BY <1>3, <1>4, <1>5

(* send() is nothing to the other connections. *)
LEMMA SendMoves ==
    ASSUME IInv, NEW b \in Conn, UNCHANGED serverVars, Cli!MockSend(b)
    PROVE  Moves /\ ServerCalm(b) /\ \A c \in Conn : c # b => Calm(c)
<1>1. UNCHANGED serverState
  BY DEF serverVars
<1>2. UNCHANGED <<ws, rs, symKey, ctl>>
  BY <1>1, ServerAlone DEF Cli!MockSend, Cli!linkVars, Cli!kxVars
<1>3. \A c \in Conn : c # b => ClientCalm(c)
  BY Typed DEF Cli!MockSend, ClientCalm
<1>4. CASE UNCHANGED toServer
  BY <1>1, <1>2, <1>3, <1>4, NothingSent, ServerAlone, SocketsAlone DEF Calm
<1>5. CASE Cli!TrySend(<<Cli!WsMessage(b, nsent[b] + 1)>>)
  <2>1. nsent[b] + 1 \in Data
    BY Typed, DataAssumption DEF Cli!MockSend
  <2>2. /\ \A x \in Socket : toServer'[x] # <<>> => toServer[x] # <<>> \/ rs[x] = "open"
        /\ \A c \in Conn : c # b => SendsOthers(c)
    BY <1>5, <2>1, Bodies, OneTried
  <2>. QED
    BY <1>1, <1>2, <1>3, <2>2, ServerAlone, SocketsAlone DEF Calm
<1>. QED
  BY <1>4, <1>5 DEF Cli!MockSend

-----------------------------------------------------------------------------
(* Steps of the control sockets, other than messages of the client. *)

LEMMA LinkMoves ==
    ASSUME IInv, NEW s \in Socket,
           Accept(s) \/ Opened(s) \/ ClientError(s) \/ ClientClosing(s) \/ ClientClose(s)
    PROVE  Moves /\ \A c \in Conn : Calm(c)
<1>1. toServer' = toServer
  BY DEF Accept, Opened, ClientError, ClientClosing, ClientClose, Cli!SocketOpen,
     Cli!SocketError, Cli!SocketClosing, Cli!SocketClose, clientVars
<1>2. CASE Accept(s)
  <2>1. UNCHANGED clientState /\ rs[s] = "connecting" /\ Srv!ControlConnect(s)
    BY <1>2 DEF Accept, clientVars
  <2>2. \A c \in Conn : ServerCalm(c)
    BY <2>1 DEF Srv!ControlConnect, Srv!connVars, ServerCalm
  <2>3. \A x \in Socket : ctl'[x] # "none" => ctl[x] # "none" \/ rs[x] # "none"
    BY <2>1, Typed DEF Srv!ControlConnect
  <2>. QED
    BY <1>1, <2>1, <2>2, <2>3, ClientAlone, NothingSent, SocketsAlone DEF Calm
<1>3. CASE Opened(s) \/ ClientError(s) \/ ClientClosing(s)
  <2>1. /\ UNCHANGED serverState /\ UNCHANGED <<ws, symKey, readyState, queue, nsent>>
        /\ rs[s] # "none"
        /\ \E new \in {"open", "failed", "closing"} :
              rs' = [rs EXCEPT ![s] = new] /\ (new = "open" => rs[s] = "connecting")
    BY <1>3 DEF Opened, ClientError, ClientClosing, Cli!SocketOpen, Cli!SocketError,
       Cli!SocketClosing, Cli!kxVars, Cli!connVars, serverVars
  <2>2. \A c \in Conn : ClientCalm(c)
    BY <2>1 DEF ClientCalm
  <2>3. Moves
    BY <1>1, <2>1, Typed, ServerAlone DEF Moves
  <2>. QED
    BY <1>1, <2>1, <2>2, <2>3, NothingSent, ServerAlone DEF Calm
<1>4. CASE ClientClose(s)
  <2>1. /\ UNCHANGED serverState /\ UNCHANGED <<ws, queue, nsent>>
        /\ rs[s] \in Present /\ rs' = [rs EXCEPT ![s] = "closed"]
        /\ Cli!EndMocks
    BY <1>4 DEF ClientClose, Cli!SocketClose, Present
  <2>2. \A c \in Conn : ClientCalm(c)
    <3>1. PICK told \in SUBSET registered :
             readyState' = [c \in Conn |-> IF c \in told THEN "closed" ELSE readyState[c]]
      BY <2>1 DEF Cli!EndMocks
    <3>. QED
      BY <2>1, <3>1 DEF ClientCalm
  <2>3. Moves
    BY <1>1, <2>1, Typed, ServerAlone DEF Moves, Present
  <2>. QED
    BY <1>1, <2>1, <2>2, <2>3, NothingSent, ServerAlone DEF Calm
<1>. QED
  BY <1>2, <1>3, <1>4

(* What is in flight towards an end that has closed is lost. *)
LEMMA LossMoves ==
    ASSUME IInv, NEW s \in Socket, ServerEnd(s) \/ Discard(s)
    PROVE  /\ Moves
           /\ \A c \in Conn : ClientCalm(c) /\ ServerCalm(c)
           /\ \/ \A c \in Conn : SendsOthers(c)
              \/ ctl'[s] = "closed" /\ toServer' = [toServer EXCEPT ![s] = <<>>]
<1>1. CASE ServerEnd(s)
  <2>1. /\ UNCHANGED clientState /\ Srv!ControlClose(s)
        /\ toServer' = [toServer EXCEPT ![s] = <<>>]
    BY <1>1 DEF ServerEnd
  <2>2. \A c \in Conn : ServerCalm(c)
    <3>1. SrvP!FreshIsUnknown /\ SrvP!TypeOK
      BY DEF IInv, ServerInv, SrvP!IInv
    <3>2. \A c \in Conn : sockets[c] = s => mock[c] # "none"
      BY <3>1, NoSocketAssumption DEF SrvP!FreshIsUnknown
    <3>. QED
      BY <2>1, <3>2, Typed DEF Srv!ControlClose, Srv!Forget, ServerCalm
  <2>3. ctl'[s] = "closed" /\ \A x \in Socket : ctl'[x] # "none" => ctl[x] # "none"
    BY <2>1, Typed DEF Srv!ControlClose, Srv!Live
  <2>4. \A x \in Socket : toServer'[x] # <<>> => toServer[x] # <<>>
    BY <2>1, Typed
  <2>. QED
    BY <2>1, <2>2, <2>3, <2>4, ClientAlone, SocketsAlone
<1>2. CASE ctl[s] = "closed" /\ Cli!Lose(s) /\ UNCHANGED serverVars
  <2>1. /\ UNCHANGED serverState /\ UNCHANGED clientState
        /\ toServer' = [toServer EXCEPT ![s] = <<>>]
    BY <1>2 DEF serverVars, clientState, Cli!Lose, Cli!linkVars, Cli!handVars, Cli!kxVars,
       Cli!reqVars, Cli!connVars
  <2>2. \A x \in Socket : toServer'[x] # <<>> => toServer[x] # <<>>
    BY <2>1, Typed
  <2>. QED
    BY <1>2, <2>1, <2>2, ClientAlone, ServerAlone, SocketsAlone
<1>3. CASE rs[s] = "closed" /\ Srv!Lose(s) /\ UNCHANGED clientVars
  <2>1. UNCHANGED clientState /\ UNCHANGED toServer /\ UNCHANGED serverState
    BY <1>3 DEF clientVars, serverState, Srv!Lose, Srv!linkVars, Srv!connVars, Srv!httpVars
  <2>. QED
    BY <2>1, ClientAlone, NothingSent, ServerAlone, SocketsAlone
<1>. QED
  BY <1>1, <1>2, <1>3 DEF Discard

(* Only "open" makes a mock send. *)
LEMMA DownlinkMoves ==
    ASSUME IInv, NEW s \in Socket, ToClient(s)
    PROVE  /\ Moves
           /\ \A c \in Conn : ServerCalm(c)
           /\ \A c \in Conn :
                 \/ Calm(c)
                 \/ c \in registered /\ rs[s] = "open" /\ symKey # NoKey /\ Cli!HandleOpen(c)
<1>. DEFINE m == Head(toClient[s])
<1>1. /\ Cli!Receive(s, m) /\ UNCHANGED serverState
      /\ m \in Cli!ServerMsg
  BY DownlinkHead DEF ToClient
<1>. HIDE DEF m
<1>2. CASE /\ UNCHANGED <<ws, rs, symKey, toServer>>
           /\ \A c \in Conn : ClientCalm(c)
  BY <1>1, <1>2, NothingSent, ServerAlone, SocketsAlone DEF Calm
<1>3. CASE Cli!ReceiveServerKx(s, m) \/ Cli!DropMessage(m)
  BY <1>2, <1>3
     DEF Cli!ReceiveServerKx, Cli!DropMessage, Cli!linkVars, Cli!connVars, Cli!vars, ClientCalm
<1>4. ASSUME m.type = "enc", m.key = symKey, Cli!Dispatch(m.body), rs[s] = "open"
      PROVE  /\ Moves
             /\ \A c \in Conn :
                   \/ Calm(c)
                   \/ /\ c \in registered /\ rs[s] = "open" /\ symKey # NoKey
                      /\ Cli!HandleOpen(c)
  <2>1. CASE Cli!HandleHttpResponse(m.body.id, m.body.ok) \/ Cli!NoEffect(m.body)
    BY <1>2, <2>1 DEF Cli!HandleHttpResponse, Cli!NoEffect, Cli!linkVars, Cli!kxVars,
       Cli!connVars, Cli!vars, ClientCalm
  <2>2. CASE Cli!HandleClose(m.body.id) \/ Cli!HandleMessage(m.body.id, m.body.data)
    <3>1. \A c \in Conn : ClientCalm(c)
      BY <2>2, Typed DEF Cli!HandleClose, Cli!HandleMessage, ClientCalm
    <3>. QED
      BY <1>2, <2>2, <3>1 DEF Cli!HandleClose, Cli!HandleMessage, Cli!linkVars, Cli!kxVars
  <2>3. CASE m.body.id \in registered /\ Cli!HandleOpen(m.body.id)
    <3>. DEFINE b == m.body.id
    <3>1. b \in Conn /\ symKey # NoKey
      BY <1>1, <1>4, <2>3, Typed DEF Cli!ServerMsg, Cli!Announcement
    <3>. HIDE DEF b
    <3>2. b \in registered /\ Cli!HandleOpen(b)
      BY <2>3 DEF b
    <3>. DEFINE bodies == [i \in 1..Len(queue[b]) |-> Cli!WsMessage(b, queue[b][i])]
    <3>3. Cli!TrySend(bodies) /\ UNCHANGED <<ws, rs, symKey>>
      BY <3>2 DEF Cli!HandleOpen, Cli!linkVars, Cli!kxVars
    <3>4. bodies \in Seq(CliP!ClientBody) /\ \A i \in Slots(bodies) : bodies[i].id = b
      <4>1. queue[b] \in Seq(Data)
        BY <3>1, Typed
      <4>2. \A i \in 1..Len(queue[b]) : Cli!WsMessage(b, queue[b][i]) \in CliP!ClientBody
        BY <3>1, <4>1, Bodies
      <4>3. bodies \in Seq(CliP!ClientBody)
        BY <4>1, <4>2
      <4>. QED
        BY <4>1, <4>3 DEF Slots, Cli!WsMessage
    <3>. HIDE DEF bodies
    <3>5. Moves
      BY <1>1, <3>3, <3>4, Tried, ServerAlone, SocketsAlone
    <3>6. ASSUME NEW c \in Conn, c # b
          PROVE  Calm(c)
      <4>1. ClientCalm(c)
        BY <3>2, <3>6, Typed DEF Cli!HandleOpen, ClientCalm
      <4>. QED
        BY <1>1, <3>3, <3>4, <3>6, <4>1, Tried, ServerAlone DEF Calm
    <3>. QED
      BY <1>4, <3>1, <3>2, <3>5, <3>6
  <2>. QED
    BY <1>4, <2>1, <2>2, <2>3 DEF Cli!Dispatch
<1>. QED
  BY <1>1, <1>3, <1>4, ServerAlone DEF Cli!Receive

-----------------------------------------------------------------------------
(* Steps of the application at the server. *)

LEMMA ApplicationMoves ==
    ASSUME IInv, ServerApp
    PROVE  Moves /\ \A c \in Conn : Calm(c)
<1>1. UNCHANGED clientState /\ UNCHANGED toServer
  BY DEF ServerApp, clientVars
<1>2. UNCHANGED ctl /\ \A c \in Conn : ServerCalm(c)
  <2>1. ASSUME NEW r \in Req, NEW ok \in BOOLEAN, Srv!HttpRespond(r, ok)
        PROVE  UNCHANGED ctl /\ \A c \in Conn : ServerCalm(c)
    BY <2>1 DEF Srv!HttpRespond, Srv!linkVars, Srv!connVars, ServerCalm
  <2>2. ASSUME NEW b \in Conn, Srv!AppClose(b)
        PROVE  UNCHANGED ctl /\ \A c \in Conn : ServerCalm(c)
    BY <2>2, Typed DEF Srv!AppClose, Srv!linkVars, Srv!httpVars, ServerCalm
  <2>3. ASSUME NEW b \in Conn, NEW d \in Data, Srv!AppSend(b, d)
        PROVE  UNCHANGED ctl /\ \A c \in Conn : ServerCalm(c)
    BY <2>3 DEF Srv!AppSend, Srv!linkVars, Srv!connVars, ServerCalm
  <2>4. CASE Srv!WssClose
    <3>1. /\ mock' = [c \in Conn |-> IF c \in clients THEN "closed" ELSE mock[c]]
          /\ UNCHANGED <<ctl, inbox>>
      BY <2>4 DEF Srv!WssClose, Srv!linkVars
    <3>. QED
      BY <3>1, Typed DEF ServerCalm
  <2>. QED
    BY <2>1, <2>2, <2>3, <2>4 DEF ServerApp
<1>. QED
  BY <1>1, <1>2, ClientAlone, NothingSent, SocketsAlone DEF Calm

-----------------------------------------------------------------------------
(* A message of the client reaches the server. *)

Ignored(c) == inbox'[c] = inbox[c] /\ (mock'[c] = mock[c] \/ (mock[c] # "none" /\ mock'[c] = "closed"))

Emitted(c, m) ==
    /\ mock[c] = "open" /\ mock'[c] = "open"
    /\ inbox'[c] = IF Len(inbox[c]) < MaxQueue THEN Append(inbox[c], Number(m)) ELSE inbox[c]

LEMMA UplinkMoves ==
    ASSUME IInv, NEW s \in Socket, ToServer(s)
    PROVE  /\ Moves
           /\ UNCHANGED <<rs, symKey, readyState, queue, nsent>>
           /\ toServer[s] # <<>> /\ toServer' = [toServer EXCEPT ![s] = Tail(@)]
           /\ \A c \in Conn :
                 \/ Ignored(c) /\ (For(Head(toServer[s]), c) =>
                                      mock[c] # "open" \/ ~Srv!Readable(s, Head(toServer[s])))
                 \/ mock[c] = "none" /\ inbox'[c] = inbox[c] /\ ~For(Head(toServer[s]), c)
                 \/ For(Head(toServer[s]), c) /\ Emitted(c, Head(toServer[s]))
<1>. DEFINE m == Head(toServer[s])
<1>1. /\ Srv!Receive(s, m) /\ m \in Srv!ClientMsg /\ Srv!PeerMaySend(m)
      /\ toServer[s] # <<>> /\ toServer' = [toServer EXCEPT ![s] = Tail(@)]
      /\ UNCHANGED clientState
  BY UplinkHead DEF ToServer
<1>. HIDE DEF m
<1>2. UNCHANGED ctl
  BY <1>1 DEF Srv!Receive, Srv!AcceptKey, Srv!DropMessage, Srv!vars, Srv!Dispatch,
     Srv!HandleHttpRequest, Srv!HandleWsConnect, Srv!HandleWsMessage, Srv!HandleWsClose,
     Srv!linkVars
<1>3. Moves
  <2>1. \A x \in Socket : toServer'[x] # <<>> => toServer[x] # <<>>
    BY <1>1, Typed
  <2>. QED
    BY <1>1, <1>2, <2>1, ClientAlone, SocketsAlone
<1>4. ASSUME NEW c \in Conn
      PROVE  \/ Ignored(c) /\ (For(m, c) => mock[c] # "open" \/ ~Srv!Readable(s, m))
             \/ mock[c] = "none" /\ inbox'[c] = inbox[c] /\ ~For(m, c)
             \/ For(m, c) /\ Emitted(c, m)
  <2>1. CASE Srv!AcceptKey(s, m)
    BY <2>1 DEF Srv!AcceptKey, Srv!connVars, Ignored, For
  <2>2. CASE Srv!DropMessage(s, m)
    BY <2>2 DEF Srv!DropMessage, Srv!vars, Ignored, For
  <2>3. CASE m.type = "enc" /\ Srv!Dispatch(s, m.body)
    <3>1. CASE m.body.type = "http_request" /\ Srv!HandleHttpRequest(s, m.body.id)
      BY <3>1 DEF Srv!HandleHttpRequest, Srv!connVars, Ignored, For
    <3>2. CASE m.body.type = "ws_connect" /\ Srv!HandleWsConnect(s, m.body.id)
      <4>1. inbox' = inbox /\ \A b \in Conn : b # m.body.id => mock'[b] = mock[b]
        BY <3>2, Typed DEF Srv!HandleWsConnect
      <4>2. mock[m.body.id] = "none"
        BY <1>1, <2>3, <3>2 DEF Srv!PeerMaySend
      <4>. QED
        BY <3>2, <4>1, <4>2 DEF Ignored, For
    <3>3. CASE m.body.type = "ws_message" /\ Srv!HandleWsMessage(m.body.id, m.body.data)
      <4>1. UNCHANGED mock
        BY <3>3 DEF Srv!HandleWsMessage
      <4>2. CASE m.body.id = c /\ mock[c] = "open"
        <5>1. sockets[c] # NoSocket
          BY <4>2, NoSocketAssumption DEF IInv, ServerInv, SrvP!IInv, SrvP!OpenMockIsRouted
        <5>2. Emitted(c, m)
          BY <3>3, <4>1, <4>2, <5>1, Typed DEF Srv!HandleWsMessage, Emitted, Number
        <5>. QED
          BY <2>3, <3>3, <4>2, <5>2 DEF For
      <4>3. CASE m.body.id # c
        BY <3>3, <4>1, <4>3, Typed DEF Srv!HandleWsMessage, Ignored, For
      <4>4. CASE m.body.id = c /\ mock[c] # "open"
        BY <3>3, <4>1, <4>4 DEF Srv!HandleWsMessage, Ignored
      <4>. QED
        BY <4>2, <4>3, <4>4
    <3>4. CASE m.body.type = "ws_close" /\ Srv!HandleWsClose(m.body.id)
      <4>1. SrvP!FreshIsUnknown
        BY DEF IInv, ServerInv, SrvP!IInv
      <4>. QED
        BY <3>4, <4>1, Typed DEF Srv!HandleWsClose, Srv!Forget, Ignored, For,
           SrvP!FreshIsUnknown
    <3>. QED
      BY <2>3, <3>1, <3>2, <3>3, <3>4 DEF Srv!Dispatch
  <2>. QED
    BY <1>1, <2>1, <2>2, <2>3 DEF Srv!Receive, Srv!Readable
<1>. QED
  BY <1>1, <1>3, <1>4 DEF m, clientState

-----------------------------------------------------------------------------
(* What a step is to a connection. *)

Lost(c) ==
    /\ ClientCalm(c) /\ ServerCalm(c)
    /\ \E s \in Socket : ctl'[s] = "closed" /\ toServer' = [toServer EXCEPT ![s] = <<>>]

Sends(c) == Cli!MockSend(c) /\ ServerCalm(c)

Opens(c) ==
    /\ c \in registered /\ Cli!HandleOpen(c) /\ ServerCalm(c)
    /\ \E s \in Socket : rs[s] = "open" /\ symKey # NoKey

Arrives == \E s \in Socket : ToServer(s)

LEMMA UplinkSteps ==
    ASSUME IInv, [Next]_vars
    PROVE  Moves /\ \A c \in Conn : Calm(c) \/ Lost(c) \/ Sends(c) \/ Opens(c) \/ Arrives
<1>1. ASSUME NEW s \in Socket, Link(s)
      PROVE  Moves /\ \A c \in Conn : Calm(c) \/ Lost(c) \/ Opens(c) \/ Arrives
  <2>1. CASE ServerEnd(s) \/ Discard(s)
    BY <2>1, LossMoves DEF Calm, Lost
  <2>2. CASE ToClient(s)
    BY <2>2, DownlinkMoves DEF Opens
  <2>3. CASE ToServer(s)
    BY <2>3, UplinkMoves DEF Arrives
  <2>. QED
    BY <1>1, <2>1, <2>2, <2>3, LinkMoves DEF Link
<1>2. CASE Client
  <2>1. UNCHANGED serverVars
    BY <1>2 DEF Client
  <2>2. ASSUME NEW b \in Conn, Cli!MockWebSocket(b)
        PROVE  Moves /\ \A c \in Conn : Calm(c) \/ Sends(c)
    BY <2>1, <2>2, MockMoves, SendMoves DEF Cli!MockWebSocket, Sends
  <2>. QED
    BY <1>2, <2>1, <2>2, HandshakeMoves, FetchMoves, TimerMoves DEF Client
<1>3. CASE UNCHANGED vars
  BY <1>3, ClientAlone, NothingSent, ServerAlone, SocketsAlone
     DEF vars, clientVars, serverVars, Calm
<1>. QED
  BY <1>1, <1>2, <1>3, ApplicationMoves DEF Next


LEMMA UsedKept ==
    ASSUME IInv, UsedInv, Moves
    PROVE  UsedInv'
<1>1. \A x \in Socket : ctl'[x] # "none" \/ toServer'[x] # <<>> => rs'[x] # "none"
  BY DEF UsedInv, Moves
<1>2. CASE ws' = ws /\ \A x \in Socket : rs'[x] # "none" => rs[x] # "none"
  <2>1. \A x \in Socket : rs'[x] # "none" => ws' # NoSocket
    BY <1>2 DEF UsedInv
  <2>2. ws' # NoSocket => rs'[ws'] # "none"
    BY <1>2, Typed DEF UsedInv, Moves
  <2>. QED
    BY <1>1, <2>1, <2>2 DEF UsedInv
<1>3. CASE ws' \in Socket /\ rs'[ws'] # "none"
  BY <1>1, <1>3, Typed DEF UsedInv
<1>. QED
  BY <1>2, <1>3 DEF Moves

LEMMA ViaStays ==
    ASSUME IInv, [Next]_vars
    PROVE  via' = via \/ Arrives
<1>1. ASSUME NEW s \in Socket, Link(s)
      PROVE  via' = via \/ Arrives
  <2>1. CASE Opened(s) \/ ClientError(s) \/ ClientClosing(s) \/ ClientClose(s) \/ ToClient(s)
    BY <2>1 DEF Opened, ClientError, ClientClosing, ClientClose, ToClient, serverVars,
       serverState
  <2>2. CASE Accept(s) \/ ServerEnd(s) \/ Discard(s)
    BY <2>2 DEF Accept, ServerEnd, Discard, Srv!ControlConnect, Srv!ControlClose, Srv!Lose,
       Srv!connVars, serverVars, serverState
  <2>. QED
    BY <1>1, <2>1, <2>2 DEF Link, Arrives
<1>2. CASE Client \/ UNCHANGED vars
  BY <1>2 DEF Client, vars, serverVars, serverState
<1>3. CASE ServerApp
  BY <1>3 DEF ServerApp, Srv!HttpRespond, Srv!AppClose, Srv!AppSend, Srv!WssClose, Srv!connVars
<1>. QED
  BY <1>1, <1>2, <1>3 DEF Next

LEMMA ViaKept ==
    ASSUME IInv, ViaInv, [Next]_vars
    PROVE  ViaInv'
<1>1. /\ via \in [Conn -> Socket \cup {NoSocket}]
      /\ \A c \in Conn : mock[c] = "none" => sockets[c] = NoSocket
  BY DEF IInv, ServerInv, SrvP!IInv, SrvP!TypeOK, SrvP!FreshIsUnknown
<1>2. CASE via' = via /\ \A c \in Conn : mock[c] = "none" => mock'[c] = "none"
  BY <1>2 DEF ViaInv
<1>3. ASSUME NEW c \in Conn, Calm(c) \/ Lost(c) \/ Sends(c) \/ Opens(c), mock[c] = "none"
      PROVE  mock'[c] = "none"
  BY <1>3 DEF Calm, Lost, Sends, Opens, ServerCalm
<1>4. ASSUME NEW s \in Socket, ToServer(s)
      PROVE  ViaInv'
  <2>. DEFINE m == Head(toServer[s])
  <2>1. Srv!Receive(s, m)
    BY <1>4 DEF ToServer
  <2>. HIDE DEF m
  <2>2. CASE Srv!AcceptKey(s, m) \/ Srv!DropMessage(s, m)
    BY <1>2, <2>2 DEF Srv!AcceptKey, Srv!DropMessage, Srv!connVars, Srv!vars
  <2>3. CASE Srv!HandleHttpRequest(s, m.body.id) \/ Srv!HandleWsMessage(m.body.id, m.body.data)
    BY <1>2, <2>3 DEF Srv!HandleHttpRequest, Srv!HandleWsMessage, Srv!connVars
  <2>4. CASE Srv!HandleWsConnect(s, m.body.id)
    BY <1>1, <2>4, Typed DEF Srv!HandleWsConnect, ViaInv
  <2>5. CASE Srv!HandleWsClose(m.body.id)
    BY <1>1, <1>2, <2>5, Typed DEF Srv!HandleWsClose, Srv!Forget
  <2>. QED
    BY <2>1, <2>2, <2>3, <2>4, <2>5 DEF Srv!Receive, Srv!Dispatch
<1>5. CASE ~Arrives
  BY <1>2, <1>3, <1>5, UplinkSteps, ViaStays
<1>. QED
  BY <1>4, <1>5 DEF Arrives

(* Each case leaves what a mock has queued, and what is fresh, as they were. *)
LEMMA QueueKept ==
    ASSUME IInv, QueueInv, [Next]_vars
    PROVE  QueueInv'
<1>. SUFFICES ASSUME NEW c \in Conn
              PROVE  /\ readyState'[c] \in {"new", "connecting"} =>
                           queue'[c] = [i \in 1..nsent'[c] |-> i]
                     /\ readyState'[c] = "open" => queue'[c] = <<>>
  BY DEF QueueInv
<1>1. /\ readyState[c] \in {"new", "connecting"} => queue[c] = [i \in 1..nsent[c] |-> i]
      /\ readyState[c] = "open" => queue[c] = <<>>
  BY DEF QueueInv
<1>2. CASE ClientCalm(c)
  BY <1>1, <1>2 DEF ClientCalm
<1>3. CASE Sends(c)
  <2>1. CASE readyState[c] = "connecting"
    <3>. DEFINE n == nsent[c]
    <3>1. /\ nsent'[c] = n + 1 /\ n \in Nat
          /\ queue'[c] = Append(queue[c], n + 1) /\ queue[c] = [i \in 1..n |-> i]
          /\ readyState' = readyState
      BY <1>1, <1>3, <2>1, Typed, DataAssumption DEF Sends, Cli!MockSend
    <3>. HIDE DEF n
    <3>2. queue'[c] = [i \in 1..(n + 1) |-> i]
      BY <3>1
    <3>. QED
      BY <2>1, <3>1, <3>2
  <2>2. CASE readyState[c] = "open"
    BY <1>1, <1>3, <2>2, Typed DEF Sends, Cli!MockSend
  <2>. QED
    BY <1>3, <2>1, <2>2 DEF Sends, Cli!MockSend
<1>4. CASE Opens(c)
  BY <1>4, Typed DEF Opens, Cli!HandleOpen
<1>5. CASE Arrives
  BY <1>1, <1>5, UplinkMoves DEF Arrives
<1>. QED
  BY <1>2, <1>3, <1>4, <1>5, UplinkSteps DEF Calm, Lost

LEMMA FreshKept ==
    ASSUME IInv, FreshInv, [Next]_vars
    PROVE  FreshInv'
<1>. SUFFICES ASSUME NEW c \in Conn,
                     mock'[c] = "none" \/ readyState'[c] \in {"new", "connecting"}
              PROVE  inbox'[c] = <<>> /\ \A x \in Socket : Silent(toServer'[x], c)
  BY DEF FreshInv
<1>. DEFINE fresh == mock[c] = "none" \/ readyState[c] \in {"new", "connecting"}
<1>1. /\ fresh => inbox[c] = <<>> /\ \A x \in Socket : Silent(toServer[x], c)
      /\ readyState[c] = "open" => mock[c] # "none"
  BY DEF FreshInv, IInv, OpenMocksExist
<1>2. (ClientCalm(c) /\ ServerCalm(c)) => fresh /\ inbox'[c] = inbox[c]
  BY DEF ClientCalm, ServerCalm
<1>3. CASE Calm(c)
  <2>1. ASSUME NEW x \in Socket
        PROVE  Silent(toServer'[x], c)
    <3>1. PICK out \in Seq(CliP!ClientMsg) : toServer'[x] = toServer[x] \o out /\ Silent(out, c)
      BY <1>3 DEF Calm, SendsOthers
    <3>2. toServer[x] \in Seq(CliP!ClientMsg) /\ Silent(toServer[x], c)
      BY <1>1, <1>2, <1>3, Typed DEF Calm
    <3>. QED
      BY <3>1, <3>2, OthersSent
  <2>. QED
    BY <1>1, <1>2, <1>3, <2>1 DEF Calm
<1>4. CASE Lost(c)
  <2>1. Silent(<<>>, c)
    BY DEF Silent, Slots
  <2>. QED
    BY <1>1, <1>2, <1>4, <2>1, Typed DEF Lost
<1>5. CASE Sends(c)
  <2>1. /\ readyState' = readyState /\ readyState[c] \in {"connecting", "open"}
        /\ readyState[c] = "connecting" => toServer' = toServer
        /\ inbox'[c] = inbox[c] /\ (mock'[c] = "none" => mock[c] = "none")
    BY <1>5 DEF Sends, ServerCalm, Cli!MockSend
  <2>. QED
    BY <1>1, <2>1
<1>6. CASE Opens(c)
  <2>1. readyState'[c] = "open"
    BY <1>6, Typed DEF Opens, Cli!HandleOpen
  <2>2. mock'[c] # "none"
    BY <2>1, MocksExistKept DEF OpenMocksExist
  <2>. QED
    BY <2>1, <2>2
<1>7. ASSUME NEW s \in Socket, ToServer(s)
      PROVE  inbox'[c] = <<>> /\ \A x \in Socket : Silent(toServer'[x], c)
  <2>. DEFINE m == Head(toServer[s])
  <2>1. /\ UNCHANGED readyState /\ toServer[s] # <<>>
        /\ toServer' = [toServer EXCEPT ![s] = Tail(@)]
        /\ \/ Ignored(c)
           \/ mock[c] = "none" /\ inbox'[c] = inbox[c]
           \/ For(m, c) /\ Emitted(c, m)
    BY <1>7, UplinkMoves
  <2>2. fresh
    BY <2>1 DEF Ignored, Emitted
  <2>3. toServer[s] \in Seq(CliP!ClientMsg) /\ Silent(toServer[s], c)
    BY <1>1, <2>2, Typed
  <2>4. ~For(m, c) /\ Silent(Tail(toServer[s]), c)
    BY <2>1, <2>3, WithinTail
  <2>. HIDE DEF m
  <2>5. inbox'[c] = <<>>
    BY <1>1, <2>1, <2>2, <2>4 DEF Ignored
  <2>. QED
    BY <1>1, <2>1, <2>2, <2>4, <2>5, Typed
<1>. QED
  BY <1>3, <1>4, <1>5, <1>6, <1>7, UplinkSteps DEF Arrives

-----------------------------------------------------------------------------
(* As long as there is one control socket. *)

LEMMA OneSocketWas ==
    ASSUME Moves, NEW s \in Socket, OneSocket(s)'
    PROVE  OneSocket(s)
BY DEF OneSocket, Moves

LEMMA OnlySocket ==
    ASSUME IInv, UsedInv, NEW s \in Socket, OneSocket(s), NEW c \in Conn
    PROVE  /\ \A x \in Socket : toServer[x] # <<>> \/ rs[x] \in Present => x = s
           /\ rs[s] = "open" => ws = s
           /\ readyState[c] = "open" => rs[s] \in Present
           /\ mock[c] = "open" =>
                 /\ via[c] = s /\ ctl[s] \in {"open", "closing"}
                 /\ keyOf[s] \in Key /\ kx[keyOf[s]] # "idle"
<1>1. \A x \in Socket : ctl[x] # "none" => x = s
  BY DEF OneSocket, UsedInv
<1>2. \A x \in Socket : toServer[x] # <<>> \/ rs[x] \in Present => x = s
  BY DEF OneSocket, UsedInv, Present
<1>3. rs[s] = "open" => ws = s
  BY Typed DEF OneSocket, UsedInv
<1>4. readyState[c] = "open" => rs[s] \in Present
  <2>1. CliP!OpenMockIsCarried
    BY DEF IInv, ClientInv, CliP!IInv, CliP!MocksInv
  <2>. QED
    BY <1>2, <2>1, ThrowingNobody DEF CliP!OpenMockIsCarried, CliP!Present, Present
<1>5. ASSUME mock[c] = "open"
      PROVE  /\ via[c] = s /\ ctl[s] \in {"open", "closing"}
             /\ keyOf[s] \in Key /\ kx[keyOf[s]] # "idle"
  <2>1. via[c] \in Socket /\ ctl[via[c]] \in {"open", "closing"} /\ keyOf[via[c]] # NoKey
    BY <1>5 DEF IInv, ServerInv, SrvP!IInv, SrvP!OpenMockIsRouted, SrvP!Live
  <2>2. via[c] = s
    BY <1>1, <2>1
  <2>3. keyOf[s] \in Key /\ kx[keyOf[s]] = "done"
    BY <2>1, <2>2
       DEF IInv, ServerInv, SrvP!IInv, SrvP!TypeOK, ServedAfterAttestation
  <2>. QED
    BY <2>1, <2>2, <2>3
<1>. QED
  BY <1>2, <1>3, <1>4, <1>5

(* One socket, one handshake: one key. *)
LEMMA OneKey ==
    ASSUME IInv, UsedInv, NEW s \in Socket, OneSocket(s),
           NEW k \in Key, NEW l \in Key, kx[k] # "idle", kx[l] # "idle"
    PROVE  k = l
<1>1. \A x \in Socket : ctl[x] # "none" => x = s
  BY DEF OneSocket, UsedInv
<1>2. /\ on[k] \in Socket /\ ctl[on[k]] # "none"
      /\ on[l] \in Socket /\ ctl[on[l]] # "none"
  BY DEF IInv, KxComesOnce
<1>3. on[k] = on[l]
  BY <1>1, <1>2
<1>. QED
  BY <1>3 DEF IInv, KxComesOnce

(* The server reads what the client sends. *)
LEMMA AllReadable ==
    ASSUME IInv, UsedInv, NEW s \in Socket, OneSocket(s), NEW c \in Conn, mock[c] = "open",
           toServer[s] # <<>>, Head(toServer[s]).type = "enc"
    PROVE  Srv!Readable(s, Head(toServer[s]))
<1>. DEFINE m == Head(toServer[s])
<1>1. toServer[s] \in Seq(CliP!ClientMsg) /\ 1 \in 1..Len(toServer[s]) /\ m = toServer[s][1]
  BY Typed
<1>2. m \in CliP!ClientMsg /\ CliP!Founded(m)
  BY <1>1 DEF IInv, ClientInv, CliP!IInv, CliP!KeysInv, CliP!SentIsFounded
<1>3. m.key \in Key /\ kx[m.key] # "idle"
  BY <1>2 DEF CliP!Founded, CliP!Verified, CliP!ClientMsg, CliP!Plaintext
<1>4. keyOf[s] \in Key /\ kx[keyOf[s]] # "idle"
  BY OnlySocket
<1>5. m.key = keyOf[s]
  BY <1>3, <1>4, OneKey
<1>. QED
  BY <1>4, <1>5, NoKeyAssumption DEF Srv!Readable

(* The client keeps its key as long as the socket is OPEN. *)
LEMMA KeyIsKept ==
    ASSUME IInv, UsedInv, Moves, NEW s \in Socket, OneSocket(s), NEW c \in Conn, Flows(s, c),
           readyState[c] = "open", rs'[s] = "open"
    PROVE  rs[s] = "open" /\ symKey # NoKey /\ symKey' # NoKey
<1>1. rs[s] \in Present /\ rs[s] \in {"open", "connecting"}
  BY OnlySocket DEF Moves
<1>2. rs[s] = "open" /\ symKey # NoKey
  BY <1>1 DEF Present, Flows
<1>3. ~(\E x \in Socket : rs[x] \in Present /\ rs'[x] = "closed")
  BY OnlySocket
<1>. QED
  BY <1>2, <1>3 DEF Moves

(* Nothing of the connection is sent or received. *)
LEMMA CalmFlows ==
    ASSUME IInv, UsedInv, Moves, NEW s \in Socket, OneSocket(s), NEW c \in Conn, Flows(s, c),
           ClientCalm(c), ServerCalm(c), NEW out \in Seq(CliP!ClientMsg),
           toServer'[s] = toServer[s] \o out, Silent(out, c)
    PROVE  Flows(s, c)'
<1>1. inbox'[c] = inbox[c] /\ nsent'[c] = nsent[c]
      /\ (readyState'[c] = "open" => readyState[c] = "open")
      /\ (mock'[c] = "open" => mock[c] = "open")
  BY DEF ClientCalm, ServerCalm
<1>2. readyState'[c] = "open" /\ rs'[s] = "open" => rs[s] = "open" /\ symKey' # NoKey
  BY <1>1, KeyIsKept
<1>3. toServer[s] \in Seq(CliP!ClientMsg)
  BY Typed
<1>. DEFINE q == toServer[s]
            l == Len(inbox[c])
            n == nsent[c]
<1>4. /\ Stream(q, c, l) => Stream(q \o out, c, l)
      /\ Within(q, c, n) => Within(q \o out, c, n)
      /\ Reaches(q, c, l, n) => Reaches(q \o out, c, l, n)
  <2>. HIDE DEF l, n
  <2>. QED
    BY <1>3, OthersSent
<1>. QED
  BY <1>1, <1>2, <1>4 DEF Flows

LEMMA LostFlows ==
    ASSUME IInv, IInv', UsedInv, UsedInv', Moves, NEW s \in Socket, OneSocket(s), OneSocket(s)',
           NEW c \in Conn, Flows(s, c), Lost(c)
    PROVE  Flows(s, c)'
<1>1. PICK x \in Socket : ctl'[x] = "closed" /\ toServer' = [toServer EXCEPT ![x] = <<>>]
  BY DEF Lost
<1>2. CASE x # s
  <2>1. toServer'[s] = toServer[s] \o <<>>
    BY <1>1, <1>2, Typed
  <2>2. <<>> \in Seq(CliP!ClientMsg) /\ Silent(<<>>, c)
    BY DEF Silent, Slots
  <2>. QED
    BY <2>1, <2>2, CalmFlows DEF Lost
<1>3. CASE x = s
  <2>1. mock'[c] = "open" => via'[c] \in Socket /\ ctl'[via'[c]] \in {"open", "closing"}
    BY DEF IInv, ServerInv, SrvP!IInv, SrvP!OpenMockIsRouted, SrvP!Live
  <2>2. mock'[c] # "open"
    BY <1>1, <1>3, <2>1 DEF OneSocket, UsedInv
  <2>3. inbox'[c] = inbox[c] /\ (readyState'[c] = "open" => readyState[c] = "open")
    BY DEF Lost, ClientCalm, ServerCalm
  <2>4. readyState'[c] = "open" /\ rs'[s] = "open" => symKey' # NoKey
    BY <2>3, KeyIsKept
  <2>. QED
    BY <2>2, <2>3, <2>4 DEF Flows
<1>. QED
  BY <1>2, <1>3

(* The application sends on the connection. *)
LEMMA SendsFlows ==
    ASSUME IInv, UsedInv, Moves, NEW s \in Socket, OneSocket(s), NEW c \in Conn, Flows(s, c),
           Sends(c)
    PROVE  Flows(s, c)'
<1>. DEFINE q == toServer[s]
            l == Len(inbox[c])
            n == nsent[c]
            d == n + 1
<1>1. /\ inbox'[c] = inbox[c] /\ (mock'[c] = "open" => mock[c] = "open")
      /\ nsent'[c] = d /\ UNCHANGED <<readyState, ws, rs, symKey>>
      /\ l \in Nat /\ n \in Nat /\ q \in Seq(CliP!ClientMsg) /\ d \in Data
  <2>1. n < MaxSend
    BY DEF Sends, Cli!MockSend
  <2>2. l \in Nat /\ n \in Nat /\ q \in Seq(CliP!ClientMsg)
    BY Typed, DataAssumption
  <2>. QED
    BY <2>1, <2>2, Typed, DataAssumption
       DEF Sends, ServerCalm, Cli!MockSend, Cli!linkVars, Cli!kxVars
<1>2. readyState'[c] = "open" /\ rs'[s] = "open" => rs[s] = "open" /\ symKey' # NoKey
  BY <1>1, KeyIsKept
<1>3. mock[c] = "open" => l <= n /\ Stream(q, c, l) /\ Within(q, c, n)
  BY DEF Flows
<1>4. ASSUME mock[c] = "open", toServer'[s] = q,
             ~(readyState[c] = "open" /\ rs[s] = "open")
      PROVE  Flows(s, c)'
  <2>1. l <= d
    BY <1>1, <1>3, <1>4
  <2>2. Within(q, c, d)
    <3>1. ASSUME NEW i \in Slots(q), For(q[i], c)
          PROVE  Number(q[i]) <= d
      <4>1. Number(q[i]) \in Nat /\ Number(q[i]) <= n
        BY <1>3, <1>4, <3>1, Numbers DEF Within, Numbered
      <4>. QED
        BY <1>1, <4>1
    <3>. QED
      BY <3>1 DEF Within
  <2>. QED
    BY <1>1, <1>2, <1>3, <1>4, <2>1, <2>2 DEF Flows
<1>5. ASSUME mock[c] = "open", readyState[c] = "open", rs[s] = "open"
      PROVE  Flows(s, c)'
  <2>1. ws = s /\ symKey # NoKey
    BY <1>5, OnlySocket DEF Flows
  <2>2. Cli!TrySend(<<Cli!WsMessage(c, d)>>) /\ Cli!CanSend
    BY <1>5, <2>1, Typed DEF Sends, Cli!MockSend, Cli!CanSend, Cli!Usable
  <2>. DEFINE bodies == <<Cli!WsMessage(c, d)>>
              out == [i \in 1..Len(bodies) |-> Cli!Enc(symKey, bodies[i])]
  <2>3. toServer'[s] = q \o out
    BY <2>1, <2>2, Typed DEF Cli!TrySend, Cli!SendAll
  <2>4. out \in Seq(CliP!ClientMsg) /\ Len(out) = 1
        /\ \A i \in Slots(out) : For(out[i], c) /\ Number(out[i]) = n + i
    <3>1. out = <<Cli!Enc(symKey, Cli!WsMessage(c, d))>>
      OBVIOUS
    <3>2. Cli!Enc(symKey, Cli!WsMessage(c, d)) \in CliP!ClientMsg
      BY <1>1, <2>1, Bodies, Typed DEF Cli!Enc, CliP!ClientMsg
    <3>3. For(Cli!Enc(symKey, Cli!WsMessage(c, d)), c)
          /\ Number(Cli!Enc(symKey, Cli!WsMessage(c, d))) = n + 1
      BY DEF For, Number, Cli!Enc, Cli!WsMessage
    <3>. HIDE DEF out, n
    <3>. QED
      BY <3>1, <3>2, <3>3 DEF Slots
  <2>5. Numbered(q, c) /\ Stream(q, c, l) /\ Within(q, c, n) /\ Reaches(q, c, l, n)
    BY <1>5, Numbers DEF Flows
  <2>. HIDE DEF out
  <2>6. Stream(q \o out, c, l) /\ Within(q \o out, c, d) /\ Reaches(q \o out, c, l, d)
    <3>. HIDE DEF l, n, q
    <3>. QED
      BY <1>1, <2>4, <2>5, MoreSent
  <2>7. l <= d
    BY <1>1, <1>3, <1>5
  <2>. QED
    BY <1>1, <1>2, <2>3, <2>6, <2>7 DEF Flows
<1>6. ASSUME mock[c] = "open", ~(readyState[c] = "open" /\ rs[s] = "open")
      PROVE  toServer'[s] = q
  <2>1. CASE UNCHANGED toServer
    BY <2>1
  <2>2. CASE readyState[c] = "open" /\ Cli!TrySend(<<Cli!WsMessage(c, d)>>)
    <3>1. ~Cli!CanSend
      BY <1>6, <2>2, Typed DEF Cli!CanSend, Cli!Usable, OneSocket
    <3>. QED
      BY <2>2, <3>1 DEF Cli!TrySend
  <2>. QED
    BY <2>1, <2>2 DEF Sends, Cli!MockSend
<1>7. CASE mock[c] # "open"
  BY <1>1, <1>2, <1>7 DEF Flows
<1>. QED
  BY <1>4, <1>5, <1>6, <1>7

(* "open" reaches the client: what was queued is sent. *)
LEMMA OpensFlows ==
    ASSUME IInv, UsedInv, QueueInv, FreshInv, Moves, NEW s \in Socket, OneSocket(s),
           NEW c \in Conn, Flows(s, c), Opens(c)
    PROVE  Flows(s, c)'
<1>. DEFINE q == toServer[s]
            l == Len(inbox[c])
            n == nsent[c]
            k == Len(queue[c])
            bodies == [i \in 1..k |-> Cli!WsMessage(c, queue[c][i])]
            out == [i \in 1..k |-> Cli!Enc(symKey, bodies[i])]
<1>1. /\ ws = s /\ rs[s] = "open" /\ symKey # NoKey /\ symKey \in Key
      /\ readyState[c] \in {"connecting", "open"}
  <2>1. rs[s] = "open"
    BY OnlySocket DEF Opens, Present
  <2>2. CliP!RegisteredIsActive
    BY DEF IInv, ClientInv, CliP!IInv, CliP!MocksInv
  <2>3. readyState[c] \in {"connecting", "open"}
    BY <2>2, ThrowingNobody DEF Opens, CliP!RegisteredIsActive
  <2>. QED
    BY <2>1, <2>3, OnlySocket, Typed DEF Opens
<1>2. /\ inbox'[c] = inbox[c] /\ (mock'[c] = "open" => mock[c] = "open")
      /\ nsent' = nsent /\ UNCHANGED <<ws, rs, symKey>>
      /\ l \in Nat /\ n \in Nat /\ k \in Nat
      /\ q \in Seq(CliP!ClientMsg) /\ queue[c] \in Seq(Data)
  BY Typed, DataAssumption DEF Opens, ServerCalm, Cli!HandleOpen, Cli!linkVars, Cli!kxVars
<1>3. toServer'[s] = q \o out
  <2>1. Cli!CanSend
    BY <1>1, Typed DEF Cli!CanSend, Cli!Usable
  <2>2. toServer' = [toServer EXCEPT ![s] =
                        @ \o [i \in 1..Len(bodies) |-> Cli!Enc(symKey, bodies[i])]]
    BY <1>1, <2>1 DEF Opens, Cli!HandleOpen, Cli!TrySend, Cli!SendAll
  <2>3. Len(bodies) = k
    BY <1>2
  <2>4. toServer'[s] = q \o [i \in 1..Len(bodies) |-> Cli!Enc(symKey, bodies[i])]
    BY <2>2, Typed
  <2>. QED
    BY <2>3, <2>4
<1>4. /\ out \in Seq(CliP!ClientMsg) /\ Len(out) = k
      /\ \A i \in 1..k : For(out[i], c) /\ Number(out[i]) = queue[c][i]
  <2>1. \A i \in 1..k : Cli!Enc(symKey, Cli!WsMessage(c, queue[c][i])) \in CliP!ClientMsg
    BY <1>1, <1>2, Bodies DEF Cli!Enc, CliP!ClientMsg
  <2>2. \A i \in 1..k : /\ For(Cli!Enc(symKey, Cli!WsMessage(c, queue[c][i])), c)
                        /\ Number(Cli!Enc(symKey, Cli!WsMessage(c, queue[c][i]))) = queue[c][i]
    BY DEF For, Number, Cli!Enc, Cli!WsMessage
  <2>3. \A i \in 1..k : out[i] = Cli!Enc(symKey, Cli!WsMessage(c, queue[c][i]))
    OBVIOUS
  <2>4. out = [i \in 1..k |-> Cli!Enc(symKey, Cli!WsMessage(c, queue[c][i]))]
    OBVIOUS
  <2>5. out \in Seq(CliP!ClientMsg) /\ Len(out) = k
    <3>. HIDE DEF out, k
    <3>. QED
      BY <1>2, <2>1, <2>4
  <2>. QED
    BY <2>2, <2>3, <2>5
<1>. HIDE DEF bodies, out
<1>5. ASSUME mock[c] = "open"
      PROVE  l <= n /\ Stream(q \o out, c, l) /\ Within(q \o out, c, n) /\ Reaches(q \o out, c, l, n)
  <2>1. CASE readyState[c] = "connecting"
    <3>1. inbox[c] = <<>> /\ Silent(q, c) /\ queue[c] = [i \in 1..n |-> i]
      BY <2>1 DEF FreshInv, QueueInv
    <3>2. l = 0 /\ k = n /\ \A i \in 1..k : queue[c][i] = i
      BY <1>2, <3>1
    <3>3. Stream(q, c, 0) /\ Within(q, c, 0) /\ Reaches(q, c, 0, 0) /\ Numbered(q, c)
      BY <3>1, NothingYet
    <3>4. \A i \in Slots(out) : For(out[i], c) /\ Number(out[i]) = 0 + i
      BY <1>4, <3>2 DEF Slots
    <3>. HIDE DEF q
    <3>5. /\ Stream(q \o out, c, 0) /\ Within(q \o out, c, 0 + Len(out))
          /\ Reaches(q \o out, c, 0, 0 + Len(out))
      BY <1>2, <1>4, <3>3, <3>4, MoreSent
    <3>. HIDE DEF l, n, k
    <3>6. 0 + Len(out) = n /\ l <= n
      BY <1>2, <1>4, <3>2
    <3>. QED
      BY <3>2, <3>5, <3>6
  <2>2. CASE readyState[c] = "open"
    <3>1. queue[c] = <<>> /\ l <= n
          /\ Stream(q, c, l) /\ Within(q, c, n) /\ Reaches(q, c, l, n)
      BY <1>1, <1>5, <2>2 DEF QueueInv, Flows
    <3>2. Silent(out, c)
      BY <1>4, <3>1 DEF Silent, Slots
    <3>. HIDE DEF q, l, n
    <3>. QED
      BY <1>2, <1>4, <3>1, <3>2, OthersSent
  <2>. QED
    BY <1>1, <2>1, <2>2
<1>. QED
  BY <1>1, <1>2, <1>3, <1>5 DEF Flows

(* A message leaves the queue, and is received if it is of the connection. *)
LEMMA ArrivesFlows ==
    ASSUME IInv, UsedInv, FreshInv, NEW s \in Socket, OneSocket(s),
           NEW c \in Conn, Flows(s, c), NEW x \in Socket, ToServer(x)
    PROVE  Flows(s, c)'
<1>. DEFINE q == toServer[s]
            l == Len(inbox[c])
            n == nsent[c]
            m == Head(q)
            sound == readyState[c] = "open" /\ rs[s] = "open"
<1>1. x = s
  BY OnlySocket DEF ToServer
<1>2. /\ UNCHANGED <<rs, symKey, readyState, nsent>>
      /\ q # <<>> /\ toServer'[s] = Tail(q) /\ q \in Seq(CliP!ClientMsg)
      /\ l \in Nat /\ n \in Nat /\ inbox[c] \in Seq(Data)
      /\ \/ Ignored(c) /\ (For(m, c) => mock[c] # "open" \/ ~Srv!Readable(s, m))
         \/ mock[c] = "none" /\ inbox'[c] = inbox[c] /\ ~For(m, c)
         \/ For(m, c) /\ Emitted(c, m)
  BY <1>1, UplinkMoves, Typed, DataAssumption
<1>3. /\ \A i \in 1..l : inbox[c][i] = i
      /\ sound => symKey # NoKey
      /\ mock[c] = "open" => l <= n /\ Stream(q, c, l) /\ Within(q, c, n)
      /\ mock[c] = "open" /\ sound => Reaches(q, c, l, n)
  BY DEF Flows
<1>4. Within(q, c, n) => Within(Tail(q), c, n)
  <2>. HIDE DEF q, n
  <2>. QED
    BY <1>2, WithinTail
<1>5. CASE inbox'[c] = inbox[c] /\ mock'[c] # "open"
  BY <1>2, <1>3, <1>5 DEF Flows
<1>6. CASE inbox'[c] = inbox[c] /\ mock[c] = "open" /\ ~For(m, c)
  <2>1. /\ Stream(q, c, l) => Stream(Tail(q), c, l)
        /\ Reaches(q, c, l, n) => Reaches(Tail(q), c, l, n)
    <3>. HIDE DEF q, l, n
    <3>. QED
      BY <1>2, <1>6, OthersTaken
  <2>. QED
    BY <1>2, <1>3, <1>4, <1>6, <2>1 DEF Flows
<1>7. CASE inbox'[c] = inbox[c] /\ mock[c] = "none"
  <2>1. inbox[c] = <<>> /\ Silent(q, c) /\ readyState[c] # "open"
    BY <1>7 DEF FreshInv, IInv, OpenMocksExist
  <2>2. Silent(Tail(q), c)
    <3>. HIDE DEF q
    <3>. QED
      BY <1>2, <2>1, WithinTail
  <2>3. l = 0 /\ Stream(Tail(q), c, 0)
    BY <2>1, <2>2, NothingYet
  <2>4. Within(Tail(q), c, n)
    BY <2>2 DEF Silent, Within
  <2>. HIDE DEF q
  <2>. QED
    BY <1>2, <1>3, <1>7, <2>1, <2>3, <2>4 DEF Flows
<1>8. CASE For(m, c) /\ Emitted(c, m)
  <2>1. mock[c] = "open" /\ mock'[c] = "open" /\ Numbered(q, c)
    BY <1>8, Numbers DEF Emitted
  <2>2. Number(m) \in 1..MaxSend /\ Number(m) <= n
    <3>1. 1 \in Slots(q) /\ q[1] = m
      BY <1>2 DEF Slots
    <3>. QED
      BY <1>3, <1>8, <2>1, <3>1, Numbers DEF Within
  <2>3. /\ Number(m) = l + 1 /\ Stream(Tail(q), c, l + 1)
        /\ Reaches(q, c, l, n) /\ l + 1 <= n => Reaches(Tail(q), c, l + 1, n)
    <3>1. Stream(q, c, l)
      BY <1>3, <2>1
    <3>. HIDE DEF q, l, n
    <3>. QED
      BY <1>2, <1>8, <2>1, <3>1, OneTaken DEF m
  <2>4. l + 1 <= n /\ l < MaxQueue
    <3>. DEFINE d == Number(m)
    <3>1. d = l + 1 /\ d <= n /\ d <= MaxSend /\ MaxSend \in Nat /\ MaxReceive \in Nat
      BY <2>2, <2>3, DataAssumption, BoundAssumption
    <3>. HIDE DEF d, l, n
    <3>. QED
      BY <1>2, <3>1 DEF MaxQueue
  <2>5. inbox'[c] = Append(inbox[c], l + 1)
    BY <1>8, <2>3, <2>4 DEF Emitted
  <2>6. /\ Len(inbox'[c]) = l + 1
        /\ \A i \in 1..(l + 1) : inbox'[c][i] = i
    BY <1>2, <1>3, <2>5
  <2>. QED
    BY <1>2, <1>3, <1>4, <2>1, <2>3, <2>4, <2>6 DEF Flows
<1>9. mock[c] = "open" /\ For(m, c) => Srv!Readable(s, m)
  BY <1>2, AllReadable DEF For
<1>. QED
  BY <1>2, <1>5, <1>6, <1>7, <1>8, <1>9 DEF Ignored

LEMMA FlowKept ==
    ASSUME IInv, UplinkInv, [Next]_vars, IInv', UsedInv'
    PROVE  FlowInv'
<1>. SUFFICES ASSUME NEW s \in Socket, NEW c \in Conn, OneSocket(s)'
              PROVE  Flows(s, c)'
  BY DEF FlowInv
<1>1. Moves /\ (Calm(c) \/ Lost(c) \/ Sends(c) \/ Opens(c) \/ Arrives)
  BY UplinkSteps
<1>2. OneSocket(s) /\ Flows(s, c) /\ UsedInv /\ QueueInv /\ FreshInv
  BY <1>1, OneSocketWas DEF UplinkInv, FlowInv
<1>3. CASE Calm(c)
  BY <1>1, <1>2, <1>3, CalmFlows DEF Calm, SendsOthers
<1>. QED
  BY <1>1, <1>2, <1>3, LostFlows, SendsFlows, OpensFlows, ArrivesFlows DEF Arrives

LEMMA InitUplink == Init => UplinkInv
<1>. SUFFICES ASSUME Init PROVE UplinkInv
  OBVIOUS
<1>1. UsedInv /\ QueueInv
  BY NoSocketAssumption DEF Init, Cli!Init, Srv!Init, UsedInv, QueueInv
<1>2. ViaInv /\ FreshInv
  BY DEF ViaInv, Init, Cli!Init, Srv!Init, FreshInv, Silent, Slots
<1>3. FlowInv
  BY DEF Init, Cli!Init, Srv!Init, FlowInv, Flows
<1>. QED
  BY <1>1, <1>2, <1>3 DEF UplinkInv

LEMMA NextUplink == IInv /\ UplinkInv /\ [Next]_vars => UplinkInv'
BY NextIInv, UplinkSteps, UsedKept, ViaKept, QueueKept, FreshKept, FlowKept DEF UplinkInv

(***************************************************************************)
(* What the application at the server receives on a connection is what was *)
(* sent on it, in order and without a gap, from the first message on, as   *)
(* long as the client needed no second control socket: what is queued      *)
(* while CONNECTING (ClientRAWebSocket.ts:56-92), the flush at "open"      *)
(* (client.ts:441-466) and the routing at the server (server.ts:559-594)   *)
(* lose, repeat or reorder nothing before something that is received.      *)
(***************************************************************************)
THEOREM UplinkIsInOrder == Spec => []UplinkIsPrefix
<1>1. IInv /\ UplinkInv => UplinkIsPrefix
  <2>. SUFFICES ASSUME IInv, UplinkInv, NEW c \in Conn,
                       \A s \in Socket : rs[s] # "none" => s = via[c]
                PROVE  \A i \in 1..Len(inbox[c]) : inbox[c][i] = i
    BY DEF UplinkIsPrefix
  <2>1. CASE via[c] \in Socket
    BY <2>1 DEF UplinkInv, FlowInv, OneSocket, Flows
  <2>2. CASE via[c] \notin Socket
    <3>1. mock[c] = "none"
      BY <2>2 DEF UplinkInv, ViaInv
    <3>. QED
      BY <3>1 DEF UplinkInv, FreshInv
  <2>. QED
    BY <2>1, <2>2
<1>. QED
  BY <1>1, InitUplink, NextUplink, InitIInv, NextIInv, PTL DEF Spec

=============================================================================
