------------------------- MODULE VerifyQuote_proof -------------------------
(***************************************************************************)
(* Proofs about VerifyQuote, for every set of calls and answers.           *)
(*                                                                         *)
(* The chain is walked twice, and only the first walk is judged for dates, *)
(* revocation and its root.  The invariant keeps a complete chain that was *)
(* judged, of which the second walk is a prefix: both walks start at the   *)
(* same leaf, and each step is determined by the certificate before.       *)
(***************************************************************************)
EXTENDS VerifyQuote, FiniteSetTheorems, WellFoundedInduction,
        SequenceTheorems, TLAPS

-----------------------------------------------------------------------------
(* The first position of a set. *)

LEMMA LeastExists ==
    ASSUME NEW S, S \subseteq Nat, S # {}
    PROVE  \E i \in S : \A j \in S : i <= j
<1>. DEFINE R == OpToRel(<, Nat)
<1>1. IsWellFoundedOn(R, Nat)
  BY NatLessThanWellFounded
<1>. HIDE DEF R
<1>2. PICK x \in S : \A y \in S : ~ (<<y, x>> \in R)
  BY <1>1, WFMin
<1>3. \A y \in Nat : y < x => <<y, x>> \in R
  BY DEF R, OpToRel
<1>4. \A y \in S : ~ (y < x)
  BY <1>2, <1>3, Zenon
<1>5. \A y \in S : x <= y
  BY <1>4
<1>. QED
  BY <1>5

LEMMA SmallestIsLeast ==
    ASSUME NEW S, S \subseteq Nat, S # {}
    PROVE  Smallest(S) \in S /\ \A j \in S : Smallest(S) <= j
<1>1. PICK i \in S : \A j \in S : i <= j
  BY LeastExists
<1>. QED
  BY <1>1, Zenon DEF Smallest

-----------------------------------------------------------------------------
(* Revocation. *)

LEMMA ZerosAreStripped ==
    ASSUME NEW hex \in Serial
    PROVE  \E first \in DOMAIN hex :
              /\ NormalizeSerialHex(hex) = SubSeq(hex, first, Len(hex))
              /\ hex[first] # 0 \/ first = Len(hex)
              /\ \A i \in 1..(first - 1) : hex[i] = 0
<1>. DEFINE digits == {i \in DOMAIN hex : hex[i] # 0 \/ i = Len(hex)}
            first  == Smallest(digits)
<1>1. hex \in Seq(0..15) /\ Len(hex) \in Nat \ {0}
  BY DEF Serial
<1>2. digits \subseteq Nat /\ Len(hex) \in digits
  BY <1>1
<1>3. first \in digits /\ \A j \in digits : first <= j
  BY <1>2, SmallestIsLeast
<1>4. NormalizeSerialHex(hex) = SubSeq(hex, first, Len(hex))
  BY DEF NormalizeSerialHex
<1>. HIDE DEF first
<1>5. ASSUME NEW i \in 1..(first - 1)
      PROVE  hex[i] = 0
  BY <1>1, <1>3
<1>. QED
  BY <1>3, <1>4, <1>5

LEMMA TailIsFunction ==
    ASSUME NEW hex \in Serial, NEW first \in DOMAIN hex
    PROVE  /\ SubSeq(hex, first, Len(hex)) \in Seq(0..15)
           /\ Len(SubSeq(hex, first, Len(hex))) = Len(hex) - first + 1
           /\ \A i \in 1..(Len(hex) - first + 1) :
                 SubSeq(hex, first, Len(hex))[i] = hex[first + i - 1]
<1>1. hex \in Seq(0..15)
  BY DEF Serial
<1>2. first \in Int /\ Len(hex) \in Int /\ 1 <= first /\ first <= Len(hex)
  BY <1>1
<1>3. \A i \in first..Len(hex) : hex[i] \in 0..15
  BY <1>1, <1>2
<1>. QED
  BY <1>2, <1>3, SubSeqProperties

(* Where a digit that is not a leading zero is, counted from the right. *)
LEMMA ShorterHasZero ==
    ASSUME NEW a \in Serial, NEW b \in Serial, SameNumber(a, b),
           NEW m \in DOMAIN a, a[m] # 0,
           NEW n \in DOMAIN b, \A i \in 1..(n - 1) : b[i] = 0
    PROVE  Len(a) - m <= Len(b) - n
<1>1. /\ a \in Seq(0..15) /\ Len(a) \in Int /\ 1 <= m /\ m <= Len(a) /\ m \in Int
      /\ b \in Seq(0..15) /\ Len(b) \in Int /\ 1 <= n /\ n <= Len(b) /\ n \in Int
  BY DEF Serial
<1>. SUFFICES ASSUME Len(a) - m > Len(b) - n
              PROVE  FALSE
  BY <1>1
<1>2. PICK k \in Int : k = Len(a) - m + 1
  BY <1>1
<1>3. k \in 1..(Len(a) + Len(b)) /\ k <= Len(a) /\ Len(a) - k + 1 = m
  BY <1>1, <1>2
<1>4. a[m] = IF k <= Len(b) THEN b[Len(b) - k + 1] ELSE 0
  BY <1>3 DEF SameNumber
<1>5. CASE k <= Len(b)
  <2>1. Len(b) - k + 1 \in 1..(n - 1)
    BY <1>1, <1>2, <1>5, SMTT(30)
  <2>. QED
    BY <1>4, <1>5, <2>1
<1>. QED
  BY <1>4, <1>5

LEMMA TailsAgree ==
    ASSUME NEW a \in Serial, NEW b \in Serial, SameNumber(a, b),
           NEW m \in Int, 1 <= m, m <= Len(a),
           NEW n \in Int, 1 <= n, n <= Len(b), Len(a) - m = Len(b) - n
    PROVE  \A i \in 1..(Len(a) - m + 1) : a[m + i - 1] = b[n + i - 1]
<1>. TAKE i \in 1..(Len(a) - m + 1)
<1>0. i \in Int /\ 1 <= i /\ i <= Len(a) - m + 1
  BY DEF Serial
<1>1. Len(a) \in Int /\ Len(b) \in Int
  BY DEF Serial
<1>. DEFINE k == Len(a) - m - i + 2
<1>2. k \in Int /\ k = Len(a) - m - i + 2
  BY <1>0, <1>1
<1>. HIDE DEF k
<1>3. k >= 1 /\ k <= Len(a) /\ Len(a) - k + 1 = m + i - 1
  BY <1>0, <1>1, <1>2
<1>4. k <= Len(b) /\ Len(b) - k + 1 = n + i - 1
  <2>1. k = Len(b) - n - i + 2
    BY <1>0, <1>1, <1>2
  <2>. QED
    BY <1>0, <1>1, <2>1
<1>5. k \in 1..(Len(a) + Len(b))
  <2>1. k <= Len(a) + Len(b)
    BY <1>0, <1>1, <1>2, <1>3
  <2>. QED
    BY <1>0, <1>1, <1>2, <1>3, <2>1
<1>. QED
  BY <1>3, <1>4, <1>5 DEF SameNumber

(* Serials that are the same number are normalised to the same digits. *)
LEMMA SameIsNormalizedAlike ==
    ASSUME NEW a \in Serial, NEW b \in Serial, SameNumber(a, b)
    PROVE  NormalizeSerialHex(a) = NormalizeSerialHex(b)
<1>1. PICK m \in DOMAIN a :
         /\ NormalizeSerialHex(a) = SubSeq(a, m, Len(a))
         /\ a[m] # 0 \/ m = Len(a)
         /\ \A i \in 1..(m - 1) : a[i] = 0
  BY ZerosAreStripped
<1>2. PICK n \in DOMAIN b :
         /\ NormalizeSerialHex(b) = SubSeq(b, n, Len(b))
         /\ b[n] # 0 \/ n = Len(b)
         /\ \A i \in 1..(n - 1) : b[i] = 0
  BY ZerosAreStripped
<1>3. /\ Len(a) \in Int /\ m \in Int /\ 1 <= m /\ m <= Len(a)
      /\ Len(b) \in Int /\ n \in Int /\ 1 <= n /\ n <= Len(b)
  BY DEF Serial
<1>4. SameNumber(b, a)
  BY <1>3 DEF SameNumber
<1>5. Len(a) - m <= Len(b) - n
  <2>1. CASE a[m] # 0
    BY <1>1, <1>2, <2>1, ShorterHasZero
  <2>2. CASE m = Len(a)
    BY <1>3, <2>2
  <2>. QED
    BY <1>1, <2>1, <2>2
<1>6. Len(b) - n <= Len(a) - m
  <2>1. CASE b[n] # 0
    BY <1>1, <1>2, <1>4, <2>1, ShorterHasZero
  <2>2. CASE n = Len(b)
    BY <1>3, <2>2
  <2>. QED
    BY <1>2, <2>1, <2>2
<1>7. Len(a) - m = Len(b) - n
  BY <1>3, <1>5, <1>6
<1>8. \A i \in 1..(Len(a) - m + 1) : a[m + i - 1] = b[n + i - 1]
  BY <1>3, <1>7, TailsAgree, Zenon, SMTT(30)
<1>9. SubSeq(a, m, Len(a)) = SubSeq(b, n, Len(b))
  <2>. DEFINE s == SubSeq(a, m, Len(a))
              t == SubSeq(b, n, Len(b))
  <2>1. s \in Seq(0..15) /\ t \in Seq(0..15)
    BY TailIsFunction
  <2>2. Len(s) = Len(a) - m + 1 /\ Len(t) = Len(a) - m + 1
    BY <1>7, TailIsFunction
  <2>3. \A i \in 1..(Len(a) - m + 1) : s[i] = t[i]
    BY <1>7, <1>8, TailIsFunction
  <2>. HIDE DEF s, t
  <2>4. s = t
    BY <2>1, <2>2, <2>3, SeqEqual
  <2>. QED
    BY <2>4 DEF s, t
<1>. QED
  BY <1>1, <1>2, <1>9

LEMMA FieldIsTyped ==
    ASSUME NEW crl \in Crl, NEW i \in DOMAIN crl.fields
    PROVE  crl.fields[i] \in Field
BY DEF Crl

LEMMA EntryIsTyped ==
    ASSUME NEW field \in Field, NEW n \in DOMAIN field.entries
    PROVE  field.entries[n] \in Entry /\ field.entries[n].serial \in Serial
<1>1. field.entries \in Seq(Entry)
  BY DEF Field
<1>2. field.entries[n] \in Entry
  BY <1>1
<1>. QED
  BY <1>2 DEF Entry

(* In every well-formed CRL, the list of serials is the one that is parsed. *)
LEMMA ListIsParsed ==
    ASSUME NEW crl \in Crl, WellFormed(crl),
           NEW i \in 1..crl.inTbs, NEW j \in 1..crl.inTbs, j < i,
           crl.fields[j].tag = "TIME", crl.fields[i].tag = "SEQUENCE"
    PROVE  ParseCrlRevokedSerials(crl) =
              {NormalizeSerialHex(crl.fields[i].entries[n].serial) :
                  n \in DOMAIN crl.fields[i].entries}
<1>. DEFINE entries == crl.fields[i].entries
<1>1. /\ crl.fields \in Seq(Field) /\ Len(crl.fields) \in Nat
      /\ crl.inTbs \in Nat /\ crl.inTbs <= Len(crl.fields)
  BY DEF Crl
<1>2. crl.framed
  BY DEF WellFormed
<1>3. PICK version \in 0..1, next \in 0..1, list \in 0..1 :
         /\ version + 3 + next + list <= crl.inTbs
         /\ \A n \in 1..crl.inTbs :
              crl.fields[n].tag =
                IF n <= version THEN "INTEGER"
                ELSE IF n < version + 3 THEN "SEQUENCE"
                ELSE IF n <= version + 3 + next THEN "TIME"
                ELSE IF n <= version + 3 + next + list THEN "SEQUENCE"
                ELSE "OTHER"
         /\ \A m \in (version + 3 + next + 1)..(version + 3 + next + list) :
              \A n \in DOMAIN crl.fields[m].entries :
                 crl.fields[m].entries[n].kind = "serial"
  BY DEF WellFormed
<1>4. ASSUME NEW n \in 1..crl.inTbs
      PROVE  Tag(crl, n) = crl.fields[n].tag
  BY <1>1 DEF Tag
<1>5. ThisUpdate(crl) = version + 3
  BY <1>1, <1>3, <1>4 DEF ThisUpdate
<1>6. Opens(crl)
  <2>1. ASSUME NEW n \in 1..2
        PROVE  Tag(crl, version + 3 - n) = "SEQUENCE"
    <3>1. version + 3 - n \in 1..crl.inTbs
      BY <1>1, <1>3
    <3>2. version < version + 3 - n /\ version + 3 - n < version + 3
      BY <1>3
    <3>3. crl.fields[version + 3 - n].tag = "SEQUENCE"
      BY <1>1, <1>3, <3>1, <3>2
    <3>. QED
      BY <1>4, <3>1, <3>3
  <2>2. version + 3 \in 1..crl.inTbs
    BY <1>1, <1>3
  <2>3. crl.fields[version + 3].tag = "TIME"
    BY <1>1, <1>3, <2>2
  <2>. QED
    BY <1>2, <1>4, <1>5, <2>1, <2>2, <2>3 DEF Opens
<1>7. i = version + 3 + next + 1 /\ list = 1
  BY <1>1, <1>3
<1>8. RevokedCertificates(crl) = i
  <2>1. CASE next = 0
    BY <1>1, <1>4, <1>5, <1>7, <2>1 DEF RevokedCertificates
  <2>2. CASE next = 1
    <3>1. version + 4 \in 1..crl.inTbs
      BY <1>1, <1>3, <2>2
    <3>2. crl.fields[version + 4].tag = "TIME"
      BY <1>1, <1>3, <2>2, <3>1
    <3>. QED
      BY <1>1, <1>4, <1>5, <1>7, <2>2, <3>1, <3>2 DEF RevokedCertificates
  <2>. QED
    BY <2>1, <2>2
<1>9. \A n \in DOMAIN entries : entries[n].kind = "serial"
  BY <1>3, <1>7
<1>10. i <= crl.inTbs /\ Tag(crl, i) = "SEQUENCE"
  BY <1>1, <1>4
<1>11. DOMAIN entries = 1..Len(entries) /\ Len(entries) \in Nat
  BY <1>1, FieldIsTyped DEF Field
<1>. HIDE DEF entries
<1>12. Before(entries) = DOMAIN entries
  BY <1>9, <1>11 DEF Before
<1>13. {m \in Before(entries) : entries[m].kind = "serial"} = DOMAIN entries
  BY <1>9, <1>12
<1>14. \A n \in Before(entries) : entries[n].kind # "broken"
  BY <1>9, <1>12
<1>15. ParseCrlRevokedSerials(crl) =
          {NormalizeSerialHex(entries[n].serial) :
              n \in {m \in Before(entries) : entries[m].kind = "serial"}}
  BY <1>6, <1>8, <1>10, <1>14, Zenon DEF ParseCrlRevokedSerials, entries
<1>. QED
  BY <1>13, <1>15 DEF entries

LEMMA ListedIsRevoked ==
    ASSUME input \in Call, dated, NEW n \in DOMAIN chain, Cert(n) \in Certificate,
           Listed(Cert(n).serial)
    PROVE  Revoked
<1>1. PICK k \in DOMAIN input.crls :
         /\ WellFormed(input.crls[k])
         /\ \E i, j \in 1..input.crls[k].inTbs :
              /\ j < i
              /\ input.crls[k].fields[j].tag = "TIME"
              /\ input.crls[k].fields[i].tag = "SEQUENCE"
              /\ Lists(input.crls[k].fields[i], Cert(n).serial)
  BY DEF Listed
<1>2. input.crls[k] \in Crl
  BY DEF Call
<1>. DEFINE crl == input.crls[k]
<1>. HIDE DEF crl
<1>3. crl \in Crl /\ WellFormed(crl)
  BY <1>1, <1>2 DEF crl
<1>4. PICK i \in 1..crl.inTbs, j \in 1..crl.inTbs :
         /\ j < i /\ crl.fields[j].tag = "TIME" /\ crl.fields[i].tag = "SEQUENCE"
         /\ Lists(crl.fields[i], Cert(n).serial)
  BY <1>1 DEF crl
<1>5. PICK m \in DOMAIN crl.fields[i].entries :
         SameNumber(Cert(n).serial, crl.fields[i].entries[m].serial)
  BY <1>4 DEF Lists
<1>6. i \in DOMAIN crl.fields
  BY <1>3 DEF Crl
<1>7. Cert(n).serial \in Serial /\ crl.fields[i].entries[m].serial \in Serial
  BY <1>3, <1>5, <1>6, FieldIsTyped, EntryIsTyped DEF Certificate
<1>8. NormalizeSerialHex(Cert(n).serial) =
         NormalizeSerialHex(crl.fields[i].entries[m].serial)
  BY <1>5, <1>7, SameIsNormalizedAlike
<1>9. ParseCrlRevokedSerials(crl) =
         {NormalizeSerialHex(crl.fields[i].entries[h].serial) :
             h \in DOMAIN crl.fields[i].entries}
  BY <1>3, <1>4, ListIsParsed
<1>10. NormalizeSerialHex(Cert(n).serial) \in ParseCrlRevokedSerials(crl)
  BY <1>5, <1>8, <1>9
<1>. QED
  BY <1>10 DEF Revoked, crl

-----------------------------------------------------------------------------
(* The invariant. *)

(* q is walked from the leaf, step by step. *)
Follows(q) ==
    /\ q \in Seq(DOMAIN Given)
    /\ Len(q) \in 1..MaxChain
    /\ q[1] = Leaf
    /\ \A i \in 1..(Len(q) - 1) :
          ~AtEnd(q[i]) /\ q[i + 1] = Smallest(Named(q[i]))

(* ... up to its end, and passed the checks that need a date and the CRLs. *)
Judged(q) ==
    /\ Follows(q)
    /\ AtEnd(q[Len(q)])
    /\ Given[q[Len(q)]].pinned
    /\ \A i \in DOMAIN q : Given[q[i]].inWindow /\ ~Listed(Given[q[i]].serial)

Prefix(p, q) == Len(p) <= Len(q) /\ \A i \in DOMAIN p : p[i] = q[i]

ChainInv ==
    /\ pc \in {"leaf", "walk", "judge"} => Given # <<>>
    /\ pc \in {"walk", "judge"} => Follows(chain)
    /\ pc = "judge" => AtEnd(Last)

(* The second walk repeats the first. *)
RepeatInv ==
    /\ pc = "parse" => dated
    /\ ~dated /\ pc \in {"leaf", "walk", "judge"} =>
          /\ input.header
          /\ TypeSupported
          /\ \E q \in Seq(DOMAIN Given) :
                Judged(q) /\ (pc # "leaf" => Prefix(chain, q))

CertifiedInv == pc = "tcb" \/ outcome = "accepted" => Certified

TcbInv ==
    /\ pc # "done" => tcb = {} /\ outcome = "none"
    /\ outcome = "accepted" =>
          \A answer \in tcb : Passes(answer, input.cpu, input.pce)

IInv == TypeOK /\ ChainInv /\ RepeatInv /\ CertifiedInv /\ TcbInv

-----------------------------------------------------------------------------
(* Walking. *)

LEMMA LeafIsGiven ==
    ASSUME input \in Call, Given # <<>>
    PROVE  Leaf \in DOMAIN Given
<1>. DEFINE leaves == {i \in DOMAIN Given :
                         \A j \in DOMAIN Given : Given[j].issuer # Given[i].subject}
<1>1. Given \in Seq(Certificate)
  BY DEF Given, Call
<1>2. leaves \subseteq Nat /\ 1 \in DOMAIN Given
  BY <1>1
<1>3. CASE leaves = {}
  BY <1>2, <1>3 DEF Leaf
<1>4. CASE leaves # {}
  <2>1. Smallest(leaves) \in leaves
    BY <1>2, <1>4, SmallestIsLeast
  <2>. QED
    BY <1>4, <2>1 DEF Leaf
<1>. QED
  BY <1>3, <1>4

LEMMA NextIsNamed ==
    ASSUME input \in Call, NEW i, ~AtEnd(i)
    PROVE  Smallest(Named(i)) \in Named(i)
<1>1. Given \in Seq(Certificate)
  BY DEF Given, Call
<1>2. Named(i) \subseteq Nat /\ Named(i) # {}
  BY <1>1 DEF Named, AtEnd
<1>. QED
  BY <1>2, SmallestIsLeast

(* A walk is a list of positions. *)
LEMMA WalkIsWalk ==
    ASSUME input \in Call, NEW q, Follows(q)
    PROVE  q \in Walks
BY VerifyAssumption DEF Follows, Walks

(* One step more. *)
LEMMA StepFollows ==
    ASSUME input \in Call, NEW q, Follows(q), ~AtEnd(q[Len(q)]), Len(q) < MaxChain
    PROVE  Follows(Append(q, Smallest(Named(q[Len(q)]))))
<1>. DEFINE n == Smallest(Named(q[Len(q)]))
<1>1. n \in DOMAIN Given
  BY NextIsNamed DEF Named
<1>. HIDE DEF n
<1>. DEFINE r == Append(q, n)
<1>2. q \in Seq(DOMAIN Given) /\ Len(q) \in 1..MaxChain /\ MaxChain \in Nat
  BY VerifyAssumption DEF Follows
<1>3. r \in Seq(DOMAIN Given) /\ Len(r) = Len(q) + 1 /\ r[1] = q[1]
  BY <1>1, <1>2
<1>4. ASSUME NEW i \in 1..(Len(r) - 1)
      PROVE  ~AtEnd(r[i]) /\ r[i + 1] = Smallest(Named(r[i]))
  <2>1. CASE i < Len(q)
    <3>1. r[i] = q[i] /\ r[i + 1] = q[i + 1] /\ i \in 1..(Len(q) - 1)
      BY <1>1, <1>2, <1>3, <2>1
    <3>. QED
      BY <3>1 DEF Follows
  <2>2. CASE i = Len(q)
    <3>1. r[i] = q[Len(q)] /\ r[i + 1] = n
      BY <1>1, <1>2, <1>3, <2>2
    <3>. QED
      BY <3>1 DEF n
  <2>. QED
    BY <1>2, <1>3, <2>1, <2>2
<1>5. Follows(r)
  BY <1>2, <1>3, <1>4 DEF Follows
<1>. QED
  BY <1>5 DEF n

(* A walk that is a prefix of a complete one stays so. *)
LEMMA StepRepeats ==
    ASSUME NEW p, Follows(p), ~AtEnd(p[Len(p)]),
           NEW q, Judged(q), Prefix(p, q)
    PROVE  Prefix(Append(p, Smallest(Named(p[Len(p)]))), q)
<1>. DEFINE n == Smallest(Named(p[Len(p)]))
<1>1. /\ p \in Seq(DOMAIN Given) /\ q \in Seq(DOMAIN Given)
      /\ Len(p) \in Nat \ {0} /\ Len(q) \in Nat \ {0}
  BY DEF Follows, Judged
<1>2. p[Len(p)] = q[Len(p)] /\ Len(p) <= Len(q)
  BY <1>1 DEF Prefix
<1>3. Len(p) < Len(q)
  BY <1>1, <1>2 DEF Judged
<1>4. q[Len(p) + 1] = n
  BY <1>1, <1>2, <1>3 DEF Judged, Follows
<1>. HIDE DEF n
<1>5. ASSUME NEW i \in 1..(Len(p) + 1)
      PROVE  Append(p, n)[i] = q[i]
  BY <1>1, <1>4 DEF Prefix
<1>. QED
  BY <1>1, <1>3, <1>5 DEF Prefix, n

(* A complete walk that is a prefix of a complete one is that one. *)
LEMMA EndRepeats ==
    ASSUME NEW p, Follows(p), AtEnd(p[Len(p)]),
           NEW q, Judged(q), Prefix(p, q)
    PROVE  Judged(p)
<1>1. /\ p \in Seq(DOMAIN Given) /\ q \in Seq(DOMAIN Given)
      /\ Len(p) \in Nat \ {0} /\ Len(q) \in Nat \ {0}
  BY DEF Follows, Judged
<1>2. p[Len(p)] = q[Len(p)] /\ Len(p) <= Len(q)
  BY <1>1 DEF Prefix
<1>3. Len(p) = Len(q)
  <2>1. CASE Len(p) < Len(q)
    BY <1>1, <1>2, <2>1 DEF Judged, Follows
  <2>. QED
    BY <1>1, <1>2, <2>1
<1>. QED
  BY <1>1, <1>2, <1>3 DEF Judged, Prefix

LEMMA IntervalSize ==
    ASSUME NEW i \in Nat, i > 1
    PROVE  Cardinality(2..(i - 1)) = i - 2
<1>. DEFINE k == i - 1
<1>1. k \in Int /\ 2 \in Int
  OBVIOUS
<1>. HIDE DEF k
<1>2. Cardinality(2..k) = IF 2 > k THEN 0 ELSE k - 2 + 1
  BY <1>1, FS_Interval, Zenon
<1>. QED
  BY <1>2, SMT DEF k

(* Of a walk that passed all checks, every certificate certifies the one below. *)
LEMMA ValidCertifies ==
    ASSUME input \in Call, Judged(chain), SignaturesHold, RolesHold
    PROVE  Certifies(chain)
<1>1. chain \in Seq(DOMAIN Given) /\ Len(chain) \in Nat \ {0}
  BY DEF Judged, Follows
<1>2. ASSUME NEW i \in 1..(Len(chain) - 1)
      PROVE  /\ Given[chain[i]].issuer = Given[chain[i + 1]].subject
             /\ Given[chain[i]].signer = Given[chain[i + 1]].key
  <2>1. chain[i + 1] \in Named(chain[i])
    BY NextIsNamed DEF Judged, Follows
  <2>. QED
    BY <2>1 DEF Named, SignaturesHold, Cert
<1>3. ASSUME NEW i \in DOMAIN chain
      PROVE  Given[chain[i]].ca <=> i # 1
  BY <1>1 DEF RolesHold, Cert
<1>4. ASSUME NEW i \in DOMAIN chain, i > 1, Given[chain[i]].pathLen # NoLimit
      PROVE  i - 2 <= Given[chain[i]].pathLen
  <2>1. {j \in 1..(i - 1) : Cert(j).ca} = 2..(i - 1)
    BY <1>1, <1>3 DEF Cert
  <2>2. Cardinality(2..(i - 1)) = i - 2
    BY <1>1, <1>4, IntervalSize
  <2>3. i \in 2..Len(chain) /\ Cert(i).pathLen # NoLimit
    BY <1>1, <1>4 DEF Cert
  <2>. QED
    BY <2>1, <2>2, <2>3 DEF RolesHold, PathLensHold, Cert
<1>. QED
  BY <1>1, <1>2, <1>3, <1>4 DEF Certifies, Judged

-----------------------------------------------------------------------------
(* The steps. *)

LEMMA InitIInv == Init => IInv
BY VerifyAssumption
   DEF Init, IInv, TypeOK, ChainInv, RepeatInv, CertifiedInv, TcbInv

(* What depends on the input alone does not change. *)
LEMMA InputStays ==
    ASSUME input' = input
    PROVE  /\ Given' = Given
           /\ Leaf' = Leaf
           /\ \A i : AtEnd(i)' = AtEnd(i) /\ Named(i)' = Named(i)
           /\ \A q : Follows(q)' = Follows(q) /\ Judged(q)' = Judged(q)
           /\ TypeSupported' = TypeSupported
           /\ Certified' = Certified
BY DEF Given, Leaf, AtEnd, Named, Follows, Judged, TypeSupported, Certified,
       QuoteInOrder, Walks, Certifies, Listed

LEMMA ParseKeeps == IInv /\ Parse => IInv'
<1>. SUFFICES ASSUME IInv, Parse
              PROVE  IInv'
  OBVIOUS
<1>1. input' = input
  BY DEF Parse
<1>. USE <1>1, InputStays
<1>2. TypeOK'
  BY DEF IInv, TypeOK, Parse, End
<1>3. ChainInv'
  BY DEF IInv, TypeOK, Parse, End, ChainInv
<1>4. RepeatInv'
  BY DEF IInv, Parse, End, RepeatInv
<1>. QED
  BY <1>2, <1>3, <1>4 DEF IInv, Parse, End, CertifiedInv, TcbInv

LEMMA PickLeafKeeps == IInv /\ PickLeaf => IInv'
<1>. SUFFICES ASSUME IInv, PickLeaf
              PROVE  IInv'
  OBVIOUS
<1>. USE InputStays
<1>1. input' = input /\ chain' = <<Leaf>> /\ input \in Call /\ Given # <<>>
  BY DEF PickLeaf, IInv, TypeOK, ChainInv
<1>2. Leaf \in DOMAIN Given
  BY <1>1, LeafIsGiven
<1>3. Follows(<<Leaf>>)
  BY <1>2, VerifyAssumption DEF Follows
<1>4. TypeOK'
  BY <1>1, <1>2 DEF IInv, TypeOK, PickLeaf
<1>5. ChainInv'
  BY <1>1, <1>3 DEF PickLeaf, ChainInv
<1>6. RepeatInv'
  <2>1. \A q : Judged(q) => Prefix(<<Leaf>>, q)
    BY DEF Judged, Follows, Prefix
  <2>2. ASSUME ~dated
        PROVE  /\ input.header /\ TypeSupported
               /\ \E q \in Seq(DOMAIN Given) : Judged(q)
    BY <2>2 DEF IInv, PickLeaf, RepeatInv
  <2>3. dated' = dated /\ pc' = "walk"
    BY DEF PickLeaf
  <2>. QED
    BY <1>1, <2>1, <2>2, <2>3 DEF RepeatInv
<1>. QED
  BY <1>1, <1>4, <1>5, <1>6 DEF IInv, PickLeaf, CertifiedInv, TcbInv

LEMMA WalkKeeps == IInv /\ Walk => IInv'
<1>. SUFFICES ASSUME IInv, Walk
              PROVE  IInv'
  OBVIOUS
<1>. USE InputStays
<1>1. /\ input' = input /\ input \in Call /\ Given # <<>>
      /\ Follows(chain)
  BY DEF Walk, IInv, TypeOK, ChainInv
<1>2. CASE AtEnd(Last)
  BY <1>1, <1>2
     DEF IInv, Walk, TypeOK, ChainInv, RepeatInv, CertifiedInv, TcbInv, Last
<1>3. CASE ~AtEnd(Last)
  <2>1. /\ chain' = Append(chain, Smallest(Named(chain[Len(chain)])))
        /\ Follows(chain) /\ Len(chain) < MaxChain /\ pc = "walk" /\ pc' = pc
        /\ dated' = dated
    BY <1>1, <1>3 DEF Walk, IInv, ChainInv, Last
  <2>2. Follows(chain')
    BY <1>1, <1>3, <2>1, StepFollows DEF Last
  <2>3. TypeOK'
    BY <1>1, <1>3, <2>2 DEF Walk, IInv, TypeOK, Follows
  <2>4. ChainInv'
    BY <1>1, <2>1, <2>2 DEF ChainInv
  <2>5. ASSUME NEW q \in Seq(DOMAIN Given), Judged(q), Prefix(chain, q)
        PROVE  Prefix(chain', q)
    BY <1>3, <2>1, <2>5, StepRepeats DEF Last
  <2>6. RepeatInv'
    BY <1>1, <2>1, <2>5 DEF IInv, RepeatInv
  <2>. QED
    BY <1>1, <2>1, <2>3, <2>4, <2>6 DEF IInv, Walk, CertifiedInv, TcbInv
<1>. QED
  BY <1>2, <1>3

LEMMA JudgeChainKeeps == IInv /\ JudgeChain => IInv'
<1>. SUFFICES ASSUME IInv, JudgeChain
              PROVE  IInv'
  OBVIOUS
<1>. USE InputStays
<1>1. /\ input' = input /\ chain' = chain /\ dated /\ Given # <<>>
      /\ Follows(chain) /\ AtEnd(chain[Len(chain)])
  BY DEF JudgeChain, IInv, ChainInv, Last
<1>2. TypeOK'
  BY <1>1 DEF IInv, TypeOK, JudgeChain, End
<1>3. ChainInv'
  BY <1>1 DEF IInv, TypeOK, JudgeChain, End, ChainInv
<1>4. RepeatInv'
  <2>1. CASE pc' = "leaf"
    <3>1. /\ Status = "valid" /\ Given[chain[Len(chain)]].pinned
          /\ input.header /\ TypeSupported
      BY <2>1 DEF JudgeChain, End, Last
    <3>2. Judged(chain)
      <4>1. ~Expired /\ ~Revoked
        BY <3>1 DEF Status
      <4>2. \A i \in DOMAIN chain : Cert(i) \in Certificate
        BY <1>1 DEF IInv, TypeOK, Given, Call, Follows, Cert
      <4>3. \A i \in DOMAIN chain : ~Listed(Cert(i).serial)
        BY <1>1, <4>1, <4>2, ListedIsRevoked DEF IInv, TypeOK
      <4>. QED
        BY <1>1, <3>1, <4>1, <4>3 DEF Judged, Expired, Cert
    <3>. QED
      BY <1>1, <2>1, <3>1, <3>2 DEF RepeatInv, Follows
  <2>2. CASE pc' = "done"
    BY <2>2 DEF RepeatInv
  <2>. QED
    BY <2>1, <2>2 DEF JudgeChain, End
<1>. QED
  BY <1>1, <1>2, <1>3, <1>4 DEF IInv, JudgeChain, End, CertifiedInv, TcbInv

LEMMA JudgeQuoteKeeps == IInv /\ JudgeQuote => IInv'
<1>. SUFFICES ASSUME IInv, JudgeQuote
              PROVE  IInv'
  OBVIOUS
<1>. USE InputStays
<1>1. /\ input' = input /\ input \in Call /\ ~dated /\ Given # <<>>
      /\ Follows(chain) /\ AtEnd(chain[Len(chain)])
      /\ pc' \in {"tcb", "done"}
  BY DEF JudgeQuote, IInv, TypeOK, ChainInv, Last, End
<1>2. CASE QeReportSigned /\ QeReportBound /\ QuoteSigned
  <2>1. input.header /\ TypeSupported
    BY <1>1 DEF IInv, RepeatInv, JudgeQuote
  <2>2. PICK q \in Seq(DOMAIN Given) : Judged(q) /\ Prefix(chain, q)
    BY <1>1 DEF IInv, RepeatInv, JudgeQuote
  <2>3. Judged(chain)
    BY <1>1, <2>2, EndRepeats
  <2>4. SignaturesHold /\ RolesHold
    BY <1>2 DEF QeReportSigned, Status
  <2>5. Certifies(chain) /\ chain \in Walks
    BY <1>1, <2>3, <2>4, ValidCertifies, WalkIsWalk
  <2>6. Certified
    BY <1>2, <2>1, <2>3, <2>5
       DEF Certified, QuoteInOrder, Judged, QeReportSigned, QeReportBound,
           QuoteSigned, Cert
  <2>. QED
    BY <1>1, <1>2, <2>6
       DEF IInv, TypeOK, ChainInv, RepeatInv, CertifiedInv, TcbInv, JudgeQuote, End
<1>3. CASE ~(QeReportSigned /\ QeReportBound /\ QuoteSigned)
  BY <1>1, <1>3
     DEF IInv, TypeOK, ChainInv, RepeatInv, CertifiedInv, TcbInv, JudgeQuote, End
<1>. QED
  BY <1>2, <1>3

LEMMA VerifyTcbKeeps == IInv /\ VerifyTcb => IInv'
<1>. SUFFICES ASSUME IInv, VerifyTcb
              PROVE  IInv'
  OBVIOUS
<1>1. PICK answer \in TcbInfo :
         /\ tcb' = {answer}
         /\ End(IF ~answer.ok THEN "error"
                ELSE IF Passes(answer, input.cpu, input.pce) THEN "accepted"
                ELSE "refused")
  BY DEF VerifyTcb
<1>2. input' = input /\ pc' = "done" /\ Certified'
  BY <1>1, InputStays DEF VerifyTcb, End, IInv, CertifiedInv
<1>3. TypeOK' /\ ChainInv' /\ RepeatInv'
  BY <1>1, <1>2, InputStays DEF IInv, TypeOK, ChainInv, RepeatInv, VerifyTcb, End
<1>4. ASSUME outcome' = "accepted"
      PROVE  Passes(answer, input.cpu, input.pce)'
  <2>1. Passes(answer, input.cpu, input.pce)
    BY <1>1, <1>4 DEF End
  <2>. QED
    BY <1>2, <2>1 DEF Passes, GetTcbStatus, Met
<1>. QED
  BY <1>1, <1>2, <1>3, <1>4 DEF IInv, CertifiedInv, TcbInv

LEMMA StutterKeeps == IInv /\ UNCHANGED vars => IInv'
<1>. SUFFICES ASSUME IInv, UNCHANGED vars
              PROVE  IInv'
  OBVIOUS
<1>. USE InputStays DEF IInv, vars
<1>1. TypeOK'
  BY DEF TypeOK
<1>2. ChainInv'
  BY DEF ChainInv, Last
<1>3. RepeatInv'
  BY DEF RepeatInv
<1>4. CertifiedInv'
  BY DEF CertifiedInv
<1>5. TcbInv'
  BY DEF TcbInv, Passes, GetTcbStatus, Met
<1>. QED
  BY <1>1, <1>2, <1>3, <1>4, <1>5

(* The inductive invariant holds of every call (verifyTdx.ts:41, 255). *)
THEOREM Invariance == Spec => []IInv
<1>1. IInv /\ [Next]_vars => IInv'
  BY ParseKeeps, PickLeafKeeps, WalkKeeps, JudgeChainKeeps, JudgeQuoteKeeps,
     VerifyTcbKeeps, StutterKeeps
     DEF Next
<1>. QED
  BY InitIInv, <1>1, PTL DEF Spec

-----------------------------------------------------------------------------
(* What it gives. *)

(***************************************************************************)
(* The values of the variables are those verifyTdx and verifySgx can hold  *)
(* (verifyTdx.ts:41), for every set of calls.                              *)
(***************************************************************************)
THEOREM TypeCorrect == Spec => []TypeOK
BY Invariance, PTL DEF IInv

(***************************************************************************)
(* Every quote that is accepted is certified (verifyTdx.ts:41 and 453): the *)
(* two walks of verifyPCKChain give one chain, so what the dated one says  *)
(* of dates, revocation and the root holds of the leaf whose key checks    *)
(* the QE report.  Revoked is what a well-formed CRL lists: one that       *)
(* utils.ts:112-180 cannot read up to the end of its list revokes nothing, *)
(* and takes nothing away from what the other CRLs revoke.                 *)
(***************************************************************************)
THEOREM AcceptedAreCertified == Spec => []AcceptedIsCertified
<1>1. IInv => AcceptedIsCertified
  BY DEF IInv, CertifiedInv, AcceptedIsCertified
<1>. QED
  BY <1>1, Invariance, PTL

-----------------------------------------------------------------------------
(* Levels. *)

(* More of the platform: no component or PCESVN is less. *)
Covers(cpu, pce, c, e) ==
    /\ DOMAIN c = DOMAIN cpu
    /\ \A i \in DOMAIN cpu : cpu[i] <= c[i]
    /\ pce <= e

Sorted(levels) ==
    \A i, j \in DOMAIN levels :
        i < j /\ levels[j].status \in Acceptable => levels[i].status \in Acceptable

LEMMA MetGrows ==
    ASSUME NEW level \in Level, NEW cpu \in Seq(Nat), NEW pce \in Nat,
           NEW c \in Seq(Nat), NEW e \in Nat, Covers(cpu, pce, c, e),
           Met(level, cpu, pce)
    PROVE  Met(level, c, e)
<1>1. level.pce \in Nat /\ level.tdx \in Seq(Nat) /\ level.sgx \in Seq(Nat)
  BY DEF Level
<1>2. level.pce <= e
  BY <1>1 DEF Met, Covers
<1>3. ASSUME NEW required \in Seq(Nat), AtLeast(cpu, required)
      PROVE  AtLeast(c, required)
  <2>1. ASSUME NEW i \in DOMAIN required
        PROVE  required[i] <= IF i \in DOMAIN c THEN c[i] ELSE 0
    <3>1. required[i] \in Nat
      OBVIOUS
    <3>2. required[i] <= IF i \in DOMAIN cpu THEN cpu[i] ELSE 0
      BY <1>3 DEF AtLeast
    <3>3. CASE i \in DOMAIN cpu
      <4>1. cpu[i] \in Nat /\ c[i] \in Nat /\ cpu[i] <= c[i] /\ i \in DOMAIN c
        BY <3>3, SMTT(30) DEF Covers
      <4>. QED
        BY <3>1, <3>2, <3>3, <4>1
    <3>4. CASE i \notin DOMAIN cpu
      BY <3>2, <3>4 DEF Covers
    <3>. QED
      BY <3>3, <3>4
  <2>. QED
    BY <2>1 DEF AtLeast
<1>. QED
  BY <1>1, <1>2, <1>3 DEF Met

LEMMA PassesGrows ==
    ASSUME NEW answer \in Answer, Sorted(answer.levels),
           NEW cpu \in Seq(Nat), NEW pce \in Nat,
           NEW c \in Seq(Nat), NEW e \in Nat, Covers(cpu, pce, c, e),
           Passes(answer, cpu, pce)
    PROVE  Passes(answer, c, e)
<1>. DEFINE levels == answer.levels
            met == {i \in DOMAIN levels : Met(levels[i], cpu, pce)}
            more == {i \in DOMAIN levels : Met(levels[i], c, e)}
<1>1. levels \in Seq(Level)
  BY DEF Answer
<1>2. met # {} /\ levels[Smallest(met)].status \in Acceptable
  BY DEF Passes, GetTcbStatus, Acceptable
<1>3. met \subseteq more /\ more \subseteq Nat
  BY <1>1, MetGrows
<1>. HIDE DEF met
<1>4. Smallest(met) \in met /\ met \subseteq Nat /\ met \subseteq DOMAIN levels
  BY <1>2, <1>3, SmallestIsLeast DEF met
<1>. HIDE DEF more
<1>5. Smallest(more) \in more /\ Smallest(more) <= Smallest(met)
  BY <1>2, <1>3, <1>4, SmallestIsLeast
<1>6. Smallest(more) \in DOMAIN levels /\ Smallest(more) \in Nat
  BY <1>3, <1>5 DEF more
<1>7. levels[Smallest(more)].status \in Acceptable
  <2>1. Smallest(met) \in DOMAIN levels /\ Smallest(met) \in Nat
    BY <1>4
  <2>2. CASE Smallest(more) = Smallest(met)
    BY <1>2, <2>2
  <2>3. CASE Smallest(more) < Smallest(met)
    BY <1>2, <1>6, <2>1, <2>3 DEF Sorted
  <2>. QED
    BY <1>5, <1>6, <2>1, <2>2, <2>3
<1>8. GetTcbStatus(levels, c, e) = levels[Smallest(more)].status
  BY <1>5 DEF GetTcbStatus, more
<1>. QED
  BY <1>7, <1>8 DEF Passes

(***************************************************************************)
(* Whatever levels the service lists from the best status to the worst, a  *)
(* platform with one SVN more than an accepted one passes too (tcb.ts:14).  *)
(***************************************************************************)
THEOREM BetterIsNotRefused == Spec => []TcbIsMonotone
<1>1. ASSUME IInv, outcome = "accepted", NEW answer \in tcb, Sorted(answer.levels)
      PROVE  /\ Passes(answer, input.cpu, input.pce + 1)
             /\ \A i \in DOMAIN input.cpu :
                   Passes(answer, [input.cpu EXCEPT ![i] = @ + 1], input.pce)
  <2>1. /\ input.cpu \in Seq(Nat) /\ input.pce \in Nat /\ answer \in Answer
        /\ Passes(answer, input.cpu, input.pce)
    BY <1>1, VerifyAssumption DEF IInv, TypeOK, TcbInv, Call
  <2>2. Covers(input.cpu, input.pce, input.cpu, input.pce + 1)
    BY <2>1 DEF Covers
  <2>3. ASSUME NEW i \in DOMAIN input.cpu
        PROVE  /\ [input.cpu EXCEPT ![i] = @ + 1] \in Seq(Nat)
               /\ Covers(input.cpu, input.pce,
                         [input.cpu EXCEPT ![i] = @ + 1], input.pce)
    <3>. DEFINE cpu == input.cpu
                more == [cpu EXCEPT ![i] = @ + 1]
    <3>1. cpu \in Seq(Nat) /\ i \in DOMAIN cpu
      BY <2>1, <2>3
    <3>. HIDE DEF cpu
    <3>2. more \in Seq(Nat) /\ DOMAIN more = DOMAIN cpu
      BY <3>1
    <3>3. \A j \in DOMAIN cpu : cpu[j] <= more[j]
      BY <3>1
    <3>. QED
      BY <2>1, <3>2, <3>3 DEF Covers, cpu
  <2>4. Passes(answer, input.cpu, input.pce + 1)
    BY <1>1, <2>1, <2>2, PassesGrows
  <2>5. ASSUME NEW i \in DOMAIN input.cpu
        PROVE  Passes(answer, [input.cpu EXCEPT ![i] = @ + 1], input.pce)
    <3>. DEFINE more == [input.cpu EXCEPT ![i] = @ + 1]
    <3>1. more \in Seq(Nat) /\ Covers(input.cpu, input.pce, more, input.pce)
      BY <2>3
    <3>. HIDE DEF more
    <3>2. Passes(answer, more, input.pce)
      BY <1>1, <2>1, <3>1, PassesGrows
    <3>. QED
      BY <3>2 DEF more
  <2>. QED
    BY <2>4, <2>5
<1>2. IInv => TcbIsMonotone
  BY <1>1 DEF TcbIsMonotone, Sorted
<1>. QED
  BY <1>2, Invariance, PTL

-----------------------------------------------------------------------------
(* Revocation, the other way: what is revoked is mentioned. *)

LEMMA TailsAreNumber ==
    ASSUME NEW a \in Serial, NEW b \in Serial,
           NEW m \in Int, 1 <= m, m <= Len(a), \A i \in 1..(m - 1) : a[i] = 0,
           NEW n \in Int, 1 <= n, n <= Len(b), \A i \in 1..(n - 1) : b[i] = 0,
           Len(a) - m = Len(b) - n,
           \A i \in 1..(Len(a) - m + 1) : a[m + i - 1] = b[n + i - 1]
    PROVE  SameNumber(a, b)
<1>. DEFINE digit(hex, i) == IF i <= Len(hex) THEN hex[Len(hex) - i + 1] ELSE 0
<1>1. Len(a) \in Int /\ Len(b) \in Int
  BY DEF Serial
<1>2. ASSUME NEW i \in Int, 1 <= i, i <= Len(a) - m + 1
      PROVE  digit(a, i) = digit(b, i)
  <2>. DEFINE k == Len(a) - m - i + 2
  <2>1. k \in Int /\ k = Len(a) - m - i + 2
    BY <1>1, <1>2
  <2>. HIDE DEF k
  <2>2. 1 <= k /\ k <= Len(a) - m + 1
    BY <1>1, <1>2, <2>1
  <2>3. m + k - 1 = Len(a) - i + 1
    BY <1>1, <1>2, <2>1
  <2>4. n + k - 1 = Len(b) - i + 1
    <3>1. k = Len(b) - n - i + 2
      BY <1>1, <1>2, <2>1
    <3>. QED
      BY <1>1, <1>2, <3>1
  <2>5. i <= Len(a) /\ i <= Len(b)
    BY <1>1, <1>2
  <2>6. a[m + k - 1] = b[n + k - 1]
    <3>1. k \in 1..(Len(a) - m + 1)
      BY <1>1, <2>1, <2>2
    <3>. QED
      BY <3>1, Zenon
  <2>. QED
    BY <2>3, <2>4, <2>5, <2>6
<1>3. ASSUME NEW i \in Int, i > Len(a) - m + 1
      PROVE  digit(a, i) = 0 /\ digit(b, i) = 0
  <2>1. i <= Len(a) => Len(a) - i + 1 \in 1..(m - 1)
    BY <1>1, <1>3
  <2>2. i <= Len(b) => Len(b) - i + 1 \in 1..(n - 1)
    BY <1>1, <1>3
  <2>. QED
    BY <2>1, <2>2
<1>4. ASSUME NEW i \in 1..(Len(a) + Len(b))
      PROVE  digit(a, i) = digit(b, i)
  <2>1. i \in Int /\ 1 <= i
    BY <1>1
  <2>2. CASE i <= Len(a) - m + 1
    BY <1>2, <2>1, <2>2
  <2>3. CASE i > Len(a) - m + 1
    BY <1>3, <2>1, <2>3
  <2>. QED
    BY <1>1, <2>1, <2>2, <2>3
<1>. QED
  BY <1>4 DEF SameNumber

LEMMA NormalizedAlikeIsSame ==
    ASSUME NEW a \in Serial, NEW b \in Serial,
           NormalizeSerialHex(a) = NormalizeSerialHex(b)
    PROVE  SameNumber(a, b)
<1>1. PICK m \in DOMAIN a :
         /\ NormalizeSerialHex(a) = SubSeq(a, m, Len(a))
         /\ \A i \in 1..(m - 1) : a[i] = 0
  BY ZerosAreStripped
<1>2. PICK n \in DOMAIN b :
         /\ NormalizeSerialHex(b) = SubSeq(b, n, Len(b))
         /\ \A i \in 1..(n - 1) : b[i] = 0
  BY ZerosAreStripped
<1>3. /\ Len(a) \in Int /\ m \in Int /\ 1 <= m /\ m <= Len(a)
      /\ Len(b) \in Int /\ n \in Int /\ 1 <= n /\ n <= Len(b)
  BY DEF Serial
<1>4. PICK s : s = SubSeq(a, m, Len(a)) /\ s = SubSeq(b, n, Len(b))
  BY <1>1, <1>2
<1>5. Len(s) = Len(a) - m + 1 /\ Len(s) = Len(b) - n + 1
  BY <1>4, TailIsFunction
<1>6. Len(a) - m = Len(b) - n
  BY <1>3, <1>5
<1>7. \A i \in 1..(Len(a) - m + 1) : s[i] = a[m + i - 1]
  BY <1>4, TailIsFunction
<1>8. \A i \in 1..(Len(b) - n + 1) : s[i] = b[n + i - 1]
  BY <1>4, TailIsFunction
<1>9. \A i \in 1..(Len(a) - m + 1) : a[m + i - 1] = b[n + i - 1]
  BY <1>5, <1>7, <1>8
<1>. QED
  BY <1>1, <1>2, <1>3, <1>6, <1>9, TailsAreNumber, Zenon

(* What is parsed of a CRL is there, whatever its form. *)
LEMMA ParsedIsThere ==
    ASSUME NEW crl \in Crl, NEW serial \in ParseCrlRevokedSerials(crl)
    PROVE  \E i \in DOMAIN crl.fields : \E n \in DOMAIN crl.fields[i].entries :
              serial = NormalizeSerialHex(crl.fields[i].entries[n].serial)
<1>. DEFINE list    == RevokedCertificates(crl)
            entries == crl.fields[list].entries
<1>1. /\ Tag(crl, list) = "SEQUENCE"
      /\ serial \in {NormalizeSerialHex(entries[n].serial) :
                        n \in {m \in Before(entries) : entries[m].kind = "serial"}}
  BY DEF ParseCrlRevokedSerials
<1>2. list \in DOMAIN crl.fields
  BY <1>1 DEF Tag
<1>. HIDE DEF list
<1>3. PICK n \in Before(entries) : serial = NormalizeSerialHex(entries[n].serial)
  BY <1>1
<1>4. n \in DOMAIN entries
  BY <1>3 DEF Before
<1>. QED
  BY <1>2, <1>3, <1>4

LEMMA RevokedIsMentioned ==
    ASSUME input \in Call, \A n \in DOMAIN chain : Cert(n) \in Certificate, Revoked
    PROVE  \E n \in DOMAIN chain : Mentioned(Cert(n).serial)
<1>1. PICK n \in DOMAIN chain, k \in DOMAIN input.crls :
         NormalizeSerialHex(Cert(n).serial) \in ParseCrlRevokedSerials(input.crls[k])
  BY DEF Revoked
<1>. DEFINE crl == input.crls[k]
<1>2. crl \in Crl
  BY DEF Call
<1>. HIDE DEF crl
<1>3. PICK i \in DOMAIN crl.fields :
         \E h \in DOMAIN crl.fields[i].entries :
            NormalizeSerialHex(Cert(n).serial) =
               NormalizeSerialHex(crl.fields[i].entries[h].serial)
  BY <1>1, <1>2, ParsedIsThere DEF crl
<1>4. PICK h \in DOMAIN crl.fields[i].entries :
         NormalizeSerialHex(Cert(n).serial) =
            NormalizeSerialHex(crl.fields[i].entries[h].serial)
  BY <1>3
<1>5. Cert(n).serial \in Serial /\ crl.fields[i].entries[h].serial \in Serial
  BY <1>2, <1>4, FieldIsTyped, EntryIsTyped DEF Certificate
<1>6. SameNumber(Cert(n).serial, crl.fields[i].entries[h].serial)
  BY <1>4, <1>5, NormalizedAlikeIsSame
<1>7. Mentioned(Cert(n).serial)
  BY <1>4, <1>6 DEF Mentioned, Lists, crl
<1>. QED
  BY <1>7

-----------------------------------------------------------------------------
(* A proper path: all that was given, in the order of certification. *)

ProperPath(p) ==
    /\ Len(p) = Len(Given)
    /\ Certifies(p)
    /\ \A i \in DOMAIN p : ~Mentioned(Given[p[i]].serial)
    /\ \A i, j \in DOMAIN p :
          Given[p[i]].subject = Given[p[j]].subject => i = j
    /\ LET root == Given[p[Len(p)]] IN
          /\ root.pinned
          /\ root.subject = root.issuer /\ root.signer = root.key
    /\ Given[p[1]].key = input.qeSigner /\ Given[p[1]].pck

LEMMA PathIsSequence ==
    ASSUME NEW p \in Paths
    PROVE  /\ Len(p) \in Nat \ {0} /\ DOMAIN p = 1..Len(p)
           /\ p \in [1..Len(p) -> DOMAIN Given]
           /\ p \in Seq(DOMAIN Given)
<1>1. PICK n \in 1..MaxChain : p \in [1..n -> DOMAIN Given]
  BY DEF Paths, Walks
<1>2. n \in Nat \ {0}
  BY VerifyAssumption
<1>3. p \in Seq(DOMAIN Given)
  BY <1>1, <1>2
<1>4. Len(p) = n
  BY <1>1, <1>2, <1>3
<1>. QED
  BY <1>1, <1>2, <1>3, <1>4

(* As many different positions as were given are all of them. *)
LEMMA PathHasAll ==
    ASSUME input \in Call, NEW p \in Paths, Len(p) = Len(Given),
           NEW k \in DOMAIN Given
    PROVE  \E i \in DOMAIN p : p[i] = k
<1>1. Given \in Seq(Certificate)
  BY DEF Given, Call
<1>2. DOMAIN Given = 1..Len(p) /\ DOMAIN p = 1..Len(p)
  BY <1>1, PathIsSequence
<1>3. p \in [1..Len(p) -> 1..Len(p)]
  BY <1>2, PathIsSequence, Zenon
<1>4. IsInjective(p)
  BY DEF Paths, IsInjective
<1>5. p \in Injection(1..Len(p), 1..Len(p))
  BY <1>3, <1>4 DEF Injection
<1>6. IsFiniteSet(1..Len(p))
  BY FS_Interval, PathIsSequence
<1>7. p \in Surjection(1..Len(p), 1..Len(p))
  BY <1>5, <1>6, FS_Injection, Zenon
<1>. QED
  BY <1>2, <1>7 DEF Surjection

(* Whose name is an issuer's, and where the walk starts. *)
LEMMA PathIsFollowed ==
    ASSUME input \in Call, NEW p \in Paths, ProperPath(p)
    PROVE  /\ \A i \in 1..(Len(p) - 1) :
                 ~AtEnd(p[i]) /\ Smallest(Named(p[i])) = p[i + 1]
           /\ AtEnd(p[Len(p)])
           /\ Leaf = p[1]
<1>. DEFINE N == Len(p)
<1>1. /\ N \in Nat \ {0} /\ DOMAIN p = 1..N
      /\ \A i \in 1..N : p[i] \in DOMAIN Given
  BY PathIsSequence
<1>2. \A i, j \in 1..N : p[i] = p[j] => i = j
  BY <1>1 DEF Paths
<1>3. \A k \in DOMAIN Given : \E i \in 1..N : p[i] = k
  <2>. TAKE k \in DOMAIN Given
  <2>1. Len(p) = Len(Given)
    BY DEF ProperPath
  <2>2. \E i \in DOMAIN p : p[i] = k
    BY <2>1, PathHasAll
  <2>. QED
    BY <1>1, <2>2
<1>4. \A i, j \in 1..N : Given[p[i]].subject = Given[p[j]].subject => i = j
  BY <1>1 DEF ProperPath
<1>5. \A i \in 1..(N - 1) : Given[p[i]].issuer = Given[p[i + 1]].subject
  BY DEF ProperPath, Certifies
<1>6. Given[p[N]].issuer = Given[p[N]].subject
  BY DEF ProperPath
<1>7. Given \in Seq(Certificate)
  BY DEF Given, Call
<1>. HIDE DEF N
<1>8. ASSUME NEW i \in 1..N, NEW j \in 1..N,
             Given[p[i]].issuer = Given[p[j]].subject
      PROVE  Named(p[i]) = {p[j]} /\ Smallest(Named(p[i])) = p[j]
  <2>1. Named(p[i]) = {p[j]}
    <3>1. p[j] \in Named(p[i])
      BY <1>1, <1>8 DEF Named
    <3>2. ASSUME NEW k \in Named(p[i])
          PROVE  k = p[j]
      <4>1. k \in DOMAIN Given /\ Given[k].subject = Given[p[j]].subject
        BY <1>8, <3>2 DEF Named
      <4>2. PICK h \in 1..N : p[h] = k
        BY <1>3, <4>1
      <4>. QED
        BY <1>4, <4>1, <4>2
    <3>. QED
      BY <3>1, <3>2
  <2>2. Named(p[i]) \subseteq Nat
    BY <1>7 DEF Named
  <2>3. Smallest(Named(p[i])) \in Named(p[i])
    BY <2>1, <2>2, SmallestIsLeast
  <2>. QED
    BY <2>1, <2>3
<1>9. ASSUME NEW i \in 1..(N - 1)
      PROVE  ~AtEnd(p[i]) /\ Smallest(Named(p[i])) = p[i + 1]
  <2>1. i \in 1..N /\ i + 1 \in 1..N /\ i # i + 1
    BY <1>1
  <2>2. Named(p[i]) = {p[i + 1]} /\ Smallest(Named(p[i])) = p[i + 1]
    BY <1>5, <1>8, <2>1
  <2>3. p[i] # p[i + 1]
    BY <1>2, <2>1
  <2>. QED
    BY <2>2, <2>3 DEF AtEnd
<1>10. AtEnd(p[N])
  BY <1>1, <1>6, <1>8 DEF AtEnd
<1>11. Leaf = p[1]
  <2>. DEFINE leaves == {k \in DOMAIN Given :
                           \A j \in DOMAIN Given : Given[j].issuer # Given[k].subject}
  <2>1. ASSUME NEW i \in 1..N, i # 1
        PROVE  p[i] \notin leaves
    <3>1. i - 1 \in 1..(N - 1) /\ i - 1 \in 1..N /\ (i - 1) + 1 = i
      BY <1>1, <2>1
    <3>2. Given[p[i - 1]].issuer = Given[p[i]].subject /\ p[i - 1] \in DOMAIN Given
      BY <1>1, <1>5, <3>1
    <3>. QED
      BY <3>2
  <2>2. CASE N = 1
    <3>1. p[1] \notin leaves
      BY <1>1, <1>6, <2>2
    <3>2. leaves = {}
      BY <1>3, <2>1, <3>1
    <3>3. DOMAIN Given = 1..1
      <4>1. Len(Given) = 1
        BY <2>2 DEF ProperPath, N
      <4>. QED
        BY <1>7, <4>1
    <3>4. p[1] = 1
      BY <1>1, <2>2, <3>3
    <3>. QED
      BY <3>2, <3>4 DEF Leaf
  <2>3. CASE N > 1
    <3>1. ASSUME NEW j \in DOMAIN Given, Given[j].issuer = Given[p[1]].subject
          PROVE  FALSE
      <4>1. PICK h \in 1..N : p[h] = j
        BY <1>3
      <4>2. CASE h = N
        BY <1>1, <1>4, <1>6, <2>3, <3>1, <4>1, <4>2
      <4>3. CASE h # N
        <5>1. h \in 1..(N - 1) /\ h + 1 \in 1..N /\ h + 1 # 1 /\ 1 \in 1..N
          BY <1>1, <4>3
        <5>2. Given[p[h + 1]].subject = Given[p[1]].subject
          BY <1>5, <3>1, <4>1, <5>1
        <5>. QED
          BY <1>4, <5>1, <5>2
      <4>. QED
        BY <4>2, <4>3
    <3>2. p[1] \in leaves
      BY <1>1, <3>1
    <3>3. leaves = {p[1]}
      BY <1>3, <2>1, <3>2
    <3>4. leaves \subseteq Nat
      BY <1>7
    <3>. HIDE DEF leaves
    <3>5. Smallest(leaves) = p[1]
      BY <3>2, <3>3, <3>4, SmallestIsLeast
    <3>. QED
      BY <3>3, <3>5 DEF Leaf, leaves
  <2>. QED
    BY <1>1, <2>2, <2>3
<1>. QED
  BY <1>9, <1>10, <1>11 DEF N

(* The walk up a proper path. *)
LEMMA PathStep ==
    ASSUME input \in Call, NEW p \in Paths, ProperPath(p),
           NEW q, Follows(q), ~AtEnd(q[Len(q)]), Prefix(q, p)
    PROVE  Prefix(Append(q, Smallest(Named(q[Len(q)]))), p)
<1>. DEFINE n == Smallest(Named(q[Len(q)]))
<1>1. /\ q \in Seq(DOMAIN Given) /\ Len(q) \in Nat \ {0}
      /\ Len(p) \in Nat \ {0}
  BY PathIsSequence DEF Follows
<1>2. q[Len(q)] = p[Len(q)] /\ Len(q) <= Len(p)
  BY <1>1 DEF Prefix
<1>3. Len(q) < Len(p)
  BY <1>1, <1>2, PathIsFollowed
<1>4. p[Len(q) + 1] = n
  BY <1>1, <1>2, <1>3, PathIsFollowed
<1>. HIDE DEF n
<1>5. ASSUME NEW i \in 1..(Len(q) + 1)
      PROVE  Append(q, n)[i] = p[i]
  BY <1>1, <1>4 DEF Prefix
<1>. QED
  BY <1>1, <1>3, <1>5 DEF Prefix, n

LEMMA PathEnd ==
    ASSUME input \in Call, NEW p \in Paths, ProperPath(p),
           NEW q, Follows(q), AtEnd(q[Len(q)]), Prefix(q, p)
    PROVE  Len(q) = Len(p) /\ \A i \in 1..Len(p) : q[i] = p[i]
<1>1. /\ q \in Seq(DOMAIN Given) /\ Len(q) \in Nat \ {0}
      /\ Len(p) \in Nat \ {0}
  BY PathIsSequence DEF Follows
<1>2. q[Len(q)] = p[Len(q)] /\ Len(q) <= Len(p)
  BY <1>1 DEF Prefix
<1>3. ~(Len(q) < Len(p))
  <2>1. Len(q) < Len(p) => Len(q) \in 1..(Len(p) - 1)
    BY <1>1
  <2>. QED
    BY <1>2, <2>1, PathIsFollowed
<1>4. Len(q) = Len(p)
  BY <1>1, <1>2, <1>3
<1>. QED
  BY <1>1, <1>4 DEF Prefix

(* At its end, all that verifyPCKChain checks holds. *)
LEMMA PathIsValid ==
    ASSUME input \in Call, NEW p \in Paths, ProperPath(p),
           Follows(chain), AtEnd(Last), Prefix(chain, p)
    PROVE  /\ Status = "valid"
           /\ Given[Last].pinned
           /\ Cert(1).key = input.qeSigner /\ Cert(1).pck
<1>. DEFINE N == Len(p)
<1>1. Len(chain) = N /\ \A i \in 1..N : chain[i] = p[i]
  BY PathEnd DEF Last
<1>2. N \in Nat \ {0} /\ DOMAIN p = 1..N /\ DOMAIN chain = 1..N
  BY <1>1, PathIsSequence DEF Follows
<1>3. \A i \in 1..N : Cert(i) = Given[p[i]]
  BY <1>1 DEF Cert
<1>4. /\ \A i \in 1..(N - 1) : Given[p[i]].signer = Given[p[i + 1]].key
      /\ \A i \in 1..N : /\ Given[p[i]].inWindow /\ ~Mentioned(Given[p[i]].serial)
                         /\ Given[p[i]].ca <=> i # 1
                         /\ i > 1 /\ Given[p[i]].pathLen # NoLimit
                               => i - 2 <= Given[p[i]].pathLen
  BY <1>2 DEF ProperPath, Certifies
<1>5. Given[Last] = Given[p[N]]
  BY <1>1, <1>2 DEF Last
<1>6. /\ Given[p[N]].pinned /\ Given[p[N]].signer = Given[p[N]].key
      /\ Given[p[1]].key = input.qeSigner /\ Given[p[1]].pck
  BY DEF ProperPath
<1>. HIDE DEF N
<1>7. ~Expired
  BY <1>2, <1>3, <1>4 DEF Expired
<1>8. SignaturesHold
  <2>1. ASSUME NEW i \in 1..(Len(chain) - 1)
        PROVE  Cert(i).signer = Cert(i + 1).key
    <3>1. i \in 1..(N - 1) /\ i \in 1..N /\ i + 1 \in 1..N
      BY <1>1, <1>2
    <3>. QED
      BY <1>3, <1>4, <3>1
  <2>. QED
    BY <1>5, <1>6, <2>1 DEF SignaturesHold
<1>9. RolesHold
  <2>1. ASSUME NEW i \in 2..Len(chain), Cert(i).pathLen # NoLimit
        PROVE  Cardinality({j \in 1..(i - 1) : Cert(j).ca}) <= Cert(i).pathLen
    <3>1. i \in 1..N /\ i > 1 /\ i \in Nat
      BY <1>1, <1>2
    <3>2. i - 2 <= Cert(i).pathLen
      BY <1>3, <1>4, <2>1, <3>1
    <3>3. {j \in 1..(i - 1) : Cert(j).ca} = 2..(i - 1)
      BY <1>2, <1>3, <1>4, <3>1
    <3>4. Cardinality(2..(i - 1)) = i - 2
      BY <3>1, IntervalSize
    <3>. QED
      BY <3>2, <3>3, <3>4
  <2>2. ~Cert(1).ca /\ \A i \in 2..Len(chain) : Cert(i).ca
    BY <1>1, <1>2, <1>3, <1>4
  <2>. QED
    BY <2>1, <2>2 DEF RolesHold, PathLensHold
<1>10. ~Revoked
  <2>1. \A n \in DOMAIN chain : Cert(n) \in Certificate
    BY DEF Follows, Cert, Given, Call
  <2>. QED
    BY <1>2, <1>3, <1>4, <2>1, RevokedIsMentioned
<1>. QED
  BY <1>2, <1>3, <1>5, <1>6, <1>7, <1>8, <1>9, <1>10 DEF Status

-----------------------------------------------------------------------------
(* The walks keep to a proper path, and nothing but the service's answer *)
(* ends such a call with an error.                                       *)

OnPath(p) ==
    /\ pc \in {"walk", "judge"} => Prefix(chain, p)
    /\ outcome = "error" => \E answer \in tcb : ~answer.ok

ProperInv ==
    QuoteInOrder => \A p \in Paths : ProperPath(p) => OnPath(p)

LEMMA PathsStay ==
    ASSUME input' = input
    PROVE  /\ Paths' = Paths
           /\ QuoteInOrder' = QuoteInOrder
           /\ \A p : ProperPath(p)' = ProperPath(p)
BY DEF Paths, Walks, QuoteInOrder, TypeSupported, ProperPath, Certifies, Listed,
       Mentioned, Given

LEMMA StepKeepsPath ==
    ASSUME IInv, [Next]_vars, QuoteInOrder,
           NEW p \in Paths, ProperPath(p), OnPath(p)
    PROVE  OnPath(p)'
<1>1. input \in Call
  BY DEF IInv, TypeOK
<1>2. pc # "done" => outcome # "error"
  BY DEF IInv, TcbInv
<1>3. ASSUME Parse
      PROVE  OnPath(p)'
  <2>1. Given # <<>>
    <3>1. Len(Given) \in Nat \ {0}
      BY PathIsSequence DEF ProperPath
    <3>. QED
      BY <3>1
  <2>. QED
    BY <1>2, <1>3, <2>1 DEF Parse, OnPath
<1>4. ASSUME PickLeaf
      PROVE  OnPath(p)'
  <2>1. Prefix(<<Leaf>>, p)
    <3>1. Leaf = p[1] /\ Len(p) \in Nat \ {0}
      BY <1>1, PathIsFollowed, PathIsSequence
    <3>. QED
      BY <3>1 DEF Prefix
  <2>2. chain' = <<Leaf>>
    BY <1>4 DEF PickLeaf
  <2>3. Prefix(chain, p)'
    BY <2>1, <2>2 DEF Prefix
  <2>. QED
    BY <1>2, <1>4, <2>3 DEF PickLeaf, OnPath
<1>5. ASSUME Walk
      PROVE  OnPath(p)'
  <2>1. Follows(chain) /\ Prefix(chain, p)
    BY <1>5 DEF Walk, IInv, ChainInv, OnPath
  <2>2. CASE AtEnd(Last)
    BY <1>2, <1>5, <2>1, <2>2 DEF Walk, OnPath, Prefix
  <2>3. CASE ~AtEnd(Last)
    <3>1. chain' = Append(chain, Smallest(Named(chain[Len(chain)])))
      BY <1>5, <2>3 DEF Walk, Last
    <3>2. Prefix(Append(chain, Smallest(Named(chain[Len(chain)]))), p)
      BY <1>1, <2>1, <2>3, PathStep DEF Last
    <3>3. Prefix(chain, p)'
      BY <3>1, <3>2 DEF Prefix
    <3>. QED
      BY <1>2, <1>5, <3>3 DEF Walk, OnPath
  <2>. QED
    BY <2>2, <2>3
<1>6. ASSUME pc = "judge"
      PROVE  /\ Status = "valid" /\ Given[Last].pinned
             /\ Cert(1).key = input.qeSigner /\ Cert(1).pck
  BY <1>1, <1>6, PathIsValid DEF IInv, ChainInv, OnPath
<1>7. ASSUME JudgeChain
      PROVE  OnPath(p)'
  <2>1. input.header /\ TypeSupported
    BY DEF QuoteInOrder
  <2>2. pc' = "leaf" /\ outcome' = outcome /\ pc # "done"
    BY <1>6, <1>7, <2>1 DEF JudgeChain
  <2>. QED
    BY <1>2, <2>2 DEF OnPath
<1>8. ASSUME JudgeQuote
      PROVE  OnPath(p)'
  <2>1. QeReportSigned /\ QeReportBound /\ QuoteSigned /\ Cert(1).pck
    BY <1>6, <1>8
       DEF JudgeQuote, QeReportSigned, QeReportBound, QuoteSigned, QuoteInOrder
  <2>2. pc' \in {"tcb", "done"} /\ outcome' # "error"
    BY <1>2, <1>8, <2>1 DEF JudgeQuote, End
  <2>. QED
    BY <2>2 DEF OnPath
<1>9. ASSUME VerifyTcb
      PROVE  OnPath(p)'
  <2>1. PICK answer \in TcbInfo :
           /\ tcb' = {answer}
           /\ End(IF ~answer.ok THEN "error"
                  ELSE IF Passes(answer, input.cpu, input.pce) THEN "accepted"
                  ELSE "refused")
    BY <1>9 DEF VerifyTcb
  <2>2. pc' = "done" /\ (outcome' = "error" => ~answer.ok)
    BY <2>1 DEF End
  <2>. QED
    BY <2>1, <2>2 DEF OnPath
<1>10. ASSUME UNCHANGED vars
       PROVE  OnPath(p)'
  BY <1>10 DEF vars, OnPath, Prefix
<1>. QED
  BY <1>3, <1>4, <1>5, <1>7, <1>8, <1>9, <1>10 DEF Next

(***************************************************************************)
(* If the certificates that were given are one path to a pinned root, in   *)
(* whatever order they are listed, and no CRL has one of them, an error    *)
(* can only come from the service that is asked for the TCB level          *)
(* (verifyTdx.ts:65): both walks of verifyPCKChain go along that path, and  *)
(* every check of it passes.                                               *)
(***************************************************************************)
THEOREM ProperAreAccepted == Spec => []ProperIsAccepted
<1>1. Init => ProperInv
  BY DEF Init, ProperInv, OnPath
<1>2. IInv /\ ProperInv /\ [Next]_vars => ProperInv'
  <2>. SUFFICES ASSUME IInv, ProperInv, [Next]_vars
                PROVE  ProperInv'
    OBVIOUS
  <2>1. input' = input
    BY DEF Next, vars, Parse, PickLeaf, Walk, JudgeChain, JudgeQuote, VerifyTcb
  <2>2. ASSUME QuoteInOrder, NEW p \in Paths, ProperPath(p)
        PROVE  OnPath(p)'
    BY <2>2, StepKeepsPath DEF ProperInv
  <2>. QED
    BY <2>1, <2>2, PathsStay DEF ProperInv
<1>3. ProperInv => ProperIsAccepted
  BY DEF ProperInv, ProperIsAccepted, ProperPath, OnPath
<1>. QED
  BY <1>1, <1>2, <1>3, Invariance, PTL DEF Spec

=============================================================================
