---------------------------- MODULE VerifyQuote ----------------------------
(***************************************************************************)
(* verifyTdx and verifySgx of packages/qvl: one call that checks a quote,  *)
(* from the certificates to the callback that judges the TCB level, which  *)
(* is taken to be verifyTcb of tcb.ts.                                     *)
(*                                                                         *)
(* Certificates are records: what parsing them yields, and what the        *)
(* primitives say of them (a signature is the key it was made with).  The  *)
(* issuer of a certificate is looked up by name, and the chain is kept as  *)
(* positions in the list that was given.                                   *)
(***************************************************************************)
EXTENDS Integers, Sequences, FiniteSets

CONSTANTS
    Name,      \* subjects and issuers
    Key,       \* public keys
    NoKey,     \* no key that verifies the signature
    Input,     \* the calls considered: quotes with their configuration
    TcbInfo,   \* answers of Intel's service
    MaxChain   \* bound on the chain: it grows forever on a cycle of issuers

NoLimit == -1    \* no pathLenConstraint

(* A serial number, as hexadecimal digits. *)
Serial == {hex \in Seq(0..15) : hex # <<>>}

Certificate == [subject: Name, issuer: Name, key: Key, signer: Key \cup {NoKey},
                inWindow: BOOLEAN, ca: BOOLEAN, pathLen: Nat \cup {NoLimit},
                serial: Serial, pinned: BOOLEAN, pck: BOOLEAN]

(* What a revocation entry is read as: a SEQUENCE that begins with a serial, *)
(* one that does not, something else, or nothing that can be read.          *)
Entry == [kind: {"serial", "other", "end", "broken"}, serial: Serial]

(* A CRL: whether it is a SEQUENCE that begins with one, tbsCertList; the   *)
(* fields read from there on, of which the first inTbs lie in tbsCertList.  *)
(* Nothing can be read of a "BROKEN" one, nor after the last.               *)
Field == [tag: {"INTEGER", "SEQUENCE", "TIME", "OTHER", "BROKEN"}, entries: Seq(Entry)]

Crl == {crl \in [framed: BOOLEAN, fields: Seq(Field), inTbs: Nat] :
            crl.inTbs <= Len(crl.fields)}

Call == [tee: {"tdx", "sgx"},
         certs: Seq(Certificate),   \* certificates in cert_data
         extra: Seq(Certificate),   \* extraCertdata
         crls: Seq(Crl),            \* config.crls
         header: BOOLEAN,           \* tee_type and att_key_type are supported
         type: Nat,                 \* cert_data_type
         qeSigner: Key \cup {NoKey},\* key that signed the QE report
         bound: BOOLEAN,            \* the QE report names the attestation key
         signed: BOOLEAN,           \* that key signed the quote
         cpu: Seq(Nat), pce: Nat,   \* SVNs of the quote
         asksTcb: BOOLEAN]          \* config.verifyTcb is there

(* Other statuses are judged like OutOfDate. *)
Level == [sgx: Seq(Nat), tdx: Seq(Nat), pce: Nat,
          status: {"UpToDate", "ConfigurationNeeded", "OutOfDate"}]

Answer == [ok: BOOLEAN, fresh: BOOLEAN, levels: Seq(Level)]

ASSUME VerifyAssumption ==
    /\ Input \subseteq Call
    /\ TcbInfo \subseteq Answer
    /\ NoKey \notin Key
    /\ MaxChain \in Nat \ {0}

VARIABLES
    input,     \* the call
    pc,        \* what comes next
    dated,     \* verifyPCKChain was given a date and the CRLs
    chain,     \* chain of verifyPCKChain
    tcb,       \* the answers of the service used
    outcome    \* "none", or what the call ends with

vars == <<input, pc, dated, chain, tcb, outcome>>

(* The certificates of the quote; extraCertdata only when there are none. *)
Given == IF input.certs # <<>> THEN input.certs ELSE input.extra

TypeOK ==
    /\ input \in Call
    /\ pc \in {"parse", "leaf", "walk", "judge", "tcb", "done"}
    /\ dated \in BOOLEAN
    /\ chain \in Seq(DOMAIN Given)
    /\ tcb \subseteq TcbInfo
    /\ outcome \in {"none", "accepted", "refused", "error"}

Init ==
    /\ input \in Input
    /\ pc = "parse"
    /\ dated = TRUE
    /\ chain = <<>>
    /\ tcb = {}
    /\ outcome = "none"

End(result) ==
    /\ pc' = "done"
    /\ outcome' = result

-----------------------------------------------------------------------------
(* verifyPCKChain: the chain. *)

Smallest(S) == CHOOSE i \in S : \A j \in S : i <= j

(* Mutant: no default when every certificate is some certificate's issuer. *)
NoDefaultLeaf ==
    LET leaves == {i \in DOMAIN Given :
                     \A j \in DOMAIN Given : Given[j].issuer # Given[i].subject}
    IN IF leaves = {} THEN 0 ELSE Smallest(leaves)

(* The first one that issued none; the first one of all if there is none. *)
Leaf ==
    LET leaves == {i \in DOMAIN Given :
                     \A j \in DOMAIN Given : Given[j].issuer # Given[i].subject}
    IN IF leaves = {} THEN 1 ELSE Smallest(leaves)

Last == chain[Len(chain)]

Named(i) == {j \in DOMAIN Given : Given[j].subject = Given[i].issuer}

(* Mutant: a certificate that is its own issuer is not the end. *)
NoEnd(i) == Named(i) = {}

AtEnd(i) == Named(i) = {} \/ Smallest(Named(i)) = i

PickLeaf ==
    /\ pc = "leaf"
    /\ chain' = <<Leaf>>
    /\ pc' = "walk"
    /\ UNCHANGED <<input, dated, tcb, outcome>>

Walk ==
    /\ pc = "walk"
    /\ IF AtEnd(Last)
       THEN /\ pc' = "judge"
            /\ UNCHANGED chain
       ELSE /\ Len(chain) < MaxChain
            /\ chain' = Append(chain, Smallest(Named(Last)))
            /\ UNCHANGED pc
    /\ UNCHANGED <<input, dated, tcb, outcome>>

-----------------------------------------------------------------------------
(* verifyPCKChain: the checks, in their order. *)

Cert(i) == Given[chain[i]]

Expired == dated /\ \E i \in DOMAIN chain : ~Cert(i).inWindow

SignaturesHold ==
    /\ LET root == Given[Last] IN
       root.subject = root.issuer => root.signer = root.key
    /\ \A i \in 1..(Len(chain) - 1) : Cert(i).signer = Cert(i + 1).key

(* Mutant: the certificate itself is counted among those below it. *)
PathLensHoldOff ==
    \A i \in 2..Len(chain) :
        Cert(i).pathLen # NoLimit =>
            Cardinality({j \in 1..i : Cert(j).ca}) <= Cert(i).pathLen

PathLensHold ==
    \A i \in 2..Len(chain) :
        Cert(i).pathLen # NoLimit =>
            Cardinality({j \in 1..(i - 1) : Cert(j).ca}) <= Cert(i).pathLen

RolesHold ==
    /\ ~Cert(1).ca
    /\ \A i \in 2..Len(chain) : Cert(i).ca
    /\ PathLensHold

(* Without leading zeros, but for a last digit. *)
NormalizeSerialHex(hex) ==
    LET digits == {i \in DOMAIN hex : hex[i] # 0 \/ i = Len(hex)}
    IN SubSeq(hex, Smallest(digits), Len(hex))

Tag(crl, i) == IF i \in DOMAIN crl.fields THEN crl.fields[i].tag ELSE "BROKEN"

(* An optional version, signature and issuer come before thisUpdate. *)
ThisUpdate(crl) == IF Tag(crl, 1) = "INTEGER" THEN 4 ELSE 3

Opens(crl) ==
    /\ crl.framed
    /\ \A i \in 1..2 : Tag(crl, ThisUpdate(crl) - i) = "SEQUENCE"
    /\ Tag(crl, ThisUpdate(crl)) = "TIME"

(* Mutant: nextUpdate is expected in every CRL. *)
AlwaysUpdated(crl) == ThisUpdate(crl) + 2

(* The place of revokedCertificates, after nextUpdate if there is one. *)
RevokedCertificates(crl) ==
    LET next == ThisUpdate(crl) + 1
    IN IF next <= crl.inTbs /\ Tag(crl, next) = "TIME" THEN next + 1 ELSE next

(* Up to the first entry that is no SEQUENCE. *)
Before(entries) ==
    {n \in DOMAIN entries : \A m \in 1..n : entries[m].kind # "end"}

(* Nothing at all of a CRL that fails to be read up to the end of its list. *)
ParseCrlRevokedSerials(crl) ==
    LET list    == RevokedCertificates(crl)
        entries == crl.fields[list].entries
    IN IF /\ Opens(crl)
          /\ list <= crl.inTbs /\ Tag(crl, list) = "SEQUENCE"
          /\ \A n \in Before(entries) : entries[n].kind # "broken"
       THEN {NormalizeSerialHex(entries[n].serial) :
                n \in {m \in Before(entries) : entries[m].kind = "serial"}}
       ELSE {}

(* On any of the lists: their issuers and signatures are not looked at. *)
Revoked ==
    /\ dated
    /\ \E i \in DOMAIN chain, k \in DOMAIN input.crls :
          NormalizeSerialHex(Cert(i).serial) \in ParseCrlRevokedSerials(input.crls[k])

Status ==
    IF Expired THEN "expired"
    ELSE IF ~SignaturesHold \/ ~RolesHold THEN "invalid"
    ELSE IF Revoked THEN "revoked"
    ELSE "valid"

-----------------------------------------------------------------------------
(* verifyTdx, verifySgx. *)

Parse ==
    /\ pc = "parse"
    /\ IF Given = <<>> THEN End("error")
                       ELSE pc' = "leaf" /\ UNCHANGED outcome
    /\ UNCHANGED <<input, dated, chain, tcb>>

TypeSupported ==
    input.type = 5 \/ (input.tee = "sgx" /\ input.type = 1)

(* After the dated chain: its root, and the header.  Then the chain again, *)
(* by verifyTdxQeReportSignature, with no date.                            *)
JudgeChain ==
    /\ pc = "judge"
    /\ dated
    /\ IF /\ Status = "valid"
          /\ Given[Last].pinned
          /\ input.header
          /\ TypeSupported
       THEN /\ pc' = "leaf"
            /\ dated' = FALSE
            /\ UNCHANGED outcome
       ELSE End("error") /\ UNCHANGED dated
    /\ UNCHANGED <<input, chain, tcb>>

(* By the key of the leaf. *)
QeReportSigned == Status = "valid" /\ Cert(1).key = input.qeSigner

(* To the attestation key, in either encoding. *)
QeReportBound == input.bound

QuoteSigned == input.signed

(* The leaf has to have an FMSPC and a PCESVN, too. *)
JudgeQuote ==
    /\ pc = "judge"
    /\ ~dated
    /\ IF QeReportSigned /\ QeReportBound /\ QuoteSigned /\ Cert(1).pck
       THEN IF input.asksTcb THEN pc' = "tcb" /\ UNCHANGED outcome
                             ELSE End("accepted")
       ELSE End("error")
    /\ UNCHANGED <<input, dated, chain, tcb>>

-----------------------------------------------------------------------------
(* verifyTcb. *)

(* Mutant: a platform is compared the wrong way around. *)
AtMost(svn, required) ==
    \A i \in DOMAIN required :
        (IF i \in DOMAIN svn THEN svn[i] ELSE 0) <= required[i]

AtLeast(svn, required) ==
    \A i \in DOMAIN required :
        required[i] <= IF i \in DOMAIN svn THEN svn[i] ELSE 0

(* A component of the other technology is not looked at. *)
Met(level, cpu, pce) ==
    /\ level.pce <= pce
    /\ AtLeast(cpu, IF input.tee = "tdx" THEN level.tdx ELSE level.sgx)

(* The first level that is met. *)
GetTcbStatus(levels, cpu, pce) ==
    LET met == {i \in DOMAIN levels : Met(levels[i], cpu, pce)}
    IN IF met = {} THEN "OutOfDate" ELSE levels[Smallest(met)].status

Acceptable == {"UpToDate", "ConfigurationNeeded"}

Passes(answer, cpu, pce) ==
    /\ answer.fresh
    /\ GetTcbStatus(answer.levels, cpu, pce) \in Acceptable

VerifyTcb ==
    /\ pc = "tcb"
    /\ \E answer \in TcbInfo :
          /\ tcb' = {answer}
          /\ End(IF ~answer.ok THEN "error"
                 ELSE IF Passes(answer, input.cpu, input.pce) THEN "accepted"
                 ELSE "refused")
    /\ UNCHANGED <<input, dated, chain>>

Next == Parse \/ PickLeaf \/ Walk \/ JudgeChain \/ JudgeQuote \/ VerifyTcb

Spec == Init /\ [][Next]_vars

FairSpec == Spec /\ WF_vars(Next)

-----------------------------------------------------------------------------
(* Reference: a path of certification to a pinned root. *)

(* Digits from the right; zeros on the left do not count. *)
SameNumber(a, b) ==
    LET digit(hex, i) == IF i <= Len(hex) THEN hex[Len(hex) - i + 1] ELSE 0
    IN \A i \in 1..(Len(a) + Len(b)) : digit(a, i) = digit(b, i)

(* As RFC 5280 has tbsCertList: an optional version, signature and issuer,  *)
(* thisUpdate and perhaps nextUpdate, the optional list of serials, and     *)
(* extensions.                                                              *)
WellFormed(crl) ==
    /\ crl.framed
    /\ \E version, next, list \in 0..1 :
          LET dates == version + 3 + next
          IN /\ dates + list <= crl.inTbs
             /\ \A i \in 1..crl.inTbs :
                  crl.fields[i].tag =
                    IF i <= version THEN "INTEGER"
                    ELSE IF i < version + 3 THEN "SEQUENCE"
                    ELSE IF i <= dates THEN "TIME"
                    ELSE IF i <= dates + list THEN "SEQUENCE"
                    ELSE "OTHER"
             /\ \A i \in (dates + 1)..(dates + list) :
                  \A n \in DOMAIN crl.fields[i].entries :
                      crl.fields[i].entries[n].kind = "serial"

Lists(field, serial) ==
    \E n \in DOMAIN field.entries : SameNumber(serial, field.entries[n].serial)

(* A well-formed CRL lists it, in the sequence that comes after the dates. *)
Listed(serial) ==
    \E k \in DOMAIN input.crls :
        LET crl == input.crls[k]
        IN /\ WellFormed(crl)
           /\ \E i, j \in 1..crl.inTbs :
                /\ j < i
                /\ crl.fields[j].tag = "TIME" /\ crl.fields[i].tag = "SEQUENCE"
                /\ Lists(crl.fields[i], serial)

(* Some CRL has it somewhere, well-formed or not. *)
Mentioned(serial) ==
    \E k \in DOMAIN input.crls :
        \E i \in DOMAIN input.crls[k].fields : Lists(input.crls[k].fields[i], serial)

(* Certificates p[1], p[2], ...: each is issued and signed by the next. *)
Certifies(p) ==
    /\ \A i \in 1..(Len(p) - 1) :
          /\ Given[p[i]].issuer = Given[p[i + 1]].subject
          /\ Given[p[i]].signer = Given[p[i + 1]].key
    /\ \A i \in DOMAIN p :
          /\ Given[p[i]].inWindow /\ ~Listed(Given[p[i]].serial)
          /\ Given[p[i]].ca <=> i # 1
          /\ i > 1 /\ Given[p[i]].pathLen # NoLimit => i - 2 <= Given[p[i]].pathLen

Walks == UNION {[1..n -> DOMAIN Given] : n \in 1..MaxChain}

Paths == {p \in Walks : \A i, j \in DOMAIN p : p[i] = p[j] => i = j}

(* All of the quote but its certificates and its TCB level is in order. *)
QuoteInOrder == input.header /\ TypeSupported /\ input.bound /\ input.signed

(* The end of a path to a pinned root signed the QE report. *)
Certified ==
    /\ QuoteInOrder
    /\ \E p \in Walks : /\ Certifies(p)
                        /\ Given[p[Len(p)]].pinned
                        /\ Given[p[1]].key = input.qeSigner

(***************************************************************************)
(* What is accepted is certified: the QE report is signed by the end of a  *)
(* path that leads to a pinned root through certificates of which none is  *)
(* out of date or listed by a well-formed CRL, whatever other CRLs are     *)
(* given, and all but the first are CAs with room for those below them     *)
(* (verifyTdx.ts:41 and 453).  The path may be a single certificate, which *)
(* verifyTdx.ts:38 does not say ("Expects at least two certificates"): one *)
(* that is no CA and is pinned itself.                                     *)
(***************************************************************************)
AcceptedIsCertified == outcome = "accepted" => Certified

(***************************************************************************)
(* What is in order is not rejected: if the certificates that were given   *)
(* are one such path, listed in any order, and no CRL has one of them, the *)
(* call is left with the TCB level to judge (verifyTdx.ts:65; the tests    *)
(* list root or leaf first).                                               *)
(***************************************************************************)
ProperIsAccepted ==
    LET proper(p) ==
            /\ Len(p) = Len(Given)
            /\ Certifies(p)
            /\ \A i \in DOMAIN p : ~Mentioned(Given[p[i]].serial)
            /\ \A i, j \in DOMAIN p :
                  Given[p[i]].subject = Given[p[j]].subject => i = j
            /\ LET root == Given[p[Len(p)]] IN
                  /\ root.pinned
                  /\ root.subject = root.issuer /\ root.signer = root.key
            /\ Given[p[1]].key = input.qeSigner /\ Given[p[1]].pck
    IN (pc = "done" /\ QuoteInOrder /\ \E p \in Paths : proper(p))
          => outcome # "error" \/ \E answer \in tcb : ~answer.ok

(***************************************************************************)
(* If the levels are listed from the best status to the worst, a platform  *)
(* is not refused for one SVN more than one that is accepted (tcb.ts:14).   *)
(***************************************************************************)
TcbIsMonotone ==
    outcome = "accepted" =>
        \A answer \in tcb :
            (\A i, j \in DOMAIN answer.levels :
                i < j /\ answer.levels[j].status \in Acceptable
                    => answer.levels[i].status \in Acceptable)
            => /\ Passes(answer, input.cpu, input.pce + 1)
               /\ \A i \in DOMAIN input.cpu :
                     Passes(answer, [input.cpu EXCEPT ![i] = @ + 1], input.pce)

(* Following the first certificate of the issuer's name never leads in a  *)
(* circle of two or more.                                                  *)
Acyclic ==
    \A p \in Paths : Len(p) > 1 =>
        \E i \in DOMAIN p :
            AtEnd(p[i]) \/ Smallest(Named(p[i])) # p[(i % Len(p)) + 1]

(***************************************************************************)
(* The walk up the chain ends, and so does the call, unless the issuers    *)
(* form a circle (verifyTdx.ts:78, a loop without a bound).                *)
(***************************************************************************)
Terminates == Acyclic ~> pc = "done"

=============================================================================
