--------------------------- MODULE MCVerifyQuote ---------------------------
(***************************************************************************)
(* Inputs for VerifyQuote: three certificates in every arrangement of      *)
(* issuers, with at most one defect; one good chain with every SVN; and    *)
(* the same with CRLs of every form, in order and not.                     *)
(***************************************************************************)
EXTENDS VerifyQuote

Position == 1..3
Defect   == {"forged", "expired", "revoked", "role", "pathLen", "noPck"}

(* Certificates named and issued as subject and issuer say; each is signed *)
(* by the first certificate of its issuer's name, and is a CA if it issued *)
(* any, but for the defect at one position.                                *)
Arranged(subject, issuer, defect, at, root) ==
    [i \in Position |->
        LET has(d) == defect = d /\ at = i
            above  == {j \in Position : subject[j] = issuer[i]}
        IN [subject  |-> subject[i], issuer |-> issuer[i], key |-> i,
            signer   |-> IF has("forged") \/ above = {} THEN NoKey
                         ELSE Smallest(above),
            inWindow |-> ~has("expired"),
            ca       |-> has("role") # (\E j \in Position : issuer[j] = subject[i]),
            pathLen  |-> IF has("pathLen") THEN 0 ELSE IF i = root THEN 1 ELSE NoLimit,
            serial   |-> <<8, i>>,
            pinned   |-> i = root,
            pck      |-> ~has("noPck")]]

FieldOf(tag, serials) ==
    [tag |-> tag, entries |-> [n \in DOMAIN serials |->
                                [kind |-> "serial", serial |-> <<0, 0>> \o serials[n]]]]

(* A CRL that lists the given serials, as DER has them, with leading zeros; *)
(* its signature algorithm comes after tbsCertList.                         *)
ListOf(version, next, serials, others) ==
    LET fields ==
            (IF version THEN <<FieldOf("INTEGER", <<>>)>> ELSE <<>>)
            \o <<FieldOf("SEQUENCE", <<>>), FieldOf("SEQUENCE", <<>>), FieldOf("TIME", <<>>)>>
            \o (IF next THEN <<FieldOf("TIME", <<>>)>> ELSE <<>>)
            \o (IF serials = <<>> THEN <<>> ELSE <<FieldOf("SEQUENCE", serials)>>)
            \o (IF others THEN <<FieldOf("OTHER", <<>>)>> ELSE <<>>)
    IN [framed |-> TRUE, fields |-> fields \o <<FieldOf("SEQUENCE", <<>>)>>,
        inTbs  |-> Len(fields)]

(* What may become of it: no frame, a short tbsCertList, a field or an entry *)
(* of another kind.                                                         *)
Malformed(crl) ==
    {[crl EXCEPT !.framed = FALSE]}
        \cup {[crl EXCEPT !.inTbs = n] : n \in 0..crl.inTbs}
        \cup {[crl EXCEPT !.fields = SubSeq(@, 1, n), !.inTbs = n] : n \in 0..crl.inTbs}
        \cup {[crl EXCEPT !.fields[i].tag = tag] :
                i \in DOMAIN crl.fields, tag \in {"SEQUENCE", "TIME", "OTHER", "BROKEN"}}
        \cup UNION {{[crl EXCEPT !.fields[i].entries[n].kind = kind] :
                        n \in DOMAIN crl.fields[i].entries,
                        kind \in {"other", "end", "broken"}} : i \in DOMAIN crl.fields}

Quote(certs, qeSigner) ==
    [tee |-> "tdx", certs |-> certs, extra |-> <<>>, crls |-> <<>>, header |-> TRUE, type |-> 5,
     qeSigner |-> qeSigner, bound |-> TRUE, signed |-> TRUE,
     cpu |-> <<1, 1>>, pce |-> 1, asksTcb |-> FALSE]

(* The first certificate is named 1: names may be exchanged. *)
Chains ==
    {[Quote(Arranged(subject, issuer, defect, at, root), qeSigner) EXCEPT
        !.crls = IF defect = "revoked" THEN <<ListOf(TRUE, TRUE, <<<<8, at>>>>, TRUE)>>
                 ELSE <<>>] :
        subject \in {f \in [Position -> Name] : f[1] = 1},
        issuer \in [Position -> Name],
        defect \in Defect, at \in 0..3, root \in Position, qeSigner \in Position}

Proper == Arranged(<<1, 2, 3>>, <<2, 3, 3>>, "forged", 0, 3)

(* The same chain, with the rest of the call varied. *)
Calls ==
    {[Quote(IF inQuote THEN Proper ELSE <<>>, 1) EXCEPT
        !.tee = tee, !.type = type, !.cpu = <<a, b>>, !.pce = pce,
        !.extra = IF inExtra THEN Proper ELSE <<>>, !.asksTcb = TRUE] :
        inQuote \in BOOLEAN, inExtra \in BOOLEAN, tee \in {"tdx", "sgx"},
        type \in {1, 5}, a \in 0..2, b \in 0..2, pce \in 0..2}

Unbound ==
    {[Quote(Proper, 1) EXCEPT !.header = h, !.bound = b, !.signed = s] :
        h \in BOOLEAN, b \in BOOLEAN, s \in BOOLEAN}

(* The same chain and two lists of every form: the first names another *)
(* certificate or none, the second perhaps one of the chain.           *)
Revocations ==
    {[Quote(Proper, 1) EXCEPT
        !.crls = <<ListOf(version, next, first, others),
                   ListOf(next, version, second, ~others)>>] :
        version \in BOOLEAN, next \in BOOLEAN, others \in BOOLEAN,
        first \in {<<>>, <<<<8, 0>>>>},
        second \in {<<>>, <<<<8>>>>, <<<<8, 0>>, <<8, 2>>>>, <<<<8, 3, 0>>, <<0, 8, 1>>>>}}

(* One that cannot be read, or not as it was meant, before one that can, or *)
(* not even that; and the other way around.                                 *)
Misreadings ==
    LET Bad   == UNION {Malformed(ListOf(version, next, <<<<8, 2>>, <<8, 0>>>>, TRUE)) :
                            version \in BOOLEAN, next \in BOOLEAN}
        Good  == {ListOf(FALSE, FALSE, serials, FALSE) :
                            serials \in {<<<<8, 0>>>>, <<<<8, 1>>>>}}
    IN {[Quote(Proper, 1) EXCEPT !.crls = crls] :
            crls \in {<<bad>> : bad \in Bad}
                        \cup {<<bad, good>> : bad \in Bad, good \in Good}
                        \cup {<<good, bad>> : bad \in Bad, good \in Good}}

MCInput == Misreadings \cup Revocations \cup Chains \cup Calls \cup Unbound

LevelOf(cpu, pce, status) ==
    [sgx |-> cpu, tdx |-> Append(cpu, 0), pce |-> pce, status |-> status]

Statuses == {"UpToDate", "ConfigurationNeeded", "OutOfDate"}

MCTcbInfo ==
    {[ok |-> ok, fresh |-> fresh,
      levels |-> <<LevelOf(<<2, 1>>, 2, first), LevelOf(<<1, 1>>, pce, second),
                   LevelOf(<<1>>, 0, "OutOfDate")>>] :
        ok \in BOOLEAN, fresh \in BOOLEAN, pce \in 1..2,
        first \in Statuses, second \in Statuses}
=============================================================================
