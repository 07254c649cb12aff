------------------------------- MODULE TlsDb -------------------------------
(***************************************************************************)
(* The certificate stores of src/src/proxy/tls/db.rs as operators: CaDb    *)
(* (root and intermediate CAs, indexed by common name and by key           *)
(* identifier), CertDb (forged end certificates, indexed by SNI), and the   *)
(* name derivation common_name_of_params of tls/mod.rs.                    *)
(*                                                                          *)
(* An index is a function whose domain is the set of keys inserted so far; *)
(* Absent stands for None.  A CaDb entry is the (Certificate, KeyPair)     *)
(* pair, recorded as [cert, key, cn, kid]: the file stems the certificate  *)
(* and the key were parsed from, the name and the key identifier.          *)
(* Distinguished-name values are names; their string encodings are not     *)
(* modelled.                                                               *)
(***************************************************************************)
EXTENDS Sequences, TLC

CONSTANT Absent

EmptyIndex == [k \in {} |-> Absent]

Lookup(idx, k) == IF k \in DOMAIN idx THEN idx[k] ELSE Absent

\* common_name_of_params: the subject's CN, else its OU, else its O.
CommonNameOfParams(dn) ==
    IF dn.cn # Absent THEN dn.cn
    ELSE IF dn.ou # Absent THEN dn.ou
    ELSE dn.o

----------------------------------------------------------------------------
(***************************************************************************)
(* File contents.  A body is what one file holds: a PEM CERTIFICATE        *)
(* section of certificate id, a PEM PRIVATE KEY section of key id, a       *)
(* CERTIFICATE section that does not decode ("bad"), or the DER bytes of   *)
(* certificate id.  A certificate id is [dn, ski, signer]: its subject,   *)
(* its key identifier and the key it is signed with.  A read buffer is the *)
(* sequence of the bodies appended to it.                                 *)
(***************************************************************************)
IsPem(b) == b.kind \in {"cert", "key", "bad"}

\* CertificateDer::from_pem_slice: the first CERTIFICATE section of the
\* buffer (other sections and non-PEM bytes are skipped); Absent on a
\* section that does not decode or when there is none.
RECURSIVE CertFromPemSlice(_)
CertFromPemSlice(buf) ==
    IF buf = <<>> THEN Absent
    ELSE CASE Head(buf).kind = "cert" -> Head(buf).id
           [] Head(buf).kind = "bad"  -> Absent
           [] OTHER                   -> CertFromPemSlice(Tail(buf))

\* KeyPair::from_pem: pem::parse takes the first section, which must be a
\* private key.
KeyPairFromPem(buf) ==
    IF buf # <<>> /\ Head(buf).kind = "key" THEN Head(buf).id ELSE Absent

----------------------------------------------------------------------------
(* CaDb *)

CaDbNew == [idxName |-> EmptyIndex, idxHash |-> EmptyIndex]

\* Mutation variant of CaDbInsertName: a duplicate name keeps the first
\* certificate instead of overwriting it.
CaDbInsertNameKeepFirst(db, e) ==
    IF e.cn = Absent \/ e.cn \in DOMAIN db.idxName THEN db
    ELSE [db EXCEPT !.idxName = (e.cn :> e) @@ @]

\* insert_name: `?` skips a certificate without a name; a duplicate name
\* logs a warning and is overwritten.
CaDbInsertName(db, e) ==
    IF e.cn = Absent THEN db
    ELSE [db EXCEPT !.idxName = (e.cn :> e) @@ @]

\* insert: the name index, then idx_hash under cert.key_identifier().
CaDbInsert(db, e) ==
    LET d == CaDbInsertName(db, e)
    IN  [d EXCEPT !.idxHash = (e.kid :> e) @@ @]

CaDbGetByName(db, n) == Lookup(db.idxName, n)

\* The (certificate, key) pairs either index holds.
CaDbEntries(db) == {db.idxName[n] : n \in DOMAIN db.idxName}
                   \cup {db.idxHash[k] : k \in DOMAIN db.idxHash}
CaDbGetByHash(db, k) == Lookup(db.idxHash, k)

(***************************************************************************)
(* get_ca_cert's lookup of a probed CA certificate p = [ca, serial, dn]:   *)
(* the root CA store is searched with the serial number in the            *)
(* key-identifier index, then with the derived name.  A name that cannot  *)
(* be derived returns None through `?`.                                    *)
(***************************************************************************)
GetCaRoot(db, p) ==
    IF CaDbGetByHash(db, p.serial) # Absent THEN CaDbGetByHash(db, p.serial)
    ELSE IF CommonNameOfParams(p.dn) = Absent THEN Absent
    ELSE CaDbGetByName(db, CommonNameOfParams(p.dn))

----------------------------------------------------------------------------
(* CertDb: only idx_name is ever read (get_by_hash and contains_cert have  *)
(* no caller), so the hash index is left out.                              *)

CertDbContainsName(db, n) == Lookup(db, n) # Absent
CertDbGetByName(db, n) == Lookup(db, n)
CertDbInsert(db, n, v) == (n :> v) @@ db
=============================================================================
