----------------------------- MODULE ChainForge -----------------------------
(***************************************************************************)
(* The chain-forging algorithm of the certificate resolver                 *)
(* (src/src/proxy/tls/resolv.rs, CertResolver::process_conn_certs and       *)
(* get_ca_cert), as pure operators over the certificate chain a probe       *)
(* connection observed, leaf first.                                         *)
(*                                                                          *)
(* A probed certificate is abstracted to the two facts the algorithm        *)
(* branches on:                                                             *)
(*   ca    : CertificateParams::from_ca_cert_der gives is_ca other than     *)
(*           NoCa / ExplicitNoCa;                                           *)
(*   local : its serial number or common name indexes a root CA loaded      *)
(*           from the root-CA directory (CaDb::get_by_hash / get_by_name).  *)
(* A forged result names the probed certificates it mirrors by position:    *)
(* anchor is the probed certificate matched to a local root, presented is   *)
(* the chain handed to the TLS client (leaf, then intermediates, bottom     *)
(* first), each entry the probed position whose parameters were copied.     *)
(* Key generation, signing and DER encoding are left out: they cannot fail  *)
(* for the parameters that reach them.                                      *)
(***************************************************************************)
EXTENDS Integers, Sequences, SequencesExt

Cert == [ca : BOOLEAN, local : BOOLEAN]

\* Outcome of process_conn_certs: None, or the forged chain.
NoChain == [ok |-> FALSE, anchor |-> 0, presented |-> <<>>]
Forged(anchor, presented) == [ok |-> TRUE, anchor |-> anchor, presented |-> presented]

\* Mutation variant of get_ca_cert: the is_ca early return dropped.
GetCaCertAnyCert(cert) == cert.local

\* get_ca_cert: a probed certificate anchors the forged chain iff it is a
\* CA certificate and a loaded root CA has its serial or common name.
GetCaCert(cert) == cert.ca /\ cert.local

(***************************************************************************)
(* process_conn_certs.  The root loop walks certs.iter().rev() and skips   *)
(* ("continue") every certificate get_ca_cert rejects, so it stops at the  *)
(* last matching position, root, having consumed positions root..n.  The   *)
(* intermediate loop then takes times = n - 2 further certificates from    *)
(* the same iterator (positions root-1 down to root-times, each            *)
(* push_front'ed onto cert_keys), end_cert is the next one, the root is    *)
(* pop_back'ed and the leaf is signed by cert_keys.front().  Every `?` on  *)
(* an exhausted iterator or an empty list returns None.                    *)
(***************************************************************************)
ProcessConnCerts(certs) ==
    LET n     == Len(certs)
        times == n - 2
        root  == SelectLastInSeq(certs, GetCaCert)
        end   == root - 1 - times
    IN  IF \/ n < 2          \* certs.len() < 2
           \/ root = 0       \* root loop: iter.next()? exhausted
           \/ end < 1        \* intermediate loop or end_cert: iter.next()?
           \/ times = 0      \* cert_keys.front()? after pop_back of the root
        THEN NoChain
        ELSE Forged(root, <<end>> \o [i \in 1..times |-> end + i])

(***************************************************************************)
(* The algorithm as spec.md section 4.4 states it (steps 3-6): with at     *)
(* least two certificates, the first certificate from the root end that    *)
(* matches a local root anchors the chain, every probed intermediate below *)
(* it is mirrored, and the leaf is signed by the bottom intermediate or,   *)
(* if there is none, by the matched root.                                  *)
(***************************************************************************)
\* "a matching local root CA": loaded roots are CA certificates, so a
\* probed certificate matches one only if it is a CA certificate itself.
MatchesLocalRoot(cert) == cert.local /\ cert.ca

SpecForge(certs) ==
    LET n      == Len(certs)
        anchor == SelectLastInSubSeq(certs, 2, n, MatchesLocalRoot)
    IN  IF n < 2 \/ anchor = 0
        THEN NoChain
        ELSE Forged(anchor, [i \in 1..anchor - 1 |-> i])
=============================================================================
