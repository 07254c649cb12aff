----------------------------- MODULE ForgeCache -----------------------------
(***************************************************************************)
(* What process_conn_certs (src/src/proxy/tls/resolv.rs) serves, with the  *)
(* certificates themselves rather than ChainForge's two flags: the        *)
(* intermediate loop looks every probed intermediate up in the resolver's  *)
(* intermediate store (get_intermediate_cert) and, on a miss, clones it    *)
(* signed by cert_keys.front() (clone_real_cert); the leaf is cloned       *)
(* signed by the front as well (clone_end_cert); the forged intermediates  *)
(* are then inserted into the store, which lives as long as the resolver.  *)
(*                                                                          *)
(* A probed certificate is [ca, serial, dn, ski].  A store entry is         *)
(* TlsDb's [cert, key, cn, kid] with cert = [dn, ski, signer]: a forged     *)
(* copy keeps the subject and key identifier (from_ca_cert_der) and is     *)
(* signed by its issuer's key.  A generated key is named by the tag of the *)
(* forging and the probed position it was generated for.                   *)
(***************************************************************************)
EXTENDS Integers, Sequences, SequencesExt, TLC, TlsDb

CF == INSTANCE ChainForge

\* get_ca_cert, as the flags ChainForge branches on.
AsChainCert(ca, p) == [ca |-> p.ca, local |-> GetCaRoot(ca, p) # Absent]

\* get_intermediate_cert: the serial in the key-identifier index, then the
\* derived name, under the store's lock.
GetIntermediateCert(inter, p) == GetCaRoot(inter, p)

\* clone_real_cert / clone_end_cert: p's parameters with a new key, signed
\* by the issuer entry's key.
CloneSigned(p, issuer, key) ==
    [cert |-> [dn |-> p.dn, ski |-> p.ski, signer |-> issuer.key],
     key  |-> key, cn |-> CommonNameOfParams(p.dn), kid |-> p.ski]

\* Mutation variant of IntermediateOf: a missing intermediate is signed by
\* cert_keys.back(), the root, instead of the front.
IntermediateOfBack(inter, p, keys, key) ==
    IF GetIntermediateCert(inter, p) # Absent THEN GetIntermediateCert(inter, p)
    ELSE CloneSigned(p, keys[Len(keys)], key)

\* One pass of the intermediate loop: the stored entry, or a clone signed
\* by cert_keys.front().
IntermediateOf(inter, p, keys, key) ==
    IF GetIntermediateCert(inter, p) # Absent THEN GetIntermediateCert(inter, p)
    ELSE CloneSigned(p, Head(keys), key)

\* The loop over positions k down to stop + 1, push_front'ing each entry.
RECURSIVE Mirror(_, _, _, _, _, _)
Mirror(certs, inter, k, stop, keys, tag) ==
    IF k <= stop THEN keys
    ELSE Mirror(certs, inter, k - 1, stop,
                <<IntermediateOf(inter, certs[k], keys, tag \o ToString(k))>> \o keys, tag)

(***************************************************************************)
(* process_conn_certs with the root store ca and the intermediate store    *)
(* inter: None exactly when ChainForge's walk gives None; otherwise the    *)
(* chain served to the client (leaf, then cert_keys after pop_back of the  *)
(* root, front first) and the intermediate store after the inserts.       *)
(***************************************************************************)
ForgeCached(certs, ca, inter, tag) ==
    LET walk == CF!ProcessConnCerts([k \in DOMAIN certs |-> AsChainCert(ca, certs[k])])
    IN  IF ~walk.ok THEN [ok |-> FALSE, served |-> <<>>, inter |-> inter]
        ELSE LET root == walk.anchor
                 end  == walk.presented[1]
                 keys == Mirror(certs, inter, root - 1, end,
                                <<GetCaRoot(ca, certs[root])>>, tag)
                 ints == SubSeq(keys, 1, Len(keys) - 1)
                 leaf == CloneSigned(certs[end], Head(ints), tag \o "leaf")
             IN  [ok     |-> TRUE,
                  served |-> <<leaf>> \o ints,
                  inter  |-> FoldLeft(CaDbInsert, inter, ints)]

\* A client accepts a served chain when each certificate is signed by the
\* key of the next one and the last is signed by a loaded root's key (the
\* root certificates a user installs are self-signed with those keys).
Verifies(served, ca) ==
    /\ \A k \in 1..Len(served) - 1 : served[k].cert.signer = served[k + 1].key
    /\ served[Len(served)].cert.signer \in {e.key : e \in CaDbEntries(ca)}
=============================================================================
