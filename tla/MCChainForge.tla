--------------------------- MODULE MCChainForge ---------------------------
(***************************************************************************)
(* Checks ChainForge against the root CA store it consults, and the store *)
(* against the directory it is loaded from.  The root-CA directory either *)
(* is any subset of MCFiles (clone = "none"), or is written by the         *)
(* clone-ca subcommand from any subset of MCInputs in any read_dir order   *)
(* (CloneCa, instantiated on the same directory).  The proxy then loads   *)
(* it (CaLoad); once the load succeeded, each step is one probe of an      *)
(* origin that may present any chain of at most MaxChain of ProbedCerts:   *)
(* the server, not the proxy, chooses what it sends.  Whether a probed     *)
(* certificate is `local` is decided by get_ca_cert's lookups in the       *)
(* loaded CaDb.                                                            *)
(***************************************************************************)
EXTENDS ChainForge, CaLoad, ForgeCache

CONSTANTS
    MaxChain,     \* longest chain a probe observes
    ProbedCerts,  \* certificates an origin may present: [ca, serial, dn, ski]
    MaxForge,     \* longest chain the forging checks enumerate
    Files,        \* files a root-CA directory prepared by hand may hold
    Inputs        \* files a clone-ca input directory may hold

ASSUME MaxChain \in Nat /\ MaxForge \in Nat

VARIABLES
    chain,                              \* the chain the last probe observed
    inListing, ci, cbuffer, clone       \* clone-ca's loop

CC == INSTANCE CloneCa WITH outDir <- dir

vars == <<dir, loadVars, inListing, ci, cbuffer, clone, chain>>

Dn(cn, ou, o) == [cn |-> cn, ou |-> ou, o |-> o]
Pem(c) == [kind |-> "cert", id |-> c]
KeyPem(k) == [kind |-> "key", id |-> k]
File(stem, ext, body) == [stem |-> stem, ext |-> ext, isFile |-> TRUE, body |-> body]

\* Two root CAs: A is named by its CN, B only by its O, with the same
\* value, so the two collide in the name index.
CertA == [dn |-> Dn("R", Absent, Absent), ski |-> "ka", signer |-> "keyA"]
CertB == [dn |-> Dn(Absent, Absent, "R"), ski |-> "kb", signer |-> "keyB"]

\* A directory prepared by hand: both pairs, and a directory named d.pem.
MCFiles ==
    { File("a", "pem", Pem(CertA)), File("a", "key", KeyPem("keyA")),
      File("b", "pem", Pem(CertB)), File("b", "key", KeyPem("keyB")),
      [stem |-> "d", ext |-> "pem", isFile |-> FALSE, body |-> Pem(CertA)] }

\* clone-ca inputs: A as PEM, B as DER, a .pem whose certificate does not
\* decode, a private key, and an empty file.
MCInputs ==
    { File("a", "pem", Pem(CertA)), File("b", "crt", [kind |-> "der", id |-> CertB]),
      File("c", "pem", [kind |-> "bad"]), File("x", "key", KeyPem("keyX")),
      File("e", "pem", [kind |-> "short"]) }

\* A leaf; a leaf without CN whose organisation is a root's name; an
\* intermediate; a root named R; a CA whose serial is root A's key
\* identifier (the key-identifier surrogate of get_ca_cert).
MCProbedCerts ==
    { [ca |-> FALSE, serial |-> "s1", dn |-> Dn("leaf", Absent, Absent), ski |-> "k1"],
      [ca |-> FALSE, serial |-> "s4", dn |-> Dn(Absent, Absent, "R"), ski |-> "k4"],
      [ca |-> TRUE,  serial |-> "s2", dn |-> Dn("I", Absent, Absent), ski |-> "ki"],
      [ca |-> TRUE,  serial |-> "s3", dn |-> Dn("R", Absent, Absent), ski |-> "kr"],
      [ca |-> TRUE,  serial |-> "ka", dn |-> Dn("Z", Absent, Absent), ski |-> "kz"] }

\* What get_ca_cert's lookups make of a probed certificate.
AsCert(p) == [ca |-> p.ca, local |-> GetCaRoot(cadb, p) # Absent]
Observed == [k \in DOMAIN chain |-> AsCert(chain[k])]

Init ==
    /\ LoadInit
    /\ chain = <<>>
    /\ \/ /\ clone = "none" /\ dir \in SUBSET Files
          /\ inListing = <<>> /\ ci = 1 /\ cbuffer = <<>>
       \/ /\ clone = "cloning" /\ dir = {}
          /\ inListing \in SetToAllKPermutations(Inputs) /\ ci = 1 /\ cbuffer = <<>>

\* clone-ca runs to its end (or its panic) before the proxy is started.
Clone == CC!CloneNext /\ UNCHANGED <<loadVars, chain>>

Load ==
    /\ clone # "cloning"
    /\ LoadNext
    /\ UNCHANGED <<dir, inListing, ci, cbuffer, clone, chain>>

\* A probe connection (connect_to_real_server) observes a new chain.
Probe ==
    /\ load = "ok"
    /\ \E c \in BoundedSeq(ProbedCerts, MaxChain) : chain' = c
    /\ UNCHANGED <<dir, loadVars, inListing, ci, cbuffer, clone>>

\* from_dir failed: TlsCertStore::new returns Err and the proxy exits.
Stopped == load = "error" /\ UNCHANGED vars

Next == Clone \/ Load \/ Probe \/ Stopped

Spec == Init /\ [][Next]_vars

----------------------------------------------------------------------------
(***************************************************************************)
(* Whenever process_conn_certs forges a chain, it is the chain spec.md     *)
(* 4.4 describes for that probe: anchored at a probed certificate that is  *)
(* a loaded root CA, and reproducing the real chain's shape (leaf, then    *)
(* every probed intermediate below the anchor, in presentation order).     *)
(* This is about the iterator and linked-list bookkeeping of               *)
(* process_conn_certs (push_front, pop_back, the times count).             *)
(***************************************************************************)
ForgeSound ==
    ProcessConnCerts(Observed).ok => ProcessConnCerts(Observed) = SpecForge(Observed)

(***************************************************************************)
(* Whenever spec.md 4.4 says a chain can be forged, process_conn_certs     *)
(* forges one (so the host is not pinned).  Scenario S4 of spec.md: an     *)
(* origin presenting leaf L signed by a loaded root R, chain <<L, R>>, is  *)
(* intercepted.                                                            *)
(***************************************************************************)
ForgeComplete ==
    SpecForge(Observed).ok => ProcessConnCerts(Observed).ok

(***************************************************************************)
(* The chain process_conn_certs serves verifies: every certificate is     *)
(* signed by the key of the next, and the last by a loaded root's key     *)
(* (spec.md 4.4 steps 5-6: each synthesized intermediate is signed by the *)
(* previously forged entry, the leaf by the bottom intermediate).  Checked *)
(* for every chain of up to MaxForge probed certificates against the root *)
(* store just loaded from a hand-made directory, with the empty           *)
(* intermediate store of a new resolver.  About the front/back handling  *)
(* of the cert_keys list and the issuer handed to each clone.             *)
(***************************************************************************)
FreshStoreForged ==
    clone = "none" /\ load = "ok" /\ chain = <<>>

ForgedChainVerifies ==
    FreshStoreForged =>
        \A c \in BoundedSeq(ProbedCerts, MaxForge) :
            LET r == ForgeCached(c, cadb, CaDbNew, "p1:")
            IN  r.ok => Verifies(r.served, cadb)

(***************************************************************************)
(* spec.md 4.4 step 5: an intermediate already in the intermediate store  *)
(* is reused.  The served chain still verifies when a second origin is    *)
(* forged after a first one filled the store.  About the store entry,     *)
(* which keeps the issuer it was signed with for the first origin.        *)
(***************************************************************************)
CachedChainVerifies ==
    FreshStoreForged =>
        \A c1, c2 \in BoundedSeq(ProbedCerts, MaxForge) :
            LET r1 == ForgeCached(c1, cadb, CaDbNew, "p1:")
                r2 == ForgeCached(c2, cadb, r1.inter, "p2:")
            IN  r2.ok => Verifies(r2.served, cadb)

(***************************************************************************)
(* Every root CA from_dir indexes pairs a certificate with the key of its  *)
(* own stem (spec.md 3, "a (certificate, private key) pair"; 6, "<stem>.pem *)
(* and <stem>.key").  About the two read buffers that from_dir reuses      *)
(* across iterations and clears only after a successful insert.            *)
(***************************************************************************)
RootPairsMatch == \A e \in CaDbEntries(cadb) : e.cert.signer = e.key

(***************************************************************************)
(* After a successful load, a name resolves to the root of the last .pem  *)
(* in read_dir order whose derived name (CN, else OU, else O) it is        *)
(* (spec.md 4.3: "a duplicate common name logs a warning and               *)
(* overwrites").  Which root anchors a forged chain therefore depends on  *)
(* the directory order, and nothing else.                                 *)
(***************************************************************************)
PemFileAt(j) == listing[j].isFile /\ listing[j].ext = "pem" /\ listing[j].body.kind = "cert"

NamedAt(n) ==
    {j \in DOMAIN listing : PemFileAt(j) /\ CommonNameOfParams(listing[j].body.id.dn) = n}

LastLoaded(n) ==
    IF NamedAt(n) = {} THEN Absent
    ELSE LET f   == listing[Max(NamedAt(n))]
             key == CHOOSE g \in dir : g.stem = f.stem /\ g.ext = "key"
         IN  [cert |-> f.body.id, key |-> key.body.id, cn |-> n, kid |-> f.body.id.ski]

NameIndexLastWins ==
    load = "ok" =>
        \A j \in DOMAIN listing :
            PemFileAt(j) =>
                LET n == CommonNameOfParams(listing[j].body.id.dn)
                IN  CaDbGetByName(cadb, n) = LastLoaded(n)

(***************************************************************************)
(* spec.md 6: files without a .pem extension or without a sibling key are *)
(* skipped, so a directory of decodable certificates and keys always      *)
(* loads.  About from_dir's `File::open(&key_pth)?`, which returns Err for  *)
(* the whole directory, and TlsCertStore::new, which stops the proxy.     *)
(***************************************************************************)
UnpairedSkipped == load # "error"

(***************************************************************************)
(* Every certificate file clone-ca writes is a re-signed copy of the      *)
(* input file of the same name (same subject and key identifier), and the  *)
(* key file of its stem holds the key it is signed with (spec.md 7.5,     *)
(* round trip).  About the read buffer clone_ca_certs reuses across       *)
(* iterations, which a failed parse leaves uncleared, and about the two   *)
(* File::create calls of one iteration.                                   *)
(***************************************************************************)
InputNamed(g) == {f \in ToSet(inListing) : f.stem = g.stem /\ f.ext = g.ext}

CloneFaithful ==
    clone # "none" =>
        \A g \in {h \in dir : h.ext # "key"} :
            /\ InputNamed(g) # {}
            /\ \A f \in InputNamed(g) :
                   /\ g.body.kind = "cert" /\ f.body.kind \in {"cert", "der"}
                   /\ g.body.id.dn = f.body.id.dn /\ g.body.id.ski = f.body.id.ski
            /\ File(g.stem, "key", KeyPem(g.body.id.signer)) \in dir

(***************************************************************************)
(* spec.md 5: clone-ca takes a directory of CA .pem files and writes each  *)
(* input as <stem>.pem plus <stem>.key.  Once clone-ca has finished, every *)
(* .pem input that holds a certificate has its <stem>.pem in the output,   *)
(* whatever other files the input directory holds.  About the `continue`  *)
(* that skips buffer.clear() after a file that does not parse.            *)
(***************************************************************************)
CloneComplete ==
    clone = "done" =>
        \A f \in ToSet(inListing) :
            f.ext = "pem" /\ f.body.kind = "cert" =>
                \E g \in dir : g.stem = f.stem /\ g.ext = "pem"
=============================================================================
