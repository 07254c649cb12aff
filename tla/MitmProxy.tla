------------------------------ MODULE MitmProxy ------------------------------
(***************************************************************************)
(* The TLS interception engine: worker threads running                     *)
(* ProxyConnectionManager::handle_client and ::mitm                        *)
(* (src/src/proxy/conn/common.rs) on accepted connections, the SNI         *)
(* certificate resolver they drive from inside the server-role handshake   *)
(* (src/src/proxy/tls/resolv.rs), its end-certificate cache (CertDb), and  *)
(* the pinned-host set shared by TlsCertStore and CertResolver             *)
(* (src/src/proxy/tls/store.rs).                                           *)
(*                                                                          *)
(* Each worker handles one connection at a time, step by step; steps of    *)
(* different workers interleave, and every lock section of the code        *)
(* (the pinned-set mutex, the CertDb mutex) is one step.  The relay loop   *)
(* itself is one step here and is modelled in Relay.                       *)
(***************************************************************************)
EXTENDS Integers, Sequences, FiniteSets, TLC

CONSTANTS
    Workers,         \* threads of the ProxyThreadPool
    Hosts,           \* origin DNS names a client may send as SNI
    Ips,             \* origin IP addresses connections are redirected from
    IpOf,            \* [Hosts -> Ips]: where a client resolved the name
    ChainOf,         \* [Hosts -> Seq(Cert)]: chain an origin shows a probe
    OperatorPinned,  \* the -d/--pinned-domain list, already lowercased
    Ports,           \* original destination ports of redirected connections
    MaxConns,        \* bound on accepted connections
    NoSni            \* a ClientHello without server_name ("" in the code)

CF == INSTANCE ChainForge

\* The CertDb operations of tls/db.rs; a key of 0 stands for None.
DB == INSTANCE TlsDb WITH Absent <- 0

ASSUME /\ IpOf \in [Hosts -> Ips]
       /\ \A h \in Hosts : ChainOf[h] \in Seq(CF!Cert)
       /\ OperatorPinned \subseteq Hosts \cup Ips
       /\ MaxConns \in Nat \ {0}
       /\ NoSni \notin Hosts \cup Ips

VARIABLES
    pinned,   \* TlsCertStore.pinned = CertResolver.pinned: Mutex<BTreeSet<String>>
    store,    \* CertResolver.store (CertDb idx_name): SNI -> forged key, 0 = none
    nextKey,  \* identity of the next KeyPair::generate() of a forged leaf
    pc,       \* where each worker is in handle_client / mitm / resolve
    cur,      \* index in conns of the connection a worker handles, 0 = none
    err,      \* the handshake error a worker is handling
    conns     \* every accepted connection, in accept order (history)

vars == <<pinned, store, nextKey, pc, cur, err, conns>>

\* Each forging generates one key; at most one forging per connection.
MaxKeys == MaxConns

(***************************************************************************)
(* Strings the code puts into and looks up in the pinned set.  An IP's     *)
(* to_string() is the IP itself here; a SocketAddr's to_string() is        *)
(* "ip:port", a different string, modelled as the pair.                    *)
(***************************************************************************)
SocketAddrString(ip, port) == <<ip, port>>
PinKey == Hosts \cup Ips \cup (Ips \X {443}) \cup {NoSni}

\* Mutation variant of IpKey: dst.to_string() used where dst.ip() is meant.
IpKeyWithPort(c) == SocketAddrString(c.ip, 443)

\* dst.ip().to_string() (common.rs:101 and :187).
IpKey(c) == c.ip

\* TlsCertStore::is_disabled / disable_addr (store.rs:39-63).  The poison
\* branches are not modelled: nothing panics while holding the lock.
IsDisabled(k) == k \in pinned
DisableAddr(S) == pinned' = pinned \cup S

(***************************************************************************)
(* original_dst (stream.rs:121-146) reads the pre-redirect port and then   *)
(* builds SocketAddr::new(ip, 443): every connection is seen as port 443.  *)
(***************************************************************************)
OriginalDstPort(port) == 443

\* SNIs a client connecting to ip may send.
SniFor(ip) == {h \in Hosts : IpOf[h] = ip} \cup {NoSni}

Modes  == {"open", "failed", "opaque", "mitm"}
Causes == {"none", "Dial", "NoSni", "ProbeFail", "ForgeFail", "UnknownCA",
           "ClientAbort", "UpstreamUnknownCA", "UpstreamFail"}
Tags   == {"None", "Http", "Tls", "Tcp"}
Conn == [ip : Ips, sni : Hosts \cup {NoSni}, port : Ports,
         ipPinned : BOOLEAN, sniPinned : BOOLEAN,   \* in pinned at accept
         tag : Tags,              \* ScapProtocol given to scap.sender()
         session : BOOLEAN,       \* a server-role TLS session was started
         mode : Modes, cause : Causes,
         key : 0..MaxKeys,        \* forged leaf presented to the client
         closedAt : 0..MaxConns]  \* connections accepted when it ended
PCs == {"idle", "dial", "dispatch", "mitm", "resolve", "probe", "reget",
        "verdict", "hsfail", "upstream", "relay"}

TypeOK ==
    /\ pinned \subseteq PinKey
    /\ store \in [Hosts -> 0..MaxKeys]
    /\ nextKey \in 1..MaxKeys + 1
    /\ pc \in [Workers -> PCs]
    /\ cur \in [Workers -> 0..MaxConns]
    /\ err \in [Workers -> {"none", "UnknownCA", "Other"}]
    /\ conns \in Seq(Conn) /\ Len(conns) <= MaxConns

Init ==
    /\ pinned = OperatorPinned          \* pinned_domains (mod.rs:79-85)
    /\ store = [h \in Hosts |-> 0]      \* CertDb::new
    /\ nextKey = 1
    /\ pc = [w \in Workers |-> "idle"]
    /\ cur = [w \in Workers |-> 0]
    /\ err = [w \in Workers |-> "none"]
    /\ conns = <<>>

----------------------------------------------------------------------------
\* Helpers over the worker's current connection.
C(w) == conns[cur[w]]
Update(w, f) == conns' = [conns EXCEPT ![cur[w]] = f]
Goto(w, l) == pc' = [pc EXCEPT ![w] = l]

\* handle_client returns (Ok, or Err logged by ProxyWorker::run); the
\* ScapSender, if any, is dropped; the worker takes the next socket.
Close(w, mode, cause) ==
    /\ Update(w, [C(w) EXCEPT !.mode = mode, !.cause = cause,
                              !.closedAt = Len(conns)])
    /\ pc' = [pc EXCEPT ![w] = "idle"]
    /\ cur' = [cur EXCEPT ![w] = 0]
    /\ err' = [err EXCEPT ![w] = "none"]

\* The listener accepts a redirected connection and a free worker receives
\* it from the work channel (mod.rs:28-32, pool.rs:41-46).
Accept(w) ==
    /\ pc[w] = "idle"
    /\ Len(conns) < MaxConns
    /\ \E ip \in Ips, port \in Ports : \E sni \in SniFor(ip) :
          conns' = Append(conns,
                     [ip |-> ip, sni |-> sni, port |-> port,
                      ipPinned |-> ip \in pinned, sniPinned |-> sni \in pinned,
                      tag |-> "None", session |-> FALSE, mode |-> "open",
                      cause |-> "none", key |-> 0, closedAt |-> 0])
    /\ cur' = [cur EXCEPT ![w] = Len(conns) + 1]
    /\ Goto(w, "dial")
    /\ UNCHANGED <<pinned, store, nextKey, err>>

\* original_dst, Socks5Client::connect, greet, tcp_proxy or peer_addr fails
\* (common.rs:94-99): the `?` returns before any ScapSender exists.
DialFail(w) ==
    /\ pc[w] = "dial"
    /\ Close(w, "failed", "Dial")
    /\ UNCHANGED <<pinned, store, nextKey>>

DialOk(w) ==
    /\ pc[w] = "dial"
    /\ Goto(w, "dispatch")
    /\ UNCHANGED <<pinned, store, nextKey, cur, err, conns>>

(***************************************************************************)
(* Dispatch by destination port (common.rs:101-133): the ScapSender is    *)
(* created with a protocol tag; port 443 goes to mitm(), which is entered  *)
(* with tag Tls if the IP is pinned now and Http otherwise.                *)
(***************************************************************************)
Dispatch(w) ==
    LET port == OriginalDstPort(C(w).port)
        tag  == CASE port = 443 /\ IsDisabled(IpKey(C(w))) -> "Tls"
                  [] port = 443 \/ port = 80              -> "Http"
                  [] OTHER                                -> "Tcp"
    IN  /\ pc[w] = "dispatch"
        /\ Update(w, [C(w) EXCEPT !.tag = tag,
                                  !.mode = IF port = 443 THEN "open" ELSE "opaque"])
        /\ Goto(w, IF port = 443 THEN "mitm" ELSE "relay")
        /\ UNCHANGED <<pinned, store, nextKey, cur, err>>

\* mitm() re-checks the pinned set and falls back to proxy() (common.rs:187-190).
MitmBypass(w) ==
    /\ pc[w] = "mitm"
    /\ IsDisabled(IpKey(C(w)))
    /\ Update(w, [C(w) EXCEPT !.mode = "opaque"])
    /\ Goto(w, "relay")
    /\ UNCHANGED <<pinned, store, nextKey, cur, err>>

\* ServerConnection::new and complete_io start the server-role handshake
\* (common.rs:191-195); its ClientHello reaches CertResolver::resolve.
\* ServerConnection::new's Err arm (fall back to proxy) is left out: it
\* depends only on the sconfig built once at start-up, which it accepts.
MitmServerStart(w) ==
    /\ pc[w] = "mitm"
    /\ ~IsDisabled(IpKey(C(w)))
    /\ Update(w, [C(w) EXCEPT !.session = TRUE])
    /\ Goto(w, "resolve")
    /\ UNCHANGED <<pinned, store, nextKey, cur, err>>

----------------------------------------------------------------------------
(***************************************************************************)
(* CertResolver::resolve (resolv.rs:39-60).                                *)
(***************************************************************************)
\* No server_name in the ClientHello: `?` returns None, the handshake fails.
ResolveNoSni(w) ==
    /\ pc[w] = "resolve"
    /\ C(w).sni = NoSni
    /\ Update(w, [C(w) EXCEPT !.cause = "NoSni"])
    /\ err' = [err EXCEPT ![w] = "Other"]
    /\ Goto(w, "hsfail")
    /\ UNCHANGED <<pinned, store, nextKey, cur>>

\* store.lock(); contains_name(name) holds: get_by_name under the same lock.
ResolveHit(w) ==
    /\ pc[w] = "resolve"
    /\ C(w).sni # NoSni
    /\ DB!CertDbContainsName(store, C(w).sni)
    /\ Update(w, [C(w) EXCEPT !.key = DB!CertDbGetByName(store, C(w).sni)])
    /\ Goto(w, "verdict")
    /\ UNCHANGED <<pinned, store, nextKey, cur, err>>

\* contains_name(name) fails: drop(store) and go probe the origin.
ResolveMiss(w) ==
    /\ pc[w] = "resolve"
    /\ C(w).sni # NoSni
    /\ ~DB!CertDbContainsName(store, C(w).sni)
    /\ Goto(w, "probe")
    /\ UNCHANGED <<pinned, store, nextKey, cur, err, conns>>

\* connect_to_real_server returns None (resolv.rs:71-82: name, TCP connect
\* or probe handshake fails): resolve returns None without pinning.
ProbeFail(w) ==
    /\ pc[w] = "probe"
    /\ Update(w, [C(w) EXCEPT !.cause = "ProbeFail"])
    /\ err' = [err EXCEPT ![w] = "Other"]
    /\ Goto(w, "hsfail")
    /\ UNCHANGED <<pinned, store, nextKey, cur>>

\* process_conn_certs returns None: set_server_as_pinned(name)
\* (resolv.rs:49-52, 65-69) and resolve returns None.
ForgeFail(w) ==
    /\ pc[w] = "probe"
    /\ ~CF!ProcessConnCerts(ChainOf[C(w).sni]).ok
    /\ DisableAddr({C(w).sni})
    /\ Update(w, [C(w) EXCEPT !.cause = "ForgeFail"])
    /\ err' = [err EXCEPT ![w] = "Other"]
    /\ Goto(w, "hsfail")
    /\ UNCHANGED <<store, nextKey, cur>>

\* Mutation variant of ForgeInsert: the leaf is indexed under the
\* destination IP string instead of the server name.
ForgeInsertByIp(w) ==
    /\ pc[w] = "probe"
    /\ CF!ProcessConnCerts(ChainOf[C(w).sni]).ok
    /\ nextKey <= MaxKeys
    /\ store' = (IpKey(C(w)) :> nextKey) @@ store
    /\ nextKey' = nextKey + 1
    /\ Goto(w, "reget")
    /\ UNCHANGED <<pinned, cur, err, conns>>

\* process_conn_certs forges a leaf with a fresh key and inserts it under
\* the store lock (resolv.rs:121-131), overwriting any entry another
\* worker inserted since this worker's miss.
ForgeInsert(w) ==
    /\ pc[w] = "probe"
    /\ CF!ProcessConnCerts(ChainOf[C(w).sni]).ok
    /\ nextKey <= MaxKeys
    /\ store' = DB!CertDbInsert(store, C(w).sni, nextKey)
    /\ nextKey' = nextKey + 1
    /\ Goto(w, "reget")
    /\ UNCHANGED <<pinned, cur, err, conns>>

\* self.store.lock() again and get_by_name(name) (resolv.rs:55, 59).
Reget(w) ==
    /\ pc[w] = "reget"
    /\ Update(w, [C(w) EXCEPT !.key = DB!CertDbGetByName(store, C(w).sni)])
    /\ Goto(w, "verdict")
    /\ UNCHANGED <<pinned, store, nextKey, cur, err>>

----------------------------------------------------------------------------
\* The client accepts the forged chain: complete_io returns Ok; the server
\* name is read, parsed as a DnsName and a ClientConnection is built
\* (common.rs:211-228).  The two Err returns are left out: the name is the SNI rustls
\* already parsed as a DnsName from the ClientHello, and
\* ClientConnection::new depends only on the cconfig built at start-up.
\* Neither return pins anything.
ClientAccepts(w) ==
    /\ pc[w] = "verdict"
    /\ Goto(w, "upstream")
    /\ UNCHANGED <<pinned, store, nextKey, cur, err, conns>>

\* The client rejects it: an UnknownCA alert if it does not trust the root,
\* any other error otherwise.
ClientRejects(w) ==
    /\ pc[w] = "verdict"
    /\ \E e \in {"UnknownCA", "Other"} :
          /\ err' = [err EXCEPT ![w] = e]
          /\ Update(w, [C(w) EXCEPT !.cause = IF e = "UnknownCA"
                                              THEN "UnknownCA" ELSE "ClientAbort"])
    /\ Goto(w, "hsfail")
    /\ UNCHANGED <<pinned, store, nextKey, cur>>

(***************************************************************************)
(* The server-role complete_io error branch (common.rs:195-209): if the    *)
(* SNI is pinned by now, pin the destination IP; on UnknownCA pin the SNI  *)
(* ("" without one) and the destination IP; return the error.              *)
(***************************************************************************)
\* Mutation variant of ServerHsError: lines 198-202 dropped.
ServerHsErrorNoIpPin(w) ==
    /\ pc[w] = "hsfail"
    /\ DisableAddr(IF err[w] = "UnknownCA" THEN {C(w).sni, IpKey(C(w))} ELSE {})
    /\ Close(w, "failed", C(w).cause)
    /\ UNCHANGED <<store, nextKey>>

ServerHsError(w) ==
    LET sn == C(w).sni
        byName  == IF sn # NoSni /\ IsDisabled(sn) THEN {IpKey(C(w))} ELSE {}
        unknown == IF err[w] = "UnknownCA" THEN {sn, IpKey(C(w))} ELSE {}
    IN  /\ pc[w] = "hsfail"
        /\ DisableAddr(byName \cup unknown)
        /\ Close(w, "failed", C(w).cause)
        /\ UNCHANGED <<store, nextKey>>

\* The client-role handshake to the origin through SOCKS5 completes
\* (common.rs:229, 238-241): the intercepted relay starts.
UpstreamOk(w) ==
    /\ pc[w] = "upstream"
    /\ Update(w, [C(w) EXCEPT !.mode = "mitm"])
    /\ Goto(w, "relay")
    /\ UNCHANGED <<pinned, store, nextKey, cur, err>>

\* It fails (common.rs:229-237); on UnknownCA the SocketAddr string
\* dst.to_string() and the SNI are pinned.
UpstreamFail(w) ==
    /\ pc[w] = "upstream"
    /\ \E e \in {"UnknownCA", "Other"} :
          /\ DisableAddr(IF e = "UnknownCA"
                         THEN {SocketAddrString(C(w).ip, OriginalDstPort(C(w).port)),
                               C(w).sni}
                         ELSE {})
          /\ Close(w, "failed", IF e = "UnknownCA" THEN "UpstreamUnknownCA"
                                ELSE "UpstreamFail")
    /\ UNCHANGED <<store, nextKey>>

\* MitmStreamer::intercept runs to its end (see Relay); handle_client returns.
RelayDone(w) ==
    /\ pc[w] = "relay"
    /\ Close(w, C(w).mode, "none")
    /\ UNCHANGED <<pinned, store, nextKey>>

\* The model's bound on accepted connections is reached and every worker is
\* back in recv(): the run ends here (a stuttering step, not a deadlock).
Exhausted ==
    /\ Len(conns) = MaxConns
    /\ \A w \in Workers : pc[w] = "idle"
    /\ UNCHANGED vars

----------------------------------------------------------------------------
Next ==
    \/ Exhausted
    \/ \E w \in Workers :
          \/ Accept(w) \/ DialFail(w) \/ DialOk(w) \/ Dispatch(w)
          \/ MitmBypass(w) \/ MitmServerStart(w)
          \/ ResolveNoSni(w) \/ ResolveHit(w) \/ ResolveMiss(w)
          \/ ProbeFail(w) \/ ForgeFail(w) \/ ForgeInsert(w) \/ Reget(w)
          \/ ClientAccepts(w) \/ ClientRejects(w) \/ ServerHsError(w)
          \/ UpstreamOk(w) \/ UpstreamFail(w) \/ RelayDone(w)

Spec == Init /\ [][Next]_vars

----------------------------------------------------------------------------
Idx == 1..Len(conns)

(***************************************************************************)
(* spec.md 8.1, destination-IP part: a connection whose destination IP is  *)
(* pinned when it is accepted never gets a server-role TLS session and is  *)
(* captured with tag Tls.  Involves the two separate pinned-set lookups of *)
(* handle_client (dispatch) and mitm() and the keys they look up.          *)
(***************************************************************************)
PinnedIpNeverIntercepted ==
    \A i \in Idx : conns[i].ipPinned =>
        /\ ~conns[i].session
        /\ conns[i].tag \in {"None", "Tls"}

(***************************************************************************)
(* The pinning feedback loop (spec.md 4.6, 7, scenario S5): once a         *)
(* connection has failed because the client rejected the forged chain     *)
(* with UnknownCA, or because no chain could be forged for its SNI, every  *)
(* connection accepted afterwards to the same destination IP is relayed    *)
(* opaquely.  This needs the resolver's set_server_as_pinned, the          *)
(* is_disabled(server_name) re-check in mitm's error branch and the next   *)
(* connection's lookup to fit together.                                    *)
(***************************************************************************)
DegradeAfterRejection ==
    \A i, j \in Idx :
        /\ conns[i].mode = "failed"
        /\ conns[i].cause \in {"UnknownCA", "ForgeFail"}
        /\ conns[i].closedAt < j
        /\ conns[j].ip = conns[i].ip
        => ~conns[j].session

----------------------------------------------------------------------------
(* Statements of spec.md that the code does not meet; each is checked by   *)
(* a run expected to find it violated.                                     *)

(***************************************************************************)
(* spec.md 8.1, SNI part: a connection whose SNI is pinned when it is      *)
(* accepted (e.g. listed with --pinned-domain) never gets a server-role    *)
(* TLS session.  The code only looks the destination IP up before the     *)
(* handshake, and CertResolver::resolve forges for any name.               *)
(***************************************************************************)
PinnedSniNeverIntercepted ==
    \A i \in Idx : conns[i].sniPinned => ~conns[i].session

(***************************************************************************)
(* spec.md 4.4 step 3: if the probe fails, the SNI is marked pinned.       *)
(* connect_to_real_server's None is returned by `?` before                 *)
(* set_server_as_pinned is reached.                                        *)
(***************************************************************************)
ProbeFailurePins ==
    \A i \in Idx : conns[i].mode = "failed" /\ conns[i].cause = "ProbeFail"
                     => conns[i].sni \in pinned

(***************************************************************************)
(* spec.md 7: an UnknownCA handshake error pins the host so that later     *)
(* connections bypass MITM; here for the client-role handshake to the      *)
(* origin (common.rs:232-235), which pins dst.to_string() = "ip:443".      *)
(***************************************************************************)
UpstreamRejectDegrades ==
    \A i, j \in Idx :
        /\ conns[i].mode = "failed"
        /\ conns[i].cause = "UpstreamUnknownCA"
        /\ conns[i].closedAt < j
        /\ conns[j].ip = conns[i].ip
        => ~conns[j].session

(***************************************************************************)
(* spec.md 4.6: only port 443 takes the MITM path; port 80 and other ports *)
(* are relayed opaquely.  original_dst replaces the port with 443.         *)
(***************************************************************************)
PortDispatch ==
    \A i \in Idx : conns[i].port # 443 => ~conns[i].session

(***************************************************************************)
(* spec.md 4.6: a port-443 connection that is relayed opaquely is captured *)
(* with protocol tag Tls.  The tag is chosen at dispatch and the path by a *)
(* second lookup in mitm(); another worker may pin the IP in between.      *)
(***************************************************************************)
OpaqueTlsTagged ==
    \A i \in Idx : conns[i].mode = "opaque" /\ OriginalDstPort(conns[i].port) = 443
                     => conns[i].tag = "Tls"

(***************************************************************************)
(* spec.md 8.2: for an SNI, all lookups after the first successful insert  *)
(* return a leaf with the same private key, across concurrent workers:     *)
(* every client offered a forged leaf for a name gets the same key.        *)
(* resolve drops the CertDb lock between its miss and the insert, so two   *)
(* misses both forge and the later insert replaces the earlier key.        *)
(***************************************************************************)
CachedLeafStable ==
    \A i, j \in Idx :
        /\ conns[i].sni = conns[j].sni
        /\ conns[i].key # 0 /\ conns[j].key # 0
        => conns[i].key = conns[j].key
=============================================================================
