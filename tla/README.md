# TLA+ models of oxiproxy

These modules model the transparent TLS-intercepting proxy in `src/src/`, and the
TLC configurations check them. Every action and operator is translated from the
Rust source. The `map` of `PROJECT.json` names the lines each definition stands for.

## The system

A redirected TCP connection moves through these parts:

| Part | Source | State | Operations |
|---|---|---|---|
| Listener, work queue | `proxy/mod.rs` | bounded(1024) channel of sockets | `start_proxy` accept loop |
| Worker pool | `pool.rs` | W threads looping `recv` → `run` | `init`, `spawn_worker`, `revive` (never called) |
| Original destination | `proxy/conn/stream.rs` | – | `original_dst` (`SO_ORIGINAL_DST`) |
| SOCKS5 client | `proxy/socks5/` | one TCP stream to the upstream | `connect`, `greet`, `tcp_proxy`, codec `read_from`/`write_to` |
| Connection manager | `proxy/conn/common.rs` | per-connection, on the worker's stack | `handle_client`, `mitm`, `proxy` |
| Pinned set | `proxy/tls/store.rs` | `Mutex<BTreeSet<String>>`, shared by all workers and the resolver | `is_disabled`, `disable_addr`, `set_server_as_pinned` |
| Certificate resolver | `proxy/tls/resolv.rs`, `db.rs` | `CertDb` (SNI → forged leaf), intermediates `CaDb`, loaded roots | `resolve`, `connect_to_real_server`, `process_conn_certs`, `get_ca_cert` |
| Relay | `proxy/conn/mitm.rs`, `stream.rs` | two buffers, `creaded/cpos/sreaded/spos`, `zero_counter` | `intercept`, `read_no_wait`, `write_no_wait` |
| Capture | `proxy/scap/` | bounded(1024) event channel; the consumer thread's map from flow hash to `ScapEntry` | `sender` (Connect), writers (Send/Receive), `Drop` (Close), `spawn_scap_store`, artifact writers `tcp.rs`/`http.rs` |
| Root-CA store | `proxy/tls/db.rs`, `store.rs` | `CaDb`: name index and key-identifier index of (certificate, key) pairs | `from_dir` (once, before the listener), `insert`, `get_by_name`, `get_by_hash` |
| `clone-ca` | `cclone.rs` | one read buffer, the output directory | `clone_ca_certs`: re-self-signs every input CA with a fresh key |
| CLI, logging | `main.rs`, `scap/file.rs` | – | start-up and file layout only |

**How the parts interact.** A worker takes a socket and recovers the original
destination. It then dials the upstream through SOCKS5 and creates a capture
sender, which sends Connect. Port 443 goes to `mitm`. `mitm` re-checks the pinned
set and starts the server-role TLS handshake with the client. During that
handshake rustls calls `CertResolver::resolve` with the SNI. On a cache miss the
resolver probes the real origin, forges a chain from the observed one, and caches
the leaf. If forging fails, it pins the SNI. After the client accepts, `mitm` runs
a client-role handshake with the origin over the SOCKS5 stream. Both handshake
error branches add names and IPs to the pinned set, so later connections to those
destinations are relayed opaquely. Either way the connection ends in the
non-blocking relay, which copies every byte it reads into the capture channel.

**The hard behaviours:**
- Workers interleave on the shared pinned set and the certificate cache. Locks are
  released between a check and the use of its result.
- The degrade-to-passthrough feedback loop spans three code paths and two
  connections.
- The chain-forging walk is pure but intricate iterator and linked-list
  arithmetic.
- The relay deals with partial non-blocking reads and writes, peer closes, errors,
  and an idle ceiling.
- The capture direction labels are swapped twice.
- SOCKS5 reply framing depends on the bound-address type.

## Modules

- **`ChainForge`** (pure): `process_conn_certs` and `get_ca_cert` as operators over
  an abstract chain. Each certificate is reduced to two flags, `ca` and `local`
  (its serial or CN names a loaded root). It also holds `SpecForge`, the algorithm
  as spec.md §4.4 states it.
  - Key generation and signing cannot fail for the parameters that reach them, so
    they are left out.
- **`TlsDb`** (pure): the stores of `tls/db.rs` as operators. An index is a
  function whose domain is the keys inserted so far. It holds `CaDb`'s
  `insert` (name index, last insert wins; then key-identifier index),
  `get_by_name`, `get_by_hash`, `get_ca_cert`'s lookup (`GetCaRoot`),
  `common_name_of_params` (CN, else OU, else O), `CertDb`'s three operations
  used by `MitmProxy`, and the two PEM readers. A file body is a PEM certificate,
  a PEM key, a PEM section that does not decode, DER bytes or a short file; a
  read buffer is the sequence of the bodies appended to it.
- **`ForgeCache`** (pure): `process_conn_certs` with the certificates themselves
  rather than two flags. A probed certificate is `[ca, serial, dn, ski]`; a forged
  one is `[dn, ski, signer]` with a generated key named by the forging and the
  position. The intermediate loop (`Mirror`, one `IntermediateOf` per position)
  takes a hit of `get_intermediate_cert` in the intermediate store, or clones the
  certificate signed by `cert_keys.front()`. Then the root is popped, the leaf is
  cloned signed by the front, and the intermediates are inserted into the
  intermediate store. The walk itself (anchor, count) comes from `ChainForge` by
  INSTANCE. `Verifies` is what a client checks: each certificate signed by the
  next one's key, the last by a loaded root's key.
- **`CaLoad`**: `CaDb::from_dir`, one directory entry per step (LoadEntry) in the
  order read_dir chose at LoadStart. It keeps the skip rules, the processed-stem
  set, both read buffers (cleared only after an insert), and every `?` that
  returns Err.
- **`CloneCa`**: `clone_ca_certs`, one input file per step. It keeps the shared
  buffer, the five-dash PEM/DER test, the panic on a short buffer, the `continue`
  on a parse error (which skips `buffer.clear()`), `clone_ca_cert`, and the two
  `File::create` calls, which replace a file of the same name.
- **`MCChainForge`** composes these: the root-CA directory is either any subset
  of a hand-made directory (`MCFiles`) or what `CloneCa` writes from any subset of
  `MCInputs` in any order (CloneCa is INSTANCEd with its `outDir` as CaLoad's
  `dir`). `from_dir` loads it. A failed load is `Stopped` (`TlsCertStore::new`
  returns Err, so the proxy never listens). After a successful load, each
  `Probe` observes any chain of up to 3 of `MCProbedCerts`. A certificate is
  `local` when `GetCaRoot` finds it in the loaded `CaDb`. Right after a load
  from the hand-made directory, the forging properties apply `ForgeCache` to every
  chain of up to `MaxForge` = 4 probed certificates.
- **`MitmProxy`** (core): workers run `handle_client` / `mitm` step by step over a
  shared `pinned` set and `store` (CertDb, through `TlsDb`'s CertDb operators).
  - Each lock section is one step. `resolve` is split into ResolveHit, ResolveMiss,
    ForgeInsert and Reget so that concurrent misses interleave. The forge outcome
    comes from `ChainForge`, by INSTANCE.
  - `conns` is the history of accepted connections. It records, for the
    properties, whether a connection was pinned at accept, its tag, whether a
    server-role session started, how it ended, and the forged key it got.
  - The relay is one step here (RelayDone).
  - SOCKS5 dialing is DialOk/DialFail; it is detailed in `Socks5Client`.
- **`Relay`**: one run of `MitmStreamer::intercept`, one loop stage per step.
  - The peers are nondeterministic. A read returns WouldBlock, 1..BufSize bytes of
    what the peer sent, EOF once the peer closed, or an error. A write accepts 0..n
    bytes or fails.
  - The per-flow capture path is included: the Connect event, the Send/Receive
    labels of the writers, the Close sent in `ScapSender::drop`, and the consumer
    thread building the `ScapEntry` and handing it to the artifact writer.
- **`Socks5`** (pure): the codec of `socks5/common.rs` over byte sequences. It
  covers the encoders (`write_to`) and the decoders (`read_from`), which report
  "short" when `read_exact` still needs bytes. It also holds `raise_response`.
- **`Socks5Client`**: `greet` and `tcp_proxy` against an RFC 1928 upstream that
  uses the same codec. The upstream may pick a method other than no-auth and
  close, send a refusal, close after a prefix of its reply, send an unknown
  address type, or send payload right behind its reply.
- **`Capture`**: the capture pipeline across several flows.
  - Each flow's relay thread creates its `ScapSender` (Sender: Connect, then the
    filter), writes into the two capture writers (Write: Receive or Send), and
    drops the sender (Drop: Close).
  - `ChannelSend` is crossbeam's bounded send. It blocks while the channel is full
    and the consumer lives, and fails at once, ignored, after the consumer has
    unwound.
  - The consumer thread has one action per arm of `spawn_scap_store`'s match. The
    store is keyed by the flow's addresses, which stand for their hash.
  - On Close the entry goes to a writer: `Artifact` is `tcp::process_scap_entry`.
    The HTTP writer's result (ok, error or panic) is a choice here, because
    `ScapHttp` models how it depends on the bytes. A panic drops the receiver and
    every queued event.
  - Bytes are tokens `<<flow, n>>`, so an artifact shows whose bytes it holds.
- **`ScapHttp`** (pure): `http::process_scap_entry` and its helpers as operators
  over byte sequences.
  - `find_chunk_size` (the CRLF search and `from_str_radix(.., 16)`) and
    `parse_chunked_body` are RECURSIVE. `parse_chunked_body` includes the
    `c as char` widening and both slicing panics.
  - `usize` subtraction panics in a debug build and wraps in a release build.
  - A header block is reduced to what httparse reports: complete or not, the
    header count, and its length.
  - `MCScapHttp` feeds it a request and a chunked response, cut at every byte,
    and checks it against a reference chunked encoder.
- **`WorkerPool`**: the accept loop's blocking send into the bounded work channel,
  and the workers' `recv` → `run` loop.
  - A connection is reduced to whether `handle_client` returns for it.
  - The environment picks up to `MaxHeld` connections that their peers hold
    forever. Two things hold one: a SOCKS5 upstream that never answers
    `read_exact`, or a client that never drains its socket, which keeps the
    relay's idle counter at zero.

## Runs

| Run | Expect | What it shows |
|---|---|---|
| `chainforge` | pass | `ForgeSound`: whenever the code forges a chain from a probed chain and the loaded store, it is the chain §4.4 prescribes (anchor and mirrored intermediates). `RootPairsMatch`: every root `from_dir` indexes is re-signed with the key it was distributed with. `NameIndexLastWins`: a shared name resolves to the last root in read_dir order. `CloneFaithful`: every file `clone-ca` writes copies the input of that name, with the key it is signed with beside it, even after inputs that do not parse. `ForgedChainVerifies`: every chain a new resolver forges (empty intermediate store) verifies to a loaded root. |
| `mitm` | pass | `TypeOK`. `PinnedIpNeverIntercepted`: a connection to an IP pinned at accept never gets a server-role session and is tagged Tls. `DegradeAfterRejection`: after a client's UnknownCA or a forge failure, every later connection to that IP is opaque. |
| `mitm_upstream_reject` | violation | An origin UnknownCA pins `"ip:443"`, which no lookup uses, so the IP is intercepted again (§7). |
| `mitm_tag` | violation | Between dispatch and `mitm`'s re-check, another worker pins the IP, and an opaque flow is tagged Http. |
| `mitm_leaf` | violation | Two concurrent misses forge two keys for one SNI (§8.2). |
| `relay` | pass | `TypeOK`. `RelayInOrder`: what was written plus what is buffered equals what was read, in both directions. `ArtifactDirection`: request = client bytes, response = server bytes. `QuietRelayCloses`: a quiet connection's relay ends and its artifact is written. |
| `socks5` | pass | `RequestDelivered`: the upstream decodes exactly the requested IPv4/IPv6 destination. `ReplyFraming`: after a successful `tcp_proxy` the stream starts at the first payload byte, for every bound-address type. |
| `scaphttp` | pass | `ChunkedDecodeExact`: for ASCII payloads, every complete chunked encoding of up to two chunks decodes to exactly the concatenated payloads. |
| `scaphttp_panic` | violation | `WriterNoPanic`: a response captured up to a byte inside a chunk-size line makes `find_chunk_size` compute `0 - 2`. That panics in a release build too, and it kills the consumer thread (§4.8: captured data is not silently lost). |
| `capture` | pass | `TypeOK`. `ArtifactOfItsFlow`: an artifact has its flow's protocol and, for HTTP, exactly its flow's client and origin bytes in the right halves. `ClosedFlowHasArtifact`: while the consumer lives, every captured flow that closed gets an artifact. `FlowsFinish`: no relay blocks forever on the full channel. |
| `capture_reuse` | violation | Two flows with the same ScapAddresses share one store entry. The second Connect replaces the first flow's live entry, and an artifact gets the other flow's bytes. |
| `pool` | pass | `EveryConnServed`: with 3 workers and at most 2 connections held by their peers, every other connection is accepted, run and finished. |

Every property of a passing run has a mutant in `PROJECT.json`: a plausible bug in
the mapped code that TLC catches. Examples are the IP key built with the port, the
IP pin dropped from the handshake error branch, the write cursor skipping the
slice, the buffer reset missing, the capture label swapped back, a
little-endian port, the chunk size read in decimal, an unbounded capture
channel, a sender that waits for a dead consumer, Tls left out of the writer
dispatch, and a worker that exits after one connection.

## Further divergences

The following configurations are kept beside the runs. Each checks a single property and
reproduces a disagreement between the code and spec.md. They are not among the
runs of `PROJECT.json`, whose violation runs are kept for the five defects of
widest effect.

| Configuration | Property | What the counterexample shows |
|---|---|---|
| `MCChainForge_nokey.cfg` | `UnpairedSkipped` | A `.pem` without its `.key` makes `from_dir` return Err and the proxy does not start (`db.rs:89`); §6 says such files are skipped. |
| `MCChainForge_clone_all.cfg` | `CloneComplete` | An input `.pem` that does not decode is followed by `continue` without `buffer.clear()` (`cclone.rs:29`), so every input read after it fails to parse and a valid CA is never cloned. |
| `MCChainForge_complete.cfg` | `ForgeComplete` | `<<leaf, root>>` (scenario S4) is not forged, because the walk assumes the root is last and takes `n-2` intermediates. |
| `MCChainForge_cache.cfg` | `CachedChainVerifies` | A forged intermediate is reused from the intermediate store with the issuer of its first forging (`resolv.rs:107`). An origin presenting `<<leaf, I, R, R>>` (its root sent twice) gets `I'` signed by a forged copy of `R`; a later origin presenting `<<leaf, I, R>>` is served `[leaf', I']`, and `I'` is signed by no loaded root. |
| `MCMitmProxy_pinned_sni.cfg` | `PinnedSniNeverIntercepted` | `--pinned-domain` names are still intercepted: only the IP is looked up before the handshake. |
| `MCMitmProxy_probe_pin.cfg` | `ProbeFailurePins` | A failed probe does not pin the SNI (§4.4 step 3). |
| `MCMitmProxy_port.cfg` | `PortDispatch` | `original_dst` forces port 443, so port-80 traffic is MITMed (§4.6). |
| `MCRelay_byte_exact.cfg` | `ByteExact` | A peer's close ends the relay while bytes for the other peer are still buffered (§8.4). |
| `MCScapHttp_latin1.cfg` | `ChunkedDecodeExact` | A chunk byte ≥ 0x80 is written as two UTF-8 bytes (§8.6). |
| `MCScapHttp_body_size.cfg` | `ResponseBodySizeMeta` | The response `body_size` subtracts the request's header length (`http.rs:73`). It is wrong whenever the two header lengths differ, and a debug build panics when the response is the shorter. |
| `MCCapture_tls.cfg` | `OpaqueArtifactHasCiphertext` | `tcp.rs` writes bytes only for protocol Tcp, so opaque TLS flows keep none (§4.8). |
| `MCWorkerPool_held.cfg` | `EveryConnServed` | Once as many connections are held as there are workers, nothing else is served. There is no per-flow time limit (§5 says implementations SHOULD add one). |

## Bounds, and why they are enough

- **`MCMitmProxy`**: 2 workers, 2 hosts resolving to one IP, 2 IPs, ports
  {80, 443}, and 3 connections (about 890k states).
  - Two workers are the least that interleave.
  - Three connections let a connection fail and pin, and a later one observe it,
    while a third runs concurrently.
  - `h1` has a forgeable 3-certificate chain; `h2` has a 2-certificate chain that
    the code cannot forge. Both forge paths occur.
  - `OperatorPinned = {i2}` exercises the operator-pinned IP path.
  - Workers are symmetric.
- **`MCRelay`**: the client sends 3 bytes and the server 2, through 2-byte buffers.
  So a read can fill the buffer and leave bytes behind, and a partial write can
  split a buffer.
  - Each peer may close or stay open.
  - `IdleLimit` is the code's 32, so the idle break is checked at its real
    threshold.
- **`MCSocks5Client`**: both address families for the destination, with the only
  port `original_dst` produces. Replies cover every bound-address type, a success
  and a refusal, with and without trailing payload.
- **`MCChainForge`**: two roots, A named by its CN `R` and B named only by its O
  `R`, so the name index collides through the fallback (about 280k states, 2
  minutes).
  - The hand-made directory holds both pairs and a subdirectory named `d.pem`.
    Every subset occurs, so a `.pem` without its `.key` occurs too.
  - The clone-ca input holds A as PEM, B as DER (`b.crt`), a `.pem` that does not
    decode, a private key and an empty file. Every subset occurs, in every order,
    so a failed parse precedes and follows every other kind of input. Each input
    has its own stem.
  - Probes see every chain of up to 3 of 5 certificates: two leaves (one whose O
    is a root's name), an intermediate, a root named `R`, and a CA whose serial
    equals A's key identifier, which exercises the `get_by_hash` path.
    `ForgeSound`'s shortest counterexample has 2 certificates.
- **`MCScapHttp`**: up to 2 chunks of 1, 2 or 11 bytes. 11 gives a two-digit size
  line `b`, which a decimal reader rejects. The response is cut after every byte
  of its encoding, in both builds. `UsizeMax` is TLC's largest integer, and the
  wrap is computed from it.
- **`MCCapture`**: 2 flows, HTTP or TLS, with a channel of capacity 2 (for 1024)
  and 2 writes per flow.
  - Two events fill the channel, so both the blocking send and the
    send that fails after a consumer panic occur.
  - The default filter (`ScapStore::new`) matches every flow.
  - `MCAddrShared` gives both flows one client port. Because `original_dst`
    forces `rport` to 443, a connection to port 80 and one to port 443 of the same
    IP from that port have equal ScapAddresses.
- **`MCWorkerPool`**: 3 workers, 5 connections, a work channel of 2, and up to 2
  held connections. The channel fills while the workers are busy, and held
  connections occupy workers while others wait.

## Fairness

- **`Relay`** assumes weak fairness of the relay loop and of the capture
  consumer. Each is a dedicated thread whose loop never blocks (non-blocking I/O,
  a bounded sleep), or blocks only on its own channel. No fairness is assumed of
  the peers. `QuietRelayCloses` is therefore stated for a connection whose peers
  have nothing left to send and nothing buffered.
- **`Capture`** assumes weak fairness of each flow's relay thread and of the
  consumer thread. Each is an OS thread that is never descheduled for good.
  `ClosedFlowHasArtifact` allows for the consumer having died (`~alive`).
- **`WorkerPool`** assumes weak fairness of the listener and of each worker. A
  held connection is not fair: its Run is never enabled. This is how a peer that
  never answers is modelled.

## Not modelled, and why

- Start-up: CLI parsing and rustls config building. There is no state change there
  beyond what `MCChainForge` covers.
- `read_dir` and file errors of `from_dir` and `clone-ca` (permission, I/O), and a
  subdirectory in the clone-ca input (a `read_to_end` panic). Inputs that share a
  stem (`a.pem` and `a.crt`) are left out of `MCInputs`: the second overwrites
  the first's `a.key`. A DER input is written, as PEM, under its own `.crt` name,
  which `from_dir` never loads.
- Distinguished-name string encodings in `common_name_of_params` (BMP, Universal).
  Both sides of a lookup go through the same conversion.
- Logging and JSON layout are formatting only.
- `tls/verify.rs` is referenced but missing from the repository.
- Three error returns of `mitm` (`common.rs`). The first is the `ServerConnection::new`
  failure that falls back to `proxy` (191-193). The other two are the
  `DnsName::try_from` and `ClientConnection::new` failures (213-227). The
  connection constructors depend only on the configs built once at start-up.
  The name is the SNI that rustls has already parsed as a DNS name. None of the
  three pins anything.
- The intermediate-CA cache does not change whether a chain is forged, so
  `MitmProxy` and `MCChainForge`'s probes use `ChainForge`; its effect on the
  served certificates is checked through `ForgeCache` as pure operators, for one
  or two forgings, rather than as state.
- The pool's `revive` is never called.
- File-system errors of the artifact writers (`create_dir_all`, `File::create`),
  and `scap/file.rs`'s JSON layout. These are I/O whose only effect is a logged
  error.
- `chunk_start + size` overflowing `usize` (`http.rs:159`). The sizes involved are
  near 2^64, beyond TLC's integers.

## Plan for the next sittings

1. Replace Capture's choice of HTTP outcome with `ScapHttp` applied to the
   entry's bytes, so that consumer death follows from the bytes.
2. Compose `WorkerPool` with `MitmProxy`: a held connection is a relay that
   never ends.
