---------------------------- MODULE MCScapHttp ----------------------------
(***************************************************************************)
(* Checks ScapHttp on the entries the consumer hands it for one HTTP flow: *)
(* a GET request with no body, and a response whose body is a chunked      *)
(* encoding of up to MaxChunks chunks, captured up to any byte: the relay  *)
(* ends when a peer closes, errs or goes idle, so an entry may hold any    *)
(* prefix of what the origin sent.  Each step captures one more byte.      *)
(***************************************************************************)
EXTENDS ScapHttp

CONSTANTS
    PayloadBytes,  \* bytes chunk payloads are made of
    ChunkLens,     \* payload lengths of a chunk
    MaxChunks,     \* chunks before the last-chunk
    ReqHeadLens,   \* header block lengths of the request
    ResHeadLens,   \* header block lengths of the response
    Builds         \* "debug" and/or "release"

VARIABLES
    build,     \* how the binary was compiled
    chunks,    \* the chunk payloads the origin sends
    reqHead,   \* the request's header block length
    resHead,   \* the response's header block length
    cut        \* bytes of the chunked body captured so far

vars == <<build, chunks, reqHead, resHead, cut>>

(***************************************************************************)
(* The reference chunked transfer coding (RFC 9112 7.1): each chunk as its *)
(* size in lowercase hex, CRLF, the payload, CRLF; then the last-chunk     *)
(* "0" CRLF and the empty trailer CRLF.                                    *)
(***************************************************************************)
HexDigit(d) == IF d < 10 THEN 48 + d ELSE 87 + d

RECURSIVE Hex(_)
Hex(n) == IF n < 16 THEN <<HexDigit(n)>> ELSE Hex(n \div 16) \o <<HexDigit(n % 16)>>

ChunkedEncoding(cs) ==
    FlattenSeq([i \in DOMAIN cs |-> Hex(Len(cs[i])) \o <<CR, LF>> \o cs[i] \o <<CR, LF>>])
    \o <<48, CR, LF, CR, LF>>

Chunks == {[i \in 1..n |-> b] : n \in ChunkLens, b \in PayloadBytes}

Body == SubSeq(ChunkedEncoding(chunks), 1, cut)

Request == [complete |-> TRUE, nheaders |-> 2, headLen |-> reqHead,
            headers |-> <<>>, body |-> <<>>]

Response == [complete |-> TRUE, nheaders |-> 2, headLen |-> resHead,
             headers |-> <<[name |-> "transfer-encoding", value |-> "chunked"]>>,
             body |-> Body]

Written == ProcessScapEntry(Request, Response, build)

Init ==
    /\ build \in Builds
    /\ chunks \in BoundedSeq(Chunks, MaxChunks)
    /\ reqHead \in ReqHeadLens
    /\ resHead \in ResHeadLens
    /\ cut = 0

\* The relay copies one more byte of the origin's response into the entry.
CaptureByte ==
    /\ cut < Len(ChunkedEncoding(chunks))
    /\ cut' = cut + 1
    /\ UNCHANGED <<build, chunks, reqHead, resHead>>

\* The whole response is captured; the entry stays as it is.
Captured ==
    /\ cut = Len(ChunkedEncoding(chunks))
    /\ UNCHANGED vars

Next == CaptureByte \/ Captured

Spec == Init /\ [][Next]_vars

----------------------------------------------------------------------------
(***************************************************************************)
(* spec.md 8, property 6: for a complete chunked body, parse_chunked_body *)
(* returns exactly the concatenation of the chunk payloads, without       *)
(* panicking.  About find_chunk_size's CRLF search and hex size, and the  *)
(* chunk_end + 2 skip over each chunk's trailing CRLF.                     *)
(***************************************************************************)
ChunkedDecodeExact ==
    cut = Len(ChunkedEncoding(chunks)) =>
        ParseChunkedBody(Body) = [panic |-> FALSE, body |-> FlattenSeq(chunks)]

(***************************************************************************)
(* The writer never panics on an entry the relay can produce, whatever     *)
(* prefix of the response was captured: a panic unwinds the consumer       *)
(* thread of spawn_scap_store, and no flow gets an artifact after it.      *)
(***************************************************************************)
WriterNoPanic == Written.outcome # "panic"

(***************************************************************************)
(* request.json records the response's body size: its raw length minus    *)
(* the end of its own header block (spec.md 4.8, "declared/raw body sizes *)
(* for each half").                                                        *)
(***************************************************************************)
ResponseBodySizeMeta ==
    Written.outcome = "ok" => Written.meta.resBodySize = Len(Response.body)
=============================================================================
