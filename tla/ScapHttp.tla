------------------------------ MODULE ScapHttp ------------------------------
(***************************************************************************)
(* The HTTP artifact writer of the capture consumer (src/src/proxy/scap/   *)
(* http.rs): process_scap_entry and its wrapper, body_is_chunked,          *)
(* parse_chunked_body and find_chunk_size, as operators.                   *)
(*                                                                          *)
(* A body is a sequence of bytes (integers 0..255).  A header block is     *)
(* abstracted to what httparse reports of it: whether it is complete, how  *)
(* many headers it has, its length in bytes (the Complete(v) offset) and   *)
(* the headers the writer looks at.  A half of a ScapEntry is therefore    *)
(* [complete, nheaders, headLen, headers, body]; its raw bytes are         *)
(* headLen + Len(body) long.                                               *)
(***************************************************************************)
EXTENDS Integers, SequencesExt

CONSTANTS
    UsizeMax,    \* usize::MAX as far as TLC's integers reach
    MaxHeaders   \* the [EMPTY_HEADER; 64] arrays given to httparse

CR == 13
LF == 10

\* Rust's u8::is_ascii_whitespace, as used by trim_ascii.
IsBlank(s) == \A i \in DOMAIN s : s[i] \in {9, 10, 12, 13, 32}

\* usize subtraction: a panic ("attempt to subtract with overflow") in a
\* debug build, wrapping in a release build.
UsizeSub(a, b, build) ==
    CASE a >= b             -> [panic |-> FALSE, value |-> a - b]
      [] build = "debug"    -> [panic |-> TRUE, value |-> 0]
      [] build = "release"  -> [panic |-> FALSE, value |-> UsizeMax - (b - a) + 1]

----------------------------------------------------------------------------
(* usize::from_str_radix(s, 16) after str::from_utf8: an optional '+',    *)
(* then at least one hex digit in either case; anything else is Err.       *)
HexValue(b) ==
    CASE b \in 48..57  -> b - 48
      [] b \in 65..70  -> b - 55
      [] b \in 97..102 -> b - 87
      [] OTHER         -> -1

RECURSIVE HexNum(_)
HexNum(s) == IF s = <<>> THEN 0 ELSE HexNum(Front(s)) * 16 + HexValue(Last(s))

\* Mutation variant of FromStrRadix16: the size line read in decimal.
FromStrRadix10(s) ==
    LET digits == IF s # <<>> /\ s[1] = 43 THEN Tail(s) ELSE s
    IN  IF digits = <<>> \/ \E i \in DOMAIN digits : digits[i] \notin 48..57
        THEN [ok |-> FALSE, value |-> 0]
        ELSE [ok |-> TRUE,
              value |-> FoldLeft(LAMBDA acc, d : acc * 10 + d - 48, 0, digits)]

FromStrRadix16(s) ==
    LET digits == IF s # <<>> /\ s[1] = 43 THEN Tail(s) ELSE s
    IN  IF digits = <<>> \/ \E i \in DOMAIN digits : HexValue(digits[i]) < 0
        THEN [ok |-> FALSE, value |-> 0]
        ELSE [ok |-> TRUE, value |-> HexNum(digits)]

(***************************************************************************)
(* find_chunk_size: end is 2 past the first CRLF, 0 if there is none; the *)
(* size is the hex number before it.  With no CRLF, buffer[..end - 2]      *)
(* panics in both builds: the subtraction overflows in a debug build, and  *)
(* the wrapped bound is out of range in a release build.                   *)
(***************************************************************************)
FindChunkSize(buf) ==
    LET crlf == {i \in 1..Len(buf) - 1 : buf[i] = CR /\ buf[i + 1] = LF}
        end  == IF crlf = {} THEN 0 ELSE Min(crlf) + 1
        size == FromStrRadix16(SubSeq(buf, 1, end - 2))
    IN  IF end = 0 THEN [status |-> "panic", size |-> 0, end |-> 0]
        ELSE IF ~size.ok THEN [status |-> "none", size |-> 0, end |-> end]
        ELSE [status |-> "some", size |-> size.value, end |-> end]

\* `c as char` pushed onto a String: a byte above 127 becomes the two-byte
\* UTF-8 encoding of the Latin-1 character.
CharUtf8(b) == IF b < 128 THEN <<b>> ELSE <<192 + (b \div 64), 128 + (b % 64)>>
Latin1ToUtf8(s) == FlattenSeq([i \in DOMAIN s |-> CharUtf8(s[i])])

(***************************************************************************)
(* parse_chunked_body(buffer, false): copy each chunk and skip chunk_end + *)
(* 2 bytes; stop at a zero size, an unparsable size or a chunk that runs  *)
(* past the buffer.  remaining_buffer[chunk_end + 2..] panics when fewer  *)
(* than 2 bytes follow the chunk.                                          *)
(***************************************************************************)
RECURSIVE ParseChunkedBody(_)
ParseChunkedBody(buf) ==
    LET f         == FindChunkSize(buf)
        chunkEnd  == f.end + f.size
        panicked  == [panic |-> TRUE, body |-> <<>>]
        stopped   == [panic |-> FALSE, body |-> <<>>]
    IN  IF f.status = "panic" THEN panicked
        ELSE IF f.status = "none" \/ f.size = 0 THEN stopped
        ELSE IF chunkEnd > Len(buf) THEN stopped
        ELSE IF chunkEnd + 2 > Len(buf) THEN panicked
        ELSE   LET rest == ParseChunkedBody(SubSeq(buf, chunkEnd + 3, Len(buf)))
               IN  [rest EXCEPT !.body =
                        Latin1ToUtf8(SubSeq(buf, f.end + 1, chunkEnd)) \o @]

\* body_is_chunked: only the first Transfer-Encoding header counts, and its
\* value must be exactly "chunked".
BodyIsChunked(headers) ==
    LET i == SelectInSeq(headers, LAMBDA h : h.name = "transfer-encoding")
    IN  i # 0 /\ headers[i].value = "chunked"

\* String::from_utf8_lossy, for bodies whose bytes above 127 are never part
\* of a valid UTF-8 sequence (each becomes U+FFFD).
Utf8Lossy(s) ==
    FlattenSeq([i \in DOMAIN s |-> IF s[i] < 128 THEN <<s[i]>> ELSE <<239, 191, 189>>])

----------------------------------------------------------------------------
RawLen(half) == half.headLen + Len(half.body)

\* httparse::Request/Response::parse: Complete(headLen), or anything else.
Parsed(half) == half.complete /\ half.nheaders <= MaxHeaders

(***************************************************************************)
(* process_scap_entry with a trace folder: the wrapper's outcome, and on   *)
(* its Err the request.json holding the error.  outcome is "ok", "error"  *)
(* or "panic" (the consumer thread unwinds); meta is the request.json     *)
(* body sizes; reqFile/resFile are request.scap/response.scap, "none" if  *)
(* not written.                                                            *)
(***************************************************************************)
NoFile == "none"

ProcessScapEntry(received, send, build) ==
    LET reqBodyStart == received.headLen
        resSize      == UsizeSub(RawLen(send), reqBodyStart, build)
        meta         == [reqBodySize |-> RawLen(received) - reqBodyStart,
                         resBodySize |-> resSize.value]
        decoded      == ParseChunkedBody(send.body)
        chunked      == BodyIsChunked(send.headers)
        reqFile      == IF IsBlank(received.body) THEN NoFile ELSE received.body
        resFile      == IF IsBlank(send.body) THEN NoFile
                        ELSE IF chunked THEN decoded.body
                        ELSE Utf8Lossy(send.body)
        error        == [outcome |-> "error", meta |-> NoFile,
                         reqFile |-> NoFile, resFile |-> NoFile]
    IN  IF ~Parsed(received) \/ ~Parsed(send) THEN error
        ELSE IF resSize.panic THEN [error EXCEPT !.outcome = "panic"]
        ELSE IF ~IsBlank(send.body) /\ chunked /\ decoded.panic THEN
               [outcome |-> "panic",
                meta |-> meta, reqFile |-> reqFile, resFile |-> NoFile]
        ELSE   [outcome |-> "ok", meta |-> meta,
                reqFile |-> reqFile, resFile |-> resFile]
=============================================================================
