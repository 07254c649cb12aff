------------------------------- MODULE Socks5 -------------------------------
(***************************************************************************)
(* The SOCKS5 egress handshake of one connection (src/src/proxy/socks5/):  *)
(* Socks5Client::greet and ::tcp_proxy on the proxy side, against an       *)
(* upstream that decodes and encodes with the same codec                   *)
(* (socks5/common.rs: Socks5Greeting::read_from, Socks5Request::read_from, *)
(* Socks5Response::write_to, Socks5MethodSelection::write_to).             *)
(*                                                                          *)
(* Bytes are integers 0..255 and a stream is a sequence of them.  A        *)
(* read_exact on the upstream's stream blocks until enough bytes arrived   *)
(* and fails with UnexpectedEof if the upstream closed first; the several  *)
(* read_exact calls of one read_from are one step, since only the final    *)
(* bytes of a single-reader stream decide their result.                    *)
(***************************************************************************)
EXTENDS Integers, Sequences

CONSTANTS
    Dsts,      \* destinations handle_client passes to Socks5Client::connect
    Methods,   \* method bytes an upstream may select
    Replies,   \* Socks5Response values an upstream may answer with
    Payloads   \* bytes an upstream may send right after its reply

SOCKS5_VERSION == 5
NO_AUTHENTICATION == 0
USERNAME_PASSWORD == 2
ADDR_TYPE_IPV4 == 1
ADDR_TYPE_DOMAIN == 3
ADDR_TYPE_IPV6 == 4
CMD_CONNECT == 1
REP_SUCCEEDED == 0

\* Addresses are records [type |-> "V4" | "Domain" | "V6", bytes |-> Seq].
Zeros(n) == [i \in 1..n |-> 0]

----------------------------------------------------------------------------
(* Encoders (write_to).                                                    *)

\* Mutation variant of U16Bytes: to_le_bytes.
U16BytesLe(p) == <<p % 256, p \div 256>>

\* u16::to_be_bytes.
U16Bytes(p) == <<p \div 256, p % 256>>

\* Socks5Address::addr_type.
AddrType(a) == CASE a.type = "V4"     -> ADDR_TYPE_IPV4
                 [] a.type = "Domain" -> ADDR_TYPE_DOMAIN
                 [] a.type = "V6"     -> ADDR_TYPE_IPV6

\* Socks5Address::write_to.
AddrBytes(a) ==
    <<AddrType(a)>> \o (IF a.type = "Domain" THEN <<Len(a.bytes)>> \o a.bytes
                        ELSE a.bytes)

\* Socks5Greeting::write_to: [version, n_methods, methods...] where out[2]
\* is USERNAME_PASSWORD if user_pass and NO_AUTHENTICATION otherwise.
GreetingBytes(g) ==
    LET n == (IF g.user_pass THEN 1 ELSE 0) + (IF g.no_auth THEN 1 ELSE 0)
        out == <<g.version, n,
                 IF g.user_pass THEN USERNAME_PASSWORD ELSE NO_AUTHENTICATION,
                 NO_AUTHENTICATION>>
    IN  SubSeq(out, 1, n + 2)

\* Socks5MethodSelection::write_to.
MethodBytes(version, method) == <<version, method>>

\* Socks5Request::write_to and Socks5Response::write_to share the layout
\* [version, cmd|reply, rsv, address, port].
RequestBytes(r) == <<r.version, r.cmd, r.rsv>> \o AddrBytes(r.dst_addr)
                   \o U16Bytes(r.dst_port)
ResponseBytes(r) == <<r.version, r.reply, r.rsv>> \o AddrBytes(r.bnd_addr)
                    \o U16Bytes(r.bnd_port)

----------------------------------------------------------------------------
(***************************************************************************)
(* Decoders (read_from) over the bytes available, as [status, value, used] *)
(* with status "ok", "short" (read_exact needs more) or "invalid".         *)
(***************************************************************************)
Short == [status |-> "short", value |-> <<>>, used |-> 0]
Invalid == [status |-> "invalid", value |-> <<>>, used |-> 0]
Ok(v, n) == [status |-> "ok", value |-> v, used |-> n]

\* Bytes Socks5Address::read_from consumes from s for address type at:
\* -1 if the domain length byte has not arrived, -2 for an unknown type.
AddrLen(s, at) ==
    CASE at = ADDR_TYPE_IPV4   -> 4
      [] at = ADDR_TYPE_DOMAIN -> IF Len(s) < 1 THEN -1 ELSE 1 + s[1]
      [] at = ADDR_TYPE_IPV6   -> 16
      [] OTHER                 -> -2

\* Socks5Address::read_from.
AddrValue(s, at) ==
    CASE at = ADDR_TYPE_IPV4   -> [type |-> "V4", bytes |-> SubSeq(s, 1, 4)]
      [] at = ADDR_TYPE_DOMAIN -> [type |-> "Domain", bytes |-> SubSeq(s, 2, 1 + s[1])]
      [] at = ADDR_TYPE_IPV6   -> [type |-> "V6", bytes |-> SubSeq(s, 1, 16)]

\* The common frame of Socks5Request::read_from / Socks5Response::read_from:
\* read 4 bytes, the address of type byte 4, then a big-endian u16.
ParseFrame(s) ==
    LET rest == SubSeq(s, 5, Len(s))
        al   == AddrLen(rest, s[4])
        n    == 4 + al + 2
    IN  CASE Len(s) < 4 \/ al = -1 -> Short
          [] al = -2                -> Invalid
          [] Len(s) < n             -> Short
          [] OTHER -> Ok([b1 |-> s[1], b2 |-> s[2], b3 |-> s[3],
                          addr |-> AddrValue(rest, s[4]),
                          port |-> s[n - 1] * 256 + s[n]], n)

ParseRequest(s) ==
    LET f == ParseFrame(s)
    IN  IF f.status # "ok" THEN f
        ELSE Ok([version |-> f.value.b1, cmd |-> f.value.b2, rsv |-> f.value.b3,
                 dst_addr |-> f.value.addr, dst_port |-> f.value.port], f.used)

\* Mutation variant of ParseResponse: the bound port is not read.
ParseResponseSkipsPort(s) ==
    LET f == ParseFrame(s)
    IN  IF f.status # "ok" THEN f
        ELSE Ok([version |-> f.value.b1, reply |-> f.value.b2, rsv |-> f.value.b3,
                 bnd_addr |-> f.value.addr, bnd_port |-> 0], f.used - 2)

ParseResponse(s) ==
    LET f == ParseFrame(s)
    IN  IF f.status # "ok" THEN f
        ELSE Ok([version |-> f.value.b1, reply |-> f.value.b2, rsv |-> f.value.b3,
                 bnd_addr |-> f.value.addr, bnd_port |-> f.value.port], f.used)

\* Socks5Greeting::read_from: 2 bytes, then n_methods method bytes; the
\* methods it knows set the flags.
ParseGreeting(s) ==
    IF Len(s) < 2 \/ Len(s) < 2 + s[2] THEN Short
    ELSE LET ms == {s[i] : i \in 3..2 + s[2]}
         IN  Ok([version |-> s[1], no_auth |-> NO_AUTHENTICATION \in ms,
                 user_pass |-> USERNAME_PASSWORD \in ms], 2 + s[2])

\* Socks5MethodSelection::read_from.
ParseMethod(s) ==
    IF Len(s) < 2 THEN Short ELSE Ok([version |-> s[1], method |-> s[2]], 2)

\* Socks5Client::raise_response: the io::ErrorKind of a reply code.
RaiseResponse(code) ==
    CASE code = REP_SUCCEEDED -> "Ok"
      [] code \in {2, 5}      -> "ConnectionRefused"
      [] code \in {3, 4, 6}   -> "NotConnected"
      [] code = 7             -> "Unsupported"
      [] code = 8             -> "InvalidInput"
      [] OTHER                -> "Interrupted"
=============================================================================
