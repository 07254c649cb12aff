---------------------------- MODULE Socks5Client ----------------------------
(***************************************************************************)
(* handle_client's egress dial (common.rs:95-97): Socks5Client::connect,   *)
(* greet and tcp_proxy (socks5/client.rs) against an RFC 1928 upstream     *)
(* that decodes and answers with the codec of Socks5.  After tcp_proxy     *)
(* returns Ok the Socks5Client is the relay's sstream: every later byte    *)
(* on its TcpStream is origin payload.                                     *)
(***************************************************************************)
EXTENDS Socks5

VARIABLES
    dst,       \* the SocketAddr given to Socks5Client::connect
    phase,     \* the client: "greet", "method", "connect", "reply",
               \*             "connected", "failed"
    kind,      \* io::ErrorKind the client surfaced, "none" if none
    toUp,      \* bytes written to the upstream, not yet read by it
    fromUp,    \* bytes the upstream sent, not yet read by the client
    upPhase,   \* the upstream: "greeting", "request", "done"
    upClosed,  \* the upstream closed its side
    upReq,     \* the request the upstream decoded, <<>> before
    upSent     \* [reply, payload] the upstream answered with, <<>> before

vars == <<dst, phase, kind, toUp, fromUp, upPhase, upClosed, upReq, upSent>>

\* IpAddr -> Socks5Address (From<IpAddr>, common.rs:247-254).
FromIpAddr(ip) == ip

Init ==
    /\ dst \in Dsts
    /\ phase = "greet" /\ kind = "none"
    /\ toUp = <<>> /\ fromUp = <<>>
    /\ upPhase = "greeting" /\ upClosed = FALSE
    /\ upReq = <<>> /\ upSent = <<>>

\* The client fails with an io::ErrorKind: handle_client's `?` returns.
Fail(k) == phase' = "failed" /\ kind' = k

\* A read_exact that needs more bytes than an upstream that closed sent.
EofBeforeFrame(parse) == parse.status = "short" /\ upClosed

(***************************************************************************)
(* greet (client.rs:31-42): write the greeting advertising no-auth, then   *)
(* read the method selection and return it whatever the method.            *)
(***************************************************************************)
GreetWrite ==
    /\ phase = "greet"
    /\ toUp' = toUp \o GreetingBytes([version |-> SOCKS5_VERSION,
                                      user_pass |-> FALSE, no_auth |-> TRUE])
    /\ phase' = "method"
    /\ UNCHANGED <<dst, kind, fromUp, upPhase, upClosed, upReq, upSent>>

GreetRead ==
    LET m == ParseMethod(fromUp)
    IN  /\ phase = "method"
        /\ \/ /\ m.status = "ok"
              /\ fromUp' = SubSeq(fromUp, m.used + 1, Len(fromUp))
              /\ phase' = "connect"
              /\ UNCHANGED kind
           \/ /\ EofBeforeFrame(m)
              /\ Fail("UnexpectedEof")
              /\ UNCHANGED fromUp
        /\ UNCHANGED <<dst, toUp, upPhase, upClosed, upReq, upSent>>

(***************************************************************************)
(* tcp_proxy (client.rs:44-59): write a CONNECT request for dst, read the  *)
(* response, map a non-success reply to an error (raise_response), and     *)
(* keep the same stream (bind_proxy does nothing).                         *)
(***************************************************************************)
TcpProxyWrite ==
    /\ phase = "connect"
    /\ toUp' = toUp \o RequestBytes([version |-> SOCKS5_VERSION,
                                     cmd |-> CMD_CONNECT, rsv |-> 0,
                                     dst_addr |-> FromIpAddr(dst.ip),
                                     dst_port |-> dst.port])
    /\ phase' = "reply"
    /\ UNCHANGED <<dst, kind, fromUp, upPhase, upClosed, upReq, upSent>>

TcpProxyRead ==
    LET r == ParseResponse(fromUp)
    IN  /\ phase = "reply"
        /\ \/ /\ r.status = "ok"
              /\ fromUp' = SubSeq(fromUp, r.used + 1, Len(fromUp))
              /\ IF RaiseResponse(r.value.reply) = "Ok"
                 THEN phase' = "connected" /\ UNCHANGED kind
                 ELSE Fail(RaiseResponse(r.value.reply))
           \/ /\ r.status = "invalid"
              /\ Fail("InvalidData")
              /\ UNCHANGED fromUp
           \/ /\ EofBeforeFrame(r)
              /\ Fail("UnexpectedEof")
              /\ UNCHANGED fromUp
        /\ UNCHANGED <<dst, toUp, upPhase, upClosed, upReq, upSent>>

----------------------------------------------------------------------------
(***************************************************************************)
(* The upstream (RFC 1928).  It selects a method; unless it selected       *)
(* no-auth it closes.  It decodes the CONNECT request and answers with a   *)
(* response, possibly followed at once by origin payload, or closes after  *)
(* a prefix of it.  A non-conforming upstream may also send a reply with  *)
(* an address type the codec does not know.                                *)
(***************************************************************************)
UpstreamMethod ==
    LET g == ParseGreeting(toUp)
    IN  /\ upPhase = "greeting" /\ g.status = "ok"
        /\ toUp' = SubSeq(toUp, g.used + 1, Len(toUp))
        /\ \E m \in Methods :
              /\ fromUp' = fromUp \o MethodBytes(SOCKS5_VERSION, m)
              /\ upClosed' = (m # NO_AUTHENTICATION)
              /\ upPhase' = IF m = NO_AUTHENTICATION THEN "request" ELSE "done"
        /\ UNCHANGED <<dst, phase, kind, upReq, upSent>>

UpstreamReply ==
    LET q == ParseRequest(toUp)
    IN  /\ upPhase = "request" /\ q.status = "ok"
        /\ toUp' = SubSeq(toUp, q.used + 1, Len(toUp))
        /\ upReq' = q.value
        /\ upPhase' = "done"
        /\ \E r \in Replies, p \in Payloads :
              LET bytes == ResponseBytes(r)
              IN  \/ /\ fromUp' = fromUp \o bytes \o p
                     /\ upSent' = [reply |-> r, payload |-> p]
                     /\ UNCHANGED upClosed
                  \/ /\ \E k \in 0..Len(bytes) - 1 :
                           fromUp' = fromUp \o SubSeq(bytes, 1, k)
                     /\ upClosed' = TRUE
                     /\ UNCHANGED upSent
                  \/ /\ fromUp' = fromUp \o <<SOCKS5_VERSION, r.reply, 0, 9>>
                     /\ upSent' = [reply |-> r, payload |-> <<>>]
                     /\ UNCHANGED upClosed
        /\ UNCHANGED <<dst, phase, kind>>

\* The handshake is over: the relay owns the stream, or the worker has
\* moved on; the upstream has answered or closed.
Done ==
    /\ phase \in {"connected", "failed"}
    /\ upPhase = "done" \/ phase = "failed"
    /\ UNCHANGED vars

Next ==
    \/ GreetWrite \/ GreetRead \/ TcpProxyWrite \/ TcpProxyRead
    \/ UpstreamMethod \/ UpstreamReply \/ Done

Spec == Init /\ [][Next]_vars

----------------------------------------------------------------------------
(***************************************************************************)
(* The upstream decodes exactly the destination handle_client asked for:  *)
(* a CONNECT with version 5 for dst's address and port.  About the         *)
(* agreement of Socks5Request::write_to, Socks5Address::write_to and the   *)
(* big-endian port with the decoder an RFC 1928 server uses.               *)
(***************************************************************************)
RequestDelivered ==
    upReq # <<>> =>
        upReq = [version |-> SOCKS5_VERSION, cmd |-> CMD_CONNECT, rsv |-> 0,
                 dst_addr |-> dst.ip, dst_port |-> dst.port]

(***************************************************************************)
(* When tcp_proxy succeeds, the upstream sent a success reply and the      *)
(* stream handed to the relay starts exactly at the first payload byte:    *)
(* Socks5Response::read_from consumed the whole reply, whatever its bound  *)
(* address type, and nothing more.  A wrong count here shifts every byte   *)
(* the relay forwards from the origin.                                     *)
(***************************************************************************)
ReplyFraming ==
    phase = "connected" =>
        /\ upSent # <<>>
        /\ upSent.reply.reply = REP_SUCCEEDED
        /\ fromUp = upSent.payload
=============================================================================
