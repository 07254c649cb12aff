-------------------------------- MODULE Relay --------------------------------
(***************************************************************************)
(* One run of MitmStreamer::intercept (src/src/proxy/conn/mitm.rs) on a    *)
(* worker thread, with read_no_wait / write_no_wait                        *)
(* (src/src/proxy/conn/stream.rs), the capture writers it feeds            *)
(* (ScapSenderWrt, src/src/proxy/scap/common.rs), and the capture          *)
(* consumer's handling of this flow (spawn_scap_store,                     *)
(* src/src/proxy/scap/mod.rs, and the artifact writer scap/tcp.rs).        *)
(*                                                                          *)
(* cstream is the client side, sstream the server side (proxy() and        *)
(* mitm() pass them in that order).  The code's client_buffer / creaded /  *)
(* cpos carry bytes READ FROM THE SERVER towards the client; server_buffer *)
(* / sreaded / spos carry bytes read from the client towards the server.   *)
(*                                                                          *)
(* The peers are the environment: a non-blocking read returns WouldBlock,  *)
(* some of the bytes the peer has sent, 0 once the peer has closed and    *)
(* everything was read, or an error; a write accepts any number of the     *)
(* offered bytes (0 = WouldBlock) or fails.  Each loop stage is one step.  *)
(***************************************************************************)
EXTENDS Integers, Sequences

CONSTANTS
    ClientData,  \* bytes the client sends over the connection
    ServerData,  \* bytes the server sends
    BufSize,     \* length of client_buffer / server_buffer (32_000 in the code)
    IdleLimit    \* the loop breaks once zero_counter > IdleLimit (32)

ASSUME BufSize \in Nat \ {0} /\ IdleLimit \in Nat

VARIABLES
    rpc,            \* stage of the loop: "s1", "s2", "tick", "closed"
    cSent, sSent,   \* bytes of ClientData / ServerData read so far
    cCloses,        \* the client closes after sending ClientData
    sCloses,        \* the server closes after sending ServerData
    clientBuffer,   \* client_buffer[0..creaded]: read from sstream
    cpos,
    serverBuffer,   \* server_buffer[0..sreaded]: read from cstream
    spos,
    zeroCounter,    \* zero_counter
    toClient,       \* bytes written to cstream
    toServer,       \* bytes written to sstream
    events,         \* this flow's ScapEvents in the bounded channel, FIFO
    ended,          \* how intercept returned: "no", "idle", "eof", "error"
    entry,          \* the consumer's ScapEntry for the flow
    artifact        \* what the consumer hands to the artifact writer on Close

vars == <<rpc, cSent, sSent, cCloses, sCloses, clientBuffer, cpos, serverBuffer,
          spos, zeroCounter, toClient, toServer, events, ended, entry, artifact>>
peers == <<cSent, sSent, cCloses, sCloses>>
relay == <<clientBuffer, cpos, serverBuffer, spos, zeroCounter, toClient, toServer>>
consumer == <<entry, artifact>>

NoEntry == [send |-> <<>>, received |-> <<>>, open |-> FALSE]
NoArtifact == [request |-> <<>>, response |-> <<>>, done |-> FALSE]

\* Bytes read so far from each peer.
ClientRead == SubSeq(ClientData, 1, cSent)
ServerRead == SubSeq(ServerData, 1, sSent)

creaded == Len(clientBuffer)
sreaded == Len(serverBuffer)

TypeOK ==
    /\ rpc \in {"s1", "s2", "tick", "closed"}
    /\ cSent \in 0..Len(ClientData) /\ sSent \in 0..Len(ServerData)
    /\ cCloses \in BOOLEAN /\ sCloses \in BOOLEAN
    /\ creaded <= BufSize /\ sreaded <= BufSize
    /\ cpos \in 0..creaded /\ spos \in 0..sreaded
    /\ zeroCounter \in 0..IdleLimit + 1
    /\ ended \in {"no", "idle", "eof", "error"}
    /\ entry.open \in BOOLEAN /\ artifact.done \in BOOLEAN

(***************************************************************************)
(* handle_client creates the ScapSender (a Connect event) before the       *)
(* relay starts; set_non_blocking on both streams is folded into Init      *)
(* (its failure ends the relay like any other error, see Fail).            *)
(***************************************************************************)
Init ==
    /\ rpc = "s1"
    /\ cSent = 0 /\ sSent = 0
    /\ cCloses \in BOOLEAN /\ sCloses \in BOOLEAN
    /\ clientBuffer = <<>> /\ cpos = 0
    /\ serverBuffer = <<>> /\ spos = 0
    /\ zeroCounter = 0
    /\ toClient = <<>> /\ toServer = <<>>
    /\ events = <<[type |-> "Connect", data |-> <<>>]>>
    /\ ended = "no"
    /\ entry = NoEntry
    /\ artifact = NoArtifact

(***************************************************************************)
(* The capture writers.  intercept reads sstream with scap.from_client()   *)
(* and cstream with scap.from_server() (mitm.rs:39, :52); a from_client    *)
(* writer emits Send, a from_server writer Receive (common.rs:240-244).    *)
(***************************************************************************)
\* Mutation variant of SstreamCapture: the writer that matches its name.
SstreamCaptureFromServer == "Receive"

SstreamCapture == "Send"
CstreamCapture == "Receive"

\* The relay ends: intercept returns, handle_client returns and the
\* ScapSender's Drop sends Close (capture is true: the default ScapFilter
\* matches every flow).
Finish(how) ==
    /\ rpc' = "closed"
    /\ ended' = how
    /\ events' = Append(events, [type |-> "Close", data |-> <<>>])

\* Mutation variant of ReadCount: the read is not bounded by the buffer.
ReadCountUnbounded == 1..Len(ClientData) + Len(ServerData)

\* A successful read returns at most buffer.len() bytes (stream.rs:104).
ReadCount == 1..BufSize

(***************************************************************************)
(* Stage 1, towards the client (mitm.rs:38-49).                            *)
(***************************************************************************)
\* creaded == 0: read_no_wait(sstream, client_buffer, from_client).
ServerRead1 ==
    /\ rpc = "s1" /\ creaded = 0
    /\ \/ /\ rpc' = "s2"                                    \* WouldBlock
          /\ UNCHANGED <<sSent, clientBuffer, events>>
       \/ \E k \in ReadCount :                              \* k bytes
             /\ sSent + k <= Len(ServerData)
             /\ clientBuffer' = SubSeq(ServerData, sSent + 1, sSent + k)
             /\ sSent' = sSent + k
             /\ events' = Append(events, [type |-> SstreamCapture,
                                          data |-> clientBuffer'])
             /\ rpc' = "s2"
    /\ UNCHANGED <<cSent, cCloses, sCloses, cpos, serverBuffer, spos,
                   zeroCounter, toClient, toServer, ended, entry, artifact>>

\* Mutation variant of ClientWrite: the cursor skips the whole slice
\* whatever write() accepted.
ClientWriteSkipsSlice ==
    /\ rpc = "s1" /\ cpos < creaded
    /\ \E k \in 0..creaded - cpos :
          /\ toClient' = toClient \o SubSeq(clientBuffer, cpos + 1, cpos + k)
          /\ cpos' = creaded
    /\ rpc' = "s2"
    /\ UNCHANGED <<peers, clientBuffer, serverBuffer, spos, zeroCounter,
                   toServer, events, ended, consumer>>

\* creaded != 0, cpos < creaded: write_no_wait(cstream, [cpos..creaded]).
ClientWrite ==
    /\ rpc = "s1" /\ cpos < creaded
    /\ \E k \in 0..creaded - cpos :
          /\ toClient' = toClient \o SubSeq(clientBuffer, cpos + 1, cpos + k)
          /\ cpos' = cpos + k
    /\ rpc' = "s2"
    /\ UNCHANGED <<peers, clientBuffer, serverBuffer, spos, zeroCounter,
                   toServer, events, ended, consumer>>

\* Mutation variant of ClientBufferReset: the else branch that clears
\* creaded and cpos is missing.
ClientBufferResetMissing ==
    /\ rpc = "s1" /\ creaded # 0 /\ cpos = creaded
    /\ rpc' = "s2"
    /\ UNCHANGED <<peers, relay, events, ended, consumer>>

\* creaded != 0, cpos == creaded: creaded = 0; cpos = 0.
ClientBufferReset ==
    /\ rpc = "s1" /\ creaded # 0 /\ cpos = creaded
    /\ clientBuffer' = <<>> /\ cpos' = 0
    /\ rpc' = "s2"
    /\ UNCHANGED <<peers, serverBuffer, spos, zeroCounter, toClient, toServer,
                   events, ended, consumer>>

(***************************************************************************)
(* Stage 2, towards the server (mitm.rs:51-64).                            *)
(***************************************************************************)
\* sreaded == 0: read_no_wait(cstream, server_buffer, from_server).
ClientRead2 ==
    /\ rpc = "s2" /\ sreaded = 0
    /\ \/ /\ rpc' = "tick"
          /\ UNCHANGED <<cSent, serverBuffer, events>>
       \/ \E k \in ReadCount :
             /\ cSent + k <= Len(ClientData)
             /\ serverBuffer' = SubSeq(ClientData, cSent + 1, cSent + k)
             /\ cSent' = cSent + k
             /\ events' = Append(events, [type |-> CstreamCapture,
                                          data |-> serverBuffer'])
             /\ rpc' = "tick"
    /\ UNCHANGED <<sSent, cCloses, sCloses, clientBuffer, cpos, spos,
                   zeroCounter, toClient, toServer, ended, entry, artifact>>

ServerWrite ==
    /\ rpc = "s2" /\ spos < sreaded
    /\ \E k \in 0..sreaded - spos :
          /\ toServer' = toServer \o SubSeq(serverBuffer, spos + 1, spos + k)
          /\ spos' = spos + k
    /\ rpc' = "tick"
    /\ UNCHANGED <<peers, clientBuffer, cpos, serverBuffer, zeroCounter,
                   toClient, events, ended, consumer>>

ServerBufferReset ==
    /\ rpc = "s2" /\ sreaded # 0 /\ spos = sreaded
    /\ serverBuffer' = <<>> /\ spos' = 0
    /\ rpc' = "tick"
    /\ UNCHANGED <<peers, clientBuffer, cpos, zeroCounter, toClient, toServer,
                   events, ended, consumer>>

(***************************************************************************)
(* End of an iteration (mitm.rs:65-76): count consecutive iterations that  *)
(* end with both buffers empty, sleep, and break past IdleLimit.           *)
(***************************************************************************)
Tick ==
    LET zc == IF creaded = 0 /\ sreaded = 0 THEN zeroCounter + 1 ELSE 0
    IN  /\ rpc = "tick"
        /\ zeroCounter' = zc
        /\ IF zc > IdleLimit THEN Finish("idle")
           ELSE rpc' = "s1" /\ UNCHANGED <<events, ended>>
        /\ UNCHANGED <<peers, clientBuffer, cpos, serverBuffer, spos,
                       toClient, toServer, consumer>>

(***************************************************************************)
(* A `?` propagates an error out of intercept: a read of 0 bytes once the  *)
(* peer closed (read_no_wait's WriteZero), or any other I/O error of a     *)
(* read or a write (reset, broken pipe).  Pending buffer bytes are         *)
(* dropped.                                                                *)
(***************************************************************************)
Eof ==
    /\ \/ rpc = "s1" /\ creaded = 0 /\ sCloses /\ sSent = Len(ServerData)
       \/ rpc = "s2" /\ sreaded = 0 /\ cCloses /\ cSent = Len(ClientData)
    /\ Finish("eof")
    /\ UNCHANGED <<peers, relay, consumer>>

IoError ==
    /\ rpc \in {"s1", "s2"}
    /\ Finish("error")
    /\ UNCHANGED <<peers, relay, consumer>>

(***************************************************************************)
(* The capture consumer takes the flow's next event (scap/mod.rs:19-65).   *)
(* Send appends to entry.send, Receive to entry.received; Close removes    *)
(* the entry and hands it to the artifact writer.                          *)
(***************************************************************************)
\* tcp::process_scap_entry writes entry.received as request.scap and
\* entry.send as response.scap (http::process_scap_entry parses them as
\* request and response the same way round).
ArtifactOf(e) == [request |-> e.received, response |-> e.send, done |-> TRUE]

Consume ==
    LET ev == Head(events)
    IN  /\ events # <<>>
        /\ events' = Tail(events)
        /\ CASE ev.type = "Connect" ->
                  entry' = [send |-> <<>>, received |-> <<>>, open |-> TRUE]
                  /\ UNCHANGED artifact
             [] ev.type = "Send" /\ entry.open ->
                  entry' = [entry EXCEPT !.send = @ \o ev.data] /\ UNCHANGED artifact
             [] ev.type = "Receive" /\ entry.open ->
                  entry' = [entry EXCEPT !.received = @ \o ev.data] /\ UNCHANGED artifact
             [] ev.type = "Close" /\ entry.open ->
                  /\ entry' = NoEntry
                  /\ artifact' = ArtifactOf(entry)
        /\ UNCHANGED <<rpc, ended, peers, relay>>

\* Both threads are idle for good: the run ends (not a deadlock).
Ended ==
    /\ rpc = "closed" /\ events = <<>>
    /\ UNCHANGED vars

RelayStep ==
    \/ ServerRead1 \/ ClientWrite \/ ClientBufferReset
    \/ ClientRead2 \/ ServerWrite \/ ServerBufferReset
    \/ Tick \/ Eof \/ IoError

Next == RelayStep \/ Consume \/ Ended

\* The worker thread and the capture consumer thread are never descheduled
\* for good: both loops keep taking steps (the relay's sleep is bounded).
Fairness == WF_vars(RelayStep) /\ WF_vars(Consume)

Spec == Init /\ [][Next]_vars /\ Fairness

----------------------------------------------------------------------------
(***************************************************************************)
(* The relay forwards bytes in order, without loss or duplication: what   *)
(* was written to each peer, followed by what is still pending in the     *)
(* buffer, is exactly what was read from the other peer.  About the       *)
(* cursor arithmetic of the partial non-blocking writes and the buffer    *)
(* resets of intercept.                                                    *)
(***************************************************************************)
RelayInOrder ==
    /\ toServer \o SubSeq(serverBuffer, spos + 1, sreaded) = ClientRead
    /\ toClient \o SubSeq(clientBuffer, cpos + 1, creaded) = ServerRead

(***************************************************************************)
(* The flow's artifact holds the client's bytes as request and the         *)
(* server's bytes as response (spec.md 4.8, 6).  The code reaches this    *)
(* through two swaps: intercept captures server bytes through the          *)
(* from_client writer (so they land in ScapEntry.send) and tcp.rs writes   *)
(* entry.received as request.scap.                                          *)
(***************************************************************************)
ArtifactDirection ==
    artifact.done =>
        /\ artifact.request = ClientRead
        /\ artifact.response = ServerRead

(***************************************************************************)
(* A quiet connection is closed (spec.md 4.7, 5): once neither peer has   *)
(* anything left to send and nothing is pending in the buffers, the relay *)
(* eventually ends and the flow's artifact is written.                     *)
(***************************************************************************)
Quiet ==
    /\ cSent = Len(ClientData) /\ sSent = Len(ServerData)
    /\ cpos = creaded /\ spos = sreaded
QuietRelayCloses == [](Quiet => <>(artifact.done))

(***************************************************************************)
(* spec.md 8.4: when the relay ends without an I/O error (a peer closed,  *)
(* or the connection went idle), the bytes written to the server are the  *)
(* bytes read from the client, and vice versa.                             *)
(***************************************************************************)
ByteExact ==
    ended \in {"idle", "eof"} => toServer = ClientRead /\ toClient = ServerRead

=============================================================================
