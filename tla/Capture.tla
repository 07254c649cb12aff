------------------------------ MODULE Capture ------------------------------
(***************************************************************************)
(* The capture pipeline across flows (src/src/proxy/scap/): every relay    *)
(* thread's ScapSender (Connect on creation, Send/Receive per write, Close *)
(* on drop) feeding the bounded(Cap) crossbeam channel, and the single     *)
(* consumer thread of spawn_scap_store keeping a map from the flow hash to *)
(* its ScapEntry and handing each closed entry to an artifact writer.      *)
(*                                                                          *)
(* The flow hash is get_hash of the 4-tuple, so an address record stands  *)
(* for its hash.  Bytes are tokens <<flow, n>> so that an artifact shows  *)
(* whose bytes it holds.  Which half is which follows Relay: the writers  *)
(* label client bytes Receive (entry.received, the request) and origin    *)
(* bytes Send (entry.send, the response).  Whether the HTTP writer        *)
(* completes, records an error or panics depends on the bytes, which      *)
(* ScapHttp models; here it is a choice among HttpOutcomes.                *)
(***************************************************************************)
EXTENDS Integers, Sequences, FiniteSets

CONSTANTS
    Flows,         \* redirected connections a worker relays
    Addr,          \* Flows -> ScapAddresses [remote, rport, source, sport]
    Protocols,     \* ScapProtocols handle_client may tag a flow with
    Filter,        \* the ScapFilter of the ScapStore
    Cap,           \* capacity of the bounded capture channel (1024)
    MaxWrites,     \* writes of one relay into its capture writers
    HttpOutcomes   \* "ok", "error", "panic": what http::process_scap_entry does

ASSUME Cap \in Nat \ {0} /\ MaxWrites \in Nat

VARIABLES
    fpc,        \* per flow: "start", "relay" (sender created), "done" (dropped)
    proto,      \* per flow: the protocol its ScapSender was created with
    capture,    \* per flow: ScapSender.capture
    writes,     \* per flow: writes made into the capture writers
    sentReq,    \* per flow: client bytes handed to the writers, in order
    sentResp,   \* per flow: origin bytes handed to the writers, in order
    chan,       \* the channel's queued ScapEvents, FIFO
    alive,      \* the consumer thread has not unwound
    store,      \* the consumer's BTreeMap: hash -> ScapEntry or NoEntry
    artifacts   \* artifacts written, each tagged with the flow whose Close
                \* triggered it

vars == <<fpc, proto, capture, writes, sentReq, sentResp, chan, alive, store, artifacts>>
flow == <<fpc, proto, capture, writes, sentReq, sentResp>>
consumer == <<alive, store, artifacts>>

Keys == {Addr[f] : f \in Flows}
NoEntry == [proto |-> "none", received |-> <<>>, send |-> <<>>]

(***************************************************************************)
(* ScapFilter::matches: an include match returns true, then an src        *)
(* exclude match returns false; a dst exclude match returns true, as does *)
(* no match, so dst_ex never excludes.                                    *)
(***************************************************************************)
Hit(list, ip, port) == \E r \in list : r.ip = ip /\ (r.port = 0 \/ r.port = port)

Matches(filter, a) ==
    \/ Hit(filter.src_in, a.source, a.sport)
    \/ Hit(filter.dst_in, a.remote, a.rport)
    \/ ~Hit(filter.src_ex, a.source, a.sport)

(***************************************************************************)
(* `let _ = channel.send(ev)` on a crossbeam bounded channel: blocks while *)
(* the channel is full and the receiver lives; once the consumer thread    *)
(* has unwound (its Receiver dropped) it returns Err at once, ignored.     *)
(***************************************************************************)
\* Mutation variant of ChannelSend: the capacity is not enforced.
ChannelSendUnbounded(ev) ==
    IF alive THEN chan' = Append(chan, ev) ELSE UNCHANGED chan

\* Mutation variant of ChannelSend: a sender that waits for the receiver.
ChannelSendAwaitsReceiver(ev) ==
    alive /\ Len(chan) < Cap /\ chan' = Append(chan, ev)

ChannelSend(ev) ==
    IF alive THEN Len(chan) < Cap /\ chan' = Append(chan, ev) ELSE UNCHANGED chan

Init ==
    /\ fpc = [f \in Flows |-> "start"]
    /\ proto = [f \in Flows |-> "none"]
    /\ capture = [f \in Flows |-> FALSE]
    /\ writes = [f \in Flows |-> 0]
    /\ sentReq = [f \in Flows |-> <<>>]
    /\ sentResp = [f \in Flows |-> <<>>]
    /\ chan = <<>>
    /\ alive = TRUE
    /\ store = [k \in Keys |-> NoEntry]
    /\ artifacts = {}

----------------------------------------------------------------------------
(* The relay threads, one per flow.                                        *)

\* ScapStoreRef::sender: always send Connect, then evaluate the filter.
Sender(f) ==
    /\ fpc[f] = "start"
    /\ \E p \in Protocols :
          /\ ChannelSend([type |-> "Connect", key |-> Addr[f], proto |-> p])
          /\ proto' = [proto EXCEPT ![f] = p]
    /\ capture' = [capture EXCEPT ![f] = Matches(Filter, Addr[f])]
    /\ fpc' = [fpc EXCEPT ![f] = "relay"]
    /\ UNCHANGED <<writes, sentReq, sentResp, consumer>>

(***************************************************************************)
(* A write into the client-side or origin-side writer (ScapSenderWrt::    *)
(* write): a Receive or Send ScapData with the sender's hash, unless the  *)
(* flow is not captured.                                                  *)
(***************************************************************************)
Write(f) ==
    /\ fpc[f] = "relay" /\ writes[f] < MaxWrites
    /\ LET b == <<f, writes[f] + 1>>
       IN  \/ /\ IF capture[f]
                 THEN ChannelSend([type |-> "Receive", key |-> Addr[f], data |-> <<b>>])
                 ELSE UNCHANGED chan
              /\ sentReq' = [sentReq EXCEPT ![f] = Append(@, b)]
              /\ UNCHANGED sentResp
           \/ /\ IF capture[f]
                 THEN ChannelSend([type |-> "Send", key |-> Addr[f], data |-> <<b>>])
                 ELSE UNCHANGED chan
              /\ sentResp' = [sentResp EXCEPT ![f] = Append(@, b)]
              /\ UNCHANGED sentReq
    /\ writes' = [writes EXCEPT ![f] = @ + 1]
    /\ UNCHANGED <<fpc, proto, capture, consumer>>

\* The relay returns and handle_client drops the ScapSender: Close if
\* captured.  The Close names the addresses only; flow is for the properties.
Drop(f) ==
    /\ fpc[f] = "relay"
    /\ IF capture[f]
       THEN ChannelSend([type |-> "Close", key |-> Addr[f], flow |-> f])
       ELSE UNCHANGED chan
    /\ fpc' = [fpc EXCEPT ![f] = "done"]
    /\ UNCHANGED <<proto, capture, writes, sentReq, sentResp, consumer>>

----------------------------------------------------------------------------
(* The consumer thread: receiver.recv() then one arm of the match.         *)

\* Connect: a fresh ScapEntry (old_initialized is never filled) inserted
\* under the hash, replacing any entry already there.
ConsumeConnect ==
    LET ev == Head(chan)
    IN  /\ alive /\ chan # <<>> /\ ev.type = "Connect"
        /\ chan' = Tail(chan)
        /\ store' = [store EXCEPT ![ev.key] =
                        [proto |-> ev.proto, received |-> <<>>, send |-> <<>>]]
        /\ UNCHANGED <<flow, alive, artifacts>>

\* Mutation variant of AppendData: from_server and from_client swapped.
AppendDataSwapped(e, ev) ==
    IF ev.type = "Receive" THEN [e EXCEPT !.send = @ \o ev.data]
    ELSE [e EXCEPT !.received = @ \o ev.data]

\* ScapEntry::from_server on Receive, ::from_client on Send.
AppendData(e, ev) ==
    IF ev.type = "Receive" THEN [e EXCEPT !.received = @ \o ev.data]
    ELSE [e EXCEPT !.send = @ \o ev.data]

\* Receive/Send: append to the entry under the hash; `continue` if none.
ConsumeData ==
    LET ev == Head(chan)
    IN  /\ alive /\ chan # <<>> /\ ev.type \in {"Receive", "Send"}
        /\ chan' = Tail(chan)
        /\ store' = IF store[ev.key] = NoEntry THEN store
                    ELSE [store EXCEPT ![ev.key] = AppendData(@, ev)]
        /\ UNCHANGED <<flow, alive, artifacts>>

\* The artifact a writer produces for entry e closed by flow f with outcome
\* o: the bytes of its request.scap and response.scap, <<>> for a file it
\* does not write (every writer skips an empty half).
Artifact(f, k, e, o) ==
    [flow |-> f, key |-> k, proto |-> e.proto, error |-> (o = "error"),
     request  |-> IF e.proto = "Tcp" \/ (e.proto = "Http" /\ o = "ok")
                  THEN e.received ELSE <<>>,
     response |-> IF e.proto = "Tcp" \/ (e.proto = "Http" /\ o = "ok")
                  THEN e.send ELSE <<>>]

\* Mutation variant of Dispatched: Tls falls into the `_ => continue` arm.
DispatchedNoTls(p) == p \in {"Http", "Tcp"}

\* The protocols the Close arm hands to a writer; Udp and Dns `continue`.
Dispatched(p) == p \in {"Http", "Tcp", "Tls"}

\* What a writer may do: tcp::process_scap_entry always returns (its file
\* errors are not modelled); http::process_scap_entry may also panic.
Outcomes(p) == IF p = "Http" THEN HttpOutcomes ELSE {"ok"}

(***************************************************************************)
(* Close: remove the entry under the hash (`continue` if none) and        *)
(* dispatch it.  A panicking writer unwinds the thread: its Receiver is   *)
(* dropped with every queued event, and later sends fail.                 *)
(***************************************************************************)
ConsumeClose ==
    LET ev == Head(chan)
        e  == store[ev.key]
    IN  /\ alive /\ chan # <<>> /\ ev.type = "Close"
        /\ store' = [store EXCEPT ![ev.key] = NoEntry]
        /\ IF e = NoEntry \/ ~Dispatched(e.proto)
           THEN chan' = Tail(chan) /\ UNCHANGED <<alive, artifacts>>
           ELSE \E o \in Outcomes(e.proto) :
                  IF o = "panic"
                  THEN alive' = FALSE /\ chan' = <<>> /\ UNCHANGED artifacts
                  ELSE /\ chan' = Tail(chan)
                       /\ artifacts' = artifacts \cup {Artifact(ev.flow, ev.key, e, o)}
                       /\ UNCHANGED alive
        /\ UNCHANGED flow

Relay(f) == Sender(f) \/ Write(f) \/ Drop(f)
Consume == ConsumeConnect \/ ConsumeData \/ ConsumeClose

Next == (\E f \in Flows : Relay(f)) \/ Consume

\* Each relay runs on its own worker thread and the consumer on its own
\* thread; none is descheduled for good.
Fairness == (\A f \in Flows : WF_vars(Relay(f))) /\ WF_vars(Consume)

Spec == Init /\ [][Next]_vars /\ Fairness

----------------------------------------------------------------------------
TypeOK ==
    /\ fpc \in [Flows -> {"start", "relay", "done"}]
    /\ writes \in [Flows -> 0..MaxWrites]
    /\ Len(chan) <= Cap
    /\ alive \in BOOLEAN
    /\ \A k \in Keys : store[k] = NoEntry \/ store[k].proto \in Protocols

(***************************************************************************)
(* The artifact written when a flow's Close is consumed holds exactly the *)
(* bytes that flow's relay handed to its writers, under that flow's       *)
(* protocol: its client bytes as the request and its origin bytes as the  *)
(* response.  About the consumer's map keyed by the 4-tuple hash          *)
(* (store.insert on Connect, get_mut on data, remove on Close) and the    *)
(* Send/Receive halves of ScapEntry.                                      *)
(***************************************************************************)
ArtifactOfItsFlow ==
    \A a \in artifacts :
        /\ a.proto = proto[a.flow]
        /\ a.proto = "Http" /\ ~a.error =>
              /\ a.request = sentReq[a.flow]
              /\ a.response = sentResp[a.flow]

(***************************************************************************)
(* spec.md 8.1 and 4.8: a pinned (Tls) flow's artifact contains its       *)
(* ciphertext; the Tls writer dumps each non-empty half.                  *)
(***************************************************************************)
OpaqueArtifactHasCiphertext ==
    \A a \in artifacts :
        a.proto = "Tls" /\ sentReq[a.flow] # <<>> => a.request # <<>>

(***************************************************************************)
(* Every captured flow whose sender was dropped eventually has its        *)
(* artifact, for as long as the consumer thread lives.  About the Close   *)
(* arm's dispatch to the writer of each protocol and the FIFO channel.    *)
(***************************************************************************)
ClosedFlowHasArtifact ==
    \A f \in Flows :
        fpc[f] = "done" /\ capture[f] ~> (\E a \in artifacts : a.flow = f) \/ ~alive

(***************************************************************************)
(* Every relay eventually drops its sender: a full channel only delays a  *)
(* relay thread, and a consumer that unwound never blocks one.  About     *)
(* `let _ = channel.send` on the bounded channel in sender(), write() and *)
(* drop().                                                                 *)
(***************************************************************************)
FlowsFinish == <>(\A f \in Flows : fpc[f] = "done")
=============================================================================
