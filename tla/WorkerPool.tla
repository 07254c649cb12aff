----------------------------- MODULE WorkerPool -----------------------------
(***************************************************************************)
(* The listener and the worker pool (src/src/proxy/mod.rs start_proxy,    *)
(* src/src/pool.rs): the accept loop sends each accepted socket into the  *)
(* bounded(QCap) work channel, blocking while it is full, and each worker *)
(* thread loops on recv() and runs handle_client to completion.           *)
(*                                                                          *)
(* A connection is abstracted to whether handle_client returns for it.    *)
(* It does not return when a peer holds it: an upstream that never        *)
(* answers a blocking read_exact of the SOCKS5 handshake, or a peer that  *)
(* never drains its socket so that the relay's pending buffer never       *)
(* empties and its idle counter is reset on every iteration.              *)
(***************************************************************************)
EXTENDS Integers, Sequences, FiniteSets, SequencesExt

CONSTANTS
    Workers,   \* the worker threads spawned by init()
    Conns,     \* the connections clients open, in arrival order
    MaxHeld,   \* at most this many connections are held
    QCap,      \* capacity of the work channel (1024)
    NoConn

ASSUME QCap \in Nat \ {0} /\ MaxHeld \in Nat

VARIABLES
    next,      \* index in Conns of the next connection to accept
    queue,     \* sockets in the work channel, FIFO
    busy,      \* per worker: the connection it runs, or NoConn in recv()
    finished,  \* connections whose handle_client returned
    held       \* the connections a peer holds forever (the environment)

vars == <<next, queue, busy, finished, held>>

Init ==
    /\ next = 1
    /\ queue = <<>>
    /\ busy = [w \in Workers |-> NoConn]
    /\ finished = {}
    /\ held \in {S \in SUBSET ToSet(Conns) : Cardinality(S) <= MaxHeld}

\* listener.incoming() yields a socket and th_sender.send(stream) queues
\* it, blocking while the channel is full.
Accept ==
    /\ next <= Len(Conns)
    /\ Len(queue) < QCap
    /\ queue' = Append(queue, Conns[next])
    /\ next' = next + 1
    /\ UNCHANGED <<busy, finished, held>>

\* The worker loop: receiver.recv() hands the next socket to an idle worker.
Recv(w) ==
    /\ busy[w] = NoConn
    /\ queue # <<>>
    /\ busy' = [busy EXCEPT ![w] = Head(queue)]
    /\ queue' = Tail(queue)
    /\ UNCHANGED <<next, finished, held>>

\* Mutation variant of Run: the worker thread leaves its loop after one
\* connection.
RunOnce(w) ==
    /\ busy[w] \notin {NoConn} \cup held
    /\ finished' = finished \cup {busy[w]}
    /\ busy' = [busy EXCEPT ![w] = "exited"]
    /\ UNCHANGED <<next, queue, held>>

\* worker.run(work): handle_client returns (Ok or a logged error) and the
\* worker goes back to recv().  A held connection never gets here.
Run(w) ==
    /\ busy[w] \notin {NoConn} \cup held
    /\ finished' = finished \cup {busy[w]}
    /\ busy' = [busy EXCEPT ![w] = NoConn]
    /\ UNCHANGED <<next, queue, held>>

Next == Accept \/ \E w \in Workers : Recv(w) \/ Run(w)

\* The listener and every worker are threads of their own that the OS keeps
\* scheduling; nothing is assumed of the peers.
Fairness == WF_vars(Accept) /\ \A w \in Workers : WF_vars(Recv(w)) /\ WF_vars(Run(w))

Spec == Init /\ [][Next]_vars /\ Fairness

----------------------------------------------------------------------------
(***************************************************************************)
(* Every connection that no peer holds is eventually served: accepted,    *)
(* taken by a worker and run to completion.  About the recv loop of       *)
(* spawn_worker and the blocking send of the accept loop; the code has no *)
(* per-flow time limit, so this needs a worker that no held connection    *)
(* occupies.                                                               *)
(***************************************************************************)
EveryConnServed == \A i \in DOMAIN Conns : Conns[i] \notin held => <>(Conns[i] \in finished)
=============================================================================
