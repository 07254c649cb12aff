----------------------------- MODULE MCCapture -----------------------------
(***************************************************************************)
(* Capture with the ScapStore of start_proxy (ScapStore::new: the default *)
(* filter, which captures every flow) and flows to port 443, the only     *)
(* rport original_dst yields; handle_client tags them Http, or Tls when   *)
(* the IP is pinned.                                                       *)
(***************************************************************************)
EXTENDS Capture

CONSTANTS f1, f2, c1, ip1

\* ScapFilter::default(): every list empty.
MCFilter == [src_in |-> {}, src_ex |-> {}, dst_in |-> {}, dst_ex |-> {}]

\* Two connections from distinct client ports.
MCAddrDistinct == [f \in {f1, f2} |->
    [remote |-> ip1, rport |-> 443, source |-> c1, sport |-> IF f = f1 THEN 5001 ELSE 5002]]

\* Two connections from one client port to ports 80 and 443 of one IP:
\* original_dst reports 443 for both, so their 4-tuples coincide.
MCAddrShared == [f \in {f1, f2} |->
    [remote |-> ip1, rport |-> 443, source |-> c1, sport |-> 5001]]
=============================================================================
