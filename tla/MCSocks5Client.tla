--------------------------- MODULE MCSocks5Client ---------------------------
(***************************************************************************)
(* Socks5Client against upstreams answering with every bound-address type *)
(* the decoder handles, a success and a refusal, with and without payload  *)
(* right behind the reply.  Destinations are port 443, the only port       *)
(* original_dst yields, over IPv4 and IPv6.                                *)
(***************************************************************************)
EXTENDS Socks5Client

V4(b) == [type |-> "V4", bytes |-> b]
V6(b) == [type |-> "V6", bytes |-> b]
Domain(b) == [type |-> "Domain", bytes |-> b]

MCDsts == {[ip |-> V4(<<10, 0, 0, 1>>), port |-> 443],
           [ip |-> V6(Zeros(15) \o <<1>>), port |-> 443]}

MCReplies ==
    {[version |-> 5, reply |-> code, rsv |-> 0, bnd_addr |-> a, bnd_port |-> 1080] :
        code \in {REP_SUCCEEDED, 5},
        a \in {V4(<<10, 0, 0, 2>>), V6(Zeros(16)), Domain(<<112, 120>>)}}

MCPayloads == {<<>>, <<72, 84>>}
=============================================================================
