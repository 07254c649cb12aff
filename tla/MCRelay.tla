------------------------------ MODULE MCRelay ------------------------------
(***************************************************************************)
(* Relay instantiated for TLC: the client sends three bytes, the server    *)
(* two, through buffers of two bytes, so that a read fills the buffer and  *)
(* leaves bytes behind, and partial writes split a buffer.                 *)
(***************************************************************************)
EXTENDS Relay

MCClientData == <<"a", "b", "c">>
MCServerData == <<"x", "y">>
=============================================================================
