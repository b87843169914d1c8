-------------------------- MODULE MCChannelCutover --------------------------
(* One account, over two epochs and two instances of the service. *)
EXTENDS ChannelCutover

CONSTANT s1
=============================================================================
