--------------------------- MODULE MCConsumerPause ---------------------------
(***************************************************************************)
(* ConsumerPause on small instances: three consumers in slug order.        *)
(***************************************************************************)
EXTENDS ConsumerPause

MCAddons == 1..3
=============================================================================
