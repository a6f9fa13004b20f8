--------------------------- MODULE MCConsumerNames ---------------------------
(* ConsumerNames for TLC: one add-on with any options, the configured name *)
(* and two others.                                                         *)
EXTENDS ConsumerNames
=============================================================================
