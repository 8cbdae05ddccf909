------------------------- MODULE MCProviderRequest -------------------------
(* Constants for model-checking ProviderRequest. *)
EXTENDS ProviderRequest

CONSTANTS o1, o2, c1
=============================================================================
