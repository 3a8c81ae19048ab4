-------------------------- MODULE MCRicartAgrawala --------------------------
(***************************************************************************)
(* Instances of RicartAgrawala for TLC: the constants are given in the     *)
(* configuration files.                                                    *)
(***************************************************************************)
EXTENDS RicartAgrawala

=============================================================================
