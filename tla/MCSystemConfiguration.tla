------------------------ MODULE MCSystemConfiguration ------------------------
(* A small instance of SystemConfiguration for TLC.                         *)
EXTENDS SystemConfiguration
=============================================================================
