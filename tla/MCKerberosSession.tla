-------------------------- MODULE MCKerberosSession --------------------------
(* An instance of KerberosSession for TLC. *)
EXTENDS KerberosSession
=============================================================================
