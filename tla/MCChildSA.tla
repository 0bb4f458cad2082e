----------------------------- MODULE MCChildSA -----------------------------
(***************************************************************************)
(* ChildSA for TLC: a UE that attaches from one IPv4 address, roams to     *)
(* another or to an IPv6 one, and sends four requests of which one may be  *)
(* handled twice.                                                          *)
(***************************************************************************)
EXTENDS ChildSA

============================================================================
