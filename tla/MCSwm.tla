------------------------------- MODULE MCSwm -------------------------------
(***************************************************************************)
(* SwmClient for TLC: one EAP exchange and the watchdogs share two         *)
(* connections, the second of which replaces the first.                    *)
(***************************************************************************)
EXTENDS SwmClient

Verdicts ==
  {[code |-> c, eap |-> e, msk |-> TRUE] : c \in {"success", "other"}, e \in {"success"}}
    \cup {[code |-> "success", eap |-> "request", msk |-> TRUE],
          [code |-> "success", eap |-> "failure", msk |-> TRUE]}
============================================================================
