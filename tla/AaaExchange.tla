---------------------------- MODULE AaaExchange ----------------------------
(***************************************************************************)
(* What the SWm client promises its callers (internal/swm ExchangeEAP and  *)
(* TerminateSession): a call that returns without an error returns what    *)
(* the AAA server decided on that very request, a session key only when    *)
(* the server granted access and sent one.  After an error the server may  *)
(* have decided, may yet decide, or never.                                 *)
(***************************************************************************)
CONSTANTS
  Call,     \* the calls
  Verdict,  \* what the AAA server may answer to an EAP exchange
  Ack,      \* its answer to a termination
  None

VARIABLES
  verdict,  \* what the AAA server decided on each call's request
  told      \* what each call returned

Outcome ==
  [state : {"challenge", "success", "failure"}, allowed : BOOLEAN, msk : BOOLEAN]
    \cup {[state |-> "terminated"], [state |-> "error"]}

Init ==
  /\ verdict = [k \in Call |-> None]
  /\ told = [k \in Call |-> [state |-> "idle"]]

Ask(k) ==
  /\ told[k].state = "idle"
  /\ told' = [told EXCEPT ![k] = [state |-> "asked"]]
  /\ UNCHANGED verdict

Decide(k) ==
  /\ told[k].state # "idle" /\ verdict[k] = None
  /\ \E v \in Verdict \cup {Ack} : verdict' = [verdict EXCEPT ![k] = v]
  /\ UNCHANGED told

\* Access is granted on a success code and nothing but EAP-Success with it.
Justified(o, v) ==
  CASE o.state = "error" -> TRUE
    [] o.state = "terminated" -> v = Ack
    [] OTHER ->
         /\ v \in Verdict
         /\ o.allowed => v.code = "success" /\ v.eap \in {"none", "success"}
         /\ o.msk => o.allowed /\ v.msk
         /\ o.state = "challenge" <=> v.eap = "request"
         /\ o.state = "success" => v.eap \in {"none", "success"}

Tell(k) ==
  /\ told[k].state = "asked"
  /\ \E o \in Outcome : Justified(o, verdict[k]) /\ told' = [told EXCEPT ![k] = o]
  /\ UNCHANGED verdict

Next == \E k \in Call : Ask(k) \/ Decide(k) \/ Tell(k)

Spec == Init /\ [][Next]_<<verdict, told>>
============================================================================
