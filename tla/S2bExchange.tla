---------------------------- MODULE S2bExchange ----------------------------
(***************************************************************************)
(* What the S2b client promises its callers (internal/s2b CreateSession    *)
(* and DeleteSession): a PDN session it reports as created was created at  *)
(* the PGW, and one it reports as deleted is gone there.  After an error   *)
(* the PGW may have acted, or may act later, or never.                     *)
(***************************************************************************)
CONSTANT Session

VARIABLES
    pgw,      \* the PDN session at the PGW
    phase     \* what the caller asked for, and then what it was told

PgwState == {"none", "up", "down"}

Phase == {"idle", "creating", "created", "failed",
          "deleting", "deleted", "unconfirmed"}

Init ==
    /\ pgw = [s \in Session |-> "none"]
    /\ phase = [s \in Session |-> "idle"]

Become(s, from, to) == phase[s] = from /\ phase' = [phase EXCEPT ![s] = to]

\* A request that fails its validation is refused at once.
Ask(s) ==
    /\ \/ Become(s, "idle", "creating") \/ Become(s, "idle", "failed")
       \/ Become(s, "created", "deleting")
    /\ UNCHANGED pgw

Establish(s) ==
    /\ pgw[s] = "none"
    /\ phase[s] # "idle"
    /\ pgw' = [pgw EXCEPT ![s] = "up"]
    /\ UNCHANGED phase

\* The PGW releases the PDN session, asked by the ePDG or by itself.
Release(s) ==
    /\ pgw[s] = "up"
    /\ pgw' = [pgw EXCEPT ![s] = "down"]
    /\ UNCHANGED phase

Succeed(s) ==
    /\ \/ Become(s, "creating", "created") /\ pgw[s] # "none"
       \/ Become(s, "deleting", "deleted") /\ pgw[s] = "down"
    /\ UNCHANGED pgw

Fail(s) ==
    /\ Become(s, "creating", "failed") \/ Become(s, "deleting", "unconfirmed")
    /\ UNCHANGED pgw

Next ==
    \E s \in Session : Ask(s) \/ Establish(s) \/ Release(s) \/ Succeed(s) \/ Fail(s)

Spec == Init /\ [][Next]_<<pgw, phase>>

=============================================================================
