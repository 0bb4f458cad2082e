----------------------------- MODULE SessionFSM -----------------------------
(***************************************************************************)
(* internal/session/fsm.go: the states of a session and the transitions    *)
(* Session.Transition accepts.  Every caller in the repository discards    *)
(* Transition's error, so a rejected transition leaves the state as it is. *)
(***************************************************************************)

SessionState == {"New", "EAPAuthenticating", "EAPAuthenticated",
                 "S2bCreateSessionSent", "S2bAccepted", "GTPUInstalling",
                 "DatapathInstalling", "Active", "CleaningUp", "Failed",
                 "Deleted"}

\* The states of an attach, in the order in which they are entered.
AttachStep ==
    {<<"New", "EAPAuthenticating">>,
     <<"EAPAuthenticating", "EAPAuthenticated">>,
     <<"EAPAuthenticated", "S2bCreateSessionSent">>,
     <<"S2bCreateSessionSent", "S2bAccepted">>,
     <<"S2bAccepted", "GTPUInstalling">>,
     <<"GTPUInstalling", "DatapathInstalling">>,
     <<"DatapathInstalling", "Active">>}

\* Mutant: cleaning up a deleted session is allowed.
ReopeningTransitions ==
    AttachStep
        \cup ((SessionState \ {"Failed", "Deleted"}) \X {"Failed"})
        \cup ((SessionState \ {"New", "CleaningUp"}) \X {"CleaningUp"})
        \cup ({"CleaningUp", "Failed"} \X {"Deleted"})

allowedTransitions ==
    AttachStep
        \cup ((SessionState \ {"Failed", "Deleted"}) \X {"Failed"})
        \cup ((SessionState \ {"New", "CleaningUp", "Deleted"}) \X {"CleaningUp"})
        \cup ({"CleaningUp", "Failed"} \X {"Deleted"})

\* The state after Transition(next), whether or not it returned an error.
Transition(state, next) ==
    IF <<state, next>> \in allowedTransitions THEN next ELSE state
=============================================================================
