-------------------------------- MODULE Epdg --------------------------------
(***************************************************************************)
(* The life of a subscriber's connection through the ePDG: the IKE SA      *)
(* table and its handlers (internal/ikev2), the session manager and its    *)
(* state machine (internal/session), and the PGW-initiated teardown        *)
(* callbacks (cmd/epdg/main.go), with the resources they allocate in the   *)
(* GTP-U dataplane, in the kernel, at the PGW and at the AAA server.       *)
(*                                                                         *)
(* Every goroutine is a process.  A step of the model is a stretch of code *)
(* between two points where another goroutine can observe or change what   *)
(* it works on: a critical section, or a call to another component.        *)
(***************************************************************************)
EXTENDS Naturals, FiniteSets, SessionFSM

CONSTANTS
    SA,           \* the ikeSA objects a run may allocate; an object also
                  \* names the session, Diameter session, PDN session and
                  \* CHILD SA that were first created for it
    SPI,          \* initiator SPIs
    Subscriber,   \* IMSI + APN pairs
    Worker,       \* goroutines of the IKE worker pool (server.go readLoop)
    PgwHandler,   \* goroutines started for a PGW Delete Session Request
    ReadLoop,     \* the S2b read loop, which runs Delete Bearer inline
    DpdReaper,    \* reaperLoop
    HalfOpenReaper, \* halfOpenReaperLoop
    FirstAuth,    \* what first IKE_AUTH requests ask for
    None          \* nil

Proc == Worker \cup PgwHandler \cup ReadLoop \cup DpdReaper \cup HalfOpenReaper

ASSUME ProcessKinds ==
    /\ Worker \cap (PgwHandler \cup ReadLoop \cup DpdReaper \cup HalfOpenReaper) = {}
    /\ PgwHandler \cap (ReadLoop \cup DpdReaper \cup HalfOpenReaper) = {}
    /\ ReadLoop \cap (DpdReaper \cup HalfOpenReaper) = {}
    /\ DpdReaper \cap HalfOpenReaper = {}

ASSUME NoneIsNil == None \notin SA \cup SPI \cup Subscriber \cup Proc

\* handover: a non-zero INTERNAL_IP4_ADDRESS; esp: an acceptable ESP proposal.
ASSUME FirstAuthType == FirstAuth \subseteq [handover : BOOLEAN, esp : BOOLEAN]

VARIABLES
    sas,      \* Server.sas: the SA found under an initiator SPI
    sa,       \* the ikeSA objects
    lock,     \* ikeSA.mu: the goroutine that holds it
    sess,     \* the session.Session objects
    mgr,      \* session.Manager.sessions: the sessions a lookup can find
    gtpu,     \* gtpu.Manager.sessionsByID: sessions with a GTP-U tunnel
    kernel,   \* CHILD SAs whose XFRM states are installed
    policy,   \* CHILD SAs whose XFRM policies are installed
    pgw,      \* the PGW's view of the PDN session
    authorized, \* Diameter sessions the AAA server has authenticated
    causes,   \* Termination-Causes of the STRs sent for a Diameter session
    lost,     \* PDN sessions for which a GTPv2-C exchange failed
    proc      \* program counter and local variables of each goroutine

vars == <<sas, sa, lock, sess, mgr, gtpu, kernel, policy, pgw, authorized, causes,
          lost, proc>>

-----------------------------------------------------------------------------
(* State *)

IkeState == {"free", "auth", "established", "deleting"}

\* "first": eapRound = 0; "eap": later rounds without a 64-byte MSK;
\* "msk": the AAA's MSK is held.
EapState == {"first", "eap", "msk"}

ikeSA == [state : IkeState,
          spi : SPI \cup {None},
          ue : Subscriber \cup {None},
          known : BOOLEAN,              \* the UE holds this SA's keys
          eap : EapState,
          handoverIP : BOOLEAN,
          espProp : BOOLEAN,
          child : SA \cup {None},       \* localESPSPI
          sessionID : SA \cup {None},
          swmSessionID : SA \cup {None},
          dpd : BOOLEAN]                \* a DPD probe is outstanding

FreeSA == [state |-> "free", spi |-> None, ue |-> None, known |-> FALSE,
           eap |-> "first", handoverIP |-> FALSE, espProp |-> FALSE,
           child |-> None, sessionID |-> None, swmSessionID |-> None,
           dpd |-> FALSE]

Session == [state : SessionState,
            ue : Subscriber \cup {None},
            spi : SPI \cup {None},      \* IkeSPII
            s2b : BOOLEAN,              \* S2B # nil
            handoverComplete : BOOLEAN]

NewSession == [state |-> "New", ue |-> None, spi |-> None, s2b |-> FALSE,
               handoverComplete |-> FALSE]

\* handleAuthFinal, holding the lock of the SA in the frame's "sa" field
AuthPC == {"find", "lookup", "detach", "create", "accept", "install", "gtpu", "activate"}

\* fullTeardown, holding the lock of the SA in the frame's "other" field
TearDownPC == {"td_xfrm", "td_begin", "td_gtpu", "td_s2b", "td_end", "td_str", "td_sa"}

\* handlePGWDelete and handlePGWDeleteBearer
CleanupPC == {"cl_begin", "cl_gtpu", "cl_end", "pgw_str", "pgw_forget", "bearer_done"}

PC == AuthPC \cup TearDownPC \cup CleanupPC \cup {"idle", "init", "rekeyed", "expire"}

\* where a *Session is held in a local variable
SessionPC == CleanupPC \cup {"lookup", "activate", "td_gtpu", "td_s2b", "td_end"}

Frame == [pc : PC,
          spi : SPI \cup {None},
          sa : SA \cup {None},          \* the SA of the packet
          other : SA \cup {None},       \* SA being torn down, or rekeyed to
          sess : SA \cup {None},        \* *Session held in a local variable
          handover : BOOLEAN]

Idle == [pc |-> "idle", spi |-> None, sa |-> None, other |-> None,
         sess |-> None, handover |-> FALSE]

Init ==
    /\ sas = [i \in SPI |-> None]
    /\ sa = [a \in SA |-> FreeSA]
    /\ lock = [a \in SA |-> None]
    /\ sess = [a \in SA |-> NewSession]
    /\ mgr = {}
    /\ gtpu = {}
    /\ kernel = {}
    /\ policy = {}
    /\ pgw = [a \in SA |-> "none"]
    /\ authorized = {}
    /\ causes = [a \in SA |-> {}]
    /\ lost = {}
    /\ proc = [p \in Proc |-> Idle]

-----------------------------------------------------------------------------
(* Helpers *)

At(p, pc) == proc[p].pc = pc

Goto(p, pc) == proc' = [proc EXCEPT ![p].pc = pc]

Call(p, pc, a) == proc' = [proc EXCEPT ![p] = [Idle EXCEPT !.pc = pc, !.sa = a]]

Return(p) == proc' = [proc EXCEPT ![p] = Idle]

Acquire(p, a) == lock[a] = None /\ lock' = [lock EXCEPT ![a] = p]

Release(a) == lock' = [lock EXCEPT ![a] = None]

Step(s, next) == [s EXCEPT !.state = Transition(s.state, next)]

-----------------------------------------------------------------------------
(* IKE_SA_INIT: handleIKESAInit *)

\* The source address of an SA changes when the UE moves to port 4500 in its
\* first IKE_AUTH, which is also when the SA gets a session.
MayHaveFloated(a) == sa[a].sessionID # None

\* A retransmission recognised as one: the cached response is sent again, and
\* reaches a UE that has not seen it yet.
InitRetransmit(w, i) ==
    /\ At(w, "idle")
    /\ sas[i] # None
    /\ lock[sas[i]] = None
    /\ sa[sas[i]].state = "auth"
    /\ ~sa[sas[i]].known
    /\ sa' = [sa EXCEPT ![sas[i]].known = TRUE]
    /\ UNCHANGED <<sas, lock, sess, mgr, gtpu, kernel, policy, pgw, authorized, causes,
                   lost, proc>>

\* Any other IKE_SA_INIT is processed in full.
InitLookup(w, i) ==
    /\ At(w, "idle")
    /\ sas[i] # None =>
          /\ lock[sas[i]] = None
          /\ (sa[sas[i]].state # "auth" \/ MayHaveFloated(sas[i]))
    /\ proc' = [proc EXCEPT ![w] = [Idle EXCEPT !.pc = "init", !.spi = i]]
    /\ UNCHANGED <<sas, sa, lock, sess, mgr, gtpu, kernel, policy, pgw, authorized,
                   causes, lost>>

\* COOKIE challenge, hard cap, bad proposal, wrong group, failed decoding.
InitReject(w) ==
    /\ At(w, "init")
    /\ Return(w)
    /\ UNCHANGED <<sas, sa, lock, sess, mgr, gtpu, kernel, policy, pgw, authorized,
                   causes, lost>>

\* storeSA replaces whatever the table held under the SPI, of whichever
\* subscriber: nothing asks that a UE choose an SPI that is new.  The request
\* may be a late duplicate, or its response lost; then no UE holds the keys.
InitStore(w) ==
    /\ At(w, "init")
    /\ LET i == proc[w].spi IN
       \E b \in SA, u \in Subscriber, k \in BOOLEAN :
          /\ sa[b].state = "free"
          /\ sa' = [sa EXCEPT ![b] = [FreeSA EXCEPT !.state = "auth", !.spi = i,
                                                   !.ue = u, !.known = k]]
          /\ sas' = [sas EXCEPT ![i] = b]
    /\ Return(w)
    /\ UNCHANGED <<lock, sess, mgr, gtpu, kernel, policy, pgw, authorized, causes, lost>>

-----------------------------------------------------------------------------
(* Packets of an established or half-open SA *)

\* An idle worker takes a packet of SA a and gets the SA's lock.  A packet that
\* finds another SA than the one it was encrypted for fails to decrypt, and at
\* most counts as a sign of life (UeAlive); one that finds the wrong state is
\* dropped.  The lookup and the lock are one step: what removes the table entry
\* in between could as well do so after both.
Packet(w, a) ==
    /\ At(w, "idle")
    /\ sa[a].known
    /\ sas[sa[a].spi] = a
    /\ lock[a] = None

-----------------------------------------------------------------------------
(* IKE_AUTH: handleAuthRound1, handleAuthEAP *)

\* Outcome of ExchangeEAP; "nomsk" is a success without a 64-byte MSK.
EapResult == {"error", "failure", "challenge", "success", "nomsk"}

EapAfter(eap, r) ==
    CASE r = "error" -> eap
      [] r = "success" -> "msk"
      [] r = "nomsk" -> "eap"
      [] OTHER -> IF eap = "first" THEN "eap" ELSE eap

AuthorizedAfter(a, r) ==
    IF r \in {"success", "nomsk"} THEN authorized \cup {a} ELSE authorized

SessionAfter(s, r) ==
    IF r \in {"success", "nomsk"} THEN Step(s, "EAPAuthenticated") ELSE s

AuthRound1(w, a) ==
    /\ Packet(w, a)
    /\ sa[a].state = "auth"
    /\ sa[a].eap = "first"
    /\ \E r \in EapResult, req \in FirstAuth :
          LET s0 == IF a \in mgr THEN sess[a] ELSE NewSession
              s1 == Step([s0 EXCEPT !.ue = sa[a].ue, !.spi = sa[a].spi],
                         "EAPAuthenticating")
          IN
          /\ sess' = [sess EXCEPT ![a] = SessionAfter(s1, r)]
          /\ sa' = [sa EXCEPT ![a] =
                [sa[a] EXCEPT !.sessionID = a,
                              !.handoverIP = @ \/ req.handover,
                              !.espProp = @ \/ req.esp,
                              !.swmSessionID = IF r = "error" THEN @ ELSE a,
                              !.eap = EapAfter(@, r)]]
          /\ authorized' = AuthorizedAfter(a, r)
    /\ mgr' = mgr \cup {a}
    /\ UNCHANGED <<sas, lock, gtpu, kernel, policy, pgw, causes, lost, proc>>

AuthEAP(w, a) ==
    /\ Packet(w, a)
    /\ sa[a].state = "auth"
    /\ sa[a].eap # "first"
    /\ \E r \in EapResult :
          /\ sa' = [sa EXCEPT ![a].eap = EapAfter(@, r)]
          /\ authorized' = AuthorizedAfter(a, r)
          /\ sess' = IF a \in mgr
                     THEN [sess EXCEPT ![a] = SessionAfter(@, r)]
                     ELSE sess
    /\ UNCHANGED <<sas, lock, mgr, gtpu, kernel, policy, pgw, causes, lost, proc>>

-----------------------------------------------------------------------------
(* IKE_AUTH: handleAuthFinal, holding the SA's lock throughout *)

\* Mutant: the MSK's length is not checked.
AuthFinalAnyRound(w, a) ==
    /\ Packet(w, a)
    /\ sa[a].state = "auth"
    /\ sa[a].eap # "first"
    /\ lock' = [lock EXCEPT ![a] = w]
    /\ Call(w, IF sa[a].handoverIP THEN "create" ELSE "find", a)
    /\ UNCHANGED <<sas, sa, sess, mgr, gtpu, kernel, policy, pgw, authorized, causes, lost>>

\* The UE's AUTH verifies under the MSK.
AuthFinal(w, a) ==
    /\ Packet(w, a)
    /\ sa[a].state = "auth"
    /\ sa[a].eap = "msk"
    /\ lock' = [lock EXCEPT ![a] = w]
    /\ Call(w, IF sa[a].handoverIP THEN "create" ELSE "find", a)
    /\ UNCHANGED <<sas, sa, sess, mgr, gtpu, kernel, policy, pgw, authorized, causes, lost>>

\* Mutant: a session that is not Active counts, the attaching one included.
SessionsOf(u) == {s \in mgr : sess[s].ue = u}

ActiveSessions(u) == {s \in mgr : sess[s].ue = u /\ sess[s].state = "Active"}

\* Mutant: the search locks the SA, whose lock handlePacket already holds.
FindOldLocksAgain(w) ==
    LET found == ActiveSessions(sa[proc[w].sa].ue) IN
    /\ At(w, "find") /\ lock[proc[w].sa] = None
    /\ IF Cardinality(found) = 1
       THEN \E s \in found :
              proc' = [proc EXCEPT ![w].pc = "lookup", ![w].sess = s]
       ELSE Goto(w, "create")
    /\ UNCHANGED <<sas, sa, lock, sess, mgr, gtpu, kernel, policy, pgw, authorized,
                   causes, lost>>

\* FindSingleActiveByIMSIAPN: nothing is found when two sessions match.
FindOld(w) ==
    LET found == ActiveSessions(sa[proc[w].sa].ue) IN
    /\ At(w, "find")
    /\ IF Cardinality(found) = 1
       THEN \E s \in found :
              proc' = [proc EXCEPT ![w].pc = "lookup", ![w].sess = s]
       ELSE Goto(w, "create")
    /\ UNCHANGED <<sas, sa, lock, sess, mgr, gtpu, kernel, policy, pgw, authorized,
                   causes, lost>>

\* Mutant: a nil SA is not noticed.
LookupOldUnchecked(w) ==
    LET old == sas[sess[proc[w].sess].spi] IN
    /\ At(w, "lookup")
    /\ proc' = [proc EXCEPT ![w].pc = "detach", ![w].sess = None, ![w].other = old]
    /\ UNCHANGED <<sas, sa, lock, sess, mgr, gtpu, kernel, policy, pgw, authorized,
                   causes, lost>>

\* The old session's SPI leads to the SA to tear down.
LookupOld(w) ==
    LET old == sas[sess[proc[w].sess].spi] IN
    /\ At(w, "lookup")
    /\ proc' = IF old = None
               THEN [proc EXCEPT ![w].pc = "create", ![w].sess = None]
               ELSE [proc EXCEPT ![w].pc = "detach", ![w].sess = None,
                                 ![w].other = old]
    /\ UNCHANGED <<sas, sa, lock, sess, mgr, gtpu, kernel, policy, pgw, authorized,
                   causes, lost>>

\* The old SA's state is not looked at before it is torn down.
DetachOld(w) ==
    LET old == proc[w].other IN
    /\ At(w, "detach")
    /\ Acquire(w, old)
    /\ sa' = [sa EXCEPT ![old].state = "deleting"]
    /\ Goto(w, "td_xfrm")
    /\ UNCHANGED <<sas, sess, mgr, gtpu, kernel, policy, pgw, authorized, causes, lost>>

\* S2b CreateSession: the PGW accepts, or the exchange fails before or after
\* the PGW has created the PDN session.
CreateSession(w) ==
    LET a == proc[w].sa IN
    /\ At(w, "create")
    /\ \/ /\ pgw' = [pgw EXCEPT ![a] = "up"]
          /\ Goto(w, "accept")
          /\ UNCHANGED <<lock, lost>>
       \/ /\ \/ pgw' = [pgw EXCEPT ![a] = "up"] /\ lost' = lost \cup {a}
             \/ UNCHANGED <<pgw, lost>>
          /\ Release(a)
          /\ Return(w)
    /\ UNCHANGED <<sas, sa, sess, mgr, gtpu, kernel, policy, authorized, causes>>

\* The session gets its S2b context and the SA becomes established.  A UE
\* that offered no CHILD SA is answered at once.  localESPSPI is chosen.
Accept(w) ==
    LET a == proc[w].sa IN
    /\ At(w, "accept")
    /\ sess' = IF a \in mgr
               THEN [sess EXCEPT ![a] =
                       [Step(Step(@, "S2bCreateSessionSent"), "S2bAccepted")
                          EXCEPT !.s2b = TRUE]]
               ELSE sess
    /\ sa' = [sa EXCEPT ![a].state = "established", ![a].child = a]
    /\ IF sa[a].espProp
       THEN Goto(w, "install") /\ UNCHANGED lock
       ELSE Release(a) /\ Return(w)
    /\ UNCHANGED <<sas, mgr, gtpu, kernel, policy, pgw, authorized, causes, lost>>

\* xfrm.InstallChildSA succeeds, or fails after undoing what it installed.
InstallChildSA(w) ==
    LET a == proc[w].sa IN
    /\ At(w, "install")
    /\ \/ /\ kernel' = kernel \cup {a}
          /\ policy' = policy \cup {a}
          /\ sess' = IF a \in mgr
                     THEN [sess EXCEPT ![a] = Step(@, "GTPUInstalling")]
                     ELSE sess
          /\ Goto(w, "gtpu")
          /\ UNCHANGED lock
       \/ /\ Release(a)
          /\ Return(w)
          /\ UNCHANGED <<kernel, policy, sess>>
    /\ UNCHANGED <<sas, sa, mgr, gtpu, pgw, authorized, causes, lost>>

\* sessions.Get and gtpu.Manager.AddSession, which installs the tunnel or fails
\* and rolls back.  A session that is gone by now gets no tunnel, and the UE is
\* told that the attach succeeded.
AddSession(w) ==
    LET a == proc[w].sa IN
    /\ At(w, "gtpu")
    /\ \/ /\ a \in mgr
          /\ sess[a].s2b
          /\ gtpu' = gtpu \cup {a}
          /\ proc' = [proc EXCEPT ![w].pc = "activate", ![w].sess = a]
          /\ UNCHANGED lock
       \/ /\ Release(a)
          /\ Return(w)
          /\ UNCHANGED gtpu
    /\ UNCHANGED <<sas, sa, sess, mgr, kernel, policy, pgw, authorized, causes, lost>>

\* Mutant: the state is assigned, not requested of Transition.
ActivateAlways(w) ==
    /\ At(w, "activate")
    /\ sess' = [sess EXCEPT ![proc[w].sess].state = "Active"]
    /\ Release(proc[w].sa)
    /\ Return(w)
    /\ UNCHANGED <<sas, sa, mgr, gtpu, kernel, policy, pgw, authorized, causes, lost>>

Activate(w) ==
    /\ At(w, "activate")
    /\ sess' = [sess EXCEPT ![proc[w].sess] =
                   Step(Step(@, "DatapathInstalling"), "Active")]
    /\ Release(proc[w].sa)
    /\ Return(w)
    /\ UNCHANGED <<sas, sa, mgr, gtpu, kernel, policy, pgw, authorized, causes, lost>>

-----------------------------------------------------------------------------
(* INFORMATIONAL: handleInformational *)

\* A request, or an answer to a probe, ends the probe before it is decrypted.
UeAlive(w, a) ==
    /\ At(w, "idle")
    /\ sa[a].dpd
    /\ \E i \in SPI : sas[i] = a
    /\ lock[a] = None
    /\ sa' = [sa EXCEPT ![a].dpd = FALSE]
    /\ UNCHANGED <<sas, lock, sess, mgr, gtpu, kernel, policy, pgw, authorized, causes,
                   lost, proc>>

\* DELETE of the IKE SA, in whatever state the SA is except "deleting".
DeleteIKE(w, a) ==
    /\ Packet(w, a)
    /\ sa[a].state # "deleting"
    /\ lock' = [lock EXCEPT ![a] = w]
    /\ sa' = [sa EXCEPT ![a].state = "deleting", ![a].dpd = FALSE]
    /\ proc' = [proc EXCEPT ![w] = [Idle EXCEPT !.pc = "td_xfrm", !.other = a]]
    /\ UNCHANGED <<sas, sess, mgr, gtpu, kernel, policy, pgw, authorized, causes, lost>>

-----------------------------------------------------------------------------
(* CREATE_CHILD_SA: handleIKESARekey *)

\* The new SA inherits the session and the CHILD SA and enters the table, under
\* whatever SPI the UE proposed ...
RekeyStore(w, a) ==
    /\ Packet(w, a)
    /\ sa[a].state = "established"
    /\ lock' = [lock EXCEPT ![a] = w]
    /\ \E b \in SA, i \in SPI :
          /\ sa[b].state = "free"
          /\ sa' = [sa EXCEPT ![b] =
                [FreeSA EXCEPT !.state = "established", !.spi = i,
                               !.ue = sa[a].ue, !.known = TRUE,
                               !.espProp = sa[a].espProp, !.child = sa[a].child,
                               !.sessionID = sa[a].sessionID,
                               !.swmSessionID = sa[a].swmSessionID]]
          /\ sas' = [sas EXCEPT ![i] = b]
          /\ proc' = [proc EXCEPT ![w] = [Idle EXCEPT !.pc = "rekeyed", !.sa = a,
                                                   !.other = b]]
    /\ UNCHANGED <<sess, mgr, gtpu, kernel, policy, pgw, authorized, causes, lost>>

\* Mutant: the old SA keeps its reference to the session.
RekeyedKeepsSession(w) ==
    LET a == proc[w].sa
        s == sa[a].sessionID
    IN
    /\ At(w, "rekeyed")
    /\ sess' = IF s \in mgr
               THEN [sess EXCEPT ![s].spi = sa[proc[w].other].spi]
               ELSE sess
    /\ sa' = [sa EXCEPT ![a].swmSessionID = None,
                        ![a].espProp = FALSE]
    /\ Release(a)
    /\ Return(w)
    /\ UNCHANGED <<sas, mgr, gtpu, kernel, policy, pgw, authorized, causes, lost>>

\* ... then the session is pointed at it and the old SA lets go of both.
Rekeyed(w) ==
    LET a == proc[w].sa
        s == sa[a].sessionID
    IN
    /\ At(w, "rekeyed")
    /\ sess' = IF s \in mgr
               THEN [sess EXCEPT ![s].spi = sa[proc[w].other].spi]
               ELSE sess
    /\ sa' = [sa EXCEPT ![a].sessionID = None, ![a].swmSessionID = None,
                        ![a].espProp = FALSE]
    /\ Release(a)
    /\ Return(w)
    /\ UNCHANGED <<sas, mgr, gtpu, kernel, policy, pgw, authorized, causes, lost>>

-----------------------------------------------------------------------------
(* fullTeardown *)

\* removeXFRMChildSA: the policies are found by the PAA of the session, so they
\* are missed when the session or its S2b context is gone.
TearDownXfrm(p) ==
    LET a == proc[p].other
        s == sa[a].sessionID
    IN
    /\ At(p, "td_xfrm")
    /\ IF sa[a].espProp /\ sa[a].child # None
       THEN /\ kernel' = kernel \ {sa[a].child}
            /\ policy' = IF s \in mgr /\ sess[s].s2b
                         THEN policy \ {sa[a].child}
                         ELSE policy
       ELSE UNCHANGED <<kernel, policy>>
    /\ Goto(p, "td_begin")
    /\ UNCHANGED <<sas, sa, lock, sess, mgr, gtpu, pgw, authorized, causes, lost>>

\* Mutant: the PDN session is released only if the session was Active.
TearDownBeginNoS2b(p) ==
    LET s == sa[proc[p].other].sessionID IN
    /\ At(p, "td_begin")
    /\ IF s \in mgr
       THEN /\ sess' = [sess EXCEPT ![s] = Step(@, "CleaningUp")]
            /\ proc' = [proc EXCEPT ![p] =
                  [@ EXCEPT !.pc = IF sess[s].state = "Active" THEN "td_gtpu" ELSE "td_end",
                            !.sess = s,
                            !.handover = sess[s].handoverComplete]]
       ELSE Goto(p, "td_str") /\ UNCHANGED sess
    /\ UNCHANGED <<sas, sa, lock, mgr, gtpu, kernel, policy, pgw, authorized, causes, lost>>

TearDownBegin(p) ==
    LET s == sa[proc[p].other].sessionID IN
    /\ At(p, "td_begin")
    /\ IF s \in mgr
       THEN /\ sess' = [sess EXCEPT ![s] = Step(@, "CleaningUp")]
            /\ proc' = [proc EXCEPT ![p] =
                  [@ EXCEPT !.pc = IF sess[s].s2b THEN "td_gtpu" ELSE "td_end",
                            !.sess = s,
                            !.handover = sess[s].handoverComplete]]
       ELSE Goto(p, "td_str") /\ UNCHANGED sess
    /\ UNCHANGED <<sas, sa, lock, mgr, gtpu, kernel, policy, pgw, authorized, causes, lost>>

TearDownGtpu(p) ==
    /\ At(p, "td_gtpu")
    /\ gtpu' = gtpu \ {proc[p].sess}
    /\ Goto(p, "td_s2b")
    /\ UNCHANGED <<sas, sa, lock, sess, mgr, kernel, policy, pgw, authorized, causes, lost>>

\* DeleteSession: answered by the PGW, or failed before or after it acted.
TearDownS2b(p) ==
    LET s == proc[p].sess IN
    /\ At(p, "td_s2b")
    /\ \/ pgw' = [pgw EXCEPT ![s] = "down"] /\ lost' \in {lost, lost \cup {s}}
       \/ pgw' = pgw /\ lost' = lost \cup {s}
    /\ Goto(p, "td_end")
    /\ UNCHANGED <<sas, sa, lock, sess, mgr, gtpu, kernel, policy, authorized, causes>>

TearDownEnd(p) ==
    LET s == proc[p].sess IN
    /\ At(p, "td_end")
    /\ sess' = [sess EXCEPT ![s] = Step(@, "Deleted")]
    /\ mgr' = mgr \ {s}
    /\ proc' = [proc EXCEPT ![p].pc = "td_str", ![p].sess = None]
    /\ UNCHANGED <<sas, sa, lock, gtpu, kernel, policy, pgw, authorized, causes, lost>>

SendSTR(s, handover) ==
    causes' = [causes EXCEPT ![s] = @ \cup {IF handover THEN "USER_MOVED" ELSE "LOGOUT"}]

TearDownSTR(p) ==
    LET a == proc[p].other IN
    /\ At(p, "td_str")
    /\ IF sa[a].swmSessionID # None
       THEN SendSTR(sa[a].swmSessionID, proc[p].handover)
       ELSE UNCHANGED causes
    /\ Goto(p, "td_sa")
    /\ UNCHANGED <<sas, sa, lock, sess, mgr, gtpu, kernel, policy, pgw, authorized, lost>>

\* deleteSA removes whatever is stored under the SPI.  An implicit detach goes
\* on with the attach it belongs to.
TearDownSA(p) ==
    LET a == proc[p].other IN
    /\ At(p, "td_sa")
    /\ sas' = [sas EXCEPT ![sa[a].spi] = None]
    /\ Release(a)
    /\ IF proc[p].sa \in SA \ {a}
       THEN proc' = [proc EXCEPT ![p] = [Idle EXCEPT !.pc = "create", !.sa = proc[p].sa]]
       ELSE Return(p)
    /\ UNCHANGED <<sa, sess, mgr, gtpu, kernel, policy, pgw, authorized, causes, lost>>

TearDown(p) ==
    \/ TearDownXfrm(p) \/ TearDownBegin(p) \/ TearDownGtpu(p) \/ TearDownS2b(p)
    \/ TearDownEnd(p) \/ TearDownSTR(p) \/ TearDownSA(p)

-----------------------------------------------------------------------------
(* reaperLoop and halfOpenReaperLoop *)

DpdProbe(p, a) ==
    /\ At(p, "idle")
    /\ sa[a].state = "established"
    /\ sas[sa[a].spi] = a
    /\ lock[a] = None
    /\ ~sa[a].dpd
    /\ sa' = [sa EXCEPT ![a].dpd = TRUE]
    /\ UNCHANGED <<sas, lock, sess, mgr, gtpu, kernel, policy, pgw, authorized, causes,
                   lost, proc>>

\* Mutant: only SAs with a live session are reaped.
DpdTimeoutOnlySessions(p, a) ==
    /\ At(p, "idle")
    /\ sa[a].state = "established"
    /\ sas[sa[a].spi] = a
    /\ Acquire(p, a)
    /\ sa[a].dpd
    /\ sa[a].sessionID \in mgr
    /\ sa' = [sa EXCEPT ![a].state = "deleting"]
    /\ proc' = [proc EXCEPT ![p] = [Idle EXCEPT !.pc = "td_xfrm", !.other = a]]
    /\ UNCHANGED <<sas, sess, mgr, gtpu, kernel, policy, pgw, authorized, causes, lost>>

DpdTimeout(p, a) ==
    /\ At(p, "idle")
    /\ sa[a].state = "established"
    /\ sas[sa[a].spi] = a
    /\ Acquire(p, a)
    /\ sa[a].dpd
    /\ sa' = [sa EXCEPT ![a].state = "deleting"]
    /\ proc' = [proc EXCEPT ![p] = [Idle EXCEPT !.pc = "td_xfrm", !.other = a]]
    /\ UNCHANGED <<sas, sess, mgr, gtpu, kernel, policy, pgw, authorized, causes, lost>>

\* Mutant: only SAs that saw no IKE_AUTH expire.
HalfOpenCheckFirstRound(p, i) ==
    /\ At(p, "idle")
    /\ sas[i] # None
    /\ lock[sas[i]] = None
    /\ sa[sas[i]].state = "auth"
    /\ sa[sas[i]].eap = "first"
    /\ proc' = [proc EXCEPT ![p] = [Idle EXCEPT !.pc = "expire", !.spi = i]]
    /\ UNCHANGED <<sas, sa, lock, sess, mgr, gtpu, kernel, policy, pgw, authorized,
                   causes, lost>>

\* The SA's state is read under its lock ...
HalfOpenCheck(p, i) ==
    /\ At(p, "idle")
    /\ sas[i] # None
    /\ lock[sas[i]] = None
    /\ sa[sas[i]].state = "auth"
    /\ proc' = [proc EXCEPT ![p] = [Idle EXCEPT !.pc = "expire", !.spi = i]]
    /\ UNCHANGED <<sas, sa, lock, sess, mgr, gtpu, kernel, policy, pgw, authorized,
                   causes, lost>>

\* ... and the table entry is deleted after the lock has been released.
HalfOpenExpire(p) ==
    /\ At(p, "expire")
    /\ sas' = [sas EXCEPT ![proc[p].spi] = None]
    /\ Return(p)
    /\ UNCHANGED <<sa, lock, sess, mgr, gtpu, kernel, policy, pgw, authorized, causes, lost>>

-----------------------------------------------------------------------------
(* PGW-initiated teardown: handlePGWDelete and handlePGWDeleteBearer.  They *)
(* take no IKE SA lock.  A request may be a retransmission.                 *)

\* FindByLocalControlTEID
Findable(s) == s \in mgr /\ sess[s].s2b

PgwGone(s) == pgw[s] # "none" /\ pgw' = [pgw EXCEPT ![s] = "down"]

\* The S2b client answers and starts the handler, which looks for the session.
PgwDeleteSession(p, s) ==
    /\ At(p, "idle")
    /\ PgwGone(s)
    /\ \E handover \in BOOLEAN :
          proc' = IF Findable(s)
                  THEN [proc EXCEPT ![p] = [Idle EXCEPT !.pc = "cl_begin", !.sess = s,
                                                        !.handover = handover]]
                  ELSE proc
    /\ UNCHANGED <<sas, sa, lock, sess, mgr, gtpu, kernel, policy, authorized, causes, lost>>

\* Delete Bearer for the default bearer.  Its own cause, or an earlier one for
\* a dedicated bearer, makes it a handover.
PgwDeleteDefaultBearer(p, s) ==
    /\ At(p, "idle")
    /\ PgwGone(s)
    /\ \E handover \in BOOLEAN :
          LET moved == handover \/ sess[s].handoverComplete IN
          IF Findable(s)
          THEN /\ sess' = [sess EXCEPT ![s].handoverComplete = moved]
               /\ proc' = [proc EXCEPT ![p] = [Idle EXCEPT !.pc = "cl_begin", !.sess = s,
                                                          !.handover = moved]]
          ELSE UNCHANGED <<sess, proc>>
    /\ UNCHANGED <<sas, sa, lock, mgr, gtpu, kernel, policy, authorized, causes, lost>>

\* Delete Bearer for a dedicated bearer, with a handover cause.
PgwHandoverSignal(p, s) ==
    /\ At(p, "idle")
    /\ pgw[s] = "up"
    /\ Findable(s)
    /\ ~sess[s].handoverComplete
    /\ sess' = [sess EXCEPT ![s].handoverComplete = TRUE]
    /\ UNCHANGED <<sas, sa, lock, mgr, gtpu, kernel, policy, pgw, authorized, causes,
                   lost, proc>>

\* cleanupSession, called without S2b deletion; a deleted session is skipped.
AfterCleanup(p) == IF p \in PgwHandler THEN "pgw_str" ELSE "bearer_done"

\* Mutant: the session is not moved to CleaningUp first.
CleanupBeginSilent(p) ==
    LET s == proc[p].sess IN
    /\ At(p, "cl_begin")
    /\ Goto(p, IF sess[s].state = "Deleted" THEN AfterCleanup(p)
               ELSE IF sess[s].s2b THEN "cl_gtpu" ELSE "cl_end")
    /\ UNCHANGED <<sas, sa, lock, sess, mgr, gtpu, kernel, policy, pgw, authorized, causes, lost>>

CleanupBegin(p) ==
    LET s == proc[p].sess IN
    /\ At(p, "cl_begin")
    /\ sess' = [sess EXCEPT ![s] = Step(@, "CleaningUp")]
    /\ Goto(p, IF sess[s].state = "Deleted" THEN AfterCleanup(p)
               ELSE IF sess[s].s2b THEN "cl_gtpu" ELSE "cl_end")
    /\ UNCHANGED <<sas, sa, lock, mgr, gtpu, kernel, policy, pgw, authorized, causes, lost>>

CleanupGtpu(p) ==
    /\ At(p, "cl_gtpu")
    /\ gtpu' = gtpu \ {proc[p].sess}
    /\ Goto(p, "cl_end")
    /\ UNCHANGED <<sas, sa, lock, sess, mgr, kernel, policy, pgw, authorized, causes, lost>>

CleanupEnd(p) ==
    /\ At(p, "cl_end")
    /\ sess' = [sess EXCEPT ![proc[p].sess] = Step(@, "Deleted")]
    /\ Goto(p, AfterCleanup(p))
    /\ UNCHANGED <<sas, sa, lock, mgr, gtpu, kernel, policy, pgw, authorized, causes, lost>>

PgwDeleteSTR(p) ==
    /\ At(p, "pgw_str")
    /\ SendSTR(proc[p].sess, proc[p].handover)
    /\ Goto(p, "pgw_forget")
    /\ UNCHANGED <<sas, sa, lock, sess, mgr, gtpu, kernel, policy, pgw, authorized, lost>>

PgwDeleteForget(p) ==
    /\ At(p, "pgw_forget")
    /\ mgr' = mgr \ {proc[p].sess}
    /\ Return(p)
    /\ UNCHANGED <<sas, sa, lock, sess, gtpu, kernel, policy, pgw, authorized, causes, lost>>

\* After a handover the session stays in the manager, without S2b context, for
\* fullTeardown to find; otherwise it is forgotten.
DeleteBearerDone(p) ==
    LET s == proc[p].sess IN
    /\ At(p, "bearer_done")
    /\ IF proc[p].handover
       THEN sess' = [sess EXCEPT ![s].s2b = FALSE] /\ UNCHANGED mgr
       ELSE mgr' = mgr \ {s} /\ UNCHANGED sess
    /\ Return(p)
    /\ UNCHANGED <<sas, sa, lock, gtpu, kernel, policy, pgw, authorized, causes, lost>>

Cleanup(p) ==
    \/ CleanupBegin(p) \/ CleanupGtpu(p) \/ CleanupEnd(p)
    \/ PgwDeleteSTR(p) \/ PgwDeleteForget(p) \/ DeleteBearerDone(p)

-----------------------------------------------------------------------------
(* Specification *)

\* What arrives from outside, or is started by a timer.
Arrival ==
    \/ \E w \in Worker : \/ \E i \in SPI : InitRetransmit(w, i) \/ InitLookup(w, i)
                         \/ \E a \in SA : \/ AuthRound1(w, a) \/ AuthEAP(w, a)
                                          \/ AuthFinal(w, a) \/ RekeyStore(w, a)
                                          \/ UeAlive(w, a) \/ DeleteIKE(w, a)
    \/ \E p \in PgwHandler, s \in SA : PgwDeleteSession(p, s)
    \/ \E p \in ReadLoop, s \in SA : PgwDeleteDefaultBearer(p, s) \/ PgwHandoverSignal(p, s)
    \/ \E p \in DpdReaper, a \in SA : DpdProbe(p, a) \/ DpdTimeout(p, a)
    \/ \E p \in HalfOpenReaper, i \in SPI : HalfOpenCheck(p, i)

\* The further steps of a packet handler that is under way.
Continue(w) ==
    \/ InitReject(w) \/ InitStore(w) \/ FindOld(w) \/ LookupOld(w) \/ DetachOld(w)
    \/ CreateSession(w) \/ Accept(w) \/ InstallChildSA(w)
    \/ AddSession(w) \/ Activate(w) \/ Rekeyed(w)

Next ==
    \/ Arrival
    \/ \E w \in Worker : Continue(w)
    \/ \E p \in Worker \cup DpdReaper : TearDown(p)
    \/ \E p \in PgwHandler \cup ReadLoop : Cleanup(p)
    \/ \E p \in HalfOpenReaper : HalfOpenExpire(p)

Spec == Init /\ [][Next]_vars

\* The goroutine is in an SWm exchange, whose write has no deadline.
InSWm(p) == At(p, "td_str") \/ At(p, "pgw_str")

\* Handlers go on: sync.Mutex does not starve a waiter, and the S2b, GTP-U and
\* XFRM calls return.  An SWm exchange need not end.  The reapers scan the table
\* for ever.  Nothing obliges a UE or a PGW to send anything.
Fairness ==
    /\ \A w \in Worker : SF_vars(Continue(w))
    /\ \A p \in Worker \cup DpdReaper : WF_vars(~InSWm(p) /\ TearDown(p))
    /\ \A p \in PgwHandler \cup ReadLoop : WF_vars(~InSWm(p) /\ Cleanup(p))
    /\ \A p \in HalfOpenReaper : WF_vars(HalfOpenExpire(p))
    /\ \A p \in HalfOpenReaper, i \in SPI : SF_vars(HalfOpenCheck(p, i))
    /\ \A p \in DpdReaper, a \in SA : SF_vars(DpdTimeout(p, a))

FairSpec == Spec /\ Fairness

-----------------------------------------------------------------------------
(* Properties that hold *)

\* The pointers a handler dereferences next are not nil.
NilSafe(f) ==
    /\ f.pc \in AuthPC \cup {"rekeyed"} => f.sa \in SA
    /\ f.pc \in TearDownPC \cup {"detach", "rekeyed"} => f.other \in SA
    /\ f.pc \in SessionPC => f.sess \in SA
    /\ f.pc \in {"init", "expire"} => f.spi \in SPI

\* A handler never follows a nil SA, session or SPI: what it dereferences at a
\* step was checked or assigned at an earlier one.
NoNilDereference == \A p \in Proc : NilSafe(proc[p])

\* Every variable stays in its domain.
TypeOK ==
    /\ NoNilDereference
    /\ sas \in [SPI -> SA \cup {None}]
    /\ sa \in [SA -> ikeSA]
    /\ lock \in [SA -> Proc \cup {None}]
    /\ sess \in [SA -> Session]
    /\ mgr \subseteq SA
    /\ gtpu \subseteq SA
    /\ kernel \subseteq SA
    /\ policy \subseteq SA
    /\ pgw \in [SA -> {"none", "up", "down"}]
    /\ authorized \subseteq SA
    /\ causes \in [SA -> SUBSET {"USER_MOVED", "LOGOUT"}]
    /\ lost \subseteq SA
    /\ proc \in [Proc -> Frame]

\* A session that reads Active has its GTP-U tunnel and its S2b context and can
\* be found in the manager, although the PGW's handlers and fullTeardown remove
\* all three without the lock under which handleAuthFinal activates it.
ActiveIsConnected ==
    \A s \in SA : sess[s].state = "Active" =>
        s \in mgr /\ s \in gtpu /\ sess[s].s2b

\* Nothing is allocated for a UE the AAA server has not authenticated: no PDN
\* session at the PGW, no tunnel, no kernel state, in any interleaving of
\* IKE_AUTH rounds, rekeys and detaches.
AuthenticatedFirst ==
    \A s \in SA : s \in gtpu \cup kernel \cup policy \/ pgw[s] # "none" =>
        s \in authorized

\* A session has one owner, the SA whose fullTeardown would release it: of two
\* SAs that name the same session, one is being rekeyed and about to let go.
SingleOwner ==
    \A a, b \in SA :
        a # b /\ sa[a].sessionID = sa[b].sessionID /\ sa[a].sessionID # None =>
            \E w \in Worker : At(w, "rekeyed") /\ proc[w].sa \in {a, b}

\* A deleted session stays deleted: no late IKE_AUTH round, activation or second
\* teardown brings the session of an SA back.
DeletedIsFinal ==
    [][\A s \in SA : sess[s].state = "Deleted" => sess'[s].state = "Deleted"]_sess

\* A PDN session at the PGW is one the session manager still finds by its
\* control TEID, unless a GTPv2-C exchange about it failed: whatever the order of
\* attach, teardown and PGW requests, none is forgotten while the PGW holds it.
PdnSessionAccounted ==
    \A s \in SA : pgw[s] = "up" /\ s \notin lost =>
        \/ s \in mgr /\ sess[s].s2b
        \/ \E w \in Worker : At(w, "accept") /\ proc[w].sa = s

\* Two IKE SAs were negotiated under one initiator SPI.
Reused(i) == \E a, b \in SA : a # b /\ sa[a].spi = i /\ sa[b].spi = i

\* handleAuthFinal locks a second SA while it holds its own.  That the holder of
\* the second lock is another goroutine, and is not itself waiting for an SA,
\* rests on the SPIs and on nothing else: it can only fail when the SA was found
\* under an SPI that two SAs were negotiated with.
NoLockCycle ==
    \A w \in Worker : At(w, "detach") =>
        LET holder == lock[proc[w].other] IN
        holder # None /\ ~Reused(sa[proc[w].other].spi) =>
            holder # w /\ ~At(holder, "detach")

\* Two workers hold the SA the other one waits for; one worker, if v = w.
Deadlocked ==
    \E v, w \in Worker :
        /\ At(v, "detach") /\ lock[proc[v].other] = w
        /\ At(w, "detach") /\ lock[proc[w].other] = v

\* Every handler that was started returns, and its worker takes packets again,
\* if no SWm exchange hangs and no reused SPI led a worker into a lock cycle.
HandlersReturn ==
    (\A q \in Proc : []<>~InSWm(q)) =>
        \A p \in Proc : ~At(p, "idle") ~> At(p, "idle") \/ Deadlocked

\* A half-open SA leaves the table or completes IKE_AUTH.
HalfOpenExpires ==
    \A i \in SPI, a \in SA :
        sas[i] = a /\ sa[a].state = "auth" ~> sas[i] # a \/ sa[a].state # "auth"

\* A probed peer answers or is torn down, unless its SA was lost from the table.
SilentPeerReaped ==
    \A a \in SA : sa[a].state = "established" /\ sa[a].dpd ~>
        ~sa[a].dpd \/ sa[a].state # "established" \/ sas[sa[a].spi] # a

-----------------------------------------------------------------------------
(* What comments and documents say, and the code does not guarantee *)

\* "A re-attach without a handover indication is an implicit detach of any
\* existing active session": a subscriber has at most one Active session.
OneActiveSession ==
    \A s, t \in SA :
        s # t /\ sess[s].state = "Active" /\ sess[t].state = "Active" =>
            sess[s].ue # sess[t].ue

\* The AAA server is told one Termination-Cause: USER_MOVED for a PGW Delete
\* with a handover cause, LOGOUT otherwise.
OneTerminationCause == \A s \in SA : Cardinality(causes[s]) <= 1

\* halfOpenReaperLoop "expires unauthenticated IKE SAs (IKE_SA_INIT completed,
\* IKE_AUTH not yet completed)", and fullTeardown "cleans up everything
\* associated with an IKE SA": a tunnel and kernel state belong to an SA of the
\* table, or no teardown will remove them.
ResourcesOwned ==
    (\A p \in Proc : At(p, "idle")) =>
        \A s \in gtpu \cup kernel \cup policy :
            \E i \in SPI : sas[i] # None /\ s \in {sa[sas[i]].sessionID, sa[sas[i]].child}

=============================================================================
