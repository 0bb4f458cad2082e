----------------------------- MODULE EpdgProofs -----------------------------
(***************************************************************************)
(* Theorems about Epdg, for any number of SAs, SPIs, subscribers and       *)
(* goroutines.                                                             *)
(***************************************************************************)
EXTENDS Epdg, TLAPS

-----------------------------------------------------------------------------
(* The inductive invariant *)

\* The session is being torn down, or has been.
Closing == {"CleaningUp", "Deleted"}

\* IKE_AUTH has completed.  No handler takes an SA back from here.
Past(a) == sa[a].state \in {"established", "deleting"}

Connected(s) == s \in mgr /\ s \in gtpu /\ sess[s].s2b

\* An SA in use has an SPI; a session it names is its own or was inherited in a
\* rekey; it holds an MSK only if the AAA server authenticated the UE.
SaInv(a) ==
    /\ sa[a].state # "free" => sa[a].spi \in SPI
    /\ sa[a].known => sa[a].state # "free"
    /\ sa[a].sessionID # None => sa[a].sessionID = a \/ Past(sa[a].sessionID)
    /\ sa[a].eap = "msk" => a \in authorized
    /\ a \in authorized => sa[a].state # "free"

\* A session that was handed out has an SPI.  One that has an S2b context, or is
\* being torn down, belongs to an SA that cannot run IKE_AUTH again and so cannot
\* create it anew.
SessInv(s) ==
    /\ sess[s].state # "New" => sess[s].spi \in SPI
    /\ s \in mgr => sess[s].state # "New"
    /\ sess[s].s2b => Past(s) /\ s \in authorized
    /\ sess[s].state \in Closing => Past(s)
    /\ sess[s].state = "Active" => Connected(s)

\* What the goroutine at a program counter knows about what it points to.
FrameInv(p) ==
    LET f == proc[p] IN
    /\ f.pc = "lookup" => sess[f.sess].state # "New"
    /\ f.pc \in {"detach", "rekeyed"} => sa[f.other].state # "free"
    /\ f.pc = "rekeyed" => Past(f.sa)
    /\ f.pc \in TearDownPC => Past(f.other)
    /\ f.pc \in SessionPC \ {"lookup", "activate"} =>
          Past(f.sess) /\ sess[f.sess].state # "New"
    /\ f.pc \in SessionPC \ {"lookup", "activate", "cl_begin"} =>
          sess[f.sess].state \in Closing
    /\ f.pc = "activate" => Connected(f.sess) \/ sess[f.sess].state \in Closing
    /\ f.pc \in AuthPC => f.sa \in authorized
    /\ f.pc \in TearDownPC => f.sa \in authorized \cup {None}
    /\ f.pc \in {"td_gtpu", "td_s2b"} => f.sess \in authorized

TableInv == \A i \in SPI : sas[i] # None => sa[sas[i]].state # "free"

Inv ==
    /\ TypeOK
    /\ TableInv
    /\ \A a \in SA : SaInv(a)
    /\ \A s \in SA : SessInv(s)
    /\ \A p \in Proc : FrameInv(p)
    /\ AuthenticatedFirst

\* What no step undoes.
MonoSa ==
    /\ \A a \in SA : sa[a].state # "free" => sa'[a].state # "free"
    /\ \A a \in SA : Past(a) => Past(a)'
    /\ authorized \subseteq authorized'

MonoSess ==
    /\ \A s \in SA : sess[s].state # "New" => sess'[s].state # "New"
    /\ \A s \in SA : sess[s].state \in Closing => sess'[s].state \in Closing
    /\ \A s \in SA : sess[s].state = "Deleted" => sess'[s].state = "Deleted"
    /\ \A s \in SA : Connected(s) => Connected(s)' \/ sess'[s].state \in Closing

Mono == MonoSa /\ MonoSess

-----------------------------------------------------------------------------
(* The session state machine *)

Attaching == {"EAPAuthenticating", "EAPAuthenticated", "S2bCreateSessionSent",
              "S2bAccepted", "GTPUInstalling", "DatapathInstalling", "Active"}

\* The transitions of an attach have no effect on a session being torn down.
LEMMA AttachTransition ==
    ASSUME NEW x \in SessionState, NEW n \in Attaching
    PROVE  /\ Transition(x, n) \in SessionState
           /\ Transition(x, n) \in {x, n}
           /\ x \in Closing => Transition(x, n) = x
           /\ Transition(x, n) \in Closing => x \in Closing
  BY DEF Transition, allowedTransitions, AttachStep, SessionState, Closing, Attaching

LEMMA TeardownTransition ==
    /\ \A x \in SessionState : Transition(x, "CleaningUp") \in SessionState
    /\ \A x \in SessionState \ {"New"} : Transition(x, "CleaningUp") \in Closing
    /\ Transition("Deleted", "CleaningUp") = "Deleted"
    /\ \A x \in Closing : Transition(x, "Deleted") = "Deleted"
  BY DEF Transition, allowedTransitions, AttachStep, SessionState, Closing

LEMMA StepFields ==
    ASSUME NEW r \in Session, NEW n, Transition(r.state, n) \in SessionState
    PROVE  /\ Step(r, n) \in Session
           /\ Step(r, n).state = Transition(r.state, n)
           /\ Step(r, n).ue = r.ue
           /\ Step(r, n).spi = r.spi
           /\ Step(r, n).s2b = r.s2b
           /\ Step(r, n).handoverComplete = r.handoverComplete
  BY DEF Step, Session

\* A transition of an attach.
LEMMA AttachingStep ==
    ASSUME NEW r \in Session, NEW n \in Attaching
    PROVE  /\ Step(r, n) \in Session
           /\ Step(r, n).spi = r.spi
           /\ Step(r, n).s2b = r.s2b
           /\ Step(r, n).state \in {r.state, n}
           /\ r.state \in Closing => Step(r, n).state = r.state
           /\ Step(r, n).state \in Closing => r.state \in Closing
<1>1. r.state \in SessionState
  BY DEF Session
<1> QED
  BY <1>1, AttachTransition, StepFields

LEMMA CleaningUpStep ==
    ASSUME NEW r \in Session, r.state # "New"
    PROVE  /\ Step(r, "CleaningUp") \in Session
           /\ Step(r, "CleaningUp").spi = r.spi
           /\ Step(r, "CleaningUp").s2b = r.s2b
           /\ Step(r, "CleaningUp").state \in Closing
           /\ r.state = "Deleted" => Step(r, "CleaningUp").state = "Deleted"
<1>1. r.state \in SessionState
  BY DEF Session
<1> QED
  BY <1>1, TeardownTransition, StepFields

LEMMA DeletedStep ==
    ASSUME NEW r \in Session, r.state \in Closing
    PROVE  /\ Step(r, "Deleted") \in Session
           /\ Step(r, "Deleted").spi = r.spi
           /\ Step(r, "Deleted").s2b = r.s2b
           /\ Step(r, "Deleted").state = "Deleted"
<1>1. "Deleted" \in SessionState
  BY DEF SessionState
<1> QED
  BY <1>1, TeardownTransition, StepFields

-----------------------------------------------------------------------------
(* Initial values *)

LEMMA IdleFrame ==
    /\ Idle \in Frame
    /\ Idle.pc = "idle" /\ Idle.spi = None /\ Idle.sa = None
    /\ Idle.other = None /\ Idle.sess = None
  BY DEF Idle, Frame, PC

LEMMA FreeSAFields ==
    /\ FreeSA \in ikeSA
    /\ FreeSA.state = "free" /\ FreeSA.known = FALSE /\ FreeSA.eap = "first"
    /\ FreeSA.sessionID = None
  BY DEF FreeSA, ikeSA, IkeState, EapState

LEMMA NewSessionFields ==
    /\ NewSession \in Session
    /\ NewSession.state = "New" /\ NewSession.s2b = FALSE
  BY DEF NewSession, Session, SessionState

LEMMA InvInit == Init => Inv
<1> SUFFICES ASSUME Init PROVE Inv
  OBVIOUS
<1>1. TypeOK
  BY IdleFrame, FreeSAFields, NewSessionFields DEF Init, TypeOK, NoNilDereference,
     NilSafe, AuthPC, TearDownPC, CleanupPC, SessionPC
<1>2. \A a \in SA : SaInv(a)
  BY FreeSAFields DEF Init, SaInv
<1>3. \A s \in SA : SessInv(s)
  BY NewSessionFields DEF Init, SessInv, Closing
<1>4. \A p \in Proc : FrameInv(p)
  BY IdleFrame DEF Init, FrameInv, AuthPC, TearDownPC, CleanupPC, SessionPC
<1>5. TableInv /\ AuthenticatedFirst
  BY DEF Init, TableInv, AuthenticatedFirst
<1> QED
  BY <1>1, <1>2, <1>3, <1>4, <1>5 DEF Inv

-----------------------------------------------------------------------------
(* Goroutines that take no step keep what they know *)

LEMMA FrameKept ==
    ASSUME Inv, Mono, NEW q \in Proc, proc'[q] = proc[q]
    PROVE  FrameInv(q)'
<1>1. /\ proc[q].pc \in AuthPC \cup {"rekeyed"} => proc[q].sa \in SA
      /\ proc[q].pc \in TearDownPC \cup {"detach", "rekeyed"} => proc[q].other \in SA
      /\ proc[q].pc \in SessionPC => proc[q].sess \in SA
  BY DEF Inv, TypeOK, NoNilDereference, NilSafe
<1>2. {"activate", "lookup", "td_gtpu", "td_s2b"} \subseteq SessionPC
  BY DEF SessionPC
<1> QED
  BY <1>1, <1>2 DEF Inv, FrameInv, Mono, MonoSa, MonoSess

ProcInv ==
    /\ proc \in [Proc -> Frame]
    /\ NoNilDereference
    /\ \A p \in Proc : FrameInv(p)

\* A goroutine moves to a frame that is as it should be.
LEMMA FrameStep ==
    ASSUME Inv, Mono, NEW p \in Proc, NEW f \in Frame, NilSafe(f),
           proc' = [proc EXCEPT ![p] = f],
           proc'[p] = f => FrameInv(p)'
    PROVE  ProcInv'
<1>1. /\ proc' \in [Proc -> Frame]
      /\ proc'[p] = f
      /\ \A q \in Proc \ {p} : proc'[q] = proc[q]
  BY DEF Inv, TypeOK
<1>2. NoNilDereference'
  BY <1>1 DEF Inv, TypeOK, NoNilDereference, NilSafe
<1>3. \A q \in Proc : FrameInv(q)'
  BY <1>1, FrameKept
<1> QED
  BY <1>1, <1>2, <1>3 DEF ProcInv

LEMMA ReturnStep ==
    ASSUME Inv, Mono, NEW p \in Proc, Return(p)
    PROVE  ProcInv'
<1>1. NilSafe(Idle)
  BY IdleFrame DEF NilSafe, AuthPC, TearDownPC, SessionPC, CleanupPC
<1>2. proc'[p] = Idle => FrameInv(p)'
  BY IdleFrame DEF FrameInv, AuthPC, TearDownPC, SessionPC, CleanupPC
<1> QED
  BY <1>1, <1>2, IdleFrame, FrameStep DEF Return

\* Moving the program counter keeps the local variables.
LEMMA GotoStep ==
    ASSUME Inv, Mono, NEW p \in Proc, NEW c \in PC, Goto(p, c),
           NilSafe([proc[p] EXCEPT !.pc = c]),
           /\ proc'[p].pc = c
           /\ proc'[p].spi = proc[p].spi
           /\ proc'[p].sa = proc[p].sa
           /\ proc'[p].other = proc[p].other
           /\ proc'[p].sess = proc[p].sess
           => FrameInv(p)'
    PROVE  ProcInv'
<1> DEFINE f == [proc[p] EXCEPT !.pc = c]
<1>1. /\ f \in Frame
      /\ f.pc = c
      /\ f.spi = proc[p].spi
      /\ f.sa = proc[p].sa
      /\ f.other = proc[p].other
      /\ f.sess = proc[p].sess
  BY DEF Inv, TypeOK, Frame
<1>2. proc' = [proc EXCEPT ![p] = f]
  BY DEF Goto, Inv, TypeOK
<1>3. proc'[p] = f => FrameInv(p)'
  BY <1>1
<1> QED
  BY <1>1, <1>2, <1>3, FrameStep

LEMMA UnchangedProc ==
    ASSUME Inv, Mono, UNCHANGED proc
    PROVE  ProcInv'
  BY FrameKept DEF ProcInv, Inv, TypeOK, NoNilDereference, NilSafe

\* A step that leaves SAs, sessions and tunnels alone.
LEMMA QuietStep ==
    ASSUME Inv, UNCHANGED <<sa, sess, mgr, gtpu, authorized>>
    PROVE  Mono /\ (\A a \in SA : SaInv(a)') /\ (\A s \in SA : SessInv(s)')
  BY DEF Inv, Mono, MonoSa, MonoSess, SaInv, SessInv, Past, Connected

-----------------------------------------------------------------------------
(* Steps that leave SAs, sessions and tunnels alone *)

LEMMA InitLookupInv ==
    ASSUME Inv, NEW w \in Worker, NEW i \in SPI, InitLookup(w, i)
    PROVE  Inv' /\ Mono
<1> DEFINE f == [Idle EXCEPT !.pc = "init", !.spi = i]
<1>1. f \in Frame /\ f.pc = "init" /\ f.spi = i
  BY DEF Idle, Frame, PC
<1>2. NilSafe(f) /\ (proc'[w] = f => FrameInv(w)')
  BY <1>1 DEF NilSafe, FrameInv, AuthPC, TearDownPC, SessionPC, CleanupPC
<1>3. Mono /\ (\A a \in SA : SaInv(a)') /\ (\A s \in SA : SessInv(s)')
  BY QuietStep DEF InitLookup
<1>4. ProcInv'
  BY <1>1, <1>2, <1>3, FrameStep DEF InitLookup, Proc
<1> QED
  BY <1>3, <1>4 DEF InitLookup, Inv, ProcInv, TypeOK, TableInv, AuthenticatedFirst

LEMMA InitRejectInv ==
    ASSUME Inv, NEW w \in Worker, InitReject(w)
    PROVE  Inv' /\ Mono
<1>1. Mono /\ (\A a \in SA : SaInv(a)') /\ (\A s \in SA : SessInv(s)')
  BY QuietStep DEF InitReject
<1>2. ProcInv'
  BY <1>1, ReturnStep DEF InitReject, Proc
<1> QED
  BY <1>1, <1>2 DEF InitReject, Inv, ProcInv, TypeOK, TableInv, AuthenticatedFirst

LEMMA AuthFinalInv ==
    ASSUME Inv, NEW w \in Worker, NEW a \in SA, AuthFinal(w, a)
    PROVE  Inv' /\ Mono
<1> DEFINE c == IF sa[a].handoverIP THEN "create" ELSE "find"
           f == [Idle EXCEPT !.pc = c, !.sa = a]
<1>1. f \in Frame /\ f.pc \in {"create", "find"} /\ f.sa = a
  BY DEF Idle, Frame, PC, AuthPC
<1>2. a \in authorized
  BY DEF AuthFinal, Inv, SaInv
<1>3. authorized' = authorized
  BY DEF AuthFinal
<1>4. NilSafe(f) /\ (proc'[w] = f => FrameInv(w)')
  BY <1>1, <1>2, <1>3 DEF NilSafe, FrameInv, AuthPC, TearDownPC, SessionPC, CleanupPC
<1>5. Mono /\ (\A b \in SA : SaInv(b)') /\ (\A s \in SA : SessInv(s)')
  BY QuietStep DEF AuthFinal
<1>6. ProcInv'
  BY <1>1, <1>4, <1>5, FrameStep DEF AuthFinal, Call, Proc
<1>7. lock' \in [SA -> Proc \cup {None}]
  BY DEF AuthFinal, Inv, TypeOK, Proc
<1> QED
  BY <1>5, <1>6, <1>7 DEF AuthFinal, Inv, ProcInv, TypeOK, TableInv, AuthenticatedFirst

LEMMA FindOldInv ==
    ASSUME Inv, NEW w \in Worker, FindOld(w)
    PROVE  Inv' /\ Mono
<1>1. Mono /\ (\A b \in SA : SaInv(b)') /\ (\A s \in SA : SessInv(s)')
  BY QuietStep DEF FindOld
<1>2. w \in Proc /\ proc[w] \in Frame /\ proc[w].pc = "find"
  BY DEF FindOld, At, Inv, TypeOK, Proc
<1>3. proc[w].sa \in SA /\ proc[w].sa \in authorized /\ authorized' = authorized
  BY <1>2 DEF FindOld, Inv, TypeOK, NoNilDereference, NilSafe, FrameInv, AuthPC
<1>4. ProcInv'
  <2>1. CASE Goto(w, "create")
    <3>1. NilSafe([proc[w] EXCEPT !.pc = "create"])
      BY <1>2, <1>3 DEF NilSafe, Frame, AuthPC, TearDownPC, SessionPC, CleanupPC
    <3>2. proc'[w].pc = "create" /\ proc'[w].sa = proc[w].sa => FrameInv(w)'
      BY <1>3 DEF FrameInv, AuthPC, TearDownPC, SessionPC, CleanupPC
    <3>3. "create" \in PC
      BY DEF PC, AuthPC
    <3> QED
      BY <1>1, <1>2, <2>1, <3>1, <3>2, <3>3, GotoStep
  <2>2. ASSUME NEW s \in ActiveSessions(sa[proc[w].sa].ue),
               proc' = [proc EXCEPT ![w].pc = "lookup", ![w].sess = s]
        PROVE  ProcInv'
    <3> DEFINE f == [proc[w] EXCEPT !.pc = "lookup", !.sess = s]
    <3>1. s \in SA /\ sess[s].state # "New" /\ sess' = sess
      BY DEF ActiveSessions, Inv, TypeOK, FindOld
    <3>2. f \in Frame /\ f.pc = "lookup" /\ f.sess = s /\ f.sa = proc[w].sa
      BY <1>2, <3>1 DEF Frame, PC, AuthPC
    <3>3. NilSafe(f) /\ (proc'[w] = f => FrameInv(w)')
      BY <1>3, <3>1, <3>2
      DEF NilSafe, FrameInv, AuthPC, TearDownPC, SessionPC, CleanupPC
    <3>4. proc' = [proc EXCEPT ![w] = f]
      BY <1>2, <2>2 DEF Inv, TypeOK
    <3> QED
      BY <1>1, <1>2, <3>2, <3>3, <3>4, FrameStep
  <2> QED
    BY <2>1, <2>2 DEF FindOld
<1> QED
  BY <1>1, <1>4 DEF FindOld, Inv, ProcInv, TypeOK, TableInv, AuthenticatedFirst

LEMMA LookupOldInv ==
    ASSUME Inv, NEW w \in Worker, LookupOld(w)
    PROVE  Inv' /\ Mono
<1> DEFINE old == sas[sess[proc[w].sess].spi]
<1>1. Mono /\ (\A b \in SA : SaInv(b)') /\ (\A s \in SA : SessInv(s)')
  BY QuietStep DEF LookupOld
<1>2. w \in Proc /\ proc[w] \in Frame /\ proc[w].pc = "lookup"
  BY DEF LookupOld, At, Inv, TypeOK, Proc
<1>3. proc[w].sa \in SA /\ proc[w].sa \in authorized /\ proc[w].sess \in SA
  BY <1>2 DEF Inv, TypeOK, NoNilDereference, NilSafe, FrameInv, AuthPC, SessionPC
<1>4. sess[proc[w].sess].spi \in SPI
  BY <1>2, <1>3 DEF Inv, FrameInv, SessInv
<1>5. old \in SA \cup {None} /\ (old # None => sa[old].state # "free")
  BY <1>4 DEF Inv, TypeOK, TableInv
<1>6. ProcInv'
  <2>1. CASE old = None
    <3> DEFINE f == [proc[w] EXCEPT !.pc = "create", !.sess = None]
    <3>1. f \in Frame /\ f.pc = "create" /\ f.sa = proc[w].sa
      BY <1>2 DEF Frame, PC, AuthPC
    <3>2. authorized' = authorized
      BY DEF LookupOld
    <3>3. NilSafe(f) /\ (proc'[w] = f => FrameInv(w)')
      BY <1>3, <3>1, <3>2
      DEF NilSafe, FrameInv, AuthPC, TearDownPC, SessionPC, CleanupPC
    <3>4. proc' = [proc EXCEPT ![w] = f]
      BY <1>2, <2>1 DEF LookupOld, Inv, TypeOK
    <3> QED
      BY <1>1, <1>2, <3>1, <3>3, <3>4, FrameStep
  <2>2. CASE old # None
    <3> DEFINE f == [proc[w] EXCEPT !.pc = "detach", !.sess = None, !.other = old]
    <3>1. f \in Frame /\ f.pc = "detach" /\ f.sa = proc[w].sa /\ f.other = old
      BY <1>2, <1>5 DEF Frame, PC, AuthPC
    <3>2. authorized' = authorized /\ sa' = sa
      BY DEF LookupOld
    <3>3. NilSafe(f) /\ (proc'[w] = f => FrameInv(w)')
      BY <1>3, <1>5, <2>2, <3>1, <3>2
      DEF NilSafe, FrameInv, AuthPC, TearDownPC, SessionPC, CleanupPC
    <3>4. proc' = [proc EXCEPT ![w] = f]
      BY <1>2, <2>2 DEF LookupOld, Inv, TypeOK
    <3> QED
      BY <1>1, <1>2, <3>1, <3>3, <3>4, FrameStep
  <2> QED
    BY <2>1, <2>2
<1> QED
  BY <1>1, <1>6 DEF LookupOld, Inv, ProcInv, TypeOK, TableInv, AuthenticatedFirst

LEMMA CreateSessionInv ==
    ASSUME Inv, NEW w \in Worker, CreateSession(w)
    PROVE  Inv' /\ Mono
<1> DEFINE a == proc[w].sa
<1>1. Mono /\ (\A b \in SA : SaInv(b)') /\ (\A s \in SA : SessInv(s)')
  BY QuietStep DEF CreateSession
<1>2. w \in Proc /\ proc[w] \in Frame /\ proc[w].pc = "create"
  BY DEF CreateSession, At, Inv, TypeOK, Proc
<1>3. a \in SA /\ a \in authorized /\ authorized' = authorized
  BY <1>2 DEF CreateSession, Inv, TypeOK, NoNilDereference, NilSafe, FrameInv, AuthPC
<1>4. ProcInv'
  <2>1. CASE Goto(w, "accept")
    <3>1. NilSafe([proc[w] EXCEPT !.pc = "accept"])
      BY <1>2, <1>3 DEF NilSafe, Frame, AuthPC, TearDownPC, SessionPC, CleanupPC
    <3>2. proc'[w].pc = "accept" /\ proc'[w].sa = proc[w].sa => FrameInv(w)'
      BY <1>3 DEF FrameInv, AuthPC, TearDownPC, SessionPC, CleanupPC
    <3>3. "accept" \in PC
      BY DEF PC, AuthPC
    <3> QED
      BY <1>1, <1>2, <2>1, <3>1, <3>2, <3>3, GotoStep
  <2>2. CASE Return(w)
    BY <1>1, <1>2, <2>2, ReturnStep
  <2> QED
    BY <2>1, <2>2 DEF CreateSession
<1>5. /\ lock' \in [SA -> Proc \cup {None}]
      /\ pgw' \in [SA -> {"none", "up", "down"}]
      /\ lost' \subseteq SA
  BY <1>3 DEF CreateSession, Release, Inv, TypeOK
<1>6. AuthenticatedFirst'
  BY <1>3 DEF CreateSession, Inv, TypeOK, AuthenticatedFirst
<1> QED
  BY <1>1, <1>4, <1>5, <1>6 DEF CreateSession, Inv, ProcInv, TypeOK, TableInv

LEMMA TearDownXfrmInv ==
    ASSUME Inv, NEW p \in Proc, TearDownXfrm(p)
    PROVE  Inv' /\ Mono
<1>1. Mono /\ (\A b \in SA : SaInv(b)') /\ (\A s \in SA : SessInv(s)')
  BY QuietStep DEF TearDownXfrm
<1>2. proc[p] \in Frame /\ proc[p].pc = "td_xfrm" /\ proc[p].other \in SA
  BY DEF TearDownXfrm, At, Inv, TypeOK, NoNilDereference, NilSafe, TearDownPC
<1>3. Past(proc[p].other) /\ proc[p].sa \in authorized \cup {None}
  BY <1>2 DEF Inv, FrameInv, TearDownPC
<1>4. NilSafe([proc[p] EXCEPT !.pc = "td_begin"]) /\ "td_begin" \in PC
  BY <1>2 DEF NilSafe, Frame, PC, AuthPC, TearDownPC, SessionPC, CleanupPC
<1>5. proc'[p].pc = "td_begin" /\ proc'[p].other = proc[p].other /\ proc'[p].sa = proc[p].sa
      => FrameInv(p)'
  BY <1>2, <1>3
  DEF TearDownXfrm, FrameInv, Past, AuthPC, TearDownPC, SessionPC, CleanupPC
<1>6. ProcInv'
  BY <1>1, <1>4, <1>5, GotoStep DEF TearDownXfrm
<1>7. kernel' \subseteq kernel /\ policy' \subseteq policy
  BY DEF TearDownXfrm
<1> QED
  BY <1>1, <1>6, <1>7
  DEF TearDownXfrm, Inv, ProcInv, TypeOK, TableInv, AuthenticatedFirst

LEMMA TearDownS2bInv ==
    ASSUME Inv, NEW p \in Proc, TearDownS2b(p)
    PROVE  Inv' /\ Mono
<1> DEFINE s == proc[p].sess
<1>1. Mono /\ (\A b \in SA : SaInv(b)') /\ (\A t \in SA : SessInv(t)')
  BY QuietStep DEF TearDownS2b
<1>2. /\ proc[p] \in Frame /\ proc[p].pc = "td_s2b"
      /\ proc[p].other \in SA /\ s \in SA
  BY DEF TearDownS2b, At, Inv, TypeOK, NoNilDereference, NilSafe, TearDownPC, SessionPC
<1>3. /\ Past(proc[p].other) /\ proc[p].sa \in authorized \cup {None}
      /\ Past(s) /\ sess[s].state \in Closing /\ sess[s].state # "New" /\ s \in authorized
  BY <1>2 DEF Inv, FrameInv, TearDownPC, SessionPC
<1>4. NilSafe([proc[p] EXCEPT !.pc = "td_end"]) /\ "td_end" \in PC
  BY <1>2 DEF NilSafe, Frame, PC, AuthPC, TearDownPC, SessionPC, CleanupPC
<1>5. /\ proc'[p].pc = "td_end" /\ proc'[p].other = proc[p].other
      /\ proc'[p].sa = proc[p].sa /\ proc'[p].sess = s
      => FrameInv(p)'
  BY <1>2, <1>3
  DEF TearDownS2b, FrameInv, Past, AuthPC, TearDownPC, SessionPC, CleanupPC
<1>6. ProcInv'
  BY <1>1, <1>4, <1>5, GotoStep DEF TearDownS2b
<1>7. pgw' \in [SA -> {"none", "up", "down"}] /\ lost' \subseteq SA
  BY <1>2 DEF TearDownS2b, Inv, TypeOK
<1>8. AuthenticatedFirst'
  BY <1>2, <1>3 DEF TearDownS2b, Inv, TypeOK, AuthenticatedFirst
<1> QED
  BY <1>1, <1>6, <1>7, <1>8 DEF TearDownS2b, Inv, ProcInv, TypeOK, TableInv

LEMMA TearDownSTRInv ==
    ASSUME Inv, NEW p \in Proc, TearDownSTR(p)
    PROVE  Inv' /\ Mono
<1>1. Mono /\ (\A b \in SA : SaInv(b)') /\ (\A s \in SA : SessInv(s)')
  BY QuietStep DEF TearDownSTR
<1>2. proc[p] \in Frame /\ proc[p].pc = "td_str" /\ proc[p].other \in SA
  BY DEF TearDownSTR, At, Inv, TypeOK, NoNilDereference, NilSafe, TearDownPC
<1>3. Past(proc[p].other) /\ proc[p].sa \in authorized \cup {None}
  BY <1>2 DEF Inv, FrameInv, TearDownPC
<1>4. NilSafe([proc[p] EXCEPT !.pc = "td_sa"]) /\ "td_sa" \in PC
  BY <1>2 DEF NilSafe, Frame, PC, AuthPC, TearDownPC, SessionPC, CleanupPC
<1>5. proc'[p].pc = "td_sa" /\ proc'[p].other = proc[p].other /\ proc'[p].sa = proc[p].sa
      => FrameInv(p)'
  BY <1>2, <1>3
  DEF TearDownSTR, FrameInv, Past, AuthPC, TearDownPC, SessionPC, CleanupPC
<1>6. ProcInv'
  BY <1>1, <1>4, <1>5, GotoStep DEF TearDownSTR
<1>7. causes' \in [SA -> SUBSET {"USER_MOVED", "LOGOUT"}]
  <2>1. causes \in [SA -> SUBSET {"USER_MOVED", "LOGOUT"}]
    BY DEF Inv, TypeOK
  <2> QED
    BY <2>1 DEF TearDownSTR, SendSTR
<1> QED
  BY <1>1, <1>6, <1>7
  DEF TearDownSTR, Inv, ProcInv, TypeOK, TableInv, AuthenticatedFirst

LEMMA TearDownSAInv ==
    ASSUME Inv, NEW p \in Proc, TearDownSA(p)
    PROVE  Inv' /\ Mono
<1> DEFINE a == proc[p].other
<1>1. Mono /\ (\A b \in SA : SaInv(b)') /\ (\A s \in SA : SessInv(s)')
  BY QuietStep DEF TearDownSA
<1>2. proc[p] \in Frame /\ proc[p].pc = "td_sa" /\ a \in SA
  BY DEF TearDownSA, At, Inv, TypeOK, NoNilDereference, NilSafe, TearDownPC
<1>3. proc[p].sa \in authorized \cup {None} /\ authorized' = authorized
  BY <1>2 DEF TearDownSA, Inv, FrameInv, TearDownPC
<1>4. ProcInv'
  <2>1. CASE proc[p].sa \in SA \ {a}
    <3> DEFINE f == [Idle EXCEPT !.pc = "create", !.sa = proc[p].sa]
    <3>1. f \in Frame /\ f.pc = "create" /\ f.sa = proc[p].sa
      BY <2>1 DEF Idle, Frame, PC, AuthPC
    <3>2. proc[p].sa \in authorized
      BY <1>3, <2>1, NoneIsNil
    <3>3. NilSafe(f) /\ (proc'[p] = f => FrameInv(p)')
      BY <1>3, <2>1, <3>1, <3>2
      DEF NilSafe, FrameInv, AuthPC, TearDownPC, SessionPC, CleanupPC
    <3>4. proc' = [proc EXCEPT ![p] = f]
      BY <2>1 DEF TearDownSA
    <3> QED
      BY <1>1, <3>1, <3>3, <3>4, FrameStep
  <2>2. CASE ~(proc[p].sa \in SA \ {a})
    BY <1>1, <2>2, ReturnStep DEF TearDownSA
  <2> QED
    BY <2>1, <2>2
<1>5. /\ sas' \in [SPI -> SA \cup {None}]
      /\ lock' \in [SA -> Proc \cup {None}]
      /\ TableInv'
  BY <1>2 DEF TearDownSA, Release, Inv, TypeOK, TableInv
<1> QED
  BY <1>1, <1>4, <1>5 DEF TearDownSA, Inv, ProcInv, TypeOK, AuthenticatedFirst

LEMMA HalfOpenCheckInv ==
    ASSUME Inv, NEW p \in Proc, NEW i \in SPI, HalfOpenCheck(p, i)
    PROVE  Inv' /\ Mono
<1> DEFINE f == [Idle EXCEPT !.pc = "expire", !.spi = i]
<1>1. f \in Frame /\ f.pc = "expire" /\ f.spi = i
  BY DEF Idle, Frame, PC
<1>2. NilSafe(f) /\ (proc'[p] = f => FrameInv(p)')
  BY <1>1 DEF NilSafe, FrameInv, AuthPC, TearDownPC, SessionPC, CleanupPC
<1>3. Mono /\ (\A a \in SA : SaInv(a)') /\ (\A s \in SA : SessInv(s)')
  BY QuietStep DEF HalfOpenCheck
<1>4. ProcInv'
  BY <1>1, <1>2, <1>3, FrameStep DEF HalfOpenCheck
<1> QED
  BY <1>3, <1>4 DEF HalfOpenCheck, Inv, ProcInv, TypeOK, TableInv, AuthenticatedFirst

LEMMA HalfOpenExpireInv ==
    ASSUME Inv, NEW p \in Proc, HalfOpenExpire(p)
    PROVE  Inv' /\ Mono
<1>1. Mono /\ (\A a \in SA : SaInv(a)') /\ (\A s \in SA : SessInv(s)')
  BY QuietStep DEF HalfOpenExpire
<1>2. ProcInv'
  BY <1>1, ReturnStep DEF HalfOpenExpire
<1>3. sas' \in [SPI -> SA \cup {None}] /\ TableInv'
  BY DEF HalfOpenExpire, Inv, TypeOK, TableInv
<1> QED
  BY <1>1, <1>2, <1>3 DEF HalfOpenExpire, Inv, ProcInv, TypeOK, AuthenticatedFirst

LEMMA PgwDeleteSessionInv ==
    ASSUME Inv, NEW p \in Proc, NEW s \in SA, PgwDeleteSession(p, s)
    PROVE  Inv' /\ Mono
<1>1. Mono /\ (\A a \in SA : SaInv(a)') /\ (\A t \in SA : SessInv(t)')
  BY QuietStep DEF PgwDeleteSession
<1>2. PICK h \in BOOLEAN :
         proc' = IF Findable(s)
                 THEN [proc EXCEPT ![p] = [Idle EXCEPT !.pc = "cl_begin", !.sess = s,
                                                       !.handover = h]]
                 ELSE proc
  BY DEF PgwDeleteSession
<1>3. ProcInv'
  <2>1. CASE Findable(s)
    <3> DEFINE f == [Idle EXCEPT !.pc = "cl_begin", !.sess = s, !.handover = h]
    <3>1. f \in Frame /\ f.pc = "cl_begin" /\ f.sess = s
      BY <1>2 DEF Idle, Frame, PC, CleanupPC
    <3>2. Past(s) /\ sess[s].state # "New" /\ sa' = sa /\ sess' = sess
      BY <2>1 DEF PgwDeleteSession, Findable, Inv, SessInv
    <3>3. NilSafe(f) /\ (proc'[p] = f => FrameInv(p)')
      BY <3>1, <3>2
      DEF NilSafe, FrameInv, Past, AuthPC, TearDownPC, SessionPC, CleanupPC
    <3> QED
      BY <1>1, <1>2, <2>1, <3>1, <3>3, FrameStep
  <2>2. CASE ~Findable(s)
    BY <1>1, <1>2, <2>2, UnchangedProc
  <2> QED
    BY <2>1, <2>2
<1>4. pgw' \in [SA -> {"none", "up", "down"}] /\ AuthenticatedFirst'
  BY DEF PgwDeleteSession, PgwGone, Inv, TypeOK, AuthenticatedFirst
<1> QED
  BY <1>1, <1>3, <1>4 DEF PgwDeleteSession, Inv, ProcInv, TypeOK, TableInv

LEMMA PgwDeleteSTRInv ==
    ASSUME Inv, NEW p \in Proc, PgwDeleteSTR(p)
    PROVE  Inv' /\ Mono
<1> DEFINE s == proc[p].sess
<1>1. Mono /\ (\A a \in SA : SaInv(a)') /\ (\A t \in SA : SessInv(t)')
  BY QuietStep DEF PgwDeleteSTR
<1>2. proc[p] \in Frame /\ proc[p].pc = "pgw_str" /\ s \in SA
  BY DEF PgwDeleteSTR, At, Inv, TypeOK, NoNilDereference, NilSafe, SessionPC, CleanupPC
<1>3. Past(s) /\ sess[s].state # "New" /\ sess[s].state \in Closing
  BY <1>2 DEF Inv, FrameInv, SessionPC, CleanupPC
<1>4. NilSafe([proc[p] EXCEPT !.pc = "pgw_forget"]) /\ "pgw_forget" \in PC
  BY <1>2 DEF NilSafe, Frame, PC, AuthPC, TearDownPC, SessionPC, CleanupPC
<1>5. proc'[p].pc = "pgw_forget" /\ proc'[p].sess = s => FrameInv(p)'
  BY <1>2, <1>3
  DEF PgwDeleteSTR, FrameInv, Past, AuthPC, TearDownPC, SessionPC, CleanupPC
<1>6. ProcInv'
  BY <1>1, <1>4, <1>5, GotoStep DEF PgwDeleteSTR
<1>7. causes' \in [SA -> SUBSET {"USER_MOVED", "LOGOUT"}]
  BY DEF PgwDeleteSTR, SendSTR, Inv, TypeOK
<1> QED
  BY <1>1, <1>6, <1>7
  DEF PgwDeleteSTR, Inv, ProcInv, TypeOK, TableInv, AuthenticatedFirst

-----------------------------------------------------------------------------
(* Steps that change an SA *)

LEMMA SaStep ==
    ASSUME Inv, NEW a \in SA, NEW r \in ikeSA,
           sa' = [sa EXCEPT ![a] = r],
           r.state # "free", r.spi \in SPI,
           Past(a) => r.state \in {"established", "deleting"},
           r.sessionID # None => r.sessionID = a \/ Past(r.sessionID),
           authorized \subseteq authorized', authorized' \subseteq authorized \cup {a},
           r.eap = "msk" => a \in authorized'
    PROVE  /\ sa' \in [SA -> ikeSA] /\ sa'[a] = r
           /\ MonoSa
           /\ \A b \in SA : SaInv(b)'
<1>1. /\ sa' \in [SA -> ikeSA] /\ sa'[a] = r
      /\ \A b \in SA \ {a} : sa'[b] = sa[b]
  BY DEF Inv, TypeOK
<1>2. MonoSa
  BY <1>1 DEF MonoSa, Past
<1>3. \A b \in SA : sa[b].sessionID \in SA \cup {None}
  BY DEF Inv, TypeOK, ikeSA
<1>4. r.sessionID \in SA \cup {None}
  BY DEF ikeSA
<1>5. SaInv(a)'
  BY <1>1, <1>2, <1>4 DEF SaInv, MonoSa
<1>6. ASSUME NEW b \in SA \ {a} PROVE SaInv(b)'
  BY <1>1, <1>2, <1>3, <1>6 DEF Inv, SaInv, MonoSa
<1> QED
  BY <1>1, <1>2, <1>5, <1>6

\* The SPI table gains an entry for an SA in use, or loses one.
LEMMA TableStep ==
    ASSUME Inv, MonoSa, NEW b \in SA, sa'[b].state # "free",
           \A j \in SPI : sas'[j] \in {b, None, sas[j]}
    PROVE  TableInv'
<1> SUFFICES ASSUME NEW j \in SPI, sas'[j] # None PROVE sa'[sas'[j]].state # "free"
  BY DEF TableInv
<1>1. CASE sas'[j] = b
  BY <1>1
<1>2. CASE sas'[j] = sas[j]
  <2>1. sas[j] \in SA /\ sa[sas[j]].state # "free"
    BY <1>2 DEF Inv, TypeOK, TableInv
  <2> QED
    BY <1>2, <2>1 DEF MonoSa
<1> QED
  BY <1>1, <1>2

LEMMA TableKept ==
    ASSUME Inv, MonoSa, sas' = sas PROVE TableInv'
<1> SUFFICES ASSUME NEW j \in SPI, sas[j] # None PROVE sa'[sas[j]].state # "free"
  BY DEF TableInv
<1>1. sas[j] \in SA /\ sa[sas[j]].state # "free"
  BY DEF Inv, TypeOK, TableInv
<1> QED
  BY <1>1 DEF MonoSa

LEMMA SessKept ==
    ASSUME Inv, MonoSa, UNCHANGED <<sess, mgr, gtpu>>
    PROVE  Mono /\ \A s \in SA : SessInv(s)'
  BY DEF Inv, Mono, MonoSa, MonoSess, SessInv, Connected

LEMMA InitRetransmitInv ==
    ASSUME Inv, NEW w \in Worker, NEW i \in SPI, InitRetransmit(w, i)
    PROVE  Inv' /\ Mono
<1> DEFINE a == sas[i]
           r == [sa[a] EXCEPT !.known = TRUE]
<1>1. a \in SA /\ sa[a] \in ikeSA /\ sa[a].state = "auth" /\ SaInv(a)
  BY DEF InitRetransmit, Inv, TypeOK
<1>2. r \in ikeSA
  <2>1. \A v \in BOOLEAN : [sa[a] EXCEPT !.known = v] \in ikeSA
    BY <1>1 DEF ikeSA
  <2> QED
    BY <2>1
<1>3. /\ r.state = "auth" /\ r.spi = sa[a].spi /\ r.eap = sa[a].eap
      /\ r.sessionID = sa[a].sessionID
  BY <1>1 DEF ikeSA
<1>4. sa' = [sa EXCEPT ![a] = r] /\ authorized' = authorized
  BY <1>1 DEF InitRetransmit, Inv, TypeOK
<1>5. sa' \in [SA -> ikeSA] /\ MonoSa /\ \A b \in SA : SaInv(b)'
  BY <1>1, <1>2, <1>3, <1>4, SaStep DEF SaInv, Past
<1>6. Mono /\ \A s \in SA : SessInv(s)'
  BY <1>5, SessKept DEF InitRetransmit
<1>7. ProcInv'
  BY <1>6, UnchangedProc DEF InitRetransmit
<1>8. TableInv'
  BY <1>5 DEF InitRetransmit, Inv, TypeOK, TableInv, MonoSa
<1> QED
  BY <1>5, <1>6, <1>7, <1>8 DEF InitRetransmit, Inv, ProcInv, TypeOK, AuthenticatedFirst

LEMMA InitStoreInv ==
    ASSUME Inv, NEW w \in Worker, InitStore(w)
    PROVE  Inv' /\ Mono
<1> DEFINE i == proc[w].spi
<1>1. w \in Proc /\ proc[w].pc = "init" /\ i \in SPI
  BY DEF InitStore, At, Inv, TypeOK, NoNilDereference, NilSafe, Proc
<1>2. PICK b \in SA, u \in Subscriber, k \in BOOLEAN :
         /\ sa[b].state = "free"
         /\ sa' = [sa EXCEPT ![b] = [FreeSA EXCEPT !.state = "auth", !.spi = i,
                                                  !.ue = u, !.known = k]]
         /\ sas' = [sas EXCEPT ![i] = b]
  BY DEF InitStore
<1> DEFINE r == [FreeSA EXCEPT !.state = "auth", !.spi = i, !.ue = u, !.known = k]
<1>3. /\ r \in ikeSA
      /\ r.state = "auth" /\ r.spi = i /\ r.eap = "first" /\ r.sessionID = None
  <2>1. \A f \in ikeSA : [f EXCEPT !.state = "auth", !.spi = i, !.ue = u, !.known = k]
                          \in ikeSA
    BY <1>1 DEF ikeSA, IkeState
  <2>2. \A f \in ikeSA :
           LET g == [f EXCEPT !.state = "auth", !.spi = i, !.ue = u, !.known = k]
           IN  g.state = "auth" /\ g.spi = i /\ g.eap = f.eap /\ g.sessionID = f.sessionID
    BY DEF ikeSA
  <2> QED
    BY <2>1, <2>2, FreeSAFields
<1>4. sa' \in [SA -> ikeSA] /\ MonoSa /\ (\A a \in SA : SaInv(a)') /\ sa'[b] = r
  <2>1. sa' = [sa EXCEPT ![b] = r] /\ ~Past(b) /\ authorized' = authorized
    BY <1>2 DEF InitStore, Past
  <2> HIDE DEF r
  <2> QED
    BY <1>1, <1>3, <2>1, SaStep
<1>5. Mono /\ \A s \in SA : SessInv(s)'
  BY <1>4, SessKept DEF InitStore
<1>6. ProcInv'
  BY <1>1, <1>5, ReturnStep DEF InitStore
<1>7. sas' \in [SPI -> SA \cup {None}] /\ TableInv'
  <2>1. sas' \in [SPI -> SA \cup {None}] /\ sa'[b].state # "free"
    BY <1>2, <1>3, <1>4 DEF Inv, TypeOK
  <2>2. \A j \in SPI : sas'[j] \in {b, None, sas[j]}
    BY <1>2 DEF Inv, TypeOK
  <2> QED
    BY <1>4, <2>1, <2>2, TableStep
<1> QED
  BY <1>4, <1>5, <1>6, <1>7 DEF InitStore, Inv, ProcInv, TypeOK, AuthenticatedFirst

LEMMA DetachOldInv ==
    ASSUME Inv, NEW w \in Worker, DetachOld(w)
    PROVE  Inv' /\ Mono
<1> DEFINE a == proc[w].other
           r == [sa[a] EXCEPT !.state = "deleting"]
<1>1. /\ w \in Proc /\ proc[w] \in Frame /\ proc[w].pc = "detach"
      /\ a \in SA /\ proc[w].sa \in SA
  BY DEF DetachOld, At, Inv, TypeOK, NoNilDereference, NilSafe, AuthPC, Proc
<1>2. sa[a] \in ikeSA /\ sa[a].state # "free" /\ SaInv(a) /\ proc[w].sa \in authorized
  BY <1>1 DEF Inv, TypeOK, FrameInv, AuthPC
<1>3. /\ r \in ikeSA
      /\ r.state = "deleting" /\ r.spi = sa[a].spi /\ r.eap = sa[a].eap
      /\ r.sessionID = sa[a].sessionID
  BY <1>2 DEF ikeSA, IkeState
<1>4. sa' = [sa EXCEPT ![a] = r] /\ authorized' = authorized
  BY <1>1 DEF DetachOld, Inv, TypeOK
<1>5. sa' \in [SA -> ikeSA] /\ MonoSa /\ (\A b \in SA : SaInv(b)') /\ sa'[a] = r
  BY <1>1, <1>2, <1>3, <1>4, SaStep DEF SaInv
<1>6. Mono /\ \A s \in SA : SessInv(s)'
  BY <1>5, SessKept DEF DetachOld
<1>7. NilSafe([proc[w] EXCEPT !.pc = "td_xfrm"]) /\ "td_xfrm" \in PC
  BY <1>1 DEF NilSafe, Frame, PC, AuthPC, TearDownPC, SessionPC, CleanupPC
<1>8. proc'[w].pc = "td_xfrm" /\ proc'[w].other = a /\ proc'[w].sa = proc[w].sa
      => FrameInv(w)'
  BY <1>2, <1>3, <1>4, <1>5
  DEF FrameInv, Past, AuthPC, TearDownPC, SessionPC, CleanupPC
<1>9. ProcInv'
  BY <1>1, <1>6, <1>7, <1>8, GotoStep DEF DetachOld
<1>10. TableInv' /\ lock' \in [SA -> Proc \cup {None}]
  BY <1>1, <1>5 DEF DetachOld, Acquire, Inv, TypeOK, TableInv, MonoSa
<1> QED
  BY <1>5, <1>6, <1>9, <1>10 DEF DetachOld, Inv, ProcInv, TypeOK, AuthenticatedFirst

LEMMA UeAliveInv ==
    ASSUME Inv, NEW w \in Worker, NEW a \in SA, UeAlive(w, a)
    PROVE  Inv' /\ Mono
<1> DEFINE r == [sa[a] EXCEPT !.dpd = FALSE]
<1>1. sa[a] \in ikeSA /\ sa[a].state # "free" /\ SaInv(a)
  <2>1. PICK i \in SPI : sas[i] = a
    BY DEF UeAlive
  <2>2. sas[i] # None
    BY <2>1, NoneIsNil
  <2> QED
    BY <2>1, <2>2 DEF Inv, TypeOK, TableInv
<1>2. r \in ikeSA
  <2>1. \A v \in BOOLEAN : [sa[a] EXCEPT !.dpd = v] \in ikeSA
    BY <1>1 DEF ikeSA
  <2> QED
    BY <2>1
<1>3. /\ r.state = sa[a].state /\ r.spi = sa[a].spi /\ r.eap = sa[a].eap
      /\ r.sessionID = sa[a].sessionID
  BY <1>1 DEF ikeSA
<1>4. sa' = [sa EXCEPT ![a] = r] /\ authorized' = authorized
  BY DEF UeAlive, Inv, TypeOK
<1>5. sa' \in [SA -> ikeSA] /\ MonoSa /\ \A b \in SA : SaInv(b)'
  BY <1>1, <1>2, <1>3, <1>4, SaStep DEF SaInv, Past
<1>6. Mono /\ \A s \in SA : SessInv(s)'
  BY <1>5, SessKept DEF UeAlive
<1>7. ProcInv'
  BY <1>6, UnchangedProc DEF UeAlive
<1>8. TableInv'
  BY <1>5 DEF UeAlive, Inv, TypeOK, TableInv, MonoSa
<1> QED
  BY <1>5, <1>6, <1>7, <1>8 DEF UeAlive, Inv, ProcInv, TypeOK, AuthenticatedFirst

LEMMA DpdProbeInv ==
    ASSUME Inv, NEW p \in Proc, NEW a \in SA, DpdProbe(p, a)
    PROVE  Inv' /\ Mono
<1> DEFINE r == [sa[a] EXCEPT !.dpd = TRUE]
<1>1. sa[a] \in ikeSA /\ sa[a].state # "free" /\ SaInv(a)
  BY DEF DpdProbe, Inv, TypeOK
<1>2. r \in ikeSA
  <2>1. \A v \in BOOLEAN : [sa[a] EXCEPT !.dpd = v] \in ikeSA
    BY <1>1 DEF ikeSA
  <2> QED
    BY <2>1
<1>3. /\ r.state = sa[a].state /\ r.spi = sa[a].spi /\ r.eap = sa[a].eap
      /\ r.sessionID = sa[a].sessionID
  BY <1>1 DEF ikeSA
<1>4. sa' = [sa EXCEPT ![a] = r] /\ authorized' = authorized
  BY DEF DpdProbe, Inv, TypeOK
<1>5. sa' \in [SA -> ikeSA] /\ MonoSa /\ \A b \in SA : SaInv(b)'
  BY <1>1, <1>2, <1>3, <1>4, SaStep DEF SaInv, Past
<1>6. Mono /\ \A s \in SA : SessInv(s)'
  BY <1>5, SessKept DEF DpdProbe
<1>7. ProcInv'
  BY <1>6, UnchangedProc DEF DpdProbe
<1>8. TableInv'
  BY <1>5 DEF DpdProbe, Inv, TypeOK, TableInv, MonoSa
<1> QED
  BY <1>5, <1>6, <1>7, <1>8 DEF DpdProbe, Inv, ProcInv, TypeOK, AuthenticatedFirst

\* A teardown begins: by the UE's DELETE, or because the UE is silent.
LEMMA TeardownStarts ==
    ASSUME Inv, NEW p \in Proc, NEW a \in SA, NEW r \in ikeSA,
           sa[a].state # "free",
           r.state = "deleting" /\ r.spi = sa[a].spi,
           r.eap = sa[a].eap /\ r.sessionID = sa[a].sessionID,
           sa' = [sa EXCEPT ![a] = r],
           lock' = [lock EXCEPT ![a] = p],
           proc' = [proc EXCEPT ![p] = [Idle EXCEPT !.pc = "td_xfrm", !.other = a]],
           UNCHANGED <<sas, sess, mgr, gtpu, kernel, policy, pgw, authorized, causes, lost>>
    PROVE  Inv' /\ Mono
<1> DEFINE f == [Idle EXCEPT !.pc = "td_xfrm", !.other = a]
<1>1. f \in Frame /\ f.pc = "td_xfrm" /\ f.other = a /\ f.sa = None
  BY DEF Idle, Frame, PC, TearDownPC
<1>2. sa' \in [SA -> ikeSA] /\ MonoSa /\ (\A b \in SA : SaInv(b)') /\ sa'[a] = r
  BY SaStep DEF Inv, SaInv
<1>3. Mono /\ \A s \in SA : SessInv(s)'
  BY <1>2, SessKept
<1>4. NilSafe(f) /\ (proc'[p] = f => FrameInv(p)')
  BY <1>1, <1>2
  DEF NilSafe, FrameInv, Past, AuthPC, TearDownPC, SessionPC, CleanupPC
<1>5. ProcInv'
  BY <1>1, <1>3, <1>4, FrameStep
<1>6. TableInv' /\ lock' \in [SA -> Proc \cup {None}]
  BY <1>2 DEF Inv, TypeOK, TableInv, MonoSa
<1> QED
  BY <1>2, <1>3, <1>5, <1>6 DEF Inv, ProcInv, TypeOK, AuthenticatedFirst

LEMMA DeleteIKEInv ==
    ASSUME Inv, NEW w \in Worker, NEW a \in SA, DeleteIKE(w, a)
    PROVE  Inv' /\ Mono
<1> DEFINE r == [sa[a] EXCEPT !.state = "deleting", !.dpd = FALSE]
<1>1. sa[a] \in ikeSA /\ sa[a].state # "free" /\ w \in Proc
  BY DEF DeleteIKE, Packet, Inv, TypeOK, SaInv, Proc
<1>2. r \in ikeSA
  <2>1. \A v \in BOOLEAN : [sa[a] EXCEPT !.state = "deleting", !.dpd = v] \in ikeSA
    BY <1>1 DEF ikeSA, IkeState
  <2> QED
    BY <2>1
<1>3. /\ r.state = "deleting" /\ r.spi = sa[a].spi /\ r.eap = sa[a].eap
      /\ r.sessionID = sa[a].sessionID
  BY <1>1 DEF ikeSA
<1>4. sa' = [sa EXCEPT ![a] = r]
  BY DEF DeleteIKE, Inv, TypeOK
<1> QED
  BY <1>1, <1>2, <1>3, <1>4, TeardownStarts DEF DeleteIKE

LEMMA DpdTimeoutInv ==
    ASSUME Inv, NEW p \in Proc, NEW a \in SA, DpdTimeout(p, a)
    PROVE  Inv' /\ Mono
<1> DEFINE r == [sa[a] EXCEPT !.state = "deleting"]
<1>1. sa[a] \in ikeSA /\ sa[a].state # "free"
  BY DEF DpdTimeout, Inv, TypeOK
<1>2. /\ r \in ikeSA
      /\ r.state = "deleting" /\ r.spi = sa[a].spi /\ r.eap = sa[a].eap
      /\ r.sessionID = sa[a].sessionID
  BY <1>1 DEF ikeSA, IkeState
<1>3. sa' = [sa EXCEPT ![a] = r]
  BY DEF DpdTimeout, Inv, TypeOK
<1> QED
  BY <1>1, <1>2, <1>3, TeardownStarts DEF DpdTimeout, Acquire

LEMMA RekeyStoreInv ==
    ASSUME Inv, NEW w \in Worker, NEW a \in SA, RekeyStore(w, a)
    PROVE  Inv' /\ Mono
<1>1. w \in Proc /\ sa[a] \in ikeSA /\ Past(a) /\ SaInv(a)
  BY DEF RekeyStore, Inv, TypeOK, Past, Proc
<1>2. PICK b \in SA, i \in SPI :
         /\ sa[b].state = "free"
         /\ sa' = [sa EXCEPT ![b] =
               [FreeSA EXCEPT !.state = "established", !.spi = i,
                              !.ue = sa[a].ue, !.known = TRUE,
                              !.espProp = sa[a].espProp, !.child = sa[a].child,
                              !.sessionID = sa[a].sessionID,
                              !.swmSessionID = sa[a].swmSessionID]]
         /\ sas' = [sas EXCEPT ![i] = b]
         /\ proc' = [proc EXCEPT ![w] = [Idle EXCEPT !.pc = "rekeyed", !.sa = a,
                                                  !.other = b]]
  BY DEF RekeyStore
<1> DEFINE r == [FreeSA EXCEPT !.state = "established", !.spi = i,
                               !.ue = sa[a].ue, !.known = TRUE,
                               !.espProp = sa[a].espProp, !.child = sa[a].child,
                               !.sessionID = sa[a].sessionID,
                               !.swmSessionID = sa[a].swmSessionID]
           f == [Idle EXCEPT !.pc = "rekeyed", !.sa = a, !.other = b]
<1>3. r \in ikeSA
  <2>1. \A v \in BOOLEAN :
           [FreeSA EXCEPT !.state = "established", !.spi = i,
                          !.ue = sa[a].ue, !.known = v,
                          !.espProp = sa[a].espProp, !.child = sa[a].child,
                          !.sessionID = sa[a].sessionID,
                          !.swmSessionID = sa[a].swmSessionID] \in ikeSA
    <3>1. /\ sa[a].ue \in Subscriber \cup {None} /\ sa[a].espProp \in BOOLEAN
          /\ sa[a].child \in SA \cup {None} /\ sa[a].sessionID \in SA \cup {None}
          /\ sa[a].swmSessionID \in SA \cup {None}
      BY <1>1 DEF ikeSA
    <3> QED
      BY <3>1 DEF FreeSA, ikeSA, IkeState, EapState
  <2> QED
    BY <2>1
<1>4. /\ r.state = "established" /\ r.spi = i /\ r.eap = "first"
      /\ r.sessionID = sa[a].sessionID
  BY FreeSAFields DEF ikeSA
<1>5. r.sessionID # None => Past(r.sessionID)
  BY <1>1, <1>4 DEF SaInv
<1>6. sa' \in [SA -> ikeSA] /\ MonoSa /\ (\A c \in SA : SaInv(c)') /\ sa'[b] = r
  <2>1. sa' = [sa EXCEPT ![b] = r] /\ ~Past(b) /\ authorized' = authorized
    BY <1>2 DEF RekeyStore, Past
  <2> HIDE DEF r
  <2> QED
    BY <1>3, <1>4, <1>5, <2>1, SaStep
<1>7. Mono /\ \A s \in SA : SessInv(s)'
  BY <1>6, SessKept DEF RekeyStore
<1>8. f \in Frame /\ f.pc = "rekeyed" /\ f.sa = a /\ f.other = b
  BY IdleFrame DEF Frame, PC
<1>9. NilSafe(f) /\ (proc'[w] = f => FrameInv(w)')
  <2>1. sa'[b].state # "free" /\ Past(a)'
    BY <1>1, <1>4, <1>6 DEF MonoSa
  <2> HIDE DEF f
  <2> QED
    BY <1>8, <2>1 DEF NilSafe, FrameInv, AuthPC, TearDownPC, SessionPC, CleanupPC
<1>10. ProcInv'
  BY <1>1, <1>2, <1>7, <1>8, <1>9, FrameStep
<1>11. /\ sas' \in [SPI -> SA \cup {None}]
       /\ lock' \in [SA -> Proc \cup {None}]
       /\ TableInv'
  <2>1. sas' \in [SPI -> SA \cup {None}] /\ lock' \in [SA -> Proc \cup {None}]
    BY <1>1, <1>2 DEF RekeyStore, Inv, TypeOK
  <2>2. sa'[b].state # "free"
    BY <1>4, <1>6
  <2>3. \A j \in SPI : sas'[j] \in {b, None, sas[j]}
    BY <1>2 DEF Inv, TypeOK
  <2> QED
    BY <1>6, <2>1, <2>2, <2>3, TableStep
<1> QED
  BY <1>6, <1>7, <1>10, <1>11 DEF RekeyStore, Inv, ProcInv, TypeOK, AuthenticatedFirst

-----------------------------------------------------------------------------
(* Steps that change a session *)

LEMMA SessStep ==
    ASSUME Inv, MonoSa, NEW s \in SA, NEW r \in Session,
           sess' = [sess EXCEPT ![s] = r],
           \A t \in SA \ {s} : (t \in mgr' <=> t \in mgr) /\ (t \in gtpu' <=> t \in gtpu),
           r.state # "New", r.spi \in SPI,
           r.s2b => Past(s)' /\ s \in authorized',
           r.state \in Closing => Past(s)',
           r.state = "Active" => s \in mgr' /\ s \in gtpu' /\ r.s2b,
           sess[s].state \in Closing => r.state \in Closing,
           sess[s].state = "Deleted" => r.state = "Deleted",
           Connected(s) => \/ s \in mgr' /\ s \in gtpu' /\ r.s2b
                           \/ r.state \in Closing
    PROVE  /\ sess' \in [SA -> Session] /\ sess'[s] = r
           /\ Mono
           /\ \A t \in SA : SessInv(t)'
<1>1. /\ sess' \in [SA -> Session] /\ sess'[s] = r
      /\ \A t \in SA \ {s} : sess'[t] = sess[t]
  BY DEF Inv, TypeOK
<1>2. Mono
  BY <1>1 DEF Mono, MonoSess, Connected
<1>3. SessInv(s)'
  BY <1>1 DEF SessInv, Connected
<1>4. ASSUME NEW t \in SA \ {s} PROVE SessInv(t)'
  BY <1>1, <1>4 DEF Inv, SessInv, Connected, MonoSa
<1> QED
  BY <1>1, <1>2, <1>3, <1>4

\* The session of an SA that is still in IKE_AUTH is new or attaching.
LEMMA AuthRoundInv ==
    ASSUME Inv, NEW a \in SA, sa[a].state = "auth",
           NEW s1 \in Session, s1.state \notin Closing \cup {"New", "Active"},
           s1.spi \in SPI, ~s1.s2b,
           NEW r \in EapResult,
           sess' = [sess EXCEPT ![a] = SessionAfter(s1, r)],
           mgr' = mgr \cup {a}, gtpu' = gtpu, MonoSa
    PROVE  /\ sess' \in [SA -> Session]
           /\ Mono
           /\ \A t \in SA : SessInv(t)'
<1> DEFINE x == SessionAfter(s1, r)
<1>1. ~Past(a)
  BY DEF Past
<1>2. /\ x \in Session /\ x.spi = s1.spi /\ ~x.s2b
      /\ x.state \notin Closing \cup {"New", "Active"}
  <2>1. CASE r \in {"success", "nomsk"}
    <3>1. x = Step(s1, "EAPAuthenticated")
      BY <2>1 DEF SessionAfter
    <3>2. /\ "EAPAuthenticated" \in Attaching
          /\ "EAPAuthenticated" \notin Closing \cup {"New", "Active"}
      BY DEF Attaching, Closing
    <3>3. /\ x \in Session /\ x.spi = s1.spi /\ x.s2b = s1.s2b
          /\ x.state \in {s1.state, "EAPAuthenticated"}
      <4> HIDE DEF x
      <4> QED
        BY <3>1, <3>2, AttachingStep
    <3> HIDE DEF x
    <3> QED
      BY <3>2, <3>3
  <2>2. CASE ~(r \in {"success", "nomsk"})
    BY <2>2 DEF SessionAfter
  <2> QED
    BY <2>1, <2>2
<1>3. sess' = [sess EXCEPT ![a] = x] /\ x.state # "New" /\ x.state \notin Closing
  BY <1>2
<1>4. sess[a].state \notin Closing /\ ~Connected(a)
  BY <1>1 DEF Inv, SessInv, Connected
<1>5. sess[a].state # "Deleted"
  BY <1>4 DEF Closing
<1> HIDE DEF x
<1>6. x.state # "Active" /\ x.spi \in SPI
  BY <1>2
<1> QED
  BY <1>2, <1>3, <1>4, <1>5, <1>6, SessStep

LEMMA AuthRound1Inv ==
    ASSUME Inv, NEW w \in Worker, NEW a \in SA, AuthRound1(w, a)
    PROVE  Inv' /\ Mono
<1>1. /\ sa[a] \in ikeSA /\ sa[a].state = "auth" /\ sa[a].eap = "first"
      /\ sa[a].spi \in SPI /\ ~Past(a)
  BY DEF AuthRound1, Inv, TypeOK, SaInv, Past
<1> DEFINE s0 == IF a \in mgr THEN sess[a] ELSE NewSession
           s2 == [s0 EXCEPT !.ue = sa[a].ue, !.spi = sa[a].spi]
           s1 == Step(s2, "EAPAuthenticating")
<1>2. PICK r \in EapResult, req \in FirstAuth :
         /\ sess' = [sess EXCEPT ![a] = SessionAfter(s1, r)]
         /\ sa' = [sa EXCEPT ![a] =
               [sa[a] EXCEPT !.sessionID = a,
                         !.handoverIP = @ \/ req.handover,
                         !.espProp = @ \/ req.esp,
                         !.swmSessionID = IF r = "error" THEN @ ELSE a,
                         !.eap = EapAfter(@, r)]]
         /\ authorized' = AuthorizedAfter(a, r)
  BY DEF AuthRound1
<1> DEFINE x == [sa[a] EXCEPT !.sessionID = a,
                              !.handoverIP = @ \/ req.handover,
                              !.espProp = @ \/ req.esp,
                              !.swmSessionID = IF r = "error" THEN @ ELSE a,
                              !.eap = EapAfter(@, r)]
<1>3. /\ authorized \subseteq authorized' /\ authorized' \subseteq SA
      /\ authorized' \subseteq authorized \cup {a}
      /\ EapAfter(sa[a].eap, r) \in EapState
      /\ EapAfter(sa[a].eap, r) = "msk" => a \in authorized'
  BY <1>1, <1>2 DEF EapAfter, AuthorizedAfter, EapResult, EapState, Inv, TypeOK
<1>4. x \in ikeSA
  <2>1. \A h, e \in BOOLEAN, v \in SA \cup {None}, p \in EapState :
           [sa[a] EXCEPT !.sessionID = a, !.handoverIP = h, !.espProp = e,
                         !.swmSessionID = v, !.eap = p] \in ikeSA
    BY <1>1 DEF ikeSA
  <2>2. (sa[a].handoverIP \/ req.handover) \in BOOLEAN /\ (sa[a].espProp \/ req.esp) \in BOOLEAN
    OBVIOUS
  <2>3. (IF r = "error" THEN sa[a].swmSessionID ELSE a) \in SA \cup {None}
    BY <1>1 DEF ikeSA
  <2> QED
    BY <1>3, <2>1, <2>2, <2>3, Zenon
<1>5. /\ x.state = "auth" /\ x.spi = sa[a].spi /\ x.sessionID = a
      /\ x.eap = EapAfter(sa[a].eap, r)
  BY <1>1 DEF ikeSA
<1>6. sa' = [sa EXCEPT ![a] = x]
  BY <1>2, Zenon
<1>7. sa' \in [SA -> ikeSA] /\ MonoSa /\ \A b \in SA : SaInv(b)'
  <2> HIDE DEF x
  <2> QED
    BY <1>1, <1>3, <1>4, <1>5, <1>6, SaStep
<1>8. /\ s0 \in Session /\ ~s0.s2b
      /\ s0.state \notin Closing \cup {"Active"}
  <2>1. sess[a] \in Session /\ ~sess[a].s2b /\ sess[a].state \notin Closing
    BY <1>1 DEF Inv, TypeOK, SessInv
  <2>2. sess[a].state # "Active"
    BY <1>1, <2>1 DEF Inv, SessInv, Connected
  <2>3. CASE a \in mgr
    BY <2>1, <2>2, <2>3
  <2>4. CASE a \notin mgr
    BY <2>4, NewSessionFields DEF Closing
  <2> QED
    BY <2>3, <2>4
<1>9. /\ s2 \in Session /\ ~s2.s2b /\ s2.spi = sa[a].spi /\ s2.state = s0.state
  <2>1. \A z \in Session : LET y == [z EXCEPT !.ue = sa[a].ue, !.spi = sa[a].spi]
                           IN  y \in Session /\ y.s2b = z.s2b /\ y.spi = sa[a].spi
                               /\ y.state = z.state
    BY <1>1 DEF Session, ikeSA
  <2> HIDE DEF s0
  <2> QED
    BY <1>8, <2>1
<1>10. /\ s1 \in Session /\ ~s1.s2b /\ s1.spi \in SPI
       /\ s1.state \notin Closing \cup {"New", "Active"}
  <2>1. /\ "EAPAuthenticating" \in Attaching
        /\ "EAPAuthenticating" \notin Closing \cup {"New", "Active"}
    BY DEF Attaching, Closing
  <2>2. /\ s1 \in Session /\ ~s1.s2b /\ s1.spi \in SPI
        /\ s1.state \in {s0.state, "EAPAuthenticating"}
    <3> HIDE DEF s2, s0
    <3> QED
      BY <1>1, <1>9, <2>1, AttachingStep
  <2>3. s0.state = "New" => s1.state = "EAPAuthenticating"
    <3>1. Transition("New", "EAPAuthenticating") = "EAPAuthenticating"
      BY DEF Transition, allowedTransitions, AttachStep
    <3>2. s1.state = Transition(s2.state, "EAPAuthenticating")
      <4> HIDE DEF s0, s2
      <4>1. s2.state \in SessionState
        BY <1>9 DEF Session
      <4>2. Transition(s2.state, "EAPAuthenticating") \in SessionState
        BY <2>1, <4>1, AttachTransition
      <4> QED
        BY <1>9, <4>2, StepFields
    <3> HIDE DEF s0, s1, s2
    <3> QED
      BY <1>9, <3>1, <3>2
  <2> HIDE DEF s0, s1
  <2> QED
    BY <1>8, <2>1, <2>2, <2>3
<1>11. sess' \in [SA -> Session] /\ Mono /\ \A t \in SA : SessInv(t)'
  <2> HIDE DEF s1
  <2>1. mgr' = mgr \cup {a} /\ gtpu' = gtpu
    BY DEF AuthRound1
  <2> QED
    BY <1>1, <1>2, <1>7, <1>10, <2>1, AuthRoundInv
<1>12. ProcInv'
  BY <1>11, UnchangedProc DEF AuthRound1
<1>13. TableInv' /\ mgr' \subseteq SA /\ AuthenticatedFirst'
  BY <1>3, <1>7 DEF AuthRound1, Inv, TypeOK, TableInv, MonoSa, AuthenticatedFirst
<1> QED
  BY <1>3, <1>7, <1>11, <1>12, <1>13 DEF AuthRound1, Inv, ProcInv, TypeOK

LEMMA AuthEAPInv ==
    ASSUME Inv, NEW w \in Worker, NEW a \in SA, AuthEAP(w, a)
    PROVE  Inv' /\ Mono
<1>1. /\ sa[a] \in ikeSA /\ sa[a].state = "auth" /\ sa[a].spi \in SPI /\ ~Past(a)
      /\ SaInv(a)
  BY DEF AuthEAP, Inv, TypeOK, SaInv, Past
<1>2. PICK r \in EapResult :
         /\ sa' = [sa EXCEPT ![a].eap = EapAfter(@, r)]
         /\ authorized' = AuthorizedAfter(a, r)
         /\ sess' = IF a \in mgr
                    THEN [sess EXCEPT ![a] = SessionAfter(@, r)]
                    ELSE sess
  BY DEF AuthEAP
<1> DEFINE x == [sa[a] EXCEPT !.eap = EapAfter(@, r)]
<1>3. sa[a].eap \in EapState /\ (sa[a].eap = "msk" => a \in authorized)
  BY <1>1 DEF ikeSA, SaInv
<1>4. /\ authorized \subseteq authorized' /\ authorized' \subseteq SA
      /\ authorized' \subseteq authorized \cup {a}
      /\ EapAfter(sa[a].eap, r) \in EapState
      /\ EapAfter(sa[a].eap, r) = "msk" => a \in authorized'
  BY <1>2, <1>3 DEF EapAfter, AuthorizedAfter, EapResult, EapState, Inv, TypeOK
<1>5. /\ x \in ikeSA
      /\ x.state = "auth" /\ x.spi = sa[a].spi /\ x.sessionID = sa[a].sessionID
      /\ x.eap = EapAfter(sa[a].eap, r)
  BY <1>1, <1>4 DEF ikeSA
<1>6. sa' = [sa EXCEPT ![a] = x]
  BY <1>2 DEF Inv, TypeOK
<1>7. sa' \in [SA -> ikeSA] /\ MonoSa /\ \A b \in SA : SaInv(b)'
  <2> HIDE DEF x
  <2>1. /\ x.state # "free" /\ x.spi \in SPI
        /\ x.sessionID # None => x.sessionID = a \/ Past(x.sessionID)
        /\ x.eap = "msk" => a \in authorized'
    BY <1>1, <1>4, <1>5 DEF SaInv
  <2> QED
    BY <1>1, <1>4, <1>5, <1>6, <2>1, SaStep
<1>8. sess' \in [SA -> Session] /\ Mono /\ \A t \in SA : SessInv(t)'
  <2>1. mgr' = mgr /\ gtpu' = gtpu
    BY DEF AuthEAP
  <2>2. CASE a \in mgr
    <3>1. sess[a] \in Session /\ ~sess[a].s2b /\ sess[a].state \notin Closing
      BY <1>1 DEF Inv, TypeOK, SessInv
    <3>2. /\ sess[a].state # "Active"
          /\ sess[a].state # "New" /\ sess[a].spi \in SPI
      BY <1>1, <2>2, <3>1 DEF Inv, SessInv, Connected
    <3>3. sess' = [sess EXCEPT ![a] = SessionAfter(sess[a], r)] /\ mgr' = mgr \cup {a}
      BY <1>2, <2>1, <2>2
    <3> QED
      BY <1>1, <1>7, <2>1, <3>1, <3>2, <3>3, AuthRoundInv
  <2>3. CASE a \notin mgr
    BY <1>2, <1>7, <2>1, <2>3, SessKept DEF Inv, TypeOK
  <2> QED
    BY <2>2, <2>3
<1>9. ProcInv'
  BY <1>8, UnchangedProc DEF AuthEAP
<1>10. TableInv' /\ AuthenticatedFirst'
  BY <1>4, <1>7 DEF AuthEAP, Inv, TypeOK, TableInv, MonoSa, AuthenticatedFirst
<1> QED
  BY <1>4, <1>7, <1>8, <1>9, <1>10 DEF AuthEAP, Inv, ProcInv, TypeOK

LEMMA AcceptInv ==
    ASSUME Inv, NEW w \in Worker, Accept(w)
    PROVE  Inv' /\ Mono
<1>0. PICK a \in SA : a = proc[w].sa
  BY DEF Accept, At, Inv, TypeOK, NoNilDereference, NilSafe, AuthPC, Proc
<1> DEFINE r == [sa[a] EXCEPT !.state = "established", !.child = a]
<1>1. /\ w \in Proc /\ proc[w] \in Frame /\ proc[w].pc = "accept" /\ proc[w].sa = a
  BY <1>0 DEF Accept, At, Inv, TypeOK, Proc
<1>2. a \in authorized /\ authorized' = authorized /\ sa[a] \in ikeSA /\ SaInv(a)
  BY <1>1 DEF Accept, Inv, TypeOK, FrameInv, AuthPC
<1>3. sa[a].state # "free"
  BY <1>2 DEF SaInv
<1>4. /\ r \in ikeSA
      /\ r.state = "established" /\ r.spi = sa[a].spi /\ r.eap = sa[a].eap
      /\ r.sessionID = sa[a].sessionID
  BY <1>1, <1>2 DEF ikeSA, IkeState
<1>5. sa' = [sa EXCEPT ![a] = r]
  BY <1>1 DEF Accept, Inv, TypeOK
<1>6. sa' \in [SA -> ikeSA] /\ MonoSa /\ (\A b \in SA : SaInv(b)') /\ sa'[a] = r
  <2> HIDE DEF r
  <2>1. /\ r.state # "free" /\ r.spi \in SPI
        /\ r.state \in {"established", "deleting"}
        /\ r.sessionID # None => r.sessionID = a \/ Past(r.sessionID)
    BY <1>2, <1>3, <1>4 DEF SaInv
  <2> QED
    BY <1>2, <1>4, <1>5, <2>1, SaStep
<1>7. Past(a)'
  <2>1. sa'[a].state = "established"
    BY <1>4, <1>6
  <2> QED
    BY <2>1 DEF Past
<1>8. sess' \in [SA -> Session] /\ Mono /\ \A t \in SA : SessInv(t)'
  <2>1. mgr' = mgr /\ gtpu' = gtpu
    BY DEF Accept
  <2>2. CASE a \in mgr
    <3> DEFINE y == Step(sess[a], "S2bCreateSessionSent")
               z == Step(y, "S2bAccepted")
               x == [z EXCEPT !.s2b = TRUE]
    <3>1. /\ "S2bCreateSessionSent" \in Attaching /\ "S2bAccepted" \in Attaching
          /\ {"S2bCreateSessionSent", "S2bAccepted"} \cap
                 (Closing \cup {"New", "Active"}) = {}
      BY DEF Attaching, Closing
    <3>2. sess[a] \in Session /\ sess[a].state # "New" /\ sess[a].spi \in SPI
      BY <1>1, <2>2 DEF Inv, TypeOK, SessInv
    <3>3. /\ y \in Session /\ y.spi = sess[a].spi
          /\ y.state \in {sess[a].state, "S2bCreateSessionSent"}
          /\ sess[a].state \in Closing => y.state = sess[a].state
      BY <3>1, <3>2, AttachingStep
    <3>4. /\ z \in Session /\ z.spi = sess[a].spi
          /\ z.state \in {y.state, "S2bAccepted"}
          /\ y.state \in Closing => z.state = y.state
      <4> HIDE DEF y
      <4> QED
        BY <3>1, <3>3, AttachingStep
    <3>5. /\ x \in Session /\ x.spi = sess[a].spi /\ x.state = z.state /\ x.s2b
      <4> HIDE DEF z
      <4>1. \A v \in BOOLEAN : [z EXCEPT !.s2b = v] \in Session
        BY <3>4 DEF Session
      <4> QED
        BY <3>4, <4>1 DEF Session
    <3>6. /\ x.state # "New"
          /\ x.state = "Active" => sess[a].state = "Active"
          /\ sess[a].state \in Closing => x.state = sess[a].state
          /\ x.state \in Closing => sess[a].state \in Closing
      <4> HIDE DEF x, y, z
      <4> QED
        BY <3>1, <3>2, <3>3, <3>4, <3>5
    <3>7. sess' = [sess EXCEPT ![a] = x]
      BY <1>1, <2>2 DEF Accept
    <3>8. sess[a].state = "Active" => a \in mgr /\ a \in gtpu
      BY <1>1 DEF Inv, SessInv, Connected
    <3> HIDE DEF x
    <3>9. /\ x.spi \in SPI
          /\ Past(a)' /\ a \in authorized'
          /\ x.state = "Active" => a \in mgr' /\ a \in gtpu' /\ x.s2b
          /\ sess[a].state \in Closing => x.state \in Closing
          /\ sess[a].state = "Deleted" => x.state = "Deleted"
          /\ Connected(a) => a \in mgr' /\ a \in gtpu' /\ x.s2b
      BY <1>2, <1>7, <2>1, <3>2, <3>5, <3>6, <3>8 DEF Connected, Closing
    <3> QED
      BY <1>1, <1>6, <2>1, <3>5, <3>6, <3>7, <3>9, SessStep
  <2>3. CASE a \notin mgr
    BY <1>1, <1>6, <2>1, <2>3, SessKept DEF Accept, Inv, TypeOK
  <2> QED
    BY <2>2, <2>3
<1>9. ProcInv'
  <2>1. CASE Goto(w, "install")
    <3>1. NilSafe([proc[w] EXCEPT !.pc = "install"]) /\ "install" \in PC
      BY <1>1 DEF NilSafe, Frame, PC, AuthPC, TearDownPC, SessionPC, CleanupPC
    <3>2. proc'[w].pc = "install" /\ proc'[w].sa = a => FrameInv(w)'
      BY <1>2, <1>3, <1>6 DEF FrameInv, MonoSa, AuthPC, TearDownPC, SessionPC, CleanupPC
    <3> QED
      BY <1>1, <1>8, <2>1, <3>1, <3>2, GotoStep
  <2>2. CASE Return(w)
    BY <1>1, <1>8, <2>2, ReturnStep
  <2> QED
    BY <2>1, <2>2 DEF Accept
<1>10. TableInv' /\ lock' \in [SA -> Proc \cup {None}]
  <2>1. sas' = sas
    BY DEF Accept
  <2>2. lock' \in [SA -> Proc \cup {None}]
    BY <1>1 DEF Accept, Release, Inv, TypeOK
  <2> QED
    BY <2>1, <2>2, <1>6, TableKept
<1> QED
  BY <1>6, <1>8, <1>9, <1>10 DEF Accept, Inv, ProcInv, TypeOK, AuthenticatedFirst

LEMMA RekeyedInv ==
    ASSUME Inv, NEW w \in Worker, Rekeyed(w)
    PROVE  Inv' /\ Mono
<1>0. PICK a \in SA, b \in SA : a = proc[w].sa /\ b = proc[w].other
  BY DEF Rekeyed, At, Inv, TypeOK, NoNilDereference, NilSafe, TearDownPC, AuthPC, Proc
<1>1. w \in Proc /\ proc[w] \in Frame /\ proc[w].pc = "rekeyed"
  BY DEF Rekeyed, At, Inv, TypeOK, Proc
<1>2. /\ sa[a] \in ikeSA /\ SaInv(a) /\ sa[b].state # "free" /\ SaInv(b)
      /\ sa[a].state # "free" /\ authorized' = authorized
  BY <1>0, <1>1 DEF Rekeyed, Inv, TypeOK, FrameInv, Past
<1> DEFINE r == [sa[a] EXCEPT !.sessionID = None, !.swmSessionID = None, !.espProp = FALSE]
<1>3. r \in ikeSA
  <2>1. \A v \in BOOLEAN : [sa[a] EXCEPT !.sessionID = None, !.swmSessionID = None,
                                         !.espProp = v] \in ikeSA
    BY <1>2 DEF ikeSA
  <2> QED
    BY <2>1
<1>4. /\ r.state = sa[a].state /\ r.spi = sa[a].spi /\ r.eap = sa[a].eap
      /\ r.sessionID = None
  BY <1>2 DEF ikeSA
<1>5. sa' = [sa EXCEPT ![a] = r]
  BY <1>0 DEF Rekeyed, Inv, TypeOK
<1>6. sa' \in [SA -> ikeSA] /\ MonoSa /\ \A c \in SA : SaInv(c)'
  <2> HIDE DEF r
  <2>1. /\ r.state # "free" /\ r.spi \in SPI
        /\ Past(a) => r.state \in {"established", "deleting"}
        /\ r.eap = "msk" => a \in authorized'
    BY <1>2, <1>4 DEF SaInv, Past
  <2> QED
    BY <1>2, <1>3, <1>4, <1>5, <2>1, SaStep
<1>7. sess' \in [SA -> Session] /\ Mono /\ \A t \in SA : SessInv(t)'
  <2>1. mgr' = mgr /\ gtpu' = gtpu
    BY DEF Rekeyed
  <2>2. CASE sa[a].sessionID \in mgr
    <3>0. PICK s \in SA : s = sa[a].sessionID
      BY <2>2 DEF Inv, TypeOK
    <3> DEFINE x == [sess[s] EXCEPT !.spi = sa[b].spi]
    <3>1. sess[s] \in Session /\ sess[s].state # "New" /\ sa[b].spi \in SPI
      BY <1>2, <2>2, <3>0 DEF Inv, TypeOK, SessInv, SaInv
    <3>2. /\ x \in Session /\ x.state = sess[s].state /\ x.s2b = sess[s].s2b
          /\ x.spi = sa[b].spi
      BY <3>1 DEF Session
    <3>3. sess' = [sess EXCEPT ![s] = x]
      BY <1>0, <2>2, <3>0 DEF Rekeyed, Inv, TypeOK
    <3> HIDE DEF x
    <3>4. /\ x.s2b => Past(s)' /\ s \in authorized'
          /\ x.state \in Closing => Past(s)'
          /\ x.state = "Active" => s \in mgr' /\ s \in gtpu' /\ x.s2b
          /\ Connected(s) => s \in mgr' /\ s \in gtpu' /\ x.s2b
      BY <1>2, <1>6, <2>1, <3>2 DEF Inv, SessInv, Connected, MonoSa
    <3> QED
      BY <1>6, <2>1, <3>1, <3>2, <3>3, <3>4, SessStep
  <2>3. CASE ~(sa[a].sessionID \in mgr)
    BY <1>0, <1>6, <2>1, <2>3, SessKept DEF Rekeyed, Inv, TypeOK
  <2> QED
    BY <2>2, <2>3
<1>8. ProcInv'
  BY <1>1, <1>7, ReturnStep DEF Rekeyed
<1>9. TableInv' /\ lock' \in [SA -> Proc \cup {None}]
  <2>1. sas' = sas /\ lock' = [lock EXCEPT ![a] = None]
    BY <1>0 DEF Rekeyed, Release
  <2>2. lock' \in [SA -> Proc \cup {None}]
    BY <2>1 DEF Inv, TypeOK
  <2> QED
    BY <2>1, <2>2, <1>6, TableKept
<1> QED
  BY <1>6, <1>7, <1>8, <1>9 DEF Rekeyed, Inv, ProcInv, TypeOK, AuthenticatedFirst

LEMMA SaKept ==
    ASSUME Inv, UNCHANGED <<sa, authorized>>
    PROVE  MonoSa /\ (\A a \in SA : SaInv(a)') /\ (\A a \in SA : Past(a)' <=> Past(a))
  BY DEF Inv, MonoSa, SaInv, Past

LEMMA InstallChildSAInv ==
    ASSUME Inv, NEW w \in Worker, InstallChildSA(w)
    PROVE  Inv' /\ Mono
<1>0. PICK a \in SA : a = proc[w].sa
  BY DEF InstallChildSA, At, Inv, TypeOK, NoNilDereference, NilSafe, AuthPC, Proc
<1>1. /\ w \in Proc /\ proc[w] \in Frame /\ proc[w].pc = "install"
      /\ a \in authorized /\ authorized' = authorized
  BY <1>0 DEF InstallChildSA, At, Inv, TypeOK, FrameInv, AuthPC, Proc
<1>2. MonoSa /\ (\A b \in SA : SaInv(b)') /\ (\A b \in SA : Past(b)' <=> Past(b))
  BY SaKept DEF InstallChildSA
<1>3. sess' \in [SA -> Session] /\ Mono /\ \A t \in SA : SessInv(t)'
  <2>1. mgr' = mgr /\ gtpu' = gtpu
    BY DEF InstallChildSA
  <2>2. CASE a \in mgr /\ sess' = [sess EXCEPT ![a] = Step(@, "GTPUInstalling")]
    <3> DEFINE x == Step(sess[a], "GTPUInstalling")
    <3>1. /\ "GTPUInstalling" \in Attaching
          /\ "GTPUInstalling" \notin Closing \cup {"New", "Active"}
      BY DEF Attaching, Closing
    <3>2. sess[a] \in Session /\ sess[a].state # "New" /\ sess[a].spi \in SPI
      BY <2>2 DEF Inv, TypeOK, SessInv
    <3>3. /\ x \in Session /\ x.spi = sess[a].spi /\ x.s2b = sess[a].s2b
          /\ x.state \in {sess[a].state, "GTPUInstalling"}
          /\ sess[a].state \in Closing => x.state = sess[a].state
      BY <3>1, <3>2, AttachingStep
    <3>4. sess' = [sess EXCEPT ![a] = x]
      BY <2>2
    <3> HIDE DEF x
    <3>5. /\ x.state # "New"
          /\ x.s2b => Past(a)' /\ a \in authorized'
          /\ x.state \in Closing => Past(a)'
          /\ x.state = "Active" => a \in mgr' /\ a \in gtpu' /\ x.s2b
          /\ sess[a].state = "Deleted" => x.state = "Deleted"
          /\ Connected(a) => a \in mgr' /\ a \in gtpu' /\ x.s2b
      BY <1>1, <1>2, <2>1, <3>1, <3>2, <3>3 DEF Inv, SessInv, Connected, Closing
    <3> QED
      BY <1>2, <2>1, <3>2, <3>3, <3>4, <3>5, SessStep
  <2>3. CASE sess' = sess
    BY <1>2, <2>1, <2>3, SessKept DEF Inv, TypeOK
  <2> QED
    BY <1>0, <2>2, <2>3 DEF InstallChildSA
<1>4. ProcInv'
  <2>1. CASE Goto(w, "gtpu")
    <3>1. NilSafe([proc[w] EXCEPT !.pc = "gtpu"]) /\ "gtpu" \in PC
      BY <1>0, <1>1 DEF NilSafe, Frame, PC, AuthPC, TearDownPC, SessionPC, CleanupPC
    <3>2. proc'[w].pc = "gtpu" /\ proc'[w].sa = a => FrameInv(w)'
      BY <1>1 DEF FrameInv, AuthPC, TearDownPC, SessionPC, CleanupPC
    <3> QED
      BY <1>0, <1>1, <1>3, <2>1, <3>1, <3>2, GotoStep
  <2>2. CASE Return(w)
    BY <1>1, <1>3, <2>2, ReturnStep
  <2> QED
    BY <2>1, <2>2 DEF InstallChildSA
<1>5. /\ lock' \in [SA -> Proc \cup {None}]
      /\ kernel' \subseteq kernel \cup {a} /\ policy' \subseteq policy \cup {a}
  BY <1>0 DEF InstallChildSA, Release, Inv, TypeOK
<1>6. kernel' \subseteq SA /\ policy' \subseteq SA /\ AuthenticatedFirst'
  BY <1>1, <1>5 DEF InstallChildSA, Inv, TypeOK, AuthenticatedFirst
<1> QED
  BY <1>2, <1>3, <1>4, <1>5, <1>6 DEF InstallChildSA, Inv, ProcInv, TypeOK, TableInv

LEMMA AddSessionInv ==
    ASSUME Inv, NEW w \in Worker, AddSession(w)
    PROVE  Inv' /\ Mono
<1>0. PICK a \in SA : a = proc[w].sa
  BY DEF AddSession, At, Inv, TypeOK, NoNilDereference, NilSafe, AuthPC, Proc
<1>1. /\ w \in Proc /\ proc[w] \in Frame /\ proc[w].pc = "gtpu"
      /\ a \in authorized /\ authorized' = authorized
  BY <1>0 DEF AddSession, At, Inv, TypeOK, FrameInv, AuthPC, Proc
<1>2. MonoSa /\ (\A b \in SA : SaInv(b)') /\ (\A b \in SA : Past(b)' <=> Past(b))
  BY SaKept DEF AddSession
<1>3. sess' = sess /\ mgr' = mgr /\ gtpu \subseteq gtpu' /\ gtpu' \subseteq gtpu \cup {a}
  BY <1>0 DEF AddSession
<1>4. Mono /\ \A t \in SA : SessInv(t)'
  BY <1>1, <1>2, <1>3 DEF Inv, SessInv, Connected, Mono, MonoSess
<1>5. ProcInv'
  <2>1. CASE /\ a \in mgr /\ sess[a].s2b /\ gtpu' = gtpu \cup {a}
             /\ proc' = [proc EXCEPT ![w].pc = "activate", ![w].sess = a]
    <3> DEFINE f == [proc[w] EXCEPT !.pc = "activate", !.sess = a]
    <3>1. f \in Frame /\ f.pc = "activate" /\ f.sess = a /\ f.sa = a
      BY <1>0, <1>1 DEF Frame, PC, AuthPC
    <3>2. Connected(a)' /\ a \in authorized'
      BY <1>1, <1>3, <2>1 DEF Connected
    <3>3. proc' = [proc EXCEPT ![w] = f]
      BY <1>1, <2>1 DEF Inv, TypeOK
    <3> HIDE DEF f
    <3>4. NilSafe(f) /\ (proc'[w] = f => FrameInv(w)')
      BY <3>1, <3>2
      DEF NilSafe, FrameInv, AuthPC, TearDownPC, SessionPC, CleanupPC
    <3> QED
      BY <1>1, <1>4, <3>1, <3>3, <3>4, FrameStep
  <2>2. CASE Return(w)
    BY <1>1, <1>4, <2>2, ReturnStep
  <2> QED
    BY <1>0, <2>1, <2>2 DEF AddSession
<1>6. lock' \in [SA -> Proc \cup {None}] /\ gtpu' \subseteq SA /\ AuthenticatedFirst'
  BY <1>0, <1>1, <1>3 DEF AddSession, Release, Inv, TypeOK, AuthenticatedFirst
<1> QED
  BY <1>2, <1>3, <1>4, <1>5, <1>6 DEF AddSession, Inv, ProcInv, TypeOK, TableInv

LEMMA ActivateInv ==
    ASSUME Inv, NEW w \in Worker, Activate(w)
    PROVE  Inv' /\ Mono
<1>0. PICK s \in SA : s = proc[w].sess
  BY DEF Activate, At, Inv, TypeOK, NoNilDereference, NilSafe, SessionPC, Proc
<1>1. w \in Proc /\ proc[w] \in Frame /\ proc[w].pc = "activate" /\ proc[w].sa \in SA
  BY DEF Activate, At, Inv, TypeOK, NoNilDereference, NilSafe, AuthPC, Proc
<1>2. Connected(s) \/ sess[s].state \in Closing
  BY <1>0, <1>1 DEF Inv, FrameInv
<1>3. MonoSa /\ (\A b \in SA : SaInv(b)') /\ (\A b \in SA : Past(b)' <=> Past(b))
  BY SaKept DEF Activate
<1>4. mgr' = mgr /\ gtpu' = gtpu /\ authorized' = authorized
  BY DEF Activate
<1> DEFINE y == Step(sess[s], "DatapathInstalling")
           x == Step(y, "Active")
<1>5. /\ "DatapathInstalling" \in Attaching /\ "Active" \in Attaching
      /\ "DatapathInstalling" \notin Closing \cup {"New", "Active"}
      /\ "Active" \notin Closing \cup {"New"}
  BY DEF Attaching, Closing
<1>6. sess[s] \in Session /\ sess[s].state # "New" /\ sess[s].spi \in SPI
  <2>1. sess[s].state # "New"
    BY <1>2 DEF Inv, SessInv, Connected, Closing
  <2> QED
    BY <2>1 DEF Inv, TypeOK, SessInv
<1>7. /\ y \in Session /\ y.spi = sess[s].spi /\ y.s2b = sess[s].s2b
      /\ y.state \in {sess[s].state, "DatapathInstalling"}
      /\ sess[s].state \in Closing => y.state = sess[s].state
  BY <1>5, <1>6, AttachingStep
<1>8. /\ x \in Session /\ x.spi = sess[s].spi /\ x.s2b = sess[s].s2b
      /\ x.state \in {y.state, "Active"}
      /\ y.state \in Closing => x.state = y.state
  <2> HIDE DEF y
  <2> QED
    BY <1>5, <1>7, AttachingStep
<1>9. sess' = [sess EXCEPT ![s] = x]
  BY <1>0 DEF Activate, Inv, TypeOK
<1> HIDE DEF x, y
<1>10. /\ x.state # "New"
       /\ sess[s].state \in Closing => x.state = sess[s].state
       /\ x.state \in Closing => sess[s].state \in Closing
       /\ x.state = "Active" => Connected(s)
  BY <1>2, <1>5, <1>6, <1>7, <1>8
<1>11. /\ x.s2b => Past(s)' /\ s \in authorized'
       /\ x.state \in Closing => Past(s)'
       /\ x.state = "Active" => s \in mgr' /\ s \in gtpu' /\ x.s2b
       /\ sess[s].state = "Deleted" => x.state = "Deleted"
       /\ Connected(s) => s \in mgr' /\ s \in gtpu' /\ x.s2b
  BY <1>3, <1>4, <1>8, <1>10 DEF Inv, SessInv, Connected, Closing
<1>12. sess' \in [SA -> Session] /\ Mono /\ \A t \in SA : SessInv(t)'
  BY <1>3, <1>4, <1>6, <1>8, <1>9, <1>10, <1>11, SessStep
<1>13. ProcInv'
  BY <1>1, <1>12, ReturnStep DEF Activate
<1>14. lock' \in [SA -> Proc \cup {None}]
  BY <1>1 DEF Activate, Release, Inv, TypeOK
<1> QED
  BY <1>3, <1>12, <1>13, <1>14
  DEF Activate, Inv, ProcInv, TypeOK, TableInv, AuthenticatedFirst

\* Only the tunnel or the table entry of a session being torn down is removed.
LEMMA RemovalStep ==
    ASSUME Inv, NEW s \in SA, sess[s].state \in Closing,
           UNCHANGED <<sa, authorized, sess>>,
           mgr' \subseteq mgr /\ gtpu' \subseteq gtpu,
           \A t \in SA \ {s} : (t \in mgr' <=> t \in mgr) /\ (t \in gtpu' <=> t \in gtpu)
    PROVE  Mono /\ (\A a \in SA : SaInv(a)') /\ (\A t \in SA : SessInv(t)')
<1>1. MonoSa /\ (\A b \in SA : SaInv(b)') /\ (\A b \in SA : Past(b)' <=> Past(b))
  BY SaKept
<1>2. sess[s].state # "Active"
  BY DEF Closing
<1>3. Mono
  BY <1>1 DEF Mono, MonoSess, Connected
<1>4. ASSUME NEW t \in SA PROVE SessInv(t)'
  BY <1>1, <1>2 DEF Inv, SessInv, Connected
<1> QED
  BY <1>1, <1>3, <1>4

LEMMA TearDownGtpuInv ==
    ASSUME Inv, NEW p \in Proc, TearDownGtpu(p)
    PROVE  Inv' /\ Mono
<1> DEFINE s == proc[p].sess
<1>1. /\ proc[p] \in Frame /\ proc[p].pc = "td_gtpu"
      /\ proc[p].other \in SA /\ s \in SA
  BY DEF TearDownGtpu, At, Inv, TypeOK, NoNilDereference, NilSafe, TearDownPC, SessionPC
<1>2. /\ Past(proc[p].other) /\ proc[p].sa \in authorized \cup {None}
      /\ Past(s) /\ sess[s].state \in Closing /\ sess[s].state # "New" /\ s \in authorized
  BY <1>1 DEF Inv, FrameInv, TearDownPC, SessionPC
<1>3. Mono /\ (\A b \in SA : SaInv(b)') /\ (\A t \in SA : SessInv(t)')
  BY <1>1, <1>2, RemovalStep DEF TearDownGtpu
<1>4. NilSafe([proc[p] EXCEPT !.pc = "td_s2b"]) /\ "td_s2b" \in PC
  BY <1>1 DEF NilSafe, Frame, PC, AuthPC, TearDownPC, SessionPC, CleanupPC
<1>5. /\ proc'[p].pc = "td_s2b" /\ proc'[p].other = proc[p].other
      /\ proc'[p].sa = proc[p].sa /\ proc'[p].sess = s
      => FrameInv(p)'
  BY <1>2 DEF TearDownGtpu, FrameInv, Past, AuthPC, TearDownPC, SessionPC, CleanupPC
<1>6. ProcInv'
  BY <1>3, <1>4, <1>5, GotoStep DEF TearDownGtpu
<1>7. gtpu' \subseteq gtpu
  BY DEF TearDownGtpu
<1> QED
  BY <1>3, <1>6, <1>7 DEF TearDownGtpu, Inv, ProcInv, TypeOK, TableInv, AuthenticatedFirst

LEMMA CleanupGtpuInv ==
    ASSUME Inv, NEW p \in Proc, CleanupGtpu(p)
    PROVE  Inv' /\ Mono
<1> DEFINE s == proc[p].sess
<1>1. proc[p] \in Frame /\ proc[p].pc = "cl_gtpu" /\ s \in SA
  BY DEF CleanupGtpu, At, Inv, TypeOK, NoNilDereference, NilSafe, CleanupPC, SessionPC
<1>2. Past(s) /\ sess[s].state \in Closing /\ sess[s].state # "New"
  BY <1>1 DEF Inv, FrameInv, CleanupPC, SessionPC
<1>3. Mono /\ (\A b \in SA : SaInv(b)') /\ (\A t \in SA : SessInv(t)')
  BY <1>1, <1>2, RemovalStep DEF CleanupGtpu
<1>4. NilSafe([proc[p] EXCEPT !.pc = "cl_end"]) /\ "cl_end" \in PC
  BY <1>1 DEF NilSafe, Frame, PC, AuthPC, TearDownPC, SessionPC, CleanupPC
<1>5. proc'[p].pc = "cl_end" /\ proc'[p].sess = s => FrameInv(p)'
  BY <1>2 DEF CleanupGtpu, FrameInv, Past, AuthPC, TearDownPC, SessionPC, CleanupPC
<1>6. ProcInv'
  BY <1>3, <1>4, <1>5, GotoStep DEF CleanupGtpu
<1>7. gtpu' \subseteq gtpu
  BY DEF CleanupGtpu
<1> QED
  BY <1>3, <1>6, <1>7 DEF CleanupGtpu, Inv, ProcInv, TypeOK, TableInv, AuthenticatedFirst

LEMMA PgwDeleteForgetInv ==
    ASSUME Inv, NEW p \in Proc, PgwDeleteForget(p)
    PROVE  Inv' /\ Mono
<1> DEFINE s == proc[p].sess
<1>1. proc[p].pc = "pgw_forget" /\ s \in SA
  BY DEF PgwDeleteForget, At, Inv, TypeOK, NoNilDereference, NilSafe, CleanupPC, SessionPC
<1>2. sess[s].state \in Closing
  BY <1>1 DEF Inv, FrameInv, CleanupPC, SessionPC
<1>3. Mono /\ (\A b \in SA : SaInv(b)') /\ (\A t \in SA : SessInv(t)')
  BY <1>1, <1>2, RemovalStep DEF PgwDeleteForget
<1>4. ProcInv'
  BY <1>3, ReturnStep DEF PgwDeleteForget
<1>5. mgr' \subseteq mgr
  BY DEF PgwDeleteForget
<1> QED
  BY <1>3, <1>4, <1>5 DEF PgwDeleteForget, Inv, ProcInv, TypeOK, TableInv, AuthenticatedFirst

\* A session of an SA that is past IKE_AUTH moves on towards its end.
LEMMA ClosingStep ==
    ASSUME Inv, UNCHANGED <<sa, authorized, gtpu>>, NEW s \in SA, NEW r \in Session,
           Past(s), sess[s].state # "New",
           sess' = [sess EXCEPT ![s] = r],
           mgr' \subseteq mgr, mgr \subseteq mgr' \cup {s},
           r.spi = sess[s].spi, r.s2b = sess[s].s2b, r.state \in Closing,
           sess[s].state = "Deleted" => r.state = "Deleted"
    PROVE  /\ sess' \in [SA -> Session]
           /\ Mono /\ (\A a \in SA : SaInv(a)') /\ (\A t \in SA : SessInv(t)')
           /\ Past(s)' /\ sess'[s].state \in Closing /\ sess'[s].state # "New"
<1>1. MonoSa /\ (\A b \in SA : SaInv(b)') /\ (\A b \in SA : Past(b)' <=> Past(b))
  BY SaKept
<1>2. /\ r.state # "New" /\ r.state # "Active" /\ r.spi \in SPI
      /\ r.s2b => Past(s)' /\ s \in authorized'
      /\ Past(s)'
  BY <1>1 DEF Closing, Inv, SessInv
<1>3. \A t \in SA \ {s} : (t \in mgr' <=> t \in mgr) /\ (t \in gtpu' <=> t \in gtpu)
  OBVIOUS
<1>4. sess' \in [SA -> Session] /\ sess'[s] = r /\ Mono /\ (\A t \in SA : SessInv(t)')
  BY <1>1, <1>2, <1>3, SessStep
<1> QED
  BY <1>1, <1>2, <1>4

LEMMA TearDownBeginInv ==
    ASSUME Inv, NEW p \in Proc, TearDownBegin(p)
    PROVE  Inv' /\ Mono
<1>0. PICK a \in SA : a = proc[p].other
  BY DEF TearDownBegin, At, Inv, TypeOK, NoNilDereference, NilSafe, TearDownPC
<1>1. proc[p] \in Frame /\ proc[p].pc = "td_begin"
  BY DEF TearDownBegin, At, Inv, TypeOK
<1>2. Past(a) /\ proc[p].sa \in authorized \cup {None} /\ SaInv(a)
  BY <1>0, <1>1 DEF Inv, FrameInv, TearDownPC
<1>3. UNCHANGED <<sa, authorized, mgr, gtpu>>
  BY DEF TearDownBegin
<1>4. CASE sa[a].sessionID \in mgr
  <2>0. PICK s \in SA : s = sa[a].sessionID
    BY <1>4 DEF Inv, TypeOK
  <2>1. Past(s) /\ sess[s] \in Session /\ sess[s].state # "New"
    BY <1>2, <1>4, <2>0, NoneIsNil DEF SaInv, Inv, TypeOK, SessInv
  <2> DEFINE r == Step(sess[s], "CleaningUp")
             c == IF sess[s].s2b THEN "td_gtpu" ELSE "td_end"
             f == [proc[p] EXCEPT !.pc = c, !.sess = s,
                                  !.handover = sess[s].handoverComplete]
  <2>2. /\ sess' = [sess EXCEPT ![s] = r]
        /\ proc' = [proc EXCEPT ![p] = f]
    BY <1>0, <1>4, <2>0 DEF TearDownBegin, Inv, TypeOK
  <2>3. /\ r \in Session /\ r.spi = sess[s].spi /\ r.s2b = sess[s].s2b
        /\ r.state \in Closing
        /\ sess[s].state = "Deleted" => r.state = "Deleted"
    BY <2>1, CleaningUpStep
  <2>4. /\ sess' \in [SA -> Session]
        /\ Mono /\ (\A b \in SA : SaInv(b)') /\ (\A t \in SA : SessInv(t)')
        /\ Past(s)' /\ sess'[s].state \in Closing /\ sess'[s].state # "New"
    <3> HIDE DEF r
    <3> QED
      BY <1>3, <2>1, <2>2, <2>3, ClosingStep
  <2>5. /\ f \in Frame /\ f.pc = c /\ f.sess = s /\ f.other = a /\ f.sa = proc[p].sa
    <3>1. sess[s].handoverComplete \in BOOLEAN
      BY <2>1 DEF Session
    <3>2. c \in PC
      BY DEF PC, TearDownPC
    <3> HIDE DEF c
    <3> QED
      BY <1>0, <1>1, <3>1, <3>2 DEF Frame
  <2>6. c = "td_end" \/ (c = "td_gtpu" /\ s \in authorized')
    BY <1>3 DEF Inv, SessInv
  <2>7. Past(a)' /\ authorized' = authorized
    BY <1>2, <1>3 DEF Past
  <2>8. NilSafe(f) /\ (proc'[p] = f => FrameInv(p)')
    <3> HIDE DEF c, f
    <3> QED
      BY <1>2, <2>4, <2>5, <2>6, <2>7
      DEF NilSafe, FrameInv, AuthPC, TearDownPC, SessionPC, CleanupPC
  <2>9. ProcInv'
    <3> HIDE DEF f
    <3> QED
      BY <2>2, <2>4, <2>5, <2>8, FrameStep
  <2> QED
    BY <2>4, <2>9 DEF TearDownBegin, Inv, ProcInv, TypeOK, TableInv, AuthenticatedFirst
<1>5. CASE ~(sa[a].sessionID \in mgr)
  <2>1. UNCHANGED sess /\ Goto(p, "td_str")
    BY <1>0, <1>5 DEF TearDownBegin
  <2>2. Mono /\ (\A b \in SA : SaInv(b)') /\ (\A t \in SA : SessInv(t)')
    BY <1>3, <2>1, QuietStep
  <2>3. NilSafe([proc[p] EXCEPT !.pc = "td_str"]) /\ "td_str" \in PC
    BY <1>0, <1>1 DEF NilSafe, Frame, PC, AuthPC, TearDownPC, SessionPC, CleanupPC
  <2>4. Past(a)' /\ authorized' = authorized
    BY <1>2, <1>3 DEF Past
  <2>5. proc'[p].pc = "td_str" /\ proc'[p].other = a /\ proc'[p].sa = proc[p].sa
        => FrameInv(p)'
    BY <1>2, <2>4 DEF FrameInv, AuthPC, TearDownPC, SessionPC, CleanupPC
  <2>6. ProcInv'
    BY <1>0, <2>1, <2>2, <2>3, <2>5, GotoStep
  <2> QED
    BY <2>1, <2>2, <2>6
    DEF TearDownBegin, Inv, ProcInv, TypeOK, TableInv, AuthenticatedFirst
<1> QED
  BY <1>4, <1>5

LEMMA TearDownEndInv ==
    ASSUME Inv, NEW p \in Proc, TearDownEnd(p)
    PROVE  Inv' /\ Mono
<1>0. PICK s \in SA : s = proc[p].sess
  BY DEF TearDownEnd, At, Inv, TypeOK, NoNilDereference, NilSafe, SessionPC
<1>1. proc[p] \in Frame /\ proc[p].pc = "td_end" /\ proc[p].other \in SA
  BY DEF TearDownEnd, At, Inv, TypeOK, NoNilDereference, NilSafe, TearDownPC
<1>2. /\ Past(proc[p].other) /\ proc[p].sa \in authorized \cup {None}
      /\ Past(s) /\ sess[s].state # "New" /\ sess[s].state \in Closing
      /\ sess[s] \in Session
  BY <1>0, <1>1 DEF Inv, TypeOK, FrameInv, TearDownPC, SessionPC
<1> DEFINE r == Step(sess[s], "Deleted")
           f == [proc[p] EXCEPT !.pc = "td_str", !.sess = None]
<1>3. /\ r \in Session /\ r.spi = sess[s].spi /\ r.s2b = sess[s].s2b
      /\ r.state = "Deleted" /\ r.state \in Closing
  BY <1>2, DeletedStep DEF Closing
<1>4. /\ sess' = [sess EXCEPT ![s] = r]
      /\ mgr' = mgr \ {s}
      /\ proc' = [proc EXCEPT ![p] = f]
      /\ UNCHANGED <<sa, authorized, gtpu>>
  BY <1>0 DEF TearDownEnd, Inv, TypeOK
<1>5. /\ sess' \in [SA -> Session]
      /\ Mono /\ (\A b \in SA : SaInv(b)') /\ (\A t \in SA : SessInv(t)')
  <2> HIDE DEF r
  <2> QED
    BY <1>2, <1>3, <1>4, ClosingStep
<1>6. /\ f \in Frame /\ f.pc = "td_str" /\ f.other = proc[p].other /\ f.sa = proc[p].sa
  BY <1>1 DEF Frame, PC, TearDownPC
<1>7. NilSafe(f) /\ (proc'[p] = f => FrameInv(p)')
  <2>1. UNCHANGED <<sa, authorized>>
    BY <1>4
  <2> HIDE DEF f
  <2> QED
    BY <1>1, <1>2, <1>6, <2>1
    DEF NilSafe, FrameInv, Past, AuthPC, TearDownPC, SessionPC, CleanupPC
<1>8. ProcInv'
  <2> HIDE DEF f
  <2> QED
    BY <1>4, <1>5, <1>6, <1>7, FrameStep
<1>9. mgr' \subseteq mgr
  BY <1>4
<1> QED
  BY <1>5, <1>8, <1>9 DEF TearDownEnd, Inv, ProcInv, TypeOK, TableInv, AuthenticatedFirst

LEMMA CleanupBeginInv ==
    ASSUME Inv, NEW p \in Proc, CleanupBegin(p)
    PROVE  Inv' /\ Mono
<1>0. PICK s \in SA : s = proc[p].sess
  BY DEF CleanupBegin, At, Inv, TypeOK, NoNilDereference, NilSafe, SessionPC, CleanupPC
<1>1. /\ proc[p] \in Frame /\ proc[p].pc = "cl_begin"
      /\ Past(s) /\ sess[s].state # "New" /\ sess[s] \in Session
  BY <1>0 DEF CleanupBegin, At, Inv, TypeOK, FrameInv, SessionPC, CleanupPC
<1> DEFINE r == Step(sess[s], "CleaningUp")
<1>2. /\ r \in Session /\ r.spi = sess[s].spi /\ r.s2b = sess[s].s2b
      /\ r.state \in Closing
      /\ sess[s].state = "Deleted" => r.state = "Deleted"
  BY <1>1, CleaningUpStep
<1>3. sess' = [sess EXCEPT ![s] = r] /\ UNCHANGED <<sa, authorized, mgr, gtpu>>
  BY <1>0 DEF CleanupBegin
<1>4. /\ sess' \in [SA -> Session]
      /\ Mono /\ (\A b \in SA : SaInv(b)') /\ (\A t \in SA : SessInv(t)')
      /\ Past(s)' /\ sess'[s].state \in Closing /\ sess'[s].state # "New"
  <2> HIDE DEF r
  <2> QED
    BY <1>1, <1>2, <1>3, ClosingStep
<1>5. PICK c \in CleanupPC \ {"cl_begin"} : Goto(p, c)
  BY DEF CleanupBegin, AfterCleanup, CleanupPC
<1>6. NilSafe([proc[p] EXCEPT !.pc = c]) /\ c \in PC
  BY <1>0, <1>1, <1>5 DEF NilSafe, Frame, PC, AuthPC, TearDownPC, SessionPC, CleanupPC
<1>7. proc'[p].pc = c /\ proc'[p].sess = s => FrameInv(p)'
  BY <1>4, <1>5 DEF FrameInv, AuthPC, TearDownPC, SessionPC, CleanupPC
<1>8. ProcInv'
  BY <1>0, <1>4, <1>5, <1>6, <1>7, GotoStep
<1> QED
  BY <1>4, <1>8 DEF CleanupBegin, Inv, ProcInv, TypeOK, TableInv, AuthenticatedFirst

LEMMA CleanupEndInv ==
    ASSUME Inv, NEW p \in Proc, CleanupEnd(p)
    PROVE  Inv' /\ Mono
<1>0. PICK s \in SA : s = proc[p].sess
  BY DEF CleanupEnd, At, Inv, TypeOK, NoNilDereference, NilSafe, SessionPC, CleanupPC
<1>1. /\ proc[p] \in Frame /\ proc[p].pc = "cl_end"
      /\ Past(s) /\ sess[s].state # "New" /\ sess[s].state \in Closing
      /\ sess[s] \in Session
  BY <1>0 DEF CleanupEnd, At, Inv, TypeOK, FrameInv, SessionPC, CleanupPC
<1> DEFINE r == Step(sess[s], "Deleted")
<1>2. /\ r \in Session /\ r.spi = sess[s].spi /\ r.s2b = sess[s].s2b
      /\ r.state = "Deleted" /\ r.state \in Closing
  BY <1>1, DeletedStep DEF Closing
<1>3. sess' = [sess EXCEPT ![s] = r] /\ UNCHANGED <<sa, authorized, mgr, gtpu>>
  BY <1>0 DEF CleanupEnd
<1>4. /\ sess' \in [SA -> Session]
      /\ Mono /\ (\A b \in SA : SaInv(b)') /\ (\A t \in SA : SessInv(t)')
      /\ Past(s)' /\ sess'[s].state \in Closing /\ sess'[s].state # "New"
  <2> HIDE DEF r
  <2> QED
    BY <1>1, <1>2, <1>3, ClosingStep
<1>5. PICK c \in CleanupPC \ {"cl_begin"} : Goto(p, c)
  BY DEF CleanupEnd, AfterCleanup, CleanupPC
<1>6. NilSafe([proc[p] EXCEPT !.pc = c]) /\ c \in PC
  BY <1>0, <1>1, <1>5 DEF NilSafe, Frame, PC, AuthPC, TearDownPC, SessionPC, CleanupPC
<1>7. proc'[p].pc = c /\ proc'[p].sess = s => FrameInv(p)'
  BY <1>4, <1>5 DEF FrameInv, AuthPC, TearDownPC, SessionPC, CleanupPC
<1>8. ProcInv'
  BY <1>0, <1>4, <1>5, <1>6, <1>7, GotoStep
<1> QED
  BY <1>4, <1>8 DEF CleanupEnd, Inv, ProcInv, TypeOK, TableInv, AuthenticatedFirst

\* A field that plays no part in the invariant is set in a session.
LEMMA MarkStep ==
    ASSUME Inv, UNCHANGED <<sa, authorized, mgr, gtpu>>, NEW s \in SA, NEW h \in BOOLEAN,
           s \in mgr, sess' = [sess EXCEPT ![s].handoverComplete = h]
    PROVE  /\ sess' \in [SA -> Session] /\ sess'[s].state # "New"
           /\ Mono /\ (\A a \in SA : SaInv(a)') /\ (\A t \in SA : SessInv(t)')
           /\ \A a \in SA : Past(a)' <=> Past(a)
<1> DEFINE r == [sess[s] EXCEPT !.handoverComplete = h]
<1>1. MonoSa /\ (\A b \in SA : SaInv(b)') /\ (\A b \in SA : Past(b)' <=> Past(b))
  BY SaKept
<1>2. sess[s] \in Session /\ sess[s].state # "New" /\ sess[s].spi \in SPI
  BY DEF Inv, TypeOK, SessInv
<1>3. /\ r \in Session /\ r.spi = sess[s].spi /\ r.s2b = sess[s].s2b
      /\ r.state = sess[s].state
  BY <1>2 DEF Session
<1>4. sess' = [sess EXCEPT ![s] = r]
  BY DEF Inv, TypeOK
<1> HIDE DEF r
<1>5. /\ r.s2b => Past(s)' /\ s \in authorized'
      /\ r.state \in Closing => Past(s)'
      /\ r.state = "Active" => s \in mgr' /\ s \in gtpu' /\ r.s2b
      /\ Connected(s) => s \in mgr' /\ s \in gtpu' /\ r.s2b
  BY <1>1, <1>3 DEF Inv, SessInv, Connected
<1>6. /\ sess' \in [SA -> Session] /\ sess'[s] = r /\ Mono /\ \A t \in SA : SessInv(t)'
  BY <1>1, <1>2, <1>3, <1>4, <1>5, SessStep
<1> QED
  BY <1>1, <1>2, <1>3, <1>6

LEMMA PgwDeleteDefaultBearerInv ==
    ASSUME Inv, NEW p \in Proc, NEW s \in SA, PgwDeleteDefaultBearer(p, s)
    PROVE  Inv' /\ Mono
<1>1. UNCHANGED <<sa, authorized, mgr, gtpu>>
  BY DEF PgwDeleteDefaultBearer
<1>2. pgw' \in [SA -> {"none", "up", "down"}] /\ AuthenticatedFirst'
  BY DEF PgwDeleteDefaultBearer, PgwGone, Inv, TypeOK, AuthenticatedFirst
<1>3. CASE Findable(s)
  <2>1. PICK h \in BOOLEAN :
           /\ sess' = [sess EXCEPT ![s].handoverComplete = h \/ sess[s].handoverComplete]
           /\ proc' = [proc EXCEPT ![p] =
                 [Idle EXCEPT !.pc = "cl_begin", !.sess = s,
                              !.handover = h \/ sess[s].handoverComplete]]
    BY <1>3 DEF PgwDeleteDefaultBearer
  <2>2. PICK m \in BOOLEAN : m = (h \/ sess[s].handoverComplete)
    OBVIOUS
  <2>3. /\ sess' = [sess EXCEPT ![s].handoverComplete = m]
        /\ proc' = [proc EXCEPT ![p] = [Idle EXCEPT !.pc = "cl_begin", !.sess = s,
                                                    !.handover = m]]
    BY <2>1, <2>2
  <2>4. s \in mgr /\ sess[s].s2b /\ Past(s)
    BY <1>3 DEF Findable, Inv, SessInv
  <2>5. /\ sess' \in [SA -> Session] /\ sess'[s].state # "New"
        /\ Mono /\ (\A a \in SA : SaInv(a)') /\ (\A t \in SA : SessInv(t)')
        /\ Past(s)'
    BY <1>1, <2>3, <2>4, MarkStep
  <2> DEFINE f == [Idle EXCEPT !.pc = "cl_begin", !.sess = s, !.handover = m]
  <2>6. f \in Frame /\ f.pc = "cl_begin" /\ f.sess = s
    BY DEF Idle, Frame, PC, CleanupPC
  <2>7. NilSafe(f) /\ (proc'[p] = f => FrameInv(p)')
    <3> HIDE DEF f
    <3> QED
      BY <2>5, <2>6 DEF NilSafe, FrameInv, AuthPC, TearDownPC, SessionPC, CleanupPC
  <2>8. ProcInv'
    BY <2>3, <2>5, <2>6, <2>7, FrameStep
  <2> QED
    BY <1>2, <2>5, <2>8 DEF PgwDeleteDefaultBearer, Inv, ProcInv, TypeOK, TableInv
<1>4. CASE ~Findable(s)
  <2>1. UNCHANGED <<sess, proc>>
    BY <1>4 DEF PgwDeleteDefaultBearer
  <2>2. Mono /\ (\A a \in SA : SaInv(a)') /\ (\A t \in SA : SessInv(t)')
    BY <1>1, <2>1, QuietStep
  <2>3. ProcInv'
    BY <2>1, <2>2, UnchangedProc
  <2> QED
    BY <1>2, <2>1, <2>2, <2>3 DEF PgwDeleteDefaultBearer, Inv, ProcInv, TypeOK, TableInv
<1> QED
  BY <1>3, <1>4

LEMMA PgwHandoverSignalInv ==
    ASSUME Inv, NEW p \in Proc, NEW s \in SA, PgwHandoverSignal(p, s)
    PROVE  Inv' /\ Mono
<1>1. PICK h \in BOOLEAN : sess' = [sess EXCEPT ![s].handoverComplete = h]
  BY DEF PgwHandoverSignal
<1>2. s \in mgr /\ UNCHANGED <<sa, authorized, mgr, gtpu>>
  BY DEF PgwHandoverSignal, Findable
<1>3. /\ sess' \in [SA -> Session]
      /\ Mono /\ (\A a \in SA : SaInv(a)') /\ (\A t \in SA : SessInv(t)')
  BY <1>1, <1>2, MarkStep
<1>4. ProcInv'
  BY <1>3, UnchangedProc DEF PgwHandoverSignal
<1> QED
  BY <1>3, <1>4 DEF PgwHandoverSignal, Inv, ProcInv, TypeOK, TableInv, AuthenticatedFirst

LEMMA DeleteBearerDoneInv ==
    ASSUME Inv, NEW p \in Proc, DeleteBearerDone(p)
    PROVE  Inv' /\ Mono
<1>0. PICK s \in SA : s = proc[p].sess
  BY DEF DeleteBearerDone, At, Inv, TypeOK, NoNilDereference, NilSafe, SessionPC, CleanupPC
<1>1. /\ proc[p].pc = "bearer_done" /\ sess[s] \in Session
      /\ Past(s) /\ sess[s].state # "New" /\ sess[s].state \in Closing
  BY <1>0 DEF DeleteBearerDone, At, Inv, TypeOK, FrameInv, SessionPC, CleanupPC
<1>2. UNCHANGED <<sa, authorized, gtpu>>
  BY DEF DeleteBearerDone
<1>3. /\ sess' \in [SA -> Session] /\ mgr' \subseteq mgr
      /\ Mono /\ (\A a \in SA : SaInv(a)') /\ (\A t \in SA : SessInv(t)')
  <2>1. CASE proc[p].handover
    <3> DEFINE r == [sess[s] EXCEPT !.s2b = FALSE]
    <3>1. r \in Session
      <4>1. \A v \in BOOLEAN : [sess[s] EXCEPT !.s2b = v] \in Session
        BY <1>1 DEF Session
      <4> QED
        BY <4>1
    <3>2. ~r.s2b /\ r.state = sess[s].state /\ r.spi = sess[s].spi
      BY <1>1 DEF Session
    <3>3. sess' = [sess EXCEPT ![s] = r] /\ mgr' = mgr
      BY <1>0, <2>1 DEF DeleteBearerDone, Inv, TypeOK
    <3>4. MonoSa /\ (\A b \in SA : SaInv(b)') /\ (\A b \in SA : Past(b)' <=> Past(b))
      BY <1>2, SaKept
    <3>5. r.spi \in SPI /\ r.state # "Active"
      BY <1>1, <3>2 DEF Inv, SessInv, Closing
    <3> HIDE DEF r
    <3>6. sess' \in [SA -> Session] /\ Mono /\ \A t \in SA : SessInv(t)'
      BY <1>1, <1>2, <3>1, <3>2, <3>3, <3>4, <3>5, SessStep
    <3> QED
      BY <3>3, <3>4, <3>6
  <2>2. CASE ~proc[p].handover
    <3>1. UNCHANGED sess /\ mgr' = mgr \ {s}
      BY <1>0, <2>2 DEF DeleteBearerDone
    <3> QED
      BY <1>1, <1>2, <3>1, RemovalStep DEF Inv, TypeOK
  <2> QED
    BY <2>1, <2>2
<1>4. ProcInv'
  BY <1>3, ReturnStep DEF DeleteBearerDone
<1> QED
  BY <1>3, <1>4 DEF DeleteBearerDone, Inv, ProcInv, TypeOK, TableInv, AuthenticatedFirst

-----------------------------------------------------------------------------
(* Theorems *)

LEMMA TearDownInv ==
    ASSUME Inv, NEW p \in Proc, TearDown(p)
    PROVE  Inv' /\ Mono
  BY TearDownXfrmInv, TearDownBeginInv, TearDownGtpuInv, TearDownS2bInv, TearDownEndInv,
     TearDownSTRInv, TearDownSAInv DEF TearDown

LEMMA CleanupInv ==
    ASSUME Inv, NEW p \in Proc, Cleanup(p)
    PROVE  Inv' /\ Mono
  BY CleanupBeginInv, CleanupGtpuInv, CleanupEndInv, PgwDeleteSTRInv, PgwDeleteForgetInv,
     DeleteBearerDoneInv DEF Cleanup

LEMMA ContinueInv ==
    ASSUME Inv, NEW w \in Worker, Continue(w)
    PROVE  Inv' /\ Mono
  BY InitRejectInv, InitStoreInv, FindOldInv, LookupOldInv, DetachOldInv, CreateSessionInv,
     AcceptInv, InstallChildSAInv, AddSessionInv, ActivateInv, RekeyedInv DEF Continue

LEMMA ArrivalInv ==
    ASSUME Inv, Arrival
    PROVE  Inv' /\ Mono
<1>1. ASSUME NEW w \in Worker, NEW i \in SPI, InitRetransmit(w, i) \/ InitLookup(w, i)
      PROVE  Inv' /\ Mono
  BY <1>1, InitRetransmitInv, InitLookupInv
<1>2. ASSUME NEW w \in Worker, NEW a \in SA,
             \/ AuthRound1(w, a) \/ AuthEAP(w, a) \/ AuthFinal(w, a)
             \/ RekeyStore(w, a) \/ UeAlive(w, a) \/ DeleteIKE(w, a)
      PROVE  Inv' /\ Mono
  BY <1>2, AuthRound1Inv, AuthEAPInv, AuthFinalInv, RekeyStoreInv, UeAliveInv, DeleteIKEInv
<1>3. ASSUME NEW p \in Proc, NEW s \in SA,
             \/ PgwDeleteSession(p, s) \/ PgwDeleteDefaultBearer(p, s)
             \/ PgwHandoverSignal(p, s) \/ DpdProbe(p, s) \/ DpdTimeout(p, s)
      PROVE  Inv' /\ Mono
  BY <1>3, PgwDeleteSessionInv, PgwDeleteDefaultBearerInv, PgwHandoverSignalInv,
     DpdProbeInv, DpdTimeoutInv
<1>4. ASSUME NEW p \in Proc, NEW i \in SPI, HalfOpenCheck(p, i)
      PROVE  Inv' /\ Mono
  BY <1>4, HalfOpenCheckInv
<1> QED
  BY <1>1, <1>2, <1>3, <1>4 DEF Arrival, Proc

LEMMA NextInv ==
    ASSUME Inv, [Next]_vars
    PROVE  Inv' /\ Mono
<1>1. CASE UNCHANGED vars
  <2>1. UNCHANGED <<sa, sess, mgr, gtpu, authorized, proc>>
    BY <1>1 DEF vars
  <2>2. Mono /\ (\A a \in SA : SaInv(a)') /\ (\A s \in SA : SessInv(s)')
    BY <2>1, QuietStep
  <2>3. ProcInv'
    BY <2>1, <2>2, UnchangedProc
  <2> QED
    BY <1>1, <2>2, <2>3 DEF vars, Inv, ProcInv, TypeOK, TableInv, AuthenticatedFirst
<1>2. CASE Arrival
  BY <1>2, ArrivalInv
<1>3. CASE \E w \in Worker : Continue(w)
  BY <1>3, ContinueInv
<1>4. CASE \E p \in Worker \cup DpdReaper : TearDown(p)
  BY <1>4, TearDownInv DEF Proc
<1>5. CASE \E p \in PgwHandler \cup ReadLoop : Cleanup(p)
  BY <1>5, CleanupInv DEF Proc
<1>6. CASE \E p \in HalfOpenReaper : HalfOpenExpire(p)
  BY <1>6, HalfOpenExpireInv DEF Proc
<1> QED
  BY <1>1, <1>2, <1>3, <1>4, <1>5, <1>6 DEF Next

\* Inv holds in every state of every behaviour.
THEOREM Invariance == Spec => []Inv
<1>1. Inv /\ [Next]_vars => Inv'
  BY NextInv
<1> QED
  BY InvInit, <1>1, PTL DEF Spec

\* Every variable stays in its domain, and no handler of an IKE packet, of a PGW
\* request or of a timer follows a nil pointer, whatever the others do meanwhile.
THEOREM TypeCorrectness == Spec => []TypeOK
<1>1. Inv => TypeOK
  BY DEF Inv
<1> QED
  BY Invariance, <1>1, PTL

\* A session that reads Active is connected: handleAuthFinal's last Transition
\* never revives a session that fullTeardown or the PGW's handlers took down
\* while it was installing the tunnel.
THEOREM ActiveSessionsAreConnected == Spec => []ActiveIsConnected
<1>1. Inv => ActiveIsConnected
  BY DEF Inv, SessInv, Connected, ActiveIsConnected
<1> QED
  BY Invariance, <1>1, PTL

\* No PDN session, tunnel or kernel state exists for a UE that the AAA server has
\* not authenticated, whatever rekeys and detaches happen around its IKE_AUTH.
THEOREM NothingBeforeAuthentication == Spec => []AuthenticatedFirst
<1>1. Inv => AuthenticatedFirst
  BY DEF Inv
<1> QED
  BY Invariance, <1>1, PTL

\* A deleted session stays deleted, although IKE_AUTH, a second fullTeardown and
\* the PGW's handlers all go on calling Transition on it.
THEOREM DeletionIsFinal == Spec => DeletedIsFinal
<1>1. Inv /\ [Next]_vars =>
         [\A s \in SA : sess[s].state = "Deleted" => sess'[s].state = "Deleted"]_sess
  BY NextInv DEF Mono, MonoSess
<1> QED
  BY Invariance, <1>1, PTL DEF Spec, DeletedIsFinal

=============================================================================
