------------------------------ MODULE ChildSA ------------------------------
(***************************************************************************)
(* The life of the CHILD SA: CREATE_CHILD_SA (internal/ikev2/rekey.go),    *)
(* the CHILD SA DELETE, the IKE SA DELETE and MOBIKE's UPDATE_SA_ADDRESSES *)
(* (internal/ikev2/inform.go), and the XFRM states and policies they       *)
(* install and remove (internal/xfrm/xfrm.go).                             *)
(*                                                                         *)
(* One UE sends one request at a time.  A request and its answers may be   *)
(* lost and repeated; the server compares no message IDs, so it runs its   *)
(* handler for every copy.  A handler holds the SA's lock from its lookup  *)
(* to its answer and is one step.                                          *)
(*                                                                         *)
(* Fresh values (SPIs, nonces, DH secrets, COOKIE2) are named by the run   *)
(* of the handler that drew them, <<request, delivery>>; what the UE draws *)
(* (its ESP SPI, its new IKE SPI) by the request.  A key is what it is     *)
(* derived from: the IKE SA's SK_d, the nonces and, with PFS, the DH       *)
(* secret of the same exchange.  The kernel identifies a state by its      *)
(* destination and SPI, a policy by its selectors, here always the UE's.   *)
(***************************************************************************)
EXTENDS Naturals, Sequences, FiniteSets

CONSTANTS
  Addr,           \* outer addresses of the UE
  IPv6,           \* those of the family the ePDG's own address is not of
  Home,           \* the one it attached from
  MaxRequest,     \* bound: requests the UE sends
  None

ASSUME ChildSAAssumption ==
  /\ Home \in Addr /\ IPv6 \subseteq Addr \ {Home}
  /\ MaxRequest \in Nat

Spi == 0..MaxRequest
Run == Spi \X {1, 2}
First == <<0, 1>>   \* IKE_SA_INIT and IKE_AUTH

\* deriveChildSAKeys, and deriveChildSAKeysPFS when pfs holds.
ChildKey(saKey, nonce, pfs) == [sk |-> saKey, nonce |-> nonce, pfs |-> pfs]

VARIABLES
  table,    \* Server.sas: initiator SPI -> ikeSA
  xfrm,     \* kernel: states by direction, and the policies' template
  ue,       \* the UE
  net,      \* its requests with a copy in the network, and how often each was seen
  answers,  \* the answers to the outstanding one
  lapses    \* history: what has happened that the code is known not to survive

vars == <<table, xfrm, ue, net, answers, lapses>>

Child(l, p) == [l |-> l, p |-> p]

Init ==
  /\ table = [s \in Spi |-> IF s = 0
       THEN [key |-> First, nonce |-> First, cur |-> Child(First, 0), pend |-> None,
             addr |-> Home, cookie2 |-> None, session |-> TRUE]
       ELSE None]
  /\ xfrm = [in |-> [r \in Run |-> IF r = First
               THEN [key |-> ChildKey(First, First, FALSE), addr |-> Home] ELSE None],
             out |-> {[p |-> 0, addr |-> Home, key |-> ChildKey(First, First, FALSE)]},
             pol |-> Home]
  /\ ue = [addr |-> Home, spi |-> 0, key |-> First, old |-> None,
           child |-> [l |-> First, p |-> 0, key |-> ChildKey(First, First, FALSE)],
           new |-> None, moved |-> FALSE, cookie2 |-> None, sent |-> 0, wait |-> FALSE]
  /\ net = [m \in 1..MaxRequest |-> None]
  /\ answers = {} /\ lapses = {}

(***************************************************************************)
(* internal/xfrm.  A state is added unless the kernel has one with its     *)
(* destination and SPI; a failed installation leaves nothing behind.       *)
(***************************************************************************)
CanAdd(k, c, addr) ==
  /\ addr \notin IPv6     \* resolveXFRMIPs
  /\ k.in[c.l] = None /\ \A o \in k.out : o.p # c.p \/ o.addr # addr

\* AddChildSAStates, where it succeeds.
AddChildSAStates(k, c, addr, key) ==
  [k EXCEPT !.in[c.l] = [key |-> key, addr |-> addr],
            !.out = @ \cup {[p |-> c.p, addr |-> addr, key |-> key]}]

\* RemoveChildSAStates.
RemoveChildSAStates(k, c, addr) ==
  [k EXCEPT !.in[c.l] = None, !.out = {o \in @ : o.p # c.p \/ o.addr # addr}]

\* RemoveChildSA.
RemoveChildSA(k, c, addr) == [RemoveChildSAStates(k, c, addr) EXCEPT !.pol = None]

\* Mutant: the policies are not installed.
InstallChildSANoPolicies(k, c, addr, key, ok) ==
  IF ok /\ CanAdd(k, c, addr) /\ k.pol = None THEN AddChildSAStates(k, c, addr, key) ELSE k

\* InstallChildSA; ok is false when the kernel refuses a state or a policy.
InstallChildSA(k, c, addr, key, ok) ==
  IF ok /\ CanAdd(k, c, addr) /\ k.pol = None
  THEN [AddChildSAStates(k, c, addr, key) EXCEPT !.pol = addr]
  ELSE k

(***************************************************************************)
(* The server.  A handler sees request m for the k-th time; the SA is      *)
(* looked up by SPI, and a request under other keys does not decrypt.      *)
(***************************************************************************)
Readable(m) == table[net[m].spi] # None /\ table[net[m].spi].key = net[m].key

Outstanding(m) == ue.wait /\ m = ue.sent
Lapse(p, name) == IF p THEN {name} ELSE {}
Again(m) == Lapse(net[m].seen = 1, "duplicate")
ThisRun(m) == <<m, net[m].seen + 1>>

\* Bound: one request is handled twice.  A copy that can no longer be handled
\* leaves the network.
Handle(m, kind) ==
  /\ net[m] # None /\ net[m].kind = kind
  /\ net[m].seen = 0 \/ "duplicate" \notin lapses
  /\ Readable(m)
  /\ net' = IF net[m].seen = 0
            THEN [net EXCEPT ![m].seen = 1]
            ELSE [n \in DOMAIN net |-> IF Outstanding(n) THEN net[n] ELSE None]
  /\ UNCHANGED ue

Answer(m, a) == answers' = IF Outstanding(m) THEN answers \cup {a} ELSE answers

\* What handleCreateChildSA answers to a proposal or KE payload it does not
\* take, and to a failed AddChildSAStates: a notify, with nothing changed.  An
\* IKE SA rekey is refused for what it proposes, so every copy of it is.
Refused == [type |-> "refused"]

RefuseCreateChild(m) ==
  /\ \/ Handle(m, "rekey_child")
     \/ Handle(m, "rekey_ike") /\ net[m].bad
  /\ Answer(m, Refused)
  /\ lapses' = lapses \cup Again(m)
  /\ UNCHANGED <<table, xfrm>>

\* handleChildSARekey: the new states go to the address the packet came from;
\* the CHILD SA becomes the pending one, whatever was pending before.
RekeyChild(m) ==
  /\ Handle(m, "rekey_child")
  /\ LET sa  == table[net[m].spi]
         c   == Child(ThisRun(m), m)
         key == ChildKey(sa.key, ThisRun(m), net[m].pfs)
     IN /\ IF CanAdd(xfrm, c, net[m].src)
           THEN /\ xfrm' = AddChildSAStates(xfrm, c, net[m].src, key)
                /\ table' = [table EXCEPT ![net[m].spi].pend = c]
                /\ Answer(m, [type |-> "rekeyed", l |-> c.l, key |-> key])
           ELSE /\ Answer(m, Refused)
                /\ UNCHANGED <<table, xfrm>>
        /\ lapses' = lapses \cup Again(m) \cup Lapse(sa.pend # None, "overlap")
                            \cup Lapse(net[m].src # sa.addr, "moved")

\* Mutant: the old SA keeps its session ID.
RekeyIKEKeepsSession(m) ==
  /\ Handle(m, "rekey_ike") /\ ~ net[m].bad
  /\ LET sa == table[net[m].spi]
     IN /\ table' = [table EXCEPT
             ![m] = [sa EXCEPT !.key = ThisRun(m), !.nonce = ThisRun(m),
                               !.pend = None, !.cookie2 = None],
             ![net[m].spi].cur = None]
        /\ Answer(m, [type |-> "ike_rekeyed", key |-> ThisRun(m)])
        /\ lapses' = lapses \cup Again(m) \cup Lapse(sa.pend # None, "overlap")
  /\ UNCHANGED xfrm

\* Mutant: the old SA keeps its ESP proposal.
RekeyIKEKeepsChild(m) ==
  /\ Handle(m, "rekey_ike") /\ ~ net[m].bad
  /\ LET sa == table[net[m].spi]
     IN /\ table' = [table EXCEPT
             ![m] = [sa EXCEPT !.key = ThisRun(m), !.nonce = ThisRun(m),
                               !.pend = None, !.cookie2 = None]]
        /\ Answer(m, [type |-> "ike_rekeyed", key |-> ThisRun(m)])
        /\ lapses' = lapses \cup Again(m) \cup Lapse(sa.pend # None, "overlap")
  /\ UNCHANGED xfrm

\* Mutant: the new SA keeps the keys of the old one.
RekeyIKEOldKeys(m) ==
  /\ Handle(m, "rekey_ike") /\ ~ net[m].bad
  /\ LET sa == table[net[m].spi]
     IN /\ table' = [table EXCEPT
             ![m] = [sa EXCEPT !.nonce = ThisRun(m), !.pend = None, !.cookie2 = None],
             ![net[m].spi].cur = None, ![net[m].spi].session = FALSE]
        /\ Answer(m, [type |-> "ike_rekeyed", key |-> ThisRun(m)])
        /\ lapses' = lapses \cup Again(m) \cup Lapse(sa.pend # None, "overlap")
  /\ UNCHANGED xfrm

\* handleIKESARekey: the new SA takes the CHILD SA and the session over, but
\* not the pending CHILD SA; its nonces are those of this exchange.
RekeyIKE(m) ==
  /\ Handle(m, "rekey_ike") /\ ~ net[m].bad
  /\ LET sa == table[net[m].spi]
     IN /\ table' = [table EXCEPT
             ![m] = [sa EXCEPT !.key = ThisRun(m), !.nonce = ThisRun(m),
                               !.pend = None, !.cookie2 = None],
             ![net[m].spi].cur = None, ![net[m].spi].session = FALSE]
        /\ Answer(m, [type |-> "ike_rekeyed", key |-> ThisRun(m)])
        /\ lapses' = lapses \cup Again(m) \cup Lapse(sa.pend # None, "overlap")
  /\ UNCHANGED xfrm

\* The pending CHILD SA becomes the current one, with its nonces.
Promote(sa) == [sa EXCEPT !.cur = sa.pend, !.nonce = sa.pend.l, !.pend = None]

\* A CHILD SA DELETE: promotes the pending CHILD SA, removes the only one, or
\* drops the pending one.
DeleteChild(m) ==
  /\ Handle(m, "delete_child")
  /\ LET sa == table[net[m].spi]
         Is(c) == c # None /\ c.p = net[m].child
     IN /\ CASE Is(sa.cur) /\ sa.pend # None ->
                  /\ xfrm' = RemoveChildSAStates(xfrm, sa.cur, sa.addr)
                  /\ table' = [table EXCEPT ![net[m].spi] = Promote(sa)]
             [] Is(sa.cur) /\ sa.pend = None ->
                  /\ xfrm' = RemoveChildSA(xfrm, sa.cur, sa.addr)
                  /\ UNCHANGED table
             [] ~ Is(sa.cur) /\ Is(sa.pend) ->
                  /\ xfrm' = RemoveChildSAStates(xfrm, sa.pend, sa.addr)
                  /\ table' = [table EXCEPT ![net[m].spi].pend = None]
             [] OTHER -> UNCHANGED <<table, xfrm>>
        /\ lapses' = lapses \cup Again(m)
                            \cup Lapse(Is(sa.cur) /\ sa.pend = None /\ ue.new = None, "emptied")
  /\ Answer(m, [type |-> "done"])

\* Mutant: fullTeardown forgets the pending CHILD SA.
DeleteIKELeavesPending(m) ==
  /\ Handle(m, "delete_ike")
  /\ LET sa == table[net[m].spi]
     IN xfrm' = IF sa.cur = None THEN xfrm ELSE RemoveChildSA(xfrm, sa.cur, sa.addr)
  /\ table' = [table EXCEPT ![net[m].spi] = None]
  /\ Answer(m, [type |-> "done"])
  /\ lapses' = lapses \cup Again(m)

\* An IKE SA DELETE, and fullTeardown's removal of the XFRM state.
DeleteIKE(m) ==
  /\ Handle(m, "delete_ike")
  /\ LET sa == table[net[m].spi]
         k  == IF sa.cur = None THEN xfrm ELSE RemoveChildSA(xfrm, sa.cur, sa.addr)
     IN xfrm' = IF sa.pend = None THEN k ELSE RemoveChildSAStates(k, sa.pend, sa.addr)
  /\ table' = [table EXCEPT ![net[m].spi] = None]
  /\ Answer(m, [type |-> "done"])
  /\ lapses' = lapses \cup Again(m)

(***************************************************************************)
(* MOBIKE.  handleUpdateSA challenges a new address with a COOKIE2 and     *)
(* migrates when it comes back.                                            *)
(***************************************************************************)
ChallengeUpdateSA(m) ==
  /\ Handle(m, "update_sa")
  /\ LET sa == table[net[m].spi]
     IN /\ sa.cur # None
        /\ net[m].cookie2 = None \/ sa.cookie2 = None
  /\ table' = [table EXCEPT ![net[m].spi].cookie2 = ThisRun(m)]
  /\ Answer(m, [type |-> "challenge", cookie2 |-> ThisRun(m)])
  /\ lapses' = lapses \cup Again(m)
  /\ UNCHANGED xfrm

\* No CHILD SA to migrate, or a COOKIE2 that is not the last one: an empty
\* answer, like the one a migration gets.
IgnoreUpdateSA(m) ==
  /\ Handle(m, "update_sa")
  /\ LET sa == table[net[m].spi]
     IN sa.cur = None \/ (net[m].cookie2 # None /\ sa.cookie2 # None
                          /\ net[m].cookie2 # sa.cookie2)
  /\ Answer(m, [type |-> "done"])
  /\ lapses' = lapses \cup Again(m)
  /\ UNCHANGED <<table, xfrm>>

\* A migration across address families is refused before it starts, with the
\* same answer.
RejectUpdateSA(m) ==
  /\ Handle(m, "update_sa")
  /\ LET sa == table[net[m].spi]
     IN sa.cur # None /\ sa.cookie2 # None /\ net[m].cookie2 = sa.cookie2
  /\ net[m].src \in IPv6
  /\ Answer(m, [type |-> "done"])
  /\ lapses' = lapses \cup Again(m) \cup {"family"}
  /\ UNCHANGED <<table, xfrm>>

\* Mutant: the nonces are those of the first IKE exchange, not of the CHILD SA.
MigrationKeyFirstNonces(sa) == ChildKey(sa.key, First, FALSE)

\* migrateMobikeXFRM and MigrateChildSA: the keys are derived again from what
\* the SA holds now; the old states go first, and stay gone when the kernel
\* refuses the new ones.
MigrationKey(sa) == ChildKey(sa.key, sa.nonce, FALSE)

MigrateUpdateSA(m, ok) ==
  /\ Handle(m, "update_sa")
  /\ LET spi == net[m].spi
         sa  == table[spi]
         gone == RemoveChildSA(xfrm, sa.cur, sa.addr)
         new == InstallChildSA(gone, sa.cur, net[m].src, MigrationKey(sa), ok)
     IN /\ sa.cur # None /\ sa.cookie2 # None /\ net[m].cookie2 = sa.cookie2
        /\ net[m].src \notin IPv6
        /\ xfrm' = new
        /\ table' = IF new = gone THEN table
                    ELSE [table EXCEPT ![spi].addr = net[m].src, ![spi].cookie2 = None]
        /\ lapses' = lapses \cup Again(m) \cup Lapse(sa.pend # None, "overlap")
             \cup Lapse(new = gone, "kernel")
             \cup Lapse(xfrm.in[sa.cur.l] # None
                        /\ (xfrm.in[sa.cur.l].key.pfs \/ xfrm.in[sa.cur.l].key.sk # sa.key),
                        "keys")
  /\ Answer(m, [type |-> "done"])

(***************************************************************************)
(* The UE and the network.  The UE has at most one request outstanding and *)
(* sends a request again until it is answered; a copy may still be on its  *)
(* way after that.                                                         *)
(***************************************************************************)
Request(kind) ==
  [kind |-> kind, spi |-> ue.spi, key |-> ue.key, src |-> ue.addr,
   pfs |-> FALSE, bad |-> FALSE, child |-> None, cookie2 |-> None, seen |-> 0]

Send(r) ==
  /\ ~ ue.wait /\ ue.sent < MaxRequest
  /\ net' = [net EXCEPT ![ue.sent + 1] = r]
  /\ ue' = [ue EXCEPT !.sent = @ + 1, !.wait = TRUE]
  /\ UNCHANGED <<table, xfrm, answers, lapses>>

Alive == ue.key # None

UESend ==
  /\ Alive
  /\ \/ \E pfs \in BOOLEAN :
          ue.new = None /\ Send([Request("rekey_child") EXCEPT !.pfs = pfs])
     \/ ue.child # None /\ Send([Request("delete_child") EXCEPT !.child = ue.child.p])
     \/ ue.new # None /\ Send([Request("delete_child") EXCEPT !.child = ue.new.p])
     \/ \E bad \in BOOLEAN :
          ue.old = None /\ Send([Request("rekey_ike") EXCEPT !.bad = bad])
     \/ /\ ue.old # None
        /\ Send([Request("delete_ike") EXCEPT !.spi = ue.old.spi, !.key = ue.old.key])
     \/ ue.old = None /\ Send(Request("delete_ike"))
     \/ ue.moved /\ Send([Request("update_sa") EXCEPT !.cookie2 = ue.cookie2])

\* The UE's address changes, and with it where its requests come from.
UEMove ==
  /\ Alive /\ ~ ue.wait /\ ~ ue.moved
  /\ \E a \in Addr \ {ue.addr} : ue' = [ue EXCEPT !.addr = a, !.moved = TRUE]
  /\ UNCHANGED <<table, xfrm, net, answers, lapses>>

\* What an answer tells the UE.
Learn(u, req, a) ==
  CASE a.type = "rekeyed" ->
         LET c == [l |-> a.l, p |-> u.sent, key |-> a.key]
         IN IF u.child = None THEN [u EXCEPT !.child = c] ELSE [u EXCEPT !.new = c]
    [] a.type = "ike_rekeyed" ->
         [u EXCEPT !.old = [spi |-> u.spi, key |-> u.key], !.spi = u.sent, !.key = a.key]
    [] a.type = "challenge" -> [u EXCEPT !.cookie2 = a.cookie2]
    [] a.type = "done" /\ req.kind = "update_sa" ->
         [u EXCEPT !.moved = FALSE, !.cookie2 = None]
    [] a.type = "done" /\ req.kind = "delete_child" ->
         IF u.child # None /\ req.child = u.child.p
         THEN [u EXCEPT !.child = u.new, !.new = None]
         ELSE [u EXCEPT !.new = None]
    [] a.type = "done" /\ req.kind = "delete_ike" ->
         IF u.old # None THEN [u EXCEPT !.old = None]
         ELSE [u EXCEPT !.key = None, !.child = None, !.new = None]
    [] OTHER -> u

\* Another copy of the answered request may still be on its way (bound: of one
\* request at a time).
UEReceive ==
  /\ ue.wait
  /\ \E a \in answers :
       ue' = [Learn(ue, net[ue.sent], a) EXCEPT !.wait = FALSE]
  /\ \/ net' = [net EXCEPT ![ue.sent] = None]
     \/ /\ "duplicate" \notin lapses
        /\ net' = [n \in DOMAIN net |-> IF n = ue.sent THEN net[n] ELSE None]
  /\ answers' = {}
  /\ UNCHANGED <<table, xfrm, lapses>>

Next ==
  \/ UESend \/ UEMove \/ UEReceive
  \/ \E m \in DOMAIN net :
       \/ RefuseCreateChild(m) \/ RekeyChild(m) \/ RekeyIKE(m)
       \/ DeleteChild(m) \/ DeleteIKE(m)
       \/ ChallengeUpdateSA(m) \/ IgnoreUpdateSA(m) \/ RejectUpdateSA(m)
       \/ \E ok \in BOOLEAN : MigrateUpdateSA(m, ok)

Spec == Init /\ [][Next]_vars

----------------------------------------------------------------------------
Key == {ChildKey(s, n, pfs) : s \in Run, n \in Run, pfs \in BOOLEAN}
ChildOf == {Child(l, p) : l \in Run, p \in Spi}
Lapses == {"duplicate", "overlap", "moved", "emptied", "family", "kernel", "keys"}

\* The SAs, the kernel's states and the UE's view are what the handlers build:
\* an SA without a CHILD SA of its own has no session either.
TypeOK ==
  /\ \A s \in Spi : table[s] = None \/
       /\ table[s].key \in Run /\ table[s].nonce \in Run
       /\ table[s].cur \in ChildOf \cup {None} /\ table[s].pend \in ChildOf \cup {None}
       /\ table[s].addr \in Addr /\ table[s].cookie2 \in Run \cup {None}
       /\ table[s].session = (table[s].cur # None)
  /\ \A r \in Run : xfrm.in[r] = None \/ (xfrm.in[r].key \in Key /\ xfrm.in[r].addr \in Addr)
  /\ \A o \in xfrm.out : o.p \in Spi /\ o.addr \in Addr /\ o.key \in Key
  /\ xfrm.pol \in Addr \cup {None}
  /\ \A m \in DOMAIN net : net[m] # None => m <= ue.sent
  /\ answers # {} => ue.wait
  /\ lapses \subseteq Lapses

Owned(s) == IF table[s] = None THEN {} ELSE {table[s].cur, table[s].pend} \ {None}

\* handleIKESARekey, "new IKE SA owns the same CHILD SA states": whatever is
\* repeated, overtaken or refused, no two IKE SAs own one CHILD SA, so tearing
\* one of them down never removes the other's states.
OneOwner ==
  \A s, t \in Spi : s # t => Owned(s) \cap Owned(t) = {}

\* Every state in the kernel belongs to a CHILD SA, and the policies to the
\* session's, of an IKE SA that still exists, at the address that IKE SA
\* will remove them under: none is left behind by a rekey, a promotion, an
\* aborted rekey, a migration or a teardown.
KernelOwned ==
  lapses \cap {"duplicate", "overlap", "moved"} = {} =>
    /\ \A l \in Run : xfrm.in[l] # None =>
         \E s \in Spi : \E c \in Owned(s) : c.l = l
    /\ \A o \in xfrm.out :
         \E s \in Spi : \E c \in Owned(s) : c.p = o.p /\ table[s].addr = o.addr
    /\ xfrm.pol # None =>
         \E s \in Spi : table[s] # None /\ table[s].session /\ table[s].addr = xfrm.pol

Quiet == Alive /\ ~ ue.wait

\* The IKE SA the UE uses is in the table under the same keys, and the UE's
\* session hangs on it and not on the one it replaced.
IKEAgrees ==
  Quiet /\ "duplicate" \notin lapses =>
    /\ table[ue.spi] # None /\ table[ue.spi].key = ue.key
    /\ table[ue.spi].session
    /\ \A s \in Spi : table[s] # None /\ table[s].session => s = ue.spi

\* Between exchanges the kernel has, for every CHILD SA the UE may use, both
\* states at the address its IKE SA has, under the keys the UE derived, and
\* policies that lead to them; and that address is the UE's, once it has asked
\* for a migration.  So rekeys with or without PFS, aborted rekeys, IKE SA
\* rekeys, migrations and refused migrations, each finished before the next
\* begins, interrupt no traffic, and a UE that has moved keeps its old path
\* until it is migrated.  Set aside: repeated requests, a CHILD SA rekey that
\* an IKE SA rekey, a migration or another rekey meets half-way or that comes
\* from a new address, a migration the kernel refuses, a deleted last CHILD SA,
\* and the keys after a migration under newer IKE keys or of a PFS CHILD SA.
ESPAgrees ==
  LET addr == table[ue.spi].addr
      Both(c, key) == /\ xfrm.in[c.l] = [key |-> key, addr |-> addr]
                      /\ [p |-> c.p, addr |-> addr, key |-> key] \in xfrm.out
  IN Quiet /\ lapses \subseteq {"family", "keys"} =>
       /\ xfrm.pol = addr
       /\ ~ ue.moved /\ "family" \notin lapses => addr = ue.addr
       /\ \A c \in {ue.child, ue.new} \ {None} :
            IF "keys" \in lapses THEN \E key \in Key : Both(c, key) ELSE Both(c, c.key)

\* MigrateChildSA "updates the outer tunnel endpoints of an existing CHILD SA
\* without changing SPIs or keys": so it does for a CHILD SA that was made
\* without PFS under the keys its IKE SA has now, whatever was repeated or
\* refused before.  The other CHILD SAs get new keys; see TunnelKept.
MigrationKeepsKeys ==
  [][\A s \in Spi, l \in Run :
       /\ table[s] # None /\ table[s].cur # None /\ table[s].cur.l = l
       /\ xfrm.in[l] # None /\ xfrm'.in[l] # None
       /\ ~ xfrm.in[l].key.pfs /\ xfrm.in[l].key.sk = table[s].key
       => xfrm'.in[l].key = xfrm.in[l].key]_vars

----------------------------------------------------------------------------
(* What the comments and the README say, and the code does not do *)

\* The new IKE SA "inherits the CHILD SA and session from the old SA", a pending
\* CHILD SA is "promoted to current when UE sends DELETE for the old SPI", a
\* migration goes "without changing SPIs or keys", and a DELETE is a "full
\* teardown of XFRM ... state".  So, whatever was repeated, overtaken or came
\* from a new address: between exchanges the IKE SA the UE uses has the session
\* and the UE's CHILD SA, in the kernel under the keys the UE derived, unless the
\* UE itself deleted its only one; and when the last IKE SA is gone, the kernel
\* has nothing.
TunnelKept ==
  /\ Quiet /\ ue.child # None /\ "emptied" \notin lapses =>
       LET s == table[ue.spi]
           Carried(c) == /\ c # None /\ s.cur = Child(c.l, c.p)
                         /\ xfrm.in[c.l] = [key |-> c.key, addr |-> s.addr]
                         /\ xfrm.pol = s.addr
       IN s # None /\ s.session /\ (Carried(ue.child) \/ Carried(ue.new))
  /\ (\A s \in Spi : table[s] = None) =>
       xfrm.in = [l \in Run |-> None] /\ xfrm.out = {} /\ xfrm.pol = None
============================================================================
