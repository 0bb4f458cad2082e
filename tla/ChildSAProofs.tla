--------------------------- MODULE ChildSAProofs ---------------------------
(***************************************************************************)
(* Proof about ChildSA, for any number of requests and addresses: no two   *)
(* IKE SAs own one CHILD SA.                                               *)
(***************************************************************************)
EXTENDS ChildSA, TLAPS

\* An SA has a current and a pending CHILD SA, never the same.
TableInv ==
  /\ DOMAIN table = Spi
  /\ \A s \in Spi : table[s] # None =>
       /\ {"cur", "pend"} \subseteq DOMAIN table[s]
       /\ table[s].cur = None \/ table[s].cur # table[s].pend

\* The UE names only SPIs it has sent or started with.
UeShape(u) ==
  /\ {"sent", "spi", "old"} \subseteq DOMAIN u
  /\ u.sent \in Spi /\ u.spi \in Spi
  /\ u.old # None => u.old.spi \in Spi

NetInv ==
  /\ DOMAIN net = 1..MaxRequest
  /\ \A m \in 1..MaxRequest : net[m] # None =>
       /\ m <= ue.sent /\ net[m].spi \in Spi
       /\ "seen" \in DOMAIN net[m] /\ net[m].seen \in {0, 1}

\* A CHILD SA that somebody owns was made by a run of the handler that has
\* been: what the next run names is new.
Made(c) ==
  /\ c.l[1] \in 0..ue.sent
  /\ \A m \in 1..MaxRequest : net[m] # None =>
       /\ net[m].seen = 0 => c.l[1] # m
       /\ net[m].seen = 1 /\ "duplicate" \notin lapses => c.l # <<m, 2>>

\* The inductive invariant
Inv ==
  /\ TableInv /\ UeShape(ue) /\ NetInv
  /\ \A s \in Spi : \A c \in Owned(s) : Made(c)
  /\ OneOwner

LEMMA Numbers == MaxRequest \in Nat /\ 0 \in Spi /\ \A s \in Spi : s \in Nat
BY ChildSAAssumption DEF Spi

LEMMA InitInv == Init => Inv
<1> SUFFICES ASSUME Init PROVE Inv
  OBVIOUS
<1>1. /\ DOMAIN table = Spi /\ \A s \in Spi : s # 0 => table[s] = None
      /\ table[0].cur = Child(First, 0) /\ table[0].pend = None
      /\ {"cur", "pend"} \subseteq DOMAIN table[0]
  BY Numbers DEF Init
<1>2. TableInv
  BY <1>1 DEF TableInv
<1>3. UeShape(ue) /\ ue.sent = 0
  BY Numbers DEF Init, UeShape
<1>4. DOMAIN net = 1..MaxRequest /\ \A m \in 1..MaxRequest : net[m] = None
  BY DEF Init
<1>5. \A s \in Spi : Owned(s) \subseteq IF s = 0 THEN {Child(First, 0)} ELSE {}
  BY <1>1 DEF Owned
<1>6. Child(First, 0).l[1] = 0
  BY DEF Child, First
<1> QED
  BY <1>2, <1>3, <1>4, <1>5, <1>6 DEF Inv, NetInv, Made, OneOwner

-----------------------------------------------------------------------------
\* What every handler does to the network and the UE.
LEMMA Handled ==
  ASSUME Inv, NEW m \in DOMAIN net, NEW kind, Handle(m, kind),
         lapses \cup Again(m) \subseteq lapses'
  PROVE  /\ m \in 1..MaxRequest /\ m <= ue.sent /\ net[m] # None
         /\ net[m].spi \in Spi /\ table[net[m].spi] # None
         /\ UeShape(ue)' /\ NetInv' /\ ue' = ue
         /\ \A n \in 1..MaxRequest : net'[n] # None =>
              net[n] # None /\ net'[n].seen = IF n = m THEN 1 ELSE net[n].seen
         /\ net[m].seen = 0 \/ (net[m].seen = 1 /\ "duplicate" \notin lapses)
         /\ net[m].seen = 1 => "duplicate" \in lapses'
<1>1. m \in 1..MaxRequest /\ net[m] # None /\ net[m].seen \in {0, 1}
  BY DEF Inv, NetInv, Handle
<1>2. m <= ue.sent /\ net[m].spi \in Spi /\ table[net[m].spi] # None
  BY <1>1 DEF Inv, NetInv, Handle, Readable
<1>3. ue' = ue
  BY DEF Handle
<1>4. net[m].seen = 0 \/ (net[m].seen = 1 /\ "duplicate" \notin lapses)
  BY <1>1 DEF Handle
<1>5. net[m].seen = 1 => "duplicate" \in lapses'
  BY DEF Again, Lapse
<1>6. /\ DOMAIN net' = 1..MaxRequest
      /\ \A n \in 1..MaxRequest : net'[n] # None =>
           /\ net[n] # None /\ net'[n].spi = net[n].spi
           /\ "seen" \in DOMAIN net'[n]
           /\ net'[n].seen = IF n = m THEN 1 ELSE net[n].seen
  <2>1. CASE net[m].seen = 0
    <3>1. net' = [net EXCEPT ![m] = [net[m] EXCEPT !.seen = 1]]
      BY <2>1 DEF Handle
    <3> QED
      BY <1>1, <3>1 DEF Inv, NetInv
  <2>2. CASE net[m].seen = 1
    <3>1. net' = [n \in DOMAIN net |-> IF Outstanding(n) THEN net[n] ELSE None]
      BY <2>2 DEF Handle
    <3> QED
      BY <1>1, <2>2, <3>1 DEF Inv, NetInv
  <2> QED
    BY <1>1, <2>1, <2>2
<1>7. NetInv'
  BY <1>1, <1>3, <1>6 DEF Inv, NetInv
<1> QED
  BY <1>1, <1>2, <1>3, <1>4, <1>5, <1>6, <1>7 DEF Inv, UeShape

\* A CHILD SA that was made stays made, and so is the one of this run.
LEMMA StillMade ==
  ASSUME Inv, NEW m \in DOMAIN net, NEW kind, Handle(m, kind),
         lapses \cup Again(m) \subseteq lapses',
         NEW c, Made(c) \/ c = Child(ThisRun(m), m)
  PROVE  Made(c)'
<1> USE Handled
<1>1. CASE Made(c)
  BY <1>1 DEF Made
<1>2. CASE c = Child(ThisRun(m), m)
  <2>1. c.l = <<m, net[m].seen + 1>> /\ c.l[1] = m
    BY <1>2 DEF Child, ThisRun
  <2>2. m \in 0..ue.sent
    BY Numbers DEF Inv, UeShape
  <2>3. net[m].seen = 0 => c.l # <<m, 2>>
    BY <2>1
  <2> QED
    BY <2>1, <2>2, <2>3 DEF Made
<1> QED
  BY <1>1, <1>2

\* The CHILD SA of this run is owned by nobody.
LEMMA FreshRun ==
  ASSUME Inv, NEW m \in DOMAIN net, NEW kind, Handle(m, kind),
         lapses \cup Again(m) \subseteq lapses',
         NEW s \in Spi
  PROVE  Child(ThisRun(m), m) \notin Owned(s)
<1> DEFINE c == Child(ThisRun(m), m)
<1>1. c.l = <<m, net[m].seen + 1>> /\ c.l[1] = m
  BY DEF Child, ThisRun
<1> HIDE DEF c
<1>2. ~ Made(c)
  <2>1. CASE net[m].seen = 0
    BY <1>1, <2>1, Handled DEF Made
  <2>2. CASE net[m].seen = 1 /\ "duplicate" \notin lapses
    <3>1. c.l = <<m, 2>>
      BY <1>1, <2>2
    <3> QED
      BY <2>2, <3>1, Handled DEF Made
  <2> QED
    BY <2>1, <2>2, Handled
<1>3. c \notin Owned(s)
  BY <1>2 DEF Inv
<1> QED
  BY <1>3 DEF c

\* A handler that makes nobody own more than before.
LEMMA NothingGained ==
  ASSUME Inv, NEW m \in DOMAIN net, NEW kind, Handle(m, kind),
         lapses \cup Again(m) \subseteq lapses',
         TableInv', \A s \in Spi : Owned(s)' \subseteq Owned(s)
  PROVE  Inv'
<1>1. UeShape(ue)' /\ NetInv'
  BY Handled
<1>2. \A s \in Spi : \A c \in Owned(s)' : Made(c)'
  BY StillMade DEF Inv
<1>3. OneOwner'
  BY DEF Inv, OneOwner
<1> QED
  BY <1>1, <1>2, <1>3 DEF Inv

\* A handler that replaces one SA by one that owns no more.
LEMMA NothingGainedAt ==
  ASSUME Inv, NEW m \in DOMAIN net, NEW kind, Handle(m, kind),
         lapses \cup Again(m) \subseteq lapses',
         NEW x, table' = [table EXCEPT ![net[m].spi] = x],
         x # None =>
           /\ {"cur", "pend"} \subseteq DOMAIN x
           /\ x.cur = None \/ x.cur # x.pend
           /\ {x.cur, x.pend} \ {None} \subseteq Owned(net[m].spi)
  PROVE  Inv'
<1>1. net[m].spi \in Spi
  BY Handled
<1>2. /\ DOMAIN table' = Spi /\ table'[net[m].spi] = x
      /\ \A s \in Spi : s # net[m].spi => table'[s] = table[s]
  BY <1>1 DEF Inv, TableInv
<1>3. TableInv'
  BY <1>2 DEF Inv, TableInv
<1>4. \A s \in Spi : Owned(s)' \subseteq Owned(s)
  BY <1>2 DEF Owned
<1> QED
  BY <1>3, <1>4, NothingGained

LEMMA TableKept ==
  ASSUME Inv, NEW m \in DOMAIN net, NEW kind, Handle(m, kind),
         lapses \cup Again(m) \subseteq lapses', table' = table
  PROVE  Inv'
<1>1. TableInv'
  BY DEF Inv, TableInv
<1>2. \A s \in Spi : Owned(s)' \subseteq Owned(s)
  BY DEF Owned
<1> QED
  BY <1>1, <1>2, NothingGained

\* handleChildSARekey
LEMMA RekeyChildStep == ASSUME Inv, NEW m \in DOMAIN net, RekeyChild(m) PROVE Inv'
<1>0. PICK spi, c : spi = net[m].spi /\ c = Child(ThisRun(m), m)
  OBVIOUS
<1>1. Handle(m, "rekey_child") /\ lapses \cup Again(m) \subseteq lapses'
  BY DEF RekeyChild
<1>2. CASE table' = table
  BY <1>1, <1>2, TableKept
<1>3. CASE table' = [table EXCEPT ![spi] = [table[spi] EXCEPT !.pend = c]]
  <2>1. spi \in Spi /\ table[spi] # None /\ UeShape(ue)' /\ NetInv'
    BY <1>0, <1>1, Handled
  <2>2. \A s \in Spi : c \notin Owned(s)
    BY <1>0, <1>1, FreshRun
  <2>3. \A s \in Spi : \A d \in Owned(s) \cup {c} : Made(d)'
    BY <1>0, <1>1, StillMade DEF Inv
  <2>4. /\ DOMAIN table' = Spi
        /\ \A s \in Spi : s # spi => table'[s] = table[s]
        /\ {"cur", "pend"} \subseteq DOMAIN table'[spi]
        /\ table'[spi].cur = table[spi].cur /\ table'[spi].pend = c
    BY <1>3, <2>1 DEF Inv, TableInv
  <2>5. table[spi].cur = None \/ table[spi].cur # c
    BY <2>1, <2>2 DEF Owned
  <2>6. TableInv'
    BY <2>4, <2>5 DEF Inv, TableInv
  <2>7. /\ \A s \in Spi : s # spi => Owned(s)' = Owned(s)
        /\ Owned(spi)' \subseteq Owned(spi) \cup {c}
    BY <2>1, <2>4 DEF Owned
  <2>8. OneOwner'
    BY <2>1, <2>2, <2>7 DEF Inv, OneOwner
  <2> QED
    BY <2>1, <2>3, <2>6, <2>7, <2>8 DEF Inv
<1> QED
  BY <1>0, <1>2, <1>3 DEF RekeyChild

\* handleIKESARekey: the current CHILD SA moves, the pending one stays.
LEMMA RekeyIKEStep == ASSUME Inv, NEW m \in DOMAIN net, RekeyIKE(m) PROVE Inv'
<1>0. PICK spi, sa : spi = net[m].spi /\ sa = table[spi]
  OBVIOUS
<1>1. Handle(m, "rekey_ike") /\ lapses \cup Again(m) \subseteq lapses'
  BY DEF RekeyIKE
<1>2. spi \in Spi /\ sa # None /\ m \in Spi /\ UeShape(ue)' /\ NetInv'
  BY <1>0, <1>1, Handled, Numbers DEF Spi
<1>3. {"cur", "pend"} \subseteq DOMAIN sa /\ (sa.cur = None \/ sa.cur # sa.pend)
  BY <1>0, <1>2 DEF Inv, TableInv
<1>4. PICK y : /\ y = [sa EXCEPT !.key = ThisRun(m), !.nonce = ThisRun(m),
                                !.pend = None, !.cookie2 = None]
               /\ table' = [table EXCEPT ![m] = y, ![spi].cur = None,
                                         ![spi].session = FALSE]
  BY <1>0 DEF RekeyIKE
<1>5. {"cur", "pend"} \subseteq DOMAIN y /\ y.cur = sa.cur /\ y.pend = None
  BY <1>3, <1>4
<1>6. /\ DOMAIN table' = Spi
      /\ \A s \in Spi : s # spi /\ s # m => table'[s] = table[s]
      /\ m # spi => table'[m] = y
      /\ {"cur", "pend"} \subseteq DOMAIN table'[spi] /\ table'[spi].cur = None
      /\ table'[spi].pend = IF m = spi THEN None ELSE sa.pend
  <2> DEFINE f == [table EXCEPT ![m] = y]
  <2>1. DOMAIN f = Spi /\ f[m] = y /\ \A s \in Spi : s # m => f[s] = table[s]
    BY <1>2 DEF Inv, TableInv
  <2>2. table' = [f EXCEPT ![spi] = [[f[spi] EXCEPT !.cur = None]
                                       EXCEPT !.session = FALSE]]
    <3>1. table' = [[f EXCEPT ![spi] = [f[spi] EXCEPT !.cur = None]]
                      EXCEPT ![spi].session = FALSE]
      BY <1>4
    <3> HIDE DEF f
    <3> QED
      BY <1>2, <2>1, <3>1
  <2> HIDE DEF f
  <2>3. {"cur", "pend"} \subseteq DOMAIN f[spi]
    BY <1>0, <1>2, <1>3, <1>5, <2>1
  <2>4. f[spi].pend = IF m = spi THEN None ELSE sa.pend
    BY <1>0, <1>2, <1>5, <2>1
  <2> QED
    BY <1>2, <2>1, <2>2, <2>3, <2>4
<1>7. TableInv'
  BY <1>3, <1>5, <1>6 DEF Inv, TableInv
<1>8. /\ \A s \in Spi : s # spi /\ s # m => Owned(s)' = Owned(s)
      /\ m # spi => Owned(m)' \subseteq {sa.cur} \ {None}
      /\ Owned(spi)' \subseteq {sa.pend} \ {None}
  BY <1>2, <1>5, <1>6 DEF Owned
<1>9. Owned(spi) = {sa.cur, sa.pend} \ {None}
  BY <1>0, <1>2 DEF Owned
<1>10. OneOwner'
  <2> SUFFICES ASSUME NEW s \in Spi, NEW t \in Spi, NEW c \in Owned(s)', c \in Owned(t)'
               PROVE  s = t
    BY DEF OneOwner
  <2>1. \A r \in Spi \ {spi, m} : Owned(r)' = Owned(r) /\ Owned(r) \cap Owned(spi) = {}
    BY <1>2, <1>8 DEF Inv, OneOwner
  <2>2. m # spi => Owned(m)' \cap Owned(spi)' = {}
    BY <1>3, <1>8
  <2>3. \A r \in {spi, m} : Owned(r)' \subseteq Owned(spi)
    BY <1>8, <1>9
  <2> QED
    BY <2>1, <2>2, <2>3 DEF Inv, OneOwner
<1>11. \A s \in Spi : \A c \in Owned(s)' : Made(c)'
  <2>1. \A s \in Spi : Owned(s)' \subseteq Owned(s) \cup Owned(spi)
    BY <1>8, <1>9
  <2>2. \A s \in Spi : \A c \in Owned(s) : Made(c)'
    BY <1>1, StillMade DEF Inv
  <2> QED
    BY <1>2, <2>1, <2>2
<1> QED
  BY <1>2, <1>7, <1>10, <1>11 DEF Inv

\* A CHILD SA DELETE
LEMMA DeleteChildStep == ASSUME Inv, NEW m \in DOMAIN net, DeleteChild(m) PROVE Inv'
<1>0. PICK spi, sa : spi = net[m].spi /\ sa = table[spi]
  OBVIOUS
<1>1. Handle(m, "delete_child") /\ lapses \cup Again(m) \subseteq lapses'
  BY DEF DeleteChild
<1>2. spi \in Spi /\ sa # None
  BY <1>0, <1>1, Handled
<1>3. {"cur", "pend"} \subseteq DOMAIN sa /\ Owned(spi) = {sa.cur, sa.pend} \ {None}
  BY <1>0, <1>2 DEF Inv, TableInv, Owned
<1>4. CASE table' = table
  BY <1>1, <1>4, TableKept
<1>5. CASE sa.pend # None /\ table' = [table EXCEPT ![spi] = Promote(sa)]
  <2>1. PICK x : x = Promote(sa)
    OBVIOUS
  <2>2. {"cur", "pend"} \subseteq DOMAIN x /\ x.cur = sa.pend /\ x.pend = None
    BY <1>3, <2>1 DEF Promote
  <2> QED
    BY <1>0, <1>1, <1>3, <1>5, <2>1, <2>2, NothingGainedAt
<1>6. CASE table' = [table EXCEPT ![spi].pend = None]
  <2>1. PICK x : x = [sa EXCEPT !.pend = None]
    OBVIOUS
  <2>2. {"cur", "pend"} \subseteq DOMAIN x /\ x.cur = sa.cur /\ x.pend = None
    BY <1>3, <2>1
  <2>3. table' = [table EXCEPT ![spi] = x]
    BY <1>0, <1>6, <2>1
  <2> QED
    BY <1>0, <1>1, <1>3, <2>2, <2>3, NothingGainedAt
<1> QED
  BY <1>0, <1>4, <1>5, <1>6 DEF DeleteChild

\* The handlers that leave the CHILD SAs of an SA alone.
LEMMA SameChildren ==
  ASSUME Inv, NEW m \in DOMAIN net, NEW kind, Handle(m, kind),
         lapses \cup Again(m) \subseteq lapses',
         NEW x, table' = [table EXCEPT ![net[m].spi] = x],
         DOMAIN x = DOMAIN table[net[m].spi],
         x.cur = table[net[m].spi].cur, x.pend = table[net[m].spi].pend
  PROVE  Inv'
<1>1. net[m].spi \in Spi /\ table[net[m].spi] # None
  BY Handled
<1>2. /\ {"cur", "pend"} \subseteq DOMAIN x /\ (x.cur = None \/ x.cur # x.pend)
      /\ {x.cur, x.pend} \ {None} \subseteq Owned(net[m].spi)
  BY <1>1 DEF Inv, TableInv, Owned
<1> QED
  BY <1>2, NothingGainedAt

\* handleUpdateSA
LEMMA ChallengeStep == ASSUME Inv, NEW m \in DOMAIN net, ChallengeUpdateSA(m) PROVE Inv'
<1>0. PICK sa, x : sa = table[net[m].spi] /\ x = [sa EXCEPT !.cookie2 = ThisRun(m)]
  OBVIOUS
<1>1. Handle(m, "update_sa") /\ lapses \cup Again(m) \subseteq lapses'
  BY DEF ChallengeUpdateSA
<1>2. table' = [table EXCEPT ![net[m].spi] = x]
  BY <1>0 DEF ChallengeUpdateSA
<1>3. DOMAIN x = DOMAIN sa /\ x.cur = sa.cur /\ x.pend = sa.pend
  <2>1. {"cur", "pend"} \subseteq DOMAIN sa
    BY <1>0, <1>1, Handled DEF Inv, TableInv
  <2> QED
    BY <1>0, <2>1
<1> QED
  BY <1>0, <1>1, <1>2, <1>3, SameChildren

LEMMA MigrateStep ==
  ASSUME Inv, NEW m \in DOMAIN net, NEW ok \in BOOLEAN, MigrateUpdateSA(m, ok)
  PROVE  Inv'
<1>0. PICK spi, sa, x : /\ spi = net[m].spi /\ sa = table[spi]
                        /\ x = [[sa EXCEPT !.addr = net[m].src] EXCEPT !.cookie2 = None]
  OBVIOUS
<1>1. Handle(m, "update_sa") /\ lapses \cup Again(m) \subseteq lapses'
  BY DEF MigrateUpdateSA
<1>2. CASE table' = table
  BY <1>1, <1>2, TableKept
<1>3. CASE table' = [table EXCEPT ![spi].addr = net[m].src, ![spi].cookie2 = None]
  <2>1. spi \in Spi /\ DOMAIN table = Spi /\ {"cur", "pend"} \subseteq DOMAIN sa
    BY <1>0, <1>1, Handled DEF Inv, TableInv
  <2>2. table' = [table EXCEPT ![spi] = x]
    <3>1. table' = [[table EXCEPT ![spi] = [table[spi] EXCEPT !.addr = net[m].src]]
                      EXCEPT ![spi].cookie2 = None]
      BY <1>3
    <3> QED
      BY <1>0, <2>1, <3>1
  <2>3. DOMAIN x = DOMAIN sa /\ x.cur = sa.cur /\ x.pend = sa.pend
    BY <1>0, <2>1
  <2> QED
    BY <1>0, <1>1, <2>2, <2>3, SameChildren
<1> QED
  BY <1>0, <1>2, <1>3 DEF MigrateUpdateSA

\* The handlers that change no SA, and the one that removes one.
LEMMA OtherHandlers ==
  ASSUME Inv, NEW m \in DOMAIN net,
         \/ RefuseCreateChild(m) \/ IgnoreUpdateSA(m) \/ RejectUpdateSA(m)
         \/ DeleteIKE(m)
  PROVE  Inv'
<1>1. CASE RefuseCreateChild(m)
  <2>1. lapses \cup Again(m) \subseteq lapses' /\ table' = table
    BY <1>1 DEF RefuseCreateChild
  <2>2. PICK kind : Handle(m, kind)
    BY <1>1 DEF RefuseCreateChild
  <2> QED
    BY <2>1, <2>2, TableKept
<1>2. CASE IgnoreUpdateSA(m) \/ RejectUpdateSA(m)
  <2>1. /\ lapses \cup Again(m) \subseteq lapses' /\ table' = table
        /\ Handle(m, "update_sa")
    BY <1>2 DEF IgnoreUpdateSA, RejectUpdateSA
  <2> QED
    BY <2>1, TableKept
<1>3. CASE DeleteIKE(m)
  <2>1. /\ lapses \cup Again(m) \subseteq lapses' /\ Handle(m, "delete_ike")
        /\ table' = [table EXCEPT ![net[m].spi] = None]
    BY <1>3 DEF DeleteIKE
  <2> QED
    BY <2>1, NothingGainedAt
<1> QED
  BY <1>1, <1>2, <1>3

-----------------------------------------------------------------------------
\* The UE and the network: no SA changes.
LEMMA OutsideStep ==
  ASSUME Inv, UNCHANGED <<table, lapses>>, UeShape(ue)', NetInv', ue.sent <= ue'.sent,
         \A m \in 1..MaxRequest : net'[m] # None =>
           net'[m] = net[m] \/ (net'[m].seen = 0 /\ ue.sent < m)
  PROVE  Inv'
<1>1. TableInv' /\ OneOwner' /\ \A s \in Spi : Owned(s)' = Owned(s)
  BY DEF Inv, TableInv, OneOwner, Owned
<1>2. ASSUME NEW c, Made(c) PROVE Made(c)'
  <2>1. c.l[1] \in 0..ue.sent /\ ue.sent \in Nat /\ ue'.sent \in Nat
    BY <1>2, Numbers DEF Made, Inv, UeShape
  <2>2. c.l[1] \in 0..ue'.sent
    BY <2>1
  <2>3. ASSUME NEW m \in 1..MaxRequest, net'[m] # None
        PROVE  /\ net'[m].seen = 0 => c.l[1] # m
               /\ net'[m].seen = 1 /\ "duplicate" \notin lapses' => c.l # <<m, 2>>
    <3>1. CASE net'[m] = net[m]
      BY <1>2, <2>3, <3>1 DEF Made
    <3>2. CASE net'[m].seen = 0 /\ ue.sent < m
      BY <2>1, <3>2
    <3> QED
      BY <2>3, <3>1, <3>2
  <2> QED
    BY <2>2, <2>3 DEF Made
<1> QED
  BY <1>1, <1>2 DEF Inv

LEMMA SendStep ==
  ASSUME Inv, NEW r, Send(r),
         "seen" \in DOMAIN r, r.seen = 0, r.spi \in Spi
  PROVE  Inv'
<1>3. ue.sent \in Nat /\ ue.sent + 1 \in 1..MaxRequest
  BY Numbers DEF Send, Inv, UeShape, Spi
<1>4. net' = [net EXCEPT ![ue.sent + 1] = r]
  BY DEF Send
<1>5. /\ DOMAIN net' = 1..MaxRequest /\ net'[ue.sent + 1] = r
      /\ \A n \in 1..MaxRequest : n # ue.sent + 1 => net'[n] = net[n]
  BY <1>3, <1>4 DEF Inv, NetInv
<1>6. UeShape(ue)' /\ ue'.sent = ue.sent + 1
  BY <1>3, Numbers DEF Send, Inv, UeShape, Spi
<1>7. NetInv'
  BY <1>3, <1>5, <1>6 DEF Inv, NetInv
<1>8. \A n \in 1..MaxRequest : net'[n] # None =>
         net'[n] = net[n] \/ (net'[n].seen = 0 /\ ue.sent < n)
  BY <1>3, <1>5
<1>9. ue.sent <= ue'.sent /\ UNCHANGED <<table, lapses>>
  BY <1>3, <1>6 DEF Send
<1> QED
  BY <1>6, <1>7, <1>8, <1>9, OutsideStep

LEMMA UESendStep == ASSUME Inv, UESend PROVE Inv'
<1>1. PICK kind, r :
        /\ Send(r)
        /\ \/ \E x : r = [Request(kind) EXCEPT !.pfs = x]
           \/ \E x : r = [Request(kind) EXCEPT !.bad = x]
           \/ \E x : r = [Request(kind) EXCEPT !.child = x]
           \/ \E x : r = [Request(kind) EXCEPT !.cookie2 = x]
           \/ r = Request(kind)
           \/ /\ ue.old # None
              /\ r = [Request(kind) EXCEPT !.spi = ue.old.spi, !.key = ue.old.key]
  BY DEF UESend
<1>2. ue.spi \in Spi /\ (ue.old # None => ue.old.spi \in Spi)
  BY DEF Inv, UeShape
<1>3. "seen" \in DOMAIN r /\ r.seen = 0 /\ r.spi \in Spi
  <2>1. PICK q : q = Request(kind)
    OBVIOUS
  <2>2. {"seen", "spi"} \subseteq DOMAIN q /\ q.seen = 0 /\ q.spi \in Spi
    BY <1>2, <2>1 DEF Request
  <2>3. CASE \E x : r = [q EXCEPT !.pfs = x]
    BY <2>2, <2>3
  <2>8. CASE \E x : r = [q EXCEPT !.bad = x]
    BY <2>2, <2>8
  <2>4. CASE \E x : r = [q EXCEPT !.child = x]
    BY <2>2, <2>4
  <2>5. CASE \E x : r = [q EXCEPT !.cookie2 = x]
    BY <2>2, <2>5
  <2>6. CASE r = q
    BY <2>2, <2>6
  <2>7. CASE ue.old # None /\ r = [q EXCEPT !.spi = ue.old.spi, !.key = ue.old.key]
    BY <1>2, <2>2, <2>7
  <2> QED
    BY <1>1, <2>1, <2>3, <2>8, <2>4, <2>5, <2>6, <2>7
<1> QED
  BY <1>1, <1>3, SendStep

LEMMA UEMoveStep == ASSUME Inv, UEMove PROVE Inv'
<1>1. PICK a : ue' = [ue EXCEPT !.addr = a, !.moved = TRUE]
  BY DEF UEMove
<1>2. UeShape(ue)' /\ ue'.sent = ue.sent
  BY <1>1 DEF Inv, UeShape
<1>3. UNCHANGED <<table, lapses, net>>
  BY DEF UEMove
<1>4. NetInv' /\ ue.sent <= ue'.sent
  BY <1>2, <1>3, Numbers DEF Inv, NetInv, UeShape
<1> QED
  BY <1>2, <1>3, <1>4, OutsideStep

\* What is learned leaves these fields as they were, or names known SPIs.
LEMMA LearnShape ==
  ASSUME NEW u, UeShape(u), NEW req, NEW a
  PROVE  UeShape(Learn(u, req, a)) /\ Learn(u, req, a).sent = u.sent
<1> DEFINE Good(v) == UeShape(v) /\ v.sent = u.sent
<1>1. CASE a.type = "rekeyed"
  <2>1. \A c : Good([u EXCEPT !.child = c]) /\ Good([u EXCEPT !.new = c])
    BY DEF UeShape
  <2> HIDE DEF Good
  <2>2. Good(Learn(u, req, a))
    BY <1>1, <2>1 DEF Learn
  <2> QED
    BY <2>2 DEF Good
<1>2. CASE a.type = "ike_rekeyed"
  BY <1>2 DEF Learn, UeShape
<1>3. CASE a.type = "challenge"
  BY <1>3 DEF Learn, UeShape
<1>4. CASE a.type = "done"
  <2>1. CASE req.kind = "update_sa"
    BY <1>4, <2>1 DEF Learn, UeShape
  <2>2. CASE req.kind = "delete_child"
    <3>1. \A c : Good([u EXCEPT !.child = c, !.new = None])
      BY DEF UeShape
    <3>2. Good([u EXCEPT !.new = None])
      BY DEF UeShape
    <3> HIDE DEF Good
    <3>3. Good(Learn(u, req, a))
      BY <1>4, <2>2, <3>1, <3>2 DEF Learn
    <3> QED
      BY <3>3 DEF Good
  <2>3. CASE req.kind = "delete_ike"
    <3>1. Good([u EXCEPT !.old = None])
      BY DEF UeShape
    <3>2. Good([u EXCEPT !.key = None, !.child = None, !.new = None])
      BY DEF UeShape
    <3> HIDE DEF Good
    <3>3. Good(Learn(u, req, a))
      BY <1>4, <2>3, <3>1, <3>2 DEF Learn
    <3> QED
      BY <3>3 DEF Good
  <2>4. CASE req.kind \notin {"update_sa", "delete_child", "delete_ike"}
    <3>1. Learn(u, req, a) = u
      BY <1>4, <2>4 DEF Learn
    <3> QED
      BY <3>1
  <2> QED
    BY <2>1, <2>2, <2>3, <2>4
<1>5. CASE a.type \notin {"rekeyed", "ike_rekeyed", "challenge", "done"}
  <2>1. Learn(u, req, a) = u
    BY <1>5 DEF Learn
  <2> QED
    BY <2>1
<1> QED
  BY <1>1, <1>2, <1>3, <1>4, <1>5

LEMMA UEReceiveStep == ASSUME Inv, UEReceive PROVE Inv'
<1>1. PICK v : UeShape(v) /\ v.sent = ue.sent /\ ue' = [v EXCEPT !.wait = FALSE]
  BY LearnShape DEF UEReceive, Inv
<1>2. UeShape(ue)' /\ ue'.sent = ue.sent
  BY <1>1 DEF UeShape
<1>3. DOMAIN net' = 1..MaxRequest /\ \A n \in 1..MaxRequest : net'[n] \in {net[n], None}
  BY DEF UEReceive, Inv, NetInv
<1>4. NetInv' /\ ue.sent <= ue'.sent
  BY <1>2, <1>3, Numbers DEF Inv, NetInv, UeShape
<1>5. UNCHANGED <<table, lapses>>
  BY DEF UEReceive
<1>6. \A n \in 1..MaxRequest : net'[n] # None => net'[n] = net[n]
  BY <1>3
<1> QED
  BY <1>2, <1>4, <1>5, <1>6, OutsideStep

-----------------------------------------------------------------------------
LEMMA NextInv == ASSUME Inv, [Next]_vars PROVE Inv'
<1>1. CASE UNCHANGED vars
  <2>1. UNCHANGED <<table, lapses, net, ue>>
    BY <1>1 DEF vars
  <2>2. UeShape(ue)' /\ NetInv' /\ ue.sent <= ue'.sent
    BY <2>1, Numbers DEF Inv, UeShape, NetInv
  <2> QED
    BY <2>1, <2>2, OutsideStep
<1>2. CASE UESend
  BY <1>2, UESendStep
<1>3. CASE UEMove
  BY <1>3, UEMoveStep
<1>4. CASE UEReceive
  BY <1>4, UEReceiveStep
<1>5. ASSUME NEW m \in DOMAIN net,
             \/ RefuseCreateChild(m) \/ RekeyChild(m) \/ RekeyIKE(m)
             \/ DeleteChild(m) \/ DeleteIKE(m)
             \/ ChallengeUpdateSA(m) \/ IgnoreUpdateSA(m) \/ RejectUpdateSA(m)
             \/ \E ok \in BOOLEAN : MigrateUpdateSA(m, ok)
      PROVE  Inv'
  BY <1>5, OtherHandlers, RekeyChildStep, RekeyIKEStep, DeleteChildStep,
     ChallengeStep, MigrateStep
<1> QED
  BY <1>1, <1>2, <1>3, <1>4, <1>5 DEF Next

LEMMA Invariance == Spec => []Inv
<1>1. Inv /\ [Next]_vars => Inv'
  BY NextInv
<1> QED
  BY InitInv, <1>1, PTL DEF Spec

\* For any number of requests, repeated, overtaken or refused: no two IKE SAs
\* own one CHILD SA, after any sequence of rekeys, promotions, migrations and
\* deletes.
THEOREM ChildSAsHaveOneOwner == Spec => []OneOwner
<1>1. Inv => OneOwner
  BY DEF Inv
<1> QED
  BY Invariance, <1>1, PTL
============================================================================
