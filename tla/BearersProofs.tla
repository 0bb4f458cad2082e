--------------------------- MODULE BearersProofs ---------------------------
(***************************************************************************)
(* Proofs about Bearers, for any number of sessions, TEIDs and requests:   *)
(* the index of local TEIDs is exact, so no two bearers share a TEID.      *)
(***************************************************************************)
EXTENDS Bearers, TLAPS

\* The shape of the tables and of the requests on the network, as far as the
\* index depends on it: a bearer has a TEID, and an Update or Delete Bearer
\* Request names a possible EBI.
Shape ==
  /\ sessionsByID \subseteq Session
  /\ DOMAIN bearers = Session /\ DOMAIN bearersByLocalTEID = TEID
  /\ \A s \in Session : DOMAIN bearers[s] = AllEbi
  /\ \A s \in Session, e \in AllEbi : bearers[s][e] # None =>
       "local" \in DOMAIN bearers[s][e] /\ bearers[s][e].local \in TEID
  /\ sent \in Seq([s : Session, body : Offer])

\* The inductive invariant
Inv == Shape /\ BearersIndexed

LEMMA InitInv == Init => Inv
BY DEF Init, Inv, Shape, BearersIndexed, NoBearers

\* A step that leaves the tables and the requests alone changes nothing.
LEMMA TablesKept == ASSUME Inv, UNCHANGED <<tables, sent>> PROVE Inv'
BY DEF Inv, Shape, BearersIndexed, tables

\* A bearer of another session, or another one of the same, has another TEID.
LEMMA DistinctTEIDs ==
  ASSUME Inv, NEW s \in sessionsByID, NEW z \in sessionsByID, NEW e \in AllEbi,
         NEW x \in AllEbi, bearers[s][e] # None, bearers[z][x] # None,
         <<s, e>> # <<z, x>>
  PROVE  bearers[s][e].local # bearers[z][x].local
BY DEF Inv, BearersIndexed

\* A bearer that is indexed keeps its entry when a free TEID is taken.
LEMMA TakeFreeTEID ==
  ASSUME Inv, NEW t \in TEID, ~ TEIDTaken(t), NEW s \in sessionsByID, NEW e \in AllEbi,
         bearers[s][e] # None
  PROVE  bearers[s][e].local # t
<1>1. bearersByLocalTEID[bearers[s][e].local] = <<s, e>>
  BY DEF Inv, BearersIndexed
<1>2. <<s, e>> # None
  BY BearersAssumption DEF Inv, Shape, AllEbi
<1> QED
  BY <1>1, <1>2 DEF TEIDTaken

\* AddSession's publication
LEMMA InsertStep ==
  ASSUME Inv, NEW s \in Session, NEW t \in TEID, AddSessionInsert(s, t)
  PROVE  Inv'
<1>1. CASE TEIDTaken(t)
  BY <1>1, TablesKept DEF AddSessionInsert, network
<1>2. CASE ~ TEIDTaken(t)
  <2> DEFINE d == [NoBearers EXCEPT ![DefaultEbi] = DefaultBearer(t)]
  <2>1. /\ sessionsByID' = sessionsByID \cup {s} /\ sent' = sent
        /\ bearers' = [bearers EXCEPT ![s] = d]
        /\ bearersByLocalTEID' = [bearersByLocalTEID EXCEPT ![t] = <<s, DefaultEbi>>]
    BY <1>2 DEF AddSessionInsert, network
  <2>2. /\ DOMAIN d = AllEbi
        /\ \A e \in AllEbi : d[e] # None =>
             e = DefaultEbi /\ "local" \in DOMAIN d[e] /\ d[e].local = t
    BY DEF NoBearers, DefaultBearer
  <2> HIDE DEF d
  <2>3. /\ DOMAIN bearers' = Session /\ bearers'[s] = d
        /\ \A z \in Session : z # s => bearers'[z] = bearers[z]
    BY <2>1 DEF Inv, Shape
  <2>4. /\ DOMAIN bearersByLocalTEID' = TEID /\ bearersByLocalTEID'[t] = <<s, DefaultEbi>>
        /\ \A u \in TEID : u # t => bearersByLocalTEID'[u] = bearersByLocalTEID[u]
    BY <2>1 DEF Inv, Shape
  <2>5. Shape'
    BY <2>1, <2>2, <2>3, <2>4 DEF Inv, Shape
  <2>6. BearersIndexed'
    <3> SUFFICES ASSUME NEW z \in sessionsByID', NEW x \in AllEbi, bearers'[z][x] # None
                 PROVE  bearersByLocalTEID'[bearers'[z][x].local] = <<z, x>>
      BY DEF BearersIndexed
    <3>1. CASE z = s
      BY <2>2, <2>3, <2>4, <3>1
    <3>2. CASE z # s
      <4>1. z \in sessionsByID /\ z \in Session /\ bearers'[z] = bearers[z]
        BY <2>1, <2>3, <3>2 DEF Inv, Shape
      <4>2. bearers[z][x].local # t /\ bearers[z][x].local \in TEID
        BY <1>2, <4>1, TakeFreeTEID DEF Inv, Shape
      <4> QED
        BY <2>4, <4>1, <4>2 DEF Inv, BearersIndexed
    <3> QED
      BY <3>1, <3>2
  <2> QED
    BY <2>5, <2>6 DEF Inv
<1> QED
  BY <1>1, <1>2

\* The session leaves the tables, with the TEIDs of all its bearers.
LEMMA SessionRemoved ==
  ASSUME Inv, NEW s \in Session, sent' = sent,
         IF s \in sessionsByID
         THEN /\ sessionsByID' = sessionsByID \ {s}
              /\ bearersByLocalTEID' = Unindexed(LocalTEIDs(s))
         ELSE UNCHANGED <<sessionsByID, bearersByLocalTEID>>,
         bearers' = bearers \/ bearers' = [bearers EXCEPT ![s] = NoBearers]
  PROVE  Inv'
<1>1. /\ DOMAIN bearers' = Session
      /\ bearers'[s] = bearers[s] \/ bearers'[s] = NoBearers
      /\ \A z \in Session : z # s => bearers'[z] = bearers[z]
  BY DEF Inv, Shape
<1>2. sessionsByID' = sessionsByID \ {s} /\ sessionsByID' \subseteq Session
  BY DEF Inv, Shape
<1>3. DOMAIN bearersByLocalTEID' = TEID
  BY DEF Inv, Shape, Unindexed
<1>4. Shape'
  BY <1>1, <1>2, <1>3 DEF Inv, Shape, NoBearers
<1>5. BearersIndexed'
  <2> SUFFICES ASSUME NEW z \in sessionsByID', NEW x \in AllEbi, bearers'[z][x] # None
               PROVE  bearersByLocalTEID'[bearers'[z][x].local] = <<z, x>>
    BY DEF BearersIndexed
  <2>1. z \in sessionsByID /\ z # s /\ z \in Session /\ bearers'[z] = bearers[z]
    BY <1>1, <1>2 DEF Inv, Shape
  <2>2. /\ bearers[z][x].local \in TEID
        /\ bearersByLocalTEID[bearers[z][x].local] = <<z, x>>
    BY <2>1 DEF Inv, Shape, BearersIndexed
  <2>3. CASE s \in sessionsByID
    <3>1. bearers[z][x].local \notin LocalTEIDs(s)
      BY <2>1, <2>3, DistinctTEIDs DEF LocalTEIDs
    <3> QED
      BY <2>1, <2>2, <2>3, <3>1 DEF Unindexed
  <2>4. CASE s \notin sessionsByID
    BY <2>1, <2>2, <2>4
  <2> QED
    BY <2>3, <2>4
<1> QED
  BY <1>4, <1>5 DEF Inv

\* A request on the network names a session and has a possible content.
LEMMA RequestShape ==
  ASSUME Inv, NEW r \in 1..Len(sent)
  PROVE  /\ sent[r].s \in Session /\ Body(r) \in Offer
         /\ Body(r).type \in {"update", "delete"} => Body(r).ebi \in AllEbi
<1> DEFINE R == [s : Session, body : Offer]
<1>1. sent[r] \in R
  <2>1. sent \in Seq(R)
    BY DEF Inv, Shape
  <2> HIDE DEF R
  <2> QED
    BY <2>1
<1>2. sent[r].s \in Session /\ Body(r) \in Offer
  BY <1>1 DEF Body
<1> QED
  BY <1>2, BearersAssumption DEF AllEbi

\* AddBearer, with a TEID that is free or taken, into any EBI
LEMMA AddBearerStep ==
  ASSUME Inv, NEW t \in TEID, NEW full \in BOOLEAN, AddBearer(t, full)
  PROVE  Inv'
<1> DEFINE s == sent[rd.req].s
           b == DedicatedBearer(t, Body(rd.req).contexts[rd.i].raw, rd.req, CanPut(teidMap, t))
<1>1. CASE s \notin sessionsByID \/ TEIDTaken(t)
  BY <1>1, TablesKept DEF AddBearer, network, tables
<1>2. CASE s \in sessionsByID /\ ~ TEIDTaken(t)
  <2>1. /\ bearers' = [bearers EXCEPT ![s] = [bearers[s] EXCEPT ![rd.ebi] = b]]
        /\ bearersByLocalTEID' = [bearersByLocalTEID EXCEPT ![t] = <<s, rd.ebi>>]
        /\ sessionsByID' = sessionsByID /\ sent' = sent
    BY <1>2 DEF AddBearer, network
  <2>2. "local" \in DOMAIN b /\ b.local = t
    BY DEF DedicatedBearer
  <2> HIDE DEF b, s
  <2>3. /\ s \in Session /\ DOMAIN bearers[s] = AllEbi
        /\ DOMAIN bearers = Session /\ DOMAIN bearersByLocalTEID = TEID
    BY <1>2 DEF Inv, Shape
  <2>4. /\ DOMAIN bearers' = Session /\ DOMAIN bearers'[s] = AllEbi
        /\ \A x \in AllEbi : bearers'[s][x] = IF x = rd.ebi THEN b ELSE bearers[s][x]
        /\ \A z \in Session : z # s => bearers'[z] = bearers[z]
    BY <2>1, <2>3
  <2>5. /\ DOMAIN bearersByLocalTEID' = TEID /\ bearersByLocalTEID'[t] = <<s, rd.ebi>>
        /\ \A u \in TEID : u # t => bearersByLocalTEID'[u] = bearersByLocalTEID[u]
    BY <2>1, <2>3
  <2>6. Shape'
    BY <2>1, <2>2, <2>4, <2>5 DEF Inv, Shape
  <2>7. BearersIndexed'
    <3> SUFFICES ASSUME NEW z \in sessionsByID, NEW x \in AllEbi, bearers'[z][x] # None
                 PROVE  bearersByLocalTEID'[bearers'[z][x].local] = <<z, x>>
      BY <2>1 DEF BearersIndexed
    <3>1. CASE z = s /\ x = rd.ebi
      BY <2>2, <2>4, <2>5, <3>1
    <3>2. CASE z # s \/ x # rd.ebi
      <4>1. z \in Session /\ bearers'[z][x] = bearers[z][x]
        BY <2>4, <3>2 DEF Inv, Shape
      <4>2. bearers[z][x].local # t /\ bearers[z][x].local \in TEID
        BY <1>2, <4>1, TakeFreeTEID DEF Inv, Shape
      <4> QED
        BY <2>5, <4>1, <4>2 DEF Inv, BearersIndexed
    <3> QED
      BY <3>1, <3>2
  <2> QED
    BY <2>6, <2>7 DEF Inv
<1> QED
  BY <1>1, <1>2

\* UpdateBearer changes a TFT and no TEID.
LEMMA UpdateBearerStep ==
  ASSUME Inv, NEW r \in 1..Len(sent), NEW full \in BOOLEAN, UpdateBearer(r, full)
  PROVE  Inv'
<1> DEFINE s == sent[r].s
           e == Body(r).ebi
           bs == UpdateTFT(bearers[s], e, Body(r).raw)
<1>1. /\ bearers' = [bearers EXCEPT ![s] = bs]
      /\ UNCHANGED <<sessionsByID, bearersByLocalTEID, sent>>
      /\ s \in sessionsByID /\ bearers[s][e] # None
  BY DEF UpdateBearer, HasBearer, network
<1>2. s \in Session /\ e \in AllEbi
  BY RequestShape DEF UpdateBearer, ReadRequest
<1>3. /\ DOMAIN bs = AllEbi
      /\ \A x \in AllEbi : x # e => bs[x] = bearers[s][x]
      /\ "local" \in DOMAIN bs[e] /\ bs[e].local = bearers[s][e].local
  BY <1>1, <1>2 DEF Inv, Shape, UpdateTFT
<1> HIDE DEF s, e, bs
<1>4. /\ DOMAIN bearers' = Session /\ bearers'[s] = bs
      /\ \A z \in Session : z # s => bearers'[z] = bearers[z]
  BY <1>1, <1>2 DEF Inv, Shape
<1>5. \A z \in Session, x \in AllEbi : bearers'[z][x] # None =>
        /\ bearers[z][x] # None /\ "local" \in DOMAIN bearers'[z][x]
        /\ bearers'[z][x].local = bearers[z][x].local
  BY <1>1, <1>3, <1>4 DEF Inv, Shape
<1>6. Shape'
  BY <1>1, <1>3, <1>4, <1>5 DEF Inv, Shape
<1>7. BearersIndexed'
  BY <1>1, <1>5 DEF Inv, Shape, BearersIndexed
<1> QED
  BY <1>6, <1>7 DEF Inv

\* RemoveBearer frees the TEID of the one bearer it removes.
LEMMA DeleteDedicatedStep ==
  ASSUME Inv, NEW r \in 1..Len(sent), NEW full \in BOOLEAN, DeleteDedicatedBearer(r, full)
  PROVE  Inv'
<1> DEFINE s == sent[r].s
           e == Body(r).ebi
           bs == [bearers[s] EXCEPT ![e] = None]
<1>1. /\ bearers' = [bearers EXCEPT ![s] = bs]
      /\ bearersByLocalTEID' = Unindexed({bearers[s][e].local})
      /\ UNCHANGED <<sessionsByID, sent>>
      /\ s \in sessionsByID /\ bearers[s][e] # None
  BY DEF DeleteDedicatedBearer, HasBearer, network
<1>2. s \in Session /\ e \in AllEbi
  BY RequestShape DEF DeleteDedicatedBearer, ReadRequest
<1>3. DOMAIN bs = AllEbi /\ \A x \in AllEbi : bs[x] = IF x = e THEN None ELSE bearers[s][x]
  BY <1>2 DEF Inv, Shape
<1> HIDE DEF s, e, bs
<1>4. /\ DOMAIN bearers' = Session /\ bearers'[s] = bs
      /\ \A z \in Session : z # s => bearers'[z] = bearers[z]
  BY <1>1, <1>2 DEF Inv, Shape
<1>5. \A z \in Session, x \in AllEbi : bearers'[z][x] # None =>
        bearers'[z][x] = bearers[z][x] /\ <<z, x>> # <<s, e>>
  BY <1>3, <1>4
<1>6. Shape'
  BY <1>1, <1>3, <1>4, <1>5 DEF Inv, Shape, Unindexed
<1>7. BearersIndexed'
  <2> SUFFICES ASSUME NEW z \in sessionsByID, NEW x \in AllEbi, bearers'[z][x] # None
               PROVE  bearersByLocalTEID'[bearers'[z][x].local] = <<z, x>>
    BY <1>1 DEF BearersIndexed
  <2>1. z \in Session /\ bearers'[z][x] = bearers[z][x] /\ <<z, x>> # <<s, e>>
    BY <1>5 DEF Inv, Shape
  <2>2. bearers[z][x].local \in TEID /\ bearers[z][x].local # bearers[s][e].local
    BY <1>1, <1>2, <2>1, DistinctTEIDs DEF Inv, Shape
  <2> QED
    BY <1>1, <2>1, <2>2 DEF Inv, BearersIndexed, Unindexed
<1> QED
  BY <1>6, <1>7 DEF Inv

\* The PGW's next request
LEMMA PgwSendStep ==
  ASSUME Inv, NEW s \in Session, NEW o \in Offer, PgwSend(s, o)
  PROVE  Inv'
<1> DEFINE R == [s : Session, body : Offer]
<1>1. sent' = Append(sent, [s |-> s, body |-> o]) /\ UNCHANGED tables
  BY DEF PgwSend
<1>2. sent \in Seq(R) /\ [s |-> s, body |-> o] \in R
  BY DEF Inv, Shape
<1>3. sent' \in Seq(R)
  <2> HIDE DEF R
  <2> QED
    BY <1>1, <1>2
<1> QED
  BY <1>1, <1>3 DEF Inv, Shape, BearersIndexed, tables

\* RemoveSession, by a teardown or for the default bearer
LEMMA RemoveSessionStep ==
  ASSUME Inv, NEW s \in Session, RemoveSession(s), UNCHANGED network
  PROVE  Inv'
<1>1. bearers' = bearers \/ bearers' = [bearers EXCEPT ![s] = NoBearers]
  BY DEF RemoveSession
<1>2. IF s \in sessionsByID
      THEN /\ sessionsByID' = sessionsByID \ {s}
           /\ bearersByLocalTEID' = Unindexed(LocalTEIDs(s))
      ELSE UNCHANGED <<sessionsByID, bearersByLocalTEID>>
  BY DEF RemoveSession
<1> QED
  BY <1>1, <1>2, SessionRemoved DEF network

\* The kernel steps of AddSession touch no table; its rollback ends by
\* removing the session from them.
LEMMA AddSessionKeeps ==
  ASSUME Inv, NEW s \in Session, AddSessionStep(s)
  PROVE  Inv'
<1>1. CASE \E t \in TEID : AddSessionInsert(s, t)
  BY <1>1, InsertStep
<1>2. CASE AddSessionTEID(s) \/ AddSessionSyncRead(s) \/ RollbackUE(s) \/ RollbackTEID(s)
  BY <1>2, TablesKept
     DEF AddSessionTEID, AddSessionSyncRead, RollbackUE, RollbackTEID, network
<1>3. CASE \E ok \in BOOLEAN : \/ AddSessionUE(s, ok) \/ AddSessionRoute(s, ok)
                               \/ AddSessionSyncWrite(s, ok)
  BY <1>3, TablesKept DEF AddSessionUE, AddSessionRoute, AddSessionSyncWrite, network
<1>4. CASE RollbackState(s)
  BY <1>4, SessionRemoved DEF RollbackState, network
<1> QED
  BY <1>1, <1>2, <1>3, <1>4 DEF AddSessionStep

LEMMA NextInv == Inv /\ [Next]_vars => Inv'
<1> SUFFICES ASSUME Inv, [Next]_vars PROVE Inv'
  OBVIOUS
<1>1. ASSUME NEW s \in Session, NEW a \in PAA, PgwCreate(s, a) PROVE Inv'
  BY <1>1, TablesKept DEF PgwCreate, network
<1>2. ASSUME NEW s \in Session, ReadCreateResponse(s) \/ Forget(s) PROVE Inv'
  BY <1>2, TablesKept DEF ReadCreateResponse, Forget, network
<1>3. ASSUME NEW s \in Session, Teardown(s) PROVE Inv'
  BY <1>3, RemoveSessionStep DEF Teardown
<1>4. ASSUME NEW r \in 1..Len(sent), ReceiveCreateBearer(r) PROVE Inv'
  BY <1>4, TablesKept DEF ReceiveCreateBearer, network
<1>5. ASSUME NEW r \in 1..Len(sent), DeleteDefaultBearer(r) PROVE Inv'
  <2>1. CASE UNCHANGED <<tables, kernel, told, raced>>
    BY <1>5, <2>1, TablesKept DEF DeleteDefaultBearer, network
  <2>2. CASE RemoveSession(sent[r].s)
    BY <1>5, <2>2, RequestShape, RemoveSessionStep DEF DeleteDefaultBearer
  <2> QED
    BY <1>5, <2>1, <2>2 DEF DeleteDefaultBearer
<1>6. CASE ReaderStep
  BY <1>6, AddBearerStep, TablesKept
     DEF ReaderStep, ChooseEBI, ReaderOnly, RespondCreateBearer, network
<1>7. CASE UNCHANGED vars
  BY <1>7, TablesKept DEF vars, network
<1> QED
  BY <1>1, <1>2, <1>3, <1>4, <1>5, <1>6, <1>7, AddSessionKeeps, PgwSendStep,
     UpdateBearerStep, DeleteDedicatedStep DEF Next

LEMMA Invariance == Spec => []Inv
BY InitInv, NextInv, PTL DEF Spec

\* The index of local TEIDs is exact: whatever AddSession, its rollback, the
\* bearer handlers and the teardowns do to each other, a bearer in the tables
\* is the one bearersByLocalTEID leads to.
THEOREM IndexIsExact == Spec => []BearersIndexed
<1>1. Inv => BearersIndexed
  BY DEF Inv
<1> QED
  BY <1>1, Invariance, PTL

\* No two bearers share a local TEID, which is what downlink packets and the
\* removals of AddSession's rollback, RemoveSession and RemoveBearer rely on.
TEIDsDistinct ==
  \A s, z \in sessionsByID, e, x \in AllEbi :
    /\ bearers[s][e] # None /\ bearers[z][x] # None
    /\ bearers[s][e].local = bearers[z][x].local
    => s = z /\ e = x

\* The collision tests of AddSession and AddBearer are enough, although
\* TEIDs are drawn at random and tried again after any failure.
THEOREM NoSharedTEID == Spec => []TEIDsDistinct
<1>1. Inv => TEIDsDistinct
  BY DistinctTEIDs DEF TEIDsDistinct
<1> QED
  BY <1>1, Invariance, PTL
============================================================================
