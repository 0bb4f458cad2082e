------------------------------ MODULE S2bProofs ------------------------------
(***************************************************************************)
(* Proofs about S2bTransaction, for any number of sessions, sequence       *)
(* numbers, retransmissions and messages in flight: the pending table      *)
(* holds only live calls, a response is delivered at most once, and the    *)
(* client implements S2bExchange.                                          *)
(***************************************************************************)
EXTENDS S2bTransaction, TLAPS

\* The transaction has not been started: nobody refers to it yet.
Unused(s, k) ==
    /\ call[s].kind # k
    /\ told[s] = "none" \/ (k = "delete" /\ told[s] = "created")

\* The PGW has done what the transaction asks for.
Done(s, k) == IF k = "create" THEN pgw[s] # "none" ELSE pgw[s] = "down"

CallInv(s) ==
    /\ call[s].kind = None <=> call[s].seq = None
    /\ call[s].kind = "create" => told[s] = "none"
    /\ call[s].kind = "delete" => told[s] = "created"
    /\ told[s] = "created" => pgw[s] # "none"
    /\ \A t \in Session : call[s].seq # None /\ call[t].seq = call[s].seq => s = t

\* A message carries the number of the call it belongs to, and no other call's.
MsgInv(m) ==
    /\ \A s \in Session :
          call[s].seq = m.seq <=> (s = m.sess /\ call[s].kind = m.kind)
    /\ ~Unused(m.sess, m.kind)
    /\ m.type = "response" => (m.body = "accepted" => Done(m.sess, m.kind))

NetInv ==
    /\ \A m \in net : m.type # "pgwDelete" => MsgInv(m)
    /\ \A m \in net : m.type = "pgwDelete" => pgw[m.sess] = "down"

ChanInv(s, k) ==
    /\ Unused(s, k) => chan[<<s, k>>] = "empty"
    /\ chan[<<s, k>>] = "accepted" => Done(s, k)

PendingInv ==
    \A q \in Seq24, s \in Session, k \in Kind : pending[q] = <<s, k>> =>
        call[s].seq = q /\ call[s].kind = k /\ chan[<<s, k>>] = "empty"

ReaderInv ==
    \/ reader = IdleReader
    \/ /\ reader.pc \in {"claim", "deliver"}
       /\ reader.msg \in Response
       /\ reader.txn = <<reader.msg.sess, reader.msg.kind>>
       /\ MsgInv(reader.msg)
       /\ reader.pc = "deliver" => /\ pending[reader.msg.seq] = None
                                   /\ chan[reader.txn] = "empty"

\* The inductive invariant
Inv ==
    /\ TypeOK
    /\ \A s \in Session : CallInv(s)
    /\ NetInv
    /\ \A s \in Session, k \in Kind : ChanInv(s, k)
    /\ PendingInv
    /\ ReaderInv
    /\ PeerRemembered

-----------------------------------------------------------------------------
(* The steps *)

\* What nil is not
LEMMA Nil ==
    /\ None \notin Seq24 /\ None \notin Kind
    /\ \A s \in Session, k \in Kind : <<s, k>> # None
BY NoneIsNil DEF Txn

\* The allocator stays in range, also at the wrap (NextSeq of codec.go).
LEMMA NextSeqRange == ASSUME NEW q \in Seq24 PROVE NextSeq(q) \in Seq24
BY Bounds DEF NextSeq, Seq24

\* A message not sent by the PGW on its own is a request or a response.
LEMMA MsgTypes ==
    ASSUME TypeOK, NEW m \in net
    PROVE  /\ m.type # "pgwDelete" => m.seq \in Seq24 /\ m.kind \in Kind
           /\ m.sess \in Session
           /\ m.type = "request" => m \in Request
           /\ m.type = "response" => m \in Response
BY DEF TypeOK, Request, Response, PgwRequest

\* Putting a message on the network adds at most that message.
LEMMA PutAdds ==
    ASSUME NEW base, NEW m, Put(base, m)
    PROVE  net' \subseteq base \cup {m}
BY DEF Put

\* What a step keeps that changes neither a call nor the PGW
LEMMA Kept ==
    ASSUME UNCHANGED <<call, told, pgw>>
    PROVE  /\ \A s, k : Unused(s, k)' <=> Unused(s, k)
           /\ \A s, k : Done(s, k)' <=> Done(s, k)
           /\ \A m : MsgInv(m) => MsgInv(m)'
<1>1. \A s, k : Unused(s, k)' <=> Unused(s, k)
  BY DEF Unused
<1>2. \A s, k : Done(s, k)' <=> Done(s, k)
  BY DEF Done
<1>3. \A m : MsgInv(m) => MsgInv(m)'
  BY <1>1, <1>2 DEF MsgInv
<1> QED
  BY <1>1, <1>2, <1>3

LEMMA CallsKept ==
    ASSUME \A s \in Session : CallInv(s), UNCHANGED <<call, told, pgw>>
    PROVE  \A s \in Session : CallInv(s)'
BY DEF CallInv

LEMMA NetKept ==
    ASSUME NetInv, net' \subseteq net, UNCHANGED <<call, told, pgw>>
    PROVE  NetInv'
<1>1. \A m \in net' : m.type # "pgwDelete" => MsgInv(m)'
  BY Kept DEF NetInv
<1>2. \A m \in net' : m.type = "pgwDelete" => pgw'[m.sess] = "down"
  BY DEF NetInv
<1> QED
  BY <1>1, <1>2 DEF NetInv

LEMMA ChansKept ==
    ASSUME \A s \in Session, k \in Kind : ChanInv(s, k),
           UNCHANGED <<call, told, pgw, chan>>
    PROVE  \A s \in Session, k \in Kind : ChanInv(s, k)'
BY Kept DEF ChanInv

LEMMA ReaderKept ==
    ASSUME ReaderInv, UNCHANGED <<call, told, pgw, chan, pending, reader>>
    PROVE  ReaderInv'
<1>1. MsgInv(reader.msg) => MsgInv(reader.msg)'
  BY DEF MsgInv, Unused, Done
<1> QED
  BY <1>1 DEF ReaderInv

LEMMA PeersKept ==
    ASSUME PeerRemembered, UNCHANGED <<told, pgw, sessionPeers>> PROVE PeerRemembered'
BY DEF PeerRemembered

LEMMA PendingKept ==
    ASSUME PendingInv, UNCHANGED <<pending, call, chan>> PROVE PendingInv'
BY DEF PendingInv

\* The initial state
LEMMA InitInv == Init => Inv
<1> SUFFICES ASSUME Init PROVE Inv
  OBVIOUS
<1> USE Nil
<1>1. TypeOK
  BY Bounds DEF Init, TypeOK, Call, NoCall, Told, Reader, IdleReader, Txn
<1>2. \A s \in Session : CallInv(s)
  BY DEF Init, CallInv, NoCall, Kind
<1>3. NetInv
  BY DEF Init, NetInv
<1>4. \A s \in Session, k \in Kind : ChanInv(s, k)
  BY DEF Init, ChanInv, Txn
<1>5. PendingInv
  BY DEF Init, PendingInv
<1>6. ReaderInv /\ PeerRemembered
  BY DEF Init, ReaderInv, PeerRemembered
<1> QED
  BY <1>1, <1>2, <1>3, <1>4, <1>5, <1>6 DEF Inv

\* CreateSession's validation fails.
LEMMA RefuseInv ==
    ASSUME Inv, NEW s \in Session, Refuse(s) PROVE Inv'
<1> USE DEF Inv, Refuse, Waiting
<1>1. TypeOK'
  BY DEF TypeOK, Told
<1>a. \A t \in Session, k \in Kind : Unused(t, k)' => Unused(t, k)
  BY DEF Unused, TypeOK
<1>2. ASSUME NEW t \in Session PROVE CallInv(t)'
  BY Nil DEF CallInv, TypeOK, Kind
<1>b. ASSUME NEW m, MsgInv(m), m.sess \in Session, m.kind \in Kind PROVE MsgInv(m)'
  BY <1>a, <1>b DEF MsgInv, Done
<1>3. NetInv'
  BY <1>b, MsgTypes DEF NetInv
<1>4. ASSUME NEW t \in Session, NEW k \in Kind PROVE ChanInv(t, k)'
  BY <1>a DEF ChanInv, Done
<1>5. PendingInv'
  BY DEF PendingInv
<1>6. ReaderInv'
  BY <1>b DEF ReaderInv, Response
<1>7. PeerRemembered'
  BY DEF PeerRemembered, TypeOK
<1> QED
  BY <1>1, <1>2, <1>3, <1>4, <1>5, <1>6, <1>7

\* A transaction is entered and its request sent.
LEMMA StartInv ==
    ASSUME Inv, NEW s \in Session, NEW k \in Kind, Start(s, k) PROVE Inv'
<1>p. PICK q \in Seq24 : q = NextSeq(seq)
  BY NextSeqRange DEF Inv, TypeOK
<1> DEFINE r == [type |-> "request", kind |-> k, seq |-> q, sess |-> s]
<1>q. q # None /\ seq' = q /\ Fresh(q)
  BY <1>p, Nil DEF Start
<1>c. /\ call' = [call EXCEPT ![s] = [kind |-> k, seq |-> q, attempt |-> 1]]
      /\ pending' = [pending EXCEPT ![q] = <<s, k>>]
      /\ net' \subseteq net \cup {r}
      /\ UNCHANGED <<chan, told, sessionPeers, reader, pgw>>
      /\ call[s].kind = None
      /\ told[s] = IF k = "create" THEN "none" ELSE "created"
  BY <1>q, PutAdds DEF Start, Transmit, Waiting
<1>T. TypeOK                                             BY DEF Inv
<1>C. \A i \in Session : CallInv(i)                      BY DEF Inv
<1>N. NetInv                                             BY DEF Inv
<1>H. \A i \in Session, l \in Kind : ChanInv(i, l)       BY DEF Inv
<1>P. PendingInv                                         BY DEF Inv
<1>R. ReaderInv                                          BY DEF Inv
<1>E. PeerRemembered                                     BY DEF Inv
<1>1. TypeOK'
  <2>1. [kind |-> k, seq |-> q, attempt |-> 1] \in Call
    BY <1>q, Bounds DEF Call
  <2>2. r \in Request
    BY <1>q DEF Request
  <2> HIDE DEF r
  <2> QED
    BY <1>T, <2>1, <2>2, <1>q, <1>c DEF TypeOK, Txn
<1>r. r.type = "request" /\ r.kind = k /\ r.seq = q /\ r.sess = s
  OBVIOUS
<1> HIDE DEF r
<1>d. /\ call'[s].kind = k /\ call'[s].seq = q
      /\ \A t \in Session : t # s => call'[t] = call[t]
      /\ \A t \in Session : call[t].seq # q
  BY <1>T, <1>q, <1>c DEF TypeOK, Fresh
<1>a. \A t \in Session, j \in Kind : Unused(t, j)' => Unused(t, j)
  BY <1>c, <1>d, Nil DEF Unused
<1>u. Unused(s, k) /\ ~Unused(s, k)'
  BY <1>c, <1>d, Nil DEF Unused, Kind
<1>2. ASSUME NEW t \in Session PROVE CallInv(t)'
  BY <1>C, <1>c, <1>d, <1>q, Nil DEF CallInv, Kind
<1>b. ASSUME NEW m, MsgInv(m), m.seq # q, m.seq # None, m.sess \in Session, m.kind \in Kind
      PROVE  MsgInv(m)'
  <2>1. m.sess # s \/ m.kind # k
    BY <1>b, <1>u DEF MsgInv
  <2>2. ASSUME NEW t \in Session
        PROVE  call'[t].seq = m.seq <=> (t = m.sess /\ call'[t].kind = m.kind)
    BY <2>1, <1>b, <1>d DEF MsgInv
  <2> QED
    BY <2>2, <1>a, <1>b, <1>c DEF MsgInv, Done
<1>3. NetInv'
  <2>1. MsgInv(r)'
    <3>1. ASSUME NEW t \in Session
          PROVE  call'[t].seq = q <=> (t = s /\ call'[t].kind = k)
      BY <1>d
    <3> QED
      BY <3>1, <1>r, <1>u DEF MsgInv
  <2>2. ASSUME NEW m \in net, m.type # "pgwDelete" PROVE MsgInv(m)'
    BY <1>T, <1>N, <2>2, <1>b, <1>q, MsgTypes, Nil DEF NetInv, Fresh
  <2> QED
    BY <1>N, <2>1, <2>2, <1>c, <1>r DEF NetInv
<1>4. ASSUME NEW t \in Session, NEW j \in Kind PROVE ChanInv(t, j)'
  BY <1>H, <1>a, <1>c DEF ChanInv, Done
<1>5. PendingInv'
  <2> SUFFICES ASSUME NEW p \in Seq24, NEW t \in Session, NEW j \in Kind,
                      pending'[p] = <<t, j>>
               PROVE  call'[t].seq = p /\ call'[t].kind = j /\ chan'[<<t, j>>] = "empty"
    BY <1>P DEF PendingInv
  <2>1. CASE p = q
    <3>1. t = s /\ j = k
      BY <1>T, <2>1, <1>c DEF TypeOK
    <3> QED
      BY <1>H, <3>1, <2>1, <1>c, <1>d, <1>u DEF ChanInv
  <2>2. CASE p # q
    <3>1. pending[p] = <<t, j>>
      BY <1>T, <2>2, <1>c DEF TypeOK
    <3>2. call[t].seq = p /\ call[t].kind = j /\ chan[<<t, j>>] = "empty"
      BY <1>P, <3>1 DEF PendingInv
    <3>3. t # s
      BY <3>2, <1>c, Nil
    <3> QED
      BY <3>2, <3>3, <1>c, <1>d
  <2> QED
    BY <2>1, <2>2
<1>6. ReaderInv'
  <2>1. CASE reader = IdleReader
    BY <1>R, <2>1, <1>c DEF ReaderInv
  <2>2. CASE reader # IdleReader
    <3>1. /\ reader.msg \in Response /\ reader.pc # "idle" /\ MsgInv(reader.msg)
          /\ reader.msg.seq \in Seq24 /\ reader.msg.sess \in Session
          /\ reader.msg.kind \in Kind
      BY <1>R, <2>2 DEF ReaderInv, Response
    <3>2. reader.msg.seq # q
      BY <3>1, <1>q DEF Fresh
    <3>3. MsgInv(reader.msg)'
      BY <3>1, <3>2, <1>b, <1>c, Nil
    <3>4. pending'[reader.msg.seq] = pending[reader.msg.seq]
      BY <1>T, <3>1, <3>2, <1>c DEF TypeOK
    <3> QED
      BY <1>R, <2>2, <3>3, <3>4, <1>c DEF ReaderInv
  <2> QED
    BY <2>1, <2>2
<1>7. PeerRemembered'
  BY <1>E, <1>c DEF PeerRemembered
<1> QED
  BY <1>1, <1>2, <1>3, <1>4, <1>5, <1>6, <1>7 DEF Inv

\* T3 expires and the request is sent again.
LEMMA RetransmitInv ==
    ASSUME Inv, NEW s \in Session, Retransmit(s) PROVE Inv'
<1>p. PICK q \in Seq24, k \in Kind : q = call[s].seq /\ k = call[s].kind
  BY DEF Inv, CallInv, TypeOK, Call, Retransmit, Waiting
<1> DEFINE r == [type |-> "request", kind |-> k, seq |-> q, sess |-> s]
<1>c. /\ call' = [call EXCEPT ![s].attempt = call[s].attempt + 1]
      /\ call[s].attempt < n3Requests
      /\ net' \subseteq net \cup {r}
      /\ UNCHANGED <<seq, pending, chan, told, sessionPeers, reader, pgw>>
  BY <1>p, PutAdds DEF Retransmit, Transmit
<1>T. TypeOK                                             BY DEF Inv
<1>C. \A i \in Session : CallInv(i)                      BY DEF Inv
<1>N. NetInv                                             BY DEF Inv
<1>H. \A i \in Session, l \in Kind : ChanInv(i, l)       BY DEF Inv
<1>P. PendingInv                                         BY DEF Inv
<1>R. ReaderInv                                          BY DEF Inv
<1>E. PeerRemembered                                     BY DEF Inv
<1>1. TypeOK'
  <2>1. [call[s] EXCEPT !.attempt = call[s].attempt + 1] \in Call
    BY <1>T, <1>c, Bounds DEF TypeOK, Call
  <2>2. r \in Request
    BY DEF Request
  <2> HIDE DEF r
  <2>3. call' \in [Session -> Call]
    BY <1>T, <2>1, <1>c DEF TypeOK
  <2> QED
    BY <1>T, <2>2, <2>3, <1>c DEF TypeOK
<1>r. r.type = "request" /\ r.kind = k /\ r.seq = q /\ r.sess = s
  OBVIOUS
<1> HIDE DEF r
<1>d. \A t \in Session : call'[t].kind = call[t].kind /\ call'[t].seq = call[t].seq
  BY <1>T, <1>c DEF TypeOK, Call
<1>a. \A t \in Session, j \in Kind : Unused(t, j)' <=> Unused(t, j)
  BY <1>c, <1>d DEF Unused
<1>2. ASSUME NEW t \in Session PROVE CallInv(t)'
  BY <1>C, <1>c, <1>d DEF CallInv
<1>b. ASSUME NEW m, MsgInv(m), m.sess \in Session, m.kind \in Kind PROVE MsgInv(m)'
  BY <1>a, <1>b, <1>c, <1>d DEF MsgInv, Done
<1>3. NetInv'
  <2>1. MsgInv(r)
    BY <1>C, <1>p, <1>r, Nil DEF MsgInv, CallInv, Unused
  <2> QED
    BY <1>T, <1>N, <2>1, <1>b, <1>c, <1>r, MsgTypes DEF NetInv
<1>4. ASSUME NEW t \in Session, NEW j \in Kind PROVE ChanInv(t, j)'
  BY <1>H, <1>a, <1>c DEF ChanInv, Done
<1>5. PendingInv'
  BY <1>P, <1>c, <1>d DEF PendingInv
<1>6. ReaderInv'
  BY <1>R, <1>b, <1>c DEF ReaderInv, Response
<1>7. PeerRemembered'
  BY <1>E, <1>c DEF PeerRemembered
<1> QED
  BY <1>1, <1>2, <1>3, <1>4, <1>5, <1>6, <1>7 DEF Inv

\* transactionTo returns, with or without having read its channel.
LEMMA ReturnInv ==
    ASSUME Inv, NEW s \in Session, NEW k \in Kind, NEW out \in Told, call[s].kind = k,
           out \in IF k = "create" THEN {"created", "failed"} ELSE {"deleted", "unconfirmed"},
           out = "created" => pgw[s] # "none",
           pending' = [pending EXCEPT ![call[s].seq] = None],
           call' = [call EXCEPT ![s] = NoCall],
           told' = [told EXCEPT ![s] = out],
           sessionPeers' = IF out = "created" THEN sessionPeers \cup {s}
                           ELSE IF k = "delete" THEN sessionPeers \ {s} ELSE sessionPeers,
           \/ chan' = chan
           \/ chan[<<s, k>>] \in Body /\ chan' = [chan EXCEPT ![<<s, k>>] = "drained"],
           UNCHANGED <<seq, reader, net, pgw>>
    PROVE  Inv'
<1>T. TypeOK                                             BY DEF Inv
<1>C. \A i \in Session : CallInv(i)                      BY DEF Inv
<1>N. NetInv                                             BY DEF Inv
<1>H. \A i \in Session, l \in Kind : ChanInv(i, l)       BY DEF Inv
<1>P. PendingInv                                         BY DEF Inv
<1>R. ReaderInv                                          BY DEF Inv
<1>E. PeerRemembered                                     BY DEF Inv
<1>q. call[s].seq \in Seq24
  BY <1>T, <1>C, Nil DEF CallInv, TypeOK, Call
<1>n. NoCall \in Call /\ NoCall.kind = None /\ NoCall.seq = None
  BY Bounds DEF NoCall, Call
<1>c. /\ call'[s].kind = None /\ call'[s].seq = None /\ told'[s] = out
      /\ \A t \in Session : t # s => call'[t] = call[t] /\ told'[t] = told[t]
  BY <1>T, <1>n DEF TypeOK
<1>h. /\ \A t \in Session, j \in Kind :
            <<t, j>> # <<s, k>> => chan'[<<t, j>>] = chan[<<t, j>>]
      /\ chan'[<<s, k>>] \in {chan[<<s, k>>], "drained"}
      /\ chan[<<s, k>>] = "empty" => chan'[<<s, k>>] = "empty"
  BY <1>T DEF TypeOK, Txn, Body
<1>1. TypeOK'
  <2>1. call' \in [Session -> Call] /\ told' \in [Session -> Told]
    BY <1>T, <1>n DEF TypeOK
  <2>2. chan' \in [Txn -> Body \cup {"empty", "drained"}]
    BY <1>T DEF TypeOK, Txn
  <2>3. pending' \in [Seq24 -> Txn \cup {None}]
    BY <1>T, <1>q DEF TypeOK
  <2> QED
    BY <1>T, <2>1, <2>2, <2>3 DEF TypeOK
<1>a. \A t \in Session, j \in Kind : Unused(t, j)' => Unused(t, j) /\ <<t, j>> # <<s, k>>
  BY <1>C, <1>c DEF Unused, CallInv, Kind
<1>2. ASSUME NEW t \in Session PROVE CallInv(t)'
  BY <1>C, <1>c, Nil DEF CallInv, Kind
<1>b. ASSUME NEW m, MsgInv(m), m.seq \in Seq24, m.sess \in Session, m.kind \in Kind
      PROVE  MsgInv(m)'
  <2>1. ASSUME NEW t \in Session
        PROVE  call'[t].seq = m.seq <=> (t = m.sess /\ call'[t].kind = m.kind)
    <3>1. CASE t = s
      BY <3>1, <1>b, <1>c, Nil
    <3>2. CASE t # s
      BY <3>2, <1>b, <1>c DEF MsgInv
    <3> QED
      BY <3>1, <3>2
  <2> QED
    BY <2>1, <1>a, <1>b DEF MsgInv, Done
<1>3. NetInv'
  BY <1>T, <1>N, <1>b, MsgTypes DEF NetInv
<1>4. ASSUME NEW t \in Session, NEW j \in Kind PROVE ChanInv(t, j)'
  BY <1>H, <1>a, <1>h DEF ChanInv, Done
<1>5. PendingInv'
  <2> SUFFICES ASSUME NEW p \in Seq24, NEW t \in Session, NEW j \in Kind,
                      pending'[p] = <<t, j>>
               PROVE  call'[t].seq = p /\ call'[t].kind = j /\ chan'[<<t, j>>] = "empty"
    BY <1>P DEF PendingInv
  <2>1. pending[p] = <<t, j>> /\ p # call[s].seq
    BY <1>T, <1>q, Nil DEF TypeOK
  <2>2. call[t].seq = p /\ call[t].kind = j /\ chan[<<t, j>>] = "empty"
    BY <1>P, <2>1 DEF PendingInv
  <2>3. t # s
    BY <2>1, <2>2
  <2> QED
    BY <2>2, <2>3, <1>c, <1>h
<1>6. ReaderInv'
  <2>1. CASE reader = IdleReader
    BY <1>R, <2>1 DEF ReaderInv
  <2>2. CASE reader # IdleReader
    <3>1. /\ MsgInv(reader.msg) /\ reader.msg.seq \in Seq24
          /\ reader.msg.sess \in Session /\ reader.msg.kind \in Kind
      BY <1>R, <2>2 DEF ReaderInv, Response
    <3>2. pending[reader.msg.seq] = None => pending'[reader.msg.seq] = None
      BY <1>T, <3>1 DEF TypeOK
    <3>3. reader.pc = "deliver" => chan'[reader.txn] = "empty"
      BY <1>R, <2>2, <3>1, <1>h DEF ReaderInv
    <3> QED
      BY <1>R, <2>2, <3>1, <3>2, <3>3, <1>b DEF ReaderInv
  <2> QED
    BY <2>1, <2>2
<1>7. PeerRemembered'
  BY <1>E, <1>c DEF PeerRemembered, Kind
<1> QED
  BY <1>1, <1>2, <1>3, <1>4, <1>5, <1>6, <1>7 DEF Inv

\* What a return tells the caller
LEMMA OutcomeIs ==
    ASSUME NEW k \in Kind, NEW ok
    PROVE  /\ Outcome(k, ok) \in Told
           /\ Outcome(k, ok) \in IF k = "create" THEN {"created", "failed"}
                                                 ELSE {"deleted", "unconfirmed"}
BY DEF Outcome, Kind, Told

LEMMA ReceiveInv ==
    ASSUME Inv, NEW s \in Session, Receive(s) PROVE Inv'
<1>k. PICK k \in Kind : k = call[s].kind
  BY DEF Inv, TypeOK, Call, Receive, Waiting
<1>o. PICK out \in Told : out = Outcome(k, chan[<<s, k>>] = "accepted")
  BY OutcomeIs
<1>1. out \in IF k = "create" THEN {"created", "failed"} ELSE {"deleted", "unconfirmed"}
  BY <1>o, OutcomeIs
<1>2. out = "created" => pgw[s] # "none"
  BY <1>o DEF Outcome, Kind, Inv, ChanInv, Done
<1> QED
  BY <1>k, <1>o, <1>1, <1>2, ReturnInv DEF Receive, Return, MyTxn

LEMMA GiveUpInv ==
    ASSUME Inv, NEW s \in Session, GiveUp(s) PROVE Inv'
<1>k. PICK k \in Kind : k = call[s].kind
  BY DEF Inv, TypeOK, Call, GiveUp, Waiting
<1>o. PICK out \in Told : out = Outcome(k, FALSE)
  BY OutcomeIs
<1>1. out \in IF k = "create" THEN {"created", "failed"} ELSE {"deleted", "unconfirmed"}
  BY <1>o, OutcomeIs
<1>2. out # "created"
  BY <1>o DEF Outcome
<1> QED
  BY <1>k, <1>o, <1>1, <1>2, ReturnInv DEF GiveUp, Return

\* What an entry of the pending table says
LEMMA PendingAt ==
    ASSUME PendingInv, NEW q \in Seq24, NEW s \in Session, NEW k \in Kind,
           pending[q] = <<s, k>>
    PROVE  call[s].seq = q /\ call[s].kind = k /\ chan[<<s, k>>] = "empty"
BY DEF PendingInv

LEMMA PendingTxn ==
    ASSUME TypeOK, NEW q \in Seq24, pending[q] # None
    PROVE  \E s \in Session, k \in Kind : pending[q] = <<s, k>>
<1>1. pending[q] \in Txn
  BY DEF TypeOK
<1> QED
  BY <1>1 DEF Txn

\* A pending response finds the transaction it is about.
LEMMA TxnOfMsg ==
    ASSUME TypeOK, PendingInv, NEW m, MsgInv(m), m.seq \in Seq24, pending[m.seq] # None
    PROVE  /\ pending[m.seq] = <<m.sess, m.kind>>
           /\ chan[<<m.sess, m.kind>>] = "empty"
           /\ <<m.sess, m.kind>> \in Txn
<1>q. PICK q \in Seq24 : q = m.seq
  OBVIOUS
<1>1. PICK s \in Session, k \in Kind : pending[q] = <<s, k>>
  BY <1>q, PendingTxn
<1>2. call[s].seq = q /\ call[s].kind = k /\ chan[<<s, k>>] = "empty"
  BY <1>1, PendingAt
<1>3. s = m.sess /\ k = m.kind
  BY <1>q, <1>2 DEF MsgInv
<1> QED
  BY <1>q, <1>1, <1>2, <1>3 DEF Txn

\* readLoop finds the transaction of a response.
LEMMA ReadResponseInv ==
    ASSUME Inv, NEW m \in net, ReadResponse(m) PROVE Inv'
<1>T. TypeOK                                             BY DEF Inv
<1>C. \A i \in Session : CallInv(i)                      BY DEF Inv
<1>N. NetInv                                             BY DEF Inv
<1>H. \A i \in Session, l \in Kind : ChanInv(i, l)       BY DEF Inv
<1>P. PendingInv                                         BY DEF Inv
<1>E. PeerRemembered                                     BY DEF Inv
<1>m. m \in Response /\ m.seq \in Seq24 /\ m.type # "pgwDelete" /\ MsgInv(m)
  BY <1>T, <1>N, MsgTypes DEF ReadResponse, NetInv
<1>s. pending[m.seq] = <<m.sess, m.kind>> /\ <<m.sess, m.kind>> \in Txn
  BY <1>T, <1>P, <1>m, TxnOfMsg DEF ReadResponse
<1>c. /\ reader' = [pc |-> "claim", msg |-> m, txn |-> <<m.sess, m.kind>>]
      /\ UNCHANGED <<seq, pending, chan, call, told, sessionPeers, net, pgw>>
  BY <1>s DEF ReadResponse
<1>1. TypeOK'
  <2>1. reader' \in Reader
    BY <1>m, <1>s, <1>c DEF Reader
  <2> QED
    BY <1>T, <2>1, <1>c DEF TypeOK
<1>2. ReaderInv'
  <2>1. MsgInv(m)'
    BY <1>m, <1>c, Kept
  <2> QED
    BY <2>1, <1>m, <1>c DEF ReaderInv
<1> QED
  BY <1>C, <1>N, <1>H, <1>P, <1>E, <1>1, <1>2, <1>c, CallsKept, NetKept, ChansKept,
     PendingKept, PeersKept DEF Inv

\* readLoop forgets the peer of a session the PGW deletes.
LEMMA ReadPgwDeleteInv ==
    ASSUME Inv, NEW m \in net, ReadPgwDelete(m) PROVE Inv'
<1>T. TypeOK                                             BY DEF Inv
<1>C. \A i \in Session : CallInv(i)                      BY DEF Inv
<1>N. NetInv                                             BY DEF Inv
<1>H. \A i \in Session, l \in Kind : ChanInv(i, l)       BY DEF Inv
<1>P. PendingInv                                         BY DEF Inv
<1>R. ReaderInv                                          BY DEF Inv
<1>E. PeerRemembered                                     BY DEF Inv
<1>c. UNCHANGED <<seq, pending, chan, call, told, reader, net, pgw>>
  BY DEF ReadPgwDelete
<1>1. TypeOK'
  BY <1>T DEF ReadPgwDelete, TypeOK
<1>3. PeerRemembered'
  <2>1. sessionPeers' = sessionPeers \ {m.sess} /\ pgw[m.sess] = "down"
    BY <1>N DEF ReadPgwDelete, NetInv
  <2> QED
    BY <1>E, <2>1, <1>c DEF PeerRemembered
<1> QED
  BY <1>C, <1>N, <1>H, <1>P, <1>R, <1>1, <1>3, <1>c, CallsKept, NetKept, ChansKept,
     PendingKept, ReaderKept DEF Inv

\* readLoop takes the transaction out of the table.
LEMMA ReadClaimInv ==
    ASSUME Inv, ReadClaim PROVE Inv'
<1>T. TypeOK                                             BY DEF Inv
<1>C. \A i \in Session : CallInv(i)                      BY DEF Inv
<1>N. NetInv                                             BY DEF Inv
<1>H. \A i \in Session, l \in Kind : ChanInv(i, l)       BY DEF Inv
<1>P. PendingInv                                         BY DEF Inv
<1>R. ReaderInv                                          BY DEF Inv
<1>E. PeerRemembered                                     BY DEF Inv
<1>r. /\ reader.msg \in Response /\ MsgInv(reader.msg)
      /\ reader.txn = <<reader.msg.sess, reader.msg.kind>>
  <2>1. reader.pc = "claim" /\ reader # IdleReader
    BY DEF ReadClaim, IdleReader
  <2> QED
    BY <1>R, <2>1 DEF ReaderInv
<1>p. PICK m \in Response : m = reader.msg
  BY <1>r
<1>m. m.seq \in Seq24 /\ MsgInv(m)
  BY <1>r, <1>p DEF Response
<1>c. /\ pending' = [pending EXCEPT ![m.seq] = None]
      /\ UNCHANGED <<seq, chan, call, told, sessionPeers, net, pgw>>
  BY <1>p DEF ReadClaim
<1>d. /\ pending' \in [Seq24 -> Txn \cup {None}] /\ pending'[m.seq] = None
      /\ \A q \in Seq24 : pending'[q] \in {pending[q], None}
  BY <1>T, <1>c, <1>m DEF TypeOK
<1>5. PendingInv'
  <2> SUFFICES ASSUME NEW q \in Seq24, NEW s \in Session, NEW k \in Kind,
                      pending'[q] = <<s, k>>
               PROVE  call'[s].seq = q /\ call'[s].kind = k /\ chan'[<<s, k>>] = "empty"
    BY DEF PendingInv
  <2>1. pending[q] = <<s, k>>
    BY <1>d, Nil
  <2> QED
    BY <2>1, <1>P, <1>c, PendingAt
<1>6. TypeOK' /\ ReaderInv'
  <2>1. CASE pending[m.seq] # None
    <3>1. reader' = [reader EXCEPT !.pc = "deliver"]
      BY <2>1, <1>p DEF ReadClaim
    <3>2. /\ reader'.pc = "deliver" /\ reader'.msg = m /\ reader'.txn = <<m.sess, m.kind>>
          /\ reader' \in Reader
      BY <1>T, <1>p, <1>r, <3>1 DEF TypeOK, Reader
    <3>3. chan'[<<m.sess, m.kind>>] = "empty"
      BY <1>T, <1>P, <1>m, <1>c, <2>1, TxnOfMsg
    <3>4. MsgInv(m)'
      BY <1>m, <1>c, Kept
    <3>5. ReaderInv'
      BY <3>2, <3>3, <3>4, <1>d DEF ReaderInv
    <3> QED
      BY <1>T, <3>2, <3>5, <1>c, <1>d DEF TypeOK
  <2>2. CASE pending[m.seq] = None
    <3>1. reader' = IdleReader
      BY <2>2, <1>p DEF ReadClaim
    <3>2. reader' \in Reader
      BY <3>1 DEF IdleReader, Reader
    <3> QED
      BY <1>T, <3>1, <3>2, <1>c, <1>d DEF ReaderInv, TypeOK
  <2> QED
    BY <2>1, <2>2
<1> QED
  BY <1>C, <1>N, <1>H, <1>E, <1>5, <1>6, <1>c, CallsKept, NetKept, ChansKept,
     PeersKept DEF Inv

\* readLoop puts the response into the transaction's channel.
LEMMA ReadDeliverInv ==
    ASSUME Inv, ReadDeliver PROVE Inv'
<1>T. TypeOK                                             BY DEF Inv
<1>C. \A i \in Session : CallInv(i)                      BY DEF Inv
<1>N. NetInv                                             BY DEF Inv
<1>H. \A i \in Session, l \in Kind : ChanInv(i, l)       BY DEF Inv
<1>P. PendingInv                                         BY DEF Inv
<1>R. ReaderInv                                          BY DEF Inv
<1>E. PeerRemembered                                     BY DEF Inv
<1>r. /\ reader.msg \in Response /\ MsgInv(reader.msg)
      /\ reader.txn = <<reader.msg.sess, reader.msg.kind>>
      /\ pending[reader.msg.seq] = None /\ chan[reader.txn] = "empty"
  <2>1. reader.pc = "deliver" /\ reader # IdleReader
    BY DEF ReadDeliver, IdleReader
  <2> QED
    BY <1>R, <2>1 DEF ReaderInv
<1>p. PICK m \in Response : m = reader.msg
  BY <1>r
<1>m. m.sess \in Session /\ m.kind \in Kind /\ m.seq \in Seq24 /\ m.body \in Body
      /\ m.type = "response"
  BY DEF Response
<1>c. /\ chan' = [chan EXCEPT ![<<m.sess, m.kind>>] = m.body]
      /\ reader' = IdleReader
      /\ UNCHANGED <<seq, pending, call, told, sessionPeers, net, pgw>>
  BY <1>r, <1>p DEF ReadDeliver, Body
<1>1. TypeOK'
  BY <1>T, <1>c, <1>m DEF TypeOK, Reader, IdleReader, Txn
<1>h. /\ chan'[<<m.sess, m.kind>>] = m.body
      /\ \A t \in Session, j \in Kind :
            <<t, j>> # <<m.sess, m.kind>> => chan'[<<t, j>>] = chan[<<t, j>>]
  BY <1>T, <1>c, <1>m DEF TypeOK, Txn
<1>4. ASSUME NEW t \in Session, NEW j \in Kind PROVE ChanInv(t, j)'
  <2>1. CASE t = m.sess /\ j = m.kind
    <3>1. ~Unused(t, j) /\ (m.body = "accepted" => Done(t, j))
      BY <2>1, <1>r, <1>p, <1>m DEF MsgInv
    <3> QED
      BY <1>H, <3>1, <2>1, <1>c, <1>h, Kept DEF ChanInv
  <2>2. CASE ~(t = m.sess /\ j = m.kind)
    BY <1>H, <2>2, <1>c, <1>h, Kept DEF ChanInv
  <2> QED
    BY <2>1, <2>2
<1>5. PendingInv'
  <2> SUFFICES ASSUME NEW q \in Seq24, NEW t \in Session, NEW j \in Kind,
                      pending'[q] = <<t, j>>
               PROVE  call'[t].seq = q /\ call'[t].kind = j /\ chan'[<<t, j>>] = "empty"
    BY DEF PendingInv
  <2>1. pending[q] = <<t, j>>
    BY <1>c
  <2>2. call[t].seq = q /\ call[t].kind = j /\ chan[<<t, j>>] = "empty"
    BY <2>1, <1>P, PendingAt
  <2>3. q # m.seq
    BY <2>1, <1>r, <1>p, Nil
  <2>4. <<t, j>> # <<m.sess, m.kind>>
    BY <2>2, <2>3, <1>r, <1>p DEF MsgInv
  <2> QED
    BY <2>2, <2>4, <1>c, <1>h
<1>6. ReaderInv'
  BY <1>c DEF ReaderInv
<1> QED
  BY <1>C, <1>N, <1>E, <1>1, <1>4, <1>5, <1>6, <1>c, CallsKept, NetKept, PeersKept DEF Inv

\* A step of the PGW or the network: PDN sessions only move forward, and what
\* is put on the network is true.
LEMMA PgwStepInv ==
    ASSUME Inv, NEW x \in Response \cup PgwRequest,
           net' \subseteq net \cup {x},
           x.type = "response" => MsgInv(x)',
           x.type = "pgwDelete" => pgw'[x.sess] = "down",
           pgw' \in [Session -> {"none", "up", "down"}],
           \A t \in Session : /\ pgw[t] # "none" => pgw'[t] # "none"
                              /\ pgw[t] = "down" => pgw'[t] = "down"
                              /\ pgw'[t] = "up" => pgw[t] = "up" \/ told[t] # "created",
           UNCHANGED <<seq, pending, chan, call, told, sessionPeers, reader>>
    PROVE  Inv'
<1>T. TypeOK                                             BY DEF Inv
<1>C. \A i \in Session : CallInv(i)                      BY DEF Inv
<1>N. NetInv                                             BY DEF Inv
<1>H. \A i \in Session, l \in Kind : ChanInv(i, l)       BY DEF Inv
<1>P. PendingInv                                         BY DEF Inv
<1>R. ReaderInv                                          BY DEF Inv
<1>E. PeerRemembered                                     BY DEF Inv
<1>1. TypeOK'
  BY <1>T DEF TypeOK
<1>2. ASSUME NEW t \in Session PROVE CallInv(t)'
  BY <1>C DEF CallInv
<1>d. \A t \in Session, k \in Kind : Done(t, k) => Done(t, k)'
  BY DEF Done
<1>b. ASSUME NEW m, MsgInv(m), m.sess \in Session, m.kind \in Kind PROVE MsgInv(m)'
  BY <1>b, <1>d DEF MsgInv, Unused
<1>3. NetInv'
  <2>1. \A m \in net : m.type # "pgwDelete" => MsgInv(m)'
    BY <1>T, <1>N, <1>b, MsgTypes DEF NetInv
  <2>2. x.type # "pgwDelete" => x.type = "response"
    BY DEF Response, PgwRequest
  <2>3. \A m \in net : m.sess \in Session
    BY <1>T, MsgTypes
  <2> QED
    BY <1>N, <2>1, <2>2, <2>3 DEF NetInv
<1>4. ASSUME NEW t \in Session, NEW k \in Kind PROVE ChanInv(t, k)'
  BY <1>H, <1>d DEF ChanInv, Unused
<1>6. ReaderInv'
  BY <1>R, <1>b DEF ReaderInv, Response
<1>7. PeerRemembered'
  BY <1>E DEF PeerRemembered
<1> QED
  BY <1>P, <1>1, <1>2, <1>3, <1>4, <1>6, <1>7, PendingKept DEF Inv

\* An answer to a request adds the response to that request.
LEMMA AnswerAdds ==
    ASSUME TypeOK, NetInv, NEW m \in net, m.type = "request", NEW body \in Body,
           Answer(m, body)
    PROVE  \E x \in Response :
              /\ net' \subseteq net \cup {x}
              /\ x.sess = m.sess /\ x.kind = m.kind /\ x.seq = m.seq /\ x.body = body
              /\ x.sess \in Session /\ x.kind \in Kind /\ x.type = "response"
              /\ MsgInv(m)
<1> DEFINE x == [type |-> "response", kind |-> m.kind, seq |-> m.seq,
                 sess |-> m.sess, body |-> body]
<1>1. m.kind \in Kind /\ m.seq \in Seq24 /\ m.sess \in Session /\ MsgInv(m)
  BY MsgTypes DEF NetInv
<1>2. x \in Response
  BY <1>1 DEF Response
<1>3. net' \subseteq net \cup {x}
  BY PutAdds DEF Answer
<1> QED
  BY <1>1, <1>2, <1>3

\* The response is about the transaction of its request.
LEMMA AnswerMsg ==
    ASSUME NEW m, NEW x, MsgInv(m), UNCHANGED <<call, told>>,
           x.sess = m.sess, x.kind = m.kind, x.seq = m.seq,
           x.body = "accepted" => Done(x.sess, x.kind)'
    PROVE  MsgInv(x)'
<1>1. \A s \in Session : call'[s].seq = x.seq <=> (s = x.sess /\ call'[s].kind = x.kind)
  BY DEF MsgInv
<1>2. ~Unused(x.sess, x.kind)'
  BY DEF MsgInv, Unused
<1> QED
  BY <1>1, <1>2 DEF MsgInv

\* The PGW creates, or answers a repeated Create Session Request again.
LEMMA PgwCreatesInv ==
    ASSUME Inv, NEW m \in net, PgwCreates(m) PROVE Inv'
<1>x. PICK x \in Response :
         /\ net' \subseteq net \cup {x}
         /\ x.sess = m.sess /\ x.kind = m.kind /\ x.seq = m.seq /\ x.body = "accepted"
         /\ x.sess \in Session /\ x.kind \in Kind /\ x.type = "response"
         /\ MsgInv(m)
  BY AnswerAdds DEF Body, Inv, PgwCreates
<1>1. pgw' \in [Session -> {"none", "up", "down"}] /\ pgw'[x.sess] = "up"
  BY <1>x DEF TypeOK, Inv, PgwCreates
<1>2. MsgInv(x)'
  <2>1. Done(x.sess, x.kind)' /\ UNCHANGED <<call, told>>
    BY <1>x, <1>1 DEF Done, PgwCreates
  <2> QED
    BY <1>x, <2>1, AnswerMsg
<1>3. \A t \in Session : /\ pgw[t] # "none" => pgw'[t] # "none"
                         /\ pgw[t] = "down" => pgw'[t] = "down"
                         /\ pgw'[t] = "up" => pgw[t] = "up" \/ told[t] # "created"
  BY <1>x DEF TypeOK, CallInv, Inv, PgwCreates
<1>4. UNCHANGED <<seq, pending, chan, call, told, sessionPeers, reader>>
  BY DEF PgwCreates
<1> QED
  BY <1>x, <1>1, <1>2, <1>3, <1>4, PgwStepInv

\* The PGW deletes, or answers a repeated Delete Session Request again.
LEMMA PgwDeletesInv ==
    ASSUME Inv, NEW m \in net, PgwDeletes(m) PROVE Inv'
<1>x. PICK x \in Response :
         /\ net' \subseteq net \cup {x}
         /\ x.sess = m.sess /\ x.kind = m.kind /\ x.seq = m.seq /\ x.body = "accepted"
         /\ x.sess \in Session /\ x.kind \in Kind /\ x.type = "response"
         /\ MsgInv(m)
  BY AnswerAdds DEF Body, Inv, PgwDeletes
<1>1. pgw' \in [Session -> {"none", "up", "down"}] /\ pgw'[x.sess] = "down"
  BY <1>x DEF TypeOK, Inv, PgwDeletes
<1>2. MsgInv(x)'
  <2>1. Done(x.sess, x.kind)' /\ UNCHANGED <<call, told>>
    BY <1>x, <1>1 DEF Done, PgwDeletes
  <2> QED
    BY <1>x, <2>1, AnswerMsg
<1>3. \A t \in Session : /\ pgw[t] # "none" => pgw'[t] # "none"
                         /\ pgw[t] = "down" => pgw'[t] = "down"
                         /\ pgw'[t] = "up" => pgw[t] = "up" \/ told[t] # "created"
  BY <1>x DEF TypeOK, Inv, PgwDeletes
<1>4. UNCHANGED <<seq, pending, chan, call, told, sessionPeers, reader>>
  BY DEF PgwDeletes
<1> QED
  BY <1>x, <1>1, <1>2, <1>3, <1>4, PgwStepInv

\* A rejection, an unexpected response, a release by the PGW, a loss
LEMMA OtherPgwInv ==
    ASSUME Inv,
           \/ \E m \in net : PgwRefuses(m) \/ Lose(m)
           \/ \E s \in Session : PgwReleases(s)
    PROVE  Inv'
<1>1. ASSUME NEW m \in net, PgwRefuses(m) PROVE Inv'
  <2>x. PICK x \in Response :
           /\ net' \subseteq net \cup {x}
           /\ x.sess = m.sess /\ x.kind = m.kind /\ x.seq = m.seq /\ x.body = "refused"
           /\ x.sess \in Session /\ x.kind \in Kind /\ x.type = "response"
           /\ MsgInv(m)
    BY <1>1, AnswerAdds DEF PgwRefuses, Body, Inv
  <2>1. MsgInv(x)'
    BY <2>x, <1>1, AnswerMsg DEF PgwRefuses
  <2>3. UNCHANGED <<seq, pending, chan, call, told, sessionPeers, reader, pgw>>
    BY <1>1 DEF PgwRefuses
  <2>4. pgw \in [Session -> {"none", "up", "down"}]
    BY DEF Inv, TypeOK
  <2> QED
    BY <2>x, <2>1, <2>3, <2>4, PgwStepInv
<1>2. ASSUME NEW m \in net, Lose(m) PROVE Inv'
  <2>1. /\ net' \subseteq net
        /\ UNCHANGED <<seq, pending, chan, call, told, sessionPeers, reader, pgw>>
    BY <1>2 DEF Lose
  <2>2. TypeOK'
    BY <2>1 DEF Inv, TypeOK
  <2> QED
    BY <2>1, <2>2, CallsKept, NetKept, ChansKept, PendingKept, ReaderKept, PeersKept DEF Inv
<1>3. ASSUME NEW s \in Session, PgwReleases(s) PROVE Inv'
  <2> DEFINE x == [type |-> "pgwDelete", seq |-> None, sess |-> s]
  <2>1. net' \subseteq net \cup {x}
    BY <1>3, PutAdds DEF PgwReleases
  <2>2. x \in PgwRequest /\ x.type = "pgwDelete" /\ x.sess = s
    BY DEF PgwRequest
  <2> HIDE DEF x
  <2>3. /\ pgw' \in [Session -> {"none", "up", "down"}] /\ pgw'[s] = "down"
        /\ pgw[s] = "up" /\ \A t \in Session : t # s => pgw'[t] = pgw[t]
    BY <1>3 DEF PgwReleases, TypeOK, Inv
  <2>5. \A t \in Session : /\ pgw[t] # "none" => pgw'[t] # "none"
                           /\ pgw[t] = "down" => pgw'[t] = "down"
                           /\ pgw'[t] = "up" => pgw[t] = "up" \/ told[t] # "created"
    BY <2>3
  <2>6. UNCHANGED <<seq, pending, chan, call, told, sessionPeers, reader>>
    BY <1>3 DEF PgwReleases
  <2> QED
    BY <2>1, <2>2, <2>3, <2>5, <2>6, PgwStepInv
<1> QED
  BY <1>1, <1>2, <1>3

\* Every step preserves the invariant.
LEMMA NextInv == Inv /\ [Next]_vars => Inv'
<1>1. ASSUME Inv, Next PROVE Inv'
  <2>1. ASSUME NEW s \in Session,
               Refuse(s) \/ (\E k \in Kind : Start(s, k)) \/ Caller(s) \/ PgwReleases(s)
        PROVE  Inv'
    BY <1>1, <2>1, RefuseInv, StartInv, RetransmitInv, ReceiveInv, GiveUpInv, OtherPgwInv
    DEF Caller
  <2>2. ASSUME ReadLoop PROVE Inv'
    BY <1>1, <2>2, ReadResponseInv, ReadPgwDeleteInv, ReadClaimInv,
       ReadDeliverInv DEF ReadLoop
  <2>3. ASSUME NEW m \in net, PgwCreates(m) \/ PgwDeletes(m) \/ PgwRefuses(m) \/ Lose(m)
        PROVE  Inv'
    BY <1>1, <2>3, PgwCreatesInv, PgwDeletesInv, OtherPgwInv
  <2> QED
    BY <1>1, <2>1, <2>2, <2>3 DEF Next
<1>2. ASSUME Inv, UNCHANGED vars PROVE Inv'
  <2>1. UNCHANGED <<seq, pending, chan, call, told, sessionPeers, reader, net, pgw>>
    BY <1>2 DEF vars
  <2>2. TypeOK'
    BY <1>2, <2>1 DEF Inv, TypeOK
  <2> QED
    BY <1>2, <2>1, <2>2, CallsKept, NetKept, ChansKept, PendingKept, ReaderKept, PeersKept
    DEF Inv
<1> QED
  BY <1>1, <1>2

LEMMA Invariance == Spec => []Inv
BY InitInv, NextInv, PTL DEF Spec

-----------------------------------------------------------------------------
(* The properties *)

\* Every variable stays in its domain: in particular the sequence allocator
\* yields only numbers that message.encode accepts, also when it wraps.
THEOREM TypeCorrectness == Spec => []TypeOK
<1>1. Inv => TypeOK
  BY DEF Inv
<1> QED
  BY <1>1, Invariance, PTL

\* The pending table leaks nothing: whatever the order of transactionTo's
\* deferred delete and the read loop's claim, an entry belongs to a call that
\* still waits for it.
THEOREM PendingTableIsLive == Spec => []PendingIsLive
<1>1. Inv => PendingIsLive
  <2> SUFFICES ASSUME Inv, NEW q \in Seq24, NEW s \in Session, NEW k \in Kind,
                      pending[q] = <<s, k>>
               PROVE  call[s].seq = q /\ call[s].kind = k
    BY DEF PendingIsLive
  <2> QED
    BY PendingAt DEF Inv
<1> QED
  BY <1>1, Invariance, PTL

\* readLoop's claim works: a delivery finds the channel of its transaction
\* empty, however often a response is repeated, although the lookup and the
\* claim are two critical sections.
THEOREM AtMostOneDelivery == Spec => []DeliveredOnce
<1>1. Inv => DeliveredOnce
  <2> SUFFICES ASSUME ReaderInv, reader.pc = "deliver" PROVE chan[reader.txn] = "empty"
    BY DEF Inv, DeliveredOnce
  <2>1. reader # IdleReader
    BY DEF IdleReader
  <2> QED
    BY <2>1 DEF ReaderInv
<1> QED
  BY <1>1, Invariance, PTL

\* The PGW of a created session that nobody has ended is known to
\* strict_peer_check, and that of a deleted session is forgotten.
THEOREM PeersAreRemembered == Spec => []PeerRemembered
<1>1. Inv => PeerRemembered
  BY DEF Inv
<1> QED
  BY <1>1, Invariance, PTL

\* The mapping without CASE
Phase(s) ==
    IF call[s].kind = "create" THEN "creating"
    ELSE IF call[s].kind = "delete" THEN "deleting"
    ELSE IF told[s] = "none" THEN "idle" ELSE told[s]

PhaseMapped == TypeOK => phase = [s \in Session |-> Phase(s)]

LEMMA PhaseIs == PhaseMapped
<1> SUFFICES ASSUME TypeOK, NEW s \in Session
             PROVE  (CASE call[s].kind = "create" -> "creating"
                       [] call[s].kind = "delete" -> "deleting"
                       [] ~Waiting(s) -> IF told[s] = "none" THEN "idle" ELSE told[s])
                    = Phase(s)
  BY DEF phase, PhaseMapped
<1>1. call[s].kind \in {"create", "delete", None}
  BY DEF TypeOK, Call, Kind
<1>2. None # "create" /\ None # "delete"
  BY Nil DEF Kind
<1> QED
  BY <1>1, <1>2 DEF Phase, Waiting

LEMMA PhaseIsNext == PhaseMapped'
BY PhaseIs, PTL

\* A step that changes one session's phase
LEMMA PhaseStep ==
    ASSUME TypeOK, TypeOK', NEW s \in Session, NEW from, NEW to,
           Phase(s) = from, Phase(s)' = to,
           \A t \in Session : t # s => Phase(t)' = Phase(t)
    PROVE  Exchange!Become(s, from, to)
<1>1. phase = [t \in Session |-> Phase(t)] /\ phase' = [t \in Session |-> Phase(t)']
  BY PhaseIs, PhaseIsNext DEF PhaseMapped
<1> QED
  BY <1>1 DEF Exchange!Become

\* A step that changes none
LEMMA SamePhase ==
    ASSUME TypeOK, TypeOK', told' = told,
           \A s \in Session : call'[s].kind = call[s].kind
    PROVE  phase' = phase
<1>1. phase = [t \in Session |-> Phase(t)] /\ phase' = [t \in Session |-> Phase(t)']
  BY PhaseIs, PhaseIsNext DEF PhaseMapped
<1>2. \A t \in Session : Phase(t)' = Phase(t)
  BY DEF Phase
<1> QED
  BY <1>1, <1>2

\* transactionTo returns out: Succeed or Fail
LEMMA ReturnImplements ==
    ASSUME Inv, Inv', NEW s \in Session, NEW k \in Kind, NEW out \in Told,
           call[s].kind = k,
           out \in IF k = "create" THEN {"created", "failed"} ELSE {"deleted", "unconfirmed"},
           out = "created" => pgw[s] # "none",
           out = "deleted" => pgw[s] = "down",
           call' = [call EXCEPT ![s] = NoCall],
           told' = [told EXCEPT ![s] = out],
           pgw' = pgw
    PROVE  Exchange!Succeed(s) \/ Exchange!Fail(s)
<1>1. /\ Phase(s) = IF k = "create" THEN "creating" ELSE "deleting"
      /\ Phase(s)' = out
      /\ \A t \in Session : t # s => Phase(t)' = Phase(t)
  BY Nil DEF Phase, Inv, TypeOK, NoCall, Kind
<1>2. CASE k = "create"
  <2>1. Exchange!Become(s, "creating", out)
    BY <1>1, <1>2, PhaseStep DEF Inv
  <2> QED
    BY <2>1, <1>2 DEF Exchange!Succeed, Exchange!Fail
<1>3. CASE k = "delete"
  <2>1. Exchange!Become(s, "deleting", out)
    BY <1>1, <1>3, PhaseStep DEF Inv
  <2> QED
    BY <2>1, <1>3 DEF Exchange!Succeed, Exchange!Fail
<1> QED
  BY <1>2, <1>3 DEF Kind

\* Every step of the client, the PGW or the network is a step of S2bExchange,
\* or leaves what S2bExchange sees alone.
LEMMA StepImplements ==
    ASSUME Inv, Inv', Next
    PROVE  Exchange!Next \/ (pgw' = pgw /\ phase' = phase)
<1>T. TypeOK /\ TypeOK'                                  BY DEF Inv
<1>N. NetInv                                             BY DEF Inv
<1>H. \A i \in Session, l \in Kind : ChanInv(i, l)       BY DEF Inv
<1>1. ASSUME NEW s \in Session, Refuse(s) PROVE Exchange!Next
  <2>1. Phase(s) = "idle" /\ Phase(s)' = "failed"
    BY <1>T, <1>1, Nil DEF Refuse, Waiting, Phase, TypeOK, Kind
  <2>2. \A t \in Session : t # s => Phase(t)' = Phase(t)
    BY <1>T, <1>1 DEF Refuse, Phase, TypeOK
  <2>3. Exchange!Become(s, "idle", "failed")
    BY <1>T, <2>1, <2>2, PhaseStep
  <2> QED
    BY <2>3, <1>1 DEF Refuse, Exchange!Ask, Exchange!Next
<1>2. ASSUME NEW s \in Session, NEW k \in Kind, Start(s, k) PROVE Exchange!Next
  <2>1. /\ Phase(s) = IF k = "create" THEN "idle" ELSE "created"
        /\ Phase(s)' = IF k = "create" THEN "creating" ELSE "deleting"
    BY <1>T, <1>2, Nil DEF Start, Waiting, Phase, TypeOK, Kind
  <2>2. \A t \in Session : t # s => Phase(t)' = Phase(t)
    BY <1>T, <1>2 DEF Start, Phase, TypeOK
  <2>3. CASE k = "create"
    <3>1. Exchange!Become(s, "idle", "creating")
      BY <1>T, <2>1, <2>2, <2>3, PhaseStep
    <3> QED
      BY <3>1, <1>2 DEF Start, Exchange!Ask, Exchange!Next
  <2>4. CASE k = "delete"
    <3>1. Exchange!Become(s, "created", "deleting")
      BY <1>T, <2>1, <2>2, <2>4, PhaseStep
    <3> QED
      BY <3>1, <1>2 DEF Start, Exchange!Ask, Exchange!Next
  <2> QED
    BY <2>3, <2>4 DEF Kind
<1>3. ASSUME NEW s \in Session, Retransmit(s) PROVE pgw' = pgw /\ phase' = phase
  <2>1. \A t \in Session : call'[t].kind = call[t].kind
    BY <1>T, <1>3 DEF Retransmit, TypeOK, Call
  <2> QED
    BY <1>T, <2>1, <1>3, SamePhase DEF Retransmit
<1>4. ASSUME NEW s \in Session, Receive(s) PROVE Exchange!Next
  <2>k. PICK k \in Kind : k = call[s].kind
    BY <1>T, <1>4 DEF TypeOK, Call, Receive, Waiting
  <2>o. PICK out \in Told : out = Outcome(k, chan[<<s, k>>] = "accepted")
    BY OutcomeIs
  <2>1. out \in IF k = "create" THEN {"created", "failed"} ELSE {"deleted", "unconfirmed"}
    BY <2>o, OutcomeIs
  <2>2. out = "created" => pgw[s] # "none"
    BY <1>H, <2>o DEF Outcome, Kind, ChanInv, Done
  <2>3. out = "deleted" => pgw[s] = "down"
    BY <1>H, <2>o DEF Outcome, Kind, ChanInv, Done
  <2>4. /\ call' = [call EXCEPT ![s] = NoCall] /\ told' = [told EXCEPT ![s] = out]
        /\ pgw' = pgw
    BY <1>4, <2>k, <2>o DEF Receive, Return, MyTxn
    <2>5. Exchange!Succeed(s) \/ Exchange!Fail(s)
    BY <2>k, <2>1, <2>2, <2>3, <2>4, ReturnImplements
  <2> QED
    BY <2>5 DEF Exchange!Next
<1>5. ASSUME NEW s \in Session, GiveUp(s) PROVE Exchange!Next
  <2>k. PICK k \in Kind : k = call[s].kind
    BY <1>T, <1>5 DEF TypeOK, Call, GiveUp, Waiting
  <2>o. PICK out \in Told : out = Outcome(k, FALSE)
    BY OutcomeIs
  <2>1. out \in IF k = "create" THEN {"created", "failed"} ELSE {"deleted", "unconfirmed"}
    BY <2>o, OutcomeIs
  <2>2. out # "created" /\ out # "deleted"
    BY <2>o DEF Outcome
  <2>3. /\ call' = [call EXCEPT ![s] = NoCall] /\ told' = [told EXCEPT ![s] = out]
        /\ pgw' = pgw
    BY <1>5, <2>k, <2>o DEF GiveUp, Return
    <2>4. Exchange!Succeed(s) \/ Exchange!Fail(s)
    BY <2>k, <2>1, <2>2, <2>3, ReturnImplements
  <2> QED
    BY <2>4 DEF Exchange!Next
<1>6. ASSUME ReadLoop PROVE pgw' = pgw /\ phase' = phase
  <2>1. UNCHANGED <<call, told, pgw>>
    BY <1>6 DEF ReadLoop, ReadResponse, ReadPgwDelete, ReadClaim, ReadDeliver
  <2> QED
    BY <1>T, <2>1, SamePhase
<1>7. ASSUME NEW m \in net, PgwCreates(m)
      PROVE  Exchange!Next \/ (pgw' = pgw /\ phase' = phase)
  <2>1. m.sess \in Session /\ MsgInv(m) /\ m.kind = "create"
    BY <1>T, <1>N, <1>7, MsgTypes DEF PgwCreates, NetInv
  <2>2. phase' = phase
    BY <1>T, <1>7, SamePhase DEF PgwCreates
  <2>3. phase[m.sess] # "idle"
    <3>1. phase[m.sess] = Phase(m.sess)
      BY <1>T, <2>1, PhaseIs DEF PhaseMapped
    <3> QED
      BY <1>T, <3>1, <2>1 DEF MsgInv, Unused, Phase, TypeOK, Told
  <2>4. CASE pgw[m.sess] = "none"
    BY <2>1, <2>2, <2>3, <2>4, <1>7 DEF PgwCreates, Exchange!Establish, Exchange!Next
  <2>5. CASE pgw[m.sess] = "up"
    BY <1>T, <2>1, <2>2, <2>5, <1>7 DEF PgwCreates, TypeOK
  <2> QED
    BY <1>T, <2>1, <2>4, <2>5, <1>7 DEF PgwCreates, TypeOK
<1>8. ASSUME NEW m \in net, PgwDeletes(m)
      PROVE  Exchange!Next \/ (pgw' = pgw /\ phase' = phase)
  <2>1. m.sess \in Session
    BY <1>T, MsgTypes
  <2>2. phase' = phase
    BY <1>T, <1>8, SamePhase DEF PgwDeletes
  <2>3. CASE pgw[m.sess] = "up"
    BY <2>1, <2>2, <2>3, <1>8 DEF PgwDeletes, Exchange!Release, Exchange!Next
  <2>4. CASE pgw[m.sess] = "down"
    BY <1>T, <2>1, <2>2, <2>4, <1>8 DEF PgwDeletes, TypeOK
  <2> QED
    BY <1>T, <2>1, <2>3, <2>4, <1>8 DEF PgwDeletes, TypeOK
<1>9. ASSUME NEW m \in net, PgwRefuses(m) \/ Lose(m) PROVE pgw' = pgw /\ phase' = phase
  <2>1. UNCHANGED <<call, told, pgw>>
    BY <1>9 DEF PgwRefuses, Lose
  <2> QED
    BY <1>T, <2>1, SamePhase
<1>10. ASSUME NEW s \in Session, PgwReleases(s) PROVE Exchange!Next
  <2>1. phase' = phase
    BY <1>T, <1>10, SamePhase DEF PgwReleases
  <2> QED
    BY <2>1, <1>10 DEF PgwReleases, Exchange!Release, Exchange!Next
<1> QED
  BY <1>1, <1>2, <1>3, <1>4, <1>5, <1>6, <1>7, <1>8, <1>9, <1>10 DEF Next, Caller

\* CreateSession and DeleteSession report success only for what the PGW did:
\* the client implements S2bExchange, for any number of sessions,
\* retransmissions and repeated or late responses.
THEOREM ClientImplementsExchange == Spec => ImplementsExchange
<1>1. Init => Exchange!Init
  <2> SUFFICES ASSUME Init PROVE Exchange!Init
    OBVIOUS
  <2>1. TypeOK
    BY InitInv DEF Inv
  <2>2. \A s \in Session : Phase(s) = "idle"
    BY Nil DEF Init, Phase, NoCall, Kind
  <2> QED
    BY <2>1, <2>2, PhaseIs DEF PhaseMapped, Init, Exchange!Init
<1>2. Inv /\ Inv' /\ [Next]_vars => [Exchange!Next]_<<pgw, phase>>
  <2>1. ASSUME Inv, Inv', UNCHANGED vars PROVE pgw' = pgw /\ phase' = phase
    BY <2>1, SamePhase DEF vars, Inv
  <2> QED
    BY <2>1, StepImplements
<1> QED
  BY <1>1, <1>2, Invariance, PTL DEF Spec, ImplementsExchange, Exchange!Spec

=============================================================================
