--------------------------- MODULE S2bTransaction ---------------------------
(***************************************************************************)
(* GTPv2-C transactions of the S2b client (internal/s2b/client.go): the    *)
(* sequence allocator, the pending table shared by the callers and the     *)
(* read loop, T3/N3 retransmission, and a network that loses, repeats and  *)
(* delays messages.  CreateSession and DeleteSession are the callers; the  *)
(* PGW is modelled from how they use it.                                   *)
(***************************************************************************)
EXTENDS Naturals, FiniteSets

CONSTANTS
    Session,     \* PDN sessions; one goroutine works on each
    MaxSeq,      \* sequenceAllocator.cap
    n3Requests,
    MaxInFlight, \* bound: messages on the network at once; more are lost
    None

Kind == {"create", "delete"}

Seq24 == 1 .. MaxSeq     \* minSequence .. cap

\* A transaction: what a pendingTxn's channel belongs to.
Txn == Session \X Kind

ASSUME Bounds == MaxSeq \in Nat \ {0} /\ n3Requests \in Nat \ {0}

ASSUME NoneIsNil == None \notin Txn \cup Seq24 \cup Kind

VARIABLES
    seq,          \* sequenceAllocator.seq
    pending,      \* Client.pending
    chan,         \* pendingTxn.ch: empty, what was put into it, or drained
    call,         \* the transaction each session's goroutine is in
    told,         \* what CreateSession and DeleteSession last returned
    sessionPeers, \* Client.sessionPeers: sessions whose PGW is remembered
    reader,       \* readLoop
    net,          \* messages that may still arrive
    pgw           \* the PDN sessions at the PGW

vars == <<seq, pending, chan, call, told, sessionPeers, reader, net, pgw>>

-----------------------------------------------------------------------------
(* State *)

Request == [type : {"request"}, kind : Kind, seq : Seq24, sess : Session]

\* "refused": a rejecting cause, an unexpected type, or a body that does not
\* parse
Body == {"accepted", "refused"}

Response == [type : {"response"}, kind : Kind, seq : Seq24, sess : Session,
             body : Body]

\* Delete Session Request of the PGW, numbered by the PGW
PgwRequest == [type : {"pgwDelete"}, seq : {None}, sess : Session]

\* What a session's goroutine is waiting for
Call == [kind : Kind \cup {None}, seq : Seq24 \cup {None}, attempt : 0 .. n3Requests]

NoCall == [kind |-> None, seq |-> None, attempt |-> 0]

Told == {"none", "created", "failed", "deleted", "unconfirmed"}

Reader == [pc : {"idle", "claim", "deliver"}, msg : Response \cup {None},
           txn : Txn \cup {None}]

IdleReader == [pc |-> "idle", msg |-> None, txn |-> None]

\* NewClient: the allocator starts at a random number.
Init ==
    /\ seq \in Seq24
    /\ pending = [q \in Seq24 |-> None]
    /\ chan = [t \in Txn |-> "empty"]
    /\ call = [s \in Session |-> NoCall]
    /\ told = [s \in Session |-> "none"]
    /\ sessionPeers = {}
    /\ reader = IdleReader
    /\ net = {}
    /\ pgw = [s \in Session |-> "none"]

Put(base, m) == net' = IF Cardinality(base) < MaxInFlight THEN base \cup {m} ELSE base

-----------------------------------------------------------------------------
(* CreateSession, DeleteSession and transactionTo *)

\* Mutant: the wrap comes one number late.
NextSeqLate(q) == IF q > MaxSeq THEN 1 ELSE q + 1

NextSeq(q) == IF q + 1 > MaxSeq THEN 1 ELSE q + 1

\* The 24-bit space is larger than all that is outstanding or in flight.
Fresh(q) ==
    /\ \A s \in Session : call[s].seq # q
    /\ \A m \in net : m.seq # q
    /\ reader.pc # "idle" => reader.msg.seq # q

MyTxn(s) == <<s, call[s].kind>>

Waiting(s) == call[s].kind # None

Transmit(s, k, q) ==
    Put(net, [type |-> "request", kind |-> k, seq |-> q, sess |-> s])

\* A request without IMSI, APN or AMBR is refused before anything is sent.
Refuse(s) ==
    /\ told[s] = "none" /\ ~Waiting(s)
    /\ told' = [told EXCEPT ![s] = "failed"]
    /\ UNCHANGED <<seq, pending, chan, call, sessionPeers, reader, net, pgw>>

\* The sequence number is allocated, the transaction entered into the table and
\* the request sent: nobody can refer to the number before it is on the network.
Start(s, k) ==
    /\ ~Waiting(s)
    /\ told[s] = IF k = "create" THEN "none" ELSE "created"
    /\ Fresh(NextSeq(seq))
    /\ seq' = NextSeq(seq)
    /\ pending' = [pending EXCEPT ![seq'] = <<s, k>>]
    /\ call' = [call EXCEPT ![s] = [kind |-> k, seq |-> seq', attempt |-> 1]]
    /\ Transmit(s, k, seq')
    /\ UNCHANGED <<chan, told, sessionPeers, reader, pgw>>

\* T3 expires; select may choose it although a response has arrived.
Retransmit(s) ==
    /\ Waiting(s)
    /\ call[s].attempt < n3Requests
    /\ call' = [call EXCEPT ![s].attempt = call[s].attempt + 1]
    /\ Transmit(s, call[s].kind, call[s].seq)
    /\ UNCHANGED <<seq, pending, chan, told, sessionPeers, reader, pgw>>

Outcome(k, ok) ==
    IF k = "create" THEN IF ok THEN "created" ELSE "failed"
                    ELSE IF ok THEN "deleted" ELSE "unconfirmed"

\* Mutant: the pending entry is removed only after a success.
ReturnKeepsPending(s, ok) ==
    LET out == Outcome(call[s].kind, ok) IN
    /\ pending' = [pending EXCEPT ![call[s].seq] = IF ok THEN None ELSE @]
    /\ call' = [call EXCEPT ![s] = NoCall]
    /\ told' = [told EXCEPT ![s] = out]
    /\ sessionPeers' = IF out = "created" THEN sessionPeers \cup {s}
                       ELSE IF call[s].kind = "delete" THEN sessionPeers \ {s}
                       ELSE sessionPeers

\* Mutant: DeleteSession forgets the peer only after a success.
ReturnKeepsPeer(s, ok) ==
    LET out == Outcome(call[s].kind, ok) IN
    /\ pending' = [pending EXCEPT ![call[s].seq] = None]
    /\ call' = [call EXCEPT ![s] = NoCall]
    /\ told' = [told EXCEPT ![s] = out]
    /\ sessionPeers' = IF out = "created" THEN sessionPeers \cup {s}
                       ELSE IF call[s].kind = "delete" /\ ok THEN sessionPeers \ {s}
                       ELSE sessionPeers

\* transactionTo removes its pending entry; CreateSession remembers the peer of
\* a session it created, DeleteSession forgets it whatever the outcome.
Return(s, ok) ==
    LET out == Outcome(call[s].kind, ok) IN
    /\ pending' = [pending EXCEPT ![call[s].seq] = None]
    /\ call' = [call EXCEPT ![s] = NoCall]
    /\ told' = [told EXCEPT ![s] = out]
    /\ sessionPeers' = IF out = "created" THEN sessionPeers \cup {s}
                       ELSE IF call[s].kind = "delete" THEN sessionPeers \ {s}
                       ELSE sessionPeers

\* Mutant: any response counts as an acceptance.
ReceiveAny(s) ==
    /\ Waiting(s)
    /\ chan[MyTxn(s)] \in Body
    /\ chan' = [chan EXCEPT ![MyTxn(s)] = "drained"]
    /\ Return(s, TRUE)
    /\ UNCHANGED <<seq, reader, net, pgw>>

\* The response has the expected type and an accepting cause, or is an error.
Receive(s) ==
    /\ Waiting(s)
    /\ chan[MyTxn(s)] \in Body
    /\ chan' = [chan EXCEPT ![MyTxn(s)] = "drained"]
    /\ Return(s, chan[MyTxn(s)] = "accepted")
    /\ UNCHANGED <<seq, reader, net, pgw>>

\* The context's deadline, the last T3, or a failing WriteToUDP.
GiveUp(s) ==
    /\ Waiting(s)
    /\ Return(s, FALSE)
    /\ UNCHANGED <<seq, chan, reader, net, pgw>>

Caller(s) == Retransmit(s) \/ Receive(s) \/ GiveUp(s)

-----------------------------------------------------------------------------
(* readLoop *)

\* The pending entry is looked up ...
ReadResponse(m) ==
    /\ reader.pc = "idle"
    /\ m.type = "response"
    /\ pending[m.seq] # None
    /\ reader' = [pc |-> "claim", msg |-> m, txn |-> pending[m.seq]]
    /\ UNCHANGED <<seq, pending, chan, call, told, sessionPeers, net, pgw>>

\* Mutant: the entry stays in the table.
ReadClaimKeeps ==
    /\ reader.pc = "claim"
    /\ reader' = IF pending[reader.msg.seq] # None
                 THEN [reader EXCEPT !.pc = "deliver"]
                 ELSE IdleReader
    /\ UNCHANGED <<seq, pending, chan, call, told, sessionPeers, net, pgw>>

\* ... claimed in a second critical section ...
ReadClaim ==
    /\ reader.pc = "claim"
    /\ pending' = [pending EXCEPT ![reader.msg.seq] = None]
    /\ reader' = IF pending[reader.msg.seq] # None
                 THEN [reader EXCEPT !.pc = "deliver"]
                 ELSE IdleReader
    /\ UNCHANGED <<seq, chan, call, told, sessionPeers, net, pgw>>

\* ... and the response put into the channel the lookup found, unless full.
ReadDeliver ==
    /\ reader.pc = "deliver"
    /\ chan' = IF chan[reader.txn] \in Body THEN chan
               ELSE [chan EXCEPT ![reader.txn] =
                        IF reader.msg.kind = reader.txn[2] THEN reader.msg.body
                        ELSE "refused"]
    /\ reader' = IdleReader
    /\ UNCHANGED <<seq, pending, call, told, sessionPeers, net, pgw>>

\* handleDeleteSessionRequest: the peer is forgotten; the handler's part is
\* PgwDeleteSession of module Epdg.
ReadPgwDelete(m) ==
    /\ reader.pc = "idle"
    /\ m.type = "pgwDelete"
    /\ sessionPeers' = sessionPeers \ {m.sess}
    /\ UNCHANGED <<seq, pending, chan, call, told, reader, net, pgw>>

ReadLoop ==
    \/ \E m \in net : ReadResponse(m) \/ ReadPgwDelete(m)
    \/ ReadClaim \/ ReadDeliver

-----------------------------------------------------------------------------
(* The PGW and the network.  A repeated request gets its response again.  A   *)
(* message may arrive more than once, until it is lost for good.              *)

Answer(m, body) ==
    \E rest \in {net, net \ {m}} :
        Put(rest, [type |-> "response", kind |-> m.kind, seq |-> m.seq,
                   sess |-> m.sess, body |-> body])

PgwCreates(m) ==
    /\ m.type = "request" /\ m.kind = "create"
    /\ pgw[m.sess] # "down"
    /\ pgw' = [pgw EXCEPT ![m.sess] = "up"]
    /\ Answer(m, "accepted")
    /\ UNCHANGED <<seq, pending, chan, call, told, sessionPeers, reader>>

PgwDeletes(m) ==
    /\ m.type = "request" /\ m.kind = "delete"
    /\ pgw[m.sess] # "none"
    /\ pgw' = [pgw EXCEPT ![m.sess] = "down"]
    /\ Answer(m, "accepted")
    /\ UNCHANGED <<seq, pending, chan, call, told, sessionPeers, reader>>

PgwRefuses(m) ==
    /\ m.type = "request"
    /\ Answer(m, "refused")
    /\ UNCHANGED <<seq, pending, chan, call, told, sessionPeers, reader, pgw>>

PgwReleases(s) ==
    /\ pgw[s] = "up"
    /\ pgw' = [pgw EXCEPT ![s] = "down"]
    /\ Put(net, [type |-> "pgwDelete", seq |-> None, sess |-> s])
    /\ UNCHANGED <<seq, pending, chan, call, told, sessionPeers, reader>>

Lose(m) ==
    /\ net' = net \ {m}
    /\ UNCHANGED <<seq, pending, chan, call, told, sessionPeers, reader, pgw>>

Next ==
    \/ \E s \in Session : \/ Refuse(s) \/ (\E k \in Kind : Start(s, k))
                          \/ Caller(s) \/ PgwReleases(s)
    \/ ReadLoop
    \/ \E m \in net : PgwCreates(m) \/ PgwDeletes(m) \/ PgwRefuses(m) \/ Lose(m)

Spec == Init /\ [][Next]_vars

-----------------------------------------------------------------------------
(* Properties *)

\* Every variable stays in its domain; sequence numbers are those that
\* message.encode accepts.
TypeOK ==
    /\ seq \in Seq24
    /\ pending \in [Seq24 -> Txn \cup {None}]
    /\ chan \in [Txn -> Body \cup {"empty", "drained"}]
    /\ call \in [Session -> Call]
    /\ told \in [Session -> Told]
    /\ sessionPeers \subseteq Session
    /\ reader \in Reader
    /\ net \subseteq Request \cup Response \cup PgwRequest
    /\ pgw \in [Session -> {"none", "up", "down"}]

\* The pending table leaks nothing: an entry belongs to a call that is still
\* waiting under that sequence number.
PendingIsLive ==
    \A q \in Seq24, s \in Session, k \in Kind : pending[q] = <<s, k>> =>
        call[s].seq = q /\ call[s].kind = k

\* "At most one delivery is ever attempted per transaction": the read loop
\* meets neither a full channel nor one that was already read, whatever is
\* repeated.
DeliveredOnce == reader.pc = "deliver" => chan[reader.txn] = "empty"

\* The PGW of a session that was created and that nobody has ended is known, so
\* its requests can be checked against it; a deleted session's is not.
PeerRemembered ==
    \A s \in Session :
        /\ told[s] = "created" /\ pgw[s] = "up" =>
              s \in sessionPeers
        /\ told[s] \in {"deleted", "unconfirmed"} => s \notin sessionPeers

\* The refinement mapping
phase ==
    [s \in Session |->
        CASE call[s].kind = "create" -> "creating"
          [] call[s].kind = "delete" -> "deleting"
          [] ~Waiting(s) -> IF told[s] = "none" THEN "idle" ELSE told[s]]

Exchange == INSTANCE S2bExchange WITH Session <- Session, pgw <- pgw, phase <- phase

\* CreateSession and DeleteSession report success only for what the PGW did,
\* in spite of late, repeated and unexpected responses.
ImplementsExchange == Exchange!Spec

=============================================================================
