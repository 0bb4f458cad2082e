----------------------------- MODULE SwmClient -----------------------------
(***************************************************************************)
(* The SWm Diameter client (internal/swm/client.go): the connect loop that *)
(* dials, shakes hands, serves and replaces a connection; the read loop    *)
(* and the watchdog of each connection; and the calls that share it        *)
(* (ExchangeEAP, TerminateSession), matched to their answers through the   *)
(* table of pending hop-by-hop identifiers.                                *)
(*                                                                         *)
(* Each critical section of Client.mu is one step, and so is each blocking *)
(* call.  A request is named by its caller: an API call makes one, the     *)
(* watchdog of a connection one at a time.  Client.writeMu is held by the  *)
(* call in place "writing" or the read loop in place "answering": a write  *)
(* has no deadline and blocks while the send buffer is full.  Sleeping     *)
(* between two attempts to connect and failed dials change no state.       *)
(***************************************************************************)
EXTENDS Naturals, FiniteSets

CONSTANTS
  Api,      \* calls of ExchangeEAP and TerminateSession
  Der,      \* those of ExchangeEAP
  Verdict,  \* what the AAA server may answer
  MaxConn,  \* bound: connections dialled
  None

ASSUME SwmAssumption ==
  /\ Der \subseteq Api
  /\ \A v \in Verdict : {"code", "eap", "msk"} \subseteq DOMAIN v /\ v.msk \in BOOLEAN
  /\ MaxConn \in Nat
  /\ Api \cap Nat = {}
  /\ None \notin Verdict \cup Api \cup Nat
  /\ None \notin {[acknowledged |-> TRUE], [lost |-> TRUE]}

Conn == 1..MaxConn
Call == Api \cup Conn    \* a connection stands for its watchdog's call

VARIABLES
  stopped,   \* Client.ctx is cancelled
  conn,      \* Client.conn, or 0
  pending,   \* Client.pending: the calls registered
  loop,      \* where connectLoop is
  cur,       \* the connection it holds, or the last one it held
  dialled,   \* connections dialled so far
  sock,      \* our end of each connection
  peer,      \* its other end
  outbox,    \* calls whose request the peer has not answered
  inbox,     \* calls whose answer has not been read
  reader,    \* where its readLoop is
  claim,     \* the call it has claimed, or None
  watch,     \* watchdogLoop runs
  st,        \* where each call is
  via,       \* the connection it has read from Client.conn
  ch,        \* its response channel, capacity 1
  res,       \* what it returned
  verdict    \* what the AAA server decided on its request

loopVars == <<conn, loop, cur, dialled, sock>>
callVars == <<st, via, res>>
vars == <<stopped, conn, pending, loop, cur, dialled, sock, peer, outbox,
          inbox, reader, claim, watch, st, via, ch, res, verdict>>

Init ==
  /\ stopped = FALSE /\ conn = 0 /\ pending = {}
  /\ loop = "dial" /\ cur = 0 /\ dialled = 0
  /\ sock = [c \in Conn |-> "none"]
  /\ peer = [c \in Conn |-> "up"]
  /\ outbox = [c \in Conn |-> {}]
  /\ inbox = [c \in Conn |-> {}]
  /\ reader = [c \in Conn |-> "off"]
  /\ claim = [c \in Conn |-> None]
  /\ watch = [c \in Conn |-> FALSE]
  /\ st = [k \in Call |-> "idle"]
  /\ via = [k \in Call |-> IF k \in Conn THEN k ELSE 0]
  /\ ch = [k \in Call |-> None]
  /\ res = [k \in Call |-> None]
  /\ verdict = [k \in Api |-> None]

(***************************************************************************)
(* The calls.                                                              *)
(***************************************************************************)
Go(k, to) == st' = [st EXCEPT ![k] = to]

Error == [state |-> "error"]
Lost == [lost |-> TRUE]   \* the error failPendingLocked sends

Finish(k, r) == Go(k, "done") /\ res' = [res EXCEPT ![k] = r]

\* waitOpen, its first critical section.
Begin(k) ==
  /\ st[k] = "idle"
  /\ IF conn # 0 THEN Go(k, "opened") ELSE Go(k, "opening")
  /\ UNCHANGED <<stopped, loopVars, pending, peer, outbox, inbox, reader, claim, watch, via,
                 ch, res, verdict>>

\* waitOpen's select: the channel it read was closed, or ten seconds or the
\* caller's context ran out.
AwaitOpen(k) ==
  /\ \/ st[k] = "woken" /\ Go(k, "opened") /\ UNCHANGED res
     \/ st[k] \in {"opening", "woken"} /\ Finish(k, Error)
  /\ UNCHANGED <<stopped, loopVars, pending, peer, outbox, inbox, reader, claim, watch, via, ch, verdict>>

\* sendRequest: the connection may have been lost since waitOpen.
SendRequest(k) ==
  /\ st[k] = "opened"
  /\ IF conn = 0
     THEN Finish(k, Error) /\ UNCHANGED via
     ELSE Go(k, "register") /\ via' = [via EXCEPT ![k] = conn] /\ UNCHANGED res
  /\ UNCHANGED <<stopped, loopVars, pending, peer, outbox, inbox, reader, claim, watch, ch, verdict>>

\* sendRequestOnConn: registers its channel, takes writeMu, writes, then waits.
Register(k) ==
  /\ st[k] = "register"
  /\ pending' = pending \cup {k}
  /\ Go(k, "write")
  /\ UNCHANGED <<stopped, loopVars, peer, outbox, inbox, reader, claim, watch, via, ch, res, verdict>>

\* writeMu is the client's, not the connection's.
WriteMuFree ==
  /\ \A k \in Call : st[k] # "writing"
  /\ \A c \in Conn : reader[c] # "answering"

LockWrite(k) ==
  /\ st[k] = "write" /\ WriteMuFree
  /\ Go(k, "writing")
  /\ UNCHANGED <<stopped, loopVars, pending, peer, outbox, inbox, reader, claim, watch, via, ch, res, verdict>>

\* A write to a connection we closed fails; to one the peer left it may.  While
\* the send buffer is full it does not return, whatever the caller's context.
Write(k) ==
  /\ st[k] = "writing"
  /\ \/ /\ sock[via[k]] = "open" /\ peer[via[k]] # "full"
        /\ Go(k, "wait")
        /\ outbox' = [outbox EXCEPT ![via[k]] = @ \cup {k}]
        /\ UNCHANGED <<pending, res>>
     \/ /\ sock[via[k]] = "closed" \/ peer[via[k]] = "gone"
        /\ pending' = pending \ {k}
        /\ Finish(k, Error)
        /\ UNCHANGED outbox
  /\ UNCHANGED <<stopped, loopVars, peer, inbox, reader, claim, watch, via, ch, verdict>>

\* Mutant: EAP-Success grants access whatever the result code.
EapResultAnyCode(v) ==
  LET success == v.code = "success"
      state == CASE v.eap = "request" -> "challenge"
                 [] v.eap = "success" -> "success"
                 [] v.eap = "none" /\ success -> "success"
                 [] OTHER -> "failure"
      allowed == state = "success"
  IN [state |-> state, allowed |-> allowed, msk |-> allowed /\ v.msk]

\* eapResult: what a DEA means.
EapResult(v) ==
  LET success == v.code = "success"
      state == CASE v.eap = "request" -> "challenge"
                 [] v.eap = "success" -> "success"
                 [] v.eap = "none" /\ success -> "success"
                 [] OTHER -> "failure"
      allowed == state = "success" /\ success
  IN [state |-> state, allowed |-> allowed, msk |-> allowed /\ v.msk]

\* Nobody looks into an STA or a DWA, its result code included.
Acknowledged == [acknowledged |-> TRUE]

Returned(k, r) ==
  IF r = Lost THEN Error
  ELSE IF k \in Der THEN EapResult(r) ELSE [state |-> "terminated"]

Receive(k) ==
  /\ st[k] = "wait" /\ ch[k] # None
  /\ Finish(k, Returned(k, ch[k]))
  /\ UNCHANGED <<stopped, loopVars, pending, peer, outbox, inbox, reader, claim, watch, via, ch, verdict>>

\* Mutant: a call that times out stays in the table.
TimeoutKeepsPending(k) ==
  /\ st[k] = "wait"
  /\ UNCHANGED pending
  /\ Finish(k, Error)
  /\ UNCHANGED <<stopped, loopVars, peer, outbox, inbox, reader, claim, watch, via, ch, verdict>>

\* The caller's context runs out, whether or not its answer is there.
Timeout(k) ==
  /\ st[k] = "wait"
  /\ pending' = pending \ {k}
  /\ Finish(k, Error)
  /\ UNCHANGED <<stopped, loopVars, peer, outbox, inbox, reader, claim, watch, via, ch, verdict>>

(***************************************************************************)
(* The watchdog of connection c.                                           *)
(***************************************************************************)
WatchTick(c) ==
  /\ watch[c] /\ st[c] = "idle" /\ ~ stopped
  /\ Go(c, "register")
  /\ ch' = [ch EXCEPT ![c] = None]
  /\ UNCHANGED <<stopped, loopVars, pending, peer, outbox, inbox, reader, claim, watch, via,
                 res, verdict>>

\* conn.Close: nothing written is answered any more, nothing received is read.
Close(c) ==
  /\ sock' = [sock EXCEPT ![c] = "closed"]
  /\ peer' = [peer EXCEPT ![c] = "gone"]
  /\ outbox' = [outbox EXCEPT ![c] = {}]
  /\ inbox' = [inbox EXCEPT ![c] = {}]

\* Mutant: a failed watchdog leaves the connection open.
WatchResultKeepsConn(c) ==
  /\ watch[c] /\ st[c] = "done"
  /\ IF res[c] = Error
     THEN /\ watch' = [watch EXCEPT ![c] = FALSE]
          /\ UNCHANGED <<st, sock, peer, outbox, inbox>>
     ELSE Go(c, "idle") /\ UNCHANGED <<sock, peer, outbox, inbox, watch>>
  /\ res' = [res EXCEPT ![c] = None]
  /\ UNCHANGED <<stopped, conn, pending, loop, cur, dialled, reader, claim, via, ch, verdict>>

\* A DWR that failed closes the connection; the read loop notices.
WatchResult(c) ==
  /\ watch[c] /\ st[c] = "done"
  /\ IF res[c] = Error
     THEN /\ Close(c)
          /\ watch' = [watch EXCEPT ![c] = FALSE]
          /\ UNCHANGED st
     ELSE Go(c, "idle") /\ UNCHANGED <<sock, peer, outbox, inbox, watch>>
  /\ res' = [res EXCEPT ![c] = None]
  /\ UNCHANGED <<stopped, conn, pending, loop, cur, dialled, reader, claim, via, ch, verdict>>

WatchStops(c) ==
  /\ watch[c] /\ st[c] = "idle" /\ stopped
  /\ watch' = [watch EXCEPT ![c] = FALSE]
  /\ UNCHANGED <<stopped, loopVars, pending, peer, outbox, inbox, reader, claim, callVars, ch, verdict>>

(***************************************************************************)
(* readLoop of connection c.                                               *)
(***************************************************************************)
\* Mutant: the claimed call stays in the table.
ReadKeepsPending(c) ==
  /\ reader[c] = "reading" /\ claim[c] = None /\ sock[c] = "open"
  /\ \E k \in inbox[c] :
       /\ inbox' = [inbox EXCEPT ![c] = @ \ {k}]
       /\ IF k \in pending THEN claim' = [claim EXCEPT ![c] = k] ELSE UNCHANGED claim
  /\ UNCHANGED <<stopped, loopVars, pending, peer, outbox, reader, watch, callVars, ch, verdict>>

\* It claims the pending call of an answer, if there still is one, ...
Read(c) ==
  /\ reader[c] = "reading" /\ claim[c] = None /\ sock[c] = "open"
  /\ \E k \in inbox[c] :
       /\ inbox' = [inbox EXCEPT ![c] = @ \ {k}]
       /\ pending' = pending \ {k}
       /\ IF k \in pending THEN claim' = [claim EXCEPT ![c] = k] ELSE UNCHANGED claim
  /\ UNCHANGED <<stopped, loopVars, peer, outbox, reader, watch, callVars, ch, verdict>>

\* ... and then sends on its channel.
Deliver(c) ==
  /\ claim[c] # None /\ ch[claim[c]] = None
  /\ ch' = [ch EXCEPT ![claim[c]] =
             IF claim[c] \in Api THEN verdict[claim[c]] ELSE Acknowledged]
  /\ claim' = [claim EXCEPT ![c] = None]
  /\ UNCHANGED <<stopped, loopVars, pending, peer, outbox, inbox, reader, watch, callVars, verdict>>

\* handleRequest answers a DWR of the peer, under writeMu; a failed write is
\* ignored.
ReadRequest(c) ==
  /\ reader[c] = "reading" /\ claim[c] = None /\ sock[c] = "open" /\ peer[c] = "up"
  /\ reader' = [reader EXCEPT ![c] = "answer"]
  /\ UNCHANGED <<stopped, loopVars, pending, peer, outbox, inbox, claim, watch, callVars, ch, verdict>>

AnswerRequest(c) ==
  /\ \/ /\ reader[c] = "answer" /\ WriteMuFree
        /\ reader' = [reader EXCEPT ![c] = "answering"]
     \/ /\ reader[c] = "answering"
        /\ sock[c] = "closed" \/ peer[c] # "full"
        /\ reader' = [reader EXCEPT ![c] = "reading"]
  /\ UNCHANGED <<stopped, loopVars, pending, peer, outbox, inbox, claim, watch, callVars, ch, verdict>>

\* Its error goes to errCh, which has room for it.
ReadFails(c) ==
  /\ reader[c] = "reading" /\ claim[c] = None
  /\ sock[c] = "closed" \/ (peer[c] = "gone" /\ inbox[c] = {})
  /\ reader' = [reader EXCEPT ![c] = "ended"]
  /\ UNCHANGED <<stopped, loopVars, pending, peer, outbox, inbox, claim, watch, callVars, ch, verdict>>

(***************************************************************************)
(* connectLoop and Stop.                                                   *)
(***************************************************************************)
Dial ==
  /\ loop = "dial" /\ ~ stopped /\ dialled < MaxConn
  /\ dialled' = dialled + 1
  /\ \/ /\ cur' = dialled' /\ loop' = "handshake"
        /\ sock' = [sock EXCEPT ![dialled'] = "open"]
     \/ \* dialSCTP gives up after five seconds; the association comes up later
        /\ sock' = [sock EXCEPT ![dialled'] = "abandoned"]
        /\ UNCHANGED <<cur, loop>>
  /\ UNCHANGED <<stopped, conn, pending, peer, outbox, inbox, reader, claim, watch,
                 callVars, ch, verdict>>

\* Mutant: no read loop is started.
HandshakeNoReader ==
  /\ loop = "handshake"
  /\ \/ /\ conn' = cur /\ loop' = "serve"
        /\ st' = [k \in Call |-> IF st[k] = "opening" THEN "woken" ELSE st[k]]
        /\ watch' = [watch EXCEPT ![cur] = TRUE]
        /\ UNCHANGED <<reader, sock, peer, outbox, inbox>>
     \/ /\ Close(cur) /\ loop' = "dial"
        /\ UNCHANGED <<conn, reader, watch, st>>
  /\ UNCHANGED <<stopped, pending, cur, dialled, claim, via, res, ch, verdict>>

\* A CEA with a success code publishes the connection and starts its read
\* loop and watchdog, whether or not the client has been stopped meanwhile.
Handshake ==
  /\ loop = "handshake"
  /\ \/ /\ conn' = cur /\ loop' = "serve"
        /\ st' = [k \in Call |-> IF st[k] = "opening" THEN "woken" ELSE st[k]]
        /\ reader' = [reader EXCEPT ![cur] = "reading"]
        /\ watch' = [watch EXCEPT ![cur] = TRUE]
        /\ UNCHANGED <<sock, peer, outbox, inbox>>
     \/ /\ Close(cur) /\ loop' = "dial"
        /\ UNCHANGED <<conn, reader, watch, st>>
  /\ UNCHANGED <<stopped, pending, cur, dialled, claim, via, res, ch, verdict>>

\* failPendingLocked: every pending call gets the error; a full channel
\* would block it, with Client.mu held.
CanFailPending == \A k \in pending : ch[k] = None

FailPending ==
  /\ CanFailPending
  /\ ch' = [k \in Call |-> IF k \in pending THEN Lost ELSE ch[k]]
  /\ pending' = {}

\* Mutant: the connection is not closed.
ServeEndsLeavesOpen ==
  /\ loop = "serve"
  /\ \/ stopped /\ loop' = "exit"
     \/ reader[cur] = "ended" /\ loop' = "lost"
  /\ UNCHANGED <<stopped, conn, pending, cur, dialled, sock, peer, outbox, inbox, reader, claim, watch, callVars, ch, verdict>>

\* The two ends of connectLoop's select: first the socket is closed, ...
ServeEnds ==
  /\ loop = "serve"
  /\ \/ stopped /\ loop' = "exit"
     \/ reader[cur] = "ended" /\ loop' = "lost"
  /\ Close(cur)
  /\ UNCHANGED <<stopped, conn, pending, cur, dialled, reader, claim, watch, callVars, ch, verdict>>

\* Mutant: the pending calls are not failed.
WithdrawForgets ==
  /\ loop = "lost"
  /\ conn' = IF conn = cur THEN 0 ELSE conn
  /\ loop' = "dial"
  /\ UNCHANGED <<stopped, pending, ch, cur, dialled, sock, peer, outbox, inbox, reader, claim, watch,
                 callVars, verdict>>

\* ... then, after an error, the connection is withdrawn and the calls failed.
Withdraw ==
  /\ loop = "lost"
  /\ FailPending
  /\ conn' = IF conn = cur THEN 0 ELSE conn
  /\ loop' = "dial"
  /\ UNCHANGED <<stopped, cur, dialled, sock, peer, outbox, inbox, reader, claim, watch,
                 callVars, verdict>>

LoopExits ==
  /\ loop = "dial" /\ stopped
  /\ loop' = "exit"
  /\ UNCHANGED <<stopped, conn, pending, cur, dialled, sock, peer, outbox, inbox,
                 reader, claim, watch, callVars, ch, verdict>>

Stop ==
  /\ ~ stopped /\ stopped' = TRUE
  /\ IF conn = 0 THEN UNCHANGED <<sock, peer, outbox, inbox>> ELSE Close(conn)
  /\ FailPending
  /\ UNCHANGED <<conn, loop, cur, dialled, reader, claim, watch, callVars, verdict>>

(***************************************************************************)
(* The AAA server and the network: it answers each request at most once,   *)
(* in any order, and it may hang or close the connection at any time.      *)
(* The requests a hung peer has not taken pile up, until the buffer of the *)
(* connection is full: in the model, from one request on.                  *)
(***************************************************************************)
PeerAnswers(c) ==
  /\ peer[c] = "up"
  /\ \E k \in outbox[c], v \in Verdict \cup {Acknowledged} :
       /\ k \in Der <=> v \in Verdict
       /\ verdict' = [a \in Api |-> IF a = k THEN v ELSE verdict[a]]
       /\ outbox' = [outbox EXCEPT ![c] = @ \ {k}]
       /\ inbox' = [inbox EXCEPT ![c] = @ \cup {k}]
  /\ UNCHANGED <<stopped, loopVars, pending, peer, reader, claim, watch, callVars, ch>>

PeerFails(c) ==
  /\ sock[c] = "open"
  /\ \/ peer[c] = "up" /\ \E p \in {"hung", "gone"} : peer' = [peer EXCEPT ![c] = p]
     \/ peer[c] = "hung" /\ outbox[c] # {} /\ peer' = [peer EXCEPT ![c] = "full"]
  /\ UNCHANGED <<stopped, loopVars, pending, outbox, inbox, reader, claim, watch, callVars, ch, verdict>>

Step(k) ==
  AwaitOpen(k) \/ SendRequest(k) \/ Register(k) \/ LockWrite(k) \/ Write(k) \/ Receive(k)

ReadLoop(c) == Read(c) \/ Deliver(c) \/ AnswerRequest(c) \/ ReadFails(c)

Watchdog(c) ==
  WatchTick(c) \/ Step(c) \/ Timeout(c) \/ WatchResult(c) \/ WatchStops(c)

ConnectLoop == Dial \/ Handshake \/ ServeEnds \/ Withdraw \/ LoopExits

Next ==
  \/ \E k \in Api : Begin(k) \/ Step(k) \/ Timeout(k)
  \/ \E c \in Conn : \/ Watchdog(c) \/ ReadLoop(c) \/ ReadRequest(c)
                     \/ PeerAnswers(c) \/ PeerFails(c)
  \/ ConnectLoop \/ Stop

Spec == Init /\ [][Next]_vars

\* Goroutines run, the watchdog's ticker ticks and its deadline passes; no call
\* is assumed to have a deadline of its own, and no dial to succeed.
FairSpec ==
  /\ Spec
  /\ \A k \in Api : WF_vars(Step(k))
  /\ \A c \in Conn : WF_vars(Watchdog(c)) /\ WF_vars(ReadLoop(c))
  /\ WF_vars(Handshake) /\ WF_vars(ServeEnds) /\ WF_vars(Withdraw)
----------------------------------------------------------------------------
Place ==
  {"idle", "opening", "woken", "opened", "register", "write", "writing", "wait", "done"}

\* The client's state has its shape: a call past sendRequest holds a
\* connection that was published, and a read loop claims calls only.
TypeOK ==
  /\ stopped \in BOOLEAN /\ conn \in 0..dialled /\ cur \in 0..dialled
  /\ dialled \in 0..MaxConn
  /\ pending \subseteq Call
  /\ loop \in {"dial", "handshake", "serve", "lost", "exit"}
  /\ sock \in [Conn -> {"none", "open", "closed", "abandoned"}]
  /\ peer \in [Conn -> {"up", "hung", "full", "gone"}]
  /\ outbox \in [Conn -> SUBSET Call] /\ inbox \in [Conn -> SUBSET Call]
  /\ reader \in [Conn -> {"off", "reading", "answer", "answering", "ended"}]
  /\ claim \in [Conn -> Call \cup {None}]
  /\ watch \in [Conn -> BOOLEAN]
  /\ st \in [Call -> Place] /\ via \in [Call -> 0..MaxConn] /\ DOMAIN res = Call
  /\ \A k \in Call : st[k] \in {"register", "write", "writing", "wait"} =>
       via[k] \in Conn /\ reader[via[k]] # "off"
  /\ ch \in [Call -> Verdict \cup {Acknowledged, Lost, None}]
  /\ verdict \in [Api -> Verdict \cup {Acknowledged, None}]

Claimed(k) == \E c \in Conn : claim[c] = k

\* A response channel has room for one message and gets no second: neither
\* the read loop nor failPendingLocked, which holds Client.mu, ever blocks
\* on one, however an answer, a timeout and a disconnection interleave.
SendsNeverBlock ==
  \A k \in Call : k \in pending \/ Claimed(k) =>
    /\ ch[k] = None
    /\ ~ (k \in pending /\ Claimed(k))
    /\ \A b, c \in Conn : claim[b] = k /\ claim[c] = k => b = c

\* A call that waits with nothing in its channel is still pending, or claimed,
\* and the connect loop still holds its connection and will fail it: because
\* connectLoop closes a connection before it fails the pending calls, one that
\* registers too late finds its write refused.  (After Stop the loop may leave
\* without failing anyone.)
WaitersReachable ==
  \A k \in Call : st[k] = "wait" /\ ch[k] = None =>
    /\ k \in pending \/ Claimed(k)
    /\ ~ stopped => via[k] = cur /\ loop \in {"serve", "lost"}

\* Every entry of the pending table has its call behind it: what times out or
\* cannot be written leaves the table.
PendingIsLive == \A k \in pending : st[k] \in {"write", "writing", "wait"}

\* At most one connection is in use, and one the loop has replaced is closed;
\* only an SCTP association that came up after dialSCTP gave up stays open.
OneConnection ==
  \A c \in Conn : sock[c] = "open" => c = cur /\ loop \in {"handshake", "serve"}

\* A write is stuck, since the buffer of its connection is full.  It keeps writeMu.
WriteStuck ==
  \E c \in Conn :
    /\ sock[c] = "open" /\ peer[c] = "full"
    /\ reader[c] = "answering" \/ \E k \in Call : st[k] = "writing" /\ via[k] = c

\* A call on a connection that broke, or whose peer hangs, returns without a
\* deadline of its own: the watchdog closes the connection, the read loop ends,
\* and the connect loop fails the call.  What it takes to leave the call waiting
\* is a write that got stuck before the watchdog's exchange ended.
BrokenConnectionFreesCalls ==
  \A k \in Api :
    st[k] = "wait" /\ peer[via[k]] # "up"
      ~> st[k] = "done" \/ stopped \/ WriteStuck

Told ==
  [k \in Api |-> IF st[k] = "done" THEN res[k]
                 ELSE [state |-> IF st[k] = "idle" THEN "idle" ELSE "asked"]]

Exchange == INSTANCE AaaExchange WITH
  Call <- Api, Ack <- Acknowledged, told <- Told

\* A call returns what the AAA server decided on its own request, or an error.
ImplementsExchange == Exchange!Spec
============================================================================
