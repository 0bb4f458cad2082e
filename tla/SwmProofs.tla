----------------------------- MODULE SwmProofs -----------------------------
(***************************************************************************)
(* Proofs about SwmClient, for any number of calls and connections: no     *)
(* send on a response channel blocks, no waiting call is forgotten, and    *)
(* the client implements AaaExchange.                                      *)
(***************************************************************************)
EXTENDS SwmClient, TLAPS

\* Where a read loop that has not ended is
Running == {"reading", "answer", "answering"}

\* The connect loop holds the one connection that is read, and nobody refers
\* to a connection that was never published.
ConnInv ==
  /\ OneConnection
  /\ loop \in {"handshake", "serve", "lost"} => cur \in Conn
  /\ loop = "handshake" => reader[cur] = "off"
  /\ conn # 0 => reader[conn] # "off"
  /\ \A c \in Conn :
       /\ reader[c] \in Running => c = cur /\ loop \in {"serve", "exit"}
       /\ c > dialled => reader[c] = "off"
       /\ watch[c] => reader[c] # "off"
       /\ claim[c] # None => reader[c] = "reading"
       /\ via[c] = c
       /\ st[c] \notin {"opening", "woken", "opened"}
       /\ reader[c] = "off" => st[c] = "idle"

\* A call owns at most one of: an entry of the table, a claim of the read
\* loop, a message in its channel.
CallInv(k) ==
  /\ k \in pending \/ Claimed(k) => ch[k] = None
  /\ ~ (k \in pending /\ Claimed(k))
  /\ k \in pending => st[k] \in {"write", "writing", "wait"}
  /\ Claimed(k) => st[k] \in {"write", "writing", "wait", "done"}
  /\ st[k] \in {"write", "writing", "wait"} => k \in pending \/ Claimed(k) \/ ch[k] # None
  /\ st[k] = "wait" /\ ch[k] = None /\ ~ stopped =>
       via[k] = cur /\ loop \in {"serve", "lost"}
  /\ k \in Conn /\ st[k] = "done" /\ watch[k] /\ res[k] # Error => ~ Claimed(k)
  /\ st[k] \in {"opening", "woken", "opened", "register"} => ch[k] = None
  /\ st[k] = "idle" /\ k \in Api => ch[k] = None

\* A message in the channel is what the AAA server decided, once, on this very
\* request, or the error of a lost connection.
VerdictInv(k) ==
  /\ verdict[k] = None \/ (IF k \in Der THEN verdict[k] \in Verdict
                           ELSE verdict[k] = Acknowledged)
  /\ ch[k] \in {None, Lost} \/ ch[k] = verdict[k]
  /\ \A c \in Conn :
       /\ k \in outbox[c] => c = via[k] /\ verdict[k] = None /\ st[k] \in {"wait", "done"}
       /\ k \in inbox[c] => verdict[k] # None
       /\ claim[c] = k => verdict[k] # None
  /\ st[k] \notin {"wait", "done"} => verdict[k] = None
  /\ st[k] = "done" => res[k] \in Exchange!Outcome

\* The inductive invariant
Inv ==
  /\ TypeOK
  /\ ConnInv
  /\ \A k \in Call : CallInv(k)
  /\ \A k \in Api : VerdictInv(k)

LEMMA Nil ==
  /\ None \notin Call /\ None \notin Verdict
  /\ Acknowledged # None /\ Lost # None /\ Acknowledged # Lost
  /\ Acknowledged \notin Verdict /\ Lost \notin Verdict
<1>1. None \notin Call /\ None \notin Verdict
  BY SwmAssumption DEF Call, Conn
<1>2. Acknowledged # None /\ Lost # None
  BY SwmAssumption DEF Acknowledged, Lost
<1>3. DOMAIN Acknowledged = {"acknowledged"} /\ DOMAIN Lost = {"lost"}
  BY DEF Acknowledged, Lost
<1>4. Acknowledged \notin Verdict /\ Lost \notin Verdict
  BY <1>3, SwmAssumption
<1>5. Acknowledged # Lost
  BY <1>3
<1> QED
  BY <1>1, <1>2, <1>4, <1>5

LEMMA Names ==
  /\ Api \subseteq Call /\ Conn \subseteq Call /\ Api \cap Conn = {} /\ 0 \notin Conn
  /\ \A k \in Call : k \in Api <=> k \notin Conn
BY SwmAssumption DEF Call, Conn

\* The variables that are functions, and on what
Functions ==
  /\ DOMAIN st = Call /\ DOMAIN via = Call /\ DOMAIN ch = Call /\ DOMAIN res = Call
  /\ DOMAIN verdict = Api
  /\ DOMAIN sock = Conn /\ DOMAIN peer = Conn /\ DOMAIN outbox = Conn
  /\ DOMAIN inbox = Conn /\ DOMAIN reader = Conn /\ DOMAIN claim = Conn
  /\ DOMAIN watch = Conn

LEMMA Domains == TypeOK => Functions
BY DEF TypeOK, Functions

\* connectLoop's bookkeeping stays within the connections dialled.
LEMMA InRange ==
  ASSUME TypeOK
  PROVE  /\ conn # 0 => conn \in Conn
         /\ cur # 0 => cur \in Conn
         /\ \A c \in Conn : c \in Nat
BY SwmAssumption DEF TypeOK, Conn

LEMMA ErrorIsOutcome == Error \in Exchange!Outcome
BY DEF Error, Exchange!Outcome

\* What a call returns is an outcome, justified by what the AAA server decided
\* (eapResult): access only on a success code, a key only with access.
LEMMA ReturnedIsOutcome ==
  ASSUME NEW k \in Api, VerdictInv(k), ch[k] # None
  PROVE  /\ Returned(k, ch[k]) \in Exchange!Outcome
         /\ Exchange!Justified(Returned(k, ch[k]), verdict[k])
<1>1. CASE ch[k] = Lost
  BY <1>1, ErrorIsOutcome DEF Returned, Error, Exchange!Justified
<1>2. CASE ch[k] # Lost /\ k \in Der
  <2>1. ch[k] = verdict[k] /\ verdict[k] \in Verdict
    BY <1>2 DEF VerdictInv
  <2> DEFINE v == verdict[k]
             o == EapResult(v)
  <2>2. Returned(k, ch[k]) = o
    BY <1>2, <2>1 DEF Returned
  <2>3. /\ o.state \in {"challenge", "success", "failure"}
        /\ o.allowed \in BOOLEAN /\ o.msk \in BOOLEAN
        /\ o = [state |-> o.state, allowed |-> o.allowed, msk |-> o.msk]
        /\ o.allowed => v.code = "success" /\ o.state = "success"
        /\ o.msk => o.allowed /\ v.msk
        /\ o.state = "challenge" <=> v.eap = "request"
        /\ o.state = "success" => v.eap \in {"none", "success"}
    BY <2>1, SwmAssumption DEF EapResult
  <2> HIDE DEF o
  <2> QED
    BY <2>1, <2>2, <2>3 DEF Exchange!Outcome, Exchange!Justified
<1>3. CASE ch[k] # Lost /\ k \notin Der
  BY <1>3 DEF VerdictInv, Returned, Exchange!Outcome, Exchange!Justified
<1> QED
  BY <1>1, <1>2, <1>3

LEMMA InitInv == Init => Inv
<1> SUFFICES ASSUME Init PROVE Inv
  OBVIOUS
<1>1. TypeOK
  <2>1. conn \in 0..dialled /\ cur \in 0..dialled /\ dialled \in 0..MaxConn
    BY SwmAssumption DEF Init
  <2>2. via \in [Call -> 0..MaxConn]
    BY SwmAssumption DEF Init, Conn
  <2> QED
    BY <2>1, <2>2 DEF Init, TypeOK, Place
<1>2. ConnInv
  BY SwmAssumption DEF Init, ConnInv, OneConnection, Running, Conn, Call
<1>3. \A k \in Call : CallInv(k)
  BY Nil DEF Init, CallInv, Claimed
<1>4. \A k \in Api : VerdictInv(k)
  BY Nil, Names DEF Init, VerdictInv
<1> QED
  BY <1>1, <1>2, <1>3, <1>4 DEF Inv

\* The calls
LEMMA BeginStep == ASSUME Inv, NEW k \in Api, Begin(k) PROVE Inv'
<1>1. TypeOK'
  <2>1. st' \in [Call -> Place]
    BY DEF Inv, TypeOK, Begin, Go, Place
  <2>2. \A j \in Call : st'[j] \in {"register", "write", "writing", "wait"} =>
          via'[j] \in Conn /\ reader'[via'[j]] # "off"
    BY DEF Inv, TypeOK, Begin, Go
  <2> QED
    BY <2>1, <2>2 DEF Inv, TypeOK, Begin, loopVars
<1>2. ConnInv'
  BY Domains, Names DEF Inv, Functions, ConnInv, OneConnection, Begin, Go, loopVars
<1>3. ASSUME NEW j \in Call PROVE CallInv(j)'
  BY Domains DEF Inv, Functions, CallInv, Claimed, Begin, Go, loopVars
<1>4. ASSUME NEW j \in Api PROVE VerdictInv(j)'
  BY Domains, Names DEF Inv, Functions, VerdictInv, Begin, Go
<1> QED
  BY <1>1, <1>2, <1>3, <1>4 DEF Inv

LEMMA AwaitOpenStep == ASSUME Inv, NEW k \in Call, AwaitOpen(k) PROVE Inv'
<1>1. TypeOK'
  BY DEF Inv, TypeOK, AwaitOpen, Go, Finish, loopVars, Place
<1>2. ConnInv'
  BY Domains, Names DEF Inv, Functions, ConnInv, OneConnection, AwaitOpen, Go, Finish, loopVars
<1>3. ASSUME NEW j \in Call PROVE CallInv(j)'
  BY Domains DEF Inv, Functions, CallInv, Claimed, AwaitOpen, Go, Finish, loopVars
<1>4. ASSUME NEW j \in Api PROVE VerdictInv(j)'
  BY Domains, Names, ErrorIsOutcome DEF Inv, Functions, VerdictInv, AwaitOpen, Go, Finish
<1> QED
  BY <1>1, <1>2, <1>3, <1>4 DEF Inv

LEMMA SendRequestStep == ASSUME Inv, NEW k \in Call, SendRequest(k) PROVE Inv'
<1>1. TypeOK'
  <2>1. st' \in [Call -> Place] /\ DOMAIN res' = Call
    BY DEF Inv, TypeOK, SendRequest, Go, Finish, Place
  <2>2. conn \in 0..MaxConn
    BY SwmAssumption DEF Inv, TypeOK
  <2>3. via' \in [Call -> 0..MaxConn]
    BY <2>2 DEF Inv, TypeOK, SendRequest
  <2>4. \A j \in Call : st'[j] \in {"register", "write", "writing", "wait"} =>
          via'[j] \in Conn /\ reader'[via'[j]] # "off"
    BY InRange DEF Inv, TypeOK, ConnInv, SendRequest, Go, Finish
  <2> QED
    BY <2>1, <2>2, <2>3, <2>4 DEF Inv, TypeOK, SendRequest, loopVars
<1>2. ConnInv'
  BY Domains, Names DEF Inv, Functions, ConnInv, OneConnection, SendRequest, Go, Finish, loopVars
<1>3. ASSUME NEW j \in Call PROVE CallInv(j)'
  BY Domains DEF Inv, Functions, CallInv, Claimed, SendRequest, Go, Finish, loopVars
<1>4. ASSUME NEW j \in Api PROVE VerdictInv(j)'
  BY Domains, Names, ErrorIsOutcome DEF Inv, Functions, VerdictInv, SendRequest, Go, Finish
<1> QED
  BY <1>1, <1>2, <1>3, <1>4 DEF Inv

LEMMA RegisterStep == ASSUME Inv, NEW k \in Call, Register(k) PROVE Inv'
<1>1. TypeOK'
  BY DEF Inv, TypeOK, Register, Go, loopVars, Place
<1>2. ConnInv'
  BY DEF Inv, ConnInv, OneConnection, Register, Go, loopVars
<1>3. ASSUME NEW j \in Call PROVE CallInv(j)'
  BY Domains DEF Inv, Functions, CallInv, Claimed, Register, Go, loopVars
<1>4. ASSUME NEW j \in Api PROVE VerdictInv(j)'
  BY DEF Inv, VerdictInv, Register, Go
<1> QED
  BY <1>1, <1>2, <1>3, <1>4 DEF Inv

LEMMA LockWriteStep == ASSUME Inv, NEW k \in Call, LockWrite(k) PROVE Inv'
<1>1. TypeOK'
  BY DEF Inv, TypeOK, LockWrite, Go, loopVars, Place
<1>2. ConnInv'
  BY DEF Inv, ConnInv, OneConnection, LockWrite, Go, loopVars
<1>3. ASSUME NEW j \in Call PROVE CallInv(j)'
  BY Domains DEF Inv, Functions, CallInv, Claimed, LockWrite, Go, loopVars
<1>4. ASSUME NEW j \in Api PROVE VerdictInv(j)'
  BY DEF Inv, VerdictInv, LockWrite, Go
<1> QED
  BY <1>1, <1>2, <1>3, <1>4 DEF Inv

LEMMA WriteStep == ASSUME Inv, NEW k \in Call, Write(k) PROVE Inv'
<1>1. TypeOK'
  <2>1. st' \in [Call -> Place] /\ DOMAIN res' = Call /\ pending' \subseteq Call
    BY DEF Inv, TypeOK, Write, Go, Finish, Place
  <2>2. outbox' \in [Conn -> SUBSET Call]
    BY DEF Inv, TypeOK, Write
  <2>3. \A j \in Call : st'[j] \in {"register", "write", "writing", "wait"} =>
          via'[j] \in Conn /\ reader'[via'[j]] # "off"
    BY DEF Inv, TypeOK, Write, Go, Finish
  <2> QED
    BY <2>1, <2>2, <2>3 DEF Inv, TypeOK, Write, loopVars
<1>2. ConnInv'
  BY Domains, Names DEF Inv, Functions, ConnInv, OneConnection, Write, Go, Finish, loopVars
<1>3. ASSUME NEW j \in Call PROVE CallInv(j)'
  <2>1. CASE sock[via[k]] = "open" /\ Go(k, "wait") /\ UNCHANGED <<pending, res>>
    <3>1. via[k] = cur /\ loop = "serve"
      BY <2>1 DEF Inv, TypeOK, ConnInv, OneConnection, Write
    <3> QED
      BY <2>1, <3>1 DEF Inv, CallInv, Claimed, Write, Go, loopVars
  <2>2. CASE pending' = pending \ {k} /\ Finish(k, Error)
    BY <2>2, Domains DEF Inv, Functions, CallInv, Claimed, Write, Go, Finish, loopVars
  <2> QED
    BY <2>1, <2>2 DEF Write
<1>4. ASSUME NEW j \in Api PROVE VerdictInv(j)'
  BY Domains, Names, ErrorIsOutcome DEF Inv, Functions, VerdictInv, Write, Go, Finish
<1> QED
  BY <1>1, <1>2, <1>3, <1>4 DEF Inv

LEMMA ReceiveStep == ASSUME Inv, NEW k \in Call, Receive(k) PROVE Inv'
<1>1. TypeOK'
  BY DEF Inv, TypeOK, Receive, Go, Finish, loopVars, Place
<1>2. ConnInv'
  <2>1. \A c \in Conn : st'[c] = st[c] \/ (st[c] = "wait" /\ st'[c] = "done")
    BY Domains, Names DEF Inv, Functions, Receive, Finish, Go
  <2> QED
    BY <2>1 DEF Inv, ConnInv, OneConnection, Receive, loopVars
<1>3. ASSUME NEW j \in Call PROVE CallInv(j)'
  BY DEF Inv, CallInv, Claimed, Receive, Go, Finish, loopVars
<1>4. ASSUME NEW j \in Api PROVE VerdictInv(j)'
  <2>1. k \in Api => Returned(k, ch[k]) \in Exchange!Outcome
    BY ReturnedIsOutcome DEF Inv, Receive
  <2> QED
    BY <2>1, Domains DEF Inv, Functions, VerdictInv, Receive, Go, Finish
<1> QED
  BY <1>1, <1>2, <1>3, <1>4 DEF Inv

LEMMA TimeoutStep == ASSUME Inv, NEW k \in Call, Timeout(k) PROVE Inv'
<1>1. TypeOK'
  <2>1. st' \in [Call -> Place] /\ DOMAIN res' = Call /\ pending' \subseteq Call
    BY DEF Inv, TypeOK, Timeout, Go, Finish, Place
  <2>2. \A j \in Call : st'[j] \in {"register", "write", "writing", "wait"} =>
          via'[j] \in Conn /\ reader'[via'[j]] # "off"
    BY DEF Inv, TypeOK, Timeout, Go, Finish
  <2> QED
    BY <2>1, <2>2 DEF Inv, TypeOK, Timeout, loopVars
<1>2. ConnInv'
  BY DEF Inv, ConnInv, OneConnection, Timeout, Go, Finish, loopVars
<1>3. ASSUME NEW j \in Call PROVE CallInv(j)'
  BY Domains DEF Inv, Functions, CallInv, Claimed, Timeout, Go, Finish, loopVars
<1>4. ASSUME NEW j \in Api PROVE VerdictInv(j)'
  BY Domains, ErrorIsOutcome DEF Inv, Functions, VerdictInv, Timeout, Go, Finish
<1> QED
  BY <1>1, <1>2, <1>3, <1>4 DEF Inv

\* The watchdog
LEMMA WatchTickStep == ASSUME Inv, NEW c \in Conn, WatchTick(c) PROVE Inv'
<1>1. TypeOK'
  BY Names DEF Inv, TypeOK, ConnInv, WatchTick, Go, loopVars, Place
<1>2. ConnInv'
  BY DEF Inv, ConnInv, OneConnection, WatchTick, Go, loopVars
<1>3. ASSUME NEW j \in Call PROVE CallInv(j)'
  BY Domains DEF Inv, Functions, CallInv, Claimed, WatchTick, Go, loopVars
<1>4. ASSUME NEW j \in Api PROVE VerdictInv(j)'
  <2>1. st'[j] = st[j] /\ ch'[j] = ch[j]
    BY Domains, Names DEF Inv, Functions, WatchTick, Go
  <2> QED
    BY <2>1 DEF Inv, VerdictInv, WatchTick
<1> QED
  BY <1>1, <1>2, <1>3, <1>4 DEF Inv

LEMMA WatchResultStep == ASSUME Inv, NEW c \in Conn, WatchResult(c) PROVE Inv'
<1>1. TypeOK'
  <2>1. st' \in [Call -> Place] /\ DOMAIN res' = Call
    BY DEF Inv, TypeOK, WatchResult, Go, Place
  <2>2. watch' \in [Conn -> BOOLEAN]
    BY DEF Inv, TypeOK, WatchResult
  <2>3. /\ sock' \in [Conn -> {"none", "open", "closed", "abandoned"}]
        /\ peer' \in [Conn -> {"up", "hung", "full", "gone"}]
        /\ outbox' \in [Conn -> SUBSET Call] /\ inbox' \in [Conn -> SUBSET Call]
    <3>1. CASE res[c] = Error
      BY <3>1 DEF Inv, TypeOK, WatchResult, Close
    <3>2. CASE res[c] # Error
      BY <3>2 DEF Inv, TypeOK, WatchResult
    <3> QED
      BY <3>1, <3>2
  <2>4. \A j \in Call : st'[j] \in {"register", "write", "writing", "wait"} =>
          via'[j] \in Conn /\ reader'[via'[j]] # "off"
    BY DEF Inv, TypeOK, WatchResult, Go
  <2> QED
    BY <2>1, <2>2, <2>3, <2>4 DEF Inv, TypeOK, WatchResult, Close
<1>2. ConnInv'
  BY Domains, Names DEF Inv, Functions, ConnInv, OneConnection, WatchResult, Go, Close
<1>3. ASSUME NEW j \in Call PROVE CallInv(j)'
  BY Domains, Names DEF Inv, Functions, CallInv, Claimed, WatchResult, Go
<1>4. ASSUME NEW j \in Api PROVE VerdictInv(j)'
  BY Domains, Names DEF Inv, Functions, VerdictInv, WatchResult, Go, Close
<1> QED
  BY <1>1, <1>2, <1>3, <1>4 DEF Inv

LEMMA WatchStopsStep == ASSUME Inv, NEW c \in Conn, WatchStops(c) PROVE Inv'
<1>1. TypeOK'
  BY DEF Inv, TypeOK, WatchStops, loopVars, callVars
<1>2. ConnInv'
  BY DEF Inv, ConnInv, OneConnection, WatchStops, loopVars, callVars
<1>3. ASSUME NEW j \in Call PROVE CallInv(j)'
  BY DEF Inv, CallInv, Claimed, WatchStops, callVars
<1>4. ASSUME NEW j \in Api PROVE VerdictInv(j)'
  <2>1. UNCHANGED <<verdict, ch, outbox, inbox, claim, via, st, res>>
    BY DEF WatchStops, callVars
  <2> QED
    BY <2>1 DEF Inv, VerdictInv
<1> QED
  BY <1>1, <1>2, <1>3, <1>4 DEF Inv

\* The read loop
LEMMA ReadStep == ASSUME Inv, NEW c \in Conn, Read(c) PROVE Inv'
<1>1. TypeOK'
  BY DEF Inv, TypeOK, Read, loopVars, callVars
<1>2. ConnInv'
  BY Domains DEF Inv, Functions, ConnInv, OneConnection, Read, loopVars, callVars
<1>3. ASSUME NEW j \in Call PROVE CallInv(j)'
  <2>1. PICK i \in inbox[c] :
          /\ pending' = pending \ {i}
          /\ IF i \in pending THEN claim' = [claim EXCEPT ![c] = i] ELSE UNCHANGED claim
    BY DEF Read
  <2>2. i # None
    BY Nil DEF Inv, TypeOK
  <2>3. CASE i \in pending
    <3>1. \A a \in Call : Claimed(a)' <=> Claimed(a) \/ a = i
      BY <2>1, <2>3, Nil, Domains DEF Inv, Functions, Claimed, Read
    <3> QED
      BY <2>1, <2>3, <3>1 DEF Inv, CallInv, Read, loopVars, callVars
  <2>4. CASE i \notin pending
    <3>1. pending' = pending /\ claim' = claim
      BY <2>1, <2>4
    <3>2. UNCHANGED <<stopped, cur, loop, watch, st, via, res, ch>>
      BY DEF Read, loopVars, callVars
    <3> QED
      BY <3>1, <3>2 DEF Inv, CallInv, Claimed
  <2> QED
    BY <2>3, <2>4
<1>4. ASSUME NEW j \in Api PROVE VerdictInv(j)'
  <2>1. PICK i \in inbox[c] :
          /\ inbox' = [inbox EXCEPT ![c] = @ \ {i}]
          /\ IF i \in pending THEN claim' = [claim EXCEPT ![c] = i] ELSE UNCHANGED claim
    BY DEF Read
  <2>2. \A a \in Conn : /\ j \in inbox'[a] => j \in inbox[a]
                        /\ claim'[a] = j => claim[a] = j \/ i = j
    BY <2>1, Domains DEF Inv, Functions
  <2>3. i = j => verdict[j] # None
    BY <2>1 DEF Inv, VerdictInv
  <2>4. UNCHANGED <<verdict, ch, outbox, via, st, res>>
    BY DEF Read, callVars
  <2> QED
    BY <2>2, <2>3, <2>4 DEF Inv, VerdictInv
<1> QED
  BY <1>1, <1>2, <1>3, <1>4 DEF Inv

LEMMA DeliverStep == ASSUME Inv, NEW c \in Conn, Deliver(c) PROVE Inv'
<1>1. TypeOK'
  BY DEF Inv, TypeOK, Deliver, loopVars, callVars
<1>2. ConnInv'
  <2>1. \A a \in Conn : claim'[a] # None => claim[a] # None
    BY Domains DEF Inv, Functions, Deliver
  <2>2. UNCHANGED <<conn, loop, cur, dialled, sock, reader, watch, st, via>>
    BY DEF Deliver, loopVars, callVars
  <2> QED
    BY <2>1, <2>2 DEF Inv, ConnInv, OneConnection
<1>3. ASSUME NEW j \in Call PROVE CallInv(j)'
  <2> DEFINE i == claim[c]
  <2>1. i \in Call /\ c = cur
    BY DEF Inv, TypeOK, ConnInv, Running, Deliver
  <2>2. ch'[i] # None
    BY <2>1, Nil, Domains DEF Inv, Functions, VerdictInv, Deliver
  <2>3. \A a \in Call : Claimed(a)' <=> Claimed(a) /\ a # i
    BY <2>1, Nil, Domains DEF Inv, Functions, ConnInv, Running, Claimed, Deliver
  <2>4. \A a \in Call : a # i => ch'[a] = ch[a]
    BY <2>1, Domains DEF Inv, Functions, Deliver
  <2>5. Claimed(i)
    BY DEF Claimed
  <2> QED
    BY <2>1, <2>2, <2>3, <2>4, <2>5 DEF Inv, CallInv, Deliver, loopVars, callVars
<1>4. ASSUME NEW j \in Api PROVE VerdictInv(j)'
  BY Names, Nil DEF Inv, VerdictInv, Deliver, callVars
<1> QED
  BY <1>1, <1>2, <1>3, <1>4 DEF Inv

\* Answering a request of the peer moves the read loop about and nothing else.
LEMMA RequestStep ==
  ASSUME Inv, NEW c \in Conn, ReadRequest(c) \/ AnswerRequest(c) PROVE Inv'
<1>1. /\ reader[c] \in Running /\ claim[c] = None
      /\ \E to \in Running : reader' = [reader EXCEPT ![c] = to]
  BY DEF Inv, ConnInv, Running, ReadRequest, AnswerRequest
<1>2. UNCHANGED <<stopped, conn, pending, loop, cur, dialled, sock, peer, outbox,
                  inbox, claim, watch, st, via, ch, res, verdict>>
  BY DEF ReadRequest, AnswerRequest, loopVars, callVars
<1>3. \A a \in Conn : /\ a # c => reader'[a] = reader[a]
                      /\ reader'[a] \in Running <=> reader[a] \in Running
                      /\ reader'[a] = "off" <=> reader[a] = "off"
  BY <1>1, Domains DEF Inv, Functions, Running
<1>4. TypeOK'
  <2>1. reader' \in [Conn -> {"off", "reading", "answer", "answering", "ended"}]
    BY <1>1 DEF Inv, TypeOK, Running
  <2> QED
    BY <1>2, <1>3, <2>1 DEF Inv, TypeOK
<1>5. ConnInv'
  BY <1>1, <1>2, <1>3, InRange DEF Inv, ConnInv, OneConnection
<1>6. \A j \in Call : CallInv(j)'
  BY <1>2 DEF Inv, CallInv, Claimed
<1>7. \A j \in Api : VerdictInv(j)'
  BY <1>2 DEF Inv, VerdictInv
<1> QED
  BY <1>4, <1>5, <1>6, <1>7 DEF Inv

LEMMA ReadFailsStep == ASSUME Inv, NEW c \in Conn, ReadFails(c) PROVE Inv'
<1>1. TypeOK'
  BY DEF Inv, TypeOK, ReadFails, loopVars, callVars
<1>2. ConnInv'
  <2>1. \A a \in Conn : reader'[a] = IF a = c THEN "ended" ELSE reader[a]
    BY Domains DEF Inv, Functions, ReadFails
  <2>2. loop = "handshake" => reader'[cur] = "off"
    BY <2>1 DEF Inv, ConnInv, ReadFails
  <2>3. conn # 0 => reader'[conn] # "off"
    BY <2>1, InRange DEF Inv, ConnInv
  <2>4. \A a \in Conn : /\ reader'[a] \in Running => reader[a] \in Running
                        /\ reader'[a] = "off" <=> reader[a] = "off"
                        /\ claim[a] # None => reader'[a] = "reading"
    BY <2>1 DEF Inv, ConnInv, Running, ReadFails
  <2>5. UNCHANGED <<conn, loopVars, claim, watch, callVars>>
    BY DEF ReadFails, loopVars, callVars
  <2> QED
    BY <2>2, <2>3, <2>4, <2>5 DEF Inv, ConnInv, OneConnection, loopVars, callVars
<1>3. ASSUME NEW j \in Call PROVE CallInv(j)'
  BY DEF Inv, CallInv, Claimed, ReadFails, loopVars, callVars
<1>4. ASSUME NEW j \in Api PROVE VerdictInv(j)'
  BY DEF Inv, VerdictInv, ReadFails, callVars
<1> QED
  BY <1>1, <1>2, <1>3, <1>4 DEF Inv

\* The connect loop and Stop
LEMMA DialStep == ASSUME Inv, Dial PROVE Inv'
<1>1. TypeOK'
  <2>1. dialled + 1 \in Conn /\ dialled \in Nat /\ dialled' = dialled + 1
    <3>1. MaxConn \in Nat /\ dialled \in 0..MaxConn
      BY SwmAssumption DEF Inv, TypeOK
    <3>2. dialled < MaxConn /\ dialled' = dialled + 1
      BY DEF Dial
    <3> QED
      BY <3>1, <3>2 DEF Conn
  <2>2. conn' \in 0..dialled' /\ cur' \in 0..dialled' /\ dialled' \in 0..MaxConn
    <3>1. /\ conn \in 0..dialled /\ cur \in 0..dialled
          /\ conn' = conn /\ (cur' = cur \/ cur' = dialled')
      BY DEF Inv, TypeOK, Dial
    <3>2. MaxConn \in Nat
      BY SwmAssumption
    <3> QED
      BY <2>1, <3>1, <3>2 DEF Conn
  <2>3. loop' \in {"dial", "handshake", "serve", "lost", "exit"}
    BY DEF Inv, TypeOK, Dial
  <2>4. sock' \in [Conn -> {"none", "open", "closed", "abandoned"}]
    BY <2>1 DEF Inv, TypeOK, Dial
  <2> QED
    BY <2>2, <2>3, <2>4 DEF Inv, TypeOK, Dial, callVars
<1>2. ConnInv'
  <2>1. dialled + 1 \in Conn /\ dialled \in Nat /\ dialled' = dialled + 1
    <3>1. MaxConn \in Nat /\ dialled \in 0..MaxConn
      BY SwmAssumption DEF Inv, TypeOK
    <3>2. dialled < MaxConn /\ dialled' = dialled + 1
      BY DEF Dial
    <3> QED
      BY <3>1, <3>2 DEF Conn
  <2>2. \A c \in Conn : c \in Nat /\ sock[c] # "open" /\ reader[c] \notin Running
    BY InRange DEF Inv, ConnInv, OneConnection, Dial
  <2>3. reader[dialled'] = "off" /\ \A c \in Conn : c > dialled' => reader[c] = "off"
    BY <2>1, <2>2 DEF Inv, ConnInv
  <2>4. \A c \in Conn : sock'[c] = "open" => c = cur' /\ loop' = "handshake"
    BY <2>1, <2>2, Domains DEF Inv, Functions, Dial
  <2>5. /\ loop' \in {"handshake", "serve", "lost"} => cur' \in Conn
        /\ loop' = "handshake" => cur' = dialled'
    BY <2>1 DEF Dial
  <2> QED
    BY <2>2, <2>3, <2>4, <2>5 DEF Inv, ConnInv, OneConnection, Dial, callVars
<1>3. ASSUME NEW j \in Call PROVE CallInv(j)'
  BY DEF Inv, CallInv, Claimed, Dial, callVars
<1>4. ASSUME NEW j \in Api PROVE VerdictInv(j)'
  BY DEF Inv, VerdictInv, Dial, callVars
<1> QED
  BY <1>1, <1>2, <1>3, <1>4 DEF Inv

LEMMA HandshakeStep == ASSUME Inv, Handshake PROVE Inv'
<1>1. TypeOK'
  <2>1. CASE Close(cur) /\ loop' = "dial" /\ UNCHANGED <<conn, reader, watch, st>>
    BY <2>1 DEF Inv, TypeOK, Handshake, Close
  <2>2. CASE /\ conn' = cur /\ loop' = "serve"
             /\ st' = [k \in Call |-> IF st[k] = "opening" THEN "woken" ELSE st[k]]
             /\ reader' = [reader EXCEPT ![cur] = "reading"]
             /\ watch' = [watch EXCEPT ![cur] = TRUE]
             /\ UNCHANGED <<sock, peer, outbox, inbox>>
    <3>1. cur \in Conn /\ conn' \in 0..dialled
      BY <2>2 DEF Inv, TypeOK, ConnInv, Handshake
    <3>2. st' \in [Call -> Place]
      BY <2>2 DEF Inv, TypeOK, Place
    <3>3. /\ reader' \in [Conn -> {"off", "reading", "answer", "answering", "ended"}]
          /\ watch' \in [Conn -> BOOLEAN]
      BY <2>2, <3>1 DEF Inv, TypeOK
    <3>4. \A j \in Call : st'[j] \in {"register", "write", "writing", "wait"} =>
            via[j] \in Conn /\ reader'[via[j]] # "off"
      BY <2>2, <3>1, Domains DEF Inv, TypeOK, Functions
    <3> QED
      BY <2>2, <3>1, <3>2, <3>3, <3>4 DEF Inv, TypeOK, Handshake
  <2> QED
    BY <2>1, <2>2 DEF Handshake
<1>2. ConnInv'
  <2>1. CASE Close(cur) /\ loop' = "dial" /\ UNCHANGED <<conn, reader, watch, st>>
    BY <2>1, Domains DEF Inv, Functions, ConnInv, OneConnection, Handshake, Close
  <2>2. CASE /\ conn' = cur /\ loop' = "serve"
             /\ st' = [k \in Call |-> IF st[k] = "opening" THEN "woken" ELSE st[k]]
             /\ reader' = [reader EXCEPT ![cur] = "reading"]
             /\ watch' = [watch EXCEPT ![cur] = TRUE]
             /\ UNCHANGED <<sock, peer, outbox, inbox>>
    <3>1. cur \in Conn /\ reader[cur] = "off" /\ st[cur] = "idle"
      BY DEF Inv, ConnInv, Handshake
    <3>2. \A c \in Conn : reader'[c] = IF c = cur THEN "reading" ELSE reader[c]
      BY <2>2, Domains DEF Inv, Functions
    <3>3. \A c \in Conn : c # cur => watch'[c] = watch[c]
      BY <2>2, Domains DEF Inv, Functions
    <3>4. \A c \in Conn : st'[c] = st[c]
      BY <2>2, Names DEF Inv, ConnInv
    <3>5. ~ (cur > dialled)
      BY SwmAssumption DEF Inv, TypeOK, Conn
    <3>6. OneConnection'
      BY <2>2 DEF Inv, ConnInv, OneConnection, Handshake
    <3>7. ASSUME NEW c \in Conn, c # cur
          PROVE  reader[c] \notin Running /\ (watch'[c] => reader[c] # "off")
      BY <3>3, <3>7 DEF Inv, ConnInv, Handshake
    <3>8. \A c \in Conn : /\ c > dialled => reader'[c] = "off"
                          /\ claim[c] # None => reader'[c] = "reading"
                          /\ reader'[c] = "off" => st[c] = "idle"
      BY <3>1, <3>2, <3>5 DEF Inv, ConnInv
    <3>9. \A c \in Conn : reader'[c] \in Running => c = cur
      BY <3>2, <3>7 DEF Running
    <3>10. \A c \in Conn : via[c] = c /\ st[c] \notin {"opening", "woken", "opened"}
      BY DEF Inv, ConnInv
    <3>11. UNCHANGED <<cur, dialled, claim, via>>
      BY DEF Handshake
    <3>12. \A c \in Conn : watch'[c] => reader'[c] # "off"
      BY <3>2, <3>7
    <3>13. /\ loop' \in {"handshake", "serve", "lost"} => cur' \in Conn
           /\ loop' = "handshake" => reader'[cur'] = "off"
           /\ conn' # 0 => reader'[conn'] # "off"
      BY <2>2, <3>1, <3>2, <3>11
    <3>14. \A c \in Conn :
             /\ reader'[c] \in Running => c = cur' /\ loop' \in {"serve", "exit"}
             /\ c > dialled' => reader'[c] = "off"
             /\ claim'[c] # None => reader'[c] = "reading"
             /\ via'[c] = c
             /\ st'[c] \notin {"opening", "woken", "opened"}
             /\ reader'[c] = "off" => st'[c] = "idle"
      <4>1. loop' = "serve"
        BY <2>2
      <4>2. cur' = cur /\ dialled' = dialled /\ claim' = claim /\ via' = via
        BY <3>11
      <4> QED
        BY <4>1, <4>2, <3>4, <3>8, <3>9, <3>10
    <3> QED
      BY <3>6, <3>12, <3>13, <3>14, Zenon DEF ConnInv
  <2> QED
    BY <2>1, <2>2 DEF Handshake
<1>3. ASSUME NEW j \in Call PROVE CallInv(j)'
  <2>1. CASE Close(cur) /\ loop' = "dial" /\ UNCHANGED <<conn, reader, watch, st>>
    BY <2>1 DEF Inv, CallInv, Claimed, Handshake
  <2>2. CASE /\ conn' = cur /\ loop' = "serve"
             /\ st' = [k \in Call |-> IF st[k] = "opening" THEN "woken" ELSE st[k]]
             /\ reader' = [reader EXCEPT ![cur] = "reading"]
             /\ watch' = [watch EXCEPT ![cur] = TRUE]
             /\ UNCHANGED <<sock, peer, outbox, inbox>>
    <3>1. cur \in Conn /\ st[cur] = "idle"
      BY DEF Inv, ConnInv, Handshake
    <3>2. /\ st'[j] = IF st[j] = "opening" THEN "woken" ELSE st[j]
          /\ j \in Conn => watch'[j] = watch[j] \/ j = cur
      BY <2>2, <3>1, Domains, Names DEF Inv, Functions
    <3> QED
      BY <2>2, <3>1, <3>2 DEF Inv, CallInv, Claimed, Handshake
  <2> QED
    BY <2>1, <2>2 DEF Handshake
<1>4. ASSUME NEW j \in Api PROVE VerdictInv(j)'
  <2>1. \A c \in Conn : outbox'[c] \subseteq outbox[c] /\ inbox'[c] \subseteq inbox[c]
    BY Domains DEF Inv, Functions, Handshake, Close
  <2>2. st'[j] = st[j] \/ (st[j] = "opening" /\ st'[j] = "woken")
    BY Names DEF Handshake
  <2>3. UNCHANGED <<verdict, ch, via, claim, res>>
    BY DEF Handshake
  <2> QED
    BY <2>1, <2>2, <2>3 DEF Inv, VerdictInv
<1> QED
  BY <1>1, <1>2, <1>3, <1>4 DEF Inv

LEMMA ServeEndsStep == ASSUME Inv, ServeEnds PROVE Inv'
<1>1. TypeOK'
  BY DEF Inv, TypeOK, ConnInv, ServeEnds, Close, callVars
<1>2. ConnInv'
  BY Domains DEF Inv, Functions, ConnInv, OneConnection, Running, ServeEnds, Close, callVars
<1>3. ASSUME NEW j \in Call PROVE CallInv(j)'
  BY DEF Inv, CallInv, Claimed, ServeEnds, callVars
<1>4. ASSUME NEW j \in Api PROVE VerdictInv(j)'
  <2>1. \A c \in Conn : outbox'[c] \subseteq outbox[c] /\ inbox'[c] \subseteq inbox[c]
    BY Domains DEF Inv, Functions, ServeEnds, Close
  <2> QED
    BY <2>1 DEF Inv, VerdictInv, ServeEnds, callVars
<1> QED
  BY <1>1, <1>2, <1>3, <1>4 DEF Inv

LEMMA WithdrawStep == ASSUME Inv, Withdraw PROVE Inv'
<1>1. TypeOK'
  <2>1. conn' \in 0..dialled
    <3>1. dialled \in Nat /\ conn \in 0..dialled
      BY SwmAssumption DEF Inv, TypeOK
    <3>2. conn' = 0 \/ conn' = conn
      BY DEF Withdraw
    <3> QED
      BY <3>1, <3>2
  <2>2. /\ ch' \in [Call -> Verdict \cup {Acknowledged, Lost, None}]
        /\ pending' \subseteq Call
    BY DEF Inv, TypeOK, Withdraw, FailPending
  <2>3. loop' \in {"dial", "handshake", "serve", "lost", "exit"}
    BY DEF Withdraw
  <2> QED
    BY <2>1, <2>2, <2>3 DEF Inv, TypeOK, Withdraw, callVars
<1>2. ConnInv'
  BY DEF Inv, ConnInv, OneConnection, Withdraw, callVars
<1>3. ASSUME NEW j \in Call PROVE CallInv(j)'
  <2>1. ~ Claimed(j)
    <3>1. \A c \in Conn : reader[c] # "reading"
      BY DEF Inv, ConnInv, Running, Withdraw
    <3> QED
      BY <3>1, Nil DEF Inv, ConnInv, Claimed
  <2>2. ch'[j] = (IF j \in pending THEN Lost ELSE ch[j]) /\ pending' = {}
    BY DEF Withdraw, FailPending
  <2>3. ~ Claimed(j)'
    BY <2>1 DEF Claimed, Withdraw
  <2> QED
    BY <2>1, <2>2, <2>3, Nil DEF Inv, CallInv, Withdraw, callVars
<1>4. ASSUME NEW j \in Api PROVE VerdictInv(j)'
  BY Names DEF Inv, VerdictInv, Withdraw, FailPending, callVars
<1> QED
  BY <1>1, <1>2, <1>3, <1>4 DEF Inv

LEMMA LoopExitsStep == ASSUME Inv, LoopExits PROVE Inv'
<1>1. TypeOK'
  BY DEF Inv, TypeOK, LoopExits, callVars
<1>2. ConnInv'
  BY DEF Inv, ConnInv, OneConnection, LoopExits, callVars
<1>3. ASSUME NEW j \in Call PROVE CallInv(j)'
  BY DEF Inv, CallInv, Claimed, LoopExits, callVars
<1>4. ASSUME NEW j \in Api PROVE VerdictInv(j)'
  BY DEF Inv, VerdictInv, LoopExits, callVars
<1> QED
  BY <1>1, <1>2, <1>3, <1>4 DEF Inv

LEMMA StopStep == ASSUME Inv, Stop PROVE Inv'
<1>1. TypeOK'
  <2>1. /\ sock' \in [Conn -> {"none", "open", "closed", "abandoned"}]
        /\ peer' \in [Conn -> {"up", "hung", "full", "gone"}]
        /\ outbox' \in [Conn -> SUBSET Call] /\ inbox' \in [Conn -> SUBSET Call]
    <3>1. CASE conn = 0
      BY <3>1 DEF Inv, TypeOK, Stop
    <3>2. CASE conn # 0
      BY <3>2 DEF Inv, TypeOK, Stop, Close
    <3> QED
      BY <3>1, <3>2
  <2>2. /\ ch' \in [Call -> Verdict \cup {Acknowledged, Lost, None}]
        /\ pending' \subseteq Call
    BY DEF Inv, TypeOK, Stop, FailPending
  <2> QED
    BY <2>1, <2>2 DEF Inv, TypeOK, Stop, callVars
<1>2. ConnInv'
  <2>1. \A c \in Conn : sock'[c] = "open" => sock[c] = "open"
    BY Domains DEF Inv, Functions, Stop, Close
  <2> QED
    BY <2>1 DEF Inv, ConnInv, OneConnection, Stop, callVars
<1>3. ASSUME NEW j \in Call PROVE CallInv(j)'
  BY Nil DEF Inv, CallInv, Claimed, Stop, FailPending, callVars
<1>4. ASSUME NEW j \in Api PROVE VerdictInv(j)'
  <2>1. \A c \in Conn : outbox'[c] \subseteq outbox[c] /\ inbox'[c] \subseteq inbox[c]
    BY Domains DEF Inv, Functions, Stop, Close
  <2>2. ch'[j] \in {ch[j], Lost}
    BY Names DEF Stop, FailPending
  <2> QED
    BY <2>1, <2>2 DEF Inv, VerdictInv, Stop, callVars
<1> QED
  BY <1>1, <1>2, <1>3, <1>4 DEF Inv

\* The AAA server
LEMMA PeerAnswersStep == ASSUME Inv, NEW c \in Conn, PeerAnswers(c) PROVE Inv'
<1>1. TypeOK'
  <2>1. outbox' \in [Conn -> SUBSET Call] /\ inbox' \in [Conn -> SUBSET Call]
    BY DEF Inv, TypeOK, PeerAnswers
  <2>2. verdict' \in [Api -> Verdict \cup {Acknowledged, None}]
    BY DEF Inv, TypeOK, PeerAnswers
  <2> QED
    BY <2>1, <2>2 DEF Inv, TypeOK, PeerAnswers, loopVars, callVars
<1>2. ConnInv'
  BY DEF Inv, ConnInv, OneConnection, PeerAnswers, loopVars, callVars
<1>3. ASSUME NEW j \in Call PROVE CallInv(j)'
  BY DEF Inv, CallInv, Claimed, PeerAnswers, loopVars, callVars
<1>4. ASSUME NEW j \in Api PROVE VerdictInv(j)'
  <2>1. PICK k \in outbox[c], v \in Verdict \cup {Acknowledged} :
          /\ k \in Der <=> v \in Verdict
          /\ verdict' = [a \in Api |-> IF a = k THEN v ELSE verdict[a]]
          /\ outbox' = [outbox EXCEPT ![c] = @ \ {k}]
          /\ inbox' = [inbox EXCEPT ![c] = @ \cup {k}]
    BY DEF PeerAnswers
  <2>2. /\ verdict'[j] = IF j = k THEN v ELSE verdict[j]
        /\ \A a \in Conn : /\ outbox'[a] = IF a = c THEN outbox[a] \ {k} ELSE outbox[a]
                           /\ inbox'[a] = IF a = c THEN inbox[a] \cup {k} ELSE inbox[a]
    BY <2>1, Domains DEF Inv, Functions
  <2>3. UNCHANGED <<st, via, ch, res, claim>>
    BY DEF PeerAnswers, callVars
  <2>4. CASE j = k
    <3>1. verdict[j] = None /\ c = via[j] /\ st[j] \in {"wait", "done"}
      BY <2>1, <2>4 DEF Inv, VerdictInv
    <3>2. v # None /\ (IF j \in Der THEN v \in Verdict ELSE v = Acknowledged)
      BY <2>1, <2>4, Nil
    <3>3. ch[j] \in {None, Lost} /\ \A a \in Conn : j \in outbox[a] => a = c
      BY <3>1 DEF Inv, VerdictInv
    <3>4. verdict'[j] = v /\ \A a \in Conn : j \notin outbox'[a]
      BY <2>2, <2>4, <3>3
    <3>5. st[j] = "done" => res[j] \in Exchange!Outcome
      BY DEF Inv, VerdictInv
    <3> QED
      BY <2>3, <3>1, <3>2, <3>3, <3>4, <3>5 DEF VerdictInv
  <2>5. CASE j # k
    <3>1. /\ verdict'[j] = verdict[j]
          /\ \A a \in Conn : /\ j \in outbox'[a] => j \in outbox[a]
                             /\ j \in inbox'[a] => j \in inbox[a]
      BY <2>2, <2>5
    <3> QED
      BY <2>3, <3>1 DEF Inv, VerdictInv
  <2> QED
    BY <2>4, <2>5
<1> QED
  BY <1>1, <1>2, <1>3, <1>4 DEF Inv

LEMMA PeerFailsStep == ASSUME Inv, NEW c \in Conn, PeerFails(c) PROVE Inv'
<1>1. TypeOK'
  <2>1. peer' \in [Conn -> {"up", "hung", "full", "gone"}]
    BY DEF Inv, TypeOK, PeerFails
  <2> QED
    BY <2>1 DEF Inv, TypeOK, PeerFails, loopVars, callVars
<1>2. ConnInv'
  BY DEF Inv, ConnInv, OneConnection, PeerFails, loopVars, callVars
<1>3. ASSUME NEW j \in Call PROVE CallInv(j)'
  BY DEF Inv, CallInv, Claimed, PeerFails, loopVars, callVars
<1>4. ASSUME NEW j \in Api PROVE VerdictInv(j)'
  BY DEF Inv, VerdictInv, PeerFails, callVars
<1> QED
  BY <1>1, <1>2, <1>3, <1>4 DEF Inv

-----------------------------------------------------------------------------
\* Every step preserves the invariant.
LEMMA CallSteps == ASSUME Inv, NEW k \in Call, Step(k) \/ Timeout(k) PROVE Inv'
BY AwaitOpenStep, SendRequestStep, RegisterStep, LockWriteStep, WriteStep,
   ReceiveStep, TimeoutStep DEF Step

LEMMA NextInv == Inv /\ [Next]_vars => Inv'
<1> SUFFICES ASSUME Inv, [Next]_vars PROVE Inv'
  OBVIOUS
<1>1. CASE \E k \in Api : Begin(k) \/ Step(k) \/ Timeout(k)
  BY <1>1, BeginStep, CallSteps, Names
<1>2. ASSUME NEW c \in Conn, Watchdog(c) PROVE Inv'
  BY <1>2, CallSteps, WatchTickStep, WatchResultStep, WatchStopsStep, Names DEF Watchdog
<1>3. ASSUME NEW c \in Conn, ReadLoop(c) PROVE Inv'
  BY <1>3, ReadStep, DeliverStep, RequestStep, ReadFailsStep DEF ReadLoop
<1>4. ASSUME NEW c \in Conn, ReadRequest(c) \/ PeerAnswers(c) \/ PeerFails(c)
      PROVE  Inv'
  BY <1>4, RequestStep, PeerAnswersStep, PeerFailsStep
<1>5. CASE ConnectLoop
  BY <1>5, DialStep, HandshakeStep, ServeEndsStep, WithdrawStep, LoopExitsStep
     DEF ConnectLoop
<1>6. CASE Stop
  BY <1>6, StopStep
<1>7. CASE UNCHANGED vars
  <2>1. TypeOK'
    BY <1>7 DEF Inv, TypeOK, vars
  <2>2. ConnInv'
    BY <1>7 DEF Inv, ConnInv, OneConnection, vars
  <2>3. \A k \in Call : CallInv(k)'
    BY <1>7 DEF Inv, CallInv, Claimed, vars
  <2>4. \A k \in Api : VerdictInv(k)'
    BY <1>7 DEF Inv, VerdictInv, vars
  <2> QED
    BY <2>1, <2>2, <2>3, <2>4 DEF Inv
<1> QED
  BY <1>1, <1>2, <1>3, <1>4, <1>5, <1>6, <1>7 DEF Next

LEMMA Invariance == Spec => []Inv
<1>1. Init => Inv
  BY InitInv
<1>2. Inv /\ [Next]_vars => Inv'
  BY NextInv
<1> QED
  BY <1>1, <1>2, PTL DEF Spec

\* The client's variables keep their types, and a call past sendRequest holds
\* a published connection.
THEOREM TypeCorrectness == Spec => []TypeOK
<1>1. Inv => TypeOK
  BY DEF Inv
<1> QED
  BY <1>1, Invariance, PTL

\* readLoop and failPendingLocked never block on a response channel.
THEOREM NoSendBlocks == Spec => []SendsNeverBlock
<1>1. Inv => SendsNeverBlock
  <2> SUFFICES ASSUME Inv, NEW k \in Call, k \in pending \/ Claimed(k)
               PROVE  /\ ch[k] = None
                      /\ ~ (k \in pending /\ Claimed(k))
                      /\ \A b, c \in Conn : claim[b] = k /\ claim[c] = k => b = c
    BY DEF SendsNeverBlock
  <2>1. ch[k] = None /\ ~ (k \in pending /\ Claimed(k))
    BY DEF Inv, CallInv
  <2>2. \A b \in Conn : claim[b] = k => b = cur
    BY Nil DEF Inv, ConnInv, Running
  <2> QED
    BY <2>1, <2>2
<1> QED
  BY <1>1, Invariance, PTL

\* connectLoop closes a connection before it fails the pending calls, so none
\* that waits is left behind.
THEOREM NoWaiterForgotten == Spec => []WaitersReachable
<1>1. Inv => WaitersReachable
  BY DEF Inv, CallInv, WaitersReachable
<1> QED
  BY <1>1, Invariance, PTL

\* sendRequestOnConn takes its entry out of the pending table on every path.
THEOREM PendingTableIsLive == Spec => []PendingIsLive
<1>1. Inv => PendingIsLive
  BY DEF Inv, TypeOK, CallInv, PendingIsLive
<1> QED
  BY <1>1, Invariance, PTL

\* connectLoop closes what it replaces: one connection is open at most.
THEOREM AtMostOneConnection == Spec => []OneConnection
<1>1. Inv => OneConnection
  BY DEF Inv, ConnInv
<1> QED
  BY <1>1, Invariance, PTL

-----------------------------------------------------------------------------
\* What a caller is told is none of a step's business that leaves the API
\* calls alone.
LEMMA ToldKept ==
  ASSUME \A k \in Api : st'[k] = st[k] /\ res'[k] = res[k]
  PROVE  Told' = Told
BY DEF Told

\* One call, and nobody else, is told an outcome.
LEMMA Tells ==
  ASSUME Inv, NEW k \in Call, NEW r, Finish(k, r), st[k] \notin {"idle", "done"},
         UNCHANGED verdict,
         k \in Api => r \in Exchange!Outcome /\ Exchange!Justified(r, verdict[k])
  PROVE  Exchange!Next \/ UNCHANGED <<verdict, Told>>
<1>1. /\ st'[k] = "done" /\ res'[k] = r
      /\ \A j \in Call : j # k => st'[j] = st[j] /\ res'[j] = res[j]
  BY Domains DEF Inv, Functions, Finish, Go
<1>2. CASE k \notin Api
  BY <1>1, <1>2, ToldKept, Names
<1>3. CASE k \in Api
  <2>1. Told[k].state = "asked"
    BY <1>3 DEF Told
  <2>2. Told' = [Told EXCEPT ![k] = r]
    BY <1>1, <1>3, Names DEF Told
  <2> QED
    BY <1>3, <2>1, <2>2 DEF Exchange!Next, Exchange!Tell
<1> QED
  BY <1>2, <1>3

LEMMA ErrorJustified == \A k : Exchange!Justified(Error, verdict[k])
BY DEF Error, Exchange!Justified

\* A step of a call is a step of the abstract exchange, or none.
LEMMA CallsRefine ==
  ASSUME Inv, NEW k \in Call, Step(k) \/ Timeout(k)
  PROVE  Exchange!Next \/ UNCHANGED <<verdict, Told>>
<1>1. CASE Timeout(k)
  BY <1>1, Tells, ErrorIsOutcome, ErrorJustified DEF Timeout
<1>2. CASE Receive(k)
  BY <1>2, Tells, ReturnedIsOutcome DEF Inv, Receive
<1>3. ASSUME NEW to \in {"opened", "register", "write", "writing", "wait"}, Go(k, to),
             st[k] \notin {"idle", "done"}, UNCHANGED <<res, verdict>>
      PROVE  UNCHANGED <<verdict, Told>>
  <2>1. \A j \in Api : /\ st'[j] = IF j = k THEN to ELSE st[j]
                       /\ res'[j] = res[j]
    BY <1>3, Domains, Names DEF Inv, Functions, Go
  <2> QED
    BY <1>3, <2>1 DEF Told
<1>4. CASE AwaitOpen(k)
  BY <1>3, <1>4, Tells, ErrorIsOutcome, ErrorJustified DEF AwaitOpen
<1>5. CASE SendRequest(k)
  BY <1>3, <1>5, Tells, ErrorIsOutcome, ErrorJustified DEF SendRequest
<1>6. CASE Register(k)
  BY <1>3, <1>6 DEF Register
<1>7. CASE LockWrite(k)
  BY <1>3, <1>7 DEF LockWrite
<1>8. CASE Write(k)
  BY <1>3, <1>8, Tells, ErrorIsOutcome, ErrorJustified DEF Write
<1> QED
  BY <1>1, <1>2, <1>4, <1>5, <1>6, <1>7, <1>8 DEF Step

LEMMA BeginRefines == ASSUME Inv, NEW k \in Api, Begin(k) PROVE Exchange!Next
<1>1. /\ st'[k] \in {"opened", "opening"} /\ st[k] = "idle"
      /\ \A j \in Api : j # k => st'[j] = st[j]
      /\ UNCHANGED <<res, verdict>>
  BY Domains, Names DEF Inv, Functions, Begin, Go
<1>2. Told[k].state = "idle"
  BY <1>1 DEF Told
<1>3. Told' = [Told EXCEPT ![k] = [state |-> "asked"]]
  BY <1>1 DEF Told
<1> QED
  BY <1>1, <1>2, <1>3 DEF Exchange!Next, Exchange!Ask

\* The AAA server decides once on each request, and only on one it was asked.
LEMMA PeerRefines ==
  ASSUME Inv, NEW c \in Conn, PeerAnswers(c)
  PROVE  Exchange!Next \/ UNCHANGED <<verdict, Told>>
<1>1. PICK k \in outbox[c], v \in Verdict \cup {Acknowledged} :
        verdict' = [a \in Api |-> IF a = k THEN v ELSE verdict[a]]
  BY DEF PeerAnswers
<1>2. Told' = Told
  BY DEF PeerAnswers, callVars, Told
<1>3. CASE k \notin Api
  <2>1. verdict' = verdict
    BY <1>1, <1>3 DEF Inv, TypeOK
  <2> QED
    BY <1>2, <2>1
<1>4. CASE k \in Api
  <2>1. verdict[k] = None /\ st[k] \in {"wait", "done"}
    BY <1>1, <1>4 DEF Inv, VerdictInv
  <2>2. Told[k].state # "idle"
    <3>1. st[k] = "done" => res[k] \in Exchange!Outcome
      BY <1>4 DEF Inv, VerdictInv
    <3>2. \A o \in Exchange!Outcome : o.state # "idle"
      BY DEF Exchange!Outcome
    <3> QED
      BY <1>4, <2>1, <3>1, <3>2 DEF Told
  <2>3. verdict' = [verdict EXCEPT ![k] = v]
    BY <1>1, <1>4, Domains DEF Inv, TypeOK
  <2> QED
    BY <1>2, <1>4, <2>1, <2>2, <2>3 DEF Exchange!Next, Exchange!Decide
<1> QED
  BY <1>3, <1>4

\* The client implements AaaExchange: ExchangeEAP and TerminateSession return
\* what the AAA server decided on that very request, or an error.
THEOREM ClientImplementsExchange == Spec => ImplementsExchange
<1>1. Init => Exchange!Init
  <2> SUFFICES ASSUME Init PROVE Exchange!Init
    OBVIOUS
  <2>1. Told = [k \in Api |-> [state |-> "idle"]]
    BY Names DEF Init, Told
  <2> QED
    BY <2>1 DEF Init, Exchange!Init
<1>2. Inv /\ [Next]_vars => [Exchange!Next]_<<verdict, Told>>
  <2> SUFFICES ASSUME Inv, [Next]_vars
               PROVE  Exchange!Next \/ UNCHANGED <<verdict, Told>>
    OBVIOUS
  <2>1. CASE \E k \in Api : Begin(k) \/ Step(k) \/ Timeout(k)
    BY <2>1, BeginRefines, CallsRefine, Names
  <2>2. ASSUME NEW c \in Conn, Watchdog(c)
        PROVE  Exchange!Next \/ UNCHANGED <<verdict, Told>>
    <3>1. CASE Step(c) \/ Timeout(c)
      BY <3>1, CallsRefine, Names
    <3>2. CASE WatchTick(c) \/ WatchResult(c) \/ WatchStops(c)
      <4>1. \A k \in Api : st'[k] = st[k] /\ res'[k] = res[k]
        <5>1. CASE WatchTick(c)
          BY <5>1, Domains, Names DEF Inv, Functions, WatchTick, Go
        <5>2. CASE WatchResult(c)
          BY <5>2, Domains, Names DEF Inv, Functions, WatchResult, Go
        <5>3. CASE WatchStops(c)
          BY <5>3 DEF WatchStops, callVars
        <5> QED
          BY <3>2, <5>1, <5>2, <5>3
      <4>2. verdict' = verdict
        BY <3>2 DEF WatchTick, WatchResult, WatchStops
      <4> QED
        BY <4>1, <4>2, ToldKept
    <3> QED
      BY <2>2, <3>1, <3>2 DEF Watchdog
  <2>3. ASSUME NEW c \in Conn, ReadLoop(c) \/ ReadRequest(c) \/ PeerFails(c)
        PROVE  UNCHANGED <<verdict, Told>>
    BY <2>3 DEF ReadLoop, Read, Deliver, AnswerRequest, ReadFails, ReadRequest, PeerFails,
                callVars, Told
  <2>4. ASSUME NEW c \in Conn, PeerAnswers(c)
        PROVE  Exchange!Next \/ UNCHANGED <<verdict, Told>>
    BY <2>4, PeerRefines
  <2>5. CASE Handshake
    <3>1. \A k \in Call : st'[k] = st[k] \/ (st[k] = "opening" /\ st'[k] = "woken")
      BY <2>5 DEF Handshake
    <3> QED
      BY <2>5, <3>1, Names DEF Handshake, Told
  <2>6. CASE Dial \/ ServeEnds \/ Withdraw \/ LoopExits \/ Stop \/ UNCHANGED vars
    BY <2>6 DEF Dial, ServeEnds, Withdraw, LoopExits, Stop, vars, callVars, Told
  <2> QED
    BY <2>1, <2>2, <2>3, <2>4, <2>5, <2>6 DEF Next, ConnectLoop
<1> QED
  BY <1>1, <1>2, Invariance, PTL DEF Spec, ImplementsExchange, Exchange!Spec
============================================================================
