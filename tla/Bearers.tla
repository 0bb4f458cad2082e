------------------------------ MODULE Bearers ------------------------------
(***************************************************************************)
(* The GTP-U dataplane of the ePDG (internal/gtpu) and the PGW's bearer    *)
(* procedures that drive it (cmd/epdg/main.go, internal/s2b/client.go).    *)
(*                                                                         *)
(* Four kinds of actor share the bearer tables and the BPF maps:           *)
(*   - the attach handler of a session runs AddSession: it publishes the   *)
(*     default bearer under Manager.mu and then, WITHOUT the lock, puts    *)
(*     the session into the kernel, step by step, rolling the steps back   *)
(*     in reverse when one of them fails;                                  *)
(*   - the single S2b read loop runs the Create, Update and Delete Bearer  *)
(*     handlers one after the other, in steps;                             *)
(*   - a teardown (IKE DELETE, DPD, PGW Delete Session) runs RemoveSession,*)
(*     which is one critical section;                                      *)
(*   - the PGW sends requests, which the network may duplicate, delay or   *)
(*     lose, and hands the address of a released session to another one.   *)
(*                                                                         *)
(* A PAA is the UE's inner address.  A packet is abstracted to its flow    *)
(* and whether it has IP options, a TFT packet filter to its precedence,   *)
(* its direction and the flows it selects.  Remote TEIDs name bearers      *)
(* (<<session, EBI>>).  XDP and TC are attached, as in production.         *)
(* sessionsByPAA and bearersByRemoteTEID are written and never consulted   *)
(* by these handlers, so they are left out.                                *)
(***************************************************************************)
EXTENDS Naturals, FiniteSets, SequencesExt

CONSTANTS
  Session,        \* attachments, each with one S2b context
  PAA,            \* addresses the PGW assigns
  TEID,           \* local GTP-U TEIDs AllocateTEID may draw
  Ebi,            \* dedicated EBIs (6..15 in the code)
  DefaultEbi,     \* EBI of every default bearer
  Flow,           \* classes of uplink packets
  Offer,          \* contents of the requests the PGW may send
  MaxRequest,     \* bound: requests the PGW sends
  Budget,         \* bound: sessions it creates and bearers it asks about
  Attempts,       \* TEIDs allocateBearerTEID tries (8 in the code)
  MapMaxEntries,  \* capacity of teid_map and of ue_session_map
  MaxTFTRules,    \* maxTCBPFTFTRules (32 in the code)
  None

ASSUME BearersAssumption ==
  /\ Ebi \subseteq Nat /\ DefaultEbi \in Nat \ Ebi /\ 0 \notin Ebi \cup {DefaultEbi}
  /\ MaxRequest \in Nat /\ Budget \in Nat /\ Attempts \in Nat \ {0}
  /\ MapMaxEntries \in Nat /\ MaxTFTRules \in Nat
  /\ None \notin Session \cup PAA \cup TEID \cup (Session \X (Ebi \cup {DefaultEbi}))
  /\ \A o \in Offer : o.type \in {"update", "delete"} => o.ebi \in Ebi \cup {DefaultEbi}

AllEbi == Ebi \cup {DefaultEbi}
Request == 1..MaxRequest

(***************************************************************************)
(* TFTs.  A request carries a TFT operation code and packet filters.       *)
(***************************************************************************)
\* "flows" is what all the components of a filter select; "kept" what is left
\* of them once parsePacketFilterContents has skipped security parameter index,
\* type of service and flow label, and the rule has dropped the local address.
Filter == {f \in [prec : 0..255, up : BOOLEAN, flows : SUBSET Flow, kept : SUBSET Flow] :
             f.flows \subseteq f.kept}

\* What ParseTFT returns: the filters, no TFT (nil) or an error.
NilTFT == [kind |-> "nil", filters |-> {}]
TFTError == [kind |-> "error", filters |-> {}]
TFTOf(fs) == [kind |-> "tft", filters |-> fs]

ParseTFT(raw) ==
  CASE raw.op = "malformed" -> TFTError
    [] raw.op \in {"create", "add", "replace"} -> TFTOf(raw.filters)
    [] raw.op \in {"delete_tft", "delete_filters", "no_op"} -> TFTOf({})
    [] OTHER -> NilTFT

\* A rule of tft_rule_map: the bearer it steers to and the packets it takes.
RuleOf(s, e, f) == [bearer |-> <<s, e>>, prec |-> f.prec, flows |-> f.kept]

VARIABLES
  sess,        \* how far the session has come: see SessState
  paa,         \* address in the session's S2b context
  pgw,         \* sessions the PGW still has
  addPC,       \* where the session's AddSession is
  built,       \* its local copy of ue_session_map entry and TFT rules
  sessionsByID,       \* Manager.sessionsByID: sessions with dataplane state
  bearers,            \* Session.Bearers of the dataplane session object
  bearersByLocalTEID, \* Manager.bearersByLocalTEID
  teidMap,     \* kernel teid_map: local TEID -> PAA
  ueMap,       \* kernel ue_session_map and tft_rule_map: PAA -> session, rules
  routes,      \* kernel: addresses routed to the XFRM interface
  sent,        \* requests the PGW has sent, by sequence number
  cache,       \* Client.createBearerCache
  rd,          \* the S2b read loop: what it is doing
  told,        \* history: the dedicated bearers the PGW was told it has
  accepted,    \* history: Delete Bearer Requests the PGW was told are done
  raced        \* history: sessions whose AddSession met a competing operation,
               \* or whose rules met a full tft_rule_map

manager == <<sess, paa, pgw>>
tables  == <<sessionsByID, bearers, bearersByLocalTEID>>
kernel  == <<teidMap, ueMap, routes>>
network == <<sent, cache>>
history == <<told, accepted, raced>>
vars    == <<manager, addPC, built, tables, kernel, network, rd, history>>

NoBearers == [e \in AllEbi |-> None]
NotTold   == [e \in Ebi |-> None]
Idle      == [pc |-> "idle", req |-> 0, i |-> 0, ebi |-> 0, try |-> 0,
              results |-> << >>]

\* "offered": the PGW has the session, its Create Session Response is on the
\* way; from "s2b" the session manager finds the session by its control TEID,
\* until "gone".  It is "removing" from the state CleaningUp and "deleted" from
\* the state Deleted on.
SessState == {"none", "offered", "s2b", "removing", "deleted", "gone"}
Found(s)  == sess[s] \in {"s2b", "removing", "deleted"}

\* An AddSession that has published the session and has not returned.
Running(s) == addPC[s] \notin {"idle", "done", "failed"}

Init ==
  /\ sess = [s \in Session |-> "none"] /\ paa = [s \in Session |-> None] /\ pgw = {}
  /\ addPC = [s \in Session |-> "idle"]
  /\ built = [s \in Session |-> None]
  /\ sessionsByID = {}
  /\ bearers = [s \in Session |-> NoBearers]
  /\ bearersByLocalTEID = [t \in TEID |-> None]
  /\ teidMap = [t \in TEID |-> None]
  /\ ueMap = [a \in PAA |-> None]
  /\ routes = {}
  /\ sent = << >>
  /\ cache = [r \in Request |-> None]
  /\ rd = Idle
  /\ told = [s \in Session |-> NotTold]
  /\ accepted = {} /\ raced = {}

(***************************************************************************)
(* Kernel maps and TFT rules.                                              *)
(***************************************************************************)
CanPut(m, k) ==
  m[k] # None \/ Cardinality({x \in DOMAIN m : m[x] # None}) < MapMaxEntries

\* Mutant: downlink filters become rules as well.
RulesBothWays(s, bs) ==
  UNION {{RuleOf(s, e, f) : f \in bs[e].tft.filters} : e \in {x \in Ebi : bs[x] # None}}

\* buildTCBPFTFTRules: the uplink filters of the dedicated bearers.
Rules(s, bs) ==
  UNION {{RuleOf(s, e, f) : f \in {g \in bs[e].tft.filters : g.up}} :
           e \in {x \in Ebi : bs[x] # None}}

\* syncTCBPFTFTRulesLocked truncates them, in the random order of a Go map.
Truncated(rules) ==
  IF Cardinality(rules) <= MaxTFTRules THEN {rules}
  ELSE {R \in SUBSET rules : Cardinality(R) = MaxTFTRules}

\* tft_rule_map, which all UEs share, has no room for the session's rules.  It
\* matters, and is considered, only when there are rules to write.
NoRoom(s, bs, full) == full /\ Rules(s, bs) # {}

\* A sync under Manager.mu; it fails when ue_session_map has no such address,
\* and after it has cleared the old rules when the new ones find no room.
SyncFails(s, bs, full) == ueMap[paa[s]] = None \/ NoRoom(s, bs, full)
SyncTFTRules(s, bs, full) ==
  \/ /\ ~ full /\ ueMap[paa[s]] = None
     /\ UNCHANGED ueMap
  \/ /\ NoRoom(s, bs, full) /\ ueMap[paa[s]] # None
     /\ ueMap' = [ueMap EXCEPT ![paa[s]].rules = {}]
  \/ /\ ~ full /\ ueMap[paa[s]] # None
     /\ \E R \in Truncated(Rules(s, bs)) :
          ueMap' = [ueMap EXCEPT ![paa[s]].rules = R]

(***************************************************************************)
(* The session's S2b context.                                              *)
(***************************************************************************)
\* Sessions whose dataplane state is, or may still come, under address a.
Users(a) == {x \in Session : paa[x] = a /\ (addPC[x] \notin {"done", "failed"}
                                            \/ x \in sessionsByID)}
Residue(a) == ueMap[a] # None \/ a \in routes \/ \E t \in TEID : teidMap[t] = a

Cost(o) == IF o.type = "create" THEN Len(o.contexts) ELSE 1
\* Sessions cost the square of their number.
Created == Cardinality({s \in Session : sess[s] # "none"})
Spent == Created * Created
         + FoldSeq(LAMBDA m, n : Cost(m.body) + n, 0, sent)

\* The PGW creates a session and gives it an address, perhaps the one of a
\* session it has given up, or asked the ePDG to delete, an instant ago.
PgwCreate(s, a) ==
  /\ sess[s] = "none" /\ Spent + 2 * Created < Budget
  /\ sess' = [sess EXCEPT ![s] = "offered"]
  /\ paa' = [paa EXCEPT ![s] = a]
  /\ pgw' = {x \in pgw : paa[x] # a} \cup {s}
  /\ raced' = IF Users(a) = {} /\ ~ Residue(a) THEN raced
              ELSE raced \cup Users(a) \cup {s}
  /\ UNCHANGED <<addPC, built, tables, kernel, network, rd, told, accepted>>

\* The read loop hands the Create Session Response to the waiting attach, which
\* stores the S2b context: the lookups of a Create Bearer bridge that gap.
ReadCreateResponse(s) ==
  /\ rd.pc = "idle"
  /\ sess[s] = "offered"
  /\ sess' = [sess EXCEPT ![s] = "s2b"]
  /\ UNCHANGED <<paa, pgw, addPC, built, tables, kernel, network, rd, history>>

(***************************************************************************)
(* AddSession, run by the attach handler.                                  *)
(***************************************************************************)
DefaultBearer(t) ==
  [local |-> t, tft |-> NilTFT, req |-> 0, mapped |-> TRUE]

\* Sessions that will still write teidMap[t] although t is free again.
Claimants(t) == {x \in Session : Running(x) /\ bearers[x][DefaultEbi].local = t}
\* Taking t disturbs, and is disturbed by, those.
TakeTEID(s, t) == IF Claimants(t) = {} THEN {} ELSE Claimants(t) \cup {s}

\* Mutant: no collision test.
TEIDTakenNever(t) == FALSE

\* The collision test of AddSession and AddBearer.
TEIDTaken(t) == bearersByLocalTEID[t] # None

AddSessionGoes(s, step) == addPC' = [addPC EXCEPT ![s] = step]

\* The collision test and the publication, under Manager.mu.
AddSessionInsert(s, t) ==
  /\ addPC[s] = "idle"
  /\ sess[s] \in {"s2b", "removing", "deleted", "gone"}
  /\ IF TEIDTaken(t)
     THEN /\ AddSessionGoes(s, "failed")
          /\ UNCHANGED <<tables, raced>>
     ELSE /\ AddSessionGoes(s, "teid_map")
          /\ sessionsByID' = sessionsByID \cup {s}
          /\ bearers' = [bearers EXCEPT ![s] =
                           [NoBearers EXCEPT ![DefaultEbi] = DefaultBearer(t)]]
          /\ bearersByLocalTEID' =
               [bearersByLocalTEID EXCEPT ![t] = <<s, DefaultEbi>>]
          /\ raced' = raced \cup TakeTEID(s, t)
  /\ UNCHANGED <<manager, built, kernel, network, rd, told, accepted>>

\* bpf.AddTEID.
AddSessionTEID(s) ==
  /\ addPC[s] = "teid_map"
  /\ LET t == bearers[s][DefaultEbi].local
     IN IF CanPut(teidMap, t)
        THEN /\ teidMap' = [teidMap EXCEPT ![t] = paa[s]]
             /\ AddSessionGoes(s, "ue_session_map")
        ELSE /\ AddSessionGoes(s, "rollback_state")
             /\ UNCHANGED teidMap
  /\ UNCHANGED <<manager, built, tables, ueMap, routes, network, rd, history>>

\* tc.AddUESession; the interface lookup before it may fail as well.
AddSessionUE(s, linkFound) ==
  /\ addPC[s] = "ue_session_map"
  /\ IF linkFound /\ CanPut(ueMap, paa[s])
     THEN /\ ueMap' = [ueMap EXCEPT ![paa[s]] = [session |-> s, rules |-> {}]]
          /\ AddSessionGoes(s, "sync_read")
     ELSE /\ AddSessionGoes(s, "rollback_teid")
          /\ UNCHANGED ueMap
  /\ UNCHANGED <<manager, built, tables, teidMap, routes, network, rd, history>>

\* syncTCBPFTFTRulesLocked, here without the lock: the rules are built, the
\* ue_session_map entry is read and its rule count zeroed ...
AddSessionSyncRead(s) ==
  /\ addPC[s] = "sync_read"
  /\ IF ueMap[paa[s]] = None
     THEN /\ AddSessionGoes(s, "rollback_ue")
          /\ UNCHANGED <<built, ueMap>>
     ELSE /\ \E R \in Truncated(Rules(s, bearers[s])) :
               built' = [built EXCEPT ![s] = [ueMap[paa[s]] EXCEPT !.rules = R]]
          /\ ueMap' = [ueMap EXCEPT ![paa[s]].rules = {}]
          /\ AddSessionGoes(s, "sync_write")
  /\ UNCHANGED <<manager, tables, teidMap, routes, network, rd, history>>

\* ... and the rules and the entry, as it was read, are written back.
AddSessionSyncWrite(s, full) ==
  /\ addPC[s] = "sync_write"
  /\ full => built[s].rules # {}
  /\ IF ~ full /\ CanPut(ueMap, paa[s])
     THEN /\ ueMap' = [ueMap EXCEPT ![paa[s]] = built[s]]
          /\ AddSessionGoes(s, "route")
     ELSE /\ AddSessionGoes(s, "rollback_ue")
          /\ UNCHANGED ueMap
  /\ built' = [built EXCEPT ![s] = None]
  /\ UNCHANGED <<manager, tables, teidMap, routes, network, rd, history>>

\* addBPFRoute (RouteAdd fails when the route is there, or for a reason of
\* its own), and the Datapath context that ends a successful AddSession.
AddSessionRoute(s, netlinkOK) ==
  /\ addPC[s] = "route"
  /\ IF netlinkOK /\ paa[s] \notin routes
     THEN /\ routes' = routes \cup {paa[s]}
          /\ AddSessionGoes(s, "done")
     ELSE /\ AddSessionGoes(s, "rollback_ue")
          /\ UNCHANGED routes
  /\ UNCHANGED <<manager, built, tables, teidMap, ueMap, network, rd, history>>

\* Mutant: the rollback leaves teid_map alone.
RollbackUESkipsTEID(s) ==
  /\ addPC[s] = "rollback_ue"
  /\ ueMap' = [ueMap EXCEPT ![paa[s]] = None]
  /\ AddSessionGoes(s, "rollback_state")
  /\ UNCHANGED <<manager, built, tables, teidMap, routes, network, rd, history>>

\* rollbackState.run: the completed steps are undone, the last one first.
RollbackUE(s) ==
  /\ addPC[s] = "rollback_ue"
  /\ ueMap' = [ueMap EXCEPT ![paa[s]] = None]
  /\ AddSessionGoes(s, "rollback_teid")
  /\ UNCHANGED <<manager, built, tables, teidMap, routes, network, rd, history>>

RollbackTEID(s) ==
  /\ addPC[s] = "rollback_teid"
  /\ teidMap' = [teidMap EXCEPT ![bearers[s][DefaultEbi].local] = None]
  /\ AddSessionGoes(s, "rollback_state")
  /\ UNCHANGED <<manager, built, tables, ueMap, routes, network, rd, history>>

LocalTEIDs(s) == {bearers[s][e].local : e \in {x \in AllEbi : bearers[s][x] # None}}
Unindexed(T) == [t \in TEID |-> IF t \in T THEN None ELSE bearersByLocalTEID[t]]

\* removeSessionState: every bearer of the session leaves the tables.
RollbackState(s) ==
  /\ addPC[s] = "rollback_state"
  /\ IF s \in sessionsByID
     THEN /\ sessionsByID' = sessionsByID \ {s}
          /\ bearersByLocalTEID' = Unindexed(LocalTEIDs(s))
     ELSE UNCHANGED <<sessionsByID, bearersByLocalTEID>>
  /\ bearers' = [bearers EXCEPT ![s] = NoBearers]
  /\ AddSessionGoes(s, "failed")
  /\ UNCHANGED <<manager, built, kernel, network, rd, history>>

(***************************************************************************)
(* RemoveSession, run by a teardown: one critical section.  The session    *)
(* object lives on only in an AddSession that still runs.                  *)
(***************************************************************************)
RemoveSession(s) ==
  /\ IF s \in sessionsByID
     THEN /\ sessionsByID' = sessionsByID \ {s}
          /\ bearersByLocalTEID' = Unindexed(LocalTEIDs(s))
          /\ teidMap' = [t \in TEID |-> IF t \in LocalTEIDs(s) THEN None ELSE teidMap[t]]
          /\ ueMap' = [ueMap EXCEPT ![paa[s]] = None]
          /\ routes' = routes \ {paa[s]}
     ELSE UNCHANGED <<sessionsByID, bearersByLocalTEID, kernel>>
  /\ bearers' = IF Running(s) THEN bearers ELSE [bearers EXCEPT ![s] = NoBearers]
  /\ told' = [told EXCEPT ![s] = NotTold]
  /\ raced' = IF Running(s) \/ addPC[s] = "idle" THEN raced \cup {s} ELSE raced

\* fullTeardown, or cleanupSession for a PGW Delete Session Request, which
\* returns at once when the session is in the state Deleted.
Teardown(s) ==
  /\ Found(s)
  /\ RemoveSession(s)
  /\ sess' = [sess EXCEPT ![s] = IF @ = "deleted" THEN "deleted" ELSE "removing"]
  /\ UNCHANGED <<paa, pgw, addPC, built, network, rd, accepted>>

\* The session becomes Deleted, then leaves the manager.
Forget(s) ==
  /\ sess[s] \in {"removing", "deleted"}
  /\ sess' = [sess EXCEPT ![s] = IF @ = "removing" THEN "deleted" ELSE "gone"]
  /\ UNCHANGED <<paa, pgw, addPC, built, tables, kernel, network, rd, history>>

(***************************************************************************)
(* The network between the PGW and the ePDG.  A request may arrive any     *)
(* number of times, or never.  The PGW gives up before the 60 s for which  *)
(* a Create Bearer answer is cached, so that no copy outlives it.          *)
(***************************************************************************)
PgwSend(s, o) ==
  /\ s \in pgw
  /\ Len(sent) < MaxRequest /\ Spent + Cost(o) <= Budget
  /\ sent' = Append(sent, [s |-> s, body |-> o])
  /\ UNCHANGED <<manager, addPC, built, tables, kernel, cache, rd, history>>

(***************************************************************************)
(* Create Bearer, run by the read loop: handleCreateBearerRequest of the   *)
(* S2b client and handlePGWCreateBearer.                                   *)
(***************************************************************************)
Body(r) == sent[r].body
HasBearer(s, e) == s \in sessionsByID /\ bearers[s][e] # None

\* A request with a cached answer is answered again and nothing else happens.
\* Another one is looked up with FindByLocalControlTEID, ten times at most; a
\* session not found by then is refused.  For one that was, the handler waits
\* until HasBearer on the default EBI is true, or has been false twenty times,
\* and goes on in either case.  The loop reads nothing meanwhile.
ReceiveCreateBearer(r) ==
  /\ rd.pc = "idle"
  /\ Body(r).type = "create"
  /\ cache[r] = None
  /\ rd' = [Idle EXCEPT !.pc = IF Found(sent[r].s) THEN "ebi" ELSE "respond",
                        !.req = r, !.i = 1]
  /\ UNCHANGED <<manager, addPC, built, tables, kernel, network, history>>

ReaderOnly == UNCHANGED <<manager, addPC, built, tables, kernel, network, history>>

\* The next bearer context of the request, or the answer.
ContextDone(result) ==
  rd' = [rd EXCEPT !.pc = IF rd.i = Len(Body(rd.req).contexts) THEN "respond" ELSE "ebi",
                   !.i = rd.i + 1, !.ebi = 0, !.try = 0,
                   !.results = Append(rd.results, result)]

Refused(e) == [ebi |-> e, teid |-> None]

\* allocateDedicatedEBI for a context without an EBI, else the collision test.
ChooseEBI ==
  /\ rd.pc = "ebi"
  /\ LET s == sent[rd.req].s
         asked == Body(rd.req).contexts[rd.i].ebi
         free == {e \in Ebi : ~ HasBearer(s, e)}
         usable == IF asked = 0 THEN free ELSE free \cap {asked}
     IN IF usable = {}
        THEN ContextDone(Refused(asked))
        ELSE rd' = [rd EXCEPT !.pc = "teid", !.try = 1,
                      !.ebi = CHOOSE e \in usable : \A x \in usable : e <= x]
  /\ ReaderOnly

\* allocateBearerTEID goes on to the next TEID after any error of AddBearer.
AddBearerFailed ==
  IF rd.try < Attempts THEN rd' = [rd EXCEPT !.try = rd.try + 1]
  ELSE ContextDone(Refused(rd.ebi))

\* Mutant: a TFT that does not parse is kept.
DedicatedBearerAnyTFT(t, raw, r, mapped) ==
  [local |-> t, req |-> r, mapped |-> mapped, tft |-> ParseTFT(raw)]

\* A TFT that does not parse is replaced by an empty one.
DedicatedBearer(t, raw, r, mapped) ==
  [local |-> t, req |-> r, mapped |-> mapped,
   tft |-> IF ParseTFT(raw) = TFTError THEN TFTOf({}) ELSE ParseTFT(raw)]

\* A bearer operation that meets a running AddSession or a full tft_rule_map.
Disturbed(s, bs, full) == IF Running(s) \/ NoRoom(s, bs, full) THEN {s} ELSE {}

\* One AddBearer, under Manager.mu, with a TEID drawn at random.  A full
\* teid_map is only logged; a failed sync is an error that undoes nothing.
AddBearer(t, full) ==
  /\ rd.pc = "teid"
  /\ LET s == sent[rd.req].s
         b == DedicatedBearer(t, Body(rd.req).contexts[rd.i].raw, rd.req,
                              CanPut(teidMap, t))
         bs == [bearers[s] EXCEPT ![rd.ebi] = b]
     IN IF s \notin sessionsByID \/ TEIDTaken(t)
        THEN /\ ~ full
             /\ AddBearerFailed
             /\ UNCHANGED <<bearers, bearersByLocalTEID, teidMap, ueMap, raced>>
        ELSE /\ bearers' = [bearers EXCEPT ![s] = bs]
             /\ bearersByLocalTEID' = [bearersByLocalTEID EXCEPT ![t] = <<s, rd.ebi>>]
             /\ teidMap' = IF b.mapped THEN [teidMap EXCEPT ![t] = paa[s]] ELSE teidMap
             /\ SyncTFTRules(s, bs, full)
             /\ IF SyncFails(s, bs, full) THEN AddBearerFailed
                ELSE ContextDone([ebi |-> rd.ebi, teid |-> t])
             /\ raced' = raced \cup Disturbed(s, bs, full) \cup TakeTEID(s, t)
  /\ UNCHANGED <<manager, addPC, built, sessionsByID, routes, network, told, accepted>>

Accepted(results, e) == {results[k].teid : k \in {j \in DOMAIN results :
                           results[j].ebi = e /\ results[j].teid # None}}

\* Mutant: the message says accepted although a context is refused.
MessageCauseAccepts(results) == 16

\* The Cause of the message: accepted when every context is, "context not
\* found" as soon as one is refused, whatever the causes of the contexts say.
MessageCause(results) ==
  IF results # << >> /\ \A k \in DOMAIN results : results[k].teid # None THEN 16 ELSE 64

Answer == [cause |-> MessageCause(rd.results), results |-> rd.results]

\* Mutant: an answer with an accepted bearer is not cached.
CacheAnswerRefusals ==
  cache' = [cache EXCEPT ![rd.req] =
              IF \A k \in DOMAIN rd.results : rd.results[k].teid = None THEN Answer ELSE None]

\* cacheCreateBearerResponse.
CacheAnswer == cache' = [cache EXCEPT ![rd.req] = Answer]

\* The PGW reads the Cause of the message first: it enters the bearers of an
\* answer that accepts, and gives the session up on one that does not.
PgwTold(s) ==
  IF Answer.cause = 16
  THEN /\ told' = [told EXCEPT ![s] =
                    [e \in Ebi |-> IF Accepted(rd.results, e) = {} THEN @[e]
                                   ELSE CHOOSE t \in Accepted(rd.results, e) : TRUE]]
       /\ UNCHANGED pgw
  ELSE /\ told' = [told EXCEPT ![s] = NotTold]
       /\ pgw' = pgw \ {s}

\* The answer, accepted or refused, is cached before it is sent.
RespondCreateBearer ==
  /\ rd.pc = "respond"
  /\ CacheAnswer
  /\ PgwTold(sent[rd.req].s)
  /\ rd' = Idle
  /\ UNCHANGED <<sess, paa, addPC, built, tables, kernel, sent, accepted, raced>>

(***************************************************************************)
(* Update and Delete Bearer: each is one critical section per bearer, and  *)
(* the read loop runs nothing else meanwhile.  Neither answer is cached.   *)
(***************************************************************************)

\* The read loop hands a copy of request r to its handler, which looks the
\* session up once.
ReadRequest(r, type) ==
  /\ rd.pc = "idle"
  /\ Body(r).type = type
  /\ Found(sent[r].s)

\* A TFT that parses takes the place of the old one, whatever its operation.
UpdateTFT(bs, e, raw) ==
  IF ParseTFT(raw).kind = "tft" THEN [bs EXCEPT ![e].tft = ParseTFT(raw)] ELSE bs

UpdateBearer(r, full) ==
  /\ ReadRequest(r, "update")
  /\ LET s == sent[r].s
         e == Body(r).ebi
         bs == UpdateTFT(bearers[s], e, Body(r).raw)
     IN /\ HasBearer(s, e)
        /\ bearers' = [bearers EXCEPT ![s] = bs]
        /\ SyncTFTRules(s, bs, full)
        /\ raced' = raced \cup Disturbed(s, bs, full)
  /\ UNCHANGED <<manager, addPC, built, sessionsByID, bearersByLocalTEID, teidMap,
                 routes, network, rd, told, accepted>>

\* The PGW takes its bearer out on the first answer that accepts the request; a
\* copy that comes later deletes whatever bearer has the EBI by then.
DeleteDedicatedBearer(r, full) ==
  /\ ReadRequest(r, "delete") /\ Body(r).ebi # DefaultEbi
  /\ LET s == sent[r].s
         e == Body(r).ebi
         bs == [bearers[s] EXCEPT ![e] = None]
     IN /\ HasBearer(s, e)
        /\ bearers' = [bearers EXCEPT ![s] = bs]
        /\ bearersByLocalTEID' = Unindexed({bearers[s][e].local})
        /\ teidMap' = [teidMap EXCEPT ![bearers[s][e].local] = None]
        /\ SyncTFTRules(s, bs, full)
        /\ IF SyncFails(s, bs, full) THEN UNCHANGED <<told, accepted>>
           ELSE /\ told' = IF r \in accepted THEN told ELSE [told EXCEPT ![s][e] = None]
                /\ accepted' = accepted \cup {r}
        /\ raced' = raced \cup Disturbed(s, bs, full)
  /\ UNCHANGED <<manager, addPC, built, sessionsByID, routes, network, rd>>

\* Deleting the default bearer ends the session, here and at the PGW:
\* cleanupSession, which does nothing when the session is Deleted, and then the
\* session is deleted, or its S2b context when the UE is handed over.
DeleteDefaultBearer(r) ==
  /\ ReadRequest(r, "delete") /\ Body(r).ebi = DefaultEbi
  /\ IF sess[sent[r].s] = "deleted" THEN UNCHANGED <<tables, kernel, told, raced>>
     ELSE RemoveSession(sent[r].s)
  /\ sess' = [sess EXCEPT ![sent[r].s] = "gone"]
  /\ UNCHANGED <<paa, pgw, addPC, built, network, rd, accepted>>

AddSessionStep(s) ==
  \/ \E t \in TEID : AddSessionInsert(s, t)
  \/ AddSessionTEID(s)
  \/ \E ok \in BOOLEAN : AddSessionUE(s, ok) \/ AddSessionRoute(s, ok)
  \/ AddSessionSyncRead(s)
  \/ \E full \in BOOLEAN : AddSessionSyncWrite(s, full)
  \/ RollbackUE(s) \/ RollbackTEID(s) \/ RollbackState(s)

ReaderStep ==
  \/ ChooseEBI
  \/ \E t \in TEID, full \in BOOLEAN : AddBearer(t, full)
  \/ RespondCreateBearer

Next ==
  \/ \E s \in Session :
       \/ \E a \in PAA : PgwCreate(s, a)
       \/ ReadCreateResponse(s)
       \/ AddSessionStep(s)
       \/ Teardown(s) \/ Forget(s)
       \/ \E o \in Offer : PgwSend(s, o)
  \/ \E r \in 1..Len(sent) :
       \/ ReceiveCreateBearer(r) \/ DeleteDefaultBearer(r)
       \/ \E full \in BOOLEAN : UpdateBearer(r, full) \/ DeleteDedicatedBearer(r, full)
  \/ ReaderStep

Spec == Init /\ [][Next]_vars

-----------------------------------------------------------------------------
Bearer == [local : TEID, tft : [kind : {"nil", "tft"}, filters : SUBSET Filter],
           req : 0..MaxRequest, mapped : BOOLEAN]

\* Type invariant: the tables and the maps hold what their Go types allow.
TypeOK ==
  /\ sess \in [Session -> SessState]
  /\ paa \in [Session -> PAA \cup {None}]
  /\ pgw \subseteq Session /\ sessionsByID \subseteq Session /\ raced \subseteq Session
  /\ DOMAIN bearers = Session
  /\ \A s \in Session : DOMAIN bearers[s] = AllEbi
                        /\ \A e \in AllEbi : bearers[s][e] # None => bearers[s][e] \in Bearer
  /\ bearersByLocalTEID \in [TEID -> (Session \X AllEbi) \cup {None}]
  /\ teidMap \in [TEID -> PAA \cup {None}]
  /\ routes \subseteq PAA
  /\ Len(sent) <= MaxRequest /\ accepted \subseteq Request
  /\ rd.pc \in {"idle", "ebi", "teid", "respond"}

\* Whatever the attach, the read loop and the teardowns do to each other, a
\* bearer in the tables is the one its local TEID is indexed to.  So no two
\* bearers, of one session or of two, ever share a TEID, and no removal takes
\* another bearer's TEID away: the collision tests of AddSession and AddBearer
\* and the removals of RemoveSession, RemoveBearer and the rollback add up.
BearersIndexed ==
  \A s \in sessionsByID, e \in AllEbi :
    bearers[s][e] # None => bearersByLocalTEID[bearers[s][e].local] = <<s, e>>

\* However often a Create Bearer Request arrives within the life of its cached
\* answer, it sets up at most the bearers of its own bearer contexts, once:
\* handleCreateBearerRequest caches an answer before it can see a copy.
CreatedOnce ==
  \A r \in Request :
    LET Made(b) == bearers[b[1]][b[2]] # None /\ bearers[b[1]][b[2]].req = r
        made == {b \in sessionsByID \X Ebi : Made(b)}
    IN made # {} => Cardinality(made) <= Len(Body(r).contexts)

\* A session whose dataplane is settled: its AddSession is over, met no
\* operation on the session, its address or its TEID while it ran, and the
\* session's rules always found room.
Settled(s) == s \notin raced /\ ~ Running(s)

\* The PGW knows every dedicated bearer of a session it has, under its TEID: it
\* was told of it by an accepting answer, and a request of which some contexts
\* were refused, or entered and then refused since their rules found no room,
\* has cost the PGW the session.  A bearer the PGW counts on and the ePDG has
\* not is one it asked to delete at some time: the Delete failed after it had
\* removed the bearer, or came late and took a newer one with the same EBI.
PgwAgrees ==
  \A s \in sessionsByID \cap pgw, e \in Ebi :
    (rd.pc # "idle" => sent[rd.req].s # s) =>
      IF HasBearer(s, e) THEN told[s][e] = bearers[s][e].local
      ELSE told[s][e] # None =>
             \E r \in 1..Len(sent) :
               sent[r].s = s /\ Body(r).type = "delete" /\ Body(r).ebi = e

\* The kernel holds what the tables say.  A settled session has its route, its
\* uplink entry with exactly the rules of its bearers and a teid_map entry for
\* every bearer, but the ones whose insertion failed and was logged; an address
\* without a session has nothing left, so the rollback and RemoveSession undo
\* everything AddSession and AddBearer installed.
KernelAgrees ==
  \A a \in PAA :
    LET users == {s \in sessionsByID : paa[s] = a}
        mapped == {t \in TEID : teidMap[t] = a}
    IN (\A s \in Session : paa[s] = a => Settled(s))
       => IF users = {} THEN ~ Residue(a)
          ELSE \E s \in users :
                 /\ users = {s}
                 /\ a \in routes
                 /\ ueMap[a] # None /\ ueMap[a].session = s
                 /\ ueMap[a].rules \in Truncated(Rules(s, bearers[s]))
                 /\ mapped = {bearers[s][e].local : e \in
                                {x \in AllEbi : bearers[s][x] # None /\ bearers[s][x].mapped}}

\* tc_gtpu_encap_func: the bearers an uplink packet may leave on, none when it
\* leaves unencapsulated.  Among rules of one precedence the first in the map
\* wins, in an order left open here.
Encapsulate(a, p) ==
  LET hits == {r \in ueMap[a].rules : p.flow \in r.flows /\ r.prec < 255}
      best == {r \in hits : \A x \in hits : r.prec <= x.prec}
  IN IF ueMap[a] = None \/ p.options THEN {}
     ELSE IF hits = {} THEN {<<ueMap[a].session, DefaultEbi>>}
     ELSE {r.bearer : r \in best}

\* The bearers of session s that a packet is meant for: the dedicated one whose
\* uplink filter takes it with the lowest precedence value, else the default.
Meant(s, Takes(_)) ==
  LET precs(e) == {f.prec : f \in {g \in bearers[s][e].tft.filters : g.up /\ Takes(g)}}
      serving == {e \in Ebi : HasBearer(s, e) /\ precs(e) # {}}
  IN IF serving = {} THEN {<<s, DefaultEbi>>}
     ELSE {<<s, e>> : e \in {x \in serving :
             \E p \in precs(x) : \A y \in serving : \A q \in precs(y) : p <= q}}

\* An uplink packet leaves on the bearer it is meant for, as far as the rules
\* tell packets apart (protocol, ports, remote address): the bearers' TFTs, the
\* rules built from them and the choice the TC program makes fit together.
\* Set aside, and stated by UplinkFollowsBearers: precedence 255, more filters than
\* rules, IP options, and the components that no rule has.
UplinkOnBearer ==
  \A s \in sessionsByID, flow \in Flow :
    LET Takes(g) == g.prec # 255 /\ flow \in g.kept
        out == Encapsulate(paa[s], [flow |-> flow, options |-> FALSE])
    IN Settled(s) /\ Cardinality(Rules(s, bearers[s])) <= MaxTFTRules
         => out # {} /\ out \subseteq Meant(s, Takes)

-----------------------------------------------------------------------------
(* What the documentation says, and the code does not do *)

\* "When a session or bearer is installed, Go writes the ... TFT-derived rule
\* state into BPF maps.  Delete and update bearer procedures remove or refresh
\* those entries during normal session cleanup": whatever AddSession, the bearer
\* procedures and teardowns did to an address, once they are over an uplink
\* packet without IP options leaves on the bearer that the packet filters, as
\* the PGW wrote them, select; and on none when no session has the address.
UplinkFollowsBearers ==
  \A a \in PAA, flow \in Flow :
    LET users == {s \in sessionsByID : paa[s] = a}
        Takes(g) == flow \in g.flows
        out == Encapsulate(a, [flow |-> flow, options |-> FALSE])
    IN rd.pc = "idle" /\ (\A s \in Session : paa[s] = a => addPC[s] \in {"done", "failed"})
       => /\ users = {} => out = {}
          /\ \A s \in users \cap pgw : out # {} /\ out \subseteq Meant(s, Takes)
=============================================================================
