----------------------------- MODULE HaCommand -----------------------------
(***************************************************************************)
(* The commands of hustdbha that leave no repair record, together with the *)
(* replicated writes of HaWrite they run beside: reads that go on to the   *)
(* next living peer (hustdb_ha_read_handler.c), reads that compare both    *)
(* masters (hustdb_ha_read2_handler.c), cached writes                      *)
(* (hustdb_ha_write_cache.c), hincrby (hustdb_ha_hincrby_handler.c) and    *)
(* commands for a peer the client names (hustdb_ha_post_peer).             *)
(***************************************************************************)
EXTENDS HaWrite, Sequences, FiniteSetsExt

CONSTANTS
    Commands,   \* the client requests that are commands
    ReadList,   \* hustdb_ha_get_readlist: the peers of each key, in order
    Kinds       \* the kinds of commands clients use, a subset of AllKinds

\* READ: exist, get, hget, ttl.  BODYREAD: sismember, zscore, zismember,
\* zrangebyrank, whose key or arguments come with the body.  READ2: get2,
\* hget2, zscore2.  MEMBER2: sismember2, which discards the body.
AllKinds == {"READ", "BODYREAD", "READ2", "MEMBER2", "CACHE", "HINCRBY", "PEER"}

ASSUME ReadListAssumption ==
    ReadList \in [Keys -> {s \in Seq(Peers) : Len(s) > 1}]
\* __set_table_item: every part of the table is read from its masters first.
ASSUME MastersFirst ==
    \A k \in Keys, i \in Master : ReadList[k][i] = WriteList[k][i]
ASSUME KindsAssumption == Kinds \subseteq AllKinds

VARIABLES
    cphase,   \* progress of a command, as pc
    cctx,     \* the context of each command
    creply,   \* the answer to the subrequest a command waits for
    cresp,    \* what the client was sent
    hist,     \* of each command, what happened since it arrived (auxiliary)
    retried   \* requests whose subrequest nginx sends again for ever

cvars == <<cphase, cctx, creply, cresp, hist>>
allvars == <<vars, cvars, retried>>

-----------------------------------------------------------------------------
Conflict == 409

\* Version, Version2 and Fail are headers; 0 where they are not sent.
NoCommandResponse == [status |-> NoStatus, version |-> 0, version2 |-> 0, fail |-> Null]

\* hustdb_ha_ctx_t, hustdb_ha_read_ctx_t, hustdb_ha_write_cache_ctx_t: the list
\* of peers, the place in it, the versions seen, the failures.
CreateCtx(kind, k, list) ==
    [kind |-> kind, key |-> k, list |-> list, pos |-> Null, state |-> "MASTER1",
     version |-> 0, version1 |-> 0, error_count |-> 0, error_peer |-> Null]

\* Faulty variant: the search starts one peer too far.
NextPeerSkipsOne(list, i) ==
    LET living == {j \in i + 2..Len(list) : alive[list[j]]}
    IN  IF living = {} THEN Null ELSE Min(living)

\* ngx_http_get_next_peer, and with i = 0 ngx_http_get_first_peer.
NextPeer(list, i) ==
    LET living == {j \in i + 1..Len(list) : alive[list[j]]}
    IN  IF living = {} THEN Null ELSE Min(living)

-----------------------------------------------------------------------------
(* The ways a handler ends.                                                *)

WaitBody(d, c) ==
    /\ cphase' = [cphase EXCEPT ![d] = "body"]
    /\ cctx' = [cctx EXCEPT ![d] = c]
    /\ UNCHANGED <<creply, cresp>>

Ask(d, c) ==
    /\ cphase' = [cphase EXCEPT ![d] = "sub"]
    /\ cctx' = [cctx EXCEPT ![d] = c]
    /\ creply' = [creply EXCEPT ![d] = NoReply]
    /\ UNCHANGED cresp

Respond(d, c, s, v, v2, fail) ==
    /\ cphase' = [cphase EXCEPT ![d] = "done"]
    /\ cctx' = [cctx EXCEPT ![d] = c]
    /\ creply' = [creply EXCEPT ![d] = NoReply]
    /\ cresp' = [cresp EXCEPT ![d] =
                    [status |-> s, version |-> v, version2 |-> v2, fail |-> fail]]

Refuse(d, c, s) == Respond(d, c, s, 0, 0, Null)

\* Ask the next living peer after the current one, or give up with status s.
AskNext(d, c, s) ==
    LET next == NextPeer(c.list, c.pos) IN
    \/ next # Null /\ Ask(d, [c EXCEPT !.pos = next])
    \/ next = Null /\ Refuse(d, c, s)

-----------------------------------------------------------------------------
(* A command arrives.  known says that its key and arguments are there.    *)

\* __start_read: the first living peer is asked at once.
StartRead(d, k, known) ==
    LET c == CreateCtx("READ", k, ReadList[k]) IN
    \/ known /\ AskNext(d, c, Closed)
    \/ ~known /\ Refuse(d, c, Closed)

\* __post_read, hustdb_ha_zread_handler and hustdb_ha_read2_handler: nothing is
\* looked up before the body is there.
StartBodyRead(d, kind, k, known) ==
    LET c == CreateCtx(kind, k, ReadList[k]) IN
    /\ kind \in {"BODYREAD", "READ2", "MEMBER2"}
    /\ \/ WaitBody(d, c)
       \/ kind = "BODYREAD" /\ Refuse(d, c, NotAllowed)
       \/ kind = "BODYREAD" /\ ~known /\ Refuse(d, c, Closed)

\* __start_write_cache: the masters' health is read before the body is.
StartCache(d, k, known) ==
    LET c == CreateCtx("CACHE", k, WriteList[k])
        a == InitWriteArgs(CreateWriteCtx("PUT", k))
    IN  \/ /\ known /\ Writable(k)
           /\ WaitBody(d, [c EXCEPT !.pos = a.peer, !.state = a.state,
                                    !.error_count = a.error_count,
                                    !.error_peer = a.error_peer])
        \/ ~(known /\ Writable(k)) /\ Refuse(d, c, NotFound)

\* __start_hincrby: one living master is asked, and told of the other.
StartHincrby(d, k, known) ==
    LET c == CreateCtx("HINCRBY", k, WriteList[k]) IN
    \/ known /\ AskNext(d, c, NotFound)
    \/ ~known /\ Refuse(d, c, NotFound)

\* __post_peer: whether the peer lives is not looked at.
StartPeer(d, k, p, known) ==
    LET c == CreateCtx("PEER", k, <<p>>) IN
    \/ known /\ Ask(d, [c EXCEPT !.pos = 1])
    \/ ~known /\ Refuse(d, c, Closed)

-----------------------------------------------------------------------------
(* The body is there, or a subrequest is over.                             *)

\* __post_handler, __post_body_handler, __zkeys_post_body_handler of the read
\* handler, __post_body_handler of read2, __post_cache_handler.
CommandBody(d, known) ==
    LET c == cctx[d] IN
    /\ cphase[d] = "body"
    /\ \/ c.kind = "BODYREAD" /\ known /\ AskNext(d, c, NotFound)
       \/ c.kind \in {"READ2", "MEMBER2"} /\ known /\ alive[c.list[1]]
          /\ Ask(d, [c EXCEPT !.pos = 1])
       \/ c.kind \in {"READ2", "MEMBER2"} /\ known /\ ~alive[c.list[1]]
          /\ Refuse(d, c, NotFound)
       \/ c.kind # "CACHE" /\ ~known /\ Refuse(d, c, NotFound)
       \/ c.kind = "CACHE" /\ Ask(d, c)

\* hustdb_ha_read_handler and its zset forms: the first 200 is the answer.
OnRead(d, s, v) ==
    LET c == KeepVersion(cctx[d], s, v) IN
    /\ c.kind \in {"READ", "BODYREAD"}
    /\ \/ s = OK /\ Respond(d, c, OK, c.version, 0, Null)
       \/ s # OK /\ AskNext(d, c, NotFound)

\* __on_read_master1_complete
OnReadMaster1(d, s, v) ==
    LET c == [cctx[d] EXCEPT !.pos = 2, !.state = "MASTER2", !.version = v, !.version1 = v] IN
    /\ cctx[d].kind \in {"READ2", "MEMBER2"} /\ cctx[d].state = "MASTER1"
    /\ \/ s = OK /\ alive[c.list[2]] /\ Ask(d, c)
       \/ s # OK /\ Refuse(d, cctx[d], NotFound)
       \/ s = OK /\ ~alive[c.list[2]] /\ Refuse(d, cctx[d], NotFound)

\* ctx->version after master2's 200: an answer without a Version header (v = 0)
\* leaves the one of master1.
Version2(c, v) == IF v = 0 THEN c.version ELSE v

\* Faulty variant: master1's response is overwritten before it is compared.
OnReadMaster2Overwritten(d, s, v) ==
    /\ cctx[d].kind \in {"READ2", "MEMBER2"} /\ cctx[d].state = "MASTER2"
    /\ \/ s # OK /\ Refuse(d, cctx[d], NotFound)
       \/ s = OK /\ Respond(d, cctx[d], OK, Version2(cctx[d], v), 0, Null)

\* __on_read_master2_complete.  Versions are compared for sismember2, values
\* for the others; same says that the masters hold the same value, empty that
\* one of them holds an empty one.
OnReadMaster2(d, s, v) ==
    LET c == [cctx[d] EXCEPT !.version = Version2(cctx[d], v)]
        agree == c.version1 = c.version
        \* the headers: one version, or both
        v1 == c.version1
        v2 == IF agree THEN 0 ELSE c.version
    IN  /\ c.kind \in {"READ2", "MEMBER2"} /\ c.state = "MASTER2"
        /\ \/ s # OK /\ Refuse(d, cctx[d], NotFound)
           \/ /\ s = OK /\ c.kind = "MEMBER2"
              /\ Respond(d, c, IF agree THEN OK ELSE Conflict, v1, v2, Null)
           \/ /\ s = OK /\ c.kind = "READ2"
              /\ \/ \E same \in BOOLEAN :
                      Respond(d, c, IF same THEN OK ELSE Conflict, v1, v2, Null)
                 \/ \* one of two different values is empty
                    Respond(d, c, NotFound, v1, v2, Null)

\* __update_cache_error
CacheError(c, s) ==
    IF s = OK THEN c ELSE [c EXCEPT !.error_count = @ + 1, !.error_peer = c.pos]

\* Faulty variant: two failures are answered as one.
CacheResponseLenient(d, c) ==
    \/ c.error_count = 0 /\ Respond(d, c, OK, 0, 0, Null)
    \/ c.error_count > 0 /\ Respond(d, c, OK, 0, 0, c.error_peer)

\* __send_write_cache_response
CacheResponse(d, c) ==
    \/ c.error_count = 0 /\ Respond(d, c, OK, 0, 0, Null)
    \/ c.error_count = 1 /\ Respond(d, c, OK, 0, 0, c.error_peer)
    \/ c.error_count > 1 /\ Refuse(d, c, NotFound)

\* __on_write_cache_master1_complete and __on_write_cache_master2_complete
OnCache(d, s) ==
    LET c == CacheError(cctx[d], s) IN
    /\ c.kind = "CACHE"
    /\ \/ /\ c.state = "MASTER1" /\ alive[c.list[2]]
          /\ Ask(d, [c EXCEPT !.pos = 2, !.state = "MASTER2"])
       \/ /\ c.state = "MASTER1" /\ ~alive[c.list[2]]
          /\ CacheResponse(d, [c EXCEPT !.pos = 2, !.error_count = @ + 1, !.error_peer = 2])
       \/ c.state = "MASTER2" /\ CacheResponse(d, c)

\* hustdb_ha_hincrby_handler and hustdb_ha_post_peer, called again.
OnSingle(d, s) ==
    /\ cctx[d].kind \in {"HINCRBY", "PEER"}
    /\ Refuse(d, cctx[d], IF s = OK THEN OK ELSE NotFound)

\* The kinds whose answers rest on what several peers said.
Traced == {"READ", "BODYREAD", "CACHE"}

\* The subrequest is over; what the peer said goes into the history.
Completed(d, s, v) ==
    /\ cphase[d] = "sub"
    /\ OnRead(d, s, v) \/ OnReadMaster1(d, s, v) \/ OnReadMaster2(d, s, v)
         \/ OnCache(d, s) \/ OnSingle(d, s)
    /\ hist' = [hist EXCEPT ![d].said =
                   IF cctx[d].kind \in Traced
                   THEN @ \union {[pos |-> cctx[d].pos, status |-> s]} ELSE @]

HandleCommand(d) ==
    \/ \E known \in BOOLEAN : CommandBody(d, known) /\ UNCHANGED hist
    \/ cphase[d] = "body" /\ Refuse(d, cctx[d], Closed) /\ UNCHANGED hist
    \/ creply[d] # NoReply /\ Completed(d, creply[d].status, creply[d].version)
    \/ Completed(d, NoStatus, 0)

-----------------------------------------------------------------------------
(* Backends, the health checker and the clients (external).                *)

\* The peer a command waits for answers a read from what it holds, or says
\* that it has nothing; a cached write or a hincrby it carries out or refuses.
BackendAnswers(d) ==
    LET c == cctx[d]
        held == ver[c.list[c.pos]][c.key]
        reads == c.kind \in {"READ", "BODYREAD", "READ2", "MEMBER2"}
    IN  /\ cphase[d] = "sub" /\ creply[d] = NoReply
        /\ \/ /\ reads => held > 0
              /\ creply' = [creply EXCEPT ![d] =
                               [status |-> OK, version |-> IF reads THEN held ELSE 0]]
           \/ creply' = [creply EXCEPT ![d] = [status |-> NotFound, version |-> 0]]
        /\ UNCHANGED <<vars, cphase, cctx, cresp, hist>>

Down == {p \in Peers : ~alive[p]}
Answers200 == {r \in Requests : pc[r] = "done" /\ resp[r].status = OK}

Arrives(d) ==
    /\ cphase[d] = "new"
    /\ \E k \in Keys, known \in BOOLEAN :
        \/ "READ" \in Kinds /\ StartRead(d, k, known)
        \/ \E kind \in Kinds : StartBodyRead(d, kind, k, known)
        \/ "CACHE" \in Kinds /\ StartCache(d, k, known)
        \/ "HINCRBY" \in Kinds /\ StartHincrby(d, k, known)
        \/ "PEER" \in Kinds /\ \E p \in Peers : StartPeer(d, k, p, known)
    /\ hist' = [hist EXCEPT ![d] = [since |-> Answers200, said |-> {},
                                    down |-> IF cctx'[d].kind \in Traced THEN Down ELSE {}]]
    /\ UNCHANGED vars

\* A peer that is declared down is remembered by the commands under way.
CheckPeerBeside(p) ==
    /\ CheckPeer(p)
    /\ hist' = [d \in Commands |->
                   IF cphase[d] \in {"body", "sub"} /\ cctx[d].kind \in Traced /\ alive[p]
                   THEN [hist[d] EXCEPT !.down = @ \union {p}] ELSE hist[d]]
    /\ UNCHANGED <<cphase, cctx, creply, cresp>>

BackendStep ==
    \E x \in calls :
        \/ BackendWrite(x)
        \/ \E s \in {NotFound, PreconditionFailed} : BackendRefuse(x, s)
        \/ BackendBinlog(x)

CInit ==
    /\ Init
    /\ cphase = [d \in Commands |-> "new"]
    /\ \E k \in Keys : cctx = [d \in Commands |-> CreateCtx("READ", k, ReadList[k])]
    /\ creply = [d \in Commands |-> NoReply]
    /\ cresp = [d \in Commands |-> NoCommandResponse]
    /\ hist = [d \in Commands |-> [since |-> {}, said |-> {}, down |-> {}]]
    /\ retried = {}

\* The selector's __get_peer leaves pc->cached as it is: once r's subrequest met
\* an idle connection that fails, no error costs nginx a try, and it asks the same
\* peer until that peer answers, or a try ends otherwise.  All its tries are the
\* one call of the model.
RetriedForEver(r) ==
    /\ retried' = retried \union {r}
    /\ UNCHANGED <<vars, cvars>>

Retried ==
    \/ \E r \in Requests : pc[r] = "sub" /\ reply[r] = NoReply /\ RetriedForEver(r)
    \/ \E d \in Commands : cphase[d] = "sub" /\ creply[d] = NoReply /\ RetriedForEver(d)

\* The next subrequest of a request is on a connection of its own.
Returns(r) == retried' = retried \ {r}

HandleBeside(r) == Handle(r) /\ Returns(r) /\ UNCHANGED cvars
HandleAlone(d) == HandleCommand(d) /\ Returns(d) /\ UNCHANGED vars

CNext ==
    \/ \E r \in Requests : HandleBeside(r)
    \/ \E d \in Commands : HandleAlone(d)
    \/ Retried
    \/ \E r \in Requests : Arrive(r) /\ UNCHANGED <<cvars, retried>>
    \/ BackendStep /\ UNCHANGED <<cvars, retried>>
    \/ \E p \in Peers : CheckPeerBeside(p) /\ UNCHANGED retried
    \/ \E d \in Commands : (Arrives(d) \/ BackendAnswers(d)) /\ UNCHANGED retried

\* nginx's timers end a wait for a body, and a peer that does not answer costs a
\* try: the handler is called again, but for a subrequest that is retried for ever.
CSpec ==
    /\ CInit /\ [][CNext]_allvars
    /\ \A r \in Requests :
         WF_allvars(HandleBeside(r) /\ (r \in retried => reply[r] # NoReply))
    /\ \A d \in Commands :
         WF_allvars(HandleAlone(d) /\ (d \in retried => creply[d] # NoReply))

-----------------------------------------------------------------------------
(* Properties.                                                             *)

\* The peer whose 200 a read passed on.
Source(d) == {cctx[d].list[x.pos] : x \in {y \in hist[d].said : y.status = OK}}

Reading(d) == cctx[d].kind \in {"READ", "BODYREAD"} /\ cresp[d].status = OK

\* A read that hustdb_ha_read_handler answers, whichever peer it failed over
\* to, is not older than any write that had been answered 200 when the read
\* arrived, unless that write's Sync header named the peer that answered it.
ReadSeesAcked ==
    \A d \in Commands : Reading(d) =>
        \A r \in hist[d].since, i \in Master :
            (ctx[r].key = cctx[d].key /\ WriteList[ctx[r].key][i] \in Source(d)) =>
                \/ resp[r].sync = i
                \/ \E a \in acks[r] : a.pos = i /\ a.version <= cresp[d].version

\* hustdb_ha_read_handler answers 404 to a read that asked a peer only after
\* every peer of the list refused it, failed, or was down at some moment while
\* the read was under way.
NotFoundAfterAll ==
    \A d \in Commands :
        (cctx[d].kind \in {"READ", "BODYREAD"} /\ cresp[d].status = NotFound
            /\ hist[d].said # {}) =>
        \A i \in DOMAIN cctx[d].list :
            \/ \E x \in hist[d].said : x.pos = i /\ x.status # OK
            \/ cctx[d].list[i] \in hist[d].down

\* A 200 of read2 that reports one version has seen on both masters what every
\* write left there that was answered 200 before: a master that is behind, as
\* __on_read_master2_complete compares them, never hides in it.
OneVersionMeansBoth ==
    \A d \in Commands :
        (cctx[d].kind \in {"READ2", "MEMBER2"} /\ cresp[d].status = OK
            /\ cresp[d].version2 = 0) =>
        \A r \in hist[d].since : ctx[r].key = cctx[d].key =>
            \A a \in acks[r] : a.version <= cresp[d].version

\* A cached write that is answered 200 was taken by both masters, or by the one
\* that the Fail header of __send_write_cache_response does not name.
CacheAnswerTrue ==
    \A d \in Commands : (cctx[d].kind = "CACHE" /\ cresp[d].status = OK) =>
        {x.pos : x \in {y \in hist[d].said : y.status = OK}} = Master \ {cresp[d].fail}

\* A 200 tells the truth about both masters: of the cached write, and of the
\* version (hustdb_ha_send_response takes the greatest one acknowledged).
AnswersTrue == CacheAnswerTrue /\ AnswerVersionIsMax

\* Every accepted write and every accepted command is answered in the end,
\* whatever its body, its peers and the health checker do, unless one subrequest
\* of it is retried for ever (__get_peer of the selector): nothing else, no fate
\* of a write, of its binlog call or of a read's peers, leaves it waiting.
AllAnswered ==
    /\ \A r \in Requests :
         <>[](r \in retried) \/ ((pc[r] # "new") ~> (pc[r] = "done"))
    /\ \A d \in Commands :
         <>[](d \in retried) \/ ((cphase[d] # "new") ~> (cphase[d] = "done"))
-----------------------------------------------------------------------------
(* The inductive invariant behind the safety properties.                   *)

CommandStatus == {NoStatus, OK, NotFound, NotAllowed, Conflict, Closed}
CommandCtx ==
    [kind : AllKinds, key : Keys, list : Seq(Peers), pos : Nat, state : States,
     version : Nat, version1 : Nat, error_count : Nat, error_peer : Nat]
CommandReply == [status : {NoStatus, OK, NotFound}, version : Nat]
Heard == [pos : Nat, status : {NoStatus, OK, NotFound}]
History == [since : SUBSET Requests, said : SUBSET Heard, down : SUBSET Peers]
CommandResponse ==
    [status : CommandStatus, version : Nat, version2 : Nat, fail : Nat]

\* Every variable has its type.
CTypeOK ==
    /\ cphase \in [Commands -> Phases]
    /\ cctx \in [Commands -> CommandCtx]
    /\ creply \in [Commands -> CommandReply]
    /\ cresp \in [Commands -> CommandResponse]
    /\ hist \in [Commands -> History]

\* What a master reported for a request is held there, or was overwritten by
\* something newer.
ReportedHeld(r) ==
    LET k == ctx[r].key IN
    /\ \A a \in acks[r] : a.version <= ver[WriteList[k][a.pos]][k]
    /\ pc[r] = "sub" /\ ctx[r].state # "BINLOG" /\ reply[r].status = OK =>
         reply[r].version <= ver[WriteList[k][ctx[r].peer]][k]

\* Version v of peer p is not older than the writes of the same key that were
\* answered before d arrived.
Covers(d, p, v) ==
    \A r \in hist[d].since : ctx[r].key = cctx[d].key =>
        \A a \in acks[r] : WriteList[ctx[r].key][a.pos] = p => a.version <= v

\* The first n peers of the list refused, failed or were down.
PassedOver(d, n) ==
    \A i \in 1..n :
        \/ \E x \in hist[d].said : x.pos = i /\ x.status # OK
        \/ cctx[d].list[i] \in hist[d].down

Taken(d) == {x.pos : x \in {y \in hist[d].said : y.status = OK}}

\* What holds of every command.
HistoryInv(d) ==
    /\ hist[d].since \subseteq Answers200
    /\ cphase[d] \in {"new", "body"} => hist[d].said = {}
    /\ cphase[d] # "done" => cresp[d] = NoCommandResponse
    /\ cphase[d] \in {"body", "sub"} /\ cctx[d].kind \in Traced => Down \subseteq hist[d].down

ReadInv(d) ==
    LET c == cctx[d] IN
    /\ c.list = ReadList[c.key]
    /\ cphase[d] = "body" => c.pos = Null /\ c.version = 0
    /\ cphase[d] = "sub" =>
         /\ c.pos \in DOMAIN c.list /\ c.version = 0
         /\ Taken(d) = {} /\ PassedOver(d, c.pos - 1)
         /\ creply[d].status = OK => Covers(d, c.list[c.pos], creply[d].version)
    /\ cresp[d].status = OK => \A p \in Source(d) : Covers(d, p, cresp[d].version)
    /\ cresp[d].status = NotFound /\ hist[d].said # {} => PassedOver(d, Len(c.list))

Read2Inv(d) ==
    LET c == cctx[d] IN
    /\ c.list = ReadList[c.key]
    /\ cphase[d] = "body" => c.state = "MASTER1"
    /\ cphase[d] = "sub" =>
         /\ \/ c.state = "MASTER1" /\ c.pos = 1
            \/ c.state = "MASTER2" /\ c.pos = 2 /\ Covers(d, c.list[1], c.version1)
         /\ creply[d].status = OK => Covers(d, c.list[c.pos], creply[d].version)
    /\ cresp[d].status = OK /\ cresp[d].version2 = 0 =>
         \A p \in Peers : Covers(d, p, cresp[d].version)

\* Where a cached write may be, when the masters in taken have taken it.
CacheAt(c, taken) ==
    \/ /\ c.state = "MASTER1" /\ c.pos = 1
       /\ c.error_count = 0 /\ c.error_peer = Null /\ taken = {}
    \/ /\ c.state = "MASTER2" /\ c.pos = 2
       /\ \/ c.error_count = 0 /\ c.error_peer = Null /\ taken = {1}
          \/ c.error_count = 1 /\ c.error_peer = 1 /\ taken = {}

CacheInv(d) ==
    /\ cphase[d] \in {"body", "sub"} =>
         cctx[d].list = WriteList[cctx[d].key] /\ CacheAt(cctx[d], Taken(d))
    /\ cresp[d].status = OK => Taken(d) = Master \ {cresp[d].fail}

KindInv(d) ==
    /\ cctx[d].kind \in {"READ", "BODYREAD"} => ReadInv(d)
    /\ cctx[d].kind \in {"READ2", "MEMBER2"} => Read2Inv(d)
    /\ cctx[d].kind = "CACHE" => CacheInv(d)

CommandInv ==
    /\ CTypeOK
    /\ \A r \in Requests : ReportedHeld(r)
    /\ \A d \in Commands : HistoryInv(d) /\ KindInv(d)
=============================================================================
