------------------------------ MODULE HaWrite ------------------------------
(***************************************************************************)
(* The replicated write of hustdbha: put, hset, sadd, del, hdel, srem,     *)
(* zadd and zrem (hustdb_ha_write_handler.c, hustdb_ha_write_args.c,       *)
(* hustdb_ha_write_binlog.c, hustdb_ha_handler_base.c).                    *)
(*                                                                         *)
(* A key has two masters.  A request is written to the first, then to the  *)
(* second; when exactly one of them fails, a repair record that names the  *)
(* failed one is left on the healthy one (binlog) or, when that fails too, *)
(* in a local log (sync data).  Requests interleave with one another, with *)
(* the health checker that flips "alive" at any time, with lost, late and  *)
(* abandoned backend calls and with request bodies that arrive later.      *)
(***************************************************************************)
EXTENDS Integers

CONSTANTS
    Requests,   \* the client requests
    Keys,       \* the hash keys (a key, or a table for the sorted sets)
    Peers,      \* the backends
    WriteList,  \* hustdb_ha_get_writelist: the two masters of each key
    Offered,    \* the methods clients use, a subset of Methods
    Held,       \* the version each backend holds of each key at the start
    DebugSync   \* the configuration flag debug_sync

\* The two nodes of a write list; Null is the C null pointer to one of them.
Master == {1, 2}
Null == 0

ASSUME WriteListAssumption == WriteList \in [Keys -> [Master -> Peers]]
ASSUME HeldAssumption == Held \in [Peers -> [Keys -> Nat]]
ASSUME DebugSyncAssumption == DebugSync \in BOOLEAN

VARIABLES
    alive,    \* what the upstream check module says of each peer
    pc,       \* progress of a request: see Phases
    ctx,      \* hustdb_ha_write_ctx_t of each request
    calls,    \* subrequests on their way to a backend
    reply,    \* the answer to the subrequest a request waits for
    ver,      \* the version each backend holds for each key
    acks,     \* masters that answered 200, with the version they reported
    binlog,   \* repair records held by a backend
    synclog,  \* repair records in the local log of the failed master
    resp      \* what the client was sent

vars == <<alive, pc, ctx, calls, reply, ver, acks, binlog, synclog, resp>>

-----------------------------------------------------------------------------
(* Methods, statuses and the records of the model.                         *)

\* hustdb_ha_start_post with the key in the arguments.
PostMethods == {"PUT", "HSET"}
\* hustdb_ha_start_post with the key in the body; only POST is accepted.
BodyKeyMethods == {"SADD", "SREM"}
\* hustdb_ha_start_del: no body.
DirectMethods == {"DEL", "HDEL"}
\* hustdb_ha_zwrite_handler.
ZsetMethods == {"ZADD", "ZREM"}
Methods == PostMethods \union BodyKeyMethods \union DirectMethods \union ZsetMethods

ASSUME OfferedAssumption == Offered \subseteq Methods

Phases == {"new", "body", "sub", "done"}
States == {"MASTER1", "MASTER2", "BINLOG"}

\* NoStatus is the status of a subrequest that ended without a response
\* (refused connection, timeout); Closed is a connection dropped unanswered.
NoStatus == 0
Closed == 500
OK == 200
NotFound == 404
NotAllowed == 405
PreconditionFailed == 412

Ctx == [method : Methods, key : Keys, state : States, peer : {Null} \union Master,
        error_count : 0..2, skip_error_count : 0..2,
        error_peer : {Null} \union Master, health_peer : {Null} \union Master,
        version : Nat]
Call == [req : Requests, pos : Master, kind : {"write", "binlog"}]
Reply == [status : {NoStatus, OK, NotFound, PreconditionFailed}, version : Nat]
NoReply == [status |-> NoStatus, version |-> 0]
Ack == [pos : Master, version : Nat]
Repair == [req : Requests, source : {Null} \union Master, host : {Null} \union Master]
Response == [status : {NoStatus, OK, NotFound, NotAllowed, Closed}, version : Nat,
             sync : {Null} \union Master, sent : 0..2]
NoResponse == [status |-> NoStatus, version |-> 0, sync |-> Null, sent |-> 0]

\* hustdb_ha_create_write_ctx: a zeroed context attached to the request.
CreateWriteCtx(m, k) ==
    [method |-> m, key |-> k, state |-> "MASTER1", peer |-> Null,
     error_count |-> 0, skip_error_count |-> 0,
     error_peer |-> Null, health_peer |-> Null, version |-> 0]

PeerIsAlive(k, i) == i # Null /\ alive[WriteList[k][i]]
Writable(k) == PeerIsAlive(k, 1) \/ PeerIsAlive(k, 2)

\* hustdb_ha_init_write_args when some master is alive: start at the first
\* master, or count it as failed and start at the second.
InitWriteArgs(c) ==
    IF PeerIsAlive(c.key, 1)
    THEN [c EXCEPT !.peer = 1, !.state = "MASTER1"]
    ELSE [c EXCEPT !.peer = 2, !.state = "MASTER2",
                   !.error_count = 1, !.error_peer = 1]

SkipNotFoundError(m, s) == s = NotFound /\ m \in {"DEL", "HDEL", "SREM", "ZREM"}
SkipPreconditionError(m, s) == s = PreconditionFailed /\ m \in Methods \ {"PUT"}
SkipError(m, s) == SkipPreconditionError(m, s) \/ SkipNotFoundError(m, s)

\* __update_error: what one master's answer does to the context.
UpdateError(c, s) ==
    CASE s = OK -> [c EXCEPT !.health_peer = c.peer]
      [] s # OK /\ SkipError(c.method, s) ->
           [c EXCEPT !.skip_error_count = @ + 1]
      [] OTHER -> [c EXCEPT !.error_count = @ + 1, !.error_peer = c.peer]

\* Faulty variant: a dead second master is not counted.
SecondMasterDeadUncounted(c) == c

\* The "master2 dead" branch of __on_write_master1_complete.
SecondMasterDead(c) == [c EXCEPT !.error_count = @ + 1, !.error_peer = 2]

\* Faulty variant: the last version wins.
KeepLastVersion(c, s, v) == IF s = OK THEN [c EXCEPT !.version = v] ELSE c

\* hustdb_ha_on_subrequest_complete: keep the greatest version of the 200s
\* (0 stands for a missing Version header or an unset version).
KeepVersion(c, s, v) ==
    IF s = OK /\ v > c.version THEN [c EXCEPT !.version = v] ELSE c

-----------------------------------------------------------------------------
(* The two ways a handler ends: another subrequest, or the answer.         *)

\* ngx_http_gen_subrequest / ngx_http_run_subrequest.
RunSubrequest(r, c, i, kind) ==
    /\ pc' = [pc EXCEPT ![r] = "sub"]
    /\ ctx' = [ctx EXCEPT ![r] = c]
    /\ calls' = calls \union {[req |-> r, pos |-> i, kind |-> kind]}
    /\ reply' = [reply EXCEPT ![r] = NoReply]
    /\ UNCHANGED resp

\* hustdb_ha_send_response and the end of the request; n counts the times the
\* handler sends its answer.
SendResponse(r, c, s, sync, n) ==
    /\ pc' = [pc EXCEPT ![r] = "done"]
    /\ ctx' = [ctx EXCEPT ![r] = c]
    /\ reply' = [reply EXCEPT ![r] = NoReply]
    /\ resp' = [resp EXCEPT ![r] = [status |-> s,
                                    version |-> IF s = OK THEN c.version ELSE 0,
                                    sync |-> sync, sent |-> n]]
    /\ UNCHANGED calls

\* hustdb_ha_write_sync_data: append the request to the log of the failed
\* master.  Building the record or finding the log category may fail.
WriteSyncData(r, c) ==
    \/ /\ synclog' = synclog \union {[req |-> r, source |-> c.health_peer,
                                     host |-> c.error_peer]}
       /\ SendResponse(r, c, OK, c.error_peer, 1)
    \/ /\ SendResponse(r, c, NotFound, Null, 1)
       /\ UNCHANGED synclog

\* hustdb_ha_write_binlog: leave the repair record on the healthy master.
WriteBinlog(r, c) ==
    \/ /\ PeerIsAlive(c.key, c.health_peer)
       /\ RunSubrequest(r, [c EXCEPT !.state = "BINLOG"], c.health_peer, "binlog")
       /\ UNCHANGED synclog
    \/ /\ ~PeerIsAlive(c.key, c.health_peer)
       /\ WriteSyncData(r, c)

\* Faulty variant: skipped errors are forgotten.
NeedsRepairDespiteSkip(c) == c.error_count = 1

\* Exactly one master failed and the other one took the write.
NeedsRepair(c) == c.skip_error_count = 0 /\ c.error_count = 1
Clean(c) == c.skip_error_count = 0 /\ c.error_count = 0

\* __post_write_data: both masters are settled.
PostWriteData(r, c) ==
    \/ /\ NeedsRepair(c)
       /\ WriteBinlog(r, c)
    \/ /\ Clean(c)
       /\ SendResponse(r, c, OK, Null, 1)
       /\ UNCHANGED synclog
    \/ /\ ~NeedsRepair(c) /\ ~Clean(c)
       /\ SendResponse(r, c, NotFound, Null, 1)
       /\ UNCHANGED synclog

-----------------------------------------------------------------------------
(* A request arrives.                                                      *)

Start(r) ==
    /\ pc[r] = "new"
    /\ UNCHANGED <<alive, ver, acks, binlog, synclog>>

\* hustdb_ha_start_post (key in the arguments) and __start_zwrite: the masters
\* are looked up and their health is read before the body is.
StartPost(r, m, k) ==
    /\ Start(r)
    /\ m \in PostMethods \union ZsetMethods
    /\ \/ \* an argument is missing, or no master is alive
          SendResponse(r, CreateWriteCtx(m, k), NotFound, Null, 1)
       \/ /\ Writable(k)
          /\ pc' = [pc EXCEPT ![r] = "body"]
          /\ ctx' = [ctx EXCEPT ![r] = InitWriteArgs(CreateWriteCtx(m, k))]
          /\ UNCHANGED <<calls, reply, resp>>

\* hustdb_ha_start_post with key_in_body: nothing is looked up yet.
StartBodyKey(r, m, k) ==
    /\ Start(r)
    /\ m \in BodyKeyMethods
    /\ \/ \* not a POST
          SendResponse(r, CreateWriteCtx(m, k), NotAllowed, Null, 1)
       \/ /\ pc' = [pc EXCEPT ![r] = "body"]
          /\ ctx' = [ctx EXCEPT ![r] = CreateWriteCtx(m, k)]
          /\ UNCHANGED <<calls, reply, resp>>

\* hustdb_ha_start_del: no body, the first subrequest leaves at once.
StartDel(r, m, k) ==
    /\ Start(r)
    /\ m \in DirectMethods
    /\ \/ \* NGX_ERROR: an argument is missing, or no master is alive
          SendResponse(r, CreateWriteCtx(m, k), Closed, Null, 0)
       \/ LET c == InitWriteArgs(CreateWriteCtx(m, k)) IN
          /\ Writable(k)
          /\ RunSubrequest(r, c, c.peer, "write")

\* __post_handler and __post_body_handler: the body has arrived.
BodyReceived(r) ==
    /\ pc[r] = "body"
    /\ \/ /\ ctx[r].method \in PostMethods \union ZsetMethods
          /\ RunSubrequest(r, ctx[r], ctx[r].peer, "write")
       \/ \* a sorted set whose key is neither in the body nor an argument
          /\ ctx[r].method \in ZsetMethods
          /\ SendResponse(r, ctx[r], NotFound, Null, 1)
       \/ LET c == InitWriteArgs(ctx[r]) IN
          /\ ctx[r].method \in BodyKeyMethods
          /\ Writable(ctx[r].key)
          /\ RunSubrequest(r, c, c.peer, "write")
       \/ \* no key, no table or no master alive: both
          \* hustdb_ha_init_write_ctx_by_body and its caller answer
          /\ ctx[r].method \in BodyKeyMethods
          /\ SendResponse(r, ctx[r], NotFound, Null, 2)
    /\ UNCHANGED <<alive, ver, acks, binlog, synclog>>

\* nginx gives up on a body that does not arrive.
BodyTimeout(r) ==
    /\ pc[r] = "body"
    /\ SendResponse(r, ctx[r], Closed, Null, 0)
    /\ UNCHANGED <<alive, ver, acks, binlog, synclog>>

-----------------------------------------------------------------------------
(* The subrequest a request waits for is over, with status s and version v. *)

AckedBy(r, i, s, v) ==
    acks' = IF s = OK
            THEN [acks EXCEPT ![r] = @ \union {[pos |-> i, version |-> v]}]
            ELSE acks

\* __on_write_master1_complete: go on with the second master if it is alive,
\* else count it as failed.
OnWriteMaster1Complete(r, s, v) ==
    LET c == UpdateError(KeepVersion(ctx[r], s, v), s)
        alive2 == PeerIsAlive(c.key, 2) /\ ~DebugSync
        next == [c EXCEPT !.peer = 2]
    IN  /\ ctx[r].state = "MASTER1"
        /\ AckedBy(r, ctx[r].peer, s, v)
        /\ \/ /\ alive2
              /\ RunSubrequest(r, [next EXCEPT !.state = "MASTER2"], 2, "write")
              /\ UNCHANGED synclog
           \/ /\ ~alive2
              /\ PostWriteData(r, SecondMasterDead(next))

\* __on_write_master2_complete
OnWriteMaster2Complete(r, s, v) ==
    /\ ctx[r].state = "MASTER2"
    /\ AckedBy(r, ctx[r].peer, s, v)
    /\ PostWriteData(r, UpdateError(KeepVersion(ctx[r], s, v), s))

\* Faulty variant: a failed binlog call is sent again.
OnWriteBinlogRetry(r, s, v) ==
    LET c == KeepVersion(ctx[r], s, v) IN
    /\ ctx[r].state = "BINLOG"
    /\ \/ /\ s = OK
          /\ SendResponse(r, c, OK, c.error_peer, 1)
       \/ /\ s # OK
          /\ RunSubrequest(r, c, c.health_peer, "binlog")
    /\ UNCHANGED <<acks, synclog>>

\* __on_write_binlog_complete: fall back to the local log.
OnWriteBinlogComplete(r, s, v) ==
    LET c == KeepVersion(ctx[r], s, v) IN
    /\ ctx[r].state = "BINLOG"
    /\ \/ /\ s = OK
          /\ SendResponse(r, c, OK, c.error_peer, 1)
          /\ UNCHANGED synclog
       \/ /\ s # OK
          /\ WriteSyncData(r, c)
    /\ UNCHANGED acks

\* __switch_state
SwitchState(r, s, v) ==
    /\ pc[r] = "sub"
    /\ \/ OnWriteMaster1Complete(r, s, v)
       \/ OnWriteMaster2Complete(r, s, v)
       \/ OnWriteBinlogComplete(r, s, v)
    /\ UNCHANGED <<alive, ver, binlog>>

\* The backend's answer is read.
SubrequestAnswered(r) ==
    /\ reply[r] # NoReply
    /\ SwitchState(r, reply[r].status, reply[r].version)

\* The connection is refused or lost, or a timeout passes; an answer that is
\* under way is dropped and the call may still be carried out later.
SubrequestFailed(r) == SwitchState(r, NoStatus, 0)

-----------------------------------------------------------------------------
(* The environment: backends and the health checker (external).            *)

CurrentCall(r) ==
    [req |-> r,
     pos |-> IF ctx[r].state = "BINLOG" THEN ctx[r].health_peer ELSE ctx[r].peer,
     kind |-> IF ctx[r].state = "BINLOG" THEN "binlog" ELSE "write"]

\* The answer reaches the request only while it still waits for this call.
Answer(x, s, v) ==
    reply' = IF pc[x.req] = "sub" /\ CurrentCall(x.req) = x
             THEN [reply EXCEPT ![x.req] = [status |-> s, version |-> v]]
             ELSE reply

BackendDone(x) ==
    /\ calls' = calls \ {x}
    /\ UNCHANGED <<alive, pc, ctx, acks, synclog, resp>>

\* A backend carries the write out and reports the new version of the key.
BackendWrite(x) ==
    LET k == ctx[x.req].key
        p == WriteList[k][x.pos]
    IN  /\ x.kind = "write"
        /\ ver' = [ver EXCEPT ![p][k] = @ + 1]
        /\ Answer(x, OK, ver[p][k] + 1)
        /\ BackendDone(x)
        /\ UNCHANGED binlog

\* A backend has nothing to delete, or refuses the version it was given.
BackendRefuse(x, s) ==
    /\ x.kind = "write"
    /\ s \in {NotFound, PreconditionFailed}
    /\ Answer(x, s, 0)
    /\ BackendDone(x)
    /\ UNCHANGED <<ver, binlog>>

\* A backend stores the repair record (host is the failed master).
BackendBinlog(x) ==
    /\ x.kind = "binlog"
    /\ binlog' = binlog \union {[req |-> x.req, source |-> x.pos,
                                 host |-> ctx[x.req].error_peer]}
    /\ Answer(x, OK, 0)
    /\ BackendDone(x)
    /\ UNCHANGED ver

\* The check module declares a peer down or up.
CheckPeer(p) ==
    /\ alive' = [alive EXCEPT ![p] = ~@]
    /\ UNCHANGED <<pc, ctx, calls, reply, ver, acks, binlog, synclog, resp>>

-----------------------------------------------------------------------------
\* The state of a request before it arrives is never read: any context will do.
Init ==
    /\ alive \in [Peers -> BOOLEAN]
    /\ pc = [r \in Requests |-> "new"]
    /\ \E k \in Keys : ctx = [r \in Requests |-> CreateWriteCtx("PUT", k)]
    /\ calls = {}
    /\ reply = [r \in Requests |-> NoReply]
    /\ ver = Held
    /\ acks = [r \in Requests |-> {}]
    /\ binlog = {}
    /\ synclog = {}
    /\ resp = [r \in Requests |-> NoResponse]

Arrive(r) ==
    \E k \in Keys, m \in Offered :
        StartPost(r, m, k) \/ StartBodyKey(r, m, k) \/ StartDel(r, m, k)

Environment ==
    \/ \E x \in calls :
        \/ BackendWrite(x)
        \/ \E s \in {NotFound, PreconditionFailed} : BackendRefuse(x, s)
        \/ BackendBinlog(x)
    \/ \E p \in Peers : CheckPeer(p)

Handle(r) ==
    BodyReceived(r) \/ BodyTimeout(r) \/ SubrequestAnswered(r) \/ SubrequestFailed(r)

Next ==
    \/ \E r \in Requests : Arrive(r) \/ Handle(r)
    \/ Environment

Spec == Init /\ [][Next]_vars

-----------------------------------------------------------------------------
(* Properties.                                                             *)

Acked(r) == {a.pos : a \in acks[r]}
Repairs == binlog \union synclog
RepairsOf(r) == {x \in Repairs : x.req = r}

\* Every variable has its type.
TypeOK ==
    /\ alive \in [Peers -> BOOLEAN]
    /\ pc \in [Requests -> Phases]
    /\ ctx \in [Requests -> Ctx]
    /\ calls \in SUBSET Call
    /\ reply \in [Requests -> Reply]
    /\ ver \in [Peers -> [Keys -> Nat]]
    /\ acks \in [Requests -> SUBSET Ack]
    /\ binlog \in SUBSET Repair
    /\ synclog \in SUBSET Repair
    /\ resp \in [Requests -> Response]

\* A write answered 200 (hustdb_ha_send_response with NGX_HTTP_OK) is on every
\* master that acknowledged it, and a master that did not is named in the Sync
\* header and in a repair record that some backend or the local log holds.
AckedCovered ==
    \A r \in Requests : resp[r].status = OK =>
        \A i \in Master :
            \/ i \in Acked(r) /\ resp[r].sync # i
            \/ /\ i \notin Acked(r) /\ resp[r].sync = i
               /\ \E x \in RepairsOf(r) : x.host = i

\* A repair record, whether hustdb_ha_write_binlog's or
\* hustdb_ha_write_sync_data's, and however late the backend stored it, was
\* made for a master that did not acknowledge the write while the other one,
\* the health_peer the code dereferences, did.
RepairsSound ==
    \A x \in Repairs :
        /\ x.source \in Acked(x.req)
        /\ x.host \in Master \ Acked(x.req)

\* The Version header of a 200 is the greatest version a master acknowledged,
\* whatever the order in which the two masters' versions differ.
AnswerVersionIsMax ==
    \A r \in Requests : resp[r].status = OK =>
        /\ \A a \in acks[r] : a.version <= resp[r].version
        /\ \E a \in acks[r] : a.version = resp[r].version

\* What the client and the repair records see of a request.
Outcome(r) ==
    IF pc[r] # "done" THEN "none" ELSE IF resp[r].status = OK THEN "ok" ELSE "fail"

Abstract == INSTANCE ReplicatedWrite WITH
    Masters <- Master,
    held <- [r \in Requests |-> Acked(r)],
    owed <- [r \in Requests |-> {x.host : x \in RepairsOf(r)}],
    outcome <- [r \in Requests |-> Outcome(r)]

\* The two-master protocol of hustdb_ha_write_handler, with all its failures,
\* implements the promise of ReplicatedWrite.
Implements == Abstract!Spec

-----------------------------------------------------------------------------
(* The inductive invariant behind the safety properties.                   *)

\* The greatest acknowledged version is the one kept in the context.
VersionKept(c, A) ==
    /\ \A a \in A : a.version <= c.version
    /\ IF A = {} THEN c.version = 0 ELSE \E a \in A : a.version = c.version

\* Where the context of a request may point to, given the acknowledgements A.
AtMaster1(c, A) ==
    /\ c.state = "MASTER1" /\ c.peer = 1
    /\ c.error_count = 0 /\ c.skip_error_count = 0
    /\ c.error_peer = Null /\ c.health_peer = Null
    /\ A = {}

AtMaster2(c, A) ==
    /\ c.state = "MASTER2" /\ c.peer = 2
    /\ \A a \in A : a.pos = 1
    /\ \/ /\ A # {} /\ c.health_peer = 1 /\ c.error_peer = Null
          /\ c.error_count = 0 /\ c.skip_error_count = 0
       \/ /\ A = {} /\ c.health_peer = Null /\ c.error_peer = 1
          /\ c.error_count = 1 /\ c.skip_error_count = 0
       \/ /\ A = {} /\ c.health_peer = Null /\ c.error_peer = Null
          /\ c.error_count = 0 /\ c.skip_error_count = 1

\* One master acknowledged, the other one failed.
InRepair(c, A) ==
    /\ A # {} /\ \A a \in A : a.pos = c.health_peer
    /\ c.health_peer \in Master /\ c.error_peer \in Master
    /\ c.health_peer # c.error_peer

RequestInv(r) ==
    LET c == ctx[r]
        A == acks[r]
    IN  /\ pc[r] = "new" => A = {}
        /\ pc[r] = "body" =>
             IF c.method \in BodyKeyMethods
             THEN A = {} /\ c = CreateWriteCtx(c.method, c.key)
             ELSE AtMaster1(c, A) \/ AtMaster2(c, A)
        /\ pc[r] = "sub" =>
             \/ AtMaster1(c, A)
             \/ AtMaster2(c, A)
             \/ /\ c.state = "BINLOG" /\ reply[r].version = 0
                /\ reply[r].status = OK => \E x \in Repairs : x.req = r
        /\ pc[r] \in {"body", "sub"} => VersionKept(c, A)
        /\ pc[r] \in {"sub", "done"} /\ c.state = "BINLOG" => InRepair(c, A)

CallInv(x) ==
    /\ pc[x.req] \in {"sub", "done"}
    /\ x.kind = "binlog" => ctx[x.req].state = "BINLOG" /\ x.pos = ctx[x.req].health_peer

RepairInv(x) ==
    /\ pc[x.req] = "done" \/ (pc[x.req] = "sub" /\ ctx[x.req].state = "BINLOG")
    /\ InRepair(ctx[x.req], acks[x.req])
    /\ x.source = ctx[x.req].health_peer
    /\ x.host = ctx[x.req].error_peer

ResponseInv(r) ==
    /\ pc[r] # "done" => resp[r] = NoResponse
    /\ resp[r].status = OK =>
         /\ VersionKept(ctx[r], acks[r]) /\ resp[r].version = ctx[r].version
         /\ \/ resp[r].sync = Null /\ Acked(r) = Master
            \/ /\ InRepair(ctx[r], acks[r]) /\ resp[r].sync = ctx[r].error_peer
               /\ \E x \in Repairs : x.req = r

WriteInv ==
    /\ TypeOK
    /\ \A r \in Requests : RequestInv(r)
    /\ \A x \in calls : CallInv(x)
    /\ \A x \in Repairs : RepairInv(x)
    /\ \A r \in Requests : ResponseInv(r)

=============================================================================
