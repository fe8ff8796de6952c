---------------------------- MODULE HaCommandProofs -----------------------------
(***************************************************************************)
(* Proofs about HaWrite and HaCommand, for any number of requests,         *)
(* commands, keys and backends.  First the replicated write: WriteInv is   *)
(* inductive; type correctness, the coverage of acknowledged writes, the   *)
(* soundness of repair records and the reported version follow from it,    *)
(* and so does the step simulation of ReplicatedWrite.                     *)
(*                                                                         *)
(* Then the commands beside the writes: CommandInv is inductive together   *)
(* with WriteInv.  Its core is that what a master reported is held there   *)
(* or was overwritten by something newer, so that a later answer of that   *)
(* master covers it, and that a write that was answered is never touched   *)
(* again.                                                                  *)
(***************************************************************************)
EXTENDS HaCommand, Lists

\* What a handler may do to the acknowledgements of request r only.
AcksOnlyOf(r) ==
    /\ acks' \in [Requests -> SUBSET Ack]
    /\ \A q \in Requests \ {r} : acks'[q] = acks[q]

\* The repair records and the outstanding calls of r fit the context c.
FitsRepairs(r, c) ==
    \A x \in Repairs' : x.req = r =>
        InRepair(c, acks'[r]) /\ x.source = c.health_peer /\ x.host = c.error_peer
FitsCalls(r, c) ==
    \A x \in calls : x.req = r /\ x.kind = "binlog" =>
        c.state = "BINLOG" /\ x.pos = c.health_peer
OthersRepairsKept(r) ==
    /\ Repairs' \in SUBSET Repair
    /\ Repairs \subseteq Repairs'
    /\ \A x \in Repairs' : x.req # r => x \in Repairs

\* A step that answers request r keeps the invariant, if the context it leaves
\* behind agrees with the acknowledgements and the repair records, as every
\* call of hustdb_ha_send_response in the handlers must see to.
LEMMA SendResponseInv ==
    ASSUME WriteInv, NEW r \in Requests, pc[r] # "done",
           NEW c \in Ctx, NEW s \in {OK, NotFound, NotAllowed, Closed},
           NEW sync \in {Null} \union Master, NEW n \in 0..2,
           AcksOnlyOf(r), FitsRepairs(r, c), FitsCalls(r, c), OthersRepairsKept(r),
           binlog' \in SUBSET Repair, synclog' \in SUBSET Repair,
           c.state = "BINLOG" => InRepair(c, acks'[r]),
           s = OK => /\ VersionKept(c, acks'[r])
                     /\ \/ sync = Null /\ {a.pos : a \in acks'[r]} = Master
                        \/ /\ InRepair(c, acks'[r]) /\ sync = c.error_peer
                           /\ \E x \in Repairs' : x.req = r,
           SendResponse(r, c, s, sync, n),
           UNCHANGED <<alive, ver>>
    PROVE  WriteInv'
<1>0. TypeOK BY DEF WriteInv
<1>1. /\ pc' = [pc EXCEPT ![r] = "done"]
      /\ ctx' = [ctx EXCEPT ![r] = c]
      /\ reply' = [reply EXCEPT ![r] = NoReply]
      /\ calls' = calls
  BY DEF SendResponse
<1>2. resp' = [resp EXCEPT ![r] = [status |-> s,
                                    version |-> IF s = OK THEN c.version ELSE 0,
                                    sync |-> sync, sent |-> n]]
  BY DEF SendResponse
<1>3. TypeOK'
  <2>1. NoReply \in Reply BY DEF NoReply, Reply, NoStatus
  <2>2. [status |-> s, version |-> IF s = OK THEN c.version ELSE 0,
         sync |-> sync, sent |-> n] \in Response
    <3>1. c.version \in Nat BY DEF Ctx
    <3>2. QED BY <3>1 DEF Response
  <2>3. QED
    BY <1>0, <1>1, <1>2, <2>1, <2>2 DEF TypeOK, AcksOnlyOf, Phases
<1>4. ASSUME NEW q \in Requests PROVE RequestInv(q)'
  <2>1. CASE q = r
    BY <1>0, <1>1, <2>1 DEF TypeOK, RequestInv
  <2>2. CASE q # r
    <3>1. /\ pc'[q] = pc[q] /\ ctx'[q] = ctx[q] /\ reply'[q] = reply[q]
          /\ acks'[q] = acks[q]
      BY <1>0, <1>1, <2>2 DEF TypeOK, AcksOnlyOf
    <3>2. RequestInv(q) BY DEF WriteInv
    <3>3. QED BY <3>1, <3>2 DEF RequestInv, OthersRepairsKept
  <2>3. QED BY <2>1, <2>2
<1>5. ASSUME NEW x \in calls' PROVE CallInv(x)'
  <2>1. x \in calls /\ CallInv(x) /\ x.req \in Requests
    BY <1>0, <1>1 DEF WriteInv, TypeOK, Call
  <2>2. CASE x.req = r
    BY <1>0, <1>1, <2>1, <2>2 DEF TypeOK, CallInv, FitsCalls
  <2>3. CASE x.req # r
    BY <1>0, <1>1, <2>1, <2>3 DEF TypeOK, CallInv
  <2>4. QED BY <2>2, <2>3
<1>6. ASSUME NEW x \in Repairs' PROVE RepairInv(x)'
  <2>0. x.req \in Requests BY DEF OthersRepairsKept, Repair
  <2>1. CASE x.req = r
    BY <1>0, <1>1, <2>1 DEF TypeOK, RepairInv, FitsRepairs
  <2>2. CASE x.req # r
    <3>1. RepairInv(x) BY <2>2 DEF OthersRepairsKept, WriteInv
    <3>2. /\ pc'[x.req] = pc[x.req] /\ ctx'[x.req] = ctx[x.req]
          /\ acks'[x.req] = acks[x.req]
      BY <1>0, <1>1, <2>0, <2>2 DEF TypeOK, AcksOnlyOf
    <3>3. QED BY <3>1, <3>2 DEF RepairInv
  <2>3. QED BY <2>1, <2>2
<1>7. ASSUME NEW q \in Requests PROVE ResponseInv(q)'
  <2>1. CASE q = r
    <3>1. /\ resp'[r].status = s /\ resp'[r].sync = sync
          /\ s = OK => resp'[r].version = c.version
      BY <1>0, <1>2 DEF TypeOK
    <3>2. pc'[r] = "done" /\ ctx'[r] = c
      BY <1>0, <1>1 DEF TypeOK
    <3>3. QED BY <2>1, <3>1, <3>2 DEF ResponseInv, Acked
  <2>2. CASE q # r
    <3>1. /\ pc'[q] = pc[q] /\ ctx'[q] = ctx[q] /\ resp'[q] = resp[q]
          /\ acks'[q] = acks[q]
      BY <1>0, <1>1, <1>2, <2>2 DEF TypeOK, AcksOnlyOf
    <3>2. ResponseInv(q) BY DEF WriteInv
    <3>3. QED BY <3>1, <3>2 DEF ResponseInv, Acked, OthersRepairsKept
  <2>3. QED BY <2>1, <2>2
<1>8. QED BY <1>3, <1>4, <1>5, <1>6, <1>7 DEF WriteInv

\* Nothing was repaired, or asked to be, for a request that has not reached
\* the binlog state.
LEMMA NoRepairYet ==
    ASSUME WriteInv, NEW r \in Requests, pc[r] # "done",
           pc[r] = "sub" => ctx[r].state # "BINLOG"
    PROVE  /\ \A x \in Repairs : x.req # r
           /\ \A x \in calls : x.req = r => x.kind = "write"
<1>1. ASSUME NEW x \in Repairs PROVE x.req # r
  <2>1. RepairInv(x) BY DEF WriteInv
  <2>2. QED BY <2>1 DEF RepairInv
<1>2. ASSUME NEW x \in calls, x.req = r PROVE x.kind = "write"
  <2>1. CallInv(x) /\ x.kind \in {"write", "binlog"}
    BY DEF WriteInv, TypeOK, Call
  <2>2. QED BY <1>2, <2>1 DEF CallInv
<1>3. QED BY <1>1, <1>2

\* A step that sends a subrequest for r, when c says which master is next.
LEMMA RunSubrequestInv ==
    ASSUME WriteInv, NEW r \in Requests, pc[r] # "done",
           pc[r] = "sub" => ctx[r].state # "BINLOG",
           NEW c \in Ctx, NEW i \in Master, NEW kind \in {"write", "binlog"},
           AcksOnlyOf(r), VersionKept(c, acks'[r]),
           \/ kind = "write" /\ (AtMaster1(c, acks'[r]) \/ AtMaster2(c, acks'[r]))
           \/ /\ kind = "binlog" /\ c.state = "BINLOG" /\ i = c.health_peer
              /\ InRepair(c, acks'[r]),
           RunSubrequest(r, c, i, kind),
           UNCHANGED <<alive, ver, binlog, synclog>>
    PROVE  WriteInv'
<1>0. TypeOK BY DEF WriteInv
<1>1. /\ pc' = [pc EXCEPT ![r] = "sub"]
      /\ ctx' = [ctx EXCEPT ![r] = c]
      /\ calls' = calls \union {[req |-> r, pos |-> i, kind |-> kind]}
      /\ reply' = [reply EXCEPT ![r] = NoReply]
      /\ resp' = resp
  BY DEF RunSubrequest
<1>2. /\ pc'[r] = "sub" /\ ctx'[r] = c /\ reply'[r] = NoReply
  BY <1>0, <1>1 DEF TypeOK
<1>a. ASSUME NEW q \in Requests, q # r
      PROVE  /\ pc'[q] = pc[q] /\ ctx'[q] = ctx[q] /\ reply'[q] = reply[q]
             /\ acks'[q] = acks[q]
  BY <1>0, <1>1, <1>a DEF TypeOK, AcksOnlyOf
<1>b. /\ \A x \in Repairs : x.req # r
      /\ \A x \in calls : x.req = r => x.kind = "write"
  BY NoRepairYet
<1>c. Repairs' = Repairs BY DEF Repairs
<1>3. TypeOK'
  <2>1. NoReply \in Reply BY DEF NoReply, Reply, NoStatus
  <2>2. [req |-> r, pos |-> i, kind |-> kind] \in Call BY DEF Call
  <2>3. QED BY <1>0, <1>1, <2>1, <2>2 DEF TypeOK, AcksOnlyOf, Phases
<1>4. ASSUME NEW q \in Requests PROVE RequestInv(q)'
  <2>1. CASE q = r
    <3>1. NoReply.version = 0 /\ NoReply.status # OK BY DEF NoReply, NoStatus, OK
    <3>2. QED BY <1>2, <2>1, <3>1 DEF RequestInv, AtMaster1, AtMaster2
  <2>2. CASE q # r
    <3>1. RequestInv(q) BY DEF WriteInv
    <3>2. QED BY <1>a, <1>c, <2>2, <3>1 DEF RequestInv
  <2>3. QED BY <2>1, <2>2
<1>5. ASSUME NEW x \in calls' PROVE CallInv(x)'
  <2>1. CASE x = [req |-> r, pos |-> i, kind |-> kind]
    BY <1>2, <2>1 DEF CallInv
  <2>2. CASE x \in calls
    <3>1. CallInv(x) /\ x.req \in Requests BY <1>0, <2>2 DEF WriteInv, TypeOK, Call
    <3>2. CASE x.req = r BY <1>2, <1>b, <2>2, <3>1, <3>2 DEF CallInv
    <3>3. CASE x.req # r BY <1>a, <3>1, <3>3 DEF CallInv
    <3>4. QED BY <3>2, <3>3
  <2>3. QED BY <1>1, <2>1, <2>2
<1>6. ASSUME NEW x \in Repairs' PROVE RepairInv(x)'
  <2>1. x \in Repairs /\ x.req \in Requests /\ x.req # r
    BY <1>0, <1>b, <1>c DEF TypeOK, Repairs, Repair
  <2>2. RepairInv(x) BY <2>1 DEF WriteInv
  <2>3. QED BY <1>a, <2>1, <2>2 DEF RepairInv
<1>7. ASSUME NEW q \in Requests PROVE ResponseInv(q)'
  <2>1. ResponseInv(q) BY DEF WriteInv
  <2>2. CASE q = r
    <3>1. resp[r] = NoResponse BY <2>1, <2>2 DEF ResponseInv
    <3>2. NoResponse.status # OK BY DEF NoResponse, NoStatus, OK
    <3>3. QED BY <1>1, <1>2, <2>2, <3>1, <3>2 DEF ResponseInv
  <2>3. CASE q # r
    BY <1>1, <1>a, <1>c, <2>1, <2>3 DEF ResponseInv, Acked
  <2>4. QED BY <2>2, <2>3
<1>8. QED BY <1>3, <1>4, <1>5, <1>6, <1>7 DEF WriteInv

\* hustdb_ha_write_sync_data, whether its record is written or not.
LEMMA WriteSyncDataInv ==
    ASSUME WriteInv, NEW r \in Requests, pc[r] # "done",
           NEW c \in Ctx, AcksOnlyOf(r), InRepair(c, acks'[r]),
           VersionKept(c, acks'[r]), FitsCalls(r, c),
           \A x \in Repairs : x.req = r =>
               x.source = c.health_peer /\ x.host = c.error_peer,
           WriteSyncData(r, c), UNCHANGED <<alive, ver, binlog>>
    PROVE  WriteInv'
<1>0. binlog \in SUBSET Repair /\ synclog \in SUBSET Repair
  BY DEF WriteInv, TypeOK
<1>1. CASE /\ synclog' = synclog \union {[req |-> r, source |-> c.health_peer,
                                          host |-> c.error_peer]}
           /\ SendResponse(r, c, OK, c.error_peer, 1)
  <2>1. /\ [req |-> r, source |-> c.health_peer, host |-> c.error_peer] \in Repair
        /\ c.error_peer \in {Null} \union Master
    BY DEF Repair, InRepair
  <2>2. binlog' \in SUBSET Repair /\ synclog' \in SUBSET Repair
    BY <1>0, <1>1, <2>1
  <2>3. Repairs' = Repairs \union {[req |-> r, source |-> c.health_peer,
                                    host |-> c.error_peer]}
    BY <1>1 DEF Repairs
  <2>4. FitsRepairs(r, c) BY <2>3 DEF FitsRepairs
  <2>5. OthersRepairsKept(r) BY <1>0, <2>1, <2>3 DEF OthersRepairsKept, Repairs
  <2>6. \E x \in Repairs' : x.req = r
    <3>1. [req |-> r, source |-> c.health_peer, host |-> c.error_peer].req = r
      OBVIOUS
    <3>2. QED BY <2>3, <3>1, Zenon
  <2>7. OK \in {OK, NotFound, NotAllowed, Closed} /\ 1 \in 0..2 OBVIOUS
  <2>8. QED BY <1>1, <2>1, <2>2, <2>4, <2>5, <2>6, <2>7, SendResponseInv
<1>2. CASE SendResponse(r, c, NotFound, Null, 1) /\ UNCHANGED synclog
  <2>1. Repairs' = Repairs BY <1>2 DEF Repairs
  <2>2. FitsRepairs(r, c) BY <2>1 DEF FitsRepairs
  <2>3. OthersRepairsKept(r) BY <1>0, <2>1 DEF OthersRepairsKept, Repairs
  <2>4. NotFound # OK BY DEF NotFound, OK
  <2>5. /\ NotFound \in {OK, NotFound, NotAllowed, Closed} /\ 1 \in 0..2
        /\ Null \in {Null} \union Master
    OBVIOUS
  <2>6. QED BY <1>0, <1>2, <2>2, <2>3, <2>4, <2>5, SendResponseInv
<1>3. QED BY <1>1, <1>2 DEF WriteSyncData

\* Both masters are settled in the context c.
Settled(r, c) ==
    /\ c.state # "BINLOG"
    /\ VersionKept(c, acks'[r])
    /\ NeedsRepair(c) => InRepair(c, acks'[r])
    /\ Clean(c) => {a.pos : a \in acks'[r]} = Master

\* An answer that is not a 200 before anything was repaired.
LEMMA RejectInv ==
    ASSUME WriteInv, NEW r \in Requests, pc[r] # "done",
           pc[r] = "sub" => ctx[r].state # "BINLOG",
           NEW c \in Ctx, NEW s \in {NotFound, NotAllowed, Closed}, NEW n \in 0..2,
           AcksOnlyOf(r), c.state # "BINLOG",
           SendResponse(r, c, s, Null, n), UNCHANGED <<alive, ver, binlog, synclog>>
    PROVE  WriteInv'
<1>0. binlog \in SUBSET Repair /\ synclog \in SUBSET Repair
  BY DEF WriteInv, TypeOK
<1>1. Repairs' = Repairs BY DEF Repairs
<1>2. /\ \A x \in Repairs : x.req # r
      /\ \A x \in calls : x.req = r => x.kind = "write"
  BY NoRepairYet
<1>3. FitsRepairs(r, c) BY <1>1, <1>2 DEF FitsRepairs
<1>4. FitsCalls(r, c) BY <1>2 DEF FitsCalls
<1>5. OthersRepairsKept(r) BY <1>0, <1>1 DEF OthersRepairsKept, Repairs
<1>6. s # OK BY DEF OK, NotFound, NotAllowed, Closed
<1>7. s \in {OK, NotFound, NotAllowed, Closed} /\ Null \in {Null} \union Master
  OBVIOUS
<1>8. QED BY <1>0, <1>3, <1>4, <1>5, <1>6, <1>7, SendResponseInv

\* __post_write_data
LEMMA PostWriteDataInv ==
    ASSUME WriteInv, NEW r \in Requests, pc[r] = "sub", ctx[r].state # "BINLOG",
           NEW c \in Ctx, AcksOnlyOf(r), Settled(r, c),
           PostWriteData(r, c), UNCHANGED <<alive, ver, binlog>>
    PROVE  WriteInv'
<1>0. binlog \in SUBSET Repair /\ synclog \in SUBSET Repair
  BY DEF WriteInv, TypeOK
<1>1. /\ \A x \in Repairs : x.req # r
      /\ \A x \in calls : x.req = r => x.kind = "write"
  BY NoRepairYet
<1>2. FitsCalls(r, c) BY <1>1 DEF FitsCalls
<1>3. CASE NeedsRepair(c) /\ WriteBinlog(r, c)
  <2>0. InRepair(c, acks'[r]) /\ VersionKept(c, acks'[r])
    BY <1>3 DEF Settled
  <2>1. CASE /\ RunSubrequest(r, [c EXCEPT !.state = "BINLOG"], c.health_peer, "binlog")
             /\ UNCHANGED synclog
    <3> DEFINE d == [c EXCEPT !.state = "BINLOG"]
    <3>1. /\ d \in Ctx /\ d.state = "BINLOG" /\ d.health_peer = c.health_peer
          /\ d.error_peer = c.error_peer /\ d.version = c.version
      BY DEF Ctx, States
    <3>2. InRepair(d, acks'[r]) /\ VersionKept(d, acks'[r])
      BY <2>0, <3>1 DEF InRepair, VersionKept
    <3>3. c.health_peer \in Master BY <2>0 DEF InRepair
    <3> HIDE DEF d
    <3>4. RunSubrequest(r, d, c.health_peer, "binlog") BY <2>1 DEF d
    <3>5. QED BY <2>1, <3>1, <3>2, <3>3, <3>4, RunSubrequestInv
  <2>2. CASE WriteSyncData(r, c)
    BY <1>1, <1>2, <2>0, <2>2, WriteSyncDataInv
  <2>3. QED BY <1>3, <2>1, <2>2 DEF WriteBinlog
<1>4. CASE Clean(c) /\ SendResponse(r, c, OK, Null, 1) /\ UNCHANGED synclog
  <2>1. Repairs' = Repairs BY <1>4 DEF Repairs
  <2>2. FitsRepairs(r, c) BY <1>1, <2>1 DEF FitsRepairs
  <2>3. OthersRepairsKept(r) BY <1>0, <2>1 DEF OthersRepairsKept, Repairs
  <2>4. /\ OK \in {OK, NotFound, NotAllowed, Closed} /\ 1 \in 0..2
        /\ Null \in {Null} \union Master
    OBVIOUS
  <2>5. /\ VersionKept(c, acks'[r]) /\ {a.pos : a \in acks'[r]} = Master
        /\ c.state # "BINLOG"
    BY <1>4 DEF Settled
  <2>6. QED BY <1>0, <1>2, <1>4, <2>2, <2>3, <2>4, <2>5, SendResponseInv
<1>5. CASE SendResponse(r, c, NotFound, Null, 1) /\ UNCHANGED synclog
  <2>1. NotFound \in {NotFound, NotAllowed, Closed} /\ 1 \in 0..2 OBVIOUS
  <2>2. QED BY <1>5, <2>1, RejectInv DEF Settled
<1>6. QED BY <1>3, <1>4, <1>5 DEF PostWriteData

\* hustdb_ha_init_write_args leaves a context that waits for its first master
\* or, with the first one counted as failed, for the second.
LEMMA InitWriteArgsCtx ==
    ASSUME NEW m \in Methods, NEW k \in Keys
    PROVE  LET c == InitWriteArgs(CreateWriteCtx(m, k)) IN
           /\ CreateWriteCtx(m, k) \in Ctx
           /\ CreateWriteCtx(m, k).state = "MASTER1"
           /\ c \in Ctx /\ c.peer \in Master /\ c.state # "BINLOG"
           /\ c.method = m /\ c.key = k
           /\ AtMaster1(c, {}) \/ AtMaster2(c, {})
           /\ VersionKept(c, {})
<1>1. CreateWriteCtx(m, k) \in Ctx /\ CreateWriteCtx(m, k).state = "MASTER1"
  BY DEF CreateWriteCtx, Ctx, States, Master, Null
<1>2. CASE PeerIsAlive(CreateWriteCtx(m, k).key, 1)
  BY <1>1, <1>2 DEF InitWriteArgs, CreateWriteCtx, Ctx, States, Master, Null,
     AtMaster1, VersionKept
<1>3. CASE ~PeerIsAlive(CreateWriteCtx(m, k).key, 1)
  <2> DEFINE c == InitWriteArgs(CreateWriteCtx(m, k))
  <2>1. c = [method |-> m, key |-> k, state |-> "MASTER2", peer |-> 2,
             error_count |-> 1, skip_error_count |-> 0,
             error_peer |-> 1, health_peer |-> Null, version |-> 0]
    BY <1>3 DEF InitWriteArgs, CreateWriteCtx
  <2> HIDE DEF c
  <2>2. c \in Ctx BY <2>1 DEF Ctx, States, Master, Null
  <2>3. /\ c.state = "MASTER2" /\ c.peer = 2 /\ c.method = m /\ c.key = k
        /\ c.error_count = 1 /\ c.skip_error_count = 0
        /\ c.error_peer = 1 /\ c.health_peer = Null /\ c.version = 0
    BY <2>1
  <2>4. AtMaster2(c, {}) /\ VersionKept(c, {}) BY <2>3 DEF AtMaster2, VersionKept
  <2>5. QED BY <1>1, <2>2, <2>3, <2>4 DEF c, Master
<1>4. QED BY <1>1, <1>2, <1>3

\* A request that waits for its body, with the masters looked up (c is at one
\* of them) or not (c is new and the key is in the body).
LEMMA WaitForBodyInv ==
    ASSUME WriteInv, NEW r \in Requests, pc[r] = "new",
           NEW c \in Ctx, VersionKept(c, {}),
           IF c.method \in BodyKeyMethods THEN c = CreateWriteCtx(c.method, c.key)
                                          ELSE AtMaster1(c, {}) \/ AtMaster2(c, {}),
           pc' = [pc EXCEPT ![r] = "body"], ctx' = [ctx EXCEPT ![r] = c],
           UNCHANGED <<calls, reply, resp, alive, ver, acks, binlog, synclog>>
    PROVE  WriteInv'
<1>0. TypeOK BY DEF WriteInv
<1>1. /\ pc'[r] = "body" /\ ctx'[r] = c /\ acks[r] = {}
      /\ \A q \in Requests : q # r => pc'[q] = pc[q] /\ ctx'[q] = ctx[q]
  BY <1>0 DEF TypeOK, WriteInv, RequestInv
<1>2. TypeOK' BY <1>0 DEF TypeOK, Phases
<1>3. ASSUME NEW q \in Requests PROVE RequestInv(q)'
  <2>0. Repairs' = Repairs BY DEF Repairs
  <2>1. RequestInv(q) BY DEF WriteInv
  <2>2. QED BY <1>1, <2>0, <2>1 DEF RequestInv
<1>4. ASSUME NEW x \in calls' PROVE CallInv(x)'
  <2>1. CallInv(x) /\ x.req \in Requests BY <1>0 DEF WriteInv, TypeOK, Call
  <2>2. QED BY <1>1, <2>1 DEF CallInv
<1>5. ASSUME NEW x \in Repairs' PROVE RepairInv(x)'
  <2>1. x \in Repairs BY DEF Repairs
  <2>2. RepairInv(x) /\ x.req \in Requests
    BY <1>0, <2>1 DEF WriteInv, TypeOK, Repairs, Repair
  <2>3. x.req # r BY <2>2 DEF RepairInv
  <2>4. QED BY <1>1, <2>2, <2>3 DEF RepairInv
<1>6. ASSUME NEW q \in Requests PROVE ResponseInv(q)'
  <2>0. Repairs' = Repairs BY DEF Repairs
  <2>1. ResponseInv(q) BY DEF WriteInv
  <2>2. CASE q # r BY <1>1, <2>0, <2>1, <2>2 DEF ResponseInv, Acked
  <2>3. CASE q = r
    <3>1. resp[r] = NoResponse BY <2>1, <2>3 DEF ResponseInv
    <3>2. NoResponse.status # OK BY DEF NoResponse, NoStatus, OK
    <3>3. QED BY <1>1, <2>3, <3>1, <3>2 DEF ResponseInv
  <2>4. QED BY <2>2, <2>3
<1>7. QED BY <1>2, <1>3, <1>4, <1>5, <1>6 DEF WriteInv

\* The acknowledgements of an unchanged "acks".
LEMMA AcksUnchanged ==
    ASSUME WriteInv, NEW r \in Requests, acks' = acks
    PROVE  AcksOnlyOf(r) /\ acks'[r] = acks[r]
BY DEF WriteInv, TypeOK, AcksOnlyOf

\* The arrival of a request.
LEMMA ArriveInv ==
    ASSUME WriteInv, NEW r \in Requests, Arrive(r)
    PROVE  WriteInv'
<1>1. PICK k \in Keys, m \in Offered :
          StartPost(r, m, k) \/ StartBodyKey(r, m, k) \/ StartDel(r, m, k)
  BY DEF Arrive
<1>2. m \in Methods BY OfferedAssumption
<1>3. /\ pc[r] = "new" /\ UNCHANGED <<alive, ver, acks, binlog, synclog>>
  BY <1>1 DEF StartPost, StartBodyKey, StartDel, Start
<1>4. acks[r] = {} BY <1>3 DEF WriteInv, RequestInv
<1>5. AcksOnlyOf(r) /\ acks'[r] = {} BY <1>3, <1>4, AcksUnchanged
<1> DEFINE z == CreateWriteCtx(m, k)
           c == InitWriteArgs(z)
<1>6. /\ z \in Ctx /\ z.state = "MASTER1" /\ c \in Ctx /\ c.peer \in Master
      /\ c.state # "BINLOG" /\ c.method = m /\ c.key = k
      /\ AtMaster1(c, {}) \/ AtMaster2(c, {})
      /\ VersionKept(c, {})
  BY <1>2, InitWriteArgsCtx
<1>7. z.method = m /\ z.key = k /\ VersionKept(z, {})
  BY DEF CreateWriteCtx, VersionKept
<1> HIDE DEF z, c
<1>8. ASSUME NEW s \in {NotFound, NotAllowed, Closed}, NEW n \in 0..2,
             SendResponse(r, z, s, Null, n)
      PROVE  WriteInv'
  BY <1>3, <1>5, <1>6, <1>8, RejectInv
<1>9. CASE StartPost(r, m, k)
  <2>1. CASE SendResponse(r, z, NotFound, Null, 1) BY <1>8, <2>1
  <2>2. CASE /\ pc' = [pc EXCEPT ![r] = "body"]
             /\ ctx' = [ctx EXCEPT ![r] = c]
             /\ UNCHANGED <<calls, reply, resp>>
    <3>1. c.method \notin BodyKeyMethods
      BY <1>6, <1>9 DEF StartPost, PostMethods, ZsetMethods, BodyKeyMethods
    <3>2. QED BY <1>3, <1>6, <2>2, <3>1, WaitForBodyInv
  <2>3. QED BY <1>9, <2>1, <2>2 DEF StartPost, z, c
<1>10. CASE StartBodyKey(r, m, k)
  <2>1. CASE SendResponse(r, z, NotAllowed, Null, 1) BY <1>8, <2>1
  <2>2. CASE /\ pc' = [pc EXCEPT ![r] = "body"]
             /\ ctx' = [ctx EXCEPT ![r] = z]
             /\ UNCHANGED <<calls, reply, resp>>
    <3>1. z.method \in BodyKeyMethods /\ z = CreateWriteCtx(z.method, z.key)
      BY <1>7, <1>10 DEF StartBodyKey, z
    <3>2. QED BY <1>3, <1>6, <1>7, <2>2, <3>1, WaitForBodyInv
  <2>3. QED BY <1>10, <2>1, <2>2 DEF StartBodyKey, z
<1>11. CASE StartDel(r, m, k)
  <2>1. CASE SendResponse(r, z, Closed, Null, 0) BY <1>8, <2>1
  <2>2. CASE RunSubrequest(r, c, c.peer, "write")
    BY <1>3, <1>5, <1>6, <2>2, RunSubrequestInv
  <2>3. QED BY <1>11, <2>1, <2>2 DEF StartDel, z, c
<1>12. QED BY <1>1, <1>9, <1>10, <1>11

\* The body of a request arrives, or never does.
LEMMA BodyInv ==
    ASSUME WriteInv, NEW r \in Requests, BodyReceived(r) \/ BodyTimeout(r)
    PROVE  WriteInv'
<1>1. pc[r] = "body" /\ UNCHANGED <<alive, ver, acks, binlog, synclog>>
  BY DEF BodyReceived, BodyTimeout
<1> DEFINE c == ctx[r]
<1>2. c \in Ctx BY DEF WriteInv, TypeOK
<1>3. /\ IF c.method \in BodyKeyMethods
         THEN acks[r] = {} /\ c = CreateWriteCtx(c.method, c.key)
         ELSE AtMaster1(c, acks[r]) \/ AtMaster2(c, acks[r])
      /\ VersionKept(c, acks[r])
  BY <1>1 DEF WriteInv, RequestInv
<1>4. AcksOnlyOf(r) /\ acks'[r] = acks[r] BY <1>1, AcksUnchanged
<1>5. c.method \in Methods /\ c.key \in Keys BY <1>2 DEF Ctx
<1>6. c.state # "BINLOG" BY <1>3 DEF AtMaster1, AtMaster2, CreateWriteCtx
<1> HIDE DEF c
<1>7. ASSUME NEW s \in {NotFound, NotAllowed, Closed}, NEW n \in 0..2,
             SendResponse(r, c, s, Null, n)
      PROVE  WriteInv'
  BY <1>1, <1>2, <1>4, <1>6, <1>7, RejectInv
<1>8. CASE c.method \notin BodyKeyMethods /\ RunSubrequest(r, c, c.peer, "write")
  <2>1. c.peer \in Master BY <1>3, <1>8 DEF AtMaster1, AtMaster2, Master
  <2>2. QED BY <1>1, <1>2, <1>3, <1>4, <1>8, <2>1, RunSubrequestInv
<1>9. CASE /\ c.method \in BodyKeyMethods
           /\ RunSubrequest(r, InitWriteArgs(c), InitWriteArgs(c).peer, "write")
  <2> DEFINE d == InitWriteArgs(c)
  <2>1. /\ d \in Ctx /\ d.peer \in Master /\ d.state # "BINLOG"
        /\ AtMaster1(d, {}) \/ AtMaster2(d, {})
        /\ VersionKept(d, {})
    BY <1>3, <1>5, <1>9, InitWriteArgsCtx
  <2>2. acks'[r] = {} BY <1>3, <1>4, <1>9
  <2>3. RunSubrequest(r, d, d.peer, "write") BY <1>9
  <2> HIDE DEF d
  <2>4. QED BY <1>1, <1>4, <2>1, <2>2, <2>3, RunSubrequestInv
<1>10. (PostMethods \union ZsetMethods) \intersect BodyKeyMethods = {}
  BY DEF PostMethods, ZsetMethods, BodyKeyMethods
<1>11. CASE BodyReceived(r)
  BY <1>7, <1>8, <1>9, <1>10, <1>11 DEF BodyReceived, c
<1>12. CASE BodyTimeout(r) BY <1>7, <1>12 DEF BodyTimeout, c
<1>13. QED BY <1>11, <1>12

\* One master's answer is counted in exactly one way.
LEMMA UpdateErrorCtx ==
    ASSUME NEW c \in Ctx, NEW s, NEW v \in Nat,
           c.error_count <= 1, c.skip_error_count <= 1
    PROVE  LET d == UpdateError(KeepVersion(c, s, v), s) IN
           /\ d \in Ctx /\ d.state = c.state /\ d.peer = c.peer /\ d.key = c.key
           /\ d.version = IF s = OK /\ v > c.version THEN v ELSE c.version
           /\ \/ /\ s = OK
                 /\ d.health_peer = c.peer /\ d.error_peer = c.error_peer
                 /\ d.error_count = c.error_count
                 /\ d.skip_error_count = c.skip_error_count
              \/ /\ s # OK
                 /\ d.health_peer = c.health_peer /\ d.error_peer = c.error_peer
                 /\ d.error_count = c.error_count
                 /\ d.skip_error_count = c.skip_error_count + 1
              \/ /\ s # OK
                 /\ d.health_peer = c.health_peer /\ d.error_peer = c.peer
                 /\ d.error_count = c.error_count + 1
                 /\ d.skip_error_count = c.skip_error_count
<1> DEFINE e == KeepVersion(c, s, v)
           d == UpdateError(e, s)
<1>1. /\ e \in Ctx /\ e.state = c.state /\ e.peer = c.peer /\ e.key = c.key
      /\ e.version = IF s = OK /\ v > c.version THEN v ELSE c.version
      /\ e.health_peer = c.health_peer /\ e.error_peer = c.error_peer
      /\ e.error_count = c.error_count /\ e.skip_error_count = c.skip_error_count
  BY DEF KeepVersion, Ctx
<1> HIDE DEF e
<1>2. CASE s = OK
  <2>1. d = [e EXCEPT !.health_peer = e.peer] BY <1>2 DEF UpdateError
  <2>2. QED BY <1>1, <1>2, <2>1 DEF Ctx, e
<1>3. CASE s # OK /\ SkipError(e.method, s)
  <2>1. d = [e EXCEPT !.skip_error_count = @ + 1] BY <1>3 DEF UpdateError
  <2>2. e.skip_error_count + 1 \in 0..2 BY <1>1 DEF Ctx
  <2>3. QED BY <1>1, <1>3, <2>1, <2>2 DEF Ctx, e
<1>4. CASE s # OK /\ ~SkipError(e.method, s)
  <2>1. d = [e EXCEPT !.error_count = @ + 1, !.error_peer = e.peer]
    BY <1>4 DEF UpdateError
  <2>2. e.error_count + 1 \in 0..2 BY <1>1 DEF Ctx
  <2>3. QED BY <1>1, <1>4, <2>1, <2>2 DEF Ctx, e
<1>5. QED BY <1>2, <1>3, <1>4

\* The acknowledgements after a master's answer.
LEMMA AckedByAcks ==
    ASSUME WriteInv, NEW r \in Requests, NEW i \in Master, NEW s, NEW v \in Nat,
           AckedBy(r, i, s, v)
    PROVE  /\ AcksOnlyOf(r)
           /\ acks'[r] = IF s = OK THEN acks[r] \union {[pos |-> i, version |-> v]}
                                   ELSE acks[r]
<1>1. acks \in [Requests -> SUBSET Ack] BY DEF WriteInv, TypeOK
<1>2. [pos |-> i, version |-> v] \in Ack BY DEF Ack
<1>3. QED BY <1>1, <1>2 DEF AckedBy, AcksOnlyOf

\* The greatest acknowledged version stays the one that is kept.
LEMMA VersionStaysKept ==
    ASSUME NEW c \in Ctx, NEW d \in Ctx, NEW A \in SUBSET Ack, NEW i \in Master,
           NEW s, NEW v \in Nat, VersionKept(c, A),
           d.version = IF s = OK /\ v > c.version THEN v ELSE c.version
    PROVE  VersionKept(d, IF s = OK THEN A \union {[pos |-> i, version |-> v]} ELSE A)
<1> DEFINE n == [pos |-> i, version |-> v]
<1>1. n.version = v /\ c.version \in Nat /\ d.version \in Nat BY DEF Ctx
<1>2. \A a \in A : a.version \in Nat BY DEF Ack
<1> HIDE DEF n
<1>3. CASE s # OK BY <1>3 DEF VersionKept
<1>4. CASE s = OK
  <2>1. d.version >= c.version /\ d.version >= v BY <1>1, <1>4
  <2>2. \A a \in A \union {n} : a.version <= d.version
    BY <1>1, <1>2, <2>1 DEF VersionKept
  <2>3. \E a \in A \union {n} : a.version = d.version
    <3>1. CASE v > c.version BY <1>1, <1>4, <3>1
    <3>2. CASE ~(v > c.version) /\ A # {} BY <1>1, <1>4, <3>2 DEF VersionKept
    <3>3. CASE ~(v > c.version) /\ A = {}
      <4>1. v = 0 /\ d.version = 0 BY <1>1, <1>4, <3>3 DEF VersionKept
      <4>2. QED BY <1>1, <4>1
    <3>4. QED BY <3>1, <3>2, <3>3
  <2>4. QED BY <1>4, <2>2, <2>3 DEF VersionKept, n
<1>5. QED BY <1>3, <1>4

\* The first master has answered.
LEMMA Master1CompleteInv ==
    ASSUME WriteInv, NEW r \in Requests, pc[r] = "sub", NEW s, NEW v \in Nat,
           OnWriteMaster1Complete(r, s, v), UNCHANGED <<alive, ver, binlog>>
    PROVE  WriteInv'
<1> DEFINE A == acks[r]
           B == acks'[r]
           d == UpdateError(KeepVersion(ctx[r], s, v), s)
           n == [d EXCEPT !.peer = 2]
           e == [n EXCEPT !.state = "MASTER2"]
           f == SecondMasterDead(n)
<1>1. ctx[r].state = "MASTER1" BY DEF OnWriteMaster1Complete
<1>2. /\ ctx[r] \in Ctx /\ A \in SUBSET Ack
      /\ AtMaster1(ctx[r], A) /\ VersionKept(ctx[r], A)
  BY <1>1 DEF WriteInv, TypeOK, RequestInv, AtMaster2
<1>3. /\ ctx[r].peer = 1 /\ ctx[r].error_count = 0 /\ ctx[r].skip_error_count = 0
      /\ ctx[r].error_peer = Null /\ ctx[r].health_peer = Null /\ A = {}
  BY <1>2 DEF AtMaster1
<1>4. AckedBy(r, 1, s, v) BY <1>3 DEF OnWriteMaster1Complete
<1>5. AcksOnlyOf(r) /\ B = IF s = OK THEN A \union {[pos |-> 1, version |-> v]} ELSE A
  BY <1>4, AckedByAcks DEF Master
<1>6. /\ d \in Ctx /\ d.state = "MASTER1"
      /\ d.version = IF s = OK /\ v > ctx[r].version THEN v ELSE ctx[r].version
      /\ \/ /\ s = OK /\ d.health_peer = 1 /\ d.error_peer = Null
            /\ d.error_count = 0 /\ d.skip_error_count = 0
         \/ /\ s # OK /\ d.health_peer = Null /\ d.error_peer = Null
            /\ d.error_count = 0 /\ d.skip_error_count = 1
         \/ /\ s # OK /\ d.health_peer = Null /\ d.error_peer = 1
            /\ d.error_count = 1 /\ d.skip_error_count = 0
  BY <1>1, <1>2, <1>3, UpdateErrorCtx
<1> HIDE DEF d
<1>7. VersionKept(d, B)
  <2>1. 1 \in Master BY DEF Master
  <2>2. VersionKept(d, IF s = OK THEN A \union {[pos |-> 1, version |-> v]} ELSE A)
    BY <1>2, <1>6, <2>1, VersionStaysKept
  <2>3. QED BY <1>5, <2>2
<1>8. /\ s = OK => B # {} /\ \A a \in B : a.pos = 1
      /\ s # OK => B = {}
  <2> DEFINE new == [pos |-> 1, version |-> v]
  <2>1. new.pos = 1 OBVIOUS
  <2> HIDE DEF new
  <2>2. B = IF s = OK THEN {new} ELSE {} BY <1>3, <1>5 DEF new
  <2>3. QED BY <2>1, <2>2
<1>9. CASE RunSubrequest(r, e, 2, "write") /\ UNCHANGED synclog
  <2>1. /\ e \in Ctx /\ e.state = "MASTER2" /\ e.peer = 2 /\ e.version = d.version
        /\ e.health_peer = d.health_peer /\ e.error_peer = d.error_peer
        /\ e.error_count = d.error_count /\ e.skip_error_count = d.skip_error_count
    BY <1>6 DEF Ctx, States, Master
  <2> HIDE DEF e
  <2>2. AtMaster2(e, B) BY <1>6, <1>8, <2>1 DEF AtMaster2
  <2>3. VersionKept(e, B) BY <1>7, <2>1 DEF VersionKept
  <2>4. 2 \in Master BY DEF Master
  <2>5. QED BY <1>1, <1>5, <1>9, <2>1, <2>2, <2>3, <2>4, RunSubrequestInv
<1>10. CASE PostWriteData(r, f)
  <2>1. d.error_count + 1 \in 0..2 BY <1>6
  <2>2. n \in Ctx /\ n.error_count = d.error_count
    BY <1>6 DEF Ctx, Master
  <2>3. f = [n EXCEPT !.error_count = d.error_count + 1, !.error_peer = 2]
    BY <2>2 DEF SecondMasterDead
  <2>4. /\ f \in Ctx /\ f.state = d.state /\ f.version = d.version
        /\ f.health_peer = d.health_peer /\ f.error_peer = 2
        /\ f.error_count = d.error_count + 1
        /\ f.skip_error_count = d.skip_error_count
    BY <1>6, <2>1, <2>3 DEF Ctx, Master
  <2> HIDE DEF f
  <2>5. VersionKept(f, B) BY <1>7, <2>4 DEF VersionKept
  <2>6. ~Clean(f) BY <1>6, <2>4 DEF Clean
  <2>7. NeedsRepair(f) => InRepair(f, B)
    BY <1>6, <1>8, <2>4 DEF NeedsRepair, InRepair, Master
  <2>8. Settled(r, f) BY <1>6, <2>4, <2>5, <2>6, <2>7 DEF Settled
  <2>9. QED BY <1>1, <1>5, <1>10, <2>4, <2>8, PostWriteDataInv
<1>11. QED BY <1>9, <1>10 DEF OnWriteMaster1Complete, d

\* The second master has answered.
LEMMA Master2CompleteInv ==
    ASSUME WriteInv, NEW r \in Requests, pc[r] = "sub", NEW s, NEW v \in Nat,
           OnWriteMaster2Complete(r, s, v), UNCHANGED <<alive, ver, binlog>>
    PROVE  WriteInv'
<1> DEFINE A == acks[r]
           B == acks'[r]
           c == ctx[r]
           d == UpdateError(KeepVersion(c, s, v), s)
<1>1. c.state = "MASTER2" BY DEF OnWriteMaster2Complete
<1>2. c \in Ctx /\ A \in SUBSET Ack /\ AtMaster2(c, A) /\ VersionKept(c, A)
  BY <1>1 DEF WriteInv, TypeOK, RequestInv, AtMaster1
<1>3. /\ c.peer = 2 /\ \A a \in A : a.pos = 1
      /\ \/ /\ A # {} /\ c.health_peer = 1 /\ c.error_peer = Null
            /\ c.error_count = 0 /\ c.skip_error_count = 0
         \/ /\ A = {} /\ c.health_peer = Null /\ c.error_peer = 1
            /\ c.error_count = 1 /\ c.skip_error_count = 0
         \/ /\ A = {} /\ c.health_peer = Null /\ c.error_peer = Null
            /\ c.error_count = 0 /\ c.skip_error_count = 1
  BY <1>2 DEF AtMaster2
<1>4. AckedBy(r, 2, s, v) BY <1>3 DEF OnWriteMaster2Complete
<1>5. AcksOnlyOf(r) /\ B = IF s = OK THEN A \union {[pos |-> 2, version |-> v]} ELSE A
  BY <1>4, AckedByAcks DEF Master
<1>6. c.error_count <= 1 /\ c.skip_error_count <= 1 BY <1>3
<1>7. /\ d \in Ctx /\ d.state = "MASTER2"
      /\ d.version = IF s = OK /\ v > c.version THEN v ELSE c.version
      /\ \/ /\ s = OK /\ d.health_peer = 2 /\ d.error_peer = c.error_peer
            /\ d.error_count = c.error_count
            /\ d.skip_error_count = c.skip_error_count
         \/ /\ s # OK /\ d.skip_error_count = c.skip_error_count + 1
         \/ /\ s # OK /\ d.health_peer = c.health_peer /\ d.error_peer = 2
            /\ d.error_count = c.error_count + 1
            /\ d.skip_error_count = c.skip_error_count
  BY <1>1, <1>2, <1>3, <1>6, UpdateErrorCtx
<1>8. PostWriteData(r, d) BY DEF OnWriteMaster2Complete
<1> HIDE DEF d
<1>9. VersionKept(d, B)
  <2>1. 2 \in Master BY DEF Master
  <2>2. VersionKept(d, IF s = OK THEN A \union {[pos |-> 2, version |-> v]} ELSE A)
    BY <1>2, <1>7, <2>1, VersionStaysKept
  <2>3. QED BY <1>5, <2>2
<1> DEFINE new == [pos |-> 2, version |-> v]
<1>10. new.pos = 2 OBVIOUS
<1> HIDE DEF new
<1>11. B = IF s = OK THEN A \union {new} ELSE A BY <1>5 DEF new
<1>12. NeedsRepair(d) => InRepair(d, B)
  <2>1. CASE s = OK
    BY <1>3, <1>7, <1>10, <1>11, <2>1 DEF NeedsRepair, InRepair, Master
  <2>2. CASE s # OK
    BY <1>3, <1>7, <1>11, <2>2 DEF NeedsRepair, InRepair, Master
  <2>3. QED BY <2>1, <2>2
<1>13. Clean(d) => {a.pos : a \in B} = Master
  <2>1. SUFFICES ASSUME Clean(d) PROVE {a.pos : a \in B} = Master
    OBVIOUS
  <2>2. s = OK /\ A # {} BY <1>3, <1>7, <2>1 DEF Clean
  <2>3. PICK a \in A : a.pos = 1 BY <1>3, <2>2
  <2>4. a \in B /\ new \in B /\ \A b \in B : b.pos = 1 \/ b.pos = 2
    BY <1>3, <1>10, <1>11, <2>2
  <2>5. QED BY <1>10, <2>3, <2>4 DEF Master
<1>14. Settled(r, d) BY <1>7, <1>9, <1>12, <1>13 DEF Settled
<1>15. QED BY <1>1, <1>5, <1>7, <1>8, <1>14, PostWriteDataInv

\* The binlog call is over: its record is stored, or the local log gets one.
LEMMA BinlogCompleteInv ==
    ASSUME WriteInv, NEW r \in Requests, pc[r] = "sub", NEW s,
           s = OK => \E x \in Repairs : x.req = r,
           OnWriteBinlogComplete(r, s, 0), UNCHANGED <<alive, ver, binlog>>
    PROVE  WriteInv'
<1> DEFINE c == ctx[r]
<1>1. c \in Ctx /\ c.state = "BINLOG" /\ acks' = acks
  BY DEF OnWriteBinlogComplete, WriteInv, TypeOK
<1>2. InRepair(c, acks[r]) /\ VersionKept(c, acks[r])
  BY <1>1 DEF WriteInv, RequestInv
<1>3. AcksOnlyOf(r) /\ acks'[r] = acks[r] BY <1>1, AcksUnchanged
<1>4. \A x \in Repairs : x.req = r => x.source = c.health_peer /\ x.host = c.error_peer
  BY DEF WriteInv, RepairInv
<1>5. FitsCalls(r, c) BY DEF FitsCalls, WriteInv, CallInv
<1>6. KeepVersion(c, s, 0) = c
  <2>1. c.version \in Nat BY <1>1 DEF Ctx
  <2>2. QED BY <2>1 DEF KeepVersion
<1> HIDE DEF c
<1>7. CASE s = OK /\ SendResponse(r, c, OK, c.error_peer, 1) /\ UNCHANGED synclog
  <2>0. binlog \in SUBSET Repair /\ synclog \in SUBSET Repair
    BY DEF WriteInv, TypeOK
  <2>1. Repairs' = Repairs BY <1>7 DEF Repairs
  <2>2. FitsRepairs(r, c) BY <1>2, <1>3, <1>4, <2>1 DEF FitsRepairs
  <2>3. OthersRepairsKept(r) BY <2>0, <2>1 DEF OthersRepairsKept, Repairs
  <2>4. /\ OK \in {OK, NotFound, NotAllowed, Closed} /\ 1 \in 0..2
        /\ c.error_peer \in {Null} \union Master
    BY <1>2 DEF InRepair
  <2>5. \E x \in Repairs' : x.req = r BY <1>7, <2>1
  <2>6. QED BY <1>1, <1>2, <1>3, <1>5, <1>7, <2>0, <2>2, <2>3, <2>4, <2>5,
               SendResponseInv
<1>8. CASE WriteSyncData(r, c)
  BY <1>1, <1>2, <1>3, <1>4, <1>5, <1>8, WriteSyncDataInv
<1>9. QED BY <1>6, <1>7, <1>8 DEF OnWriteBinlogComplete, c

\* A subrequest is over, answered or given up.
LEMMA SubrequestInv ==
    ASSUME WriteInv, NEW r \in Requests, SubrequestAnswered(r) \/ SubrequestFailed(r)
    PROVE  WriteInv'
<1>1. ASSUME NEW s, NEW v \in Nat, SwitchState(r, s, v),
             ctx[r].state = "BINLOG" =>
                 v = 0 /\ (s = OK => \E x \in Repairs : x.req = r)
      PROVE  WriteInv'
  <2>1. pc[r] = "sub" /\ UNCHANGED <<alive, ver, binlog>> BY <1>1 DEF SwitchState
  <2>2. CASE OnWriteMaster1Complete(r, s, v) BY <2>1, <2>2, Master1CompleteInv
  <2>3. CASE OnWriteMaster2Complete(r, s, v) BY <2>1, <2>3, Master2CompleteInv
  <2>4. CASE OnWriteBinlogComplete(r, s, v)
    <3>1. ctx[r].state = "BINLOG" BY <2>4 DEF OnWriteBinlogComplete
    <3>2. OnWriteBinlogComplete(r, s, 0) BY <1>1, <2>4, <3>1
    <3>3. QED BY <1>1, <2>1, <3>1, <3>2, BinlogCompleteInv
  <2>5. QED BY <1>1, <2>2, <2>3, <2>4 DEF SwitchState
<1>2. CASE SubrequestAnswered(r)
  <2>1. SwitchState(r, reply[r].status, reply[r].version) /\ pc[r] = "sub"
    BY <1>2 DEF SubrequestAnswered, SwitchState
  <2>2. reply[r].version \in Nat BY DEF WriteInv, TypeOK, Reply
  <2>3. ctx[r].state = "BINLOG" =>
            /\ reply[r].version = 0
            /\ reply[r].status = OK => \E x \in Repairs : x.req = r
    BY <2>1 DEF WriteInv, RequestInv, AtMaster1, AtMaster2
  <2>4. QED BY <1>1, <2>1, <2>2, <2>3
<1>3. CASE SubrequestFailed(r)
  <2>1. SwitchState(r, NoStatus, 0) BY <1>3 DEF SubrequestFailed
  <2>2. NoStatus # OK BY DEF NoStatus, OK
  <2>3. QED BY <1>1, <2>1, <2>2
<1>4. QED BY <1>2, <1>3

\* A backend answers call x: v is 0 unless it is a write, and a binlog call is
\* answered when its record is stored.
LEMMA BackendInv ==
    ASSUME WriteInv, NEW x \in calls,
           NEW s \in {OK, NotFound, PreconditionFailed}, NEW v \in Nat,
           Answer(x, s, v), BackendDone(x), ver' \in [Peers -> [Keys -> Nat]],
           \/ x.kind = "write" /\ UNCHANGED binlog
           \/ /\ x.kind = "binlog" /\ v = 0
              /\ binlog' = binlog \union {[req |-> x.req, source |-> x.pos,
                                           host |-> ctx[x.req].error_peer]}
    PROVE  WriteInv'
<1>0. TypeOK BY DEF WriteInv
<1>1. /\ calls' = calls \ {x}
      /\ UNCHANGED <<alive, pc, ctx, acks, synclog, resp>>
  BY DEF BackendDone
<1>2. x.req \in Requests /\ x.pos \in Master /\ CallInv(x)
  BY <1>0 DEF WriteInv, TypeOK, Call
<1> DEFINE new == [req |-> x.req, source |-> x.pos, host |-> ctx[x.req].error_peer]
<1>3. /\ new \in Repair /\ new.req = x.req /\ new.source = x.pos
      /\ new.host = ctx[x.req].error_peer
  <2>1. ctx[x.req] \in Ctx BY <1>0, <1>2 DEF TypeOK
  <2>2. ctx[x.req].error_peer \in {Null} \union Master BY <2>1 DEF Ctx
  <2>3. QED BY <1>2, <2>2 DEF Repair
<1> HIDE DEF new
<1>4. /\ x.kind = "write" => Repairs' = Repairs
      /\ x.kind = "binlog" => Repairs' = Repairs \union {new}
      /\ binlog' \in SUBSET Repair
  BY <1>0, <1>1, <1>3 DEF TypeOK, Repairs, new
<1>5. TypeOK'
  <2>1. [status |-> s, version |-> v] \in Reply BY DEF Reply
  <2>2. reply' \in [Requests -> Reply] BY <1>0, <1>2, <2>1 DEF TypeOK, Answer
  <2>3. QED BY <1>0, <1>1, <1>4, <2>2 DEF TypeOK
<1>6. ASSUME NEW q \in Requests PROVE RequestInv(q)'
  <2>1. RequestInv(q) BY DEF WriteInv
  <2>2. Repairs \subseteq Repairs' BY <1>0, <1>1, <1>4 DEF Repairs
  <2>3. CASE reply'[q] = reply[q]
    BY <1>1, <2>1, <2>2, <2>3 DEF RequestInv
  <2>4. CASE reply'[q] # reply[q]
    <3>1. /\ q = x.req /\ pc[q] = "sub" /\ CurrentCall(q) = x
          /\ reply'[q] = [status |-> s, version |-> v]
      BY <1>0, <1>2, <2>4 DEF TypeOK, Answer
    <3>2. x.kind = IF ctx[q].state = "BINLOG" THEN "binlog" ELSE "write"
      BY <3>1 DEF CurrentCall
    <3>3. CASE ctx[q].state = "BINLOG"
      <4>1. v = 0 /\ new \in Repairs' /\ new.req = q
        BY <1>3, <1>4, <3>1, <3>2, <3>3
      <4>2. QED BY <1>1, <2>1, <3>1, <3>3, <4>1 DEF RequestInv
    <3>4. CASE ctx[q].state # "BINLOG"
      BY <1>1, <2>1, <3>1, <3>4 DEF RequestInv
    <3>5. QED BY <3>3, <3>4
  <2>5. QED BY <2>3, <2>4
<1>7. ASSUME NEW y \in calls' PROVE CallInv(y)'
  BY <1>1 DEF WriteInv, CallInv
<1>8. ASSUME NEW y \in Repairs' PROVE RepairInv(y)'
  <2>1. CASE y \in Repairs BY <1>1, <2>1 DEF WriteInv, RepairInv
  <2>2. CASE x.kind = "binlog" /\ y = new
    <3>1. /\ pc[x.req] \in {"sub", "done"} /\ ctx[x.req].state = "BINLOG"
          /\ x.pos = ctx[x.req].health_peer
      BY <1>2, <2>2 DEF CallInv
    <3>2. InRepair(ctx[x.req], acks[x.req])
      BY <1>2, <3>1 DEF WriteInv, RequestInv
    <3>3. QED BY <1>1, <1>3, <2>2, <3>1, <3>2 DEF RepairInv
  <2>3. QED BY <1>4, <2>1, <2>2
<1>9. ASSUME NEW q \in Requests PROVE ResponseInv(q)'
  <2>1. ResponseInv(q) BY DEF WriteInv
  <2>2. Repairs \subseteq Repairs' BY <1>0, <1>1, <1>4 DEF Repairs
  <2>3. QED BY <1>1, <2>1, <2>2 DEF ResponseInv, Acked
<1>10. QED BY <1>5, <1>6, <1>7, <1>8, <1>9 DEF WriteInv

\* A step of the environment.
LEMMA EnvironmentInv ==
    ASSUME WriteInv, Environment
    PROVE  WriteInv'
<1>0. TypeOK BY DEF WriteInv
<1>1. ASSUME NEW x \in calls, BackendWrite(x) PROVE WriteInv'
  <2> DEFINE k == ctx[x.req].key
             p == WriteList[k][x.pos]
  <2>1. x.req \in Requests /\ x.pos \in Master BY <1>0 DEF TypeOK, Call
  <2>2. ctx[x.req] \in Ctx BY <1>0, <2>1 DEF TypeOK
  <2>3. k \in Keys BY <2>2 DEF Ctx
  <2>4. p \in Peers BY <2>1, <2>3, WriteListAssumption
  <2>5. ver[p] \in [Keys -> Nat] /\ ver[p][k] \in Nat
    BY <1>0, <2>3, <2>4 DEF TypeOK
  <2>6. /\ x.kind = "write" /\ UNCHANGED binlog /\ BackendDone(x)
        /\ Answer(x, OK, ver[p][k] + 1)
        /\ ver' = [ver EXCEPT ![p][k] = ver[p][k] + 1]
    BY <1>1 DEF BackendWrite
  <2> HIDE DEF k, p
  <2>7. [ver[p] EXCEPT ![k] = ver[p][k] + 1] \in [Keys -> Nat] BY <2>3, <2>5
  <2>8. ver' \in [Peers -> [Keys -> Nat]] BY <1>0, <2>4, <2>6, <2>7 DEF TypeOK
  <2>9. OK \in {OK, NotFound, PreconditionFailed} /\ ver[p][k] + 1 \in Nat BY <2>5
  <2>10. QED BY <2>6, <2>8, <2>9, BackendInv
<1>2. ASSUME NEW x \in calls, NEW s \in {NotFound, PreconditionFailed},
             BackendRefuse(x, s)
      PROVE  WriteInv'
  <2>1. /\ x.kind = "write" /\ UNCHANGED binlog /\ BackendDone(x)
        /\ Answer(x, s, 0) /\ ver' \in [Peers -> [Keys -> Nat]]
    BY <1>0, <1>2 DEF BackendRefuse, TypeOK
  <2>2. s \in {OK, NotFound, PreconditionFailed} /\ 0 \in Nat OBVIOUS
  <2>3. QED BY <2>1, <2>2, BackendInv
<1>3. ASSUME NEW x \in calls, BackendBinlog(x) PROVE WriteInv'
  <2>1. /\ x.kind = "binlog" /\ BackendDone(x) /\ Answer(x, OK, 0)
        /\ binlog' = binlog \union {[req |-> x.req, source |-> x.pos,
                                     host |-> ctx[x.req].error_peer]}
        /\ ver' \in [Peers -> [Keys -> Nat]]
    BY <1>0, <1>3 DEF BackendBinlog, TypeOK
  <2>2. OK \in {OK, NotFound, PreconditionFailed} /\ 0 \in Nat OBVIOUS
  <2>3. QED BY <2>1, <2>2, BackendInv
<1>4. ASSUME NEW p \in Peers, CheckPeer(p) PROVE WriteInv'
  <2>1. UNCHANGED <<pc, ctx, calls, reply, ver, acks, binlog, synclog, resp>>
    BY <1>4 DEF CheckPeer
  <2>2. TypeOK' BY <1>0, <1>4 DEF TypeOK, CheckPeer
  <2>3. Repairs' = Repairs BY <2>1 DEF Repairs
  <2>4. QED BY <2>1, <2>2, <2>3 DEF WriteInv, RequestInv, CallInv, RepairInv,
               ResponseInv, Acked
<1>5. QED BY <1>1, <1>2, <1>3, <1>4 DEF Environment

\* Every step keeps the invariant.
LEMMA NextInv ==
    ASSUME WriteInv, [Next]_vars
    PROVE  WriteInv'
<1>1. ASSUME NEW r \in Requests, Arrive(r) PROVE WriteInv' BY <1>1, ArriveInv
<1>2. ASSUME NEW r \in Requests, Handle(r) PROVE WriteInv'
  BY <1>2, BodyInv, SubrequestInv DEF Handle
<1>3. CASE Environment BY <1>3, EnvironmentInv
<1>4. CASE UNCHANGED vars
  <2>1. UNCHANGED <<alive, pc, ctx, calls, reply, ver, acks, binlog, synclog, resp>>
    BY <1>4 DEF vars
  <2>2. Repairs' = Repairs BY <2>1 DEF Repairs
  <2>3. QED BY <2>1, <2>2 DEF WriteInv, TypeOK, RequestInv, CallInv, RepairInv,
               ResponseInv, Acked
<1>5. QED BY <1>1, <1>2, <1>3, <1>4 DEF Next

\* WriteInv holds before any request has arrived.
LEMMA InitInv == Init => WriteInv
<1>1. SUFFICES ASSUME Init PROVE WriteInv OBVIOUS
<1>2. PICK k \in Keys : ctx = [r \in Requests |-> CreateWriteCtx("PUT", k)]
  BY <1>1 DEF Init
<1>3. CreateWriteCtx("PUT", k) \in Ctx
  BY InitWriteArgsCtx DEF Methods, PostMethods
<1>4. TypeOK
  <2>1. NoReply \in Reply BY DEF NoReply, Reply, NoStatus
  <2>2. NoResponse \in Response BY DEF NoResponse, Response, NoStatus, Null
  <2>3. QED BY HeldAssumption, <1>1, <1>2, <1>3, <2>1, <2>2 DEF TypeOK, Init, Phases
<1>5. ASSUME NEW r \in Requests PROVE RequestInv(r) /\ ResponseInv(r)
  <2>1. pc[r] = "new" /\ acks[r] = {} /\ resp[r] = NoResponse BY <1>1 DEF Init
  <2>2. NoResponse.status # OK BY DEF NoResponse, NoStatus, OK
  <2>3. QED BY <2>1, <2>2 DEF RequestInv, ResponseInv
<1>6. calls = {} /\ Repairs = {} BY <1>1 DEF Init, Repairs
<1>7. QED BY <1>4, <1>5, <1>6 DEF WriteInv

\* The inductive invariant holds for any number of requests, keys and peers.
THEOREM WriteInvariant == Spec => []WriteInv
<1>1. WriteInv /\ [Next]_vars => WriteInv' BY NextInv
<1>2. QED BY <1>1, InitInv, PTL DEF Spec

-----------------------------------------------------------------------------
(* The safety properties that the runs check on small instances.           *)

\* Every variable keeps its type; error_count never passes 2.
THEOREM TypeCorrect == Spec => []TypeOK
<1>1. WriteInv => TypeOK BY DEF WriteInv
<1>2. QED BY <1>1, WriteInvariant, PTL

\* One master acknowledged and it is not the failed one.
LEMMA InRepairAcked ==
    ASSUME WriteInv, NEW r \in Requests, InRepair(ctx[r], acks[r])
    PROVE  /\ Acked(r) = {ctx[r].health_peer}
           /\ ctx[r].error_peer \in Master \ Acked(r)
           /\ \A i \in Master : i \in Acked(r) \/ i = ctx[r].error_peer
BY DEF InRepair, Acked, Master

\* A 200 means that each master acknowledged the write or is named in the Sync
\* header and in a repair record.
THEOREM AckedCoveredAlways == Spec => []AckedCovered
<1>1. ASSUME WriteInv, NEW r \in Requests, resp[r].status = OK, NEW i \in Master
      PROVE  \/ i \in Acked(r) /\ resp[r].sync # i
             \/ /\ i \notin Acked(r) /\ resp[r].sync = i
                /\ \E x \in RepairsOf(r) : x.host = i
  <2>1. \/ resp[r].sync = Null /\ Acked(r) = Master
        \/ /\ InRepair(ctx[r], acks[r]) /\ resp[r].sync = ctx[r].error_peer
           /\ \E x \in Repairs : x.req = r
    BY <1>1 DEF WriteInv, ResponseInv
  <2>2. CASE resp[r].sync = Null /\ Acked(r) = Master
    BY <2>2 DEF Null, Master
  <2>3. CASE /\ InRepair(ctx[r], acks[r]) /\ resp[r].sync = ctx[r].error_peer
             /\ \E x \in Repairs : x.req = r
    <3>1. PICK x \in Repairs : x.req = r BY <2>3
    <3>2. x \in RepairsOf(r) /\ x.host = ctx[r].error_peer
      BY <1>1, <3>1 DEF WriteInv, RepairInv, RepairsOf
    <3>3. QED BY <1>1, <2>3, <3>2, InRepairAcked
  <2>4. QED BY <2>1, <2>2, <2>3
<1>2. WriteInv => AckedCovered BY <1>1 DEF AckedCovered
<1>3. QED BY <1>2, WriteInvariant, PTL

\* Every repair record names a master that acknowledged as its source and one
\* that did not as its target.
THEOREM RepairsSoundAlways == Spec => []RepairsSound
<1>1. ASSUME WriteInv, NEW x \in Repairs
      PROVE  x.source \in Acked(x.req) /\ x.host \in Master \ Acked(x.req)
  <2>1. RepairInv(x) /\ x.req \in Requests
    BY <1>1 DEF WriteInv, TypeOK, Repairs, Repair
  <2>2. QED BY <1>1, <2>1, InRepairAcked DEF RepairInv
<1>2. WriteInv => RepairsSound BY <1>1 DEF RepairsSound
<1>3. QED BY <1>2, WriteInvariant, PTL

\* The version of a 200 is the greatest one acknowledged.
THEOREM AnswerVersionIsMaxAlways == Spec => []AnswerVersionIsMax
<1>1. ASSUME WriteInv, NEW r \in Requests, resp[r].status = OK
      PROVE  /\ \A a \in acks[r] : a.version <= resp[r].version
             /\ \E a \in acks[r] : a.version = resp[r].version
  <2>1. /\ VersionKept(ctx[r], acks[r]) /\ resp[r].version = ctx[r].version
        /\ Acked(r) = Master \/ InRepair(ctx[r], acks[r])
    BY <1>1 DEF WriteInv, ResponseInv
  <2>2. acks[r] # {} BY <2>1 DEF Acked, Master, InRepair
  <2>3. QED BY <2>1, <2>2 DEF VersionKept
<1>2. WriteInv => AnswerVersionIsMax BY <1>1 DEF AnswerVersionIsMax
<1>3. QED BY <1>2, WriteInvariant, PTL

-----------------------------------------------------------------------------
(* HaWrite implements ReplicatedWrite.                                     *)

\* What a handler of r leaves alone: the other requests, and repair records.
Frame(r) ==
    /\ pc[r] # "done"
    /\ \A q \in Requests \ {r} :
           pc'[q] = pc[q] /\ resp'[q] = resp[q] /\ acks'[q] = acks[q]
    /\ acks[r] \subseteq acks'[r]
    /\ Repairs \subseteq Repairs'
    /\ \A x \in Repairs' : x.req # r => x \in Repairs

\* Both ways a handler ends change one request's progress and answer only.
LEMMA HandlerEnds ==
    ASSUME WriteInv, NEW r \in Requests, NEW q \in Requests, q # r,
           NEW c, NEW s, NEW i, NEW n, NEW kind,
           SendResponse(r, c, s, i, n) \/ RunSubrequest(r, c, i, kind)
    PROVE  pc'[q] = pc[q] /\ resp'[q] = resp[q]
BY DEF WriteInv, TypeOK, SendResponse, RunSubrequest

\* __post_write_data and what it calls stay within the request.
LEMMA PostWriteDataFrame ==
    ASSUME WriteInv, NEW r \in Requests, NEW c,
           PostWriteData(r, c) \/ WriteSyncData(r, c), binlog' = binlog
    PROVE  /\ \A q \in Requests \ {r} : pc'[q] = pc[q] /\ resp'[q] = resp[q]
           /\ Repairs \subseteq Repairs'
           /\ \A x \in Repairs' : x.req # r => x \in Repairs
<1>1. \/ synclog' = synclog
      \/ synclog' = synclog \union {[req |-> r, source |-> c.health_peer,
                                     host |-> c.error_peer]}
  BY DEF PostWriteData, WriteBinlog, WriteSyncData
<1>2. /\ Repairs \subseteq Repairs'
      /\ \A x \in Repairs' : x.req # r => x \in Repairs
  BY <1>1 DEF Repairs
<1>3. ASSUME NEW q \in Requests, q # r PROVE pc'[q] = pc[q] /\ resp'[q] = resp[q]
  <2>1. CASE WriteSyncData(r, c) BY <1>3, <2>1, HandlerEnds DEF WriteSyncData
  <2>2. CASE PostWriteData(r, c)
    <3>1. CASE WriteBinlog(r, c)
      <4> DEFINE d == [c EXCEPT !.state = "BINLOG"]
      <4>1. WriteSyncData(r, c) \/ RunSubrequest(r, d, c.health_peer, "binlog")
        BY <3>1 DEF WriteBinlog
      <4> HIDE DEF d
      <4>2. QED BY <1>3, <2>1, <4>1, HandlerEnds
    <3>2. CASE \E s : SendResponse(r, c, s, Null, 1) BY <1>3, <3>2, HandlerEnds
    <3>3. QED BY <2>2, <3>1, <3>2 DEF PostWriteData
  <2>3. QED BY <2>1, <2>2
<1>4. QED BY <1>2, <1>3

\* Every handler stays within its request.
LEMMA HandlerFrame ==
    ASSUME WriteInv, NEW r \in Requests, Arrive(r) \/ Handle(r)
    PROVE  Frame(r)
<1>1. ASSUME pc[r] # "done", UNCHANGED <<acks, binlog, synclog>>,
             NEW c, NEW s, NEW i, NEW n, NEW kind,
             SendResponse(r, c, s, i, n) \/ RunSubrequest(r, c, i, kind)
      PROVE  Frame(r)
  <2>1. Repairs' = Repairs BY <1>1 DEF Repairs
  <2>2. QED BY <1>1, <2>1, HandlerEnds DEF Frame
<1>2. ASSUME pc[r] # "done", UNCHANGED <<acks, binlog, synclog, resp>>,
             pc' = [pc EXCEPT ![r] = "body"]
      PROVE  Frame(r)
  <2>1. Repairs' = Repairs BY <1>2 DEF Repairs
  <2>2. QED BY <1>2, <2>1 DEF Frame, WriteInv, TypeOK
<1>3. CASE Arrive(r)
  <2>1. PICK k \in Keys, m \in Offered :
            StartPost(r, m, k) \/ StartBodyKey(r, m, k) \/ StartDel(r, m, k)
    BY <1>3 DEF Arrive
  <2>2. pc[r] = "new" /\ UNCHANGED <<acks, binlog, synclog>>
    BY <2>1 DEF StartPost, StartBodyKey, StartDel, Start
  <2>3. \/ \E c, s, n : SendResponse(r, c, s, Null, n)
        \/ \E c : RunSubrequest(r, c, c.peer, "write")
        \/ pc' = [pc EXCEPT ![r] = "body"] /\ UNCHANGED resp
    BY <2>1 DEF StartPost, StartBodyKey, StartDel
  <2>4. QED BY <1>1, <1>2, <2>2, <2>3
<1>4. CASE BodyReceived(r) \/ BodyTimeout(r)
  <2>1. pc[r] = "body" /\ UNCHANGED <<acks, binlog, synclog>>
    BY <1>4 DEF BodyReceived, BodyTimeout
  <2>2. \/ \E c, s, n : SendResponse(r, c, s, Null, n)
        \/ \E c : RunSubrequest(r, c, c.peer, "write")
    BY <1>4 DEF BodyReceived, BodyTimeout
  <2>3. QED BY <1>1, <2>1, <2>2
<1>5. ASSUME NEW s, NEW v, SwitchState(r, s, v) PROVE Frame(r)
  <2>1. pc[r] = "sub" /\ binlog' = binlog BY <1>5 DEF SwitchState
  <2>2. /\ \A q \in Requests \ {r} : acks'[q] = acks[q]
        /\ acks[r] \subseteq acks'[r]
    BY <1>5 DEF SwitchState, OnWriteMaster1Complete, OnWriteMaster2Complete,
       OnWriteBinlogComplete, AckedBy, WriteInv, TypeOK
  <2>3. CASE \E c : PostWriteData(r, c) \/ WriteSyncData(r, c)
    BY <2>1, <2>2, <2>3, PostWriteDataFrame DEF Frame
  <2>4. CASE /\ \E c, i, n, kind : SendResponse(r, c, OK, i, n)
                                   \/ RunSubrequest(r, c, i, kind)
             /\ UNCHANGED synclog
    <3>1. Repairs' = Repairs BY <2>1, <2>4 DEF Repairs
    <3>2. QED BY <2>1, <2>2, <2>4, <3>1, HandlerEnds DEF Frame
  <2>5. OnWriteMaster1Complete(r, s, v) \/ OnWriteMaster2Complete(r, s, v)
        \/ OnWriteBinlogComplete(r, s, v)
    BY <1>5 DEF SwitchState
  <2>6. CASE OnWriteMaster1Complete(r, s, v)
    <3> DEFINE c == [UpdateError(KeepVersion(ctx[r], s, v), s) EXCEPT !.peer = 2]
               d == [c EXCEPT !.state = "MASTER2"]
    <3>1. \/ RunSubrequest(r, d, 2, "write") /\ UNCHANGED synclog
          \/ PostWriteData(r, SecondMasterDead(c))
      BY <2>6 DEF OnWriteMaster1Complete
    <3> HIDE DEF c, d
    <3>2. QED BY <2>3, <2>4, <3>1
  <2>7. CASE OnWriteMaster2Complete(r, s, v)
    <3>1. PostWriteData(r, UpdateError(KeepVersion(ctx[r], s, v), s))
      BY <2>7 DEF OnWriteMaster2Complete
    <3>2. QED BY <2>3, <3>1
  <2>8. CASE OnWriteBinlogComplete(r, s, v)
    <3> DEFINE c == KeepVersion(ctx[r], s, v)
    <3>1. \/ SendResponse(r, c, OK, c.error_peer, 1) /\ UNCHANGED synclog
          \/ WriteSyncData(r, c)
      BY <2>8 DEF OnWriteBinlogComplete
    <3> HIDE DEF c
    <3>2. QED BY <2>3, <2>4, <3>1
  <2>9. QED BY <2>5, <2>6, <2>7, <2>8
<1>6. CASE SubrequestAnswered(r) \/ SubrequestFailed(r)
  BY <1>5, <1>6 DEF SubrequestAnswered, SubrequestFailed
<1>7. QED BY <1>3, <1>4, <1>6 DEF Handle

\* The abstract view of the state.
held == [r \in Requests |-> Acked(r)]
owed == [r \in Requests |-> {x.host : x \in RepairsOf(r)}]
outcome == [r \in Requests |-> Outcome(r)]

\* A step of one handler settles that request, by the invariant of the state it
\* leads to.
LEMMA HandlerSimulates ==
    ASSUME WriteInv, WriteInv', NEW r \in Requests, Frame(r)
    PROVE  Abstract!Next
<1> DEFINE H == held'[r]
           O == owed'[r]
           a == outcome'[r]
<1>0. H = Acked(r)' /\ a = Outcome(r)' BY DEF held, outcome
<1>1. ASSUME NEW q \in Requests, q # r
      PROVE  /\ Acked(q)' = Acked(q) /\ Outcome(q)' = Outcome(q)
             /\ RepairsOf(q)' = RepairsOf(q)
  BY <1>1 DEF Frame, Acked, Outcome, RepairsOf
<1>2. Acked(r) \subseteq H BY <1>0 DEF Frame, Acked
<1>3. RepairsOf(r) \subseteq RepairsOf(r)' BY DEF Frame, RepairsOf
<1>4. O = {x.host : x \in RepairsOf(r)'} BY DEF owed
<1>5. owed[r] \subseteq O BY <1>3, <1>4 DEF owed
<1>6. ASSUME NEW i \in O
      PROVE  InRepair(ctx[r], acks[r])' /\ i = ctx'[r].error_peer
  <2>1. PICK x \in RepairsOf(r)' : x.host = i BY <1>4
  <2>2. x \in Repairs' /\ x.req = r BY <2>1 DEF RepairsOf
  <2>3. RepairInv(x)' BY <2>2 DEF WriteInv
  <2>4. QED BY <2>1, <2>2, <2>3 DEF RepairInv
<1>7. ASSUME InRepair(ctx[r], acks[r])'
      PROVE  /\ H = {ctx'[r].health_peer}
             /\ ctx'[r].error_peer \in Master \ H
             /\ \A i \in Master : i \in H \/ i = ctx'[r].error_peer
  BY <1>0, <1>7 DEF InRepair, Acked, Master
<1>8. H \subseteq Master
  <2>1. acks'[r] \in SUBSET Ack BY DEF WriteInv, TypeOK
  <2>2. QED BY <1>0, <2>1 DEF Acked, Ack
<1>9. O \subseteq Master BY <1>6, <1>7
<1>10. O # {} => H # {} /\ O \intersect H = {} BY <1>6, <1>7
<1>11. a = "ok" => H \union O = Master
  <2>1. SUFFICES ASSUME a = "ok" PROVE H \union O = Master OBVIOUS
  <2>2. resp'[r].status = OK BY <1>0, <2>1 DEF Outcome
  <2>3. \/ H = Master
        \/ InRepair(ctx[r], acks[r])' /\ \E x \in Repairs' : x.req = r
    BY <1>0, <2>2 DEF WriteInv, ResponseInv
  <2>4. CASE InRepair(ctx[r], acks[r])' /\ \E x \in Repairs' : x.req = r
    <3>1. PICK x \in Repairs' : x.req = r BY <2>4
    <3>2. x \in RepairsOf(r)' BY <3>1 DEF RepairsOf
    <3>3. x.host \in O BY <1>4, <3>2
    <3>4. ctx'[r].error_peer \in O BY <1>6, <3>3
    <3>5. QED BY <1>7, <1>8, <1>9, <2>4, <3>4
  <2>5. QED BY <1>9, <2>3, <2>4
<1>12. outcome[r] = "none" BY DEF Frame, Outcome, outcome
<1>13. a \in {"none", "ok", "fail"} BY <1>0 DEF Outcome
<1>14. held[r] = Acked(r) BY DEF held
<1>15. /\ held' = [held EXCEPT ![r] = @ \union H]
       /\ owed' = [owed EXCEPT ![r] = @ \union O]
       /\ outcome' = [outcome EXCEPT ![r] = a]
  BY <1>0, <1>1, <1>2, <1>5 DEF held, owed, outcome
<1>16. PICK h \in SUBSET Master, o \in SUBSET Master, b \in {"none", "ok", "fail"} :
           h = H /\ o = O /\ b = a
  BY <1>8, <1>9, <1>13
<1>17. Abstract!Settle(r, h, o, b)
  BY <1>10, <1>11, <1>12, <1>14, <1>15, <1>16
     DEF Abstract!Settle, held, owed, outcome
<1>18. QED BY <1>17 DEF Abstract!Next, Abstract!Outcomes

\* A stored repair record is owed, even after the answer; the other steps of
\* the environment change nothing a client or a repair sees.
LEMMA EnvironmentSimulates ==
    ASSUME WriteInv, Environment
    PROVE  Abstract!Next \/ UNCHANGED Abstract!avars
<1>0. UNCHANGED <<pc, acks, synclog, resp>>
  BY DEF Environment, BackendWrite, BackendRefuse, BackendBinlog, BackendDone, CheckPeer
<1>1. UNCHANGED <<held, outcome>>
  BY <1>0 DEF held, outcome, Acked, Outcome
<1>2. CASE binlog' = binlog
  <2>1. owed' = owed BY <1>0, <1>2 DEF owed, RepairsOf, Repairs
  <2>2. QED BY <1>1, <2>1 DEF Abstract!avars, held, owed, outcome
<1>3. ASSUME NEW x \in calls, BackendBinlog(x) PROVE Abstract!Next
  <2> DEFINE r == x.req
             i == ctx[r].error_peer
             new == [req |-> r, source |-> x.pos, host |-> i]
  <2>1. r \in Requests /\ CallInv(x) /\ x.kind = "binlog"
    BY <1>3 DEF WriteInv, TypeOK, Call, BackendBinlog
  <2>2. InRepair(ctx[r], acks[r])
    BY <2>1 DEF WriteInv, CallInv, RequestInv
  <2>3. i \in Master \ Acked(r) /\ Acked(r) # {} BY <2>1, <2>2, InRepairAcked
  <2>4. binlog' = binlog \union {new} BY <1>3 DEF BackendBinlog
  <2>5. new.req = r /\ new.host = i OBVIOUS
  <2> HIDE DEF new, i
  <2>6. Repairs' = Repairs \union {new} BY <1>0, <2>4 DEF Repairs
  <2>7. /\ RepairsOf(r)' = RepairsOf(r) \union {new}
        /\ \A q \in Requests : q # r => RepairsOf(q)' = RepairsOf(q)
    BY <2>5, <2>6 DEF RepairsOf
  <2>8. owed' = [owed EXCEPT ![r] = @ \union {i}]
    <3>1. {y.host : y \in RepairsOf(r)'} = {y.host : y \in RepairsOf(r)} \union {i}
      BY <2>5, <2>7
    <3>2. owed'[r] = owed[r] \union {i} BY <2>1, <3>1 DEF owed
    <3>3. \A q \in Requests : q # r => owed'[q] = owed[q] BY <2>7 DEF owed
    <3>4. QED BY <2>1, <3>2, <3>3 DEF owed
  <2>9. i \notin held[r] /\ held[r] # {} BY <2>1, <2>3 DEF held
  <2>10. PICK q \in Requests, j \in Master : q = r /\ j = i
    BY <2>1, <2>3
  <2>11. Abstract!RecordRepair(q, j)
    BY <1>1, <2>8, <2>9, <2>10 DEF Abstract!RecordRepair, held, owed, outcome
  <2>12. QED BY <2>11 DEF Abstract!Next
<1>4. QED BY <1>2, <1>3 DEF Environment, BackendWrite, BackendRefuse, CheckPeer

\* The two-master write, with lost, late and abandoned backend calls, refines
\* the abstract replicated write.
THEOREM ImplementsReplicatedWrite == Spec => Implements
<1>1. Init => Abstract!Init
  <2>1. SUFFICES ASSUME Init PROVE Abstract!Init OBVIOUS
  <2>2. \A r \in Requests : /\ Acked(r) = {} /\ RepairsOf(r) = {}
                            /\ Outcome(r) = "none"
    BY <2>1 DEF Init, Acked, RepairsOf, Repairs, Outcome
  <2>3. QED BY <2>2 DEF Abstract!Init
<1>2. ASSUME WriteInv, WriteInv', [Next]_vars
      PROVE  [Abstract!Next]_(Abstract!avars)
  <2>1. ASSUME NEW r \in Requests, Arrive(r) \/ Handle(r) PROVE Abstract!Next
    BY <1>2, <2>1, HandlerFrame, HandlerSimulates
  <2>2. CASE Environment BY <1>2, <2>2, EnvironmentSimulates
  <2>3. CASE UNCHANGED vars
    <3>1. UNCHANGED <<pc, acks, binlog, synclog, resp>> BY <2>3 DEF vars
    <3>2. QED BY <3>1 DEF Abstract!avars, Acked, RepairsOf, Repairs, Outcome
  <2>4. QED BY <1>2, <2>1, <2>2, <2>3 DEF Next
<1>3. QED BY <1>1, <1>2, WriteInvariant, PTL DEF Spec, Implements, Abstract!Spec

-----------------------------------------------------------------------------
(* The commands of HaCommand beside the writes.                            *)

\* What a handler of r does to its context and to the other requests.
Keeps(r, k) ==
    /\ ctx'[r].key = k
    /\ pc'[r] = "sub" => reply'[r] = NoReply
    /\ \A q \in Requests \ {r} : ctx'[q] = ctx[q] /\ reply'[q] = reply[q]

\* Both ways a handler ends leave the key of the context they were given.
LEMMA HandlerEndKeeps ==
    ASSUME WriteInv, NEW r \in Requests, NEW c, NEW s, NEW i, NEW n, NEW kind,
           SendResponse(r, c, s, i, n) \/ RunSubrequest(r, c, i, kind)
    PROVE  Keeps(r, c.key)
BY DEF WriteInv, TypeOK, SendResponse, RunSubrequest, Keeps

\* __post_write_data and what it calls leave the key.
LEMMA PostWriteDataKeeps ==
    ASSUME WriteInv, NEW r \in Requests, NEW c \in Ctx,
           PostWriteData(r, c) \/ WriteSyncData(r, c)
    PROVE  Keeps(r, c.key)
<1> DEFINE d == [c EXCEPT !.state = "BINLOG"]
<1>1. d.key = c.key
  BY DEF Ctx
<1>2. CASE WriteSyncData(r, c)
  BY <1>2, HandlerEndKeeps DEF WriteSyncData
<1>3. CASE PostWriteData(r, c)
  <2>1. CASE WriteBinlog(r, c)
    <3>1. WriteSyncData(r, c) \/ RunSubrequest(r, d, c.health_peer, "binlog")
      BY <2>1 DEF WriteBinlog
    <3> HIDE DEF d
    <3>. QED BY <1>1, <1>2, <3>1, HandlerEndKeeps
  <2>2. CASE \E s : SendResponse(r, c, s, Null, 1)
    BY <2>2, HandlerEndKeeps
  <2>. QED BY <1>3, <2>1, <2>2 DEF PostWriteData
<1>. QED BY <1>2, <1>3

\* What a handler does to the acknowledgements of its request: nothing, or it
\* adds what the master it waits for has reported.
Reports(r) ==
    \A a \in acks'[r] :
        \/ a \in acks[r]
        \/ /\ pc[r] = "sub" /\ ctx[r].state # "BINLOG" /\ reply[r].status = OK
           /\ a = [pos |-> ctx[r].peer, version |-> reply[r].version]

\* Arrivals: nothing is reported yet.
LEMMA ArriveKeeps ==
    ASSUME WriteInv, NEW r \in Requests, Arrive(r)
    PROVE  /\ UNCHANGED <<alive, ver>> /\ pc[r] = "new" /\ acks'[r] = {}
           /\ pc'[r] = "sub" => reply'[r] = NoReply
           /\ \A q \in Requests \ {r} : ctx'[q] = ctx[q] /\ reply'[q] = reply[q]
<1>1. PICK k \in Keys, m \in Offered :
          StartPost(r, m, k) \/ StartBodyKey(r, m, k) \/ StartDel(r, m, k)
  BY DEF Arrive
<1>2. pc[r] = "new" /\ UNCHANGED <<alive, ver, acks>>
  BY <1>1 DEF StartPost, StartBodyKey, StartDel, Start
<1>3. acks'[r] = {}
  BY <1>2 DEF WriteInv, RequestInv
<1>4. \/ \E c, s, n : SendResponse(r, c, s, Null, n)
      \/ \E c : RunSubrequest(r, c, c.peer, "write")
      \/ pc' = [pc EXCEPT ![r] = "body"] /\ UNCHANGED reply
           /\ \E c : ctx' = [ctx EXCEPT ![r] = c]
  BY <1>1 DEF StartPost, StartBodyKey, StartDel
<1>5. CASE \/ \E c, s, n : SendResponse(r, c, s, Null, n)
           \/ \E c : RunSubrequest(r, c, c.peer, "write")
  BY <1>2, <1>3, <1>5, HandlerEndKeeps DEF Keeps
<1>6. CASE pc' = [pc EXCEPT ![r] = "body"] /\ UNCHANGED reply
             /\ \E c : ctx' = [ctx EXCEPT ![r] = c]
  BY <1>2, <1>3, <1>6 DEF WriteInv, TypeOK
<1>. QED BY <1>4, <1>5, <1>6

\* The handlers of a request that has arrived.
LEMMA HandleKeeps ==
    ASSUME WriteInv, NEW r \in Requests, Handle(r)
    PROVE  UNCHANGED <<alive, ver>> /\ Keeps(r, ctx[r].key) /\ Reports(r)
<1>0. ctx[r] \in Ctx /\ reply[r] \in Reply
  BY DEF WriteInv, TypeOK
<1>1. CASE BodyReceived(r) \/ BodyTimeout(r)
  <2>1. UNCHANGED <<alive, ver, acks>>
    BY <1>1 DEF BodyReceived, BodyTimeout
  <2>2. InitWriteArgs(ctx[r]).key = ctx[r].key
    BY <1>0 DEF InitWriteArgs, Ctx
  <2>3. \E c : /\ c.key = ctx[r].key
               /\ \/ \E s, n : SendResponse(r, c, s, Null, n)
                  \/ RunSubrequest(r, c, c.peer, "write")
    <3> DEFINE c == InitWriteArgs(ctx[r])
    <3>1. \/ \E s, n : SendResponse(r, ctx[r], s, Null, n)
          \/ RunSubrequest(r, ctx[r], ctx[r].peer, "write")
          \/ RunSubrequest(r, c, c.peer, "write")
      BY <1>1 DEF BodyReceived, BodyTimeout
    <3> HIDE DEF c
    <3>. QED BY <2>2, <3>1 DEF c
  <2>. QED BY <2>1, <2>3, HandlerEndKeeps DEF Reports
<1>2. ASSUME NEW s, NEW v, s \in {NoStatus, reply[r].status}, v \in Nat,
             s = OK => s = reply[r].status /\ v = reply[r].version,
             SwitchState(r, s, v)
      PROVE  UNCHANGED <<alive, ver>> /\ Keeps(r, ctx[r].key) /\ Reports(r)
  <2>1. pc[r] = "sub" /\ UNCHANGED <<alive, ver>>
    BY <1>2 DEF SwitchState
  <2>2. Reports(r)
    <3>1. CASE ctx[r].state # "BINLOG"
      <4>1. AckedBy(r, ctx[r].peer, s, v)
        BY <1>2, <3>1 DEF SwitchState, OnWriteMaster1Complete,
           OnWriteMaster2Complete, OnWriteBinlogComplete
      <4>. QED BY <1>2, <2>1, <3>1, <4>1 DEF AckedBy, Reports, WriteInv, TypeOK
    <3>2. CASE ctx[r].state = "BINLOG"
      BY <1>2, <3>2 DEF SwitchState, OnWriteMaster1Complete,
         OnWriteMaster2Complete, OnWriteBinlogComplete, Reports
    <3>. QED BY <3>1, <3>2
  <2> DEFINE e == KeepVersion(ctx[r], s, v)
             d == UpdateError(e, s)
             next == [d EXCEPT !.peer = 2]
  <2>3. e \in Ctx /\ e.key = ctx[r].key
    BY <1>0, <1>2 DEF KeepVersion, Ctx
  <2>4. CASE OnWriteBinlogComplete(r, s, v)
    <3>1. SendResponse(r, e, OK, e.error_peer, 1) \/ WriteSyncData(r, e)
      BY <2>4 DEF OnWriteBinlogComplete
    <3> HIDE DEF e
    <3>. QED BY <2>1, <2>2, <2>3, <3>1, HandlerEndKeeps, PostWriteDataKeeps
  <2>5. CASE OnWriteMaster1Complete(r, s, v) \/ OnWriteMaster2Complete(r, s, v)
    <3>1. ctx[r].error_count <= 1 /\ ctx[r].skip_error_count <= 1
          /\ (ctx[r].state = "MASTER1" => ctx[r].error_count = 0)
      BY <2>1, <2>5 DEF WriteInv, RequestInv, AtMaster1, AtMaster2,
         OnWriteMaster1Complete, OnWriteMaster2Complete
    <3>2. /\ d \in Ctx /\ d.key = ctx[r].key
          /\ ctx[r].state = "MASTER1" => d.error_count <= 1
      BY <1>0, <1>2, <3>1, UpdateErrorCtx DEF Ctx
    <3>3. CASE OnWriteMaster2Complete(r, s, v)
      <4>1. PostWriteData(r, d)
        BY <3>3 DEF OnWriteMaster2Complete
      <4> HIDE DEF d
      <4>. QED BY <2>1, <2>2, <3>2, <4>1, PostWriteDataKeeps
    <3>4. CASE OnWriteMaster1Complete(r, s, v)
      <4> DEFINE g == [next EXCEPT !.state = "MASTER2"]
                 f == SecondMasterDead(next)
      <4>1. RunSubrequest(r, g, 2, "write") \/ PostWriteData(r, f)
        BY <3>4 DEF OnWriteMaster1Complete
      <4>2. g.key = ctx[r].key
        BY <3>2 DEF Ctx
      <4>3. f \in Ctx /\ f.key = ctx[r].key
        <5>1. d.error_count + 1 \in 0 .. 2 /\ 2 \in {Null} \union Master
          BY <3>2, <3>4 DEF Ctx, OnWriteMaster1Complete, Master
        <5>2. next \in Ctx /\ next.key = d.key /\ next.error_count = d.error_count
          BY <3>2, <5>1 DEF Ctx
        <5> HIDE DEF next, d
        <5>. QED BY <3>2, <5>1, <5>2 DEF SecondMasterDead, Ctx
      <4> HIDE DEF g, f
      <4>. QED BY <2>1, <2>2, <4>1, <4>2, <4>3, HandlerEndKeeps, PostWriteDataKeeps
    <3>. QED BY <2>5, <3>3, <3>4
  <2>. QED BY <1>2, <2>4, <2>5 DEF SwitchState
<1>3. CASE SubrequestAnswered(r)
  BY <1>0, <1>2, <1>3 DEF SubrequestAnswered, Reply
<1>4. CASE SubrequestFailed(r)
  <2>1. NoStatus # OK /\ 0 \in Nat
    BY DEF NoStatus, OK
  <2>. QED BY <1>2, <1>4, <2>1 DEF SubrequestFailed
<1>. QED BY <1>1, <1>3, <1>4 DEF Handle

\* A request that was answered 200 stays as it is.
LEMMA AnsweredStays ==
    ASSUME WriteInv, [Next]_vars, NEW r \in Answers200
    PROVE  /\ r \in Answers200'
           /\ ctx'[r] = ctx[r] /\ acks'[r] = acks[r] /\ resp'[r] = resp[r]
<1>1. r \in Requests /\ pc[r] = "done" /\ resp[r].status = OK
  BY DEF Answers200
<1>2. ASSUME NEW q \in Requests, Arrive(q) \/ Handle(q)
      PROVE  /\ pc'[r] = pc[r] /\ resp'[r] = resp[r] /\ acks'[r] = acks[r]
             /\ ctx'[r] = ctx[r]
  <2>1. Frame(q)
    BY <1>2, HandlerFrame
  <2>2. r # q
    BY <1>1, <2>1 DEF Frame
  <2>3. ctx'[r] = ctx[r]
    BY <1>1, <1>2, <2>2, ArriveKeeps, HandleKeeps DEF Keeps
  <2>. QED BY <1>1, <2>1, <2>2, <2>3 DEF Frame
<1>3. CASE Environment \/ UNCHANGED vars
  <2>1. UNCHANGED <<pc, ctx, acks, resp>>
    BY <1>3 DEF Environment, BackendWrite, BackendRefuse, BackendBinlog,
       BackendDone, CheckPeer, vars
  <2>. QED BY <1>1, <2>1 DEF Answers200
<1>4. CASE \E q \in Requests : Arrive(q) \/ Handle(q)
  BY <1>1, <1>2, <1>4 DEF Answers200
<1>. QED BY <1>3, <1>4 DEF Next

\* A backend never goes back to an older version.
LEMMA VersionsGrow ==
    ASSUME WriteInv, [Next]_vars, NEW p \in Peers, NEW k \in Keys
    PROVE  ver[p][k] \in Nat /\ ver'[p][k] \in Nat /\ ver[p][k] <= ver'[p][k]
<1>0. TypeOK BY DEF WriteInv
<1>1. ver \in [Peers -> [Keys -> Nat]] /\ ver[p] \in [Keys -> Nat] /\ ver[p][k] \in Nat
  BY <1>0 DEF TypeOK
<1>2. CASE UNCHANGED ver
  BY <1>1, <1>2
<1>3. ASSUME NEW x \in calls, BackendWrite(x)
      PROVE  ver'[p][k] \in Nat /\ ver[p][k] <= ver'[p][k]
  <2>1. \E h \in Keys, q \in Peers : ver' = [ver EXCEPT ![q][h] = @ + 1]
    <3>1. x.req \in Requests /\ x.pos \in Master
      BY <1>0 DEF TypeOK, Call
    <3>2. ctx[x.req].key \in Keys
      BY <1>0, <3>1 DEF TypeOK, Ctx
    <3>3. WriteList[ctx[x.req].key][x.pos] \in Peers
      BY <3>1, <3>2, WriteListAssumption
    <3>. QED BY <1>3, <3>2, <3>3 DEF BackendWrite
  <2>2. PICK h \in Keys, q \in Peers : ver' = [ver EXCEPT ![q][h] = @ + 1]
    BY <2>1
  <2>3. ver'[p] = IF p = q THEN [ver[q] EXCEPT ![h] = @ + 1] ELSE ver[p]
    BY <1>1, <2>2
  <2>4. ver'[p][k] = IF p = q /\ k = h THEN ver[p][k] + 1 ELSE ver[p][k]
    BY <1>1, <2>3
  <2>. QED BY <1>1, <2>4
<1>4. UNCHANGED ver \/ \E x \in calls : BackendWrite(x)
  BY ArriveKeeps, HandleKeeps
     DEF Next, Environment, BackendRefuse, BackendBinlog, CheckPeer, vars
<1>. QED BY <1>1, <1>2, <1>3, <1>4

\* What the masters reported is held there.
LEMMA ReportedStaysHeld ==
    ASSUME WriteInv, [Next]_vars, \A q \in Requests : ReportedHeld(q),
           NEW r \in Requests
    PROVE  ReportedHeld(r)'
<1>0. TypeOK BY DEF WriteInv
<1> DEFINE k == ctx[r].key
           Held1(i) == ver[WriteList[k][i]][k]
<1>1. k \in Keys /\ ctx[r] \in Ctx /\ reply[r] \in Reply
      /\ acks[r] \in SUBSET Ack
  BY <1>0 DEF TypeOK, Ctx
<1>2. ASSUME NEW i \in Master
      PROVE  /\ ver[WriteList[k][i]][k] \in Nat /\ ver'[WriteList[k][i]][k] \in Nat
             /\ ver[WriteList[k][i]][k] <= ver'[WriteList[k][i]][k]
  <2>1. WriteList[k][i] \in Peers
    BY <1>1, WriteListAssumption
  <2> HIDE DEF k
  <2>. QED BY <1>1, <2>1, VersionsGrow
<1>3. ReportedHeld(r)
  OBVIOUS
<1>4. ASSUME NEW a \in acks[r] PROVE a.version <= ver'[WriteList[k][a.pos]][k]
  <2>1. a.pos \in Master /\ a.version \in Nat
    BY <1>1 DEF Ack
  <2>2. a.version <= ver[WriteList[k][a.pos]][k]
    BY <1>3 DEF ReportedHeld
  <2> HIDE DEF k
  <2>. QED BY <1>2, <2>1, <2>2
<1>5. ASSUME pc[r] = "sub", ctx[r].state # "BINLOG", reply[r].status = OK
      PROVE  /\ reply[r].version <= ver'[WriteList[k][ctx[r].peer]][k]
             /\ ctx[r].peer \in Master
  <2>1. ctx[r].peer \in Master
    BY <1>5 DEF WriteInv, RequestInv, AtMaster1, AtMaster2, Master
  <2>2. reply[r].version \in Nat
    BY <1>1 DEF Reply
  <2>3. reply[r].version <= ver[WriteList[k][ctx[r].peer]][k]
    BY <1>3, <1>5 DEF ReportedHeld
  <2> HIDE DEF k
  <2>. QED BY <1>2, <2>1, <2>2, <2>3
<1>6. CASE ctx'[r].key = k /\ acks'[r] = acks[r] /\ pc'[r] = pc[r]
           /\ ctx'[r] = ctx[r] /\ reply'[r] = reply[r]
  BY <1>4, <1>5, <1>6 DEF ReportedHeld
<1>7. NoReply.status # OK
  BY DEF NoReply, NoStatus, OK
<1>8. CASE Arrive(r)
  BY <1>7, <1>8, ArriveKeeps DEF ReportedHeld
<1>9. CASE Handle(r)
  <2>1. /\ ctx'[r].key = k /\ Reports(r)
        /\ pc'[r] = "sub" => reply'[r] = NoReply
    BY <1>9, HandleKeeps DEF Keeps
  <2>2. ASSUME NEW a \in acks'[r] PROVE a.version <= ver'[WriteList[k][a.pos]][k]
    <3> HIDE DEF k
    <3>. QED BY <1>4, <1>5, <2>1 DEF Reports
  <2>. QED BY <1>7, <2>1, <2>2 DEF ReportedHeld
<1>10. ASSUME NEW q \in Requests, q # r, Arrive(q) \/ Handle(q)
       PROVE  ReportedHeld(r)'
  <2>1. Frame(q)
    BY <1>10, HandlerFrame
  <2>2. ctx'[r] = ctx[r] /\ reply'[r] = reply[r]
    BY <1>10, ArriveKeeps, HandleKeeps DEF Keeps
  <2>. QED BY <1>6, <1>10, <2>1, <2>2 DEF Frame
<1>11. CASE UNCHANGED vars \/ \E p \in Peers : CheckPeer(p)
  BY <1>6, <1>11 DEF vars, CheckPeer
<1>12. ASSUME NEW x \in calls, NEW s, NEW v \in Nat, Answer(x, s, v), BackendDone(x),
              s = OK /\ x.kind = "write" =>
                 v <= ver'[WriteList[ctx[x.req].key][x.pos]][ctx[x.req].key],
              x.kind = "binlog" => v = 0
       PROVE  ReportedHeld(r)'
  <2>1. UNCHANGED <<pc, ctx, acks>>
    BY <1>12 DEF BackendDone
  <2>2. CASE reply'[r] = reply[r]
    BY <1>6, <2>1, <2>2
  <2>3. CASE reply'[r] # reply[r]
    <3>0. x.req \in Requests
      BY <1>0 DEF TypeOK, Call
    <3>1. r = x.req /\ CurrentCall(r) = x /\ reply'[r] = [status |-> s, version |-> v]
      BY <1>0, <1>12, <2>3, <3>0 DEF Answer, TypeOK
    <3>2. ctx[r].state # "BINLOG" => x.kind = "write" /\ x.pos = ctx[r].peer
      BY <3>1 DEF CurrentCall
    <3>3. /\ ctx'[r].key = k /\ ctx'[r].state = ctx[r].state /\ ctx'[r].peer = ctx[r].peer
          /\ acks'[r] = acks[r]
      BY <2>1
    <3>4. ASSUME NEW a \in acks'[r] PROVE a.version <= ver'[WriteList[k][a.pos]][k]
      <4>. HIDE DEF k
      <4>. QED BY <1>4, <3>3
    <3>5. ASSUME ctx[r].state # "BINLOG", reply'[r].status = OK
          PROVE  reply'[r].version <= ver'[WriteList[k][ctx[r].peer]][k]
      <4>1. s = OK /\ reply'[r].version = v
        BY <3>1, <3>5
      <4>2. v <= ver'[WriteList[k][x.pos]][k]
        BY <1>12, <3>1, <3>2, <3>5, <4>1
      <4>. QED BY <3>2, <3>5, <4>1, <4>2
    <3>. QED BY <3>3, <3>4, <3>5 DEF ReportedHeld
  <2>. QED BY <2>2, <2>3
<1>13. ASSUME NEW x \in calls, NEW s \in {NotFound, PreconditionFailed}, BackendRefuse(x, s)
       PROVE  ReportedHeld(r)'
  BY <1>12, <1>13 DEF BackendRefuse, OK, NotFound, PreconditionFailed
<1>14. ASSUME NEW x \in calls, BackendBinlog(x)
       PROVE  ReportedHeld(r)'
  BY <1>12, <1>14 DEF BackendBinlog
<1>15. ASSUME NEW x \in calls, BackendWrite(x)
       PROVE  ReportedHeld(r)'
  <2> DEFINE h == ctx[x.req].key
             p == WriteList[h][x.pos]
  <2>1. x.req \in Requests /\ x.pos \in Master
    BY <1>0 DEF TypeOK, Call
  <2>2. h \in Keys
    BY <1>0, <2>1 DEF TypeOK, Ctx
  <2>3. p \in Peers
    BY <2>1, <2>2, WriteListAssumption
  <2>4. ver \in [Peers -> [Keys -> Nat]] /\ ver[p] \in [Keys -> Nat] /\ ver[p][h] \in Nat
    BY <1>0, <2>2, <2>3 DEF TypeOK
  <2>5. /\ x.kind = "write" /\ Answer(x, OK, ver[p][h] + 1) /\ BackendDone(x)
        /\ ver' = [ver EXCEPT ![p][h] = @ + 1]
    BY <1>15 DEF BackendWrite
  <2> HIDE DEF h, p
  <2>6. ver'[p][h] = ver[p][h] + 1
    BY <2>2, <2>3, <2>4, <2>5
  <2>7. PICK v \in Nat : v = ver[p][h] + 1
    BY <2>4
  <2>8. Answer(x, OK, v) /\ v <= ver'[p][h] /\ x.kind # "binlog"
    BY <2>4, <2>5, <2>6, <2>7
  <2>9. v <= ver'[WriteList[ctx[x.req].key][x.pos]][ctx[x.req].key]
    BY <2>8 DEF h, p
  <2>. QED BY <1>12, <2>5, <2>8, <2>9
<1>. QED BY <1>8, <1>9, <1>10, <1>11, <1>13, <1>14, <1>15 DEF Next, Environment

\* What the commands add to HaWrite leaves its behaviours as they are.
LEMMA CommandStep ==
    ASSUME [CNext]_allvars
    PROVE  [Next]_vars
BY DEF CNext, Arrives, HandleAlone, BackendAnswers, HandleBeside, BackendStep,
   CheckPeerBeside, Retried, RetriedForEver, Next, Environment, allvars

\* A write list is a list of peers.
LEMMA MastersAreList ==
    ASSUME NEW k \in Keys
    PROVE  /\ WriteList[k] \in Seq(Peers) /\ Len(WriteList[k]) = 2
           /\ ReadList[k] \in Seq(Peers) /\ Len(ReadList[k]) > 1
           /\ ReadList[k][1] = WriteList[k][1] /\ ReadList[k][2] = WriteList[k][2]
<1>1. WriteList[k] \in [1 .. 2 -> Peers]
  <2>1. WriteList[k] \in [Master -> Peers]
    BY WriteListAssumption
  <2>2. Master = 1 .. 2
    BY DEF Master
  <2>. QED BY <2>1, <2>2
<1>2. ReadList[k] \in Seq(Peers) /\ Len(ReadList[k]) > 1
  BY ReadListAssumption
<1>3. 1 \in Master /\ 2 \in Master
  BY DEF Master
<1>4. WriteList[k] \in Seq(Peers) /\ Len(WriteList[k]) = 2
  <2> DEFINE f == WriteList[k]
             g == <<f[1], f[2]>>
  <2>1. f \in [1 .. 2 -> Peers]
    BY <1>1
  <2> HIDE DEF f
  <2>2. g \in Seq(Peers) /\ Len(g) = 2 /\ DOMAIN g = 1 .. 2
        /\ g[1] = f[1] /\ g[2] = f[2]
    BY <2>1
  <2> HIDE DEF g
  <2>3. g \in [1 .. 2 -> Peers]
    BY <2>2
  <2>4. g = f
    BY <2>1, <2>2, <2>3
  <2>. QED BY <2>2, <2>4 DEF f
<1>5. ReadList[k][1] = WriteList[k][1] /\ ReadList[k][2] = WriteList[k][2]
  BY <1>3, MastersFirst
<1>. QED BY <1>2, <1>4, <1>5

\* ngx_http_get_next_peer finds the next living peer, or there is none.
LEMMA NextPeerIs ==
    ASSUME NEW list \in Seq(Peers), NEW i \in Nat
    PROVE  LET n == NextPeer(list, i) IN
           /\ n \in Nat
           /\ n # Null => /\ n \in i + 1 .. Len(list)
                          /\ \A j \in i + 1 .. n - 1 : ~alive[list[j]]
           /\ n = Null => \A j \in i + 1 .. Len(list) : ~alive[list[j]]
<1> DEFINE living == {j \in i + 1 .. Len(list) : alive[list[j]]}
           n == NextPeer(list, i)
<1>1. living \in SUBSET Nat /\ 0 \notin living /\ Len(list) \in Nat
  OBVIOUS
<1>2. n = IF living = {} THEN 0 ELSE Min(living)
  BY DEF NextPeer, Null
<1>3. CASE living = {}
  BY <1>2, <1>3 DEF Null
<1>4. CASE living # {}
  <2>1. PICK m \in living : \A j \in living : m <= j
    BY <1>1, <1>4, HasLeast
  <2>2. Min(living) \in living /\ \A j \in living : Min(living) <= j
    BY <2>1 DEF Min
  <2>3. n \in living /\ \A j \in living : n <= j
    BY <1>2, <1>4, <2>2
  <2> HIDE DEF n
  <2>4. ASSUME NEW j \in i + 1 .. n - 1 PROVE ~alive[list[j]]
    <3>1. n \in Nat /\ n <= Len(list) /\ j \in i + 1 .. Len(list) /\ j < n
      BY <1>1, <2>3
    <3>2. j \notin living
      BY <2>3, <3>1
    <3>. QED BY <3>1, <3>2
  <2>. QED BY <1>1, <2>3, <2>4 DEF Null, n
<1>. QED BY <1>3, <1>4

\* A command that a step leaves where it is keeps its invariant, if no peer was
\* declared down without it being told.
LEMMA CommandStays ==
    ASSUME WriteInv, [Next]_vars, CommandInv, NEW d \in Commands,
           cphase'[d] = cphase[d], cctx'[d] = cctx[d], creply'[d] = creply[d],
           cresp'[d] = cresp[d], hist'[d].since = hist[d].since,
           hist'[d].said = hist[d].said, hist[d].down \subseteq hist'[d].down,
           cphase[d] \in {"body", "sub"} /\ cctx[d].kind \in Traced =>
               Down' \subseteq hist'[d].down
    PROVE  HistoryInv(d)' /\ KindInv(d)'
<1>1. HistoryInv(d) /\ KindInv(d)
  BY DEF CommandInv
<1>2. \A p, v : Covers(d, p, v) => Covers(d, p, v)'
  BY <1>1, AnsweredStays DEF Covers, HistoryInv
<1>3. HistoryInv(d)'
  BY <1>1, AnsweredStays DEF HistoryInv
<1>4. Taken(d)' = Taken(d) /\ Source(d)' = Source(d)
  BY DEF Taken, Source
<1>5. \A n : PassedOver(d, n) => PassedOver(d, n)'
  BY DEF PassedOver
<1>6. ReadInv(d) => ReadInv(d)'
  BY <1>2, <1>4, <1>5 DEF ReadInv
<1>7. Read2Inv(d) => Read2Inv(d)'
  BY <1>2 DEF Read2Inv
<1>8. CacheInv(d) => CacheInv(d)'
  BY <1>4 DEF CacheInv
<1>. QED BY <1>1, <1>3, <1>6, <1>7, <1>8 DEF KindInv

-----------------------------------------------------------------------------
(* The ways a command's handler ends.                                      *)

\* The handler of d ends in phase ph with context c, and answers nobody else.
Ended(d, ph, c) ==
    /\ cphase' \in [Commands -> Phases] /\ cctx' \in [Commands -> CommandCtx]
    /\ creply' \in [Commands -> CommandReply]
    /\ cresp' \in [Commands -> CommandResponse]
    /\ cphase'[d] = ph /\ cctx'[d] = c
    /\ \A e \in Commands \ {d} :
           /\ cphase'[e] = cphase[e] /\ cctx'[e] = cctx[e]
           /\ creply'[e] = creply[e] /\ cresp'[e] = cresp[e]

LEMMA WaitBodyEnds ==
    ASSUME CTypeOK, NEW d \in Commands, NEW c \in CommandCtx, WaitBody(d, c)
    PROVE  Ended(d, "body", c) /\ creply'[d] = creply[d] /\ cresp'[d] = cresp[d]
BY DEF CTypeOK, WaitBody, Ended, Phases

LEMMA AskEnds ==
    ASSUME CTypeOK, NEW d \in Commands, NEW c \in CommandCtx, Ask(d, c)
    PROVE  Ended(d, "sub", c) /\ creply'[d] = NoReply /\ cresp'[d] = cresp[d]
<1>1. NoReply \in CommandReply
  BY DEF NoReply, CommandReply, NoStatus
<1>. QED BY <1>1 DEF CTypeOK, Ask, Ended, Phases

LEMMA RespondEnds ==
    ASSUME CTypeOK, NEW d \in Commands, NEW c \in CommandCtx, NEW s \in CommandStatus,
           NEW v \in Nat, NEW v2 \in Nat, NEW fail \in Nat, Respond(d, c, s, v, v2, fail)
    PROVE  /\ Ended(d, "done", c)
           /\ cresp'[d].status = s /\ cresp'[d].version = v
           /\ cresp'[d].version2 = v2 /\ cresp'[d].fail = fail
<1> DEFINE a == [status |-> s, version |-> v, version2 |-> v2, fail |-> fail]
<1>1. NoReply \in CommandReply
  BY DEF NoReply, CommandReply, NoStatus
<1>2. a \in CommandResponse /\ a.status = s /\ a.version = v /\ a.version2 = v2
      /\ a.fail = fail
  BY DEF CommandResponse
<1>3. cresp' = [cresp EXCEPT ![d] = a]
  BY DEF Respond
<1> HIDE DEF a
<1>. QED BY <1>1, <1>2, <1>3 DEF CTypeOK, Respond, Ended, Phases

\* A step of command d: the writes and the other commands stand still.
Acts(d) ==
    /\ UNCHANGED vars
    /\ hist' \in [Commands -> History]
    /\ \A e \in Commands \ {d} : hist'[e] = hist[e]
    /\ hist'[d].since \subseteq Answers200

\* A read goes through the read list of its key.
ListFits(c) ==
    c.kind \in {"READ", "BODYREAD", "READ2", "MEMBER2"} => c.list = ReadList[c.key]

\* What a step of d leaves to prove.
LEMMA ActsInv ==
    ASSUME WriteInv, CommandInv, NEW d \in Commands, Acts(d), NEW ph, NEW c,
           Ended(d, ph, c), HistoryInv(d)', KindInv(d)'
    PROVE  CommandInv'
<1>1. [Next]_vars
  BY DEF Acts
<1>2. CTypeOK'
  BY DEF Acts, Ended, CTypeOK
<1>3. ASSUME NEW r \in Requests PROVE ReportedHeld(r)'
  BY <1>1, <1>3, ReportedStaysHeld DEF CommandInv
<1>4. ASSUME NEW e \in Commands PROVE HistoryInv(e)' /\ KindInv(e)'
  <2>1. CASE e = d
    BY <2>1
  <2>2. CASE e # d
    <3>1. /\ cphase'[e] = cphase[e] /\ cctx'[e] = cctx[e] /\ creply'[e] = creply[e]
          /\ cresp'[e] = cresp[e] /\ hist'[e] = hist[e]
      BY <2>2 DEF Acts, Ended
    <3>2. Down' = Down
      BY DEF Acts, vars, Down
    <3>3. HistoryInv(e)
      BY DEF CommandInv
    <3>. QED BY <1>1, <3>1, <3>2, <3>3, CommandStays DEF HistoryInv
  <2>. QED BY <2>1, <2>2
<1>. QED BY <1>2, <1>3, <1>4 DEF CommandInv

\* The backends, the writes and the health checker do not move while d acts.
LEMMA ActsFrame ==
    ASSUME NEW d, Acts(d)
    PROVE  Down' = Down /\ Answers200' = Answers200 /\ UNCHANGED <<ctx, acks, ver, alive>>
BY DEF Acts, vars, Down, Answers200

\* A refusal promises nothing, except that a read looked everywhere.
LEMMA RefuseInv ==
    ASSUME WriteInv, CommandInv, NEW d \in Commands, Acts(d), NEW c \in CommandCtx,
           ListFits(c), NEW s \in CommandStatus, s # OK, Refuse(d, c, s),
           c.kind \in {"READ", "BODYREAD"} /\ s = NotFound /\ hist'[d].said # {} =>
              \A i \in 1 .. Len(c.list) :
                 \/ \E x \in hist'[d].said : x.pos = i /\ x.status # OK
                 \/ c.list[i] \in hist'[d].down
    PROVE  CommandInv'
<1>1. Ended(d, "done", c) /\ cresp'[d].status = s
  BY RespondEnds DEF Refuse, Null, CommandInv
<1>2. cphase'[d] = "done" /\ cctx'[d] = c
  BY <1>1 DEF Ended
<1>3. HistoryInv(d)'
  BY <1>2, ActsFrame DEF HistoryInv, Acts
<1>4. c.kind \in {"READ", "BODYREAD"} => ReadInv(d)'
  BY <1>1, <1>2 DEF ReadInv, PassedOver, ListFits
<1>5. c.kind \in {"READ2", "MEMBER2"} => Read2Inv(d)'
  BY <1>1, <1>2 DEF Read2Inv, ListFits
<1>6. c.kind = "CACHE" => CacheInv(d)'
  BY <1>1, <1>2 DEF CacheInv
<1>7. KindInv(d)'
  BY <1>2, <1>4, <1>5, <1>6 DEF KindInv
<1>. QED BY <1>1, <1>3, <1>7, ActsInv

\* A question to the peer at c.pos, when c says what was heard so far.
LEMMA AskInv ==
    ASSUME WriteInv, CommandInv, NEW d \in Commands, Acts(d), NEW c \in CommandCtx,
           ListFits(c), cresp[d] = NoCommandResponse, Ask(d, c),
           c.kind \in Traced => Down \subseteq hist'[d].down,
           c.kind \in {"READ", "BODYREAD"} =>
              /\ c.pos \in DOMAIN c.list /\ c.version = 0
              /\ \A x \in hist'[d].said : x.status # OK
              /\ \A i \in 1 .. c.pos - 1 :
                    \/ \E x \in hist'[d].said : x.pos = i /\ x.status # OK
                    \/ c.list[i] \in hist'[d].down,
           c.kind \in {"READ2", "MEMBER2"} =>
              \/ c.state = "MASTER1" /\ c.pos = 1
              \/ c.state = "MASTER2" /\ c.pos = 2
                 /\ \A r \in hist'[d].since : ctx[r].key = c.key =>
                       \A a \in acks[r] : WriteList[ctx[r].key][a.pos] = c.list[1] =>
                          a.version <= c.version1,
           c.kind = "CACHE" => /\ c.list = WriteList[c.key]
                               /\ CacheAt(c, Taken(d)')
    PROVE  CommandInv'
<1>1. Ended(d, "sub", c) /\ creply'[d] = NoReply /\ cresp'[d] = cresp[d]
  BY AskEnds DEF CommandInv
<1>2. cphase'[d] = "sub" /\ cctx'[d] = c
  BY <1>1 DEF Ended
<1>3. HistoryInv(d)'
  BY <1>1, <1>2, ActsFrame DEF HistoryInv, Acts
<1>4. NoCommandResponse.status # OK /\ NoCommandResponse.status # NotFound
      /\ NoReply.status # OK
  BY DEF NoCommandResponse, NoStatus, OK, NotFound, NoReply
<1>5. c.kind \in {"READ", "BODYREAD"} => ReadInv(d)'
  <2>1. CASE c.kind \in {"READ", "BODYREAD"}
    <3>1. Taken(d)' = {}
      BY <2>1 DEF Taken
    <3>2. PassedOver(d, c.pos - 1)'
      BY <1>2, <2>1 DEF PassedOver
    <3>. QED BY <1>1, <1>2, <1>4, <2>1, <3>1, <3>2 DEF ReadInv, ListFits
  <2>. QED BY <2>1
<1>6. c.kind \in {"READ2", "MEMBER2"} => Read2Inv(d)'
  BY <1>1, <1>2, <1>4, ActsFrame DEF Read2Inv, ListFits, Covers
<1>7. c.kind = "CACHE" => CacheInv(d)'
  BY <1>1, <1>2, <1>4 DEF CacheInv
<1>8. KindInv(d)'
  BY <1>2, <1>5, <1>6, <1>7 DEF KindInv
<1>. QED BY <1>1, <1>3, <1>8, ActsInv

\* A read asks the next living peer, or gives up after all of them.
LEMMA AskNextInv ==
    ASSUME WriteInv, CommandInv, NEW d \in Commands, Acts(d), NEW c \in CommandCtx,
           c.kind \in {"READ", "BODYREAD", "HINCRBY"}, ListFits(c),
           cresp[d] = NoCommandResponse, NEW s \in {NotFound, Closed}, AskNext(d, c, s),
           c.kind \in Traced =>
              /\ c.version = 0 /\ Down \subseteq hist'[d].down
              /\ \A x \in hist'[d].said : x.status # OK
              /\ \A i \in 1 .. c.pos :
                    \/ \E x \in hist'[d].said : x.pos = i /\ x.status # OK
                    \/ c.list[i] \in hist'[d].down
    PROVE  CommandInv'
<1> DEFINE n == NextPeer(c.list, c.pos)
<1>1. c.list \in Seq(Peers) /\ c.pos \in Nat /\ Len(c.list) \in Nat
  BY DEF CommandCtx
<1>2. /\ n \in Nat
      /\ n # Null => /\ n \in c.pos + 1 .. Len(c.list)
                     /\ \A j \in c.pos + 1 .. n - 1 : ~alive[c.list[j]]
      /\ n = Null => \A j \in c.pos + 1 .. Len(c.list) : ~alive[c.list[j]]
  BY <1>1, NextPeerIs
<1>3. \A j \in 1 .. Len(c.list) : c.list[j] \in Peers
  BY <1>1
<1>4. \/ n # Null /\ Ask(d, [c EXCEPT !.pos = n])
      \/ n = Null /\ Refuse(d, c, s)
  BY DEF AskNext
<1> HIDE DEF n
<1>5. ASSUME NEW m \in 1 .. Len(c.list) + 1, c.kind \in Traced,
             \A j \in c.pos + 1 .. m - 1 : ~alive[c.list[j]],
             NEW i \in 1 .. m - 1
      PROVE  \/ \E x \in hist'[d].said : x.pos = i /\ x.status # OK
             \/ c.list[i] \in hist'[d].down
  <2>1. CASE i \in 1 .. c.pos
    BY <1>5, <2>1
  <2>2. CASE i \notin 1 .. c.pos
    <3>1. i \in c.pos + 1 .. m - 1 /\ i \in 1 .. Len(c.list)
      BY <1>1, <2>2
    <3>2. c.list[i] \in Down
      BY <1>3, <1>5, <3>1 DEF Down
    <3>. QED BY <1>5, <3>2
  <2>. QED BY <2>1, <2>2
<1>6. c.kind \in Traced <=> c.kind \in {"READ", "BODYREAD"}
  BY DEF Traced
<1>7. CASE n # Null /\ Ask(d, [c EXCEPT !.pos = n])
  <2> DEFINE e == [c EXCEPT !.pos = n]
  <2>1. e \in CommandCtx /\ e.kind = c.kind /\ e.key = c.key /\ e.list = c.list
        /\ e.pos = n /\ e.version = c.version
    BY <1>2 DEF CommandCtx
  <2>2. Ask(d, e)
    BY <1>7
  <2> HIDE DEF e
  <2>3. ListFits(e) /\ n \in DOMAIN c.list /\ n \in 1 .. Len(c.list) + 1
    BY <1>1, <1>2, <1>7, <2>1 DEF ListFits
  <2>4. c.kind \in Traced => \A i \in 1 .. n - 1 :
           \/ \E x \in hist'[d].said : x.pos = i /\ x.status # OK
           \/ c.list[i] \in hist'[d].down
    BY <1>2, <1>5, <1>7, <2>3
  <2>. QED BY <1>6, <2>1, <2>2, <2>3, <2>4, AskInv
<1>8. CASE n = Null /\ Refuse(d, c, s)
  <2>1. c.kind \in Traced => \A i \in 1 .. Len(c.list) :
           \/ \E x \in hist'[d].said : x.pos = i /\ x.status # OK
           \/ c.list[i] \in hist'[d].down
    <3>1. Len(c.list) + 1 \in 1 .. Len(c.list) + 1 /\ (Len(c.list) + 1) - 1 = Len(c.list)
      BY <1>1
    <3>. QED BY <1>2, <1>5, <1>8, <3>1
  <2>2. s \in CommandStatus /\ s # OK
    BY DEF CommandStatus, OK, NotFound, Closed
  <2>. QED BY <1>6, <1>8, <2>1, <2>2, RefuseInv
<1>. QED BY <1>4, <1>7, <1>8

\* A command that waits for its body has asked nobody.
LEMMA WaitInv ==
    ASSUME WriteInv, CommandInv, NEW d \in Commands, Acts(d), NEW c \in CommandCtx,
           ListFits(c), cresp[d] = NoCommandResponse, WaitBody(d, c),
           hist'[d].said = {}, c.kind \in Traced => Down \subseteq hist'[d].down,
           c.kind \in {"READ", "BODYREAD"} => c.pos = Null /\ c.version = 0,
           c.kind \in {"READ2", "MEMBER2"} => c.state = "MASTER1",
           c.kind = "CACHE" => c.list = WriteList[c.key] /\ CacheAt(c, {})
    PROVE  CommandInv'
<1>1. Ended(d, "body", c) /\ cresp'[d] = cresp[d]
  BY WaitBodyEnds DEF CommandInv
<1>2. cphase'[d] = "body" /\ cctx'[d] = c
  BY <1>1 DEF Ended
<1>3. HistoryInv(d)'
  BY <1>1, <1>2, ActsFrame DEF HistoryInv, Acts
<1>4. NoCommandResponse.status # OK /\ NoCommandResponse.status # NotFound
  BY DEF NoCommandResponse, NoStatus, OK, NotFound
<1>5. Taken(d)' = {}
  BY DEF Taken
<1>6. c.kind \in {"READ", "BODYREAD"} => ReadInv(d)'
  BY <1>1, <1>2, <1>4 DEF ReadInv, ListFits
<1>7. c.kind \in {"READ2", "MEMBER2"} => Read2Inv(d)'
  BY <1>1, <1>2, <1>4 DEF Read2Inv, ListFits
<1>8. c.kind = "CACHE" => CacheInv(d)'
  BY <1>1, <1>2, <1>4, <1>5 DEF CacheInv
<1>9. KindInv(d)'
  BY <1>2, <1>6, <1>7, <1>8 DEF KindInv
<1>. QED BY <1>1, <1>3, <1>9, ActsInv

\* A zeroed context.
LEMMA CreateCtxIs ==
    ASSUME NEW kind \in AllKinds, NEW k \in Keys, NEW list \in Seq(Peers)
    PROVE  LET c == CreateCtx(kind, k, list) IN
           /\ c \in CommandCtx /\ c.kind = kind /\ c.key = k /\ c.list = list
           /\ c.pos = 0 /\ c.state = "MASTER1" /\ c.version = 0
           /\ c.error_count = 0 /\ c.error_peer = 0
BY DEF CreateCtx, CommandCtx, States, Null

\* Every way a handler ends sets the context it was given.
LEMMA EndsWith ==
    ASSUME CTypeOK, NEW d \in Commands, NEW c \in CommandCtx, NEW s
    PROVE  /\ WaitBody(d, c) \/ Ask(d, c) \/ Refuse(d, c, s) => cctx'[d] = c
           /\ AskNext(d, c, s) => cctx'[d].kind = c.kind
<1>1. \A e : WaitBody(d, e) \/ Ask(d, e) \/ Refuse(d, e, s) => cctx'[d] = e
  BY DEF CTypeOK, WaitBody, Ask, Refuse, Respond
<1>2. \A n : [c EXCEPT !.pos = n].kind = c.kind
  BY DEF CommandCtx
<1>3. AskNext(d, c, s) => Refuse(d, c, s) \/ \E n : Ask(d, [c EXCEPT !.pos = n])
  BY DEF AskNext
<1>. QED BY <1>1, <1>2, <1>3

\* A command arrives.
LEMMA ArrivesInv ==
    ASSUME WriteInv, CommandInv, NEW d \in Commands, Arrives(d)
    PROVE  CommandInv'
<1>0. CTypeOK /\ HistoryInv(d)
  BY DEF CommandInv
<1> DEFINE h(kind) == [since |-> Answers200, said |-> {},
                       down |-> IF kind \in Traced THEN Down ELSE {}]
<1>1. cphase[d] = "new" /\ hist' = [hist EXCEPT ![d] = h(cctx'[d].kind)] /\ UNCHANGED vars
  BY DEF Arrives
<1>2. cresp[d] = NoCommandResponse
  BY <1>0, <1>1 DEF HistoryInv
<1>3. \A kind : h(kind) \in History
  BY DEF History, Answers200, Down
<1>4. hist'[d] = h(cctx'[d].kind)
  BY <1>0, <1>1 DEF CTypeOK
<1> HIDE DEF h
<1>5. hist' \in [Commands -> History] /\ \A e \in Commands \ {d} : hist'[e] = hist[e]
  BY <1>0, <1>1, <1>3 DEF CTypeOK
<1>6. /\ hist'[d].since = Answers200 /\ hist'[d].said = {}
      /\ cctx'[d].kind \in Traced => hist'[d].down = Down
  BY <1>4 DEF h
<1>7. Acts(d)
  BY <1>1, <1>5, <1>6 DEF Acts
<1>8. Taken(d)' = {}
  BY <1>6 DEF Taken
<1>9. ASSUME NEW c \in CommandCtx, ListFits(c), NEW s \in CommandStatus, s # OK,
             Refuse(d, c, s)
      PROVE  CommandInv'
  BY <1>6, <1>7, <1>9, RefuseInv
<1>10. ASSUME NEW c \in CommandCtx, ListFits(c), NEW s \in {NotFound, Closed},
              c.pos = 0, c.version = 0, c.kind \in {"READ", "BODYREAD", "HINCRBY"},
              AskNext(d, c, s)
       PROVE  CommandInv'
  <2>1. c.kind \in Traced => Down \subseteq hist'[d].down
    BY <1>0, <1>6, <1>10, EndsWith
  <2>. QED BY <1>2, <1>6, <1>7, <1>10, <2>1, AskNextInv
<1>11. ASSUME NEW c \in CommandCtx, ListFits(c), WaitBody(d, c),
           c.kind \in {"READ", "BODYREAD"} => c.pos = Null /\ c.version = 0,
           c.kind \in {"READ2", "MEMBER2"} => c.state = "MASTER1",
           c.kind = "CACHE" => c.list = WriteList[c.key] /\ CacheAt(c, {})
       PROVE  CommandInv'
  <2>1. cctx'[d] = c
    BY <1>0, <1>11, EndsWith
  <2>. QED BY <1>2, <1>6, <1>7, <1>11, <2>1, WaitInv
<1>12. PICK k \in Keys, known \in BOOLEAN :
          \/ "READ" \in Kinds /\ StartRead(d, k, known)
          \/ \E kind \in Kinds : StartBodyRead(d, kind, k, known)
          \/ "CACHE" \in Kinds /\ StartCache(d, k, known)
          \/ "HINCRBY" \in Kinds /\ StartHincrby(d, k, known)
          \/ "PEER" \in Kinds /\ \E p \in Peers : StartPeer(d, k, p, known)
  BY DEF Arrives
<1>13. /\ ReadList[k] \in Seq(Peers) /\ WriteList[k] \in Seq(Peers)
       /\ NotFound \in CommandStatus /\ Closed \in CommandStatus /\ NotAllowed \in CommandStatus
       /\ NotFound # OK /\ Closed # OK /\ NotAllowed # OK
  BY MastersAreList DEF CommandStatus, NotFound, Closed, NotAllowed, OK
<1>14. CASE StartRead(d, k, known)
  <2> DEFINE c == CreateCtx("READ", k, ReadList[k])
  <2>1. /\ c \in CommandCtx /\ c.kind = "READ" /\ c.key = k /\ c.list = ReadList[k]
        /\ c.pos = 0 /\ c.version = 0
    BY <1>13, CreateCtxIs DEF AllKinds
  <2>2. AskNext(d, c, Closed) \/ Refuse(d, c, Closed)
    BY <1>14 DEF StartRead
  <2> HIDE DEF c
  <2>. QED BY <1>9, <1>10, <1>13, <2>1, <2>2 DEF ListFits
<1>15. ASSUME NEW kind \in Kinds, StartBodyRead(d, kind, k, known)
       PROVE  CommandInv'
  <2> DEFINE c == CreateCtx(kind, k, ReadList[k])
  <2>1. kind \in {"BODYREAD", "READ2", "MEMBER2"} /\ kind \in AllKinds
    BY <1>15, KindsAssumption DEF StartBodyRead
  <2>2. /\ c \in CommandCtx /\ c.kind = kind /\ c.key = k /\ c.list = ReadList[k]
        /\ c.pos = 0 /\ c.version = 0 /\ c.state = "MASTER1"
    BY <1>13, <2>1, CreateCtxIs
  <2>3. WaitBody(d, c) \/ Refuse(d, c, NotAllowed) \/ Refuse(d, c, Closed)
    BY <1>15 DEF StartBodyRead
  <2> HIDE DEF c
  <2>. QED BY <1>9, <1>11, <1>13, <2>1, <2>2, <2>3 DEF ListFits, Null
<1>16. CASE StartCache(d, k, known)
  <2> DEFINE c == CreateCtx("CACHE", k, WriteList[k])
             a == InitWriteArgs(CreateWriteCtx("PUT", k))
             e == [c EXCEPT !.pos = a.peer, !.state = a.state,
                            !.error_count = a.error_count, !.error_peer = a.error_peer]
  <2>1. /\ c \in CommandCtx /\ c.kind = "CACHE" /\ c.key = k /\ c.list = WriteList[k]
    BY <1>13, CreateCtxIs DEF AllKinds
  <2>2. /\ a \in Ctx
        /\ \/ a.state = "MASTER1" /\ a.peer = 1 /\ a.error_count = 0 /\ a.error_peer = Null
           \/ a.state = "MASTER2" /\ a.peer = 2 /\ a.error_count = 1 /\ a.error_peer = 1
    <3>1. "PUT" \in Methods
      BY DEF Methods, PostMethods
    <3> DEFINE z == CreateWriteCtx("PUT", k)
    <3>2. a \in Ctx /\ z \in Ctx
      BY <3>1, InitWriteArgsCtx
    <3>3. z.error_count = 0 /\ z.error_peer = Null
      BY DEF CreateWriteCtx
    <3>4. \/ a = [z EXCEPT !.peer = 1, !.state = "MASTER1"]
          \/ a = [z EXCEPT !.peer = 2, !.state = "MASTER2",
                           !.error_count = 1, !.error_peer = 1]
      BY DEF InitWriteArgs
    <3> HIDE DEF a, z
    <3>. QED BY <3>2, <3>3, <3>4 DEF Ctx
  <2>3. \/ WaitBody(d, e)
        \/ Refuse(d, c, NotFound)
    BY <1>16 DEF StartCache
  <2> HIDE DEF c, a
  <2>4. /\ e \in CommandCtx /\ e.kind = "CACHE" /\ e.key = k /\ e.list = WriteList[k]
        /\ e.pos = a.peer /\ e.state = a.state
        /\ e.error_count = a.error_count /\ e.error_peer = a.error_peer
    <3>1. a.peer \in Nat /\ a.state \in States /\ a.error_count \in Nat /\ a.error_peer \in Nat
      BY <2>2 DEF States, Null
    <3>2. e \in CommandCtx
      BY <2>1, <3>1 DEF CommandCtx
    <3>. QED BY <2>1, <3>2 DEF CommandCtx
  <2> HIDE DEF e
  <2>5. CacheAt(e, {})
    BY <2>2, <2>4 DEF CacheAt
  <2>. QED BY <1>9, <1>11, <1>13, <2>1, <2>3, <2>4, <2>5 DEF ListFits
<1>17. CASE StartHincrby(d, k, known)
  <2> DEFINE c == CreateCtx("HINCRBY", k, WriteList[k])
  <2>1. /\ c \in CommandCtx /\ c.kind = "HINCRBY" /\ c.pos = 0 /\ c.version = 0
    BY <1>13, CreateCtxIs DEF AllKinds
  <2>2. AskNext(d, c, NotFound) \/ Refuse(d, c, NotFound)
    BY <1>17 DEF StartHincrby
  <2> HIDE DEF c
  <2>. QED BY <1>9, <1>10, <1>13, <2>1, <2>2 DEF ListFits
<1>18. ASSUME NEW p \in Peers, StartPeer(d, k, p, known)
       PROVE  CommandInv'
  <2> DEFINE list == <<p>>
             c == CreateCtx("PEER", k, list)
             e == [c EXCEPT !.pos = 1]
  <2>1. list \in Seq(Peers)
    OBVIOUS
  <2>2. Ask(d, e) \/ Refuse(d, c, Closed)
    BY <1>18 DEF StartPeer
  <2> HIDE DEF list
  <2>3. c \in CommandCtx /\ c.kind = "PEER"
    BY <2>1, CreateCtxIs DEF AllKinds
  <2> HIDE DEF c
  <2>4. e \in CommandCtx /\ e.kind = "PEER"
    BY <2>3 DEF CommandCtx
  <2> HIDE DEF e
  <2>5. CASE Ask(d, e)
    BY <1>2, <1>7, <2>4, <2>5, AskInv DEF ListFits, Traced
  <2>. QED BY <1>9, <1>13, <2>3, <2>2, <2>5 DEF ListFits
<1>. QED BY <1>12, <1>14, <1>15, <1>16, <1>17, <1>18

\* A step of a command that was waiting: what it knew.
LEMMA WaitingCommand ==
    ASSUME WriteInv, CommandInv, NEW d \in Commands, cphase[d] \in {"body", "sub"}
    PROVE  /\ CTypeOK /\ cctx[d] \in CommandCtx /\ hist[d] \in History
           /\ HistoryInv(d) /\ KindInv(d) /\ cresp[d] = NoCommandResponse
           /\ cctx[d].kind \in Traced => Down \subseteq hist[d].down
           /\ ListFits(cctx[d])
BY DEF CommandInv, CTypeOK, HistoryInv, KindInv, ReadInv, Read2Inv, ListFits

\* The body of a command arrives, or never does.
LEMMA CommandBodyInv ==
    ASSUME WriteInv, CommandInv, NEW d \in Commands, cphase[d] = "body",
           \/ \E known \in BOOLEAN : CommandBody(d, known)
           \/ Refuse(d, cctx[d], Closed),
           UNCHANGED <<vars, hist>>
    PROVE  CommandInv'
<1> DEFINE c == cctx[d]
<1>1. /\ CTypeOK /\ c \in CommandCtx /\ hist[d] \in History
      /\ HistoryInv(d) /\ KindInv(d) /\ cresp[d] = NoCommandResponse
      /\ c.kind \in Traced => Down \subseteq hist[d].down
      /\ ListFits(c)
  BY WaitingCommand
<1>2. hist'[d] = hist[d] /\ hist[d].said = {} /\ Taken(d)' = {} /\ Taken(d) = {}
  BY <1>1 DEF HistoryInv, Taken
<1>3. Acts(d)
  BY <1>1 DEF Acts, CTypeOK, HistoryInv
<1>4. NotFound \in CommandStatus /\ Closed \in CommandStatus /\ NotFound # OK /\ Closed # OK
  BY DEF CommandStatus, NotFound, Closed, OK
<1> DEFINE e == [c EXCEPT !.pos = 1]
<1>5. \/ c.kind = "BODYREAD" /\ AskNext(d, c, NotFound)
      \/ c.kind \in {"READ2", "MEMBER2"} /\ Ask(d, e)
      \/ c.kind = "CACHE" /\ Ask(d, c)
      \/ Refuse(d, c, NotFound)
      \/ Refuse(d, c, Closed)
  BY DEF CommandBody
<1>6. /\ e \in CommandCtx /\ e.kind = c.kind /\ e.key = c.key /\ e.list = c.list
      /\ e.pos = 1 /\ e.state = c.state
  BY <1>1 DEF CommandCtx
<1> HIDE DEF c, e
<1>7. CASE c.kind = "BODYREAD" /\ AskNext(d, c, NotFound)
  <2>1. c.pos = 0 /\ c.version = 0
    BY <1>1, <1>7 DEF KindInv, ReadInv, c, Null
  <2>. QED BY <1>1, <1>2, <1>3, <1>7, <2>1, AskNextInv
<1>8. CASE c.kind \in {"READ2", "MEMBER2"} /\ Ask(d, e)
  <2>1. c.state = "MASTER1"
    BY <1>1, <1>8 DEF KindInv, Read2Inv, c
  <2>2. ListFits(e) /\ e.kind \notin Traced /\ e.kind \notin {"READ", "BODYREAD", "CACHE"}
    BY <1>1, <1>6, <1>8 DEF ListFits, Traced
  <2>. QED BY <1>1, <1>3, <1>6, <1>8, <2>1, <2>2, AskInv
<1>9. CASE c.kind = "CACHE" /\ Ask(d, c)
  <2>1. c.list = WriteList[c.key] /\ CacheAt(c, {})
    BY <1>1, <1>2, <1>9 DEF KindInv, CacheInv, c
  <2>. QED BY <1>1, <1>2, <1>3, <1>9, <2>1, AskInv
<1>10. CASE Refuse(d, c, NotFound) \/ Refuse(d, c, Closed)
  BY <1>1, <1>2, <1>3, <1>4, <1>10, RefuseInv
<1>. QED BY <1>5, <1>7, <1>8, <1>9, <1>10

\* What a subrequest that is over adds to the history.
LEMMA CompletedHistory ==
    ASSUME WriteInv, CommandInv, NEW d \in Commands, NEW s \in {NoStatus, OK, NotFound},
           NEW v, Completed(d, s, v), UNCHANGED vars
    PROVE  /\ Acts(d)
           /\ hist'[d].since = hist[d].since /\ hist'[d].down = hist[d].down
           /\ cctx[d].kind \in Traced =>
                 /\ hist'[d].said = hist[d].said \cup {[pos |-> cctx[d].pos, status |-> s]}
                 /\ Taken(d)' = IF s = OK THEN Taken(d) \cup {cctx[d].pos} ELSE Taken(d)
<1>1. cphase[d] = "sub" /\ CTypeOK /\ cctx[d] \in CommandCtx /\ hist[d] \in History
      /\ HistoryInv(d)
  BY WaitingCommand DEF Completed
<1> DEFINE x == [pos |-> cctx[d].pos, status |-> s]
           S == IF cctx[d].kind \in Traced THEN hist[d].said \cup {x} ELSE hist[d].said
           h == [hist[d] EXCEPT !.said = S]
<1>2. hist' = [hist EXCEPT ![d] = h]
  BY DEF Completed
<1>3. x \in Heard /\ x.pos = cctx[d].pos /\ x.status = s
  BY <1>1 DEF Heard, CommandCtx
<1>4. S \in SUBSET Heard
  BY <1>1, <1>3 DEF History
<1> HIDE DEF S
<1>5. h \in History /\ h.since = hist[d].since /\ h.down = hist[d].down /\ h.said = S
  BY <1>1, <1>4 DEF History
<1> HIDE DEF h
<1>6. hist'[d] = h /\ hist' \in [Commands -> History]
      /\ \A e \in Commands \ {d} : hist'[e] = hist[e]
  BY <1>1, <1>2, <1>5 DEF CTypeOK
<1>7. Acts(d)
  BY <1>1, <1>5, <1>6 DEF Acts, HistoryInv
<1>8. ASSUME cctx[d].kind \in Traced
      PROVE  /\ hist'[d].said = hist[d].said \cup {x}
             /\ Taken(d)' = IF s = OK THEN Taken(d) \cup {cctx[d].pos} ELSE Taken(d)
  <2>1. hist'[d].said = hist[d].said \cup {x}
    BY <1>5, <1>6, <1>8 DEF S
  <2> HIDE DEF x
  <2>2. {y \in hist'[d].said : y.status = OK}
           = IF s = OK THEN {y \in hist[d].said : y.status = OK} \cup {x}
                       ELSE {y \in hist[d].said : y.status = OK}
    BY <1>3, <2>1
  <2>. QED BY <1>3, <2>1, <2>2 DEF Taken
<1>. QED BY <1>5, <1>6, <1>7, <1>8

\* A read's peer has answered: pass a 200 on, or ask the next one.
LEMMA OnReadInv ==
    ASSUME WriteInv, CommandInv, NEW d \in Commands, NEW s \in {NoStatus, OK, NotFound},
           NEW v \in Nat, Completed(d, s, v), OnRead(d, s, v), UNCHANGED vars,
           s = OK => Covers(d, cctx[d].list[cctx[d].pos], v)
    PROVE  CommandInv'
<1> DEFINE c == cctx[d]
           g == KeepVersion(c, s, v)
<1>1. /\ CTypeOK /\ c \in CommandCtx /\ hist[d] \in History /\ cphase[d] = "sub"
      /\ HistoryInv(d) /\ KindInv(d) /\ cresp[d] = NoCommandResponse
      /\ c.kind \in Traced => Down \subseteq hist[d].down
      /\ ListFits(c)
  BY WaitingCommand DEF Completed
<1>2. /\ g \in CommandCtx /\ g.kind = c.kind /\ g.key = c.key /\ g.list = c.list
      /\ g.pos = c.pos
      /\ s # OK => g = c
      /\ g.version = IF s = OK /\ v > c.version THEN v ELSE c.version
  BY <1>1 DEF KeepVersion, CommandCtx
<1>3. g.kind \in {"READ", "BODYREAD"}
      /\ \/ s = OK /\ Respond(d, g, OK, g.version, 0, Null)
         \/ s # OK /\ AskNext(d, g, NotFound)
  BY DEF OnRead
<1> HIDE DEF g
<1>4. /\ c.pos \in DOMAIN c.list /\ c.version = 0 /\ Taken(d) = {}
      /\ PassedOver(d, c.pos - 1)
  BY <1>1, <1>2, <1>3 DEF KindInv, ReadInv
<1>5. /\ Acts(d)
      /\ hist'[d].since = hist[d].since /\ hist'[d].down = hist[d].down
      /\ hist'[d].said = hist[d].said \cup {[pos |-> c.pos, status |-> s]}
      /\ Taken(d)' = IF s = OK THEN Taken(d) \cup {c.pos} ELSE Taken(d)
  BY <1>2, <1>3, CompletedHistory DEF Traced
<1>6. \A x \in hist[d].said : x.status # OK
  BY <1>4 DEF Taken
<1>7. ListFits(g) /\ c.pos \in Nat
  BY <1>1, <1>2 DEF ListFits, CommandCtx
<1>8. CASE s = OK /\ Respond(d, g, OK, g.version, 0, Null)
  <2>1. g.version = v
    BY <1>2, <1>4, <1>8
  <2>2. OK \in CommandStatus /\ 0 \in Nat /\ Null \in Nat
    BY DEF CommandStatus, Null
  <2>3. Ended(d, "done", g) /\ cresp'[d].status = OK /\ cresp'[d].version = v
    BY <1>1, <1>2, <1>8, <2>1, <2>2, RespondEnds
  <2>4. cphase'[d] = "done" /\ cctx'[d] = g
    BY <2>3 DEF Ended
  <2>5. HistoryInv(d)'
    BY <1>5, <2>4, ActsFrame DEF HistoryInv, Acts
  <2>6. ASSUME NEW p \in Source(d)' PROVE p = c.list[c.pos]
    <3>1. PICK x \in hist'[d].said : x.status = OK /\ p = g.list[x.pos]
      BY <2>4 DEF Source
    <3>2. x = [pos |-> c.pos, status |-> s]
      BY <1>5, <1>6, <3>1
    <3>. QED BY <1>2, <3>1, <3>2
  <2>7. \A p \in Source(d)' : Covers(d, p, cresp[d].version)'
    <3> HIDE DEF c
    <3>1. ASSUME NEW p, p = c.list[c.pos] PROVE Covers(d, p, cresp[d].version)'
      <4>1. Covers(d, p, v) /\ ctx' = ctx /\ acks' = acks /\ cctx'[d].key = c.key
        BY <1>2, <1>5, <1>8, <2>4, <3>1, ActsFrame DEF c
      <4>. QED BY <1>5, <2>3, <4>1 DEF Covers, c
    <3>. QED BY <2>6, <3>1
  <2>8. ReadInv(d)'
    <3>1. OK # NotFound
      BY DEF OK, NotFound
    <3>. QED BY <1>2, <1>3, <1>7, <2>3, <2>4, <2>7, <3>1 DEF ReadInv, ListFits
  <2>9. KindInv(d)'
    BY <1>3, <2>4, <2>8 DEF KindInv
  <2>. QED BY <1>5, <2>3, <2>5, <2>9, ActsInv
<1>9. CASE s # OK /\ AskNext(d, c, NotFound)
  <2>1. \A x \in hist'[d].said : x.status # OK
    BY <1>5, <1>6, <1>9
  <2>2. ASSUME NEW i \in 1 .. c.pos
        PROVE  \/ \E x \in hist'[d].said : x.pos = i /\ x.status # OK
               \/ c.list[i] \in hist'[d].down
    <3>1. CASE i = c.pos
      <4>1. [pos |-> c.pos, status |-> s] \in hist'[d].said
        BY <1>5
      <4>. QED BY <1>9, <3>1, <4>1
    <3>2. CASE i # c.pos
      <4>1. i \in 1 .. c.pos - 1
        BY <1>7, <3>2
      <4>. QED BY <1>4, <1>5, <4>1 DEF PassedOver
    <3>. QED BY <3>1, <3>2
  <2>3. c.kind \in {"READ", "BODYREAD"}
    BY <1>2, <1>3
  <2> HIDE DEF c
  <2>4. c.kind \in Traced => Down \subseteq hist'[d].down
    BY <1>1, <1>5
  <2>. QED BY <1>1, <1>4, <1>5, <1>9, <2>1, <2>2, <2>3, <2>4, AskNextInv
<1>. QED BY <1>2, <1>3, <1>8, <1>9

\* A master has answered a read of both.
LEMMA OnRead2Inv ==
    ASSUME WriteInv, CommandInv, NEW d \in Commands, NEW s \in {NoStatus, OK, NotFound},
           NEW v \in Nat, Completed(d, s, v), OnReadMaster1(d, s, v) \/ OnReadMaster2(d, s, v),
           UNCHANGED vars, s = OK => Covers(d, cctx[d].list[cctx[d].pos], v)
    PROVE  CommandInv'
<1> DEFINE c == cctx[d]
<1>1. /\ CTypeOK /\ c \in CommandCtx /\ hist[d] \in History /\ cphase[d] = "sub"
      /\ HistoryInv(d) /\ KindInv(d) /\ cresp[d] = NoCommandResponse
      /\ ListFits(c)
  BY WaitingCommand DEF Completed
<1>2. c.kind \in {"READ2", "MEMBER2"}
  BY <1>1 DEF OnReadMaster1, OnReadMaster2, CommandCtx
<1>3. Acts(d) /\ hist'[d].since = hist[d].since
  BY CompletedHistory
<1>4. \/ c.state = "MASTER1" /\ c.pos = 1
      \/ c.state = "MASTER2" /\ c.pos = 2 /\ Covers(d, c.list[1], c.version1)
  BY <1>1, <1>2 DEF KindInv, Read2Inv
<1>5. NotFound \in CommandStatus /\ NotFound # OK /\ Conflict \in CommandStatus
      /\ Conflict # OK /\ OK \in CommandStatus /\ Null \in Nat
  BY DEF CommandStatus, NotFound, OK, Conflict, Null
<1>6. ASSUME NEW e \in CommandCtx, e.kind = c.kind, e.list = c.list, e.key = c.key,
             Refuse(d, e, NotFound)
      PROVE  CommandInv'
  BY <1>1, <1>2, <1>3, <1>5, <1>6, RefuseInv DEF ListFits
<1>7. CASE OnReadMaster1(d, s, v)
  <2> DEFINE e == [c EXCEPT !.pos = 2, !.state = "MASTER2", !.version = v, !.version1 = v]
  <2>1. /\ c.state = "MASTER1"
        /\ \/ s = OK /\ Ask(d, e)
           \/ Refuse(d, c, NotFound)
    BY <1>7 DEF OnReadMaster1
  <2>2. /\ e \in CommandCtx /\ e.kind = c.kind /\ e.list = c.list /\ e.key = c.key
        /\ e.pos = 2 /\ e.state = "MASTER2" /\ e.version1 = v
    BY <1>1 DEF CommandCtx, States
  <2> HIDE DEF e
  <2>3. CASE s = OK /\ Ask(d, e)
    <3>1. Covers(d, c.list[1], v)
      BY <1>4, <2>1, <2>3
    <3>2. \A r \in hist'[d].since : ctx[r].key = e.key =>
             \A a \in acks[r] : WriteList[ctx[r].key][a.pos] = e.list[1] =>
                a.version <= e.version1
      BY <1>3, <2>2, <3>1 DEF Covers
    <3>3. ListFits(e) /\ e.kind \notin Traced
          /\ e.kind \notin {"READ", "BODYREAD", "CACHE"}
      BY <1>1, <1>2, <2>2 DEF ListFits, Traced
    <3>. QED BY <1>1, <1>3, <2>2, <2>3, <3>2, <3>3, AskInv
  <2>. QED BY <1>1, <1>6, <2>1, <2>3
<1>8. CASE OnReadMaster2(d, s, v)
  <2> DEFINE w == Version2(c, v)
             e == [c EXCEPT !.version = w]
             v1 == c.version1
             v2 == IF c.version1 = w THEN 0 ELSE w
  <2>0. w \in Nat /\ v <= w
    BY <1>1 DEF CommandCtx, Version2
  <2> HIDE DEF w
  <2>1. /\ e \in CommandCtx /\ e.kind = c.kind /\ e.list = c.list /\ e.key = c.key
        /\ e.version1 = c.version1 /\ e.state = c.state /\ e.version = w
    BY <1>1, <2>0 DEF CommandCtx
  <2>2. e.state = "MASTER2" /\ (s # OK => Refuse(d, c, NotFound))
    BY <1>8 DEF OnReadMaster2
  <2>3. s = OK => \E t \in {OK, Conflict, NotFound} : Respond(d, e, t, v1, v2, Null)
    BY <1>8, <2>1 DEF OnReadMaster2, w
  <2>4. v1 \in Nat /\ v2 \in Nat /\ c.version1 \in Nat
    BY <1>1, <2>0 DEF CommandCtx
  <2> HIDE DEF e
  <2>5. ASSUME s = OK, v2 = 0, NEW r \in hist[d].since, ctx[r].key = c.key,
               NEW a \in acks[r]
        PROVE  a.version <= v1
    <3>1. a.version \in Nat /\ a.pos \in {1, 2} /\ ctx[r].key \in Keys
      BY <1>1, <2>5 DEF WriteInv, TypeOK, Ack, Master, History, Ctx
    <3>2. WriteList[ctx[r].key][a.pos] = c.list[a.pos]
      BY <1>1, <1>2, <2>5, <3>1, MastersAreList DEF ListFits
    <3>3. a.pos = 1 => a.version <= c.version1
      BY <1>4, <2>1, <2>2, <2>5, <3>2 DEF Covers
    <3>4. a.pos = 2 => a.version <= v
      BY <1>4, <2>1, <2>2, <2>5, <3>2 DEF Covers
    <3>. QED BY <2>0, <2>4, <2>5, <3>1, <3>3, <3>4
  <2> HIDE DEF v1, v2
  <2>6. ASSUME s = OK, NEW t \in {OK, Conflict, NotFound}, Respond(d, e, t, v1, v2, Null)
        PROVE  CommandInv'
    <3>1. /\ Ended(d, "done", e) /\ cresp'[d].version = v1
          /\ cresp'[d].version2 = v2 /\ cresp'[d].status = t
      BY <1>1, <1>5, <2>1, <2>4, <2>6, RespondEnds
    <3>2. cphase'[d] = "done" /\ cctx'[d] = e
      BY <3>1 DEF Ended
    <3>3. HistoryInv(d)'
      BY <1>3, <3>2, ActsFrame DEF HistoryInv, Acts
    <3>4. v2 = 0 => \A p \in Peers : Covers(d, p, cresp[d].version)'
      BY <1>3, <2>1, <2>5, <2>6, <3>1, <3>2, ActsFrame DEF Covers
    <3>5. Read2Inv(d)'
      BY <1>1, <1>2, <2>1, <3>1, <3>2, <3>4 DEF Read2Inv, ListFits
    <3>6. KindInv(d)'
      BY <1>2, <2>1, <3>2, <3>5 DEF KindInv
    <3>. QED BY <1>3, <3>1, <3>3, <3>6, ActsInv
  <2>. QED BY <1>1, <1>6, <2>1, <2>2, <2>3, <2>6
<1>. QED BY <1>7, <1>8

\* A master has answered a cached write.
LEMMA OnCacheInv ==
    ASSUME WriteInv, CommandInv, NEW d \in Commands, NEW s \in {NoStatus, OK, NotFound},
           NEW v, Completed(d, s, v), OnCache(d, s), UNCHANGED vars
    PROVE  CommandInv'
<1> DEFINE b == cctx[d]
           c == CacheError(b, s)
<1>1. /\ CTypeOK /\ b \in CommandCtx /\ cphase[d] = "sub"
      /\ HistoryInv(d) /\ KindInv(d) /\ cresp[d] = NoCommandResponse
      /\ b.kind \in Traced => Down \subseteq hist[d].down
  BY WaitingCommand DEF Completed
<1>2. /\ c \in CommandCtx /\ c.kind = b.kind /\ c.key = b.key /\ c.list = b.list
      /\ c.pos = b.pos /\ c.state = b.state
      /\ IF s = OK THEN c.error_count = b.error_count /\ c.error_peer = b.error_peer
                    ELSE c.error_count = b.error_count + 1 /\ c.error_peer = b.pos
  <2>1. CASE s = OK
    BY <1>1, <2>1 DEF CacheError
  <2>2. CASE s # OK
    <3>1. c = [b EXCEPT !.error_count = b.error_count + 1, !.error_peer = b.pos]
      BY <2>2 DEF CacheError
    <3> HIDE DEF c
    <3>2. b.error_count + 1 \in Nat /\ b.pos \in Nat
      BY <1>1 DEF CommandCtx
    <3>. QED BY <1>1, <2>2, <3>1, <3>2 DEF CommandCtx
  <2>. QED BY <2>1, <2>2
<1> DEFINE m2 == [c EXCEPT !.pos = 2, !.state = "MASTER2"]
           dead == [c EXCEPT !.pos = 2, !.error_count = @ + 1, !.error_peer = 2]
<1>3. /\ c.kind = "CACHE"
      /\ \/ c.state = "MASTER1" /\ Ask(d, m2)
         \/ c.state = "MASTER1" /\ CacheResponse(d, dead)
         \/ c.state = "MASTER2" /\ CacheResponse(d, c)
  BY DEF OnCache
<1>4. /\ m2 \in CommandCtx /\ m2.kind = c.kind /\ m2.key = c.key /\ m2.list = c.list
      /\ m2.pos = 2 /\ m2.state = "MASTER2"
      /\ m2.error_count = c.error_count /\ m2.error_peer = c.error_peer
  <2> HIDE DEF c
  <2>. QED BY <1>2 DEF CommandCtx, States
<1>5. /\ dead \in CommandCtx /\ dead.kind = c.kind
      /\ dead.error_count = c.error_count + 1 /\ dead.error_peer = 2
  <2> HIDE DEF c
  <2>1. c.error_count + 1 \in Nat
    BY <1>2 DEF CommandCtx
  <2>. QED BY <1>2, <2>1 DEF CommandCtx
<1> HIDE DEF c, m2, dead
<1>6. /\ Acts(d) /\ hist'[d].since = hist[d].since /\ hist'[d].down = hist[d].down
      /\ Taken(d)' = IF s = OK THEN Taken(d) \cup {b.pos} ELSE Taken(d)
      /\ Down \subseteq hist'[d].down
  BY <1>1, <1>2, <1>3, CompletedHistory DEF Traced
<1>7. b.list = WriteList[b.key] /\ CacheAt(b, Taken(d))
  BY <1>1, <1>2, <1>3 DEF KindInv, CacheInv
<1>8. CASE c.state = "MASTER1" /\ Ask(d, m2)
  <2>1. CacheAt(m2, Taken(d)')
    <3> DEFINE T == Taken(d)
               U == Taken(d)'
    <3>1. T = {} /\ b.pos = 1 /\ b.error_count = 0 /\ b.error_peer = Null
      BY <1>2, <1>7, <1>8 DEF CacheAt
    <3>2. U = IF s = OK THEN {1} ELSE {}
      BY <1>6, <3>1
    <3> HIDE DEF T, U
    <3>3. CacheAt(m2, U)
      BY <1>2, <1>4, <3>1, <3>2 DEF CacheAt
    <3>. QED BY <3>3 DEF U
  <2>2. m2.list = WriteList[m2.key] /\ m2.kind = "CACHE" /\ ListFits(m2)
    BY <1>2, <1>3, <1>4, <1>7 DEF ListFits
  <2>. QED BY <1>1, <1>4, <1>6, <1>8, <2>1, <2>2, AskInv
<1>9. ASSUME NEW e \in CommandCtx, e.kind = "CACHE", CacheResponse(d, e),
             e.error_count = 0 => Taken(d)' = Master,
             e.error_count = 1 => Taken(d)' = Master \ {e.error_peer}
      PROVE  CommandInv'
  <2>1. /\ OK \in CommandStatus /\ NotFound \in CommandStatus /\ NotFound # OK
        /\ 0 \in Nat /\ Null \in Nat /\ e.error_peer \in Nat
    BY DEF CommandStatus, Null, NotFound, OK, CommandCtx
  <2>2. \/ e.error_count = 0 /\ Respond(d, e, OK, 0, 0, Null)
        \/ e.error_count = 1 /\ Respond(d, e, OK, 0, 0, e.error_peer)
        \/ Refuse(d, e, NotFound)
    BY <1>9 DEF CacheResponse
  <2>3. CASE Refuse(d, e, NotFound)
    BY <1>6, <1>9, <2>1, <2>3, RefuseInv DEF ListFits
  <2>4. ASSUME NEW f \in Nat, Respond(d, e, OK, 0, 0, f), Taken(d)' = Master \ {f}
        PROVE  CommandInv'
    <3>1. Ended(d, "done", e) /\ cresp'[d].fail = f
      BY <1>1, <2>1, <2>4, RespondEnds
    <3>2. cphase'[d] = "done" /\ cctx'[d] = e
      BY <3>1 DEF Ended
    <3>3. HistoryInv(d)'
      BY <1>6, <3>2, ActsFrame DEF HistoryInv, Acts
    <3>4. CacheInv(d)'
      BY <2>4, <3>1, <3>2 DEF CacheInv
    <3>5. KindInv(d)'
      BY <1>9, <3>2, <3>4 DEF KindInv
    <3>. QED BY <1>6, <3>1, <3>3, <3>5, ActsInv
  <2>5. Master \ {Null} = Master
    BY DEF Master, Null
  <2>. QED BY <1>9, <2>1, <2>2, <2>3, <2>4, <2>5
<1>10. CASE c.state = "MASTER1" /\ CacheResponse(d, dead)
  <2>1. /\ Taken(d) = {} /\ b.pos = 1 /\ b.error_count = 0
    BY <1>2, <1>7, <1>10 DEF CacheAt
  <2>2. c.error_count = IF s = OK THEN 0 ELSE 1
    BY <1>2, <2>1
  <2>3. dead.error_count # 0 /\ (dead.error_count = 1 => s = OK)
    BY <1>5, <2>2
  <2>4. s = OK => Taken(d)' = Master \ {2}
    BY <1>6, <2>1 DEF Master
  <2>. QED BY <1>3, <1>5, <1>9, <1>10, <2>3, <2>4
<1>11. CASE c.state = "MASTER2" /\ CacheResponse(d, c)
  <2>1. /\ b.pos = 2
        /\ \/ b.error_count = 0 /\ Taken(d) = {1}
           \/ b.error_count = 1 /\ b.error_peer = 1 /\ Taken(d) = {}
    BY <1>2, <1>7, <1>11 DEF CacheAt
  <2>2. CASE s = OK
    <3>1. Taken(d)' = Taken(d) \cup {2} /\ c.error_count = b.error_count
          /\ c.error_peer = b.error_peer
      BY <1>2, <1>6, <2>1, <2>2
    <3>2. (c.error_count = 0 => Taken(d)' = Master)
          /\ (c.error_count = 1 => Taken(d)' = Master \ {c.error_peer})
      BY <2>1, <3>1 DEF Master
    <3>. QED BY <1>2, <1>3, <1>9, <1>11, <3>2
  <2>3. CASE s # OK
    <3>1. Taken(d)' = Taken(d) /\ c.error_count = b.error_count + 1 /\ c.error_peer = 2
      BY <1>2, <1>6, <2>1, <2>3
    <3>2. c.error_count # 0 /\ (c.error_count = 1 => Taken(d)' = Master \ {c.error_peer})
      BY <2>1, <3>1 DEF Master
    <3>. QED BY <1>2, <1>3, <1>9, <1>11, <3>2
  <2>. QED BY <2>2, <2>3
<1>. QED BY <1>3, <1>8, <1>10, <1>11

\* hincrby and commands for one peer promise nothing of what is followed here.
LEMMA OnSingleInv ==
    ASSUME WriteInv, CommandInv, NEW d \in Commands, NEW s \in {NoStatus, OK, NotFound},
           NEW v, Completed(d, s, v), OnSingle(d, s), UNCHANGED vars
    PROVE  CommandInv'
<1>1. CTypeOK /\ cctx[d] \in CommandCtx
  BY WaitingCommand DEF Completed
<1>2. Acts(d)
  BY CompletedHistory
<1>3. \E t \in CommandStatus : Refuse(d, cctx[d], t)
  BY DEF OnSingle, CommandStatus
<1>4. PICK t \in CommandStatus : Refuse(d, cctx[d], t)
  BY <1>3
<1>5. Ended(d, "done", cctx[d])
  BY <1>1, <1>4, RespondEnds DEF Refuse, Null
<1>6. cphase'[d] = "done" /\ cctx'[d] = cctx[d] /\ cctx[d].kind \in {"HINCRBY", "PEER"}
  BY <1>5 DEF Ended, OnSingle
<1>7. HistoryInv(d)'
  BY <1>2, <1>6, ActsFrame DEF HistoryInv, Acts
<1>8. KindInv(d)'
  BY <1>6 DEF KindInv
<1>. QED BY <1>2, <1>5, <1>7, <1>8, ActsInv

\* A step of a command's handler.
LEMMA HandleCommandInv ==
    ASSUME WriteInv, CommandInv, NEW d \in Commands, HandleAlone(d)
    PROVE  CommandInv'
<1>1. UNCHANGED vars
  BY DEF HandleAlone
<1>2. ASSUME NEW s \in {NoStatus, OK, NotFound}, NEW v \in Nat, Completed(d, s, v),
             s = OK => s = creply[d].status /\ v = creply[d].version
      PROVE  CommandInv'
  <2>1. cphase[d] = "sub" /\ KindInv(d) /\ cctx[d] \in CommandCtx
    BY <1>2, WaitingCommand DEF Completed
  <2>2. s = OK /\ cctx[d].kind \in {"READ", "BODYREAD", "READ2", "MEMBER2"} =>
           Covers(d, cctx[d].list[cctx[d].pos], v)
    BY <1>2, <2>1 DEF KindInv, ReadInv, Read2Inv
  <2>3. OnRead(d, s, v) => cctx[d].kind \in {"READ", "BODYREAD"}
    BY <2>1 DEF OnRead, KeepVersion, CommandCtx
  <2>4. OnReadMaster1(d, s, v) \/ OnReadMaster2(d, s, v) =>
           cctx[d].kind \in {"READ2", "MEMBER2"}
    BY <2>1 DEF OnReadMaster1, OnReadMaster2, CommandCtx
  <2>. QED BY <1>1, <1>2, <2>2, <2>3, <2>4, OnReadInv, OnRead2Inv, OnCacheInv, OnSingleInv
           DEF Completed
<1>3. creply[d] \in CommandReply
  BY DEF CommandInv, CTypeOK
<1>4. NoStatus # OK
  BY DEF NoStatus, OK
<1>5. CASE creply[d] # NoReply /\ Completed(d, creply[d].status, creply[d].version)
  BY <1>2, <1>3, <1>5 DEF CommandReply
<1>6. CASE Completed(d, NoStatus, 0)
  BY <1>2, <1>4, <1>6
<1>7. CASE /\ \/ \E known \in BOOLEAN : CommandBody(d, known)
              \/ cphase[d] = "body" /\ Refuse(d, cctx[d], Closed)
           /\ UNCHANGED hist
  <2>1. cphase[d] = "body"
    BY <1>7 DEF CommandBody
  <2>2. UNCHANGED <<vars, hist>>
    BY <1>1, <1>7
  <2>. QED BY <1>7, <2>1, <2>2, CommandBodyInv
<1>. QED BY <1>5, <1>6, <1>7 DEF HandleAlone, HandleCommand

\* A peer answers a read with what it holds: all that it reported before.
LEMMA BackendAnswersInv ==
    ASSUME WriteInv, CommandInv, NEW d \in Commands, BackendAnswers(d)
    PROVE  CommandInv'
<1> DEFINE c == cctx[d]
           held0 == ver[c.list[c.pos]][c.key]
           reads == c.kind \in {"READ", "BODYREAD", "READ2", "MEMBER2"}
<1>1. /\ CTypeOK /\ c \in CommandCtx /\ cphase[d] = "sub" /\ hist[d] \in History
      /\ HistoryInv(d) /\ KindInv(d) /\ cresp[d] = NoCommandResponse
      /\ ListFits(c)
  BY WaitingCommand DEF BackendAnswers
<1>2. UNCHANGED <<vars, cphase, cctx, cresp, hist>>
  BY DEF BackendAnswers
<1>3. \E a : creply' = [creply EXCEPT ![d] = a]
               /\ \/ a = [status |-> OK, version |-> IF reads THEN held0 ELSE 0]
                  \/ a = [status |-> NotFound, version |-> 0]
  BY DEF BackendAnswers
<1>4. PICK a : creply' = [creply EXCEPT ![d] = a]
               /\ \/ a = [status |-> OK, version |-> IF reads THEN held0 ELSE 0]
                  \/ a = [status |-> NotFound, version |-> 0]
  BY <1>3
<1>5. reads => /\ held0 \in Nat
               /\ Covers(d, c.list[c.pos], held0)
  <2>1. SUFFICES ASSUME reads PROVE held0 \in Nat /\ Covers(d, c.list[c.pos], held0)
    OBVIOUS
  <2>2. c.key \in Keys /\ c.list \in Seq(Peers) /\ Len(c.list) > 1
    BY <1>1, <2>1, MastersAreList DEF CommandCtx, ListFits
  <2>3. c.pos \in DOMAIN c.list
    <3>1. CASE c.kind \in {"READ", "BODYREAD"}
      BY <1>1, <3>1 DEF KindInv, ReadInv
    <3>2. CASE c.kind \in {"READ2", "MEMBER2"}
      <4>1. c.pos \in {1, 2}
        BY <1>1, <3>2 DEF KindInv, Read2Inv
      <4>. QED BY <2>2, <4>1
    <3>. QED BY <2>1, <3>1, <3>2
  <2>4. c.list[c.pos] \in Peers
    BY <2>2, <2>3
  <2>5. ver \in [Peers -> [Keys -> Nat]]
    BY DEF WriteInv, TypeOK
  <2>6. held0 \in Nat
    BY <2>2, <2>4, <2>5
  <2>7. ASSUME NEW r \in hist[d].since, ctx[r].key = c.key, NEW b \in acks[r],
               WriteList[ctx[r].key][b.pos] = c.list[c.pos]
        PROVE  b.version <= held0
    <3>1. r \in Requests
      BY <1>1 DEF History
    <3>2. ReportedHeld(r)
      BY <3>1 DEF CommandInv
    <3>3. b.version <= ver[WriteList[ctx[r].key][b.pos]][ctx[r].key]
      BY <3>2 DEF ReportedHeld
    <3>. QED BY <2>7, <3>3
  <2>. QED BY <2>6, <2>7 DEF Covers
<1>6. a \in CommandReply /\ (reads /\ a.status = OK => a.version = held0)
  BY <1>4, <1>5 DEF CommandReply, OK, NotFound
<1>7. /\ creply'[d] = a /\ creply' \in [Commands -> CommandReply]
      /\ \A e \in Commands \ {d} : creply'[e] = creply[e]
  BY <1>1, <1>4, <1>6 DEF CTypeOK
<1>8. CTypeOK'
  BY <1>1, <1>2, <1>7 DEF CTypeOK
<1>9. ASSUME NEW r \in Requests PROVE ReportedHeld(r)'
  BY <1>2, ReportedStaysHeld DEF CommandInv
<1>10. ASSUME NEW e \in Commands, e # d PROVE HistoryInv(e)' /\ KindInv(e)'
  <2>1. Down' = Down /\ HistoryInv(e)
    BY <1>2 DEF vars, Down, CommandInv
  <2>2. creply'[e] = creply[e]
    BY <1>7, <1>10
  <2>. QED BY <1>2, <1>10, <2>1, <2>2, CommandStays DEF HistoryInv
<1>11. UNCHANGED <<ctx, acks>> /\ Answers200' = Answers200 /\ Down' = Down
  BY <1>2 DEF vars, Answers200, Down
<1>12. HistoryInv(d)'
  BY <1>1, <1>2, <1>11 DEF HistoryInv
<1>13. \A p, v : Covers(d, p, v) => Covers(d, p, v)'
  BY <1>2, <1>11 DEF Covers
<1>14. reads /\ a.status = OK => Covers(d, cctx[d].list[cctx[d].pos], creply[d].version)'
  <2> HIDE DEF held0, reads
  <2>. QED BY <1>2, <1>5, <1>6, <1>7, <1>13
<1>15. cresp' = cresp /\ cctx' = cctx /\ cphase' = cphase /\ hist' = hist
  BY <1>2
<1>16. NoCommandResponse.status # OK /\ NoCommandResponse.status # NotFound
  BY DEF NoCommandResponse, NoStatus, OK, NotFound
<1>17. c.kind \in {"READ", "BODYREAD"} => ReadInv(d)'
  <2>1. (Taken(d) = {} => Taken(d)' = {}) /\ \A n : PassedOver(d, n) => PassedOver(d, n)'
    BY <1>15 DEF Taken, PassedOver
  <2>. QED BY <1>1, <1>7, <1>14, <1>15, <1>16, <2>1 DEF KindInv, ReadInv
<1>18. c.kind \in {"READ2", "MEMBER2"} => Read2Inv(d)'
  BY <1>1, <1>7, <1>13, <1>14, <1>15, <1>16 DEF KindInv, Read2Inv
<1>19. c.kind = "CACHE" => CacheInv(d)'
  <2>1. Taken(d)' = Taken(d)
    BY <1>15 DEF Taken
  <2>. QED BY <1>1, <1>15, <1>16, <2>1 DEF KindInv, CacheInv
<1>20. KindInv(d)'
  BY <1>15, <1>17, <1>18, <1>19 DEF KindInv
<1>. QED BY <1>8, <1>9, <1>10, <1>12, <1>20 DEF CommandInv

\* A step of the writes or of their backends leaves the commands alone.
LEMMA BesideInv ==
    ASSUME WriteInv, CommandInv, [Next]_vars, UNCHANGED <<alive, cvars>>
    PROVE  CommandInv'
<1>1. UNCHANGED <<cphase, cctx, creply, cresp, hist>> /\ Down' = Down
  BY DEF cvars, Down
<1>2. CTypeOK'
  BY <1>1 DEF CommandInv, CTypeOK
<1>3. ASSUME NEW d \in Commands PROVE HistoryInv(d)' /\ KindInv(d)'
  <2>1. HistoryInv(d)
    BY DEF CommandInv
  <2>. QED BY <1>1, <2>1, CommandStays DEF HistoryInv
<1>4. ASSUME NEW r \in Requests PROVE ReportedHeld(r)'
  BY ReportedStaysHeld DEF CommandInv
<1>. QED BY <1>2, <1>3, <1>4 DEF CommandInv

\* The health checker tells the commands whom it declares down.
LEMMA CheckPeerInv ==
    ASSUME WriteInv, CommandInv, NEW p \in Peers, CheckPeerBeside(p)
    PROVE  CommandInv'
<1> DEFINE told(d) == cphase[d] \in {"body", "sub"} /\ cctx[d].kind \in Traced /\ alive[p]
           h(d) == IF told(d) THEN [hist[d] EXCEPT !.down = @ \union {p}] ELSE hist[d]
<1>1. /\ CheckPeer(p) /\ hist' = [d \in Commands |-> h(d)]
      /\ UNCHANGED <<cphase, cctx, creply, cresp>>
  BY DEF CheckPeerBeside
<1>2. [Next]_vars
  BY <1>1 DEF Next, Environment
<1>3. CTypeOK /\ alive \in [Peers -> BOOLEAN]
  BY DEF CommandInv, WriteInv, TypeOK
<1>4. Down' \subseteq IF alive[p] THEN Down \cup {p} ELSE Down
  BY <1>1, <1>3 DEF CheckPeer, Down
<1>5. ASSUME NEW d \in Commands
      PROVE  /\ h(d) \in History /\ h(d).since = hist[d].since /\ h(d).said = hist[d].said
             /\ h(d).down = IF told(d) THEN hist[d].down \cup {p} ELSE hist[d].down
  <2> HIDE DEF told
  <2>1. hist[d] \in History
    BY <1>3 DEF CTypeOK
  <2>2. CASE told(d)
    <3>1. hist[d].down \cup {p} \in SUBSET Peers
      BY <2>1 DEF History
    <3>. QED BY <2>1, <2>2, <3>1 DEF History
  <2>. QED BY <2>1, <2>2
<1>6. ASSUME NEW d \in Commands PROVE HistoryInv(d)' /\ KindInv(d)'
  <2>1. hist'[d] = h(d) /\ HistoryInv(d)
    BY <1>1 DEF CommandInv
  <2> HIDE DEF h
  <2>2. /\ hist'[d].since = hist[d].since /\ hist'[d].said = hist[d].said
        /\ hist[d].down \subseteq hist'[d].down
    BY <1>5, <2>1
  <2>3. cphase[d] \in {"body", "sub"} /\ cctx[d].kind \in Traced =>
            Down' \subseteq hist'[d].down
    BY <1>4, <1>5, <2>1 DEF HistoryInv
  <2>. QED BY <1>1, <1>2, <2>2, <2>3, CommandStays
<1>7. CTypeOK'
  <2>1. hist' \in [Commands -> History]
    <3> HIDE DEF h
    <3>. QED BY <1>1, <1>5
  <2>. QED BY <1>1, <1>3, <2>1 DEF CTypeOK
<1>8. ASSUME NEW r \in Requests PROVE ReportedHeld(r)'
  BY <1>2, ReportedStaysHeld DEF CommandInv
<1>. QED BY <1>6, <1>7, <1>8 DEF CommandInv

\* Every step keeps the invariant.
LEMMA CommandNextInv ==
    ASSUME WriteInv, CommandInv, [CNext]_allvars
    PROVE  CommandInv'
<1>0. [Next]_vars
  BY CommandStep
<1>1. ASSUME NEW r \in Requests, Arrive(r) \/ Handle(r), UNCHANGED cvars
      PROVE  CommandInv'
  <2>1. UNCHANGED alive
    BY <1>1, ArriveKeeps, HandleKeeps
  <2>. QED BY <1>0, <1>1, <2>1, BesideInv
<1>2. CASE BackendStep /\ UNCHANGED cvars
  <2>1. UNCHANGED alive
    BY <1>2 DEF BackendStep, BackendWrite, BackendRefuse, BackendBinlog, BackendDone
  <2>. QED BY <1>0, <1>2, <2>1, BesideInv
<1>3. CASE Retried \/ UNCHANGED allvars
  <2>1. UNCHANGED <<alive, cvars>>
    BY <1>3 DEF Retried, RetriedForEver, allvars, vars
  <2>. QED BY <1>0, <2>1, BesideInv
<1>4. CASE \E p \in Peers : CheckPeerBeside(p)
  BY <1>4, CheckPeerInv
<1>5. CASE \E d \in Commands : Arrives(d) \/ HandleAlone(d) \/ BackendAnswers(d)
  BY <1>5, ArrivesInv, HandleCommandInv, BackendAnswersInv
<1>. QED BY <1>1, <1>2, <1>3, <1>4, <1>5 DEF CNext, HandleBeside

\* It holds before any command has arrived.
LEMMA CommandInitInv == CInit => CommandInv
<1>1. SUFFICES ASSUME CInit PROVE CommandInv
  OBVIOUS
<1>2. PICK k \in Keys : cctx = [d \in Commands |-> CreateCtx("READ", k, ReadList[k])]
  BY <1>1 DEF CInit
<1> DEFINE c == CreateCtx("READ", k, ReadList[k])
<1>3. c \in CommandCtx /\ c.kind = "READ" /\ c.key = k /\ c.list = ReadList[k]
  BY MastersAreList, CreateCtxIs DEF AllKinds
<1> HIDE DEF c
<1> DEFINE h == [since |-> {}, said |-> {}, down |-> {}]
<1>4. h \in History /\ h.since = {} /\ h.said = {}
  BY DEF History
<1> HIDE DEF h
<1>5. NoReply \in CommandReply /\ NoCommandResponse \in CommandResponse
      /\ NoCommandResponse.status # OK /\ NoCommandResponse.status # NotFound
  BY DEF NoReply, CommandReply, NoCommandResponse, CommandResponse, CommandStatus,
     NoStatus, OK, NotFound, Null
<1>6. CTypeOK
  BY <1>1, <1>2, <1>3, <1>4, <1>5 DEF CTypeOK, CInit, Phases, c, h
<1>7. ASSUME NEW d \in Commands
      PROVE  cctx[d] = c /\ hist[d] = h /\ cphase[d] = "new" /\ cresp[d] = NoCommandResponse
  BY <1>1, <1>2 DEF CInit, c, h
<1>8. ASSUME NEW d \in Commands PROVE HistoryInv(d) /\ KindInv(d)
  BY <1>3, <1>4, <1>5, <1>7 DEF HistoryInv, KindInv, ReadInv
<1>9. ASSUME NEW r \in Requests PROVE ReportedHeld(r)
  BY <1>1 DEF CInit, Init, ReportedHeld
<1>. QED BY <1>6, <1>8, <1>9 DEF CommandInv

\* The replicated writes keep all that was proved of them beside the commands.
THEOREM CommandsLeaveWrites == CSpec => Spec
<1>1. CInit => Init
  BY DEF CInit
<1>2. [CNext]_allvars => [Next]_vars
  BY CommandStep
<1>. QED BY <1>1, <1>2, PTL DEF CSpec, Spec

\* The inductive invariant holds for any number of writes, commands, keys and
\* peers.
THEOREM CommandInvariant == CSpec => [](WriteInv /\ CommandInv)
<1>1. CInit => CommandInv
  BY CommandInitInv
<1>2. WriteInv /\ CommandInv /\ [CNext]_allvars => CommandInv'
  BY CommandNextInv
<1>3. CSpec => []WriteInv
  BY CommandsLeaveWrites, WriteInvariant, PTL
<1>. QED BY <1>1, <1>2, <1>3, PTL DEF CSpec

-----------------------------------------------------------------------------
(* The safety properties that the runs check on small instances.           *)

\* A write that was answered 200 is on every master its Sync header does not name.
LEMMA AckedUnlessNamed ==
    ASSUME WriteInv, NEW r \in Requests, resp[r].status = OK, NEW i \in Master
    PROVE  resp[r].sync = i \/ \E a \in acks[r] : a.pos = i
<1>1. \/ resp[r].sync = Null /\ Acked(r) = Master
      \/ InRepair(ctx[r], acks[r]) /\ resp[r].sync = ctx[r].error_peer
  BY DEF WriteInv, ResponseInv
<1>2. i \in Acked(r) \/ resp[r].sync = i
  BY <1>1, InRepairAcked
<1>. QED BY <1>2 DEF Acked

\* A read is never older than what was answered before it arrived, whichever
\* peer it failed over to.
THEOREM ReadSeesAckedAlways == CSpec => []ReadSeesAcked
<1>1. ASSUME WriteInv, CommandInv PROVE ReadSeesAcked
  <2>1. ASSUME NEW d \in Commands, Reading(d), NEW r \in hist[d].since, NEW i \in Master,
               ctx[r].key = cctx[d].key, WriteList[ctx[r].key][i] \in Source(d)
        PROVE  \/ resp[r].sync = i
               \/ \E a \in acks[r] : a.pos = i /\ a.version <= cresp[d].version
    <3>1. HistoryInv(d) /\ KindInv(d)
      BY <1>1 DEF CommandInv
    <3>2. r \in Requests /\ resp[r].status = OK
      BY <3>1 DEF HistoryInv, Answers200
    <3>3. Covers(d, WriteList[ctx[r].key][i], cresp[d].version)
      BY <2>1, <3>1 DEF Reading, KindInv, ReadInv
    <3>4. \A a \in acks[r] : a.pos = i => a.version <= cresp[d].version
      BY <2>1, <3>3 DEF Covers
    <3>. QED BY <1>1, <3>2, <3>4, AckedUnlessNamed
  <2>. QED BY <2>1 DEF ReadSeesAcked
<1>2. WriteInv /\ CommandInv => ReadSeesAcked
  BY <1>1
<1>. QED BY <1>2, CommandInvariant, PTL

\* A 404 comes after every peer of the list refused, failed or was down.
THEOREM NotFoundAfterAllAlways == CSpec => []NotFoundAfterAll
<1>1. ASSUME CommandInv PROVE NotFoundAfterAll
  <2>1. ASSUME NEW d \in Commands, cctx[d].kind \in {"READ", "BODYREAD"},
               cresp[d].status = NotFound, hist[d].said # {}, NEW i \in DOMAIN cctx[d].list
        PROVE  \/ \E x \in hist[d].said : x.pos = i /\ x.status # OK
               \/ cctx[d].list[i] \in hist[d].down
    <3>1. PassedOver(d, Len(cctx[d].list))
      BY <1>1, <2>1 DEF CommandInv, KindInv, ReadInv
    <3>2. cctx[d].list \in Seq(Peers)
      BY <1>1 DEF CommandInv, CTypeOK, CommandCtx
    <3>3. i \in 1 .. Len(cctx[d].list)
      BY <2>1, <3>2
    <3>. QED BY <3>1, <3>3 DEF PassedOver
  <2>. QED BY <2>1 DEF NotFoundAfterAll
<1>2. CommandInv => NotFoundAfterAll
  BY <1>1
<1>. QED BY <1>2, CommandInvariant, PTL

\* One version in the answer to a read of both covers both masters.
THEOREM OneVersionMeansBothAlways == CSpec => []OneVersionMeansBoth
<1>1. ASSUME WriteInv, CommandInv PROVE OneVersionMeansBoth
  <2>1. ASSUME NEW d \in Commands, cctx[d].kind \in {"READ2", "MEMBER2"},
               cresp[d].status = OK, cresp[d].version2 = 0, NEW r \in hist[d].since,
               ctx[r].key = cctx[d].key, NEW a \in acks[r]
        PROVE  a.version <= cresp[d].version
    <3>1. HistoryInv(d) /\ Read2Inv(d)
      BY <1>1, <2>1 DEF CommandInv, KindInv
    <3>2. r \in Requests
      BY <3>1 DEF HistoryInv, Answers200
    <3>3. a.pos \in Master /\ ctx[r].key \in Keys
      BY <1>1, <3>2 DEF WriteInv, TypeOK, Ack, Ctx
    <3>4. WriteList[ctx[r].key][a.pos] \in Peers
      BY <3>3, WriteListAssumption
    <3>. QED BY <2>1, <3>1, <3>4 DEF Read2Inv, Covers
  <2>. QED BY <2>1 DEF OneVersionMeansBoth
<1>2. WriteInv /\ CommandInv => OneVersionMeansBoth
  BY <1>1
<1>. QED BY <1>2, CommandInvariant, PTL

\* What a 200 says of the masters is so, for cached writes and for versions.
THEOREM AnswersTrueAlways == CSpec => []AnswersTrue
<1>1. ASSUME CommandInv PROVE CacheAnswerTrue
  BY <1>1 DEF CommandInv, KindInv, CacheInv, CacheAnswerTrue, Taken
<1>2. CommandInv => CacheAnswerTrue
  BY <1>1
<1>. QED BY <1>2, CommandInvariant, CommandsLeaveWrites, AnswerVersionIsMaxAlways, PTL
         DEF AnswersTrue
=============================================================================
