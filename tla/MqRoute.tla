------------------------------ MODULE MqRoute ------------------------------
(***************************************************************************)
(* How a hustmqha worker finds the hosts a request goes to: put by round   *)
(* robin or by hash (hustmq_ha_put_handler.c), get (hustmq_ha_get_handler  *)
(* .c), subscribe, ack, and the requests that go to every host             *)
(* (hustmq_ha_handler_base: lock, purge, timeout, max; and the statistics  *)
(* on demand, hustmq_ha_autost_handler.c, and the list of workers,         *)
(* hustmq_ha_worker_handler.c).  A handler asks one host, and is called    *)
(* again with what it said.  The statistics are those of MqStat, with the  *)
(* workers of MqWorkers;                                                   *)
(* the number kept of an item stands here for the sum of                   *)
(* hustmq_ha_pre_get_check, the messages ready or unacked.  A server of    *)
(* the upstream is named by its address, so that the name of the directive *)
(* (the keys of the peer dictionary) and that of the connection agree.     *)
(***************************************************************************)
EXTENDS MqWorkers

CONSTANTS
    Requests,   \* what keeps a request: its connection
    HostList,   \* the hosts in the upstream's order
    Other       \* the name of a queue no host has

ASSUME RouteAssumption ==
    /\ IsFiniteSet(Requests)
    /\ HostList \in Seq(Hosts) /\ Len(HostList) > 0
    /\ Range(HostList) = Hosts /\ Len(HostList) = Cardinality(Hosts)
    /\ Other \notin Queues

VARIABLES
    ref,        \* queue_dict.dict.ref: did the last c_dict_get find its queue?
    queue_hash, \* conf->queue_hash
    about,      \* are the requests about queues or about workers?
    req         \* [Requests -> context of the request]

routeVars == <<statVars, worker_dict, ref, queue_hash, about, req>>

Names == Queues \cup {Other}
Kinds == {"put", "hash_put", "get", "loop", "max", "autost", "worker", "sub", "ack"}
Pcs == {"new", "body", "asking", "done"}
Statuses == {"none", "ok", "not_found", "closed"}
Null == 0

\* hustmq_ha_put_ctx_t, hustmq_ha_hash_put_ctx_t, hustmq_ha_get_ctx_t,
\* hustmq_ha_sub_ctx_t, hustmq_ha_loop_ctx_t, hustmq_ha_autost_ctx_t,
\* hustmq_ha_worker_ctx_t: the list the request goes through, its place there (Null: nginx chooses the host),
\* the place of the hash peer, the hosts tried, whether one said 200, the
\* statistics or workers collected, and the answer.  No guard reads the auxiliary fields:
\* the places asked, those of them that said 200, the hosts that were found
\* unfit at some moment, and the list of workers that was sent.
Ctx == [kind : Kinds, queue : Names, pc : Pcs, list : Seq(Hosts), pos : Nat, hash : Nat,
        count : Nat, result : BOOLEAN, reports : UNION {[hosts -> Report] : hosts \in SUBSET Hosts},
        arrays : Seq(WorkerArray), status : Statuses, listing : UNION {[ws -> Times] : ws \in SUBSET Workers},
        asked : Seq(Nat), oks : SUBSET Nat, unfit : SUBSET Hosts]
NewCtx(kind, q, list) ==
    [kind |-> kind, queue |-> q, pc |-> "new", list |-> list, pos |-> Null, hash |-> Null,
     count |-> 0, result |-> FALSE, reports |-> <<>>, arrays |-> <<>>, status |-> "none", listing |-> <<>>,
     asked |-> <<>>, oks |-> {}, unfit |-> {}]

-----------------------------------------------------------------------------
(* The tables of hosts that a worker builds from the peers of the upstream *)
(* when it reads its configuration.                                        *)

\* g_hash_table, and what ngx_http_init_peer_list links: peers in their order.
HashTable == HostList

\* g_peer_dict by the servers' names; the last of a name is kept.
PeerDict == [h \in Range(HostList) |-> Max({p \in DOMAIN HostList : HostList[p] = h})]

\* The number that stands for a host in the header of a message and in its ack.
EncodeAckPeer(h) == Min({i \in DOMAIN HashTable : HashTable[i] = HostList[PeerDict[h]]}) - 1

\* Faulty variant: a number counts from one.
DecodeFromOne(n) == IF n > Len(HostList) - 1 \/ n = 0 THEN Null ELSE n

\* A text that is no number counts as 0.
DecodeAckPeer(n) == IF n > Len(HostList) - 1 THEN Null ELSE n + 1

-----------------------------------------------------------------------------

\* c_dict_get on the dictionary of queues leaves its result in dict.ref.
LookUp(q) == ref' = (q \in DOMAIN dict)
LookUpIfRef(q) == ref' = (ref /\ q \in DOMAIN dict)

\* Faulty variant: the search starts one host too far.
NextPeerSkipsOne(list, i, fit) ==
    LET places == {j \in i + 2 .. Len(list) : list[j] \in fit}
    IN  IF places = {} THEN Null ELSE Min(places)

\* ngx_http_first_peer, ngx_http_next_peer, __next_peer, __get_next_peer and
\* their like: the first place after i whose host is fit.
NextPeer(list, i, fit) ==
    LET places == {j \in i + 1 .. Len(list) : list[j] \in fit}
    IN  IF places = {} THEN Null ELSE Min(places)

\* __check_peer of get: an item of the host, valid or not, with messages.
Holding(q) == IF q \in DOMAIN dict THEN {h \in DOMAIN dict[q] : dict[q][h].ready > 0} ELSE {}

\* Without a reference every living host will do.
FitForGet(q, alive) == IF ref THEN alive \cap Holding(q) ELSE alive

\* The handler ends: it asks the host at place p, waits for the body, or
\* answers.  fit are the hosts it found fit.
Ask(c, x, p, fit) ==
    req' = [req EXCEPT ![c] = [x EXCEPT !.pc = "asking", !.pos = p, !.asked = Append(@, p),
                                        !.unfit = @ \cup (Hosts \ fit)]]

WaitBody(c, x, fit) ==
    req' = [req EXCEPT ![c] = [x EXCEPT !.pc = "body", !.unfit = @ \cup (Hosts \ fit)]]

Reply(c, x, s, fit) ==
    req' = [req EXCEPT ![c] = [x EXCEPT !.pc = "done", !.status = s,
                                        !.unfit = @ \cup (Hosts \ fit)]]

\* The next fit host is asked, or the request is answered with s.
AskNext(c, x, i, fit, s) ==
    LET p == NextPeer(x.list, i, fit) IN
    \/ p # Null /\ Ask(c, x, p, fit)
    \/ p = Null /\ Reply(c, x, s, fit)

-----------------------------------------------------------------------------
(* A request arrives.  alive are the hosts the health check takes for      *)
(* living at that moment.                                                  *)

\* hustmq_ha_put_queue_item_check refuses a queue that is locked or full on
\* the hosts; locks and limits are not kept, so it may refuse any it knows.
PutRefused(c, x) ==
    /\ ref /\ Merged(x.queue)
    /\ LookUpIfRef(x.queue)
    /\ Reply(c, x, "not_found", Hosts)

\* __first_put_handler
FirstPut(c, q) ==
    LET x == NewCtx("put", q, HostList) IN
    /\ ~queue_hash
    /\ \/ PutRefused(c, x)
       \/ LookUpIfRef(q) /\ WaitBody(c, x, Hosts)

\* __first_hash_put: the hash peer, or the first other one that lives.
FirstHashPut(c, q, alive) ==
    \E hash \in DOMAIN HashTable :
        LET x == [NewCtx("hash_put", q, HostList) EXCEPT !.hash = hash]
            p == IF HostList[hash] \in alive THEN hash ELSE NextPeer(HostList, 0, alive)
        IN  /\ queue_hash
            /\ \/ PutRefused(c, x)
               \/ LookUpIfRef(q) /\ WaitBody(c, [x EXCEPT !.pos = p], alive)

\* __first_get_handler
FirstGet(c, q, alive) ==
    LET x == NewCtx("get", q, HostList)
        offered == Merged(q) /\ ReadySum(q) > 0
    IN  \/ ref /\ ~offered /\ LookUp(q) /\ Reply(c, x, "not_found", Hosts)
        \/ /\ ref => offered
           /\ UNCHANGED ref
           /\ AskNext(c, x, 0, FitForGet(q, alive), "closed")

\* __first_handler after its checker, and __check_max_request, which refuses a
\* queue that is unknown or locked.
FirstLoop(c, kind, q, alive) ==
    LET x == NewCtx(kind, q, HostList) IN
    /\ kind \in {"loop", "max"}
    /\ \/ \* an argument is refused, or the queue is
          /\ UNCHANGED ref
          /\ Reply(c, x, "closed", Hosts)
       \/ ref /\ q \notin DOMAIN dict /\ LookUp(q) /\ Reply(c, x, "closed", Hosts)
       \/ /\ ref => q \in DOMAIN dict /\ (kind = "max" => Merged(q))
          /\ UNCHANGED ref
          /\ AskNext(c, x, 0, alive, "closed")

\* hustmq_ha_autost_handler and hustmq_ha_worker_handler, the first time.
FirstAutost(c, q, alive) ==
    /\ UNCHANGED ref
    /\ AskNext(c, NewCtx("autost", q, HostList), 0, alive, "closed")

FirstWorker(c, alive) ==
    /\ UNCHANGED ref
    /\ AskNext(c, NewCtx("worker", Other, HostList), 0, alive, "closed")

\* The lists hustmq_ha_build_sub_peer_list may build: the hosts of the queue
\* that hold the message index, by hustmq_ha_idx_check (MqIndex), in the order
\* of the dictionary; indexes are not kept, so any of the hosts may.
SubPeerLists(q) == UNION {SetToSeqs(hosts) : hosts \in SUBSET DOMAIN dict[q]}

\* __first_sub_handler
FirstSub(c, q, alive) ==
    /\ LookUp(q)
    /\ \/ q \notin DOMAIN dict /\ Reply(c, NewCtx("sub", q, <<>>), "closed", Hosts)
       \/ /\ q \in DOMAIN dict
          /\ \E list \in SubPeerLists(q) :
               AskNext(c, NewCtx("sub", q, list), 0, alive, "closed")

\* hustmq_ha_ack_handler: the client names the host with the number that came
\* with the message (`hash' keeps the place of that host), or with another one,
\* or not at all.
FirstAck(c, q) ==
    LET x == NewCtx("ack", q, HostList)
        asked(y, p) == \/ p = Null /\ Reply(c, y, "closed", Hosts)
                       \/ p # Null /\ Ask(c, y, p, Hosts)
    IN  /\ UNCHANGED ref
        /\ \/ Reply(c, x, "closed", Hosts)
           \/ \E n \in 0 .. Len(HostList) : asked(x, DecodeAckPeer(n))
           \/ \E h \in Hosts : asked([x EXCEPT !.hash = PeerDict[h]], DecodeAckPeer(EncodeAckPeer(h)))

Arrive(c, q) ==
    /\ req[c].pc = "new" /\ about = "queues"
    /\ \/ FirstPut(c, q)
       \/ FirstAck(c, q)
       \/ \E alive \in SUBSET Hosts :
            \/ FirstHashPut(c, q, alive)
            \/ FirstGet(c, q, alive)
            \/ \E kind \in Kinds : FirstLoop(c, kind, q, alive)
            \/ FirstSub(c, q, alive)
            \/ FirstAutost(c, q, alive)
    /\ UNCHANGED <<statVars, worker_dict, queue_hash, about>>

ArriveForWorkers(c) ==
    /\ req[c].pc = "new" /\ about = "workers"
    /\ \E alive \in SUBSET Hosts : FirstWorker(c, alive)
    /\ UNCHANGED <<statVars, worker_dict, queue_hash, about>>

-----------------------------------------------------------------------------
(* The body is there, or the host that was asked has answered or failed.   *)

\* __post_body_handler, __on_body_received: the host chosen before the body
\* came is asked, whatever has become of it.
Body(c) ==
    /\ req[c].pc = "body"
    /\ \/ Ask(c, req[c], req[c].pos, Hosts)
       \/ Reply(c, req[c], "closed", Hosts)     \* the body does not come
    /\ UNCHANGED <<statVars, worker_dict, ref, queue_hash, about>>

\* __put_by_round_robin: nginx chooses again, as often as there are hosts.
OnPut(c, x, ok) ==
    /\ x.kind = "put"
    /\ \/ ok /\ Reply(c, x, "ok", Hosts)
       \/ /\ ~ok /\ x.count + 1 < Len(HostList)
          /\ Ask(c, [x EXCEPT !.count = @ + 1], Null, Hosts)
       \/ /\ ~ok /\ x.count + 1 >= Len(HostList)
          /\ Reply(c, x, "closed", Hosts)
    /\ UNCHANGED ref

\* __put_by_queue_hash: nothing comes after a host that nginx chose.
OnHashPut(c, x, ok, alive) ==
    /\ x.kind = "hash_put"
    /\ \/ ok /\ Reply(c, x, "ok", Hosts)
       \/ ~ok /\ x.pos = Null /\ Reply(c, x, "closed", Hosts)
       \/ /\ ~ok /\ x.pos # Null
          /\ AskNext(c, x, x.pos, alive \ {HostList[x.hash]}, "closed")
    /\ UNCHANGED ref

\* hustmq_ha_get_handler: a message without its token is answered 404.  Each
\* host after the current one is looked up while there is a reference.
OnGet(c, x, ok, alive) ==
    /\ x.kind = "get"
    /\ \/ ok /\ UNCHANGED ref /\ \E s \in {"ok", "not_found"} : Reply(c, x, s, Hosts)
       \/ /\ ~ok
          /\ IF x.pos < Len(x.list) THEN LookUpIfRef(x.queue) ELSE UNCHANGED ref
          /\ AskNext(c, x, x.pos, FitForGet(x.queue, alive), "closed")

\* Faulty variant: the last host's word is the answer.
LastResult(x, ok) == ok

\* hustmq_ha_post_subrequest_handler
Result(x, ok) == x.result \/ ok

\* hustmq_ha_handler_base: every host that lives when its turn comes is asked.
OnLoop(c, x, ok, alive) ==
    LET y == [x EXCEPT !.result = Result(x, ok)] IN
    /\ x.kind \in {"loop", "max"}
    /\ AskNext(c, y, x.pos, alive, IF y.result THEN "ok" ELSE "closed")
    /\ UNCHANGED ref

\* __merge_backend_stats looks up every queue it keeps, brings or cleans out.
Merges(reports) ==
    /\ MergeOf(reports)
    /\ ref' = (ref \/ dict # <<>> \/ \E h \in DOMAIN reports : reports[h] # <<>>)

\* post_autost_subrequest_handler: what the host said, if it can be read.
Collected(x) ==
    {x} \cup {[x EXCEPT !.reports = With(@, HostList[x.pos], report)] : report \in Report}

\* hustmq_ha_autost_handler: 200 if all hosts are in; what there is is merged.
OnAutost(c, x, ok, alive) ==
    /\ x.kind = "autost"
    /\ \E y \in IF ok THEN Collected(x) ELSE {x} :
          LET over == NextPeer(y.list, y.pos, alive) = Null IN
          /\ AskNext(c, y, y.pos, alive,
                     IF Cardinality(DOMAIN y.reports) = Len(HostList) THEN "ok" ELSE "not_found")
          /\ \/ over /\ y.reports # <<>> /\ Merges(y.reports)
             \/ (~over \/ y.reports = <<>>) /\ UNCHANGED <<statVars, ref>>

\* post_worker_subrequest_handler
Gathered(x) == {x} \cup {[x EXCEPT !.arrays = Append(@, array)] : array \in WorkerArray}

\* hustmq_ha_worker_handler: the list is what the hosts said that answered; with
\* none of them there is none.
OnWorker(c, x, ok, alive) ==
    /\ x.kind = "worker"
    /\ \E y \in IF ok THEN Gathered(x) ELSE {x} :
          LET over == NextPeer(y.list, y.pos, alive) = Null IN
          \/ ~over /\ AskNext(c, y, y.pos, alive, "closed") /\ UNCHANGED worker_dict
          \/ over /\ y.arrays = <<>> /\ Reply(c, y, "not_found", alive) /\ UNCHANGED worker_dict
          \/ /\ over /\ y.arrays # <<>>
             /\ UpdateWorkers(y.arrays)
             /\ \E listing \in Listings(worker_dict') :
                   Reply(c, [y EXCEPT !.listing = listing], "ok", alive)
    /\ UNCHANGED ref

\* hustmq_ha_subscribe_handler
OnSub(c, x, ok, alive) ==
    /\ x.kind = "sub"
    /\ \/ ok /\ Reply(c, x, "ok", Hosts)
       \/ ~ok /\ AskNext(c, x, x.pos, alive, "not_found")
    /\ UNCHANGED ref

\* hustmq_ha_ack_handler passes the host's status on.
OnAck(c, x, ok) ==
    /\ x.kind = "ack"
    /\ Reply(c, x, IF ok THEN "ok" ELSE "not_found", Hosts)
    /\ UNCHANGED ref

Complete(c) ==
    /\ req[c].pc = "asking"
    /\ \E ok \in BOOLEAN, alive \in SUBSET Hosts :
        LET x == [req[c] EXCEPT !.oks = @ \cup {i \in {Len(req[c].asked)} : ok}]
        IN  \/ /\ \/ OnPut(c, x, ok) \/ OnHashPut(c, x, ok, alive) \/ OnGet(c, x, ok, alive)
                  \/ OnLoop(c, x, ok, alive) \/ OnSub(c, x, ok, alive) \/ OnAck(c, x, ok)
               /\ UNCHANGED <<statVars, worker_dict>>
            \/ OnAutost(c, x, ok, alive) /\ UNCHANGED worker_dict
            \/ OnWorker(c, x, ok, alive) /\ UNCHANGED statVars
    /\ UNCHANGED <<queue_hash, about>>

-----------------------------------------------------------------------------
(* What else looks up or changes the dictionary.                           *)

\* stat, publish, and the activation of a long poll look a queue up.
LookUpElsewhere(q) ==
    /\ about = "queues" /\ LookUp(q)
    /\ UNCHANGED <<statVars, worker_dict, queue_hash, about, req>>

\* A round of fetches ends (MqFetchStat).
MergeLooksUp ==
    /\ about = "queues"
    /\ \E reports \in Answered : Merges(reports)
    /\ UNCHANGED <<worker_dict, queue_hash, about, req>>

\* A client that has its answer sends another request.
Leaves(c) ==
    /\ req[c].pc = "done"
    /\ \E q \in Queues : req' = [req EXCEPT ![c] = NewCtx("put", q, HostList)]
    /\ UNCHANGED <<statVars, worker_dict, ref, queue_hash, about>>

\* Requests about workers share nothing with the others: a behaviour has one or
\* the other.
RouteInit ==
    /\ StatInit
    /\ worker_dict = <<>>
    /\ about \in {"queues", "workers"}
    /\ ref = FALSE
    /\ queue_hash \in IF about = "queues" THEN BOOLEAN ELSE {FALSE}
    /\ \E q \in Queues : req = [c \in Requests |-> NewCtx("put", q, HostList)]

RouteNext ==
    \/ \E c \in Requests, q \in Names : Arrive(c, q)
    \/ \E c \in Requests : ArriveForWorkers(c) \/ Body(c) \/ Complete(c) \/ Leaves(c)
    \/ \E q \in Names : LookUpElsewhere(q)
    \/ MergeLooksUp

RouteSpec == RouteInit /\ [][RouteNext]_routeVars
-----------------------------------------------------------------------------

Walks(x) == x.kind \in {"hash_put", "get", "sub"} \cup {"loop", "max", "autost", "worker"}
ForAll(x) == x.kind \in {"loop", "max", "autost", "worker"}
Over(c) == req[c].pc = "done" /\ req[c].asked # <<>>

\* A request that goes through the hosts gives up, and one that is for all of
\* them ends, only when every host of its list was asked or was unfit at some
\* moment since the request came, however health, the statistics and the
\* reference changed meanwhile.  A put that began at its hash peer never looks
\* at the hosts before it.
GivesUpLast ==
    \A c \in Requests :
        LET x == req[c] IN
        (Over(c) /\ Walks(x) /\ x.asked[1] # Null
            /\ (x.oks = {} \/ ForAll(x))) =>
        \A j \in DOMAIN x.list :
            \/ j \in Range(x.asked)
            \/ x.list[j] \in x.unfit
            \/ x.kind = "hash_put" /\ x.asked[1] = x.hash /\ j < x.hash

\* The workers some host told of in this request, and when they were seen last.
Told(x) ==
    LET entries == UNION {Range(a) : a \in Range(x.arrays)}
    IN  [w \in {e.worker : e \in entries} |-> Max({e.time : e \in {d \in entries : d.worker = w}})]

\* The list of workers has those some host told of in this very request, however
\* the dictionary was filled and cleaned before and meanwhile; and all of them,
\* each with the latest time, if they are no more than the list may have.
WorkersTold(x) ==
    x.kind = "worker" /\ x.status = "ok" =>
        /\ \A w \in DOMAIN x.listing : w \in DOMAIN Told(x) /\ x.listing[w] <= Told(x)[w]
        /\ Cardinality(DOMAIN Told(x)) <= MaxWorkers => x.listing = Told(x)

\* The answer is what the hosts said: no host is asked twice by a request that
\* walks the list (a put that was left to nginx may meet the same host again:
\* __put_by_round_robin); only a request for all hosts goes on after a 200; and
\* 200 is answered exactly if a host said it, save for a message that came without
\* its token, and for statistics on demand, which are 200 if all hosts said it and
\* were understood.  An ack goes to the host its message came from, and WorkersTold.
AnswerTellsTrue ==
    \A c \in Requests : Over(c) =>
        LET x == req[c] IN
        /\ Len(x.asked) <= Len(HostList)
        /\ Walks(x) => IsInjective(x.asked)
        /\ ~ForAll(x) => x.oks \subseteq {Len(x.asked)}
        /\ x.status = "ok" => x.oks # {}
        /\ x.oks # {} /\ x.kind \notin {"get", "autost", "worker"} => x.status = "ok"
        /\ x.kind = "autost" /\ x.status = "ok" => x.oks = DOMAIN HostList
        /\ x.kind = "ack" /\ x.hash # Null => x.asked = <<x.hash>>
        /\ WorkersTold(x)
=============================================================================
