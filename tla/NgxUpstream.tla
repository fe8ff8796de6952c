----------------------------- MODULE NgxUpstream ----------------------------
(***************************************************************************)
(* What hustngx adds to nginx's upstream requests, in one worker process:  *)
(* the patched round robin (RoundRobin), the selector by which a handler   *)
(* names the peer of its subrequest (ngx_http_peer_selector_module), and   *)
(* fetch, a client with connection objects and a cache of idle connections *)
(* of its own (ngx_http_fetch*.c).                                         *)
(*                                                                         *)
(* A request is "plain" (the round robin chooses), "chosen" (the selector) *)
(* or a fetch: "named" if its caller hands a peer of the table with the    *)
(* address (hustmqha's statistics), "fetch" if only an address (hustdbha's *)
(* sync process).  The first two go through nginx's keepalive module, as   *)
(* every sample configuration has it.  That module, ngx_http_upstream_next *)
(* and the sockets are modelled from their use here.  A worker runs one    *)
(* handler at a time: each action is a handler.                            *)
(***************************************************************************)
EXTENDS RoundRobin

CONSTANTS
    Requests,    \* requests under way at a time
    Sockets,     \* identifiers of open connections
    Objects,     \* fetch's connection objects (connection_cache_size)
    Cases,       \* tables of upstreams with the kinds of their requests
    CacheSize,   \* keepalive of either cache of idle connections
    Answers,     \* what a server may answer
    MaxStarts,   \* bound: requests in all
    MaxLeaks,    \* bound: allocations that fail in a fetch
    MaxTicks     \* bound: the clock

ASSUME RequestsAssumption == IsFiniteSet(Requests)

\* A table is what the configuration makes of its servers.
ASSUME CasesAssumption == \A c \in Cases : c.table \in Seq(NewPeers) \ {<<>>}

ASSUME SizesAssumption == CacheSize \in Nat \ {0} /\ MaxStarts \in Nat /\ MaxTicks \in Nat

\* worker_connections: one for each request and for what either cache keeps.
ASSUME SocketsAssumption ==
    /\ IsFiniteSet(Sockets) /\ 0 \notin Sockets
    /\ Cardinality(Sockets) >= Cardinality(Requests) + 2 * CacheSize

ASSUME ObjectsAssumption == IsFiniteSet(Objects) /\ 0 \notin Objects

VARIABLES
    peers,    \* the table of the upstream
    kinds,    \* the kinds of requests in this configuration
    req,      \* the requests: ngx_peer_connection_t and rr_peer_data_t
    sock,     \* the connections: to which peer, and whether the peer closed it
    keep,     \* nginx's cache of idle connections, the latest first
    g_cache,  \* fetch's
    free_obj, \* fetch's free connection objects, g_free_conn
    pools,    \* objects whose pools fetch is to destroy
    alive,    \* objects whose pools exist
    now,      \* the clock
    hist      \* counts for the bounds; when a resting peer was tried; the
              \* connections to a peer that named fetches left in the cache

vars == <<peers, kinds, req, sock, keep, g_cache, free_obj, pools, alive, now, hist>>

None == 0

Idle == [kind |-> "none", step |-> "idle", tries |-> 0, tried |-> {}, backup |-> FALSE,
         current |-> 0, conn |-> None, cached |-> FALSE, obj |-> None]

Fetches == {"fetch", "named"}

Open(s) == sock[s].peer # 0
NewSocket == CHOOSE s \in Sockets : ~Open(s)
Closed == [peer |-> 0, eof |-> FALSE]

----------------------------------------------------------------------------
(* Answers                                                                 *)

\* ngx_http_fetch_decode: an answer without a status line is HTTP/0.9; before
\* HTTP/1.1 the connection closes.
ConnectionClose(a) == a.version \in {"0.9", "1.0"} \/ a.close

\* A chunked answer has no length.
Length(a) == IF a.chunked THEN "unknown" ELSE a.length

\* The filters of fetch keep a connection when exactly the announced body has
\* arrived: no less, no more, and not when no length was announced.
Keepalive(a) == ~ConnectionClose(a) /\ (Length(a) = "none" \/ (Length(a) = "known" /\ a.arrived = "all"))

----------------------------------------------------------------------------
(* The caches of idle connections                                          *)

\* The first idle connection to the address, or None.
Reusable(cache, i) ==
    LET found == {n \in DOMAIN cache : sock[cache[n]].peer = i}
    IN  IF found = {} THEN None ELSE cache[Min(found)]

Without(cache, s) == RemoveFirst(cache, s)

\* A connection goes to the head; for want of a free item the last is closed.
Evicted(cache) == IF Len(cache) < CacheSize THEN {} ELSE {Last(cache)}
Stored(cache, s) == <<s>> \o IF Len(cache) < CacheSize THEN cache ELSE Front(cache)

----------------------------------------------------------------------------
(* Getting a peer                                                          *)

\* The connection of a request that has its peer: an idle one or a new one.
\* Every get but the round robin's leaves pc->cached as the last try set it.
Connect(r, rq, cache) ==
    LET s == Reusable(cache, rq.current)
        c == IF s # None THEN s ELSE NewSocket
    IN  /\ req' = [req EXCEPT ![r] =
                    [rq EXCEPT !.step = "waiting", !.conn = c,
                               !.cached = @ \/ s # None]]
        /\ sock' = [sock EXCEPT ![c].peer = rq.current]

Probed(i) == peers[i].max_fails > 0 /\ peers[i].fails >= peers[i].max_fails

\* nginx ends the request with 502 when nobody is left to ask.
Answered(r) == req' = [req EXCEPT ![r] = Idle]

GetPlain(r) ==
    LET rq == req[r]
        next(got) == [rq EXCEPT !.backup = got.backup, !.tried = got.tried,
                                !.current = got.peer, !.cached = FALSE]
    IN  /\ rq.kind = "plain" /\ rq.step = "get"
        /\ \E got \in {GetRoundRobinPeer(peers, rq.backup, rq.tried, now)} :
             /\ peers' = got.table
             /\ IF got.peer = 0
                THEN Answered(r) /\ UNCHANGED <<sock, keep>>
                ELSE /\ Connect(r, next(got), keep)
                     /\ keep' = Without(keep, Reusable(keep, got.peer))
             /\ hist' = IF got.peer = 0 \/ ~Probed(got.peer) \/ Single(peers) THEN hist
                        ELSE [hist EXCEPT !.probe[got.peer] = now]
        /\ UNCHANGED <<kinds, g_cache, free_obj, pools, alive, now>>

\* ngx_http_peer_selector_module's __get_peer, under nginx's keepalive.
GetChosen(r) ==
    LET rq == req[r] IN
    /\ rq.kind = "chosen" /\ rq.step = "get"
    /\ peers' = Connected(peers, rq.current)
    /\ Connect(r, rq, keep)
    /\ keep' = Without(keep, Reusable(keep, rq.current))
    /\ UNCHANGED <<kinds, g_cache, free_obj, pools, alive, now, hist>>

\* fetch's __get_peer.  The peer that the caller named came with the address
\* (an ngx_addr_t has the size of the whole ngx_http_fetch_addr_t) and counts it.
GetFetch(r) ==
    LET rq == req[r] IN
    /\ rq.kind \in Fetches /\ rq.step = "get"
    /\ peers' = IF rq.kind = "named" THEN Connected(peers, rq.current) ELSE peers
    /\ Connect(r, rq, g_cache)
    /\ g_cache' = Without(g_cache, Reusable(g_cache, rq.current))
    /\ UNCHANGED <<kinds, keep, free_obj, pools, alive, now, hist>>

----------------------------------------------------------------------------
(* Starting                                                                *)

Begin(r, rq) ==
    /\ hist.starts < MaxStarts /\ req[r].step = "idle"
    /\ req' = [req EXCEPT ![r] = [rq EXCEPT !.step = "get"]]
    /\ UNCHANGED <<peers, kinds, sock, keep, g_cache, now>>

Counted(h) == [h EXCEPT !.starts = @ + 1]

\* ngx_http_upstream_init_round_robin_peer
StartPlain(r) ==
    /\ "plain" \in kinds
    /\ Begin(r, [Idle EXCEPT !.kind = "plain", !.tries = Tries(peers)])
    /\ hist' = Counted(hist)
    /\ UNCHANGED <<free_obj, pools, alive>>

\* The selector's __init_peer, for a subrequest whose handler named peer i.
StartChosen(r, i) ==
    /\ "chosen" \in kinds
    /\ Begin(r, [Idle EXCEPT !.kind = "chosen", !.tries = Tries(peers), !.current = i])
    /\ hist' = Counted(hist)
    /\ UNCHANGED <<free_obj, pools, alive>>

\* ngx_http_get_free_connection takes the object that was freed last.
TakesObject(o) == free_obj # <<>> /\ o = Head(free_obj) /\ free_obj' = Tail(free_obj)

\* ngx_http_fetch_create_pool destroys what is left of the last fetch first.
CreatePool(o) == pools' = pools \cup {o} /\ alive' = alive \cup {o}

\* ngx_http_fetch_create_request, __init_request and ngx_http_fetch_init_upstream;
\* without a free object the caller has 500 at once.
StartFetch(r, i) ==
    /\ \E o \in Objects, kind \in kinds \cap Fetches :
         /\ TakesObject(o) /\ CreatePool(o)
         /\ Begin(r, [Idle EXCEPT !.kind = kind, !.current = i, !.obj = o,
                                  !.tries = IF kind = "named" THEN Tries(peers) ELSE 1])
    /\ hist' = Counted(hist)

\* An allocation fails: in ngx_http_fetch_create_request the object goes back,
\* without its pools or with new ones; in what follows it it does not.
FetchFails ==
    /\ kinds \cap Fetches # {} /\ hist.leaks < MaxLeaks /\ free_obj # <<>>
    /\ \/ pools' = pools \ {Head(free_obj)} /\ alive' = alive \ {Head(free_obj)}
          /\ UNCHANGED <<free_obj, hist>>
       \/ CreatePool(Head(free_obj)) /\ UNCHANGED <<free_obj, hist>>
       \/ /\ \E o \in Objects : TakesObject(o) /\ CreatePool(o)
          /\ hist' = [hist EXCEPT !.leaks = @ + 1]
    /\ UNCHANGED <<peers, kinds, req, sock, keep, g_cache, now>>

----------------------------------------------------------------------------
(* Ending                                                                  *)

Mine(r) == req[r].conn

\* The connection of a request that is done: kept if the answer and the body
\* that was sent allow it, closed otherwise.
Keeps(a) == Keepalive(a) /\ ~a.early

Shut(closed) == sock' = [s \in Sockets |-> IF s \in closed THEN Closed ELSE sock[s]]

\* nginx's keepalive module, then the round robin's free.
DonePlain(r, a) ==
    LET rq == req[r] IN
    /\ rq.kind \in {"plain", "chosen"} /\ rq.step = "waiting" /\ ~sock[Mine(r)].eof
    /\ peers' = FreeRoundRobinPeer(peers, rq.current, FALSE, now)
    /\ IF Keeps(a)
       THEN keep' = Stored(keep, Mine(r)) /\ Shut(Evicted(keep))
       ELSE Shut({Mine(r)}) /\ UNCHANGED keep
    /\ Answered(r)
    /\ UNCHANGED <<kinds, g_cache, free_obj, pools, alive, now, hist>>

\* Faulty variant: the object keeps the pools that nginx destroys.
FinalizeUnadjusted(r, ok) ==
    LET o == req[r].obj IN
    /\ alive' = IF ok THEN alive ELSE alive \ {o}
    /\ pools' = pools
    /\ free_obj' = <<o>> \o free_obj

\* ngx_http_fetch_upstream_finalize_request.  After success the pools stay for
\* the next user of the object to destroy (++r->count keeps nginx from it);
\* otherwise nginx destroys them and the object forgets them.
Finalize(r, ok) ==
    LET o == req[r].obj IN
    /\ alive' = IF ok THEN alive ELSE alive \ {o}
    /\ pools' = IF ok THEN pools ELSE pools \ {o}
    /\ free_obj' = <<o>> \o free_obj

\* What fetch's __free_peer gives back when the connection is not kept.
FreeFetch(rq, failed) ==
    peers' = IF rq.kind = "named" THEN FreeRoundRobinPeer(peers, rq.current, failed, now) ELSE peers

\* A named fetch whose connection is kept.
Left(h, rq) == IF rq.kind = "named" THEN [h EXCEPT !.kept[rq.current] = @ + 1] ELSE h

\* Then fetch's __free_peer.  With a connection that is kept it returns before
\* it frees the peer.
DoneFetch(r, a) ==
    /\ req[r].kind \in Fetches /\ req[r].step = "waiting" /\ ~sock[Mine(r)].eof
    /\ Finalize(r, TRUE)
    /\ \/ /\ Keeps(a)
          /\ g_cache' = Stored(g_cache, Mine(r)) /\ Shut(Evicted(g_cache))
          /\ hist' = Left(hist, req[r])
          /\ UNCHANGED peers
       \/ /\ ~Keeps(a)
          /\ FreeFetch(req[r], FALSE)
          /\ Shut({Mine(r)})
          /\ UNCHANGED <<g_cache, hist>>
    /\ Answered(r)
    /\ UNCHANGED <<kinds, keep, now>>

\* ngx_http_upstream_next after an error on the connection or a timeout: the
\* next try, unless none is left.  An error on a connection from the cache
\* does not cost a try.
Again(rq, type) ==
    TriesLeft(peers, rq.tries) + IF rq.cached /\ type = "error" THEN 1 ELSE 0

FailPlain(r, type) ==
    LET rq == req[r]
        left == Again(rq, type)
    IN  /\ rq.kind \in {"plain", "chosen"} /\ rq.step = "waiting"
        /\ peers' = FreeRoundRobinPeer(peers, rq.current, TRUE, now)
        /\ Shut({Mine(r)})
        /\ req' = [req EXCEPT ![r] =
                     IF left = 0 THEN Idle
                     ELSE [rq EXCEPT !.step = "get", !.tries = left, !.conn = None]]
        /\ UNCHANGED <<kinds, keep, g_cache, free_obj, pools, alive, now, hist>>

\* fetch never tries again: its next_upstream is 0.
FailFetch(r) ==
    /\ req[r].kind \in Fetches /\ req[r].step = "waiting"
    /\ FreeFetch(req[r], TRUE)
    /\ Finalize(r, FALSE)
    /\ Shut({Mine(r)})
    /\ Answered(r)
    /\ UNCHANGED <<kinds, keep, g_cache, now, hist>>

----------------------------------------------------------------------------
(* Idle connections                                                        *)

Lying(s) == s \in ToSet(keep) \cup ToSet(g_cache)

PeerCloses(s) ==
    /\ Lying(s) /\ ~sock[s].eof
    /\ sock' = [sock EXCEPT ![s].eof = TRUE]
    /\ UNCHANGED <<peers, kinds, req, keep, g_cache, free_obj, pools, alive, now, hist>>

Dropped(s) ==
    /\ keep' = Without(keep, s) /\ g_cache' = Without(g_cache, s)
    /\ Shut({s})
    /\ UNCHANGED <<peers, kinds, req, free_obj, pools, alive, now, hist>>

\* nginx's module closes a connection that its peer closed.
KeepaliveCloseHandler(s) == s \in ToSet(keep) /\ sock[s].eof /\ Dropped(s)

\* ngx_http_fetch_keepalive_close_handler closes one that the worker needs for
\* other uses (c->close); when the peer closed it recv says 0, and the handler
\* returns with the connection where it was.
FetchCloseHandler(s) == s \in ToSet(g_cache) /\ Dropped(s)

Longest(t) == Max({t[i].fail_timeout : i \in DOMAIN t})

Tick ==
    /\ now < Longest(peers) + MaxTicks
    /\ now' = now + 1
    /\ UNCHANGED <<peers, kinds, req, sock, keep, g_cache, free_obj, pools, alive, hist>>

----------------------------------------------------------------------------

Init ==
    /\ \E c \in Cases :
         /\ peers = c.table
         /\ kinds = c.kinds
         /\ now = Longest(c.table) + 1
    /\ req = [r \in Requests |-> Idle]
    /\ sock = [s \in Sockets |-> Closed]
    /\ keep = <<>> /\ g_cache = <<>>
    /\ free_obj = SetToSeq(Objects)
    /\ pools = {} /\ alive = {}
    /\ hist = [starts |-> 0, leaks |-> 0, probe |-> [i \in DOMAIN peers |-> 0],
               kept |-> [i \in DOMAIN peers |-> 0]]

Get(r) == GetPlain(r) \/ GetChosen(r) \/ GetFetch(r)

Done(r) == \E a \in Answers : DonePlain(r, a) \/ DoneFetch(r, a)

Fail(r) == FailPlain(r, "error") \/ FailPlain(r, "timeout") \/ FailFetch(r)

Next ==
    \/ \E r \in Requests : StartPlain(r)
    \/ \E r \in Requests, i \in DOMAIN peers : StartChosen(r, i) \/ StartFetch(r, i)
    \/ FetchFails
    \/ \E r \in Requests : Get(r) \/ Done(r) \/ Fail(r)
    \/ \E s \in Sockets : PeerCloses(s) \/ KeepaliveCloseHandler(s) \/ FetchCloseHandler(s)
    \/ Tick

\* A request gets its peer, and what it waits for ends: with an answer, an
\* error or the timer.
Fairness == \A r \in Requests : WF_vars(Get(r) \/ Done(r) \/ Fail(r))

Spec == Init /\ [][Next]_vars /\ Fairness

----------------------------------------------------------------------------
(* Properties                                                              *)

Holders(i) == {r \in Requests : req[r].kind \in {"plain", "chosen", "named"}
                                /\ req[r].step = "waiting" /\ req[r].current = i}

\* conns, which max_conns is compared with, is the number of requests that hold
\* the peer, over tries, retries on another peer and the backup group (get and
\* free of the round robin, of the selector and of fetch), and one for ever for
\* each named fetch whose connection was kept: never more, so that nothing else
\* fills a peer, and never less (max_conns counts on it, and conns is unsigned).
\* A peer with max_conns = n takes no plain request after n such fetches.
ConnsCounted ==
    \A i \in DOMAIN peers : peers[i].conns = Cardinality(Holders(i)) + hist.kept[i]

\* A connection serves one request or lies once in one cache, and a request has
\* a connection to the peer it was given (get_peer and free_peer of both caches,
\* eviction, the close handlers).
SocketsOwned ==
    /\ \A s \in Sockets :
         LET users == {r \in Requests : req[r].conn = s}
             lies(cache) == {n \in DOMAIN cache : cache[n] = s}
         IN  Cardinality(users) + Cardinality(lies(keep)) + Cardinality(lies(g_cache))
               = IF Open(s) THEN 1 ELSE 0
    /\ \A r \in Requests : req[r].step = "waiting" => sock[req[r].conn].peer = req[r].current

\* A connection object is free, in use or lost to a failed allocation; and the
\* pools a free object is to destroy are those that exist, so that none is
\* destroyed twice or forgotten.
ObjectsConserved ==
    /\ Len(free_obj) + Cardinality({r \in Requests : req[r].obj # None}) + hist.leaks
         = Cardinality(Objects)
    /\ \A o \in ToSet(free_obj) : o \in pools <=> o \in alive
    /\ \A r \in Requests : req[r].obj # None => req[r].obj \notin ToSet(free_obj)

\* Every connection and every object has one owner or lies in one place, through
\* retries, failed allocations, full caches and peers that close.
OwnedOnce == SocketsOwned /\ ObjectsConserved

Weights(t, backup) ==
    [i \in DOMAIN t |-> IF t[i].backup = backup THEN t[i].current_weight ELSE 0]

\* What the peers of a group gained by being passed over is what the picked ones
\* paid, through failures and recoveries: the current weights sum up to zero.
WeightsBalanced == \A backup \in BOOLEAN : SumOf(Weights(peers, backup)) = 0

\* A peer that failed too often is asked again no more often than once in
\* fail_timeout, however many plain requests look for a peer in between.
ProbesSpaced ==
    [][\A r \in Requests :
         LET i == req'[r].current IN
         req[r].kind = "plain" /\ req[r].step = "get" /\ req'[r].step = "waiting"
         /\ ~Single(peers) /\ Probed(i) =>
             now - hist.probe[i] > peers[i].fail_timeout]_vars

\* Every request ends, whatever its peers do, although an error on a connection
\* from the cache costs no try: with an error where nothing is left to ask, but
\* for one of the selector that has met an idle connection (its get leaves
\* `cached' set, and no error costs it a try any more) and is asked for ever.
EveryRequestEnds ==
    \A r \in Requests :
        \/ <>[](req[r].kind = "chosen" /\ req[r].cached)
        \/ (req[r].step # "idle" ~> req[r].step = "idle")

=============================================================================
