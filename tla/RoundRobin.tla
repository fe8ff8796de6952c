----------------------------- MODULE RoundRobin -----------------------------
(***************************************************************************)
(* The weighted round robin over the servers of an upstream, as patched:   *)
(* ngx_http_upstream_round_robin.c.  A table is the sequence of its peers, *)
(* those that are not backups first; the two lists of the code, which it   *)
(* links by `next', are the two Groups.  Times are in seconds.  A verdict  *)
(* of the health checks counts as "down".                                  *)
(***************************************************************************)
EXTENDS Integers, Sequences, FiniteSets, SequencesExt, FiniteSetsExt

\* A server line of the configuration stands for a peer per address.
Peer(s) ==
    [weight |-> s.weight, effective_weight |-> s.weight, current_weight |-> 0,
     max_fails |-> s.max_fails, fail_timeout |-> s.fail_timeout,
     max_conns |-> s.max_conns, down |-> s.down, backup |-> s.backup,
     fails |-> 0, accessed |-> 0, checked |-> 0, conns |-> 0]

\* What such a peer is at first.
NewPeers ==
    [weight : Nat, effective_weight : Nat, current_weight : {0},
     max_fails : Nat, fail_timeout : Nat, max_conns : Nat, down : BOOLEAN, backup : BOOLEAN,
     fails : {0}, accessed : {0}, checked : {0}, conns : {0}]

PeersOf(servers) ==
    FlattenSeq([i \in DOMAIN servers |-> [j \in 1 .. servers[i].naddrs |-> Peer(servers[i])]])

\* NGX_ERROR is the empty table: no server but backups.
InitRoundRobin(servers) ==
    LET primary == SelectSeq(servers, LAMBDA s : ~s.backup)
        backups == SelectSeq(servers, LAMBDA s : s.backup)
    IN  IF primary = <<>> THEN <<>> ELSE PeersOf(primary) \o PeersOf(backups)

\* An upstream that proxy_pass names but nothing defines.
Implicit(naddrs) ==
    PeersOf(<<[naddrs |-> naddrs, weight |-> 1, max_fails |-> 1, fail_timeout |-> 10,
               max_conns |-> 0, down |-> FALSE, backup |-> FALSE]>>)

\* ngx_http_init_upstream_rr_peers, for fetch: a peer per URL.
FetchPeers(urls) ==
    PeersOf([i \in 1 .. urls |->
               [naddrs |-> 1, weight |-> 1, max_fails |-> 1, fail_timeout |-> 10,
                max_conns |-> 0, down |-> FALSE, backup |-> FALSE]])

Group(t, backup) == {i \in DOMAIN t : t[i].backup = backup}

Single(t) == Len(t) = 1

\* ngx_http_upstream_tries
Tries(t) == Len(t)

----------------------------------------------------------------------------
(* ngx_http_upstream_get_peer                                              *)

\* A peer that failed too often rests for fail_timeout after the last failure
\* or the last request that was let through to see whether it is back.
Resting(p, now) ==
    /\ p.max_fails > 0 /\ p.fails >= p.max_fails
    /\ now - p.checked <= p.fail_timeout

Full(p) == p.max_conns > 0 /\ p.conns >= p.max_conns

Eligible(t, backup, tried, now) ==
    {i \in Group(t, backup) \ tried : ~t[i].down /\ ~Resting(t[i], now) /\ ~Full(t[i])}

\* What is added up over the peers, one after the other.
SumOf(w) ==
    LET upto[n \in 0 .. Len(w)] == IF n = 0 THEN 0 ELSE upto[n - 1] + w[n]
    IN  upto[Len(w)]

Total(t, E) == SumOf([i \in DOMAIN t |-> IF i \in E THEN t[i].effective_weight ELSE 0])

\* Faulty variant: the effective weight grows first and is what is added.
WeighedLate(t, E) ==
    [i \in DOMAIN t |->
        IF i \notin E THEN t[i]
        ELSE LET ew == IF t[i].effective_weight < t[i].weight
                       THEN t[i].effective_weight + 1 ELSE t[i].effective_weight
             IN  [t[i] EXCEPT !.current_weight = @ + ew, !.effective_weight = ew]]

\* Every peer that could serve gains its effective weight, which recovers from
\* failures by one each time.
Weighed(t, E) ==
    [i \in DOMAIN t |->
        IF i \notin E THEN t[i]
        ELSE [t[i] EXCEPT !.current_weight = @ + t[i].effective_weight,
                          !.effective_weight = IF @ < t[i].weight THEN @ + 1 ELSE @]]

\* The first of the heaviest.
Best(t, E) ==
    CHOOSE i \in E : \A j \in E \ {i} :
        \/ t[i].current_weight > t[j].current_weight
        \/ t[i].current_weight = t[j].current_weight /\ i < j

\* Faulty variant: the peer is not marked as being looked at.
PickedUnmarked(t, i, total, now) == [t EXCEPT ![i].current_weight = @ - total]

\* The one that is picked pays what the others gained.
Picked(t, i, total, now) ==
    [t EXCEPT ![i].current_weight = @ - total,
              ![i].checked = IF now - @ > t[i].fail_timeout THEN now ELSE @]

\* The peer that is picked and the table after it; 0 if there is none.
GetPeer(t, backup, tried, now) ==
    LET E == Eligible(t, backup, tried, now)
        g == Weighed(t, E)
        i == Best(g, E)
    IN  IF E = {} THEN [peer |-> 0, table |-> t]
        ELSE [peer |-> i, table |-> Picked(g, i, Total(t, E), now)]

----------------------------------------------------------------------------

\* Faulty variant: a single peer is not counted.
ConnectedUnlessSingle(t, i) == IF Single(t) THEN t ELSE [t EXCEPT ![i].conns = @ + 1]

Connected(t, i) == [t EXCEPT ![i].conns = @ + 1]

\* A single peer is taken as it is, whatever its failures.
GetSingle(t) ==
    IF t[1].down \/ Full(t[1]) THEN [peer |-> 0, table |-> t]
    ELSE [peer |-> 1, table |-> t]

\* ngx_http_upstream_get_round_robin_peer; `got' also says in which group the
\* request goes on and what it has tried there.  Peer 0 is NGX_BUSY.
GetRoundRobinPeer(t, backup, tried, now) ==
    LET first  == IF Single(t) THEN GetSingle(t) ELSE GetPeer(t, backup, tried, now)
        turn   == first.peer = 0 /\ ~backup /\ Group(t, TRUE) # {}
        second == GetPeer(t, TRUE, {}, now)
        got    == IF turn THEN second ELSE first
    IN  [peer   |-> got.peer,
         table  |-> IF got.peer = 0 THEN got.table ELSE Connected(got.table, got.peer),
         backup |-> backup \/ turn,
         tried  |-> (IF turn THEN {} ELSE tried)
                    \cup (IF got.peer = 0 \/ Single(t) THEN {} ELSE {got.peer})]

Freed(t, i) == [t EXCEPT ![i].conns = @ - 1]

\* The weight that a failure costs, C's division.
Loss(p) == IF p.max_fails > 0 THEN p.weight \div p.max_fails ELSE 0

\* ngx_http_upstream_free_round_robin_peer on the table.  fails is only ever
\* compared with max_fails: it stops there.
FreeRoundRobinPeer(t, i, failed, now) ==
    LET p == t[i]
        lost == p.effective_weight - Loss(p)
        marked ==
            IF Single(t) THEN p
            ELSE IF failed
            THEN [p EXCEPT !.fails = IF @ < p.max_fails THEN @ + 1 ELSE @,
                           !.accessed = now, !.checked = now,
                           !.effective_weight = IF lost < 0 THEN 0 ELSE lost]
            ELSE [p EXCEPT !.fails = IF p.accessed < p.checked THEN 0 ELSE @]
    IN  Freed([t EXCEPT ![i] = marked], i)

\* Faulty variant: a single peer costs no try.
TriesLeftSingle(t, tries) == IF Single(t) THEN tries ELSE tries - 1

\* ... and on the tries of the request.
TriesLeft(t, tries) == IF Single(t) \/ tries = 0 THEN 0 ELSE tries - 1

=============================================================================
