---------------------------- MODULE MqFetchStat ----------------------------
(***************************************************************************)
(* The rounds in which a hustmqha worker collects the statistics of its    *)
(* hosts (hustmq_ha_fetch_stat.c).  A round takes a context from a pool,   *)
(* fetches from every host at once, and merges what has come when the last *)
(* fetch has ended or its timer fires.  A context has no memory of its     *)
(* round: a fetch that ends after the timer finds whatever the context is  *)
(* used for by then.  A fetch holds a connection object of the fetch       *)
(* module's pool (ngx_http_fetch_cache.c) until it ends.                   *)
(***************************************************************************)
EXTENDS Integers, Sequences, FiniteSets, SequencesExt, FiniteSetsExt

CONSTANTS
    Hosts,      \* the upstream's hosts, 1 to their number, in list order
    Contexts,   \* size of the context pool
    Conns,      \* connection_cache_size
    MaxRound    \* bound: rounds

ASSUME FetchStatAssumption ==
    /\ IsFiniteSet(Contexts) /\ IsFiniteSet(Hosts)
    /\ Hosts = 1 .. Cardinality(Hosts)
    /\ Conns \in Nat /\ MaxRound \in Nat

VARIABLES
    busy,           \* g_cache_ctx, whose order nothing looks at
    free,           \* g_free_ctx, head first
    ctx,            \* [Contexts -> the context]
    fetches,        \* fetches under way, each from a host for a round
    round,          \* rounds begun so far
    merged,         \* the last merge: the context, and the rounds and hosts merged
    timeouts        \* auxiliary: rounds that were cut off by their timer

vars == <<busy, free, ctx, fetches, round, merged, timeouts>>

Fetch == [ctx : Contexts, round : 1 .. MaxRound, host : Hosts]

\* A context between two rounds keeps its numbers.
NoCtx == [round |-> 0, requests |-> 0, finished |-> 0, stats |-> <<>>, timer_set |-> FALSE]
NoMerge == [round |-> 0, stats |-> <<>>, whole |-> TRUE]

\* Faulty variant: the numbers of the context's last round are kept.
ResetStats(c) == [ctx[c] EXCEPT !.round = round + 1, !.stats = <<>>, !.timer_set = TRUE,
                                !.requests = Cardinality(Hosts)]

\* __get_autost_ctx: the context as a round finds it.
Reset(c) == [round |-> round + 1, requests |-> Cardinality(Hosts), finished |-> 0,
             stats |-> <<>>, timer_set |-> TRUE]

\* Faulty variant: the context stays where it is.
KeepItem(c) == UNCHANGED <<busy, free>>

\* __reuse_item.
ReuseItem(c) ==
    /\ busy' = busy \ {c}
    /\ free' = <<c>> \o free

\* __finalize_ctx: what has come is merged, nothing if nothing has.
Finalize(c, stats, rest) ==
    /\ merged' = IF stats = <<>> THEN merged
                 ELSE [round |-> ctx[c].round, stats |-> stats,
                       whole |-> \A f \in rest : f.round # ctx[c].round]
    /\ ReuseItem(c)

-----------------------------------------------------------------------------

\* How ngx_http_fetch ends in the loop of __fetch_stat: it fails, with no
\* connection object free; it starts; or nginx gives up at once, calling
\* __post_upstream inside the loop, and the connection object is free again.
Outcome == {"refused", "started", "ended"}

\* The outcomes the pool of connection objects allows: one is short if the
\* fetches that started before leave none.
Possible(out) == \A h \in Hosts :
    out[h] = "refused" <=>
        Cardinality(fetches) + Cardinality({g \in Hosts : g < h /\ out[g] = "started"}) >= Conns

\* __active_autost, __get_autost_ctx and __fetch_stat.  A round whose fetches
\* all ended in the loop is over if the last host's is the last to end; if
\* that one was refused the timer must end it.
Activate ==
    /\ round < MaxRound
    /\ round' = round + 1
    /\ IF free = <<>> THEN UNCHANGED <<busy, free, ctx, fetches>>
       ELSE \E out \in [Hosts -> Outcome] :
          LET c == Head(free)
              with(o) == {h \in Hosts : out[h] = o}
              nothing == with("refused") = Hosts
              over == nothing \/ (with("started") = {} /\ out[Max(Hosts)] = "ended")
          IN  /\ Possible(out)
              /\ ctx' = [ctx EXCEPT ![c] =
                           [Reset(c) EXCEPT !.requests = @ - Cardinality(with("refused")),
                                            !.finished = @ + Cardinality(with("ended")),
                                            !.timer_set = ~over]]
              /\ fetches' = fetches \cup
                   {[ctx |-> c, round |-> round + 1, host |-> h] : h \in with("started")}
              /\ IF over THEN UNCHANGED <<busy, free>>
                 ELSE busy' = busy \cup {c} /\ free' = Tail(free)
    /\ UNCHANGED <<merged, timeouts>>

\* Faulty variant: the round is over one answer later.
RoundOverLater(finished, requests) == finished > requests

\* Is the round over with this fetch?
RoundOver(finished, requests) == finished >= requests

\* __post_upstream for a fetch that has ended, with an answer that decodes or
\* without.
PostUpstream(f, ok) ==
    LET c == f.ctx
        finished == ctx[c].finished + 1
        stats == IF ok THEN Append(ctx[c].stats, [round |-> f.round, host |-> f.host])
                 ELSE ctx[c].stats
    IN  /\ f \in fetches
        /\ fetches' = fetches \ {f}
        /\ \/ /\ ~ctx[c].timer_set      \* already timeout
              /\ ctx' = [ctx EXCEPT ![c].finished = finished]
              /\ UNCHANGED <<busy, free, merged>>
           \/ /\ ctx[c].timer_set
              /\ ~RoundOver(finished, ctx[c].requests)
              /\ ctx' = [ctx EXCEPT ![c].finished = finished, ![c].stats = stats]
              /\ UNCHANGED <<busy, free, merged>>
           \/ /\ ctx[c].timer_set
              /\ RoundOver(finished, ctx[c].requests)
              /\ ctx' = [ctx EXCEPT ![c].finished = finished, ![c].stats = stats,
                                    ![c].timer_set = FALSE]
              /\ Finalize(c, stats, fetches \ {f})
        /\ UNCHANGED <<round, timeouts>>

\* __on_fetch_timeout.
FetchTimeout(c) ==
    /\ ctx[c].timer_set
    /\ ctx' = [ctx EXCEPT ![c].timer_set = FALSE]
    /\ Finalize(c, ctx[c].stats, fetches)
    /\ timeouts' = timeouts + 1
    /\ UNCHANGED <<fetches, round>>

Init ==
    /\ busy = {}
    /\ free = SetToSeq(Contexts)
    /\ ctx = [c \in Contexts |-> NoCtx]
    /\ fetches = {}
    /\ round = 0
    /\ merged = NoMerge
    /\ timeouts = 0

Next ==
    \/ Activate
    \/ \E f \in fetches, ok \in BOOLEAN : PostUpstream(f, ok)
    \/ \E c \in Contexts : FetchTimeout(c)

\* Timers fire; a fetch may take as long as its host lets it.
Fairness == \A c \in Contexts : WF_vars(FetchTimeout(c))

Spec == Init /\ [][Next]_vars /\ Fairness

-----------------------------------------------------------------------------

\* The contexts taken are those whose timer is armed, and none is lost or
\* held twice, however rounds end.
ContextsConserved ==
    /\ busy = {c \in Contexts : ctx[c].timer_set}
    /\ Cardinality(busy) + Len(free) = Cardinality(Contexts)
    /\ busy \cup Range(free) = Contexts

\* A round never writes past the array it allocated, although fetches of
\* earlier rounds may still end in it.
StatsFit == \A c \in Contexts : Len(ctx[c].stats) <= Cardinality(Hosts)

\* However rounds end, and whatever late fetches end in them, contexts come back
\* once and stay within their arrays (ngx_http_hustmq_ha_fetch_stat, its timer
\* and __post_upstream).
RoundsSound == ContextsConserved /\ StatsFit

\* Until a round is cut off by its timer, what is merged is of one round,
\* has no host twice, and waits for all the fetches of the round.
MergedWhole ==
    timeouts = 0 =>
        /\ merged.whole
        /\ \A i \in DOMAIN merged.stats : merged.stats[i].round = merged.round
        /\ \A i, j \in DOMAIN merged.stats :
              i # j => merged.stats[i].host # merged.stats[j].host

\* An answer that comes after its round's timeout is dropped.
LateAnswerDropped ==
    \A i \in DOMAIN merged.stats : merged.stats[i].round = merged.round

\* Hosts that never answer do not use the pool up: a round always finds a
\* context again.
ContextsComeBack == free = <<>> ~> free # <<>>
=============================================================================
