----------------------------- MODULE MqPublish -----------------------------
(***************************************************************************)
(* Publishing to one queue through a hustmqha worker                       *)
(* (hustmq_ha_publish_handler.c).  A publish asks every living host of the *)
(* queue, one after the other, and counts those that answer 200.  While    *)
(* one is in progress the queue's reference count refuses others; since a  *)
(* host may never answer, a timer resets the count, and the answer may     *)
(* still come after it.  The events of a worker are handled one at a time; *)
(* its queues share nothing here, so there is one.                         *)
(***************************************************************************)
EXTENDS Integers, Sequences, FiniteSets, FiniteSetsExt

CONSTANTS
    Requests,       \* publishes of the queue
    Backends,       \* hosts, numbered: lists are built in their order
    LateBodies      \* those whose body comes after the header was handled

ASSUME PublishAssumption ==
    /\ IsFiniteSet(Requests)
    /\ IsFiniteSet(Backends) /\ Backends \subseteq Nat
    /\ LateBodies \subseteq Requests

VARIABLES
    ref,        \* the queue's entry in g_pub_ref_dict
    pc,         \* [Requests -> where the request is]
    peers,      \* [Requests -> the hosts the request may still ask]
    peer,       \* [Requests -> the host asked, or to be asked first]
    count,      \* [Requests -> hosts that answered 200 in time]
    timeout,    \* [Requests -> has its timer fired?]
    answer,     \* [Requests -> status, and the count header or 0]
    alive,      \* hosts the health check takes for living
    stored      \* auxiliary: [Requests -> hosts that have the message]

context == <<peers, peer, count>>
publishVars == <<ref, pc, context, timeout, answer, alive, stored>>

Pcs == {"new", "body", "asking", "done"}
NoAnswer == [status |-> 0, count |-> 0]
NotFound == [status |-> 404, count |-> 0]

\* Publishes whose timer is armed.
InTime == {r \in Requests : pc[r] = "asking" /\ ~timeout[r]}

\* ngx_http_get_first_peer and _next_peer: the first living host of a list.
Living(hosts) == hosts \cap alive
After(hosts, h) == {g \in hosts : g > h}

MayPublish == ref = 0

\* __dec_ref_count.
DecRefCount == ref' = IF ref > 0 THEN ref - 1 ELSE ref

\* Faulty variant: the timer only marks the publish.
ResetNothing == ref' = ref

\* __reset_ref_count.
ResetRefCount == ref' = 0

\* __post_body_handler: the first subrequest, the timer and the count.
Ask(r) ==
    /\ pc' = [pc EXCEPT ![r] = "asking"]
    /\ ref' = ref + 1

-----------------------------------------------------------------------------

\* __first_publish_handler.  The hosts are those that have the queue, by the
\* statistics, or all of them for a queue that is not known; the rest of what
\* the statistics say may refuse the publish, as no living host does: NGX_ERROR,
\* on which nginx closes the connection unanswered.
Start(r) ==
    /\ pc[r] = "new"
    /\ \/ /\ pc' = [pc EXCEPT ![r] = "done"]
          /\ UNCHANGED <<ref, peers, peer>>
       \/ /\ MayPublish
          /\ \E hosts \in SUBSET Backends :
               /\ Living(hosts) # {}
               /\ peers' = [peers EXCEPT ![r] = hosts]
               /\ peer' = [peer EXCEPT ![r] = Min(Living(hosts))]
          /\ IF r \in LateBodies THEN pc' = [pc EXCEPT ![r] = "body"] /\ UNCHANGED ref
             ELSE Ask(r)
    /\ UNCHANGED <<count, timeout, answer, alive, stored>>

\* The body has been read.
PostBody(r) ==
    /\ pc[r] = "body"
    /\ Ask(r)
    /\ UNCHANGED <<context, timeout, answer, alive, stored>>

\* It never is: nginx finalizes the request.
BodyFails(r) ==
    /\ pc[r] = "body"
    /\ pc' = [pc EXCEPT ![r] = "done"]
    /\ UNCHANGED <<ref, context, timeout, answer, alive, stored>>

\* Faulty variant: an answer is counted whatever its status.
CountedAny(r, ok) == count[r] + 1

Counted(r, ok) == IF ok /\ ~timeout[r] THEN count[r] + 1 ELSE count[r]

\* The count header, 0 if there is none.
Header(n) == IF n > 0 /\ n < Cardinality(Backends) THEN n ELSE 0

\* hustmq_ha_publish_handler when a subrequest has ended: a publish in time
\* goes on to the next living host, if the subrequest can be made.
PeerAnswers(r, ok) ==
    LET rest == Living(After(peers[r], peer[r]))
    IN  /\ pc[r] = "asking"
        /\ stored' = [stored EXCEPT ![r] = IF ok THEN @ \cup {peer[r]} ELSE @]
        /\ count' = [count EXCEPT ![r] = Counted(r, ok)]
        /\ \/ /\ ~timeout[r]
              /\ rest # {}
              /\ peer' = [peer EXCEPT ![r] = Min(rest)]
              /\ UNCHANGED <<ref, pc, answer>>
           \/ /\ DecRefCount
              /\ pc' = [pc EXCEPT ![r] = "done"]
              /\ answer' = [answer EXCEPT ![r] =
                              IF Counted(r, ok) > 0
                              THEN [status |-> 200, count |-> Header(Counted(r, ok))]
                              ELSE NotFound]
              /\ UNCHANGED peer
        /\ UNCHANGED <<peers, timeout, alive>>

\* __publish_timeout_handler.
PublishTimeout(r) ==
    /\ r \in InTime
    /\ timeout' = [timeout EXCEPT ![r] = TRUE]
    /\ ResetRefCount
    /\ UNCHANGED <<pc, context, answer, alive, stored>>

\* The health check of the upstream module.
HealthCheck ==
    /\ \E hosts \in SUBSET Backends : alive' = hosts
    /\ UNCHANGED <<ref, pc, context, timeout, answer, stored>>

PublishInit ==
    /\ ref = 0
    /\ pc = [r \in Requests |-> "new"]
    /\ peers = [r \in Requests |-> {}]
    /\ peer = [r \in Requests |-> 0]
    /\ count = [r \in Requests |-> 0]
    /\ timeout = [r \in Requests |-> FALSE]
    /\ answer = [r \in Requests |-> NoAnswer]
    /\ alive = Backends
    /\ stored = [r \in Requests |-> {}]

PublishNext ==
    \/ \E r \in Requests :
          \/ Start(r)
          \/ PostBody(r)
          \/ BodyFails(r)
          \/ \E ok \in BOOLEAN : PeerAnswers(r, ok)
          \/ PublishTimeout(r)
    \/ HealthCheck

\* Timers fire; nothing is assumed of clients or hosts.
PublishFairness == \A r \in Requests : WF_publishVars(PublishTimeout(r))

PublishSpec == PublishInit /\ [][PublishNext]_publishVars /\ PublishFairness

-----------------------------------------------------------------------------

\* The count never exceeds the publishes in time, whatever order timers,
\* late answers and overlapping publishes come in: a queue nobody publishes
\* to is never refused.
RefWithinInTime == ref <= Cardinality(InTime)

\* An answer of 200 that carries no count means that every host has the
\* message, one with a count that so many have it.
AnswerCountsStored ==
    \A r \in Requests : answer[r].status = 200 =>
        /\ answer[r].count = 0 => stored[r] = Backends
        /\ answer[r].count <= Cardinality(stored[r])

\* A queue does not stay refused: the count comes back to zero even if no
\* host ever answers again.
QueueReopens == ref > 0 ~> ref = 0
=============================================================================
