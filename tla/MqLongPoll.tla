----------------------------- MODULE MqLongPoll -----------------------------
(***************************************************************************)
(* Long polling of a hustmqha worker (hustmq_ha_ev_handler.c and the evget *)
(* and evsub handlers over it): requests that wait until a merge of the    *)
(* statistics (MqStat) shows messages in their queue, or their timer goes  *)
(* off.  A request that is activated is redirected to the handler that     *)
(* takes the message; another may have taken it by then.                   *)
(***************************************************************************)
EXTENDS MqStat, Sequences, SequencesExt

CONSTANTS
    Clients,
    MaxTimers       \* max_timer_count

ASSUME PollAssumption == IsFiniteSet(Clients) /\ MaxTimers \in Nat \ {0}

VARIABLES
    waiting,    \* ev_dict: queue -> requests, first come first
    evsize,     \* size of ev_dict
    timers,     \* ev_timer_count
    due,        \* ev_event, the activation a merge asks for, is pending
    answer      \* [Clients -> "wait" or the answer to the last request]

pollVars == <<waiting, evsize, timers, answer>>
vars == <<statVars, pollVars, due>>

Answers == {"none", "wait", "redirect", "not_found", "error"}

\* Faulty variant: another may wait for a queue that is known already.
FullFor(q) == evsize > MaxQueues - 1 /\ q \notin DOMAIN waiting

\* The limit __add_ev_node looks at before it looks for the queue: with as
\* many queues as max_queue_size, none takes a request.
Full(q) == evsize > MaxQueues - 1

\* hustmq_ha_ev_handler: refused, or last in the line of its queue with a
\* timer.
EvGet(c, q) ==
    /\ answer[c] # "wait"
    /\ \/ /\ timers >= MaxTimers \/ Full(q)
          /\ answer' = [answer EXCEPT ![c] = "error"]
          /\ UNCHANGED <<waiting, evsize, timers>>
       \/ /\ timers < MaxTimers /\ ~Full(q)
          /\ answer' = [answer EXCEPT ![c] = "wait"]
          /\ waiting' = [p \in DOMAIN waiting \cup {q} |->
                           IF p = q THEN Append(Value(waiting, q, <<>>), c) ELSE waiting[p]]
          /\ evsize' = IF q \in DOMAIN waiting THEN evsize ELSE evsize + 1
          /\ timers' = timers + 1
    /\ UNCHANGED <<statVars, due>>

\* __ev_timeout_handler
EvTimeout(c) ==
    /\ answer[c] = "wait"
    /\ answer' = [answer EXCEPT ![c] = "not_found"]
    /\ waiting' = [q \in DOMAIN waiting |-> RemoveFirst(waiting[q], c)]
    /\ timers' = timers - 1
    /\ UNCHANGED <<statVars, due, evsize>>

\* Faulty variant: a queue goes when the statistics do not show it.
IsUnknown(q) == ~Merged(q)

\* __is_dict_item_invalid
IsIdle(q) == waiting[q] = <<>>

\* The queues that leave ev_dict when it is full.
Evicted(removed) ==
    LET idle == {q \in DOMAIN waiting : IsIdle(q)}
    IN  /\ removed \subseteq idle
        /\ Cardinality(removed) =
             IF evsize > MaxQueues - 1 THEN Min({Cardinality(idle), MaxKeys}) ELSE 0

\* Faulty variant: those that came last are activated.
LastOnes(line, n) == [line |-> SubSeq(line, 1, Len(line) - n),
                      out |-> SubSeq(line, Len(line) - n + 1, Len(line))]

\* __active_ev_queue takes n requests from the head of a line.
Popped(line, n) == [line |-> SubSeq(line, n + 1, Len(line)), out |-> SubSeq(line, 1, n)]

\* As many as there are messages ready.
Awaken(q) == IF Merged(q) THEN Min({ReadySum(q), Len(waiting[q])}) ELSE 0

\* Faulty variant: only a request that times out gives its timer back.
TimersLeft(out) == timers

\* hustmq_ha_pop_ev_node deletes the timer of a request.
TimersAfter(out) == timers - Cardinality(out)

\* hustmq_ha_active_ev
Active ==
    /\ due
    /\ due' = FALSE
    /\ \E removed \in SUBSET DOMAIN waiting :
         /\ Evicted(removed)
         /\ LET kept == DOMAIN waiting \ removed
                out == UNION {Range(Popped(waiting[q], Awaken(q)).out) : q \in kept}
            IN  /\ waiting' = [q \in kept |-> Popped(waiting[q], Awaken(q)).line]
                /\ evsize' = Minus(evsize, Cardinality(removed))
                /\ timers' = TimersAfter(out)
                /\ answer' = [c \in Clients |-> IF c \in out THEN "redirect" ELSE answer[c]]
    /\ UNCHANGED statVars

\* A merge asks for an activation 1 ms later (hustmq_ha_invoke_evget_handler).
MergeAndInvoke ==
    /\ Merge
    /\ due' = TRUE
    /\ UNCHANGED pollVars

Init ==
    /\ StatInit
    /\ waiting = <<>>
    /\ evsize = 0
    /\ timers = 0
    /\ due = FALSE
    /\ answer = [c \in Clients |-> "none"]

Next ==
    \/ \E c \in Clients, q \in Queues : EvGet(c, q)
    \/ \E c \in Clients : EvTimeout(c)
    \/ Active
    \/ MergeAndInvoke

Spec == Init /\ [][Next]_vars

\* Timers go off, and the statistics are fetched again and again from hosts
\* of which some answer.
Fairness ==
    /\ \A c \in Clients : WF_vars(EvTimeout(c))
    /\ WF_vars(Active)
    /\ WF_vars(MergeAndInvoke)

FairSpec == Spec /\ Fairness

-----------------------------------------------------------------------------

Lines(c) == {q \in DOMAIN waiting : c \in Range(waiting[q])}

\* What is counted on the side agrees with the lines: a slot that leaked
\* would be refused to later requests for ever.
CountsAgree ==
    /\ timers = Cardinality({c \in Clients : answer[c] = "wait"})
    /\ evsize = Cardinality(DOMAIN waiting)
    /\ timers \in 0 .. MaxTimers
    /\ evsize \in 0 .. MaxQueues

\* A request waits in one line, once, and no request in a line is answered:
\* cleaning out the dictionary loses nobody.
NoWaiterLost ==
    \A c \in Clients :
        /\ Cardinality(Lines(c)) = IF answer[c] = "wait" THEN 1 ELSE 0
        /\ \A q \in Lines(c) : Cardinality({i \in DOMAIN waiting[q] : waiting[q][i] = c}) = 1

\* Lines, timers and the dictionary agree, and nobody who waits is lost, through
\* joining, leaving, timers, activation and cleaning out (hustmq_ha_ev_handler).
LinesSound == CountsAgree /\ NoWaiterLost

\* Who is redirected leaves nobody behind that waited longer in that line.
FirstComeFirst ==
    [][\A q \in DOMAIN waiting : \A i, j \in DOMAIN waiting[q] :
          i < j /\ answer'[waiting[q][j]] = "redirect"
             => answer'[waiting[q][i]] = "redirect"]_vars

\* A dictionary that is full, so that every request is refused, has room
\* again: who waits in it leaves, nobody joins, and the next activation
\* cleans it.
RoomAgain == evsize > MaxQueues - 1 ~> evsize <= MaxQueues - 1
=============================================================================
