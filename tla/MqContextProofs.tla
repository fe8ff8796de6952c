-------------------------- MODULE MqContextProofs --------------------------
(***************************************************************************)
(* What hustmqha does for a context of its own that a timer cuts off while *)
(* answers are still to come.                                              *)
(*                                                                         *)
(* Publishing: the reference count of a queue never exceeds the publishes  *)
(* that are in time, and an answer tells how many hosts have the message,  *)
(* for any number of requests and hosts.  With it, what the arithmetic of  *)
(* message indexes guarantees of a published queue, for every index.       *)
(*                                                                         *)
(* Statistics: the contexts are conserved and never hold more answers than *)
(* they have room for, with any number of hosts, contexts and connection   *)
(* objects, although late fetches end in another round; and what is merged *)
(* is one whole round until a timer cuts a round off.                      *)
(***************************************************************************)
EXTENDS MqPublish, MqIndex, MqFetchStat, Lists

\* The inductive invariant: what the count depends on.  Only the timer of a
\* publish that asks can have fired.
CountInv ==
    /\ ref \in Nat
    /\ pc \in [Requests -> Pcs]
    /\ timeout \in [Requests -> BOOLEAN]
    /\ \A r \in Requests : timeout[r] => pc[r] \in {"asking", "done"}
    /\ RefWithinInTime

\* The publishes in time are finitely many.
LEMMA InTimeFinite ==
    /\ IsFiniteSet(InTime)
    /\ Cardinality(InTime) \in Nat
<1>1. IsFiniteSet(InTime)
  BY PublishAssumption, FS_Subset DEF InTime
<1>. QED BY <1>1, FS_CardinalityType

\* A publish that begins to ask is counted and in time.
LEMMA AskKeepsCount ==
    ASSUME CountInv, NEW r \in Requests, pc[r] \in {"new", "body"}, Ask(r),
           timeout' = timeout
    PROVE  CountInv'
<1>1. InTime' = InTime \cup {r} /\ r \notin InTime
  BY DEF CountInv, Ask, InTime
<1>2. Cardinality(InTime') = Cardinality(InTime) + 1
  BY <1>1, InTimeFinite, FS_AddElement
<1>3. RefWithinInTime'
  BY <1>2, InTimeFinite DEF CountInv, Ask, RefWithinInTime
<1>. QED BY <1>3 DEF CountInv, Ask, Pcs

\* A publish that does not ask may move where it does not ask either.
LEMMA ElsewhereKeepsCount ==
    ASSUME CountInv, NEW r \in Requests, pc[r] \in {"new", "body"},
           NEW p \in {"body", "done"}, pc' = [pc EXCEPT ![r] = p],
           UNCHANGED <<ref, timeout>>
    PROVE  CountInv'
<1>1. InTime' = InTime
  BY DEF CountInv, InTime
<1>2. RefWithinInTime'
  BY <1>1 DEF CountInv, RefWithinInTime
<1>. QED BY <1>2 DEF CountInv, Pcs

\* The end of a publish takes at most one off both, and off the count only
\* if it is not zero yet.
LEMMA EndKeepsCount ==
    ASSUME CountInv, NEW r \in Requests, pc[r] = "asking",
           pc' = [pc EXCEPT ![r] = "done"], DecRefCount, UNCHANGED timeout
    PROVE  CountInv'
<1>1. CASE timeout[r]
  <2>1. InTime' = InTime
    BY <1>1 DEF CountInv, InTime
  <2>. QED BY <2>1, InTimeFinite DEF CountInv, RefWithinInTime, DecRefCount, Pcs
<1>2. CASE ~timeout[r]
  <2>1. InTime' = InTime \ {r} /\ r \in InTime
    BY <1>2 DEF CountInv, InTime
  <2>2. Cardinality(InTime') = Cardinality(InTime) - 1
    BY <2>1, InTimeFinite, FS_RemoveElement
  <2>3. Cardinality(InTime') \in Nat
    BY <2>1, InTimeFinite, FS_RemoveElement, FS_CardinalityType
  <2>4. RefWithinInTime'
    BY <2>2, <2>3, InTimeFinite DEF CountInv, RefWithinInTime, DecRefCount
  <2>. QED BY <2>4 DEF CountInv, DecRefCount, Pcs
<1>. QED BY <1>1, <1>2

\* A timer empties the count.
LEMMA TimeoutKeepsCount ==
    ASSUME CountInv, NEW r \in Requests, PublishTimeout(r)
    PROVE  CountInv'
<1>1. IsFiniteSet(InTime')
  BY PublishAssumption, FS_Subset DEF InTime
<1>2. Cardinality(InTime') \in Nat
  BY <1>1, FS_CardinalityType
<1>3. RefWithinInTime'
  BY <1>2 DEF RefWithinInTime, PublishTimeout, ResetRefCount
<1>4. pc[r] = "asking" /\ pc' = pc
  BY DEF PublishTimeout, InTime
<1>. QED BY <1>3, <1>4 DEF CountInv, PublishTimeout, ResetRefCount

LEMMA CountInit == PublishInit => CountInv
<1> SUFFICES ASSUME PublishInit PROVE CountInv
  OBVIOUS
<1>. QED BY InTimeFinite DEF PublishInit, CountInv, RefWithinInTime, Pcs

LEMMA CountStep == CountInv /\ [PublishNext]_publishVars => CountInv'
<1> SUFFICES ASSUME CountInv, [PublishNext]_publishVars PROVE CountInv'
  OBVIOUS
<1>1. ASSUME NEW r \in Requests, Start(r) PROVE CountInv'
  <2>1. timeout' = timeout /\ pc[r] = "new"
    BY <1>1 DEF Start
  <2>2. CASE pc' = [pc EXCEPT ![r] = "done"] /\ ref' = ref
    BY <2>1, <2>2, ElsewhereKeepsCount
  <2>3. CASE Ask(r)
    BY <2>1, <2>3, AskKeepsCount
  <2>4. CASE pc' = [pc EXCEPT ![r] = "body"] /\ ref' = ref
    BY <2>1, <2>4, ElsewhereKeepsCount
  <2>. QED BY <1>1, <2>2, <2>3, <2>4 DEF Start
<1>2. ASSUME NEW r \in Requests, PostBody(r) PROVE CountInv'
  BY <1>2, AskKeepsCount DEF PostBody
<1>3. ASSUME NEW r \in Requests, BodyFails(r) PROVE CountInv'
  BY <1>3, ElsewhereKeepsCount DEF BodyFails
<1>4. ASSUME NEW r \in Requests, NEW ok \in BOOLEAN, PeerAnswers(r, ok) PROVE CountInv'
  <2>1. timeout' = timeout /\ pc[r] = "asking"
    BY <1>4 DEF PeerAnswers
  <2>2. CASE UNCHANGED <<ref, pc>>
    BY <2>1, <2>2 DEF CountInv, RefWithinInTime, InTime
  <2>3. CASE DecRefCount /\ pc' = [pc EXCEPT ![r] = "done"]
    BY <2>1, <2>3, EndKeepsCount
  <2>. QED BY <1>4, <2>2, <2>3 DEF PeerAnswers
<1>5. ASSUME NEW r \in Requests, PublishTimeout(r) PROVE CountInv'
  BY <1>5, TimeoutKeepsCount
<1>6. CASE HealthCheck
  BY <1>6 DEF HealthCheck, CountInv, RefWithinInTime, InTime
<1>7. CASE UNCHANGED publishVars
  BY <1>7 DEF publishVars, CountInv, RefWithinInTime, InTime
<1>. QED BY <1>1, <1>2, <1>3, <1>4, <1>5, <1>6, <1>7 DEF PublishNext

\* The reference count of a queue never exceeds the publishes in time
\* (__inc_ref_count, __dec_ref_count, __reset_ref_count).
THEOREM RefWithinInTimeAlways == PublishSpec => []RefWithinInTime
<1>1. CountInv => RefWithinInTime
  BY DEF CountInv
<1>. QED BY <1>1, CountInit, CountStep, PTL DEF PublishSpec
-----------------------------------------------------------------------------

\* The inductive invariant of the answers, for one publish.  Hosts are asked
\* in their order, so that none is asked twice: those that have the message
\* come before the one asked, and there are as many as were counted, or more
\* when the timer has stopped the counting.
Types ==
    /\ pc \in [Requests -> Pcs]
    /\ timeout \in [Requests -> BOOLEAN]
    /\ peers \in [Requests -> SUBSET Backends]
    /\ peer \in [Requests -> Nat]
    /\ count \in [Requests -> Nat]
    /\ answer \in [Requests -> [status : {0, 200, 404}, count : Nat]]
    /\ stored \in [Requests -> SUBSET Backends]

Asked(r) ==
    /\ pc[r] \in {"new", "body"} => count[r] = 0 /\ stored[r] = {}
    /\ pc[r] \in {"body", "asking"} =>
          peer[r] \in Backends /\ \A h \in stored[r] : h < peer[r]
    /\ count[r] <= Cardinality(stored[r])

Answered(r) ==
    answer[r].status = 200 =>
        /\ pc[r] = "done"
        /\ answer[r].count = 0 => stored[r] = Backends
        /\ answer[r].count <= Cardinality(stored[r])

AnswerInv == Types /\ \A r \in Requests : Asked(r) /\ Answered(r)

\* The hosts that have a message are finitely many, and all the hosts if as
\* many.
LEMMA StoredFinite ==
    ASSUME NEW S \in SUBSET Backends
    PROVE  /\ IsFiniteSet(S)
           /\ Cardinality(S) \in Nat
           /\ Cardinality(Backends) \in Nat
           /\ Cardinality(S) >= Cardinality(Backends) => S = Backends
<1>1. IsFiniteSet(Backends)
  BY PublishAssumption
<1>2. /\ IsFiniteSet(S)
      /\ Cardinality(S) <= Cardinality(Backends)
      /\ Cardinality(S) = Cardinality(Backends) => S = Backends
  BY <1>1, FS_Subset
<1>3. Cardinality(S) \in Nat /\ Cardinality(Backends) \in Nat
  BY <1>1, <1>2, FS_CardinalityType
<1>. QED BY <1>2, <1>3

\* The host asked first, or next, is one of the list that is alive.
LEMMA PeerIsHost ==
    ASSUME NEW hosts \in SUBSET Backends, Living(hosts) # {}
    PROVE  Min(Living(hosts)) \in hosts
<1>1. Living(hosts) \in SUBSET Nat /\ Living(hosts) \subseteq hosts
  BY PublishAssumption DEF Living
<1>. QED BY <1>1, MinIsMember

\* A step that touches one publish need only be looked at there.
LEMMA OnePublish ==
    ASSUME AnswerInv, NEW r \in Requests, Types', Asked(r)', Answered(r)',
           \A q \in Requests \ {r} :
              /\ pc'[q] = pc[q] /\ peer'[q] = peer[q] /\ count'[q] = count[q]
              /\ answer'[q] = answer[q] /\ stored'[q] = stored[q]
    PROVE  AnswerInv'
<1>1. ASSUME NEW q \in Requests PROVE Asked(q)' /\ Answered(q)'
  <2>1. CASE q = r
    BY <2>1
  <2>2. CASE q # r
    <3>1. Asked(q) /\ Answered(q)
      BY DEF AnswerInv
    <3>. QED BY <2>2, <3>1 DEF Asked, Answered
  <2>. QED BY <2>1, <2>2
<1>. QED BY <1>1 DEF AnswerInv

LEMMA AnswerInit == PublishInit => AnswerInv
<1> SUFFICES ASSUME PublishInit PROVE AnswerInv
  OBVIOUS
<1>1. Types
  BY DEF PublishInit, Types, Pcs, NoAnswer
<1>2. Cardinality({}) = 0
  BY FS_EmptySet
<1>3. ASSUME NEW r \in Requests PROVE Asked(r) /\ Answered(r)
  BY <1>2 DEF PublishInit, Asked, Answered, NoAnswer
<1>. QED BY <1>1, <1>3 DEF AnswerInv

\* The first host is asked when none has the message.
LEMMA StartKeepsAnswers ==
    ASSUME AnswerInv, NEW r \in Requests, Start(r)
    PROVE  AnswerInv'
<1>1. pc[r] = "new" /\ UNCHANGED <<count, timeout, answer, stored>>
  BY DEF Start
<1>2. Asked(r) /\ Answered(r) /\ Types
  BY DEF AnswerInv
<1>3. stored[r] = {} /\ count[r] = 0 /\ Cardinality({}) = 0
  BY <1>1, <1>2, FS_EmptySet DEF Asked
<1>4. CASE pc' = [pc EXCEPT ![r] = "done"] /\ UNCHANGED <<ref, peers, peer>>
  <2>1. Types'
    BY <1>1, <1>2, <1>4 DEF Types, Pcs
  <2>2. Asked(r)' /\ Answered(r)'
    BY <1>1, <1>2, <1>3, <1>4 DEF Types, Asked, Answered
  <2>. QED BY <1>1, <1>2, <1>4, <2>1, <2>2, OnePublish DEF Types
<1>5. CASE /\ \E hosts \in SUBSET Backends :
                 /\ Living(hosts) # {}
                 /\ peers' = [peers EXCEPT ![r] = hosts]
                 /\ peer' = [peer EXCEPT ![r] = Min(Living(hosts))]
           /\ \E p \in {"body", "asking"} : pc' = [pc EXCEPT ![r] = p]
  <2>1. PICK hosts \in SUBSET Backends :
                 /\ Living(hosts) # {}
                 /\ peers' = [peers EXCEPT ![r] = hosts]
                 /\ peer' = [peer EXCEPT ![r] = Min(Living(hosts))]
    BY <1>5
  <2>2. Min(Living(hosts)) \in Backends /\ Backends \subseteq Nat
    BY <2>1, PeerIsHost, PublishAssumption
  <2>3. PICK p \in {"body", "asking"} : pc' = [pc EXCEPT ![r] = p]
    BY <1>5
  <2>4. Types'
    BY <1>1, <1>2, <1>5, <2>1, <2>2, <2>3 DEF Types, Pcs
  <2>5. Asked(r)'
    BY <1>1, <1>2, <1>3, <2>1, <2>2, <2>3 DEF Types, Asked
  <2>6. Answered(r)'
    <3>1. answer[r].status # 200
      BY <1>1, <1>2 DEF Answered
    <3>. QED BY <1>1, <3>1 DEF Answered
  <2>. QED BY <1>1, <1>2, <1>5, <2>1, <2>3, <2>4, <2>5, <2>6, OnePublish DEF Types
<1>. QED BY <1>4, <1>5 DEF Start, Ask

\* A publish that moves between its first steps takes its host along.
LEMMA BodyKeepsAnswers ==
    ASSUME AnswerInv, NEW r \in Requests, pc[r] = "body",
           NEW p \in {"asking", "done"}, pc' = [pc EXCEPT ![r] = p],
           UNCHANGED <<context, timeout, answer, stored>>
    PROVE  AnswerInv'
<1>1. Asked(r) /\ Answered(r) /\ Types
  BY DEF AnswerInv
<1>2. Types'
  BY <1>1 DEF Types, Pcs, context
<1>3. Asked(r)' /\ Answered(r)'
  BY <1>1 DEF Types, Asked, Answered, context
<1>. QED BY <1>1, <1>2, <1>3, OnePublish DEF Types, context

\* A host that answers was not asked before: it is one more that has the
\* message, and is counted at most once.
LEMMA AnswerIsOneMore ==
    ASSUME AnswerInv, NEW r \in Requests, NEW ok \in BOOLEAN, PeerAnswers(r, ok)
    PROVE  /\ stored'[r] \in SUBSET Backends
           /\ \A h \in stored'[r] : h <= peer[r]
           /\ count'[r] \in Nat
           /\ count'[r] <= Cardinality(stored'[r])
<1>1. Asked(r) /\ Types /\ pc[r] = "asking"
  BY DEF AnswerInv, PeerAnswers
<1>2. peer[r] \in Backends /\ peer[r] \in Nat /\ \A h \in stored[r] : h < peer[r]
  BY <1>1, PublishAssumption DEF Asked
<1>3. stored[r] \in SUBSET Backends /\ count[r] \in Nat
      /\ count[r] <= Cardinality(stored[r])
  BY <1>1 DEF Types, Asked
<1>4. peer[r] \notin stored[r]
  BY <1>2
<1>5. stored'[r] = IF ok THEN stored[r] \cup {peer[r]} ELSE stored[r]
  BY <1>1 DEF Types, PeerAnswers
<1>6. count'[r] = Counted(r, ok)
  BY <1>1 DEF Types, PeerAnswers
<1>7. IsFiniteSet(stored[r]) /\ Cardinality(stored[r]) \in Nat
  BY <1>3, StoredFinite
<1>8. Cardinality(stored[r] \cup {peer[r]}) = Cardinality(stored[r]) + 1
  BY <1>4, <1>7, FS_AddElement
<1>9. /\ stored'[r] \in SUBSET Backends
      /\ \A h \in stored'[r] : h <= peer[r]
  <2>1. ASSUME NEW h \in stored[r] PROVE h <= peer[r] /\ h \in Backends
    <3>1. h \in Nat /\ h < peer[r] /\ h \in Backends
      BY <1>2, <1>3, PublishAssumption
    <3>. QED BY <3>1, <1>2
  <2>. QED BY <1>2, <1>5, <2>1
<1>10. count'[r] \in Nat /\ count'[r] <= Cardinality(stored'[r])
  BY <1>3, <1>5, <1>6, <1>7, <1>8 DEF Counted
<1>. QED BY <1>9, <1>10

\* The answer that ends a publish tells what was counted.
LEMMA HeaderTellsStored ==
    ASSUME NEW S \in SUBSET Backends, NEW n \in Nat, n > 0, n <= Cardinality(S)
    PROVE  /\ Header(n) \in Nat
           /\ Header(n) <= Cardinality(S)
           /\ Header(n) = 0 => S = Backends
BY StoredFinite DEF Header

LEMMA PeerAnswersKeepsAnswers ==
    ASSUME AnswerInv, NEW r \in Requests, NEW ok \in BOOLEAN, PeerAnswers(r, ok)
    PROVE  AnswerInv'
<1>1. Asked(r) /\ Answered(r) /\ Types /\ pc[r] = "asking"
  BY DEF AnswerInv, PeerAnswers
<1>2. /\ stored'[r] \in SUBSET Backends
      /\ \A h \in stored'[r] : h <= peer[r]
      /\ count'[r] \in Nat
      /\ count'[r] <= Cardinality(stored'[r])
  BY AnswerIsOneMore
<1>3. /\ stored' = [stored EXCEPT ![r] = stored'[r]]
      /\ count' = [count EXCEPT ![r] = count'[r]]
      /\ count'[r] = Counted(r, ok)
      /\ UNCHANGED <<peers, timeout>>
  BY <1>1 DEF Types, PeerAnswers
<1>4. CASE /\ Living(After(peers[r], peer[r])) # {}
           /\ peer' = [peer EXCEPT ![r] = Min(Living(After(peers[r], peer[r])))]
           /\ UNCHANGED <<ref, pc, answer>>
  <2>. DEFINE next == Min(Living(After(peers[r], peer[r])))
  <2>1. next \in After(peers[r], peer[r])
    <3>1. After(peers[r], peer[r]) \in SUBSET Backends
      BY <1>1 DEF Types, After
    <3>. QED BY <1>4, <3>1, PeerIsHost
  <2>2. peer' = [peer EXCEPT ![r] = next]
    BY <1>4
  <2>. HIDE DEF next
  <2>3. next \in Backends /\ next > peer[r] /\ next \in Nat /\ peer[r] \in Nat
    BY <1>1, <2>1, PublishAssumption DEF Types, After
  <2>4. Types'
    BY <1>1, <1>2, <1>3, <1>4, <2>2, <2>3 DEF Types
  <2>5. peer'[r] = next /\ pc'[r] = "asking"
    BY <1>1, <1>4, <2>2 DEF Types
  <2>6. ASSUME NEW h \in stored'[r] PROVE h < peer'[r]
    <3>1. h \in Nat /\ h <= peer[r]
      BY <1>2, PublishAssumption
    <3>. QED BY <3>1, <2>3, <2>5
  <2>7. Asked(r)'
    BY <1>2, <2>3, <2>5, <2>6 DEF Asked
  <2>8. Answered(r)'
    BY <1>1, <1>4 DEF Answered
  <2>. QED BY <1>1, <1>3, <1>4, <2>2, <2>4, <2>7, <2>8, OnePublish DEF Types
<1>5. CASE /\ pc' = [pc EXCEPT ![r] = "done"]
           /\ answer' = [answer EXCEPT ![r] =
                           IF Counted(r, ok) > 0
                           THEN [status |-> 200, count |-> Header(Counted(r, ok))]
                           ELSE NotFound]
           /\ UNCHANGED peer
  <2>1. count'[r] > 0 => /\ Header(count'[r]) \in Nat
                         /\ Header(count'[r]) <= Cardinality(stored'[r])
                         /\ Header(count'[r]) = 0 => stored'[r] = Backends
    BY <1>2, HeaderTellsStored
  <2>2. answer'[r] = IF count'[r] > 0
                     THEN [status |-> 200, count |-> Header(count'[r])]
                     ELSE NotFound
    BY <1>1, <1>3, <1>5 DEF Types
  <2>3. answer'[r] \in [status : {0, 200, 404}, count : Nat]
    BY <2>1, <2>2 DEF NotFound
  <2>4. Types'
    <3>1. answer' \in [Requests -> [status : {0, 200, 404}, count : Nat]]
      <4>1. \A q \in Requests \ {r} : answer'[q] = answer[q]
        BY <1>1, <1>5 DEF Types
      <4>. QED BY <1>1, <1>5, <2>3, <4>1 DEF Types
    <3>2. /\ pc' \in [Requests -> Pcs]
          /\ count' \in [Requests -> Nat]
          /\ stored' \in [Requests -> SUBSET Backends]
      BY <1>1, <1>2, <1>3, <1>5 DEF Types, Pcs
    <3>. QED BY <1>1, <1>3, <1>5, <3>1, <3>2 DEF Types
  <2>5. pc'[r] = "done"
    BY <1>1, <1>5 DEF Types
  <2>6. Asked(r)'
    BY <1>2, <2>5 DEF Asked
  <2>7. Answered(r)'
    BY <2>1, <2>2, <2>5 DEF Answered, NotFound
  <2>. QED BY <1>1, <1>3, <1>5, <2>4, <2>6, <2>7, OnePublish DEF Types
<1>. QED BY <1>4, <1>5 DEF PeerAnswers

LEMMA AnswerStep == AnswerInv /\ [PublishNext]_publishVars => AnswerInv'
<1> SUFFICES ASSUME AnswerInv, [PublishNext]_publishVars PROVE AnswerInv'
  OBVIOUS
<1>1. ASSUME NEW r \in Requests, Start(r) PROVE AnswerInv'
  BY <1>1, StartKeepsAnswers
<1>2. ASSUME NEW r \in Requests, PostBody(r) PROVE AnswerInv'
  BY <1>2, BodyKeepsAnswers DEF PostBody, Ask
<1>3. ASSUME NEW r \in Requests, BodyFails(r) PROVE AnswerInv'
  BY <1>3, BodyKeepsAnswers DEF BodyFails
<1>4. ASSUME NEW r \in Requests, NEW ok \in BOOLEAN, PeerAnswers(r, ok) PROVE AnswerInv'
  BY <1>4, PeerAnswersKeepsAnswers
<1>5. ASSUME NEW r \in Requests, PublishTimeout(r) PROVE AnswerInv'
  <2>1. Types'
    BY <1>5 DEF AnswerInv, Types, PublishTimeout, context
  <2>. QED BY <1>5, <2>1 DEF AnswerInv, Asked, Answered, PublishTimeout, context
<1>6. CASE HealthCheck
  BY <1>6 DEF HealthCheck, AnswerInv, Types, Asked, Answered, context
<1>7. CASE UNCHANGED publishVars
  BY <1>7 DEF publishVars, context, AnswerInv, Types, Asked, Answered
<1>. QED BY <1>1, <1>2, <1>3, <1>4, <1>5, <1>6, <1>7 DEF PublishNext

\* An answer of 200 without a count means that every host of the worker has
\* the message, one with a count that at least so many have it, whichever
\* hosts died, failed or answered after the timer
\* (hustmq_ha_publish_handler, __publish_response).
THEOREM AnswerCountsStoredAlways == PublishSpec => []AnswerCountsStored
<1>1. AnswerInv => AnswerCountsStored
  BY DEF AnswerInv, Answered, AnswerCountsStored
<1>. QED BY <1>1, AnswerInit, AnswerStep, PTL DEF PublishSpec

-----------------------------------------------------------------------------

\* One turn round the cycle at most, without the remainder.
LEMMA OneTurn ==
    ASSUME NEW x \in Nat, x < 2 * Cycle
    PROVE  x % Cycle = IF x < Cycle THEN x ELSE x - Cycle
<1>1. CASE x < Cycle
  BY SMT, <1>1 DEF Cycle
<1>2. CASE x >= Cycle
  BY SMT, <1>2 DEF Cycle
<1>. QED BY SMT, <1>1, <1>2 DEF Cycle

LEMMA AdvanceValue ==
    ASSUME NEW i \in Index, NEW n \in Nat, n <= MaxItems
    PROVE  /\ Advance(i, n) \in Index
           /\ Advance(i, n) = IF i + n < Cycle THEN i + n ELSE i + n - Cycle
<1>1. i + n \in Nat /\ i + n < 2 * Cycle
  BY SMT DEF Index, Cycle, MaxItems
<1>2. Advance(i, n) = IF i + n < Cycle THEN i + n ELSE i + n - Cycle
  BY SMT, <1>1, OneTurn DEF Advance, Index, Cycle, MaxItems
<1>. QED BY SMT, <1>2 DEF Index, Cycle, MaxItems

\* The distance that is computed is the distance that was gone.
LEMMA CycleIsDistance ==
    ASSUME NEW i \in Index, NEW n \in Nat, n <= MaxItems
    PROVE  GetIdxCycle(i, Advance(i, n)) = n
BY SMT, AdvanceValue DEF GetIdxCycle, Index, Cycle, MaxItems

\* The index before a later one.
LEMMA Before ==
    ASSUME NEW i \in Index, NEW k \in Nat, 0 < k, k <= MaxItems
    PROVE  (Advance(i, k) + Cycle - 1) % Cycle = Advance(i, k - 1)
<1>1. /\ Advance(i, k) \in Index
      /\ Advance(i, k) = IF i + k < Cycle THEN i + k ELSE i + k - Cycle
  BY SMT, AdvanceValue DEF MaxItems
<1>2. Advance(i, k - 1) = IF i + (k - 1) < Cycle THEN i + (k - 1) ELSE i + (k - 1) - Cycle
  <2>1. k - 1 \in Nat /\ k - 1 <= MaxItems
    BY SMT DEF Cycle, MaxItems
  <2>. QED BY SMT, <2>1, AdvanceValue
<1>3. DEFINE x == Advance(i, k) + Cycle - 1
<1>4. x \in Nat /\ x < 2 * Cycle
  BY SMT, <1>1 DEF Index, Cycle
<1>5. x % Cycle = IF x < Cycle THEN x ELSE x - Cycle
  BY SMT, <1>4, OneTurn
<1>. QED BY SMT, <1>1, <1>2, <1>5 DEF Index, Cycle, MaxItems

\* No message that a host has is refused, on either side of the wrap: a
\* subscriber that asks for it is sent to the host (__build_sub_peer_list).
THEOREM WindowIsAccepted ==
    ASSUME NEW si \in Index, NEW n \in Nat, n <= MaxItems, NEW k \in 1 .. n
    PROVE  IdxCheck(Advance(si, k), si, Advance(si, n))
<1>1. GetIdxCycle(si, Advance(si, n)) = n /\ GetIdxCycle(si, Advance(si, k)) = k
  BY SMT, CycleIsDistance DEF MaxItems
<1>2. Advance(si, n) = Advance(Advance(si, k - 1), n - k + 1) /\ Advance(si, k - 1) \in Index
  <2>1. /\ k - 1 \in Nat /\ k - 1 <= MaxItems
        /\ n - k + 1 \in Nat /\ n - k + 1 <= MaxItems
    BY SMT DEF Cycle, MaxItems
  <2>2. /\ Advance(si, k - 1) \in Index
        /\ Advance(si, k - 1) = IF si + (k - 1) < Cycle THEN si + (k - 1) ELSE si + (k - 1) - Cycle
    BY SMT, <2>1, AdvanceValue
  <2>3. Advance(Advance(si, k - 1), n - k + 1) =
            IF Advance(si, k - 1) + (n - k + 1) < Cycle THEN Advance(si, k - 1) + (n - k + 1)
            ELSE Advance(si, k - 1) + (n - k + 1) - Cycle
    BY SMT, <2>1, <2>2, AdvanceValue
  <2>4. Advance(si, n) = IF si + n < Cycle THEN si + n ELSE si + n - Cycle
    BY SMT, AdvanceValue
  <2>. QED BY SMT, <2>2, <2>3, <2>4 DEF Index, Cycle, MaxItems
<1>3. GetIdxCycle(Advance(si, k - 1), Advance(si, n)) = n - k + 1
  BY SMT, <1>2, CycleIsDistance DEF MaxItems
<1>4. (Advance(si, k) + Cycle - 1) % Cycle = Advance(si, k - 1)
  BY SMT, Before DEF MaxItems
<1>. QED BY SMT, <1>1, <1>3, <1>4 DEF IdxCheck, MaxItems

\* In the part of the cycle that does not wrap nothing else is accepted.
THEOREM OnlyWindowIsAccepted ==
    ASSUME NEW si \in Index, NEW ci \in Index, NEW idx \in Index,
           si <= MaxItems, idx <= MaxItems + 1, IdxCheck(idx, si, ci)
    PROVE  si < idx /\ idx <= ci
<1>1. si < idx
  BY SMT DEF IdxCheck, GetIdxCycle, Index, Cycle, MaxItems
<1>2. (idx + Cycle - 1) % Cycle = idx - 1
  <2>1. idx + Cycle - 1 \in Nat /\ idx + Cycle - 1 < 2 * Cycle /\ idx + Cycle - 1 >= Cycle
    BY SMT, <1>1 DEF Index, Cycle, MaxItems
  <2>2. (idx + Cycle - 1) % Cycle = idx + Cycle - 1 - Cycle
    BY SMT, <2>1, OneTurn DEF Index, Cycle
  <2>. QED BY SMT, <2>2 DEF Index, Cycle
<1>3. idx <= ci
  BY SMT, <1>1, <1>2 DEF IdxCheck, GetIdxCycle, Index, Cycle, MaxItems
<1>. QED BY SMT, <1>1, <1>3

\* Of two consistent indexes less than MaxItems apart the one that is ahead is
\* the greater, on either side of the wrap (__merge_idx keeps the later one).
THEOREM AheadIsGreater ==
    ASSUME NEW i \in Index, NEW n \in Nat, 0 < n, n < MaxItems
    PROVE  GreaterThan(Advance(i, n), i) /\ ~GreaterThan(i, Advance(i, n))
<1>1. Advance(i, n) = IF i + n < Cycle THEN i + n ELSE i + n - Cycle
  BY SMT, AdvanceValue DEF MaxItems
<1>. QED BY SMT, <1>1 DEF GreaterThan, Index, Cycle, MaxItems

\* Further on that is not so: an index beyond the last message is accepted
\* there, and the host is asked for a message it does not have yet.
THEOREM BeyondIsAcceptedLater ==
    ASSUME NEW si \in Index, NEW ci \in Index, NEW idx \in Index,
           si < ci, ci + 1 < idx, MaxItems + 1 < idx
    PROVE  IdxCheck(idx, si, ci)
<1>1. idx + Cycle - 1 \in Nat /\ idx + Cycle - 1 < 2 * Cycle /\ idx + Cycle - 1 >= Cycle
  BY SMT DEF Index, Cycle, MaxItems
<1>2. (idx + Cycle - 1) % Cycle = idx - 1
  <2>1. (idx + Cycle - 1) % Cycle = idx + Cycle - 1 - Cycle
    BY SMT, <1>1, OneTurn DEF Index, Cycle
  <2>. QED BY SMT, <2>1 DEF Index, Cycle
<1>. QED BY SMT, <1>2 DEF IdxCheck, GetIdxCycle, Index, Cycle, MaxItems

-----------------------------------------------------------------------------
(* Rounds of fetches (MqFetchStat).                                        *)

\* The array has room for each host.
Room == Cardinality(Hosts)

\* A round that has begun to gather has seen at least as many fetches end as it
\* has gathered, and is not over.  One that has gathered nothing may be over
\* already: the fetches of its hosts all ended in the loop that started them, and
\* it waits for its timer or for a late fetch.
RoundInv(x) ==
    /\ {"requests", "finished", "stats", "timer_set", "round"} \subseteq DOMAIN x
    /\ x.requests \in Nat /\ x.requests <= Room
    /\ x.finished \in Nat
    /\ \E S : x.stats \in Seq(S)
    /\ Len(x.stats) <= Room
    /\ x.timer_set /\ x.stats # <<>> => Len(x.stats) <= x.finished /\ x.finished < x.requests

\* The inductive invariant has two parts.  Every context is such a round, and a
\* fetch comes from a host, so that there is one.
FitInv ==
    /\ DOMAIN ctx = Contexts
    /\ \A c \in Contexts : RoundInv(ctx[c])
    /\ \A f \in fetches : f.ctx \in Contexts /\ f.host \in Hosts

\* The contexts whose timer is set are busy, and the others are free, once each.
PoolInv ==
    /\ busy = {c \in Contexts : ctx[c].timer_set}
    /\ free \in Seq(Contexts)
    /\ \A i, j \in DOMAIN free : free[i] = free[j] => i = j
    /\ {free[i] : i \in DOMAIN free} = Contexts \ busy
    /\ Cardinality(busy) + Len(free) = Cardinality(Contexts)

LEMMA RoomIsNat == IsFiniteSet(Hosts) /\ Room \in Nat
BY FetchStatAssumption, FS_CardinalityType DEF Room

LEMMA PartOfHosts ==
    ASSUME NEW T \in SUBSET Hosts
    PROVE  Cardinality(T) \in Nat /\ Cardinality(T) <= Room
<1>1. IsFiniteSet(T) /\ Cardinality(T) <= Room
  BY RoomIsNat, FS_Subset DEF Room
<1>. QED BY <1>1, FS_CardinalityType

LEMMA FitInvInit == Init => FitInv
<1>. SUFFICES ASSUME Init PROVE FitInv
  OBVIOUS
<1>1. RoundInv(NoCtx)
  <2>1. <<>> \in Seq({}) /\ Len(<<>>) = 0
    OBVIOUS
  <2>. QED BY <2>1, RoomIsNat DEF NoCtx, RoundInv
<1>. QED BY <1>1 DEF Init, FitInv

LEMMA BusyFinite == ASSUME NEW S \in SUBSET Contexts PROVE IsFiniteSet(S) /\ Cardinality(S) \in Nat
<1>1. IsFiniteSet(S)
  BY FetchStatAssumption, FS_Subset
<1>. QED BY <1>1, FS_CardinalityType

\* The head of the free contexts is armed.
LEMMA TakeKeepsPool ==
    ASSUME PoolInv, free # <<>>, DOMAIN ctx = Contexts,
           busy' = busy \cup {Head(free)}, free' = Tail(free),
           DOMAIN ctx' = Contexts, ctx'[Head(free)].timer_set = TRUE,
           \A d \in Contexts \ {Head(free)} : ctx'[d].timer_set = ctx[d].timer_set
    PROVE  PoolInv'
<1>. DEFINE c == Head(free)
<1>1. c \in Contexts \ busy /\ c = free[1] /\ 1 \in DOMAIN free
  BY DEF PoolInv
<1>2. busy' = {d \in Contexts : ctx'[d].timer_set}
  BY <1>1 DEF PoolInv
<1>3. /\ free' \in Seq(Contexts) /\ Len(free') = Len(free) - 1
      /\ DOMAIN free' = 1 .. Len(free) - 1 /\ DOMAIN free = 1 .. Len(free)
      /\ \A i \in 1 .. Len(free) - 1 : free'[i] = free[i + 1] /\ i + 1 \in DOMAIN free
  BY DEF PoolInv
<1>4. \A i, j \in DOMAIN free' : free'[i] = free'[j] => i = j
  BY <1>3 DEF PoolInv
<1>5. {free'[i] : i \in DOMAIN free'} = Contexts \ busy'
  <2>1. \A i \in DOMAIN free' : free'[i] \in Contexts \ busy /\ free'[i] # c
    BY <1>1, <1>3 DEF PoolInv
  <2>2. ASSUME NEW d \in Contexts \ busy, d # c
        PROVE  \E i \in DOMAIN free' : free'[i] = d
    <3>1. PICK i \in DOMAIN free : free[i] = d
      BY DEF PoolInv
    <3>2. i - 1 \in DOMAIN free' /\ free'[i - 1] = d
      BY <1>1, <1>3, <2>2, <3>1
    <3>. QED BY <3>2
  <2>. HIDE DEF c
  <2>. QED BY <2>1, <2>2 DEF c
<1>6. Cardinality(busy') = Cardinality(busy) + 1 /\ Cardinality(busy) \in Nat
  <2>1. busy \in SUBSET Contexts
    BY DEF PoolInv
  <2>2. IsFiniteSet(busy) /\ Cardinality(busy) \in Nat
    BY <2>1, BusyFinite
  <2>3. busy' = busy \cup {c} /\ c \notin busy
    BY <1>1
  <2>. HIDE DEF c
  <2>. QED BY <2>2, <2>3, FS_AddElement
<1>7. Cardinality(busy') + Len(free') = Cardinality(Contexts)
  BY <1>3, <1>6 DEF PoolInv
<1>. QED BY <1>2, <1>3, <1>4, <1>5, <1>7 DEF PoolInv

\* A context whose round is over becomes the head of the free ones.
LEMMA ReuseKeepsPool ==
    ASSUME PoolInv, NEW c \in Contexts, ctx[c].timer_set, DOMAIN ctx = Contexts,
           ReuseItem(c), DOMAIN ctx' = Contexts, ctx'[c].timer_set = FALSE,
           \A d \in Contexts \ {c} : ctx'[d].timer_set = ctx[d].timer_set
    PROVE  PoolInv'
<1>1. c \in busy
  BY DEF PoolInv
<1>2. busy' = {d \in Contexts : ctx'[d].timer_set}
  BY DEF PoolInv, ReuseItem
<1>3. /\ free' \in Seq(Contexts) /\ Len(free') = Len(free) + 1
      /\ DOMAIN free' = 1 .. Len(free) + 1 /\ DOMAIN free = 1 .. Len(free)
      /\ free'[1] = c
      /\ \A i \in 1 .. Len(free) : free'[i + 1] = free[i]
      /\ \A i \in 2 .. Len(free) + 1 : free'[i] = free[i - 1] /\ i - 1 \in DOMAIN free
      /\ Len(free) \in Nat
  BY DEF PoolInv, ReuseItem
<1>4. \A i \in 2 .. Len(free) + 1 : free'[i] # c
  <2>1. \A i \in DOMAIN free : free[i] # c
    BY <1>1 DEF PoolInv
  <2>2. ASSUME NEW i \in 2 .. Len(free) + 1 PROVE free'[i] # c
    <3>1. free'[i] = free[i - 1] /\ i - 1 \in DOMAIN free
      BY <1>3
    <3>. QED BY <2>1, <3>1
  <2>. QED BY <2>2
<1>5. \A i, j \in DOMAIN free' : free'[i] = free'[j] => i = j
  <2>. SUFFICES ASSUME NEW i \in DOMAIN free', NEW j \in DOMAIN free', free'[i] = free'[j]
                PROVE  i = j
    OBVIOUS
  <2>1. CASE i = 1 \/ j = 1
    BY <2>1, <1>3, <1>4
  <2>2. CASE i # 1 /\ j # 1
    <3>1. free[i - 1] = free[j - 1] /\ i - 1 \in DOMAIN free /\ j - 1 \in DOMAIN free
      BY <2>2, <1>3
    <3>2. i - 1 = j - 1
      BY <3>1 DEF PoolInv
    <3>. QED BY <3>2, <1>3
  <2>. QED BY <2>1, <2>2
<1>6. {free'[i] : i \in DOMAIN free'} = Contexts \ busy'
  <2>1. busy' = busy \ {c}
    BY DEF ReuseItem
  <2>2. ASSUME NEW i \in DOMAIN free' PROVE free'[i] \in Contexts \ busy'
    <3>1. CASE i = 1
      BY <3>1, <2>1, <1>3
    <3>2. CASE i # 1
      <4>1. free'[i] = free[i - 1] /\ i - 1 \in DOMAIN free
        BY <3>2, <1>3
      <4>2. free[i - 1] \in Contexts \ busy
        BY <4>1 DEF PoolInv
      <4>. QED BY <4>1, <4>2, <2>1
    <3>. QED BY <3>1, <3>2
  <2>3. ASSUME NEW d \in Contexts \ busy' PROVE \E i \in DOMAIN free' : free'[i] = d
    <3>1. CASE d = c
      BY <3>1, <1>3
    <3>2. CASE d # c
      <4>1. PICK i \in DOMAIN free : free[i] = d
        BY <3>2, <2>1 DEF PoolInv
      <4>2. i + 1 \in DOMAIN free' /\ free'[i + 1] = d
        BY <4>1, <1>3
      <4>. QED BY <4>2
    <3>. QED BY <3>1, <3>2
  <2>. QED BY <2>2, <2>3
<1>7. Cardinality(busy') = Cardinality(busy) - 1 /\ Cardinality(busy) \in Nat
  <2>1. busy \in SUBSET Contexts /\ busy' = busy \ {c}
    BY DEF PoolInv, ReuseItem
  <2>2. IsFiniteSet(busy) /\ Cardinality(busy) \in Nat
    BY <2>1, BusyFinite
  <2>. QED BY <1>1, <2>1, <2>2, FS_RemoveElement
<1>8. Cardinality(busy') + Len(free') = Cardinality(Contexts)
  BY <1>3, <1>7 DEF PoolInv
<1>. QED BY <1>2, <1>3, <1>5, <1>6, <1>8 DEF PoolInv

\* Nothing happens to the pool while no timer is set or cleared.
LEMMA SameTimersKeepPool ==
    ASSUME PoolInv, UNCHANGED <<busy, free>>, DOMAIN ctx' = Contexts,
           \A d \in Contexts : ctx'[d].timer_set = ctx[d].timer_set
    PROVE  PoolInv'
BY DEF PoolInv

\* The same, said of the contexts whose timer is set.
LEMMA SamePoolStays ==
    ASSUME PoolInv, UNCHANGED <<busy, free>>, busy' = {d \in Contexts : ctx'[d].timer_set}
    PROVE  PoolInv'
<1>1. (busy = {d \in Contexts : ctx[d].timer_set})'
  OBVIOUS
<1>2. /\ free' \in Seq(Contexts)
      /\ \A i, j \in DOMAIN free' : free'[i] = free'[j] => i = j
      /\ {free'[i] : i \in DOMAIN free'} = Contexts \ busy'
  BY DEF PoolInv
<1>3. Cardinality(busy') + Len(free') = Cardinality(Contexts)
  BY DEF PoolInv
<1>. QED BY <1>1, <1>2, <1>3 DEF PoolInv

LEMMA PoolInvInit == Init => PoolInv
<1>. SUFFICES ASSUME Init PROVE PoolInv
  OBVIOUS
<1>. DEFINE n == Cardinality(Contexts)
<1>1. n \in Nat /\ ExistsBijection(1 .. n, Contexts)
  BY FetchStatAssumption, FS_CardinalityType
<1>2. \E f \in [1 .. n -> Contexts] : IsInjective(f)
  BY <1>1 DEF ExistsBijection, Bijection, Injection
<1>3. free \in [1 .. n -> Contexts] /\ IsInjective(free)
  BY <1>2 DEF Init, SetToSeq
<1>4. {free[i] : i \in 1 .. n} = Contexts
  <2>. DEFINE T == {free[i] : i \in 1 .. n}
  <2>1. free \in Bijection(1 .. n, T)
    BY <1>3 DEF Bijection, Injection, Surjection, IsInjective
  <2>2. Cardinality(T) = n
    BY <1>1, <2>1, FS_CountingElements DEF ExistsBijection
  <2>3. T \in SUBSET Contexts
    BY <1>3
  <2>. HIDE DEF T
  <2>. QED BY <2>2, <2>3, FetchStatAssumption, FS_Subset DEF T
<1>5. busy = {} /\ busy = {c \in Contexts : ctx[c].timer_set}
  BY DEF Init, NoCtx
<1>6. free \in Seq(Contexts) /\ Len(free) = n
  BY <1>1, <1>3
<1>. QED BY <1>1, <1>3, <1>4, <1>5, <1>6, FS_EmptySet DEF PoolInv, IsInjective

-----------------------------------------------------------------------------

\* A round begins with nothing gathered.
LEMMA ActivateFits == ASSUME FitInv, PoolInv, Activate PROVE FitInv' /\ PoolInv'
<1>1. CASE free = <<>>
  BY <1>1, SameTimersKeepPool DEF Activate, FitInv
<1>2. CASE free # <<>>
  <2>. DEFINE c == Head(free)
  <2>1. PICK out \in [Hosts -> Outcome], over \in BOOLEAN :
          /\ ctx' = [ctx EXCEPT ![c] =
               [Reset(c) EXCEPT !.requests = @ - Cardinality({h \in Hosts : out[h] = "refused"}),
                                !.finished = @ + Cardinality({h \in Hosts : out[h] = "ended"}),
                                !.timer_set = ~over]]
          /\ fetches' = fetches \cup
               {[ctx |-> c, round |-> round + 1, host |-> h] : h \in {h \in Hosts : out[h] = "started"}}
          /\ IF over THEN UNCHANGED <<busy, free>>
             ELSE busy' = busy \cup {c} /\ free' = Tail(free)
    BY <1>2 DEF Activate
  <2>. DEFINE refused == Cardinality({h \in Hosts : out[h] = "refused"})
              ended   == Cardinality({h \in Hosts : out[h] = "ended"})
              x == [Reset(c) EXCEPT !.requests = @ - refused, !.finished = @ + ended,
                                    !.timer_set = ~over]
  <2>2. refused \in Nat /\ refused <= Room /\ ended \in Nat
    BY PartOfHosts
  <2>3. /\ {"requests", "finished", "stats", "timer_set", "round"} \subseteq DOMAIN x
        /\ x.requests = Room - refused /\ x.finished = 0 + ended /\ x.stats = <<>>
        /\ x.timer_set = ~over
    BY DEF Reset, Room
  <2>4. RoundInv(x)
    <3>. HIDE DEF x, refused, ended
    <3>1. <<>> \in Seq({}) /\ Len(<<>>) = 0
      OBVIOUS
    <3>. QED BY <2>2, <2>3, <3>1, RoomIsNat DEF RoundInv
  <2>5. ctx' = [ctx EXCEPT ![c] = x]
    BY <2>1
  <2>. c \in Contexts \ busy
    BY <1>2 DEF PoolInv
  <2>6. \A f \in fetches' : f.ctx \in Contexts /\ f.host \in Hosts
    BY <2>1 DEF FitInv
  <2>7. DOMAIN ctx' = Contexts /\ ctx'[c] = x /\ \A d \in Contexts \ {c} : ctx'[d] = ctx[d]
    <3>. HIDE DEF x, c
    <3>. QED BY <2>5 DEF FitInv
  <2>8. FitInv'
    <3>. HIDE DEF x, c
    <3>. QED BY <2>4, <2>6, <2>7 DEF FitInv
  <2>9. PoolInv'
    <3>1. CASE over
      <4>1. ~ctx[c].timer_set /\ ~x.timer_set
        BY <3>1, <2>3 DEF PoolInv
      <4>2. busy' = {d \in Contexts : ctx'[d].timer_set}
        <5>. HIDE DEF x, c
        <5>. QED BY <3>1, <4>1, <2>1, <2>7 DEF PoolInv
      <4>3. UNCHANGED <<busy, free>>
        BY <3>1, <2>1
      <4>. QED BY <4>2, <4>3, SamePoolStays
    <3>2. CASE ~over
      <4>1. x.timer_set = TRUE
        BY <3>2, <2>3
      <4>. HIDE DEF x
      <4>. QED BY <1>2, <3>2, <4>1, <2>1, <2>7, TakeKeepsPool DEF FitInv
    <3>. QED BY <3>1, <3>2, <2>1
  <2>. QED BY <2>8, <2>9
<1>. QED BY <1>1, <1>2

\* A fetch that ends adds at most what there is room for.
LEMMA PostUpstreamFits ==
    ASSUME FitInv, PoolInv, NEW f \in fetches, NEW ok \in BOOLEAN, PostUpstream(f, ok)
    PROVE  FitInv' /\ PoolInv'
<1>. DEFINE c == f.ctx
            x == ctx[c]
            finished == x.finished + 1
            stats == IF ok THEN Append(x.stats, [round |-> f.round, host |-> f.host]) ELSE x.stats
<1>1. fetches' = fetches \ {f}
  BY DEF PostUpstream
<1>2. c \in Contexts
  BY DEF FitInv
<1>3. FitInv' /\ PoolInv'
  <2>1. RoundInv(x) /\ Room >= 1
    <3>1. {f.host} \in SUBSET Hosts
      BY DEF FitInv
    <3>2. Cardinality({f.host}) <= Room
      BY <3>1, PartOfHosts
    <3>3. Cardinality({f.host}) = 1
      BY FS_Singleton
    <3>. QED BY <1>2, <3>2, <3>3, RoomIsNat DEF FitInv
  <2>2. /\ \E S : stats \in Seq(S)
        /\ Len(stats) \in Nat
        /\ Len(stats) <= Len(x.stats) + 1
        /\ x.stats = <<>> => Len(stats) <= 1
    <3>1. PICK S : x.stats \in Seq(S)
      BY <2>1 DEF RoundInv
    <3>. DEFINE e == [round |-> f.round, host |-> f.host]
    <3>2. x.stats \in Seq(S \cup {e})
      BY <3>1
    <3>3. Append(x.stats, e) \in Seq(S \cup {e}) /\ Len(Append(x.stats, e)) = Len(x.stats) + 1
      BY <3>2
    <3>4. Len(x.stats) \in Nat /\ (x.stats = <<>> => Len(x.stats) = 0)
      BY <3>1
    <3>. HIDE DEF x, e
    <3>5. CASE ok
      BY <3>5, <3>3, <3>4 DEF e
    <3>6. CASE ~ok
      BY <3>6, <3>1, <3>4
    <3>. QED BY <3>5, <3>6
  <2>3. PICK y : /\ RoundInv(y) /\ ctx' = [ctx EXCEPT ![c] = y]
                /\ \/ y.timer_set = x.timer_set /\ UNCHANGED <<busy, free>>
                   \/ x.timer_set /\ y.timer_set = FALSE /\ ReuseItem(c)
    <3>1. CASE /\ ~x.timer_set /\ ctx' = [ctx EXCEPT ![c].finished = finished]
               /\ UNCHANGED <<busy, free>>
      <4>. DEFINE y == [x EXCEPT !.finished = finished]
      <4>1. RoundInv(y)
        BY <2>1, <3>1 DEF RoundInv
      <4>2. ctx' = [ctx EXCEPT ![c] = y]
        BY <3>1
      <4>3. y.timer_set = x.timer_set
        OBVIOUS
      <4>. HIDE DEF y
      <4>. QED BY <3>1, <4>1, <4>2, <4>3
    <3>2. CASE /\ x.timer_set /\ ~RoundOver(finished, x.requests)
               /\ ctx' = [ctx EXCEPT ![c].finished = finished, ![c].stats = stats]
               /\ UNCHANGED <<busy, free>>
      <4>. DEFINE y == [x EXCEPT !.finished = finished, !.stats = stats]
      <4>1. finished < x.requests
        BY <2>1, <3>2 DEF RoundOver, RoundInv
      <4>2. RoundInv(y)
        <5>. HIDE DEF stats
        <5>. QED BY <2>1, <2>2, <3>2, <4>1, RoomIsNat DEF RoundInv
      <4>3. ctx' = [ctx EXCEPT ![c] = y]
        BY <3>2
      <4>4. y.timer_set = x.timer_set
        OBVIOUS
      <4>. HIDE DEF y
      <4>. QED BY <3>2, <4>2, <4>3, <4>4
    <3>3. CASE /\ x.timer_set /\ RoundOver(finished, x.requests)
               /\ ctx' = [ctx EXCEPT ![c].finished = finished, ![c].stats = stats,
                                     ![c].timer_set = FALSE]
               /\ ReuseItem(c)
      <4>. DEFINE y == [x EXCEPT !.finished = finished, !.stats = stats, !.timer_set = FALSE]
      <4>1. RoundInv(y)
        <5>. HIDE DEF stats
        <5>1. Len(stats) <= Room
          BY <2>1, <2>2, <3>3, RoomIsNat DEF RoundInv
        <5>2. /\ {"requests", "finished", "stats", "timer_set", "round"} \subseteq DOMAIN y
              /\ y.requests = x.requests /\ y.finished = finished /\ y.stats = stats
              /\ y.timer_set = FALSE
          BY <2>1 DEF RoundInv
        <5>. HIDE DEF y
        <5>. QED BY <2>1, <2>2, <5>1, <5>2 DEF RoundInv
      <4>2. ctx' = [ctx EXCEPT ![c] = y]
        BY <3>3
      <4>3. y.timer_set = FALSE
        BY <2>1 DEF RoundInv
      <4>. HIDE DEF y
      <4>. QED BY <3>3, <4>1, <4>2, <4>3
    <3>. QED BY <3>1, <3>2, <3>3 DEF PostUpstream, Finalize
  <2>4. /\ DOMAIN ctx = Contexts /\ DOMAIN ctx' = Contexts /\ ctx'[c] = y
        /\ \A d \in Contexts \ {c} : ctx'[d] = ctx[d]
    BY <1>2, <2>3 DEF FitInv
  <2>5. FitInv'
    <3>. HIDE DEF c
    <3>. QED BY <1>1, <2>3, <2>4 DEF FitInv
  <2>6. PoolInv'
    <3>1. CASE y.timer_set = x.timer_set /\ UNCHANGED <<busy, free>>
      <4>. HIDE DEF c
      <4>. QED BY <3>1, <2>4, SameTimersKeepPool DEF c
    <3>2. CASE x.timer_set /\ y.timer_set = FALSE /\ ReuseItem(c)
      BY <1>2, <3>2, <2>4, ReuseKeepsPool
    <3>. QED BY <2>3, <3>1, <3>2
  <2>. QED BY <2>5, <2>6
<1>. QED BY <1>3

LEMMA FetchTimeoutFits ==
    ASSUME FitInv, PoolInv, NEW c \in Contexts, FetchTimeout(c)
    PROVE  FitInv' /\ PoolInv'
<1>. DEFINE x == [ctx[c] EXCEPT !.timer_set = FALSE]
<1>1. RoundInv(x) /\ x.timer_set = FALSE
  BY DEF FitInv, RoundInv
<1>2. ctx' = [ctx EXCEPT ![c] = x] /\ fetches' = fetches
  BY DEF FetchTimeout
<1>3. ctx[c].timer_set /\ ReuseItem(c)
  BY DEF FetchTimeout, Finalize
<1>. HIDE DEF x
<1>4. /\ DOMAIN ctx = Contexts /\ DOMAIN ctx' = Contexts /\ ctx'[c] = x
      /\ \A d \in Contexts \ {c} : ctx'[d] = ctx[d]
  BY <1>2 DEF FitInv
<1>5. FitInv'
  BY <1>1, <1>2, <1>4 DEF FitInv
<1>6. PoolInv'
  BY <1>1, <1>3, <1>4, ReuseKeepsPool
<1>. QED BY <1>5, <1>6

LEMMA RoundsInvNext == FitInv /\ PoolInv /\ [Next]_vars => FitInv' /\ PoolInv'
<1>. SUFFICES ASSUME FitInv, PoolInv, [Next]_vars PROVE FitInv' /\ PoolInv'
  OBVIOUS
<1>1. CASE UNCHANGED vars
  BY <1>1 DEF vars, FitInv, PoolInv
<1>. QED BY <1>1, ActivateFits, PostUpstreamFits, FetchTimeoutFits DEF Next

\* For any hosts, contexts and connection objects, contexts are taken and come
\* back once, and none ever holds more answers than there are hosts
\* (__post_upstream writes to ctx->stats.arr at the number of answers it has).
THEOREM RoundsSoundAlways == Spec => []RoundsSound
<1>1. FitInv /\ PoolInv => RoundsSound
  <2>. SUFFICES ASSUME FitInv, PoolInv PROVE RoundsSound
    OBVIOUS
  <2>1. StatsFit
    BY DEF FitInv, RoundInv, StatsFit, Room
  <2>2. Range(free) = Contexts \ busy
    BY DEF PoolInv, Range
  <2>3. ContextsConserved
    BY <2>2 DEF PoolInv, ContextsConserved
  <2>. QED BY <2>1, <2>3 DEF RoundsSound
<1>. QED BY <1>1, FitInvInit, PoolInvInit, RoundsInvNext, PTL DEF Spec

-----------------------------------------------------------------------------

\* The fetches that will end in a context.
Of(c) == {f \in fetches : f.ctx = c}

\* What is gathered is of one round, has no host twice, and none that is still
\* being fetched from.
Gathers(stats, n, fs) ==
    \A i \in DOMAIN stats :
        /\ stats[i].round = n
        /\ \A f \in fs : f.host # stats[i].host
        /\ \A j \in DOMAIN stats : i # j => stats[i].host # stats[j].host

\* While no timer has fired a context has the fetches of its own round only, and
\* they are those its numbers still wait for.
RoundWhole(c) ==
    /\ ctx[c].round \in Nat /\ ctx[c].round <= round
    /\ \A f \in Of(c) : f.round = ctx[c].round
    /\ ctx[c].timer_set => ctx[c].finished + Cardinality(Of(c)) = ctx[c].requests
    /\ ~ctx[c].timer_set => Of(c) = {}
    /\ Gathers(ctx[c].stats, ctx[c].round, Of(c))

RoundsDiffer ==
    \A c, d \in Contexts : c # d /\ ctx[c].timer_set /\ ctx[d].timer_set =>
        ctx[c].round # ctx[d].round

\* The inductive invariant of what is merged.
WholeInv ==
    /\ round \in Nat /\ timeouts \in Nat
    /\ IsFiniteSet(fetches)
    /\ fetches \subseteq [ctx : Contexts, round : Nat, host : Hosts]
    /\ MergedWhole
    /\ timeouts = 0 => RoundsDiffer /\ \A c \in Contexts : RoundWhole(c)

LEMMA OfFinite ==
    ASSUME WholeInv, NEW c
    PROVE  IsFiniteSet(Of(c)) /\ Cardinality(Of(c)) \in Nat
<1>1. IsFiniteSet(Of(c))
  BY FS_Subset DEF WholeInv, Of
<1>. QED BY <1>1, FS_CardinalityType

\* An answer joins what is gathered when its fetch ends, or is left out.
LEMMA AnswerJoins ==
    ASSUME NEW S, NEW stats \in Seq(S), NEW n, NEW fs, NEW f \in fs, f.round = n,
           Gathers(stats, n, fs), \A g \in fs : g # f => g.host # f.host
    PROVE  /\ Gathers(stats, n, fs \ {f})
           /\ Gathers(Append(stats, [round |-> f.round, host |-> f.host]), n, fs \ {f})
<1>1. Gathers(stats, n, fs \ {f})
  BY DEF Gathers
<1>. DEFINE e == [round |-> f.round, host |-> f.host]
            all == Append(stats, e)
<1>2. e.round = n /\ e.host = f.host
  OBVIOUS
<1>. HIDE DEF e
<1>3. /\ stats \in Seq(S \cup {e})
      /\ DOMAIN all = 1 .. Len(stats) + 1 /\ DOMAIN stats = 1 .. Len(stats)
      /\ all[Len(stats) + 1] = e /\ Len(stats) \in Nat
      /\ \A i \in 1 .. Len(stats) : all[i] = stats[i]
  OBVIOUS
<1>. HIDE DEF all
<1>4. ASSUME NEW i \in DOMAIN all
      PROVE  /\ all[i].round = n
             /\ \A g \in fs \ {f} : g.host # all[i].host
             /\ \A j \in DOMAIN all : i # j => all[i].host # all[j].host
  <2>1. CASE i = Len(stats) + 1
    <3>1. all[i] = e
      BY <1>3, <2>1
    <3>2. ASSUME NEW j \in DOMAIN all, i # j PROVE all[i].host # all[j].host
      <4>1. j \in DOMAIN stats /\ all[j] = stats[j]
        BY <1>3, <2>1, <3>2
      <4>. QED BY <1>2, <3>1, <4>1 DEF Gathers
    <3>. QED BY <1>2, <3>1, <3>2
  <2>2. CASE i # Len(stats) + 1
    <3>1. i \in DOMAIN stats /\ all[i] = stats[i]
      BY <1>3, <2>2
    <3>2. ASSUME NEW j \in DOMAIN all, i # j PROVE all[i].host # all[j].host
      <4>1. CASE j = Len(stats) + 1
        BY <1>2, <1>3, <3>1, <4>1 DEF Gathers
      <4>2. CASE j # Len(stats) + 1
        <5>1. j \in DOMAIN stats /\ all[j] = stats[j]
          BY <1>3, <4>2
        <5>. QED BY <3>1, <3>2, <5>1 DEF Gathers
      <4>. QED BY <4>1, <4>2
    <3>. QED BY <3>1, <3>2 DEF Gathers
  <2>. QED BY <2>1, <2>2
<1>5. Gathers(all, n, fs \ {f})
  BY <1>4 DEF Gathers
<1>. QED BY <1>1, <1>5 DEF all, e

LEMMA WholeInit == Init => WholeInv
<1>. SUFFICES ASSUME Init PROVE WholeInv
  OBVIOUS
<1>1. IsFiniteSet(fetches) /\ fetches = {} /\ timeouts = 0 /\ round = 0
  BY FS_EmptySet DEF Init
<1>2. MergedWhole
  BY DEF Init, MergedWhole, NoMerge
<1>3. ASSUME NEW c \in Contexts PROVE RoundWhole(c) /\ ~ctx[c].timer_set
  BY <1>1 DEF Init, RoundWhole, Of, Gathers, NoCtx
<1>4. RoundsDiffer
  BY <1>3 DEF RoundsDiffer
<1>. QED BY <1>1, <1>2, <1>3, <1>4 DEF WholeInv

\* A step of one context leaves the others as they are.
LEMMA OtherRounds ==
    ASSUME NEW c, NEW d, c # d, RoundWhole(d),
           ctx'[d] = ctx[d], Of(d)' = Of(d), round \in Nat, round' \in {round, round + 1}
    PROVE  RoundWhole(d)'
<1>1. ctx[d].round <= round'
  BY DEF RoundWhole
<1>. QED BY <1>1 DEF RoundWhole

Fetches(c, n, T) == {[ctx |-> c, round |-> n, host |-> h] : h \in T}

\* The fetches a round starts are as many as the hosts it starts them from.
LEMMA StartedAsMany ==
    ASSUME NEW c, NEW n, NEW T \in SUBSET Hosts
    PROVE  /\ IsFiniteSet(Fetches(c, n, T))
           /\ Cardinality(Fetches(c, n, T)) = Cardinality(T)
<1>. DEFINE fs == {[ctx |-> c, round |-> n, host |-> h] : h \in T}
            b == [h \in T |-> [ctx |-> c, round |-> n, host |-> h]]
<1>1. IsFiniteSet(T)
  BY RoomIsNat, FS_Subset
<1>2. b \in Bijection(T, fs)
  <2>1. b \in [T -> fs]
    OBVIOUS
  <2>2. ASSUME NEW g \in T, NEW h \in T, b[g] = b[h] PROVE g = h
    <3>1. b[g].host = g /\ b[h].host = h
      OBVIOUS
    <3>. HIDE DEF b
    <3>. QED BY <2>2, <3>1
  <2>3. \A f \in fs : \E h \in T : b[h] = f
    OBVIOUS
  <2>. HIDE DEF b, fs
  <2>. QED BY <2>1, <2>2, <2>3 DEF Bijection, Injection, Surjection, IsInjective
<1>3. ExistsBijection(T, fs)
  BY <1>2 DEF ExistsBijection
<1>. HIDE DEF fs, b
<1>4. IsFiniteSet(fs) /\ Cardinality(fs) = Cardinality(T)
  BY <1>1, <1>3, FS_Bijection
<1>. QED BY <1>4 DEF fs, Fetches

\* A host's fetch was refused, has started, or has ended.
LEMMA OutcomesAddUp ==
    ASSUME NEW out \in [Hosts -> Outcome]
    PROVE  LET with(o) == {h \in Hosts : out[h] = o}
           IN  Cardinality(with("ended")) + Cardinality(with("started"))
                 = Room - Cardinality(with("refused"))
<1>. DEFINE R == {h \in Hosts : out[h] = "refused"}
            S == {h \in Hosts : out[h] = "started"}
            E == {h \in Hosts : out[h] = "ended"}
<1>1. /\ Hosts = (E \cup S) \cup R
      /\ E \cap S = {} /\ (E \cup S) \cap R = {}
      /\ E \subseteq Hosts /\ S \subseteq Hosts /\ R \subseteq Hosts
  BY DEF Outcome
<1>. HIDE DEF R, S, E
<1>2. IsFiniteSet(R) /\ IsFiniteSet(S) /\ IsFiniteSet(E)
  BY <1>1, RoomIsNat, FS_Subset
<1>3. Cardinality({}) = 0
  BY FS_EmptySet
<1>4. IsFiniteSet(E \cup S) /\ Cardinality(E \cup S) = Cardinality(E) + Cardinality(S) - 0
  BY <1>1, <1>2, <1>3, FS_Union
<1>5. Room = Cardinality(E \cup S) + Cardinality(R) - 0
  BY <1>1, <1>2, <1>3, <1>4, FS_Union DEF Room
<1>6. Cardinality(E) \in Nat /\ Cardinality(S) \in Nat /\ Cardinality(R) \in Nat
  BY <1>2, FS_CardinalityType
<1>7. Cardinality(E) + Cardinality(S) = Room - Cardinality(R)
  BY <1>4, <1>5, <1>6
<1>. QED BY <1>7 DEF R, S, E

\* A step that leaves the last merge alone keeps the invariant once it keeps
\* the rounds whole.
LEMMA WholeByRounds ==
    ASSUME WholeInv, UNCHANGED <<merged, timeouts>>, round' \in Nat,
           IsFiniteSet(fetches'), fetches' \subseteq [ctx : Contexts, round : Nat, host : Hosts],
           timeouts = 0 => RoundsDiffer' /\ \A c \in Contexts : RoundWhole(c)'
    PROVE  WholeInv'
<1>1. MergedWhole'
  BY DEF WholeInv, MergedWhole
<1>2. timeouts' \in Nat
  BY DEF WholeInv
<1>3. timeouts' = 0 => RoundsDiffer' /\ \A c \in Contexts : RoundWhole(c)'
  OBVIOUS
<1>. QED BY <1>1, <1>2, <1>3 DEF WholeInv

\* A round that begins waits for the fetches it started.
LEMMA ActivateKeepsWhole ==
    ASSUME FitInv, PoolInv, WholeInv, Activate
    PROVE  WholeInv'
<1>1. round' = round + 1 /\ round \in Nat /\ UNCHANGED <<merged, timeouts>>
  BY DEF Activate, WholeInv
<1>2. CASE UNCHANGED <<busy, free, ctx, fetches>>
  <2>1. ASSUME timeouts = 0, NEW d \in Contexts PROVE RoundWhole(d)'
    <3>1. ctx[d].round \in Nat /\ ctx[d].round <= round' /\ RoundWhole(d)
      BY <1>1, <2>1 DEF WholeInv, RoundWhole
    <3>2. Of(d)' = Of(d)
      BY <1>2 DEF Of
    <3>. QED BY <1>2, <3>1, <3>2 DEF RoundWhole
  <2>2. timeouts = 0 => RoundsDiffer'
    BY <1>2 DEF WholeInv, RoundsDiffer
  <2>3. IsFiniteSet(fetches') /\ fetches' \subseteq [ctx : Contexts, round : Nat, host : Hosts]
    BY <1>2 DEF WholeInv
  <2>. QED BY <1>1, <2>1, <2>2, <2>3, WholeByRounds
<1>3. CASE free # <<>>
  <2>0. PICK c \in Contexts \ busy : c = Head(free)
    BY <1>3 DEF PoolInv
  <2>1. PICK out \in [Hosts -> Outcome], over \in BOOLEAN :
          /\ over => {h \in Hosts : out[h] = "started"} = {}
          /\ ctx' = [ctx EXCEPT ![c] =
               [Reset(c) EXCEPT !.requests = @ - Cardinality({h \in Hosts : out[h] = "refused"}),
                                !.finished = @ + Cardinality({h \in Hosts : out[h] = "ended"}),
                                !.timer_set = ~over]]
          /\ fetches' = fetches \cup
               {[ctx |-> c, round |-> round + 1, host |-> h] : h \in {h \in Hosts : out[h] = "started"}}
    <3>. DEFINE head == Head(free)
    <3>1. PICK out \in [Hosts -> Outcome] :
            LET with(o) == {h \in Hosts : out[h] = o}
                nothing == with("refused") = Hosts
                over == nothing \/ (with("started") = {} /\ out[Max(Hosts)] = "ended")
            IN  /\ ctx' = [ctx EXCEPT ![head] =
                     [Reset(head) EXCEPT !.requests = @ - Cardinality(with("refused")),
                                         !.finished = @ + Cardinality(with("ended")),
                                         !.timer_set = ~over]]
                /\ fetches' = fetches \cup
                     {[ctx |-> head, round |-> round + 1, host |-> h] : h \in with("started")}
      BY <1>3 DEF Activate
    <3>0. head = c
      BY <2>0
    <3>. HIDE DEF head
    <3>. DEFINE S == {h \in Hosts : out[h] = "started"}
                nothing == {h \in Hosts : out[h] = "refused"} = Hosts
                over == nothing \/ (S = {} /\ out[Max(Hosts)] = "ended")
    <3>2. over => S = {}
      OBVIOUS
    <3>. QED BY <3>0, <3>1, <3>2
  <2>. DEFINE refused == Cardinality({h \in Hosts : out[h] = "refused"})
              ended   == Cardinality({h \in Hosts : out[h] = "ended"})
              started == {h \in Hosts : out[h] = "started"}
              new == Fetches(c, round + 1, started)
              y == [Reset(c) EXCEPT !.requests = @ - refused, !.finished = @ + ended,
                                    !.timer_set = ~over]
  <2>2. c \in Contexts \ busy
    BY <2>0
  <2>3. ended + Cardinality(started) = Room - refused
    BY OutcomesAddUp
  <2>4. IsFiniteSet(new) /\ Cardinality(new) = Cardinality(started) /\ started \subseteq Hosts
    <3>1. started \in SUBSET Hosts
      OBVIOUS
    <3>. HIDE DEF started
    <3>. QED BY <3>1, StartedAsMany
  <2>5. /\ y.requests = Room - refused /\ y.finished = 0 + ended /\ y.stats = <<>>
        /\ y.timer_set = ~over /\ y.round = round + 1
    BY DEF Reset, Room
  <2>6. ended \in Nat
    BY PartOfHosts
  <2>7. fetches' = fetches \cup new /\ (over => new = {})
    BY <2>1 DEF Fetches
  <2>8. /\ \A f \in new : f.ctx = c /\ f.round = round + 1
        /\ new \subseteq [ctx : Contexts, round : Nat, host : Hosts]
    BY <1>1, <2>2 DEF Fetches
  <2>9. ctx' = [ctx EXCEPT ![c] = y] /\ ~ctx[c].timer_set /\ y.timer_set \in BOOLEAN
    BY <2>1, <2>2, <2>5 DEF PoolInv
  <2>. HIDE DEF y, new, started, refused, ended
  <2>10. DOMAIN ctx' = Contexts /\ ctx'[c] = y /\ \A d \in Contexts \ {c} : ctx'[d] = ctx[d]
    BY <2>2, <2>9 DEF FitInv
  <2>11. IsFiniteSet(fetches') /\ fetches' \subseteq [ctx : Contexts, round : Nat, host : Hosts]
    <3>1. IsFiniteSet(fetches')
      BY <2>4, <2>7, FS_Union DEF WholeInv
    <3>. QED BY <2>7, <2>8, <3>1 DEF WholeInv
  <2>12. ASSUME timeouts = 0 PROVE RoundsDiffer' /\ \A d \in Contexts : RoundWhole(d)'
    <3>1. Of(c) = {}
      BY <2>2, <2>9, <2>12 DEF WholeInv, RoundWhole
    <3>2. Of(c)' = new
      BY <2>7, <2>8, <3>1 DEF Of
    <3>3. RoundWhole(c)'
      <4>1. y.round \in Nat /\ y.round <= round' /\ \A f \in Of(c)' : f.round = y.round
        BY <1>1, <2>5, <2>8, <3>2
      <4>2. y.finished + Cardinality(Of(c)') = y.requests
        BY <2>3, <2>4, <2>5, <2>6, <3>2
      <4>3. ~y.timer_set => Of(c)' = {}
        BY <2>5, <2>7, <3>2
      <4>4. Gathers(y.stats, y.round, Of(c)')
        BY <2>5 DEF Gathers
      <4>. QED BY <2>10, <4>1, <4>2, <4>3, <4>4 DEF RoundWhole
    <3>4. ASSUME NEW d \in Contexts, d # c PROVE RoundWhole(d)'
      <4>1. Of(d)' = Of(d)
        BY <2>7, <2>8, <3>4 DEF Of
      <4>2. RoundWhole(d) /\ ctx'[d] = ctx[d]
        BY <2>10, <2>12, <3>4 DEF WholeInv
      <4>. QED BY <1>1, <3>4, <4>1, <4>2, OtherRounds
    <3>5. RoundsDiffer'
      <4>1. \A d \in Contexts : ctx[d].round \in Nat /\ ctx[d].round <= round
        BY <2>12 DEF WholeInv, RoundWhole
      <4>2. y.round = round + 1
        BY <2>5
      <4>3. \A d \in Contexts \ {c} : ctx'[d].round # y.round
        BY <1>1, <2>10, <4>1, <4>2
      <4>4. \A d, e \in Contexts \ {c} : d # e /\ ctx'[d].timer_set /\ ctx'[e].timer_set =>
                ctx'[d].round # ctx'[e].round
        BY <2>10, <2>12 DEF WholeInv, RoundsDiffer
      <4>. QED BY <2>10, <4>3, <4>4 DEF RoundsDiffer
    <3>. QED BY <3>3, <3>4, <3>5
  <2>. QED BY <1>1, <2>11, <2>12, WholeByRounds
<1>. QED BY <1>2, <1>3 DEF Activate

\* A fetch that ends is the last the context waits for, or one of several.
LEMMA PostUpstreamKeepsWhole ==
    ASSUME FitInv, WholeInv, NEW f \in fetches, NEW ok \in BOOLEAN, PostUpstream(f, ok)
    PROVE  WholeInv'
<1>. DEFINE c == f.ctx
            x == ctx[c]
            y == ctx'[c]
            finished == x.finished + 1
            stats == IF ok THEN Append(x.stats, [round |-> f.round, host |-> f.host]) ELSE x.stats
            rest == Of(c) \ {f}
<1>1. /\ fetches' = fetches \ {f} /\ UNCHANGED <<round, timeouts>>
      /\ c \in Contexts /\ f \in [ctx : Contexts, round : Nat, host : Hosts]
  BY DEF PostUpstream, FitInv, WholeInv
<1>2. IsFiniteSet(fetches') /\ fetches' \subseteq [ctx : Contexts, round : Nat, host : Hosts]
  BY <1>1, FS_RemoveElement DEF WholeInv
<1>3. RoundInv(x) /\ DOMAIN ctx = Contexts
  BY <1>1 DEF FitInv
<1>4. CASE timeouts # 0
  <2>. QED BY <1>1, <1>2, <1>4 DEF WholeInv, MergedWhole
<1>5. CASE timeouts = 0
  <2>1. RoundWhole(c) /\ f \in Of(c) /\ x.timer_set /\ f.round = x.round
    BY <1>1, <1>5 DEF WholeInv, RoundWhole, Of
  <2>2. /\ y.round = x.round /\ y.requests = x.requests /\ y.finished = finished
        /\ y.stats = stats
        /\ \A d \in Contexts \ {c} : ctx'[d] = ctx[d]
        /\ \/ y.timer_set = x.timer_set /\ ~RoundOver(finished, x.requests) /\ merged' = merged
           \/ /\ y.timer_set = FALSE /\ RoundOver(finished, x.requests)
              /\ Finalize(c, stats, fetches \ {f})
    <3>. HIDE DEF stats, finished
    <3>1. CASE /\ ~RoundOver(finished, x.requests)
               /\ ctx' = [ctx EXCEPT ![c].finished = finished, ![c].stats = stats]
               /\ merged' = merged
      <4>. DEFINE z == [x EXCEPT !.finished = finished, !.stats = stats]
      <4>1. ctx' = [ctx EXCEPT ![c] = z]
        BY <3>1
      <4>2. /\ z.round = x.round /\ z.requests = x.requests /\ z.finished = finished
            /\ z.stats = stats /\ z.timer_set = x.timer_set
        BY <1>3 DEF RoundInv
      <4>. HIDE DEF z
      <4>3. ctx'[c] = z /\ \A d \in Contexts \ {c} : ctx'[d] = ctx[d]
        BY <1>1, <1>3, <4>1
      <4>. QED BY <3>1, <4>2, <4>3
    <3>2. CASE /\ RoundOver(finished, x.requests)
               /\ ctx' = [ctx EXCEPT ![c].finished = finished, ![c].stats = stats,
                                     ![c].timer_set = FALSE]
               /\ Finalize(c, stats, fetches \ {f})
      <4>. DEFINE z == [x EXCEPT !.finished = finished, !.stats = stats, !.timer_set = FALSE]
      <4>1. ctx' = [ctx EXCEPT ![c] = z]
        BY <3>2
      <4>2. /\ z.round = x.round /\ z.requests = x.requests /\ z.finished = finished
            /\ z.stats = stats /\ z.timer_set = FALSE
        BY <1>3 DEF RoundInv
      <4>. HIDE DEF z
      <4>3. ctx'[c] = z /\ \A d \in Contexts \ {c} : ctx'[d] = ctx[d]
        BY <1>1, <1>3, <4>1
      <4>. QED BY <3>2, <4>2, <4>3
    <3>. QED BY <2>1, <3>1, <3>2 DEF PostUpstream, stats, finished
  <2>3. /\ rest = Of(c)'
        /\ Cardinality(rest) \in Nat /\ IsFiniteSet(rest)
        /\ Cardinality(Of(c)) = Cardinality(rest) + 1
    <3>1. rest = Of(c)'
      BY <1>1 DEF Of
    <3>2. IsFiniteSet(Of(c)) /\ Cardinality(Of(c)) \in Nat
      BY OfFinite
    <3>3. IsFiniteSet(rest) /\ Cardinality(rest) = Cardinality(Of(c)) - 1
      BY <2>1, <3>2, FS_RemoveElement
    <3>4. Cardinality(rest) \in Nat
      BY <3>3, FS_CardinalityType
    <3>. QED BY <3>1, <3>2, <3>3, <3>4
  <2>4. Gathers(stats, x.round, rest)
    <3>1. PICK S : x.stats \in Seq(S)
      BY <1>3 DEF RoundInv
    <3>2. ASSUME NEW g \in Of(c), g # f PROVE g.host # f.host
      <4>1. g \in [ctx : Contexts, round : Nat, host : Hosts] /\ g.ctx = f.ctx /\ g.round = f.round
        BY <2>1 DEF Of, RoundWhole, WholeInv
      <4>. QED BY <1>1, <3>2, <4>1
    <3>3. Gathers(x.stats, x.round, Of(c))
      BY <2>1 DEF RoundWhole
    <3>. HIDE DEF x, c
    <3>4. /\ Gathers(x.stats, x.round, Of(c) \ {f})
          /\ Gathers(Append(x.stats, [round |-> f.round, host |-> f.host]), x.round, Of(c) \ {f})
      BY <2>1, <3>1, <3>2, <3>3, AnswerJoins
    <3>. QED BY <3>4
  <2>5. /\ x.finished \in Nat /\ x.requests \in Nat
        /\ finished + Cardinality(rest) = x.requests
        /\ RoundOver(finished, x.requests) => rest = {}
    <3>1. x.finished \in Nat /\ x.requests \in Nat
      BY <1>3 DEF RoundInv
    <3>2. finished + Cardinality(rest) = x.requests
      BY <2>1, <2>3, <3>1 DEF RoundWhole
    <3>3. RoundOver(finished, x.requests) => Cardinality(rest) = 0
      BY <2>3, <3>1, <3>2 DEF RoundOver
    <3>. QED BY <2>3, <3>1, <3>2, <3>3, FS_EmptySet
  <2>6. RoundWhole(c)'
    <3>1. y.round \in Nat /\ y.round <= round' /\ \A g \in rest : g.round = y.round
      BY <1>1, <2>1, <2>2 DEF RoundWhole
    <3>2. y.timer_set => y.finished + Cardinality(rest) = y.requests
      BY <2>2, <2>5
    <3>3. ~y.timer_set => rest = {}
      BY <2>1, <2>2, <2>5
    <3>4. Gathers(y.stats, y.round, rest)
      BY <2>2, <2>4
    <3>. HIDE DEF y, rest
    <3>. QED BY <2>3, <3>1, <3>2, <3>3, <3>4 DEF RoundWhole, y
  <2>7. ASSUME NEW d \in Contexts, d # c PROVE RoundWhole(d)'
    <3>1. Of(d)' = Of(d)
      BY <1>1, <2>7 DEF Of
    <3>2. RoundWhole(d) /\ ctx'[d] = ctx[d]
      BY <1>5, <2>2, <2>7 DEF WholeInv
    <3>. QED BY <1>1, <2>7, <3>1, <3>2, OtherRounds DEF WholeInv
  <2>8. RoundsDiffer'
    <3>1. \A d \in Contexts : ctx'[d].round = ctx[d].round /\ (ctx'[d].timer_set => ctx[d].timer_set)
      BY <2>1, <2>2
    <3>. QED BY <1>5, <3>1 DEF WholeInv, RoundsDiffer
  <2>9. MergedWhole'
    <3>1. CASE merged' = merged
      BY <1>1, <3>1 DEF WholeInv, MergedWhole
    <3>2. CASE /\ RoundOver(finished, x.requests)
               /\ merged' = [round |-> x.round, stats |-> stats,
                             whole |-> \A g \in fetches \ {f} : g.round # x.round]
      <4>1. ASSUME NEW g \in fetches \ {f} PROVE g.round # x.round
        <5>1. g.ctx \in Contexts /\ g.ctx # c
          BY <2>5, <3>2 DEF FitInv, Of
        <5>2. g.round = ctx[g.ctx].round /\ ctx[g.ctx].timer_set
          BY <1>5, <5>1 DEF WholeInv, RoundWhole, Of
        <5>. QED BY <1>1, <1>5, <2>1, <5>1, <5>2 DEF WholeInv, RoundsDiffer
      <4>2. merged'.whole /\ merged'.round = x.round /\ merged'.stats = stats
        BY <3>2, <4>1
      <4>. HIDE DEF stats
      <4>. QED BY <2>4, <4>2 DEF MergedWhole, Gathers
    <3>. QED BY <2>2, <3>1, <3>2 DEF Finalize
  <2>10. \A d \in Contexts : RoundWhole(d)'
    BY <2>6, <2>7
  <2>11. round' \in Nat /\ timeouts' \in Nat
    BY <1>1 DEF WholeInv
  <2>. QED BY <1>2, <2>8, <2>9, <2>10, <2>11 DEF WholeInv
<1>. QED BY <1>1, <1>4, <1>5 DEF WholeInv

LEMMA WholeStep == FitInv /\ PoolInv /\ WholeInv /\ [Next]_vars => WholeInv'
<1>. SUFFICES ASSUME FitInv, PoolInv, WholeInv, [Next]_vars PROVE WholeInv'
  OBVIOUS
<1>1. ASSUME NEW c \in Contexts, FetchTimeout(c) PROVE WholeInv'
  <2>1. timeouts' \in Nat /\ timeouts' # 0 /\ UNCHANGED <<fetches, round>>
    BY <1>1 DEF FetchTimeout, WholeInv
  <2>. QED BY <2>1 DEF WholeInv, MergedWhole
<1>2. CASE UNCHANGED vars
  <2>1. UNCHANGED <<ctx, fetches, round, merged, timeouts>>
    BY <1>2 DEF vars
  <2>2. MergedWhole' /\ (RoundsDiffer => RoundsDiffer')
        /\ \A c \in Contexts : RoundWhole(c) => RoundWhole(c)'
    BY <2>1 DEF WholeInv, MergedWhole, RoundsDiffer, RoundWhole, Of
  <2>. QED BY <2>1, <2>2 DEF WholeInv
<1>. QED BY <1>1, <1>2, ActivateKeepsWhole, PostUpstreamKeepsWhole DEF Next

\* For any hosts, contexts and connection objects: until a round is cut off by
\* its timer, what is merged is of one round, has no host twice, and is merged
\* when no fetch of the round is left (__post_upstream, __finalize_ctx).
THEOREM MergedWholeAlways == Spec => []MergedWhole
<1>1. WholeInv => MergedWhole
  BY DEF WholeInv
<1>. QED BY <1>1, FitInvInit, PoolInvInit, WholeInit, RoundsInvNext, WholeStep, PTL DEF Spec
=============================================================================
