-------------------------- MODULE NgxUpstreamProofs -------------------------
(***************************************************************************)
(* For any number of requests, any tables of peers and caches of any size: *)
(* the connections of a peer are counted; the weights of the round robin   *)
(* are balanced, and a peer that failed is tried sparingly; connections    *)
(* and connection objects have one owner.                                  *)
(***************************************************************************)
EXTENDS NgxUpstream, Lists

----------------------------------------------------------------------------
(* Connections are counted                                                 *)

\* A table whose peers have a count of connections.
Counts(t) == \A i \in DOMAIN t : "conns" \in DOMAIN t[i] /\ t[i].conns \in Int

\* u has the peers of t, with d(i) connections more.
Adds(t, u, n, d) ==
    /\ DOMAIN u = DOMAIN t
    /\ Counts(u)
    /\ \A i \in DOMAIN t : u[i].conns = t[i].conns + IF i = n THEN d ELSE 0

LEMMA WeighedKeeps ==
    ASSUME NEW t, Counts(t), NEW E
    PROVE  Adds(t, Weighed(t, E), 0, 0)
BY DEF Counts, Adds, Weighed

LEMMA PickedKeeps ==
    ASSUME NEW t, Counts(t), NEW i, NEW total, NEW time
    PROVE  Adds(t, Picked(t, i, total, time), 0, 0)
BY DEF Counts, Adds, Picked

LEMMA ConnectedAdds ==
    ASSUME NEW t, Counts(t), NEW i
    PROVE  Adds(t, Connected(t, i), i, 1)
BY DEF Counts, Adds, Connected

LEMMA FreedAdds ==
    ASSUME NEW t, Counts(t), NEW i
    PROVE  Adds(t, Freed(t, i), i, -1)
BY DEF Counts, Adds, Freed

LEMMA GetPeerKeeps ==
    ASSUME NEW t, Counts(t), NEW backup, NEW tried, NEW time
    PROVE  Adds(t, GetPeer(t, backup, tried, time).table, 0, 0)
<1>. DEFINE E == Eligible(t, backup, tried, time)
            g == Weighed(t, E)
            u == Picked(g, Best(g, E), Total(t, E), time)
<1>1. Adds(t, g, 0, 0)
  BY WeighedKeeps
<1>2. Counts(g)
  BY <1>1 DEF Adds
<1>3. Adds(g, u, 0, 0)
  <2>. HIDE DEF g
  <2>. QED BY <1>2, PickedKeeps
<1>4. Adds(t, u, 0, 0)
  BY <1>1, <1>3 DEF Adds, Counts
<1>5. Adds(t, t, 0, 0)
  BY DEF Adds, Counts
<1>6. GetPeer(t, backup, tried, time).table \in {t, u}
  BY DEF GetPeer
<1>. QED BY <1>4, <1>5, <1>6

\* A get counts one connection more of the peer it chooses, and no other.
LEMMA GetAdds ==
    ASSUME NEW t, Counts(t), NEW backup, NEW tried, NEW time,
           NEW got, got = GetRoundRobinPeer(t, backup, tried, time)
    PROVE  Adds(t, got.table, got.peer, IF got.peer = 0 THEN 0 ELSE 1)
<1>. DEFINE first  == IF Single(t) THEN GetSingle(t) ELSE GetPeer(t, backup, tried, time)
            turn   == first.peer = 0 /\ ~backup /\ Group(t, TRUE) # {}
            second == GetPeer(t, TRUE, {}, time)
            any    == IF turn THEN second ELSE first
<1>1. Adds(t, first.table, 0, 0)
  <2>1. CASE Single(t)
    BY <2>1 DEF GetSingle, Adds, Counts
  <2>2. CASE ~Single(t)
    BY <2>2, GetPeerKeeps
  <2>. QED BY <2>1, <2>2
<1>2. Adds(t, second.table, 0, 0)
  BY GetPeerKeeps
<1>3. Adds(t, any.table, 0, 0)
  BY <1>1, <1>2
<1>4. /\ got.peer = any.peer
      /\ got.table = IF any.peer = 0 THEN any.table ELSE Connected(any.table, any.peer)
  BY DEF GetRoundRobinPeer
<1>. HIDE DEF any
<1>5. Adds(any.table, Connected(any.table, any.peer), any.peer, 1)
  BY <1>3, ConnectedAdds DEF Adds
<1>. QED BY <1>3, <1>4, <1>5 DEF Adds, Counts

\* A free takes one off the peer, whatever it does to its failures.
LEMMA FreeAdds ==
    ASSUME NEW t, Counts(t), NEW i, NEW failed, NEW time
    PROVE  Adds(t, FreeRoundRobinPeer(t, i, failed, time), i, -1)
<1>. DEFINE p == t[i]
            lost == p.effective_weight - Loss(p)
            marked ==
                IF Single(t) THEN p
                ELSE IF failed
                THEN [p EXCEPT !.fails = IF @ < p.max_fails THEN @ + 1 ELSE @,
                               !.accessed = time, !.checked = time,
                               !.effective_weight = IF lost < 0 THEN 0 ELSE lost]
                ELSE [p EXCEPT !.fails = IF p.accessed < p.checked THEN 0 ELSE @]
            u == [t EXCEPT ![i] = marked]
<1>1. i \in DOMAIN t => "conns" \in DOMAIN marked /\ marked.conns = t[i].conns
  BY DEF Counts
<1>2. Adds(t, u, 0, 0)
  <2>1. Adds(t, [t EXCEPT ![i] = marked], 0, 0)
    <3>. HIDE DEF marked
    <3>. QED BY <1>1 DEF Adds, Counts
  <2>. QED BY <2>1
<1>3. Adds(u, Freed(u, i), i, -1)
  <2>. HIDE DEF u
  <2>. QED BY <1>2, FreedAdds DEF Adds
<1>4. FreeRoundRobinPeer(t, i, failed, time) = Freed(u, i)
  BY DEF FreeRoundRobinPeer
<1>5. Adds(t, Freed(u, i), i, -1)
  <2>. HIDE DEF u
  <2>. QED BY <1>2, <1>3 DEF Adds, Counts
<1>. QED BY <1>4, <1>5

----------------------------------------------------------------------------

\* The inductive invariant: what the counts depend on.
CountInv ==
    /\ DOMAIN req = Requests
    /\ \A r \in Requests : {"kind", "step", "current"} \subseteq DOMAIN req[r]
    /\ Counts(peers)
    /\ "kept" \in DOMAIN hist /\ hist.kept \in [DOMAIN peers -> Nat]
    /\ ConnsCounted

LEMMA HoldersFinite ==
    ASSUME NEW i
    PROVE  IsFiniteSet(Holders(i)) /\ Cardinality(Holders(i)) \in Nat
<1>1. IsFiniteSet(Holders(i))
  BY RequestsAssumption, FS_Subset DEF Holders
<1>. QED BY <1>1, FS_CardinalityType

\* Does the request hold a peer?
Holds(rq) == rq.kind \in {"plain", "chosen", "named"} /\ rq.step = "waiting"

\* No named fetch leaves a connection in the cache in this step.
SameKept == "kept" \in DOMAIN hist' /\ hist'.kept = hist.kept

LEMMA KeptStays ==
    ASSUME CountInv,
           \/ UNCHANGED hist
           \/ hist' = Counted(hist)
           \/ hist' = [hist EXCEPT !.leaks = @ + 1]
           \/ \E i : hist' = [hist EXCEPT !.probe[i] = now]
    PROVE  SameKept
BY DEF CountInv, SameKept, Counted

\* A request that takes peer i is one more of its holders.
LEMMA TakeKeepsCount ==
    ASSUME CountInv, NEW r \in Requests, ~Holds(req[r]),
           NEW rq, {"kind", "step", "current"} \subseteq DOMAIN rq, Holds(rq),
           req' = [req EXCEPT ![r] = rq],
           Adds(peers, peers', rq.current, 1), SameKept
    PROVE  CountInv'
<1>1. \A i : Holders(i)' = IF i = rq.current THEN Holders(i) \cup {r} ELSE Holders(i)
  BY DEF CountInv, Holders, Holds
<1>2. \A i : r \notin Holders(i)
  BY DEF Holders, Holds
<1>3. \A i : Cardinality(Holders(i))' = Cardinality(Holders(i)) + IF i = rq.current THEN 1 ELSE 0
  BY <1>1, <1>2, HoldersFinite, FS_AddElement
<1>4. ConnsCounted'
  BY <1>3, HoldersFinite DEF CountInv, ConnsCounted, Adds, SameKept
<1>. QED BY <1>4 DEF CountInv, Adds, SameKept

\* One that gives its peer back is one less.
LEMMA FreeKeepsCount ==
    ASSUME CountInv, NEW r \in Requests, Holds(req[r]),
           NEW rq, {"kind", "step", "current"} \subseteq DOMAIN rq, ~Holds(rq),
           req' = [req EXCEPT ![r] = rq],
           Adds(peers, peers', req[r].current, -1), SameKept
    PROVE  CountInv'
<1>1. \A i : Holders(i)' = Holders(i) \ {r}
  BY DEF CountInv, Holders, Holds
<1>2. \A i : r \in Holders(i) <=> i = req[r].current
  BY DEF Holders, Holds
<1>3. \A i : Cardinality(Holders(i))' = Cardinality(Holders(i)) - IF i = req[r].current THEN 1 ELSE 0
  BY <1>1, <1>2, HoldersFinite, FS_RemoveElement
<1>4. ConnsCounted'
  BY <1>3, HoldersFinite DEF CountInv, ConnsCounted, Adds, SameKept
<1>. QED BY <1>4 DEF CountInv, Adds, SameKept

\* One that holds none before and after changes nothing.
LEMMA ElseKeepsCount ==
    ASSUME CountInv, NEW r \in Requests, ~Holds(req[r]),
           NEW rq, {"kind", "step", "current"} \subseteq DOMAIN rq, ~Holds(rq),
           req' = [req EXCEPT ![r] = rq],
           NEW n, Adds(peers, peers', n, 0), SameKept
    PROVE  CountInv'
<1>1. \A i : Holders(i)' = Holders(i)
  BY DEF CountInv, Holders, Holds
<1>2. ConnsCounted'
  BY <1>1, HoldersFinite DEF CountInv, ConnsCounted, Adds, SameKept
<1>. QED BY <1>2 DEF CountInv, Adds, SameKept

\* One whose connection is kept is one holder less and one connection left.
LEMMA LeaveKeepsCount ==
    ASSUME CountInv, NEW r \in Requests, Holds(req[r]),
           NEW rq, {"kind", "step", "current"} \subseteq DOMAIN rq, ~Holds(rq),
           req' = [req EXCEPT ![r] = rq],
           UNCHANGED peers,
           hist' = [hist EXCEPT !.kept[req[r].current] = @ + 1]
    PROVE  CountInv'
<1>1. \A i : Holders(i)' = Holders(i) \ {r}
  BY DEF CountInv, Holders, Holds
<1>2. \A i : r \in Holders(i) <=> i = req[r].current
  BY DEF Holders, Holds
<1>3. \A i : Cardinality(Holders(i))' = Cardinality(Holders(i)) - IF i = req[r].current THEN 1 ELSE 0
  BY <1>1, <1>2, HoldersFinite, FS_RemoveElement
<1>4. /\ "kept" \in DOMAIN hist' /\ hist'.kept \in [DOMAIN peers -> Nat]
      /\ \A i \in DOMAIN peers : hist'.kept[i] = hist.kept[i] + IF i = req[r].current THEN 1 ELSE 0
  <2>. DEFINE f == hist.kept
              g == hist'.kept
              i == req[r].current
  <2>1. "kept" \in DOMAIN hist' /\ g = [f EXCEPT ![i] = f[i] + 1]
    BY DEF CountInv
  <2>2. f \in [DOMAIN peers -> Nat]
    BY DEF CountInv
  <2>. HIDE DEF f, g, i
  <2>3. ASSUME NEW j \in DOMAIN peers PROVE g[j] = (f[j] + IF j = i THEN 1 ELSE 0) /\ g[j] \in Nat
    <3>1. CASE j = i
      BY <2>1, <2>2, <3>1
    <3>2. CASE j # i
      BY <2>1, <2>2, <3>2
    <3>. QED BY <3>1, <3>2
  <2>4. g \in [DOMAIN peers -> Nat]
    BY <2>1, <2>2, <2>3
  <2>. QED BY <2>1, <2>3, <2>4 DEF f, g, i
<1>5. ConnsCounted'
  BY <1>3, <1>4, HoldersFinite DEF CountInv, ConnsCounted, Counts
<1>. QED BY <1>4, <1>5 DEF CountInv, Counts

LEMMA SamePeers == ASSUME CountInv, UNCHANGED peers PROVE Adds(peers, peers', 0, 0)
BY DEF CountInv, Adds, Counts

----------------------------------------------------------------------------
(* The actions                                                             *)

LEMMA GetPlainKeepsCount ==
    ASSUME CountInv, NEW r \in Requests, GetPlain(r)
    PROVE  CountInv'
<1>. DEFINE rq == req[r]
            next(got) == [rq EXCEPT !.backup = got.backup, !.tried = got.tried,
                                    !.current = got.peer, !.cached = FALSE]
<1>1. PICK got \in {GetRoundRobinPeer(peers, rq.backup, rq.tried, now)} :
        /\ peers' = got.table
        /\ IF got.peer = 0 THEN Answered(r) ELSE Connect(r, next(got), keep)
  BY DEF GetPlain
<1>2. Adds(peers, peers', got.peer, IF got.peer = 0 THEN 0 ELSE 1)
  BY <1>1, GetAdds DEF CountInv
<1>3. ~Holds(rq) /\ rq.kind = "plain" /\ {"kind", "step", "current"} \subseteq DOMAIN rq
  BY DEF GetPlain, Holds, CountInv
<1>6. SameKept
  BY KeptStays DEF GetPlain
<1>4. CASE got.peer = 0
  <2>1. req' = [req EXCEPT ![r] = Idle]
    BY <1>1, <1>4 DEF Answered
  <2>2. {"kind", "step", "current"} \subseteq DOMAIN Idle /\ ~Holds(Idle)
    BY DEF Idle, Holds
  <2>3. Adds(peers, peers', got.peer, 0)
    BY <1>2, <1>4
  <2>. HIDE DEF rq
  <2>. QED BY <2>1, <2>2, <2>3, <1>3, <1>6, ElseKeepsCount DEF rq
<1>5. CASE got.peer # 0
  <2>1. PICK c, cached : req' = [req EXCEPT ![r] = [next(got) EXCEPT !.step = "waiting", !.conn = c, !.cached = cached]]
    BY <1>1, <1>5 DEF Connect
  <2>. DEFINE new == [next(got) EXCEPT !.step = "waiting", !.conn = c, !.cached = cached]
  <2>2. /\ {"kind", "step", "current"} \subseteq DOMAIN new
        /\ new.kind = "plain" /\ new.step = "waiting" /\ new.current = got.peer
    BY <1>3
  <2>3. req' = [req EXCEPT ![r] = new]
    BY <2>1
  <2>4. Adds(peers, peers', got.peer, 1)
    BY <1>2, <1>5
  <2>. HIDE DEF new
  <2>. QED BY <2>2, <2>3, <2>4, <1>3, <1>6, TakeKeepsCount DEF Holds
<1>. QED BY <1>4, <1>5

LEMMA GetChosenKeepsCount ==
    ASSUME CountInv, NEW r \in Requests, GetChosen(r)
    PROVE  CountInv'
<1>1. PICK c, cached : req' = [req EXCEPT ![r] = [req[r] EXCEPT !.step = "waiting", !.conn = c, !.cached = cached]]
  BY DEF GetChosen, Connect
<1>. DEFINE new == [req[r] EXCEPT !.step = "waiting", !.conn = c, !.cached = cached]
<1>2. /\ {"kind", "step", "current"} \subseteq DOMAIN new
      /\ new.kind = "chosen" /\ new.step = "waiting" /\ new.current = req[r].current
  BY DEF GetChosen, CountInv
<1>3. req' = [req EXCEPT ![r] = new]
  BY <1>1
<1>4. Adds(peers, peers', new.current, 1)
  BY <1>2, ConnectedAdds DEF GetChosen, CountInv
<1>5. ~Holds(req[r]) /\ SameKept
  BY KeptStays DEF GetChosen, Holds
<1>. HIDE DEF new
<1>. QED BY <1>2, <1>3, <1>4, <1>5, TakeKeepsCount DEF Holds

LEMMA GetFetchKeepsCount ==
    ASSUME CountInv, NEW r \in Requests, GetFetch(r)
    PROVE  CountInv'
<1>1. PICK c, cached : req' = [req EXCEPT ![r] = [req[r] EXCEPT !.step = "waiting", !.conn = c, !.cached = cached]]
  BY DEF GetFetch, Connect
<1>. DEFINE new == [req[r] EXCEPT !.step = "waiting", !.conn = c, !.cached = cached]
<1>2. /\ {"kind", "step", "current"} \subseteq DOMAIN new
      /\ new.kind = req[r].kind /\ new.step = "waiting" /\ new.current = req[r].current
  BY DEF CountInv
<1>3. req' = [req EXCEPT ![r] = new]
  BY <1>1
<1>4. ~Holds(req[r]) /\ SameKept
  BY KeptStays DEF GetFetch, Holds
<1>5. CASE req[r].kind = "named"
  <2>1. Adds(peers, peers', new.current, 1)
    BY <1>2, <1>5, ConnectedAdds DEF GetFetch, CountInv
  <2>2. Holds(new)
    BY <1>2, <1>5 DEF Holds
  <2>. HIDE DEF new
  <2>. QED BY <1>2, <1>3, <1>4, <2>1, <2>2, TakeKeepsCount
<1>6. CASE req[r].kind # "named"
  <2>1. Adds(peers, peers', 0, 0)
    BY <1>6, SamePeers DEF GetFetch
  <2>2. ~Holds(new)
    BY <1>2, <1>6 DEF GetFetch, Fetches, Holds
  <2>. HIDE DEF new
  <2>. QED BY <1>2, <1>3, <1>4, <2>1, <2>2, ElseKeepsCount
<1>. QED BY <1>5, <1>6

\* A request begins without a peer.
LEMMA BeginKeepsCount ==
    ASSUME CountInv, NEW r \in Requests,
           NEW rq, {"kind", "step", "current"} \subseteq DOMAIN rq, Begin(r, rq), SameKept
    PROVE  CountInv'
<1>. DEFINE new == [rq EXCEPT !.step = "get"]
<1>1. {"kind", "step", "current"} \subseteq DOMAIN new /\ ~Holds(new)
  BY DEF Holds
<1>2. req' = [req EXCEPT ![r] = new] /\ ~Holds(req[r]) /\ Adds(peers, peers', 0, 0)
  BY SamePeers DEF Begin, Holds
<1>. HIDE DEF new
<1>. QED BY <1>1, <1>2, ElseKeepsCount

LEMMA StartKeepsCount ==
    ASSUME CountInv, NEW r \in Requests, NEW i,
           StartPlain(r) \/ StartChosen(r, i) \/ StartFetch(r, i)
    PROVE  CountInv'
<1>. DEFINE named(rq) == {"kind", "step", "current"} \subseteq DOMAIN rq
<1>1. PICK rq : named(rq) /\ Begin(r, rq) /\ hist' = Counted(hist)
  <2>1. CASE StartPlain(r)
    <3>1. named([Idle EXCEPT !.kind = "plain", !.tries = Tries(peers)])
      BY DEF Idle
    <3>. QED BY <2>1, <3>1 DEF StartPlain
  <2>2. CASE StartChosen(r, i)
    <3>1. named([Idle EXCEPT !.kind = "chosen", !.tries = Tries(peers), !.current = i])
      BY DEF Idle
    <3>. QED BY <2>2, <3>1 DEF StartChosen
  <2>3. CASE StartFetch(r, i)
    <3>1. PICK o, kind, tries :
            Begin(r, [Idle EXCEPT !.kind = kind, !.current = i, !.obj = o, !.tries = tries])
      BY <2>3 DEF StartFetch
    <3>2. named([Idle EXCEPT !.kind = kind, !.current = i, !.obj = o, !.tries = tries])
      BY DEF Idle
    <3>3. hist' = Counted(hist)
      BY <2>3 DEF StartFetch
    <3>. QED BY <3>1, <3>2, <3>3
  <2>. QED BY <2>1, <2>2, <2>3
<1>2. SameKept
  BY <1>1, KeptStays
<1>. QED BY <1>1, <1>2, BeginKeepsCount

LEMMA IdleHoldsNone == {"kind", "step", "current"} \subseteq DOMAIN Idle /\ ~Holds(Idle)
BY DEF Idle, Holds

LEMMA DonePlainKeepsCount ==
    ASSUME CountInv, NEW r \in Requests, NEW a, DonePlain(r, a)
    PROVE  CountInv'
<1>1. Holds(req[r]) /\ req' = [req EXCEPT ![r] = Idle]
  BY DEF DonePlain, Answered, Holds
<1>2. Adds(peers, peers', req[r].current, -1)
  BY FreeAdds DEF DonePlain, CountInv
<1>3. SameKept
  BY KeptStays DEF DonePlain
<1>. QED BY <1>1, <1>2, <1>3, IdleHoldsNone, FreeKeepsCount

LEMMA FailPlainKeepsCount ==
    ASSUME CountInv, NEW r \in Requests, NEW type, FailPlain(r, type)
    PROVE  CountInv'
<1>. DEFINE left == Again(req[r], type)
            more == [req[r] EXCEPT !.step = "get", !.tries = left, !.conn = None]
            new  == IF left = 0 THEN Idle ELSE more
<1>1. Holds(req[r]) /\ req' = [req EXCEPT ![r] = new]
  BY DEF FailPlain, Holds
<1>2. Adds(peers, peers', req[r].current, -1)
  BY FreeAdds DEF FailPlain, CountInv
<1>3. {"kind", "step", "current"} \subseteq DOMAIN more /\ ~Holds(more)
  BY DEF CountInv, Holds
<1>4. {"kind", "step", "current"} \subseteq DOMAIN new /\ ~Holds(new)
  BY <1>3, IdleHoldsNone
<1>5. SameKept
  BY KeptStays DEF FailPlain
<1>. HIDE DEF new
<1>. QED BY <1>1, <1>2, <1>4, <1>5, FreeKeepsCount

LEMMA EndFetchKeepsCount ==
    ASSUME CountInv, NEW r \in Requests, NEW a, DoneFetch(r, a) \/ FailFetch(r)
    PROVE  CountInv'
<1>1. /\ req' = [req EXCEPT ![r] = Idle]
      /\ Holds(req[r]) <=> req[r].kind = "named"
  BY DEF DoneFetch, FailFetch, Answered, Holds, Fetches
<1>2. CASE req[r].kind # "named"
  <2>1. Adds(peers, peers', 0, 0)
    BY <1>2, SamePeers DEF DoneFetch, FailFetch, FreeFetch
  <2>2. SameKept
    BY <1>2, KeptStays DEF DoneFetch, FailFetch, Left
  <2>. QED BY <1>1, <1>2, <2>1, <2>2, IdleHoldsNone, ElseKeepsCount
<1>3. CASE req[r].kind = "named" /\ UNCHANGED peers /\ hist' = Left(hist, req[r])
  <2>1. hist' = [hist EXCEPT !.kept[req[r].current] = @ + 1]
    BY <1>3 DEF Left
  <2>. QED BY <1>1, <1>3, <2>1, IdleHoldsNone, LeaveKeepsCount
<1>4. ASSUME NEW failed, req[r].kind = "named", FreeFetch(req[r], failed), UNCHANGED hist
      PROVE  CountInv'
  <2>1. Adds(peers, peers', req[r].current, -1)
    BY <1>4, FreeAdds DEF FreeFetch, CountInv
  <2>. QED BY <1>1, <1>4, <2>1, IdleHoldsNone, FreeKeepsCount, KeptStays
<1>. QED BY <1>2, <1>3, <1>4 DEF DoneFetch, FailFetch

\* What leaves requests and peers as they are leaves the counts right.
LEMMA ElsewhereKeepsCount == ASSUME CountInv, UNCHANGED <<req, peers>>, SameKept PROVE CountInv'
BY DEF CountInv, ConnsCounted, Holders, Counts, SameKept

----------------------------------------------------------------------------

LEMMA CountInvInit == Init => CountInv
<1>. SUFFICES ASSUME Init PROVE CountInv
  OBVIOUS
<1>1. peers \in Seq(NewPeers)
  BY CasesAssumption DEF Init
<1>2. \A i \in DOMAIN peers : peers[i] \in NewPeers
  BY <1>1
<1>3. \A i \in DOMAIN peers : "conns" \in DOMAIN peers[i] /\ peers[i].conns = 0
  BY <1>2 DEF NewPeers
<1>4. \A i : Holders(i) = {}
  BY DEF Init, Holders, Idle
<1>5. ConnsCounted
  <2>1. \A i \in DOMAIN peers : hist.kept[i] = 0
    BY DEF Init
  <2>2. Cardinality({}) = 0
    BY FS_EmptySet
  <2>. QED BY <1>3, <1>4, <2>1, <2>2 DEF ConnsCounted
<1>6. "kept" \in DOMAIN hist /\ hist.kept \in [DOMAIN peers -> Nat]
  BY DEF Init
<1>. QED BY <1>3, <1>5, <1>6, IdleHoldsNone DEF Init, CountInv, Counts

LEMMA CountInvNext == CountInv /\ [Next]_vars => CountInv'
<1>. SUFFICES ASSUME CountInv, [Next]_vars PROVE CountInv'
  OBVIOUS
<1>1. ASSUME NEW r \in Requests, StartPlain(r) PROVE CountInv'
  BY <1>1, StartKeepsCount
<1>2. ASSUME NEW r \in Requests, NEW i \in DOMAIN peers, StartChosen(r, i) \/ StartFetch(r, i)
      PROVE  CountInv'
  BY <1>2, StartKeepsCount
<1>3. CASE FetchFails
  BY <1>3, ElsewhereKeepsCount, KeptStays DEF FetchFails
<1>4. ASSUME NEW r \in Requests, Get(r) PROVE CountInv'
  BY <1>4, GetPlainKeepsCount, GetChosenKeepsCount, GetFetchKeepsCount DEF Get
<1>5. ASSUME NEW r \in Requests, Done(r) PROVE CountInv'
  BY <1>5, DonePlainKeepsCount, EndFetchKeepsCount DEF Done
<1>6. ASSUME NEW r \in Requests, Fail(r) PROVE CountInv'
  BY <1>6, FailPlainKeepsCount, EndFetchKeepsCount DEF Fail
<1>7. ASSUME NEW s \in Sockets, PeerCloses(s) \/ KeepaliveCloseHandler(s) \/ FetchCloseHandler(s)
      PROVE  CountInv'
  BY <1>7, ElsewhereKeepsCount, KeptStays DEF PeerCloses, KeepaliveCloseHandler, FetchCloseHandler, Dropped
<1>8. CASE Tick
  BY <1>8, ElsewhereKeepsCount, KeptStays DEF Tick
<1>9. CASE UNCHANGED vars
  BY <1>9, ElsewhereKeepsCount, KeptStays DEF vars
<1>. QED BY <1>1, <1>2, <1>3, <1>4, <1>5, <1>6, <1>7, <1>8, <1>9 DEF Next

\* For any requests, tables and answers the count that max_conns is compared
\* with is that of the requests that hold the peer and of the named fetches whose
\* connection was kept, which never give it back
\* (ngx_http_upstream_get_round_robin_peer, the __get_peer of the selector and
\* of fetch, ngx_http_upstream_free_round_robin_peer, fetch's __free_peer).
THEOREM ConnsCountedAlways == Spec => []ConnsCounted
<1>1. CountInv => ConnsCounted
  BY DEF CountInv
<1>. QED BY <1>1, CountInvInit, CountInvNext, PTL DEF Spec

----------------------------------------------------------------------------
(* Sums                                                                    *)

\* Of finitely many numbers there is a greatest, and a first one of the greatest.
LEMMA HasGreatest ==
    ASSUME NEW n \in Nat, NEW E \in SUBSET (1 .. n), E # {},
           NEW w, \A i \in E : w[i] \in Int
    PROVE  \E i \in E : \A j \in E \ {i} : w[i] > w[j] \/ (w[i] = w[j] /\ i < j)
<1>. DEFINE Among(m) == E \cap (1 .. m)
            First(i, m) == i \in Among(m) /\ \A j \in Among(m) \ {i} : w[i] > w[j] \/ (w[i] = w[j] /\ i < j)
            Bad == {m \in 0 .. n : Among(m) # {} /\ ~\E i \in E : First(i, m)}
<1>1. ASSUME Bad # {} PROVE FALSE
  <2>1. PICK m \in Bad : \A k \in Bad : m <= k
    <3>1. Bad \subseteq Nat
      OBVIOUS
    <3>. HIDE DEF Bad
    <3>. QED BY <1>1, <3>1, HasLeast
  <2>2. /\ m \in 0 .. n /\ Among(m) # {} /\ ~\E i \in E : First(i, m)
    OBVIOUS
  <2>3. m # 0 /\ m - 1 \in 0 .. n /\ m - 1 \notin Bad
    <3>1. m # 0
      BY <2>2
    <3>. HIDE DEF Bad
    <3>. QED BY <2>1, <2>2, <3>1
  <2>4. Among(m) = Among(m - 1) \cup (E \cap {m}) /\ \A i \in Among(m - 1) : i < m
    BY <2>2
  <2>5. CASE Among(m - 1) = {}
    <3>1. Among(m) = {m}
      BY <2>2, <2>4, <2>5
    <3>2. m \in E /\ First(m, m)
      BY <3>1
    <3>. QED BY <2>2, <3>2
  <2>6. CASE Among(m - 1) # {}
    <3>1. PICK i \in E : First(i, m - 1)
      BY <2>3, <2>6
    <3>2. CASE m \notin E
      BY <2>2, <2>4, <3>1, <3>2
    <3>3. CASE m \in E /\ w[i] >= w[m]
      <4>1. First(i, m)
        BY <2>4, <3>1, <3>3
      <4>. QED BY <2>2, <4>1
    <3>4. CASE m \in E /\ w[i] < w[m]
      <4>1. ASSUME NEW j \in Among(m) \ {m} PROVE w[m] > w[j]
        <5>1. j \in Among(m - 1) /\ j \in E /\ w[j] \in Int /\ w[m] \in Int /\ w[i] \in Int
          BY <2>4, <3>4
        <5>2. w[i] >= w[j]
          BY <3>1, <5>1
        <5>. QED BY <3>4, <5>1, <5>2
      <4>2. m \in Among(m)
        BY <2>2, <2>4, <3>4
      <4>3. First(m, m)
        BY <4>1, <4>2
      <4>. QED BY <2>2, <3>4, <4>3
    <3>. QED BY <3>2, <3>3, <3>4
  <2>. QED BY <2>5, <2>6
<1>2. Among(n) = E /\ n \in 0 .. n
  <2>1. E \subseteq 1 .. n
    OBVIOUS
  <2>2. Among(n) = E
    BY <2>1
  <2>. QED BY <2>2
<1>3. n \notin Bad
  <2>. HIDE DEF Bad
  <2>. QED BY <1>1
<1>. QED BY <1>2, <1>3

\* f adds up w.
Upto(f, w) ==
    /\ f \in [0 .. Len(w) -> Int] /\ f[0] = 0
    /\ \A i \in 1 .. Len(w) : f[i] = f[i - 1] + w[i]

LEMMA SumIs ==
    ASSUME NEW w \in Seq(Int), NEW f, Upto(f, w)
    PROVE  SumOf(w) = f[Len(w)]
<1>. DEFINE n == Len(w)
            P(g) == g = [i \in 0 .. n |-> IF i = 0 THEN 0 ELSE g[i - 1] + w[i]]
            upto == CHOOSE g : P(g)
<1>1. n \in Nat
  OBVIOUS
<1>2. P(f)
  BY <1>1 DEF Upto
<1>3. P(upto)
  <2>. HIDE DEF P
  <2>. QED BY <1>2
<1>. HIDE DEF upto
<1>. DEFINE Bad == {i \in 0 .. n : upto[i] # f[i]}
<1>4. ASSUME Bad # {} PROVE FALSE
  <2>1. PICK m \in Bad : \A k \in Bad : m <= k
    <3>1. Bad \subseteq Nat
      BY <1>1
    <3>. HIDE DEF Bad
    <3>. QED BY <1>4, <3>1, HasLeast
  <2>2. m \in 0 .. n /\ upto[m] # f[m]
    OBVIOUS
  <2>3. m # 0
    BY <1>2, <1>3, <2>2
  <2>4. m - 1 \in 0 .. n /\ m - 1 \notin Bad
    BY <1>1, <2>1, <2>2, <2>3
  <2>5. upto[m - 1] = f[m - 1]
    BY <2>4
  <2>6. upto[m] = upto[m - 1] + w[m] /\ f[m] = f[m - 1] + w[m]
    BY <1>2, <1>3, <2>2, <2>3
  <2>. QED BY <2>2, <2>5, <2>6
<1>5. upto[n] = f[n]
  BY <1>1, <1>4
<1>. QED BY <1>5 DEF SumOf, upto

LEMMA UptoExists ==
    ASSUME NEW w \in Seq(Int)
    PROVE  \E f : Upto(f, w)
<1>. DEFINE n == Len(w)
            Part(f, m) == /\ f \in [0 .. m -> Int] /\ f[0] = 0
                          /\ \A i \in 1 .. m : f[i] = f[i - 1] + w[i]
            Bad == {m \in 0 .. n : ~\E f : Part(f, m)}
<1>1. n \in Nat /\ \A i \in 1 .. n : w[i] \in Int
  OBVIOUS
<1>2. ASSUME Bad # {} PROVE FALSE
  <2>1. PICK m \in Bad : \A k \in Bad : m <= k
    <3>1. Bad \subseteq Nat
      BY <1>1
    <3>. HIDE DEF Bad
    <3>. QED BY <1>2, <3>1, HasLeast
  <2>2. m \in 0 .. n /\ ~\E f : Part(f, m)
    OBVIOUS
  <2>3. m # 0
    <3>1. Part([i \in 0 .. 0 |-> 0], 0)
      OBVIOUS
    <3>. QED BY <2>2, <3>1
  <2>4. m - 1 \in 0 .. n /\ m - 1 \notin Bad
    <3>. HIDE DEF Bad
    <3>. QED BY <1>1, <2>1, <2>2, <2>3
  <2>5. PICK f : Part(f, m - 1)
    BY <2>4
  <2>6. Part([i \in 0 .. m |-> IF i = m THEN f[m - 1] + w[m] ELSE f[i]], m)
    <3>. DEFINE g == [i \in 0 .. m |-> IF i = m THEN f[m - 1] + w[m] ELSE f[i]]
    <3>1. f[m - 1] \in Int /\ w[m] \in Int
      BY <1>1, <2>2, <2>3, <2>5
    <3>2. g \in [0 .. m -> Int] /\ g[0] = 0
      BY <2>2, <2>3, <2>5, <3>1
    <3>3. ASSUME NEW i \in 1 .. m PROVE g[i] = g[i - 1] + w[i]
      <4>1. CASE i = m
        BY <2>2, <2>3, <4>1
      <4>2. CASE i # m
        <5>1. i \in 1 .. (m - 1) /\ i - 1 \in 0 .. m /\ i - 1 # m /\ i \in 0 .. m
          BY <2>2, <4>2
        <5>. QED BY <2>5, <4>2, <5>1
      <4>. QED BY <4>1, <4>2
    <3>. QED BY <3>2, <3>3
  <2>. QED BY <2>2, <2>6
<1>3. n \notin Bad
  <2>. HIDE DEF Bad
  <2>. QED BY <1>2
<1>4. \E f : Part(f, n)
  BY <1>1, <1>3
<1>. QED BY <1>4 DEF Upto

LEMMA SumIsInt ==
    ASSUME NEW w \in Seq(Int)
    PROVE  SumOf(w) \in Int
<1>1. PICK f : Upto(f, w)
  BY UptoExists
<1>2. SumOf(w) = f[Len(w)]
  BY <1>1, SumIs
<1>3. Len(w) \in 0 .. Len(w)
  OBVIOUS
<1>. QED BY <1>1, <1>2, <1>3 DEF Upto

LEMMA SumAdds ==
    ASSUME NEW u \in Seq(Int), NEW v \in Seq(Int), NEW w \in Seq(Int),
           Len(v) = Len(u), Len(w) = Len(u),
           \A i \in 1 .. Len(u) : w[i] = u[i] + v[i]
    PROVE  SumOf(w) = SumOf(u) + SumOf(v)
<1>. DEFINE n == Len(u)
<1>1. PICK f : Upto(f, u)
  BY UptoExists
<1>2. PICK g : Upto(g, v)
  BY UptoExists
<1>. DEFINE h == [i \in 0 .. n |-> f[i] + g[i]]
<1>3. /\ n \in Nat
      /\ f \in [0 .. n -> Int] /\ f[0] = 0 /\ \A i \in 1 .. n : f[i] = f[i - 1] + u[i]
      /\ g \in [0 .. n -> Int] /\ g[0] = 0 /\ \A i \in 1 .. n : g[i] = g[i - 1] + v[i]
  BY <1>1, <1>2 DEF Upto
<1>4. h \in [0 .. n -> Int] /\ h[0] = 0
  BY <1>3
<1>5. ASSUME NEW i \in 1 .. n PROVE h[i] = h[i - 1] + w[i]
  <2>1. i \in 0 .. n /\ i - 1 \in 0 .. n
    BY <1>3
  <2>2. h[i] = f[i] + g[i] /\ h[i - 1] = f[i - 1] + g[i - 1]
    BY <2>1
  <2>3. u[i] \in Int /\ v[i] \in Int /\ w[i] = u[i] + v[i]
    OBVIOUS
  <2>. HIDE DEF h, n
  <2>4. /\ f[i] = f[i - 1] + u[i] /\ g[i] = g[i - 1] + v[i]
        /\ f[i - 1] \in Int /\ g[i - 1] \in Int
    BY <1>3, <2>1
  <2>. QED BY <2>2, <2>3, <2>4
<1>6. Upto(h, w)
  <2>. HIDE DEF h
  <2>. QED BY <1>4, <1>5 DEF Upto
<1>7. SumOf(u) = f[n] /\ SumOf(v) = g[n] /\ SumOf(w) = h[n]
  BY <1>1, <1>2, <1>6, SumIs, Zenon
<1>8. h[n] = f[n] + g[n]
  BY <1>3
<1>. QED BY <1>7, <1>8

\* What stands at one place only is all the sum.
LEMMA SumOfOne ==
    ASSUME NEW w \in Seq(Int), NEW k \in 1 .. Len(w), NEW x \in Int,
           \A i \in 1 .. Len(w) : w[i] = IF i = k THEN x ELSE 0
    PROVE  SumOf(w) = x
<1>. DEFINE n == Len(w)
            f == [i \in 0 .. n |-> IF i < k THEN 0 ELSE x]
<1>1. n \in Nat
  OBVIOUS
<1>2. f \in [0 .. n -> Int] /\ f[0] = 0 /\ f[n] = x
  BY <1>1
<1>3. ASSUME NEW i \in 1 .. n PROVE f[i] = f[i - 1] + w[i]
  <2>1. i \in 0 .. n /\ i - 1 \in 0 .. n
    BY <1>1
  <2>. QED BY <2>1
<1>4. Upto(f, w)
  <2>. HIDE DEF f
  <2>. QED BY <1>2, <1>3 DEF Upto
<1>. QED BY <1>2, <1>4, SumIs

LEMMA SumOfNothing ==
    ASSUME NEW w \in Seq(Int), \A i \in 1 .. Len(w) : w[i] = 0
    PROVE  SumOf(w) = 0
<1>. DEFINE f == [i \in 0 .. Len(w) |-> 0]
<1>1. Upto(f, w)
  BY DEF Upto
<1>2. f[Len(w)] = 0
  OBVIOUS
<1>. QED BY <1>1, <1>2, SumIs

----------------------------------------------------------------------------
(* What a get and a free do to a table                                     *)

PeerType ==
    [weight : Nat, effective_weight : Nat, current_weight : Int,
     max_fails : Nat, fail_timeout : Nat, max_conns : Nat, down : BOOLEAN, backup : BOOLEAN,
     fails : Nat, accessed : Nat, checked : Nat, conns : Int]

Failed(p) == p.max_fails > 0 /\ p.fails >= p.max_fails

\* u is table t after a get of peer p, or of none, at that time.
Gets(t, u, p, time) ==
    /\ u \in Seq(PeerType) /\ Len(u) = Len(t)
    /\ \A b \in BOOLEAN : SumOf(Weights(u, b)) = SumOf(Weights(t, b))
    /\ \A i \in DOMAIN t : u[i].checked \in {t[i].checked, time}
    /\ p # 0 => p \in DOMAIN t
    /\ p # 0 /\ ~Single(t) /\ Failed(t[p]) =>
         time - t[p].checked > t[p].fail_timeout /\ u[p].checked = time

LEMMA PeersAre ==
    ASSUME NEW t \in Seq(PeerType)
    PROVE  /\ Len(t) \in Nat /\ DOMAIN t = 1 .. Len(t)
           /\ \A i \in 1 .. Len(t) :
                /\ t[i] \in PeerType
                /\ t[i].current_weight \in Int /\ t[i].effective_weight \in Nat
                /\ t[i].checked \in Nat /\ t[i].fail_timeout \in Nat
<1>1. Len(t) \in Nat /\ DOMAIN t = 1 .. Len(t) /\ \A i \in 1 .. Len(t) : t[i] \in PeerType
  OBVIOUS
<1>2. ASSUME NEW p \in PeerType
      PROVE  /\ p.current_weight \in Int /\ p.effective_weight \in Nat
             /\ p.checked \in Nat /\ p.fail_timeout \in Nat
  BY DEF PeerType
<1>. QED BY <1>1, <1>2

LEMMA WeightsAreInts ==
    ASSUME NEW t \in Seq(PeerType), NEW b
    PROVE  /\ Weights(t, b) \in Seq(Int) /\ Len(Weights(t, b)) = Len(t)
           /\ \A i \in 1 .. Len(t) :
                Weights(t, b)[i] = IF t[i].backup = b THEN t[i].current_weight ELSE 0
<1>. DEFINE n == Len(t)
            w == [i \in 1 .. n |-> IF t[i].backup = b THEN t[i].current_weight ELSE 0]
<1>1. n \in Nat /\ DOMAIN t = 1 .. n /\ \A i \in 1 .. n : t[i].current_weight \in Int
  BY PeersAre
<1>2. Weights(t, b) = w
  BY <1>1 DEF Weights
<1>3. w \in Seq(Int) /\ Len(w) = n
  <2>. HIDE DEF n
  <2>. QED BY <1>1
<1>. QED BY <1>2, <1>3

LEMMA WeighedIs ==
    ASSUME NEW t \in Seq(PeerType), NEW E \in SUBSET DOMAIN t
    PROVE  LET g == Weighed(t, E) IN
           /\ g \in Seq(PeerType) /\ Len(g) = Len(t)
           /\ \A i \in DOMAIN t :
                /\ g[i].current_weight = t[i].current_weight + IF i \in E THEN t[i].effective_weight ELSE 0
                /\ g[i].backup = t[i].backup /\ g[i].checked = t[i].checked
                /\ g[i].fail_timeout = t[i].fail_timeout
<1>. DEFINE g == Weighed(t, E)
            n == Len(t)
<1>1. n \in Nat /\ DOMAIN t = 1 .. n /\ \A i \in 1 .. n : t[i] \in PeerType
  OBVIOUS
<1>. DEFINE up(i) == [t[i] EXCEPT !.current_weight = @ + t[i].effective_weight,
                          !.effective_weight = IF @ < t[i].weight THEN @ + 1 ELSE @]
<1>2. g = [i \in 1 .. n |-> IF i \notin E THEN t[i] ELSE up(i)] /\ DOMAIN g = 1 .. n
  BY <1>1 DEF Weighed
<1>3. ASSUME NEW i \in 1 .. n
      PROVE  /\ up(i) \in PeerType
             /\ up(i).current_weight = t[i].current_weight + t[i].effective_weight
             /\ up(i).backup = t[i].backup /\ up(i).checked = t[i].checked
             /\ up(i).fail_timeout = t[i].fail_timeout
  <2>2. t[i] \in PeerType /\ t[i].effective_weight \in Nat /\ t[i].current_weight \in Int
    BY <1>1, PeersAre
  <2>. DEFINE e == IF t[i].effective_weight < t[i].weight
                   THEN t[i].effective_weight + 1 ELSE t[i].effective_weight
              x == t[i].current_weight + t[i].effective_weight
  <2>3. e \in Nat /\ x \in Int
    BY <2>2
  <2>4. up(i) = [t[i] EXCEPT !.current_weight = x, !.effective_weight = e]
    OBVIOUS
  <2>. HIDE DEF e, up, x
  <2>5. /\ up(i) \in PeerType /\ up(i).current_weight = x
        /\ up(i).backup = t[i].backup /\ up(i).checked = t[i].checked
        /\ up(i).fail_timeout = t[i].fail_timeout
    <3>1. PICK q \in PeerType : q = t[i]
      BY <2>2
    <3>2. PICK r : r = up(i)
      OBVIOUS
    <3>3. r = [q EXCEPT !.current_weight = x, !.effective_weight = e]
      BY <2>4, <3>1, <3>2, Zenon
    <3>4. /\ r \in PeerType /\ r.current_weight = x
          /\ r.backup = q.backup /\ r.checked = q.checked /\ r.fail_timeout = q.fail_timeout
      BY <2>3, <3>3 DEF PeerType
    <3>. QED BY <3>1, <3>2, <3>4
  <2>. QED BY <2>5 DEF x
<1>4. ASSUME NEW i \in 1 .. n PROVE t[i].current_weight \in Int
  BY <1>1, PeersAre
<1>. HIDE DEF g, up
<1>5. \A i \in 1 .. n : g[i] \in PeerType
  BY <1>1, <1>2, <1>3
<1>6. g \in Seq(PeerType) /\ Len(g) = n
  <2>. HIDE DEF n
  <2>. QED BY <1>1, <1>2, <1>5
<1>7. \A i \in 1 .. n :
        /\ g[i].current_weight = t[i].current_weight + IF i \in E THEN t[i].effective_weight ELSE 0
        /\ g[i].backup = t[i].backup /\ g[i].checked = t[i].checked
        /\ g[i].fail_timeout = t[i].fail_timeout
  BY <1>2, <1>3, <1>4
<1>. QED BY <1>1, <1>6, <1>7 DEF g

LEMMA PickedIs ==
    ASSUME NEW t \in Seq(PeerType), NEW i \in DOMAIN t, NEW total \in Int, NEW time \in Nat
    PROVE  LET u == Picked(t, i, total, time) IN
           /\ u \in Seq(PeerType) /\ Len(u) = Len(t)
           /\ \A j \in DOMAIN t \ {i} : u[j] = t[j]
           /\ u[i].current_weight = t[i].current_weight - total
           /\ u[i].backup = t[i].backup
           /\ u[i].checked = IF time - t[i].checked > t[i].fail_timeout THEN time ELSE t[i].checked
<1>. DEFINE p == [t[i] EXCEPT !.current_weight = @ - total,
                              !.checked = IF time - @ > t[i].fail_timeout THEN time ELSE @]
            u == Picked(t, i, total, time)
<1>1. t[i] \in PeerType
  OBVIOUS
<1>2. /\ p \in PeerType
      /\ p.current_weight = t[i].current_weight - total
      /\ p.backup = t[i].backup
      /\ p.checked = IF time - t[i].checked > t[i].fail_timeout THEN time ELSE t[i].checked
  <2>. DEFINE c == IF time - t[i].checked > t[i].fail_timeout THEN time ELSE t[i].checked
              x == t[i].current_weight - total
  <2>2. c \in Nat /\ x \in Int
    BY <1>1 DEF PeerType
  <2>3. p = [t[i] EXCEPT !.current_weight = x, !.checked = c]
    OBVIOUS
  <2>. HIDE DEF c, p, x
  <2>4. p \in PeerType /\ p.current_weight = x /\ p.backup = t[i].backup /\ p.checked = c
    <3>1. PICK q \in PeerType : q = t[i]
      BY <1>1
    <3>2. PICK r : r = p
      OBVIOUS
    <3>3. r = [q EXCEPT !.current_weight = x, !.checked = c]
      BY <2>3, <3>1, <3>2, Zenon
    <3>4. r \in PeerType /\ r.current_weight = x /\ r.backup = q.backup /\ r.checked = c
      BY <2>2, <3>3 DEF PeerType
    <3>. QED BY <3>1, <3>2, <3>4
  <2>. QED BY <2>4 DEF c, x
<1>3. u = [t EXCEPT ![i] = p]
  BY DEF Picked
<1>. HIDE DEF p, u
<1>4. u \in Seq(PeerType) /\ Len(u) = Len(t) /\ u[i] = p /\ \A j \in DOMAIN t \ {i} : u[j] = t[j]
  BY <1>2, <1>3
<1>. QED BY <1>2, <1>4 DEF u

LEMMA BestIsOneOf ==
    ASSUME NEW t \in Seq(PeerType), NEW E \in SUBSET DOMAIN t, E # {}
    PROVE  Best(t, E) \in E
<1>. DEFINE w == [i \in DOMAIN t |-> t[i].current_weight]
            n == Len(t)
<1>1. n \in Nat /\ E \in SUBSET (1 .. n) /\ \A i \in E : w[i] \in Int /\ w[i] = t[i].current_weight
  BY PeersAre
<1>. HIDE DEF w, n
<1>2. \E i \in E : \A j \in E \ {i} : w[i] > w[j] \/ (w[i] = w[j] /\ i < j)
  BY <1>1, HasGreatest
<1>3. \E i \in E : \A j \in E \ {i} :
        \/ t[i].current_weight > t[j].current_weight
        \/ t[i].current_weight = t[j].current_weight /\ i < j
  BY <1>1, <1>2
<1>. QED BY <1>3 DEF Best

\* Who is passed over gains as much as who is picked pays.
LEMMA GetPeerGets ==
    ASSUME NEW t \in Seq(PeerType), NEW backup, NEW tried, NEW time \in Nat
    PROVE  LET got == GetPeer(t, backup, tried, time)
           IN  Gets(t, got.table, got.peer, time)
<1>. DEFINE E == Eligible(t, backup, tried, time)
            g == Weighed(t, E)
            p == Best(g, E)
            gains == [i \in DOMAIN t |-> IF i \in E THEN t[i].effective_weight ELSE 0]
            total == SumOf(gains)
            u == Picked(g, p, total, time)
            n == Len(t)
<1>1. n \in Nat /\ DOMAIN t = 1 .. n /\ E \in SUBSET (1 .. n) /\ \A i \in 1 .. n : t[i] \in PeerType
  BY DEF Eligible, Group
<1>2. \A i \in E : t[i].backup = backup /\ ~Resting(t[i], time)
  BY DEF Eligible, Group
<1>3. GetPeer(t, backup, tried, time) =
        IF E = {} THEN [peer |-> 0, table |-> t] ELSE [peer |-> p, table |-> u]
  BY Zenon DEF GetPeer, Total
<1>4. CASE E = {}
  <2>1. Gets(t, t, 0, time)
    BY DEF Gets
  <2>. QED BY <1>3, <1>4, <2>1
<1>5. CASE E # {}
  <2>0. PICK k \in BOOLEAN : k = backup
    <3>1. PICK i \in E : TRUE
      BY <1>5
    <3>2. t[i].backup \in BOOLEAN
      <4>1. t[i] \in PeerType
        BY <1>1
      <4>. QED BY <4>1 DEF PeerType
    <3>. QED BY <1>2, <3>2
  <2>1. gains \in Seq(Int) /\ Len(gains) = n
        /\ \A i \in 1 .. n : gains[i] = IF i \in E THEN t[i].effective_weight ELSE 0
    <3>1. \A i \in 1 .. n : t[i].effective_weight \in Int
      BY PeersAre
    <3>. QED BY <1>1, <3>1
  <2>2. total \in Int
    BY <2>1, SumIsInt
  <2>3. /\ g \in Seq(PeerType) /\ Len(g) = n
        /\ \A i \in 1 .. n :
             /\ g[i].current_weight = t[i].current_weight + IF i \in E THEN t[i].effective_weight ELSE 0
             /\ g[i].backup = t[i].backup /\ g[i].checked = t[i].checked
             /\ g[i].fail_timeout = t[i].fail_timeout
    BY <1>1, WeighedIs
  <2>. HIDE DEF g, E, gains, n
  <2>4. p \in E
    <3>1. E \in SUBSET DOMAIN g
      BY <1>1, <2>3
    <3>. QED BY <1>5, <2>3, <3>1, BestIsOneOf
  <2>. HIDE DEF p, total
  <2>5. p \in 1 .. n /\ p \in DOMAIN g /\ p # 0
    <3>1. p \in 1 .. n /\ DOMAIN g = 1 .. n
      BY <1>1, <2>3, <2>4
    <3>. QED BY <3>1
  <2>6. /\ u \in Seq(PeerType) /\ Len(u) = n
        /\ \A j \in 1 .. n : j # p => u[j] = g[j]
        /\ u[p].current_weight = g[p].current_weight - total
        /\ u[p].backup = g[p].backup
        /\ u[p].checked = IF time - g[p].checked > g[p].fail_timeout THEN time ELSE g[p].checked
    <3>1. DOMAIN g = 1 .. n
      BY <2>3
    <3>. QED BY <2>2, <2>3, <2>5, <3>1, PickedIs
  <2>. HIDE DEF u
  <2>7. ASSUME NEW b \in BOOLEAN PROVE SumOf(Weights(u, b)) = SumOf(Weights(t, b))
    <3>. DEFINE A == Weights(t, b)
                B == Weights(g, b)
                D == Weights(u, b)
    <3>1. /\ A \in Seq(Int) /\ Len(A) = n
          /\ \A i \in 1 .. n : A[i] = IF t[i].backup = b THEN t[i].current_weight ELSE 0
      BY WeightsAreInts DEF n
    <3>2. /\ B \in Seq(Int) /\ Len(B) = n
          /\ \A i \in 1 .. n : B[i] = IF g[i].backup = b THEN g[i].current_weight ELSE 0
      BY <2>3, WeightsAreInts
    <3>3. /\ D \in Seq(Int) /\ Len(D) = n
          /\ \A i \in 1 .. n : D[i] = IF u[i].backup = b THEN u[i].current_weight ELSE 0
      BY <2>6, WeightsAreInts
    <3>. HIDE DEF A, B, D
    <3>4. CASE b = k
      <4>0. PICK x \in Int : x = -total
        BY <2>2
      <4>. DEFINE C == [i \in 1 .. n |-> IF i = p THEN x ELSE 0]
      <4>1. C \in Seq(Int) /\ Len(C) = n /\ SumOf(C) = x
        <5>1. C \in Seq(Int) /\ Len(C) = n
          BY <1>1
        <5>2. \A i \in 1 .. n : C[i] = IF i = p THEN x ELSE 0
          OBVIOUS
        <5>. HIDE DEF C
        <5>. QED BY <2>5, <5>1, <5>2, SumOfOne
      <4>2. \A i \in 1 .. n : B[i] = A[i] + gains[i]
        <5>1. ASSUME NEW i \in 1 .. n PROVE B[i] = A[i] + gains[i]
          <6>1. t[i].current_weight \in Int
            BY PeersAre DEF n
          <6>2. i \in E => t[i].backup = b
            BY <1>2, <2>0, <3>4
          <6>3. gains[i] = IF i \in E THEN t[i].effective_weight ELSE 0
            BY <2>1
          <6>4. /\ A[i] = IF t[i].backup = b THEN t[i].current_weight ELSE 0
                /\ B[i] = IF t[i].backup = b
                          THEN t[i].current_weight + IF i \in E THEN t[i].effective_weight ELSE 0
                          ELSE 0
            BY <2>3, <3>1, <3>2
          <6>5. CASE t[i].backup = b
            BY <6>3, <6>4, <6>5
          <6>6. CASE t[i].backup # b
            BY <6>2, <6>3, <6>4, <6>6
          <6>. QED BY <6>5, <6>6
        <5>. QED BY <5>1
      <4>3. \A i \in 1 .. n : D[i] = B[i] + C[i]
        <5>1. ASSUME NEW i \in 1 .. n PROVE D[i] = B[i] + C[i]
          <6>1. g[i].current_weight \in Int
            BY <2>3, PeersAre
          <6>2. g[p].backup = b
            BY <1>2, <2>0, <2>3, <2>4, <2>5, <3>4
          <6>3. /\ B[i] = IF g[i].backup = b THEN g[i].current_weight ELSE 0
                /\ D[i] = IF u[i].backup = b THEN u[i].current_weight ELSE 0
            BY <3>2, <3>3
          <6>4. CASE i = p
            <7>1. C[i] = x /\ D[i] = g[p].current_weight - total /\ B[i] = g[p].current_weight
              BY <2>6, <6>2, <6>3, <6>4
            <7>. QED BY <2>2, <4>0, <6>1, <6>4, <7>1
          <6>5. CASE i # p
            <7>1. C[i] = 0 /\ D[i] = B[i] /\ B[i] \in Int
              BY <2>6, <6>1, <6>3, <6>5
            <7>. QED BY <7>1
          <6>. QED BY <6>4, <6>5
        <5>. QED BY <5>1
      <4>. HIDE DEF C
      <4>4. SumOf(B) = SumOf(A) + SumOf(gains)
        <5>1. /\ A \in Seq(Int) /\ gains \in Seq(Int) /\ B \in Seq(Int)
              /\ Len(gains) = Len(A) /\ Len(B) = Len(A)
              /\ \A i \in 1 .. Len(A) : B[i] = A[i] + gains[i]
          BY <2>1, <3>1, <3>2, <4>2
        <5>. QED BY <5>1, SumAdds
      <4>5. SumOf(D) = SumOf(B) + SumOf(C)
        <5>1. /\ B \in Seq(Int) /\ C \in Seq(Int) /\ D \in Seq(Int)
              /\ Len(C) = Len(B) /\ Len(D) = Len(B)
              /\ \A i \in 1 .. Len(B) : D[i] = B[i] + C[i]
          BY <3>2, <3>3, <4>1, <4>3
        <5>. QED BY <5>1, SumAdds
      <4>6. SumOf(A) \in Int
        BY <3>1, SumIsInt
      <4>. QED BY <2>2, <4>0, <4>1, <4>4, <4>5, <4>6 DEF A, D, total
    <3>5. CASE b # k
      <4>1. ASSUME NEW i \in 1 .. n PROVE D[i] = A[i]
        <5>1. i \in E => t[i].backup # b
          BY <1>2, <2>0, <3>5
        <5>2. CASE i = p
          BY <2>3, <2>4, <2>6, <3>1, <3>3, <5>1, <5>2
        <5>3. CASE i # p
          <6>1. u[i] = g[i] /\ g[i].backup = t[i].backup
            BY <2>3, <2>6, <5>3
          <6>2. CASE t[i].backup # b
            BY <3>1, <3>3, <6>1, <6>2
          <6>3. CASE t[i].backup = b
            <7>1. t[i].current_weight \in Int
              BY PeersAre DEF n
            <7>2. i \notin E
              BY <5>1, <6>3
            <7>3. g[i].current_weight = t[i].current_weight + 0
              BY <2>3, <7>2
            <7>4. D[i] = g[i].current_weight /\ A[i] = t[i].current_weight
              BY <3>1, <3>3, <6>1, <6>3
            <7>. QED BY <7>1, <7>3, <7>4
          <6>. QED BY <6>2, <6>3
        <5>. QED BY <5>2, <5>3
      <4>2. D = A
        BY <3>1, <3>3, <4>1
      <4>. QED BY <4>2 DEF A, D
    <3>. QED BY <3>4, <3>5
  <2>8. \A i \in 1 .. n : u[i].checked \in {t[i].checked, time}
    BY <2>3, <2>6
  <2>9. Failed(t[p]) => time - t[p].checked > t[p].fail_timeout /\ u[p].checked = time
    <3>1. /\ t[p].checked \in Nat /\ t[p].fail_timeout \in Nat
          /\ g[p].checked = t[p].checked /\ g[p].fail_timeout = t[p].fail_timeout
      BY <1>1, <2>3, <2>5, PeersAre DEF n
    <3>. QED BY <1>2, <2>4, <2>6, <3>1 DEF Failed, Resting
  <2>10. Gets(t, u, p, time)
    BY <1>1, <2>5, <2>6, <2>7, <2>8, <2>9 DEF Gets, n
  <2>. QED BY <1>3, <1>5, <2>10
<1>. QED BY <1>4, <1>5

LEMMA WeightsAlike ==
    ASSUME NEW t \in Seq(PeerType), NEW u \in Seq(PeerType), Len(u) = Len(t), NEW b,
           \A i \in DOMAIN t : u[i].backup = t[i].backup /\ u[i].current_weight = t[i].current_weight
    PROVE  Weights(u, b) = Weights(t, b)
<1>1. DOMAIN t = 1 .. Len(t) /\ DOMAIN u = 1 .. Len(t)
  BY PeersAre
<1>. QED BY <1>1 DEF Weights

\* What does not touch the weights moves at most the time of the last check.
LEMMA QuietGets ==
    ASSUME NEW t \in Seq(PeerType), NEW u, NEW i, NEW p \in PeerType, NEW time,
           u = [t EXCEPT ![i] = p],
           i \in DOMAIN t =>
             /\ p.backup = t[i].backup /\ p.current_weight = t[i].current_weight
             /\ p.checked \in {t[i].checked, time}
    PROVE  Gets(t, u, 0, time)
<1>1. u \in Seq(PeerType) /\ Len(u) = Len(t)
  <2>1. CASE i \in DOMAIN t
    BY <2>1
  <2>2. CASE i \notin DOMAIN t
    <3>1. u = t
      BY <2>2
    <3>. QED BY <3>1
  <2>. QED BY <2>1, <2>2
<1>2. \A j \in DOMAIN t : u[j] = IF j = i THEN p ELSE t[j]
  OBVIOUS
<1>3. \A j \in DOMAIN t : u[j].backup = t[j].backup /\ u[j].current_weight = t[j].current_weight
  BY <1>2
<1>4. \A b \in BOOLEAN : SumOf(Weights(u, b)) = SumOf(Weights(t, b))
  BY <1>1, <1>3, WeightsAlike
<1>5. \A j \in DOMAIN t : u[j].checked \in {t[j].checked, time}
  BY <1>2
<1>. QED BY <1>1, <1>4, <1>5 DEF Gets

LEMMA ConnsGets ==
    ASSUME NEW t \in Seq(PeerType), NEW i, NEW time,
           NEW u, u = Connected(t, i) \/ u = Freed(t, i)
    PROVE  /\ Gets(t, u, 0, time)
           /\ \A j \in DOMAIN t : u[j].checked = t[j].checked
<1>1. CASE i \notin DOMAIN t
  <2>1. u = t
    BY <1>1 DEF Connected, Freed
  <2>. QED BY <2>1 DEF Gets
<1>2. CASE i \in DOMAIN t
  <2>1. PICK q \in PeerType : q = t[i]
    BY <1>2
  <2>2. q.conns \in Int
    BY DEF PeerType
  <2>3. PICK n \in Int : u = [t EXCEPT ![i].conns = n]
    <3>1. CASE u = Connected(t, i)
      <4>1. PICK n \in Int : n = t[i].conns + 1
        BY <2>1, <2>2
      <4>. QED BY <3>1, <4>1 DEF Connected
    <3>2. CASE u = Freed(t, i)
      <4>1. PICK n \in Int : n = t[i].conns - 1
        BY <2>1, <2>2
      <4>. QED BY <3>2, <4>1 DEF Freed
    <3>. QED BY <3>1, <3>2
  <2>4. PICK r : r = [q EXCEPT !.conns = n]
    OBVIOUS
  <2>5. u = [t EXCEPT ![i] = r]
    BY <1>2, <2>1, <2>3, <2>4
  <2>6. /\ r \in PeerType /\ r.backup = q.backup /\ r.current_weight = q.current_weight
        /\ r.checked = q.checked
    BY <2>4 DEF PeerType
  <2>7. Gets(t, u, 0, time)
    BY <2>1, <2>5, <2>6, QuietGets
  <2>8. \A j \in DOMAIN t : u[j].checked = t[j].checked
    BY <1>2, <2>1, <2>5, <2>6
  <2>. QED BY <2>7, <2>8
<1>. QED BY <1>1, <1>2

\* A get of the round robin, whatever the group.
LEMMA GetRoundRobinPeerGets ==
    ASSUME NEW t \in Seq(PeerType), NEW backup, NEW tried, NEW time \in Nat,
           NEW got, got = GetRoundRobinPeer(t, backup, tried, time)
    PROVE  Gets(t, got.table, got.peer, time)
<1>. DEFINE first  == IF Single(t) THEN GetSingle(t) ELSE GetPeer(t, backup, tried, time)
            turn   == first.peer = 0 /\ ~backup /\ Group(t, TRUE) # {}
            second == GetPeer(t, TRUE, {}, time)
            any    == IF turn THEN second ELSE first
<1>1. Gets(t, first.table, first.peer, time)
  <2>1. CASE Single(t)
    <3>1. first \in {[peer |-> 0, table |-> t], [peer |-> 1, table |-> t]}
      BY <2>1 DEF GetSingle
    <3>2. 1 \in DOMAIN t
      BY <2>1 DEF Single
    <3>3. Gets(t, t, 0, time) /\ Gets(t, t, 1, time)
      BY <2>1, <3>2 DEF Gets
    <3>. QED BY <3>1, <3>3
  <2>2. CASE ~Single(t)
    BY <2>2, GetPeerGets
  <2>. QED BY <2>1, <2>2
<1>2. Gets(t, second.table, second.peer, time)
  BY GetPeerGets
<1>3. Gets(t, any.table, any.peer, time)
  BY <1>1, <1>2
<1>4. /\ got.peer = any.peer
      /\ got.table = IF any.peer = 0 THEN any.table ELSE Connected(any.table, any.peer)
  BY DEF GetRoundRobinPeer
<1>. HIDE DEF any
<1>5. CASE any.peer = 0
  BY <1>3, <1>4, <1>5
<1>6. CASE any.peer # 0
  <2>. DEFINE u == any.table
              v == Connected(u, any.peer)
  <2>1. u \in Seq(PeerType) /\ Len(u) = Len(t) /\ DOMAIN u = DOMAIN t
    BY <1>3 DEF Gets
  <2>3. Gets(u, v, 0, time) /\ \A j \in DOMAIN u : v[j].checked = u[j].checked
    <3>. HIDE DEF u
    <3>. QED BY <2>1, ConnsGets
  <2>. HIDE DEF u, v
  <2>4. Gets(t, v, any.peer, time)
    <3>1. v \in Seq(PeerType) /\ Len(v) = Len(t)
      BY <2>1, <2>3 DEF Gets
    <3>2. \A b \in BOOLEAN : SumOf(Weights(v, b)) = SumOf(Weights(t, b))
      BY <1>3, <2>3 DEF Gets, u
    <3>3. \A j \in DOMAIN t : v[j].checked = u[j].checked
      BY <2>1, <2>3
    <3>. QED BY <1>3, <3>1, <3>2, <3>3 DEF Gets, u
  <2>. QED BY <1>4, <1>6, <2>4 DEF u, v
<1>. QED BY <1>5, <1>6

\* A free marks the failure, and no weight that requests were chosen by.
LEMMA FreeRoundRobinPeerGets ==
    ASSUME NEW t \in Seq(PeerType), NEW i, NEW failed, NEW time \in Nat,
           NEW u, u = FreeRoundRobinPeer(t, i, failed, time)
    PROVE  Gets(t, u, 0, time)
<1>1. CASE i \notin DOMAIN t
  <2>1. u = t
    BY <1>1 DEF FreeRoundRobinPeer, Freed
  <2>. QED BY <2>1 DEF Gets
<1>2. CASE i \in DOMAIN t
  <2>. DEFINE p == t[i]
              lost == p.effective_weight - Loss(p)
              weight == IF lost < 0 THEN 0 ELSE lost
              count == IF p.fails < p.max_fails THEN p.fails + 1 ELSE p.fails
              hit == [p EXCEPT !.fails = count, !.accessed = time, !.checked = time,
                               !.effective_weight = weight]
              well == [p EXCEPT !.fails = IF p.accessed < p.checked THEN 0 ELSE @]
              marked == IF Single(t) THEN p ELSE IF failed THEN hit ELSE well
              mid == [t EXCEPT ![i] = marked]
  <2>1. PICK q \in PeerType : q = p
    BY <1>2
  <2>2. weight \in Nat /\ count \in Nat
    <3>1. q.effective_weight \in Nat /\ q.fails \in Nat /\ q.weight \in Nat /\ q.max_fails \in Nat
      BY DEF PeerType
    <3>2. Loss(q) \in Int
      BY <3>1 DEF Loss
    <3>. QED BY <2>1, <3>1, <3>2
  <2>3. PICK w \in Nat, c \in Nat : w = weight /\ c = count
    BY <2>2
  <2>4. hit = [q EXCEPT !.fails = c, !.accessed = time, !.checked = time, !.effective_weight = w]
    BY <2>1, <2>3
  <2>5. /\ hit \in PeerType /\ hit.backup = q.backup /\ hit.current_weight = q.current_weight
        /\ hit.checked = time
    <3>. HIDE DEF hit
    <3>. QED BY <2>4 DEF PeerType
  <2>6. /\ well \in PeerType /\ well.backup = q.backup /\ well.current_weight = q.current_weight
        /\ well.checked = q.checked
    <3>1. PICK d \in Nat : d = IF p.accessed < p.checked THEN 0 ELSE p.fails
      BY <2>1 DEF PeerType
    <3>2. well = [q EXCEPT !.fails = d]
      BY <2>1, <3>1
    <3>. HIDE DEF well
    <3>. QED BY <3>2 DEF PeerType
  <2>. HIDE DEF hit, well
  <2>7. /\ marked \in PeerType /\ marked.backup = p.backup /\ marked.current_weight = p.current_weight
        /\ marked.checked \in {p.checked, time}
    BY <2>1, <2>5, <2>6
  <2>8. u = Freed(mid, i)
    BY Zenon DEF FreeRoundRobinPeer, hit, well
  <2>. HIDE DEF marked
  <2>9. Gets(t, mid, 0, time)
    BY <2>7, QuietGets
  <2>10. mid \in Seq(PeerType) /\ Len(mid) = Len(t) /\ DOMAIN mid = DOMAIN t
    BY <2>9 DEF Gets
  <2>. HIDE DEF mid
  <2>11. PICK m \in Seq(PeerType) : m = mid
    BY <2>10
  <2>12. Gets(m, u, 0, time) /\ \A j \in DOMAIN m : u[j].checked = m[j].checked
    <3>1. u = Connected(m, i) \/ u = Freed(m, i)
      BY <2>8, <2>11
    <3>. QED BY <3>1, ConnsGets
  <2>. QED BY <2>9, <2>10, <2>11, <2>12 DEF Gets
<1>. QED BY <1>1, <1>2

----------------------------------------------------------------------------
(* The weights are balanced and the tries of resting peers spaced          *)

\* What the weights depend on, and the times at which resting peers were tried.
TableInv ==
    /\ peers \in Seq(PeerType) /\ now \in Nat
    /\ WeightsBalanced
    /\ "probe" \in DOMAIN hist /\ hist.probe \in [DOMAIN peers -> Nat]
    /\ \A i \in DOMAIN peers : hist.probe[i] <= peers[i].checked /\ hist.probe[i] <= now

LEMMA GetsKeepsTable ==
    ASSUME TableInv, NEW p, Gets(peers, peers', p, now), now' = now, "probe" \in DOMAIN hist',
           \/ hist'.probe = hist.probe
           \/ /\ p # 0 /\ ~Single(peers) /\ Failed(peers[p])
              /\ hist'.probe = [hist.probe EXCEPT ![p] = now]
    PROVE  TableInv'
<1>. DEFINE f == hist.probe
            g == hist'.probe
<1>1. /\ peers' \in Seq(PeerType) /\ DOMAIN peers' = DOMAIN peers
      /\ WeightsBalanced'
  BY DEF TableInv, Gets, WeightsBalanced
<1>2. \A i \in DOMAIN peers : peers'[i].checked \in {peers[i].checked, now} /\ peers[i].checked \in Nat
  BY PeersAre DEF TableInv, Gets
<1>3. f \in [DOMAIN peers -> Nat] /\ now \in Nat /\ \A i \in DOMAIN peers : f[i] <= peers[i].checked /\ f[i] <= now
  BY DEF TableInv
<1>4. \/ g = f
      \/ p \in DOMAIN peers /\ g = [f EXCEPT ![p] = now] /\ peers'[p].checked = now
  BY DEF Gets
<1>. HIDE DEF f, g
<1>5. g \in [DOMAIN peers -> Nat] /\ \A i \in DOMAIN peers : g[i] <= peers'[i].checked /\ g[i] <= now
  BY <1>2, <1>3, <1>4
<1>. QED BY <1>1, <1>3, <1>5 DEF TableInv, g

LEMMA SameTable == ASSUME TableInv, UNCHANGED peers PROVE Gets(peers, peers', 0, now)
BY DEF TableInv, Gets

\* What a get of the round robin does to the table and to the times.
LEMMA GetPlainGets ==
    ASSUME CountInv, TableInv, NEW r \in Requests, GetPlain(r)
    PROVE  \E p : /\ Gets(peers, peers', p, now)
                  /\ p = 0 => req' = [req EXCEPT ![r] = Idle]
                  /\ p # 0 => \E rq : rq.current = p /\ req' = [req EXCEPT ![r] = rq]
                  /\ hist' = IF p = 0 \/ ~Failed(peers[p]) \/ Single(peers) THEN hist
                             ELSE [hist EXCEPT !.probe[p] = now]
<1>. DEFINE rq == req[r]
            next(got) == [rq EXCEPT !.backup = got.backup, !.tried = got.tried,
                                    !.current = got.peer, !.cached = FALSE]
<1>1. PICK got \in {GetRoundRobinPeer(peers, rq.backup, rq.tried, now)} :
        /\ peers' = got.table
        /\ IF got.peer = 0 THEN Answered(r) ELSE Connect(r, next(got), keep)
        /\ hist' = IF got.peer = 0 \/ ~Probed(got.peer) \/ Single(peers) THEN hist
                   ELSE [hist EXCEPT !.probe[got.peer] = now]
  BY DEF GetPlain
<1>2. Gets(peers, peers', got.peer, now)
  BY <1>1, GetRoundRobinPeerGets DEF TableInv
<1>3. got.peer = 0 => req' = [req EXCEPT ![r] = Idle]
  BY <1>1 DEF Answered
<1>4. ASSUME got.peer # 0
      PROVE  \E new : new.current = got.peer /\ req' = [req EXCEPT ![r] = new]
  <2>1. PICK c, cached : req' = [req EXCEPT ![r] = [next(got) EXCEPT !.step = "waiting", !.conn = c, !.cached = cached]]
    BY <1>1, <1>4 DEF Connect
  <2>. DEFINE new == [next(got) EXCEPT !.step = "waiting", !.conn = c, !.cached = cached]
  <2>2. new.current = got.peer
    BY DEF GetPlain, CountInv
  <2>. HIDE DEF new
  <2>. QED BY <2>1, <2>2 DEF new
<1>5. Probed(got.peer) <=> Failed(peers[got.peer])
  BY DEF Probed, Failed
<1>. HIDE DEF next
<1>. QED BY <1>1, <1>2, <1>3, <1>4, <1>5

LEMMA TableInvInit == Init => TableInv
<1>. SUFFICES ASSUME Init PROVE TableInv
  OBVIOUS
<1>1. PICK t \in Seq(NewPeers) \ {<<>>} : peers = t /\ now = Longest(t) + 1
  BY CasesAssumption DEF Init
<1>2. \A i \in 1 .. Len(t) : t[i] \in NewPeers
  OBVIOUS
<1>3. t \in Seq(PeerType) /\ \A i \in 1 .. Len(t) : t[i].current_weight = 0 /\ t[i].checked = 0
  <2>1. NewPeers \subseteq PeerType /\ \A q \in NewPeers : q.current_weight = 0 /\ q.checked = 0
    <3>1. ASSUME NEW q \in NewPeers PROVE q \in PeerType /\ q.current_weight = 0 /\ q.checked = 0
      BY DEF NewPeers, PeerType
    <3>. QED BY <3>1
  <2>. QED BY <1>2, <2>1
<1>4. Longest(t) \in Nat
  <2>. DEFINE n == Len(t)
              w == [i \in DOMAIN t |-> t[i].fail_timeout]
              E == 1 .. n
  <2>1. /\ n \in Nat /\ E \in SUBSET (1 .. n) /\ E # {} /\ DOMAIN t = E
        /\ \A i \in E : w[i] \in Int /\ w[i] \in Nat /\ w[i] = t[i].fail_timeout
    BY <1>3, PeersAre
  <2>. HIDE DEF w, n, E
  <2>2. PICK i \in E : \A j \in E \ {i} : w[i] > w[j] \/ (w[i] = w[j] /\ i < j)
    BY <2>1, HasGreatest
  <2>3. \A j \in E : w[i] >= w[j]
    BY <2>1, <2>2
  <2>. DEFINE S == {t[k].fail_timeout : k \in DOMAIN t}
  <2>4. S \subseteq Nat /\ t[i].fail_timeout \in S /\ \A y \in S : t[i].fail_timeout >= y
    BY <2>1, <2>3
  <2>5. Max(S) \in S
    <3>. HIDE DEF S
    <3>. QED BY <2>4 DEF Max
  <2>. QED BY <2>4, <2>5 DEF Longest
<1>5. WeightsBalanced
  <2>1. ASSUME NEW b PROVE SumOf(Weights(t, b)) = 0
    <3>1. Weights(t, b) \in Seq(Int) /\ \A i \in 1 .. Len(Weights(t, b)) : Weights(t, b)[i] = 0
      BY <1>3, WeightsAreInts
    <3>. QED BY <3>1, SumOfNothing
  <2>. QED BY <1>1, <2>1 DEF WeightsBalanced
<1>6. hist = [starts |-> 0, leaks |-> 0, probe |-> [i \in DOMAIN t |-> 0],
              kept |-> [i \in DOMAIN t |-> 0]]
  BY <1>1 DEF Init
<1>7. "probe" \in DOMAIN hist /\ hist.probe = [i \in DOMAIN t |-> 0]
  BY <1>6
<1>8. DOMAIN t = 1 .. Len(t)
  OBVIOUS
<1>. QED BY <1>1, <1>3, <1>4, <1>5, <1>7, <1>8 DEF TableInv

LEMMA TableInvNext == CountInv /\ TableInv /\ [Next]_vars => TableInv'
<1>. SUFFICES ASSUME CountInv, TableInv, [Next]_vars PROVE TableInv'
  OBVIOUS
<1>. DEFINE Quiet == now' = now /\ "probe" \in DOMAIN hist' /\ hist'.probe = hist.probe
<1>a. ASSUME Quiet, Gets(peers, peers', 0, now) PROVE TableInv'
  BY <1>a, GetsKeepsTable
<1>b. "probe" \in DOMAIN Counted(hist) /\ Counted(hist).probe = hist.probe
  BY DEF TableInv, Counted
<1>c. UNCHANGED hist => "probe" \in DOMAIN hist' /\ hist'.probe = hist.probe
  BY DEF TableInv
<1>. HIDE DEF Quiet
<1>1. ASSUME NEW r \in Requests, StartPlain(r) PROVE TableInv'
  BY <1>a, <1>1, <1>b, SameTable DEF StartPlain, Begin, Quiet
<1>2. ASSUME NEW r \in Requests, NEW i \in DOMAIN peers, StartChosen(r, i) \/ StartFetch(r, i)
      PROVE  TableInv'
  BY <1>a, <1>2, <1>b, SameTable DEF StartChosen, StartFetch, Begin, Quiet
<1>3. CASE FetchFails
  <2>1. hist' = hist \/ hist' = [hist EXCEPT !.leaks = @ + 1]
    BY <1>3 DEF FetchFails
  <2>2. "probe" \in DOMAIN hist' /\ hist'.probe = hist.probe
    BY <2>1 DEF TableInv
  <2>. QED BY <1>a, <1>3, <2>2, SameTable DEF FetchFails, Quiet
<1>4. ASSUME NEW r \in Requests, GetPlain(r) PROVE TableInv'
  <2>1. PICK p : /\ Gets(peers, peers', p, now)
                 /\ hist' = IF p = 0 \/ ~Failed(peers[p]) \/ Single(peers) THEN hist
                            ELSE [hist EXCEPT !.probe[p] = now]
    BY <1>4, GetPlainGets
  <2>2. CASE p = 0 \/ ~Failed(peers[p]) \/ Single(peers)
    BY <1>4, <1>c, <2>1, <2>2, GetsKeepsTable DEF GetPlain
  <2>3. CASE ~(p = 0 \/ ~Failed(peers[p]) \/ Single(peers))
    <3>1. hist' = [hist EXCEPT !.probe[p] = now]
      BY <2>1, <2>3
    <3>2. "probe" \in DOMAIN hist' /\ hist'.probe = [hist.probe EXCEPT ![p] = now]
      BY <3>1 DEF TableInv
    <3>. QED BY <1>4, <2>1, <2>3, <3>2, GetsKeepsTable DEF GetPlain
  <2>. QED BY <2>2, <2>3
<1>5. ASSUME NEW r \in Requests, GetChosen(r) PROVE TableInv'
  <2>1. Gets(peers, peers', 0, now)
    BY <1>5, ConnsGets DEF GetChosen, TableInv
  <2>. QED BY <1>a, <1>5, <1>c, <2>1 DEF GetChosen, Quiet
<1>6. ASSUME NEW r \in Requests, GetFetch(r) PROVE TableInv'
  <2>1. Gets(peers, peers', 0, now)
    BY <1>6, ConnsGets, SameTable DEF GetFetch, TableInv
  <2>. QED BY <1>a, <1>6, <1>c, <2>1 DEF GetFetch, Quiet
<1>7. ASSUME NEW r \in Requests, NEW a, DonePlain(r, a) PROVE TableInv'
  <2>1. Gets(peers, peers', 0, now)
    BY <1>7, FreeRoundRobinPeerGets DEF DonePlain, TableInv
  <2>. QED BY <1>a, <1>7, <1>c, <2>1 DEF DonePlain, Quiet
<1>8. ASSUME NEW r \in Requests, NEW type, FailPlain(r, type) PROVE TableInv'
  <2>1. Gets(peers, peers', 0, now)
    BY <1>8, FreeRoundRobinPeerGets DEF FailPlain, TableInv
  <2>. QED BY <1>a, <1>8, <1>c, <2>1 DEF FailPlain, Quiet
<1>9. ASSUME NEW r \in Requests, NEW a, DoneFetch(r, a) \/ FailFetch(r) PROVE TableInv'
  <2>1. ASSUME NEW failed \in BOOLEAN, FreeFetch(req[r], failed) PROVE Gets(peers, peers', 0, now)
    BY <2>1, FreeRoundRobinPeerGets, SameTable DEF FreeFetch, TableInv
  <2>2. Gets(peers, peers', 0, now)
    BY <1>9, <2>1, SameTable DEF DoneFetch, FailFetch
  <2>3. ASSUME NEW i, hist' = [hist EXCEPT !.kept[i] = @ + 1]
        PROVE  "probe" \in DOMAIN hist' /\ hist'.probe = hist.probe
    BY <2>3 DEF TableInv
  <2>4. hist' = Left(hist, req[r]) => "probe" \in DOMAIN hist' /\ hist'.probe = hist.probe
    BY <1>c, <2>3 DEF Left
  <2>. QED BY <1>a, <1>9, <1>c, <2>2, <2>4 DEF DoneFetch, FailFetch, Quiet
<1>10. ASSUME NEW s \in Sockets, PeerCloses(s) \/ KeepaliveCloseHandler(s) \/ FetchCloseHandler(s)
       PROVE  TableInv'
  BY <1>a, <1>10, <1>c, SameTable
     DEF PeerCloses, KeepaliveCloseHandler, FetchCloseHandler, Dropped, Quiet
<1>11. CASE Tick
  <2>1. peers' = peers /\ hist' = hist /\ now' = now + 1
    BY <1>11 DEF Tick
  <2>2. now' \in Nat /\ \A i \in DOMAIN peers : hist.probe[i] <= now'
    BY <2>1 DEF TableInv
  <2>. QED BY <2>1, <2>2 DEF TableInv, WeightsBalanced
<1>12. CASE UNCHANGED vars
  BY <1>a, <1>12, <1>c, SameTable DEF vars, Quiet
<1>13. ASSUME NEW r \in Requests, Get(r) \/ Done(r) \/ Fail(r) PROVE TableInv'
  BY <1>4, <1>5, <1>6, <1>7, <1>8, <1>9, <1>13 DEF Get, Done, Fail
<1>. QED BY <1>1, <1>2, <1>3, <1>10, <1>11, <1>12, <1>13 DEF Next

\* Passed-over peers and picked ones pay for each other in every group of every
\* table (ngx_http_upstream_get_peer, ngx_http_upstream_free_round_robin_peer).
THEOREM WeightsBalancedAlways == Spec => []WeightsBalanced
<1>1. TableInv => WeightsBalanced
  BY DEF TableInv
<1>. QED BY <1>1, CountInvInit, CountInvNext, TableInvInit, TableInvNext, PTL DEF Spec

\* Only a get of the round robin gives a plain request its peer.
LEMMA OnlyGetPlain ==
    ASSUME CountInv, [Next]_vars, NEW r \in Requests,
           req[r].kind = "plain", req[r].step = "get", req'[r].step = "waiting"
    PROVE  GetPlain(r)
<1>. SUFFICES ASSUME ~GetPlain(r) PROVE FALSE
  OBVIOUS
<1>1. ASSUME NEW q, NEW rq, q # r, req' = [req EXCEPT ![q] = rq] PROVE FALSE
  BY <1>1
<1>2. UNCHANGED req => FALSE
  OBVIOUS
<1>3. ASSUME NEW q, NEW rq, Begin(q, rq) PROVE FALSE
  <2>1. q # r
    BY <1>3 DEF Begin
  <2>. QED BY <1>1, <1>3, <2>1 DEF Begin
<1>4. ASSUME NEW q, NEW i, StartPlain(q) \/ StartChosen(q, i) \/ StartFetch(q, i) PROVE FALSE
  BY <1>3, <1>4 DEF StartPlain, StartChosen, StartFetch
<1>5. ASSUME NEW q \in Requests, Get(q) PROVE FALSE
  <2>1. q # r
    BY <1>5 DEF Get, GetChosen, GetFetch, Fetches
  <2>2. \E rq : req' = [req EXCEPT ![q] = rq]
    <3>1. ASSUME NEW rq, NEW cache, Connect(q, rq, cache) PROVE \E new : req' = [req EXCEPT ![q] = new]
      BY <3>1 DEF Connect
    <3>2. Answered(q) => \E new : req' = [req EXCEPT ![q] = new]
      BY DEF Answered
    <3>. QED BY <1>5, <3>1, <3>2 DEF Get, GetPlain, GetChosen, GetFetch
  <2>. QED BY <1>1, <2>1, <2>2
<1>6. ASSUME NEW q \in Requests, Done(q) \/ Fail(q) PROVE FALSE
  <2>1. q # r
    BY <1>6 DEF Done, DonePlain, DoneFetch, Fail, FailPlain, FailFetch
  <2>2. \E rq : req' = [req EXCEPT ![q] = rq]
    BY <1>6 DEF Done, DonePlain, DoneFetch, Fail, FailPlain, FailFetch, Answered
  <2>. QED BY <1>1, <2>1, <2>2
<1>7. ASSUME NEW s, PeerCloses(s) \/ KeepaliveCloseHandler(s) \/ FetchCloseHandler(s) PROVE FALSE
  BY <1>2, <1>7 DEF PeerCloses, KeepaliveCloseHandler, FetchCloseHandler, Dropped
<1>8. FetchFails \/ Tick \/ UNCHANGED vars => FALSE
  BY <1>2 DEF FetchFails, Tick, vars
<1>. QED BY <1>4, <1>5, <1>6, <1>7, <1>8 DEF Next

\* However many requests look for a peer, one that failed too often is asked
\* again no more often than once in fail_timeout (ngx_http_upstream_get_peer).
THEOREM ProbesSpacedAlways == Spec => ProbesSpaced
<1>. DEFINE Spaced(r) ==
              LET i == req'[r].current IN
              req[r].kind = "plain" /\ req[r].step = "get" /\ req'[r].step = "waiting"
              /\ ~Single(peers) /\ Probed(i) =>
                  now - hist.probe[i] > peers[i].fail_timeout
            A == \A r \in Requests : Spaced(r)
<1>1. ASSUME CountInv, TableInv, [Next]_vars PROVE A
  <2>1. ASSUME NEW r \in Requests PROVE Spaced(r)
    <3>. DEFINE i == req'[r].current
    <3>1. SUFFICES ASSUME req[r].kind = "plain", req[r].step = "get", req'[r].step = "waiting",
                          ~Single(peers), Probed(i)
                   PROVE  now - hist.probe[i] > peers[i].fail_timeout
      OBVIOUS
    <3>2. GetPlain(r) /\ DOMAIN req = Requests
      BY <1>1, <3>1, OnlyGetPlain DEF CountInv
    <3>3. PICK p : /\ Gets(peers, peers', p, now)
                   /\ p = 0 => req' = [req EXCEPT ![r] = Idle]
                   /\ p # 0 => \E rq : rq.current = p /\ req' = [req EXCEPT ![r] = rq]
      BY <1>1, <3>2, GetPlainGets
    <3>4. p # 0 /\ i = p
      BY <3>1, <3>2, <3>3 DEF Idle
    <3>5. p \in DOMAIN peers /\ now - peers[p].checked > peers[p].fail_timeout
      BY <3>1, <3>3, <3>4 DEF Gets, Failed, Probed
    <3>6. /\ hist.probe[p] \in Nat /\ hist.probe[p] <= peers[p].checked /\ now \in Nat
          /\ peers[p].checked \in Nat /\ peers[p].fail_timeout \in Nat
      BY <1>1, <3>5, PeersAre DEF TableInv
    <3>. QED BY <3>4, <3>5, <3>6
  <2>. HIDE DEF Spaced
  <2>. QED BY <2>1
<1>2. A => [A]_vars
  OBVIOUS
<1>3. ProbesSpaced <=> [][A]_vars
  BY DEF ProbesSpaced
<1>. HIDE DEF A
<1>. QED BY <1>1, <1>3, CountInvInit, CountInvNext, TableInvInit, TableInvNext, PTL DEF Spec

----------------------------------------------------------------------------
(* Connections have one owner                                              *)

Fields == {"kind", "step", "current", "conn", "obj"}

\* Connections: K and G are the sets of those in either cache.
Owned(K, G, rs, so) ==
    /\ DOMAIN rs = Requests /\ DOMAIN so = Sockets
    /\ \A r \in Requests : Fields \subseteq DOMAIN rs[r]
    /\ \A s \in Sockets : "peer" \in DOMAIN so[s]
    /\ K \subseteq Sockets /\ G \subseteq Sockets /\ K \cap G = {}
    /\ \A r \in Requests :
         /\ rs[r].step # "waiting" => rs[r].conn = None
         /\ rs[r].step = "waiting" =>
              /\ rs[r].conn \in Sockets \ (K \cup G)
              /\ so[rs[r].conn].peer = rs[r].current
         /\ rs[r].step = "get" /\ rs[r].kind # "plain" => rs[r].current # 0
    /\ \A r, q \in Requests :
         rs[r].step = "waiting" /\ rs[q].step = "waiting" /\ rs[r].conn = rs[q].conn => r = q
    /\ \A s \in Sockets :
         so[s].peer # 0 <=> \/ s \in K \cup G
                            \/ \E r \in Requests : rs[r].step = "waiting" /\ rs[r].conn = s

LEMMA OwnedSymmetric ==
    ASSUME NEW K, NEW G, NEW rs, NEW so, Owned(K, G, rs, so)
    PROVE  Owned(G, K, rs, so)
BY DEF Owned

\* A request takes connection c, an idle one to its peer or a closed one.
LEMMA OwnedTakes ==
    ASSUME NEW K, NEW G, NEW rs, NEW so, Owned(K, G, rs, so),
           NEW r \in Requests, rs[r].step # "waiting",
           NEW c \in Sockets, NEW i, i # 0,
           (c \in K /\ so[c].peer = i) \/ so[c].peer = 0,
           NEW rq, Fields \subseteq DOMAIN rq,
           rq.step = "waiting", rq.conn = c, rq.current = i,
           NEW so2, so2 = [so EXCEPT ![c].peer = i]
    PROVE  Owned(K \ {c}, G, [rs EXCEPT ![r] = rq], so2)
<1>. DEFINE rs2 == [rs EXCEPT ![r] = rq]
<1>1. DOMAIN rs2 = Requests /\ rs2[r] = rq /\ \A q \in Requests \ {r} : rs2[q] = rs[q]
  BY DEF Owned
<1>2. /\ DOMAIN so2 = Sockets /\ so2[c].peer = i /\ \A s \in Sockets \ {c} : so2[s] = so[s]
      /\ \A s \in Sockets : "peer" \in DOMAIN so2[s]
  BY DEF Owned
<1>. HIDE DEF rs2
<1>3. \A q \in Requests : rs[q].step = "waiting" => rs[q].conn # c
  BY DEF Owned
<1>4. c \notin G
  BY DEF Owned
<1>5. \A q \in Requests : Fields \subseteq DOMAIN rs2[q]
  BY <1>1 DEF Owned
<1>6. ASSUME NEW q \in Requests
      PROVE  /\ rs2[q].step # "waiting" => rs2[q].conn = None
             /\ rs2[q].step = "waiting" =>
                  /\ rs2[q].conn \in Sockets \ ((K \ {c}) \cup G)
                  /\ so2[rs2[q].conn].peer = rs2[q].current
             /\ rs2[q].step = "get" /\ rs2[q].kind # "plain" => rs2[q].current # 0
  <2>1. CASE q = r
    BY <1>1, <1>2, <1>4, <2>1
  <2>2. CASE q # r
    BY <1>1, <1>2, <1>3, <2>2 DEF Owned
  <2>. QED BY <2>1, <2>2
<1>7. ASSUME NEW p \in Requests, NEW q \in Requests,
             rs2[p].step = "waiting", rs2[q].step = "waiting", rs2[p].conn = rs2[q].conn
      PROVE  p = q
  BY <1>1, <1>3, <1>7 DEF Owned
<1>8. ASSUME NEW s \in Sockets
      PROVE  so2[s].peer # 0 <=> \/ s \in (K \ {c}) \cup G
                                 \/ \E q \in Requests : rs2[q].step = "waiting" /\ rs2[q].conn = s
  <2>1. CASE s = c
    BY <1>1, <1>2, <2>1
  <2>2. CASE s # c
    <3>1. so2[s] = so[s]
      BY <1>2, <2>2
    <3>2. (\E q \in Requests : rs2[q].step = "waiting" /\ rs2[q].conn = s)
            <=> \E q \in Requests : rs[q].step = "waiting" /\ rs[q].conn = s
      BY <1>1, <2>2
    <3>. QED BY <2>2, <3>1, <3>2 DEF Owned
  <2>. QED BY <2>1, <2>2
<1>9. K \ {c} \subseteq Sockets /\ G \subseteq Sockets /\ (K \ {c}) \cap G = {}
  BY DEF Owned
<1>. QED BY <1>1, <1>2, <1>5, <1>6, <1>7, <1>8, <1>9 DEF Owned, rs2

\* Connection c goes to a cache, which becomes N and lets go of those in E, or
\* it is closed.
Gives(K, c, so, N, so2) ==
    /\ DOMAIN so2 = Sockets
    /\ \E E, C :
         /\ E \subseteq K
         /\ \/ N = (K \ E) \cup {c} /\ C = E
            \/ N = K /\ C = {c}
         /\ \A s \in Sockets : so2[s] = IF s \in C THEN Closed ELSE so[s]

LEMMA OwnedGives ==
    ASSUME NEW K, NEW G, NEW rs, NEW so, Owned(K, G, rs, so),
           NEW r \in Requests, rs[r].step = "waiting",
           NEW rq, Fields \subseteq DOMAIN rq,
           rq.step # "waiting", rq.conn = None,
           rq.step = "get" /\ rq.kind # "plain" => rq.current # 0,
           NEW N, NEW so2, Gives(K, rs[r].conn, so, N, so2)
    PROVE  Owned(N, G, [rs EXCEPT ![r] = rq], so2)
<1>. DEFINE c == rs[r].conn
<1>0. PICK E, C :
        /\ E \subseteq K /\ DOMAIN so2 = Sockets
        /\ \/ N = (K \ E) \cup {c} /\ C = E
           \/ N = K /\ C = {c}
        /\ \A s \in Sockets : so2[s] = IF s \in C THEN Closed ELSE so[s]
  BY DEF Gives
<1>. DEFINE rs2 == [rs EXCEPT ![r] = rq]
<1>1. DOMAIN rs2 = Requests /\ rs2[r] = rq /\ \A q \in Requests \ {r} : rs2[q] = rs[q]
  BY DEF Owned
<1>2. /\ DOMAIN so2 = Sockets /\ \A s \in Sockets \ C : so2[s] = so[s]
      /\ \A s \in Sockets \cap C : so2[s].peer = 0
      /\ \A s \in Sockets : "peer" \in DOMAIN so2[s]
  BY <1>0 DEF Owned, Closed
<1>. HIDE DEF rs2
<1>3. /\ c \in Sockets \ (K \cup G)
      /\ \A q \in Requests : rs[q].step = "waiting" /\ rs[q].conn = c => q = r
  BY <1>0 DEF Owned
<1>4. /\ K \subseteq Sockets /\ G \subseteq Sockets /\ K \cap G = {}
  BY DEF Owned
<1>5. /\ N \subseteq Sockets /\ N \cap G = {} /\ N \cap C = {} /\ G \cap C = {}
      /\ N \cup C = K \cup {c} /\ C \subseteq K \cup {c}
  <2>. HIDE DEF c
  <2>. QED BY <1>0, <1>3, <1>4
<1>6. \A q \in Requests : Fields \subseteq DOMAIN rs2[q]
  BY <1>1 DEF Owned
<1>7. ASSUME NEW q \in Requests
      PROVE  /\ rs2[q].step # "waiting" => rs2[q].conn = None
             /\ rs2[q].step = "waiting" =>
                  /\ rs2[q].conn \in Sockets \ (N \cup G)
                  /\ so2[rs2[q].conn].peer = rs2[q].current
             /\ rs2[q].step = "get" /\ rs2[q].kind # "plain" => rs2[q].current # 0
  <2>1. CASE q = r
    BY <1>1, <2>1
  <2>2. CASE q # r
    <3>1. rs2[q] = rs[q]
      BY <1>1, <2>2
    <3>2. CASE rs[q].step = "waiting"
      <4>1. rs[q].conn \in Sockets \ (K \cup G) /\ rs[q].conn # c /\ so[rs[q].conn].peer = rs[q].current
        BY <1>3, <2>2, <3>2 DEF Owned
      <4>2. rs[q].conn \in Sockets \ (N \cup G) /\ rs[q].conn \notin C
        BY <1>5, <4>1
      <4>. QED BY <1>2, <3>1, <3>2, <4>1, <4>2
    <3>3. CASE rs[q].step # "waiting"
      BY <3>1, <3>3 DEF Owned
    <3>. QED BY <3>2, <3>3
  <2>. QED BY <2>1, <2>2
<1>8. ASSUME NEW p \in Requests, NEW q \in Requests,
             rs2[p].step = "waiting", rs2[q].step = "waiting", rs2[p].conn = rs2[q].conn
      PROVE  p = q
  BY <1>1, <1>8 DEF Owned
<1>9. ASSUME NEW s \in Sockets
      PROVE  so2[s].peer # 0 <=> \/ s \in N \cup G
                                 \/ \E q \in Requests : rs2[q].step = "waiting" /\ rs2[q].conn = s
  <2>1. (\E q \in Requests : rs2[q].step = "waiting" /\ rs2[q].conn = s)
          <=> s # c /\ \E q \in Requests : rs[q].step = "waiting" /\ rs[q].conn = s
    BY <1>1, <1>3
  <2>2. so[s].peer # 0 <=> \/ s \in K \cup G
                           \/ \E q \in Requests : rs[q].step = "waiting" /\ rs[q].conn = s
    BY DEF Owned
  <2>3. s \in K => ~\E q \in Requests : rs[q].step = "waiting" /\ rs[q].conn = s
    BY DEF Owned
  <2>4. CASE s \in C
    BY <1>2, <1>5, <2>1, <2>3, <2>4
  <2>5. CASE s \notin C
    <3>1. so2[s].peer = so[s].peer
      BY <1>2, <2>5
    <3>2. s = c => so[s].peer # 0
      BY <2>2
    <3>. QED BY <1>5, <2>1, <2>2, <2>5, <3>1, <3>2
  <2>. QED BY <2>4, <2>5
<1>. QED BY <1>1, <1>2, <1>4, <1>5, <1>6, <1>7, <1>8, <1>9 DEF Owned, rs2

\* Nothing changes when a request begins or what is idle is closed.
LEMMA OwnedBegins ==
    ASSUME NEW K, NEW G, NEW rs, NEW so, Owned(K, G, rs, so),
           NEW r \in Requests, rs[r].step # "waiting",
           NEW rq, Fields \subseteq DOMAIN rq,
           rq.step # "waiting", rq.conn = None,
           rq.step = "get" /\ rq.kind # "plain" => rq.current # 0
    PROVE  Owned(K, G, [rs EXCEPT ![r] = rq], so)
<1>. DEFINE rs2 == [rs EXCEPT ![r] = rq]
<1>1. DOMAIN rs2 = Requests /\ rs2[r] = rq /\ \A q \in Requests \ {r} : rs2[q] = rs[q]
  BY DEF Owned
<1>. HIDE DEF rs2
<1>2. \A q \in Requests : rs2[q].step = "waiting" <=> q # r /\ rs[q].step = "waiting"
  BY <1>1
<1>3. \A s : (\E q \in Requests : rs2[q].step = "waiting" /\ rs2[q].conn = s)
          <=> \E q \in Requests : rs[q].step = "waiting" /\ rs[q].conn = s
  BY <1>1
<1>. QED BY <1>1, <1>2, <1>3 DEF Owned, rs2

LEMMA OwnedDrops ==
    ASSUME NEW K, NEW G, NEW rs, NEW so, Owned(K, G, rs, so),
           NEW s \in K \cup G,
           NEW so2, DOMAIN so2 = Sockets,
           \A x \in Sockets : so2[x] = IF x \in {s} THEN Closed ELSE so[x]
    PROVE  Owned(K \ {s}, G \ {s}, rs, so2)
<1>1. /\ DOMAIN so2 = Sockets /\ \A x \in Sockets \ {s} : so2[x] = so[x]
      /\ s \in Sockets /\ so2[s].peer = 0
      /\ \A x \in Sockets : "peer" \in DOMAIN so2[x]
  BY DEF Owned, Closed
<1>2. \A q \in Requests : rs[q].step = "waiting" => rs[q].conn # s
  BY DEF Owned
<1>. QED BY <1>1, <1>2 DEF Owned

\* The caches are lists, no longer than they may be.
Cache(cache) == cache \in List(Sockets) /\ Len(cache) <= CacheSize

OwnedInv ==
    /\ Cache(keep) /\ Cache(g_cache)
    /\ Owned(Range(keep), Range(g_cache), req, sock)

LEMMA UnionCounts ==
    ASSUME NEW S, IsFiniteSet(S), NEW T, IsFiniteSet(T)
    PROVE  /\ IsFiniteSet(S \cup T) /\ Cardinality(S \cup T) \in Nat
           /\ Cardinality(S \cup T) <= Cardinality(S) + Cardinality(T)
<1>1. IsFiniteSet(S \cup T) /\ IsFiniteSet(S \cap T)
  BY FS_Union, FS_Intersection
<1>2. Cardinality(S \cup T) = Cardinality(S) + Cardinality(T) - Cardinality(S \cap T)
  BY FS_Union
<1>3. /\ Cardinality(S) \in Nat /\ Cardinality(T) \in Nat
      /\ Cardinality(S \cap T) \in Nat /\ Cardinality(S \cup T) \in Nat
  BY <1>1, FS_CardinalityType
<1>. QED BY <1>1, <1>2, <1>3

\* A request that has no connection finds one that nobody has.
LEMMA SocketLeft ==
    ASSUME OwnedInv, NEW r \in Requests, req[r].step # "waiting"
    PROVE  NewSocket \in Sockets /\ sock[NewSocket].peer = 0
<1>. DEFINE W == {q \in Requests : req[q].step = "waiting"}
            U == {req[q].conn : q \in W}
            K == Range(keep)
            G == Range(g_cache)
<1>1. /\ IsFiniteSet(K) /\ Cardinality(K) \in Nat /\ Cardinality(K) <= CacheSize
      /\ IsFiniteSet(G) /\ Cardinality(G) \in Nat /\ Cardinality(G) <= CacheSize
  BY LengthCounts DEF OwnedInv, Cache
<1>2. /\ IsFiniteSet(W) /\ Cardinality(W) \in Nat /\ Cardinality(Requests) \in Nat
      /\ Cardinality(W) <= Cardinality(Requests) - 1
  <2>1. W \subseteq Requests \ {r}
    OBVIOUS
  <2>2. /\ IsFiniteSet(Requests \ {r}) /\ Cardinality(Requests \ {r}) = Cardinality(Requests) - 1
        /\ Cardinality(Requests) \in Nat
    BY RequestsAssumption, FS_RemoveElement, FS_CardinalityType
  <2>. HIDE DEF W
  <2>. QED BY <2>1, <2>2, FS_Subset, FS_CardinalityType
<1>3. IsFiniteSet(U) /\ Cardinality(U) \in Nat /\ Cardinality(U) <= Cardinality(W)
  <2>. DEFINE f == [q \in W |-> req[q].conn]
  <2>1. f \in Surjection(W, U)
    <3>1. f \in [W -> U] /\ \A u \in U : \E q \in W : f[q] = u
      OBVIOUS
    <3>. HIDE DEF f, U, W
    <3>. QED BY <3>1 DEF Surjection
  <2>. HIDE DEF f, U, W
  <2>. QED BY <1>2, <2>1, FS_Surjection, FS_CardinalityType
<1>. HIDE DEF W, U, K, G
<1>4. /\ IsFiniteSet((K \cup G) \cup U)
      /\ Cardinality((K \cup G) \cup U) <= Cardinality(K) + Cardinality(G) + Cardinality(U)
  <2>1. /\ IsFiniteSet(K \cup G) /\ Cardinality(K \cup G) \in Nat
        /\ Cardinality(K \cup G) <= Cardinality(K) + Cardinality(G)
    BY <1>1, UnionCounts
  <2>2. /\ IsFiniteSet((K \cup G) \cup U) /\ Cardinality((K \cup G) \cup U) \in Nat
        /\ Cardinality((K \cup G) \cup U) <= Cardinality(K \cup G) + Cardinality(U)
    BY <1>3, <2>1, UnionCounts
  <2>. QED BY <1>1, <1>3, <2>1, <2>2
<1>5. \E s \in Sockets : ~Open(s)
  <2>1. SUFFICES ASSUME \A s \in Sockets : Open(s) PROVE FALSE
    OBVIOUS
  <2>2. Sockets \subseteq (K \cup G) \cup U
    BY <2>1 DEF OwnedInv, Owned, Open, K, G, U, W
  <2>3. Cardinality(Sockets) <= Cardinality((K \cup G) \cup U) /\ Cardinality(Sockets) \in Nat
        /\ Cardinality((K \cup G) \cup U) \in Nat
    BY <1>4, <2>2, SocketsAssumption, FS_Subset, FS_CardinalityType
  <2>. QED BY <1>1, <1>2, <1>3, <1>4, <2>3, SocketsAssumption, SizesAssumption
<1>6. NewSocket \in Sockets /\ ~Open(NewSocket)
  BY <1>5 DEF NewSocket
<1>. QED BY <1>6 DEF Open

\* Request r is given c, an idle connection to its peer or a new one, and left
\* is what is left in the cache.
Takes(r, rq, cache, left, c, new) ==
    /\ c \in Sockets
    /\ (c \in Range(cache) /\ sock[c].peer = rq.current) \/ sock[c].peer = 0
    /\ Fields \subseteq DOMAIN new
    /\ new.step = "waiting" /\ new.conn = c /\ new.current = rq.current
    /\ new.kind = rq.kind /\ new.obj = rq.obj
    /\ req' = [req EXCEPT ![r] = new]
    /\ sock' = [sock EXCEPT ![c].peer = rq.current]
    /\ Cache(left) /\ Range(left) = Range(cache) \ {c}

LEMMA ConnectTakes ==
    ASSUME OwnedInv, NEW r \in Requests, req[r].step # "waiting",
           NEW cache, cache = keep \/ cache = g_cache,
           NEW rq, Fields \subseteq DOMAIN rq, Connect(r, rq, cache),
           NEW left, left = Without(cache, Reusable(cache, rq.current))
    PROVE  \E c, new : Takes(r, rq, cache, left, c, new)
<1>. DEFINE s == Reusable(cache, rq.current)
            c == IF s # None THEN s ELSE NewSocket
            new == [rq EXCEPT !.step = "waiting", !.conn = c, !.cached = @ \/ s # None]
<1>1. req' = [req EXCEPT ![r] = new] /\ sock' = [sock EXCEPT ![c].peer = rq.current]
  BY DEF Connect
<1>2. /\ Fields \subseteq DOMAIN new /\ new.step = "waiting" /\ new.conn = c
      /\ new.current = rq.current /\ new.kind = rq.kind /\ new.obj = rq.obj
  BY DEF Fields
<1>3. cache \in List(Sockets) /\ Len(cache) <= CacheSize
  BY DEF OwnedInv, Cache
<1>4. s # None => s \in Range(cache) /\ sock[s].peer = rq.current
  <2>. DEFINE found == {n \in DOMAIN cache : sock[cache[n]].peer = rq.current}
  <2>1. found \in SUBSET Nat
    BY <1>3 DEF List
  <2>2. found # {} => Min(found) \in found
    <3>. HIDE DEF found
    <3>. QED BY <2>1, MinIsMember
  <2>3. s # None => found # {} /\ s = cache[Min(found)]
    BY DEF Reusable
  <2>. HIDE DEF s
  <2>. QED BY <2>2, <2>3 DEF Range
<1>5. s = None => c \in Sockets /\ sock[c].peer = 0 /\ c \notin Range(cache)
  <2>1. s = None => c = NewSocket
    OBVIOUS
  <2>. HIDE DEF c
  <2>. QED BY <2>1, SocketLeft DEF OwnedInv, Owned
<1>6. Range(cache) \subseteq Sockets /\ None \notin Sockets
  BY <1>3, MembersInSet, SocketsAssumption DEF None
<1>7. left \in List(Sockets) /\ Range(left) = Range(cache) \ {s}
  BY <1>3, Unlink DEF Without
<1>8. c \in Sockets /\ Range(left) = Range(cache) \ {c}
      /\ ((c \in Range(cache) /\ sock[c].peer = rq.current) \/ sock[c].peer = 0)
  <2>. HIDE DEF s
  <2>. QED BY <1>4, <1>5, <1>6, <1>7
<1>9. Len(left) <= CacheSize
  <2>1. /\ IsFiniteSet(Range(cache)) /\ Cardinality(Range(cache)) = Len(cache) /\ Len(cache) \in Nat
        /\ Cardinality(Range(left)) = Len(left) /\ Len(left) \in Nat
    BY <1>3, <1>7, LengthCounts
  <2>2. Range(left) \subseteq Range(cache)
    BY <1>7
  <2>3. Cardinality(Range(left)) <= Cardinality(Range(cache))
    BY <2>1, <2>2, FS_Subset
  <2>. QED BY <1>3, <2>1, <2>3, SizesAssumption
<1>. HIDE DEF c, new
<1>10. Takes(r, rq, cache, left, c, new)
  BY <1>1, <1>2, <1>7, <1>8, <1>9 DEF Takes, Cache
<1>. QED BY <1>8, <1>10

\* A cache takes a connection at its head and lets go of its last if it is full.
LEMMA StoredIs ==
    ASSUME NEW cache, Cache(cache), NEW c \in Sockets, c \notin Range(cache)
    PROVE  /\ Cache(Stored(cache, c)) /\ Evicted(cache) \in SUBSET Range(cache)
           /\ Range(Stored(cache, c)) = (Range(cache) \ Evicted(cache)) \cup {c}
<1>1. cache \in List(Sockets) /\ cache \in Seq(Sockets) /\ Len(cache) <= CacheSize /\ CacheSize \in Nat \ {0}
  BY SizesAssumption DEF Cache, List
<1>2. CASE Len(cache) < CacheSize
  <2>1. Stored(cache, c) = <<c>> \o cache /\ Evicted(cache) = {}
    BY <1>2 DEF Stored, Evicted
  <2>2. Len(<<c>> \o cache) <= CacheSize
    BY <1>1, <1>2
  <2>. QED BY <1>1, <2>1, <2>2, PushHead DEF Cache
<1>3. CASE ~(Len(cache) < CacheSize)
  <2>1. Stored(cache, c) = <<c>> \o Front(cache) /\ Evicted(cache) = {Last(cache)}
    BY <1>3 DEF Stored, Evicted
  <2>2. cache # <<>> /\ Len(cache) = CacheSize
    BY <1>1, <1>3
  <2>3. /\ Last(cache) \in Range(cache) /\ Front(cache) \in List(Sockets)
        /\ Range(Front(cache)) = Range(cache) \ {Last(cache)}
    BY <1>1, <2>2, TakeFromTail
  <2>4. Len(Front(cache)) = CacheSize - 1 /\ Front(cache) \in Seq(Sockets)
    <3>1. Front(cache) = SubSeq(cache, 1, Len(cache) - 1)
      BY DEF Front
    <3>2. Len(cache) - 1 \in Nat /\ Len(cache) - 1 <= Len(cache)
      BY <1>1, <2>2
    <3>. QED BY <1>1, <2>2, <2>3, <3>1, <3>2 DEF List
  <2>5. Len(<<c>> \o Front(cache)) = CacheSize
    BY <1>1, <2>4
  <2>. QED BY <1>1, <2>1, <2>3, <2>5, PushHead DEF Cache
<1>. QED BY <1>2, <1>3

----------------------------------------------------------------------------
(* Connection objects have one owner                                       *)

Users(rs) == {r \in Requests : rs[r].kind \in Fetches}

\* Objects: f are the free ones, and so many are lost.
Objs(f, rs, lost) ==
    /\ f \in List(Objects) /\ lost \in Nat /\ DOMAIN rs = Requests
    /\ \A r \in Requests :
         /\ rs[r].kind \in Fetches => rs[r].obj \in Objects \ Range(f) /\ rs[r].step # "idle"
         /\ rs[r].kind \notin Fetches => rs[r].obj = None
    /\ \A r, q \in Users(rs) : rs[r].obj = rs[q].obj => r = q
    /\ Len(f) + Cardinality(Users(rs)) + lost = Cardinality(Objects)

LEMMA UsersAre ==
    ASSUME NEW rs
    PROVE  IsFiniteSet(Users(rs)) /\ Cardinality(Users(rs)) \in Nat
<1>1. IsFiniteSet(Users(rs))
  BY RequestsAssumption, FS_Subset DEF Users
<1>. QED BY <1>1, FS_CardinalityType

LEMMA ObjsStay ==
    ASSUME NEW f, NEW rs, NEW lost, Objs(f, rs, lost), NEW r \in Requests, NEW rq,
           (rq.kind \in Fetches) <=> (rs[r].kind \in Fetches), rq.obj = rs[r].obj,
           rq.kind \in Fetches => rq.step # "idle"
    PROVE  Objs(f, [rs EXCEPT ![r] = rq], lost)
<1>. DEFINE rs2 == [rs EXCEPT ![r] = rq]
<1>1. DOMAIN rs2 = Requests /\ rs2[r] = rq /\ \A q \in Requests \ {r} : rs2[q] = rs[q]
  BY DEF Objs
<1>. HIDE DEF rs2
<1>2. Users(rs2) = Users(rs) /\ \A q \in Requests : rs2[q].obj = rs[q].obj
  BY <1>1 DEF Users
<1>. QED BY <1>1, <1>2 DEF Objs, Users, rs2

\* ngx_http_get_free_connection
LEMMA ObjsTake ==
    ASSUME NEW f, NEW rs, NEW lost, Objs(f, rs, lost), f # <<>>,
           NEW r \in Requests, rs[r].kind \notin Fetches,
           NEW rq, rq.kind \in Fetches, rq.step # "idle", rq.obj = Head(f)
    PROVE  Objs(Tail(f), [rs EXCEPT ![r] = rq], lost)
<1>. DEFINE rs2 == [rs EXCEPT ![r] = rq]
<1>1. DOMAIN rs2 = Requests /\ rs2[r] = rq /\ \A q \in Requests \ {r} : rs2[q] = rs[q]
  BY DEF Objs
<1>. HIDE DEF rs2
<1>2. Users(rs2) = Users(rs) \cup {r} /\ r \notin Users(rs)
  BY <1>1 DEF Users
<1>3. Cardinality(Users(rs2)) = Cardinality(Users(rs)) + 1 /\ Cardinality(Users(rs)) \in Nat
  BY <1>2, UsersAre, FS_AddElement
<1>4. /\ Head(f) \in Range(f) /\ Head(f) \in Objects /\ Tail(f) \in List(Objects)
      /\ Range(Tail(f)) = Range(f) \ {Head(f)}
  BY TakeFromHead DEF Objs
<1>5. Len(f) \in Nat /\ Len(Tail(f)) = Len(f) - 1
  BY DEF Objs, List
<1>6. lost \in Nat /\ Len(Tail(f)) + Cardinality(Users(rs2)) + lost = Cardinality(Objects)
  BY <1>3, <1>5 DEF Objs
<1>7. ASSUME NEW q \in Requests
      PROVE  /\ rs2[q].kind \in Fetches => rs2[q].obj \in Objects \ Range(Tail(f)) /\ rs2[q].step # "idle"
             /\ rs2[q].kind \notin Fetches => rs2[q].obj = None
  BY <1>1, <1>4 DEF Objs
<1>8. ASSUME NEW p \in Users(rs2), NEW q \in Users(rs2), rs2[p].obj = rs2[q].obj PROVE p = q
  <2>1. \A x \in Users(rs) : rs2[x] = rs[x] /\ rs[x].obj \in Objects \ Range(f)
    BY <1>1, <1>2 DEF Objs, Users
  <2>. QED BY <1>1, <1>2, <1>4, <1>8, <2>1 DEF Objs
<1>. QED BY <1>1, <1>4, <1>6, <1>7, <1>8 DEF Objs, rs2

\* ngx_http_fetch_upstream_finalize_request
LEMMA ObjsGive ==
    ASSUME NEW f, NEW rs, NEW lost, Objs(f, rs, lost),
           NEW r \in Requests, rs[r].kind \in Fetches, NEW o, o = rs[r].obj,
           NEW rq, rq.kind \notin Fetches, rq.obj = None
    PROVE  Objs(<<o>> \o f, [rs EXCEPT ![r] = rq], lost)
<1>. DEFINE rs2 == [rs EXCEPT ![r] = rq]
<1>1. DOMAIN rs2 = Requests /\ rs2[r] = rq /\ \A q \in Requests \ {r} : rs2[q] = rs[q]
  BY DEF Objs
<1>. HIDE DEF rs2
<1>2. Users(rs2) = Users(rs) \ {r} /\ r \in Users(rs)
  BY <1>1 DEF Users
<1>3. Cardinality(Users(rs2)) = Cardinality(Users(rs)) - 1 /\ Cardinality(Users(rs)) \in Nat
  BY <1>2, UsersAre, FS_RemoveElement
<1>4. o \in Objects \ Range(f) /\ f \in List(Objects)
  BY DEF Objs
<1>5. <<o>> \o f \in List(Objects) /\ Range(<<o>> \o f) = Range(f) \cup {o}
  BY <1>4, PushHead
<1>6. Len(f) \in Nat /\ Len(<<o>> \o f) = Len(f) + 1
  BY <1>4 DEF List
<1>7. lost \in Nat /\ Len(<<o>> \o f) + Cardinality(Users(rs2)) + lost = Cardinality(Objects)
  BY <1>3, <1>6 DEF Objs
<1>8. ASSUME NEW q \in Requests
      PROVE  /\ rs2[q].kind \in Fetches => rs2[q].obj \in Objects \ Range(<<o>> \o f) /\ rs2[q].step # "idle"
             /\ rs2[q].kind \notin Fetches => rs2[q].obj = None
  <2>1. CASE q = r
    BY <1>1, <2>1
  <2>2. CASE q # r
    <3>1. rs2[q] = rs[q] /\ (q \in Users(rs) => rs[q].obj # o)
      BY <1>1, <1>2, <2>2 DEF Objs
    <3>. QED BY <1>5, <3>1 DEF Objs, Users
  <2>. QED BY <2>1, <2>2
<1>9. ASSUME NEW p \in Users(rs2), NEW q \in Users(rs2), rs2[p].obj = rs2[q].obj PROVE p = q
  BY <1>1, <1>2, <1>9 DEF Objs, Users
<1>. QED BY <1>1, <1>5, <1>7, <1>8, <1>9 DEF Objs, rs2

LEMMA ObjsLose ==
    ASSUME NEW f, NEW rs, NEW lost, Objs(f, rs, lost), f # <<>>
    PROVE  Objs(Tail(f), rs, lost + 1)
<1>1. /\ Tail(f) \in List(Objects) /\ Range(Tail(f)) = Range(f) \ {Head(f)}
  BY TakeFromHead DEF Objs
<1>2. Len(f) \in Nat /\ Len(Tail(f)) = Len(f) - 1
  BY DEF Objs, List
<1>3. lost + 1 \in Nat /\ Len(Tail(f)) + Cardinality(Users(rs)) + (lost + 1) = Cardinality(Objects)
  BY <1>2, UsersAre DEF Objs
<1>. QED BY <1>1, <1>3 DEF Objs

----------------------------------------------------------------------------

\* The inductive invariant of what has one owner.
HeldInv ==
    /\ OwnedInv
    /\ pools = alive /\ "leaks" \in DOMAIN hist
    /\ Objs(free_obj, req, hist.leaks)

LEMMA AtMostOne ==
    ASSUME NEW S, \A x, y \in S : x = y
    PROVE  Cardinality(S) = IF S = {} THEN 0 ELSE 1
<1>1. CASE S = {}
  BY <1>1, FS_EmptySet
<1>2. CASE S # {}
  <2>1. PICK x \in S : S = {x}
    BY <1>2
  <2>. QED BY <1>2, <2>1, FS_Singleton
<1>. QED BY <1>1, <1>2

LEMMA HeldIsOwned == HeldInv => OwnedOnce
<1>. SUFFICES ASSUME HeldInv PROVE SocketsOwned /\ ObjectsConserved
  BY DEF OwnedOnce
<1>1. /\ Owned(Range(keep), Range(g_cache), req, sock)
      /\ keep \in List(Sockets) /\ g_cache \in List(Sockets)
  BY DEF HeldInv, OwnedInv, Cache
<1>2. ASSUME NEW s \in Sockets
      PROVE  LET users == {r \in Requests : req[r].conn = s}
                 lies(cache) == {n \in DOMAIN cache : cache[n] = s}
             IN  Cardinality(users) + Cardinality(lies(keep)) + Cardinality(lies(g_cache))
                   = IF Open(s) THEN 1 ELSE 0
  <2>. DEFINE users == {r \in Requests : req[r].conn = s}
              k == {n \in DOMAIN keep : keep[n] = s}
              g == {n \in DOMAIN g_cache : g_cache[n] = s}
  <2>1. s # None
    BY SocketsAssumption DEF None
  <2>2. /\ Cardinality(users) = IF users = {} THEN 0 ELSE 1
        /\ users # {} <=> \E r \in Requests : req[r].step = "waiting" /\ req[r].conn = s
    <3>1. \A r \in users : req[r].step = "waiting"
      BY <1>1, <2>1 DEF Owned
    <3>2. \A r, q \in users : r = q
      BY <1>1, <3>1 DEF Owned
    <3>3. Cardinality(users) = IF users = {} THEN 0 ELSE 1
      <4>. HIDE DEF users
      <4>. QED BY <3>2, AtMostOne
    <3>. QED BY <3>1, <3>3
  <2>3. ASSUME NEW cache \in List(Sockets), NEW lie, lie = {n \in DOMAIN cache : cache[n] = s}
        PROVE  Cardinality(lie) = IF s \in Range(cache) THEN 1 ELSE 0
    <3>1. \A m, n \in lie : m = n
      BY <2>3 DEF List
    <3>2. lie = {} <=> s \notin Range(cache)
      BY <2>3 DEF Range
    <3>. QED BY <3>1, <3>2, AtMostOne
  <2>4. /\ Cardinality(k) = IF s \in Range(keep) THEN 1 ELSE 0
        /\ Cardinality(g) = IF s \in Range(g_cache) THEN 1 ELSE 0
    BY <1>1, <2>3
  <2>5. /\ Range(keep) \cap Range(g_cache) = {}
        /\ users # {} => s \notin Range(keep) /\ s \notin Range(g_cache)
        /\ Open(s) <=> users # {} \/ s \in Range(keep) \/ s \in Range(g_cache)
    <3>. HIDE DEF users
    <3>. QED BY <1>1, <2>2 DEF Owned, Open
  <2>. HIDE DEF users, k, g
  <2>6. Cardinality(users) + Cardinality(k) + Cardinality(g) = IF Open(s) THEN 1 ELSE 0
    BY <2>2, <2>4, <2>5
  <2>. QED BY <2>6 DEF users, k, g
<1>3. SocketsOwned
  BY <1>1, <1>2 DEF SocketsOwned, Owned
<1>4. Objs(free_obj, req, hist.leaks) /\ pools = alive
  BY DEF HeldInv
<1>5. ASSUME NEW r \in Requests PROVE req[r].obj # None <=> r \in Users(req)
  BY <1>4, ObjectsAssumption DEF Objs, Users, None
<1>6. {r \in Requests : req[r].obj # None} = Users(req)
  BY <1>5 DEF Users
<1>7. ToSet(free_obj) = Range(free_obj)
  BY DEF ToSet, Range
<1>8. ObjectsConserved
  BY <1>4, <1>5, <1>6, <1>7 DEF ObjectsConserved, Objs, Users
<1>. QED BY <1>3, <1>8

LEMMA HeldInvInit == Init => HeldInv
<1>. SUFFICES ASSUME Init PROVE HeldInv
  OBVIOUS
<1>1. /\ req = [r \in Requests |-> Idle] /\ sock = [s \in Sockets |-> Closed]
      /\ keep = <<>> /\ g_cache = <<>> /\ free_obj = SetToSeq(Objects) /\ pools = alive
  BY DEF Init
<1>2. "leaks" \in DOMAIN hist /\ hist.leaks = 0
  BY DEF Init
<1>3. /\ Fields \subseteq DOMAIN Idle /\ Idle.kind = "none" /\ Idle.step = "idle"
      /\ Idle.conn = None /\ Idle.obj = None /\ Idle.kind \notin Fetches
  BY DEF Idle, Fields, Fetches
<1>4. Cache(<<>>) /\ Range(<<>>) = {}
  BY EmptyList, SizesAssumption DEF Cache
<1>5. Owned({}, {}, req, sock)
  BY <1>1, <1>3 DEF Owned, Closed
<1>6. free_obj \in List(Objects) /\ Range(free_obj) = Objects
  BY <1>1, SetAsList, ObjectsAssumption
<1>7. Len(free_obj) = Cardinality(Objects) /\ Len(free_obj) \in Nat
  BY <1>6, LengthCounts
<1>8. Users(req) = {} /\ Cardinality(Users(req)) = 0
  <2>1. Users(req) = {}
    BY <1>1, <1>3 DEF Users
  <2>. QED BY <2>1, FS_EmptySet
<1>9. Objs(free_obj, req, 0)
  BY <1>1, <1>3, <1>6, <1>7, <1>8 DEF Objs
<1>. QED BY <1>1, <1>2, <1>4, <1>5, <1>9 DEF HeldInv, OwnedInv

----------------------------------------------------------------------------
(* The actions                                                             *)

\* A request that gets a connection keeps its kind and its object.
LEMMA ConnectKeepsHeld ==
    ASSUME HeldInv, NEW r \in Requests, req[r].step # "waiting",
           NEW rq, Fields \subseteq DOMAIN rq, rq.current # 0,
           rq.kind = req[r].kind, rq.obj = req[r].obj,
           \/ /\ Connect(r, rq, keep) /\ g_cache' = g_cache
              /\ keep' = Without(keep, Reusable(keep, rq.current))
           \/ /\ Connect(r, rq, g_cache) /\ keep' = keep
              /\ g_cache' = Without(g_cache, Reusable(g_cache, rq.current)),
           UNCHANGED <<free_obj, pools, alive>>,
           "leaks" \in DOMAIN hist', hist'.leaks = hist.leaks
    PROVE  HeldInv'
<1>1. /\ OwnedInv /\ Cache(keep) /\ Cache(g_cache)
      /\ Owned(Range(keep), Range(g_cache), req, sock)
      /\ Objs(free_obj, req, hist.leaks)
  BY DEF HeldInv, OwnedInv
<1>2. ASSUME NEW new, req' = [req EXCEPT ![r] = new], new.step = "waiting",
             new.kind = rq.kind, new.obj = rq.obj
      PROVE  Objs(free_obj', req', hist'.leaks)
  BY <1>1, <1>2, ObjsStay
<1>3. CASE /\ Connect(r, rq, keep) /\ g_cache' = g_cache
           /\ keep' = Without(keep, Reusable(keep, rq.current))
  <2>0. PICK c, new : Takes(r, rq, keep, keep', c, new)
    BY <1>1, <1>3, ConnectTakes
  <2>1. /\ c \in Sockets
        /\ (c \in Range(keep) /\ sock[c].peer = rq.current) \/ sock[c].peer = 0
        /\ Fields \subseteq DOMAIN new
        /\ new.step = "waiting" /\ new.conn = c /\ new.current = rq.current
        /\ new.kind = rq.kind /\ new.obj = rq.obj
        /\ req' = [req EXCEPT ![r] = new]
        /\ sock' = [sock EXCEPT ![c].peer = rq.current]
        /\ Cache(keep') /\ Range(keep') = Range(keep) \ {c}
    BY <2>0 DEF Takes
  <2>2. Owned(Range(keep) \ {c}, Range(g_cache), req', sock')
    BY <1>1, <2>1, OwnedTakes
  <2>3. OwnedInv'
    BY <1>1, <1>3, <2>1, <2>2 DEF OwnedInv, Cache
  <2>. QED BY <1>2, <2>1, <2>3 DEF HeldInv
<1>4. CASE /\ Connect(r, rq, g_cache) /\ keep' = keep
           /\ g_cache' = Without(g_cache, Reusable(g_cache, rq.current))
  <2>0. PICK c, new : Takes(r, rq, g_cache, g_cache', c, new)
    BY <1>1, <1>4, ConnectTakes
  <2>1. /\ c \in Sockets
        /\ (c \in Range(g_cache) /\ sock[c].peer = rq.current) \/ sock[c].peer = 0
        /\ Fields \subseteq DOMAIN new
        /\ new.step = "waiting" /\ new.conn = c /\ new.current = rq.current
        /\ new.kind = rq.kind /\ new.obj = rq.obj
        /\ req' = [req EXCEPT ![r] = new]
        /\ sock' = [sock EXCEPT ![c].peer = rq.current]
        /\ Cache(g_cache') /\ Range(g_cache') = Range(g_cache) \ {c}
    BY <2>0 DEF Takes
  <2>2. Owned(Range(g_cache), Range(keep), req, sock)
    BY <1>1, OwnedSymmetric
  <2>3. Owned(Range(g_cache) \ {c}, Range(keep), req', sock')
    BY <2>1, <2>2, OwnedTakes
  <2>4. OwnedInv'
    BY <1>1, <1>4, <2>1, <2>3, OwnedSymmetric DEF OwnedInv, Cache
  <2>. QED BY <1>2, <2>1, <2>4 DEF HeldInv
<1>. QED BY <1>3, <1>4

LEMMA GetKeepsHeld ==
    ASSUME HeldInv, NEW r \in Requests, Get(r)
    PROVE  HeldInv'
<1>1. /\ Fields \subseteq DOMAIN req[r] /\ "leaks" \in DOMAIN hist
      /\ req[r].step = "get" /\ req[r].step # "waiting" /\ req[r].step # "idle"
      /\ Owned(Range(keep), Range(g_cache), req, sock)
      /\ Objs(free_obj, req, hist.leaks)
  BY DEF HeldInv, OwnedInv, Owned, Get, GetPlain, GetChosen, GetFetch
<1>2. CASE GetPlain(r)
  <2>. DEFINE rq == req[r]
              next(got) == [rq EXCEPT !.backup = got.backup, !.tried = got.tried,
                                      !.current = got.peer, !.cached = FALSE]
  <2>1. PICK got \in {GetRoundRobinPeer(peers, rq.backup, rq.tried, now)} :
          /\ IF got.peer = 0
             THEN Answered(r) /\ UNCHANGED <<sock, keep>>
             ELSE /\ Connect(r, next(got), keep)
                  /\ keep' = Without(keep, Reusable(keep, got.peer))
          /\ hist' = IF got.peer = 0 \/ ~Probed(got.peer) \/ Single(peers) THEN hist
                     ELSE [hist EXCEPT !.probe[got.peer] = now]
    BY <1>2 DEF GetPlain
  <2>2. "leaks" \in DOMAIN hist' /\ hist'.leaks = hist.leaks
    BY <1>1, <2>1
  <2>3. rq.kind = "plain" /\ rq.kind \notin Fetches /\ UNCHANGED <<g_cache, free_obj, pools, alive>>
    BY <1>2 DEF GetPlain, Fetches
  <2>4. CASE got.peer = 0
    <3>1. req' = [req EXCEPT ![r] = Idle] /\ sock' = sock /\ keep' = keep
      BY <2>1, <2>4 DEF Answered
    <3>2. /\ Fields \subseteq DOMAIN Idle /\ Idle.kind = "none" /\ Idle.step = "idle"
          /\ Idle.conn = None /\ Idle.obj = None /\ Idle.kind \notin Fetches
      BY DEF Idle, Fields, Fetches
    <3>3. Owned(Range(keep), Range(g_cache), req', sock)
      BY <1>1, <3>1, <3>2, OwnedBegins
    <3>4. req[r].obj = None
      BY <1>1, <2>3 DEF Objs
    <3>5. Objs(free_obj, req', hist.leaks)
      BY <1>1, <2>3, <3>1, <3>2, <3>4, ObjsStay
    <3>. QED BY <2>2, <2>3, <3>1, <3>3, <3>5 DEF HeldInv, OwnedInv, Cache
  <2>5. CASE got.peer # 0
    <3>1. /\ Fields \subseteq DOMAIN next(got) /\ next(got).current = got.peer
          /\ next(got).kind = rq.kind /\ next(got).obj = rq.obj
      BY <1>1 DEF Fields
    <3>2. PICK n : n = next(got)
      OBVIOUS
    <3>3. Connect(r, n, keep) /\ keep' = Without(keep, Reusable(keep, n.current))
      BY <2>1, <2>5, <3>1, <3>2
    <3>4. Fields \subseteq DOMAIN n /\ n.current # 0 /\ n.kind = req[r].kind /\ n.obj = req[r].obj
      BY <2>5, <3>1, <3>2
    <3>. HIDE DEF next
    <3>. QED BY <1>1, <2>2, <2>3, <3>3, <3>4, ConnectKeepsHeld
  <2>. QED BY <2>4, <2>5
<1>3. CASE GetChosen(r)
  <2>1. req[r].current # 0
    BY <1>1, <1>3 DEF GetChosen, Owned
  <2>2. Connect(r, req[r], keep) /\ keep' = Without(keep, Reusable(keep, req[r].current))
        /\ UNCHANGED <<g_cache, free_obj, pools, alive, hist>>
    BY <1>3 DEF GetChosen
  <2>. QED BY <1>1, <2>1, <2>2, ConnectKeepsHeld
<1>4. CASE GetFetch(r)
  <2>1. req[r].current # 0
    BY <1>1, <1>4 DEF GetFetch, Owned, Fetches
  <2>2. Connect(r, req[r], g_cache) /\ g_cache' = Without(g_cache, Reusable(g_cache, req[r].current))
        /\ UNCHANGED <<keep, free_obj, pools, alive, hist>>
    BY <1>4 DEF GetFetch
  <2>. QED BY <1>1, <2>1, <2>2, ConnectKeepsHeld
<1>. QED BY <1>2, <1>3, <1>4 DEF Get

\* What becomes of a request that begins.
LEMMA BeginGives ==
    ASSUME HeldInv, NEW r \in Requests, NEW rq, Begin(r, rq),
           Fields \subseteq DOMAIN rq, rq.conn = None, rq.kind # "plain" => rq.current # 0
    PROVE  \E new : /\ Fields \subseteq DOMAIN new /\ new.step = "get"
                    /\ new.kind = rq.kind /\ new.obj = rq.obj
                    /\ req' = [req EXCEPT ![r] = new]
                    /\ OwnedInv' /\ req[r].kind \notin Fetches /\ req[r].obj = None
<1>. DEFINE new == [rq EXCEPT !.step = "get"]
<1>1. /\ Fields \subseteq DOMAIN new /\ new.step = "get" /\ new.kind = rq.kind
      /\ new.obj = rq.obj /\ new.conn = None /\ new.current = rq.current
  BY DEF Fields
<1>2. /\ req' = [req EXCEPT ![r] = new] /\ req[r].step = "idle"
      /\ sock' = sock /\ keep' = keep /\ g_cache' = g_cache
  BY DEF Begin
<1>. HIDE DEF new
<1>3. Owned(Range(keep), Range(g_cache), req', sock)
  BY <1>1, <1>2, OwnedBegins DEF HeldInv, OwnedInv
<1>4. OwnedInv'
  BY <1>2, <1>3 DEF HeldInv, OwnedInv, Cache
<1>5. req[r].kind \notin Fetches /\ req[r].obj = None
  BY <1>2 DEF HeldInv, Objs
<1>. QED BY <1>1, <1>2, <1>4, <1>5

LEMMA StartKeepsHeld ==
    ASSUME HeldInv, NEW r \in Requests, NEW i, i # 0,
           StartPlain(r) \/ StartChosen(r, i) \/ StartFetch(r, i)
    PROVE  HeldInv'
<1>1. "leaks" \in DOMAIN hist' /\ hist'.leaks = hist.leaks
  <2>1. hist' = Counted(hist)
    BY DEF StartPlain, StartChosen, StartFetch
  <2>. QED BY <2>1 DEF HeldInv, Counted
<1>2. Objs(free_obj, req, hist.leaks) /\ pools = alive
  BY DEF HeldInv
<1>3. CASE StartPlain(r)
  <2>. DEFINE rq == [Idle EXCEPT !.kind = "plain", !.tries = Tries(peers)]
  <2>1. Fields \subseteq DOMAIN rq /\ rq.conn = None /\ rq.kind = "plain" /\ rq.obj = None
        /\ rq.kind \notin Fetches
    BY DEF Idle, Fields, Fetches
  <2>2. Begin(r, rq) /\ UNCHANGED <<free_obj, pools, alive>>
    BY <1>3 DEF StartPlain
  <2>. HIDE DEF rq
  <2>3. PICK new : /\ Fields \subseteq DOMAIN new /\ new.step = "get"
                   /\ new.kind = rq.kind /\ new.obj = rq.obj
                   /\ req' = [req EXCEPT ![r] = new]
                   /\ OwnedInv' /\ req[r].kind \notin Fetches /\ req[r].obj = None
    BY <2>1, <2>2, BeginGives
  <2>4. Objs(free_obj, req', hist.leaks)
    BY <1>2, <2>1, <2>3, ObjsStay
  <2>. QED BY <1>1, <1>2, <2>2, <2>3, <2>4 DEF HeldInv
<1>4. CASE StartChosen(r, i)
  <2>. DEFINE rq == [Idle EXCEPT !.kind = "chosen", !.tries = Tries(peers), !.current = i]
  <2>1. Fields \subseteq DOMAIN rq /\ rq.conn = None /\ rq.kind = "chosen" /\ rq.obj = None
        /\ rq.current # 0 /\ rq.kind \notin Fetches
    BY DEF Idle, Fields, Fetches
  <2>2. Begin(r, rq) /\ UNCHANGED <<free_obj, pools, alive>>
    BY <1>4 DEF StartChosen
  <2>. HIDE DEF rq
  <2>3. PICK new : /\ Fields \subseteq DOMAIN new /\ new.step = "get"
                   /\ new.kind = rq.kind /\ new.obj = rq.obj
                   /\ req' = [req EXCEPT ![r] = new]
                   /\ OwnedInv' /\ req[r].kind \notin Fetches /\ req[r].obj = None
    BY <2>1, <2>2, BeginGives
  <2>4. Objs(free_obj, req', hist.leaks)
    BY <1>2, <2>1, <2>3, ObjsStay
  <2>. QED BY <1>1, <1>2, <2>2, <2>3, <2>4 DEF HeldInv
<1>5. CASE StartFetch(r, i)
  <2>0. PICK o, kind, tries :
          /\ kind \in Fetches /\ TakesObject(o) /\ CreatePool(o)
          /\ Begin(r, [Idle EXCEPT !.kind = kind, !.current = i, !.obj = o, !.tries = tries])
    BY <1>5 DEF StartFetch
  <2>. DEFINE rq == [Idle EXCEPT !.kind = kind, !.current = i, !.obj = o, !.tries = tries]
  <2>1. Fields \subseteq DOMAIN rq /\ rq.conn = None /\ rq.kind = kind /\ rq.obj = o
        /\ rq.current # 0
    BY DEF Idle, Fields
  <2>2. Begin(r, rq) /\ free_obj # <<>> /\ o = Head(free_obj) /\ free_obj' = Tail(free_obj)
        /\ pools' = alive' /\ rq.kind \in Fetches
    BY <1>2, <2>0, <2>1 DEF TakesObject, CreatePool
  <2>3. PICK new : /\ Fields \subseteq DOMAIN new /\ new.step = "get"
                   /\ new.kind = rq.kind /\ new.obj = rq.obj
                   /\ req' = [req EXCEPT ![r] = new]
                   /\ OwnedInv' /\ req[r].kind \notin Fetches /\ req[r].obj = None
    BY <2>1, <2>2, BeginGives
  <2>4. Objs(Tail(free_obj), req', hist.leaks)
    BY <1>2, <2>1, <2>2, <2>3, ObjsTake
  <2>. QED BY <1>1, <2>2, <2>3, <2>4 DEF HeldInv
<1>. QED BY <1>3, <1>4, <1>5

LEMMA FetchFailsKeepsHeld ==
    ASSUME HeldInv, FetchFails
    PROVE  HeldInv'
<1>1. OwnedInv'
  BY DEF FetchFails, HeldInv, OwnedInv, Cache
<1>2. CASE /\ pools' = pools \ {Head(free_obj)} /\ alive' = alive \ {Head(free_obj)}
           /\ UNCHANGED <<free_obj, hist>>
  BY <1>1, <1>2 DEF FetchFails, HeldInv
<1>4. CASE CreatePool(Head(free_obj)) /\ UNCHANGED <<free_obj, hist>>
  BY <1>1, <1>4 DEF FetchFails, CreatePool, HeldInv
<1>3. CASE /\ \E o \in Objects : TakesObject(o) /\ CreatePool(o)
           /\ hist' = [hist EXCEPT !.leaks = @ + 1]
  <2>1. free_obj # <<>> /\ free_obj' = Tail(free_obj) /\ pools' = alive' /\ req' = req
    BY <1>3 DEF TakesObject, CreatePool, FetchFails, HeldInv
  <2>2. "leaks" \in DOMAIN hist' /\ hist'.leaks = hist.leaks + 1
    BY <1>3 DEF HeldInv
  <2>3. Objs(Tail(free_obj), req, hist.leaks + 1)
    BY <2>1, ObjsLose DEF HeldInv
  <2>. QED BY <1>1, <2>1, <2>2, <2>3 DEF HeldInv
<1>. QED BY <1>2, <1>3, <1>4 DEF FetchFails

\* A request gives its connection back, to the cache it is from or for good.
LEMMA GiveKeepsOwned ==
    ASSUME HeldInv, NEW r \in Requests, req[r].step = "waiting",
           NEW rq, Fields \subseteq DOMAIN rq, rq.step # "waiting", rq.conn = None,
           rq.step = "get" /\ rq.kind # "plain" => rq.current # 0,
           req' = [req EXCEPT ![r] = rq],
           \/ keep' = Stored(keep, Mine(r)) /\ Shut(Evicted(keep)) /\ g_cache' = g_cache
           \/ g_cache' = Stored(g_cache, Mine(r)) /\ Shut(Evicted(g_cache)) /\ keep' = keep
           \/ Shut({Mine(r)}) /\ keep' = keep /\ g_cache' = g_cache
    PROVE  OwnedInv'
<1>. DEFINE c == Mine(r)
            K == Range(keep)
            G == Range(g_cache)
<1>1. Cache(keep) /\ Cache(g_cache) /\ Owned(K, G, req, sock) /\ Owned(G, K, req, sock)
  BY OwnedSymmetric DEF HeldInv, OwnedInv
<1>2. c = req[r].conn /\ c \in Sockets \ (K \cup G)
  BY <1>1 DEF Mine, Owned
<1>3. CASE keep' = Stored(keep, c) /\ Shut(Evicted(keep)) /\ g_cache' = g_cache
  <2>1. Cache(keep') /\ Evicted(keep) \in SUBSET K
        /\ Range(keep') = (K \ Evicted(keep)) \cup {c}
    BY <1>1, <1>2, <1>3, StoredIs
  <2>2. DOMAIN sock' = Sockets
        /\ \A s \in Sockets : sock'[s] = IF s \in Evicted(keep) THEN Closed ELSE sock[s]
    BY <1>3 DEF Shut
  <2>. HIDE DEF K, G
  <2>3. Owned(Range(keep'), G, req', sock')
    <3>1. Gives(K, req[r].conn, sock, Range(keep'), sock')
      BY <1>2, <2>1, <2>2 DEF Gives
    <3>. QED BY <1>1, <3>1, OwnedGives
  <2>. QED BY <1>1, <1>3, <2>1, <2>3 DEF OwnedInv, Cache, K, G
<1>4. CASE g_cache' = Stored(g_cache, c) /\ Shut(Evicted(g_cache)) /\ keep' = keep
  <2>1. Cache(g_cache') /\ Evicted(g_cache) \in SUBSET G
        /\ Range(g_cache') = (G \ Evicted(g_cache)) \cup {c}
    BY <1>1, <1>2, <1>4, StoredIs
  <2>2. DOMAIN sock' = Sockets
        /\ \A s \in Sockets : sock'[s] = IF s \in Evicted(g_cache) THEN Closed ELSE sock[s]
    BY <1>4 DEF Shut
  <2>. HIDE DEF G, K
  <2>3. Owned(Range(g_cache'), K, req', sock')
    <3>1. Gives(G, req[r].conn, sock, Range(g_cache'), sock')
      BY <1>2, <2>1, <2>2 DEF Gives
    <3>. QED BY <1>1, <3>1, OwnedGives
  <2>4. Owned(K, Range(g_cache'), req', sock')
    BY <2>3, OwnedSymmetric
  <2>. QED BY <1>1, <1>4, <2>1, <2>4 DEF OwnedInv, Cache, K, G
<1>5. CASE Shut({c}) /\ keep' = keep /\ g_cache' = g_cache
  <2>1. DOMAIN sock' = Sockets
        /\ \A s \in Sockets : sock'[s] = IF s \in {c} THEN Closed ELSE sock[s]
    BY <1>5 DEF Shut
  <2>. HIDE DEF K, G
  <2>2. Owned(K, G, req', sock')
    <3>1. {} \in SUBSET K
      OBVIOUS
    <3>2. Gives(K, req[r].conn, sock, K, sock')
      BY <1>2, <2>1, <3>1 DEF Gives
    <3>. QED BY <1>1, <3>2, OwnedGives
  <2>. QED BY <1>1, <1>5, <2>2 DEF OwnedInv, Cache, K, G
<1>. QED BY <1>3, <1>4, <1>5

LEMMA IdleIs ==
    /\ Fields \subseteq DOMAIN Idle /\ Idle.kind = "none" /\ Idle.step = "idle"
    /\ Idle.conn = None /\ Idle.obj = None /\ Idle.kind \notin Fetches
BY DEF Idle, Fields, Fetches

LEMMA PlainEndKeepsHeld ==
    ASSUME HeldInv, NEW r \in Requests, NEW a, NEW type, DonePlain(r, a) \/ FailPlain(r, type)
    PROVE  HeldInv'
<1>. DEFINE left == Again(req[r], type)
            more == [req[r] EXCEPT !.step = "get", !.tries = left, !.conn = None]
<1>1. /\ req[r].kind \notin Fetches /\ req[r].step = "waiting"
      /\ UNCHANGED <<g_cache, free_obj, pools, alive, hist>>
      /\ req' = [req EXCEPT ![r] = Idle] \/ req' = [req EXCEPT ![r] = more]
      /\ \/ keep' = Stored(keep, Mine(r)) /\ Shut(Evicted(keep))
         \/ Shut({Mine(r)}) /\ keep' = keep
  BY DEF DonePlain, FailPlain, Answered, Fetches
<1>2. /\ Objs(free_obj, req, hist.leaks) /\ pools = alive /\ "leaks" \in DOMAIN hist
      /\ Owned(Range(keep), Range(g_cache), req, sock)
  BY DEF HeldInv, OwnedInv
<1>3. Fields \subseteq DOMAIN req[r] /\ req[r].current # 0 /\ req[r].obj = None
  <2>1. Fields \subseteq DOMAIN req[r] /\ req[r].conn \in Sockets /\ sock[req[r].conn].peer = req[r].current
    BY <1>1, <1>2 DEF Owned
  <2>2. sock[req[r].conn].peer # 0
    BY <1>1, <1>2, <2>1 DEF Owned
  <2>3. req[r].obj = None
    BY <1>1, <1>2 DEF Objs
  <2>. QED BY <2>1, <2>2, <2>3
<1>4. /\ Fields \subseteq DOMAIN more /\ more.kind = req[r].kind /\ more.step = "get"
      /\ more.conn = None /\ more.obj = req[r].obj /\ more.current = req[r].current
  BY <1>3 DEF Fields
<1>. HIDE DEF more
<1>5. PICK rq : /\ req' = [req EXCEPT ![r] = rq] /\ Fields \subseteq DOMAIN rq
                /\ rq.kind \notin Fetches /\ rq.step # "waiting" /\ rq.conn = None
                /\ rq.obj = None /\ (rq.step = "get" => rq.current # 0)
  BY <1>1, <1>3, <1>4, IdleIs
<1>6. OwnedInv'
  BY <1>1, <1>5, GiveKeepsOwned
<1>7. Objs(free_obj, req', hist.leaks)
  BY <1>1, <1>2, <1>3, <1>5, ObjsStay
<1>. QED BY <1>1, <1>2, <1>6, <1>7 DEF HeldInv

LEMMA FetchEndKeepsHeld ==
    ASSUME HeldInv, NEW r \in Requests, NEW a, DoneFetch(r, a) \/ FailFetch(r)
    PROVE  HeldInv'
<1>1. /\ req[r].kind \in Fetches /\ req[r].step = "waiting" /\ UNCHANGED keep
      /\ UNCHANGED hist \/ hist' = Left(hist, req[r])
      /\ req' = [req EXCEPT ![r] = Idle]
      /\ \/ g_cache' = Stored(g_cache, Mine(r)) /\ Shut(Evicted(g_cache))
         \/ Shut({Mine(r)}) /\ g_cache' = g_cache
      /\ Finalize(r, TRUE) \/ Finalize(r, FALSE)
  BY DEF DoneFetch, FailFetch, Answered
<1>2. OwnedInv'
  BY <1>1, IdleIs, GiveKeepsOwned
<1>3. pools' = alive' /\ free_obj' = <<req[r].obj>> \o free_obj
  BY <1>1 DEF Finalize, HeldInv
<1>4. Objs(<<req[r].obj>> \o free_obj, req', hist.leaks)
  BY <1>1, IdleIs, ObjsGive DEF HeldInv
<1>5. "leaks" \in DOMAIN hist' /\ hist'.leaks = hist.leaks
  <2>1. ASSUME NEW i, hist' = [hist EXCEPT !.kept[i] = @ + 1]
        PROVE  "leaks" \in DOMAIN hist' /\ hist'.leaks = hist.leaks
    BY <2>1 DEF HeldInv
  <2>. QED BY <1>1, <2>1 DEF Left, HeldInv
<1>. QED BY <1>2, <1>3, <1>4, <1>5 DEF HeldInv

LEMMA IdleEndKeepsHeld ==
    ASSUME HeldInv, NEW s \in Sockets,
           PeerCloses(s) \/ KeepaliveCloseHandler(s) \/ FetchCloseHandler(s)
    PROVE  HeldInv'
<1>0. Cache(keep) /\ Cache(g_cache) /\ Owned(Range(keep), Range(g_cache), req, sock)
  BY DEF HeldInv, OwnedInv
<1>1. CASE PeerCloses(s)
  <2>1. /\ sock' = [sock EXCEPT ![s].eof = TRUE]
        /\ UNCHANGED <<req, keep, g_cache, free_obj, pools, alive, hist>>
    BY <1>1 DEF PeerCloses
  <2>2. DOMAIN sock' = Sockets
        /\ \A x \in Sockets : "peer" \in DOMAIN sock'[x] /\ sock'[x].peer = sock[x].peer
    BY <1>0, <2>1 DEF Owned
  <2>3. Owned(Range(keep), Range(g_cache), req, sock')
    BY <1>0, <2>2 DEF Owned
  <2>. QED BY <1>0, <2>1, <2>3 DEF HeldInv, OwnedInv, Cache
<1>2. CASE KeepaliveCloseHandler(s) \/ FetchCloseHandler(s)
  <2>1. /\ keep' = RemoveFirst(keep, s) /\ g_cache' = RemoveFirst(g_cache, s) /\ Shut({s})
        /\ UNCHANGED <<req, free_obj, pools, alive, hist>>
    BY <1>2 DEF KeepaliveCloseHandler, FetchCloseHandler, Dropped, Without
  <2>2. s \in Range(keep) \cup Range(g_cache)
    BY <1>2 DEF KeepaliveCloseHandler, FetchCloseHandler, ToSet, Range
  <2>3. ASSUME NEW cache, Cache(cache)
        PROVE  /\ Cache(RemoveFirst(cache, s))
               /\ Range(RemoveFirst(cache, s)) = Range(cache) \ {s}
    <3>1. RemoveFirst(cache, s) \in List(Sockets) /\ Range(RemoveFirst(cache, s)) = Range(cache) \ {s}
      BY <2>3, Unlink DEF Cache
    <3>2. /\ IsFiniteSet(Range(cache)) /\ Cardinality(Range(cache)) = Len(cache) /\ Len(cache) \in Nat
          /\ Cardinality(Range(RemoveFirst(cache, s))) = Len(RemoveFirst(cache, s))
          /\ Len(RemoveFirst(cache, s)) \in Nat
      BY <2>3, <3>1, LengthCounts DEF Cache
    <3>3. Cardinality(Range(cache) \ {s}) <= Cardinality(Range(cache))
      <4>1. Range(cache) \ {s} \subseteq Range(cache)
        OBVIOUS
      <4>. QED BY <3>2, <4>1, FS_Subset
    <3>. QED BY <2>3, <3>1, <3>2, <3>3, SizesAssumption DEF Cache
  <2>4. DOMAIN sock' = Sockets /\ \A x \in Sockets : sock'[x] = IF x \in {s} THEN Closed ELSE sock[x]
    BY <2>1 DEF Shut
  <2>5. Owned(Range(keep) \ {s}, Range(g_cache) \ {s}, req, sock')
    BY <1>0, <2>2, <2>4, OwnedDrops
  <2>6. Cache(keep)' /\ Cache(g_cache)'
        /\ Range(keep)' = Range(keep) \ {s} /\ Range(g_cache)' = Range(g_cache) \ {s}
    <3>1. Cache(keep') /\ Range(keep') = Range(keep) \ {s}
      BY <1>0, <2>1, <2>3
    <3>2. Cache(g_cache') /\ Range(g_cache') = Range(g_cache) \ {s}
      BY <1>0, <2>1, <2>3
    <3>. QED BY <3>1, <3>2 DEF Cache
  <2>. QED BY <2>1, <2>5, <2>6 DEF HeldInv, OwnedInv
<1>. QED BY <1>1, <1>2

LEMMA HeldInvNext == TableInv /\ HeldInv /\ [Next]_vars => HeldInv'
<1>. SUFFICES ASSUME TableInv, HeldInv, [Next]_vars PROVE HeldInv'
  OBVIOUS
<1>0. 0 \notin DOMAIN peers
  BY DEF TableInv
<1>1. ASSUME NEW r \in Requests, StartPlain(r) PROVE HeldInv'
  <2>1. 1 # 0
    OBVIOUS
  <2>. QED BY <1>1, <2>1, StartKeepsHeld
<1>2. ASSUME NEW r \in Requests, NEW i \in DOMAIN peers, StartChosen(r, i) \/ StartFetch(r, i)
      PROVE  HeldInv'
  BY <1>0, <1>2, StartKeepsHeld
<1>3. CASE FetchFails
  BY <1>3, FetchFailsKeepsHeld
<1>4. ASSUME NEW r \in Requests, Get(r) \/ Done(r) \/ Fail(r) PROVE HeldInv'
  BY <1>4, GetKeepsHeld, PlainEndKeepsHeld, FetchEndKeepsHeld DEF Done, Fail
<1>5. ASSUME NEW s \in Sockets, PeerCloses(s) \/ KeepaliveCloseHandler(s) \/ FetchCloseHandler(s)
      PROVE  HeldInv'
  BY <1>5, IdleEndKeepsHeld
<1>6. CASE Tick \/ UNCHANGED vars
  BY <1>6 DEF Tick, vars, HeldInv, OwnedInv, Cache
<1>. QED BY <1>1, <1>2, <1>3, <1>4, <1>5, <1>6 DEF Next

\* A connection has one user or lies in one cache, an object is used, free or
\* lost, and no pool is destroyed twice, for any sizes (get_peer and free_peer,
\* ngx_http_fetch_cache.c, ngx_http_fetch_upstream_finalize_request).
THEOREM OwnedOnceAlways == Spec => []OwnedOnce
BY HeldIsOwned, CountInvInit, CountInvNext, TableInvInit, TableInvNext,
   HeldInvInit, HeldInvNext, PTL DEF Spec

=============================================================================
