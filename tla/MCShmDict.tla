----------------------------- MODULE MCShmDict ------------------------------
(* Constants for the runs of ShmDict. *)
EXTENDS ShmDict, TLC

Widths == [y \in Types |-> CASE y = "int8" -> 1 [] y = "binary" -> 64 [] OTHER -> 8]

Call(op, k, y, v, e) == [op |-> op, key |-> k, type |-> y, val |-> v, exp |-> e]

\* One chunk serves a byte only, the other one eight bytes too; none is wide
\* enough for a binary.
Classes == {<<"int8", 1>>, <<"int8", 2>>, <<"int64", 2>>, <<"double", 2>>}

\* Three keys of two widths compete for the chunks of an empty zone.
Storing ==
    [offered |->
        {Call("set", k, "int8", 0, 1) : k \in Keys}
        \cup {Call("safe_set", "b", "int8", 0, 1), Call("safe_set", "c", "int64", 0, 0),
              Call("set", "b", "int64", 0, 0), Call("set", "c", "binary", 0, 0),
              Call("add", "a", "int8", 0, 0),
              Call("replace", "a", "int64", 0, 0), Call("incr", "c", "int8", 0, 0),
              Call("get", "a", "int8", 0, 0), Call("del", "b", "int8", 0, 0),
              Call("flush_all", "a", "int8", 0, 0)},
     preset |-> <<>>]

\* A counter is there already and no request takes it away.
Counting ==
    [offered |->
        {Call("incr", "a", "int64", 1, 0), Call("decr", "a", "int64", 1, 0),
         Call("get", "a", "int64", 0, 0),
         Call("safe_set", "b", "int8", 0, 1), Call("safe_add", "c", "int8", 0, 0),
         Call("del", "c", "int8", 0, 0), Call("keys", "a", "int8", 0, 0),
         Call("flush_expired", "a", "int64", 0, 0), Call("flush_expired", "a", "int64", 0, 1)},
     preset |-> [s \in {2} |-> [key |-> "a", type |-> "int64", val |-> 0, expires |-> 0]]]

StoreOrCount == {Storing, Counting}

\* The processes are alike.
Symmetry == Permutations(Workers)
=============================================================================
