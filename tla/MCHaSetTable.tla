---------------------------- MODULE MCHaSetTable ----------------------------
(* Constants for the run of HaSetTable. *)
EXTENDS HaSetTable, TLC

P(key, val) == [key |-> key, val |-> val]
Plain(key, val) == [item |-> P(key, val), increase |-> None, decrease |-> None]
Split(e, middle, host) ==
    [e EXCEPT !.increase = << P(<<From(e.item), middle>>, <<Master1(e.item), host>>),
                              P(<<middle, To(e.item)>>, <<host, Master2(e.item)>>) >>]
Swap(e, host, by) == [e EXCEPT !.decrease = <<host, by>>]

Upper == Plain(<<0, 2>>, <<"a", "b">>)
Lower == Plain(<<2, 4>>, <<"b", "c">>)

Posted ==
    { <<Split(Upper, 1, "d"), Lower>>,                      \* a host joins
      <<Swap(Upper, "b", "c"), Swap(Lower, "b", "a")>>,     \* b leaves
      <<Swap(Plain(<<0, 4>>, <<"a", "b">>), "b", "c")>>,    \* c has no other range
      <<Swap(Upper, "b", "c"), Lower>>,                     \* b leaves one range only
      <<Upper, Plain(<<2, 1>>, <<"b", "a">>), Plain(<<1, 4>>, <<"b", "c">>)>>,
      <<Plain(<<0, 3>>, <<"a", "c">>)>>,                    \* nothing has the last hash
      <<Upper, Plain(<<3, 4>>, <<"b", "c">>)>>,             \* nor the one between
      <<Split(Upper, 1, "a"), Swap(Lower, "b", "a")>> }
First == <<Upper, Lower>>

Alike == Permutations(Workers)
=============================================================================
