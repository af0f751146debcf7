----------------------------- MODULE MCService20 -----------------------------
(* Bounded inputs of Service20 for TLC. *)
EXTENDS Service20

\* Ids 1 and 3 differ from their own byte-swapped forms; 3 has two bytes in base 3.
Ids == {1, 3}

Mixed == {<<1>>, <<0, 1>>, [j \in 1 .. 14 |-> 0]}

\* Read-write values of one and two bytes, a read-only one, and a length close to
\* the wrap of an offset.
Descriptors == {[len |-> 1, settable |-> TRUE], [len |-> 2, settable |-> TRUE],
                [len |-> 1, settable |-> FALSE], [len |-> 14, settable |-> TRUE]}

Pairs == Ids \X {<<2>>, <<0, 1>>}
SomeCommands == {<<p>> : p \in Pairs} \cup {<<<<1, <<2>>>>, p>> : p \in Pairs}
                \cup {<<<<3, <<0, 1>>>>, <<1, <<2>>>>>>}
SomeRequests == {<<>>, <<1, 3>>, <<1, 1>>}

\* A value length close to the wrap of the offset.
Huge == {[len |-> 1, settable |-> TRUE], [len |-> 3, settable |-> TRUE],
         [len |-> 14, settable |-> TRUE]}
HugeData == {<<1>>, <<0, 1, 2>>, [j \in 1 .. 14 |-> 0]}
LongCommands == {<<p>> : p \in Ids \X {<<1>>, <<0, 1, 2>>}}
                \cup {<<p, q>> : p \in Ids \X {<<0, 1, 2>>}, q \in Ids \X {<<1>>, <<0, 1, 2>>}}
=============================================================================
