------------------------------ MODULE MCCodec ------------------------------
(* Bounded inputs of Codec for TLC: values at the boundaries of every width. *)
EXTENDS Codec

\* Headers of a version and flags that fit their fields, and of some that do not.
SomeTc == [version : {1, 17}, ack_flags : {9, 250}, service_type_id : {20}, subtype_id : {1},
           source_id : {65283}, time : {<<57005, 48879>>}, spare : {3}]
SomeTm == [version : {1}, time_ref_status : {0, 31}, service_type_id : {255},
           subtype_id : {0}, msg_type_counter : {255, 256}, destination_id : {513},
           time : {<<0, 65280>>}, spare : {0}]

\* Bytes that are all different, and all ones.
SomeNoise == {[i \in 1 .. TmLen |-> 16 + i], [i \in 1 .. TmLen |-> 255]}
=============================================================================
