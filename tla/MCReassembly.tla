---------------------------- MODULE MCReassembly ----------------------------
(***************************************************************************)
(* The instance of Reassembly that TLC checks: under "reused" go three     *)
(* datagrams that agree on a prefix, under the other keys one each.        *)
(***************************************************************************)
EXTENDS Reassembly

SentUnder ==
    [reused |-> {<<1, 1, 1, 1, 1>>, <<1, 1, 2, 2, 2>>, <<1, 1, 2>>},
     second |-> {<<3, 3, 4>>}, third |-> {<<5, 6, 5>>}, fourth |-> {<<7, 7, 8>>}]
====
