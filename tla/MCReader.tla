------------------------------ MODULE MCReader ------------------------------
(* An instance of Reader for TLC: five PDUs, one to five bytes long, one of *)
(* which has a variable length; an SSN and an address take one byte.        *)
EXTENDS Reader

CONSTANTS null

Messages == [
  succ |-> {<<NET_NEW_RANGE, 0, 9>>, <<NET_LEAVING, 4>>},
  pred |-> {<<NET_CLOSE_CONNECTION>>, <<VAL_INSERT, 2, 1, 9, 0>>,
            <<NET_JOIN, 1, 0, 2>>}]

Items == [from : Stream, bytes : Seq(Byte)]
=============================================================================
