--------------------------- MODULE MCChannelMutex ---------------------------
(* Three calls on one channel and one on another. *)
EXTENDS ChannelMutex

CONSTANTS c1, c2, t1, t2, t3, u1

MCKey == {c1, c2}
MCTask == {t1, t2, t3, u1}
MCKeyOf == [t \in MCTask |-> IF t = u1 THEN c2 ELSE c1]

=============================================================================
