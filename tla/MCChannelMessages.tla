------------------------- MODULE MCChannelMessages -------------------------
(* Module ChannelMessages with two channels: "a" has two messages, "b" has  *)
(* none, and a page is one message.  Each budget is a story of its own.     *)
EXTENDS ChannelMessages
Message(c, i) == [ch |-> c, from |-> "sibling", text |-> MaxSends + i]
Histories == {<<Message("a", 1), Message("a", 2)>>}
Budget(p, s, r, o, v, m) ==
  [posts |-> p, sends |-> s, retries |-> r, olders |-> o, moves |-> v, mishaps |-> m]
Stories ==
  { Budget(2, 0, 0, 0, 0, 2),   \* messages during two mishaps
    Budget(0, 2, 0, 0, 0, 1),   \* two sends and a mishap
    Budget(0, 1, 1, 0, 0, 1),   \* a send, tried again
    Budget(0, 1, 0, 0, 2, 0),   \* a send, and two changes of channel
    Budget(1, 0, 0, 1, 1, 1),   \* an older page
    Budget(0, 2, 0, 0, 1, 0),   \* two sends and a change of channel
    Budget(1, 1, 0, 0, 1, 0) }  \* a message, a send and a change of channel
TwoDevices == { Budget(1, 1, 0, 0, 0, 1) }
==============================================================================
