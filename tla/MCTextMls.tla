------------------------------ MODULE MCTextMls ------------------------------
(***************************************************************************)
(* Small channels of module TextMls for TLC, and statements of the         *)
(* repository's comments that no listed run checks: TLC refutes each with  *)
(* the constants of TextMls.cfg and the changes named beside it.           *)
(***************************************************************************)
EXTENDS TextMls

\* MaxFails = 1, Origins = {{}}: a PUT that failed after createGroup.
\* A message is not encrypted in a group that nobody was told of.
SendIsPublished == msg # None => info # None

\* MaxFails = 0, Origins = {{}}: two first members.
\* "get their group created by the first member who enters the guild": when
\* nothing is running there is one group.
OneGroup ==
  (\A c \in Clients : op[c]["queue"] = Idle /\ stored[c] # None) =>
    \A c, d \in Clients : mls[c].base = mls[d].base

\* PutNewerOnly = FALSE, Origins = {{}}, Others = Leavers = Kicked = {}.
\* "upserts the current GroupInfo so new joiners can catch up": a device that
\* keeps sending gets into the group.
JoinersCatchUp == \A c \in Clients : []<>(mls[c].status = "joined")

\* Kicked = {"a"}: an operation is running when the kick arrives.
\* "cleans up local MLS state": it stays clean.
LeftStaysLeft ==
  \A c \in left : (\A w \in Workers : op[c][w] = Idle) => stored[c] = None

==============================================================================
