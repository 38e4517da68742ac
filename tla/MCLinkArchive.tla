--------------------------- MODULE MCLinkArchive ---------------------------
(***************************************************************************)
(* LinkArchive for TLC.                                                    *)
(***************************************************************************)
EXTENDS LinkArchive

S(w, f, c, a, k) == [cap |-> w, flows |-> f, claims |-> c, archives |-> a, faults |-> k]
Story == {S(2, 1, 2, 2, 2), S(1, 1, 1, 2, 3), S(2, 1, 2, 3, 1), S(2, 2, 2, 2, 1)}
=============================================================================
