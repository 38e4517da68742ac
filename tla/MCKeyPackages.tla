--------------------------- MODULE MCKeyPackages ----------------------------
(* Instance of KeyPackages for TLC. *)
EXTENDS KeyPackages, TLC

MCStores == <<"tree", "secrets">>

\* The stories with so many calls of each kind: closed under permutation.
Story(groups, logins, replenishments, operations, reloads, failures, taken, lost) ==
    LET Number(f, k) == Cardinality({c \in Calls : f[c] = k})
    IN  {[kind |-> f,
          budget |-> [operations |-> operations, reloads |-> reloads,
                      failures |-> failures, taken |-> taken, lost |-> lost]] :
         f \in {f \in [Calls -> Kinds] : /\ Number(f, "group") = groups
                                         /\ Number(f, "login") = logins
                                         /\ Number(f, "replenish") = replenishments}}

\* Three group operations; with a page load; with a failing request; with writes that
\* fail before a page load; and the makers of key packages beside each other, beside
\* failures, and beside an operation.
MCStories == UNION {
    Story(3, 0, 0, 2, 1, 0, 0, 0),
    Story(3, 0, 0, 1, 1, 2, 0, 0),
    Story(2, 1, 0, 0, 0, 1, 0, 0),
    Story(0, 2, 1, 0, 1, 0, 1, 1),
    Story(0, 1, 2, 0, 0, 1, 1, 1),
    Story(2, 1, 0, 1, 0, 0, 0, 0) }

MCSymmetry == Permutations(Calls)

\* Refuted by TLC: the server that hands out packages of the device knows its
\* credential (uploadKeyPackages.js:52 stores it before the upload that may fail,
\* and a later sign-in that finds it stored does not upload it).
CredentialIsKnown == serverPackages # {} => credential.server
=============================================================================
