------------------------------ MODULE MCVault ------------------------------
EXTENDS Vault, TLC

None == [b \in Bounds |-> 0]
With(f) == f @@ None
\* The tab that was unlocked is loaded again, or a new one opens after it was closed.
SameTab(p, b) == [blob |-> TRUE, last |-> FALSE, seal |-> TRUE, policy |-> p, jwt |-> "good", left |-> With(b)]
NewTab(p, b) == [blob |-> TRUE, last |-> TRUE, seal |-> TRUE, policy |-> p, jwt |-> "none", left |-> With(b)]
FirstUse(b) ==
  [blob |-> FALSE, last |-> FALSE, seal |-> FALSE, policy |-> "browser_close", jwt |-> "none", left |-> With(b)]

AllStories ==
  {SameTab(p, [reloads |-> 1, locks |-> 1, pins |-> 1]) : p \in Policies}
  \cup {NewTab(p, [reloads |-> 1, deadlines |-> 1, pins |-> 1]) : p \in Policies}
  \cup {NewTab("never", [outages |-> 1, locks |-> 1]),
        NewTab("minutes", [outages |-> 1, deadlines |-> 1]),
        SameTab("minutes", [reloads |-> 1, deadlines |-> 1]),
        SameTab("refresh", [reloads |-> 1, pins |-> 3, phrases |-> 1]),
        SameTab("browser_close", [revokes |-> 1, phrases |-> 1]),
        SameTab("refresh", [revokes |-> 1, checks |-> 1, pins |-> 1]),
        NewTab("never", [revokes |-> 1, outages |-> 1]),
        SameTab("never", [ends |-> 1, checks |-> 1, reloads |-> 1]),
        SameTab("browser_close", [ends |-> 1, phrases |-> 1]),
        NewTab("refresh", [ends |-> 1, pins |-> 1, mishaps |-> 1]),
        NewTab("never", [outages |-> 1, logouts |-> 1]),
        SameTab("refresh", [outages |-> 1, mishaps |-> 1, pins |-> 1]),
        NewTab("refresh", [outages |-> 1, mishaps |-> 1, pins |-> 1]),
        SameTab("refresh", [ends |-> 2, phrases |-> 1]),
        FirstUse([phrases |-> 1, outages |-> 1, mishaps |-> 1]),
        FirstUse([phrases |-> 1, reloads |-> 2, ends |-> 1]),
        FirstUse([phrases |-> 1, policies |-> 1, reloads |-> 1])}

\* An account is created, its PIN set, and the page loaded again while the server is away.
OutageStories == {FirstUse([phrases |-> 1, reloads |-> 1, outages |-> 1])}
=============================================================================
