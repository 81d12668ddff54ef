------------------------------ MODULE MCLedger ------------------------------
(***************************************************************************)
(* Instances of Ledger for TLC: two or three source events, two sessions.  *)
(* Each configuration picks one definition per payload attribute.          *)
(***************************************************************************)
EXTENDS LedgerInvariant

CONSTANTS r1, r2, r3, p1, p2, s1, s2, s3, k1, k2, k3, h1, h2, h3

\* Where the events are booked: one warehouse and year, or r3 in another.
OnePartition == [r \in Requests |-> p1]
TwoPartitions == [r \in Requests |-> IF r = r3 THEN p2 ELSE p1]

\* The site of the MOV code: the default for all, or one for each.
OneSite == [r \in Requests |-> s1]
OwnSites == [r \in Requests |-> CASE r = r1 -> s1 [] r = r2 -> s2 [] r = r3 -> s3]

\* Request keys: one for each, or r2 and r3 share theirs.
OwnKeys == [r \in Requests |-> CASE r = r1 -> k1 [] r = r2 -> k2 [] r = r3 -> k3]
SharedKey == [r \in Requests |-> IF r = r1 THEN k1 ELSE k2]

OwnPayloads == [r \in Requests |-> CASE r = r1 -> h1 [] r = r2 -> h2 [] r = r3 -> h3]

\* When they are requested.
Forwards == [r \in Requests |-> CASE r = r1 -> 1 [] r = r2 -> 2 [] r = r3 -> 3]
Backwards == [r \in Requests |-> 4 - Forwards[r]]

\* Defects of the payload that only show while the movement is written.
NoDefects == [r \in Requests |-> "none"]
OneLacksSources == [NoDefects EXCEPT ![r1] = "noSources"]
OneBadSource == [NoDefects EXCEPT ![r1] = "badSource"]
=============================================================================
