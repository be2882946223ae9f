----------------------------- MODULE MCBPlusTree -----------------------------
(***************************************************************************)
(* BPlusTree with two threads.                                             *)
(***************************************************************************)
EXTENDS BPlusTree

CONSTANTS w, u

Does(t, op, S) == {[thread |-> t, op |-> op, key |-> k] : k \in S}

\* w fills the tree and empties a part of it; u inserts and removes too, looks
\* up, or scans.  An insertion or a lookup is never beside a removal.
MCCalls ==
    Does(w, "insert", 1..6) \cup Does(w, "remove", {5}) \cup Does(w, "get", {5})
    \cup Does(u, "insert", {4}) \cup Does(u, "remove", {4, 5})
    \cup Does(u, "get", {4}) \cup Does(u, "scan", {2})
MCOverlap == {{"scan", "insert"}, {"scan", "remove"}, {"scan", "get"}, {"insert"}, {"insert", "get"}, {"remove"}}

\* Two writers fill the tree together.
RaceCalls   == Does(w, "insert", 1..4) \cup Does(u, "insert", 1..4)
RaceOverlap == {{"insert"}}
=============================================================================
