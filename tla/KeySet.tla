------------------------------- MODULE KeySet -------------------------------
(***************************************************************************)
(* What an index promises its callers: a set of keys on which insertions,  *)
(* removals and lookups, called from many threads, take effect one after   *)
(* the other, each between its call and its return.                        *)
(***************************************************************************)
CONSTANTS Thread, Key

VARIABLES keys,      \* the keys in the index
          call       \* the operation of each thread; no answer in res as long as it goes on

vars == <<keys, call>>

None == [op |-> "none"]

Init ==
    /\ keys = {}
    /\ call = [t \in Thread |-> None]

Invoke(t) ==
    /\ call[t] = None /\ call'[t] # None
    /\ \E op \in {"insert", "remove", "get"}, k \in Key :
          call' = [call EXCEPT ![t] = [op |-> op, key |-> k, res |-> {}]]
    /\ UNCHANGED keys

Answer(t, res) == call' = [call EXCEPT ![t].res = {res}]
Pending(t, op) == call[t].op = op /\ call[t].res = {}

Insert(t) ==
    /\ Pending(t, "insert")
    /\ Answer(t, call[t].key \notin keys)
    /\ keys' = keys \cup {call[t].key}

Remove(t) ==
    /\ Pending(t, "remove")
    /\ Answer(t, TRUE)
    /\ keys' = keys \ {call[t].key}

GetValue(t) ==
    /\ Pending(t, "get")
    /\ Answer(t, call[t].key \in keys)
    /\ UNCHANGED keys

Return(t) ==
    /\ call[t] # None /\ call[t].res # {}
    /\ call' = [call EXCEPT ![t] = None]
    /\ UNCHANGED keys

Next == \E t \in Thread : Invoke(t) \/ Insert(t) \/ Remove(t) \/ GetValue(t) \/ Return(t)

Spec == Init /\ [][Next]_vars
=============================================================================
