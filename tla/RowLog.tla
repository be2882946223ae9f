------------------------------- MODULE RowLog -------------------------------
(***************************************************************************)
(* What a table heap promises: the rows of a table in the order of their   *)
(* insertion.  A row keeps its place for good.  A scan reads the rows in   *)
(* that order, each once, as they are when it reads them, and stops at a   *)
(* place fixed between its start and its first read; an eager scan goes on *)
(* until it has read them all.                                             *)
(***************************************************************************)
EXTENDS Naturals, Sequences

CONSTANTS Scanner,
          Row,
          Size(_)      \* the bytes of a row, fixed by its insertion

VARIABLES log,         \* the rows
          scan         \* what each scan has read, and where it stops

vars == <<log, scan>>

Idle == [do |-> "idle"]

Init == log = <<>> /\ scan = [t \in Scanner |-> Idle]

Insert == (\E row \in Row : log' = Append(log, row)) /\ UNCHANGED scan

Update ==
    /\ \E i \in DOMAIN log, row \in Row :
          Size(row) = Size(log[i]) /\ log' = [log EXCEPT ![i] = row]
    /\ UNCHANGED scan

Reads(from, stop) == [do |-> "read", read |-> from, stop |-> stop, got |-> {}]

Start(t) ==
    /\ scan[t] = Idle
    /\ \/ scan' = [scan EXCEPT ![t] = [do |-> "start", low |-> Len(log)]]
       \/ scan' = [scan EXCEPT ![t] = Reads(0, {})]
    /\ UNCHANGED log

Stop(t) ==
    /\ scan[t].do = "start"
    /\ \E n \in scan[t].low..Len(log) : scan' = [scan EXCEPT ![t] = Reads(0, {n})]
    /\ UNCHANGED log

Limit(t) == IF scan[t].stop = {} THEN Len(log) ELSE CHOOSE n \in scan[t].stop : TRUE

Read(t) ==
    /\ scan[t].do = "read" /\ scan[t].got = {} /\ scan[t].read < Limit(t)
    /\ scan' = [scan EXCEPT ![t].got = {log[scan[t].read + 1]}]
    /\ UNCHANGED log

Finished(t) == IF scan[t].got = {} THEN scan[t].read ELSE scan[t].read + 1

\* An eager scan may wait for a row that is being inserted.
Advance(t) ==
    /\ scan[t].do = "read" /\ scan[t].got # {}
    /\ scan[t].stop = {} \/ Finished(t) < Limit(t)
    /\ scan' = [scan EXCEPT ![t].read = @ + 1, ![t].got = {}]
    /\ UNCHANGED log

End(t) ==
    /\ scan[t].do = "read" /\ Finished(t) = Limit(t)
    /\ scan' = [scan EXCEPT ![t] = Idle]
    /\ UNCHANGED log

Next == Insert \/ Update \/ \E t \in Scanner : Start(t) \/ Stop(t) \/ Read(t) \/ Advance(t) \/ End(t)

Spec == Init /\ [][Next]_vars
=============================================================================
