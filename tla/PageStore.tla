----------------------------- MODULE PageStore ------------------------------
(***************************************************************************)
(* What the buffer pool is promised by the disk scheduler and the disk     *)
(* manager: requests take effect one at a time, in the order they were     *)
(* scheduled, each once, before its future is ready; a read returns what   *)
(* the last write of the page wrote.  A page that was never written, or    *)
(* that was deleted, reads as anything.  After an I/O error requests are   *)
(* still answered, and nothing else is promised.                           *)
(***************************************************************************)
EXTENDS Naturals, Sequences

CONSTANTS Page, Buffer, Content,
          Unknown        \* the content of a page nobody wrote

VARIABLES content,       \* page -> what a read returns
          requests,      \* scheduled and not yet served
          memory,        \* the buffers requests read from and write to
          served,        \* buffers whose request is done, not yet answered
          broken         \* there was an I/O error

svars == <<content, requests, memory, served, broken>>

Request == [write : BOOLEAN, page : Page, buffer : Buffer]

Busy(b) == b \in served \/ \E i \in DOMAIN requests : requests[i].buffer = b

Init ==
    /\ content = [p \in Page |-> Unknown]
    /\ requests = <<>>
    /\ memory \in [Buffer -> Content]
    /\ served = {}
    /\ broken = FALSE

\* The owner of a buffer changes it while no request uses it.
Fill(b, v) ==
    /\ ~Busy(b)
    /\ memory' = [memory EXCEPT ![b] = v]
    /\ UNCHANGED <<content, requests, served, broken>>

Schedule(r) ==
    /\ ~Busy(r.buffer)
    /\ requests' = Append(requests, r)
    /\ UNCHANGED <<content, memory, served, broken>>

Effect(r, v) ==
    IF r.write
    THEN /\ content' = [content EXCEPT ![r.page] = memory[r.buffer]]
         /\ UNCHANGED memory
    ELSE /\ content[r.page] \in {v, Unknown}
         /\ content' = [content EXCEPT ![r.page] = v]
         /\ memory' = [memory EXCEPT ![r.buffer] = v]

Failure(r) ==
    /\ content' \in [Page -> Content \cup {Unknown}]
    /\ \/ UNCHANGED memory
       \/ ~r.write /\ \E v \in Content : memory' = [memory EXCEPT ![r.buffer] = v]

Serve ==
    /\ requests # <<>>
    /\ LET r == Head(requests) IN
          /\ \/ ~broken /\ UNCHANGED broken /\ \E v \in Content : Effect(r, v)
             \/ broken' = TRUE /\ Failure(r)
          /\ served' = served \cup {r.buffer}
    /\ requests' = Tail(requests)

Answer(b) ==
    /\ b \in served
    /\ served' = served \ {b}
    /\ UNCHANGED <<content, requests, memory, broken>>

Delete(p) ==
    /\ \A i \in DOMAIN requests : requests[i].page # p
    /\ content' \in IF broken THEN [Page -> Content \cup {Unknown}]
                    ELSE {[content EXCEPT ![p] = Unknown]}
    /\ UNCHANGED <<requests, memory, served, broken>>

Next ==
    \/ \E b \in Buffer, v \in Content : Fill(b, v)
    \/ \E r \in Request : Schedule(r)
    \/ Serve
    \/ \E b \in Buffer : Answer(b)
    \/ \E p \in Page : Delete(p)

Spec == Init /\ [][Next]_svars
=============================================================================
