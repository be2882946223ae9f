---------------------------- MODULE DiskScheduler ---------------------------
(***************************************************************************)
(* storage/disk/disk_scheduler.cpp over common/channel.h: clients put      *)
(* requests in a queue, one worker thread serves them with the disk        *)
(* manager and fulfils their promises.  A request names the buffer it uses *)
(* (a raw pointer: the bytes are not copied), and each buffer is in at     *)
(* most one request, as the buffer pool waits for the future of each       *)
(* request before it touches the frame again.                              *)
(***************************************************************************)
EXTENDS DiskManager

CONSTANT Unknown             \* the content of a page nobody wrote

VARIABLES queue,             \* request_queue_, with Stop for std::nullopt
          worker,            \* the background thread
          ready              \* buffers whose promise is set, its future not read yet

vars == <<dvars, queue, worker, ready>>

DiskRequest == [write : BOOLEAN, page : Page, buffer : Buffer]
Stop == [stop |-> TRUE]

Waiting == [step |-> "waiting"]
Holding(r) == [step |-> "got", request |-> r]
Done(r) == [step |-> "done", request |-> r]
Exited == [step |-> "exited"]

Outstanding ==
    {queue[i] : i \in {j \in DOMAIN queue : queue[j] # Stop}}
        \cup IF worker.step \in {"got", "done"} THEN {worker.request} ELSE {}

Closing == worker = Exited \/ \E i \in DOMAIN queue : queue[i] = Stop

Busy(b) == b \in ready \/ \E r \in Outstanding : r.buffer = b

Init ==
    /\ DiskInit
    /\ queue = <<>>
    /\ worker = Waiting
    /\ ready = {}

-----------------------------------------------------------------------------
(* The clients. *)

\* Mutant: a buffer is changed while a request uses it.
FillAtOnce(b, v) ==
    /\ memory' = [memory EXCEPT ![b] = v]
    /\ UNCHANGED <<pages, free_slots, page_capacity, slots, io_bad, queue, worker, ready>>

Fill(b, v) ==
    /\ ~Busy(b)
    /\ memory' = [memory EXCEPT ![b] = v]
    /\ UNCHANGED <<pages, free_slots, page_capacity, slots, io_bad, queue, worker, ready>>

\* One request of the vector; the next one is another Put, and another step.
Schedule(r) ==
    /\ ~Busy(r.buffer)
    /\ ~Closing
    /\ queue' = Append(queue, r)
    /\ UNCHANGED <<dvars, worker, ready>>

\* future.get()
Answer(b) ==
    /\ b \in ready
    /\ ready' = ready \ {b}
    /\ UNCHANGED <<dvars, queue, worker>>

\* BufferPoolManager::DeletePage has waited for the requests of its page.
DeallocatePage(p) ==
    /\ \A r \in Outstanding : r.page # p
    /\ DeletePage(p)
    /\ UNCHANGED <<queue, worker, ready>>

\* Mutant: the end marker overtakes the requests.
DestroyAtOnce ==
    /\ ~Closing
    /\ queue' = <<Stop>> \o queue
    /\ UNCHANGED <<dvars, worker, ready>>

\* ~DiskScheduler puts std::nullopt, and joins the worker.
Destroy ==
    /\ ~Closing
    /\ queue' = Append(queue, Stop)
    /\ UNCHANGED <<dvars, worker, ready>>

-----------------------------------------------------------------------------
(* The worker. *)

\* Mutant: the end marker does not end the loop.
GetOn ==
    /\ worker = Waiting
    /\ queue # <<>>
    /\ worker' = IF Head(queue) = Stop THEN Waiting ELSE Holding(Head(queue))
    /\ queue' = Tail(queue)
    /\ UNCHANGED <<dvars, ready>>

Get ==
    /\ worker = Waiting
    /\ queue # <<>>
    /\ worker' = IF Head(queue) = Stop THEN Exited ELSE Holding(Head(queue))
    /\ queue' = Tail(queue)
    /\ UNCHANGED <<dvars, ready>>

Serve ==
    /\ worker.step = "got"
    /\ LET r == worker.request IN
          /\ IF r.write THEN WritePage(r.page, r.buffer) ELSE ReadPage(r.page, r.buffer)
          /\ worker' = Done(r)
    /\ UNCHANGED <<queue, ready>>

\* Mutant: no promise is set after an I/O error.
SetValueIfGood ==
    /\ worker.step = "done"
    /\ ready' = IF io_bad THEN ready ELSE ready \cup {worker.request.buffer}
    /\ worker' = Waiting
    /\ UNCHANGED <<dvars, queue>>

SetValue ==
    /\ worker.step = "done"
    /\ ready' = ready \cup {worker.request.buffer}
    /\ worker' = Waiting
    /\ UNCHANGED <<dvars, queue>>

Worker == Get \/ Serve \/ SetValue

Next ==
    \/ Worker
    \/ \E b \in Buffer, v \in Content : Fill(b, v)
    \/ \E r \in DiskRequest : Schedule(r)
    \/ \E b \in Buffer : Answer(b)
    \/ \E p \in Page : DeallocatePage(p)
    \/ Destroy

Spec == Init /\ [][Next]_vars

\* The background thread runs until it is told to stop.
FairSpec == Spec /\ WF_vars(Worker)

-----------------------------------------------------------------------------
(* Properties. *)

\* The variables keep their types; the queue holds one Stop at most, at its end.
TypeOK ==
    /\ DiskTypeOK
    /\ queue \in Seq(DiskRequest \cup {Stop})
    /\ \A i \in 1..Len(queue) - 1 : queue[i] # Stop
    /\ worker \in {Waiting, Exited} \cup {Holding(r) : r \in DiskRequest} \cup {Done(r) : r \in DiskRequest}
    /\ ready \subseteq Buffer

\* Every scheduled request is answered, after an I/O error and during shutdown too.
EveryRequestAnswered ==
    \A b \in Buffer : (\E r \in Outstanding : r.buffer = b) ~> b \in ready

\* The destructor's join returns.
ShutdownEnds == Closing ~> worker = Exited

\* The requests in the queue: Stop is its last element, if at all.
Queued == IF queue # <<>> /\ queue[Len(queue)] = Stop THEN SubSeq(queue, 1, Len(queue) - 1) ELSE queue

\* The scheduler over the disk manager is a page store.
Store == INSTANCE PageStore WITH
    content <- [p \in Page |-> IF Known(p) THEN slots[pages[p]] ELSE Unknown],
    requests <- IF worker.step = "got" THEN <<worker.request>> \o Queued ELSE Queued,
    served <- ready \cup IF worker.step = "done" THEN {worker.request.buffer} ELSE {},
    broken <- io_bad

ImplementsStore == Store!Spec
=============================================================================
