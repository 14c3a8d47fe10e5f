----------------------------- MODULE WaitQueue -----------------------------
(***************************************************************************)
(* WaitQueue of pool.go: the FIFO of clients waiting for a connection.     *)
(*                                                                         *)
(* The slice waiters[head:] is the sequence queue.  An entry is a client   *)
(* or Hole, the nil that the deferred clean-up of Wait leaves in the       *)
(* middle of the slice.  Entries before head are never read again, so      *)
(* head++ drops the first entry and shrink, which only moves the slice,    *)
(* does nothing here.  wconn[t] is the conn field of client t's waiter.    *)
(* Each action is one critical section of wq.mu; NoConn is nil.            *)
(***************************************************************************)
EXTENDS Integers, Sequences

CONSTANTS
    Client,     \* goroutines that call Acquire
    QueueMax,   \* WaitQueue.maxSize
    NoConn,     \* nil connection
    Hole        \* nil entry of the waiters slice

VARIABLES queue, wconn

waitVars == <<queue, wconn>>

\* wq.len(): the entries from head on, holes included.
len == Len(queue)

InitWait ==
    /\ queue = <<>>
    /\ wconn = [t \in Client |-> NoConn]

\* Positions of real waiters.
Waiting == {i \in DOMAIN queue : queue[i] # Hole}

\* First critical section of Wait, queue not full: t joins at the back.
Enqueue(t) ==
    /\ len < QueueMax
    /\ queue' = Append(queue, t)
    /\ UNCHANGED wconn

QueueFull == len >= QueueMax

\* Mutant: the clean-up moves head whenever t is still queued.
LeaveHead(t) ==
    /\ queue' = IF \E i \in DOMAIN queue : queue[i] = t THEN Tail(queue) ELSE queue
    /\ wconn' = [wconn EXCEPT ![t] = NoConn]

\* The deferred clean-up of Wait after a time-out: t's entry, if Signal has not
\* taken it, becomes nil, and head moves only when it was the first one.  The
\* waiter is dropped with whatever Signal put in its conn field.
Leave(t) ==
    /\ \/ /\ \A i \in DOMAIN queue : queue[i] # t
          /\ UNCHANGED queue
       \/ /\ queue # <<>> /\ queue[1] = t
          /\ queue' = Tail(queue)
       \/ \E i \in DOMAIN queue : /\ i > 1 /\ queue[i] = t
                                  /\ queue' = [queue EXCEPT ![i] = Hole]
    /\ wconn' = [wconn EXCEPT ![t] = NoConn]

\* Mutants of Signal: the last waiter is served; the waiter served stays queued.
SignalLast(c) ==
    \E i \in Waiting :
        /\ \A j \in Waiting : j <= i
        /\ queue' = SubSeq(queue, 1, i - 1)
        /\ wconn' = [wconn EXCEPT ![queue[i]] = c]

SignalKeeps(c) ==
    \E i \in Waiting :
        /\ \A j \in Waiting : i <= j
        /\ queue' = SubSeq(queue, i, Len(queue))
        /\ wconn' = [wconn EXCEPT ![queue[i]] = c]

\* Signal(c) with a waiter: holes at the front are skipped, the first waiter
\* leaves the queue and gets c.
SignalWaiter(c) ==
    \E i \in Waiting :
        /\ \A j \in Waiting : i <= j
        /\ queue' = SubSeq(queue, i + 1, Len(queue))
        /\ wconn' = [wconn EXCEPT ![queue[i]] = c]

\* Signal(c) without one: it returns false, having skipped every hole.
SignalNobody ==
    /\ Waiting = {}
    /\ queue' = <<>>
    /\ UNCHANGED wconn

\* Wait returns the delivered connection (its clean-up finds no entry).
Receive(t) ==
    /\ wconn[t] # NoConn
    /\ wconn' = [wconn EXCEPT ![t] = NoConn]
    /\ UNCHANGED queue
=============================================================================
