----------------------------- MODULE ConnBuffer -----------------------------
(***************************************************************************)
(* Abstract specification of what the connection dispatcher promises: a   *)
(* bounded FIFO of accepted connections.  Connections are numbered in      *)
(* accept order; Put appends the next one while the buffer has room, Take  *)
(* hands the oldest one to some worker.  Nothing is lost, duplicated or    *)
(* reordered, and a queued connection is eventually handed out.            *)
(***************************************************************************)
EXTENDS Naturals, Sequences

CONSTANTS Capacity,   \* MAX_CONN_BACKLOG
          MaxConns    \* bound on the number of connections accepted

VARIABLES queue,      \* connections waiting, oldest first
          enq         \* number of connections put so far

vars == <<queue, enq>>

Init == queue = <<>> /\ enq = 0

Put == /\ Len(queue) < Capacity
       /\ enq < MaxConns
       /\ queue' = Append(queue, enq + 1)
       /\ enq' = enq + 1

Take == /\ queue # <<>>
        /\ queue' = Tail(queue)
        /\ UNCHANGED enq

Next == Put \/ Take

\* Producers are not obliged to put; a queued connection must be taken.
Spec == Init /\ [][Next]_vars /\ WF_vars(Take)
=============================================================================
