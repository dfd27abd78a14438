------------------------------ MODULE ConnQueue ------------------------------
(***************************************************************************)
(* The connection dispatcher of app/server.c: the main thread accepts      *)
(* connections and puts them into the circular array conn_q, a pool of     *)
(* service threads takes them out, each serving one request per            *)
(* connection.  conn_q is guarded by mutex_conn_q and the two condition    *)
(* variables cond_conn_q_not_empty / cond_conn_q_not_full.                 *)
(*                                                                         *)
(* Each step below is one stretch of a thread's code between two points    *)
(* where it may block (mutex lock, condition wait, blocking recv).         *)
(* pthread_cond_wait atomically releases the mutex and joins the waiter    *)
(* set; pthread_cond_signal moves one waiter (if any) back to contending   *)
(* for the mutex, after which it re-tests its while condition.             *)
(***************************************************************************)
EXTENDS Naturals, Sequences, FiniteSetsExt

CONSTANTS Workers,    \* the service threads of thread_pool
          Main,       \* the main (accepting) thread
          NoThread,   \* owner of an unlocked mutex
          Capacity,   \* MAX_CONN_BACKLOG
          MaxConns,   \* bound on the number of connections accepted
          SilentClients \* whether a client may connect and never send

ASSUME Capacity \in Nat \ {0} /\ MaxConns \in Nat /\ Main \notin Workers

Threads == Workers \cup {Main}
Conns == 1..MaxConns          \* connections, numbered in accept order
NoConn == 0

(* Descriptor numbers: enough that accept() and open() never fail with     *)
(* EMFILE, each held by a client socket (its connection), by an entry file *)
(* a service thread has open (the thread), or free.                        *)
Fds == 1..(MaxConns + Cardinality(Workers))
NoFd == 0
FreeFd == NoConn

VARIABLES conn_q,         \* [0..Capacity-1 -> Conns \cup {NoConn}]
          conn_q_size,
          service_th_pos, \* next slot a service thread dequeues from
          producer_pos,   \* next slot the main thread enqueues into
          mutex,          \* holder of mutex_conn_q
          notEmptyWaiters,\* threads blocked on cond_conn_q_not_empty
          notFullWaiters, \* threads blocked on cond_conn_q_not_full
          pc,             \* control point of each thread
          sock,           \* client_sd / client_socket held by each thread
          accepted,       \* number of connections accepted so far
          silent,         \* accepted connections whose client never sends
          fdOwner,        \* what each open descriptor number refers to
          connFd,         \* the number accept() returned for each connection
          entryFd         \* entry_fd of each service thread's db_io_op_usr_ent

fdVars == <<fdOwner, connFd, entryFd>>

vars == <<conn_q, conn_q_size, service_th_pos, producer_pos, mutex,
          notEmptyWaiters, notFullWaiters, pc, sock, accepted, silent, fdOwner, connFd, entryFd>>

Slots == 0..Capacity-1

TypeOK ==
    /\ conn_q \in [Slots -> Conns \cup {NoConn}]
    /\ conn_q_size \in 0..Capacity
    /\ service_th_pos \in Slots /\ producer_pos \in Slots
    /\ mutex \in Threads \cup {NoThread}
    /\ notEmptyWaiters \subseteq Workers /\ notFullWaiters \subseteq {Main}
    /\ pc \in [Threads -> {"accept", "lock", "check", "wait", "serve", "db",
                            "entry", "entry_close", "reply"}]
    /\ sock \in [Threads -> Conns \cup {NoConn}]
    /\ accepted \in 0..MaxConns
    /\ silent \subseteq Conns
    /\ fdOwner \in [Fds -> Conns \cup Workers \cup {FreeFd}]
    /\ connFd \in [Conns -> Fds \cup {NoFd}]
    /\ entryFd \in [Workers -> Fds \cup {NoFd}]

Init ==
    /\ conn_q = [i \in Slots |-> NoConn]
    /\ conn_q_size = 0
    /\ service_th_pos = 0
    /\ producer_pos = 0
    /\ mutex = NoThread
    /\ notEmptyWaiters = {} /\ notFullWaiters = {}
    /\ pc = [t \in Threads |-> IF t = Main THEN "accept" ELSE "lock"]
    /\ sock = [t \in Threads |-> NoConn]
    /\ accepted = 0
    /\ silent = {}
    /\ fdOwner = [f \in Fds |-> FreeFd]
    /\ connFd = [c \in Conns |-> NoFd]
    /\ entryFd = [w \in Workers |-> NoFd]

(* Seeded faults: the full test never holds; the wake-up test looks at   *)
(* the size before the increment.                                          *)
QueueFullNever == FALSE
WakesConsumerOld(size) == size = 0

(* The while condition main sleeps on.                                     *)
QueueFull == conn_q_size = Capacity

(* Main signals cond_conn_q_not_empty only when the new size is 1.        *)
WakesConsumer(size) == size = 1

(* pthread_cond_signal: wake one waiter of the set, if there is one; the   *)
(* woken thread must reacquire the mutex.  Yields the new waiter set and   *)
(* the new pc together.                                                    *)
Signal(waiters, pcIn) ==
    IF waiters = {} THEN {<<waiters, pcIn>>}
    ELSE {<<waiters \ {t}, [pcIn EXCEPT ![t] = "lock"]>> : t \in waiters}

(* pthread_cond_wait: release the mutex and block on the condition.        *)
Wait(t) ==
    /\ mutex' = NoThread
    /\ pc' = [pc EXCEPT ![t] = "wait"]

(* pthread_mutex_lock by any thread.                                       *)
Lock(t) ==
    /\ pc[t] = "lock"
    /\ mutex = NoThread
    /\ mutex' = t
    /\ pc' = [pc EXCEPT ![t] = "check"]
    /\ UNCHANGED <<conn_q, conn_q_size, service_th_pos, producer_pos,
                   notEmptyWaiters, notFullWaiters, sock, accepted, silent, fdVars>>

(* open() and accept() return the lowest-numbered descriptor not open.     *)
LowestFree == Min({f \in Fds : fdOwner[f] = FreeFd})

(* close(fd): whatever the number refers to now is closed; closing a free  *)
(* number fails with EBADF and changes nothing.                            *)
Close(fd) == [fdOwner EXCEPT ![fd] = FreeFd]

(* main: accept() returns a new client socket.  Whether that client ever   *)
(* sends its request is up to the client.                                  *)
Accept ==
    /\ pc[Main] = "accept"
    /\ accepted < MaxConns
    /\ accepted' = accepted + 1
    /\ fdOwner' = [fdOwner EXCEPT ![LowestFree] = accepted + 1]
    /\ connFd' = [connFd EXCEPT ![accepted + 1] = LowestFree]
    /\ sock' = [sock EXCEPT ![Main] = accepted + 1]
    /\ \E s \in IF SilentClients THEN BOOLEAN ELSE {FALSE} :
          silent' = IF s THEN silent \cup {accepted + 1}
                                         ELSE silent
    /\ pc' = [pc EXCEPT ![Main] = "lock"]
    /\ UNCHANGED <<conn_q, conn_q_size, service_th_pos, producer_pos, mutex,
                   notEmptyWaiters, notFullWaiters, entryFd>>

(* main: the queue is full, so sleep on cond_conn_q_not_full.              *)
MainSleep ==
    /\ pc[Main] = "check"
    /\ QueueFull
    /\ Wait(Main)
    /\ notFullWaiters' = notFullWaiters \cup {Main}
    /\ UNCHANGED <<conn_q, conn_q_size, service_th_pos, producer_pos,
                   notEmptyWaiters, sock, accepted, silent, fdVars>>

(* main: enqueue the socket, signal cond_conn_q_not_empty on the 0 -> 1    *)
(* transition only, and unlock.                                            *)
Enqueue ==
    /\ pc[Main] = "check"
    /\ ~QueueFull
    /\ conn_q' = [conn_q EXCEPT ![producer_pos] = sock[Main]]
    /\ producer_pos' = (producer_pos + 1) % Capacity
    /\ conn_q_size' = conn_q_size + 1
    /\ mutex' = NoThread
    /\ sock' = [sock EXCEPT ![Main] = NoConn]
    /\ LET pcNext == [pc EXCEPT ![Main] = "accept"]
       IN IF WakesConsumer(conn_q_size')
          THEN \E r \in Signal(notEmptyWaiters, pcNext) :
                  notEmptyWaiters' = r[1] /\ pc' = r[2]
          ELSE notEmptyWaiters' = notEmptyWaiters /\ pc' = pcNext
    /\ UNCHANGED <<service_th_pos, notFullWaiters, accepted, silent, fdVars>>

(* service thread: nothing queued, so sleep on cond_conn_q_not_empty.      *)
WorkerSleep(w) ==
    /\ pc[w] = "check"
    /\ conn_q_size = 0
    /\ Wait(w)
    /\ notEmptyWaiters' = notEmptyWaiters \cup {w}
    /\ UNCHANGED <<conn_q, conn_q_size, service_th_pos, producer_pos,
                   notFullWaiters, sock, accepted, silent, fdVars>>

(* service thread: dequeue a socket, signal cond_conn_q_not_full on the    *)
(* Capacity -> Capacity-1 transition only, and unlock.                     *)
Dequeue(w) ==
    /\ pc[w] = "check"
    /\ conn_q_size # 0
    /\ sock' = [sock EXCEPT ![w] = conn_q[service_th_pos]]
    /\ service_th_pos' = (service_th_pos + 1) % Capacity
    /\ conn_q_size' = conn_q_size - 1
    /\ mutex' = NoThread
    /\ LET pcNext == [pc EXCEPT ![w] = "serve"]
       IN IF conn_q_size' = Capacity - 1
          THEN \E r \in Signal(notFullWaiters, pcNext) :
                  notFullWaiters' = r[1] /\ pc' = r[2]
          ELSE notFullWaiters' = notFullWaiters /\ pc' = pcNext
    /\ UNCHANGED <<conn_q, producer_pos, notEmptyWaiters, accepted, silent, fdVars>>

(* service thread: recv_string of the op code.  recv blocks without a     *)
(* deadline, so a client that never sends keeps the thread here forever.   *)
(* When it fails, CHECK_SOCK_ERROR in recv_string closes the socket and    *)
(* the thread goes back to the queue; otherwise it runs the srv_* handler  *)
(* the op code selects.  A socket whose number was closed or reused under  *)
(* the connection reads anything, which the free choice already covers.    *)
Serve(w) ==
    /\ pc[w] = "serve"
    /\ sock[w] \notin silent
    /\ \E recvFails \in BOOLEAN :
          IF recvFails
          THEN /\ pc' = [pc EXCEPT ![w] = "lock"]
               /\ sock' = [sock EXCEPT ![w] = NoConn]
               /\ fdOwner' = Close(connFd[sock[w]])
          ELSE pc' = [pc EXCEPT ![w] = "db"] /\ UNCHANGED <<sock, fdOwner>>
    /\ UNCHANGED <<conn_q, conn_q_size, service_th_pos, producer_pos, mutex,
                   notEmptyWaiters, notFullWaiters, accepted, silent, connFd, entryFd>>

(* The handler's db_io_op_usr_ent on a user entry: open_file.             *)
EntryOpen(w) ==
    /\ pc[w] = "db"
    /\ entryFd' = [entryFd EXCEPT ![w] = LowestFree]
    /\ fdOwner' = [fdOwner EXCEPT ![LowestFree] = w]
    /\ pc' = [pc EXCEPT ![w] = "entry"]
    /\ UNCHANGED <<conn_q, conn_q_size, service_th_pos, producer_pos, mutex,
                   notEmptyWaiters, notFullWaiters, sock, accepted, silent, connFd>>

(* read_entry or write_entry: a failed read or write, and a read of no     *)
(* bytes, close entry_fd before returning DBMS_ERR_ANY.                    *)
EntryIO(w) ==
    /\ pc[w] = "entry"
    /\ \E ioFails \in BOOLEAN :
          fdOwner' = IF ioFails THEN Close(entryFd[w]) ELSE fdOwner
    /\ pc' = [pc EXCEPT ![w] = "entry_close"]
    /\ UNCHANGED <<conn_q, conn_q_size, service_th_pos, producer_pos, mutex,
                   notEmptyWaiters, notFullWaiters, sock, accepted, silent,
                   connFd, entryFd>>

(* db_io_op_usr_ent then closes entry_fd, whatever read_entry did.         *)
EntryClose(w) ==
    /\ pc[w] = "entry_close"
    /\ fdOwner' = Close(entryFd[w])
    /\ entryFd' = [entryFd EXCEPT ![w] = NoFd]
    /\ pc' = [pc EXCEPT ![w] = "reply"]
    /\ UNCHANGED <<conn_q, conn_q_size, service_th_pos, producer_pos, mutex,
                   notEmptyWaiters, notFullWaiters, sock, accepted, silent, connFd>>

(* The handler ends, with or without an entry access (open_file fails with *)
(* ENOENT on a missing entry).  The socket is closed only by               *)
(* CHECK_SOCK_ERROR when a recv or send on it fails; no service closes it  *)
(* otherwise.                                                              *)
Reply(w) ==
    /\ pc[w] \in {"db", "reply"}
    /\ \E ioFails \in BOOLEAN :
          fdOwner' = IF ioFails THEN Close(connFd[sock[w]]) ELSE fdOwner
    /\ pc' = [pc EXCEPT ![w] = "lock"]
    /\ sock' = [sock EXCEPT ![w] = NoConn]
    /\ UNCHANGED <<conn_q, conn_q_size, service_th_pos, producer_pos, mutex,
                   notEmptyWaiters, notFullWaiters, accepted, silent, connFd, entryFd>>

MainNext == Accept \/ Lock(Main) \/ MainSleep \/ Enqueue

WorkerNext(w) ==
    \/ Lock(w) \/ WorkerSleep(w) \/ Dequeue(w)
    \/ Serve(w) \/ EntryOpen(w) \/ EntryIO(w) \/ EntryClose(w) \/ Reply(w)

Next == MainNext \/ \E w \in Workers : WorkerNext(w)

(* Threads are scheduled fairly once they can run; clients are not obliged *)
(* to connect, so Accept carries no fairness.                              *)
Fairness ==
    /\ WF_vars(Lock(Main) \/ MainSleep \/ Enqueue)
    /\ \A w \in Workers : WF_vars(WorkerNext(w))

Spec == Init /\ [][Next]_vars /\ Fairness
-----------------------------------------------------------------------------
(* The connections in conn_q, oldest first, read off the ring.             *)
QueueContents ==
    [i \in 1..conn_q_size |-> conn_q[(service_th_pos + i - 1) % Capacity]]

(* Connections put into conn_q so far: the one main holds is not yet in.   *)
Enqueued == accepted - (IF sock[Main] = NoConn THEN 0 ELSE 1)

Queued(c) == \E i \in 1..conn_q_size : QueueContents[i] = c

(* The ring buffer with its two cursors, the size counter and the two      *)
(* condition variables implements a bounded FIFO: every accepted           *)
(* connection is handed to exactly one service thread, in accept order,   *)
(* never more than MAX_CONN_BACKLOG are buffered, and a buffered           *)
(* connection is eventually taken by a service thread.                     *)
Buf == INSTANCE ConnBuffer WITH queue <- QueueContents, enq <- Enqueued
BufferRefinement == Buf!Spec

(* A connection that is buffered while some service thread sleeps on       *)
(* cond_conn_q_not_empty is eventually taken, even if other service        *)
(* threads are stuck in a blocking recv: the signal on enqueue must reach  *)
(* an idle thread whenever work is waiting.                                *)
IdleWorkerTakesWork ==
    \A c \in Conns : (Queued(c) /\ notEmptyWaiters # {}) ~> ~Queued(c)

(* The connections in flight: the one main holds, the queued ones and     *)
(* those service threads are serving.                                      *)
Serving == {"serve", "db", "entry", "entry_close", "reply"}

InFlight ==
    ({sock[Main]} \cup {QueueContents[i] : i \in 1..conn_q_size}
       \cup {sock[w] : w \in {v \in Workers : pc[v] \in Serving}})
      \ {NoConn}

(* Every socket accept() returns is closed once its request has been      *)
(* handled: every descriptor a client socket holds belongs to a connection *)
(* in flight.  Otherwise every request leaks a descriptor until accept()   *)
(* fails with EMFILE and main returns, ending the server.                  *)
NoDescriptorLeak ==
    \A f \in Fds : fdOwner[f] \in Conns => fdOwner[f] \in InFlight

(* No connection loses its socket while it is in flight: the number        *)
(* accept() gave it still refers to it, whatever the service threads'      *)
(* db_io_op_usr_ent calls open and close meanwhile.                        *)
ConnSocketsOpen ==
    \A c \in InFlight : fdOwner[connFd[c]] = c
=============================================================================
