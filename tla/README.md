# TLA+ models of the chat-room server

These modules model the C server in `src/`. The main thread accepts
connections. A pool of service threads runs the five services against a
file-system store, and the server pushes messages to the clients' listening
threads. Every definition was translated from the source; `PROJECT.json`
maps each one to the lines it models.

## 1. Inventory

### Components and their state

| Part | Source | State the code keeps | Operations |
|---|---|---|---|
| Connection dispatcher | `app/server.c` | `conn_q[MAX_CONN_BACKLOG]`, `conn_q_size`, `service_th_pos`, `producer_pos` (local to `main`), `mutex_conn_q`, `cond_conn_q_not_empty`, `cond_conn_q_not_full` | accept+enqueue (main, lines 166-187); dequeue+dispatch (`service_thread`, 49-86) |
| Protocol handler | `src/services.c` | only per-request locals (`entry`, `reply`, `recipient_entry`, `send_msg_reply`) | `srv_register`, `srv_unregister`, `srv_connect` (+ `aux_connect_send_pend_msgs`), `srv_disconnect`, `srv_send` (+ `aux_send_init`, `aux_send_msg_pass`, `aux_send_first_ack`) |
| Delivery client | `src/services.c` 167-241 | none; it re-reads the user entry to find the endpoint | `clt_send_message`, `clt_send_mess_ack` |
| Persistence store | `src/dbms/dbms.c`, `src/dbms/dbmsUtil.c` | the directory tree `users/<u>-table/userdata.entry` and `users/<u>-table/pend_msgs-table/<id>` | `db_user_exists`, `db_io_op_usr_ent` (READ / CREATE / MODIFY / DELETE), `db_creat_usr_tbl`, `db_del_usr_tbl`, `db_get_pend_msg` |
| Utilities | `src/netUtil.c`, `src/util.c` | none | socket string I/O, `str_to_num` |

### How the parts interact

- `main` puts each accepted socket into `conn_q`. A service thread takes it
  out, receives the op code and calls one `srv_*` handler. That handler runs
  to completion on the same thread.
- The handlers call the store without any lock. `mutex_db` is initialised
  but never taken, so the store accesses of concurrent requests interleave
  freely.
- A SEND to a connected user, and the flush of pending messages after a
  CONNECT, push over a new outbound connection. The endpoint comes from the
  user entry, which `aux_connect_clt_listen_thread` re-reads at the moment of
  the push. After a successful push, a SEND_MESS_ACK goes to the sender's
  endpoint.

### Hard behaviours

- **Interleaving:** all five services read-modify-write the same
  `userdata.entry` with no lock. CONNECT, SEND, the flush and the failure
  paths each write back a whole entry they read earlier.
- **Condition variables:** they are signalled only on the 0→1 and C→C-1
  transitions, and a service thread blocks in `recv` with no deadline.
- **Uninitialised reads (undefined behaviour):**
  - `entry.user.status`, `ip` and `port` in `srv_register`;
  - `reply.server_error_code` in `srv_connect` (line 340);
  - `send_msg_reply.server_error_code` in `srv_send` (line 451).
- **Partial failure:** a push can fail halfway through a flush, and
  `db_creat_usr_tbl` can fail after its first step.
- **Non-atomic file operations:** O_TRUNC followed by write, and the
  recursive delete of a table.
- **Numeric edge:** message ids wrap at `MSG_ID_MAX_VALUE`.
- **Crash:** the SIGINT handler exits mid-request; the store is what the
  restarted server starts from.

### Properties per component

- **Dispatcher:**
  - the ring implements a bounded FIFO of connections in which each buffered
    connection is eventually served (refinement);
  - an idle thread takes waiting work.
- **Protocol handler and delivery client**, following spec.md section 5:
  - an accepted message is never lost (P4/P5);
  - ids are unique per recipient (P2);
  - an acknowledgement names a delivered message;
  - a connected user has an empty mailbox (P6);
  - REGISTER succeeds at most once per registration (P1);
  - a delivered message is not left pending;
  - every user table holds a readable entry and a mailbox;
  - a valid CONNECT performs the update (further configuration only: with
    the benign reply byte it restates `CnRead`'s branch);
  - the one-thread handler implements the atomic chat service
    `ChatService` (refinement): nothing is pushed to a user that is not
    connected, or stored for one that is;
  - no client is pushed a message that no SEND accepted for it;
  - every request a thread starts ends (liveness);
  - after a SIGINT shutdown and restart, the message, id, ack and
    registration properties still hold, and every table has an entry
    (violation run).
- **Utilities:** `read_line`, `read_bytes`, `write_bytes` and `str_to_num`
  return what the field encoding (spec 6) and `strtol` say (`send_string`
  and `send_server_reply` are single `write_bytes` calls, covered by its
  property), and a field cut off by a closed connection is an error
  (violation run).
- **Dispatcher resources:** no connection in flight loses its socket to
  another thread's `close` (violation run); open client sockets are the ones
  in flight (further configuration).

## 2. Modules

| Module | Models | State (VARIABLES) | Actions |
|---|---|---|---|
| `ConnBuffer` | abstract bounded FIFO that the dispatcher promises | `queue`, `enq` | `Put`, `Take` |
| `ConnQueue` | `server.c` accept loop and service thread loop, with the descriptor handling of one `db_io_op_usr_ent` per request | the ring, both cursors, size, mutex holder, waiter sets of both condvars, per-thread `pc` and socket; `fdOwner` (what each descriptor number refers to: a connection, a thread's entry file, or nothing), `connFd`, `entryFd` | `Accept`, `Lock`, `MainSleep`, `Enqueue`, `WorkerSleep`, `Dequeue`, `Serve`, `EntryOpen`, `EntryIO`, `EntryClose`, `Reply` |
| `ChatService` | the atomic chat service of spec.md 4.2, 4.2.1 and 8 | `registered`, `connected`, `mailbox`, `delivered`, `requests`, `accepted` | `Request`, `Register`, `Unregister`, `Connect`, `Disconnect`, `Push`, `Store`, `Flush`, `Accept` |
| `DBMS` | the store: files as functions, result codes of each dbms call | `udir`, `ud`, `mdir`, `pend`; a file is a record, `NoFile`, or `Empty` (opened for writing and not yet written) | operators used by `Services` |
| `Services` | `services.c` over `DBMS` with a pool of service threads | the store, plus per-thread locals `lc` and the observations: `inbox` (pushed messages), `acks`, `sendReq`/`sendReply`, REGISTER and UNREGISTER success counts, the tokens `discarded` by UNREGISTER, and the request count | one action per store access or push, listed below |
| `Util` | `util.c` and `netUtil.c`: `read_line`, `recv_string`, `read_bytes`, `write_bytes`, `send_string`, `send_server_reply`, `str_to_num` (with `strtol` and the int casts) | `call`: one call and the results its `read()`/`write()` calls return, fixed by `Init` | RECURSIVE operators, one per function; the loop of each is a RECURSIVE operator over the remaining results |
| `MC_ConnQueue`, `MC_Services` | model values for threads and users | | |

`Services` splits every handler at each call that touches the store or the
network, because those are the points where another thread's steps can come
in between:

| Service | Actions |
|---|---|
| REGISTER | `RegOpendir` → `RegMkdir` → `RegCreate` → `WriteEntry` → `RegMkmbox` |
| UNREGISTER | `UnregExists` → `UnregDelete` → (`UrRemoveEntry` \| `UrOpenMbox` → `UrRemovePend`* → `UrRmdirMbox`)* → `UrRmdirTable` |
| CONNECT | `CnRead` → `CnModify`, then the flush |
| Flush | `FlRead` → (`FlGet` → `FlGetRead` → `FlPush` → `FlDel` → `FlAck`)* with exit `FlFail` |
| SIGINT | `Restart`, at most `MaxCrashes` times |
| DISCONNECT | `DcnRead` → `DcnModify` |
| SEND | `SndExistsS` → `SndExistsR` → `SndRead` → `SndInc` → `SndPush` → `SndDcn` → `SndStore` → `SndReply` → `SndAck` |

Every CREATE or MODIFY is two steps, as in `db_io_op_usr_ent`:

- the `open` (O_CREAT\|O_EXCL or O_TRUNC) leaves the file `Empty` inside the action that calls it;
- `write_entry` is the thread's next step, `WriteEntry`, after which it goes on where the handler continues.

A READ of an `Empty` file fails, because `read_entry` reads no bytes. `db_get_pend_msg` takes a name from `readdir` (`FlGet`) and reads the file in a later call (`FlGetRead`); it ignores a failed READ, so `FlGetRead` keeps the previous message's sender and content under the new id. `UNREGISTER` follows `remove_recursive`:

- `opendir` and `readdir` fix the names it will remove;
- a name gone by then fails the whole delete;
- `rmdir` of a directory that gained an entry fails (ENOTEMPTY).

A `remove` of a file another thread is about to write makes that write go to the unlinked file (`Unlink`).

Each action's guard is the code's condition or early return. For example:

- CONNECT always goes on to the flush (`fl_read`), because
  `srv_connect` calls `aux_connect_send_pend_msgs` whatever it replied.
- `RegMkdir` and `RegCreate` reply SUCCESS on failure, because of
  `services.c:259`.
- `FlPush` and `SndPush` re-read the user entry, as
  `aux_connect_clt_listen_thread` does.

`Restart` models `shutdown_server` (`server.c:89-96`): the SIGINT handler
calls `exit(0)` whatever the service threads are doing. Every thread's locals
are lost (all go back to idle); the store stays as it was left, `Empty` files
included, because the restarted server's `db_init_db` reopens the `users`
directory it finds. Pushed messages and acks stay observed: the clients got
them.

In `ConnQueue` a request is `Serve` (the op-code `recv`; on failure
`CHECK_SOCK_ERROR` in `recv_string` closes the socket, `netUtil.c:29`, and
the thread goes back to the queue, `server.c:73`),
then at most one entry access, then `Reply` (the handler's sends, whose
failure closes the socket through `CHECK_SOCK_ERROR`). The entry access is
`db_io_op_usr_ent`: `EntryOpen` takes the lowest free descriptor, as
`open` does; `EntryIO` is `read_entry` or `write_entry`, which close the
descriptor themselves when the read fails or returns no bytes, or the
write fails; `EntryClose` is the `close` at `dbms.c:123`, which runs
whatever `EntryIO` did. `Accept` also takes the lowest free number. `close`
of a number frees whatever it refers to at that moment.

`Util` has no behaviour of its own to explore: `Init` picks one call from
`Calls` (every sequence of system-call results up to a length, and every
string over a few characters) and `Next` leaves it. Each property compares
the operator's result with the contract for that call. `read_line` returns
`0` without writing the NUL on an end of file before any byte; the result
records that as `nul = FALSE`.

Uninitialised values are constants that the configuration chooses from:

| Constant | Uninitialised value |
|---|---|
| `RegStatus` | the status byte left by `srv_register` |
| `ConnGarbage` | whether the stale reply code of `srv_connect` equals `SRV_ERR_CN_ANY` |
| `SendGarbage` | whether `send_msg_reply` reads as non-success |

`PortOk` is the set of outcomes `str_to_num` may give the port string of a
CONNECT. It is a choice rather than a call because `Util` checks
`str_to_num` on its own.

The pass runs take the benign outcome of each. Each violation run opens one
of these choices.

### Refinement

`ConnQueue` implements `ConnBuffer`:

```
Buf == INSTANCE ConnBuffer WITH queue <- QueueContents, enq <- Enqueued
```

- `QueueContents` reads the ring from `service_th_pos` for `conn_q_size`
  slots.
- `Enqueued` counts accepted sockets, less the one `main` still holds.
- The abstract spec is checked as the PROPERTY `BufferRefinement`. That
  includes the abstract fairness `WF(Take)`: a buffered connection is
  eventually taken.

`Services` with one service thread implements `ChatService`, in which every
service is one atomic step over sets of users and message tokens:

```
Chat == INSTANCE ChatService WITH registered <- Registered, connected <- ConnectedView,
                                  mailbox <- MailboxView, delivered <- ..., accepted <- ...
```

- A file opened by CREATE or MODIFY and not yet written is seen as the
  value about to be written (`FileView`): spec 4.4 treats a record write as
  atomic, and the open and the write are one store call apart.
- A user stops being registered when UNREGISTER's `remove_recursive`
  starts (`Unregistering`).
- A pending message leaves the mailbox view when the flush pushes it
  (`FlushPushed`), before its file is deleted.
- Ids, acknowledgements and torn files are not in the abstract view; the
  invariants of `Services` check those.

`ChatRefinement` is checked in the `services` run. Symmetry is used there
only for invariants and for this property, which has no fairness.

## 3. Runs

All runs are listed in `PROJECT.json`.

| Run | cfg | Expect | What it shows |
|---|---|---|---|
| dispatcher | `MC_ConnQueue.cfg` | pass (≈218k states, ~25 s) | the ring, cursors and condvars refine `ConnBuffer`, liveness included, when every client sends |
| lost_wakeup | `MC_ConnQueue_wakeup.cfg` | violation | with a client that never sends, queued work waits while threads sleep (`server.c:184`) |
| descriptor_reuse | `MC_ConnQueue_reuse.cfg` | violation | after an empty or failed entry read, `read_entry` closes the descriptor and `db_io_op_usr_ent` closes it again (`dbms.c:123`); `accept` in between got that number, so a queued connection loses its socket |
| services | `MC_Services.cfg` | pass (≈516k states, ~1 min) | one service thread: all the safety properties hold, torn entries included, no client is pushed a message nobody sent, and the handler refines `ChatService` |
| ids_race | `MC_Services_ids.cfg` | violation | a stale CONNECT write-back makes two accepted messages share an id |
| register_race | `MC_Services_register.cfg` | violation | two concurrent REGISTERs both succeed |
| torn_pending | `MC_Services_torn.cfg` | violation | a flush reads a pending file SEND created but has not written, ignores the failed READ (`dbms.c:43`), pushes stale content and deletes the file; SEND's write is lost |
| services_crash | `MC_Services_crash.cfg` | pass (≈152k states, ~25 s) | with one SIGINT shutdown at any step and a restart, accepted messages are not lost, ids stay distinct, acks name delivered messages and REGISTER succeeds once; under `LiveSpec`, every request a thread starts ends, the flush loop included |
| crash_table | `MC_Services_crashtable.cfg` | violation | a shutdown between REGISTER's mkdir and the creation of the userdata entry leaves a table without an entry (`dbms.c:153`) |
| util | `MC_Util.cfg` | pass (≈2.8k states) | `read_line`, `read_bytes`, `write_bytes` and `str_to_num` meet their contracts for all inputs in the bounds: EINTR, short transfers, overlong lines, signs, overflow and casts |
| closed_field | `MC_Util_closed.cfg` | violation | a connection closed before a field's terminator makes `recv_string` succeed with a truncated or stale field (`util.c:126-130`); spec 7 calls it a transport error |
| flush_unconnected | `MC_Services_flush.cfg` | violation | a failed push leaves the old endpoint in a DISCONNECTED entry; a CONNECT refused for an unparsable port still runs the flush (`services.c:372`), which pushes the stored message to that endpoint and deletes it. Spec 4.2.1 runs the flush only after a successful CONNECT |

### Further configurations

These cfgs are kept beside the runs of `PROJECT.json`. Each violates the
property named below. Most show a second consequence of a finding above or
a different outcome of an uninitialised value; the last two are code
defects that spec.md itself names or that need no run of their own:

| Name | cfg | Violates | What it shows |
|---|---|---|---|
| ack_race | `MC_Services_ack.cfg` | `AckMatchesDelivery` | the second ACK carries a rolled-back id |
| send_garbage | `MC_Services_garbage.cfg` | `DeliveredNotPending` | the uninitialised `send_msg_reply` causes duplicate delivery |
| register_status | `MC_Services_regstatus.cfg` | `AcceptedNotLost` | a garbage status byte from REGISTER makes SEND lose an accepted message |
| connect_garbage | `MC_Services_conngarbage.cfg` | `ValidConnectUpdates` | the uninitialised reply code of `srv_connect` skips a valid CONNECT (`services.c:340`) |
| forged_push | `MC_Services_forged.cfg` | `NoForgedDelivery` | a flush reads a pending file readdir named before SEND wrote it; the failed READ is ignored and the client is pushed a message nobody sent (`dbms.c:43`, the uninitialised `pend_msg_entry` of `srv_connect`) |
| unreg_race | `MC_Services_unreg.cfg` | `TableHasEntry` | UNREGISTER's recursive delete races REGISTER's mkdir of the mailbox; rmdir fails with ENOTEMPTY and leaves a table without a userdata entry (`dbms.c:169`) |
| descriptor_leak | `MC_ConnQueue_fds.cfg` | `NoDescriptorLeak` | no service closes its client socket after a successful request (`server.c:84`); spec 4.1 and 9 name this leak |

### Bounds

- **Dispatcher:** 3 service threads, a 2-slot ring and 3 connections. This
  is enough for both cursors to wrap, for `main` to sleep on a full ring,
  for several threads to sleep on an empty one, and for a descriptor a
  thread frees to go to the next `accept`. Six descriptor numbers are
  enough that `accept` and `open` never run out. The lost-wakeup run
  needs only 2 threads: one stuck in `recv`, one asleep. The real ring is 10
  slots for 5 threads; the wake-up logic only depends on the 0/1 and
  C/C-1 edges, and those are reached.
- **Services:**
  - 2 users and 3 SEND tokens;
  - `IdMod = 3`, so a third SEND to one user wraps its id to 0;
  - 7 requests with one thread (4 with two threads), with the users
    reduced by symmetry; the pass run gives CONNECT well-formed ports, and
    the crash and flush runs open the unparsable one.
  
  These bounds cover: a send to a disconnected user, a CONNECT that drains
  it, a failed push that forces a disconnect, a reconnect, and UNREGISTER
  with mail pending. With two service threads the state space grows past
  five minutes at 7 requests. The races need only 4 requests, so the
  two-thread runs are violation runs.

- **Crash:** one shutdown, one thread, 4 requests; the shutdown can fall
  between any two store calls of any request, including between a create and
  its write.
- **Crash and liveness:** the same run checks both, with one thread, 3
  tokens and 4 requests. That is enough for a flush of two pending
  messages (register, two self-sends, connect).
- **Util:** `LongBits = 8`, `IntBits = 5` scale `long` and `int` down so that
  three characters reach overflow and the wrap of the cast; `BufSpace = 3`
  with four results reaches the truncation of an overlong line; read and
  write counts of 1 and 2 with `len` up to 3 reach short transfers.

### Fairness

- `ConnQueue` assumes weak fairness for each thread's steps. The scheduler
  runs any thread that can run.
- `Accept` gets no fairness, because clients need not connect.
- `Serve` is disabled for silent clients, because `recv` blocks without a
  timeout.
- `LiveSpec` of `Services` assumes weak fairness of `Busy(w)`: the steps of
  a thread that is inside a request. Each such step is a system call that
  returns (a store call, or a connect/send to a client, which fails rather
  than blocks when the client is gone). An idle thread's `StartRequest` gets
  no fairness, because clients need not send. The other `Services` runs
  check safety only.

## 4. Not modelled, and the plan

- **Descriptor exhaustion.** `ConnQueue` gives enough descriptor numbers
  that `accept` and `open` never fail. The server's exit when `accept`
  fails for lack of descriptors is not an action: it would end every
  behaviour of the refinement run. A request does at most one entry access
  in `ConnQueue`; what its store calls do is modelled in `Services`.
- **Byte-level partial writes.** `Util` checks that `write_bytes` loops over
  short writes, but in `DBMS` an entry is written in one step: a file cut
  short by a shutdown mid-write, which `read_entry` would accept as a whole
  record (`dbmsUtil.c:108-112`), is not reached.
- **Port parsing inside CONNECT.** `Services` keeps `portOk`, a choice,
  instead of calling `str_to_num`: the real `long` width is out of TLC's
  range, and `Util` checks the function on its own. The `(uint16_t)` cast at
  `services.c:342` is not checked: spec.md does not say which port strings
  CONNECT must refuse.
- **Reply contents:** `send_server_reply` is modelled as its one-byte
  `write_bytes` call; which code a reply carries is decided in `Services`.
- **Refinement with two service threads.** `ChatRefinement` is checked
  with one thread only. With two, the lost updates of the `ids_race` and
  `register_race` findings break any atomic view, and the state space is
  too large for a pass run.
- **Out of scope:**
  - in `Services`, `recv` failures, which only end a request (and close its
    socket, which `ConnQueue`'s `Serve` and `Reply` model as a choice);
  - I/O errors other than a missing file or a non-empty directory;
  - spurious condvar wake-ups, which the `while` loops tolerate;
  - the contents of ip/port, reduced to whether an endpoint exists (`ep`);
  - logging;
  - server startup (a shutdown is `Restart`);
  - the client program, which is not in `src/`.
