------------------------------ MODULE Services ------------------------------
(***************************************************************************)
(* The protocol handler of src/services.c run by a pool of service        *)
(* threads over the store of DBMS, together with the delivery client      *)
(* (clt_send_message, clt_send_mess_ack) by which the server pushes        *)
(* messages and acknowledgements to the clients' listening threads.       *)
(*                                                                         *)
(* Each service thread runs one request at a time; every dbms call and    *)
(* every outbound push is one step, so the steps of concurrent requests   *)
(* interleave exactly where the code holds no lock (mutex_db is never     *)
(* taken).  A push succeeds only towards a stored endpoint, and may fail  *)
(* there too (client gone, connect or write error).                        *)
(***************************************************************************)
EXTENDS DBMS, Naturals, FiniteSets

CONSTANTS Workers,      \* service threads running requests
          MaxReqs,      \* bound on the number of requests served
          MaxCrashes,   \* bound on the number of shutdowns (SIGINT) and restarts
          RegStatus,    \* values the uninitialised entry.user.status of srv_register may hold
          SendGarbage,  \* values of send_msg_reply.server_error_code # SRV_SUCCESS (uninitialised)
          ConnGarbage,  \* values of "uninitialised reply code = SRV_ERR_CN_ANY" in srv_connect
          PortOk,       \* whether the port string a CONNECT carries parses (str_to_num)
          None          \* no request / no reply yet

ASSUME /\ RegStatus \subseteq Status /\ RegStatus # {}
       /\ SendGarbage \subseteq BOOLEAN /\ SendGarbage # {}
       /\ ConnGarbage \subseteq BOOLEAN /\ ConnGarbage # {}
       /\ PortOk \subseteq BOOLEAN /\ PortOk # {}
       /\ Tokens = 1..Cardinality(Tokens)

VARIABLES lc,           \* local state of each service thread
          inbox,        \* [Users -> set of messages pushed to that client]
          acks,         \* [Users -> set of ids acknowledged to that client]
          sendReq,      \* [Tokens -> [from, to] or None]: SEND requests made
          sendReply,    \* [Tokens -> [code, id, era] or None]: replies to them
          regOk,        \* [Users -> number of REGISTER replies SUCCESS]
          unregOk,      \* [Users -> number of UNREGISTER replies SUCCESS]
          discarded,    \* tokens whose pending file UNREGISTER removed
          reqs,         \* number of requests started
          crashes       \* number of server shutdowns and restarts

vars == <<dbVars, lc, inbox, acks, sendReq, sendReply, regOk, unregOk,
          discarded, reqs, crashes>>

Sent == Cardinality({t \in Tokens : sendReq[t] # None})
Codes == {"SUCCESS", "NOT_EXISTS", "ALREADY", "NOT_CN", "ANY"}
Msg == [id : Ids, sender : Users \cup {Junk}, tok : Tokens \cup {Junk}]
NoMsg == [id |-> 0, sender |-> Junk, tok |-> Junk]
PCs == {"idle", "reg_opendir", "reg_mkdir", "reg_create", "reg_mkmbox",
        "unreg_exists", "unreg_delete", "ur_next", "ur_mbox", "cn_read", "cn_modify", "fl_read",
        "fl_get", "fl_getread", "fl_push", "fl_del", "fl_ack", "fl_fail", "dcn_read",
        "dcn_modify", "snd_exists_s", "snd_exists_r", "snd_read", "snd_inc",
        "snd_push", "snd_dcn", "snd_store", "snd_reply", "snd_ack", "write"}
Files == {UdFile(u) : u \in Users} \cup {PendFile(u, i) : u \in Users, i \in Ids}
(* A descriptor opened for write_entry: the file, the entry to write, and  *)
(* whether the file is still linked (a write to an unlinked file is lost). *)
Fd == [file : Files, val : UserRec \cup MsgRec \cup {Junk}, live : BOOLEAN]
NoFd == [file |-> UdFile(CHOOSE u \in Users : TRUE), val |-> Junk, live |-> FALSE]
Local == [pc : PCs, u : Users, s : Users, tok : Tokens \cup {Junk},
          portOk : BOOLEAN, sEx : BOOLEAN, rentry : UserRec \cup {Junk},
          msg : Msg, code : Codes, wr : Fd, after : PCs,
          todo : SUBSET {"ud", "mbox"}, seen : SUBSET Ids]
Idle(w) == lc[w].pc = "idle"
(* The locals of a service thread between requests: what a finished      *)
(* request left in them is never read again.                               *)
IdleLocal == [pc |-> "idle", u |-> CHOOSE u \in Users : TRUE,
              s |-> CHOOSE u \in Users : TRUE, tok |-> Junk,
              portOk |-> TRUE, sEx |-> FALSE, rentry |-> Junk,
              msg |-> NoMsg, code |-> "SUCCESS", wr |-> NoFd, after |-> "idle",
              todo |-> {}, seen |-> {}]

TypeOK ==
    /\ DBTypeOK
    /\ lc \in [Workers -> Local]
    /\ inbox \in [Users -> SUBSET Msg]
    /\ acks \in [Users -> SUBSET Ids]
    /\ sendReq \in [Tokens -> [from : Users, to : Users] \cup {None}]
    /\ sendReply \in [Tokens -> [code : Codes, id : Ids, era : Nat] \cup {None}]
    /\ regOk \in [Users -> Nat] /\ unregOk \in [Users -> Nat]
    /\ discarded \subseteq Tokens
    /\ reqs \in 0..MaxReqs
    /\ crashes \in 0..MaxCrashes

Init ==
    /\ DBInit
    /\ lc = [w \in Workers |-> IdleLocal]
    /\ inbox = [u \in Users |-> {}]
    /\ acks = [u \in Users |-> {}]
    /\ sendReq = [t \in Tokens |-> None]
    /\ sendReply = [t \in Tokens |-> None]
    /\ regOk = [u \in Users |-> 0] /\ unregOk = [u \in Users |-> 0]
    /\ discarded = {}
    /\ reqs = 0
    /\ crashes = 0

(* aux_connect_clt_listen_thread + write: the outcomes of a push to the   *)
(* endpoint stored in a user record.                                       *)
PushOutcomes(rec) == IF rec.ep THEN BOOLEAN ELSE {FALSE}

(* Seeded faults for the helpers below (each must break a property).      *)
NextMsgIdNoWrap(id) == id + 1
NextMsgIdWrapEarly(id) == (id + 1) % (IdMod - 1)
PushFailedKeep(e) == e
StillConnectedAlways(e) == TRUE
NextMsgIdStale(id) == id

(* aux_send_init: the id of the next message to a user.                    *)
NextMsgId(id) == (id + 1) % IdMod

(* A failed push marks the recipient entry disconnected.                   *)
PushFailed(e) == [e EXCEPT !.status = "DCN"]

(* srv_send decides on the second ACK from the recipient entry as the     *)
(* push left it.                                                           *)
StillConnected(e) == e.status = "CN"

(* The tokens of the pending messages of u that are written out.          *)
PendingToks(u) == {pend[u][i].tok : i \in {j \in PendIds(u) : pend[u][j] # Empty}}

Goto(w, p) == lc' = IF p = "idle" THEN [lc EXCEPT ![w] = IdleLocal]
                                   ELSE [lc EXCEPT ![w].pc = p]

Obs == <<inbox, acks, sendReq, sendReply, regOk, unregOk, discarded, reqs, crashes>>

(* db_io_op_usr_ent(CREATE or MODIFY) has opened file f; write_entry of    *)
(* val is the thread's next step, after which the handler goes on at       *)
(* after.                                                                  *)
WriteThen(l, f, val, after) ==
    [l EXCEPT !.pc = "write", !.wr = [file |-> f, val |-> val, live |-> TRUE],
              !.after = after]

(* remove() of the files in gone: a thread about to write one of them     *)
(* writes to an unlinked inode.                                            *)
Unlink(l, gone) ==
    IF l.pc = "write" /\ l.wr.file \in gone THEN [l EXCEPT !.wr.live = FALSE] ELSE l

(* Thread w, whose locals become lw, removes the files in gone.            *)
UnlinkAll(w, lw, gone) ==
    lc' = [v \in Workers |-> IF v = w THEN lw ELSE Unlink(lc[v], gone)]

(* The messages lost with the pending files in gone: those written out and *)
(* those other threads are about to write.                                 *)
Dropped(gone) ==
    {pend[f.u][f.id].tok : f \in {f \in gone : f.kind = "pend" /\ pend[f.u][f.id] \notin {NoFile, Empty}}}
    \cup {lc[v].wr.val.tok : v \in {v \in Workers : lc[v].pc = "write" /\ lc[v].wr.file \in gone}}

-----------------------------------------------------------------------------
(* service_thread: a service thread takes a connection and receives a     *)
(* request.  Which request a client sends is the environment's choice.    *)
StartRequest(w) ==
    /\ Idle(w)
    /\ reqs < MaxReqs
    /\ reqs' = reqs + 1
    /\ \E u \in Users, s \in Users, ok \in PortOk, p \in {"reg_opendir",
              "unreg_exists", "cn_read", "dcn_read", "snd_exists_s"} :
         /\ lc' = [lc EXCEPT ![w] = [@ EXCEPT !.pc = p, !.u = u, !.s = s,
                       !.portOk = ok, !.msg = NoMsg, !.code = "SUCCESS",
                       !.tok = IF p = "snd_exists_s" THEN Sent + 1 ELSE Junk]]
         /\ IF p = "snd_exists_s"
            THEN /\ Sent < Cardinality(Tokens)
                 /\ sendReq' = [sendReq EXCEPT ![Sent + 1] = [from |-> s, to |-> u]]
            ELSE UNCHANGED sendReq
    /\ UNCHANGED <<dbVars, inbox, acks, sendReply, regOk, unregOk, discarded, crashes>>

-----------------------------------------------------------------------------
(* srv_register / db_creat_usr_tbl.  Only the first opendir can yield     *)
(* DBMS_ERR_EXISTS; every later failure is DBMS_ERR_ANY, which srv_register *)
(* replies to as SRV_SUCCESS.                                              *)
RegFinish(w, code) ==
    /\ Goto(w, "idle")
    /\ regOk' = IF code = "SUCCESS" THEN [regOk EXCEPT ![lc[w].u] = @ + 1]
                                   ELSE regOk

RegOpendirNoCheck(w) ==
    /\ lc[w].pc = "reg_opendir"
    /\ Goto(w, "reg_mkdir") /\ UNCHANGED regOk
    /\ UNCHANGED <<dbVars, inbox, acks, sendReq, sendReply, unregOk, discarded, reqs, crashes>>

RegOpendir(w) ==
    /\ lc[w].pc = "reg_opendir"
    /\ IF udir[lc[w].u] THEN RegFinish(w, "ALREADY")
       ELSE Goto(w, "reg_mkdir") /\ UNCHANGED regOk
    /\ UNCHANGED <<dbVars, inbox, acks, sendReq, sendReply, unregOk, discarded, reqs, crashes>>

RegMkdir(w) ==
    /\ lc[w].pc = "reg_mkdir"
    /\ IF udir[lc[w].u]
       THEN RegFinish(w, "SUCCESS") /\ UNCHANGED udir
       ELSE /\ udir' = [udir EXCEPT ![lc[w].u] = TRUE]
            /\ Goto(w, "reg_create") /\ UNCHANGED regOk
    /\ UNCHANGED <<ud, mdir, pend, inbox, acks, sendReq, sendReply, unregOk, discarded, reqs, crashes>>

RegCreate(w) ==
    /\ lc[w].pc = "reg_create"
    /\ IF CreateUserOk(lc[w].u)
       THEN /\ ud' = [ud EXCEPT ![lc[w].u] = Empty]
            /\ \E st \in RegStatus :
                 lc' = [lc EXCEPT ![w] = WriteThen(@, UdFile(lc[w].u),
                          [status |-> st, ep |-> FALSE, last |-> 0], "reg_mkmbox")]
            /\ UNCHANGED regOk
       ELSE RegFinish(w, "SUCCESS") /\ UNCHANGED ud
    /\ UNCHANGED <<udir, mdir, pend, inbox, acks, sendReq, sendReply, unregOk, discarded, reqs, crashes>>

RegMkmboxSkip(w) ==
    /\ lc[w].pc = "reg_mkmbox"
    /\ RegFinish(w, "SUCCESS")
    /\ UNCHANGED <<dbVars, inbox, acks, sendReq, sendReply, unregOk, discarded, reqs, crashes>>

RegMkmbox(w) ==
    /\ lc[w].pc = "reg_mkmbox"
    /\ mdir' = IF udir[lc[w].u] THEN [mdir EXCEPT ![lc[w].u] = TRUE] ELSE mdir
    /\ RegFinish(w, "SUCCESS")
    /\ UNCHANGED <<udir, ud, pend, inbox, acks, sendReq, sendReply, unregOk, discarded, reqs, crashes>>

(* srv_unregister: db_user_exists, then db_del_usr_tbl.                    *)
UnregExists(w) ==
    /\ lc[w].pc = "unreg_exists"
    /\ Goto(w, IF db_user_exists(lc[w].u) THEN "unreg_delete" ELSE "idle")
    /\ UNCHANGED <<dbVars, Obs>>

(* db_del_usr_tbl: remove_recursive of users/<u>-table.  opendir and the  *)
(* first readdir fix which of userdata.entry and pend_msgs-table the loop *)
(* visits, in either order; a name created later is not visited.           *)
UnregDelete(w) ==
    /\ lc[w].pc = "unreg_delete"
    /\ LET u == lc[w].u IN
       IF udir[u]
       THEN lc' = [lc EXCEPT ![w].pc = "ur_next",
                     ![w].todo = {x \in {"ud", "mbox"} :
                                    IF x = "ud" THEN ud[u] # NoFile ELSE mdir[u]}]
       ELSE Goto(w, "idle")
    /\ UNCHANGED <<dbVars, Obs>>

(* remove() of userdata.entry; a name already gone fails the whole delete. *)
UrRemoveEntry(w) ==
    /\ lc[w].pc = "ur_next" /\ "ud" \in lc[w].todo
    /\ LET u == lc[w].u IN
       IF ud[u] # NoFile
       THEN /\ ud' = [ud EXCEPT ![u] = NoFile]
            /\ UnlinkAll(w, [lc[w] EXCEPT !.todo = @ \ {"ud"}], {UdFile(u)})
       ELSE Goto(w, "idle") /\ UNCHANGED ud
    /\ UNCHANGED <<udir, mdir, pend, Obs>>

(* The recursive call on pend_msgs-table: opendir and the first readdir    *)
(* fix the message files the loop will remove.                             *)
UrOpenMbox(w) ==
    /\ lc[w].pc = "ur_next" /\ "mbox" \in lc[w].todo
    /\ LET u == lc[w].u IN
       IF mdir[u] THEN lc' = [lc EXCEPT ![w].pc = "ur_mbox", ![w].seen = PendIds(u)]
       ELSE Goto(w, "idle")
    /\ UNCHANGED <<dbVars, Obs>>

(* remove() of one pending-message file the readdir returned.              *)
UrRemovePend(w) ==
    /\ lc[w].pc = "ur_mbox"
    /\ \E i \in lc[w].seen :
         LET u == lc[w].u IN
         IF pend[u][i] # NoFile
         THEN /\ pend' = [pend EXCEPT ![u][i] = NoFile]
              /\ discarded' = discarded \cup Dropped({PendFile(u, i)})
              /\ UnlinkAll(w, [lc[w] EXCEPT !.seen = @ \ {i}], {PendFile(u, i)})
         ELSE Goto(w, "idle") /\ UNCHANGED <<pend, discarded>>
    /\ UNCHANGED <<udir, ud, mdir, inbox, acks, sendReq, sendReply, regOk, unregOk, reqs, crashes>>

(* remove() (rmdir) of pend_msgs-table fails while it is not empty.        *)
UrRmdirMbox(w) ==
    /\ lc[w].pc = "ur_mbox" /\ lc[w].seen = {}
    /\ LET u == lc[w].u IN
       IF PendIds(u) = {}
       THEN /\ mdir' = [mdir EXCEPT ![u] = FALSE]
            /\ lc' = [lc EXCEPT ![w].pc = "ur_next", ![w].todo = @ \ {"mbox"}]
       ELSE Goto(w, "idle") /\ UNCHANGED mdir
    /\ UNCHANGED <<udir, ud, pend, Obs>>

(* remove() (rmdir) of the user table; UNREGISTER replies SRV_SUCCESS only *)
(* if it succeeds.                                                         *)
UrRmdirTable(w) ==
    /\ lc[w].pc = "ur_next" /\ lc[w].todo = {}
    /\ LET u == lc[w].u IN
       IF udir[u] /\ ud[u] = NoFile /\ ~mdir[u]
       THEN /\ udir' = [udir EXCEPT ![u] = FALSE]
            /\ unregOk' = [unregOk EXCEPT ![u] = @ + 1]
       ELSE UNCHANGED <<udir, unregOk>>
    /\ Goto(w, "idle")
    /\ UNCHANGED <<ud, mdir, pend, inbox, acks, sendReq, sendReply, regOk, discarded, reqs, crashes>>
-----------------------------------------------------------------------------
(* srv_connect.  Whatever the reply, the handler goes on to send the       *)
(* pending messages (aux_connect_send_pend_msgs).                          *)
CnRead(w) ==
    /\ lc[w].pc = "cn_read"
    /\ LET r == ReadUser(lc[w].u) IN
       \/ /\ r = NoFile
          /\ lc' = [lc EXCEPT ![w].code = "NOT_EXISTS", ![w].pc = "fl_read"]
       \/ /\ r = Empty
          /\ lc' = [lc EXCEPT ![w].code = "ANY", ![w].pc = "fl_read"]
       \/ /\ Readable(r) /\ r.status = "CN"
          /\ lc' = [lc EXCEPT ![w].code = "ALREADY", ![w].pc = "fl_read"]
       \/ /\ Readable(r) /\ r.status # "CN"
          \* str_to_num of the port fails, or the uninitialised reply code
          \* happens to equal SRV_ERR_CN_ANY: no update.
          /\ \E g \in ConnGarbage :
               IF ~lc[w].portOk \/ g
               THEN lc' = [lc EXCEPT ![w].code = "ANY", ![w].pc = "fl_read"]
               ELSE lc' = [lc EXCEPT ![w].rentry = r, ![w].pc = "cn_modify"]
    /\ UNCHANGED <<dbVars, Obs>>

CnModifyNoFlush(w) ==
    /\ lc[w].pc = "cn_modify"
    /\ LET u == lc[w].u IN
       IF ModifyOk(u)
       THEN /\ ud' = Truncated(u)
            /\ lc' = [lc EXCEPT ![w] = WriteThen(@, UdFile(u),
                        [lc[w].rentry EXCEPT !.status = "CN", !.ep = TRUE], "idle")]
       ELSE Goto(w, "idle") /\ UNCHANGED ud
    /\ UNCHANGED <<udir, mdir, pend, Obs>>

CnModify(w) ==
    /\ lc[w].pc = "cn_modify"
    /\ LET u == lc[w].u IN
       IF ModifyOk(u)
       THEN /\ ud' = Truncated(u)
            /\ lc' = [lc EXCEPT ![w] = WriteThen([@ EXCEPT !.code = "SUCCESS"], UdFile(u),
                        [lc[w].rentry EXCEPT !.status = "CN", !.ep = TRUE], "fl_read")]
       ELSE /\ lc' = [lc EXCEPT ![w].code = "NOT_EXISTS", ![w].pc = "fl_read"]
            /\ UNCHANGED ud
    /\ UNCHANGED <<udir, mdir, pend, Obs>>

(* aux_connect_send_pend_msgs: read the recipient entry, then loop:       *)
(* db_get_pend_msg, push, delete, acknowledge to the sender; a failed      *)
(* push marks the recipient disconnected and ends the flush.               *)
FlRead(w) ==
    /\ lc[w].pc = "fl_read"
    /\ LET r == ReadUser(lc[w].u) IN
       IF ~Readable(r) THEN Goto(w, "idle")
       ELSE lc' = [lc EXCEPT ![w].rentry = r, ![w].pc = "fl_get"]
    /\ UNCHANGED <<dbVars, Obs>>

FlGet(w) ==
    /\ lc[w].pc = "fl_get"
    /\ LET u == lc[w].u IN
       IF PendIds(u) = {} THEN Goto(w, "idle")
       ELSE \E i \in PendIds(u) : lc' = [lc EXCEPT ![w].pc = "fl_getread", ![w].msg.id = i]
    /\ UNCHANGED <<dbVars, Obs>>

FlGetReadIgnored(w) ==
    /\ lc[w].pc = "fl_getread"
    /\ lc' = [lc EXCEPT ![w].pc = "fl_push"]
    /\ UNCHANGED <<dbVars, Obs>>

(* db_get_pend_msg ignores the READ of the file readdir named: a file     *)
(* removed since, or not yet written, leaves the sender and content of    *)
(* the previous message (or junk) under the new id.                        *)
FlGetRead(w) ==
    /\ lc[w].pc = "fl_getread"
    /\ LET r == pend[lc[w].u][lc[w].msg.id] IN
       lc' = [lc EXCEPT ![w].pc = "fl_push",
                ![w].msg = IF Readable(r) THEN [@ EXCEPT !.sender = r.sender, !.tok = r.tok]
                           ELSE @]
    /\ UNCHANGED <<dbVars, Obs>>

(* clt_send_message re-reads the user entry it is given before pushing.    *)
FlPush(w) ==
    /\ lc[w].pc = "fl_push"
    /\ LET u == lc[w].u
           r == ReadUser(u)
           e == IF Readable(r) THEN r ELSE lc[w].rentry
       IN \E ok \in IF Readable(r) THEN PushOutcomes(r) ELSE {FALSE} :
            IF ok
            THEN /\ inbox' = [inbox EXCEPT ![u] = @ \cup {lc[w].msg}]
                 /\ lc' = [lc EXCEPT ![w].rentry = e, ![w].pc = "fl_del"]
            ELSE /\ lc' = [lc EXCEPT ![w].rentry = PushFailed(e),
                                     ![w].pc = "fl_fail"]
                 /\ UNCHANGED inbox
    /\ UNCHANGED <<dbVars, acks, sendReq, sendReply, regOk, unregOk, discarded, reqs, crashes>>

FlDel(w) ==
    /\ lc[w].pc = "fl_del"
    /\ pend' = PendAfterDelete(lc[w].u, lc[w].msg.id)
    /\ UnlinkAll(w, [lc[w] EXCEPT !.pc = "fl_ack"], {PendFile(lc[w].u, lc[w].msg.id)})
    /\ UNCHANGED <<udir, ud, mdir, Obs>>

(* clt_send_mess_ack to the listening thread of the message's sender.      *)
SendAck(s, id) ==
    LET r == IF s \in Users THEN ReadUser(s) ELSE NoFile IN
    \E ok \in IF Readable(r) THEN PushOutcomes(r) ELSE {FALSE} :
        acks' = IF ok THEN [acks EXCEPT ![s] = @ \cup {id}] ELSE acks

FlAck(w) ==
    /\ lc[w].pc = "fl_ack"
    /\ SendAck(lc[w].msg.sender, lc[w].msg.id)
    /\ Goto(w, "fl_get")
    /\ UNCHANGED <<dbVars, inbox, sendReq, sendReply, regOk, unregOk, discarded, reqs, crashes>>

FlFail(w) ==
    /\ lc[w].pc = "fl_fail"
    /\ IF ModifyOk(lc[w].u)
       THEN /\ ud' = Truncated(lc[w].u)
            /\ lc' = [lc EXCEPT ![w] = WriteThen(@, UdFile(lc[w].u), lc[w].rentry, "idle")]
       ELSE Goto(w, "idle") /\ UNCHANGED ud
    /\ UNCHANGED <<udir, mdir, pend, Obs>>

-----------------------------------------------------------------------------
(* srv_disconnect.                                                         *)
DcnRead(w) ==
    /\ lc[w].pc = "dcn_read"
    /\ LET r == ReadUser(lc[w].u) IN
       IF Readable(r) /\ r.status # "DCN"
       THEN lc' = [lc EXCEPT ![w].rentry = r, ![w].pc = "dcn_modify"]
       ELSE Goto(w, "idle")
    /\ UNCHANGED <<dbVars, Obs>>

DcnModify(w) ==
    /\ lc[w].pc = "dcn_modify"
    /\ IF ModifyOk(lc[w].u)
       THEN /\ ud' = Truncated(lc[w].u)
            /\ lc' = [lc EXCEPT ![w] = WriteThen(@, UdFile(lc[w].u),
                        [lc[w].rentry EXCEPT !.status = "DCN", !.ep = FALSE], "idle")]
       ELSE Goto(w, "idle") /\ UNCHANGED ud
    /\ UNCHANGED <<udir, mdir, pend, Obs>>
-----------------------------------------------------------------------------
(* srv_send.  aux_send_init checks both users and bumps the recipient's    *)
(* last_msg_id (read, then modify); aux_send_msg_pass pushes the message  *)
(* if the recipient was connected; the message is stored if the recipient *)
(* is (now) disconnected or send_msg_reply, never assigned, is not         *)
(* SRV_SUCCESS; the sender gets the reply and, if the recipient is still  *)
(* connected, a SEND_MESS_ACK carrying recipient_entry.user.last_msg_id.  *)
SendReply(w, code) ==
    sendReply' = [sendReply EXCEPT ![lc[w].tok] =
                    [code |-> code, id |-> lc[w].msg.id, era |-> unregOk[lc[w].u]]]

SndExistsS(w) ==
    /\ lc[w].pc = "snd_exists_s"
    /\ lc' = [lc EXCEPT ![w].sEx = db_user_exists(lc[w].s), ![w].pc = "snd_exists_r"]
    /\ UNCHANGED <<dbVars, Obs>>

SndExistsR(w) ==
    /\ lc[w].pc = "snd_exists_r"
    /\ IF lc[w].sEx /\ db_user_exists(lc[w].u)
       THEN Goto(w, "snd_read") /\ UNCHANGED sendReply
       ELSE Goto(w, "idle") /\ SendReply(w, "NOT_EXISTS")
    /\ UNCHANGED <<dbVars, inbox, acks, sendReq, regOk, unregOk, discarded, reqs, crashes>>

SndRead(w) ==
    /\ lc[w].pc = "snd_read"
    /\ LET r == ReadUser(lc[w].u) IN
       IF ~Readable(r)
       THEN Goto(w, "idle") /\ SendReply(w, "ANY")
       ELSE lc' = [lc EXCEPT ![w].rentry = r, ![w].pc = "snd_inc"]
            /\ UNCHANGED sendReply
    /\ UNCHANGED <<dbVars, inbox, acks, sendReq, regOk, unregOk, discarded, reqs, crashes>>

SndIncPushAlways(w) ==
    /\ lc[w].pc = "snd_inc"
    /\ LET u == lc[w].u
           e == [lc[w].rentry EXCEPT !.last = NextMsgId(@)]
       IN IF ~ModifyOk(u)
          THEN Goto(w, "idle") /\ SendReply(w, "ANY") /\ UNCHANGED ud
          ELSE /\ ud' = Truncated(u)
               /\ lc' = [lc EXCEPT ![w] = WriteThen([@ EXCEPT !.rentry = e,
                          !.msg = [id |-> e.last, sender |-> lc[w].s, tok |-> lc[w].tok]],
                          UdFile(u), e, "snd_push")]
               /\ UNCHANGED sendReply
    /\ UNCHANGED <<udir, mdir, pend, inbox, acks, sendReq, regOk, unregOk, discarded, reqs, crashes>>

(* Write back the incremented last_msg_id; the message takes that id.     *)
SndInc(w) ==
    /\ lc[w].pc = "snd_inc"
    /\ LET u == lc[w].u
           e == [lc[w].rentry EXCEPT !.last = NextMsgId(@)]
       IN IF ~ModifyOk(u)
          THEN Goto(w, "idle") /\ SendReply(w, "ANY") /\ UNCHANGED ud
          ELSE /\ ud' = Truncated(u)
               /\ lc' = [lc EXCEPT ![w] = WriteThen([@ EXCEPT !.rentry = e,
                          !.msg = [id |-> e.last, sender |-> lc[w].s, tok |-> lc[w].tok]],
                          UdFile(u), e, IF e.status = "CN" THEN "snd_push" ELSE "snd_store")]
               /\ UNCHANGED sendReply
    /\ UNCHANGED <<udir, mdir, pend, inbox, acks, sendReq, regOk, unregOk, discarded, reqs, crashes>>

(* clt_send_message, which re-reads recipient_entry before pushing.        *)
SndPush(w) ==
    /\ lc[w].pc = "snd_push"
    /\ LET u == lc[w].u
           r == ReadUser(u)
           e == IF Readable(r) THEN r ELSE lc[w].rentry
       IN \E ok \in IF Readable(r) THEN PushOutcomes(r) ELSE {FALSE} :
            IF ok
            THEN /\ inbox' = [inbox EXCEPT ![u] = @ \cup {lc[w].msg}]
                 /\ lc' = [lc EXCEPT ![w].rentry = e, ![w].pc = "snd_store"]
            ELSE /\ lc' = [lc EXCEPT ![w].rentry = PushFailed(e),
                                     ![w].pc = "snd_dcn"]
                 /\ UNCHANGED inbox
    /\ UNCHANGED <<dbVars, acks, sendReq, sendReply, regOk, unregOk, discarded, reqs, crashes>>

(* The push failed: write the recipient back as disconnected.              *)
SndDcn(w) ==
    /\ lc[w].pc = "snd_dcn"
    /\ IF ModifyOk(lc[w].u)
       THEN /\ ud' = Truncated(lc[w].u)
            /\ lc' = [lc EXCEPT ![w] = WriteThen(@, UdFile(lc[w].u), lc[w].rentry, "snd_store")]
       ELSE /\ lc' = [lc EXCEPT ![w].pc = "snd_store", ![w].code = "ANY"]
            /\ UNCHANGED ud
    /\ UNCHANGED <<udir, mdir, pend, Obs>>

(* Store the message as a pending file if needed.                          *)
SndStore(w) ==
    /\ lc[w].pc = "snd_store"
    /\ \E garbage \in SendGarbage :
         LET u == lc[w].u
             m == lc[w].msg
         IN IF lc[w].rentry.status = "DCN" \/ garbage
            THEN IF CreatePendOk(u, m.id)
                 THEN /\ pend' = [pend EXCEPT ![u][m.id] = Empty]
                      /\ lc' = [lc EXCEPT ![w] = WriteThen(@, PendFile(u, m.id),
                                  [sender |-> m.sender, tok |-> m.tok], "snd_reply")]
                 ELSE /\ lc' = [lc EXCEPT ![w].code = "ANY", ![w].pc = "snd_reply"]
                      /\ UNCHANGED pend
            ELSE Goto(w, "snd_reply") /\ UNCHANGED pend
    /\ UNCHANGED <<udir, ud, mdir, Obs>>

(* Reply to the sender (aux_send_first_ack), and go on to the second ACK  *)
(* if the recipient still reads connected.                                 *)
SndReply(w) ==
    /\ lc[w].pc = "snd_reply"
    /\ SendReply(w, lc[w].code)
    /\ Goto(w, IF StillConnected(lc[w].rentry) THEN "snd_ack" ELSE "idle")
    /\ UNCHANGED <<dbVars, inbox, acks, sendReq, regOk, unregOk, discarded, reqs, crashes>>

SndAck(w) ==
    /\ lc[w].pc = "snd_ack"
    /\ SendAck(lc[w].s, lc[w].rentry.last)
    /\ Goto(w, "idle")
    /\ UNCHANGED <<dbVars, inbox, sendReq, sendReply, regOk, unregOk, discarded, reqs, crashes>>

-----------------------------------------------------------------------------
(* write_entry through the descriptor the previous step opened.           *)
WriteEntry(w) ==
    /\ lc[w].pc = "write"
    /\ IF lc[w].wr.live THEN WriteFile(lc[w].wr.file, lc[w].wr.val)
                        ELSE UNCHANGED <<ud, pend>>
    /\ lc' = IF lc[w].after = "idle" THEN [lc EXCEPT ![w] = IdleLocal]
             ELSE [lc EXCEPT ![w].pc = lc[w].after, ![w].wr = NoFd]
    /\ UNCHANGED <<udir, mdir, Obs>>

WorkerNext(w) ==
    \/ StartRequest(w)
    \/ RegOpendir(w) \/ RegMkdir(w) \/ RegCreate(w) \/ RegMkmbox(w)
    \/ UnregExists(w) \/ UnregDelete(w) \/ UrRemoveEntry(w) \/ UrOpenMbox(w)
    \/ UrRemovePend(w) \/ UrRmdirMbox(w) \/ UrRmdirTable(w)
    \/ CnRead(w) \/ CnModify(w)
    \/ FlRead(w) \/ FlGet(w) \/ FlGetRead(w) \/ FlPush(w) \/ FlDel(w) \/ FlAck(w) \/ FlFail(w)
    \/ DcnRead(w) \/ DcnModify(w)
    \/ SndExistsS(w) \/ SndExistsR(w) \/ SndRead(w) \/ SndInc(w)
    \/ SndPush(w) \/ SndDcn(w) \/ SndStore(w) \/ SndReply(w) \/ SndAck(w)
    \/ WriteEntry(w)

(* SIGINT: shutdown_server calls exit(0) whatever the service threads are *)
(* doing, and the next start (db_init_db, OVERWRITE) reopens the store as  *)
(* it is.  Entries opened and not yet written stay empty.                  *)
Restart ==
    /\ crashes < MaxCrashes
    /\ crashes' = crashes + 1
    /\ lc' = [w \in Workers |-> IdleLocal]
    /\ UNCHANGED <<dbVars, inbox, acks, sendReq, sendReply, regOk, unregOk, discarded, reqs>>

Next == (\E w \in Workers : WorkerNext(w)) \/ Restart

Spec == Init /\ [][Next]_vars

(* Every step of a started request is a file-system call or a push, and   *)
(* each returns: connect() and send() towards a vanished client fail at   *)
(* the latest when TCP gives up.  So a thread that is running a request   *)
(* keeps taking steps; clients, which start requests, need not.            *)
Busy(w) == ~Idle(w) /\ WorkerNext(w)
LiveSpec == Spec /\ \A w \in Workers : WF_vars(Busy(w))
-----------------------------------------------------------------------------
Accepted(t) == sendReply[t] # None /\ sendReply[t].code = "SUCCESS"
DeliveredToks(u) == {m.tok : m \in inbox[u]}


(* P4/P5, store-and-forward: a message whose SEND was answered SRV_SUCCESS *)
(* has reached its recipient's listening thread or sits in the           *)
(* recipient's pending table, unless UNREGISTER removed that table.  This *)
(* is what the push, the forced disconnect, the pending-file creation and *)
(* the flush on CONNECT must achieve together.                             *)
AcceptedNotLost ==
    \A t \in Tokens : Accepted(t) =>
        LET r == sendReq[t].to IN
        t \in DeliveredToks(r) \cup PendingToks(r) \cup discarded

(* P2: the ids that successful SENDs to one recipient report to their     *)
(* senders are distinct while that recipient stays registered: every SEND *)
(* reads, increments and writes back last_msg_id.                          *)
IdsDistinct ==
    \A t1, t2 \in Tokens :
        /\ t1 # t2 /\ Accepted(t1) /\ Accepted(t2)
        /\ sendReq[t1].to = sendReq[t2].to
        /\ sendReply[t1].era = sendReply[t2].era
        => sendReply[t1].id # sendReply[t2].id

(* A SEND_MESS_ACK tells a sender that its message with that id reached   *)
(* the recipient: every id acknowledged to s is the id of a message from  *)
(* s that some listening thread received.                                  *)
AckMatchesDelivery ==
    \A s \in Users : \A i \in acks[s] :
        \E r \in Users : \E m \in inbox[r] : m.sender = s /\ m.id = i

(* P6 with the SEND fallback: once no request is in progress, a user      *)
(* stored as connected has no pending messages: a successful CONNECT      *)
(* drains the table or marks the user disconnected, and a SEND to a      *)
(* connected user either reaches it or marks it disconnected and stores.  *)
ConnectedMailboxEmpty ==
    (\A w \in Workers : Idle(w)) =>
        \A u \in Users : Readable(ud[u]) /\ ud[u].status = "CN" => PendIds(u) = {}

(* P1: REGISTER answers SRV_SUCCESS for a name at most once until an     *)
(* UNREGISTER of it succeeds.                                             *)
RegisterUnique == \A u \in Users : regOk[u] <= unregOk[u] + 1

(* Spec section 3: a user table holds a user record and a mailbox exactly *)
(* while the user is registered.  Once no request is in progress, every   *)
(* users/<u>-table that db_user_exists sees has a readable               *)
(* userdata.entry and a pend_msgs-table: REGISTER creates all three and    *)
(* UNREGISTER's remove_recursive removes all three, or the user is left   *)
(* "existing" for SEND and UNREGISTER but unknown to CONNECT.             *)
TableHasEntry ==
    (\A w \in Workers : Idle(w)) =>
        \A u \in Users : udir[u] => Readable(ud[u]) /\ mdir[u]

(* A message the recipient's listening thread received is not also left  *)
(* pending once no request is in progress: SEND stores only what it did   *)
(* not deliver, and the flush deletes what it delivered.  Otherwise the   *)
(* next CONNECT delivers it again.                                         *)
DeliveredNotPending ==
    (\A w \in Workers : Idle(w)) =>
        \A u \in Users : DeliveredToks(u) \cap PendingToks(u) = {}

(* spec 4.2 CONNECT: when srv_connect reads the entry of a disconnected   *)
(* user and the port parses, it sets status=CONNECTED and persists it: no  *)
(* step leaves cn_read for the flush without trying the MODIFY.            *)
ValidConnectUpdates ==
    [][\A w \in Workers :
         (/\ lc[w].pc = "cn_read" /\ lc'[w].pc # "cn_read"
          /\ Readable(ud[lc[w].u]) /\ ud[lc[w].u].status # "CN" /\ lc[w].portOk)
         => lc'[w].pc = "cn_modify"]_vars

(* A client's listening thread receives only messages a SEND addressed   *)
(* to it: the flush pushes the sender and content of the pending file it  *)
(* names, never what an earlier turn, or the never-initialised             *)
(* pend_msg_entry of srv_connect, left in the buffer.                      *)
NoForgedDelivery ==
    \A u \in Users : \A m \in inbox[u] : m.tok \in Tokens /\ sendReq[m.tok].to = u

(* Every request a service thread starts ends and the thread returns to   *)
(* conn_q: in particular the flush loop of aux_connect_send_pend_msgs,     *)
(* which runs while db_get_pend_msg finds a file, terminates, because     *)
(* each turn removes the file it pushed or stops at a failed push.        *)
RequestsComplete == \A w \in Workers : ~Idle(w) ~> Idle(w)

-----------------------------------------------------------------------------
(* Refinement of ChatService, for one service thread and no shutdown.     *)
(* A file opened by CREATE or MODIFY and not yet written reads as the     *)
(* entry about to be written: the single atomic transfer per record of    *)
(* spec.md 4.4.  UNREGISTER takes effect when remove_recursive starts, a  *)
(* message the flush pushed leaves the mailbox with the push, and a       *)
(* SEND's token is accepted when its reply says SUCCESS.                   *)
Writing(w, f) == lc[w].pc = "write" /\ lc[w].wr.file = f /\ lc[w].wr.live

FileView(f, cur) ==
    IF \E w \in Workers : Writing(w, f)
    THEN lc[CHOOSE w \in Workers : Writing(w, f)].wr.val ELSE cur

UserView(u) == FileView(UdFile(u), ud[u])

Unregistering(u) == \E w \in Workers : lc[w].pc \in {"ur_next", "ur_mbox"} /\ lc[w].u = u

Registered == {u \in Users : udir[u] /\ ~Unregistering(u)}

ConnectedView == {u \in Registered : Readable(UserView(u)) /\ UserView(u).status = "CN"}

FlushPushed(u) == {lc[w].msg.tok : w \in {v \in Workers : lc[v].pc = "fl_del" /\ lc[v].u = u}}

MailboxView ==
    [u \in Users |->
        IF u \in Registered /\ mdir[u]
        THEN LET files == {FileView(PendFile(u, i), pend[u][i]) : i \in Ids}
             IN {f.tok : f \in {g \in files : Readable(g)}} \ FlushPushed(u)
        ELSE {}]

Chat == INSTANCE ChatService WITH
            registered <- Registered, connected <- ConnectedView,
            mailbox <- MailboxView, delivered <- [u \in Users |-> DeliveredToks(u)],
            requests <- sendReq, accepted <- {t \in Tokens : Accepted(t)}

(* The protocol handler run one request at a time implements the atomic  *)
(* service of spec.md 4.2: every step either leaves the clients' view     *)
(* unchanged or is one of its operations, so that no message is pushed to  *)
(* a user that is not connected, stored for one that is, stored after it   *)
(* was pushed, or accepted without being pushed or stored.                 *)
ChatRefinement == Chat!ChatSpec
====
