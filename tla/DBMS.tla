-------------------------------- MODULE DBMS --------------------------------
(***************************************************************************)
(* The persistence store of src/dbms: a directory tree                     *)
(*   users/<u>-table/userdata.entry          one fixed-size user record    *)
(*   users/<u>-table/pend_msgs-table/<id>    one file per pending message  *)
(* Each file is modelled by its content, NoFile, or Empty: CREATE and     *)
(* MODIFY open the file (O_CREAT|O_EXCL or O_TRUNC) and write the entry_t  *)
(* with a later write(), and a file read in between holds no bytes.  A     *)
(* directory is modelled by whether it exists.  The operators below give  *)
(* the result of each dbms call and the file-system state it leaves.      *)
(***************************************************************************)
EXTENDS Naturals, FiniteSets

CONSTANTS Users,      \* usernames
          Tokens,     \* message contents, one per SEND request
          IdMod,      \* MSG_ID_MAX_VALUE: ids are kept modulo this value
          Junk,       \* a value read from uninitialised memory
          NoFile,     \* the content of a file that does not exist
          Empty       \* the content of a file opened but not yet written

VARIABLES udir,       \* [Users -> BOOLEAN]   users/<u>-table exists
          ud,         \* [Users -> UserRec \cup {NoFile}]  userdata.entry
          mdir,       \* [Users -> BOOLEAN]   pend_msgs-table exists
          pend        \* [Users -> [Ids -> MsgRec \cup {NoFile}]]

dbVars == <<udir, ud, mdir, pend>>

Ids == 0..IdMod-1

(* struct userdata: status is STATUS_CN, STATUS_DCN or, when never        *)
(* initialised, some other byte; ep says whether ip/port name a listening  *)
(* endpoint; last is last_msg_id.                                          *)
Status == {"CN", "DCN", "JUNK"}
UserRec == [status : Status, ep : BOOLEAN, last : Ids]
(* message_t as stored in a pending-message file (the id is its name).    *)
MsgRec == [sender : Users, tok : Tokens]

DBTypeOK ==
    /\ udir \in [Users -> BOOLEAN]
    /\ ud \in [Users -> UserRec \cup {NoFile, Empty}]
    /\ mdir \in [Users -> BOOLEAN]
    /\ pend \in [Users -> [Ids -> MsgRec \cup {NoFile, Empty}]]

NoPend == [i \in Ids |-> NoFile]

(* db_init_db: an empty users directory.                                   *)
DBInit ==
    /\ udir = [u \in Users |-> FALSE]
    /\ ud = [u \in Users |-> NoFile]
    /\ mdir = [u \in Users |-> FALSE]
    /\ pend = [u \in Users |-> NoPend]

(* db_user_exists: opendir of the user table.                              *)
db_user_exists(u) == udir[u]

(* db_io_op_usr_ent(READ) on a user entry: the record; NoFile when open() *)
(* fails with ENOENT (DBMS_ERR_NOT_EXISTS); Empty when read_entry reads no *)
(* bytes (DBMS_ERR_ANY, the entry_t left as it was).                       *)
ReadUser(u) == ud[u]
Readable(r) == r \notin {NoFile, Empty}

(* db_io_op_usr_ent(MODIFY): open(O_WRONLY|O_TRUNC) fails with ENOENT when *)
(* the entry is gone; otherwise it empties the file, and write_entry fills *)
(* it in a later step.                                                     *)
ModifyOk(u) == ud[u] # NoFile
Truncated(u) == [ud EXCEPT ![u] = Empty]

(* db_io_op_usr_ent(CREATE) on a user entry: open(O_CREAT|O_EXCL) fails   *)
(* when the table directory is missing or the entry already exists.       *)
CreateUserOk(u) == udir[u] /\ ud[u] = NoFile

(* db_io_op_usr_ent(CREATE) on pending message id of u.                    *)
CreatePendOk(u, id) == mdir[u] /\ pend[u][id] = NoFile

(* The files an open descriptor may write to.                            *)
UdFile(u) == [kind |-> "ud", u |-> u, id |-> 0]
PendFile(u, id) == [kind |-> "pend", u |-> u, id |-> id]

(* write_entry through a descriptor opened earlier: the file takes the     *)
(* whole entry_t.                                                          *)
WriteFile(f, val) ==
    IF f.kind = "ud" THEN ud' = [ud EXCEPT ![f.u] = val] /\ UNCHANGED pend
    ELSE pend' = [pend EXCEPT ![f.u][f.id] = val] /\ UNCHANGED ud

(* db_get_pend_msg: the ids readdir may return first; failure to open the *)
(* table and an empty table both end the caller's loop.                    *)
PendIds(u) == IF mdir[u] THEN {i \in Ids : pend[u][i] # NoFile} ELSE {}

(* Seeded fault: the delete leaves the file in place.                     *)
PendAfterDeleteNoop(u, id) == pend

(* db_io_op_usr_ent(DELETE) of a pending message: remove_recursive on the *)
(* file; a file already gone gives NOT_EXISTS and changes nothing.         *)
PendAfterDelete(u, id) == [pend EXCEPT ![u][id] = NoFile]

=============================================================================
