---------------------------- MODULE ChatService ----------------------------
(***************************************************************************)
(* What the server promises its clients (spec.md sections 4.2, 4.2.1 and   *)
(* 8), with every service one atomic step and the store a set of records:  *)
(*                                                                         *)
(*   registered  the users with a record (REGISTER .. UNREGISTER);          *)
(*   connected   the registered users whose record says CONNECTED;         *)
(*   mailbox     the messages stored for a user and not yet delivered;      *)
(*   delivered   the messages pushed to a user's listening endpoint;       *)
(*   requests    the SEND requests clients have made, by content token;    *)
(*   accepted    the SENDs answered SUCCESS.                               *)
(*                                                                         *)
(* A message is pushed at once to a connected recipient or stored for a   *)
(* disconnected one (P4, P5); stored messages reach a user only while it  *)
(* is connected, one flush step each (4.2.1); a failed push is seen only   *)
(* as the recipient becoming disconnected.  Ids and acknowledgements are  *)
(* not part of this view; Services checks them as invariants.             *)
(***************************************************************************)
CONSTANTS Users, Tokens, None

VARIABLES registered, connected, mailbox, delivered, requests, accepted

chatVars == <<registered, connected, mailbox, delivered, requests, accepted>>

ChatTypeOK ==
    /\ registered \subseteq Users
    /\ connected \subseteq registered
    /\ mailbox \in [Users -> SUBSET Tokens]
    /\ delivered \in [Users -> SUBSET Tokens]
    /\ requests \in [Tokens -> [from : Users, to : Users] \cup {None}]
    /\ accepted \subseteq Tokens

ChatInit ==
    /\ registered = {} /\ connected = {}
    /\ mailbox = [u \in Users |-> {}] /\ delivered = [u \in Users |-> {}]
    /\ requests = [t \in Tokens |-> None]
    /\ accepted = {}

(* A client sends SEND with content t.                                     *)
Request(t, s, u) ==
    /\ requests[t] = None
    /\ requests' = [requests EXCEPT ![t] = [from |-> s, to |-> u]]
    /\ UNCHANGED <<registered, connected, mailbox, delivered, accepted>>

Register(u) ==
    /\ u \notin registered
    /\ registered' = registered \cup {u}
    /\ mailbox' = [mailbox EXCEPT ![u] = {}]
    /\ UNCHANGED <<connected, delivered, requests, accepted>>

(* The record and the whole mailbox go together.                           *)
Unregister(u) ==
    /\ u \in registered
    /\ registered' = registered \ {u}
    /\ connected' = connected \ {u}
    /\ mailbox' = [mailbox EXCEPT ![u] = {}]
    /\ UNCHANGED <<delivered, requests, accepted>>

Connect(u) ==
    /\ u \in registered \ connected
    /\ connected' = connected \cup {u}
    /\ UNCHANGED <<registered, mailbox, delivered, requests, accepted>>

(* DISCONNECT, or a failed push forcing the recipient DISCONNECTED.        *)
Disconnect(u) ==
    /\ u \in connected
    /\ connected' = connected \ {u}
    /\ UNCHANGED <<registered, mailbox, delivered, requests, accepted>>

(* The SEND with content t between two registered users, not yet pushed   *)
(* nor stored: it is pushed to a connected recipient, or stored for a     *)
(* disconnected one.                                                       *)
Fresh(t) ==
    /\ requests[t] # None
    /\ {requests[t].from, requests[t].to} \subseteq registered
    /\ t \notin delivered[requests[t].to] \cup mailbox[requests[t].to] \cup accepted

Push(t) ==
    LET u == requests[t].to IN
    /\ Fresh(t) /\ u \in connected
    /\ delivered' = [delivered EXCEPT ![u] = @ \cup {t}]
    /\ UNCHANGED <<registered, connected, mailbox, requests, accepted>>

Store(t) ==
    LET u == requests[t].to IN
    /\ Fresh(t) /\ u \notin connected
    /\ mailbox' = [mailbox EXCEPT ![u] = @ \cup {t}]
    /\ UNCHANGED <<registered, connected, delivered, requests, accepted>>

(* One step of the flush that follows a successful CONNECT.                *)
Flush(u, t) ==
    /\ u \in connected /\ t \in mailbox[u]
    /\ mailbox' = [mailbox EXCEPT ![u] = @ \ {t}]
    /\ delivered' = [delivered EXCEPT ![u] = @ \cup {t}]
    /\ UNCHANGED <<registered, connected, requests, accepted>>

(* SUCCESS to the sender of a message that was pushed or stored.           *)
Accept(t) ==
    /\ requests[t] # None /\ t \notin accepted
    /\ t \in delivered[requests[t].to] \cup mailbox[requests[t].to]
    /\ accepted' = accepted \cup {t}
    /\ UNCHANGED <<registered, connected, mailbox, delivered, requests>>

ChatNext ==
    \/ \E t \in Tokens, s, u \in Users : Request(t, s, u)
    \/ \E u \in Users : Register(u) \/ Unregister(u) \/ Connect(u) \/ Disconnect(u)
    \/ \E t \in Tokens : Push(t) \/ Store(t) \/ Accept(t)
    \/ \E u \in Users, t \in Tokens : Flush(u, t)

ChatSpec == ChatInit /\ [][ChatNext]_chatVars
=============================================================================
