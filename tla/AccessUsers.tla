----------------------------- MODULE AccessUsers -----------------------------
(***************************************************************************)
(* One account of access_users and the operator's desk that changes it:    *)
(* server/src/access/users.js behind server/src/admin/handlers.js, with    *)
(* the web page that sends the changes, web/app/admin/users/UsersDesk.tsx. *)
(*                                                                         *)
(* A handler is a slot: each awaited query is a step, and the steps of     *)
(* handlers in different slots interleave.  No query runs in a             *)
(* transaction.  The sessions that a change revokes are here too; what     *)
(* creates them is in AdminSessions and RemoteLogin.                       *)
(*                                                                         *)
(* The columns that hold one of two words are BOOLEAN: admin is            *)
(* user_type = 'admin', selected is device_scope_mode = 'selected'.  The   *)
(* desk never changes the email, and neither does this module.             *)
(*                                                                         *)
(* An operator Op_Variant, above Op, is a plausible wrong version of Op.   *)
(* No specification uses it: PROJECT.json names the property it breaks.    *)
(***************************************************************************)
EXTENDS Naturals, Sequences, FiniteSets

CONSTANTS
  Slots,         \* request handlers that can be running at one time
  Devices,       \* devices a scope can name
  Fields,        \* the columns this instance's desk changes
  MaxRequests,   \* bound on the requests of a behaviour
  MaxFaults      \* bound on failed queries, lost answers and restarts

ASSUME BoundsAssumption ==
  /\ MaxRequests \in Nat /\ MaxFaults \in Nat /\ IsFiniteSet(Slots)
  /\ Fields \subseteq {"admin", "active", "remote", "selected"}

VARIABLES
  user,            \* the row of access_users, NoUser without one
  scope,           \* device_id of its rows in user_device_scopes
  adminSessions,   \* rows of admin_sessions, oldest first
  remoteSessions,  \* rows of remote_access_sessions, oldest first
  req,             \* what each slot is doing
  (* bookkeeping *)
  asked,           \* requests so far
  faults,          \* faults so far
  wanted,          \* device ids of the scope written last
  overlapped       \* two changes of the row were under way at one time

deskVars == <<user, scope, wanted>>
bookVars == <<asked, faults, overlapped>>
userVars == <<deskVars, adminSessions, remoteSessions, req, bookVars>>

-----------------------------------------------------------------------------
(* pw counts the passwords the account has had. *)
Row == [admin: BOOLEAN, active: BOOLEAN, remote: BOOLEAN, selected: BOOLEAN,
        pw: 0..(MaxRequests + 1)]

NoUser == [admin |-> FALSE, active |-> FALSE, remote |-> FALSE,
           selected |-> FALSE, pw |-> 0]

(* from is the session a rotation started from (rotated_from), 0 for a login. *)
(* pw is the password of that login.  late: the session was inserted by a     *)
(* request that had begun before the latest revocation, or descends from one. *)
Session == [state: {"active", "revoked", "expired"}, from: Nat, pw: Nat, late: BOOLEAN]

DeskRequest ==
  [kind: {"create", "patch", "reset", "revoke"},
   pc: {"insertUser", "merge", "update", "clear", "insert", "reread",
        "password", "revokeAdmin", "revokeRemote"},
   field: Fields \cup {"none"}, value: BOOLEAN, ids: SUBSET Devices,
   wasAdmin: BOOLEAN, image: Row, todo: SUBSET Devices]

Idle == [kind |-> "idle"]

UsersTypeOK ==
  /\ user \in Row
  /\ scope \subseteq Devices
  /\ adminSessions \in Seq(Session)
  /\ remoteSessions \in Seq(Session)
  /\ DOMAIN req = Slots
  /\ asked \in 0..MaxRequests
  /\ faults \in 0..MaxFaults
  /\ wanted \subseteq Devices
  /\ overlapped \in BOOLEAN

(* What the desk can create: an active account with its first password. *)
NewRow == {u \in Row : /\ u.active /\ u.pw = 1
                       /\ \A f \in {"admin", "selected"} \ Fields : ~u[f]
                       /\ "remote" \in Fields \/ u.remote}

(* An account that has been there for a while, or none yet. *)
UsersInit ==
  /\ user \in {NoUser} \cup NewRow
  /\ scope \in {S \in SUBSET Devices : S # {} => user.selected}
  /\ req = [s \in Slots |-> Idle]
  /\ asked = 0 /\ faults = 0
  /\ wanted = scope
  /\ overlapped = FALSE

-----------------------------------------------------------------------------
Active(i, sessions) == i \in DOMAIN sessions /\ sessions[i].state = "active"

AllRevoked(sessions) ==
  [i \in DOMAIN sessions |->
     IF sessions[i].state = "active" THEN [sessions[i] EXCEPT !.state = "revoked"]
     ELSE sessions[i]]

Busy == {s \in Slots : req[s] # Idle}

(* What a request that makes sessions has read may be older than this moment. *)
Overtake(rs) == [t \in Slots |-> IF "late" \in DOMAIN rs[t] THEN [rs[t] EXCEPT !.late = TRUE]
                                ELSE rs[t]]

(* The devices the account can see. *)
Visible == IF user.selected THEN scope ELSE Devices

(* A request that looks at devices meanwhile may see these. *)
Widen(rs, ids) == [t \in Slots |-> IF "may" \in DOMAIN rs[t] THEN [rs[t] EXCEPT !.may = @ \cup ids]
                                   ELSE rs[t]]

(* A change that has written the row, or may still write it. *)
Changing(s) == req[s].kind \in {"create", "patch", "reset"}

(* Every request of every module starts so. *)
Begin(s, r) ==
  /\ req[s] = Idle /\ asked < MaxRequests
  /\ asked' = asked + 1
  /\ req' = [req EXCEPT ![s] = r]

At(s, kinds, pc) == req[s].kind \in kinds /\ req[s].pc = pc
Goto(s, pc) == req' = [req EXCEPT ![s].pc = pc]
Finish(s) == req' = [req EXCEPT ![s] = Idle]

DeskBegin(s, r) ==
  /\ Begin(s, r)
  /\ overlapped' = (overlapped \/ \E t \in Slots : Changing(t))
  /\ UNCHANGED <<deskVars, adminSessions, remoteSessions, faults>>

Desk(kind, pc, field, value, ids) ==
  [kind |-> kind, pc |-> pc, field |-> field, value |-> value, ids |-> ids,
   wasAdmin |-> user.admin, image |-> NoUser, todo |-> {}]

-----------------------------------------------------------------------------
(* The desk asks: POST, PATCH, reset-password and revoke-sessions.  A role  *)
(* change carries the typed confirmation, without which nothing happens.    *)

CreateBegin(s, row, ids) ==
  user = NoUser /\ DeskBegin(s, [Desk("create", "insertUser", "none", row.selected, ids)
                EXCEPT !.image = row])

PatchBegin(s, field, value, ids) ==
  user # NoUser /\ DeskBegin(s, Desk("patch", "merge", field, value, ids))

ResetBegin(s) ==
  user # NoUser /\ DeskBegin(s, Desk("reset", "password", "none", TRUE, {}))

RevokeBegin(s) ==
  user # NoUser /\ DeskBegin(s, Desk("revoke", "revokeAdmin", "none", TRUE, {}))

(* Device ids that come without the mode "selected" are ignored, and left out. *)
DeskStarts(s) ==
  \/ \E row \in NewRow, ids \in SUBSET Devices :
       (ids # {} => row.selected) /\ CreateBegin(s, row, ids)
  \/ \E f \in Fields, v \in BOOLEAN, ids \in SUBSET Devices :
       (ids # {} => f = "selected" /\ v) /\ PatchBegin(s, f, v, ids)
  \/ ResetBegin(s) \/ RevokeBegin(s)

-----------------------------------------------------------------------------
(* createAccessUser: the email is unique, so a second row is refused (409); *)
(* one that is there already when the request begins is not modelled.       *)
InsertUser(s) ==
  /\ At(s, {"create"}, "insertUser")
  /\ IF user = NoUser
       THEN /\ user' = req[s].image
            /\ wanted' = IF req[s].value THEN req[s].ids ELSE {}
            /\ Goto(s, "clear")
       ELSE UNCHANGED <<user, wanted>> /\ Finish(s)
  /\ UNCHANGED <<scope, adminSessions, remoteSessions, bookVars>>

(* updateAccessUser reads the row again and lays the change over it... *)
Merge(s) ==
  /\ At(s, {"patch"}, "merge")
  /\ req' = [req EXCEPT ![s].pc = "update",
                        ![s].image = [user EXCEPT ![req[s].field] = req[s].value]]
  /\ UNCHANGED <<deskVars, adminSessions, remoteSessions, bookVars>>

(* ...and writes every column but the password, those it did not mean to      *)
(* change as it read them.                                                    *)
Update(s) ==
  /\ At(s, {"patch"}, "update")
  /\ user' = [req[s].image EXCEPT !.pw = user.pw]
  /\ UNCHANGED <<scope, adminSessions, remoteSessions, bookVars>>
  /\ IF req[s].field = "selected"
       THEN /\ wanted' = IF req[s].value THEN req[s].ids ELSE {}
            /\ req' = Widen([req EXCEPT ![s].pc = "clear"], Visible')
       ELSE UNCHANGED wanted /\ req' = Widen([req EXCEPT ![s].pc = "reread"], Visible')

(* setDeviceScope: a DELETE, then one INSERT per device. *)
AfterScope(s, todo) ==
  req' = Widen(IF todo # {} THEN [req EXCEPT ![s].pc = "insert", ![s].todo = todo]
               ELSE IF req[s].kind = "create" THEN [req EXCEPT ![s] = Idle]
               ELSE [req EXCEPT ![s].pc = "reread", ![s].todo = {}], Visible')

Clear_NoDelete(s) ==
  /\ At(s, {"create", "patch"}, "clear")
  /\ scope' = scope
  /\ UNCHANGED <<user, wanted, adminSessions, remoteSessions, bookVars>>
  /\ AfterScope(s, IF req[s].value THEN req[s].ids ELSE {})

Clear(s) ==
  /\ At(s, {"create", "patch"}, "clear")
  /\ scope' = {}
  /\ UNCHANGED <<user, wanted, adminSessions, remoteSessions, bookVars>>
  /\ AfterScope(s, IF req[s].value THEN req[s].ids ELSE {})

InsertScope(s, d) ==
  /\ At(s, {"create", "patch"}, "insert") /\ d \in req[s].todo
  /\ scope' = scope \cup {d}
  /\ UNCHANGED <<user, wanted, adminSessions, remoteSessions, bookVars>>
  /\ AfterScope(s, req[s].todo \ {d})

(* Whether sessions are revoked depends on the row as it is now and on the    *)
(* role as it was when the handler began.                                     *)
Reread(s) ==
  /\ At(s, {"patch"}, "reread")
  /\ IF ~user.active \/ req[s].wasAdmin # user.admin \/ ~user.remote
       THEN Goto(s, "revokeAdmin") ELSE Finish(s)
  /\ UNCHANGED <<deskVars, adminSessions, remoteSessions, bookVars>>

SetPassword(s) ==
  /\ At(s, {"reset"}, "password")
  /\ user' = [user EXCEPT !.pw = @ + 1]
  /\ Goto(s, "revokeAdmin")
  /\ UNCHANGED <<scope, wanted, adminSessions, remoteSessions, bookVars>>

(* revokeUserSessions: one UPDATE per table. *)
RevokeAdmin_Skips(s) ==
  /\ At(s, {"patch", "reset", "revoke"}, "revokeAdmin")
  /\ adminSessions' = IF req[s].kind = "reset" THEN adminSessions
                      ELSE AllRevoked(adminSessions)
  /\ req' = Overtake([req EXCEPT ![s].pc = "revokeRemote"])
  /\ UNCHANGED <<deskVars, remoteSessions, bookVars>>

RevokeAdmin(s) ==
  /\ At(s, {"patch", "reset", "revoke"}, "revokeAdmin")
  /\ adminSessions' = AllRevoked(adminSessions)
  /\ req' = Overtake([req EXCEPT ![s].pc = "revokeRemote"])
  /\ UNCHANGED <<deskVars, remoteSessions, bookVars>>

RevokeRemote_Skips(s) ==
  /\ At(s, {"patch", "reset", "revoke"}, "revokeRemote")
  /\ remoteSessions' = IF user.active /\ user.remote THEN AllRevoked(remoteSessions)
                       ELSE remoteSessions
  /\ req' = Overtake([req EXCEPT ![s] = Idle])
  /\ UNCHANGED <<deskVars, adminSessions, bookVars>>

RevokeRemote(s) ==
  /\ At(s, {"patch", "reset", "revoke"}, "revokeRemote")
  /\ remoteSessions' = AllRevoked(remoteSessions)
  /\ req' = Overtake([req EXCEPT ![s] = Idle])
  /\ UNCHANGED <<deskVars, adminSessions, bookVars>>

(* A query of a desk request fails: the answer is a 500, and what has been *)
(* written stays.                                                          *)
DeskFails(s) ==
  /\ req[s].kind \in {"create", "patch", "reset", "revoke"}
  /\ faults < MaxFaults /\ faults' = faults + 1
  /\ Finish(s)
  /\ UNCHANGED <<deskVars, adminSessions, remoteSessions, asked, overlapped>>

DeskStep(s) ==
  \/ InsertUser(s) \/ Merge(s) \/ Update(s) \/ Clear(s)
  \/ \E d \in Devices : InsertScope(s, d)
  \/ Reread(s) \/ SetPassword(s) \/ RevokeAdmin(s) \/ RevokeRemote(s)

-----------------------------------------------------------------------------
(* Safety *)

(* Once every change of the scope has run to its end, none of them cut short  *)
(* and no two of them at one time, the rows of user_device_scopes are those   *)
(* the last one asked for: access/users.js:116 replaces them row by row, with *)
(* no transaction around the DELETE and the INSERTs.                          *)
ScopeAsAsked ==
  (faults = 0 /\ ~overlapped /\ ~\E s \in Slots : Changing(s)) => scope = wanted

(* The request may have changed the row and not revoked the sessions yet. *)
AboutToRevoke(s) ==
  /\ req[s].kind \in {"patch", "reset"}
  /\ req[s].pc \in {"clear", "insert", "reread", "revokeAdmin", "revokeRemote"}

Settled == faults = 0 /\ ~\E s \in Slots : AboutToRevoke(s)
=============================================================================
