-------------------------- MODULE AccessUsersProofs --------------------------
(***************************************************************************)
(* What the desk does to an account, for any number of handlers, requests  *)
(* and faults: lemmas for the proofs about a module that puts the user's   *)
(* side next to the desk, as RemoteLogin does.  DeskOK, the part of an     *)
(* inductive invariant that is about the account, and ScopeKept, the one   *)
(* about its device scope, are kept by every step of the desk, whatever    *)
(* the requests next to it are.                                            *)
(***************************************************************************)
EXTENDS AccessUsers, SequenceTheorems, FiniteSetTheorems, TLAPS

DeskKinds == {"create", "patch", "reset", "revoke"}

(* Sessions T are those of S, some of them ended. *)
Fewer(S, T) ==
  /\ Len(T) = Len(S)
  /\ \A i \in 1..Len(S) :
       /\ T[i].from = S[i].from /\ T[i].pw = S[i].pw /\ T[i].late = S[i].late
       /\ T[i].state = "active" => S[i].state = "active"

-----------------------------------------------------------------------------
(* Invariants *)

Known ==
  \A s \in Slots : /\ "kind" \in DOMAIN req[s]
                   /\ req[s].kind \in DeskKinds => req[s] \in DeskRequest

(* What a request of the desk may rely on. *)
Entitled(s) ==
  /\ req[s].kind \in {"patch", "reset", "revoke"} => user.pw # 0
  /\ req[s].kind = "create" => req[s].image \in NewRow

Resets == {s \in Slots : req[s].kind = "reset" /\ req[s].pc = "password"}

(* Every reset under way was asked for, and so was every one that is done. *)
Passwords ==
  /\ user.pw + Cardinality(Resets) <= asked + 1
  /\ user.pw = 0 => user = NoUser

DeskOK == UsersTypeOK /\ Known /\ (\A s \in Slots : Entitled(s)) /\ Passwords

(* A change that is replacing the scope. *)
Writing(s) == req[s].kind \in {"create", "patch"} /\ req[s].pc \in {"clear", "insert"}

(* The scope is the one asked for last, or what is missing is still to do. *)
ScopeKept ==
  faults = 0 /\ ~overlapped =>
    /\ \A s, t \in Slots : Changing(s) /\ Changing(t) => s = t
    /\ (~\E s \in Slots : Writing(s)) => scope = wanted
    /\ \A s \in Slots :
         /\ Writing(s) /\ req[s].pc = "clear"
              => wanted = IF req[s].value THEN req[s].ids ELSE {}
         /\ Writing(s) /\ req[s].pc = "insert" => scope \cup req[s].todo = wanted

-----------------------------------------------------------------------------
(* Rows *)

LEMMA RowsOf ==
  ASSUME NEW S \in Seq(Session)
  PROVE  /\ Len(S) \in Nat /\ DOMAIN S = 1..Len(S)
         /\ \A i \in 1..Len(S) : S[i] \in Session
BY ElementOfSeq, LenProperties

LEMMA StateOfRow ==
  ASSUME NEW r \in Session, NEW v \in {"revoked", "expired"}
  PROVE  /\ [r EXCEPT !.state = v] \in Session
         /\ [r EXCEPT !.state = v].state = v
         /\ [r EXCEPT !.state = v].from = r.from
         /\ [r EXCEPT !.state = v].pw = r.pw
         /\ [r EXCEPT !.state = v].late = r.late
BY DEF Session

LEMMA AllRevokedRows ==
  ASSUME NEW S \in Seq(Session)
  PROVE  /\ AllRevoked(S) \in Seq(Session)
         /\ Fewer(S, AllRevoked(S))
         /\ \A i \in 1..Len(S) : AllRevoked(S)[i].state # "active"
<1> DEFINE T == AllRevoked(S)
<1>1. /\ Len(S) \in Nat /\ DOMAIN S = 1..Len(S)
      /\ \A i \in 1..Len(S) : S[i] \in Session
  BY RowsOf
<1>2. T = [i \in 1..Len(S) |->
             IF S[i].state = "active" THEN [S[i] EXCEPT !.state = "revoked"] ELSE S[i]]
  BY <1>1 DEF AllRevoked
<1>3. ASSUME NEW i \in 1..Len(S)
      PROVE  /\ T[i] \in Session /\ T[i].state # "active"
             /\ T[i].from = S[i].from /\ T[i].pw = S[i].pw /\ T[i].late = S[i].late
  <2>0. S[i] \in Session
    BY <1>1
  <2>1. CASE S[i].state = "active"
    <3>1. T[i] = [S[i] EXCEPT !.state = "revoked"]
      BY <1>2, <2>1
    <3> HIDE DEF T
    <3>2. /\ [S[i] EXCEPT !.state = "revoked"] \in Session
          /\ [S[i] EXCEPT !.state = "revoked"].state = "revoked"
          /\ [S[i] EXCEPT !.state = "revoked"].from = S[i].from
          /\ [S[i] EXCEPT !.state = "revoked"].pw = S[i].pw
          /\ [S[i] EXCEPT !.state = "revoked"].late = S[i].late
      BY <2>0, StateOfRow
    <3> QED
      BY <3>1, <3>2
  <2>2. CASE S[i].state # "active"
    <3>1. T[i] = S[i]
      BY <1>2, <2>2
    <3> HIDE DEF T
    <3> QED
      BY <2>0, <2>2, <3>1
  <2> QED
    BY <2>1, <2>2
<1>4. T \in Seq(Session) /\ Len(T) = Len(S)
  BY <1>1, <1>2, <1>3, IsASeq
<1> QED
  BY <1>3, <1>4 DEF Fewer

LEMMA OneEnded ==
  ASSUME NEW S \in Seq(Session), NEW i \in 1..Len(S), NEW v \in {"revoked", "expired"}
  PROVE  /\ [S EXCEPT ![i].state = v] \in Seq(Session)
         /\ Fewer(S, [S EXCEPT ![i].state = v])
         /\ [S EXCEPT ![i].state = v][i].state # "active"
<1> DEFINE T == [S EXCEPT ![i].state = v]
<1>1. /\ Len(S) \in Nat /\ DOMAIN S = 1..Len(S)
      /\ \A j \in 1..Len(S) : S[j] \in Session
  BY RowsOf
<1>2. /\ T = [S EXCEPT ![i] = [S[i] EXCEPT !.state = v]]
      /\ [S[i] EXCEPT !.state = v] \in Session
  BY <1>1, StateOfRow
<1>3. T \in Seq(Session) /\ Len(T) = Len(S)
  BY <1>2, ExceptSeq
<1>4. \A j \in 1..Len(S) : T[j] = IF j = i THEN [S[i] EXCEPT !.state = v] ELSE S[j]
  BY <1>1, <1>2
<1>5. \A j \in 1..Len(S) :
        /\ T[j].from = S[j].from /\ T[j].pw = S[j].pw /\ T[j].late = S[j].late
        /\ T[j].state = "active" => S[j].state = "active"
  BY <1>1, <1>4, StateOfRow
<1>6. T[i].state # "active"
  BY <1>1, <1>4, StateOfRow
<1> QED
  BY <1>3, <1>5, <1>6 DEF Fewer

LEMMA SameRows ==
  ASSUME NEW S \in Seq(Session)
  PROVE  Fewer(S, S)
BY DEF Fewer

LEMMA OneMore ==
  ASSUME NEW S \in Seq(Session), NEW r \in Session
  PROVE  /\ Append(S, r) \in Seq(Session)
         /\ Len(Append(S, r)) = Len(S) + 1
         /\ Append(S, r)[Len(S) + 1] = r
         /\ \A i \in 1..Len(S) : Append(S, r)[i] = S[i]
BY AppendProperties
-----------------------------------------------------------------------------
(* Requests *)

(* A handler of the desk goes on with r, and the others stay, but for what *)
(* they must know of it.                                                   *)
Puts(s, r) == req' = [req EXCEPT ![s] = r]
PutsWidened(s, r) == req' = Widen([req EXCEPT ![s] = r], Visible')
PutsOvertaken(s, r) == req' = Overtake([req EXCEPT ![s] = r])
Becomes(s, r) == Puts(s, r) \/ PutsWidened(s, r) \/ PutsOvertaken(s, r)

LEMMA NoMarks ==
  /\ Idle.kind = "idle" /\ DOMAIN Idle = {"kind"}
  /\ \A r \in DeskRequest : /\ r.kind \in DeskKinds /\ "kind" \in DOMAIN r
                            /\ "late" \notin DOMAIN r /\ "may" \notin DOMAIN r
BY DEF Idle, DeskRequest, DeskKinds

LEMMA Becoming ==
  ASSUME DOMAIN req = Slots, Known, NEW s \in Slots, NEW r \in {Idle} \cup DeskRequest,
         Becomes(s, r)
  PROVE  /\ DOMAIN req' = Slots
         /\ req'[s] = r
         /\ \A t \in Slots \ {s} :
              /\ "kind" \in DOMAIN req'[t]
              /\ req'[t].kind = req[t].kind
              /\ req[t].kind \in DeskKinds => req'[t] = req[t]
<1> DEFINE rs == [req EXCEPT ![s] = r]
<1>1. DOMAIN rs = Slots /\ rs[s] = r /\ \A t \in Slots \ {s} : rs[t] = req[t]
  OBVIOUS
<1>2. "kind" \in DOMAIN r /\ "late" \notin DOMAIN r /\ "may" \notin DOMAIN r
  BY NoMarks
<1>3. CASE req' = rs
  BY <1>1, <1>3 DEF Known
<1>4. CASE req' = Widen(rs, Visible')
  <2> HIDE DEF rs
  <2>1. /\ DOMAIN req' = Slots
        /\ \A t \in Slots : req'[t] = IF "may" \in DOMAIN rs[t]
                                      THEN [rs[t] EXCEPT !.may = @ \cup Visible'] ELSE rs[t]
    BY <1>4 DEF Widen
  <2>2. req'[s] = r
    BY <1>1, <1>2, <2>1
  <2>3. ASSUME NEW t \in Slots \ {s}
        PROVE  /\ "kind" \in DOMAIN req'[t] /\ req'[t].kind = req[t].kind
               /\ req[t].kind \in DeskKinds => req'[t] = req[t]
    <3>1. "kind" \in DOMAIN req[t] /\ (req[t].kind \in DeskKinds => "may" \notin DOMAIN req[t])
      BY NoMarks DEF Known
    <3>2. req'[t] = req[t] \/ ("may" \in DOMAIN req[t]
                               /\ req'[t] = [req[t] EXCEPT !.may = @ \cup Visible'])
      BY <1>1, <2>1
    <3> QED
      BY <3>1, <3>2
  <2> QED
    BY <2>1, <2>2, <2>3
<1>5. CASE req' = Overtake(rs)
  <2> HIDE DEF rs
  <2>1. /\ DOMAIN req' = Slots
        /\ \A t \in Slots : req'[t] = IF "late" \in DOMAIN rs[t]
                                      THEN [rs[t] EXCEPT !.late = TRUE] ELSE rs[t]
    BY <1>5 DEF Overtake
  <2>2. req'[s] = r
    BY <1>1, <1>2, <2>1
  <2>3. ASSUME NEW t \in Slots \ {s}
        PROVE  /\ "kind" \in DOMAIN req'[t] /\ req'[t].kind = req[t].kind
               /\ req[t].kind \in DeskKinds => req'[t] = req[t]
    <3>1. "kind" \in DOMAIN req[t] /\ (req[t].kind \in DeskKinds => "late" \notin DOMAIN req[t])
      BY NoMarks DEF Known
    <3>2. req'[t] = req[t] \/ ("late" \in DOMAIN req[t]
                               /\ req'[t] = [req[t] EXCEPT !.late = TRUE])
      BY <1>1, <2>1
    <3> QED
      BY <3>1, <3>2
  <2> QED
    BY <2>1, <2>2, <2>3
<1> QED
  BY <1>3, <1>4, <1>5 DEF Becomes, Puts, PutsWidened, PutsOvertaken

(* A record of a request of the desk, further on. *)
LEMMA DeskRecord ==
  ASSUME NEW r \in DeskRequest,
         NEW p \in {"insertUser", "merge", "update", "clear", "insert", "reread",
                    "password", "revokeAdmin", "revokeRemote"},
         NEW todo \in SUBSET Devices, NEW image \in Row
  PROVE  /\ [r EXCEPT !.pc = p] \in DeskRequest /\ [r EXCEPT !.pc = p].pc = p
         /\ \A f \in {"kind", "field", "value", "ids", "wasAdmin", "image", "todo"} :
              [r EXCEPT !.pc = p][f] = r[f]
         /\ [r EXCEPT !.pc = p, !.todo = todo] \in DeskRequest
         /\ [r EXCEPT !.pc = p, !.todo = todo].pc = p
         /\ [r EXCEPT !.pc = p, !.todo = todo].todo = todo
         /\ \A f \in {"kind", "field", "value", "ids", "wasAdmin", "image"} :
              [r EXCEPT !.pc = p, !.todo = todo][f] = r[f]
         /\ [r EXCEPT !.pc = p, !.image = image] \in DeskRequest
         /\ [r EXCEPT !.pc = p, !.image = image].pc = p
         /\ \A f \in {"kind", "field", "value", "ids", "wasAdmin", "todo"} :
              [r EXCEPT !.pc = p, !.image = image][f] = r[f]
BY DEF DeskRequest

LEMMA DeskBasics ==
  ASSUME DeskOK, NEW s \in Slots
  PROVE  /\ req[s].kind \in DeskKinds => req[s] \in DeskRequest
         /\ \A r \in DeskRequest :
              /\ r.ids \subseteq Devices /\ r.todo \subseteq Devices
              /\ r.value \in BOOLEAN /\ r.image \in Row /\ r.wasAdmin \in BOOLEAN
              /\ r.field \in {"admin", "active", "remote", "selected", "none"}
         /\ Finish(s) => Puts(s, Idle)
         /\ \A p : Goto(s, p) => Puts(s, [req[s] EXCEPT !.pc = p])
<1>1. DOMAIN req = Slots
  BY DEF DeskOK, UsersTypeOK
<1>2. \A p : Goto(s, p) => Puts(s, [req[s] EXCEPT !.pc = p])
  BY <1>1 DEF Goto, Puts
<1>3. \A r \in DeskRequest :
              /\ r.ids \subseteq Devices /\ r.todo \subseteq Devices
              /\ r.value \in BOOLEAN /\ r.image \in Row /\ r.wasAdmin \in BOOLEAN
              /\ r.field \in {"admin", "active", "remote", "selected", "none"}
  BY BoundsAssumption DEF DeskRequest
<1> QED
  BY <1>2, <1>3 DEF Finish, Puts, DeskOK, Known

-----------------------------------------------------------------------------
(* What the steps of the desk do *)

LEMMA BeginShape ==
  ASSUME DeskOK, NEW s \in Slots, DeskStarts(s)
  PROVE  \E r \in DeskRequest :
           /\ DeskBegin(s, r) /\ Puts(s, r) /\ r.wasAdmin = user.admin
           /\ \/ r.kind = "create" /\ r.pc = "insertUser" /\ r.image \in NewRow
                 /\ user = NoUser
              \/ r.kind = "patch" /\ r.pc = "merge" /\ user # NoUser
              \/ r.kind = "reset" /\ r.pc = "password" /\ user # NoUser
              \/ r.kind = "revoke" /\ r.pc = "revokeAdmin" /\ user # NoUser
<1>0. /\ user.admin \in BOOLEAN /\ NoUser \in Row /\ {} \in SUBSET Devices
      /\ "none" \in Fields \cup {"none"} /\ TRUE \in BOOLEAN
  BY BoundsAssumption DEF DeskOK, UsersTypeOK, Row, NoUser
<1>1. \A r : DeskBegin(s, r) => Puts(s, r)
  BY DEF DeskBegin, Begin, Puts
<1>2. ASSUME NEW row \in NewRow, NEW ids \in SUBSET Devices, CreateBegin(s, row, ids)
      PROVE  \E r \in DeskRequest :
               /\ DeskBegin(s, r) /\ r.wasAdmin = user.admin /\ user = NoUser
               /\ r.kind = "create" /\ r.pc = "insertUser" /\ r.image \in NewRow
  <2> DEFINE r == [Desk("create", "insertUser", "none", row.selected, ids) EXCEPT !.image = row]
  <2>1. row \in Row /\ row.selected \in BOOLEAN
    BY DEF NewRow, Row
  <2>2. r \in DeskRequest /\ r.kind = "create" /\ r.image = row /\ r.pc = "insertUser"
        /\ r.wasAdmin = user.admin
    BY <1>0, <2>1 DEF Desk, DeskRequest
  <2>3. DeskBegin(s, r) /\ user = NoUser
    BY <1>2 DEF CreateBegin
  <2> HIDE DEF r
  <2> QED
    BY <2>2, <2>3
<1>3. ASSUME NEW f \in Fields, NEW v \in BOOLEAN, NEW ids \in SUBSET Devices,
             PatchBegin(s, f, v, ids)
      PROVE  \E r \in DeskRequest :
               /\ DeskBegin(s, r) /\ r.wasAdmin = user.admin
               /\ r.kind = "patch" /\ r.pc = "merge" /\ user # NoUser
  <2> DEFINE r == Desk("patch", "merge", f, v, ids)
  <2>1. r \in DeskRequest /\ r.kind = "patch" /\ r.pc = "merge" /\ r.wasAdmin = user.admin
    BY <1>0 DEF Desk, DeskRequest
  <2>2. DeskBegin(s, r) /\ user # NoUser
    BY <1>3 DEF PatchBegin
  <2> HIDE DEF r
  <2> QED
    BY <2>1, <2>2
<1>4. ASSUME ResetBegin(s) \/ RevokeBegin(s)
      PROVE  \E r \in DeskRequest :
               /\ DeskBegin(s, r) /\ r.wasAdmin = user.admin /\ user # NoUser
               /\ \/ r.kind = "reset" /\ r.pc = "password"
                  \/ r.kind = "revoke" /\ r.pc = "revokeAdmin"
  <2> DEFINE r1 == Desk("reset", "password", "none", TRUE, {})
             r2 == Desk("revoke", "revokeAdmin", "none", TRUE, {})
  <2>1. /\ r1 \in DeskRequest /\ r1.kind = "reset" /\ r1.pc = "password"
        /\ r1.wasAdmin = user.admin
        /\ r2 \in DeskRequest /\ r2.kind = "revoke" /\ r2.pc = "revokeAdmin"
        /\ r2.wasAdmin = user.admin
    BY <1>0 DEF Desk, DeskRequest
  <2>2. user # NoUser /\ (DeskBegin(s, r1) \/ DeskBegin(s, r2))
    BY <1>4 DEF ResetBegin, RevokeBegin
  <2> HIDE DEF r1, r2
  <2> QED
    BY <2>1, <2>2
<1> QED
  BY <1>1, <1>2, <1>3, <1>4 DEF DeskStarts

LEMMA InsertShape ==
  ASSUME DeskOK, NEW s \in Slots, InsertUser(s)
  PROVE  /\ req[s].kind = "create" /\ req[s].pc = "insertUser" /\ req[s] \in DeskRequest
         /\ UNCHANGED <<scope, adminSessions, remoteSessions, bookVars>>
         /\ \/ Puts(s, Idle) /\ user' = user /\ wanted' = wanted
            \/ /\ user = NoUser /\ user' = req[s].image
               /\ wanted' = IF req[s].value THEN req[s].ids ELSE {}
               /\ \E r \in DeskRequest :
                    /\ Puts(s, r)
                    /\ r.kind = "create" /\ r.pc = "clear" /\ r.image = req[s].image
                    /\ r.value = req[s].value /\ r.ids = req[s].ids
<1>1. /\ req[s].kind = "create" /\ req[s].pc = "insertUser" /\ req[s] \in DeskRequest
      /\ UNCHANGED <<scope, adminSessions, remoteSessions, bookVars>>
  BY DeskBasics DEF InsertUser, At, DeskKinds
<1>2. CASE user = NoUser
  <2> DEFINE r == [req[s] EXCEPT !.pc = "clear"]
  <2>1. /\ user' = req[s].image /\ wanted' = IF req[s].value THEN req[s].ids ELSE {}
        /\ Puts(s, r)
    BY <1>2, DeskBasics DEF InsertUser
  <2>2. /\ r \in DeskRequest /\ r.kind = "create" /\ r.pc = "clear"
        /\ r.image = req[s].image /\ r.value = req[s].value /\ r.ids = req[s].ids
    BY <1>1 DEF DeskRequest
  <2> HIDE DEF r
  <2> QED
    BY <1>1, <1>2, <2>1, <2>2
<1>3. CASE user # NoUser
  BY <1>1, <1>3, DeskBasics DEF InsertUser
<1> QED
  BY <1>2, <1>3

LEMMA MergeShape ==
  ASSUME DeskOK, NEW s \in Slots, Merge(s)
  PROVE  /\ req[s].kind = "patch" /\ req[s].pc = "merge" /\ req[s] \in DeskRequest
         /\ UNCHANGED <<deskVars, adminSessions, remoteSessions, bookVars>>
         /\ \E r \in DeskRequest :
              Puts(s, r) /\ r.kind = "patch" /\ r.pc = "update" /\ r.wasAdmin = req[s].wasAdmin
<1> DEFINE image == [user EXCEPT ![req[s].field] = req[s].value]
           r == [req[s] EXCEPT !.pc = "update", !.image = image]
<1>0. user \in Row /\ DOMAIN req = Slots
  BY DEF DeskOK, UsersTypeOK
<1>1. /\ req[s].kind = "patch" /\ req[s].pc = "merge" /\ req[s] \in DeskRequest
      /\ UNCHANGED <<deskVars, adminSessions, remoteSessions, bookVars>>
      /\ req' = [req EXCEPT ![s].pc = "update", ![s].image = image]
  BY DeskBasics DEF Merge, At, DeskKinds
<1>2. image \in Row
  <2>1. req[s].field \in {"admin", "active", "remote", "selected", "none"}
        /\ req[s].value \in BOOLEAN
    BY <1>1, DeskBasics
  <2> QED
    BY <1>0, <2>1 DEF Row
<1>3. req' = [req EXCEPT ![s] = r]
  BY <1>0, <1>1
<1> HIDE DEF image
<1>4. r \in DeskRequest /\ r.kind = "patch" /\ r.pc = "update" /\ r.wasAdmin = req[s].wasAdmin
  BY <1>1, <1>2 DEF DeskRequest
<1> HIDE DEF r
<1> QED
  BY <1>1, <1>3, <1>4 DEF Puts

LEMMA UpdateShape ==
  ASSUME DeskOK, NEW s \in Slots, Update(s)
  PROVE  /\ req[s].kind = "patch" /\ req[s].pc = "update" /\ req[s] \in DeskRequest
         /\ UNCHANGED <<scope, adminSessions, remoteSessions, bookVars>>
         /\ user' \in Row /\ user'.pw = user.pw
         /\ \E r \in DeskRequest :
              /\ PutsWidened(s, r) /\ r.kind = "patch" /\ r.wasAdmin = req[s].wasAdmin
              /\ r.value = req[s].value /\ r.ids = req[s].ids
              /\ \/ r.pc = "clear" /\ wanted' = IF req[s].value THEN req[s].ids ELSE {}
                 \/ r.pc = "reread" /\ wanted' = wanted
<1>0. user \in Row /\ DOMAIN req = Slots
  BY DEF DeskOK, UsersTypeOK
<1>1. /\ req[s].kind = "patch" /\ req[s].pc = "update" /\ req[s] \in DeskRequest
      /\ UNCHANGED <<scope, adminSessions, remoteSessions, bookVars>>
      /\ user' = [req[s].image EXCEPT !.pw = user.pw]
  BY DeskBasics DEF Update, At, DeskKinds
<1>2. user' \in Row /\ user'.pw = user.pw
  BY <1>0, <1>1 DEF DeskRequest, Row
<1> DEFINE rec(p) == [req[s] EXCEPT !.pc = p]
<1>3. \A p \in {"clear", "reread"} :
        /\ rec(p) \in DeskRequest /\ rec(p).kind = "patch" /\ rec(p).pc = p
        /\ rec(p).wasAdmin = req[s].wasAdmin
        /\ rec(p).value = req[s].value /\ rec(p).ids = req[s].ids
  BY <1>1 DEF DeskRequest
<1>4. \A p : [req EXCEPT ![s].pc = p] = [req EXCEPT ![s] = rec(p)]
  BY <1>0
<1>5. \/ /\ PutsWidened(s, rec("clear"))
         /\ wanted' = IF req[s].value THEN req[s].ids ELSE {}
      \/ PutsWidened(s, rec("reread")) /\ wanted' = wanted
  BY <1>4 DEF Update, PutsWidened
<1> HIDE DEF rec
<1> QED
  BY <1>1, <1>2, <1>3, <1>5

LEMMA AfterScopeShape ==
  ASSUME DeskOK, NEW s \in Slots, req[s] \in DeskRequest, NEW todo \in SUBSET Devices,
         AfterScope(s, todo)
  PROVE  \/ PutsWidened(s, Idle) /\ req[s].kind = "create" /\ todo = {}
         \/ \E r \in DeskRequest :
              /\ PutsWidened(s, r)
              /\ r.kind = req[s].kind /\ r.image = req[s].image /\ r.wasAdmin = req[s].wasAdmin
              /\ \/ r.pc = "insert" /\ r.todo = todo
                 \/ r.pc = "reread" /\ todo = {} /\ r.kind # "create"
<1> DEFINE r1 == [req[s] EXCEPT !.pc = "insert", !.todo = todo]
           r2 == [req[s] EXCEPT !.pc = "reread", !.todo = {}]
<1>0. DOMAIN req = Slots
  BY DEF DeskOK, UsersTypeOK
<1>1. /\ r1 \in DeskRequest /\ r1.kind = req[s].kind /\ r1.image = req[s].image
      /\ r1.pc = "insert" /\ r1.wasAdmin = req[s].wasAdmin /\ r1.todo = todo
      /\ r2 \in DeskRequest /\ r2.kind = req[s].kind /\ r2.image = req[s].image
      /\ r2.pc = "reread" /\ r2.wasAdmin = req[s].wasAdmin
  BY DEF DeskRequest
<1>2. \/ PutsWidened(s, r1)
      \/ PutsWidened(s, Idle) /\ req[s].kind = "create" /\ todo = {}
      \/ PutsWidened(s, r2) /\ req[s].kind # "create" /\ todo = {}
  BY <1>0 DEF AfterScope, PutsWidened
<1> HIDE DEF r1, r2
<1> QED
  BY <1>1, <1>2

(* A row of the scope goes or comes: what is there and what is to come stays, *)
(* or is what the request asks for.                                           *)
LEMMA ScopeShape ==
  ASSUME DeskOK, NEW s \in Slots, Clear(s) \/ \E d \in Devices : InsertScope(s, d)
  PROVE  /\ req[s].kind \in {"create", "patch"} /\ req[s].pc \in {"clear", "insert"}
         /\ req[s] \in DeskRequest
         /\ UNCHANGED <<user, wanted, adminSessions, remoteSessions, bookVars>>
         /\ \E todo \in SUBSET Devices :
              /\ scope' \subseteq Devices
              /\ scope' \cup todo = IF req[s].pc = "insert" THEN scope \cup req[s].todo
                                    ELSE IF req[s].value THEN req[s].ids ELSE {}
              /\ \/ PutsWidened(s, Idle) /\ req[s].kind = "create" /\ todo = {}
                 \/ \E r \in DeskRequest :
                      /\ PutsWidened(s, r)
                      /\ r.kind = req[s].kind /\ r.image = req[s].image
                      /\ r.wasAdmin = req[s].wasAdmin
                      /\ \/ r.pc = "insert" /\ r.todo = todo
                         \/ r.pc = "reread" /\ todo = {} /\ r.kind # "create"
<1>1. /\ req[s].kind \in {"create", "patch"} /\ req[s].pc \in {"clear", "insert"}
      /\ UNCHANGED <<user, wanted, adminSessions, remoteSessions, bookVars>>
  BY DEF Clear, InsertScope, At
<1>2. req[s] \in DeskRequest /\ scope \subseteq Devices
  BY <1>1, DeskBasics DEF DeskKinds, DeskOK, UsersTypeOK
<1>3. req[s].ids \in SUBSET Devices /\ req[s].todo \in SUBSET Devices
  BY <1>2 DEF DeskRequest
<1>4. PICK todo \in SUBSET Devices :
        /\ AfterScope(s, todo) /\ scope' \subseteq Devices
        /\ scope' \cup todo = IF req[s].pc = "insert" THEN scope \cup req[s].todo
                              ELSE IF req[s].value THEN req[s].ids ELSE {}
  <2>1. CASE Clear(s)
    <3> DEFINE todo == IF req[s].value THEN req[s].ids ELSE {}
    <3>1. todo \in SUBSET Devices
      BY <1>3
    <3>2. AfterScope(s, todo) /\ scope' = {} /\ req[s].pc = "clear"
      BY <2>1 DEF Clear, At
    <3> QED
      BY <3>1, <3>2
  <2>2. CASE \E d \in Devices : InsertScope(s, d)
    <3>1. PICK d \in Devices : InsertScope(s, d)
      BY <2>2
    <3>2. (req[s].todo \ {d}) \in SUBSET Devices /\ scope \cup {d} \subseteq Devices
      BY <1>2, <1>3
    <3>3. /\ AfterScope(s, req[s].todo \ {d}) /\ scope' = scope \cup {d}
          /\ d \in req[s].todo /\ req[s].pc = "insert"
      BY <3>1 DEF InsertScope, At
    <3>4. scope' \cup (req[s].todo \ {d}) = scope \cup req[s].todo
      BY <3>3
    <3> QED
      BY <3>2, <3>3, <3>4
  <2> QED
    BY <2>1, <2>2
<1>5. \/ PutsWidened(s, Idle) /\ req[s].kind = "create" /\ todo = {}
      \/ \E r \in DeskRequest :
           /\ PutsWidened(s, r)
           /\ r.kind = req[s].kind /\ r.image = req[s].image /\ r.wasAdmin = req[s].wasAdmin
           /\ \/ r.pc = "insert" /\ r.todo = todo
              \/ r.pc = "reread" /\ todo = {} /\ r.kind # "create"
  BY <1>2, <1>4, AfterScopeShape
<1> QED
  BY <1>1, <1>2, <1>4, <1>5

LEMMA RereadShape ==
  ASSUME DeskOK, NEW s \in Slots, Reread(s)
  PROVE  /\ req[s].kind = "patch" /\ req[s].pc = "reread" /\ req[s] \in DeskRequest
         /\ UNCHANGED <<deskVars, adminSessions, remoteSessions, bookVars>>
         /\ \/ Puts(s, Idle) /\ user.active /\ user.remote /\ req[s].wasAdmin = user.admin
            \/ \E r \in DeskRequest :
                 Puts(s, r) /\ r.kind = "patch" /\ r.pc = "revokeAdmin"
<1>1. /\ req[s].kind = "patch" /\ req[s].pc = "reread" /\ req[s] \in DeskRequest
      /\ UNCHANGED <<deskVars, adminSessions, remoteSessions, bookVars>>
      /\ \/ Goto(s, "revokeAdmin")
         \/ Finish(s) /\ user.active /\ user.remote /\ req[s].wasAdmin = user.admin
  BY DeskBasics DEF Reread, At, DeskKinds
<1> DEFINE r == [req[s] EXCEPT !.pc = "revokeAdmin"]
<1>2. r \in DeskRequest /\ r.kind = "patch" /\ r.pc = "revokeAdmin"
  BY <1>1 DEF DeskRequest
<1>3. /\ Goto(s, "revokeAdmin") => Puts(s, r)
      /\ Finish(s) => Puts(s, Idle)
  BY DeskBasics
<1> HIDE DEF r
<1> QED
  BY <1>1, <1>2, <1>3

LEMMA PasswordShape ==
  ASSUME DeskOK, NEW s \in Slots, SetPassword(s)
  PROVE  /\ req[s].kind = "reset" /\ req[s].pc = "password" /\ req[s] \in DeskRequest
         /\ UNCHANGED <<scope, wanted, adminSessions, remoteSessions, bookVars>>
         /\ user' = [user EXCEPT !.pw = @ + 1]
         /\ \E r \in DeskRequest :
              Puts(s, r) /\ r.kind = "reset" /\ r.pc = "revokeAdmin"
<1>1. /\ req[s].kind = "reset" /\ req[s].pc = "password" /\ req[s] \in DeskRequest
      /\ UNCHANGED <<scope, wanted, adminSessions, remoteSessions, bookVars>>
      /\ user' = [user EXCEPT !.pw = @ + 1] /\ Goto(s, "revokeAdmin")
  BY DeskBasics DEF SetPassword, At, DeskKinds
<1> DEFINE r == [req[s] EXCEPT !.pc = "revokeAdmin"]
<1>2. r \in DeskRequest /\ r.kind = "reset" /\ r.pc = "revokeAdmin"
  BY <1>1 DEF DeskRequest
<1>3. Puts(s, r)
  BY <1>1, DeskBasics
<1> HIDE DEF r
<1> QED
  BY <1>1, <1>2, <1>3

LEMMA RevokeShape ==
  ASSUME DeskOK, NEW s \in Slots, RevokeAdmin(s) \/ RevokeRemote(s)
  PROVE  /\ req[s].kind \in {"patch", "reset", "revoke"} /\ req[s] \in DeskRequest
         /\ UNCHANGED <<deskVars, bookVars>>
         /\ \/ /\ req[s].pc = "revokeRemote" /\ PutsOvertaken(s, Idle)
               /\ adminSessions' = adminSessions
               /\ remoteSessions' = AllRevoked(remoteSessions)
            \/ /\ req[s].pc = "revokeAdmin" /\ adminSessions' = AllRevoked(adminSessions)
               /\ remoteSessions' = remoteSessions
               /\ \E r \in DeskRequest :
                    PutsOvertaken(s, r) /\ r.kind = req[s].kind /\ r.pc = "revokeRemote"
<1>1. /\ req[s].kind \in {"patch", "reset", "revoke"} /\ req[s] \in DeskRequest
      /\ UNCHANGED <<deskVars, bookVars>>
  BY DeskBasics DEF RevokeAdmin, RevokeRemote, At, DeskKinds
<1>2. CASE RevokeRemote(s)
  BY <1>1, <1>2 DEF RevokeRemote, At, PutsOvertaken
<1>3. CASE RevokeAdmin(s)
  <2> DEFINE r == [req[s] EXCEPT !.pc = "revokeRemote"]
  <2>1. r \in DeskRequest /\ r.kind = req[s].kind /\ r.pc = "revokeRemote"
    BY <1>1 DEF DeskRequest
  <2>2. PutsOvertaken(s, r)
    BY <1>3 DEF RevokeAdmin, DeskOK, UsersTypeOK, PutsOvertaken
  <2>3. /\ adminSessions' = AllRevoked(adminSessions) /\ remoteSessions' = remoteSessions
        /\ req[s].pc = "revokeAdmin"
    BY <1>3 DEF RevokeAdmin, At
  <2> HIDE DEF r
  <2> QED
    BY <1>1, <2>1, <2>2, <2>3
<1> QED
  BY <1>2, <1>3

LEMMA FailsShape ==
  ASSUME DeskOK, NEW s \in Slots, DeskFails(s)
  PROVE  /\ req[s].kind \in DeskKinds /\ Puts(s, Idle) /\ faults' = faults + 1
         /\ faults' \in 0..MaxFaults /\ faults' # 0
         /\ UNCHANGED <<deskVars, adminSessions, remoteSessions, asked, overlapped>>
<1>1. faults \in 0..MaxFaults /\ MaxFaults \in Nat
  BY BoundsAssumption DEF DeskOK, UsersTypeOK
<1> QED
  BY <1>1, DeskBasics DEF DeskFails, DeskKinds

-----------------------------------------------------------------------------
(* The account stays in order *)

LEMMA Counted ==
  ASSUME NEW S, IsFiniteSet(S), NEW T, NEW x
  PROVE  /\ Cardinality(S) \in Nat
         /\ T \subseteq S => Cardinality(T) <= Cardinality(S) /\ Cardinality(T) \in Nat
         /\ x \in S /\ T \subseteq S \ {x}
              => Cardinality(T) <= Cardinality(S) - 1 /\ Cardinality(T) \in Nat
         /\ T \subseteq S \cup {x}
              => Cardinality(T) <= Cardinality(S) + 1 /\ Cardinality(T) \in Nat
<1>1. Cardinality(S) \in Nat
  BY FS_CardinalityType
<1>2. ASSUME T \subseteq S
      PROVE  Cardinality(T) <= Cardinality(S) /\ Cardinality(T) \in Nat
  BY <1>2, FS_Subset, FS_CardinalityType
<1>3. ASSUME x \in S, T \subseteq S \ {x}
      PROVE  Cardinality(T) <= Cardinality(S) - 1 /\ Cardinality(T) \in Nat
  <2>1. IsFiniteSet(S \ {x}) /\ Cardinality(S \ {x}) = Cardinality(S) - 1
    BY <1>3, FS_RemoveElement
  <2> QED
    BY <1>1, <1>3, <2>1, FS_Subset, FS_CardinalityType
<1>4. ASSUME T \subseteq S \cup {x}
      PROVE  Cardinality(T) <= Cardinality(S) + 1 /\ Cardinality(T) \in Nat
  <2>1. IsFiniteSet(S \cup {x}) /\ Cardinality(S \cup {x}) <= Cardinality(S) + 1
    <3>1. CASE x \in S
      <4>1. S \cup {x} = S
        BY <3>1
      <4>2. IsFiniteSet(S \cup {x}) /\ Cardinality(S \cup {x}) = Cardinality(S)
        BY <4>1, Zenon
      <4> QED
        BY <1>1, <4>2
    <3>2. CASE x \notin S
      <4>1. IsFiniteSet(S \cup {x}) /\ Cardinality(S \cup {x}) = Cardinality(S) + 1
        BY <3>2, FS_AddElement
      <4> QED
        BY <1>1, <4>1
    <3> QED
      BY <3>1, <3>2
  <2>2. Cardinality(S \cup {x}) \in Nat
    BY <2>1, FS_CardinalityType
  <2> QED
    BY <1>1, <1>4, <2>1, <2>2, FS_Subset, FS_CardinalityType
<1> QED
  BY <1>1, <1>2, <1>3, <1>4

LEMMA ResetsFinite == IsFiniteSet(Resets)
BY BoundsAssumption, FS_Subset DEF Resets

LEMMA SlotResets ==
  ASSUME DeskOK, NEW s \in Slots, NEW r \in {Idle} \cup DeskRequest, Becomes(s, r)
  PROVE  /\ Resets' \subseteq Resets \cup {s}
         /\ ~(r.kind = "reset" /\ r.pc = "password") => Resets' \subseteq Resets \ {s}
<1>0. DOMAIN req = Slots /\ Known
  BY DEF DeskOK, UsersTypeOK
<1>1. \A t \in Slots \ {s} : t \in Resets' => t \in Resets
  BY <1>0, Becoming DEF Resets, DeskKinds
<1>2. Resets' \subseteq Slots
  BY DEF Resets
<1>3. s \in Resets' => r.kind = "reset" /\ r.pc = "password"
  BY <1>0, Becoming DEF Resets
<1> QED
  BY <1>1, <1>2, <1>3

LEMMA SlotEntitled ==
  ASSUME DeskOK, NEW s \in Slots, NEW r \in {Idle} \cup DeskRequest, Becomes(s, r),
         user.pw # 0 => user'.pw # 0,
         r.kind \in {"patch", "reset", "revoke"} => user'.pw # 0,
         r.kind = "create" => r.image \in NewRow
  PROVE  /\ DOMAIN req' = Slots /\ Known' /\ (\A t \in Slots : Entitled(t)')
<1>0. DOMAIN req = Slots /\ Known /\ \A t \in Slots : Entitled(t)
  BY DEF DeskOK, UsersTypeOK
<1>1. /\ DOMAIN req' = Slots /\ req'[s] = r
      /\ \A t \in Slots \ {s} :
           /\ "kind" \in DOMAIN req'[t] /\ req'[t].kind = req[t].kind
           /\ req[t].kind \in DeskKinds => req'[t] = req[t]
  BY <1>0, Becoming
<1>2. NewRow' = NewRow /\ DeskRequest' = DeskRequest /\ DeskKinds' = DeskKinds
  BY DEF NewRow, Row, DeskRequest, DeskKinds
<1>3. "kind" \in DOMAIN r /\ (r.kind \in DeskKinds => r \in DeskRequest)
  BY NoMarks DEF DeskKinds
<1>4. Known'
  BY <1>0, <1>1, <1>2, <1>3 DEF Known
<1>5. \A t \in Slots : Entitled(t)'
  <2>1. Entitled(s)'
    BY <1>1, <1>2 DEF Entitled
  <2>2. ASSUME NEW t \in Slots \ {s}
        PROVE  Entitled(t)'
    BY <1>0, <1>1, <1>2, <2>2 DEF Entitled, DeskKinds
  <2> QED
    BY <2>1, <2>2
<1> QED
  BY <1>1, <1>4, <1>5

(* The account itself stays. *)
LEMMA SameAccount ==
  ASSUME DeskOK, NEW s \in Slots, NEW r \in {Idle} \cup DeskRequest, Becomes(s, r),
         ~(r.kind = "reset" /\ r.pc = "password"), user' = user,
         r.kind \in {"patch", "reset", "revoke"} => user.pw # 0,
         r.kind = "create" => r.image \in NewRow,
         scope' \subseteq Devices, wanted' = wanted,
         adminSessions' \in Seq(Session), remoteSessions' \in Seq(Session),
         asked' \in asked..MaxRequests, faults' \in 0..MaxFaults, overlapped' \in BOOLEAN
  PROVE  DeskOK'
<1>1. UsersTypeOK /\ Passwords
  BY DEF DeskOK
<1>2. Resets' \subseteq Resets
  BY SlotResets
<1>3. /\ Cardinality(Resets') <= Cardinality(Resets) /\ Cardinality(Resets') \in Nat
      /\ Cardinality(Resets) \in Nat
  BY <1>2, ResetsFinite, Counted
<1>4. user.pw \in Nat /\ asked \in Nat /\ asked' \in Nat /\ asked <= asked'
      /\ asked' \in 0..MaxRequests
  BY <1>1, BoundsAssumption DEF UsersTypeOK, Row
<1>5. Passwords'
  BY <1>1, <1>3, <1>4 DEF Passwords, NoUser
<1>6. DOMAIN req' = Slots /\ Known' /\ (\A t \in Slots : Entitled(t)')
  BY SlotEntitled
<1>7. user' \in Row /\ wanted' \subseteq Devices
  BY <1>1 DEF UsersTypeOK
<1>8. UsersTypeOK'
  BY <1>4, <1>6, <1>7 DEF UsersTypeOK, Row, Session
<1> QED
  BY <1>5, <1>6, <1>8 DEF DeskOK

(* A step that leaves the account alone, and the requests of the desk. *)
LEMMA OthersKeepDesk ==
  ASSUME DeskOK, UNCHANGED <<user, scope, wanted, overlapped>>,
         asked' \in asked..MaxRequests, faults' \in 0..MaxFaults,
         adminSessions' \in Seq(Session), remoteSessions' \in Seq(Session),
         DOMAIN req' = Slots,
         \A t \in Slots : /\ "kind" \in DOMAIN req'[t]
                          /\ req'[t].kind \in DeskKinds => req'[t] = req[t]
  PROVE  DeskOK'
<1>1. UsersTypeOK /\ Known /\ Passwords /\ \A t \in Slots : Entitled(t)
  BY DEF DeskOK
<1>2. Resets' \subseteq Resets
  BY DEF Resets, DeskKinds
<1>3. /\ Cardinality(Resets') <= Cardinality(Resets) /\ Cardinality(Resets') \in Nat
      /\ Cardinality(Resets) \in Nat
  BY <1>2, ResetsFinite, Counted
<1>4. user.pw \in Nat /\ asked \in Nat /\ asked' \in Nat /\ asked <= asked'
      /\ asked' \in 0..MaxRequests
  BY <1>1, BoundsAssumption DEF UsersTypeOK, Row
<1>5. Passwords'
  BY <1>1, <1>3, <1>4 DEF Passwords, NoUser
<1>6. Known'
  BY <1>1 DEF Known, DeskRequest, DeskKinds
<1>7. \A t \in Slots : Entitled(t)'
  <2>1. NewRow' = NewRow
    BY DEF NewRow, Row
  <2> QED
    BY <1>1, <2>1 DEF Entitled, DeskKinds
<1>8. UsersTypeOK'
  BY <1>1, <1>4 DEF UsersTypeOK, Row, Session
<1> QED
  BY <1>5, <1>6, <1>7, <1>8 DEF DeskOK

LEMMA DeskBegins ==
  ASSUME DeskOK, NEW s \in Slots, DeskStarts(s)
  PROVE  DeskOK'
<1>0. /\ UsersTypeOK /\ Passwords /\ user.pw \in Nat
      /\ asked \in 0..MaxRequests /\ MaxRequests \in Nat
  BY BoundsAssumption DEF DeskOK, UsersTypeOK, Row
<1>1. PICK r \in DeskRequest :
        /\ DeskBegin(s, r) /\ Puts(s, r)
        /\ r.kind \in {"patch", "reset", "revoke"} => user # NoUser
        /\ r.kind = "create" => r.image \in NewRow
  BY BeginShape
<1>2. /\ asked' = asked + 1 /\ asked < MaxRequests /\ overlapped' \in BOOLEAN
      /\ user' = user /\ scope' = scope /\ wanted' = wanted /\ faults' = faults
      /\ adminSessions' = adminSessions /\ remoteSessions' = remoteSessions
  BY <1>1 DEF DeskBegin, Begin, deskVars
<1>3. user # NoUser => user.pw # 0
  BY <1>0 DEF Passwords
<1>4. Becomes(s, r)
  BY <1>1 DEF Becomes
<1>5. DOMAIN req' = Slots /\ Known' /\ (\A t \in Slots : Entitled(t)')
  BY <1>1, <1>2, <1>3, <1>4, SlotEntitled
<1>6. Passwords'
  <2>1. Resets' \subseteq Resets \cup {s}
    BY <1>4, SlotResets
  <2>2. /\ Cardinality(Resets') <= Cardinality(Resets) + 1
        /\ Cardinality(Resets') \in Nat /\ Cardinality(Resets) \in Nat
    BY <2>1, ResetsFinite, Counted
  <2> QED
    BY <1>0, <1>2, <2>2 DEF Passwords, NoUser
<1>7. asked' \in 0..MaxRequests
  BY <1>0, <1>2
<1>8. UsersTypeOK'
  BY <1>0, <1>2, <1>5, <1>7 DEF UsersTypeOK, Row, Session
<1> QED
  BY <1>5, <1>6, <1>8 DEF DeskOK

LEMMA DeskKept ==
  ASSUME DeskOK, NEW s \in Slots, DeskStarts(s) \/ DeskStep(s) \/ DeskFails(s)
  PROVE  DeskOK'
<1>0. /\ UsersTypeOK /\ Passwords /\ Entitled(s)
      /\ adminSessions \in Seq(Session) /\ remoteSessions \in Seq(Session)
      /\ user \in Row /\ user.pw \in Nat /\ scope \subseteq Devices /\ wanted \subseteq Devices
      /\ asked \in 0..MaxRequests /\ faults \in 0..MaxFaults /\ overlapped \in BOOLEAN
      /\ asked \in asked..MaxRequests
  BY BoundsAssumption DEF DeskOK, UsersTypeOK, Row
<1>1. Idle.kind = "idle" /\ Idle \in {Idle} \cup DeskRequest
  BY NoMarks
<1>2. UNCHANGED bookVars => /\ asked' \in asked..MaxRequests /\ faults' \in 0..MaxFaults
                            /\ overlapped' \in BOOLEAN /\ asked' = asked
  BY <1>0 DEF bookVars
<1>3. UNCHANGED deskVars => user' = user /\ scope' \subseteq Devices /\ wanted' = wanted
  BY <1>0 DEF deskVars
<1>4. \A r : Puts(s, r) \/ PutsWidened(s, r) \/ PutsOvertaken(s, r) => Becomes(s, r)
  BY DEF Becomes
<1>5. UNCHANGED <<adminSessions, remoteSessions>>
        => adminSessions' \in Seq(Session) /\ remoteSessions' \in Seq(Session)
  BY <1>0
<1>6. CASE InsertUser(s)
  <2>1. /\ req[s].kind = "create" /\ req[s] \in DeskRequest
        /\ UNCHANGED <<scope, adminSessions, remoteSessions, bookVars>>
    BY <1>6, InsertShape
  <2>2. CASE Puts(s, Idle) /\ user' = user /\ wanted' = wanted
    <3>1. scope' \subseteq Devices /\ adminSessions' \in Seq(Session)
          /\ remoteSessions' \in Seq(Session)
      BY <1>0, <2>1
    <3> QED
      BY <1>1, <1>2, <1>4, <2>1, <2>2, <3>1, SameAccount
  <2>3. CASE /\ user = NoUser /\ user' = req[s].image
             /\ wanted' = IF req[s].value THEN req[s].ids ELSE {}
             /\ \E r \in DeskRequest :
                  /\ Puts(s, r)
                  /\ r.kind = "create" /\ r.pc = "clear" /\ r.image = req[s].image
                  /\ r.value = req[s].value /\ r.ids = req[s].ids
    <3>1. PICK r \in DeskRequest :
            /\ Puts(s, r)
            /\ r.kind = "create" /\ r.pc = "clear" /\ r.image = req[s].image
      BY <2>3
    <3>2. /\ req[s].image \in NewRow /\ req[s].image \in Row /\ req[s].image.pw = 1
          /\ user.pw = 0 /\ wanted' \subseteq Devices
      BY <1>0, <2>1, <2>3, DeskBasics DEF Entitled, NewRow, NoUser
    <3>3. /\ DOMAIN req' = Slots /\ Known' /\ (\A t \in Slots : Entitled(t)')
      BY <1>4, <2>3, <3>1, <3>2, SlotEntitled
    <3>4. Resets = {}
      <4>1. \A t \in Slots : req[t].kind # "reset"
        BY <3>2 DEF DeskOK, Entitled
      <4> QED
        BY <4>1 DEF Resets
    <3>5. Resets' \subseteq Resets
      BY <1>4, <3>1, SlotResets
    <3>6. Cardinality(Resets') = 0
      BY <3>4, <3>5, FS_EmptySet
    <3>7. Passwords'
      BY <1>0, <1>2, <2>1, <2>3, <3>2, <3>6 DEF Passwords
    <3>8. /\ scope' \subseteq Devices /\ adminSessions' \in Seq(Session)
          /\ remoteSessions' \in Seq(Session)
          /\ asked' \in 0..MaxRequests /\ faults' \in 0..MaxFaults /\ overlapped' \in BOOLEAN
      BY <1>0, <1>2, <2>1
    <3>9. UsersTypeOK'
      BY <2>3, <3>2, <3>3, <3>8 DEF UsersTypeOK, Row, Session
    <3> QED
      BY <3>3, <3>7, <3>9 DEF DeskOK
  <2> QED
    BY <1>6, <2>2, <2>3, InsertShape
<1>7. CASE Merge(s)
  <2>1. /\ req[s].kind = "patch"
        /\ UNCHANGED <<deskVars, adminSessions, remoteSessions, bookVars>>
    BY <1>7, MergeShape
  <2>2. PICK r \in DeskRequest : Puts(s, r) /\ r.kind = "patch" /\ r.pc = "update"
    BY <1>7, MergeShape
  <2>3. user.pw # 0
    BY <1>0, <2>1 DEF Entitled
  <2> QED
    BY <1>2, <1>3, <1>4, <1>5, <2>1, <2>2, <2>3, SameAccount
<1>8. CASE Update(s)
  <2>1. /\ req[s].kind = "patch" /\ req[s] \in DeskRequest
        /\ UNCHANGED <<scope, adminSessions, remoteSessions, bookVars>>
        /\ user' \in Row /\ user'.pw = user.pw
    BY <1>8, UpdateShape
  <2>2. PICK r \in DeskRequest :
          /\ PutsWidened(s, r) /\ r.kind = "patch"
          /\ wanted' = wanted \/ wanted' = IF req[s].value THEN req[s].ids ELSE {}
    BY <1>8, UpdateShape
  <2>3. user.pw # 0 /\ wanted' \subseteq Devices
    BY <1>0, <2>1, <2>2, DeskBasics DEF Entitled
  <2>5. DOMAIN req' = Slots /\ Known' /\ \A t \in Slots : Entitled(t)'
    BY <1>4, <2>1, <2>2, <2>3, SlotEntitled
  <2>6. Passwords'
    <3>1. Resets' \subseteq Resets
      BY <1>4, <2>2, SlotResets
    <3>2. /\ Cardinality(Resets') <= Cardinality(Resets)
          /\ Cardinality(Resets') \in Nat /\ Cardinality(Resets) \in Nat
      BY <3>1, ResetsFinite, Counted
    <3> QED
      BY <1>0, <1>2, <2>1, <2>3, <3>2 DEF Passwords
  <2>7. /\ scope' \subseteq Devices /\ asked' \in 0..MaxRequests
    BY <1>0, <1>2, <2>1
  <2>8. UsersTypeOK'
    BY <1>2, <1>5, <2>1, <2>3, <2>5, <2>7 DEF UsersTypeOK, Row, Session
  <2> QED
    BY <2>5, <2>6, <2>8 DEF DeskOK
<1>9. CASE Clear(s) \/ \E d \in Devices : InsertScope(s, d)
  <2>1. /\ req[s].kind \in {"create", "patch"} /\ scope' \subseteq Devices
        /\ UNCHANGED <<user, wanted, adminSessions, remoteSessions, bookVars>>
    BY <1>9, ScopeShape
  <2>2. PICK r \in {Idle} \cup DeskRequest :
          PutsWidened(s, r) /\ (r # Idle => r.kind = req[s].kind /\ r.image = req[s].image)
    <3>1. \/ PutsWidened(s, Idle)
          \/ \E r \in DeskRequest :
               PutsWidened(s, r) /\ r.kind = req[s].kind /\ r.image = req[s].image
      BY <1>9, ScopeShape
    <3> QED
      BY <1>1, <3>1
  <2>3. /\ r.kind \in {"patch", "reset", "revoke"} => user.pw # 0
        /\ r.kind = "create" => r.image \in NewRow
        /\ ~(r.kind = "reset" /\ r.pc = "password")
    BY <1>0, <1>1, <2>1, <2>2 DEF Entitled
  <2>4. user' = user /\ wanted' = wanted
    BY <2>1
  <2> QED
    BY <1>2, <1>4, <1>5, <2>1, <2>2, <2>3, <2>4, SameAccount
<1>10. CASE Reread(s)
  <2>1. /\ req[s].kind = "patch"
        /\ UNCHANGED <<deskVars, adminSessions, remoteSessions, bookVars>>
    BY <1>10, RereadShape
  <2>2. PICK r \in {Idle} \cup DeskRequest : Puts(s, r) /\ (r # Idle => r.kind = "patch")
    <3>1. Puts(s, Idle) \/ \E r \in DeskRequest : Puts(s, r) /\ r.kind = "patch"
      BY <1>10, RereadShape
    <3> QED
      BY <1>1, <3>1
  <2>3. /\ r.kind \in {"patch", "reset", "revoke"} => user.pw # 0
        /\ r.kind # "create" /\ r.kind # "reset"
    BY <1>0, <1>1, <2>1, <2>2 DEF Entitled
  <2> QED
    BY <1>2, <1>3, <1>4, <1>5, <2>1, <2>2, <2>3, SameAccount
<1>11. CASE SetPassword(s)
  <2>1. /\ req[s].kind = "reset" /\ req[s].pc = "password"
        /\ UNCHANGED <<scope, wanted, adminSessions, remoteSessions, bookVars>>
        /\ user' = [user EXCEPT !.pw = @ + 1]
    BY <1>11, PasswordShape
  <2>2. PICK r \in DeskRequest : Puts(s, r) /\ r.kind = "reset" /\ r.pc = "revokeAdmin"
    BY <1>11, PasswordShape
  <2>3. s \in Resets /\ Resets' \subseteq Resets \ {s}
    BY <1>4, <2>1, <2>2, SlotResets DEF Resets
  <2>4. /\ Cardinality(Resets') <= Cardinality(Resets) - 1
        /\ Cardinality(Resets') \in Nat /\ Cardinality(Resets) \in Nat
    BY <2>3, ResetsFinite, Counted
  <2>5. user.pw + 1 \in 0..(MaxRequests + 1)
    BY <1>0, <2>4, BoundsAssumption DEF Passwords
  <2>6. user' \in Row /\ user'.pw = user.pw + 1 /\ user'.pw # 0
    <3>1. user \in Row /\ user' = [user EXCEPT !.pw = user.pw + 1]
      BY <1>0, <2>1
    <3>2. user' \in Row /\ user'.pw = user.pw + 1
      BY <2>5, <3>1 DEF Row
    <3> QED
      BY <1>0, <3>2
  <2>8. DOMAIN req' = Slots /\ Known' /\ \A t \in Slots : Entitled(t)'
    BY <1>4, <2>2, <2>6, SlotEntitled
  <2>9. Passwords'
    BY <1>0, <1>2, <2>1, <2>4, <2>6 DEF Passwords
  <2>10. scope' \subseteq Devices /\ wanted' \subseteq Devices /\ asked' \in 0..MaxRequests
    BY <1>0, <1>2, <2>1
  <2>11. UsersTypeOK'
    BY <1>2, <1>5, <2>1, <2>6, <2>8, <2>10 DEF UsersTypeOK, Row, Session
  <2> QED
    BY <2>8, <2>9, <2>11 DEF DeskOK
<1>12. CASE RevokeAdmin(s) \/ RevokeRemote(s)
  <2>1. /\ req[s].kind \in {"patch", "reset", "revoke"}
        /\ UNCHANGED <<deskVars, bookVars>>
    BY <1>12, RevokeShape
  <2>2. PICK r \in {Idle} \cup DeskRequest :
          PutsOvertaken(s, r) /\ (r # Idle => r.kind = req[s].kind /\ r.pc = "revokeRemote")
    <3>1. \/ PutsOvertaken(s, Idle)
          \/ \E r \in DeskRequest :
               PutsOvertaken(s, r) /\ r.kind = req[s].kind /\ r.pc = "revokeRemote"
      BY <1>12, RevokeShape
    <3> QED
      BY <1>1, <3>1
  <2>3. user.pw # 0 /\ r.kind # "create" /\ ~(r.kind = "reset" /\ r.pc = "password")
    BY <1>0, <1>1, <2>1, <2>2 DEF Entitled
  <2>4. /\ adminSessions' = adminSessions \/ adminSessions' = AllRevoked(adminSessions)
        /\ remoteSessions' = remoteSessions \/ remoteSessions' = AllRevoked(remoteSessions)
    BY <1>12, RevokeShape
  <2>5. adminSessions' \in Seq(Session) /\ remoteSessions' \in Seq(Session)
    BY <1>0, <2>4, AllRevokedRows
  <2> QED
    BY <1>2, <1>3, <1>4, <2>1, <2>2, <2>3, <2>5, SameAccount
<1>13. CASE DeskFails(s)
  <2>1. /\ Puts(s, Idle) /\ faults' \in 0..MaxFaults
        /\ UNCHANGED <<deskVars, adminSessions, remoteSessions, asked, overlapped>>
    BY <1>13, FailsShape
  <2>2. asked' \in asked..MaxRequests /\ overlapped' \in BOOLEAN
    BY <1>0, <2>1
  <2> QED
    BY <1>1, <1>3, <1>4, <1>5, <2>1, <2>2, SameAccount
<1> QED
  BY <1>6, <1>7, <1>8, <1>9, <1>10, <1>11, <1>12, <1>13, DeskBegins DEF DeskStep

(* What the rest of a proof needs to know of a step of the desk. *)
LEMMA DeskEffect ==
  ASSUME DeskOK, NEW s \in Slots, DeskStarts(s) \/ DeskStep(s) \/ DeskFails(s)
  PROVE  /\ req[s] = Idle \/ req[s] \in DeskRequest
         /\ asked' \in {asked, asked + 1} /\ faults' \in {faults, faults + 1}
         /\ adminSessions' \in {adminSessions, AllRevoked(adminSessions)}
         /\ remoteSessions' \in {remoteSessions, AllRevoked(remoteSessions)}
         /\ \E r \in {Idle} \cup DeskRequest :
              Becomes(s, r) /\ (PutsWidened(s, r) \/ Visible' \subseteq Visible)
<1>1. /\ UNCHANGED bookVars => asked' = asked /\ faults' = faults
      /\ UNCHANGED deskVars => Visible' = Visible
  BY DEF bookVars, deskVars, Visible
<1>2. /\ Idle \in {Idle} \cup DeskRequest
      /\ \A r : Puts(s, r) \/ PutsWidened(s, r) \/ PutsOvertaken(s, r) => Becomes(s, r)
  BY DEF Becomes
<1>3. CASE DeskStarts(s)
  <2>1. PICK r \in DeskRequest : DeskBegin(s, r) /\ Puts(s, r)
    BY <1>3, BeginShape
  <2>2. /\ asked' = asked + 1 /\ faults' = faults /\ UNCHANGED deskVars /\ req[s] = Idle
        /\ adminSessions' = adminSessions /\ remoteSessions' = remoteSessions
    BY <2>1 DEF DeskBegin, Begin
  <2> QED
    BY <1>1, <1>2, <2>1, <2>2
<1>4. CASE InsertUser(s)
  <2>1. /\ req[s] \in DeskRequest
        /\ UNCHANGED <<scope, adminSessions, remoteSessions, bookVars>>
    BY <1>4, InsertShape
  <2>2. PICK r \in {Idle} \cup DeskRequest : Puts(s, r) /\ (user' = user \/ user = NoUser)
    BY <1>2, <1>4, InsertShape
  <2>3. Visible' \subseteq Visible
    <3>1. scope \subseteq Devices
      BY DEF DeskOK, UsersTypeOK
    <3> QED
      BY <2>1, <2>2, <3>1 DEF Visible, NoUser
  <2> QED
    BY <1>1, <1>2, <2>1, <2>2, <2>3
<1>5. CASE Merge(s)
  BY <1>1, <1>2, <1>5, MergeShape
<1>6. CASE Update(s)
  BY <1>1, <1>2, <1>6, UpdateShape
<1>7. CASE Clear(s) \/ \E d \in Devices : InsertScope(s, d)
  <2>1. /\ req[s] \in DeskRequest
        /\ UNCHANGED <<adminSessions, remoteSessions, bookVars>>
        /\ \E r \in {Idle} \cup DeskRequest : PutsWidened(s, r)
    BY <1>7, ScopeShape
  <2> QED
    BY <1>1, <1>2, <2>1
<1>8. CASE Reread(s)
  <2>1. /\ req[s] \in DeskRequest
        /\ UNCHANGED <<deskVars, adminSessions, remoteSessions, bookVars>>
        /\ \E r \in {Idle} \cup DeskRequest : Puts(s, r)
    BY <1>8, RereadShape
  <2> QED
    BY <1>1, <1>2, <2>1
<1>9. CASE SetPassword(s)
  <2>1. /\ req[s] \in DeskRequest
        /\ UNCHANGED <<scope, wanted, adminSessions, remoteSessions, bookVars>>
        /\ user' = [user EXCEPT !.pw = @ + 1]
        /\ \E r \in {Idle} \cup DeskRequest : Puts(s, r)
    BY <1>9, PasswordShape
  <2>2. user'.selected = user.selected
    BY <2>1 DEF DeskOK, UsersTypeOK, Row
  <2> QED
    BY <1>1, <1>2, <2>1, <2>2 DEF Visible
<1>10. CASE RevokeAdmin(s) \/ RevokeRemote(s)
  <2>1. /\ req[s] \in DeskRequest /\ UNCHANGED <<deskVars, bookVars>>
        /\ adminSessions' \in {adminSessions, AllRevoked(adminSessions)}
        /\ remoteSessions' \in {remoteSessions, AllRevoked(remoteSessions)}
        /\ \E r \in {Idle} \cup DeskRequest : PutsOvertaken(s, r)
    BY <1>10, RevokeShape
  <2> QED
    BY <1>1, <1>2, <2>1
<1>11. CASE DeskFails(s)
  <2>1. /\ req[s] \in DeskRequest /\ Puts(s, Idle) /\ faults' = faults + 1
        /\ UNCHANGED <<deskVars, adminSessions, remoteSessions, asked>>
    BY <1>11, FailsShape, DeskBasics
  <2> QED
    BY <1>1, <1>2, <2>1
<1> QED
  BY <1>3, <1>4, <1>5, <1>6, <1>7, <1>8, <1>9, <1>10, <1>11 DEF DeskStep

-----------------------------------------------------------------------------
(* The scope is the one asked for last *)

Writes(r) == r.kind \in {"create", "patch"} /\ r.pc \in {"clear", "insert"}

(* The only change under way goes on with r. *)
LEMMA ScopeOfChange ==
  ASSUME DeskOK, ScopeKept, NEW s \in Slots, NEW r \in {Idle} \cup DeskRequest, Becomes(s, r),
         Changing(s), faults' = faults, overlapped' = overlapped,
         faults = 0 /\ ~overlapped =>
           /\ ~Writes(r) => scope' = wanted'
           /\ Writes(r) /\ r.pc = "clear" => wanted' = IF r.value THEN r.ids ELSE {}
           /\ Writes(r) /\ r.pc = "insert" => scope' \cup r.todo = wanted'
  PROVE  ScopeKept'
<1> SUFFICES ASSUME faults = 0, ~overlapped
             PROVE  /\ \A u, t \in Slots : Changing(u)' /\ Changing(t)' => u = t
                    /\ (~\E u \in Slots : Writing(u)') => scope' = wanted'
                    /\ \A u \in Slots :
                         /\ Writing(u)' /\ req'[u].pc = "clear"
                              => wanted' = IF req'[u].value THEN req'[u].ids ELSE {}
                         /\ Writing(u)' /\ req'[u].pc = "insert"
                              => scope' \cup req'[u].todo = wanted'
  BY DEF ScopeKept
<1>1. /\ req'[s] = r
      /\ \A t \in Slots \ {s} : req'[t].kind = req[t].kind
  BY Becoming DEF DeskOK, UsersTypeOK
<1>2. \A t \in Slots \ {s} : ~Changing(t)
  BY DEF ScopeKept
<1>3. \A t \in Slots \ {s} : ~Changing(t)' /\ ~Writing(t)'
  BY <1>1, <1>2 DEF Changing, Writing
<1>4. Writing(s)' <=> Writes(r)
  BY <1>1 DEF Writing, Writes
<1> QED
  BY <1>1, <1>3, <1>4

(* A request that changes no row goes on with r, or one begins. *)
LEMMA ScopeOfOther ==
  ASSUME DeskOK, ScopeKept, NEW s \in Slots, NEW r \in {Idle} \cup DeskRequest, Becomes(s, r),
         scope' = scope, wanted' = wanted, ~Writes(r), ~Writing(s),
         faults' # 0 \/ faults' = faults, overlapped => overlapped',
         r.kind \in {"create", "patch", "reset"} =>
           Changing(s) \/ overlapped' \/ ~\E t \in Slots : Changing(t)
  PROVE  ScopeKept'
<1> SUFFICES ASSUME faults = 0, ~overlapped, ~overlapped'
             PROVE  /\ \A u, t \in Slots : Changing(u)' /\ Changing(t)' => u = t
                    /\ (~\E u \in Slots : Writing(u)') => scope' = wanted'
                    /\ \A u \in Slots :
                         /\ Writing(u)' /\ req'[u].pc = "clear"
                              => wanted' = IF req'[u].value THEN req'[u].ids ELSE {}
                         /\ Writing(u)' /\ req'[u].pc = "insert"
                              => scope' \cup req'[u].todo = wanted'
  BY DEF ScopeKept
<1>0. DOMAIN req = Slots /\ Known
  BY DEF DeskOK, UsersTypeOK
<1>1. /\ req'[s] = r
      /\ \A t \in Slots \ {s} : /\ req'[t].kind = req[t].kind
                                /\ req[t].kind \in DeskKinds => req'[t] = req[t]
  BY <1>0, Becoming
<1>2. \A t \in Slots \ {s} : /\ Changing(t)' <=> Changing(t)
                             /\ Writing(t)' <=> Writing(t)
                             /\ Writing(t) => req'[t] = req[t]
  BY <1>1 DEF Changing, Writing, DeskKinds
<1>3. ~Writing(s)'
  BY <1>1 DEF Writing, Writes
<1>4. \A u, t \in Slots : Changing(u)' /\ Changing(t)' => u = t
  <2>1. Changing(s)' => Changing(s) \/ ~\E t \in Slots : Changing(t)
    BY <1>1 DEF Changing
  <2> QED
    BY <1>2, <2>1 DEF ScopeKept
<1> QED
  BY <1>2, <1>3, <1>4 DEF ScopeKept

LEMMA DeskScope ==
  ASSUME DeskOK, ScopeKept, NEW s \in Slots, DeskStarts(s) \/ DeskStep(s) \/ DeskFails(s)
  PROVE  ScopeKept'
<1>0. /\ Idle \in {Idle} \cup DeskRequest /\ Idle.kind = "idle" /\ ~Writes(Idle)
      /\ \A r : Puts(s, r) \/ PutsWidened(s, r) \/ PutsOvertaken(s, r) => Becomes(s, r)
  BY NoMarks DEF Becomes, Writes
<1>1. /\ UNCHANGED bookVars => faults' = faults /\ overlapped' = overlapped
      /\ UNCHANGED deskVars => scope' = scope /\ wanted' = wanted
  BY DEF bookVars, deskVars
<1>2. ~Writing(s) /\ Changing(s) /\ faults = 0 /\ ~overlapped => scope = wanted
  BY DEF ScopeKept, Writing, Changing
<1>3. CASE DeskStarts(s)
  <2>1. PICK r \in DeskRequest :
          /\ DeskBegin(s, r) /\ Puts(s, r)
          /\ r.pc \in {"insertUser", "merge", "password", "revokeAdmin"}
    BY <1>3, BeginShape
  <2>2. /\ faults' = faults /\ UNCHANGED deskVars /\ req[s] = Idle
        /\ overlapped' = (overlapped \/ \E t \in Slots : Changing(t))
    BY <2>1 DEF DeskBegin, Begin
  <2>3. ~Writes(r) /\ ~Writing(s)
    BY <1>0, <2>1, <2>2 DEF Writes, Writing
  <2> QED
    BY <1>0, <1>1, <2>1, <2>2, <2>3, ScopeOfOther
<1>4. CASE InsertUser(s)
  <2>1. /\ req[s].kind = "create" /\ req[s].pc = "insertUser"
        /\ UNCHANGED <<scope, bookVars>>
    BY <1>4, InsertShape
  <2>2. Changing(s) /\ ~Writing(s)
    BY <2>1 DEF Changing, Writing
  <2>3. PICK r \in {Idle} \cup DeskRequest :
          /\ Puts(s, r)
          /\ \/ r = Idle /\ wanted' = wanted
             \/ /\ Writes(r) /\ r.pc = "clear"
                /\ wanted' = IF r.value THEN r.ids ELSE {}
    BY <1>0, <1>4, InsertShape DEF Writes
  <2> QED
    BY <1>0, <1>1, <1>2, <2>1, <2>2, <2>3, ScopeOfChange
<1>5. CASE Merge(s)
  <2>1. /\ req[s].kind = "patch" /\ req[s].pc = "merge" /\ UNCHANGED <<deskVars, bookVars>>
    BY <1>5, MergeShape
  <2>2. PICK r \in DeskRequest : Puts(s, r) /\ r.kind = "patch" /\ r.pc = "update"
    BY <1>5, MergeShape
  <2>3. Changing(s) /\ ~Writing(s) /\ ~Writes(r)
    BY <2>1, <2>2 DEF Changing, Writing, Writes
  <2> QED
    BY <1>0, <1>1, <2>1, <2>2, <2>3, ScopeOfOther
<1>6. CASE Update(s)
  <2>1. /\ req[s].kind = "patch" /\ req[s].pc = "update" /\ UNCHANGED <<scope, bookVars>>
    BY <1>6, UpdateShape
  <2>2. PICK r \in DeskRequest :
          /\ PutsWidened(s, r) /\ r.kind = "patch"
          /\ r.value = req[s].value /\ r.ids = req[s].ids
          /\ \/ r.pc = "clear" /\ wanted' = IF req[s].value THEN req[s].ids ELSE {}
             \/ r.pc = "reread" /\ wanted' = wanted
    BY <1>6, UpdateShape
  <2>3. Changing(s) /\ ~Writing(s) /\ (Writes(r) <=> r.pc = "clear")
    BY <2>1, <2>2 DEF Changing, Writing, Writes
  <2> QED
    BY <1>0, <1>1, <1>2, <2>1, <2>2, <2>3, ScopeOfChange
<1>7. CASE Clear(s) \/ \E d \in Devices : InsertScope(s, d)
  <2>1. /\ req[s].kind \in {"create", "patch"} /\ req[s].pc \in {"clear", "insert"}
        /\ UNCHANGED <<wanted, bookVars>>
    BY <1>7, ScopeShape
  <2>2. Changing(s) /\ Writing(s)
    BY <2>1 DEF Changing, Writing
  <2>3. PICK todo \in SUBSET Devices, r \in {Idle} \cup DeskRequest :
          /\ scope' \cup todo = IF req[s].pc = "insert" THEN scope \cup req[s].todo
                                ELSE IF req[s].value THEN req[s].ids ELSE {}
          /\ PutsWidened(s, r)
          /\ \/ r = Idle /\ todo = {}
             \/ r.kind = req[s].kind /\ r.pc = "insert" /\ r.todo = todo
             \/ r.kind = req[s].kind /\ r.pc = "reread" /\ todo = {}
    <3>1. PICK todo \in SUBSET Devices :
            /\ scope' \cup todo = IF req[s].pc = "insert" THEN scope \cup req[s].todo
                                  ELSE IF req[s].value THEN req[s].ids ELSE {}
            /\ \/ PutsWidened(s, Idle) /\ todo = {}
               \/ \E r \in DeskRequest :
                    /\ PutsWidened(s, r) /\ r.kind = req[s].kind
                    /\ \/ r.pc = "insert" /\ r.todo = todo
                       \/ r.pc = "reread" /\ todo = {}
      BY <1>7, ScopeShape
    <3> QED
      BY <1>0, <3>1
  <2>4. faults = 0 /\ ~overlapped => scope' \cup todo = wanted
    BY <2>1, <2>2, <2>3 DEF ScopeKept
  <2>5. /\ Writes(r) => r.pc = "insert" /\ r.todo = todo
        /\ ~Writes(r) => todo = {}
    BY <1>0, <2>1, <2>3 DEF Writes
  <2> QED
    BY <1>0, <1>1, <2>1, <2>2, <2>3, <2>4, <2>5, ScopeOfChange
<1>8. CASE Reread(s)
  <2>1. /\ req[s].kind = "patch" /\ req[s].pc = "reread" /\ UNCHANGED <<deskVars, bookVars>>
    BY <1>8, RereadShape
  <2>2. PICK r \in {Idle} \cup DeskRequest :
          Puts(s, r) /\ (r = Idle \/ (r.kind = "patch" /\ r.pc = "revokeAdmin"))
    BY <1>0, <1>8, RereadShape
  <2>3. Changing(s) /\ ~Writing(s) /\ ~Writes(r)
    BY <1>0, <2>1, <2>2 DEF Changing, Writing, Writes
  <2> QED
    BY <1>0, <1>1, <2>1, <2>2, <2>3, ScopeOfOther
<1>9. CASE SetPassword(s)
  <2>1. /\ req[s].kind = "reset" /\ UNCHANGED <<scope, wanted, bookVars>>
    BY <1>9, PasswordShape
  <2>2. PICK r \in DeskRequest : Puts(s, r) /\ r.kind = "reset"
    BY <1>9, PasswordShape
  <2>3. Changing(s) /\ ~Writing(s) /\ ~Writes(r)
    BY <2>1, <2>2 DEF Changing, Writing, Writes
  <2> QED
    BY <1>0, <1>1, <2>1, <2>2, <2>3, ScopeOfOther
<1>10. CASE RevokeAdmin(s) \/ RevokeRemote(s)
  <2>1. /\ req[s].kind \in {"patch", "reset", "revoke"}
        /\ req[s].pc \in {"revokeAdmin", "revokeRemote"} /\ UNCHANGED <<deskVars, bookVars>>
    BY <1>10, RevokeShape
  <2>2. PICK r \in {Idle} \cup DeskRequest :
          PutsOvertaken(s, r) /\ (r = Idle \/ (r.kind = req[s].kind /\ r.pc = "revokeRemote"))
    BY <1>0, <1>10, RevokeShape
  <2>3. /\ ~Writing(s) /\ ~Writes(r)
        /\ r.kind \in {"create", "patch", "reset"} => Changing(s)
    BY <1>0, <2>1, <2>2 DEF Changing, Writing, Writes
  <2> QED
    BY <1>0, <1>1, <2>1, <2>2, <2>3, ScopeOfOther
<1>11. CASE DeskFails(s)
  BY <1>11, FailsShape DEF ScopeKept
<1> QED
  BY <1>3, <1>4, <1>5, <1>6, <1>7, <1>8, <1>9, <1>10, <1>11 DEF DeskStep

(* Requests that are not the desk's do nothing to the scope. *)
LEMMA OthersKeepScope ==
  ASSUME ScopeKept, UNCHANGED <<scope, wanted, overlapped>>,
         \/ faults' # 0
         \/ /\ faults' = faults
            /\ \A t \in Slots : req[t].kind \in DeskKinds \/ req'[t].kind \in DeskKinds
                                  => req'[t] = req[t]
  PROVE  ScopeKept'
<1>1. CASE faults' # 0
  BY <1>1 DEF ScopeKept
<1>2. CASE /\ faults' = faults
           /\ \A t \in Slots : req[t].kind \in DeskKinds \/ req'[t].kind \in DeskKinds
                                 => req'[t] = req[t]
  <2>1. \A t \in Slots : /\ Changing(t)' <=> Changing(t)
                         /\ Writing(t)' <=> Writing(t)
                         /\ Writing(t) => req'[t] = req[t]
    BY <1>2 DEF Changing, Writing, DeskKinds
  <2> QED
    BY <1>2, <2>1 DEF ScopeKept
<1> QED
  BY <1>1, <1>2

LEMMA ScopeKeptAsked ==
  ASSUME ScopeKept
  PROVE  ScopeAsAsked
BY DEF ScopeKept, ScopeAsAsked, Writing, Changing

=============================================================================
