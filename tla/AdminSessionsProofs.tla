------------------------- MODULE AdminSessionsProofs -------------------------
(***************************************************************************)
(* Safety of the admin sessions for any number of handlers, requests,      *)
(* faults and login attempts.                                              *)
(*                                                                         *)
(* The inductive invariant has four parts.  Typed: every session a handler *)
(* names is there, and every password but the first was asked for.         *)
(* Chains: of a login that no two handlers crossed on there is one active  *)
(* session or one handler about to insert its successor, never both.       *)
(* Limited: the failures counted and the logins that passed the limiter    *)
(* are together under the bound.  Disabled, Demoted and OldPassword: a     *)
(* revocation is done or still to come.  The handlers step in two ways,    *)
(* and most lemmas are about one of them: at the desk, where other         *)
(* requests are at most marked late, and at the sign-in side, where the    *)
(* account stays.                                                          *)
(***************************************************************************)
EXTENDS AdminSessions, SequenceTheorems, FiniteSetTheorems, TLAPS

AuthKinds == {"login", "refresh", "api", "accept", "logout"}
DeskKinds == {"create", "patch", "reset", "revoke"}

IsAuth(s) == req[s].kind \in AuthKinds
Requests == {Idle} \cup DeskRequest \cup AuthRequest

(* A handler that has found a session and will replace it. *)
Holding(s) == Replacing(s, {"retire", "replace"})

(* Sessions T are those of S, some of them ended. *)
Fewer(S, T) ==
  /\ Len(T) = Len(S)
  /\ \A i \in 1..Len(S) :
       /\ T[i].from = S[i].from /\ T[i].pw = S[i].pw /\ T[i].late = S[i].late
       /\ T[i].state = "active" => S[i].state = "active"

-----------------------------------------------------------------------------
(* The inductive invariant *)

(* The sessions a request names are there. *)
Named(s) ==
  /\ req[s].access \in 0..Len(adminSessions)
  /\ req[s].refresh \in 0..Len(adminSessions)
  /\ req[s].fresh \in 0..Len(adminSessions)
  /\ req[s].pc \in {"retire", "replace"} => req[s].refresh # 0

(* What a request of each kind may rely on. *)
Fit(s) ==
  /\ IsAuth(s) => Named(s)
  /\ req[s].kind \in {"patch", "reset", "revoke"} => user.pw # 0
  /\ At(s, {"login"}, "hash") \/ At(s, {"login"}, "create") => user.pw # 0
  /\ req[s].kind = "create" => req[s].image \in NewRow

Resets == {s \in Slots : req[s].kind = "reset" /\ req[s].pc = "password"}

(* Every reset under way was asked for, and so was every one that is done. *)
Accounts ==
  /\ user.pw + Cardinality(Resets) <= asked + 1
  /\ user.pw = 0 => user = NoUser /\ adminSessions = <<>>

Typed ==
  /\ TypeOK
  /\ \A i \in 1..Len(adminSessions) : adminSessions[i].from \in 1..i
  /\ crossed \cup outrun \cup loggedOut \subseteq 1..Len(adminSessions)
  /\ \A s \in Slots : Fit(s)
  /\ Accounts

(* The login a handler's session descends from. *)
Line(s) == adminSessions[req[s].refresh].from

(* Of a login that no two handlers crossed on: one session, and one handler *)
(* that replaces it.                                                        *)
OneChain ==
  /\ OneSessionPerLogin
  /\ \A s \in Slots : Holding(s) /\ Line(s) \notin crossed =>
       /\ \A i \in 1..MaxSessions :
            Active(i, adminSessions) /\ adminSessions[i].from = Line(s)
              => req[s].pc = "retire" /\ i = req[s].refresh
       /\ \A t \in Slots : Holding(t) /\ Line(t) = Line(s) => t = s

(* A session just made is known to the handler that made it and to no one else. *)
Secret ==
  \A s \in Slots : IsAuth(s) /\ req[s].fresh # 0 =>
    /\ req[s].fresh # jar.refresh
    /\ \A t \in Slots : IsAuth(t) =>
         /\ req[t].refresh # req[s].fresh
         /\ t # s => req[t].fresh # req[s].fresh

(* So nobody replaces it. *)
FreshIsLast ==
  \A s \in Slots :
    IsAuth(s) /\ req[s].fresh # 0 /\ adminSessions[req[s].fresh].from \notin crossed =>
      /\ \A i \in 1..MaxSessions :
           Active(i, adminSessions) /\ adminSessions[i].from = adminSessions[req[s].fresh].from
             => i = req[s].fresh
      /\ \A t \in Slots : Holding(t) => Line(t) # adminSessions[req[s].fresh].from

Ended ==
  /\ LogoutIsFinal
  /\ \A s \in Slots : Holding(s) => Line(s) \notin loggedOut \ (crossed \cup outrun)

Chains == OneChain /\ Secret /\ FreshIsLast /\ Ended

(* A handler that will insert a session, and one whose session will be late. *)
Maker(s) == At(s, {"login"}, "hash") \/ At(s, {"login"}, "create") \/ Holding(s)
Late(s) == req[s].late \/ (Holding(s) /\ adminSessions[req[s].refresh].late)

UpToDate ==
  /\ \A i \in 1..MaxSessions : ~ActiveLater(i)
  /\ \A s \in Slots : Maker(s) => Late(s)

Patching(s) == req[s].kind = "patch" /\ req[s].pc \in {"clear", "insert", "reread", "revokeAdmin"}

Disabled ==
  faults = 0 /\ ~user.active => UpToDate \/ \E s \in Slots : Patching(s)

Demoted ==
  faults = 0 /\ ~overlapped =>
    /\ \A s, t \in Slots : Changing(s) /\ Changing(t) => s = t
    /\ \A s \in Slots : req[s].kind = "patch" /\ req[s].pc \in {"merge", "update"}
         => req[s].wasAdmin = user.admin
    /\ ~user.admin => UpToDate \/ \E s \in Slots : Patching(s)
                                      /\ (req[s].pc = "revokeAdmin" \/ req[s].wasAdmin)

(* Sessions of the latest password only, now and in what handlers will insert. *)
SamePassword ==
  /\ \A i \in 1..MaxSessions : ActiveLater(i) => adminSessions[i].pw = user.pw
  /\ \A s \in Slots :
       /\ At(s, {"login"}, "create") /\ ~Late(s) => req[s].typed = user.pw
       /\ Holding(s) /\ ~Late(s) => adminSessions[req[s].refresh].pw = user.pw

OldPassword ==
  faults = 0 =>
    SamePassword \/ \E s \in Slots : At(s, {"reset"}, "revokeAdmin")

Attempts == {s \in Slots : req[s].kind = "login" /\ req[s].pc \in {"user", "hash"}}

Limited == failures + Cardinality(Attempts) <= MaxAttempts + Cardinality(Slots) - 1

-----------------------------------------------------------------------------
(* Rows and requests *)

LEMMA RowsOf ==
  ASSUME NEW S \in Seq(Session)
  PROVE  /\ Len(S) \in Nat /\ DOMAIN S = 1..Len(S)
         /\ \A i \in 1..Len(S) : S[i] \in Session
BY ElementOfSeq, LenProperties

LEMMA StateOfRow ==
  ASSUME NEW r \in Session, NEW v \in {"revoked", "expired"}
  PROVE  /\ [r EXCEPT !.state = v] \in Session
         /\ [r EXCEPT !.state = v].state = v
         /\ [r EXCEPT !.state = v].from = r.from
         /\ [r EXCEPT !.state = v].pw = r.pw
         /\ [r EXCEPT !.state = v].late = r.late
BY DEF Session

LEMMA AllRevokedRows ==
  ASSUME NEW S \in Seq(Session)
  PROVE  /\ AllRevoked(S) \in Seq(Session)
         /\ Fewer(S, AllRevoked(S))
         /\ \A i \in 1..Len(S) : AllRevoked(S)[i].state # "active"
<1> DEFINE T == AllRevoked(S)
<1>1. /\ Len(S) \in Nat /\ DOMAIN S = 1..Len(S)
      /\ \A i \in 1..Len(S) : S[i] \in Session
  BY RowsOf
<1>2. T = [i \in 1..Len(S) |->
             IF S[i].state = "active" THEN [S[i] EXCEPT !.state = "revoked"] ELSE S[i]]
  BY <1>1 DEF AllRevoked
<1>3. ASSUME NEW i \in 1..Len(S)
      PROVE  /\ T[i] \in Session /\ T[i].state # "active"
             /\ T[i].from = S[i].from /\ T[i].pw = S[i].pw /\ T[i].late = S[i].late
  <2>0. S[i] \in Session
    BY <1>1
  <2>1. CASE S[i].state = "active"
    <3>1. T[i] = [S[i] EXCEPT !.state = "revoked"]
      BY <1>2, <2>1
    <3> HIDE DEF T
    <3>2. /\ [S[i] EXCEPT !.state = "revoked"] \in Session
          /\ [S[i] EXCEPT !.state = "revoked"].state = "revoked"
          /\ [S[i] EXCEPT !.state = "revoked"].from = S[i].from
          /\ [S[i] EXCEPT !.state = "revoked"].pw = S[i].pw
          /\ [S[i] EXCEPT !.state = "revoked"].late = S[i].late
      BY <2>0, StateOfRow
    <3> QED
      BY <3>1, <3>2
  <2>2. CASE S[i].state # "active"
    <3>1. T[i] = S[i]
      BY <1>2, <2>2
    <3> HIDE DEF T
    <3> QED
      BY <2>0, <2>2, <3>1
  <2> QED
    BY <2>1, <2>2
<1>4. T \in Seq(Session) /\ Len(T) = Len(S)
  BY <1>1, <1>2, <1>3, IsASeq
<1> QED
  BY <1>3, <1>4 DEF Fewer

LEMMA OneEnded ==
  ASSUME NEW S \in Seq(Session), NEW i \in 1..Len(S), NEW v \in {"revoked", "expired"}
  PROVE  /\ [S EXCEPT ![i].state = v] \in Seq(Session)
         /\ Fewer(S, [S EXCEPT ![i].state = v])
         /\ [S EXCEPT ![i].state = v][i].state # "active"
<1> DEFINE T == [S EXCEPT ![i].state = v]
<1>1. /\ Len(S) \in Nat /\ DOMAIN S = 1..Len(S)
      /\ \A j \in 1..Len(S) : S[j] \in Session
  BY RowsOf
<1>2. /\ T = [S EXCEPT ![i] = [S[i] EXCEPT !.state = v]]
      /\ [S[i] EXCEPT !.state = v] \in Session
  BY <1>1, StateOfRow
<1>3. T \in Seq(Session) /\ Len(T) = Len(S)
  BY <1>2, ExceptSeq
<1>4. \A j \in 1..Len(S) : T[j] = IF j = i THEN [S[i] EXCEPT !.state = v] ELSE S[j]
  BY <1>1, <1>2
<1>5. \A j \in 1..Len(S) :
        /\ T[j].from = S[j].from /\ T[j].pw = S[j].pw /\ T[j].late = S[j].late
        /\ T[j].state = "active" => S[j].state = "active"
  BY <1>1, <1>4, StateOfRow
<1>6. T[i].state # "active"
  BY <1>1, <1>4, StateOfRow
<1> QED
  BY <1>3, <1>5, <1>6 DEF Fewer

LEMMA SameRows ==
  ASSUME NEW S \in Seq(Session)
  PROVE  Fewer(S, S)
BY DEF Fewer

LEMMA OneMore ==
  ASSUME NEW S \in Seq(Session), NEW r \in Session
  PROVE  /\ Append(S, r) \in Seq(Session)
         /\ Len(Append(S, r)) = Len(S) + 1
         /\ Append(S, r)[Len(S) + 1] = r
         /\ \A i \in 1..Len(S) : Append(S, r)[i] = S[i]
BY AppendProperties

LEMMA Kinds ==
  ASSUME TypeOK, NEW s \in Slots
  PROVE  /\ req[s] \in Requests
         /\ req[s].kind \in AuthKinds <=> req[s] \in AuthRequest
         /\ req[s].kind \in DeskKinds <=> req[s] \in DeskRequest
         /\ req[s].kind = "idle" <=> req[s] = Idle
         /\ req[s].kind \in {"idle"} \cup AuthKinds \cup DeskKinds
         /\ "late" \in DOMAIN req[s] <=> req[s].kind \in AuthKinds
<1>1. req[s] \in {Idle} \cup DeskRequest \cup AuthRequest
  BY DEF TypeOK
<1>2. req[s] = Idle => req[s].kind = "idle" /\ "late" \notin DOMAIN req[s]
  BY DEF Idle
<1>3. req[s] \in DeskRequest => req[s].kind \in DeskKinds /\ "late" \notin DOMAIN req[s]
  BY DEF DeskRequest, DeskKinds
<1>4. req[s] \in AuthRequest => req[s].kind \in AuthKinds /\ "late" \in DOMAIN req[s]
  BY DEF AuthRequest, AuthKinds
<1> QED
  BY <1>1, <1>2, <1>3, <1>4 DEF Requests, AuthKinds, DeskKinds

(* No request here looks at devices. *)
LEMMA WidenNothing ==
  ASSUME NEW rs \in [Slots -> Requests], NEW ids
  PROVE  Widen(rs, ids) = rs
<1>1. \A t \in Slots : "may" \notin DOMAIN rs[t]
  BY DEF Requests, Idle, DeskRequest, AuthRequest
<1> QED
  BY <1>1 DEF Widen

LEMMA OvertakeTypes ==
  ASSUME NEW rs \in [Slots -> Requests]
  PROVE  /\ Overtake(rs) \in [Slots -> Requests]
         /\ \A t \in Slots :
              /\ rs[t] \in AuthRequest => Overtake(rs)[t] = [rs[t] EXCEPT !.late = TRUE]
              /\ rs[t] \notin AuthRequest => Overtake(rs)[t] = rs[t]
<1>1. \A t \in Slots : "late" \in DOMAIN rs[t] <=> rs[t] \in AuthRequest
  BY DEF Requests, Idle, DeskRequest, AuthRequest
<1>2. \A r \in AuthRequest : [r EXCEPT !.late = TRUE] \in AuthRequest
  BY DEF AuthRequest
<1> QED
  BY <1>1, <1>2 DEF Overtake, Requests

-----------------------------------------------------------------------------
(* Steps *)

(* The rows of a step: those there were, some of them ended, and perhaps more. *)
Grows ==
  /\ adminSessions' \in Seq(Session)
  /\ Len(adminSessions) <= Len(adminSessions') /\ Len(adminSessions') <= MaxSessions
  /\ \A i \in 1..Len(adminSessions) :
       /\ adminSessions'[i].from = adminSessions[i].from
       /\ adminSessions'[i].pw = adminSessions[i].pw
       /\ adminSessions'[i].late = adminSessions[i].late
  /\ \A i \in 1..Len(adminSessions') : adminSessions'[i].from \in 1..i

(* A handler that took no step, but may have been overtaken by a revocation. *)
Stays(t) ==
  \/ req'[t] = req[t]
  \/ req[t] \in AuthRequest /\ req'[t] = [req[t] EXCEPT !.late = TRUE]

LEMMA StaysSame ==
  ASSUME TypeOK, NEW t \in Slots, Stays(t)
  PROVE  /\ req'[t] \in Requests
         /\ IsAuth(t)' <=> IsAuth(t)
         /\ req'[t].kind = req[t].kind
         /\ req[t] # Idle => req'[t].pc = req[t].pc
         /\ req[t].kind = "create" => req'[t].image = req[t].image
         /\ IsAuth(t) => /\ req'[t].access = req[t].access
                         /\ req'[t].refresh = req[t].refresh
                         /\ req'[t].fresh = req[t].fresh
                         /\ req'[t].typed = req[t].typed
                         /\ req[t].late => req'[t].late
<1>1. CASE req'[t] = req[t]
  BY <1>1, Kinds DEF IsAuth
<1>2. CASE req[t] \in AuthRequest /\ req'[t] = [req[t] EXCEPT !.late = TRUE]
  <2>1. /\ req'[t] \in AuthRequest /\ req'[t].kind = req[t].kind
        /\ req'[t].pc = req[t].pc /\ req'[t].access = req[t].access
        /\ req'[t].refresh = req[t].refresh /\ req'[t].fresh = req[t].fresh
        /\ req'[t].typed = req[t].typed /\ req'[t].late
    BY <1>2 DEF AuthRequest
  <2>2. req[t].kind # "create"
    BY <1>2 DEF AuthRequest
  <2> QED
    BY <2>1, <2>2 DEF IsAuth, Requests
<1> QED
  BY <1>1, <1>2 DEF Stays

LEMMA StaysFit ==
  ASSUME Typed, Grows, NEW t \in Slots, Stays(t), user.pw # 0 => user'.pw # 0
  PROVE  req'[t] \in Requests /\ Fit(t)'
<1>1. TypeOK /\ Fit(t)
  BY DEF Typed
<1>2. /\ req'[t] \in Requests
      /\ IsAuth(t)' <=> IsAuth(t)
      /\ req'[t].kind = req[t].kind
      /\ req[t] # Idle => req'[t].pc = req[t].pc
      /\ req[t].kind = "create" => req'[t].image = req[t].image
      /\ IsAuth(t) => /\ req'[t].access = req[t].access
                      /\ req'[t].refresh = req[t].refresh
                      /\ req'[t].fresh = req[t].fresh
  BY <1>1, StaysSame
<1>3. IsAuth(t) => req[t] # Idle
  BY DEF IsAuth, AuthKinds, Idle
<1>4. Len(adminSessions) \in Nat /\ Len(adminSessions') \in Nat
  BY <1>1, LenProperties DEF TypeOK, UsersTypeOK, Grows
<1>5. IsAuth(t)' => Named(t)'
  BY <1>1, <1>2, <1>3, <1>4 DEF Fit, Named, Grows
<1>6. /\ (req[t].kind \in {"patch", "reset", "revoke"} => user.pw # 0)'
      /\ (At(t, {"login"}, "hash") \/ At(t, {"login"}, "create") => user.pw # 0)'
  BY <1>1, <1>2 DEF Fit, At, Idle
<1>7. (req[t].kind = "create" => req[t].image \in NewRow)'
  <2>1. NewRow' = NewRow
    BY DEF NewRow, Row
  <2> QED
    BY <1>1, <1>2, <2>1 DEF Fit
<1> QED
  BY <1>2, <1>5, <1>6, <1>7 DEF Fit

LEMMA ResetsBound ==
  ASSUME Typed
  PROVE  /\ Cardinality(Resets) \in Nat
         /\ Resets' \subseteq Resets => Cardinality(Resets') <= Cardinality(Resets)
                                        /\ Cardinality(Resets') \in Nat
         /\ \A s \in Resets : Resets' \subseteq Resets \ {s}
              => Cardinality(Resets') <= Cardinality(Resets) - 1 /\ Cardinality(Resets') \in Nat
         /\ \A s \in Slots : Resets' \subseteq Resets \cup {s}
              => Cardinality(Resets') <= Cardinality(Resets) + 1 /\ Cardinality(Resets') \in Nat
<1>1. IsFiniteSet(Resets)
  BY BoundsAssumption, FS_Subset DEF Resets
<1>2. Cardinality(Resets) \in Nat
  BY <1>1, FS_CardinalityType
<1>3. ASSUME Resets' \subseteq Resets
      PROVE  Cardinality(Resets') <= Cardinality(Resets) /\ Cardinality(Resets') \in Nat
  BY <1>1, <1>3, FS_Subset, FS_CardinalityType
<1>4. ASSUME NEW s \in Resets, Resets' \subseteq Resets \ {s}
      PROVE  Cardinality(Resets') <= Cardinality(Resets) - 1 /\ Cardinality(Resets') \in Nat
  <2>1. IsFiniteSet(Resets \ {s}) /\ Cardinality(Resets \ {s}) = Cardinality(Resets) - 1
    BY <1>1, FS_RemoveElement
  <2> QED
    BY <1>2, <1>4, <2>1, FS_Subset, FS_CardinalityType
<1>5. ASSUME NEW s \in Slots, Resets' \subseteq Resets \cup {s}
      PROVE  Cardinality(Resets') <= Cardinality(Resets) + 1 /\ Cardinality(Resets') \in Nat
  <2>1. IsFiniteSet(Resets \cup {s}) /\ Cardinality(Resets \cup {s}) <= Cardinality(Resets) + 1
    <3>1. CASE s \in Resets
      <4>1. Resets \cup {s} = Resets
        BY <3>1
      <4> QED
        BY <1>1, <1>2, <4>1
    <3>2. CASE s \notin Resets
      <4>1. IsFiniteSet(Resets \cup {s}) /\ Cardinality(Resets \cup {s}) = Cardinality(Resets) + 1
        BY <1>1, <3>2, FS_AddElement
      <4> QED
        BY <1>2, <4>1
    <3> QED
      BY <3>1, <3>2
  <2>2. Cardinality(Resets \cup {s}) \in Nat
    BY <2>1, FS_CardinalityType
  <2> QED
    BY <1>2, <1>5, <2>1, <2>2, FS_Subset, FS_CardinalityType
<1> QED
  BY <1>2, <1>3, <1>4, <1>5

(* A step of a handler that does nothing to the account. *)
LEMMA AuthTyped ==
  ASSUME Typed, Grows, NEW s \in Slots, NEW r \in {Idle} \cup AuthRequest,
         req' = [req EXCEPT ![s] = r],
         r \in AuthRequest =>
           /\ r.access \in 0..Len(adminSessions') /\ r.refresh \in 0..Len(adminSessions')
           /\ r.fresh \in 0..Len(adminSessions')
           /\ r.pc \in {"retire", "replace"} => r.refresh # 0
           /\ r.kind = "login" /\ r.pc \in {"hash", "create"} => user.pw # 0,
         UNCHANGED <<deskVars, remoteSessions>>,
         asked' \in asked..MaxRequests, faults' \in 0..MaxFaults, overlapped' \in BOOLEAN,
         jar' \in [access: 0..Len(adminSessions'), refresh: 0..Len(adminSessions')],
         ack' \in BOOLEAN, failures' \in Nat,
         (crossed \cup outrun \cup loggedOut)' \subseteq 1..Len(adminSessions'),
         user.pw = 0 => adminSessions' = <<>>
  PROVE  Typed'
<1>0. /\ TypeOK /\ UsersTypeOK /\ Accounts
      /\ req \in [Slots -> Requests]
  BY DEF Typed, TypeOK, Requests
<1>1. /\ user' = user /\ scope' = scope /\ wanted' = wanted /\ remoteSessions' = remoteSessions
  BY DEF deskVars
<1>2. req' \in [Slots -> Requests] /\ req'[s] = r /\ \A t \in Slots : t # s => req'[t] = req[t]
  BY <1>0 DEF Requests
<1>3. \A t \in Slots : t # s => Fit(t)'
  BY <1>1, <1>2, StaysFit DEF Stays
<1>4. Fit(s)'
  <2>1. CASE r = Idle
    BY <1>2, <2>1 DEF Idle, Fit, IsAuth, At, AuthKinds
  <2>2. CASE r \in AuthRequest
    <3>1. r.kind \in AuthKinds
      BY <2>2 DEF AuthRequest, AuthKinds
    <3>2. Named(s)'
      BY <1>2, <2>2 DEF Named
    <3>3. req'[s].kind \notin {"patch", "reset", "revoke", "create"}
      BY <1>2, <3>1 DEF AuthKinds
    <3> QED
      BY <1>1, <1>2, <2>2, <3>2, <3>3 DEF Fit, At
  <2> QED
    BY <2>1, <2>2
<1>5. Accounts'
  <2>1. r.kind # "reset"
    BY DEF Idle, AuthRequest
  <2>2. Resets' \subseteq Resets
    BY <1>2, <2>1 DEF Resets
  <2>3. Cardinality(Resets') <= Cardinality(Resets) /\ Cardinality(Resets') \in Nat
        /\ Cardinality(Resets) \in Nat
    BY <2>2, ResetsBound
  <2>4. user.pw \in Nat /\ asked \in Nat /\ asked' \in Nat /\ asked <= asked'
    BY <1>0, BoundsAssumption DEF UsersTypeOK, Row
  <2>5. user.pw + Cardinality(Resets) <= asked + 1
    BY <1>0 DEF Accounts
  <2>6. user.pw + Cardinality(Resets') <= asked' + 1
    BY <2>3, <2>4, <2>5
  <2> QED
    BY <1>0, <1>1, <2>6 DEF Accounts
<1>6. TypeOK'
  <2>1. asked' \in 0..MaxRequests
    BY <1>0, BoundsAssumption DEF UsersTypeOK
  <2>2. UsersTypeOK'
    BY <1>0, <1>1, <1>2, <2>1 DEF UsersTypeOK, Grows, Row
  <2>3. (crossed \cup outrun \cup loggedOut)' \subseteq 1..MaxSessions
    <3>1. Len(adminSessions') \in Nat /\ Len(adminSessions') <= MaxSessions /\ MaxSessions \in Nat
      BY BoundsAssumption, LenProperties DEF Grows, MaxSessions
    <3> QED
      BY <3>1
  <2>4. req' \in [Slots -> {Idle} \cup DeskRequest' \cup AuthRequest']
    BY <1>2 DEF Requests, DeskRequest, AuthRequest, Row, MaxSessions
  <2> QED
    BY <2>2, <2>3, <2>4 DEF TypeOK, Grows
<1> QED
  BY <1>2, <1>3, <1>4, <1>5, <1>6 DEF Typed, Grows

(* A step of the desk. *)
LEMMA DeskTyped ==
  ASSUME Typed, Grows, UNCHANGED authVars,
         req' \in [Slots -> Requests], \A t \in Slots : Fit(t)', Accounts',
         user' \in Row, scope' \subseteq Devices, wanted' \subseteq Devices,
         remoteSessions' \in Seq(Session), asked' \in 0..MaxRequests,
         faults' \in 0..MaxFaults, overlapped' \in BOOLEAN
  PROVE  Typed'
<1>0. /\ TypeOK /\ UsersTypeOK
      /\ crossed \cup outrun \cup loggedOut \subseteq 1..Len(adminSessions)
  BY DEF Typed, TypeOK
<1>1. /\ jar' = jar /\ ack' = ack /\ failures' = failures /\ crossed' = crossed
      /\ outrun' = outrun /\ loggedOut' = loggedOut
  BY DEF authVars
<1>2. Len(adminSessions) \in Nat /\ Len(adminSessions') \in Nat
  BY <1>0, LenProperties DEF UsersTypeOK, Grows
<1>3. /\ jar' \in [access: 0..Len(adminSessions'), refresh: 0..Len(adminSessions')]
      /\ (crossed \cup outrun \cup loggedOut)' \subseteq 1..Len(adminSessions')
  <2>1. 0..Len(adminSessions) \subseteq 0..Len(adminSessions')
        /\ 1..Len(adminSessions) \subseteq 1..Len(adminSessions')
    BY <1>2 DEF Grows
  <2>2. jar' \in [access: 0..Len(adminSessions), refresh: 0..Len(adminSessions)]
    BY <1>0, <1>1 DEF TypeOK
  <2> QED
    BY <1>0, <1>1, <2>1, <2>2
<1>4. TypeOK'
  <2>2. UsersTypeOK'
    BY DEF UsersTypeOK, Grows, Row
  <2>3. (crossed \cup outrun \cup loggedOut)' \subseteq 1..MaxSessions
    BY <1>0, <1>1 DEF TypeOK
  <2>4. req' \in [Slots -> {Idle} \cup DeskRequest' \cup AuthRequest']
    BY DEF Requests, DeskRequest, AuthRequest, Row, MaxSessions
  <2> QED
    BY <1>0, <1>1, <1>3, <2>2, <2>3, <2>4 DEF TypeOK, Grows
<1> QED
  BY <1>3, <1>4 DEF Typed, Grows

LEMMA SameGrows ==
  ASSUME Typed, UNCHANGED adminSessions
  PROVE  Grows
BY LenProperties DEF Typed, TypeOK, UsersTypeOK, Grows

LEMMA FewerGrows ==
  ASSUME Typed, adminSessions' \in Seq(Session), Fewer(adminSessions, adminSessions')
  PROVE  Grows
<1>1. /\ Len(adminSessions) \in Nat /\ Len(adminSessions) <= MaxSessions
      /\ \A i \in 1..Len(adminSessions) : adminSessions[i].from \in 1..i
  BY LenProperties DEF Typed, TypeOK, UsersTypeOK
<1>2. Len(adminSessions') = Len(adminSessions)
  BY DEF Fewer
<1> QED
  BY <1>1, <1>2 DEF Grows, Fewer

LEMMA MoreGrows ==
  ASSUME Typed, NEW row \in Session, row.from \in 1..(Len(adminSessions) + 1),
         Len(adminSessions) < MaxSessions, adminSessions' = Append(adminSessions, row)
  PROVE  /\ Grows
         /\ Len(adminSessions') = Len(adminSessions) + 1
         /\ adminSessions'[Len(adminSessions) + 1] = row
         /\ \A i \in 1..Len(adminSessions) : adminSessions'[i] = adminSessions[i]
<1>1. adminSessions \in Seq(Session) /\ Len(adminSessions) \in Nat
  BY LenProperties DEF Typed, TypeOK, UsersTypeOK
<1>2. /\ adminSessions' \in Seq(Session)
      /\ Len(adminSessions') = Len(adminSessions) + 1
      /\ adminSessions'[Len(adminSessions) + 1] = row
      /\ \A i \in 1..Len(adminSessions) : adminSessions'[i] = adminSessions[i]
  BY <1>1, OneMore
<1>3. MaxSessions \in Nat
  BY BoundsAssumption DEF MaxSessions
<1>4. \A i \in 1..Len(adminSessions') : adminSessions'[i].from \in 1..i
  BY <1>1, <1>2 DEF Typed
<1> QED
  BY <1>1, <1>2, <1>3, <1>4 DEF Grows

(* What a step of the sessions or of the answer may write beside its request. *)
Writes ==
  /\ ack' \in BOOLEAN /\ failures' \in Nat
  /\ jar' \in [access: 0..Len(adminSessions'), refresh: 0..Len(adminSessions')]
  /\ (crossed \cup outrun \cup loggedOut)' \subseteq 1..Len(adminSessions')
  /\ user.pw = 0 => adminSessions' = <<>>

LEMMA FinishTyped ==
  ASSUME Typed, Grows, Writes, NEW s \in Slots, Finish(s),
         UNCHANGED <<deskVars, remoteSessions, asked, overlapped>>,
         faults' \in 0..MaxFaults
  PROVE  Typed'
<1>1. TypeOK /\ UsersTypeOK
  BY DEF Typed, TypeOK
<1>2. asked' \in asked..MaxRequests /\ overlapped' \in BOOLEAN
  BY <1>1, BoundsAssumption DEF UsersTypeOK
<1>3. Idle \notin AuthRequest
  BY DEF Idle, AuthRequest
<1> QED
  BY <1>2, <1>3, AuthTyped DEF Finish, Writes

LEMMA MoveTyped ==
  ASSUME Typed, Grows, Writes, NEW s \in Slots, NEW r \in AuthRequest,
         req' = [req EXCEPT ![s] = r],
         r.access = req[s].access, r.refresh = req[s].refresh, IsAuth(s),
         r.fresh \in 0..Len(adminSessions'),
         r.pc \in {"retire", "replace"} => r.refresh # 0,
         r.kind = "login" /\ r.pc \in {"hash", "create"} => user.pw # 0,
         UNCHANGED <<deskVars, remoteSessions, asked, overlapped>>,
         faults' \in 0..MaxFaults
  PROVE  Typed'
<1>1. TypeOK /\ UsersTypeOK /\ Fit(s)
  BY DEF Typed, TypeOK
<1>2. asked' \in asked..MaxRequests /\ overlapped' \in BOOLEAN
  BY <1>1, BoundsAssumption DEF UsersTypeOK
<1>3. /\ req[s].access \in 0..Len(adminSessions)
      /\ req[s].refresh \in 0..Len(adminSessions)
  BY <1>1 DEF Fit, Named
<1>4. Len(adminSessions) \in Nat /\ Len(adminSessions') \in Nat
      /\ Len(adminSessions) <= Len(adminSessions')
  BY <1>1, LenProperties DEF UsersTypeOK, Grows
<1>5. r.access \in 0..Len(adminSessions') /\ r.refresh \in 0..Len(adminSessions')
  BY <1>3, <1>4
<1> HIDE DEF Typed
<1> QED
  BY <1>2, <1>5, AuthTyped DEF Writes

LEMMA SameWrites ==
  ASSUME Typed, UNCHANGED <<adminSessions, jar, crossed, outrun, loggedOut>>,
         ack' \in BOOLEAN, failures' \in Nat
  PROVE  Writes
BY DEF Typed, TypeOK, Accounts, Writes

LEMMA GotoTyped ==
  ASSUME Typed, Grows, Writes, NEW s \in Slots, IsAuth(s),
         NEW p \in {"user", "hash", "create", "active", "find", "retire", "replace", "ack",
                    "serve", "reply"}, Goto(s, p),
         p \in {"retire", "replace"} => req[s].refresh # 0,
         req[s].kind = "login" /\ p \in {"hash", "create"} => user.pw # 0,
         UNCHANGED <<deskVars, remoteSessions, bookVars>>
  PROVE  Typed'
<1>1. TypeOK /\ UsersTypeOK /\ Fit(s)
  BY DEF Typed, TypeOK
<1>2. req[s] \in AuthRequest
  BY <1>1, Kinds DEF IsAuth
<1> DEFINE r == [req[s] EXCEPT !.pc = p]
<1>3. /\ r \in AuthRequest /\ r.pc = p /\ r.kind = req[s].kind
      /\ r.access = req[s].access /\ r.refresh = req[s].refresh /\ r.fresh = req[s].fresh
  BY <1>2 DEF AuthRequest
<1>4. req' = [req EXCEPT ![s] = r]
  BY <1>1 DEF Goto, TypeOK
<1>5. r.fresh \in 0..Len(adminSessions')
  <2>1. r.fresh \in 0..Len(adminSessions)
    BY <1>1, <1>3 DEF Fit, Named
  <2>2. Len(adminSessions) \in Nat /\ Len(adminSessions') \in Nat
        /\ Len(adminSessions) <= Len(adminSessions')
    BY <1>1, LenProperties DEF UsersTypeOK, Grows
  <2> QED
    BY <2>1, <2>2
<1>6. faults' \in 0..MaxFaults /\ asked' = asked /\ overlapped' = overlapped
  BY <1>1 DEF bookVars, UsersTypeOK
<1> HIDE DEF r
<1> QED
  BY <1>3, <1>4, <1>5, <1>6, MoveTyped

-----------------------------------------------------------------------------
(* Every step keeps Typed *)

LEMMA TypedInit ==
  Init => Typed
<1> SUFFICES ASSUME Init PROVE Typed
  OBVIOUS
<1>1. /\ user \in Row /\ user.pw \in {0, 1} /\ (user.pw = 0 => user = NoUser)
      /\ (user = NoUser => ~user.admin)
  <2>1. NoUser \in Row /\ NoUser.pw = 0 /\ ~NoUser.admin
    BY BoundsAssumption DEF NoUser, Row
  <2>2. \A u \in NewRow : u \in Row /\ u.pw = 1
    BY DEF NewRow
  <2>3. user \in {NoUser} \cup NewRow
    BY DEF Init, UsersInit
  <2> QED
    BY <2>1, <2>2, <2>3
<1>2. /\ req \in [Slots -> Requests]
      /\ \A s \in Slots : req[s] = Idle
  BY DEF Init, UsersInit, Requests
<1>3. \A s \in Slots : Fit(s)
  BY <1>2 DEF Fit, IsAuth, AuthKinds, At, Idle
<1>4. /\ adminSessions \in Seq(Session) /\ Len(adminSessions) \in {0, 1}
      /\ \A i \in 1..Len(adminSessions) : adminSessions[i].from \in 1..i
      /\ jar \in [access: 0..Len(adminSessions), refresh: 0..Len(adminSessions)]
      /\ user.admin \/ adminSessions = <<>>
  <2>1. CASE adminSessions = <<>> /\ jar = [access |-> 0, refresh |-> 0]
    BY <2>1
  <2>2. CASE /\ user.admin
             /\ adminSessions = <<[state |-> "active", from |-> 1, pw |-> 1, late |-> FALSE]>>
             /\ jar = [access |-> 1, refresh |-> 1]
    <3> DEFINE row == [state |-> "active", from |-> 1, pw |-> 1, late |-> FALSE]
    <3>1. row \in Session /\ row.from = 1
      BY DEF Session
    <3>2. adminSessions = <<row>>
      BY <2>2
    <3> HIDE DEF row
    <3>3. adminSessions \in Seq(Session) /\ Len(adminSessions) = 1 /\ adminSessions[1] = row
      BY <3>1, <3>2
    <3> QED
      BY <2>2, <3>1, <3>3
  <2> QED
    BY <2>1, <2>2 DEF Init
<1>5. Accounts
  <2>1. Resets = {}
    BY <1>2 DEF Resets, Idle
  <2>2. Cardinality(Resets) = 0
    BY <2>1, FS_EmptySet
  <2>3. asked = 0 /\ user.pw \in 0..1
    BY <1>1 DEF Init, UsersInit
  <2> QED
    BY <1>1, <1>4, <2>2, <2>3 DEF Accounts
<1>6. UsersTypeOK
  <2>1. scope \subseteq Devices /\ wanted = scope
    BY DEF Init, UsersInit
  <2>2. remoteSessions \in Seq(Session)
    BY DEF Init
  <2>3. asked = 0 /\ faults = 0 /\ overlapped = FALSE
    BY DEF Init, UsersInit
  <2>4. 0 \in 0..MaxRequests /\ 0 \in 0..MaxFaults
    BY BoundsAssumption
  <2>5. overlapped \in BOOLEAN
    BY <2>3
  <2>6. asked \in 0..MaxRequests /\ faults \in 0..MaxFaults
    BY <2>3, <2>4
  <2> QED
    BY <1>1, <1>2, <1>4, <2>1, <2>2, <2>5, <2>6 DEF UsersTypeOK
<1>7. TypeOK
  <2>1. Len(adminSessions) <= MaxSessions
    BY <1>4, BoundsAssumption DEF MaxSessions
  <2> QED
    BY <1>2, <1>4, <1>6, <2>1 DEF TypeOK, Init, Requests
<1> QED
  BY <1>3, <1>4, <1>5, <1>7 DEF Typed, Init

LEMMA TypedStarts ==
  ASSUME Typed, NEW s \in Slots, AuthStarts(s)
  PROVE  Typed'
<1>0. TypeOK /\ UsersTypeOK
  BY DEF Typed, TypeOK
<1>1. PICK kind \in AuthKinds, pc \in {"user", "find", "active"}, typed \in 0..(MaxRequests + 1) :
        AuthBegin(s, kind, pc, typed)
  <2>1. ASSUME NEW typed \in 0..(MaxRequests + 1), LoginBegin(s, typed)
        PROVE  AuthBegin(s, "login", "user", typed)
    BY <2>1 DEF LoginBegin
  <2>2. ASSUME RefreshBegin(s)
        PROVE  AuthBegin(s, "refresh", "find", 0)
    BY <2>2 DEF RefreshBegin
  <2>3. ASSUME NEW kind \in {"api", "accept", "logout"}, RouteBegin(s, kind)
        PROVE  AuthBegin(s, kind, "active", 0)
    BY <2>3 DEF RouteBegin
  <2>4. 0 \in 0..(MaxRequests + 1)
    BY BoundsAssumption
  <2>5. CASE \E typed \in 0..(MaxRequests + 1) : LoginBegin(s, typed)
    BY <2>1, <2>5 DEF AuthKinds
  <2>6. CASE RefreshBegin(s)
    BY <2>2, <2>4, <2>6 DEF AuthKinds
  <2>7. CASE \E kind \in {"api", "accept", "logout"} : RouteBegin(s, kind)
    BY <2>3, <2>4, <2>7 DEF AuthKinds
  <2> QED
    BY <2>5, <2>6, <2>7 DEF AuthStarts
<1> DEFINE r == Auth(kind, pc, typed)
<1>2. Len(adminSessions) \in Nat /\ Len(adminSessions) <= MaxSessions /\ MaxSessions \in Nat
  BY <1>0, BoundsAssumption, LenProperties DEF TypeOK, UsersTypeOK, MaxSessions
<1>3. jar.access \in 0..Len(adminSessions) /\ jar.refresh \in 0..Len(adminSessions)
  BY <1>0 DEF TypeOK
<1>4. /\ r \in AuthRequest /\ r.access = jar.access /\ r.refresh = jar.refresh /\ r.fresh = 0
      /\ r.pc \notin {"retire", "replace", "hash", "create"}
  <2>1. /\ jar.access \in 0..MaxSessions /\ jar.refresh \in 0..MaxSessions
        /\ 0 \in 0..MaxSessions
    BY <1>2, <1>3
  <2> QED
    BY <2>1 DEF Auth, AuthRequest, AuthKinds
<1>5. /\ req' = [req EXCEPT ![s] = r] /\ asked' = asked + 1 /\ asked < MaxRequests
      /\ UNCHANGED <<deskVars, adminSessions, remoteSessions, faults, overlapped, authVars>>
  BY <1>1 DEF AuthBegin, Begin
<1> HIDE DEF r
<1>6. Grows /\ Writes
  BY <1>0, <1>5, SameGrows, SameWrites DEF authVars, TypeOK
<1>7. asked' \in asked..MaxRequests /\ faults' \in 0..MaxFaults /\ overlapped' \in BOOLEAN
  BY <1>0, <1>5, BoundsAssumption DEF UsersTypeOK
<1>8. r \in AuthRequest =>
        /\ r.access \in 0..Len(adminSessions') /\ r.refresh \in 0..Len(adminSessions')
        /\ r.fresh \in 0..Len(adminSessions')
        /\ r.pc \in {"retire", "replace"} => r.refresh # 0
        /\ r.kind = "login" /\ r.pc \in {"hash", "create"} => user.pw # 0
  BY <1>2, <1>3, <1>4, <1>5
<1>9. /\ jar' \in [access: 0..Len(adminSessions'), refresh: 0..Len(adminSessions')]
      /\ ack' \in BOOLEAN /\ failures' \in Nat
      /\ (crossed \cup outrun \cup loggedOut)' \subseteq 1..Len(adminSessions')
      /\ user.pw = 0 => adminSessions' = <<>>
  BY <1>6 DEF Writes
<1>10. UNCHANGED <<deskVars, remoteSessions>>
  BY <1>5
<1>11. r \in {Idle} \cup AuthRequest /\ req' = [req EXCEPT ![s] = r]
  BY <1>4, <1>5
<1> QED
  BY <1>6, <1>7, <1>8, <1>9, <1>10, <1>11, AuthTyped

LEMMA TypedAuth ==
  ASSUME Typed, NEW s \in Slots, AuthStep(s) \/ AuthFails(s)
  PROVE  Typed'
<1>0. /\ TypeOK /\ UsersTypeOK /\ Accounts /\ Fit(s)
      /\ adminSessions \in Seq(Session) /\ Len(adminSessions) \in Nat
      /\ DOMAIN adminSessions = 1..Len(adminSessions)
      /\ \A i \in 1..Len(adminSessions) : adminSessions[i] \in Session
  BY RowsOf DEF Typed, TypeOK, UsersTypeOK
<1>1. /\ MaxSessions \in Nat /\ faults \in 0..MaxFaults
      /\ failures \in Nat /\ ack \in BOOLEAN
  BY <1>0, BoundsAssumption DEF UsersTypeOK, TypeOK, MaxSessions
<1>2. /\ req[s] \in Requests
      /\ IsAuth(s) <=> req[s] \in AuthRequest
      /\ Idle \notin AuthRequest
  BY <1>0, Kinds DEF IsAuth, Idle, AuthRequest
<1>3. IsAuth(s) => /\ req[s].access \in 0..Len(adminSessions)
                   /\ req[s].refresh \in 0..Len(adminSessions)
                   /\ req[s].fresh \in 0..Len(adminSessions)
  BY <1>0 DEF Fit, Named
<1>4. ASSUME UNCHANGED adminSessions PROVE Grows
  BY <1>4, SameGrows
<1>5. ASSUME UNCHANGED <<adminSessions, jar, crossed, outrun, loggedOut>>,
             ack' \in BOOLEAN, failures' \in Nat
      PROVE  Writes
  BY <1>5, SameWrites
<1>6. CASE LoginUser(s)
  <2>1. /\ At(s, {"login"}, "user") /\ IsAuth(s)
        /\ UNCHANGED <<deskVars, adminSessions, remoteSessions, bookVars, jar, ack,
                       crossed, outrun, loggedOut>>
    BY <1>6 DEF LoginUser, At, IsAuth, AuthKinds
  <2>2. faults' \in 0..MaxFaults /\ UNCHANGED <<asked, overlapped>>
    BY <1>1, <2>1 DEF bookVars
  <2>3. CASE user.active /\ user.admin
    <3>1. Goto(s, "hash") /\ failures' = failures
      BY <1>6, <2>3 DEF LoginUser
    <3>2. user.pw # 0
      BY <1>0, <2>3 DEF Accounts, NoUser
    <3>3. Grows /\ Writes
      BY <1>1, <1>4, <1>5, <2>1, <3>1
    <3> QED
      BY <2>1, <3>1, <3>2, <3>3, GotoTyped
  <2>4. CASE ~(user.active /\ user.admin)
    <3>1. Finish(s) /\ failures' = failures + 1
      BY <1>6, <2>4 DEF LoginUser, Reject, AfterFailure
    <3>2. Grows /\ Writes
      BY <1>1, <1>4, <1>5, <2>1, <3>1
    <3> QED
      BY <2>1, <2>2, <3>1, <3>2, FinishTyped
  <2> QED
    BY <2>3, <2>4
<1>7. CASE LoginHash(s)
  <2>1. /\ At(s, {"login"}, "hash") /\ IsAuth(s)
        /\ UNCHANGED <<deskVars, adminSessions, remoteSessions, bookVars, jar, ack,
                       crossed, outrun, loggedOut>>
    BY <1>7 DEF LoginHash, At, IsAuth, AuthKinds
  <2>2. faults' \in 0..MaxFaults /\ UNCHANGED <<asked, overlapped>>
    BY <1>1, <2>1 DEF bookVars
  <2>3. CASE req[s].typed = user.pw
    <3>1. Goto(s, "create") /\ failures' = failures
      BY <1>7, <2>3 DEF LoginHash
    <3>2. user.pw # 0
      BY <1>0, <2>1 DEF Fit
    <3>3. Grows /\ Writes
      BY <1>1, <1>4, <1>5, <2>1, <3>1
    <3> QED
      BY <2>1, <3>1, <3>2, <3>3, GotoTyped
  <2>4. CASE req[s].typed # user.pw
    <3>1. Finish(s) /\ failures' = failures + 1
      BY <1>7, <2>4 DEF LoginHash, Reject, AfterFailure
    <3>2. Grows /\ Writes
      BY <1>1, <1>4, <1>5, <2>1, <3>1
    <3> QED
      BY <2>1, <2>2, <3>1, <3>2, FinishTyped
  <2> QED
    BY <2>3, <2>4
<1>8. CASE LoginCreate(s)
  <2> DEFINE row == [state |-> "active", from |-> Len(adminSessions) + 1,
                     pw |-> req[s].typed, late |-> req[s].late]
             r == [req[s] EXCEPT !.pc = "reply", !.fresh = Len(adminSessions) + 1]
  <2>1. /\ At(s, {"login"}, "create") /\ IsAuth(s) /\ req[s] \in AuthRequest
        /\ adminSessions' = Append(adminSessions, row) /\ Len(adminSessions) < MaxSessions
        /\ failures' = 0
        /\ UNCHANGED <<deskVars, remoteSessions, bookVars, jar, ack, crossed, outrun,
                       loggedOut>>
    BY <1>2, <1>8 DEF LoginCreate, NewSession, At, IsAuth, AuthKinds, Forgotten
  <2>2. row \in Session /\ row.from = Len(adminSessions) + 1
    BY <1>0, <2>1 DEF Session, AuthRequest
  <2>3. req' = [req EXCEPT ![s] = r]
    BY <1>0, <1>8 DEF LoginCreate, TypeOK
  <2>4. /\ r \in AuthRequest /\ r.pc = "reply" /\ r.fresh = Len(adminSessions) + 1
        /\ r.access = req[s].access /\ r.refresh = req[s].refresh
    <3>1. Len(adminSessions) + 1 \in 0..MaxSessions
      BY <1>0, <1>1, <2>1
    <3> QED
      BY <2>1, <3>1 DEF AuthRequest
  <2> HIDE DEF row, r
  <2>5. Grows /\ Len(adminSessions') = Len(adminSessions) + 1
    BY <1>0, <2>1, <2>2, MoreGrows
  <2>6. Writes
    <3>1. jar' \in [access: 0..Len(adminSessions'), refresh: 0..Len(adminSessions')]
      BY <1>0, <2>1, <2>5 DEF TypeOK
    <3>2. (crossed \cup outrun \cup loggedOut)' \subseteq 1..Len(adminSessions')
      BY <1>0, <2>1, <2>5 DEF Typed
    <3>3. user.pw # 0
      BY <1>0, <2>1 DEF Fit
    <3> QED
      BY <1>1, <2>1, <3>1, <3>2, <3>3 DEF Writes
  <2>7. faults' \in 0..MaxFaults /\ UNCHANGED <<asked, overlapped>>
    BY <1>1, <2>1 DEF bookVars
  <2>8. r.fresh \in 0..Len(adminSessions')
    BY <1>0, <2>4, <2>5
  <2> QED
    BY <2>1, <2>3, <2>4, <2>5, <2>6, <2>7, <2>8, MoveTyped
<1>9. CASE CheckActive(s)
  <2>1. IsAuth(s) /\ UNCHANGED <<deskVars, adminSessions, remoteSessions, bookVars, authVars>>
    BY <1>9 DEF CheckActive, At, IsAuth, AuthKinds
  <2>2. Grows /\ Writes
    BY <1>1, <1>4, <1>5, <2>1 DEF authVars
  <2>3. Goto(s, "ack") \/ Goto(s, "find")
    BY <1>9 DEF CheckActive
  <2> QED
    BY <2>1, <2>2, <2>3, GotoTyped
<1>10. CASE FindSession(s)
  <2>1. /\ IsAuth(s)
        /\ UNCHANGED <<deskVars, adminSessions, remoteSessions, bookVars, jar, ack,
                       failures, outrun, loggedOut>>
    BY <1>10 DEF FindSession, Replacing, IsAuth, AuthKinds
  <2>2. faults' \in 0..MaxFaults /\ UNCHANGED <<asked, overlapped>>
    BY <1>1, <2>1 DEF bookVars
  <2>3. CASE Active(req[s].refresh, adminSessions)
    <3>1. Goto(s, "retire") /\ crossed' \subseteq crossed \cup {adminSessions[req[s].refresh].from}
      BY <1>10, <2>3 DEF FindSession
    <3>2. req[s].refresh # 0 /\ req[s].refresh \in 1..Len(adminSessions)
      BY <1>0, <2>3 DEF Active
    <3>3. adminSessions[req[s].refresh].from \in 1..Len(adminSessions)
      BY <1>0, <3>2 DEF Typed
    <3>4. Grows
      BY <1>4, <2>1
    <3>5. Writes
      <4>1. (crossed \cup outrun \cup loggedOut)' \subseteq 1..Len(adminSessions')
        BY <2>1, <3>1, <3>3 DEF Typed
      <4> QED
        BY <1>0, <1>1, <2>1, <4>1 DEF Writes, TypeOK, Accounts
    <3>6. req[s].kind # "login"
      BY <1>10 DEF FindSession, Replacing
    <3> QED
      BY <2>1, <3>1, <3>2, <3>4, <3>5, <3>6, GotoTyped
  <2>4. CASE ~Active(req[s].refresh, adminSessions)
    <3>1. Finish(s) /\ crossed' = crossed
      BY <1>10, <2>4 DEF FindSession
    <3>2. Grows /\ Writes
      BY <1>1, <1>4, <1>5, <2>1, <3>1
    <3> QED
      BY <2>1, <2>2, <3>1, <3>2, FinishTyped
  <2> QED
    BY <2>3, <2>4
<1>11. CASE RetireSession(s)
  <2>1. /\ IsAuth(s) /\ req[s].kind # "login" /\ req[s].pc = "retire"
        /\ UNCHANGED <<deskVars, remoteSessions, bookVars, authVars>> /\ Goto(s, "replace")
        /\ adminSessions' = [adminSessions EXCEPT ![req[s].refresh].state = "revoked"]
    BY <1>11 DEF RetireSession, Replacing, IsAuth, AuthKinds
  <2>2. req[s].refresh \in 1..Len(adminSessions) /\ req[s].refresh # 0
    BY <1>0, <1>3, <2>1 DEF Fit, Named
  <2>3. adminSessions' \in Seq(Session) /\ Fewer(adminSessions, adminSessions')
    BY <1>0, <2>1, <2>2, OneEnded
  <2>4. Grows
    BY <2>3, FewerGrows
  <2>5. Len(adminSessions') = Len(adminSessions)
    BY <2>3 DEF Fewer
  <2>6. Writes
    <3>1. jar' \in [access: 0..Len(adminSessions'), refresh: 0..Len(adminSessions')]
      BY <1>0, <2>1, <2>5 DEF TypeOK, authVars
    <3>2. (crossed \cup outrun \cup loggedOut)' \subseteq 1..Len(adminSessions')
      BY <2>1, <2>5 DEF Typed, authVars
    <3>3. user.pw # 0
      BY <1>0, <2>2 DEF Accounts
    <3> QED
      BY <1>1, <2>1, <3>1, <3>2, <3>3 DEF Writes, authVars
  <2> QED
    BY <2>1, <2>2, <2>4, <2>6, GotoTyped
<1>12. CASE ReplaceSession(s)
  <2> DEFINE old == adminSessions[req[s].refresh]
             row == [old EXCEPT !.state = "active", !.late = old.late \/ req[s].late]
             p == IF req[s].kind = "refresh" THEN "reply" ELSE "ack"
             r == [req[s] EXCEPT !.pc = p, !.fresh = Len(adminSessions) + 1]
  <2>1. /\ IsAuth(s) /\ req[s] \in AuthRequest /\ req[s].kind # "login" /\ req[s].pc = "replace"
        /\ adminSessions' = Append(adminSessions, row) /\ Len(adminSessions) < MaxSessions
        /\ UNCHANGED <<deskVars, remoteSessions, bookVars, authVars>>
    BY <1>2, <1>12 DEF ReplaceSession, Replacing, NewSession, IsAuth, AuthKinds
  <2>2. req[s].refresh \in 1..Len(adminSessions)
    BY <1>0, <1>3, <2>1 DEF Fit, Named
  <2>3. row \in Session /\ row.from = old.from
    BY <1>0, <2>1, <2>2 DEF Session, AuthRequest
  <2>4. old.from \in 1..(Len(adminSessions) + 1)
    BY <1>0, <2>2 DEF Typed
  <2>5. req' = [req EXCEPT ![s] = r]
    BY <1>0, <1>12 DEF ReplaceSession, TypeOK
  <2>6. /\ r \in AuthRequest /\ r.pc \in {"reply", "ack"} /\ r.fresh = Len(adminSessions) + 1
        /\ r.access = req[s].access /\ r.refresh = req[s].refresh
    <3>1. Len(adminSessions) + 1 \in 0..MaxSessions
      BY <1>0, <1>1, <2>1
    <3>2. p \in {"reply", "ack"}
      OBVIOUS
    <3> HIDE DEF p
    <3> QED
      BY <2>1, <3>1, <3>2 DEF AuthRequest
  <2> HIDE DEF row, r, old
  <2>7. Grows /\ Len(adminSessions') = Len(adminSessions) + 1
    BY <1>0, <2>1, <2>3, <2>4, MoreGrows
  <2>8. Writes
    <3>1. jar' \in [access: 0..Len(adminSessions'), refresh: 0..Len(adminSessions')]
      BY <1>0, <2>1, <2>7 DEF TypeOK, authVars
    <3>2. (crossed \cup outrun \cup loggedOut)' \subseteq 1..Len(adminSessions')
      BY <1>0, <2>1, <2>7 DEF Typed, authVars
    <3>3. user.pw # 0
      BY <1>0, <2>2 DEF Accounts
    <3> QED
      BY <1>1, <2>1, <3>1, <3>2, <3>3 DEF Writes, authVars
  <2>9. faults' \in 0..MaxFaults /\ UNCHANGED <<asked, overlapped>>
    BY <1>1, <2>1 DEF bookVars
  <2>10. r.fresh \in 0..Len(adminSessions')
    BY <1>0, <2>6, <2>7
  <2> QED
    BY <2>1, <2>5, <2>6, <2>7, <2>8, <2>9, <2>10, MoveTyped
<1>13. CASE CheckAcknowledged(s)
  <2>1. IsAuth(s) /\ UNCHANGED <<deskVars, adminSessions, remoteSessions, bookVars, authVars>>
    BY <1>13 DEF CheckAcknowledged, At, IsAuth, AuthKinds
  <2>2. Grows /\ Writes
    BY <1>1, <1>4, <1>5, <2>1 DEF authVars
  <2>3. Goto(s, "serve") \/ Goto(s, "reply")
    BY <1>13 DEF CheckAcknowledged
  <2> QED
    BY <2>1, <2>2, <2>3, GotoTyped
<1>14. CASE Serve(s)
  <2>1. /\ IsAuth(s) /\ Goto(s, "reply") /\ ack' \in BOOLEAN
        /\ UNCHANGED <<deskVars, adminSessions, remoteSessions, bookVars, jar, failures,
                       crossed, outrun, loggedOut>>
    BY <1>14 DEF Serve, At, IsAuth, AuthKinds
  <2>2. Grows /\ Writes
    BY <1>1, <1>4, <1>5, <2>1
  <2> QED
    BY <2>1, <2>2, GotoTyped
<1>15. CASE Logout(s)
  <2> DEFINE i == IF req[s].fresh # 0 THEN req[s].fresh ELSE req[s].refresh
  <2>1. At(s, {"logout"}, "serve") /\ IsAuth(s) /\ LogoutEnds(s, i)
    BY <1>15 DEF Logout, At, IsAuth, AuthKinds
  <2>2. i \in 0..Len(adminSessions)
    BY <1>3, <2>1
  <2> HIDE DEF i
  <2>3. /\ UNCHANGED <<deskVars, remoteSessions, bookVars, jar, ack, failures, crossed>>
        /\ Goto(s, "reply")
        /\ loggedOut' \cup outrun' \subseteq loggedOut \cup outrun \cup
             (IF i = 0 THEN {} ELSE {adminSessions[i].from})
        /\ adminSessions' = IF Active(i, adminSessions)
                            THEN [adminSessions EXCEPT ![i].state = "revoked"] ELSE adminSessions
    BY <2>1 DEF LogoutEnds
  <2>4. adminSessions' \in Seq(Session) /\ Fewer(adminSessions, adminSessions')
    BY <1>0, <2>2, <2>3, OneEnded, SameRows DEF Active
  <2>5. Grows
    BY <2>4, FewerGrows
  <2>6. Len(adminSessions') = Len(adminSessions)
    BY <2>4 DEF Fewer
  <2>7. Writes
    <3>1. jar' \in [access: 0..Len(adminSessions'), refresh: 0..Len(adminSessions')]
      BY <1>0, <2>3, <2>6 DEF TypeOK
    <3>2. i # 0 => adminSessions[i].from \in 1..Len(adminSessions)
      BY <1>0, <2>2 DEF Typed
    <3>3. (crossed \cup outrun \cup loggedOut)' \subseteq 1..Len(adminSessions')
      BY <2>3, <2>6, <3>2 DEF Typed
    <3>4. user.pw = 0 => adminSessions' = <<>>
      BY <1>0, <2>3 DEF Accounts, Active
    <3> QED
      BY <1>1, <2>3, <3>1, <3>3, <3>4 DEF Writes
  <2> QED
    BY <2>1, <2>3, <2>5, <2>7, GotoTyped
<1>16. CASE Reply(s)
  <2>1. /\ IsAuth(s) /\ Finish(s)
        /\ UNCHANGED <<deskVars, adminSessions, remoteSessions, bookVars, ack, failures,
                       crossed, outrun, loggedOut>>
        /\ jar' \in {[access |-> 0, refresh |-> 0],
                     [access |-> req[s].fresh, refresh |-> req[s].fresh], jar}
    BY <1>16 DEF Reply, IsAuth, AuthKinds
  <2>2. jar' \in [access: 0..Len(adminSessions), refresh: 0..Len(adminSessions)]
    BY <1>0, <1>3, <2>1 DEF TypeOK
  <2>3. Grows
    BY <1>4, <2>1
  <2>4. Writes
    BY <1>0, <1>1, <2>1, <2>2 DEF Writes, Typed, Accounts
  <2>5. faults' \in 0..MaxFaults /\ UNCHANGED <<asked, overlapped>>
    BY <1>1, <2>1 DEF bookVars
  <2> QED
    BY <2>1, <2>3, <2>4, <2>5, FinishTyped
<1>17. CASE AuthFails(s)
  <2>1. /\ IsAuth(s)
        /\ UNCHANGED <<deskVars, adminSessions, remoteSessions, asked, overlapped, authVars>>
        /\ faults' \in 0..MaxFaults
    BY <1>0, <1>1, <1>17, Kinds, BoundsAssumption DEF AuthFails, IsAuth, AuthKinds, DeskKinds
  <2>2. Grows /\ Writes
    BY <1>1, <1>4, <1>5, <2>1 DEF authVars
  <2>3. CASE Finish(s)
    BY <2>1, <2>2, <2>3, FinishTyped
  <2>4. CASE req' = [req EXCEPT ![s].kind = "api", ![s].pc = "reply"]
    <3> DEFINE r == [req[s] EXCEPT !.kind = "api", !.pc = "reply"]
    <3>1. /\ r \in AuthRequest /\ r.pc = "reply" /\ r.kind = "api"
          /\ r.access = req[s].access /\ r.refresh = req[s].refresh /\ r.fresh = req[s].fresh
      BY <1>2, <2>1 DEF AuthRequest
    <3>2. req' = [req EXCEPT ![s] = r]
      BY <1>0, <2>4 DEF TypeOK
    <3> HIDE DEF r
    <3>3. r.fresh \in 0..Len(adminSessions')
      BY <1>3, <2>1, <3>1
    <3> QED
      BY <2>1, <2>2, <3>1, <3>2, <3>3, MoveTyped
  <2> QED
    BY <1>17, <2>3, <2>4 DEF AuthFails
<1> QED
  BY <1>6, <1>7, <1>8, <1>9, <1>10, <1>11, <1>12, <1>13, <1>14, <1>15, <1>16, <1>17 DEF AuthStep

(* A desk handler steps, the others stay. *)
DeskSlot(s, r) ==
  /\ req' \in [Slots -> Requests]
  /\ req'[s] = r
  /\ \A t \in Slots \ {s} : Stays(t)

LEMMA SlotFit ==
  ASSUME Typed, Grows, NEW s \in Slots, NEW r \in {Idle} \cup DeskRequest, DeskSlot(s, r),
         user.pw # 0 => user'.pw # 0,
         r.kind \in {"patch", "reset", "revoke"} => user'.pw # 0,
         r.kind = "create" => r.image \in NewRow
  PROVE  \A t \in Slots : Fit(t)'
<1>1. \A t \in Slots \ {s} : Fit(t)'
  BY StaysFit DEF DeskSlot
<1>2. req'[s] = r /\ NewRow' = NewRow
  BY DEF DeskSlot, NewRow, Row
<1>3. r.kind \notin AuthKinds
  BY DEF Idle, DeskRequest, AuthKinds
<1>4. Fit(s)'
  BY <1>2, <1>3 DEF Fit, IsAuth, At, AuthKinds
<1> QED
  BY <1>1, <1>4

LEMMA SlotResets ==
  ASSUME Typed, NEW s \in Slots, NEW r \in {Idle} \cup DeskRequest, DeskSlot(s, r)
  PROVE  /\ Resets' \subseteq Resets \cup {s}
         /\ ~(r.kind = "reset" /\ r.pc = "password") => Resets' \subseteq Resets \ {s}
<1>1. \A t \in Slots \ {s} : t \in Resets' => t \in Resets
  <2> SUFFICES ASSUME NEW t \in Slots \ {s}, t \in Resets'
               PROVE  t \in Resets
    OBVIOUS
  <2>1. req'[t].kind = "reset" /\ req'[t].pc = "password"
    BY DEF Resets
  <2>2. /\ req'[t].kind = req[t].kind
        /\ req[t] # Idle => req'[t].pc = req[t].pc
    BY StaysSame DEF DeskSlot, Typed
  <2> QED
    BY <2>1, <2>2 DEF Resets, Idle
<1>2. Resets' \subseteq Slots
  BY DEF Resets
<1>3. s \in Resets' => r.kind = "reset" /\ r.pc = "password"
  BY DEF Resets, DeskSlot
<1> QED
  BY <1>1, <1>2, <1>3

(* The account itself stays. *)
LEMMA SameAccount ==
  ASSUME Typed, Grows, NEW s \in Slots, NEW r \in {Idle} \cup DeskRequest, DeskSlot(s, r),
         ~(r.kind = "reset" /\ r.pc = "password"), user' = user, UNCHANGED authVars,
         r.kind \in {"patch", "reset", "revoke"} => user.pw # 0,
         r.kind = "create" => r.image \in NewRow,
         user.pw = 0 => adminSessions' = <<>>,
         scope' \subseteq Devices, wanted' = wanted,
         remoteSessions' \in Seq(Session), asked' \in asked..MaxRequests,
         faults' \in 0..MaxFaults, overlapped' \in BOOLEAN
  PROVE  Typed'
<1>1. UsersTypeOK /\ Accounts
  BY DEF Typed, TypeOK
<1>2. Resets' \subseteq Resets
  BY SlotResets
<1>3. /\ Cardinality(Resets') <= Cardinality(Resets) /\ Cardinality(Resets') \in Nat
      /\ Cardinality(Resets) \in Nat
  BY <1>2, ResetsBound
<1>4. user.pw \in Nat /\ asked \in Nat /\ asked' \in Nat /\ asked <= asked'
      /\ asked' \in 0..MaxRequests
  BY <1>1, BoundsAssumption DEF UsersTypeOK, Row
<1>5. Accounts'
  BY <1>1, <1>3, <1>4 DEF Accounts
<1>6. \A t \in Slots : Fit(t)'
  BY SlotFit
<1>7. user' \in Row /\ wanted' \subseteq Devices
  BY <1>1 DEF UsersTypeOK
<1>8. req' \in [Slots -> Requests]
  BY DEF DeskSlot
<1> QED
  BY <1>4, <1>5, <1>6, <1>7, <1>8, DeskTyped

LEMMA OneSlot ==
  ASSUME Typed, NEW s \in Slots, NEW r \in Requests, req' = [req EXCEPT ![s] = r]
  PROVE  DeskSlot(s, r)
BY DEF Typed, TypeOK, DeskSlot, Stays, Requests

LEMMA Widened ==
  ASSUME Typed, NEW s \in Slots, NEW r \in Requests, NEW ids,
         req' = Widen([req EXCEPT ![s] = r], ids)
  PROVE  DeskSlot(s, r)
<1>1. [req EXCEPT ![s] = r] \in [Slots -> Requests]
  BY DEF Typed, TypeOK, Requests
<1>2. req' = [req EXCEPT ![s] = r]
  BY <1>1, WidenNothing
<1> QED
  BY <1>2, OneSlot

LEMMA Overtaken ==
  ASSUME Typed, NEW s \in Slots, NEW r \in {Idle} \cup DeskRequest,
         req' = Overtake([req EXCEPT ![s] = r])
  PROVE  /\ DeskSlot(s, r)
         /\ \A t \in Slots : req[t] \in AuthRequest /\ t # s => req'[t].late
<1> DEFINE rs == [req EXCEPT ![s] = r]
<1>1. rs \in [Slots -> Requests] /\ rs[s] = r /\ \A t \in Slots \ {s} : rs[t] = req[t]
  BY DEF Typed, TypeOK, Requests
<1>2. req' = Overtake(rs)
  OBVIOUS
<1>3. r \notin AuthRequest
  BY DEF Idle, DeskRequest, AuthRequest
<1> HIDE DEF rs
<1>4. /\ req' \in [Slots -> Requests]
      /\ \A t \in Slots : /\ rs[t] \in AuthRequest => req'[t] = [rs[t] EXCEPT !.late = TRUE]
                          /\ rs[t] \notin AuthRequest => req'[t] = rs[t]
  <2>1. /\ Overtake(rs) \in [Slots -> Requests]
        /\ \A t \in Slots :
             /\ rs[t] \in AuthRequest => Overtake(rs)[t] = [rs[t] EXCEPT !.late = TRUE]
             /\ rs[t] \notin AuthRequest => Overtake(rs)[t] = rs[t]
    BY <1>1, OvertakeTypes
  <2> QED
    BY <1>2, <2>1
<1>5. \A t \in Slots \ {s} : Stays(t)
  BY <1>1, <1>4 DEF Stays
<1>6. ASSUME NEW t \in Slots, req[t] \in AuthRequest, t # s
      PROVE  req'[t].late
  <2>1. req'[t] = [req[t] EXCEPT !.late = TRUE]
    BY <1>1, <1>4, <1>6
  <2> QED
    BY <1>6, <2>1 DEF AuthRequest
<1> QED
  BY <1>1, <1>3, <1>4, <1>5, <1>6 DEF DeskSlot

-----------------------------------------------------------------------------
(* What the steps of the desk do to its request *)

LEMMA DeskBasics ==
  ASSUME Typed, NEW s \in Slots
  PROVE  /\ req[s].kind \in DeskKinds => req[s] \in DeskRequest
         /\ Idle \in {Idle} \cup DeskRequest /\ Idle.kind = "idle"
         /\ Finish(s) => DeskSlot(s, Idle)
         /\ \A p \in {"insertUser", "merge", "update", "clear", "insert", "reread",
                      "password", "revokeAdmin", "revokeRemote"} :
              Goto(s, p) /\ req[s] \in DeskRequest => DeskSlot(s, [req[s] EXCEPT !.pc = p])
<1>0. TypeOK
  BY DEF Typed
<1>1. Idle.kind = "idle" /\ Idle \in Requests
  BY DEF Idle, Requests
<1>2. req[s].kind \in DeskKinds => req[s] \in DeskRequest
  BY <1>0, Kinds
<1>3. Finish(s) => DeskSlot(s, Idle)
  BY <1>1, OneSlot DEF Finish
<1>4. ASSUME NEW p \in {"insertUser", "merge", "update", "clear", "insert", "reread",
                        "password", "revokeAdmin", "revokeRemote"},
             Goto(s, p), req[s] \in DeskRequest
      PROVE  DeskSlot(s, [req[s] EXCEPT !.pc = p])
  <2> DEFINE r == [req[s] EXCEPT !.pc = p]
  <2>1. req' = [req EXCEPT ![s] = r]
    BY <1>0, <1>4 DEF Goto, TypeOK
  <2>2. r \in Requests
    BY <1>4 DEF Requests, DeskRequest
  <2> HIDE DEF r
  <2>3. DeskSlot(s, r)
    BY <2>1, <2>2, OneSlot
  <2> QED
    BY <2>3 DEF r
<1> QED
  BY <1>1, <1>2, <1>3, <1>4

LEMMA BeginShape ==
  ASSUME Typed, NEW s \in Slots, DeskStarts(s)
  PROVE  \E r \in DeskRequest :
           /\ DeskBegin(s, r) /\ DeskSlot(s, r)
           /\ r.wasAdmin = user.admin
           /\ \/ r.kind = "create" /\ r.pc = "insertUser" /\ r.image \in NewRow
              \/ r.kind = "patch" /\ r.pc = "merge" /\ user # NoUser
              \/ r.kind = "reset" /\ r.pc = "password" /\ user # NoUser
              \/ r.kind = "revoke" /\ r.pc = "revokeAdmin" /\ user # NoUser
<1>0. /\ user.admin \in BOOLEAN /\ NoUser \in Row /\ {} \in SUBSET Devices
      /\ "none" \in Fields \cup {"none"} /\ TRUE \in BOOLEAN
  BY BoundsAssumption DEF Typed, TypeOK, UsersTypeOK, Row, NoUser
<1>1. ASSUME NEW r \in DeskRequest, DeskBegin(s, r)
      PROVE  DeskSlot(s, r)
  BY <1>1, OneSlot DEF DeskBegin, Begin, Requests
<1>2. ASSUME NEW row \in NewRow, NEW ids \in SUBSET Devices, CreateBegin(s, row, ids)
      PROVE  \E r \in DeskRequest :
               /\ DeskBegin(s, r) /\ r.wasAdmin = user.admin
               /\ r.kind = "create" /\ r.pc = "insertUser" /\ r.image \in NewRow
  <2> DEFINE r == [Desk("create", "insertUser", "none", row.selected, ids) EXCEPT !.image = row]
  <2>1. row \in Row /\ row.selected \in BOOLEAN
    BY DEF NewRow, Row
  <2>2. r \in DeskRequest /\ r.kind = "create" /\ r.image = row /\ r.pc = "insertUser"
        /\ r.wasAdmin = user.admin
    BY <1>0, <2>1 DEF Desk, DeskRequest
  <2>3. DeskBegin(s, r)
    BY <1>2 DEF CreateBegin
  <2> HIDE DEF r
  <2> QED
    BY <2>2, <2>3
<1>3. ASSUME NEW f \in Fields, NEW v \in BOOLEAN, NEW ids \in SUBSET Devices,
             PatchBegin(s, f, v, ids)
      PROVE  \E r \in DeskRequest :
               /\ DeskBegin(s, r) /\ r.wasAdmin = user.admin
               /\ r.kind = "patch" /\ r.pc = "merge" /\ user # NoUser
  <2> DEFINE r == Desk("patch", "merge", f, v, ids)
  <2>1. r \in DeskRequest /\ r.kind = "patch" /\ r.pc = "merge" /\ r.wasAdmin = user.admin
    BY <1>0 DEF Desk, DeskRequest
  <2>2. DeskBegin(s, r) /\ user # NoUser
    BY <1>3 DEF PatchBegin
  <2> HIDE DEF r
  <2> QED
    BY <2>1, <2>2
<1>4. ASSUME ResetBegin(s) \/ RevokeBegin(s)
      PROVE  \E r \in DeskRequest :
               /\ DeskBegin(s, r) /\ r.wasAdmin = user.admin /\ user # NoUser
               /\ \/ r.kind = "reset" /\ r.pc = "password"
                  \/ r.kind = "revoke" /\ r.pc = "revokeAdmin"
  <2> DEFINE r1 == Desk("reset", "password", "none", TRUE, {})
             r2 == Desk("revoke", "revokeAdmin", "none", TRUE, {})
  <2>1. /\ r1 \in DeskRequest /\ r1.kind = "reset" /\ r1.pc = "password"
        /\ r1.wasAdmin = user.admin
        /\ r2 \in DeskRequest /\ r2.kind = "revoke" /\ r2.pc = "revokeAdmin"
        /\ r2.wasAdmin = user.admin
    BY <1>0 DEF Desk, DeskRequest
  <2>2. user # NoUser /\ (DeskBegin(s, r1) \/ DeskBegin(s, r2))
    BY <1>4 DEF ResetBegin, RevokeBegin
  <2> HIDE DEF r1, r2
  <2> QED
    BY <2>1, <2>2
<1> QED
  BY <1>1, <1>2, <1>3, <1>4 DEF DeskStarts

LEMMA InsertShape ==
  ASSUME Typed, NEW s \in Slots, InsertUser(s)
  PROVE  /\ req[s].kind = "create" /\ req[s] \in DeskRequest
         /\ UNCHANGED <<scope, adminSessions, remoteSessions, bookVars>>
         /\ \/ DeskSlot(s, Idle) /\ user' = user /\ wanted' = wanted
            \/ /\ user = NoUser /\ user' = req[s].image /\ wanted' \subseteq Devices
               /\ \E r \in DeskRequest :
                    /\ DeskSlot(s, r)
                    /\ r.kind = "create" /\ r.pc = "clear" /\ r.image = req[s].image
<1>1. /\ req[s].kind = "create" /\ req[s] \in DeskRequest
      /\ UNCHANGED <<scope, adminSessions, remoteSessions, bookVars>>
  BY DeskBasics DEF InsertUser, At, DeskKinds
<1>2. CASE user = NoUser
  <2> DEFINE r == [req[s] EXCEPT !.pc = "clear"]
  <2>1. /\ user' = req[s].image /\ Goto(s, "clear") /\ wanted' \subseteq Devices
    BY <1>1, <1>2 DEF InsertUser, DeskRequest
  <2>2. r \in DeskRequest /\ r.kind = "create" /\ r.pc = "clear" /\ r.image = req[s].image
    BY <1>1 DEF DeskRequest
  <2>3. DeskSlot(s, r)
    BY <1>1, <2>1, DeskBasics
  <2> HIDE DEF r
  <2> QED
    BY <1>1, <1>2, <2>1, <2>2, <2>3
<1>3. CASE user # NoUser
  BY <1>1, <1>3, DeskBasics DEF InsertUser
<1> QED
  BY <1>2, <1>3

LEMMA MergeShape ==
  ASSUME Typed, NEW s \in Slots, Merge(s)
  PROVE  /\ req[s].kind = "patch" /\ req[s].pc = "merge" /\ req[s] \in DeskRequest
         /\ UNCHANGED <<deskVars, adminSessions, remoteSessions, bookVars>>
         /\ \E r \in DeskRequest :
              /\ DeskSlot(s, r)
              /\ r.kind = "patch" /\ r.pc = "update" /\ r.wasAdmin = req[s].wasAdmin
<1> DEFINE image == [user EXCEPT ![req[s].field] = req[s].value]
           r == [req[s] EXCEPT !.pc = "update", !.image = image]
<1>0. TypeOK /\ user \in Row
  BY DEF Typed, TypeOK, UsersTypeOK
<1>1. /\ req[s].kind = "patch" /\ req[s].pc = "merge" /\ req[s] \in DeskRequest
      /\ UNCHANGED <<deskVars, adminSessions, remoteSessions, bookVars>>
      /\ req' = [req EXCEPT ![s].pc = "update", ![s].image = image]
  BY DeskBasics DEF Merge, At, DeskKinds
<1>2. image \in Row
  <2>1. req[s].field \in {"admin", "active", "remote", "selected", "none"}
        /\ req[s].value \in BOOLEAN
    BY <1>1, BoundsAssumption DEF DeskRequest
  <2> QED
    BY <1>0, <2>1 DEF Row
<1>3. req' = [req EXCEPT ![s] = r]
  BY <1>0, <1>1 DEF TypeOK
<1> HIDE DEF image
<1>4. r \in DeskRequest /\ r.kind = "patch" /\ r.pc = "update" /\ r.wasAdmin = req[s].wasAdmin
  BY <1>1, <1>2 DEF DeskRequest
<1> HIDE DEF r
<1>5. DeskSlot(s, r)
  BY <1>3, <1>4, OneSlot DEF Requests
<1> QED
  BY <1>1, <1>4, <1>5

LEMMA UpdateShape ==
  ASSUME Typed, NEW s \in Slots, Update(s)
  PROVE  /\ req[s].kind = "patch" /\ req[s].pc = "update" /\ req[s] \in DeskRequest
         /\ UNCHANGED <<scope, adminSessions, remoteSessions, bookVars>>
         /\ user' \in Row /\ user'.pw = user.pw /\ wanted' \subseteq Devices
         /\ \E r \in DeskRequest :
              /\ DeskSlot(s, r)
              /\ r.kind = "patch" /\ r.pc \in {"clear", "reread"}
              /\ r.wasAdmin = req[s].wasAdmin
<1>0. TypeOK /\ user \in Row /\ wanted \subseteq Devices
  BY DEF Typed, TypeOK, UsersTypeOK
<1>1. /\ req[s].kind = "patch" /\ req[s].pc = "update" /\ req[s] \in DeskRequest
      /\ UNCHANGED <<scope, adminSessions, remoteSessions, bookVars>>
      /\ user' = [req[s].image EXCEPT !.pw = user.pw]
  BY DeskBasics DEF Update, At, DeskKinds
<1>2. user' \in Row /\ user'.pw = user.pw
  BY <1>0, <1>1 DEF DeskRequest, Row
<1>3. PICK p \in {"clear", "reread"} :
        /\ req' = Widen([req EXCEPT ![s].pc = p], Visible')
        /\ wanted' \subseteq Devices
  <2>1. req[s].ids \subseteq Devices
    BY <1>1 DEF DeskRequest
  <2> QED
    BY <1>0, <2>1 DEF Update
<1> DEFINE r == [req[s] EXCEPT !.pc = p]
<1>4. r \in DeskRequest /\ r.kind = "patch" /\ r.pc = p /\ r.wasAdmin = req[s].wasAdmin
  BY <1>1 DEF DeskRequest
<1>5. req' = Widen([req EXCEPT ![s] = r], Visible')
  BY <1>0, <1>3 DEF TypeOK
<1> HIDE DEF r
<1>6. DeskSlot(s, r)
  BY <1>4, <1>5, Widened DEF Requests
<1> QED
  BY <1>1, <1>2, <1>3, <1>4, <1>6

LEMMA AfterScopeShape ==
  ASSUME Typed, NEW s \in Slots, req[s] \in DeskRequest, NEW todo \in SUBSET Devices,
         AfterScope(s, todo)
  PROVE  \/ DeskSlot(s, Idle) /\ req[s].kind = "create"
         \/ \E r \in DeskRequest :
              /\ DeskSlot(s, r)
              /\ r.kind = req[s].kind /\ r.image = req[s].image
              /\ r.pc \in {"insert", "reread"} /\ r.wasAdmin = req[s].wasAdmin
<1> DEFINE r1 == [req[s] EXCEPT !.pc = "insert", !.todo = todo]
           r2 == [req[s] EXCEPT !.pc = "reread", !.todo = {}]
<1>1. /\ r1 \in DeskRequest /\ r1.kind = req[s].kind /\ r1.image = req[s].image
      /\ r1.pc = "insert" /\ r1.wasAdmin = req[s].wasAdmin
      /\ r2 \in DeskRequest /\ r2.kind = req[s].kind /\ r2.image = req[s].image
      /\ r2.pc = "reread" /\ r2.wasAdmin = req[s].wasAdmin
  BY DEF DeskRequest
<1>2. \/ req' = Widen([req EXCEPT ![s] = r1], Visible')
      \/ req' = Widen([req EXCEPT ![s] = Idle], Visible') /\ req[s].kind = "create"
      \/ req' = Widen([req EXCEPT ![s] = r2], Visible')
  BY DEF AfterScope, Typed, TypeOK
<1> HIDE DEF r1, r2
<1>3. /\ req' = Widen([req EXCEPT ![s] = r1], Visible') => DeskSlot(s, r1)
      /\ req' = Widen([req EXCEPT ![s] = r2], Visible') => DeskSlot(s, r2)
      /\ req' = Widen([req EXCEPT ![s] = Idle], Visible') => DeskSlot(s, Idle)
  BY <1>1, Widened DEF Requests
<1> QED
  BY <1>1, <1>2, <1>3

LEMMA ScopeShape ==
  ASSUME Typed, NEW s \in Slots, Clear(s) \/ \E d \in Devices : InsertScope(s, d)
  PROVE  /\ req[s].kind \in {"create", "patch"} /\ req[s].pc \in {"clear", "insert"}
         /\ req[s] \in DeskRequest
         /\ UNCHANGED <<user, wanted, adminSessions, remoteSessions, bookVars>>
         /\ scope' \subseteq Devices
         /\ \/ DeskSlot(s, Idle) /\ req[s].kind = "create"
            \/ \E r \in DeskRequest :
                 /\ DeskSlot(s, r)
                 /\ r.kind = req[s].kind /\ r.image = req[s].image
                 /\ r.pc \in {"insert", "reread"} /\ r.wasAdmin = req[s].wasAdmin
<1>1. /\ req[s].kind \in {"create", "patch"} /\ req[s].pc \in {"clear", "insert"}
      /\ UNCHANGED <<user, wanted, adminSessions, remoteSessions, bookVars>>
  BY DEF Clear, InsertScope, At
<1>2. req[s] \in DeskRequest /\ scope \subseteq Devices
  BY <1>1, DeskBasics DEF DeskKinds, Typed, TypeOK, UsersTypeOK
<1>3. req[s].ids \in SUBSET Devices /\ req[s].todo \in SUBSET Devices
  BY <1>2 DEF DeskRequest
<1>4. PICK todo \in SUBSET Devices : AfterScope(s, todo) /\ scope' \subseteq Devices
  <2>1. CASE Clear(s)
    <3>1. (IF req[s].value THEN req[s].ids ELSE {}) \in SUBSET Devices
      BY <1>3
    <3> QED
      BY <2>1, <3>1 DEF Clear
  <2>2. ASSUME NEW d \in Devices, InsertScope(s, d)
        PROVE  \E todo \in SUBSET Devices : AfterScope(s, todo) /\ scope' \subseteq Devices
    <3>1. (req[s].todo \ {d}) \in SUBSET Devices /\ scope \cup {d} \subseteq Devices
      BY <1>2, <1>3
    <3> QED
      BY <2>2, <3>1 DEF InsertScope
  <2> QED
    BY <2>1, <2>2
<1> QED
  BY <1>1, <1>2, <1>4, AfterScopeShape

LEMMA RereadShape ==
  ASSUME Typed, NEW s \in Slots, Reread(s)
  PROVE  /\ req[s].kind = "patch" /\ req[s].pc = "reread" /\ req[s] \in DeskRequest
         /\ UNCHANGED <<deskVars, adminSessions, remoteSessions, bookVars>>
         /\ \/ DeskSlot(s, Idle) /\ user.active /\ req[s].wasAdmin = user.admin
            \/ \E r \in DeskRequest :
                 DeskSlot(s, r) /\ r.kind = "patch" /\ r.pc = "revokeAdmin"
<1>1. /\ req[s].kind = "patch" /\ req[s].pc = "reread" /\ req[s] \in DeskRequest
      /\ UNCHANGED <<deskVars, adminSessions, remoteSessions, bookVars>>
      /\ Goto(s, "revokeAdmin") \/ (Finish(s) /\ user.active /\ req[s].wasAdmin = user.admin)
  BY DeskBasics DEF Reread, At, DeskKinds
<1> DEFINE r == [req[s] EXCEPT !.pc = "revokeAdmin"]
<1>2. r \in DeskRequest /\ r.kind = "patch" /\ r.pc = "revokeAdmin"
  BY <1>1 DEF DeskRequest
<1>3. /\ Goto(s, "revokeAdmin") => DeskSlot(s, r)
      /\ Finish(s) => DeskSlot(s, Idle)
  BY <1>1, DeskBasics
<1> HIDE DEF r
<1> QED
  BY <1>1, <1>2, <1>3

LEMMA PasswordShape ==
  ASSUME Typed, NEW s \in Slots, SetPassword(s)
  PROVE  /\ req[s].kind = "reset" /\ req[s].pc = "password" /\ req[s] \in DeskRequest
         /\ UNCHANGED <<scope, wanted, adminSessions, remoteSessions, bookVars>>
         /\ user' = [user EXCEPT !.pw = @ + 1]
         /\ \E r \in DeskRequest :
              DeskSlot(s, r) /\ r.kind = "reset" /\ r.pc = "revokeAdmin"
<1>1. /\ req[s].kind = "reset" /\ req[s].pc = "password" /\ req[s] \in DeskRequest
      /\ UNCHANGED <<scope, wanted, adminSessions, remoteSessions, bookVars>>
      /\ user' = [user EXCEPT !.pw = @ + 1] /\ Goto(s, "revokeAdmin")
  BY DeskBasics DEF SetPassword, At, DeskKinds
<1> DEFINE r == [req[s] EXCEPT !.pc = "revokeAdmin"]
<1>2. r \in DeskRequest /\ r.kind = "reset" /\ r.pc = "revokeAdmin"
  BY <1>1 DEF DeskRequest
<1>3. DeskSlot(s, r)
  BY <1>1, DeskBasics
<1> HIDE DEF r
<1> QED
  BY <1>1, <1>2, <1>3

LEMMA RevokeShape ==
  ASSUME Typed, NEW s \in Slots, RevokeAdmin(s) \/ RevokeRemote(s)
  PROVE  /\ req[s].kind \in {"patch", "reset", "revoke"} /\ req[s] \in DeskRequest
         /\ UNCHANGED <<deskVars, bookVars>>
         /\ \A t \in Slots : req[t] \in AuthRequest /\ t # s => req'[t].late
         /\ \/ /\ RevokeRemote(s) /\ req[s].pc = "revokeRemote" /\ DeskSlot(s, Idle)
               /\ adminSessions' = adminSessions
               /\ remoteSessions' = AllRevoked(remoteSessions)
            \/ /\ RevokeAdmin(s) /\ adminSessions' = AllRevoked(adminSessions)
               /\ remoteSessions' = remoteSessions
               /\ \E r \in DeskRequest :
                    DeskSlot(s, r) /\ r.kind = req[s].kind /\ r.pc = "revokeRemote"
<1>1. /\ req[s].kind \in {"patch", "reset", "revoke"} /\ req[s] \in DeskRequest
      /\ UNCHANGED <<deskVars, bookVars>>
  BY DeskBasics DEF RevokeAdmin, RevokeRemote, At, DeskKinds
<1>2. CASE RevokeRemote(s)
  <2>1. /\ adminSessions' = adminSessions /\ req[s].pc = "revokeRemote"
        /\ remoteSessions' = AllRevoked(remoteSessions)
        /\ req' = Overtake([req EXCEPT ![s] = Idle])
    BY <1>2 DEF RevokeRemote, At
  <2>2. DeskSlot(s, Idle) /\ \A t \in Slots : req[t] \in AuthRequest /\ t # s => req'[t].late
    BY <2>1, Overtaken
  <2> QED
    BY <1>1, <1>2, <2>1, <2>2
<1>3. CASE RevokeAdmin(s)
  <2> DEFINE r == [req[s] EXCEPT !.pc = "revokeRemote"]
  <2>1. r \in DeskRequest /\ r.kind = req[s].kind /\ r.pc = "revokeRemote"
    BY <1>1 DEF DeskRequest
  <2>2. req' = Overtake([req EXCEPT ![s] = r])
    BY <1>3 DEF RevokeAdmin, Typed, TypeOK
  <2> HIDE DEF r
  <2>3. DeskSlot(s, r) /\ \A t \in Slots : req[t] \in AuthRequest /\ t # s => req'[t].late
    BY <2>1, <2>2, Overtaken
  <2>4. adminSessions' = AllRevoked(adminSessions) /\ remoteSessions' = remoteSessions
    BY <1>3 DEF RevokeAdmin
  <2> QED
    BY <1>1, <1>3, <2>1, <2>3, <2>4
<1> QED
  BY <1>2, <1>3

LEMMA FailsShape ==
  ASSUME Typed, NEW s \in Slots, DeskFails(s)
  PROVE  /\ req[s].kind \in DeskKinds /\ DeskSlot(s, Idle) /\ faults' = faults + 1
         /\ faults < MaxFaults
         /\ UNCHANGED <<deskVars, adminSessions, remoteSessions, asked, overlapped>>
BY DeskBasics DEF DeskFails, DeskKinds

LEMMA TypedDesk ==
  ASSUME Typed, NEW s \in Slots, DeskStarts(s) \/ DeskStep(s) \/ DeskFails(s),
         UNCHANGED authVars
  PROVE  Typed'
<1>0. /\ TypeOK /\ UsersTypeOK /\ Accounts /\ Fit(s)
      /\ adminSessions \in Seq(Session) /\ remoteSessions \in Seq(Session)
      /\ user \in Row /\ user.pw \in Nat /\ scope \subseteq Devices /\ wanted \subseteq Devices
      /\ asked \in 0..MaxRequests /\ faults \in 0..MaxFaults /\ overlapped \in BOOLEAN
      /\ asked \in asked..MaxRequests
      /\ user.pw = 0 => adminSessions = <<>>
  BY BoundsAssumption DEF Typed, TypeOK, UsersTypeOK, Accounts, Row
<1>1. Idle.kind = "idle" /\ Idle \in {Idle} \cup DeskRequest
  BY DEF Idle
<1>2. UNCHANGED adminSessions => Grows
  BY SameGrows
<1>3. UNCHANGED bookVars => /\ asked' \in asked..MaxRequests /\ faults' \in 0..MaxFaults
                            /\ overlapped' \in BOOLEAN /\ asked' = asked
  BY <1>0 DEF bookVars
<1>4. UNCHANGED deskVars => user' = user /\ scope' \subseteq Devices /\ wanted' = wanted
  BY <1>0 DEF deskVars
<1>5. CASE DeskStarts(s)
  <2>1. PICK r \in DeskRequest :
          /\ DeskBegin(s, r) /\ DeskSlot(s, r)
          /\ r.kind \in {"patch", "reset", "revoke"} => user # NoUser
          /\ r.kind = "create" => r.image \in NewRow
    BY <1>5, BeginShape
  <2>2. /\ asked' = asked + 1 /\ asked < MaxRequests /\ overlapped' \in BOOLEAN
        /\ UNCHANGED <<deskVars, adminSessions, remoteSessions, faults>>
    BY <2>1 DEF DeskBegin, Begin
  <2>3. /\ user' = user /\ scope' = scope /\ wanted' = wanted /\ faults' = faults
        /\ adminSessions' = adminSessions /\ remoteSessions' = remoteSessions
    BY <2>2 DEF deskVars
  <2>4. user # NoUser => user.pw # 0
    BY <1>0 DEF Accounts
  <2>5. Grows
    BY <1>2, <2>3
  <2>6. \A t \in Slots : Fit(t)'
    BY <2>1, <2>3, <2>4, <2>5, SlotFit
  <2>7. Accounts'
    <3>1. Resets' \subseteq Resets \cup {s}
      BY <2>1, SlotResets
    <3>2. /\ Cardinality(Resets') <= Cardinality(Resets) + 1
          /\ Cardinality(Resets') \in Nat /\ Cardinality(Resets) \in Nat
      BY <3>1, ResetsBound
    <3> QED
      BY <1>0, <2>2, <2>3, <3>2 DEF Accounts
  <2>8. asked' \in 0..MaxRequests
    BY <1>0, <2>2, BoundsAssumption
  <2>9. req' \in [Slots -> Requests]
    BY <2>1 DEF DeskSlot
  <2> QED
    BY <1>0, <2>2, <2>3, <2>5, <2>6, <2>7, <2>8, <2>9, DeskTyped
<1>6. CASE InsertUser(s)
  <2>1. /\ req[s].kind = "create" /\ req[s] \in DeskRequest
        /\ UNCHANGED <<scope, adminSessions, remoteSessions, bookVars>>
    BY <1>6, InsertShape
  <2>2. Grows
    BY <1>2, <2>1
  <2>3. CASE DeskSlot(s, Idle) /\ user' = user /\ wanted' = wanted
    <3>1. scope' \subseteq Devices /\ remoteSessions' \in Seq(Session)
          /\ (user.pw = 0 => adminSessions' = <<>>)
      BY <1>0, <2>1
    <3> QED
      BY <1>1, <1>3, <2>1, <2>2, <2>3, <3>1, SameAccount
  <2>4. CASE user = NoUser /\ user' = req[s].image /\ wanted' \subseteq Devices
             /\ \E r \in DeskRequest :
                  /\ DeskSlot(s, r)
                  /\ r.kind = "create" /\ r.pc = "clear" /\ r.image = req[s].image
    <3>1. PICK r \in DeskRequest :
            /\ DeskSlot(s, r)
            /\ r.kind = "create" /\ r.pc = "clear" /\ r.image = req[s].image
      BY <2>4
    <3>2. /\ req[s].image \in NewRow /\ req[s].image \in Row /\ req[s].image.pw = 1
          /\ user.pw = 0 /\ adminSessions = <<>>
      BY <1>0, <2>1, <2>4 DEF Fit, NewRow, NoUser, Accounts
    <3>3. \A t \in Slots : Fit(t)'
      BY <2>2, <2>4, <3>1, <3>2, SlotFit
    <3>4. Resets = {}
      <4>1. \A t \in Slots : req[t].kind # "reset"
        BY <3>2 DEF Typed, Fit
      <4> QED
        BY <4>1 DEF Resets
    <3>5. Resets' \subseteq Resets
      BY <3>1, SlotResets
    <3>6. Cardinality(Resets') = 0
      BY <3>4, <3>5, FS_EmptySet
    <3>7. Accounts'
      BY <1>0, <1>3, <2>1, <2>4, <3>2, <3>6 DEF Accounts
    <3>8. /\ scope' \subseteq Devices /\ remoteSessions' \in Seq(Session)
          /\ asked' \in 0..MaxRequests /\ faults' \in 0..MaxFaults /\ overlapped' \in BOOLEAN
      BY <1>0, <1>3, <2>1
    <3>9. req' \in [Slots -> Requests] /\ user' \in Row
      BY <2>4, <3>1, <3>2 DEF DeskSlot
    <3> QED
      BY <2>2, <2>4, <3>3, <3>7, <3>8, <3>9, DeskTyped
  <2> QED
    BY <1>6, <2>3, <2>4, InsertShape
<1>7. CASE Merge(s)
  <2>1. /\ req[s].kind = "patch"
        /\ UNCHANGED <<deskVars, adminSessions, remoteSessions, bookVars>>
    BY <1>7, MergeShape
  <2>2. PICK r \in DeskRequest : DeskSlot(s, r) /\ r.kind = "patch" /\ r.pc = "update"
    BY <1>7, MergeShape
  <2>3. user.pw # 0
    BY <1>0, <2>1 DEF Fit
  <2>4. Grows /\ remoteSessions' \in Seq(Session)
    BY <1>0, <1>2, <2>1
  <2> QED
    BY <1>3, <1>4, <2>1, <2>2, <2>3, <2>4, SameAccount
<1>8. CASE Update(s)
  <2>1. /\ req[s].kind = "patch"
        /\ UNCHANGED <<scope, adminSessions, remoteSessions, bookVars>>
        /\ user' \in Row /\ user'.pw = user.pw /\ wanted' \subseteq Devices
    BY <1>8, UpdateShape
  <2>2. PICK r \in DeskRequest : DeskSlot(s, r) /\ r.kind = "patch"
    BY <1>8, UpdateShape
  <2>3. user.pw # 0
    BY <1>0, <2>1 DEF Fit
  <2>4. Grows
    BY <1>2, <2>1
  <2>5. \A t \in Slots : Fit(t)'
    BY <2>1, <2>2, <2>3, <2>4, SlotFit
  <2>6. Accounts'
    <3>1. Resets' \subseteq Resets
      BY <2>2, SlotResets
    <3>2. /\ Cardinality(Resets') <= Cardinality(Resets)
          /\ Cardinality(Resets') \in Nat /\ Cardinality(Resets) \in Nat
      BY <3>1, ResetsBound
    <3> QED
      BY <1>0, <1>3, <2>1, <2>3, <3>2 DEF Accounts
  <2>7. /\ scope' \subseteq Devices /\ remoteSessions' \in Seq(Session)
        /\ asked' \in 0..MaxRequests /\ faults' \in 0..MaxFaults /\ overlapped' \in BOOLEAN
    BY <1>0, <1>3, <2>1
  <2>8. req' \in [Slots -> Requests]
    BY <2>2 DEF DeskSlot
  <2> QED
    BY <2>1, <2>4, <2>5, <2>6, <2>7, <2>8, DeskTyped
<1>9. CASE Clear(s) \/ \E d \in Devices : InsertScope(s, d)
  <2>1. /\ req[s].kind \in {"create", "patch"} /\ scope' \subseteq Devices
        /\ UNCHANGED <<user, wanted, adminSessions, remoteSessions, bookVars>>
    BY <1>9, ScopeShape
  <2>2. PICK r \in {Idle} \cup DeskRequest :
          DeskSlot(s, r) /\ (r # Idle => r.kind = req[s].kind /\ r.image = req[s].image)
    <3>1. \/ DeskSlot(s, Idle)
          \/ \E r \in DeskRequest :
               DeskSlot(s, r) /\ r.kind = req[s].kind /\ r.image = req[s].image
      BY <1>9, ScopeShape
    <3> QED
      BY <1>1, <3>1
  <2>3. /\ r.kind \in {"patch", "reset", "revoke"} => user.pw # 0
        /\ r.kind = "create" => r.image \in NewRow
        /\ ~(r.kind = "reset" /\ r.pc = "password")
    BY <1>0, <1>1, <2>1, <2>2 DEF Fit
  <2>4. Grows /\ user' = user /\ wanted' = wanted /\ remoteSessions' \in Seq(Session)
        /\ (user.pw = 0 => adminSessions' = <<>>)
    BY <1>0, <1>2, <2>1
  <2> QED
    BY <1>3, <2>1, <2>2, <2>3, <2>4, SameAccount
<1>10. CASE Reread(s)
  <2>1. /\ req[s].kind = "patch"
        /\ UNCHANGED <<deskVars, adminSessions, remoteSessions, bookVars>>
    BY <1>10, RereadShape
  <2>2. PICK r \in {Idle} \cup DeskRequest : DeskSlot(s, r) /\ (r # Idle => r.kind = "patch")
    <3>1. DeskSlot(s, Idle) \/ \E r \in DeskRequest : DeskSlot(s, r) /\ r.kind = "patch"
      BY <1>10, RereadShape
    <3> QED
      BY <1>1, <3>1
  <2>3. /\ r.kind \in {"patch", "reset", "revoke"} => user.pw # 0
        /\ r.kind # "create" /\ r.kind # "reset"
    BY <1>0, <1>1, <2>1, <2>2 DEF Fit
  <2>4. Grows /\ remoteSessions' \in Seq(Session) /\ (user.pw = 0 => adminSessions' = <<>>)
    BY <1>0, <1>2, <2>1
  <2> QED
    BY <1>3, <1>4, <2>1, <2>2, <2>3, <2>4, SameAccount
<1>11. CASE SetPassword(s)
  <2>1. /\ req[s].kind = "reset" /\ req[s].pc = "password"
        /\ UNCHANGED <<scope, wanted, adminSessions, remoteSessions, bookVars>>
        /\ user' = [user EXCEPT !.pw = @ + 1]
    BY <1>11, PasswordShape
  <2>2. PICK r \in DeskRequest : DeskSlot(s, r) /\ r.kind = "reset" /\ r.pc = "revokeAdmin"
    BY <1>11, PasswordShape
  <2>3. s \in Resets /\ Resets' \subseteq Resets \ {s}
    BY <2>1, <2>2, SlotResets DEF Resets
  <2>4. /\ Cardinality(Resets') <= Cardinality(Resets) - 1
        /\ Cardinality(Resets') \in Nat /\ Cardinality(Resets) \in Nat
    BY <2>3, ResetsBound
  <2>5. user.pw + 1 \in 0..(MaxRequests + 1)
    BY <1>0, <2>4, BoundsAssumption DEF Accounts
  <2>6. user' \in Row /\ user'.pw = user.pw + 1 /\ user'.pw # 0
    <3>1. user \in Row /\ user' = [user EXCEPT !.pw = user.pw + 1]
      BY <1>0, <2>1
    <3>2. user' \in Row /\ user'.pw = user.pw + 1
      BY <2>5, <3>1 DEF Row
    <3>3. user.pw \in Nat
      BY <3>1, BoundsAssumption DEF Row
    <3> QED
      BY <3>2, <3>3
  <2>7. Grows
    BY <1>2, <2>1
  <2>8. \A t \in Slots : Fit(t)'
    BY <2>2, <2>6, <2>7, SlotFit
  <2>9. Accounts'
    BY <1>0, <1>3, <2>1, <2>4, <2>6 DEF Accounts
  <2>10. /\ scope' \subseteq Devices /\ wanted' \subseteq Devices
         /\ remoteSessions' \in Seq(Session)
         /\ asked' \in 0..MaxRequests /\ faults' \in 0..MaxFaults /\ overlapped' \in BOOLEAN
    BY <1>0, <1>3, <2>1
  <2>11. req' \in [Slots -> Requests]
    BY <2>2 DEF DeskSlot
  <2> QED
    BY <2>6, <2>7, <2>8, <2>9, <2>10, <2>11, DeskTyped
<1>12. CASE RevokeAdmin(s) \/ RevokeRemote(s)
  <2>1. /\ req[s].kind \in {"patch", "reset", "revoke"}
        /\ UNCHANGED <<deskVars, bookVars>>
    BY <1>12, RevokeShape
  <2>2. PICK r \in {Idle} \cup DeskRequest :
          DeskSlot(s, r) /\ (r # Idle => r.kind = req[s].kind /\ r.pc = "revokeRemote")
    <3>1. \/ DeskSlot(s, Idle)
          \/ \E r \in DeskRequest :
               DeskSlot(s, r) /\ r.kind = req[s].kind /\ r.pc = "revokeRemote"
      BY <1>12, RevokeShape
    <3> QED
      BY <1>1, <3>1
  <2>3. user.pw # 0 /\ r.kind # "create" /\ ~(r.kind = "reset" /\ r.pc = "password")
    BY <1>0, <1>1, <2>1, <2>2 DEF Fit
  <2>4. /\ adminSessions' = adminSessions \/ adminSessions' = AllRevoked(adminSessions)
        /\ remoteSessions' = remoteSessions \/ remoteSessions' = AllRevoked(remoteSessions)
    BY <1>12, RevokeShape
  <2>5. Grows
    BY <1>0, <1>2, <2>4, AllRevokedRows, FewerGrows
  <2>6. remoteSessions' \in Seq(Session)
    BY <1>0, <2>4, AllRevokedRows
  <2> QED
    BY <1>3, <1>4, <2>1, <2>2, <2>3, <2>5, <2>6, SameAccount
<1>13. CASE DeskFails(s)
  <2>1. /\ DeskSlot(s, Idle) /\ faults' = faults + 1 /\ faults < MaxFaults
        /\ UNCHANGED <<deskVars, adminSessions, remoteSessions, asked, overlapped>>
    BY <1>13, FailsShape
  <2>2. faults' \in 0..MaxFaults
    BY <1>0, <2>1, BoundsAssumption
  <2>3. /\ Grows /\ remoteSessions' \in Seq(Session) /\ (user.pw = 0 => adminSessions' = <<>>)
        /\ asked' \in asked..MaxRequests /\ overlapped' \in BOOLEAN
    BY <1>0, <1>2, <2>1
  <2> QED
    BY <1>1, <1>4, <2>1, <2>2, <2>3, SameAccount
<1> QED
  BY <1>5, <1>6, <1>7, <1>8, <1>9, <1>10, <1>11, <1>12, <1>13 DEF DeskStep

LEMMA TypedRest ==
  ASSUME Typed,
         \/ AccessExpires \/ WindowPasses \/ Restart \/ UNCHANGED vars
         \/ \E i \in 1..MaxSessions : SessionExpires(i)
  PROVE  Typed'
<1>0. /\ TypeOK /\ UsersTypeOK /\ Accounts
      /\ adminSessions \in Seq(Session) /\ Len(adminSessions) \in Nat
      /\ DOMAIN adminSessions = 1..Len(adminSessions)
      /\ jar \in [access: 0..Len(adminSessions), refresh: 0..Len(adminSessions)]
      /\ crossed \cup outrun \cup loggedOut \subseteq 1..Len(adminSessions)
      /\ req \in [Slots -> Requests]
  BY RowsOf DEF Typed, TypeOK, UsersTypeOK, Requests
<1>1. CASE AccessExpires \/ WindowPasses \/ UNCHANGED vars
  <2>1. /\ UNCHANGED <<userVars, ack, crossed, outrun, loggedOut>>
        /\ failures' \in {failures, 0}
        /\ jar' \in [access: 0..Len(adminSessions), refresh: 0..Len(adminSessions)]
    BY <1>0, <1>1 DEF AccessExpires, WindowPasses, Forgotten, vars, authVars
  <2>2. /\ UNCHANGED <<user, scope, wanted, adminSessions, remoteSessions, req>>
        /\ UNCHANGED <<asked, faults, overlapped, ack, crossed, outrun, loggedOut>>
    BY <2>1 DEF userVars, deskVars, bookVars
  <2>3. Grows
    BY <2>2, SameGrows
  <2>4. \A t \in Slots : Fit(t)'
    BY <2>2, <2>3, StaysFit DEF Stays
  <2>5. Accounts'
    BY <1>0, <2>2 DEF Accounts, Resets
  <2>6. TypeOK'
    BY <1>0, <2>1, <2>2 DEF TypeOK, UsersTypeOK, Row, AuthRequest, DeskRequest, MaxSessions
  <2> QED
    BY <2>2, <2>3, <2>4, <2>5, <2>6 DEF Typed
<1>2. CASE Restart
  <2>1. /\ UNCHANGED <<user, scope, wanted, adminSessions, remoteSessions>>
        /\ UNCHANGED <<asked, overlapped, jar, ack, crossed, outrun, loggedOut>>
        /\ faults' = faults + 1 /\ faults < MaxFaults /\ failures' = 0
        /\ req' = [s \in Slots |-> Idle]
    BY <1>2 DEF Restart, deskVars, Forgotten
  <2>2. /\ req' \in [Slots -> Requests] /\ \A t \in Slots : req'[t] = Idle
        /\ faults' \in 0..MaxFaults
    BY <1>0, <2>1, BoundsAssumption DEF Requests, UsersTypeOK
  <2>3. Grows
    BY <2>1, SameGrows
  <2>4. \A t \in Slots : Fit(t)'
    BY <2>2 DEF Fit, IsAuth, AuthKinds, At, Idle
  <2>5. Resets' \subseteq Resets
    BY <2>2 DEF Resets, Idle
  <2>6. /\ Cardinality(Resets') <= Cardinality(Resets)
        /\ Cardinality(Resets') \in Nat /\ Cardinality(Resets) \in Nat
    BY <2>5, ResetsBound
  <2>7. user.pw \in Nat /\ asked \in Nat
    BY <1>0 DEF UsersTypeOK, Row
  <2>8. Accounts'
    BY <1>0, <2>1, <2>6, <2>7 DEF Accounts
  <2>9. UsersTypeOK'
    BY <1>0, <2>1, <2>2 DEF UsersTypeOK, Row
  <2>10. req' \in [Slots -> {Idle} \cup DeskRequest' \cup AuthRequest']
    BY <2>2 DEF Requests, DeskRequest, AuthRequest, Row, MaxSessions
  <2>11. TypeOK'
    BY <1>0, <2>1, <2>9, <2>10 DEF TypeOK
  <2> QED
    BY <2>1, <2>3, <2>4, <2>8, <2>11 DEF Typed
<1>3. ASSUME NEW i \in 1..MaxSessions, SessionExpires(i)
      PROVE  Typed'
  <2>1. /\ UNCHANGED <<user, scope, wanted, remoteSessions, req>>
        /\ UNCHANGED <<asked, faults, overlapped, ack, failures, crossed, outrun, loggedOut>>
        /\ adminSessions' = [adminSessions EXCEPT ![i].state = "expired"]
        /\ i \in 1..Len(adminSessions)
    BY <1>0, <1>3 DEF SessionExpires, deskVars, bookVars, Active
  <2>2. adminSessions' \in Seq(Session) /\ Fewer(adminSessions, adminSessions')
    BY <1>0, <2>1, OneEnded
  <2>3. Grows
    BY <2>2, FewerGrows
  <2>4. Len(adminSessions') = Len(adminSessions)
    BY <2>2 DEF Fewer
  <2>5. jar' \in [access: 0..Len(adminSessions'), refresh: 0..Len(adminSessions')]
    BY <1>0, <1>3, <2>4 DEF SessionExpires
  <2>6. \A t \in Slots : Fit(t)'
    BY <2>1, <2>3, StaysFit DEF Stays
  <2>7. user.pw # 0
    BY <1>0, <2>1 DEF Accounts
  <2>8. Accounts'
    BY <1>0, <2>1, <2>7 DEF Accounts, Resets
  <2>9. UsersTypeOK'
    BY <1>0, <2>1, <2>2 DEF UsersTypeOK, Row
  <2>10. TypeOK'
    BY <1>0, <2>1, <2>3, <2>5, <2>9 DEF TypeOK, Grows, DeskRequest, AuthRequest, Row, MaxSessions
  <2> QED
    BY <1>0, <2>1, <2>3, <2>4, <2>6, <2>8, <2>10 DEF Typed, Grows
<1> QED
  BY <1>1, <1>2, <1>3

LEMMA TypedNext ==
  ASSUME Typed, [Next]_vars
  PROVE  Typed'
<1>1. ASSUME NEW s \in Slots,
             \/ DeskStarts(s) /\ UNCHANGED authVars
             \/ AuthStarts(s)
             \/ Step(s)
             \/ DeskFails(s) /\ UNCHANGED authVars
             \/ AuthFails(s)
      PROVE  Typed'
  BY <1>1, TypedDesk, TypedStarts, TypedAuth DEF Step
<1> QED
  BY <1>1, TypedRest DEF Next

-----------------------------------------------------------------------------
(* Types: the sessions a request names are rows of admin_sessions, and the *)
(* passwords an account has had are no more than were asked for.           *)
THEOREM TypeCorrect == Spec => []TypeOK
<1>1. Init => Typed
  BY TypedInit
<1>2. Typed /\ [Next]_vars => Typed'
  BY TypedNext
<1>3. Typed => TypeOK
  BY DEF Typed
<1> QED
  BY <1>1, <1>2, <1>3, PTL DEF Spec

-----------------------------------------------------------------------------
(* One chain of sessions per login *)

(* A step that ends sessions, if it does anything to them, and finds none. *)
Quiet ==
  /\ Fewer(adminSessions, adminSessions')
  /\ crossed' = crossed
  /\ \A t \in Slots : Holding(t)' =>
       Holding(t) /\ req'[t].pc = req[t].pc /\ req'[t].refresh = req[t].refresh

(* A step that tells no request, and not the browser, of a new session. *)
Known ==
  \A t \in Slots : IsAuth(t)' =>
    \/ IsAuth(t) /\ req'[t].refresh = req[t].refresh /\ req'[t].fresh = req[t].fresh
    \/ req'[t].refresh = jar.refresh /\ req'[t].fresh = 0

Untold == jar'.refresh \in {0, jar.refresh}

LEMMA FewerActive ==
  ASSUME Typed, Typed', Fewer(adminSessions, adminSessions'), NEW i, Active(i, adminSessions')
  PROVE  /\ Active(i, adminSessions) /\ i \in 1..Len(adminSessions) /\ i \in 1..MaxSessions
         /\ adminSessions'[i].from = adminSessions[i].from
         /\ adminSessions'[i].late = adminSessions[i].late
         /\ adminSessions'[i].pw = adminSessions[i].pw
<1>1. /\ DOMAIN adminSessions = 1..Len(adminSessions) /\ Len(adminSessions) \in Nat
      /\ DOMAIN adminSessions' = 1..Len(adminSessions')
      /\ Len(adminSessions) <= MaxSessions
  BY RowsOf DEF Typed, TypeOK, UsersTypeOK
<1>2. MaxSessions \in Nat
  BY BoundsAssumption DEF MaxSessions
<1> QED
  BY <1>1, <1>2 DEF Fewer, Active

LEMMA HoldingRow ==
  ASSUME Typed, NEW s \in Slots, Holding(s)
  PROVE  /\ req[s].refresh \in 1..Len(adminSessions)
         /\ Line(s) \in 1..Len(adminSessions)
         /\ req[s] \in AuthRequest /\ IsAuth(s)
<1>1. IsAuth(s)
  BY DEF Holding, Replacing, IsAuth, AuthKinds
<1>2. req[s].refresh \in 0..Len(adminSessions) /\ req[s].refresh # 0
  BY <1>1 DEF Typed, Fit, Named, Holding, Replacing
<1>3. req[s].refresh \in 1..Len(adminSessions) /\ Len(adminSessions) \in Nat
  BY <1>2, LenProperties DEF Typed, TypeOK, UsersTypeOK
<1>4. Line(s) \in 1..Len(adminSessions)
  BY <1>3 DEF Typed, Line
<1>5. req[s] \in AuthRequest
  BY <1>1, Kinds DEF Typed, IsAuth
<1> QED
  BY <1>1, <1>3, <1>4, <1>5

LEMMA QuietLine ==
  ASSUME Typed, Typed', Quiet, NEW s \in Slots, Holding(s)'
  PROVE  Holding(s) /\ Line(s)' = Line(s) /\ req'[s].pc = req[s].pc
         /\ req'[s].refresh = req[s].refresh
<1>1. Holding(s) /\ req'[s].pc = req[s].pc /\ req'[s].refresh = req[s].refresh
  BY DEF Quiet
<1>2. req[s].refresh \in 1..Len(adminSessions)
  BY <1>1, HoldingRow
<1> QED
  BY <1>1, <1>2 DEF Line, Quiet, Fewer

LEMMA QuietChain ==
  ASSUME Typed, Typed', OneChain, Quiet
  PROVE  OneChain'
<1>1. OneSessionPerLogin'
  BY FewerActive DEF OneChain, OneSessionPerLogin, Quiet, MaxSessions
<1>2. ASSUME NEW s \in Slots, Holding(s)', Line(s)' \notin crossed'
      PROVE  /\ \A i \in 1..MaxSessions :
                  Active(i, adminSessions') /\ adminSessions'[i].from = Line(s)'
                    => req'[s].pc = "retire" /\ i = req'[s].refresh
             /\ \A t \in Slots : Holding(t)' /\ Line(t)' = Line(s)' => t = s
  <2>1. /\ Holding(s) /\ Line(s)' = Line(s) /\ req'[s].pc = req[s].pc
        /\ req'[s].refresh = req[s].refresh /\ Line(s) \notin crossed
    BY <1>2, QuietLine DEF Quiet
  <2>2. \A i \in 1..MaxSessions :
          Active(i, adminSessions') /\ adminSessions'[i].from = Line(s)'
            => req'[s].pc = "retire" /\ i = req'[s].refresh
    BY <2>1, FewerActive DEF OneChain, Quiet
  <2>3. \A t \in Slots : Holding(t)' /\ Line(t)' = Line(s)' => t = s
    BY <2>1, QuietLine DEF OneChain
  <2> QED
    BY <2>2, <2>3
<1> QED
  BY <1>1, <1>2 DEF OneChain, MaxSessions

LEMMA QuietFresh ==
  ASSUME Typed, Typed', FreshIsLast, Quiet, Known
  PROVE  FreshIsLast'
<1> SUFFICES ASSUME NEW s \in Slots, IsAuth(s)', req'[s].fresh # 0,
                    adminSessions'[req'[s].fresh].from \notin crossed'
             PROVE  /\ \A i \in 1..MaxSessions :
                         Active(i, adminSessions')
                         /\ adminSessions'[i].from = adminSessions'[req'[s].fresh].from
                           => i = req'[s].fresh
                    /\ \A t \in Slots : Holding(t)' => Line(t)' # adminSessions'[req'[s].fresh].from
  BY DEF FreshIsLast, MaxSessions
<1>1. IsAuth(s) /\ req'[s].fresh = req[s].fresh /\ req[s].fresh # 0
  BY DEF Known
<1>2. req[s].fresh \in 1..Len(adminSessions)
  <2>1. Len(adminSessions) \in Nat
    BY LenProperties DEF Typed, TypeOK, UsersTypeOK
  <2> QED
    BY <1>1, <2>1 DEF Typed, Fit, Named
<1>3. adminSessions'[req'[s].fresh].from = adminSessions[req[s].fresh].from
      /\ adminSessions[req[s].fresh].from \notin crossed
  BY <1>1, <1>2 DEF Quiet, Fewer
<1>4. \A i \in 1..MaxSessions :
        Active(i, adminSessions')
        /\ adminSessions'[i].from = adminSessions'[req'[s].fresh].from
          => i = req'[s].fresh
  BY <1>1, <1>3, FewerActive DEF FreshIsLast, Quiet
<1>5. \A t \in Slots : Holding(t)' => Line(t)' # adminSessions'[req'[s].fresh].from
  BY <1>1, <1>3, QuietLine DEF FreshIsLast
<1> QED
  BY <1>4, <1>5

LEMMA QuietSecret ==
  ASSUME Typed, Typed', Secret, Known, Untold
  PROVE  Secret'
<1> SUFFICES ASSUME NEW s \in Slots, IsAuth(s)', req'[s].fresh # 0
             PROVE  /\ req'[s].fresh # jar'.refresh
                    /\ \A t \in Slots : IsAuth(t)' =>
                         /\ req'[t].refresh # req'[s].fresh
                         /\ t # s => req'[t].fresh # req'[s].fresh
  BY DEF Secret
<1>1. IsAuth(s) /\ req'[s].fresh = req[s].fresh
  BY DEF Known
<1> QED
  BY <1>1 DEF Secret, Known, Untold

LEMMA QuietEnded ==
  ASSUME Typed, Typed', Ended, Quiet, UNCHANGED <<outrun, loggedOut>>
  PROVE  Ended'
<1>1. LogoutIsFinal'
  BY FewerActive DEF Ended, LogoutIsFinal, Quiet, MaxSessions
<1>2. \A s \in Slots : Holding(s)' => Line(s)' \notin loggedOut' \ (crossed' \cup outrun')
  BY QuietLine DEF Ended, Quiet
<1> QED
  BY <1>1, <1>2 DEF Ended

LEMMA DeskEffect ==
  ASSUME Typed, NEW s \in Slots, DeskStarts(s) \/ DeskStep(s) \/ DeskFails(s)
  PROVE  /\ Fewer(adminSessions, adminSessions')
         /\ \E r \in {Idle} \cup DeskRequest : DeskSlot(s, r)
<1>0. adminSessions \in Seq(Session) /\ Idle \in {Idle} \cup DeskRequest
  BY DEF Typed, TypeOK, UsersTypeOK
<1>1. adminSessions' = adminSessions => Fewer(adminSessions, adminSessions')
  BY <1>0, SameRows
<1>2. adminSessions' = AllRevoked(adminSessions) => Fewer(adminSessions, adminSessions')
  BY <1>0, AllRevokedRows
<1>3. CASE DeskStarts(s)
  BY <1>1, <1>3, BeginShape DEF DeskBegin
<1>4. CASE InsertUser(s)
  BY <1>0, <1>1, <1>4, InsertShape
<1>5. CASE Merge(s)
  BY <1>1, <1>5, MergeShape
<1>6. CASE Update(s)
  BY <1>1, <1>6, UpdateShape
<1>7. CASE Clear(s) \/ \E d \in Devices : InsertScope(s, d)
  BY <1>0, <1>1, <1>7, ScopeShape
<1>8. CASE Reread(s)
  BY <1>0, <1>1, <1>8, RereadShape
<1>9. CASE SetPassword(s)
  BY <1>1, <1>9, PasswordShape
<1>10. CASE RevokeAdmin(s) \/ RevokeRemote(s)
  BY <1>0, <1>1, <1>2, <1>10, RevokeShape
<1>11. CASE DeskFails(s)
  BY <1>0, <1>1, <1>11, FailsShape
<1> QED
  BY <1>3, <1>4, <1>5, <1>6, <1>7, <1>8, <1>9, <1>10, <1>11 DEF DeskStep

LEMMA StaysHolding ==
  ASSUME Typed, NEW t \in Slots, Stays(t)
  PROVE  /\ Holding(t)' <=> Holding(t)
         /\ Holding(t) => req'[t].pc = req[t].pc /\ req'[t].refresh = req[t].refresh
         /\ IsAuth(t)' => /\ IsAuth(t) /\ req'[t].refresh = req[t].refresh
                          /\ req'[t].fresh = req[t].fresh
<1>1. /\ IsAuth(t)' <=> IsAuth(t)
      /\ req'[t].kind = req[t].kind
      /\ req[t] # Idle => req'[t].pc = req[t].pc
      /\ IsAuth(t) => req'[t].refresh = req[t].refresh /\ req'[t].fresh = req[t].fresh
  BY StaysSame DEF Typed
<1> QED
  BY <1>1 DEF Holding, Replacing, IsAuth, AuthKinds, Idle

LEMMA DeskQuiet ==
  ASSUME Typed, NEW s \in Slots, DeskStarts(s) \/ DeskStep(s) \/ DeskFails(s),
         UNCHANGED authVars
  PROVE  Quiet /\ Known /\ Untold /\ UNCHANGED <<outrun, loggedOut>>
<1>1. Fewer(adminSessions, adminSessions')
  BY DeskEffect
<1>2. PICK r \in {Idle} \cup DeskRequest : DeskSlot(s, r)
  BY DeskEffect
<1>3. r.kind \notin AuthKinds
  BY DEF Idle, DeskRequest, AuthKinds
<1>4. ~IsAuth(s)' /\ ~Holding(s)'
  BY <1>2, <1>3 DEF DeskSlot, IsAuth, Holding, Replacing, AuthKinds
<1>5. \A t \in Slots \ {s} : Stays(t)
  BY <1>2 DEF DeskSlot
<1>6. Quiet
  BY <1>1, <1>4, <1>5, StaysHolding DEF Quiet, authVars
<1>7. Known
  BY <1>4, <1>5, StaysHolding DEF Known
<1> QED
  BY <1>6, <1>7 DEF Untold, authVars

(* A step of a handler that finds nothing and makes nothing. *)
LEMMA SlotQuiet ==
  ASSUME Typed, NEW s \in Slots, NEW r \in {Idle} \cup AuthRequest,
         req' = [req EXCEPT ![s] = r],
         r \in AuthRequest => /\ r.pc \notin {"retire", "replace"} /\ IsAuth(s)
                              /\ r.refresh = req[s].refresh /\ r.fresh = req[s].fresh,
         Fewer(adminSessions, adminSessions'), crossed' = crossed
  PROVE  Quiet /\ Known
<1>1. req'[s] = r /\ \A t \in Slots \ {s} : Stays(t)
  BY DEF Typed, TypeOK, Stays
<1>2. ~Holding(s)' /\ (IsAuth(s)' => IsAuth(s) /\ r.refresh = req[s].refresh
                                     /\ r.fresh = req[s].fresh)
  BY <1>1 DEF Holding, Replacing, IsAuth, AuthKinds, Idle
<1> QED
  BY <1>1, <1>2, StaysHolding DEF Quiet, Known

LEMMA GotoQuiet ==
  ASSUME Typed, NEW s \in Slots, IsAuth(s),
         NEW p \in {"user", "hash", "create", "active", "find", "ack", "serve", "reply"},
         Goto(s, p) \/ Finish(s),
         Fewer(adminSessions, adminSessions'), crossed' = crossed
  PROVE  Quiet /\ Known
<1>1. req[s] \in AuthRequest
  BY Kinds DEF Typed, IsAuth
<1>2. CASE Finish(s)
  BY <1>2, SlotQuiet DEF Finish, Idle, AuthRequest
<1>3. CASE Goto(s, p)
  <2> DEFINE r == [req[s] EXCEPT !.pc = p]
  <2>1. r \in AuthRequest /\ r.pc = p /\ r.refresh = req[s].refresh /\ r.fresh = req[s].fresh
    BY <1>1 DEF AuthRequest
  <2>2. req' = [req EXCEPT ![s] = r]
    BY <1>3 DEF Goto, Typed, TypeOK
  <2> HIDE DEF r
  <2> QED
    BY <2>1, <2>2, SlotQuiet
<1> QED
  BY <1>2, <1>3

(* FindSession that finds one. *)
Finds(s) == FindSession(s) /\ Active(req[s].refresh, adminSessions)

LEMMA AuthQuiet ==
  ASSUME Typed, NEW s \in Slots, AuthStep(s) \/ AuthFails(s) \/ AuthStarts(s)
  PROVE  \/ Quiet /\ Known /\ Untold /\ UNCHANGED <<outrun, loggedOut>>
         \/ Quiet /\ Known /\ Untold /\ Logout(s)
         \/ Quiet /\ Known /\ UNCHANGED <<outrun, loggedOut>> /\ Reply(s)
         \/ Finds(s) \/ RetireSession(s) \/ ReplaceSession(s) \/ LoginCreate(s)
<1>0. /\ adminSessions \in Seq(Session)
      /\ DOMAIN adminSessions = 1..Len(adminSessions)
      /\ IsAuth(s) => req[s] \in AuthRequest
  BY RowsOf, Kinds DEF Typed, TypeOK, UsersTypeOK, IsAuth
<1>1. adminSessions' = adminSessions => Fewer(adminSessions, adminSessions')
  BY <1>0, SameRows
<1>2. CASE LoginUser(s) \/ LoginHash(s)
  <2>1. /\ IsAuth(s) /\ UNCHANGED <<adminSessions, jar, crossed, outrun, loggedOut>>
        /\ Goto(s, "hash") \/ Goto(s, "create") \/ Finish(s)
    BY <1>2 DEF LoginUser, LoginHash, Reject, At, IsAuth, AuthKinds
  <2> QED
    BY <1>1, <2>1, GotoQuiet DEF Untold
<1>3. CASE CheckActive(s) \/ CheckAcknowledged(s)
  <2>1. /\ IsAuth(s) /\ UNCHANGED <<adminSessions, jar, crossed, outrun, loggedOut>>
        /\ Goto(s, "ack") \/ Goto(s, "find") \/ Goto(s, "serve") \/ Goto(s, "reply")
    BY <1>3 DEF CheckActive, CheckAcknowledged, At, IsAuth, AuthKinds, authVars
  <2> QED
    BY <1>1, <2>1, GotoQuiet DEF Untold
<1>4. CASE FindSession(s) /\ ~Active(req[s].refresh, adminSessions)
  <2>1. /\ IsAuth(s) /\ UNCHANGED <<adminSessions, jar, crossed, outrun, loggedOut>>
        /\ Finish(s)
    BY <1>4 DEF FindSession, Replacing, IsAuth, AuthKinds
  <2> QED
    BY <1>1, <2>1, GotoQuiet DEF Untold
<1>5. CASE Serve(s)
  <2>1. /\ IsAuth(s) /\ UNCHANGED <<adminSessions, jar, crossed, outrun, loggedOut>>
        /\ Goto(s, "reply")
    BY <1>5 DEF Serve, At, IsAuth, AuthKinds
  <2> QED
    BY <1>1, <2>1, GotoQuiet DEF Untold
<1>6. CASE Logout(s)
  <2> DEFINE i == IF req[s].fresh # 0 THEN req[s].fresh ELSE req[s].refresh
  <2>1. IsAuth(s) /\ LogoutEnds(s, i)
    BY <1>6 DEF Logout, At, IsAuth, AuthKinds
  <2> HIDE DEF i
  <2>2. /\ UNCHANGED <<jar, crossed>> /\ Goto(s, "reply")
        /\ adminSessions' = IF Active(i, adminSessions)
                            THEN [adminSessions EXCEPT ![i].state = "revoked"] ELSE adminSessions
    BY <2>1 DEF LogoutEnds
  <2>3. Fewer(adminSessions, adminSessions')
    BY <1>0, <1>1, <2>2, OneEnded DEF Active
  <2> QED
    BY <1>6, <2>1, <2>2, <2>3, GotoQuiet DEF Untold
<1>7. CASE Reply(s)
  <2>1. /\ IsAuth(s) /\ UNCHANGED <<adminSessions, crossed, outrun, loggedOut>> /\ Finish(s)
    BY <1>7 DEF Reply, IsAuth, AuthKinds
  <2> QED
    BY <1>1, <1>7, <2>1, GotoQuiet
<1>8. CASE AuthFails(s)
  <2>1. IsAuth(s) /\ UNCHANGED <<adminSessions, jar, crossed, outrun, loggedOut>>
    BY <1>8, Kinds DEF AuthFails, authVars, IsAuth, AuthKinds, DeskKinds, Typed
  <2>2. CASE Finish(s)
    BY <1>1, <2>1, <2>2, GotoQuiet DEF Untold
  <2>3. CASE req' = [req EXCEPT ![s].kind = "api", ![s].pc = "reply"]
    <3> DEFINE r == [req[s] EXCEPT !.kind = "api", !.pc = "reply"]
    <3>1. r \in AuthRequest /\ r.pc = "reply" /\ r.refresh = req[s].refresh
          /\ r.fresh = req[s].fresh
      BY <1>0, <2>1 DEF AuthRequest
    <3>2. req' = [req EXCEPT ![s] = r]
      BY <2>3 DEF Typed, TypeOK
    <3> HIDE DEF r
    <3> QED
      BY <1>1, <2>1, <3>1, <3>2, SlotQuiet DEF Untold
  <2> QED
    BY <1>8, <2>2, <2>3 DEF AuthFails
<1>9. CASE AuthStarts(s)
  <2>1. PICK kind, pc, typed :
          kind \in AuthKinds /\ pc \in {"user", "find", "active"} /\ AuthBegin(s, kind, pc, typed)
    BY <1>9 DEF AuthStarts, LoginBegin, RefreshBegin, RouteBegin, AuthKinds
  <2> DEFINE r == Auth(kind, pc, typed)
  <2>2. /\ r.pc \notin {"retire", "replace"} /\ r.refresh = jar.refresh /\ r.fresh = 0
    BY <2>1 DEF Auth
  <2>3. /\ req' = [req EXCEPT ![s] = r]
        /\ UNCHANGED <<adminSessions, authVars>>
    BY <2>1 DEF AuthBegin, Begin
  <2> HIDE DEF r
  <2>4. req'[s] = r /\ \A t \in Slots \ {s} : Stays(t)
    BY <2>3 DEF Typed, TypeOK, Stays
  <2>5. ~Holding(s)'
    BY <2>2, <2>4 DEF Holding, Replacing
  <2>6. Quiet
    BY <1>1, <2>3, <2>4, <2>5, StaysHolding DEF Quiet, authVars
  <2>7. Known
    BY <2>2, <2>3, <2>4, StaysHolding DEF Known
  <2> QED
    BY <2>3, <2>6, <2>7 DEF Untold, authVars
<1> QED
  BY <1>2, <1>3, <1>4, <1>5, <1>6, <1>7, <1>8, <1>9 DEF AuthStep, Finds

LEMMA RestQuiet ==
  ASSUME Typed,
         \/ AccessExpires \/ WindowPasses \/ Restart \/ UNCHANGED vars
         \/ \E i \in 1..MaxSessions : SessionExpires(i)
  PROVE  Quiet /\ Known /\ Untold /\ UNCHANGED <<outrun, loggedOut>>
<1>0. /\ adminSessions \in Seq(Session)
      /\ DOMAIN adminSessions = 1..Len(adminSessions)
      /\ jar \in [access: 0..Len(adminSessions), refresh: 0..Len(adminSessions)]
  BY RowsOf DEF Typed, TypeOK, UsersTypeOK
<1>1. Fewer(adminSessions, adminSessions') /\ UNCHANGED <<crossed, outrun, loggedOut>>
  <2>1. ASSUME NEW i, SessionExpires(i)
        PROVE  Fewer(adminSessions, adminSessions') /\ UNCHANGED <<crossed, outrun, loggedOut>>
    BY <1>0, <2>1, OneEnded DEF SessionExpires, Active
  <2>2. CASE AccessExpires \/ WindowPasses \/ Restart \/ UNCHANGED vars
    BY <1>0, <2>2, SameRows DEF AccessExpires, WindowPasses, Restart, vars, userVars, authVars
  <2> QED
    BY <2>1, <2>2
<1>2. jar'.refresh \in {0, jar.refresh}
  BY <1>0 DEF AccessExpires, WindowPasses, Restart, SessionExpires, vars, authVars
<1>3. req' = req \/ \A t \in Slots : req'[t] = Idle
  BY DEF AccessExpires, WindowPasses, Restart, SessionExpires, vars, userVars
<1>4. \A t \in Slots : (Holding(t)' \/ IsAuth(t)') => Stays(t)
  BY <1>3 DEF Holding, Replacing, IsAuth, AuthKinds, Idle, Stays
<1> QED
  BY <1>1, <1>2, <1>4, StaysHolding DEF Quiet, Known, Untold

-----------------------------------------------------------------------------
(* The steps that find a session, end it and make one *)

LEMMA FindsFacts ==
  ASSUME Typed, NEW s \in Slots, Finds(s)
  PROVE  /\ IsAuth(s) /\ Active(req[s].refresh, adminSessions)
         /\ req[s].refresh \in 1..Len(adminSessions) /\ req[s].refresh \in 1..MaxSessions
         /\ Holding(s)' /\ req'[s].pc = "retire" /\ IsAuth(s)'
         /\ req'[s].refresh = req[s].refresh /\ req'[s].fresh = req[s].fresh
         /\ \A t \in Slots \ {s} : req'[t] = req[t]
         /\ adminSessions' = adminSessions
         /\ UNCHANGED <<jar, outrun, loggedOut>>
         /\ crossed \subseteq crossed'
         /\ \A t \in Slots \ {s} : Replacing(t, {"retire"}) /\ req[t].refresh = req[s].refresh
              => Line(s) \in crossed'
<1>1. /\ IsAuth(s) /\ Active(req[s].refresh, adminSessions) /\ Goto(s, "retire")
      /\ req[s].kind \in {"refresh", "api", "accept", "logout"}
      /\ adminSessions' = adminSessions /\ UNCHANGED <<jar, outrun, loggedOut>>
      /\ crossed' = IF \E t \in Slots \ {s} : Replacing(t, {"retire"})
                                              /\ req[t].refresh = req[s].refresh
                    THEN crossed \cup {adminSessions[req[s].refresh].from}
                    ELSE crossed
  BY DEF Finds, FindSession, Replacing, IsAuth, AuthKinds
<1>2. /\ Len(adminSessions) \in Nat /\ Len(adminSessions) <= MaxSessions /\ MaxSessions \in Nat
      /\ DOMAIN adminSessions = 1..Len(adminSessions)
  BY RowsOf, BoundsAssumption DEF Typed, TypeOK, UsersTypeOK, MaxSessions
<1>3. req[s].refresh \in 1..Len(adminSessions) /\ req[s].refresh \in 1..MaxSessions
  BY <1>1, <1>2 DEF Active
<1>4. req[s] \in AuthRequest
  BY <1>1, Kinds DEF Typed, IsAuth
<1>5. /\ req'[s] = [req[s] EXCEPT !.pc = "retire"]
      /\ \A t \in Slots \ {s} : req'[t] = req[t]
  BY <1>1 DEF Goto, Typed, TypeOK
<1>6. /\ req'[s].pc = "retire" /\ req'[s].kind = req[s].kind
      /\ req'[s].refresh = req[s].refresh /\ req'[s].fresh = req[s].fresh
  BY <1>4, <1>5 DEF AuthRequest
<1>7. Holding(s)' /\ IsAuth(s)'
  BY <1>1, <1>6 DEF Holding, Replacing, IsAuth
<1> QED
  BY <1>1, <1>3, <1>5, <1>6, <1>7 DEF Line

LEMMA RetireFacts ==
  ASSUME Typed, NEW s \in Slots, RetireSession(s)
  PROVE  /\ Holding(s) /\ req[s].pc = "retire" /\ IsAuth(s)
         /\ Holding(s)' /\ req'[s].pc = "replace" /\ IsAuth(s)'
         /\ req'[s].refresh = req[s].refresh /\ req'[s].fresh = req[s].fresh
         /\ \A t \in Slots \ {s} : req'[t] = req[t]
         /\ Fewer(adminSessions, adminSessions')
         /\ ~Active(req[s].refresh, adminSessions')
         /\ UNCHANGED <<jar, crossed, outrun, loggedOut>>
<1>1. /\ IsAuth(s) /\ req[s].pc = "retire" /\ Holding(s) /\ Goto(s, "replace")
      /\ req[s].kind \in {"refresh", "api", "accept", "logout"}
      /\ adminSessions' = [adminSessions EXCEPT ![req[s].refresh].state = "revoked"]
      /\ UNCHANGED <<jar, crossed, outrun, loggedOut>>
  BY DEF RetireSession, Replacing, Holding, IsAuth, AuthKinds, authVars
<1>2. req[s].refresh \in 1..Len(adminSessions) /\ req[s] \in AuthRequest
  BY <1>1, HoldingRow
<1>3. adminSessions \in Seq(Session)
  BY DEF Typed, TypeOK, UsersTypeOK
<1>4. Fewer(adminSessions, adminSessions') /\ ~Active(req[s].refresh, adminSessions')
  BY <1>1, <1>2, <1>3, OneEnded DEF Active
<1>5. /\ req'[s] = [req[s] EXCEPT !.pc = "replace"]
      /\ \A t \in Slots \ {s} : req'[t] = req[t]
  BY <1>1 DEF Goto, Typed, TypeOK
<1>6. /\ req'[s].pc = "replace" /\ req'[s].kind = req[s].kind
      /\ req'[s].refresh = req[s].refresh /\ req'[s].fresh = req[s].fresh
  BY <1>2, <1>5 DEF AuthRequest
<1>7. Holding(s)' /\ IsAuth(s)'
  BY <1>1, <1>6 DEF Holding, Replacing, IsAuth
<1> QED
  BY <1>1, <1>4, <1>5, <1>6, <1>7

(* A handler inserts a session of login f. *)
Makes(s, f) ==
  /\ Len(adminSessions') = Len(adminSessions) + 1
  /\ DOMAIN adminSessions' = 1..(Len(adminSessions) + 1)
  /\ adminSessions'[Len(adminSessions) + 1].from = f
  /\ \A i \in 1..Len(adminSessions) : adminSessions'[i] = adminSessions[i]
  /\ \/ f = Len(adminSessions) + 1
     \/ Holding(s) /\ req[s].pc = "replace" /\ f = Line(s)
  /\ adminSessions'[Len(adminSessions) + 1].late <=> Late(s)
  /\ \/ /\ At(s, {"login"}, "create")
        /\ adminSessions'[Len(adminSessions) + 1].pw = req[s].typed
     \/ /\ Holding(s)
        /\ adminSessions'[Len(adminSessions) + 1].pw = adminSessions[req[s].refresh].pw
  /\ ~Maker(s)'
  /\ ~Holding(s)' /\ IsAuth(s)'
  /\ req'[s].fresh = Len(adminSessions) + 1 /\ req'[s].refresh = req[s].refresh /\ IsAuth(s)
  /\ \A t \in Slots \ {s} : req'[t] = req[t]
  /\ UNCHANGED <<jar, crossed, outrun, loggedOut>>

LEMMA MakesFacts ==
  ASSUME Typed, NEW s \in Slots, ReplaceSession(s) \/ LoginCreate(s)
  PROVE  \E f : Makes(s, f)
<1>0. /\ adminSessions \in Seq(Session) /\ Len(adminSessions) \in Nat
      /\ \A i \in 1..Len(adminSessions) : adminSessions[i] \in Session
      /\ \A S \in Seq(Session) : DOMAIN S = 1..Len(S)
      /\ MaxSessions \in Nat
  BY RowsOf, BoundsAssumption DEF Typed, TypeOK, UsersTypeOK, MaxSessions
<1>1. CASE LoginCreate(s)
  <2> DEFINE row == [state |-> "active", from |-> Len(adminSessions) + 1,
                     pw |-> req[s].typed, late |-> req[s].late]
             r == [req[s] EXCEPT !.pc = "reply", !.fresh = Len(adminSessions) + 1]
  <2>1. /\ IsAuth(s) /\ req[s].kind = "login"
        /\ adminSessions' = Append(adminSessions, row)
        /\ UNCHANGED <<jar, crossed, outrun, loggedOut>>
    BY <1>1 DEF LoginCreate, NewSession, At, IsAuth, AuthKinds
  <2>2. req[s] \in AuthRequest
    BY <2>1, Kinds DEF Typed, IsAuth
  <2>3. row \in Session /\ row.from = Len(adminSessions) + 1
    BY <1>0, <2>2 DEF Session, AuthRequest
  <2>10. At(s, {"login"}, "create") /\ row.pw = req[s].typed /\ (row.late <=> Late(s))
    <3>1. At(s, {"login"}, "create") /\ ~Holding(s)
      BY <1>1 DEF LoginCreate, At, Holding, Replacing
    <3> QED
      BY <3>1 DEF Late
  <2>4. r.kind = "login" /\ r.pc = "reply" /\ r.fresh = Len(adminSessions) + 1 /\ r.refresh = req[s].refresh
    BY <2>1, <2>2 DEF AuthRequest
  <2>5. req' = [req EXCEPT ![s] = r]
    BY <1>1 DEF LoginCreate, Typed, TypeOK
  <2> HIDE DEF row, r
  <2>6. req'[s] = r /\ \A t \in Slots \ {s} : req'[t] = req[t]
    BY <2>5 DEF Typed, TypeOK
  <2>7. ~Holding(s)' /\ ~Maker(s)' /\ IsAuth(s)'
    BY <2>4, <2>6 DEF Holding, Replacing, IsAuth, AuthKinds, Maker, At
  <2>8. /\ Len(adminSessions') = Len(adminSessions) + 1
        /\ adminSessions' \in Seq(Session)
        /\ adminSessions'[Len(adminSessions) + 1] = row
        /\ \A i \in 1..Len(adminSessions) : adminSessions'[i] = adminSessions[i]
    BY <1>0, <2>1, <2>3, OneMore
  <2>9. Makes(s, Len(adminSessions) + 1)
    BY <1>0, <2>1, <2>3, <2>4, <2>6, <2>7, <2>8, <2>10 DEF Makes
  <2> QED
    BY <2>9
<1>2. CASE ReplaceSession(s)
  <2> DEFINE old == adminSessions[req[s].refresh]
             row == [old EXCEPT !.state = "active", !.late = old.late \/ req[s].late]
             p == IF req[s].kind = "refresh" THEN "reply" ELSE "ack"
             r == [req[s] EXCEPT !.pc = p, !.fresh = Len(adminSessions) + 1]
  <2>1. /\ Holding(s) /\ req[s].pc = "replace"
        /\ adminSessions' = Append(adminSessions, row)
        /\ UNCHANGED <<jar, crossed, outrun, loggedOut>>
    BY <1>2 DEF ReplaceSession, Replacing, Holding, NewSession, authVars
  <2>2. req[s].refresh \in 1..Len(adminSessions) /\ req[s] \in AuthRequest /\ IsAuth(s)
    BY <2>1, HoldingRow
  <2>3. row \in Session /\ row.from = Line(s)
    BY <1>0, <2>2 DEF Session, AuthRequest, Line
  <2>10. row.pw = old.pw /\ (row.late <=> Late(s))
    <3>1. old \in Session
      BY <1>0, <2>2
    <3>2. row.pw = old.pw /\ (row.late <=> old.late \/ req[s].late)
      BY <2>2, <3>1 DEF Session, AuthRequest
    <3> QED
      BY <2>1, <3>2 DEF Late
  <2>4. /\ r.kind = req[s].kind /\ r.fresh = Len(adminSessions) + 1
        /\ r.refresh = req[s].refresh /\ r.pc \in {"reply", "ack"}
    BY <2>2 DEF AuthRequest
  <2>5. req' = [req EXCEPT ![s] = r]
    BY <1>2 DEF ReplaceSession, Typed, TypeOK
  <2> HIDE DEF row, r, old, p
  <2>6. req'[s] = r /\ \A t \in Slots \ {s} : req'[t] = req[t]
    BY <2>5 DEF Typed, TypeOK
  <2>7. ~Holding(s)' /\ ~Maker(s)' /\ IsAuth(s)'
    BY <2>2, <2>4, <2>6 DEF Holding, Replacing, IsAuth, Maker, At
  <2>8. /\ Len(adminSessions') = Len(adminSessions) + 1
        /\ adminSessions' \in Seq(Session)
        /\ adminSessions'[Len(adminSessions) + 1] = row
        /\ \A i \in 1..Len(adminSessions) : adminSessions'[i] = adminSessions[i]
    BY <1>0, <2>1, <2>3, OneMore
  <2>9. Makes(s, Line(s))
    BY <1>0, <2>1, <2>2, <2>3, <2>4, <2>6, <2>7, <2>8, <2>10 DEF Makes, old
  <2> QED
    BY <2>9
<1> QED
  BY <1>1, <1>2

LEMMA SameHolding ==
  ASSUME NEW t \in Slots, req'[t] = req[t]
  PROVE  /\ Holding(t)' <=> Holding(t)
         /\ IsAuth(t)' <=> IsAuth(t)
BY DEF Holding, Replacing, IsAuth

(* What is old after a session was made. *)
LEMMA MakesOld ==
  ASSUME Typed, NEW s \in Slots, NEW f, Makes(s, f)
  PROVE  /\ Len(adminSessions) \in Nat /\ Len(adminSessions) + 1 \notin 1..Len(adminSessions)
         /\ \A i : Active(i, adminSessions') /\ i # Len(adminSessions) + 1
              => Active(i, adminSessions) /\ i \in 1..Len(adminSessions)
                 /\ i \in 1..MaxSessions
                 /\ adminSessions'[i].from = adminSessions[i].from
                 /\ adminSessions[i].from \in 1..Len(adminSessions)
         /\ \A t \in Slots : Holding(t)' =>
              /\ t # s /\ Holding(t) /\ req'[t] = req[t]
              /\ Line(t)' = Line(t) /\ Line(t) \in 1..Len(adminSessions)
<1>1. /\ Len(adminSessions) \in Nat /\ DOMAIN adminSessions = 1..Len(adminSessions)
      /\ Len(adminSessions) <= MaxSessions /\ MaxSessions \in Nat
      /\ \A i \in 1..Len(adminSessions) : adminSessions[i].from \in 1..i
  BY RowsOf, BoundsAssumption DEF Typed, TypeOK, UsersTypeOK, MaxSessions
<1>2. ASSUME NEW i, Active(i, adminSessions'), i # Len(adminSessions) + 1
      PROVE  Active(i, adminSessions) /\ i \in 1..Len(adminSessions)
             /\ i \in 1..MaxSessions
             /\ adminSessions'[i].from = adminSessions[i].from
             /\ adminSessions[i].from \in 1..Len(adminSessions)
  <2>1. i \in 1..Len(adminSessions)
    BY <1>1, <1>2 DEF Makes, Active
  <2> QED
    BY <1>1, <1>2, <2>1 DEF Makes, Active
<1>3. ASSUME NEW t \in Slots, Holding(t)'
      PROVE  /\ t # s /\ Holding(t) /\ req'[t] = req[t]
             /\ Line(t)' = Line(t) /\ Line(t) \in 1..Len(adminSessions)
  <2>1. t # s /\ req'[t] = req[t]
    BY <1>3 DEF Makes
  <2>2. Holding(t)
    BY <1>3, <2>1, SameHolding
  <2>3. req[t].refresh \in 1..Len(adminSessions) /\ Line(t) \in 1..Len(adminSessions)
    BY <2>2, HoldingRow
  <2> QED
    BY <2>1, <2>2, <2>3 DEF Line, Makes
<1> QED
  BY <1>1, <1>2, <1>3

-----------------------------------------------------------------------------
(* OneChain *)

LEMMA FindsChain ==
  ASSUME Typed, OneChain, NEW s \in Slots, Finds(s)
  PROVE  OneChain'
<1>0. /\ Active(req[s].refresh, adminSessions) /\ req[s].refresh \in 1..MaxSessions
      /\ req'[s].pc = "retire" /\ req'[s].refresh = req[s].refresh
      /\ \A t \in Slots \ {s} : req'[t] = req[t]
      /\ adminSessions' = adminSessions /\ crossed \subseteq crossed'
      /\ \A t \in Slots \ {s} : Replacing(t, {"retire"}) /\ req[t].refresh = req[s].refresh
           => Line(s) \in crossed'
  BY FindsFacts
<1>1. \A t \in Slots : Line(t)' = Line(t)
  BY <1>0 DEF Line
<1>2. \A t \in Slots \ {s} : Holding(t)' => Holding(t)
  BY <1>0, SameHolding
<1>3. adminSessions[req[s].refresh].from = Line(s)
  BY DEF Line
<1>4. OneSessionPerLogin'
  BY <1>0 DEF OneChain, OneSessionPerLogin, MaxSessions
<1>5. ASSUME NEW t \in Slots \ {s}, Holding(t), Line(t) = Line(s), Line(s) \notin crossed'
      PROVE  FALSE
  <2>1. req[t].pc = "retire" /\ req[t].refresh = req[s].refresh
    BY <1>0, <1>3, <1>5 DEF OneChain
  <2>2. Replacing(t, {"retire"})
    BY <1>5, <2>1 DEF Holding, Replacing
  <2> QED
    BY <1>0, <1>5, <2>1, <2>2
<1>6. ASSUME NEW u \in Slots, Holding(u)', Line(u)' \notin crossed'
      PROVE  /\ \A i \in 1..MaxSessions :
                  Active(i, adminSessions') /\ adminSessions'[i].from = Line(u)'
                    => req'[u].pc = "retire" /\ i = req'[u].refresh
             /\ \A t \in Slots : Holding(t)' /\ Line(t)' = Line(u)' => t = u
  <2>1. CASE u = s
    <3>1. ASSUME NEW i \in 1..MaxSessions,
                 Active(i, adminSessions'), adminSessions'[i].from = Line(u)'
          PROVE  req'[u].pc = "retire" /\ i = req'[u].refresh
      <4>1. /\ Active(i, adminSessions) /\ adminSessions[i].from = Line(s)
            /\ Line(s) \notin crossed
        BY <1>0, <1>1, <1>6, <2>1, <3>1
      <4>2. i = req[s].refresh
        BY <1>0, <1>3, <4>1 DEF OneChain, OneSessionPerLogin
      <4> QED
        BY <1>0, <2>1, <4>2
    <3>2. \A t \in Slots : Holding(t)' /\ Line(t)' = Line(u)' => t = u
      BY <1>1, <1>2, <1>5, <1>6, <2>1
    <3> QED
      BY <3>1, <3>2
  <2>2. CASE u # s
    <3>1. Holding(u) /\ req'[u] = req[u] /\ Line(u) \notin crossed
      BY <1>0, <1>1, <1>2, <1>6, <2>2
    <3>2. \A i \in 1..MaxSessions :
            Active(i, adminSessions') /\ adminSessions'[i].from = Line(u)'
              => req'[u].pc = "retire" /\ i = req'[u].refresh
      BY <1>0, <1>1, <3>1 DEF OneChain
    <3>3. \A t \in Slots \ {s} : Holding(t)' /\ Line(t)' = Line(u)' => t = u
      BY <1>1, <1>2, <3>1 DEF OneChain
    <3>4. Line(s)' # Line(u)'
      BY <1>1, <1>5, <1>6, <2>2, <3>1
    <3> QED
      BY <3>2, <3>3, <3>4
  <2> QED
    BY <2>1, <2>2
<1> QED
  BY <1>4, <1>6 DEF OneChain, MaxSessions

LEMMA RetireChain ==
  ASSUME Typed, Typed', OneChain, NEW s \in Slots, RetireSession(s)
  PROVE  OneChain'
<1>0. /\ Holding(s) /\ req[s].pc = "retire"
      /\ req'[s].refresh = req[s].refresh
      /\ \A t \in Slots \ {s} : req'[t] = req[t]
      /\ Fewer(adminSessions, adminSessions')
      /\ ~Active(req[s].refresh, adminSessions')
      /\ crossed' = crossed
  BY RetireFacts
<1>1. \A t \in Slots : Holding(t)' =>
        Holding(t) /\ Line(t)' = Line(t) /\ req'[t].refresh = req[t].refresh
  <2> SUFFICES ASSUME NEW t \in Slots, Holding(t)'
               PROVE  Holding(t) /\ Line(t)' = Line(t) /\ req'[t].refresh = req[t].refresh
    OBVIOUS
  <2>1. Holding(t) /\ req'[t].refresh = req[t].refresh
    BY <1>0, SameHolding
  <2>2. req[t].refresh \in 1..Len(adminSessions)
    BY <2>1, HoldingRow
  <2> QED
    BY <1>0, <2>1, <2>2 DEF Line, Fewer
<1>2. OneSessionPerLogin'
  BY <1>0, FewerActive DEF OneChain, OneSessionPerLogin, MaxSessions
<1>3. ASSUME NEW u \in Slots, Holding(u)', Line(u)' \notin crossed'
      PROVE  /\ \A i \in 1..MaxSessions :
                  Active(i, adminSessions') /\ adminSessions'[i].from = Line(u)'
                    => req'[u].pc = "retire" /\ i = req'[u].refresh
             /\ \A t \in Slots : Holding(t)' /\ Line(t)' = Line(u)' => t = u
  <2>1. /\ Holding(u) /\ Line(u)' = Line(u) /\ req'[u].refresh = req[u].refresh
        /\ Line(u) \notin crossed
    BY <1>0, <1>1, <1>3
  <2>2. \A t \in Slots : Holding(t)' /\ Line(t)' = Line(u)' => t = u
    BY <1>1, <2>1 DEF OneChain
  <2>3. ASSUME NEW i \in 1..MaxSessions,
               Active(i, adminSessions'), adminSessions'[i].from = Line(u)'
        PROVE  req'[u].pc = "retire" /\ i = req'[u].refresh
    <3>1. Active(i, adminSessions) /\ adminSessions[i].from = Line(u)
      BY <1>0, <2>1, <2>3, FewerActive
    <3>2. req[u].pc = "retire" /\ i = req[u].refresh
      BY <2>1, <3>1 DEF OneChain
    <3>3. u # s
      BY <1>0, <2>3, <3>2
    <3> QED
      BY <1>0, <3>2, <3>3
  <2> QED
    BY <2>2, <2>3
<1> QED
  BY <1>2, <1>3 DEF OneChain, MaxSessions

LEMMA MakesChain ==
  ASSUME Typed, OneChain, NEW s \in Slots, NEW f, Makes(s, f)
  PROVE  OneChain'
<1> DEFINE n == Len(adminSessions) + 1
<1>0. /\ adminSessions'[n].from = f /\ crossed' = crossed
      /\ \/ f = n
         \/ Holding(s) /\ req[s].pc = "replace" /\ f = Line(s)
  BY DEF Makes
<1>1. /\ n \notin 1..Len(adminSessions)
      /\ \A i : Active(i, adminSessions') /\ i # n
           => Active(i, adminSessions) /\ i \in 1..Len(adminSessions)
              /\ i \in 1..MaxSessions
              /\ adminSessions'[i].from = adminSessions[i].from
              /\ adminSessions[i].from \in 1..Len(adminSessions)
      /\ \A t \in Slots : Holding(t)' =>
           /\ t # s /\ Holding(t) /\ req'[t] = req[t]
           /\ Line(t)' = Line(t) /\ Line(t) \in 1..Len(adminSessions)
  BY MakesOld
<1> HIDE DEF n
<1>2. f \notin crossed => \A i : Active(i, adminSessions') /\ i # n => adminSessions'[i].from # f
  BY <1>0, <1>1 DEF OneChain
<1>3. OneSessionPerLogin'
  <2> SUFFICES ASSUME NEW i \in 1..MaxSessions, NEW j \in 1..MaxSessions,
                      Active(i, adminSessions'), Active(j, adminSessions'), i # j,
                      adminSessions'[i].from = adminSessions'[j].from
               PROVE  adminSessions'[i].from \in crossed'
    BY DEF OneSessionPerLogin, MaxSessions
  <2>1. CASE i = n \/ j = n
    BY <1>0, <1>2, <2>1
  <2>2. CASE i # n /\ j # n
    BY <1>0, <1>1, <2>2 DEF OneChain, OneSessionPerLogin
  <2> QED
    BY <2>1, <2>2
<1>4. ASSUME NEW u \in Slots, Holding(u)', Line(u)' \notin crossed'
      PROVE  /\ \A i \in 1..MaxSessions :
                  Active(i, adminSessions') /\ adminSessions'[i].from = Line(u)'
                    => req'[u].pc = "retire" /\ i = req'[u].refresh
             /\ \A t \in Slots : Holding(t)' /\ Line(t)' = Line(u)' => t = u
  <2>1. /\ u # s /\ Holding(u) /\ req'[u] = req[u] /\ Line(u)' = Line(u)
        /\ Line(u) \in 1..Len(adminSessions) /\ Line(u) \notin crossed
    BY <1>0, <1>1, <1>4
  <2>2. \A t \in Slots : Holding(t)' /\ Line(t)' = Line(u)' => t = u
    BY <1>1, <2>1 DEF OneChain
  <2>3. f # Line(u)
    <3>1. CASE f = n
      BY <1>1, <2>1, <3>1
    <3>2. CASE Holding(s) /\ f = Line(s)
      BY <2>1, <3>2 DEF OneChain
    <3> QED
      BY <1>0, <3>1, <3>2
  <2>4. \A i \in 1..MaxSessions :
          Active(i, adminSessions') /\ adminSessions'[i].from = Line(u)'
            => req'[u].pc = "retire" /\ i = req'[u].refresh
    BY <1>0, <1>1, <2>1, <2>3 DEF OneChain
  <2> QED
    BY <2>2, <2>4
<1> QED
  BY <1>3, <1>4 DEF OneChain, MaxSessions

-----------------------------------------------------------------------------
(* Secret *)

LEMMA MakesSecret ==
  ASSUME Typed, Secret, NEW s \in Slots, NEW f, Makes(s, f)
  PROVE  Secret'
<1> DEFINE n == Len(adminSessions) + 1
<1>0. /\ req'[s].fresh = n /\ req'[s].refresh = req[s].refresh /\ IsAuth(s)
      /\ \A t \in Slots \ {s} : req'[t] = req[t]
      /\ jar' = jar
  BY DEF Makes
<1>1. \A t \in Slots : IsAuth(t) => req[t].refresh \in 0..Len(adminSessions)
                                    /\ req[t].fresh \in 0..Len(adminSessions)
  BY DEF Typed, Fit, Named
<1>2. jar.refresh \in 0..Len(adminSessions) /\ Len(adminSessions) \in Nat
  BY LenProperties DEF Typed, TypeOK, UsersTypeOK
<1>3. n \notin 0..Len(adminSessions)
  BY <1>2
<1> HIDE DEF n
<1>4. \A t \in Slots \ {s} : IsAuth(t)' <=> IsAuth(t)
  BY <1>0, SameHolding
<1> SUFFICES ASSUME NEW u \in Slots, IsAuth(u)', req'[u].fresh # 0
             PROVE  /\ req'[u].fresh # jar'.refresh
                    /\ \A t \in Slots : IsAuth(t)' =>
                         /\ req'[t].refresh # req'[u].fresh
                         /\ t # u => req'[t].fresh # req'[u].fresh
  BY DEF Secret
<1>5. CASE u = s
  BY <1>0, <1>1, <1>2, <1>3, <1>4, <1>5
<1>6. CASE u # s
  <2>1. IsAuth(u) /\ req'[u] = req[u]
    BY <1>0, <1>4, <1>6
  <2> QED
    BY <1>0, <1>1, <1>3, <1>4, <2>1 DEF Secret
<1> QED
  BY <1>5, <1>6

LEMMA ReplySecret ==
  ASSUME Typed, Secret, NEW s \in Slots, Reply(s)
  PROVE  Secret'
<1>1. /\ IsAuth(s)
      /\ req'[s] = Idle /\ \A t \in Slots \ {s} : req'[t] = req[t]
      /\ jar'.refresh = 0 \/ (req[s].fresh # 0 /\ jar'.refresh = req[s].fresh)
         \/ jar'.refresh = jar.refresh
  BY DEF Reply, Finish, IsAuth, AuthKinds, Typed, TypeOK
<1>2. ~IsAuth(s)' /\ \A t \in Slots \ {s} : IsAuth(t)' <=> IsAuth(t)
  BY <1>1, SameHolding DEF IsAuth, Idle, AuthKinds
<1> QED
  BY <1>1, <1>2 DEF Secret

-----------------------------------------------------------------------------
(* FreshIsLast *)

LEMMA FreshRow ==
  ASSUME Typed, NEW s \in Slots, IsAuth(s), req[s].fresh # 0
  PROVE  req[s].fresh \in 1..Len(adminSessions)
         /\ adminSessions[req[s].fresh].from \in 1..Len(adminSessions)
<1>1. Len(adminSessions) \in Nat /\ req[s].fresh \in 0..Len(adminSessions)
  BY LenProperties DEF Typed, TypeOK, UsersTypeOK, Fit, Named
<1>2. req[s].fresh \in 1..Len(adminSessions)
  BY <1>1
<1> QED
  BY <1>1, <1>2 DEF Typed

LEMMA FindsFresh ==
  ASSUME Typed, Secret, FreshIsLast, NEW s \in Slots, Finds(s)
  PROVE  FreshIsLast'
<1>0. /\ IsAuth(s) /\ Active(req[s].refresh, adminSessions) /\ req[s].refresh \in 1..MaxSessions
      /\ req'[s].refresh = req[s].refresh /\ req'[s].fresh = req[s].fresh
      /\ \A t \in Slots \ {s} : req'[t] = req[t]
      /\ adminSessions' = adminSessions /\ crossed \subseteq crossed'
  BY FindsFacts
<1>1. \A t \in Slots : Line(t)' = Line(t)
  BY <1>0 DEF Line
<1>2. \A t \in Slots \ {s} : (Holding(t)' => Holding(t)) /\ (IsAuth(t)' => IsAuth(t))
  BY <1>0, SameHolding
<1> SUFFICES ASSUME NEW u \in Slots, IsAuth(u)', req'[u].fresh # 0,
                    adminSessions'[req'[u].fresh].from \notin crossed'
             PROVE  /\ \A i \in 1..MaxSessions :
                         Active(i, adminSessions')
                         /\ adminSessions'[i].from = adminSessions'[req'[u].fresh].from
                           => i = req'[u].fresh
                    /\ \A t \in Slots : Holding(t)' => Line(t)' # adminSessions'[req'[u].fresh].from
  BY DEF FreshIsLast, MaxSessions
<1>3. /\ IsAuth(u) /\ req'[u].fresh = req[u].fresh
      /\ adminSessions[req[u].fresh].from \notin crossed
  BY <1>0, <1>2
<1>4. \A i \in 1..MaxSessions :
        Active(i, adminSessions')
        /\ adminSessions'[i].from = adminSessions'[req'[u].fresh].from
          => i = req'[u].fresh
  BY <1>0, <1>3 DEF FreshIsLast
<1>5. \A t \in Slots \ {s} : Holding(t)' => Line(t)' # adminSessions'[req'[u].fresh].from
  BY <1>0, <1>1, <1>2, <1>3 DEF FreshIsLast
<1>6. req[s].refresh # req[u].fresh
  BY <1>0, <1>3 DEF Secret
<1>7. Line(s)' # adminSessions'[req'[u].fresh].from
  BY <1>0, <1>1, <1>3, <1>4, <1>6 DEF Line
<1> QED
  BY <1>4, <1>5, <1>7

LEMMA RetireFresh ==
  ASSUME Typed, Typed', FreshIsLast, NEW s \in Slots, RetireSession(s)
  PROVE  FreshIsLast'
<1>0. /\ IsAuth(s) /\ Holding(s)
      /\ req'[s].refresh = req[s].refresh /\ req'[s].fresh = req[s].fresh
      /\ \A t \in Slots \ {s} : req'[t] = req[t]
      /\ Fewer(adminSessions, adminSessions') /\ crossed' = crossed
  BY RetireFacts
<1>1. \A t \in Slots : Holding(t)' => Holding(t) /\ Line(t)' = Line(t)
  <2> SUFFICES ASSUME NEW t \in Slots, Holding(t)'
               PROVE  Holding(t) /\ Line(t)' = Line(t)
    OBVIOUS
  <2>1. Holding(t) /\ req'[t].refresh = req[t].refresh
    BY <1>0, SameHolding
  <2>2. req[t].refresh \in 1..Len(adminSessions)
    BY <2>1, HoldingRow
  <2> QED
    BY <1>0, <2>1, <2>2 DEF Line, Fewer
<1>2. \A t \in Slots : IsAuth(t)' => IsAuth(t) /\ req'[t].fresh = req[t].fresh
  BY <1>0, SameHolding
<1> SUFFICES ASSUME NEW u \in Slots, IsAuth(u)', req'[u].fresh # 0,
                    adminSessions'[req'[u].fresh].from \notin crossed'
             PROVE  /\ \A i \in 1..MaxSessions :
                         Active(i, adminSessions')
                         /\ adminSessions'[i].from = adminSessions'[req'[u].fresh].from
                           => i = req'[u].fresh
                    /\ \A t \in Slots : Holding(t)' => Line(t)' # adminSessions'[req'[u].fresh].from
  BY DEF FreshIsLast, MaxSessions
<1>3. IsAuth(u) /\ req'[u].fresh = req[u].fresh /\ req[u].fresh # 0
  BY <1>2
<1>4. req[u].fresh \in 1..Len(adminSessions)
  BY <1>3, FreshRow
<1>5. /\ adminSessions'[req'[u].fresh].from = adminSessions[req[u].fresh].from
      /\ adminSessions[req[u].fresh].from \notin crossed
  BY <1>0, <1>3, <1>4 DEF Fewer
<1>6. \A i \in 1..MaxSessions :
        Active(i, adminSessions')
        /\ adminSessions'[i].from = adminSessions'[req'[u].fresh].from
          => i = req'[u].fresh
  BY <1>0, <1>3, <1>5, FewerActive DEF FreshIsLast
<1>7. \A t \in Slots : Holding(t)' => Line(t)' # adminSessions'[req'[u].fresh].from
  BY <1>1, <1>3, <1>5 DEF FreshIsLast
<1> QED
  BY <1>6, <1>7

LEMMA MakesFresh ==
  ASSUME Typed, OneChain, FreshIsLast, NEW s \in Slots, NEW f, Makes(s, f)
  PROVE  FreshIsLast'
<1> DEFINE n == Len(adminSessions) + 1
<1>0. /\ adminSessions'[n].from = f /\ crossed' = crossed
      /\ \/ f = n
         \/ Holding(s) /\ req[s].pc = "replace" /\ f = Line(s)
      /\ req'[s].fresh = n
      /\ \A t \in Slots \ {s} : req'[t] = req[t]
      /\ \A i \in 1..Len(adminSessions) : adminSessions'[i] = adminSessions[i]
  BY DEF Makes
<1>1. /\ n \notin 1..Len(adminSessions)
      /\ \A i : Active(i, adminSessions') /\ i # n
           => Active(i, adminSessions) /\ i \in 1..Len(adminSessions)
              /\ i \in 1..MaxSessions
              /\ adminSessions'[i].from = adminSessions[i].from
              /\ adminSessions[i].from \in 1..Len(adminSessions)
      /\ \A t \in Slots : Holding(t)' =>
           /\ t # s /\ Holding(t) /\ req'[t] = req[t]
           /\ Line(t)' = Line(t) /\ Line(t) \in 1..Len(adminSessions)
  BY MakesOld
<1> HIDE DEF n
<1> SUFFICES ASSUME NEW u \in Slots, IsAuth(u)', req'[u].fresh # 0,
                    adminSessions'[req'[u].fresh].from \notin crossed'
             PROVE  /\ \A i \in 1..MaxSessions :
                         Active(i, adminSessions')
                         /\ adminSessions'[i].from = adminSessions'[req'[u].fresh].from
                           => i = req'[u].fresh
                    /\ \A t \in Slots : Holding(t)' => Line(t)' # adminSessions'[req'[u].fresh].from
  BY DEF FreshIsLast, MaxSessions
<1>2. CASE u = s
  <2>1. adminSessions'[req'[u].fresh].from = f /\ f \notin crossed
    BY <1>0, <1>2
  <2>2. \A i : Active(i, adminSessions') /\ i # n => adminSessions'[i].from # f
    BY <1>0, <1>1, <2>1 DEF OneChain
  <2>3. \A t \in Slots : Holding(t)' => Line(t)' # f
    <3>1. CASE f = n
      BY <1>1, <3>1
    <3>2. CASE Holding(s) /\ f = Line(s)
      BY <1>1, <2>1, <3>2 DEF OneChain
    <3> QED
      BY <1>0, <3>1, <3>2
  <2> QED
    BY <1>0, <1>2, <2>1, <2>2, <2>3
<1>3. CASE u # s
  <2>1. req'[u] = req[u] /\ IsAuth(u)
    BY <1>0, <1>3, SameHolding
  <2> DEFINE g == adminSessions[req[u].fresh].from
  <2>2. /\ adminSessions'[req'[u].fresh].from = g /\ g \notin crossed
        /\ g \in 1..Len(adminSessions)
    BY <1>0, <2>1, FreshRow
  <2>3. /\ \A i \in 1..MaxSessions :
             Active(i, adminSessions) /\ adminSessions[i].from = g => i = req[u].fresh
        /\ \A t \in Slots : Holding(t) => Line(t) # g
    BY <2>1, <2>2 DEF FreshIsLast
  <2> HIDE DEF g
  <2>4. f # g
    BY <1>0, <1>1, <2>2, <2>3
  <2> QED
    BY <1>0, <1>1, <2>1, <2>2, <2>3, <2>4
<1> QED
  BY <1>2, <1>3

-----------------------------------------------------------------------------
(* Ended *)

LEMMA FindsEnded ==
  ASSUME Typed, Ended, NEW s \in Slots, Finds(s)
  PROVE  Ended'
<1>0. /\ Active(req[s].refresh, adminSessions) /\ req[s].refresh \in 1..MaxSessions
      /\ req'[s].refresh = req[s].refresh
      /\ \A t \in Slots \ {s} : req'[t] = req[t]
      /\ adminSessions' = adminSessions /\ crossed \subseteq crossed'
      /\ outrun' = outrun /\ loggedOut' = loggedOut
  BY FindsFacts
<1>1. \A t \in Slots : Line(t)' = Line(t)
  BY <1>0 DEF Line
<1>2. LogoutIsFinal'
  BY <1>0 DEF Ended, LogoutIsFinal, MaxSessions
<1>3. \A t \in Slots \ {s} : Holding(t)' => Line(t)' \notin loggedOut' \ (crossed' \cup outrun')
  BY <1>0, <1>1, SameHolding DEF Ended
<1>4. Line(s)' \notin loggedOut' \ (crossed' \cup outrun')
  BY <1>0, <1>1 DEF Ended, LogoutIsFinal, Line
<1> QED
  BY <1>2, <1>3, <1>4 DEF Ended

LEMMA RetireEnded ==
  ASSUME Typed, Typed', Ended, NEW s \in Slots, RetireSession(s)
  PROVE  Ended'
<1>0. /\ Holding(s) /\ req'[s].refresh = req[s].refresh
      /\ \A t \in Slots \ {s} : req'[t] = req[t]
      /\ Fewer(adminSessions, adminSessions')
      /\ crossed' = crossed /\ outrun' = outrun /\ loggedOut' = loggedOut
  BY RetireFacts
<1>1. LogoutIsFinal'
  BY <1>0, FewerActive DEF Ended, LogoutIsFinal, MaxSessions
<1>2. ASSUME NEW t \in Slots, Holding(t)'
      PROVE  Line(t)' \notin loggedOut' \ (crossed' \cup outrun')
  <2>1. Holding(t) /\ req'[t].refresh = req[t].refresh
    BY <1>0, <1>2, SameHolding
  <2>2. req[t].refresh \in 1..Len(adminSessions)
    BY <2>1, HoldingRow
  <2>3. Line(t)' = Line(t)
    BY <1>0, <2>1, <2>2 DEF Line, Fewer
  <2> QED
    BY <1>0, <2>1, <2>3 DEF Ended
<1> QED
  BY <1>1, <1>2 DEF Ended

LEMMA MakesEnded ==
  ASSUME Typed, Ended, NEW s \in Slots, NEW f, Makes(s, f)
  PROVE  Ended'
<1> DEFINE n == Len(adminSessions) + 1
<1>0. /\ adminSessions'[n].from = f
      /\ crossed' = crossed /\ outrun' = outrun /\ loggedOut' = loggedOut
      /\ f = n \/ (Holding(s) /\ f = Line(s))
  BY DEF Makes
<1>1. /\ n \notin 1..Len(adminSessions)
      /\ \A i : Active(i, adminSessions') /\ i # n
           => Active(i, adminSessions) /\ i \in 1..MaxSessions
              /\ adminSessions'[i].from = adminSessions[i].from
      /\ \A t \in Slots : Holding(t)' => Holding(t) /\ Line(t)' = Line(t)
  BY MakesOld
<1>2. loggedOut \subseteq 1..Len(adminSessions)
  BY DEF Typed
<1> HIDE DEF n
<1>3. f \notin loggedOut \ (crossed \cup outrun)
  BY <1>0, <1>1, <1>2 DEF Ended
<1>4. LogoutIsFinal'
  BY <1>0, <1>1, <1>3 DEF Ended, LogoutIsFinal, MaxSessions
<1> QED
  BY <1>0, <1>1, <1>4 DEF Ended

LEMMA LogoutEnded ==
  ASSUME Typed, Typed', OneChain, FreshIsLast, Ended, Quiet, NEW s \in Slots, Logout(s)
  PROVE  Ended'
<1> DEFINE i == IF req[s].fresh # 0 THEN req[s].fresh ELSE req[s].refresh
           f == adminSessions[i].from
<1>1. /\ IsAuth(s) /\ req[s].pc = "serve" /\ LogoutEnds(s, i)
  BY DEF Logout, At, IsAuth, AuthKinds
<1>2. i \in 0..Len(adminSessions) /\ Len(adminSessions) \in Nat
      /\ Len(adminSessions) <= MaxSessions /\ MaxSessions \in Nat
  BY <1>1, BoundsAssumption, LenProperties
     DEF Typed, TypeOK, UsersTypeOK, Fit, Named, MaxSessions
<1>3. /\ loggedOut' = IF i = 0 THEN loggedOut ELSE loggedOut \cup {f}
      /\ outrun \subseteq outrun' /\ crossed' = crossed
      /\ i # 0 /\ f \notin outrun' =>
           /\ req[s].fresh = 0 => Active(i, adminSessions)
           /\ \A t \in Slots \ {s} : ~(Holding(t) /\ Line(t) = f)
      /\ ~Active(i, adminSessions')
  <2>1. adminSessions \in Seq(Session)
    BY DEF Typed, TypeOK, UsersTypeOK
  <2> HIDE DEF i, f
  <2>2. ~Active(i, adminSessions')
    <3>1. CASE Active(i, adminSessions)
      BY <1>1, <2>1, <3>1, OneEnded, RowsOf DEF LogoutEnds, Active
    <3>2. CASE ~Active(i, adminSessions)
      BY <1>1, <3>2 DEF LogoutEnds
    <3> QED
      BY <3>1, <3>2
  <2>3. crossed' = crossed /\ outrun \subseteq outrun'
        /\ loggedOut' = IF i = 0 THEN loggedOut ELSE loggedOut \cup {f}
    BY <1>1 DEF LogoutEnds, f
  <2>4. i # 0 /\ f \notin outrun' =>
           /\ req[s].fresh = 0 => Active(i, adminSessions)
           /\ \A t \in Slots \ {s} : ~(Holding(t) /\ Line(t) = f)
    BY <1>1 DEF LogoutEnds, f, Holding, Line
  <2> QED
    BY <2>2, <2>3, <2>4
<1>4. ~Holding(s)
  BY <1>1 DEF Holding, Replacing
<1>5. i # 0 /\ f \notin crossed \cup outrun' =>
        /\ \A j \in 1..MaxSessions : Active(j, adminSessions) /\ adminSessions[j].from = f
                                       => j = i
        /\ \A t \in Slots : Holding(t) => Line(t) # f
  <2> SUFFICES ASSUME i # 0, f \notin crossed, f \notin outrun'
               PROVE  /\ \A j \in 1..MaxSessions :
                           Active(j, adminSessions) /\ adminSessions[j].from = f => j = i
                      /\ \A t \in Slots : Holding(t) => Line(t) # f
    OBVIOUS
  <2>1. \A t \in Slots : Holding(t) => Line(t) # f
    BY <1>3, <1>4
  <2>2. CASE req[s].fresh # 0
    BY <1>1, <2>1, <2>2 DEF FreshIsLast
  <2>3. CASE req[s].fresh = 0
    <3>1. Active(i, adminSessions) /\ i \in 1..MaxSessions
      BY <1>2, <1>3, <2>3
    <3> HIDE DEF i
    <3> QED
      BY <2>1, <3>1 DEF OneChain, OneSessionPerLogin
  <2> QED
    BY <2>2, <2>3
<1> HIDE DEF i, f
<1>6. LogoutIsFinal'
  <2> SUFFICES ASSUME NEW j \in 1..MaxSessions, Active(j, adminSessions'),
                      adminSessions'[j].from \in loggedOut'
               PROVE  adminSessions'[j].from \in crossed' \cup outrun'
    BY DEF LogoutIsFinal, MaxSessions
  <2>1. Active(j, adminSessions) /\ adminSessions'[j].from = adminSessions[j].from /\ j # i
    BY <1>3, FewerActive DEF Quiet
  <2> QED
    BY <1>3, <1>5, <2>1 DEF Ended, LogoutIsFinal
<1>7. \A t \in Slots : Holding(t)' => Line(t)' \notin loggedOut' \ (crossed' \cup outrun')
  BY <1>3, <1>5, QuietLine DEF Ended
<1> QED
  BY <1>6, <1>7 DEF Ended

-----------------------------------------------------------------------------
LEMMA ChainsInit ==
  Init => Chains
<1> SUFFICES ASSUME Init PROVE Chains
  OBVIOUS
<1>1. \A s \in Slots : req[s] = Idle
  BY DEF Init, UsersInit
<1>2. \A s \in Slots : ~Holding(s) /\ ~IsAuth(s)
  BY <1>1 DEF Holding, Replacing, IsAuth, Idle, AuthKinds
<1>3. \A i, j : Active(i, adminSessions) /\ Active(j, adminSessions) => i = j
  BY DEF Init, Active
<1>4. loggedOut = {}
  BY DEF Init
<1> QED
  BY <1>2, <1>3, <1>4
     DEF Chains, OneChain, OneSessionPerLogin, Secret, FreshIsLast, Ended, LogoutIsFinal

LEMMA QuietChains ==
  ASSUME Typed, Typed', Chains, Quiet, Known, Untold, UNCHANGED <<outrun, loggedOut>>
  PROVE  Chains'
BY QuietChain, QuietSecret, QuietFresh, QuietEnded DEF Chains

LEMMA AuthChains ==
  ASSUME Typed, Typed', Chains, NEW s \in Slots, AuthStep(s) \/ AuthFails(s) \/ AuthStarts(s)
  PROVE  Chains'
<1>0. OneChain /\ Secret /\ FreshIsLast /\ Ended
  BY DEF Chains
<1>1. CASE Quiet /\ Known /\ Untold /\ UNCHANGED <<outrun, loggedOut>>
  BY <1>1, QuietChains
<1>2. CASE Quiet /\ Known /\ Untold /\ Logout(s)
  BY <1>0, <1>2, QuietChain, QuietSecret, QuietFresh, LogoutEnded DEF Chains
<1>3. CASE Quiet /\ Known /\ UNCHANGED <<outrun, loggedOut>> /\ Reply(s)
  BY <1>0, <1>3, QuietChain, ReplySecret, QuietFresh, QuietEnded DEF Chains
<1>4. CASE Finds(s)
  <2>1. Known /\ Untold
    BY <1>4, FindsFacts, SameHolding DEF Known, Untold
  <2> QED
    BY <1>0, <1>4, <2>1, FindsChain, QuietSecret, FindsFresh, FindsEnded DEF Chains
<1>5. CASE RetireSession(s)
  <2>1. Known /\ Untold
    BY <1>5, RetireFacts, SameHolding DEF Known, Untold
  <2> QED
    BY <1>0, <1>5, <2>1, RetireChain, QuietSecret, RetireFresh, RetireEnded DEF Chains
<1>6. CASE ReplaceSession(s) \/ LoginCreate(s)
  <2>1. PICK f : Makes(s, f)
    BY <1>6, MakesFacts
  <2> QED
    BY <1>0, <2>1, MakesChain, MakesSecret, MakesFresh, MakesEnded DEF Chains
<1> QED
  BY <1>1, <1>2, <1>3, <1>4, <1>5, <1>6, AuthQuiet

LEMMA ChainsNext ==
  ASSUME Typed, Chains, [Next]_vars
  PROVE  Chains'
<1>0. Typed'
  BY TypedNext
<1>1. ASSUME NEW s \in Slots, DeskStarts(s) \/ DeskStep(s) \/ DeskFails(s), UNCHANGED authVars
      PROVE  Chains'
  BY <1>0, <1>1, DeskQuiet, QuietChains
<1>2. ASSUME NEW s \in Slots, AuthStep(s) \/ AuthFails(s) \/ AuthStarts(s)
      PROVE  Chains'
  BY <1>0, <1>2, AuthChains
<1>3. CASE \/ AccessExpires \/ WindowPasses \/ Restart \/ UNCHANGED vars
           \/ \E i \in 1..MaxSessions : SessionExpires(i)
  BY <1>0, <1>3, RestQuiet, QuietChains
<1> QED
  BY <1>1, <1>2, <1>3 DEF Next, Step

(* A login has one active session however many tabs replace it, and after its *)
(* logout none, but where two handlers replaced one session at a time         *)
(* (auth/sessions.js:38, auth.js:63): rotation and logout lose no session of  *)
(* a login to the others.                                                     *)
THEOREM OneSession == Spec => []LoginHasOneSession
<1>1. Init => Typed /\ Chains
  BY TypedInit, ChainsInit
<1>2. Typed /\ Chains /\ [Next]_vars => Typed' /\ Chains'
  BY TypedNext, ChainsNext
<1>3. Chains => LoginHasOneSession
  BY DEF Chains, OneChain, Ended, LoginHasOneSession
<1> QED
  BY <1>1, <1>2, <1>3, PTL DEF Spec

-----------------------------------------------------------------------------
(* The rate limiter *)

LEMMA FewerAttempts ==
  ASSUME Limited, Typed, Attempts' \subseteq Attempts, failures' \in {failures, 0}
  PROVE  Limited'
<1>1. IsFiniteSet(Slots) /\ IsFiniteSet(Attempts) /\ Attempts \subseteq Slots
  BY BoundsAssumption, FS_Subset DEF Attempts
<1>2. /\ Cardinality(Slots) \in Nat /\ Cardinality(Attempts) \in Nat
      /\ Cardinality(Attempts') \in Nat
      /\ Cardinality(Attempts') <= Cardinality(Attempts)
  BY <1>1, FS_Subset, FS_CardinalityType
<1>3. failures \in Nat /\ MaxAttempts \in Nat
  BY AttemptsAssumption DEF Typed, TypeOK
<1> QED
  BY <1>2, <1>3 DEF Limited

LEMMA LimitedInit ==
  Init => Limited
<1> SUFFICES ASSUME Init PROVE Limited
  OBVIOUS
<1>1. Attempts = {}
  BY DEF Attempts, Init, UsersInit, Idle
<1>2. Cardinality(Attempts) = 0 /\ Cardinality(Slots) \in Nat
  BY <1>1, BoundsAssumption, FS_EmptySet, FS_CardinalityType
<1>3. failures = 0 /\ MaxAttempts \in Nat \ {0}
  BY AttemptsAssumption DEF Init
<1> QED
  BY <1>2, <1>3 DEF Limited

LEMMA LimitedBegin ==
  ASSUME Typed, Limited, NEW s \in Slots, AuthStarts(s)
  PROVE  Limited'
<1>0. /\ \A r : r.kind # "login" /\ req' = [req EXCEPT ![s] = r] => Attempts' \subseteq Attempts
      /\ req \in [Slots -> Requests]
  BY DEF Attempts, Typed, TypeOK, Requests
<1>1. CASE \E typed \in 0..(MaxRequests + 1) : LoginBegin(s, typed)
  <2>1. failures < MaxAttempts /\ failures' = failures
    BY <1>1 DEF LoginBegin, Allowed, AuthBegin, authVars
  <2>2. Attempts' \subseteq Slots /\ IsFiniteSet(Slots)
    BY BoundsAssumption DEF Attempts
  <2>3. /\ Cardinality(Attempts') <= Cardinality(Slots)
        /\ Cardinality(Attempts') \in Nat /\ Cardinality(Slots) \in Nat
    BY <2>2, FS_Subset, FS_CardinalityType
  <2>4. failures \in Nat /\ MaxAttempts \in Nat
    BY AttemptsAssumption DEF Typed, TypeOK
  <2> QED
    BY <2>1, <2>3, <2>4 DEF Limited
<1>2. CASE RefreshBegin(s) \/ \E kind \in {"api", "accept", "logout"} : RouteBegin(s, kind)
  <2>1. PICK kind \in {"refresh", "api", "accept", "logout"}, pc \in {"find", "active"} :
          AuthBegin(s, kind, pc, 0)
    BY <1>2 DEF RefreshBegin, RouteBegin
  <2>2. req' = [req EXCEPT ![s] = Auth(kind, pc, 0)] /\ failures' = failures
    BY <2>1 DEF AuthBegin, Begin, authVars
  <2>3. Auth(kind, pc, 0).kind # "login"
    BY DEF Auth
  <2>4. Attempts' \subseteq Attempts
    BY <1>0, <2>2, <2>3
  <2> QED
    BY <2>2, <2>4, FewerAttempts
<1> QED
  BY <1>1, <1>2 DEF AuthStarts

LEMMA LimitedReject ==
  ASSUME Typed, Limited, NEW s \in Attempts, Reject(s)
  PROVE  Limited'
<1>1. IsFiniteSet(Slots) /\ IsFiniteSet(Attempts) /\ Attempts \subseteq Slots
  BY BoundsAssumption, FS_Subset DEF Attempts
<1>2. Attempts' \subseteq Attempts \ {s}
  BY DEF Reject, Finish, Attempts, Idle, Typed, TypeOK
<1>3. /\ IsFiniteSet(Attempts \ {s}) /\ Cardinality(Attempts \ {s}) = Cardinality(Attempts) - 1
  BY <1>1, FS_RemoveElement
<1>4. /\ Cardinality(Attempts') <= Cardinality(Attempts) - 1
      /\ Cardinality(Attempts') \in Nat /\ Cardinality(Attempts) \in Nat
      /\ Cardinality(Slots) \in Nat
  BY <1>1, <1>2, <1>3, FS_Subset, FS_CardinalityType
<1>5. failures \in Nat /\ MaxAttempts \in Nat /\ failures' = failures + 1
  BY AttemptsAssumption DEF Typed, TypeOK, Reject, AfterFailure
<1> QED
  BY <1>4, <1>5 DEF Limited

LEMMA LimitedAuth ==
  ASSUME Typed, Limited, NEW s \in Slots, AuthStep(s) \/ AuthFails(s)
  PROVE  Limited'
<1>0. /\ req \in [Slots -> Requests]
      /\ req[s].kind \in AuthKinds => req[s] \in AuthRequest
  BY Kinds DEF Typed, TypeOK, Requests
<1>1. \A r : /\ req' = [req EXCEPT ![s] = r]
             /\ (r.kind = "login" /\ r.pc \in {"user", "hash"} => s \in Attempts)
             => Attempts' \subseteq Attempts
  BY <1>0 DEF Attempts
<1>2. Finish(s) => Attempts' \subseteq Attempts
  BY <1>1 DEF Finish, Idle
<1>3. \A p \in {"create", "active", "find", "retire", "replace", "ack", "serve", "reply"} :
        Goto(s, p) /\ req[s].kind \in AuthKinds => Attempts' \subseteq Attempts
  <2> SUFFICES ASSUME NEW p \in {"create", "active", "find", "retire", "replace", "ack",
                                 "serve", "reply"},
                      Goto(s, p), req[s].kind \in AuthKinds
               PROVE  Attempts' \subseteq Attempts
    OBVIOUS
  <2>1. req' = [req EXCEPT ![s] = [req[s] EXCEPT !.pc = p]]
    BY <1>0 DEF Goto
  <2>2. [req[s] EXCEPT !.pc = p].pc = p
    BY <1>0 DEF AuthRequest
  <2> QED
    BY <1>1, <2>1, <2>2
<1>4. CASE LoginUser(s)
  <2>1. s \in Attempts
    BY <1>4 DEF LoginUser, At, Attempts
  <2>2. CASE Goto(s, "hash") /\ failures' = failures
    <3>1. req' = [req EXCEPT ![s] = [req[s] EXCEPT !.pc = "hash"]]
      BY <1>0, <2>2 DEF Goto
    <3>2. Attempts' \subseteq Attempts
      BY <1>1, <2>1, <3>1
    <3> QED
      BY <2>2, <3>2, FewerAttempts
  <2> QED
    BY <1>4, <2>1, <2>2, LimitedReject DEF LoginUser
<1>5. CASE LoginHash(s)
  <2>1. s \in Attempts /\ req[s].kind \in AuthKinds
    BY <1>5 DEF LoginHash, At, Attempts, AuthKinds
  <2> QED
    BY <1>3, <1>5, <2>1, LimitedReject, FewerAttempts DEF LoginHash
<1>6. CASE LoginCreate(s)
  <2> DEFINE r == [req[s] EXCEPT !.pc = "reply", !.fresh = Len(adminSessions) + 1]
  <2>1. failures' = 0 /\ req[s] \in AuthRequest
    BY <1>0, <1>6 DEF LoginCreate, Forgotten, At, AuthKinds
  <2>2. req' = [req EXCEPT ![s] = r] /\ r.pc = "reply"
    BY <1>0, <1>6, <2>1 DEF LoginCreate, AuthRequest
  <2> HIDE DEF r
  <2>3. Attempts' \subseteq Attempts
    BY <1>1, <2>2
  <2> QED
    BY <2>1, <2>3, FewerAttempts
<1>7. CASE CheckActive(s) \/ CheckAcknowledged(s) \/ Serve(s) \/ FindSession(s)
  <2>1. /\ req[s].kind \in AuthKinds /\ failures' = failures
        /\ \/ Goto(s, "ack") \/ Goto(s, "find") \/ Goto(s, "serve") \/ Goto(s, "reply")
           \/ Goto(s, "retire") \/ Finish(s)
    BY <1>7 DEF CheckActive, CheckAcknowledged, Serve, FindSession, At, Replacing, AuthKinds,
                authVars
  <2>2. Attempts' \subseteq Attempts
    BY <1>2, <1>3, <2>1
  <2> QED
    BY <2>1, <2>2, FewerAttempts
<1>8. CASE RetireSession(s) \/ Logout(s)
  <2>1. /\ req[s].kind \in AuthKinds /\ failures' = failures
        /\ Goto(s, "replace") \/ Goto(s, "reply")
    BY <1>8 DEF RetireSession, Logout, LogoutEnds, At, Replacing, AuthKinds, authVars
  <2>2. Attempts' \subseteq Attempts
    BY <1>3, <2>1
  <2> QED
    BY <2>1, <2>2, FewerAttempts
<1>9. CASE ReplaceSession(s)
  <2> DEFINE p == IF req[s].kind = "refresh" THEN "reply" ELSE "ack"
             r == [req[s] EXCEPT !.pc = p, !.fresh = Len(adminSessions) + 1]
  <2>1. failures' = failures /\ req[s] \in AuthRequest
    BY <1>0, <1>9 DEF ReplaceSession, Replacing, AuthKinds, authVars
  <2>2. req' = [req EXCEPT ![s] = r]
    BY <1>0, <1>9 DEF ReplaceSession
  <2>3. r.pc = p /\ p \notin {"user", "hash"}
    BY <2>1 DEF AuthRequest
  <2> HIDE DEF r, p
  <2>4. Attempts' \subseteq Attempts
    BY <1>1, <2>2, <2>3
  <2> QED
    BY <2>1, <2>4, FewerAttempts
<1>10. CASE Reply(s)
  BY <1>2, <1>10, FewerAttempts DEF Reply
<1>11. CASE AuthFails(s)
  <2>1. failures' = failures
    BY <1>11 DEF AuthFails, authVars
  <2>2. CASE Finish(s)
    BY <1>2, <2>1, <2>2, FewerAttempts
  <2>3. CASE req[s].pc = "serve" /\ req' = [req EXCEPT ![s].kind = "api", ![s].pc = "reply"]
    <3> DEFINE r == [req[s] EXCEPT !.kind = "api", !.pc = "reply"]
    <3>1. req[s] \in AuthRequest
      BY <1>0, <1>11, Kinds DEF AuthFails, Typed, AuthKinds, DeskKinds
    <3>2. req' = [req EXCEPT ![s] = r] /\ r.pc = "reply"
      BY <1>0, <2>3, <3>1 DEF AuthRequest
    <3> HIDE DEF r
    <3>3. Attempts' \subseteq Attempts
      BY <1>1, <3>2
    <3> QED
      BY <2>1, <3>3, FewerAttempts
  <2> QED
    BY <1>11, <2>2, <2>3 DEF AuthFails
<1> QED
  BY <1>4, <1>5, <1>6, <1>7, <1>8, <1>9, <1>10, <1>11 DEF AuthStep

LEMMA LimitedNext ==
  ASSUME Typed, Limited, [Next]_vars
  PROVE  Limited'
<1>1. ASSUME NEW s \in Slots, DeskStarts(s) \/ DeskStep(s) \/ DeskFails(s), UNCHANGED authVars
      PROVE  Limited'
  <2>1. PICK r \in {Idle} \cup DeskRequest : DeskSlot(s, r)
    BY <1>1, DeskEffect
  <2>2. \A t \in Slots : t \in Attempts' => t \in Attempts
    <3> SUFFICES ASSUME NEW t \in Slots, t \in Attempts' PROVE t \in Attempts
      OBVIOUS
    <3>1. req'[t].kind = "login" /\ req'[t].pc \in {"user", "hash"}
      BY DEF Attempts
    <3>2. t # s
      BY <2>1, <3>1 DEF DeskSlot, Idle, DeskRequest
    <3>3. /\ req'[t].kind = req[t].kind
          /\ req[t] # Idle => req'[t].pc = req[t].pc
      BY <2>1, <3>2, StaysSame DEF DeskSlot, Typed
    <3> QED
      BY <3>1, <3>3 DEF Attempts, Idle
  <2>3. Attempts' \subseteq Attempts
    BY <2>2 DEF Attempts
  <2> QED
    BY <1>1, <2>3, FewerAttempts DEF authVars
<1>2. ASSUME NEW s \in Slots, AuthStep(s) \/ AuthFails(s) \/ AuthStarts(s)
      PROVE  Limited'
  BY <1>2, LimitedAuth, LimitedBegin
<1>3. CASE \/ AccessExpires \/ WindowPasses \/ Restart \/ UNCHANGED vars
           \/ \E i \in 1..MaxSessions : SessionExpires(i)
  <2>1. failures' \in {failures, 0}
    BY <1>3 DEF AccessExpires, WindowPasses, Restart, SessionExpires, Forgotten, vars, authVars
  <2>2. Attempts' \subseteq Attempts
    BY <1>3 DEF AccessExpires, WindowPasses, Restart, SessionExpires, vars, userVars, Attempts, Idle
  <2> QED
    BY <2>1, <2>2, FewerAttempts
<1> QED
  BY <1>1, <1>2, <1>3 DEF Next, Step

(* However many logins run at one time, the failures of a window exceed the   *)
(* maximum by fewer than can run: the check of the limiter                    *)
(* (auth/rate_limit.js) and its count are apart, and nothing else is lost.    *)
THEOREM FailuresAreBounded == Spec => []FailuresBounded
<1>1. Init => Typed /\ Limited
  BY TypedInit, LimitedInit
<1>2. Typed /\ Limited /\ [Next]_vars => Typed' /\ Limited'
  BY TypedNext, LimitedNext
<1>3. Typed /\ Limited => FailuresBounded
  <2> SUFFICES ASSUME Typed, Limited PROVE FailuresBounded
    OBVIOUS
  <2>1. IsFiniteSet(Slots) /\ IsFiniteSet(Attempts)
    BY BoundsAssumption, FS_Subset DEF Attempts
  <2>2. Cardinality(Slots) \in Nat /\ Cardinality(Attempts) \in Nat
    BY <2>1, FS_CardinalityType
  <2>3. failures \in Nat /\ MaxAttempts \in Nat
    BY AttemptsAssumption DEF Typed, TypeOK
  <2> QED
    BY <2>2, <2>3 DEF Limited, FailuresBounded
<1> QED
  BY <1>1, <1>2, <1>3, PTL DEF Spec

-----------------------------------------------------------------------------
(* What a revocation misses *)

(* A step that makes no session, and after which no handler is about to make *)
(* one that was not before.                                                  *)
Smooth ==
  /\ Fewer(adminSessions, adminSessions')
  /\ \A t \in Slots :
       /\ Maker(t)' => Maker(t) /\ (Late(t) => Late(t)')
       /\ At(t, {"login"}, "create")' => At(t, {"login"}, "create")
                                         /\ req'[t].typed = req[t].typed
       /\ Holding(t)' => Holding(t) /\ req'[t].refresh = req[t].refresh

LEMMA MakerKind ==
  ASSUME Typed, NEW t \in Slots, Maker(t)
  PROVE  IsAuth(t) /\ req[t] \in AuthRequest
<1>1. IsAuth(t)
  BY DEF Maker, At, Holding, Replacing, IsAuth, AuthKinds
<1> QED
  BY <1>1, Kinds DEF Typed, IsAuth

LEMMA StaysMaker ==
  ASSUME Typed, Fewer(adminSessions, adminSessions'), NEW t \in Slots, Stays(t)
  PROVE  /\ Maker(t)' => Maker(t) /\ (Late(t) => Late(t)')
         /\ At(t, {"login"}, "create")' => At(t, {"login"}, "create")
                                           /\ req'[t].typed = req[t].typed
         /\ Holding(t)' => Holding(t) /\ req'[t].refresh = req[t].refresh
<1>1. /\ IsAuth(t)' <=> IsAuth(t)
      /\ req'[t].kind = req[t].kind
      /\ req[t] # Idle => req'[t].pc = req[t].pc
      /\ IsAuth(t) => /\ req'[t].refresh = req[t].refresh
                      /\ req'[t].typed = req[t].typed
                      /\ req[t].late => req'[t].late
  BY StaysSame DEF Typed
<1>2. /\ Holding(t)' <=> Holding(t)
      /\ Holding(t) => req'[t].pc = req[t].pc /\ req'[t].refresh = req[t].refresh
  BY StaysHolding
<1>3. \A p \in {"hash", "create"} :
        At(t, {"login"}, p)' => At(t, {"login"}, p) /\ req'[t].typed = req[t].typed
  BY <1>1 DEF At, IsAuth, AuthKinds, Idle
<1>4. Maker(t)' => Maker(t)
  BY <1>2, <1>3 DEF Maker
<1>5. Maker(t) /\ Late(t) => Late(t)'
  <2> SUFFICES ASSUME Maker(t), Late(t) PROVE Late(t)'
    OBVIOUS
  <2>1. IsAuth(t)
    BY MakerKind
  <2>2. CASE req[t].late
    BY <1>1, <2>1, <2>2 DEF Late
  <2>3. CASE Holding(t) /\ adminSessions[req[t].refresh].late
    <3>1. req[t].refresh \in 1..Len(adminSessions)
      BY <2>3, HoldingRow
    <3> QED
      BY <1>2, <2>3, <3>1 DEF Late, Fewer
  <2> QED
    BY <2>2, <2>3 DEF Late
<1> QED
  BY <1>2, <1>3, <1>4, <1>5

LEMMA SlotSmooth ==
  ASSUME Typed, NEW s \in Slots, Fewer(adminSessions, adminSessions'),
         \A t \in Slots \ {s} : Stays(t), ~Maker(s)'
  PROVE  Smooth
BY StaysMaker DEF Smooth, Maker

LEMMA SmoothUpToDate ==
  ASSUME Typed, Typed', UpToDate, Smooth
  PROVE  UpToDate'
<1>1. \A i \in 1..MaxSessions : ~ActiveLater(i)'
  BY FewerActive DEF Smooth, UpToDate, ActiveLater
<1>2. \A t \in Slots : Maker(t)' => Late(t)'
  BY DEF Smooth, UpToDate
<1> QED
  BY <1>1, <1>2 DEF UpToDate, MaxSessions

LEMMA SmoothPassword ==
  ASSUME Typed, Typed', SamePassword, Smooth, user'.pw = user.pw
  PROVE  SamePassword'
<1>1. \A i \in 1..MaxSessions : ActiveLater(i)' => adminSessions'[i].pw = user'.pw
  BY FewerActive DEF Smooth, SamePassword, ActiveLater
<1>2. ASSUME NEW t \in Slots, At(t, {"login"}, "create")', ~Late(t)'
      PROVE  req'[t].typed = user'.pw
  <2>1. Maker(t)'
    BY <1>2 DEF Maker
  <2>2. At(t, {"login"}, "create") /\ req'[t].typed = req[t].typed /\ ~Late(t)
    BY <1>2, <2>1 DEF Smooth
  <2> QED
    BY <2>2 DEF SamePassword
<1>3. ASSUME NEW t \in Slots, Holding(t)', ~Late(t)'
      PROVE  adminSessions'[req'[t].refresh].pw = user'.pw
  <2>1. Maker(t)'
    BY <1>3 DEF Maker
  <2>2. Holding(t) /\ req'[t].refresh = req[t].refresh /\ ~Late(t)
    BY <1>3, <2>1 DEF Smooth
  <2>3. req[t].refresh \in 1..Len(adminSessions)
    BY <2>2, HoldingRow
  <2>4. adminSessions'[req[t].refresh].pw = adminSessions[req[t].refresh].pw
    BY <2>3 DEF Smooth, Fewer
  <2> QED
    BY <2>2, <2>4 DEF SamePassword
<1> QED
  BY <1>1, <1>2, <1>3 DEF SamePassword, MaxSessions

(* A revocation of the admin sessions overtakes every handler. *)
LEMMA RevokedUpToDate ==
  ASSUME Typed, Typed', NEW s \in Slots, RevokeAdmin(s)
  PROVE  UpToDate'
<1>1. /\ req[s] \in DeskRequest /\ \A t \in Slots : req[t] \in AuthRequest /\ t # s => req'[t].late
  BY RevokeShape
<1>2. adminSessions' = AllRevoked(adminSessions) /\ \E r \in DeskRequest : DeskSlot(s, r)
  BY RevokeShape DEF RevokeAdmin, RevokeRemote, At
<1>3. PICK r \in DeskRequest : DeskSlot(s, r)
  BY <1>2
<1>4. \A i \in 1..MaxSessions : ~ActiveLater(i)'
  <2>1. /\ Len(AllRevoked(adminSessions)) = Len(adminSessions)
        /\ \A i \in 1..Len(adminSessions) : AllRevoked(adminSessions)[i].state # "active"
        /\ AllRevoked(adminSessions) \in Seq(Session)
    BY AllRevokedRows DEF Typed, TypeOK, UsersTypeOK, Fewer
  <2>2. DOMAIN AllRevoked(adminSessions) = 1..Len(adminSessions)
    BY <2>1, RowsOf
  <2> QED
    BY <1>2, <2>1, <2>2 DEF ActiveLater, Active
<1>5. ASSUME NEW t \in Slots, Maker(t)'
      PROVE  Late(t)'
  <2>1. IsAuth(t)'
    BY <1>5 DEF Maker, At, Holding, Replacing, IsAuth, AuthKinds
  <2>2. t # s
    BY <1>3, <2>1 DEF DeskSlot, IsAuth, AuthKinds, DeskRequest
  <2>3. req[t] \in AuthRequest
    BY <1>3, <2>1, <2>2, StaysHolding, Kinds DEF DeskSlot, Typed, IsAuth
  <2> QED
    BY <1>1, <2>2, <2>3 DEF Late
<1> QED
  BY <1>4, <1>5 DEF UpToDate, MaxSessions

LEMMA DeskSmooth ==
  ASSUME Typed, NEW s \in Slots, DeskStarts(s) \/ DeskStep(s) \/ DeskFails(s)
  PROVE  Smooth
<1>1. PICK r \in {Idle} \cup DeskRequest : DeskSlot(s, r)
  BY DeskEffect
<1>2. ~Maker(s)'
  BY <1>1 DEF DeskSlot, Maker, At, Holding, Replacing, Idle, DeskRequest
<1>3. \A t \in Slots \ {s} : Stays(t)
  BY <1>1 DEF DeskSlot
<1> QED
  BY <1>2, <1>3, DeskEffect, SlotSmooth

LEMMA RestSmooth ==
  ASSUME Typed,
         \/ AccessExpires \/ WindowPasses \/ Restart \/ UNCHANGED vars
         \/ \E i \in 1..MaxSessions : SessionExpires(i)
  PROVE  Smooth
<1>1. Fewer(adminSessions, adminSessions')
  BY RestQuiet DEF Quiet
<1>2. req' = req \/ \A t \in Slots : req'[t] = Idle
  BY DEF AccessExpires, WindowPasses, Restart, SessionExpires, vars, userVars
<1>3. CASE req' = req
  BY <1>1, <1>3, StaysMaker DEF Stays, Smooth
<1>4. CASE \A t \in Slots : req'[t] = Idle
  <2>1. \A t \in Slots : ~Maker(t)'
    BY <1>4 DEF Maker, At, Holding, Replacing, Idle
  <2> QED
    BY <1>1, <2>1 DEF Smooth, Maker
<1> QED
  BY <1>2, <1>3, <1>4

(* A login that goes on: the account was found, or the password was right. *)
LoginGoes(s, p) ==
  /\ p = "hash" => At(s, {"login"}, "user") /\ user.active /\ user.admin
  /\ p = "create" => At(s, {"login"}, "hash") /\ req[s].typed = user.pw
  /\ At(s, {"login"}, p)' /\ req'[s].late = req[s].late /\ req'[s].typed = req[s].typed
  /\ \A t \in Slots \ {s} : req'[t] = req[t]
  /\ adminSessions' = adminSessions

LEMMA AuthSmooth ==
  ASSUME Typed, NEW s \in Slots, AuthStep(s) \/ AuthFails(s) \/ AuthStarts(s)
  PROVE  \/ Smooth
         \/ \E p \in {"hash", "create"} : LoginGoes(s, p)
         \/ Finds(s)
         \/ \E f : Makes(s, f)
<1>0. /\ req \in [Slots -> Requests] /\ adminSessions \in Seq(Session)
      /\ req[s].kind \in AuthKinds => req[s] \in AuthRequest
  BY Kinds DEF Typed, TypeOK, UsersTypeOK, Requests
<1>1. ASSUME NEW r, req' = [req EXCEPT ![s] = r], r = Idle \/ r.pc \notin {"hash", "create", "retire", "replace"},
             Fewer(adminSessions, adminSessions')
      PROVE  Smooth
  <2>1. req'[s] = r /\ \A t \in Slots \ {s} : Stays(t)
    BY <1>0, <1>1 DEF Stays
  <2>2. ~Maker(s)'
    BY <1>1, <2>1 DEF Maker, At, Holding, Replacing, Idle
  <2> QED
    BY <1>1, <2>1, <2>2, SlotSmooth
<1>2. ASSUME NEW p, p \notin {"hash", "create", "retire", "replace"},
             Goto(s, p) /\ req[s].kind \in AuthKinds, Fewer(adminSessions, adminSessions')
      PROVE  Smooth
  <2>1. req' = [req EXCEPT ![s] = [req[s] EXCEPT !.pc = p]] /\ [req[s] EXCEPT !.pc = p].pc = p
    BY <1>0, <1>2 DEF Goto, AuthRequest
  <2> QED
    BY <1>1, <1>2, <2>1
<1>3. ASSUME Finish(s), Fewer(adminSessions, adminSessions')
      PROVE  Smooth
  BY <1>1, <1>3 DEF Finish
<1>4. Quiet => Fewer(adminSessions, adminSessions')
  BY DEF Quiet
<1>5. adminSessions' = adminSessions => Fewer(adminSessions, adminSessions')
  BY <1>0, SameRows
<1>6. ASSUME NEW p \in {"hash", "create"}, Goto(s, p), req[s].kind = "login",
             adminSessions' = adminSessions,
             p = "hash" => At(s, {"login"}, "user") /\ user.active /\ user.admin,
             p = "create" => At(s, {"login"}, "hash") /\ req[s].typed = user.pw
      PROVE  LoginGoes(s, p)
  <2>1. /\ req'[s] = [req[s] EXCEPT !.pc = p] /\ \A t \in Slots \ {s} : req'[t] = req[t]
        /\ req[s] \in AuthRequest
    BY <1>0, <1>6 DEF Goto, AuthKinds
  <2>2. req'[s].kind = "login" /\ req'[s].pc = p /\ req'[s].late = req[s].late
        /\ req'[s].typed = req[s].typed
    BY <1>6, <2>1 DEF AuthRequest
  <2> QED
    BY <1>6, <2>1, <2>2 DEF LoginGoes, At
<1>7. CASE LoginUser(s)
  <2>1. At(s, {"login"}, "user") /\ adminSessions' = adminSessions /\ req[s].kind = "login"
    BY <1>7 DEF LoginUser, At
  <2>2. CASE user.active /\ user.admin
    BY <1>6, <1>7, <2>1, <2>2 DEF LoginUser
  <2>3. CASE ~(user.active /\ user.admin)
    BY <1>3, <1>5, <1>7, <2>1, <2>3 DEF LoginUser, Reject
  <2> QED
    BY <2>2, <2>3
<1>8. CASE LoginHash(s)
  <2>1. At(s, {"login"}, "hash") /\ adminSessions' = adminSessions /\ req[s].kind = "login"
    BY <1>8 DEF LoginHash, At
  <2>2. CASE req[s].typed = user.pw
    BY <1>6, <1>8, <2>1, <2>2 DEF LoginHash
  <2>3. CASE req[s].typed # user.pw
    BY <1>3, <1>5, <1>8, <2>1, <2>3 DEF LoginHash, Reject
  <2> QED
    BY <2>2, <2>3
<1>9. CASE CheckActive(s) \/ CheckAcknowledged(s) \/ Serve(s)
  <2>1. /\ req[s].kind \in AuthKinds /\ adminSessions' = adminSessions
        /\ \/ Goto(s, "ack") \/ Goto(s, "find") \/ Goto(s, "serve") \/ Goto(s, "reply")
    BY <1>9 DEF CheckActive, CheckAcknowledged, Serve, At, AuthKinds
  <2> QED
    BY <1>2, <1>5, <2>1
<1>10. CASE FindSession(s)
  <2>1. adminSessions' = adminSessions
    BY <1>10 DEF FindSession
  <2> QED
    BY <1>3, <1>5, <1>10, <2>1 DEF FindSession, Finds
<1>11. CASE RetireSession(s)
  <2>1. /\ Holding(s) /\ Holding(s)' /\ req'[s].pc = "replace"
        /\ req'[s].refresh = req[s].refresh
        /\ \A t \in Slots \ {s} : req'[t] = req[t]
        /\ Fewer(adminSessions, adminSessions')
    BY <1>11, RetireFacts
  <2>2. req[s].refresh \in 1..Len(adminSessions) /\ req[s] \in AuthRequest
    BY <2>1, HoldingRow
  <2>3. req'[s].late = req[s].late
    <3>1. req'[s] = [req[s] EXCEPT !.pc = "replace"]
      BY <1>0, <1>11 DEF RetireSession, Goto
    <3> QED
      BY <2>2, <3>1 DEF AuthRequest
  <2>4. Maker(s) /\ (Late(s) => Late(s)') /\ ~At(s, {"login"}, "create")'
    BY <2>1, <2>2, <2>3 DEF Maker, Late, Fewer, At
  <2>5. \A t \in Slots \ {s} : Stays(t)
    BY <2>1 DEF Stays
  <2> QED
    BY <2>1, <2>4, <2>5, StaysMaker DEF Smooth
<1>12. CASE ReplaceSession(s) \/ LoginCreate(s)
  BY <1>12, MakesFacts
<1>13. CASE Logout(s)
  <2>1. Goto(s, "reply") /\ req[s].kind \in AuthKinds
    BY <1>13 DEF Logout, LogoutEnds, At, AuthKinds
  <2>2. Fewer(adminSessions, adminSessions')
    <3> DEFINE i == IF req[s].fresh # 0 THEN req[s].fresh ELSE req[s].refresh
    <3>1. LogoutEnds(s, i)
      BY <1>13 DEF Logout
    <3> HIDE DEF i
    <3>2. adminSessions' = IF Active(i, adminSessions)
                           THEN [adminSessions EXCEPT ![i].state = "revoked"] ELSE adminSessions
      BY <3>1 DEF LogoutEnds
    <3> QED
      BY <1>0, <1>5, <3>2, OneEnded, RowsOf DEF Active
  <2> QED
    BY <1>2, <2>1, <2>2
<1>14. CASE Reply(s)
  BY <1>3, <1>5, <1>14 DEF Reply
<1>15. CASE AuthFails(s)
  <2>1. adminSessions' = adminSessions
    BY <1>15 DEF AuthFails
  <2>2. CASE req[s].pc = "serve" /\ req' = [req EXCEPT ![s].kind = "api", ![s].pc = "reply"]
    <3> DEFINE r == [req[s] EXCEPT !.kind = "api", !.pc = "reply"]
    <3>1. req[s] \in AuthRequest
      BY <1>0, <1>15, Kinds DEF AuthFails, Typed, AuthKinds, DeskKinds
    <3>2. req' = [req EXCEPT ![s] = r] /\ r.pc = "reply"
      BY <1>0, <2>2, <3>1 DEF AuthRequest
    <3> HIDE DEF r
    <3> QED
      BY <1>1, <1>5, <2>1, <3>2
  <2> QED
    BY <1>3, <1>5, <1>15, <2>1, <2>2 DEF AuthFails
<1>16. CASE AuthStarts(s)
  <2>1. PICK kind, pc, typed :
          kind \in AuthKinds /\ pc \in {"user", "find", "active"} /\ AuthBegin(s, kind, pc, typed)
    BY <1>16 DEF AuthStarts, LoginBegin, RefreshBegin, RouteBegin, AuthKinds
  <2>2. req' = [req EXCEPT ![s] = Auth(kind, pc, typed)] /\ adminSessions' = adminSessions
    BY <2>1 DEF AuthBegin, Begin
  <2>3. Auth(kind, pc, typed).pc = pc
    BY DEF Auth
  <2> QED
    BY <1>1, <1>5, <2>1, <2>2, <2>3
<1> QED
  BY <1>7, <1>8, <1>9, <1>10, <1>11, <1>12, <1>13, <1>14, <1>15, <1>16 DEF AuthStep

(* A step of the sign-in side, which leaves the account and the desk alone. *)
Apart ==
  /\ user' = user /\ overlapped' = overlapped
  /\ faults' = 0 => faults = 0
  /\ \A t \in Slots : req[t].kind \in DeskKinds \/ req'[t].kind \in DeskKinds
       => req'[t] = req[t]

LEMMA AuthApart ==
  ASSUME Typed, NEW s \in Slots, AuthStep(s) \/ AuthFails(s) \/ AuthStarts(s)
  PROVE  Apart
<1>0. /\ req \in [Slots -> Requests] /\ faults \in Nat
      /\ req[s].kind \in AuthKinds => req[s] \in AuthRequest
      /\ req[s].kind \in AuthKinds \cup DeskKinds \cup {"idle"}
  <2>1. req \in [Slots -> Requests] /\ faults \in Nat
    BY BoundsAssumption DEF Typed, TypeOK, UsersTypeOK, Requests
  <2>2. req[s] \in Requests
    BY <2>1
  <2> QED
    BY <2>1, <2>2, Kinds DEF Typed, Requests, Idle, DeskRequest, AuthRequest, AuthKinds, DeskKinds
<1>1. ASSUME UNCHANGED <<user, overlapped>>, faults' \in {faults, faults + 1},
             req[s].kind \notin DeskKinds,
             NEW r, r.kind \notin DeskKinds, req' = [req EXCEPT ![s] = r]
      PROVE  Apart
  <2>1. req'[s] = r /\ \A t \in Slots \ {s} : req'[t] = req[t]
    BY <1>0, <1>1
  <2> QED
    BY <1>0, <1>1, <2>1 DEF Apart
<1>2. ASSUME UNCHANGED <<deskVars, bookVars>>, req[s].kind \in AuthKinds,
             NEW p, Goto(s, p) \/ Finish(s)
      PROVE  Apart
  <2>1. Idle.kind \notin DeskKinds /\ [req[s] EXCEPT !.pc = p].kind \notin DeskKinds
    BY <1>0, <1>2 DEF Idle, DeskKinds, AuthKinds, AuthRequest
  <2>2. \/ req' = [req EXCEPT ![s] = Idle]
        \/ req' = [req EXCEPT ![s] = [req[s] EXCEPT !.pc = p]]
    BY <1>0, <1>2 DEF Goto, Finish
  <2>3. UNCHANGED <<user, overlapped, faults>> /\ req[s].kind \notin DeskKinds
    BY <1>2 DEF deskVars, bookVars, AuthKinds, DeskKinds
  <2> QED
    BY <1>1, <2>1, <2>2, <2>3
<1>3. CASE LoginUser(s) \/ LoginHash(s) \/ CheckActive(s) \/ FindSession(s)
           \/ RetireSession(s) \/ CheckAcknowledged(s) \/ Serve(s) \/ Logout(s) \/ Reply(s)
  <2>1. /\ UNCHANGED <<deskVars, bookVars>> /\ req[s].kind \in AuthKinds
        /\ \/ Goto(s, "hash") \/ Goto(s, "create") \/ Goto(s, "ack") \/ Goto(s, "find")
           \/ Goto(s, "retire") \/ Goto(s, "replace") \/ Goto(s, "serve")
           \/ Goto(s, "reply") \/ Finish(s)
    BY <1>3 DEF LoginUser, LoginHash, Reject, CheckActive, FindSession, RetireSession,
                CheckAcknowledged, Serve, Logout, LogoutEnds, Reply, At, Replacing, AuthKinds
  <2> QED
    BY <1>2, <2>1
<1>4. CASE LoginCreate(s) \/ ReplaceSession(s)
  <2>1. /\ UNCHANGED <<deskVars, bookVars>> /\ req[s].kind \in AuthKinds
        /\ \E p \in {"reply", "ack"} :
             req' = [req EXCEPT ![s].pc = p, ![s].fresh = Len(adminSessions) + 1]
    BY <1>4 DEF LoginCreate, ReplaceSession, At, Replacing, AuthKinds
  <2>2. PICK p \in {"reply", "ack"} :
          req' = [req EXCEPT ![s].pc = p, ![s].fresh = Len(adminSessions) + 1]
    BY <2>1
  <2> DEFINE r == [req[s] EXCEPT !.pc = p, !.fresh = Len(adminSessions) + 1]
  <2>3. req' = [req EXCEPT ![s] = r] /\ r.kind = req[s].kind
    BY <1>0, <2>1, <2>2 DEF AuthRequest
  <2>4. UNCHANGED <<user, overlapped, faults>> /\ req[s].kind \notin DeskKinds
    BY <2>1 DEF deskVars, bookVars, AuthKinds, DeskKinds
  <2> HIDE DEF r
  <2> QED
    BY <1>1, <2>3, <2>4
<1>5. CASE AuthFails(s)
  <2>1. /\ UNCHANGED <<user, overlapped>> /\ faults' = faults + 1
        /\ req[s].kind \in AuthKinds /\ req[s].kind \notin DeskKinds
    BY <1>0, <1>5, Kinds DEF AuthFails, deskVars, AuthKinds, DeskKinds, Typed
  <2>2. Idle.kind \notin DeskKinds
        /\ [req[s] EXCEPT !.kind = "api", !.pc = "reply"].kind \notin DeskKinds
    BY <1>0, <2>1 DEF Idle, DeskKinds, AuthRequest
  <2>3. \/ req' = [req EXCEPT ![s] = Idle]
        \/ req' = [req EXCEPT ![s] = [req[s] EXCEPT !.kind = "api", !.pc = "reply"]]
    BY <1>0, <1>5 DEF AuthFails, Finish
  <2> QED
    BY <1>1, <2>1, <2>2, <2>3
<1>6. CASE AuthStarts(s)
  <2>1. PICK kind, pc, typed :
          kind \in AuthKinds /\ pc \in {"user", "find", "active"} /\ AuthBegin(s, kind, pc, typed)
    BY <1>6 DEF AuthStarts, LoginBegin, RefreshBegin, RouteBegin, AuthKinds
  <2>2. /\ req' = [req EXCEPT ![s] = Auth(kind, pc, typed)] /\ req[s] = Idle
        /\ UNCHANGED <<user, overlapped, faults>>
    BY <2>1 DEF AuthBegin, Begin, deskVars
  <2>3. Auth(kind, pc, typed).kind \notin DeskKinds /\ req[s].kind \notin DeskKinds
    BY <2>1, <2>2 DEF Auth, AuthKinds, DeskKinds, Idle
  <2> QED
    BY <1>1, <2>2, <2>3
<1> QED
  BY <1>3, <1>4, <1>5, <1>6 DEF AuthStep

LEMMA RestApart ==
  ASSUME Typed, faults' = 0,
         \/ AccessExpires \/ WindowPasses \/ Restart \/ UNCHANGED vars
         \/ \E i \in 1..MaxSessions : SessionExpires(i)
  PROVE  Apart
<1>1. faults \in Nat
  BY BoundsAssumption DEF Typed, TypeOK, UsersTypeOK
<1>2. ~Restart
  BY <1>1 DEF Restart
<1> QED
  BY <1>2 DEF AccessExpires, WindowPasses, SessionExpires, vars, userVars, deskVars, bookVars, Apart

(* Where one handler steps, the others make what they would have made. *)
LEMMA OtherMakers ==
  ASSUME Typed, NEW s \in Slots, \A t \in Slots \ {s} : req'[t] = req[t],
         \A i \in 1..Len(adminSessions) : adminSessions'[i] = adminSessions[i],
         NEW t \in Slots \ {s}
  PROVE  /\ Maker(t)' => Maker(t) /\ (Late(t) <=> Late(t)')
         /\ At(t, {"login"}, "create")' => At(t, {"login"}, "create")
                                           /\ req'[t].typed = req[t].typed
         /\ Holding(t)' => Holding(t) /\ adminSessions'[req'[t].refresh] = adminSessions[req[t].refresh]
<1>1. req'[t] = req[t]
  OBVIOUS
<1>2. Holding(t) => adminSessions'[req[t].refresh] = adminSessions[req[t].refresh]
  BY HoldingRow
<1> QED
  BY <1>1, <1>2 DEF Maker, At, Holding, Replacing, Late

LEMMA MakesRow ==
  ASSUME Typed, NEW s \in Slots, NEW f, Makes(s, f), NEW i, ActiveLater(i)'
  PROVE  \/ i \in 1..MaxSessions /\ ActiveLater(i) /\ adminSessions'[i].pw = adminSessions[i].pw
         \/ i = Len(adminSessions) + 1 /\ ~Late(s)
<1>1. /\ DOMAIN adminSessions = 1..Len(adminSessions) /\ Len(adminSessions) \in Nat
      /\ Len(adminSessions) <= MaxSessions /\ MaxSessions \in Nat
  BY RowsOf, BoundsAssumption DEF Typed, TypeOK, UsersTypeOK, MaxSessions
<1>2. i \in 1..(Len(adminSessions) + 1)
  BY DEF Makes, ActiveLater, Active
<1>3. CASE i = Len(adminSessions) + 1
  BY <1>3 DEF Makes, ActiveLater
<1>4. CASE i \in 1..Len(adminSessions)
  BY <1>1, <1>4 DEF Makes, ActiveLater, Active
<1> QED
  BY <1>1, <1>2, <1>3, <1>4

(* Nothing signs in to an account that is disabled, or no admin's. *)
LEMMA UpToDateAuth ==
  ASSUME Typed, Typed', UpToDate, NEW s \in Slots,
         AuthStep(s) \/ AuthFails(s) \/ AuthStarts(s), ~(user.active /\ user.admin)
  PROVE  UpToDate'
<1>0. /\ \A i \in 1..MaxSessions : ~ActiveLater(i)
      /\ \A t \in Slots : Maker(t) => Late(t)
  BY DEF UpToDate
<1>1. CASE Smooth
  BY <1>1, SmoothUpToDate
<1>2. ASSUME NEW p \in {"hash", "create"}, LoginGoes(s, p)
      PROVE  UpToDate'
  <2>1. At(s, {"login"}, "hash") /\ p = "create"
    BY <1>2 DEF LoginGoes
  <2>2. Late(s) /\ ~Holding(s)
    BY <1>0, <2>1 DEF Maker, At, Holding, Replacing
  <2>3. Late(s)'
    BY <1>2, <2>2 DEF Late, LoginGoes
  <2>4. \A t \in Slots \ {s} : Maker(t)' => Late(t)'
    BY <1>0, <1>2, OtherMakers DEF LoginGoes
  <2>5. \A i \in 1..MaxSessions : ~ActiveLater(i)'
    BY <1>0, <1>2 DEF LoginGoes, ActiveLater
  <2> QED
    BY <2>3, <2>4, <2>5 DEF UpToDate, MaxSessions
<1>3. CASE Finds(s)
  <2>1. /\ req[s].refresh \in 1..MaxSessions /\ Active(req[s].refresh, adminSessions)
        /\ req'[s].refresh = req[s].refresh /\ Holding(s)'
        /\ \A t \in Slots \ {s} : req'[t] = req[t]
        /\ adminSessions' = adminSessions
    BY <1>3, FindsFacts
  <2>2. Late(s)'
    BY <1>0, <2>1 DEF ActiveLater, Late
  <2>3. \A t \in Slots \ {s} : Maker(t)' => Late(t)'
    BY <1>0, <2>1, OtherMakers
  <2>4. \A i \in 1..MaxSessions : ~ActiveLater(i)'
    BY <1>0, <2>1 DEF ActiveLater
  <2> QED
    BY <2>2, <2>3, <2>4 DEF UpToDate, MaxSessions
<1>4. ASSUME NEW f, Makes(s, f)
      PROVE  UpToDate'
  <2>1. Maker(s) /\ ~Maker(s)'
    BY <1>4 DEF Makes, Maker
  <2>2. \A t \in Slots \ {s} : Maker(t)' => Late(t)'
    BY <1>0, <1>4, OtherMakers DEF Makes
  <2>3. \A i \in 1..MaxSessions : ~ActiveLater(i)'
    BY <1>0, <1>4, <2>1, MakesRow
  <2> QED
    BY <2>1, <2>2, <2>3 DEF UpToDate, MaxSessions
<1> QED
  BY <1>1, <1>2, <1>3, <1>4, AuthSmooth

(* A login makes a session of the password it was checked against. *)
LEMMA PasswordAuth ==
  ASSUME Typed, Typed', SamePassword, NEW s \in Slots,
         AuthStep(s) \/ AuthFails(s) \/ AuthStarts(s)
  PROVE  SamePassword'
<1>0. /\ \A i \in 1..MaxSessions : ActiveLater(i) => adminSessions[i].pw = user.pw
      /\ \A t \in Slots :
           /\ At(t, {"login"}, "create") /\ ~Late(t) => req[t].typed = user.pw
           /\ Holding(t) /\ ~Late(t) => adminSessions[req[t].refresh].pw = user.pw
      /\ user' = user
  BY AuthApart DEF SamePassword, Apart
<1>1. CASE Smooth
  BY <1>0, <1>1, SmoothPassword
<1>2. ASSUME \A t \in Slots \ {s} : req'[t] = req[t],
             \A i \in 1..Len(adminSessions) : adminSessions'[i] = adminSessions[i],
             NEW t \in Slots \ {s}
      PROVE  /\ At(t, {"login"}, "create")' /\ ~Late(t)' => req'[t].typed = user'.pw
             /\ Holding(t)' /\ ~Late(t)' => adminSessions'[req'[t].refresh].pw = user'.pw
  <2>1. At(t, {"login"}, "create")' \/ Holding(t)' => Maker(t)'
    BY DEF Maker
  <2> QED
    BY <1>0, <1>2, <2>1, OtherMakers
<1>3. ASSUME NEW p \in {"hash", "create"}, LoginGoes(s, p)
      PROVE  SamePassword'
  <2>1. /\ At(s, {"login"}, "create")' => req'[s].typed = user'.pw
        /\ ~Holding(s)'
    BY <1>0, <1>3 DEF LoginGoes, At, Holding, Replacing
  <2>2. \A i \in 1..MaxSessions : ActiveLater(i)' => adminSessions'[i].pw = user'.pw
    BY <1>0, <1>3 DEF LoginGoes, ActiveLater
  <2> QED
    BY <1>2, <1>3, <2>1, <2>2 DEF SamePassword, MaxSessions, LoginGoes
<1>4. CASE Finds(s)
  <2>1. /\ req[s].refresh \in 1..MaxSessions /\ Active(req[s].refresh, adminSessions)
        /\ req'[s].refresh = req[s].refresh /\ Holding(s)' /\ req'[s].pc = "retire"
        /\ \A t \in Slots \ {s} : req'[t] = req[t]
        /\ adminSessions' = adminSessions
    BY <1>4, FindsFacts
  <2>2. /\ ~Late(s)' => adminSessions'[req'[s].refresh].pw = user'.pw
        /\ ~At(s, {"login"}, "create")'
    BY <1>0, <2>1 DEF ActiveLater, Late, At
  <2>3. \A i \in 1..MaxSessions : ActiveLater(i)' => adminSessions'[i].pw = user'.pw
    BY <1>0, <2>1 DEF ActiveLater
  <2> QED
    BY <1>2, <2>1, <2>2, <2>3 DEF SamePassword, MaxSessions
<1>5. ASSUME NEW f, Makes(s, f)
      PROVE  SamePassword'
  <2>1. ~At(s, {"login"}, "create")' /\ ~Holding(s)'
    BY <1>5 DEF Makes, Maker
  <2>2. ASSUME NEW i \in 1..MaxSessions, ActiveLater(i)'
        PROVE  adminSessions'[i].pw = user'.pw
    <3>1. CASE ActiveLater(i) /\ adminSessions'[i].pw = adminSessions[i].pw
      BY <1>0, <3>1
    <3>2. CASE i = Len(adminSessions) + 1 /\ ~Late(s)
      BY <1>0, <1>5, <3>2 DEF Makes
    <3> QED
      BY <1>5, <2>2, <3>1, <3>2, MakesRow
  <2> QED
    BY <1>2, <1>5, <2>1, <2>2 DEF SamePassword, MaxSessions, Makes
<1> QED
  BY <1>1, <1>3, <1>4, <1>5, AuthSmooth

-----------------------------------------------------------------------------
(* What the desk still has to revoke *)

LEMMA DeskUser ==
  ASSUME Typed, NEW s \in Slots, DeskStarts(s) \/ DeskStep(s) \/ DeskFails(s), user' # user
  PROVE  \/ /\ InsertUser(s) /\ req[s].kind = "create" /\ user = NoUser
            /\ user'.active /\ req'[s].kind = "create"
         \/ /\ Update(s) /\ req[s].kind = "patch" /\ req[s].pc = "update"
            /\ user'.pw = user.pw
            /\ Patching(s)' /\ req'[s].wasAdmin = req[s].wasAdmin
         \/ /\ SetPassword(s) /\ req[s].kind = "reset"
            /\ user'.active = user.active /\ user'.admin = user.admin
            /\ At(s, {"reset"}, "revokeAdmin")'
<1>1. CASE InsertUser(s)
  <2>1. /\ req[s].kind = "create" /\ user = NoUser /\ user' = req[s].image
        /\ req'[s].kind = "create"
    BY <1>1, InsertShape DEF DeskSlot
  <2>2. req[s].image \in NewRow
    BY <2>1 DEF Typed, Fit
  <2> QED
    BY <1>1, <2>1, <2>2 DEF NewRow
<1>2. CASE Update(s)
  BY <1>2, UpdateShape DEF DeskSlot, Patching
<1>3. CASE SetPassword(s)
  <2>1. user \in Row /\ user' = [user EXCEPT !.pw = @ + 1]
    BY <1>3, PasswordShape DEF Typed, TypeOK, UsersTypeOK
  <2>2. user'.active = user.active /\ user'.admin = user.admin
    BY <2>1 DEF Row
  <2> QED
    BY <1>3, <2>2, PasswordShape DEF DeskSlot, At
<1>4. CASE Merge(s) \/ Reread(s) \/ RevokeAdmin(s) \/ RevokeRemote(s)
           \/ Clear(s) \/ \E d \in Devices : InsertScope(s, d)
  BY <1>4 DEF Merge, Reread, RevokeAdmin, RevokeRemote, Clear, InsertScope, deskVars
<1>5. CASE DeskStarts(s) \/ DeskFails(s)
  BY <1>5, BeginShape, FailsShape DEF DeskBegin, deskVars
<1> QED
  BY <1>1, <1>2, <1>3, <1>4, <1>5 DEF DeskStep

(* Each change of the desk goes on until it has revoked the sessions, or has *)
(* read that there is nothing to revoke.                                     *)
LEMMA OthersWait ==
  ASSUME Typed, NEW s \in Slots, DeskStarts(s) \/ DeskStep(s) \/ DeskFails(s),
         NEW t \in Slots \ {s}
  PROVE  /\ req[t].kind \in DeskKinds \/ req'[t].kind \in DeskKinds => req'[t] = req[t]
         /\ req'[t].kind = req[t].kind
<1>1. Stays(t)
  BY DeskEffect DEF DeskSlot
<1>2. req'[t].kind = req[t].kind
  BY <1>1, StaysSame DEF Typed
<1> QED
  BY <1>1, <1>2 DEF Stays, AuthRequest, DeskKinds

LEMMA PatchGoes ==
  ASSUME Typed, Typed', NEW s \in Slots, DeskStarts(s) \/ DeskStep(s),
         NEW t \in Slots, Patching(t)
  PROVE  \/ UpToDate'
         \/ /\ Patching(t)'
            /\ \/ req'[t].pc = "revokeAdmin"
               \/ req[t].pc # "revokeAdmin" /\ req'[t].wasAdmin = req[t].wasAdmin
         \/ req[t].pc = "reread" /\ user.active /\ req[t].wasAdmin = user.admin
<1>0. req[t].kind = "patch" /\ req[t].pc \in {"clear", "insert", "reread", "revokeAdmin"}
  BY DEF Patching
<1>1. CASE t # s
  <2>1. req'[t] = req[t]
    BY <1>0, <1>1, OthersWait DEF DeskKinds
  <2> QED
    BY <1>0, <2>1 DEF Patching
<1>2. CASE t = s /\ DeskStep(s)
  <2>1. CASE Clear(s) \/ \E d \in Devices : InsertScope(s, d)
    <3>1. /\ req[s].pc \in {"clear", "insert"}
          /\ \E r \in DeskRequest :
               /\ DeskSlot(s, r) /\ r.kind = req[s].kind
               /\ r.pc \in {"insert", "reread"} /\ r.wasAdmin = req[s].wasAdmin
      BY <1>0, <1>2, <2>1, ScopeShape
    <3> QED
      BY <1>0, <1>2, <3>1 DEF DeskSlot, Patching
  <2>2. CASE Reread(s)
    BY <1>0, <1>2, <2>2, RereadShape DEF DeskSlot, Patching
  <2>3. CASE RevokeAdmin(s)
    BY <2>3, RevokedUpToDate
  <2>4. ~InsertUser(s) /\ ~Merge(s) /\ ~Update(s) /\ ~SetPassword(s) /\ ~RevokeRemote(s)
    BY <1>0, <1>2 DEF InsertUser, Merge, Update, SetPassword, RevokeRemote, At
  <2> QED
    BY <1>2, <2>1, <2>2, <2>3, <2>4 DEF DeskStep
<1>3. CASE t = s /\ DeskStarts(s)
  BY <1>0, <1>3, BeginShape DEF DeskBegin, Begin, Idle
<1> QED
  BY <1>1, <1>2, <1>3

LEMMA ResetGoes ==
  ASSUME Typed, Typed', NEW s \in Slots, DeskStarts(s) \/ DeskStep(s),
         NEW t \in Slots, At(t, {"reset"}, "revokeAdmin")
  PROVE  UpToDate' \/ At(t, {"reset"}, "revokeAdmin")'
<1>0. req[t].kind = "reset" /\ req[t].pc = "revokeAdmin"
  BY DEF At
<1>1. CASE t # s
  BY <1>0, <1>1, OthersWait DEF DeskKinds, At
<1>2. CASE t = s /\ DeskStep(s)
  <2>1. /\ ~InsertUser(s) /\ ~Merge(s) /\ ~Update(s) /\ ~SetPassword(s) /\ ~RevokeRemote(s)
        /\ ~Clear(s) /\ ~Reread(s) /\ ~\E d \in Devices : InsertScope(s, d)
    BY <1>0, <1>2 DEF InsertUser, Merge, Update, SetPassword, RevokeRemote, Clear, Reread,
                      InsertScope, At
  <2> QED
    BY <1>2, <2>1, RevokedUpToDate DEF DeskStep
<1>3. CASE t = s /\ DeskStarts(s)
  BY <1>0, <1>3, BeginShape DEF DeskBegin, Begin, Idle
<1> QED
  BY <1>1, <1>2, <1>3

LEMMA ApartPatching ==
  ASSUME Apart, NEW t \in Slots, Patching(t)
  PROVE  Patching(t)' /\ req'[t] = req[t]
BY DEF Apart, Patching, DeskKinds

LEMMA FaultFree ==
  ASSUME Typed, NEW s \in Slots, DeskStarts(s) \/ DeskStep(s) \/ DeskFails(s), faults' = 0
  PROVE  faults = 0 /\ (DeskStarts(s) \/ DeskStep(s))
<1>1. faults \in Nat
  BY BoundsAssumption DEF Typed, TypeOK, UsersTypeOK
<1>2. ~DeskFails(s)
  BY <1>1 DEF DeskFails
<1>3. DeskStarts(s) => faults' = faults
  BY BeginShape DEF DeskBegin
<1>4. DeskStep(s) => faults' = faults
  BY DEF DeskStep, InsertUser, Merge, Update, Clear, InsertScope, Reread, SetPassword,
         RevokeAdmin, RevokeRemote, bookVars
<1> QED
  BY <1>2, <1>3, <1>4

LEMMA DisabledNext ==
  ASSUME Typed, Disabled, [Next]_vars
  PROVE  Disabled'
<1>0. Typed'
  BY TypedNext
<1> SUFFICES ASSUME faults' = 0, ~user'.active
             PROVE  UpToDate' \/ \E t \in Slots : Patching(t)'
  BY DEF Disabled
<1>1. ASSUME NEW s \in Slots, DeskStarts(s) \/ DeskStep(s) \/ DeskFails(s), UNCHANGED authVars
      PROVE  UpToDate' \/ \E t \in Slots : Patching(t)'
  <2>1. faults = 0 /\ (DeskStarts(s) \/ DeskStep(s))
    BY <1>1, FaultFree
  <2>2. CASE user.active
    BY <1>1, <2>2, DeskUser
  <2>3. CASE ~user.active
    <3>1. CASE UpToDate
      BY <1>0, <1>1, <3>1, DeskSmooth, SmoothUpToDate
    <3>2. ASSUME NEW t \in Slots, Patching(t)
          PROVE  UpToDate' \/ Patching(t)'
      BY <1>0, <2>1, <2>3, <3>2, PatchGoes
    <3> QED
      BY <2>1, <2>3, <3>1, <3>2 DEF Disabled
  <2> QED
    BY <2>2, <2>3
<1>2. ASSUME Apart, UpToDate /\ ~user.active => UpToDate'
      PROVE  UpToDate' \/ \E t \in Slots : Patching(t)'
  BY <1>2, ApartPatching DEF Disabled, Apart
<1>3. ASSUME NEW s \in Slots, AuthStep(s) \/ AuthFails(s) \/ AuthStarts(s)
      PROVE  UpToDate' \/ \E t \in Slots : Patching(t)'
  BY <1>0, <1>2, <1>3, AuthApart, UpToDateAuth
<1>4. CASE \/ AccessExpires \/ WindowPasses \/ Restart \/ UNCHANGED vars
           \/ \E i \in 1..MaxSessions : SessionExpires(i)
  BY <1>0, <1>2, <1>4, RestApart, RestSmooth, SmoothUpToDate
<1> QED
  BY <1>1, <1>3, <1>4 DEF Next, Step

LEMMA DemotedNext ==
  ASSUME Typed, Demoted, [Next]_vars
  PROVE  Demoted'
<1>0. Typed'
  BY TypedNext
<1> DEFINE One == \A s, t \in Slots : Changing(s) /\ Changing(t) => s = t
           Read == \A s \in Slots : req[s].kind = "patch" /\ req[s].pc \in {"merge", "update"}
                     => req[s].wasAdmin = user.admin
           Pending(t) == Patching(t) /\ (req[t].pc = "revokeAdmin" \/ req[t].wasAdmin)
<1> SUFFICES ASSUME faults' = 0, ~overlapped'
             PROVE  /\ One' /\ Read'
                    /\ ~user'.admin => UpToDate' \/ \E t \in Slots : Pending(t)'
  BY DEF Demoted
<1>1. Demoted /\ faults = 0 /\ ~overlapped =>
        One /\ Read /\ (~user.admin => UpToDate \/ \E t \in Slots : Pending(t))
  BY DEF Demoted
<1>2. ASSUME NEW s \in Slots, DeskStarts(s), UNCHANGED authVars
      PROVE  /\ One' /\ Read'
             /\ ~user'.admin => UpToDate' \/ \E t \in Slots : Pending(t)'
  <2>1. PICK r \in DeskRequest : DeskBegin(s, r) /\ DeskSlot(s, r) /\ r.wasAdmin = user.admin
    BY <1>2, BeginShape
  <2>2. faults = 0 /\ ~overlapped /\ user' = user /\ \A t \in Slots : ~Changing(t)
    BY <2>1 DEF DeskBegin, deskVars
  <2>3. \A t \in Slots \ {s} : req'[t].kind = req[t].kind
    BY <1>2, OthersWait
  <2>4. One'
    BY <2>2, <2>3 DEF Changing
  <2>5. Read'
    BY <2>1, <2>2, <2>3 DEF Changing, DeskSlot
  <2>6. ~user.admin => UpToDate'
    BY <1>0, <1>1, <1>2, <2>2, DeskSmooth, SmoothUpToDate DEF Patching, Changing
  <2> QED
    BY <2>2, <2>4, <2>5, <2>6
<1>3. ASSUME NEW s \in Slots, DeskStep(s), UNCHANGED authVars
      PROVE  /\ One' /\ Read'
             /\ ~user'.admin => UpToDate' \/ \E t \in Slots : Pending(t)'
  <2>1. faults = 0 /\ ~overlapped
    <3>1. overlapped' = overlapped
      BY <1>3 DEF DeskStep, InsertUser, Merge, Update, Clear, InsertScope, Reread,
                  SetPassword, RevokeAdmin, RevokeRemote, bookVars
    <3> QED
      BY <1>3, <3>1, FaultFree
  <2>2. One /\ Read /\ (~user.admin => UpToDate \/ \E t \in Slots : Pending(t))
    BY <1>1, <2>1
  <2>3. \A t \in Slots \ {s} : /\ req'[t].kind = req[t].kind
                               /\ req'[t].kind \in DeskKinds => req'[t] = req[t]
    BY <1>3, OthersWait
  <2>4. req'[s].kind \in {req[s].kind, "idle"}
    <3>1. PICK r \in {Idle} \cup DeskRequest : DeskSlot(s, r) /\ r.kind \in {req[s].kind, "idle"}
      BY <1>3, InsertShape, MergeShape, UpdateShape, ScopeShape, RereadShape, PasswordShape,
         RevokeShape DEF DeskStep, Idle
    <3> QED
      BY <3>1 DEF DeskSlot
  <2>5. \A t \in Slots : Changing(t)' => Changing(t)
    BY <2>3, <2>4 DEF Changing
  <2>6. One'
    BY <2>2, <2>5
  <2>7. user' # user => Changing(s)
    BY <1>3, DeskUser DEF Changing
  <2>8. Read'
    <3> SUFFICES ASSUME NEW t \in Slots, req'[t].kind = "patch", req'[t].pc \in {"merge", "update"}
                 PROVE  req'[t].wasAdmin = user'.admin
      OBVIOUS
    <3>1. CASE t # s
      <4>1. req'[t] = req[t] /\ Changing(t)
        BY <2>3, <3>1 DEF DeskKinds, Changing
      <4>2. user' = user
        BY <2>2, <2>7, <3>1, <4>1
      <4> QED
        BY <2>2, <4>1, <4>2
    <3>2. CASE t = s
      <4>1. CASE Merge(s)
        <5>1. /\ req[s].kind = "patch" /\ req[s].pc = "merge" /\ user' = user
              /\ req'[s].wasAdmin = req[s].wasAdmin
          BY <4>1, MergeShape DEF DeskSlot, deskVars
        <5> QED
          BY <2>2, <3>2, <5>1
      <4>2. ASSUME ~Merge(s)
            PROVE  req'[s].pc \notin {"merge", "update"} \/ req'[s].kind # "patch"
        BY <1>3, <4>2, InsertShape, UpdateShape, ScopeShape, RereadShape, PasswordShape,
           RevokeShape DEF DeskStep, DeskSlot, Idle
      <4> QED
        BY <3>2, <4>1, <4>2
    <3> QED
      BY <3>1, <3>2
  <2>9. ASSUME ~user'.admin
        PROVE  UpToDate' \/ \E t \in Slots : Pending(t)'
    <3>1. UpToDate => UpToDate'
      BY <1>0, <1>3, DeskSmooth, SmoothUpToDate
    <3>2. ASSUME NEW t \in Slots, Pending(t), ~user.admin
          PROVE  UpToDate' \/ Pending(t)'
      <4>1. \/ UpToDate'
            \/ /\ Patching(t)'
               /\ \/ req'[t].pc = "revokeAdmin"
                  \/ req[t].pc # "revokeAdmin" /\ req'[t].wasAdmin = req[t].wasAdmin
            \/ req[t].pc = "reread" /\ user.active /\ req[t].wasAdmin = user.admin
        BY <1>0, <1>3, <3>2, PatchGoes
      <4> QED
        BY <3>2, <4>1
    <3>3. CASE ~user.admin
      BY <2>2, <3>1, <3>2, <3>3
    <3>4. CASE user.admin
      <4>1. user' # user /\ user # NoUser
        BY <2>9, <3>4 DEF NoUser
      <4>2. Update(s) /\ req[s].kind = "patch" /\ req[s].pc = "update"
            /\ Patching(s)' /\ req'[s].wasAdmin = req[s].wasAdmin
        BY <1>3, <2>9, <3>4, <4>1, DeskUser
      <4> QED
        BY <2>2, <3>4, <4>2
    <3> QED
      BY <3>3, <3>4
  <2> QED
    BY <2>6, <2>8, <2>9
<1>4. ASSUME NEW s \in Slots, DeskStarts(s) \/ DeskStep(s) \/ DeskFails(s), UNCHANGED authVars
      PROVE  /\ One' /\ Read'
             /\ ~user'.admin => UpToDate' \/ \E t \in Slots : Pending(t)'
  BY <1>2, <1>3, <1>4, FaultFree
<1>5. ASSUME Apart, UpToDate /\ ~user.admin => UpToDate'
      PROVE  /\ One' /\ Read'
             /\ ~user'.admin => UpToDate' \/ \E t \in Slots : Pending(t)'
  <2>1. faults = 0 /\ ~overlapped /\ user' = user
    BY <1>5 DEF Apart
  <2>2. One /\ Read /\ (~user.admin => UpToDate \/ \E t \in Slots : Pending(t))
    BY <1>1, <2>1
  <2>3. \A t \in Slots : req[t].kind \in DeskKinds \/ req'[t].kind \in DeskKinds
                           => req'[t] = req[t]
    BY <1>5 DEF Apart
  <2>4. One' /\ Read'
    BY <2>1, <2>2, <2>3 DEF Changing, DeskKinds
  <2>5. \A t \in Slots : Pending(t) => Pending(t)'
    BY <1>5, ApartPatching
  <2> QED
    BY <1>5, <2>1, <2>2, <2>4, <2>5
<1>6. ASSUME NEW s \in Slots, AuthStep(s) \/ AuthFails(s) \/ AuthStarts(s)
      PROVE  /\ One' /\ Read'
             /\ ~user'.admin => UpToDate' \/ \E t \in Slots : Pending(t)'
  BY <1>0, <1>5, <1>6, AuthApart, UpToDateAuth
<1>7. CASE \/ AccessExpires \/ WindowPasses \/ Restart \/ UNCHANGED vars
           \/ \E i \in 1..MaxSessions : SessionExpires(i)
  BY <1>0, <1>5, <1>7, RestApart, RestSmooth, SmoothUpToDate
<1> QED
  BY <1>4, <1>6, <1>7 DEF Next, Step

LEMMA UpToDatePassword ==
  ASSUME UpToDate
  PROVE  SamePassword
BY DEF UpToDate, SamePassword, Maker

LEMMA OldPasswordNext ==
  ASSUME Typed, OldPassword, [Next]_vars
  PROVE  OldPassword'
<1>0. Typed'
  BY TypedNext
<1> SUFFICES ASSUME faults' = 0
             PROVE  SamePassword' \/ \E t \in Slots : At(t, {"reset"}, "revokeAdmin")'
  BY DEF OldPassword
<1>1. ASSUME NEW s \in Slots, DeskStarts(s) \/ DeskStep(s) \/ DeskFails(s), UNCHANGED authVars
      PROVE  SamePassword' \/ \E t \in Slots : At(t, {"reset"}, "revokeAdmin")'
  <2>1. faults = 0 /\ (DeskStarts(s) \/ DeskStep(s))
    BY <1>1, FaultFree
  <2>2. ASSUME NEW t \in Slots, At(t, {"reset"}, "revokeAdmin")
        PROVE  SamePassword' \/ At(t, {"reset"}, "revokeAdmin")'
    <3>1. UpToDate' => SamePassword'
      BY DEF UpToDate, SamePassword, Maker
    <3> QED
      BY <1>0, <2>1, <2>2, <3>1, ResetGoes
  <2>3. ASSUME SamePassword
        PROVE  SamePassword' \/ At(s, {"reset"}, "revokeAdmin")'
    <3>1. Smooth
      BY <1>1, DeskSmooth
    <3>2. CASE user'.pw = user.pw
      BY <1>0, <2>3, <3>1, <3>2, SmoothPassword
    <3>3. CASE InsertUser(s) /\ user = NoUser
      <4>1. user.pw = 0 /\ adminSessions = <<>>
        BY <3>3 DEF NoUser, Typed, Accounts
      <4>2. \A t \in Slots : ~Maker(t)
        <5>1. \A t \in Slots : ~Holding(t)
          BY <4>1, HoldingRow, EmptySeq
        <5> QED
          BY <4>1, <5>1 DEF Maker, Typed, Fit
      <4>3. \A i \in 1..MaxSessions : ~ActiveLater(i)
        BY <4>1 DEF ActiveLater, Active
      <4>4. UpToDate'
        BY <1>0, <3>1, <4>2, <4>3, SmoothUpToDate DEF UpToDate
      <4> QED
        BY <4>4 DEF UpToDate, SamePassword, Maker
    <3> QED
      BY <1>1, <3>2, <3>3, DeskUser
  <2> QED
    BY <2>1, <2>2, <2>3 DEF OldPassword
<1>2. ASSUME Apart, SamePassword => SamePassword'
      PROVE  SamePassword' \/ \E t \in Slots : At(t, {"reset"}, "revokeAdmin")'
  BY <1>2 DEF OldPassword, Apart, At, DeskKinds
<1>3. ASSUME NEW s \in Slots, AuthStep(s) \/ AuthFails(s) \/ AuthStarts(s)
      PROVE  SamePassword' \/ \E t \in Slots : At(t, {"reset"}, "revokeAdmin")'
  BY <1>0, <1>2, <1>3, AuthApart, PasswordAuth
<1>4. CASE \/ AccessExpires \/ WindowPasses \/ Restart \/ UNCHANGED vars
           \/ \E i \in 1..MaxSessions : SessionExpires(i)
  <2>1. user' = user
    BY <1>4, RestApart DEF Apart
  <2> QED
    BY <1>0, <1>2, <1>4, <2>1, RestApart, RestSmooth, SmoothPassword
<1> QED
  BY <1>1, <1>3, <1>4 DEF Next, Step

LEMMA RevocationsInit ==
  ASSUME Init
  PROVE  Disabled /\ Demoted /\ OldPassword
<1>1. \A s \in Slots : req[s] = Idle
  BY DEF Init, UsersInit
<1>2. \A s \in Slots : ~Maker(s) /\ ~Changing(s) /\ req[s].kind # "patch"
  BY <1>1 DEF Maker, At, Holding, Replacing, Changing, Idle
<1>3. user \in {NoUser} \cup NewRow
  BY DEF Init, UsersInit
<1>4. CASE adminSessions = <<>>
  <2>1. \A i \in 1..MaxSessions : ~ActiveLater(i)
    BY <1>4 DEF ActiveLater, Active
  <2>2. UpToDate
    BY <1>2, <2>1 DEF UpToDate
  <2> QED
    BY <1>2, <2>2, UpToDatePassword DEF Disabled, Demoted, OldPassword
<1>5. CASE /\ user.admin
           /\ adminSessions = <<[state |-> "active", from |-> 1, pw |-> 1, late |-> FALSE]>>
  <2>1. user.active /\ user.pw = 1
    BY <1>3, <1>5 DEF NoUser, NewRow
  <2>2. \A i \in 1..MaxSessions : ActiveLater(i) => adminSessions[i].pw = user.pw
    BY <1>5, <2>1 DEF ActiveLater, Active
  <2>3. SamePassword
    BY <1>2, <2>2 DEF SamePassword, Maker
  <2> QED
    BY <1>2, <1>5, <2>1, <2>3 DEF Disabled, Demoted, OldPassword
<1> QED
  BY <1>4, <1>5 DEF Init

(* When no change of the desk is under way and no query has failed, a disabled *)
(* or demoted account has no session, and a new password none of an earlier    *)
(* one, but those a request under way inserted after the revocation            *)
(* (access/users.js:300, auth.js:33, auth/sessions.js:38): those are all that  *)
(* a revocation misses, for any number of changes and of requests.             *)
THEOREM RevocationHolds == Spec => []RevokedStaysOut
<1>1. Init => Typed /\ Disabled /\ Demoted /\ OldPassword
  BY TypedInit, RevocationsInit
<1>2. Typed /\ Disabled /\ Demoted /\ OldPassword /\ [Next]_vars
        => Typed' /\ Disabled' /\ Demoted' /\ OldPassword'
  BY TypedNext, DisabledNext, DemotedNext, OldPasswordNext
<1>3. Disabled /\ Demoted /\ OldPassword => RevokedStaysOut
  <2> SUFFICES ASSUME Disabled, Demoted, OldPassword PROVE RevokedStaysOut
    OBVIOUS
  <2>1. Settled => /\ faults = 0 /\ ~\E s \in Slots : Patching(s)
                   /\ ~\E s \in Slots : At(s, {"reset"}, "revokeAdmin")
    BY DEF Settled, AboutToRevoke, Patching, At
  <2>2. DisabledHasNoSession /\ DemotedHasNoSession
    BY <2>1 DEF Disabled, Demoted, UpToDate, DisabledHasNoSession, DemotedHasNoSession
  <2>3. OldPasswordHasNoSession
    BY <2>1 DEF OldPassword, SamePassword, OldPasswordHasNoSession
  <2> QED
    BY <2>2, <2>3 DEF RevokedStaysOut
<1> QED
  BY <1>1, <1>2, <1>3, PTL DEF Spec
==============================================================================
