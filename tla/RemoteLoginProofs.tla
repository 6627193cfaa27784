-------------------------- MODULE RemoteLoginProofs --------------------------
(***************************************************************************)
(* Theorems about RemoteLogin, for any number of tabs, devices, requests   *)
(* and faults.  What the desk does to the account is in AccessUsersProofs. *)
(***************************************************************************)
EXTENDS RemoteLogin, AccessUsersProofs

-----------------------------------------------------------------------------
(* Requests, by the page or the route that makes them *)

CodeRequest ==
  [kind: {"login", "resend"},
   pc: {"find", "user", "hash", "insert", "mail", "unsend", "replace", "reply"},
   typed: 0..(MaxRequests + 1), code: 0..MaxCodes]

VerifyRequest ==
  [kind: {"verify"}, pc: {"find", "count", "consume", "user", "create", "reply"},
   code: 0..MaxCodes, right: BOOLEAN, sid: 0..MaxCodes, late: BOOLEAN]

LogoutRequest ==
  [kind: {"logout"}, pc: {"active", "user", "revoke", "reply"},
   sid: 0..MaxCodes, ok: BOOLEAN, selected: BOOLEAN]

ViewRequest ==
  [kind: {"view"}, pc: {"active", "user", "scope", "query", "reply"},
   sid: 0..MaxCodes, ok: BOOLEAN, selected: BOOLEAN,
   about: SUBSET Devices, shown: SUBSET Devices, may: SUBSET Devices]

UserKinds == {"login", "resend", "verify", "logout", "view"}

AnyRequest == {Idle} \cup DeskRequest \cup UserRequest

(* The codes and sessions a request names are there. *)
Fits(r, ncodes, nsessions) ==
  /\ r.kind \in {"login", "resend"} =>
       /\ r.code <= ncodes
       /\ r.pc \in {"mail", "unsend", "replace", "reply"} => r.code # 0
  /\ r.kind = "verify" =>
       /\ r.code <= ncodes /\ r.sid <= nsessions
       /\ r.pc # "find" => r.code # 0
       /\ r.pc = "reply" => r.sid # 0
  /\ r.kind \in {"logout", "view"} => r.sid <= nsessions

(* It may still insert a code, or a session. *)
Issuing(r) == r.kind \in {"login", "resend"} /\ r.pc \in {"find", "user", "hash", "insert"}
Opening(r) == r.kind = "verify" /\ r.pc # "reply"

Issuers == {s \in Slots : Issuing(req[s])}
Openers == {s \in Slots : Opening(req[s])}

(* Every code and every session was asked for. *)
Counts ==
  /\ Len(codes) + Cardinality(Issuers) <= asked + 1
  /\ Len(remoteSessions) + Cardinality(Openers) <= asked + 1

(* What the pages, the cookie and the rows name is there. *)
Held ==
  /\ codes \in Seq(Code)
  /\ cookie \in 0..Len(remoteSessions)
  /\ tab \in [Slots -> Page]
  /\ \A s \in Slots : tab[s].challenge <= Len(codes)
  /\ failures \in Nat
  /\ crossed \in BOOLEAN
  /\ \A i \in 1..Len(remoteSessions) : remoteSessions[i].from \in 1..Len(codes)
  /\ left \subseteq 1..Len(remoteSessions)
  /\ raced \subseteq 1..Len(codes)

(* Everything has its type, and names what there is. *)
Typed ==
  /\ DeskOK
  /\ req \in [Slots -> AnyRequest]
  /\ \A s \in Slots : Fits(req[s], Len(codes), Len(remoteSessions))
  /\ Counts /\ Held

-----------------------------------------------------------------------------
LEMMA Lengths ==
  ASSUME Typed
  PROVE  /\ Len(codes) \in Nat /\ Len(codes) <= asked + 1 /\ Len(codes) <= MaxCodes
         /\ Len(remoteSessions) \in Nat /\ Len(remoteSessions) <= asked + 1
         /\ Len(remoteSessions) <= MaxCodes
         /\ MaxCodes \in Nat /\ asked \in Nat /\ asked <= MaxRequests /\ MaxRequests \in Nat
         /\ IsFiniteSet(Issuers) /\ Cardinality(Issuers) \in Nat
         /\ IsFiniteSet(Openers) /\ Cardinality(Openers) \in Nat
         /\ DOMAIN codes = 1..Len(codes) /\ DOMAIN remoteSessions = 1..Len(remoteSessions)
         /\ \A i \in 1..Len(codes) : codes[i] \in Code
         /\ \A i \in 1..Len(remoteSessions) : remoteSessions[i] \in Session
<1>1. /\ codes \in Seq(Code) /\ remoteSessions \in Seq(Session)
      /\ asked \in 0..MaxRequests /\ MaxRequests \in Nat
  BY BoundsAssumption DEF Typed, Held, DeskOK, UsersTypeOK
<1>2. Len(codes) \in Nat /\ Len(remoteSessions) \in Nat
      /\ DOMAIN codes = 1..Len(codes) /\ DOMAIN remoteSessions = 1..Len(remoteSessions)
  BY <1>1, LenProperties
<1>3. /\ \A i \in 1..Len(codes) : codes[i] \in Code
      /\ \A i \in 1..Len(remoteSessions) : remoteSessions[i] \in Session
  BY <1>1, <1>2, ElementOfSeq
<1>4. IsFiniteSet(Issuers) /\ IsFiniteSet(Openers)
  BY BoundsAssumption, FS_Subset DEF Issuers, Openers
<1>5. Cardinality(Issuers) \in Nat /\ Cardinality(Openers) \in Nat
  BY <1>4, FS_CardinalityType
<1> QED
  BY <1>1, <1>2, <1>3, <1>4, <1>5 DEF Typed, Counts, MaxCodes

LEMMA TypedTypeOK ==
  ASSUME Typed
  PROVE  TypeOK
<1>1. /\ UsersTypeOK /\ req \in [Slots -> {Idle} \cup DeskRequest \cup UserRequest]
      /\ codes \in Seq(Code) /\ cookie \in 0..Len(remoteSessions) /\ tab \in [Slots -> Page]
      /\ \A s \in Slots : tab[s].challenge <= Len(codes)
      /\ failures \in Nat /\ crossed \in BOOLEAN
  BY DEF Typed, DeskOK, Held, AnyRequest
<1>2. Len(codes) <= MaxCodes /\ raced \cup left \subseteq 1..MaxCodes
  BY Lengths DEF Typed, Held
<1> QED
  BY <1>1, <1>2 DEF TypeOK

LEMMA UserRequests == UserRequest = CodeRequest \cup VerifyRequest \cup LogoutRequest \cup ViewRequest
BY DEF UserRequest, CodeRequest, VerifyRequest, LogoutRequest, ViewRequest

LEMMA UserMarks ==
  ASSUME NEW r \in UserRequest
  PROVE  /\ r.kind \in UserKinds /\ r.kind \notin DeskKinds /\ "kind" \in DOMAIN r /\ r # Idle
         /\ r.kind \in {"login", "resend"} => r \in CodeRequest
         /\ r.kind = "verify" => r \in VerifyRequest
         /\ r.kind = "logout" => r \in LogoutRequest
         /\ r.kind = "view" => r \in ViewRequest
         /\ "late" \in DOMAIN r <=> r.kind = "verify"
         /\ "may" \in DOMAIN r <=> r.kind = "view"
<1>1. CASE r \in CodeRequest
  BY <1>1 DEF CodeRequest, UserKinds, DeskKinds, Idle
<1>2. CASE r \in VerifyRequest
  BY <1>2 DEF VerifyRequest, UserKinds, DeskKinds, Idle
<1>3. CASE r \in LogoutRequest
  BY <1>3 DEF LogoutRequest, UserKinds, DeskKinds, Idle
<1>4. CASE r \in ViewRequest
  BY <1>4 DEF ViewRequest, UserKinds, DeskKinds, Idle
<1> QED
  BY <1>1, <1>2, <1>3, <1>4, UserRequests

LEMMA Kinds ==
  ASSUME Typed, NEW s \in Slots
  PROVE  /\ req[s] \in AnyRequest /\ DOMAIN req = Slots
         /\ Fits(req[s], Len(codes), Len(remoteSessions))
         /\ req[s].kind \in DeskKinds => req[s] \in DeskRequest
         /\ req[s].kind \in UserKinds => req[s] \in UserRequest
         /\ req[s].kind \in {"login", "resend"} => req[s] \in CodeRequest
         /\ req[s].kind = "verify" => req[s] \in VerifyRequest
         /\ req[s].kind = "logout" => req[s] \in LogoutRequest
         /\ req[s].kind = "view" => req[s] \in ViewRequest
         /\ \A p : Goto(s, p) => Puts(s, [req[s] EXCEPT !.pc = p])
         /\ Finish(s) => Puts(s, Idle)
<1>1. /\ req[s] \in AnyRequest /\ DOMAIN req = Slots
      /\ Fits(req[s], Len(codes), Len(remoteSessions))
  BY DEF Typed
<1>2. Idle.kind = "idle" /\ \A r \in DeskRequest : r.kind \in DeskKinds
  BY NoMarks
<1>3. \A p : Goto(s, p) => Puts(s, [req[s] EXCEPT !.pc = p])
  BY <1>1 DEF Goto, Puts
<1>4. Finish(s) => Puts(s, Idle)
  BY DEF Finish, Puts
<1> QED
  BY <1>1, <1>2, <1>3, <1>4, UserMarks DEF AnyRequest, UserKinds, DeskKinds

(* What one request may cost: the code or the session it was allowed. *)
Spends(q, r) ==
  /\ \/ Len(codes') = Len(codes)
        /\ (Issuing(r) => Issuing(q) \/ asked' = asked + 1)
     \/ Len(codes') = Len(codes) + 1 /\ Issuing(q) /\ ~Issuing(r)
  /\ \/ Len(remoteSessions') = Len(remoteSessions)
        /\ (Opening(r) => Opening(q) \/ asked' = asked + 1)
     \/ Len(remoteSessions') = Len(remoteSessions) + 1 /\ Opening(q) /\ ~Opening(r)

LEMMA FitsMore ==
  ASSUME NEW r \in AnyRequest, NEW n \in Nat, NEW m \in Nat, NEW n1 \in Nat, NEW m1 \in Nat,
         n <= n1, m <= m1, Fits(r, n, m)
  PROVE  Fits(r, n1, m1)
<1>0. MaxCodes \in Nat
  BY BoundsAssumption DEF MaxCodes
<1>1. CASE r = Idle \/ r \in DeskRequest
  BY <1>1, NoMarks DEF Fits, DeskKinds
<1>2. CASE r \in CodeRequest
  BY <1>0, <1>2 DEF Fits, CodeRequest
<1>3. CASE r \in VerifyRequest
  BY <1>0, <1>3 DEF Fits, VerifyRequest
<1>4. CASE r \in LogoutRequest
  BY <1>0, <1>4 DEF Fits, LogoutRequest
<1>5. CASE r \in ViewRequest
  BY <1>0, <1>5 DEF Fits, ViewRequest
<1> QED
  BY <1>1, <1>2, <1>3, <1>4, <1>5, UserRequests DEF AnyRequest

LEMMA CountsKept ==
  ASSUME Typed, NEW s \in Slots, NEW r, asked' \in {asked, asked + 1}, Spends(req[s], r),
         \A t \in Slots : /\ Issuing(req[t])' => Issuing(IF t = s THEN r ELSE req[t])
                          /\ Opening(req[t])' => Opening(IF t = s THEN r ELSE req[t])
  PROVE  Counts'
<1>0. /\ Issuers' = {t \in Slots : Issuing(req[t])'}
      /\ Openers' = {t \in Slots : Opening(req[t])'}
  BY DEF Issuers, Openers, Issuing, Opening
<1>1. /\ Issuers' \subseteq Issuers \cup {s}
      /\ ~Issuing(r) => Issuers' \subseteq Issuers \ {s}
      /\ Issuing(req[s]) => s \in Issuers /\ Issuers \cup {s} = Issuers
  BY <1>0 DEF Issuers
<1>2. /\ Openers' \subseteq Openers \cup {s}
      /\ ~Opening(r) => Openers' \subseteq Openers \ {s}
      /\ Opening(req[s]) => s \in Openers /\ Openers \cup {s} = Openers
  BY <1>0 DEF Openers
<1>3. /\ Issuers' \subseteq Issuers => Cardinality(Issuers') <= Cardinality(Issuers)
      /\ s \in Issuers /\ Issuers' \subseteq Issuers \ {s}
           => Cardinality(Issuers') <= Cardinality(Issuers) - 1
      /\ Cardinality(Issuers') <= Cardinality(Issuers) + 1 /\ Cardinality(Issuers') \in Nat
  BY <1>1, Lengths, Counted
<1>4. /\ Openers' \subseteq Openers => Cardinality(Openers') <= Cardinality(Openers)
      /\ s \in Openers /\ Openers' \subseteq Openers \ {s}
           => Cardinality(Openers') <= Cardinality(Openers) - 1
      /\ Cardinality(Openers') <= Cardinality(Openers) + 1 /\ Cardinality(Openers') \in Nat
  BY <1>2, Lengths, Counted
<1>5. /\ Len(codes) \in Nat /\ Len(remoteSessions) \in Nat /\ asked \in Nat
      /\ Cardinality(Issuers) \in Nat /\ Cardinality(Openers) \in Nat /\ Counts
  BY Lengths DEF Typed
<1>6. Len(codes') + Cardinality(Issuers') <= asked' + 1
  <2>1. CASE Len(codes') = Len(codes) /\ Issuing(r) /\ Issuing(req[s])
    BY <1>1, <1>3, <1>5, <2>1 DEF Counts
  <2>2. CASE Len(codes') = Len(codes) /\ asked' = asked + 1
    BY <1>3, <1>5, <2>2 DEF Counts
  <2>3. CASE Len(codes') = Len(codes) /\ ~Issuing(r)
    <3>1. Issuers' \subseteq Issuers
      BY <1>1, <2>3
    <3> QED
      BY <1>3, <1>5, <2>3, <3>1 DEF Counts
  <2>4. CASE Len(codes') = Len(codes) + 1 /\ Issuing(req[s]) /\ ~Issuing(r)
    BY <1>1, <1>3, <1>5, <2>4 DEF Counts
  <2> QED
    BY <2>1, <2>2, <2>3, <2>4 DEF Spends
<1>7. Len(remoteSessions') + Cardinality(Openers') <= asked' + 1
  <2>1. CASE Len(remoteSessions') = Len(remoteSessions) /\ Opening(r) /\ Opening(req[s])
    BY <1>2, <1>4, <1>5, <2>1 DEF Counts
  <2>2. CASE Len(remoteSessions') = Len(remoteSessions) /\ asked' = asked + 1
    BY <1>4, <1>5, <2>2 DEF Counts
  <2>3. CASE Len(remoteSessions') = Len(remoteSessions) /\ ~Opening(r)
    <3>1. Openers' \subseteq Openers
      BY <1>2, <2>3
    <3> QED
      BY <1>4, <1>5, <2>3, <3>1 DEF Counts
  <2>4. CASE Len(remoteSessions') = Len(remoteSessions) + 1 /\ Opening(req[s]) /\ ~Opening(r)
    BY <1>2, <1>4, <1>5, <2>4 DEF Counts
  <2> QED
    BY <2>1, <2>2, <2>3, <2>4 DEF Spends
<1> QED
  BY <1>6, <1>7 DEF Counts

(* A step of a handler that does nothing to the account. *)
LEMMA UserTyped ==
  ASSUME Typed, NEW s \in Slots, NEW r \in {Idle} \cup UserRequest, Puts(s, r),
         req[s] \in {Idle} \cup UserRequest,
         UNCHANGED <<deskVars, adminSessions, overlapped>>,
         asked' \in {asked, asked + 1}, asked' <= MaxRequests, faults' \in 0..MaxFaults,
         remoteSessions' \in Seq(Session), Held', Spends(req[s], r),
         Fits(r, Len(codes'), Len(remoteSessions'))
  PROVE  Typed'
<1>1. /\ req' = [req EXCEPT ![s] = r] /\ DOMAIN req = Slots
      /\ req'[s] = r /\ \A t \in Slots \ {s} : req'[t] = req[t]
  BY DEF Puts, Typed
<1>2. /\ UsersTypeOK /\ Known /\ DeskOK /\ asked \in Nat /\ MaxRequests \in Nat
      /\ adminSessions \in Seq(Session)
      /\ asked' \in asked..MaxRequests
  BY Lengths DEF Typed, DeskOK, UsersTypeOK
<1>3. req' \in [Slots -> AnyRequest] /\ AnyRequest' = AnyRequest
  BY <1>1 DEF Typed, AnyRequest, Idle, DeskRequest, UserRequest
<1>4. DeskOK'
  <2>1. DOMAIN req' = Slots
    BY <1>1
  <2>2. \A t \in Slots : /\ "kind" \in DOMAIN req'[t]
                         /\ req'[t].kind \in DeskKinds => req'[t] = req[t]
    <3>1. "kind" \in DOMAIN r /\ r.kind \notin DeskKinds
      BY NoMarks, UserMarks DEF DeskKinds
    <3> QED
      BY <1>1, <1>2, <3>1 DEF Known
  <2>3. UNCHANGED <<user, scope, wanted, overlapped>> /\ adminSessions' \in Seq(Session)
    BY <1>2 DEF deskVars
  <2> QED
    BY <1>2, <2>1, <2>2, <2>3, OthersKeepDesk
<1>5. \A t \in Slots : Fits(req[t], Len(codes), Len(remoteSessions))'
  <2>1. /\ Len(codes) \in Nat /\ Len(codes') \in Nat /\ Len(codes) <= Len(codes')
        /\ Len(remoteSessions) \in Nat /\ Len(remoteSessions') \in Nat
        /\ Len(remoteSessions) <= Len(remoteSessions')
    BY Lengths DEF Spends
  <2>2. \A t \in Slots \ {s} : Fits(req'[t], Len(codes'), Len(remoteSessions'))
    <3> SUFFICES ASSUME NEW t \in Slots \ {s}
                 PROVE  Fits(req[t], Len(codes'), Len(remoteSessions'))
      BY <1>1
    <3>1. req[t] \in AnyRequest /\ Fits(req[t], Len(codes), Len(remoteSessions))
      BY DEF Typed
    <3> QED
      BY <2>1, <3>1, FitsMore
  <2> QED
    BY <1>1, <2>2 DEF Fits
<1>6. Counts'
  <2>1. \A t \in Slots : /\ Issuing(req[t])' => Issuing(IF t = s THEN r ELSE req[t])
                         /\ Opening(req[t])' => Opening(IF t = s THEN r ELSE req[t])
    BY <1>1 DEF Issuing, Opening
  <2> QED
    BY <2>1, CountsKept
<1> QED
  BY <1>3, <1>4, <1>5, <1>6 DEF Typed

-----------------------------------------------------------------------------
(* Steps of the desk *)

(* While the desk works, a request may come to be late, or see more. *)
Stays(t) ==
  \/ req'[t] = req[t]
  \/ req[t] \in VerifyRequest /\ req'[t] = [req[t] EXCEPT !.late = TRUE]
  \/ /\ req[t] \in ViewRequest
     /\ req'[t] = [req[t] EXCEPT !.may = @ \cup Visible']

LEMMA StaysSame ==
  ASSUME Typed, NEW t \in Slots, Stays(t), Visible' \subseteq Devices
  PROVE  /\ req'[t] \in AnyRequest /\ req'[t].kind = req[t].kind
         /\ req[t] # Idle => req'[t].pc = req[t].pc
         /\ req[t].kind \in {"login", "resend", "verify"} => req'[t].code = req[t].code
         /\ req[t].kind \in {"verify", "logout", "view"} => req'[t].sid = req[t].sid
         /\ req[t].kind \in {"login", "resend", "logout"} => req'[t] = req[t]
         /\ req[t].kind = "verify" => req'[t].late = TRUE \/ req'[t].late = req[t].late
         /\ req[t].kind = "view" => /\ req'[t].selected = req[t].selected
                                    /\ req'[t].shown = req[t].shown
                                    /\ req[t].may \subseteq req'[t].may
<1>1. req[t] \in AnyRequest
  BY Kinds
<1>2. CASE req'[t] = req[t]
  BY <1>1, <1>2
<1>3. CASE req[t] \in VerifyRequest /\ req'[t] = [req[t] EXCEPT !.late = TRUE]
  <2>1. req'[t] \in VerifyRequest
    BY <1>3 DEF VerifyRequest
  <2>2. /\ req[t].kind = "verify" /\ req'[t].kind = "verify" /\ req'[t].pc = req[t].pc
        /\ req'[t].code = req[t].code /\ req'[t].sid = req[t].sid /\ req'[t].late = TRUE
    BY <1>3 DEF VerifyRequest
  <2> QED
    BY <2>1, <2>2, UserRequests DEF AnyRequest
<1>4. CASE req[t] \in ViewRequest /\ req'[t] = [req[t] EXCEPT !.may = @ \cup Visible']
  <2>1. req'[t] \in ViewRequest
    <3>1. (req[t].may \cup Visible') \in SUBSET Devices
      BY <1>4 DEF ViewRequest
    <3> QED
      BY <1>4, <3>1 DEF ViewRequest
  <2>2. /\ req[t].kind = "view" /\ req'[t].kind = "view" /\ req'[t].pc = req[t].pc
        /\ req'[t].sid = req[t].sid /\ req'[t].selected = req[t].selected
        /\ req'[t].shown = req[t].shown /\ req'[t].may = req[t].may \cup Visible'
    BY <1>4 DEF ViewRequest
  <2> QED
    BY <2>1, <2>2, UserRequests DEF AnyRequest
<1> QED
  BY <1>2, <1>3, <1>4 DEF Stays

LEMMA DeskOthers ==
  ASSUME Typed, NEW s \in Slots, NEW r \in {Idle} \cup DeskRequest, Becomes(s, r)
  PROVE  /\ DOMAIN req' = Slots /\ req'[s] = r /\ req' = [t \in Slots |-> req'[t]]
         /\ \A t \in Slots \ {s} : Stays(t)
         /\ PutsWidened(s, r) =>
              \A t \in Slots : req'[t].kind = "view" => Visible' \subseteq req'[t].may
         /\ PutsOvertaken(s, r) =>
              \A t \in Slots : req'[t].kind = "verify" => req'[t].late
<1> DEFINE rs == [req EXCEPT ![s] = r]
<1>0. /\ DOMAIN req = Slots /\ Known
      /\ r.kind \notin UserKinds /\ "kind" \in DOMAIN r
  BY NoMarks DEF Typed, DeskOK, UsersTypeOK, DeskKinds, UserKinds
<1>1. /\ DOMAIN req' = Slots /\ req'[s] = r
      /\ \A t \in Slots \ {s} : req'[t].kind = req[t].kind
  BY <1>0, Becoming
<1>2. DOMAIN rs = Slots /\ rs[s] = r /\ \A t \in Slots \ {s} : rs[t] = req[t]
  BY <1>0
<1>3. ASSUME NEW t \in Slots \ {s}
      PROVE  /\ "late" \in DOMAIN req[t] <=> req[t] \in VerifyRequest
             /\ "may" \in DOMAIN req[t] <=> req[t] \in ViewRequest
             /\ req[t].kind = "verify" => req[t] \in VerifyRequest
             /\ req[t].kind = "view" => req[t] \in ViewRequest
  <2>1. req[t] \in AnyRequest
    BY Kinds
  <2>2. CASE req[t] = Idle \/ req[t] \in DeskRequest
    BY <2>2, NoMarks DEF DeskKinds, VerifyRequest, ViewRequest
  <2>3. CASE req[t] \in UserRequest
    BY <2>3, UserMarks DEF VerifyRequest, ViewRequest
  <2> QED
    BY <2>1, <2>2, <2>3 DEF AnyRequest
<1>4. ASSUME Puts(s, r)
      PROVE  \A t \in Slots \ {s} : Stays(t)
  BY <1>2, <1>4 DEF Puts, Stays
<1>7. req' = [t \in Slots |-> req'[t]]
  <2>1. rs = [t \in Slots |-> rs[t]]
    BY <1>0
  <2> HIDE DEF rs
  <2>2. CASE req' = rs
    BY <2>1, <2>2
  <2>3. CASE req' = Widen(rs, Visible')
    BY <2>3 DEF Widen
  <2>4. CASE req' = Overtake(rs)
    BY <2>4 DEF Overtake
  <2> QED
    BY <2>2, <2>3, <2>4 DEF Becomes, Puts, PutsWidened, PutsOvertaken, rs
<1> HIDE DEF rs
<1>5. ASSUME PutsWidened(s, r)
      PROVE  /\ \A t \in Slots \ {s} : Stays(t)
             /\ \A t \in Slots : req'[t].kind = "view" => Visible' \subseteq req'[t].may
  <2>1. \A t \in Slots \ {s} :
          req'[t] = IF "may" \in DOMAIN req[t] THEN [req[t] EXCEPT !.may = @ \cup Visible']
                    ELSE req[t]
    BY <1>2, <1>5 DEF PutsWidened, Widen, rs
  <2>2. \A t \in Slots \ {s} : Stays(t)
    BY <1>3, <2>1 DEF Stays
  <2>3. ASSUME NEW t \in Slots \ {s}, req[t].kind = "view"
        PROVE  Visible' \subseteq req'[t].may
    <3>1. req[t] \in ViewRequest /\ req'[t] = [req[t] EXCEPT !.may = @ \cup Visible']
      BY <1>3, <2>1, <2>3
    <3>2. req'[t].may = req[t].may \cup Visible'
      BY <3>1 DEF ViewRequest
    <3> QED
      BY <3>2
  <2>4. \A t \in Slots : req'[t].kind = "view" => t # s /\ req[t].kind = "view"
    BY <1>0, <1>1 DEF UserKinds
  <2> QED
    BY <2>2, <2>3, <2>4
<1>6. ASSUME PutsOvertaken(s, r)
      PROVE  /\ \A t \in Slots \ {s} : Stays(t)
             /\ \A t \in Slots : req'[t].kind = "verify" => req'[t].late
  <2>1. \A t \in Slots \ {s} :
          req'[t] = IF "late" \in DOMAIN req[t] THEN [req[t] EXCEPT !.late = TRUE]
                    ELSE req[t]
    BY <1>2, <1>6 DEF PutsOvertaken, Overtake, rs
  <2>2. \A t \in Slots \ {s} : Stays(t)
    BY <1>3, <2>1 DEF Stays
  <2>3. ASSUME NEW t \in Slots \ {s}, req[t].kind = "verify"
        PROVE  req'[t].late
    <3>1. req[t] \in VerifyRequest /\ req'[t] = [req[t] EXCEPT !.late = TRUE]
      BY <1>3, <2>1, <2>3
    <3>2. req'[t].late = TRUE
      BY <3>1 DEF VerifyRequest
    <3> QED
      BY <3>2
  <2>4. \A t \in Slots : req'[t].kind = "verify" => t # s /\ req[t].kind = "verify"
    BY <1>0, <1>1 DEF UserKinds
  <2> QED
    BY <2>2, <2>3, <2>4
<1> QED
  BY <1>1, <1>4, <1>5, <1>6, <1>7 DEF Becomes

LEMMA VisibleDevices ==
  ASSUME DeskOK
  PROVE  Visible \subseteq Devices
BY DEF DeskOK, UsersTypeOK, Visible

LEMMA DeskTyped ==
  ASSUME Typed, NEW s \in Slots, DeskStarts(s) \/ DeskStep(s) \/ DeskFails(s),
         UNCHANGED loginVars
  PROVE  Typed'
<1>1. DeskOK'
  BY DeskKept DEF Typed
<1>2. Visible' \subseteq Devices
  BY <1>1, VisibleDevices DEF DeskOK, Visible, UsersTypeOK
<1>3. PICK r \in {Idle} \cup DeskRequest : Becomes(s, r)
  BY DeskEffect DEF Typed
<1>4. /\ req[s] = Idle \/ req[s] \in DeskRequest
      /\ asked' \in {asked, asked + 1}
      /\ remoteSessions' \in {remoteSessions, AllRevoked(remoteSessions)}
  BY DeskEffect DEF Typed
<1>5. /\ req'[s] = r /\ req' = [t \in Slots |-> req'[t]]
      /\ \A t \in Slots \ {s} : Stays(t)
  BY <1>3, DeskOthers
<1>6. AnyRequest' = AnyRequest
  BY DEF AnyRequest, Idle, DeskRequest, UserRequest
<1>7. req' \in [Slots -> AnyRequest]
  <2>1. \A t \in Slots : req'[t] \in AnyRequest
    BY <1>2, <1>5, StaysSame DEF AnyRequest
  <2> QED
    BY <1>5, <2>1
<1>8. codes' = codes /\ Held /\ remoteSessions \in Seq(Session)
  BY DEF loginVars, Typed, DeskOK, UsersTypeOK
<1>9. /\ Len(remoteSessions') = Len(remoteSessions)
      /\ \A i \in 1..Len(remoteSessions) : remoteSessions'[i].from = remoteSessions[i].from
  BY <1>4, <1>8, AllRevokedRows, SameRows DEF Fewer
<1>10. Held'
  BY <1>8, <1>9 DEF Held, loginVars, Code, Page, MaxCodes
<1>11. r.kind \notin UserKinds /\ req[s].kind \notin UserKinds
  BY <1>4, NoMarks DEF DeskKinds, UserKinds
<1>12. \A t \in Slots \ {s} :
         /\ Fits(req'[t], Len(codes), Len(remoteSessions))
         /\ Issuing(req'[t]) => Issuing(req[t])
         /\ Opening(req'[t]) => Opening(req[t])
  <2> SUFFICES ASSUME NEW t \in Slots \ {s}
               PROVE  /\ Fits(req'[t], Len(codes), Len(remoteSessions))
                      /\ Issuing(req'[t]) => Issuing(req[t])
                      /\ Opening(req'[t]) => Opening(req[t])
    OBVIOUS
  <2>1. /\ req'[t].kind = req[t].kind
        /\ req[t] # Idle => req'[t].pc = req[t].pc
        /\ req[t].kind \in {"login", "resend", "verify"} => req'[t].code = req[t].code
        /\ req[t].kind \in {"verify", "logout", "view"} => req'[t].sid = req[t].sid
    BY <1>2, <1>5, StaysSame
  <2>2. Fits(req[t], Len(codes), Len(remoteSessions)) /\ Idle.kind = "idle"
    BY Kinds, NoMarks
  <2> QED
    BY <2>1, <2>2 DEF Fits, Issuing, Opening
<1>13. \A t \in Slots : Fits(req[t], Len(codes), Len(remoteSessions))'
  <2>1. Fits(req'[s], Len(codes), Len(remoteSessions))
    BY <1>5, <1>11 DEF Fits, UserKinds
  <2>2. \A t \in Slots : Fits(req'[t], Len(codes), Len(remoteSessions))
    BY <1>12, <2>1
  <2> QED
    BY <1>8, <1>9, <2>2 DEF Fits
<1>14. Counts'
  <2>1. ~Issuing(r) /\ ~Opening(r) /\ Spends(req[s], r)
    BY <1>8, <1>9, <1>11 DEF Issuing, Opening, Spends, UserKinds
  <2>2. \A t \in Slots : /\ Issuing(req[t])' => Issuing(IF t = s THEN r ELSE req[t])
                         /\ Opening(req[t])' => Opening(IF t = s THEN r ELSE req[t])
    BY <1>5, <1>12 DEF Issuing, Opening
  <2> QED
    BY <1>4, <2>1, <2>2, CountsKept
<1> QED
  BY <1>1, <1>7, <1>10, <1>13, <1>14 DEF Typed

-----------------------------------------------------------------------------
(* What the steps of the pages and their routes do *)

LEMMA StartShape ==
  ASSUME Typed, NEW s \in Slots, UserStarts(s)
  PROVE  \E r \in UserRequest :
           /\ UserBegin(s, r) /\ Puts(s, r) /\ Fits(r, Len(codes), Len(remoteSessions))
           /\ r.kind \in {"login", "resend"} => r.pc \in {"find", "user"}
           /\ r.kind = "verify" => r.pc = "find"
           /\ r.kind \in {"logout", "view"} => r.pc = "active"
           /\ r.kind = "view" => r.may = Visible /\ r.shown = {}
<1>0. /\ \A n \in 0..Len(codes) : n \in 0..MaxCodes
      /\ cookie \in 0..Len(remoteSessions) /\ cookie \in 0..MaxCodes
      /\ tab[s].challenge \in 0..MaxCodes /\ tab[s].challenge <= Len(codes)
      /\ 0 \in 0..MaxCodes /\ 0 \in 0..(MaxRequests + 1) /\ 0 <= Len(codes)
      /\ 0 <= Len(remoteSessions)
  <2>1. /\ Len(codes) \in Nat /\ Len(remoteSessions) \in Nat /\ MaxCodes \in Nat
        /\ Len(codes) <= MaxCodes /\ Len(remoteSessions) <= MaxCodes
        /\ MaxRequests \in Nat
    BY Lengths
  <2>2. tab[s] \in Page /\ tab[s].challenge <= Len(codes) /\ cookie \in 0..Len(remoteSessions)
    BY DEF Typed, Held
  <2> QED
    BY <2>1, <2>2 DEF Page
<1>1. \A r : UserBegin(s, r) => Puts(s, r)
  BY DEF UserBegin, Begin, Puts
<1>2. ASSUME NEW typed \in 0..(MaxRequests + 1), LoginBegin(s, typed)
      PROVE  \E r \in CodeRequest :
               UserBegin(s, r) /\ r.kind = "login" /\ r.pc = "user" /\ r.code = 0
  <2> DEFINE r == Ask("login", "user", typed, 0)
  <2>1. r \in CodeRequest /\ r.kind = "login" /\ r.pc = "user" /\ r.code = 0
    BY <1>0 DEF Ask, CodeRequest
  <2>2. UserBegin(s, r)
    BY <1>2 DEF LoginBegin
  <2> HIDE DEF r
  <2> QED
    BY <2>1, <2>2
<1>3. ASSUME ResendBegin(s)
      PROVE  \E r \in CodeRequest :
               UserBegin(s, r) /\ r.kind = "resend" /\ r.pc = "find" /\ r.code <= Len(codes)
  <2> DEFINE r == Ask("resend", "find", 0, tab[s].challenge)
  <2>1. r \in CodeRequest /\ r.kind = "resend" /\ r.pc = "find" /\ r.code <= Len(codes)
    BY <1>0 DEF Ask, CodeRequest
  <2>2. UserBegin(s, r)
    BY <1>3 DEF ResendBegin
  <2> HIDE DEF r
  <2> QED
    BY <2>1, <2>2
<1>4. ASSUME NEW right \in BOOLEAN, VerifyBegin(s, right)
      PROVE  \E r \in VerifyRequest :
               /\ UserBegin(s, r) /\ r.kind = "verify" /\ r.pc = "find"
               /\ r.code <= Len(codes) /\ r.sid = 0
  <2> DEFINE r == [kind |-> "verify", pc |-> "find", code |-> tab[s].challenge,
                   right |-> right, sid |-> 0, late |-> FALSE]
  <2>1. /\ r \in VerifyRequest /\ r.kind = "verify" /\ r.pc = "find"
        /\ r.code <= Len(codes) /\ r.sid = 0
    BY <1>0 DEF VerifyRequest
  <2>2. UserBegin(s, r)
    BY <1>4 DEF VerifyBegin
  <2> HIDE DEF r
  <2> QED
    BY <2>1, <2>2
<1>5. ASSUME LogoutBegin(s)
      PROVE  \E r \in LogoutRequest :
               /\ UserBegin(s, r) /\ r.kind = "logout" /\ r.pc = "active" /\ r.sid = cookie
  <2> DEFINE r == [kind |-> "logout", pc |-> "active", sid |-> cookie, ok |-> FALSE,
                   selected |-> FALSE]
  <2>1. r \in LogoutRequest /\ r.kind = "logout" /\ r.pc = "active" /\ r.sid = cookie
    BY <1>0 DEF LogoutRequest
  <2>2. UserBegin(s, r)
    BY <1>5 DEF LogoutBegin
  <2> HIDE DEF r
  <2> QED
    BY <2>1, <2>2
<1>6. ASSUME NEW about \in {Devices} \cup {{d} : d \in Devices}, ViewBegin(s, about)
      PROVE  \E r \in ViewRequest :
               /\ UserBegin(s, r) /\ r.kind = "view" /\ r.pc = "active" /\ r.sid = cookie
               /\ r.may = Visible /\ r.shown = {}
  <2> DEFINE r == View(cookie, about)
  <2>1. about \in SUBSET Devices /\ Visible \in SUBSET Devices
    BY VisibleDevices DEF Typed
  <2>2. /\ r \in ViewRequest /\ r.kind = "view" /\ r.pc = "active" /\ r.sid = cookie
        /\ r.may = Visible /\ r.shown = {}
    BY <1>0, <2>1 DEF View, ViewRequest
  <2>3. UserBegin(s, r)
    BY <1>6 DEF ViewBegin
  <2> HIDE DEF r
  <2> QED
    BY <2>2, <2>3
<1>7. CASE \E r \in CodeRequest :
             /\ UserBegin(s, r) /\ r.kind \in {"login", "resend"}
             /\ r.pc \in {"find", "user"} /\ r.code <= Len(codes)
  BY <1>1, <1>7, UserRequests DEF Fits
<1>8. CASE \E r \in VerifyRequest :
             /\ UserBegin(s, r) /\ r.kind = "verify" /\ r.pc = "find"
             /\ r.code <= Len(codes) /\ r.sid = 0
  BY <1>0, <1>1, <1>8, UserRequests DEF Fits
<1>9. CASE \E r \in LogoutRequest :
             UserBegin(s, r) /\ r.kind = "logout" /\ r.pc = "active" /\ r.sid = cookie
  BY <1>0, <1>1, <1>9, UserRequests DEF Fits
<1>10. CASE \E r \in ViewRequest :
              /\ UserBegin(s, r) /\ r.kind = "view" /\ r.pc = "active" /\ r.sid = cookie
              /\ r.may = Visible /\ r.shown = {}
  BY <1>0, <1>1, <1>10, UserRequests DEF Fits
<1> QED
  BY <1>0, <1>2, <1>3, <1>4, <1>5, <1>6, <1>7, <1>8, <1>9, <1>10 DEF UserStarts

(* Requests further on. *)
LEMMA CodeRecord ==
  ASSUME NEW q \in CodeRequest, NEW p \in {"user", "hash", "insert", "mail", "unsend",
                                           "replace", "reply"}, NEW c \in 0..MaxCodes
  PROVE  /\ [q EXCEPT !.pc = p] \in CodeRequest
         /\ [q EXCEPT !.pc = p].pc = p /\ [q EXCEPT !.pc = p].kind = q.kind
         /\ [q EXCEPT !.pc = p].code = q.code
         /\ [q EXCEPT !.pc = p, !.code = c] \in CodeRequest
         /\ [q EXCEPT !.pc = p, !.code = c].pc = p
         /\ [q EXCEPT !.pc = p, !.code = c].kind = q.kind
         /\ [q EXCEPT !.pc = p, !.code = c].code = c
         /\ q.kind \in {"login", "resend"} /\ q.code \in 0..MaxCodes
BY DEF CodeRequest

LEMMA VerifyRecord ==
  ASSUME NEW q \in VerifyRequest, NEW p \in {"count", "consume", "user", "create", "reply"},
         NEW i \in 0..MaxCodes
  PROVE  /\ [q EXCEPT !.pc = p] \in VerifyRequest
         /\ [q EXCEPT !.pc = p].pc = p /\ [q EXCEPT !.pc = p].kind = "verify"
         /\ [q EXCEPT !.pc = p].code = q.code /\ [q EXCEPT !.pc = p].sid = q.sid
         /\ [q EXCEPT !.pc = p].late = q.late
         /\ [q EXCEPT !.pc = p, !.sid = i] \in VerifyRequest
         /\ [q EXCEPT !.pc = p, !.sid = i].pc = p
         /\ [q EXCEPT !.pc = p, !.sid = i].kind = "verify"
         /\ [q EXCEPT !.pc = p, !.sid = i].code = q.code
         /\ [q EXCEPT !.pc = p, !.sid = i].sid = i
         /\ q.kind = "verify" /\ q.code \in 0..MaxCodes /\ q.late \in BOOLEAN
BY DEF VerifyRequest

UserKeeps == <<deskVars, adminSessions, asked, overlapped>>

LEMMA CodeShape ==
  ASSUME Typed, NEW s \in Slots,
         \/ LoginUser(s) \/ LoginHash(s) \/ ResendFind(s) \/ ResendUser(s)
         \/ MailCode(s) \/ MailFails(s)
  PROVE  /\ req[s] \in CodeRequest /\ UNCHANGED UserKeeps
         /\ UNCHANGED <<remoteSessions, codes, cookie, tab, raced, crossed, left>>
         /\ failures' \in Nat /\ faults' \in {faults, faults + 1} /\ faults' <= MaxFaults
         /\ \E r \in {Idle} \cup CodeRequest :
              /\ Puts(s, r)
              /\ r # Idle => /\ r.kind = req[s].kind /\ r.code = req[s].code
                             /\ \/ Issuing(req[s]) /\ Issuing(r)
                                \/ req[s].pc = "mail" /\ r.pc \in {"replace", "unsend"}
<1>0. /\ failures \in Nat /\ AfterFailure(failures) \in Nat /\ Forgotten \in Nat
      /\ faults \in 0..MaxFaults /\ MaxFaults \in Nat
  BY BoundsAssumption DEF Typed, Held, AfterFailure, Forgotten, DeskOK, UsersTypeOK
<1>1. req[s].kind \in {"login", "resend"} => req[s] \in CodeRequest
  BY Kinds
<1> DEFINE rec(p) == [req[s] EXCEPT !.pc = p]
<1>2. \A p : Goto(s, p) => Puts(s, rec(p))
  BY Kinds
<1>3. Finish(s) => Puts(s, Idle)
  BY Kinds
<1>4. ASSUME req[s] \in CodeRequest, NEW p \in {"user", "hash", "insert", "replace", "unsend"}
      PROVE  rec(p) \in CodeRequest /\ rec(p).pc = p /\ rec(p).kind = req[s].kind
             /\ rec(p).code = req[s].code
  BY <1>4 DEF CodeRequest
<1> HIDE DEF rec
<1>5. CASE LoginUser(s)
  <2>1. /\ req[s].kind = "login" /\ req[s].pc = "user" /\ UNCHANGED UserKeeps
        /\ faults' = faults /\ failures' \in Nat
        /\ UNCHANGED <<remoteSessions, codes, cookie, tab, raced, crossed, left>>
        /\ Puts(s, rec("hash")) \/ Puts(s, Idle)
    BY <1>0, <1>2, <1>3, <1>5 DEF LoginUser, At, Reject, StepKeeps, UserKeeps, bookVars
  <2> QED
    BY <1>0, <1>1, <1>4, <2>1 DEF Issuing
<1>6. CASE LoginHash(s)
  <2>1. /\ req[s].kind = "login" /\ req[s].pc = "hash" /\ UNCHANGED UserKeeps
        /\ faults' = faults /\ failures' \in Nat
        /\ UNCHANGED <<remoteSessions, codes, cookie, tab, raced, crossed, left>>
        /\ Puts(s, rec("insert")) \/ Puts(s, Idle)
    BY <1>0, <1>2, <1>3, <1>6 DEF LoginHash, At, Reject, StepKeeps, UserKeeps, bookVars
  <2> QED
    BY <1>0, <1>1, <1>4, <2>1 DEF Issuing
<1>7. CASE ResendFind(s) \/ ResendUser(s)
  <2>1. /\ req[s].kind = "resend" /\ req[s].pc \in {"find", "user"} /\ UNCHANGED UserKeeps
        /\ faults' = faults /\ failures' \in Nat
        /\ UNCHANGED <<remoteSessions, codes, cookie, tab, raced, crossed, left>>
        /\ Puts(s, rec("user")) \/ Puts(s, rec("insert")) \/ Puts(s, Idle)
    BY <1>0, <1>2, <1>3, <1>7
       DEF ResendFind, ResendUser, At, StepKeeps, UserKeeps, bookVars, loginVars
  <2> QED
    BY <1>0, <1>1, <1>4, <2>1 DEF Issuing
<1>8. CASE MailCode(s) \/ MailFails(s)
  <2>1. /\ req[s].kind \in {"login", "resend"} /\ req[s].pc = "mail" /\ UNCHANGED UserKeeps
        /\ UNCHANGED <<remoteSessions, codes, cookie, tab, raced, crossed, left>>
        /\ failures' \in Nat /\ faults' \in {faults, faults + 1} /\ faults' <= MaxFaults
        /\ Puts(s, rec("replace")) \/ Puts(s, rec("unsend"))
    BY <1>0, <1>2, <1>8
       DEF MailCode, MailFails, At, StepKeeps, UserKeeps, bookVars, loginVars
  <2> QED
    BY <1>1, <1>4, <2>1
<1> QED
  BY <1>5, <1>6, <1>7, <1>8

LEMMA CodeRow ==
  ASSUME NEW r \in Code
  PROVE  /\ \A v \in {"open", "used", "replaced", "deleted", "expired"} :
              /\ [r EXCEPT !.state = v] \in Code /\ [r EXCEPT !.state = v].state = v
              /\ [r EXCEPT !.state = v].attempts = r.attempts
              /\ [r EXCEPT !.state = v].told = r.told
         /\ [r EXCEPT !.attempts = @ + 1] \in Code
         /\ [r EXCEPT !.attempts = @ + 1].state = r.state
         /\ [r EXCEPT !.attempts = @ + 1].attempts = r.attempts + 1
         /\ [r EXCEPT !.attempts = @ + 1].told = r.told
         /\ [r EXCEPT !.told = TRUE] \in Code
         /\ [r EXCEPT !.told = TRUE].state = r.state
         /\ [r EXCEPT !.told = TRUE].attempts = r.attempts
         /\ [r EXCEPT !.resendable = TRUE] \in Code
         /\ [r EXCEPT !.resendable = TRUE].state = r.state
         /\ [r EXCEPT !.resendable = TRUE].attempts = r.attempts
         /\ [r EXCEPT !.resendable = TRUE].told = r.told
         /\ r.attempts \in Nat
<1>1. ASSUME NEW v \in {"open", "used", "replaced", "deleted", "expired"}
      PROVE  /\ [r EXCEPT !.state = v] \in Code /\ [r EXCEPT !.state = v].state = v
             /\ [r EXCEPT !.state = v].attempts = r.attempts
             /\ [r EXCEPT !.state = v].told = r.told
  BY DEF Code
<1>2. /\ [r EXCEPT !.attempts = @ + 1] \in Code
      /\ [r EXCEPT !.attempts = @ + 1].state = r.state
      /\ [r EXCEPT !.attempts = @ + 1].attempts = r.attempts + 1
      /\ [r EXCEPT !.attempts = @ + 1].told = r.told
  BY DEF Code
<1>3. /\ [r EXCEPT !.told = TRUE] \in Code
      /\ [r EXCEPT !.told = TRUE].state = r.state
      /\ [r EXCEPT !.told = TRUE].attempts = r.attempts
  BY DEF Code
<1>4. /\ [r EXCEPT !.resendable = TRUE] \in Code
      /\ [r EXCEPT !.resendable = TRUE].state = r.state
      /\ [r EXCEPT !.resendable = TRUE].attempts = r.attempts
      /\ [r EXCEPT !.resendable = TRUE].told = r.told
      /\ r.attempts \in Nat
  BY DEF Code
<1> QED
  BY <1>1, <1>2, <1>3, <1>4

LEMMA CodeChanged ==
  ASSUME codes \in Seq(Code), NEW c \in 1..Len(codes), NEW row \in Code,
         codes' = [codes EXCEPT ![c] = row]
  PROVE  /\ codes' \in Seq(Code) /\ Len(codes') = Len(codes)
         /\ codes'[c] = row /\ \A i \in 1..Len(codes) : i # c => codes'[i] = codes[i]
<1>1. Len(codes) \in Nat /\ DOMAIN codes = 1..Len(codes)
  BY LenProperties
<1>2. codes' \in Seq(Code) /\ Len(codes') = Len(codes)
  BY <1>1, ExceptSeq
<1> QED
  BY <1>1, <1>2

(* A code is inserted, open and untold, and mailed next. *)
LEMMA IssueShape ==
  ASSUME Typed, NEW s \in Slots, InsertCode(s)
  PROVE  /\ req[s] \in CodeRequest /\ Issuing(req[s]) /\ UNCHANGED <<UserKeeps, faults>>
         /\ UNCHANGED <<remoteSessions, cookie, tab, failures, raced, left>>
         /\ codes' \in Seq(Code) /\ Len(codes') = Len(codes) + 1
         /\ \A i \in 1..Len(codes) : codes'[i] = codes[i]
         /\ LET n == Len(codes) + 1 IN
              /\ codes'[n].state = "open" /\ codes'[n].attempts = 0 /\ codes'[n].told = FALSE
              /\ \E r \in CodeRequest : /\ Puts(s, r) /\ r.kind = req[s].kind
                                        /\ r.pc = "mail" /\ r.code = n
         /\ crossed' = (crossed \/ \E t \in Slots : req[t].kind \in {"login", "resend"}
                                                    /\ req[t].pc \in {"mail", "replace"})
<1> DEFINE row == [state |-> "open", attempts |-> 0, resendable |-> FALSE, told |-> FALSE]
           n == Len(codes) + 1
           r == [req[s] EXCEPT !.pc = "mail", !.code = n]
<1>0. /\ codes \in Seq(Code) /\ DOMAIN req = Slots
  BY Kinds DEF Typed, Held
<1>1. /\ req[s].kind \in {"login", "resend"} /\ req[s].pc = "insert"
      /\ UNCHANGED <<UserKeeps, faults>>
      /\ UNCHANGED <<remoteSessions, cookie, tab, failures, raced, left>>
      /\ codes' = Append(codes, row) /\ Puts(s, r)
      /\ crossed' = (crossed \/ \E t \in Slots : req[t].kind \in {"login", "resend"}
                                                 /\ req[t].pc \in {"mail", "replace"})
  BY <1>0 DEF InsertCode, At, StepKeeps, UserKeeps, bookVars, Puts
<1>2. req[s] \in CodeRequest /\ Issuing(req[s])
  BY <1>1, Kinds DEF Issuing
<1>3. n \in 0..MaxCodes
  <2>1. s \in Issuers
    BY <1>2 DEF Issuers
  <2>2. Cardinality(Issuers) >= 1
    BY <2>1, Lengths, FS_EmptySet
  <2> QED
    BY <2>2, Lengths DEF Typed, Counts, MaxCodes
<1>4. row \in Code /\ row.state = "open" /\ row.attempts = 0 /\ row.told = FALSE
  BY DEF Code
<1>5. r \in CodeRequest /\ r.kind = req[s].kind /\ r.pc = "mail" /\ r.code = n
  BY <1>2, <1>3 DEF CodeRequest
<1> HIDE DEF row, r
<1>6. /\ codes' \in Seq(Code) /\ Len(codes') = n /\ codes'[n] = row
      /\ \A i \in 1..Len(codes) : codes'[i] = codes[i]
  BY <1>0, <1>1, <1>4, AppendProperties
<1> QED
  BY <1>1, <1>2, <1>4, <1>5, <1>6

(* The code whose mail was refused goes. *)
LEMMA DeleteShape ==
  ASSUME Typed, NEW s \in Slots, DeleteCode(s)
  PROVE  /\ req[s] \in CodeRequest /\ UNCHANGED <<UserKeeps, faults>>
         /\ UNCHANGED <<remoteSessions, cookie, tab, failures, raced, crossed, left>>
         /\ codes' \in Seq(Code) /\ Len(codes') = Len(codes) /\ Puts(s, Idle)
         /\ \A i \in 1..Len(codes) :
              /\ codes'[i].attempts = codes[i].attempts /\ codes'[i].told = codes[i].told
              /\ codes'[i].state \in {codes[i].state, "deleted"}
<1>1. /\ req[s].kind \in {"login", "resend"} /\ req[s].pc = "unsend"
      /\ UNCHANGED <<UserKeeps, faults>>
      /\ UNCHANGED <<remoteSessions, cookie, tab, failures, raced, crossed, left>>
      /\ Puts(s, Idle)
      /\ \/ codes' = codes
         \/ codes' = [codes EXCEPT ![req[s].code].state = "deleted"]
  BY Kinds DEF DeleteCode, At, StepKeeps, UserKeeps, bookVars
<1>2. req[s] \in CodeRequest /\ req[s].code \in 1..Len(codes)
  BY <1>1, Kinds, Lengths DEF Fits, CodeRequest
<1>3. codes \in Seq(Code) /\ \A i \in 1..Len(codes) : codes[i] \in Code
  BY Lengths DEF Typed, Held
<1>4. CASE codes' = codes
  BY <1>1, <1>2, <1>3, <1>4
<1>5. CASE codes' = [codes EXCEPT ![req[s].code].state = "deleted"]
  <2> DEFINE c == req[s].code
             row == [codes[c] EXCEPT !.state = "deleted"]
  <2>1. /\ row \in Code /\ row.state = "deleted" /\ row.attempts = codes[c].attempts
        /\ row.told = codes[c].told
    BY <1>2, <1>3, CodeRow
  <2>2. codes' = [codes EXCEPT ![c] = row]
    BY <1>5
  <2> HIDE DEF row
  <2>3. /\ codes' \in Seq(Code) /\ Len(codes') = Len(codes)
        /\ codes'[c] = row /\ \A i \in 1..Len(codes) : i # c => codes'[i] = codes[i]
    BY <1>2, <1>3, <2>1, <2>2, CodeChanged
  <2> QED
    BY <1>1, <1>2, <2>1, <2>3
<1> QED
  BY <1>1, <1>4, <1>5

(* Every other code that is open is consumed. *)
LEMMA ReplaceShape ==
  ASSUME Typed, NEW s \in Slots, ReplaceOthers(s)
  PROVE  /\ req[s] \in CodeRequest /\ req[s].pc = "replace" /\ req[s].code \in 1..Len(codes)
         /\ UNCHANGED <<UserKeeps, faults>>
         /\ UNCHANGED <<remoteSessions, cookie, tab, failures, raced, crossed, left>>
         /\ codes' \in Seq(Code) /\ Len(codes') = Len(codes)
         /\ \A i \in 1..Len(codes) :
              /\ codes'[i].attempts = codes[i].attempts /\ codes'[i].told = codes[i].told
              /\ i = req[s].code => codes'[i].state = codes[i].state
              /\ i # req[s].code =>
                   codes'[i].state = IF codes[i].state = "open" THEN "replaced"
                                     ELSE codes[i].state
         /\ \E r \in CodeRequest : /\ Puts(s, r) /\ r.kind = req[s].kind
                                   /\ r.pc = "reply" /\ r.code = req[s].code
<1> DEFINE r == [req[s] EXCEPT !.pc = "reply"]
           c == req[s].code
<1>1. /\ req[s].kind \in {"login", "resend"} /\ req[s].pc = "replace"
      /\ UNCHANGED <<UserKeeps, faults>>
      /\ UNCHANGED <<remoteSessions, cookie, tab, failures, raced, crossed, left>>
      /\ Puts(s, r)
      /\ codes' = [i \in DOMAIN codes |-> IF i # c /\ codes[i].state = "open"
                     THEN [codes[i] EXCEPT !.state = "replaced"] ELSE codes[i]]
  BY Kinds DEF ReplaceOthers, At, StepKeeps, UserKeeps, bookVars
<1>2. req[s] \in CodeRequest /\ c \in 1..Len(codes)
  BY <1>1, Kinds, Lengths DEF Fits, CodeRequest
<1>3. r \in CodeRequest /\ r.kind = req[s].kind /\ r.pc = "reply" /\ r.code = c
  BY <1>2 DEF CodeRequest
<1>4. /\ Len(codes) \in Nat /\ DOMAIN codes = 1..Len(codes)
      /\ \A i \in 1..Len(codes) : codes[i] \in Code
  BY Lengths
<1>5. ASSUME NEW i \in 1..Len(codes)
      PROVE  /\ codes'[i] \in Code
             /\ codes'[i].attempts = codes[i].attempts /\ codes'[i].told = codes[i].told
             /\ i = c => codes'[i].state = codes[i].state
             /\ i # c => codes'[i].state = IF codes[i].state = "open" THEN "replaced"
                                           ELSE codes[i].state
  <2>1. codes[i] \in Code
    BY <1>4
  <2>2. CASE i # c /\ codes[i].state = "open"
    <3>1. codes'[i] = [codes[i] EXCEPT !.state = "replaced"]
      BY <1>1, <1>4, <2>2
    <3>2. /\ [codes[i] EXCEPT !.state = "replaced"] \in Code
          /\ [codes[i] EXCEPT !.state = "replaced"].state = "replaced"
          /\ [codes[i] EXCEPT !.state = "replaced"].attempts = codes[i].attempts
          /\ [codes[i] EXCEPT !.state = "replaced"].told = codes[i].told
      BY <2>1, CodeRow
    <3> QED
      BY <2>2, <3>1, <3>2
  <2>3. CASE ~(i # c /\ codes[i].state = "open")
    <3>1. codes'[i] = codes[i]
      BY <1>1, <1>4, <2>3
    <3> QED
      BY <2>1, <2>3, <3>1
  <2> QED
    BY <2>2, <2>3
<1>6. codes' \in Seq(Code) /\ Len(codes') = Len(codes)
  <2>1. codes' = [i \in 1..Len(codes) |-> codes'[i]]
    BY <1>1, <1>4
  <2> QED
    BY <1>4, <1>5, <2>1, IsASeq
<1> HIDE DEF r
<1> QED
  BY <1>1, <1>2, <1>3, <1>5, <1>6

(* The code is read: open, and not guessed too often. *)
LEMMA FindShape ==
  ASSUME Typed, NEW s \in Slots, FindCode(s)
  PROVE  /\ req[s] \in VerifyRequest /\ req[s].pc = "find" /\ UNCHANGED <<UserKeeps, faults>>
         /\ UNCHANGED <<remoteSessions, codes, cookie, tab, failures, crossed, left>>
         /\ \/ Puts(s, Idle) /\ raced' = raced
            \/ /\ req[s].code \in 1..Len(codes) /\ Open(req[s].code)
               /\ codes[req[s].code].attempts < MaxCodeAttempts
               /\ raced' = IF \E t \in Slots \ {s} : At(t, {"verify"}, "consume")
                                                     /\ req[t].code = req[s].code
                           THEN raced \cup {req[s].code} ELSE raced
               /\ \E r \in VerifyRequest :
                    /\ Puts(s, r) /\ r.pc \in {"consume", "count"}
                    /\ r.code = req[s].code /\ r.sid = req[s].sid
<1> DEFINE rec(p) == [req[s] EXCEPT !.pc = p]
<1>1. /\ req[s] \in VerifyRequest /\ req[s].pc = "find" /\ UNCHANGED <<UserKeeps, faults>>
      /\ UNCHANGED <<remoteSessions, codes, cookie, tab, failures, crossed, left>>
  BY Kinds DEF FindCode, At, StepKeeps, UserKeeps, bookVars
<1>2. CASE Open(req[s].code) /\ codes[req[s].code].attempts < MaxCodeAttempts
  <2>1. /\ Puts(s, rec("consume")) \/ Puts(s, rec("count"))
        /\ raced' = IF \E t \in Slots \ {s} : At(t, {"verify"}, "consume")
                                              /\ req[t].code = req[s].code
                    THEN raced \cup {req[s].code} ELSE raced
    BY <1>2, Kinds DEF FindCode
  <2>2. req[s].code \in 1..Len(codes)
    BY <1>2, Lengths DEF Open
  <2>3. \A p \in {"consume", "count"} :
          /\ rec(p) \in VerifyRequest /\ rec(p).pc = p
          /\ rec(p).code = req[s].code /\ rec(p).sid = req[s].sid
    BY <1>1 DEF VerifyRequest
  <2> HIDE DEF rec
  <2> QED
    BY <1>1, <1>2, <2>1, <2>2, <2>3
<1>3. CASE ~(Open(req[s].code) /\ codes[req[s].code].attempts < MaxCodeAttempts)
  <2>1. Puts(s, Idle) /\ raced' = raced
    BY <1>3, Kinds DEF FindCode
  <2> QED
    BY <1>1, <2>1
<1> QED
  BY <1>2, <1>3

LEMMA CountShape ==
  ASSUME Typed, NEW s \in Slots, CountAttempt(s)
  PROVE  /\ req[s] \in VerifyRequest /\ req[s].pc = "count" /\ req[s].code \in 1..Len(codes)
         /\ UNCHANGED <<UserKeeps, faults>> /\ Puts(s, Idle)
         /\ UNCHANGED <<remoteSessions, cookie, tab, failures, raced, crossed, left>>
         /\ codes' \in Seq(Code) /\ Len(codes') = Len(codes)
         /\ \A i \in 1..Len(codes) :
              /\ codes'[i].state = codes[i].state /\ codes'[i].told = codes[i].told
              /\ codes'[i].attempts = IF i = req[s].code THEN codes[i].attempts + 1
                                      ELSE codes[i].attempts
<1> DEFINE c == req[s].code
           row == [codes[c] EXCEPT !.attempts = @ + 1]
<1>1. /\ req[s].kind = "verify" /\ req[s].pc = "count" /\ UNCHANGED <<UserKeeps, faults>>
      /\ UNCHANGED <<remoteSessions, cookie, tab, failures, raced, crossed, left>>
      /\ Puts(s, Idle) /\ codes' = [codes EXCEPT ![c] = row]
  BY Kinds DEF CountAttempt, At, StepKeeps, UserKeeps, bookVars
<1>2. req[s] \in VerifyRequest /\ c \in 1..Len(codes)
  BY <1>1, Kinds, Lengths DEF Fits, VerifyRequest
<1>3. codes \in Seq(Code) /\ \A i \in 1..Len(codes) : codes[i] \in Code
  BY Lengths DEF Typed, Held
<1>4. /\ row \in Code /\ row.state = codes[c].state /\ row.attempts = codes[c].attempts + 1
      /\ row.told = codes[c].told
  BY <1>2, <1>3, CodeRow
<1> HIDE DEF row
<1>5. /\ codes' \in Seq(Code) /\ Len(codes') = Len(codes)
      /\ codes'[c] = row /\ \A i \in 1..Len(codes) : i # c => codes'[i] = codes[i]
  BY <1>1, <1>2, <1>3, <1>4, CodeChanged
<1> QED
  BY <1>1, <1>2, <1>4, <1>5

LEMMA ConsumeShape ==
  ASSUME Typed, NEW s \in Slots, ConsumeCode(s)
  PROVE  /\ req[s] \in VerifyRequest /\ req[s].pc = "consume"
         /\ req[s].code \in 1..Len(codes) /\ UNCHANGED <<UserKeeps, faults>>
         /\ UNCHANGED <<remoteSessions, cookie, tab, failures, raced, crossed, left>>
         /\ codes' \in Seq(Code) /\ Len(codes') = Len(codes)
         /\ \A i \in 1..Len(codes) :
              /\ codes'[i].attempts = codes[i].attempts /\ codes'[i].told = codes[i].told
              /\ i # req[s].code => codes'[i].state = codes[i].state
         /\ codes'[req[s].code].state \in {"used", "deleted"}
         /\ \E r \in VerifyRequest : /\ Puts(s, r) /\ r.pc = "user"
                                     /\ r.code = req[s].code /\ r.sid = req[s].sid
<1> DEFINE c == req[s].code
           v == IF codes[c].state = "deleted" THEN "deleted" ELSE "used"
           row == [codes[c] EXCEPT !.state = v]
           r == [req[s] EXCEPT !.pc = "user"]
<1>1. /\ req[s].kind = "verify" /\ req[s].pc = "consume" /\ UNCHANGED <<UserKeeps, faults>>
      /\ UNCHANGED <<remoteSessions, cookie, tab, failures, raced, crossed, left>>
      /\ Puts(s, r)
  BY Kinds DEF ConsumeCode, At, StepKeeps, UserKeeps, bookVars
<1>2. req[s] \in VerifyRequest /\ c \in 1..Len(codes)
  BY <1>1, Kinds, Lengths DEF Fits, VerifyRequest
<1>3. codes \in Seq(Code) /\ \A i \in 1..Len(codes) : codes[i] \in Code
  BY Lengths DEF Typed, Held
<1>4. codes' = [codes EXCEPT ![c] = row]
  BY DEF ConsumeCode
<1>5. r \in VerifyRequest /\ r.pc = "user" /\ r.code = c /\ r.sid = req[s].sid
  BY <1>2 DEF VerifyRequest
<1>6. v \in {"used", "deleted"}
  OBVIOUS
<1> HIDE DEF v, r
<1>7. /\ row \in Code /\ row.state = v /\ row.attempts = codes[c].attempts
      /\ row.told = codes[c].told
  <2>1. codes[c] \in Code
    BY <1>2, <1>3
  <2>2. \A w \in {"used", "deleted"} :
          /\ [codes[c] EXCEPT !.state = w] \in Code
          /\ [codes[c] EXCEPT !.state = w].state = w
          /\ [codes[c] EXCEPT !.state = w].attempts = codes[c].attempts
          /\ [codes[c] EXCEPT !.state = w].told = codes[c].told
    BY <2>1 DEF Code
  <2> QED
    BY <1>6, <2>2
<1> HIDE DEF row
<1>8. /\ codes' \in Seq(Code) /\ Len(codes') = Len(codes)
      /\ codes'[c] = row /\ \A i \in 1..Len(codes) : i # c => codes'[i] = codes[i]
  BY <1>2, <1>3, <1>4, <1>7, CodeChanged
<1> QED
  BY <1>1, <1>2, <1>5, <1>6, <1>7, <1>8

LEMMA VerifyUserShape ==
  ASSUME Typed, NEW s \in Slots, VerifyUser(s)
  PROVE  /\ req[s] \in VerifyRequest /\ req[s].pc = "user" /\ UNCHANGED <<UserKeeps, faults>>
         /\ UNCHANGED <<remoteSessions, loginVars>>
         /\ \/ Puts(s, Idle)
            \/ /\ Enabled
               /\ \E r \in VerifyRequest : /\ Puts(s, r) /\ r.pc = "create"
                                           /\ r.code = req[s].code /\ r.sid = req[s].sid
<1> DEFINE r == [req[s] EXCEPT !.pc = "create"]
<1>1. /\ req[s] \in VerifyRequest /\ req[s].pc = "user" /\ UNCHANGED <<UserKeeps, faults>>
      /\ UNCHANGED <<remoteSessions, loginVars>>
      /\ Puts(s, Idle) \/ (Enabled /\ Puts(s, r))
  BY Kinds DEF VerifyUser, At, StepKeeps, UserKeeps, bookVars
<1>2. r \in VerifyRequest /\ r.pc = "create" /\ r.code = req[s].code /\ r.sid = req[s].sid
  BY <1>1 DEF VerifyRequest
<1> HIDE DEF r
<1> QED
  BY <1>1, <1>2

LEMMA CreateShape ==
  ASSUME Typed, NEW s \in Slots, CreateSession(s)
  PROVE  /\ req[s] \in VerifyRequest /\ req[s].pc = "create" /\ req[s].code \in 1..Len(codes)
         /\ UNCHANGED <<UserKeeps, faults>> /\ UNCHANGED loginVars
         /\ remoteSessions' \in Seq(Session) /\ Len(remoteSessions') = Len(remoteSessions) + 1
         /\ \A i \in 1..Len(remoteSessions) : remoteSessions'[i] = remoteSessions[i]
         /\ LET n == Len(remoteSessions) + 1 IN
              /\ remoteSessions'[n].from = req[s].code
              /\ remoteSessions'[n].late = req[s].late
              /\ \E r \in VerifyRequest : /\ Puts(s, r) /\ r.pc = "reply"
                                          /\ r.code = req[s].code /\ r.sid = n
<1> DEFINE n == Len(remoteSessions) + 1
           row == [state |-> "active", from |-> req[s].code, pw |-> user.pw,
                   late |-> req[s].late]
           r == [req[s] EXCEPT !.pc = "reply", !.sid = n]
<1>0. /\ remoteSessions \in Seq(Session) /\ user.pw \in Nat /\ DOMAIN req = Slots
  BY BoundsAssumption DEF Typed, DeskOK, UsersTypeOK, Row
<1>1. /\ req[s].kind = "verify" /\ req[s].pc = "create" /\ UNCHANGED <<UserKeeps, faults>>
      /\ UNCHANGED loginVars /\ remoteSessions' = Append(remoteSessions, row) /\ Puts(s, r)
  BY <1>0 DEF CreateSession, At, StepKeeps, UserKeeps, bookVars, Puts
<1>2. req[s] \in VerifyRequest /\ req[s].code \in 1..Len(codes) /\ req[s].late \in BOOLEAN
  BY <1>1, Kinds, Lengths DEF Fits, VerifyRequest
<1>3. n \in 0..MaxCodes
  <2>1. s \in Openers
    BY <1>1 DEF Openers, Opening
  <2>2. Cardinality(Openers) >= 1
    BY <2>1, Lengths, FS_EmptySet
  <2> QED
    BY <2>2, Lengths DEF Typed, Counts, MaxCodes
<1>4. row \in Session /\ row.from = req[s].code /\ row.late = req[s].late
  BY <1>0, <1>2, Lengths DEF Session
<1>5. r \in VerifyRequest /\ r.pc = "reply" /\ r.code = req[s].code /\ r.sid = n
  BY <1>2, <1>3 DEF VerifyRequest
<1> HIDE DEF row, r
<1>6. /\ remoteSessions' \in Seq(Session) /\ Len(remoteSessions') = n
      /\ remoteSessions'[n] = row
      /\ \A i \in 1..Len(remoteSessions) : remoteSessions'[i] = remoteSessions[i]
  BY <1>0, <1>1, <1>4, OneMore
<1> QED
  BY <1>1, <1>2, <1>4, <1>5, <1>6

(* The page is told of its code. *)
LEMMA ReplyCodeShape ==
  ASSUME Typed, NEW s \in Slots, ReplyCode(s)
  PROVE  /\ req[s] \in CodeRequest /\ req[s].pc = "reply" /\ req[s].code \in 1..Len(codes)
         /\ UNCHANGED <<UserKeeps, faults>> /\ Puts(s, Idle)
         /\ UNCHANGED <<remoteSessions, cookie, failures, raced, crossed, left>>
         /\ codes' \in Seq(Code) /\ Len(codes') = Len(codes)
         /\ \A i \in 1..Len(codes) :
              /\ codes'[i].attempts = codes[i].attempts /\ codes'[i].state = codes[i].state
              /\ i # req[s].code => codes'[i].told = codes[i].told
         /\ tab' = [tab EXCEPT ![s] = [mode |-> "verify", challenge |-> req[s].code]]
<1> DEFINE c == req[s].code
           row == [codes[c] EXCEPT !.told = TRUE]
<1>1. /\ req[s].kind \in {"login", "resend"} /\ req[s].pc = "reply"
      /\ UNCHANGED <<UserKeeps, faults>>
      /\ UNCHANGED <<remoteSessions, cookie, failures, raced, crossed, left>>
      /\ tab' = [tab EXCEPT ![s] = [mode |-> "verify", challenge |-> req[s].code]]
      /\ Puts(s, Idle) /\ codes' = [codes EXCEPT ![c] = row]
  BY Kinds DEF ReplyCode, At, StepKeeps, UserKeeps, bookVars
<1>2. req[s] \in CodeRequest /\ c \in 1..Len(codes)
  BY <1>1, Kinds, Lengths DEF Fits, CodeRequest
<1>3. codes \in Seq(Code) /\ \A i \in 1..Len(codes) : codes[i] \in Code
  BY Lengths DEF Typed, Held
<1>4. row \in Code /\ row.state = codes[c].state /\ row.attempts = codes[c].attempts
  BY <1>2, <1>3, CodeRow
<1> HIDE DEF row
<1>5. /\ codes' \in Seq(Code) /\ Len(codes') = Len(codes)
      /\ codes'[c] = row /\ \A i \in 1..Len(codes) : i # c => codes'[i] = codes[i]
  BY <1>1, <1>2, <1>3, <1>4, CodeChanged
<1> QED
  BY <1>1, <1>2, <1>4, <1>5

RouteRequest == LogoutRequest \cup ViewRequest

(* Whether the session was active is read first. *)
LEMMA CheckShape ==
  ASSUME Typed, NEW s \in Slots, CheckActive(s)
  PROVE  /\ req[s] \in RouteRequest /\ req[s].pc = "active" /\ UNCHANGED <<UserKeeps, faults>>
         /\ UNCHANGED <<remoteSessions, loginVars>>
         /\ \E r \in RouteRequest :
              /\ Puts(s, r) /\ r.kind = req[s].kind /\ r.pc = "user" /\ r.sid = req[s].sid
              /\ r.ok = Active(req[s].sid, remoteSessions)
              /\ r.kind = "view" => r.may = req[s].may /\ r.shown = req[s].shown
<1> DEFINE ok == Active(req[s].sid, remoteSessions)
           r == [req[s] EXCEPT !.pc = "user", !.ok = ok]
<1>1. /\ req[s].kind \in {"logout", "view"} /\ req[s].pc = "active"
      /\ UNCHANGED <<UserKeeps, faults>> /\ UNCHANGED <<remoteSessions, loginVars>>
      /\ Puts(s, r)
  BY Kinds DEF CheckActive, At, StepKeeps, UserKeeps, bookVars, Puts
<1>2. ok \in BOOLEAN
  BY DEF Active
<1> HIDE DEF ok
<1>3. CASE req[s] \in LogoutRequest
  <2>1. /\ r \in LogoutRequest /\ r.kind = "logout" /\ r.pc = "user" /\ r.sid = req[s].sid
        /\ r.ok = ok /\ req[s].kind = "logout"
    BY <1>2, <1>3 DEF LogoutRequest
  <2> HIDE DEF r
  <2> QED
    BY <1>1, <1>3, <2>1 DEF RouteRequest, ok
<1>4. CASE req[s] \in ViewRequest
  <2>1. /\ r \in ViewRequest /\ r.kind = "view" /\ r.pc = "user" /\ r.sid = req[s].sid
        /\ r.ok = ok /\ req[s].kind = "view"
    BY <1>2, <1>4 DEF ViewRequest
  <2>2. r.may = req[s].may /\ r.shown = req[s].shown
    BY <1>2, <1>4 DEF ViewRequest
  <2> HIDE DEF r
  <2> QED
    BY <1>1, <1>4, <2>1, <2>2 DEF RouteRequest, ok
<1> QED
  BY <1>1, <1>3, <1>4, Kinds

(* Then the account; a logout that finds no good one signs the page out. *)
LEMMA RouteShape ==
  ASSUME Typed, NEW s \in Slots, RouteUser(s)
  PROVE  /\ req[s] \in RouteRequest /\ req[s].pc = "user" /\ UNCHANGED <<UserKeeps, faults>>
         /\ UNCHANGED <<remoteSessions, codes, cookie, failures, raced, crossed>>
         /\ tab' \in [Slots -> Page] /\ \A t \in Slots : tab'[t] \in {tab[t], LoginPage}
         /\ \/ /\ Puts(s, Idle)
               /\ \/ left' = left
                  \/ /\ req[s].kind = "logout" /\ ~(req[s].ok /\ Enabled)
                     /\ left' = left \cup ({req[s].sid} \ {0})
            \/ /\ left' = left
               /\ \E r \in RouteRequest :
                    /\ Puts(s, r) /\ r.kind = req[s].kind /\ r.sid = req[s].sid
                    /\ r.kind = "logout" => r.pc = "revoke"
                    /\ r.kind = "view" => /\ r.pc = "scope" /\ r.may = req[s].may
                                          /\ r.shown = req[s].shown
                                          /\ r.selected = user.selected
<1> DEFINE p == IF req[s].kind = "view" THEN "scope" ELSE "revoke"
           r == [req[s] EXCEPT !.pc = p, !.selected = user.selected]
<1>0. /\ user.selected \in BOOLEAN /\ tab \in [Slots -> Page] /\ LoginPage \in Page
      /\ DOMAIN req = Slots
  <2>1. user \in Row /\ tab \in [Slots -> Page] /\ 0 \in 0..MaxCodes
    BY Lengths DEF Typed, DeskOK, UsersTypeOK, Held
  <2> QED
    BY <2>1, Kinds DEF Row, LoginPage, Page
<1>1. /\ req[s].kind \in {"logout", "view"} /\ req[s].pc = "user"
      /\ UNCHANGED <<UserKeeps, faults>>
      /\ UNCHANGED <<remoteSessions, codes, cookie, failures, raced, crossed>>
  BY DEF RouteUser, At, StepKeeps, UserKeeps, bookVars
<1>2. req[s] \in RouteRequest
  BY <1>1, Kinds DEF RouteRequest
<1>3. CASE req[s].ok /\ Enabled
  <2>1. Puts(s, r) /\ UNCHANGED <<tab, left>>
    BY <1>0, <1>3 DEF RouteUser, Puts
  <2>2. CASE req[s] \in LogoutRequest
    <3>1. /\ r \in LogoutRequest /\ r.kind = "logout" /\ r.pc = "revoke"
          /\ r.sid = req[s].sid /\ req[s].kind = "logout"
      BY <1>0, <2>2 DEF LogoutRequest
    <3> HIDE DEF r
    <3> QED
      BY <1>0, <1>1, <1>2, <2>1, <3>1 DEF RouteRequest
  <2>3. CASE req[s] \in ViewRequest
    <3>1. /\ r \in ViewRequest /\ r.kind = "view" /\ r.pc = "scope"
          /\ r.sid = req[s].sid /\ req[s].kind = "view"
      BY <1>0, <2>3 DEF ViewRequest
    <3>2. r.may = req[s].may /\ r.shown = req[s].shown /\ r.selected = user.selected
      BY <1>0, <2>3 DEF ViewRequest
    <3> HIDE DEF r
    <3> QED
      BY <1>0, <1>1, <1>2, <2>1, <3>1, <3>2 DEF RouteRequest
  <2> QED
    BY <1>2, <2>2, <2>3 DEF RouteRequest
<1>4. CASE ~(req[s].ok /\ Enabled)
  <2>1. /\ Puts(s, Idle) /\ tab' = [tab EXCEPT ![s] = LoginPage]
        /\ \/ left' = left
           \/ req[s].kind = "logout" /\ left' = left \cup ({req[s].sid} \ {0})
    BY <1>1, <1>4, Kinds DEF RouteUser, ToLogin, SignedOut
  <2>2. tab' \in [Slots -> Page] /\ \A t \in Slots : tab'[t] \in {tab[t], LoginPage}
    BY <1>0, <2>1
  <2> QED
    BY <1>1, <1>2, <1>4, <2>1, <2>2
<1> QED
  BY <1>3, <1>4

LEMMA SignOffShape ==
  ASSUME Typed, NEW s \in Slots, RevokeSession(s)
  PROVE  /\ req[s] \in LogoutRequest /\ req[s].pc = "revoke" /\ UNCHANGED <<UserKeeps, faults>>
         /\ UNCHANGED loginVars
         /\ remoteSessions' \in Seq(Session) /\ Fewer(remoteSessions, remoteSessions')
         /\ ~Active(req[s].sid, remoteSessions')
         /\ \E r \in LogoutRequest : Puts(s, r) /\ r.pc = "reply" /\ r.sid = req[s].sid
<1> DEFINE i == req[s].sid
           r == [req[s] EXCEPT !.pc = "reply"]
<1>1. /\ req[s] \in LogoutRequest /\ req[s].pc = "revoke" /\ UNCHANGED <<UserKeeps, faults>>
      /\ UNCHANGED loginVars /\ Puts(s, r)
      /\ remoteSessions' = IF Active(i, remoteSessions)
                           THEN [remoteSessions EXCEPT ![i].state = "revoked"]
                           ELSE remoteSessions
  BY Kinds DEF RevokeSession, At, StepKeeps, UserKeeps, bookVars
<1>2. r \in LogoutRequest /\ r.pc = "reply" /\ r.sid = i
  BY <1>1 DEF LogoutRequest
<1> HIDE DEF r
<1>3. remoteSessions \in Seq(Session) /\ DOMAIN remoteSessions = 1..Len(remoteSessions)
  BY Lengths DEF Typed, DeskOK, UsersTypeOK
<1>4. CASE Active(i, remoteSessions)
  <2>1. /\ i \in 1..Len(remoteSessions)
        /\ remoteSessions' = [remoteSessions EXCEPT ![i].state = "revoked"]
    BY <1>1, <1>3, <1>4 DEF Active
  <2>2. /\ remoteSessions' \in Seq(Session) /\ Fewer(remoteSessions, remoteSessions')
        /\ remoteSessions'[i].state # "active"
    BY <1>3, <2>1, OneEnded
  <2> QED
    BY <1>1, <1>2, <2>2 DEF Active
<1>5. CASE ~Active(i, remoteSessions)
  BY <1>1, <1>2, <1>3, <1>5, SameRows
<1> QED
  BY <1>4, <1>5

LEMMA ReadShape ==
  ASSUME Typed, NEW s \in Slots, ReadScope(s)
  PROVE  /\ req[s] \in ViewRequest /\ req[s].pc = "scope" /\ UNCHANGED <<UserKeeps, faults>>
         /\ UNCHANGED <<remoteSessions, loginVars>>
         /\ \E r \in ViewRequest :
              /\ Puts(s, r) /\ r.pc = "query" /\ r.sid = req[s].sid /\ r.may = req[s].may
              /\ r.shown = IF req[s].selected THEN scope ELSE Devices
<1> DEFINE shown == IF req[s].selected THEN scope ELSE Devices
           r == [req[s] EXCEPT !.pc = "query", !.shown = shown]
<1>1. /\ req[s] \in ViewRequest /\ req[s].pc = "scope" /\ UNCHANGED <<UserKeeps, faults>>
      /\ UNCHANGED <<remoteSessions, loginVars>> /\ Puts(s, r)
  BY Kinds DEF ReadScope, At, StepKeeps, UserKeeps, bookVars, Puts
<1>2. shown \in SUBSET Devices
  BY DEF Typed, DeskOK, UsersTypeOK
<1> HIDE DEF shown
<1>3. r \in ViewRequest /\ r.pc = "query" /\ r.sid = req[s].sid /\ r.may = req[s].may
      /\ r.shown = shown
  BY <1>1, <1>2 DEF ViewRequest
<1> HIDE DEF r
<1> QED
  BY <1>1, <1>3 DEF shown

LEMMA QueryShape ==
  ASSUME Typed, NEW s \in Slots, QueryDevices(s)
  PROVE  /\ req[s] \in ViewRequest /\ req[s].pc = "query" /\ UNCHANGED <<UserKeeps, faults>>
         /\ UNCHANGED <<remoteSessions, loginVars>>
         /\ \E r \in ViewRequest :
              /\ Puts(s, r) /\ r.pc = "reply" /\ r.sid = req[s].sid /\ r.may = req[s].may
              /\ r.shown \subseteq req[s].shown
<1> DEFINE shown == req[s].shown \cap req[s].about
           r == [req[s] EXCEPT !.pc = "reply", !.shown = shown]
<1>1. /\ req[s] \in ViewRequest /\ req[s].pc = "query" /\ UNCHANGED <<UserKeeps, faults>>
      /\ UNCHANGED <<remoteSessions, loginVars>>
      /\ req' = [req EXCEPT ![s].pc = "reply", ![s].shown = @ \cap req[s].about]
  BY Kinds DEF QueryDevices, At, StepKeeps, UserKeeps, bookVars
<1>2. Puts(s, r)
  BY <1>1, Kinds DEF Puts
<1>3. shown \in SUBSET Devices /\ shown \subseteq req[s].shown
  BY <1>1 DEF ViewRequest
<1> HIDE DEF shown
<1>4. r \in ViewRequest /\ r.pc = "reply" /\ r.sid = req[s].sid /\ r.may = req[s].may
      /\ r.shown = shown
  BY <1>1, <1>3 DEF ViewRequest
<1> HIDE DEF r
<1> QED
  BY <1>1, <1>2, <1>3, <1>4

LEMMA ReplyVerifiedShape ==
  ASSUME Typed, NEW s \in Slots, ReplyVerified(s)
  PROVE  /\ req[s] \in VerifyRequest /\ req[s].pc = "reply" /\ UNCHANGED <<UserKeeps, faults>>
         /\ UNCHANGED <<remoteSessions, codes, tab, failures, raced, crossed, left>>
         /\ cookie' = req[s].sid /\ cookie' \in 0..Len(remoteSessions)
         /\ \E r \in ViewRequest :
              /\ Puts(s, r) /\ r.pc = "active" /\ r.sid = req[s].sid
              /\ r.may = Visible /\ r.shown = {}
<1> DEFINE r == View(req[s].sid, Devices)
<1>1. /\ req[s] \in VerifyRequest /\ req[s].pc = "reply" /\ UNCHANGED <<UserKeeps, faults>>
      /\ UNCHANGED <<remoteSessions, codes, tab, failures, raced, crossed, left>>
      /\ cookie' = req[s].sid /\ Puts(s, r)
  BY Kinds DEF ReplyVerified, At, StepKeeps, UserKeeps, bookVars, Puts
<1>2. req[s].sid \in 0..MaxCodes /\ req[s].sid \in 0..Len(remoteSessions)
  BY <1>1, Kinds, Lengths DEF VerifyRequest, Fits
<1>3. Visible \in SUBSET Devices
  BY VisibleDevices DEF Typed
<1>4. r \in ViewRequest /\ r.pc = "active" /\ r.sid = req[s].sid
      /\ r.may = Visible /\ r.shown = {}
  BY <1>2, <1>3 DEF View, ViewRequest
<1> HIDE DEF r
<1> QED
  BY <1>1, <1>2, <1>4

LEMMA PageMoves ==
  ASSUME Typed, NEW s \in Slots, NEW p \in Page, tab' = [tab EXCEPT ![s] = p],
         p.challenge <= Len(codes)
  PROVE  tab' \in [Slots -> Page] /\ \A t \in Slots : tab'[t].challenge <= Len(codes)
BY DEF Typed, Held

LEMMA LeftMore ==
  ASSUME Typed, NEW i \in 0..Len(remoteSessions)
  PROVE  left \cup ({i} \ {0}) \subseteq 1..Len(remoteSessions)
<1>1. left \subseteq 1..Len(remoteSessions) /\ Len(remoteSessions) \in Nat
  BY Lengths DEF Typed, Held
<1>2. i # 0 => i \in 1..Len(remoteSessions)
  BY <1>1
<1> QED
  BY <1>1, <1>2

LEMMA LoginPageFits ==
  ASSUME Typed
  PROVE  LoginPage \in Page /\ LoginPage.challenge = 0 /\ LoginPage.challenge <= Len(codes)
BY Lengths DEF LoginPage, Page

LEMMA ReplyLogoutShape ==
  ASSUME Typed, NEW s \in Slots, ReplyLogout(s)
  PROVE  /\ req[s] \in LogoutRequest /\ req[s].pc = "reply" /\ UNCHANGED <<UserKeeps, faults>>
         /\ UNCHANGED <<remoteSessions, codes, failures, raced, crossed>>
         /\ cookie' = 0 /\ Puts(s, Idle)
         /\ tab' \in [Slots -> Page] /\ \A t \in Slots : tab'[t].challenge <= Len(codes)
         /\ left' = left \cup ({req[s].sid} \ {0})
<1>1. /\ req[s] \in LogoutRequest /\ req[s].pc = "reply" /\ UNCHANGED <<UserKeeps, faults>>
      /\ UNCHANGED <<remoteSessions, codes, failures, raced, crossed>>
      /\ cookie' = 0 /\ Puts(s, Idle) /\ tab' = [tab EXCEPT ![s] = LoginPage]
      /\ left' = left \cup ({req[s].sid} \ {0})
  BY Kinds DEF ReplyLogout, At, StepKeeps, UserKeeps, bookVars, SignedOut, ToLogin
<1> QED
  BY <1>1, PageMoves, LoginPageFits

LEMMA ReplyViewShape ==
  ASSUME Typed, NEW s \in Slots, ReplyView(s)
  PROVE  /\ req[s] \in ViewRequest /\ req[s].pc = "reply" /\ UNCHANGED <<UserKeeps, faults>>
         /\ UNCHANGED <<remoteSessions, codes, cookie, failures, raced, crossed, left>>
         /\ Puts(s, Idle)
         /\ tab' \in [Slots -> Page] /\ \A t \in Slots : tab'[t].challenge <= Len(codes)
<1> DEFINE p == [mode |-> IF req[s].about # Devices /\ req[s].shown = {} THEN "denied"
                          ELSE "dashboard", challenge |-> 0]
<1>1. /\ req[s] \in ViewRequest /\ req[s].pc = "reply" /\ UNCHANGED <<UserKeeps, faults>>
      /\ UNCHANGED <<remoteSessions, codes, cookie, failures, raced, crossed, left>>
      /\ Puts(s, Idle) /\ tab' = [tab EXCEPT ![s] = p]
  BY Kinds DEF ReplyView, At, StepKeeps, UserKeeps, bookVars
<1>2. p \in Page /\ p.challenge <= Len(codes)
  BY Lengths DEF Page
<1> HIDE DEF p
<1> QED
  BY <1>1, <1>2, PageMoves

LEMMA UserFailsShape ==
  ASSUME Typed, NEW s \in Slots, UserFails(s)
  PROVE  /\ req[s] \in UserRequest /\ faults' = faults + 1 /\ faults' \in 0..MaxFaults
         /\ faults' # 0 /\ UNCHANGED UserKeeps /\ Puts(s, Idle)
         /\ UNCHANGED <<remoteSessions, codes, cookie, failures, raced, crossed>>
         /\ tab' \in [Slots -> Page] /\ \A t \in Slots : tab'[t].challenge <= Len(codes)
         /\ left' \subseteq 1..Len(remoteSessions)
<1>0. /\ faults \in 0..MaxFaults /\ MaxFaults \in Nat /\ left \subseteq 1..Len(remoteSessions)
  BY BoundsAssumption DEF Typed, DeskOK, UsersTypeOK, Held
<1>1. /\ req[s] \in UserRequest /\ faults' = faults + 1 /\ faults < MaxFaults
      /\ UNCHANGED UserKeeps /\ Puts(s, Idle)
      /\ UNCHANGED <<remoteSessions, codes, cookie, failures, raced, crossed>>
  BY Kinds DEF UserFails, IsUser, UserKeeps, UserKinds
<1>2. CASE tab' = [tab EXCEPT ![s] = Unanswered(s)] /\ left' = left
  <2>1. Unanswered(s) \in Page /\ Unanswered(s).challenge <= Len(codes)
    BY LoginPageFits DEF Unanswered, Typed, Held
  <2>2. tab' \in [Slots -> Page] /\ \A t \in Slots : tab'[t].challenge <= Len(codes)
    BY <1>2, <2>1, PageMoves
  <2> QED
    BY <1>0, <1>1, <1>2, <2>2
<1>3. CASE req[s].kind = "logout" /\ SignedOut(s)
  <2>1. tab' = [tab EXCEPT ![s] = LoginPage] /\ left' = left \cup ({req[s].sid} \ {0})
    BY <1>3 DEF SignedOut, ToLogin
  <2>2. req[s].sid \in 0..Len(remoteSessions)
    BY <1>3, Kinds, Lengths DEF LogoutRequest, Fits
  <2>3. left' \subseteq 1..Len(remoteSessions)
    BY <2>1, <2>2, LeftMore
  <2>4. tab' \in [Slots -> Page] /\ \A t \in Slots : tab'[t].challenge <= Len(codes)
    BY <2>1, PageMoves, LoginPageFits
  <2> QED
    BY <1>0, <1>1, <2>3, <2>4
<1> QED
  BY <1>2, <1>3 DEF UserFails

-----------------------------------------------------------------------------
(* Type correctness *)

(* A request goes on, with the rows there are. *)
LEMMA MoveTyped ==
  ASSUME Typed, NEW s \in Slots, NEW r \in {Idle} \cup UserRequest, Puts(s, r),
         req[s] \in UserRequest, UNCHANGED UserKeeps, faults' \in 0..MaxFaults,
         codes' \in Seq(Code), Len(codes') = Len(codes), remoteSessions' \in Seq(Session),
         Len(remoteSessions') = Len(remoteSessions),
         \A i \in 1..Len(remoteSessions) : remoteSessions'[i].from = remoteSessions[i].from,
         cookie' \in 0..Len(remoteSessions), tab' \in [Slots -> Page],
         \A t \in Slots : tab'[t].challenge <= Len(codes),
         failures' \in Nat, crossed' \in BOOLEAN,
         left' \subseteq 1..Len(remoteSessions), raced' \subseteq 1..Len(codes),
         Issuing(r) => Issuing(req[s]), Opening(r) => Opening(req[s]),
         Fits(r, Len(codes), Len(remoteSessions))
  PROVE  Typed'
<1>1. Held'
  <2>1. \A i \in 1..Len(remoteSessions) : remoteSessions[i].from \in 1..Len(codes)
    BY DEF Typed, Held
  <2> QED
    BY <2>1 DEF Held, Code, Page, MaxCodes
<1>2. Spends(req[s], r)
  BY DEF Spends
<1>3. /\ UNCHANGED <<deskVars, adminSessions, overlapped>> /\ asked' = asked
      /\ asked' \in {asked, asked + 1} /\ asked' <= MaxRequests
  BY Lengths DEF UserKeeps
<1>4. Fits(r, Len(codes'), Len(remoteSessions'))
  OBVIOUS
<1> QED
  BY <1>1, <1>2, <1>3, <1>4, UserTyped

LEMMA HeldFacts ==
  ASSUME Typed
  PROVE  /\ remoteSessions \in Seq(Session) /\ codes \in Seq(Code)
         /\ cookie \in 0..Len(remoteSessions) /\ tab \in [Slots -> Page]
         /\ \A t \in Slots : tab[t].challenge <= Len(codes)
         /\ failures \in Nat /\ crossed \in BOOLEAN
         /\ left \subseteq 1..Len(remoteSessions) /\ raced \subseteq 1..Len(codes)
         /\ \A i \in 1..Len(remoteSessions) : remoteSessions[i].from \in 1..Len(codes)
         /\ faults \in 0..MaxFaults /\ MaxFaults \in Nat
         /\ Idle.kind = "idle" /\ ~Issuing(Idle) /\ ~Opening(Idle)
         /\ Fits(Idle, Len(codes), Len(remoteSessions))
BY BoundsAssumption, NoMarks DEF Typed, Held, DeskOK, UsersTypeOK, Issuing, Opening, Fits

LEMMA StartTyped ==
  ASSUME Typed, NEW s \in Slots, UserStarts(s)
  PROVE  Typed'
<1>1. PICK r \in UserRequest :
        UserBegin(s, r) /\ Puts(s, r) /\ Fits(r, Len(codes), Len(remoteSessions))
  BY StartShape
<1>2. /\ req[s] = Idle /\ asked' = asked + 1 /\ asked < MaxRequests
      /\ UNCHANGED <<deskVars, adminSessions, remoteSessions, faults, overlapped, loginVars>>
  BY <1>1 DEF UserBegin, Begin
<1>3. codes' = codes /\ remoteSessions' = remoteSessions /\ faults' \in 0..MaxFaults
      /\ remoteSessions' \in Seq(Session)
  BY <1>2, HeldFacts DEF loginVars
<1>4. Held'
  BY <1>2, <1>3 DEF Typed, Held, loginVars, Code, Page, MaxCodes
<1>5. Spends(req[s], r)
  BY <1>2, <1>3 DEF Spends
<1>6. asked' \in {asked, asked + 1} /\ asked' <= MaxRequests
  BY <1>2, Lengths
<1>7. Fits(r, Len(codes'), Len(remoteSessions'))
  BY <1>1, <1>3
<1> QED
  BY <1>1, <1>2, <1>3, <1>4, <1>5, <1>6, <1>7, UserTyped

LEMMA IssueTyped ==
  ASSUME Typed, NEW s \in Slots, InsertCode(s)
  PROVE  Typed'
<1> DEFINE n == Len(codes) + 1
<1>1. /\ req[s] \in CodeRequest /\ Issuing(req[s]) /\ UNCHANGED <<UserKeeps, faults>>
      /\ UNCHANGED <<remoteSessions, cookie, tab, failures, raced, left>>
      /\ codes' \in Seq(Code) /\ Len(codes') = n
      /\ crossed' = (crossed \/ \E t \in Slots : req[t].kind \in {"login", "resend"}
                                                 /\ req[t].pc \in {"mail", "replace"})
  BY IssueShape
<1>2. PICK r \in CodeRequest : Puts(s, r) /\ r.pc = "mail" /\ r.code = n
  BY IssueShape
<1>3. Len(codes) \in Nat /\ n \in Nat /\ Len(codes) <= n /\ 1..Len(codes) \subseteq 1..n
  BY Lengths
<1>4. /\ req[s] \in UserRequest /\ r \in UserRequest /\ r.kind \in {"login", "resend"}
      /\ ~Issuing(r) /\ ~Opening(r)
  BY <1>1, <1>2, UserRequests DEF Issuing, Opening, CodeRequest
<1> HIDE DEF n
<1>5. Held'
  <2>1. \A t \in Slots : tab[t].challenge <= n
    <3>1. \A t \in Slots : tab[t].challenge \in Nat /\ tab[t].challenge <= Len(codes)
      BY HeldFacts, Lengths DEF Page
    <3> QED
      BY <1>3, <3>1
  <2>2. \A i \in 1..Len(remoteSessions) : remoteSessions[i].from \in 1..n
    BY <1>3, HeldFacts
  <2>3. raced \subseteq 1..n /\ crossed' \in BOOLEAN
    BY <1>1, <1>3, HeldFacts
  <2> QED
    BY <1>1, <2>1, <2>2, <2>3, HeldFacts DEF Held, Code, Page, MaxCodes
<1>6. Spends(req[s], r)
  BY <1>1, <1>4 DEF Spends, n
<1>7. Fits(r, Len(codes'), Len(remoteSessions'))
  BY <1>1, <1>2, <1>3, <1>4 DEF Fits, n
<1>8. /\ UNCHANGED <<deskVars, adminSessions, overlapped>> /\ asked' \in {asked, asked + 1}
      /\ asked' <= MaxRequests /\ faults' \in 0..MaxFaults /\ remoteSessions' \in Seq(Session)
  BY <1>1, Lengths, HeldFacts DEF UserKeeps
<1> QED
  BY <1>2, <1>4, <1>5, <1>6, <1>7, <1>8, UserTyped

LEMMA CreateTyped ==
  ASSUME Typed, NEW s \in Slots, CreateSession(s)
  PROVE  Typed'
<1> DEFINE n == Len(remoteSessions) + 1
<1>1. /\ req[s] \in VerifyRequest /\ req[s].pc = "create" /\ req[s].code \in 1..Len(codes)
      /\ UNCHANGED <<UserKeeps, faults>> /\ UNCHANGED loginVars
      /\ remoteSessions' \in Seq(Session) /\ Len(remoteSessions') = n
      /\ \A i \in 1..Len(remoteSessions) : remoteSessions'[i] = remoteSessions[i]
      /\ remoteSessions'[n].from = req[s].code
  BY CreateShape
<1>2. PICK r \in VerifyRequest : Puts(s, r) /\ r.pc = "reply" /\ r.code = req[s].code
                                 /\ r.sid = n
  BY CreateShape
<1>3. /\ Len(remoteSessions) \in Nat /\ n \in Nat /\ n # 0
      /\ 1..Len(remoteSessions) \subseteq 1..n /\ 0..Len(remoteSessions) \subseteq 0..n
      /\ \A i \in 1..n : i = n \/ i \in 1..Len(remoteSessions)
  BY Lengths
<1>4. /\ req[s] \in UserRequest /\ r \in UserRequest /\ r.kind = "verify"
      /\ Opening(req[s]) /\ ~Opening(r) /\ ~Issuing(r)
  BY <1>1, <1>2, UserRequests DEF Issuing, Opening, VerifyRequest
<1> HIDE DEF n
<1>5. codes' = codes /\ UNCHANGED <<cookie, tab, failures, raced, crossed, left>>
  BY <1>1 DEF loginVars
<1>6. Held'
  <2>1. \A i \in 1..n : remoteSessions'[i].from \in 1..Len(codes)
    BY <1>1, <1>3, HeldFacts
  <2>2. cookie \in 0..n /\ left \subseteq 1..n
    BY <1>3, HeldFacts
  <2> QED
    BY <1>1, <1>5, <2>1, <2>2, HeldFacts DEF Held, Code, Page, MaxCodes
<1>7. Spends(req[s], r)
  BY <1>1, <1>4, <1>5 DEF Spends, n
<1>8. Fits(r, Len(codes'), Len(remoteSessions'))
  BY <1>1, <1>2, <1>3, <1>4, <1>5, Lengths DEF Fits
<1>9. /\ UNCHANGED <<deskVars, adminSessions, overlapped>> /\ asked' \in {asked, asked + 1}
      /\ asked' <= MaxRequests /\ faults' \in 0..MaxFaults
  BY <1>1, Lengths, HeldFacts DEF UserKeeps
<1> QED
  BY <1>1, <1>2, <1>4, <1>6, <1>7, <1>8, <1>9, UserTyped

-----------------------------------------------------------------------------
(* Most steps are quiet: they add no code and no session, open no code, and  *)
(* bring no request to a step that matters to the codes.                     *)

QuietCodes ==
  /\ codes' \in Seq(Code) /\ Len(codes') = Len(codes)
  /\ \A i \in 1..Len(codes) :
       /\ codes'[i].attempts = codes[i].attempts
       /\ codes'[i].state = "open" => codes[i].state = "open"
       /\ codes'[i].state = "replaced" => codes[i].state = "replaced"
       /\ codes'[i].told => codes[i].told

QuietSessions == remoteSessions' \in Seq(Session) /\ Fewer(remoteSessions, remoteSessions')

QuietPages ==
  /\ cookie' \in 0..Len(remoteSessions) /\ tab' \in [Slots -> Page]
  /\ \A t \in Slots : tab'[t].challenge <= Len(codes)
  /\ failures' \in Nat /\ left' \subseteq 1..Len(remoteSessions)

Calm(q, r) ==
  /\ r.kind \in {"login", "resend"} /\ r.pc \in {"mail", "replace", "reply"} =>
       /\ q.kind \in {"login", "resend"} /\ q.code = r.code
       /\ q.pc = r.pc \/ (q.pc = "mail" /\ r.pc = "replace")
  /\ r.kind = "verify" /\ r.pc \in {"count", "consume", "user", "create"} =>
       /\ q.kind = "verify" /\ q.code = r.code
       /\ q.pc = r.pc \/ (q.pc = "user" /\ r.pc = "create")

Quiet ==
  /\ QuietCodes /\ QuietSessions /\ raced' = raced /\ crossed' = crossed
  /\ \A t \in Slots : Calm(req[t], req'[t])

LEMMA Unmoved ==
  ASSUME Typed
  PROVE  /\ UNCHANGED codes => QuietCodes
         /\ UNCHANGED remoteSessions => QuietSessions
         /\ UNCHANGED <<cookie, tab, failures, left>> => QuietPages
         /\ UNCHANGED loginVars => QuietCodes /\ QuietPages /\ UNCHANGED <<raced, crossed>>
         /\ \A r : Calm(r, r) /\ Calm(r, Idle)
BY HeldFacts, SameRows
   DEF QuietCodes, QuietSessions, QuietPages, loginVars, Calm

LEMMA CalmMove ==
  ASSUME Typed, NEW s \in Slots, NEW r \in {Idle} \cup UserRequest, Puts(s, r),
         req[s] \in UserRequest, UNCHANGED UserKeeps, faults' \in {faults, faults + 1},
         faults' <= MaxFaults, QuietCodes, QuietSessions, QuietPages,
         UNCHANGED <<raced, crossed>>, Calm(req[s], r),
         Issuing(r) => Issuing(req[s]), Opening(r) => Opening(req[s]),
         Fits(r, Len(codes), Len(remoteSessions))
  PROVE  Typed' /\ Quiet
<1>1. Typed'
  <2>1. /\ codes' \in Seq(Code) /\ Len(codes') = Len(codes)
        /\ remoteSessions' \in Seq(Session) /\ Len(remoteSessions') = Len(remoteSessions)
        /\ \A i \in 1..Len(remoteSessions) : remoteSessions'[i].from = remoteSessions[i].from
        /\ cookie' \in 0..Len(remoteSessions) /\ tab' \in [Slots -> Page]
        /\ \A t \in Slots : tab'[t].challenge <= Len(codes)
        /\ failures' \in Nat /\ left' \subseteq 1..Len(remoteSessions)
    BY DEF QuietCodes, QuietSessions, QuietPages, Fewer
  <2>2. crossed' \in BOOLEAN /\ raced' \subseteq 1..Len(codes) /\ faults' \in 0..MaxFaults
    BY HeldFacts
  <2> QED
    BY <2>1, <2>2, MoveTyped
<1>2. \A t \in Slots : Calm(req[t], req'[t])
  <2>1. req'[s] = r /\ \A t \in Slots \ {s} : req'[t] = req[t]
    BY Kinds DEF Puts
  <2> QED
    BY <2>1, Unmoved
<1> QED
  BY <1>1, <1>2 DEF Quiet

LEMMA CodeQuiet ==
  ASSUME Typed, NEW s \in Slots,
         \/ LoginUser(s) \/ LoginHash(s) \/ ResendFind(s) \/ ResendUser(s)
         \/ MailCode(s) \/ MailFails(s)
  PROVE  Typed' /\ Quiet
<1>1. /\ req[s] \in CodeRequest /\ UNCHANGED UserKeeps
      /\ UNCHANGED <<remoteSessions, codes, cookie, tab, raced, crossed, left>>
      /\ failures' \in Nat /\ faults' \in {faults, faults + 1} /\ faults' <= MaxFaults
  BY CodeShape
<1>2. PICK r \in {Idle} \cup CodeRequest :
        /\ Puts(s, r)
        /\ r # Idle => /\ r.kind = req[s].kind /\ r.code = req[s].code
                       /\ \/ Issuing(req[s]) /\ Issuing(r)
                          \/ req[s].pc = "mail" /\ r.pc \in {"replace", "unsend"}
  BY CodeShape
<1>3. QuietCodes /\ QuietSessions /\ QuietPages
  BY <1>1, Unmoved, HeldFacts DEF QuietPages
<1>4. /\ req[s] \in UserRequest /\ r \in {Idle} \cup UserRequest
      /\ req[s].kind \in {"login", "resend"}
  BY <1>1, UserRequests DEF CodeRequest
<1>5. /\ Issuing(r) => Issuing(req[s])
      /\ ~Opening(r) /\ Calm(req[s], r)
  <2>1. CASE r = Idle
    BY <2>1, HeldFacts, Unmoved
  <2>2. CASE r # Idle
    BY <1>2, <1>4, <2>2 DEF Issuing, Opening, Calm
  <2> QED
    BY <2>1, <2>2
<1>6. Fits(r, Len(codes), Len(remoteSessions))
  <2>1. CASE r = Idle
    BY <2>1, HeldFacts
  <2>2. CASE r # Idle
    BY <1>2, <1>4, <2>2, Kinds DEF Fits, Issuing
  <2> QED
    BY <2>1, <2>2
<1> QED
  BY <1>1, <1>2, <1>3, <1>4, <1>5, <1>6, CalmMove

(* A request ends, or is one for the session it has. *)
LEMMA EndQuiet ==
  ASSUME Typed, NEW s \in Slots, NEW r \in {Idle} \cup RouteRequest, Puts(s, r),
         req[s] \in UserRequest, UNCHANGED UserKeeps, faults' \in {faults, faults + 1},
         faults' <= MaxFaults, QuietCodes, QuietSessions, QuietPages,
         UNCHANGED <<raced, crossed>>, r # Idle => r.sid <= Len(remoteSessions)
  PROVE  Typed' /\ Quiet
<1>1. r \in {Idle} \cup UserRequest /\ (r # Idle => r.kind \in {"logout", "view"})
  BY UserRequests DEF RouteRequest, LogoutRequest, ViewRequest
<1>2. r.kind \in {"idle", "logout", "view"}
  BY <1>1, HeldFacts
<1>3. /\ ~Issuing(r) /\ ~Opening(r) /\ Calm(req[s], r)
      /\ Fits(r, Len(codes), Len(remoteSessions))
  BY <1>1, <1>2, HeldFacts DEF Issuing, Opening, Calm, Fits
<1> QED
  BY <1>1, <1>3, CalmMove

LEMMA VerifyQuiet ==
  ASSUME Typed, NEW s \in Slots, VerifyUser(s)
  PROVE  Typed' /\ Quiet
<1>1. /\ req[s] \in VerifyRequest /\ req[s].pc = "user" /\ UNCHANGED <<UserKeeps, faults>>
      /\ UNCHANGED <<remoteSessions, loginVars>>
  BY VerifyUserShape
<1>2. PICK r \in {Idle} \cup VerifyRequest :
        Puts(s, r) /\ (r # Idle => /\ r.pc = "create" /\ r.code = req[s].code
                                   /\ r.sid = req[s].sid)
  BY VerifyUserShape
<1>3. QuietCodes /\ QuietSessions /\ QuietPages /\ UNCHANGED <<raced, crossed>>
      /\ faults' \in {faults, faults + 1} /\ faults' <= MaxFaults
  BY <1>1, Unmoved, HeldFacts
<1>4. /\ req[s] \in UserRequest /\ r \in {Idle} \cup UserRequest
      /\ req[s].kind = "verify" /\ Opening(req[s])
  BY <1>1, UserRequests DEF VerifyRequest, Opening
<1>5. ~Issuing(r) /\ Calm(req[s], r) /\ Fits(r, Len(codes), Len(remoteSessions))
  <2>1. CASE r = Idle
    BY <2>1, HeldFacts, Unmoved
  <2>2. CASE r # Idle
    <3>1. r.kind = "verify"
      BY <2>2 DEF VerifyRequest
    <3> QED
      BY <1>1, <1>2, <1>4, <2>2, <3>1, Kinds DEF Issuing, Calm, Fits
  <2> QED
    BY <2>1, <2>2
<1> QED
  BY <1>1, <1>2, <1>3, <1>4, <1>5, CalmMove

LEMMA RouteQuiet ==
  ASSUME Typed, NEW s \in Slots,
         \/ CheckActive(s) \/ RouteUser(s) \/ RevokeSession(s) \/ ReadScope(s)
         \/ QueryDevices(s) \/ ReplyVerified(s) \/ ReplyLogout(s) \/ ReplyView(s)
         \/ DeleteCode(s) \/ UserFails(s)
  PROVE  Typed' /\ Quiet
<1>0. UNCHANGED faults => faults' \in {faults, faults + 1} /\ faults' <= MaxFaults
  BY HeldFacts
<1>1. \A q \in RouteRequest \cup CodeRequest \cup VerifyRequest : q \in UserRequest
  BY UserRequests DEF RouteRequest
<1>2. req[s] \in RouteRequest => req[s].sid \in 0..Len(remoteSessions)
                                 /\ req[s].sid <= Len(remoteSessions)
  BY Kinds, Lengths DEF RouteRequest, LogoutRequest, ViewRequest, Fits
<1>3. CASE CheckActive(s)
  <2>1. /\ req[s] \in RouteRequest /\ UNCHANGED <<UserKeeps, faults>>
        /\ UNCHANGED <<remoteSessions, loginVars>>
        /\ \E r \in RouteRequest : Puts(s, r) /\ r.sid = req[s].sid
    BY <1>3, CheckShape
  <2> QED
    BY <1>0, <1>1, <1>2, <2>1, Unmoved, EndQuiet
<1>4. CASE RouteUser(s)
  <2>1. /\ req[s] \in RouteRequest /\ UNCHANGED <<UserKeeps, faults>>
        /\ UNCHANGED <<remoteSessions, codes, cookie, failures, raced, crossed>>
        /\ tab' \in [Slots -> Page] /\ \A t \in Slots : tab'[t] \in {tab[t], LoginPage}
    BY <1>4, RouteShape
  <2>2. PICK r \in {Idle} \cup RouteRequest :
          /\ Puts(s, r) /\ (r # Idle => r.sid = req[s].sid)
          /\ left' = left \/ left' = left \cup ({req[s].sid} \ {0})
    BY <1>4, RouteShape
  <2>3. left' \subseteq 1..Len(remoteSessions)
    BY <1>2, <2>1, <2>2, HeldFacts, LeftMore
  <2>4. \A t \in Slots : tab'[t].challenge <= Len(codes)
    BY <2>1, HeldFacts, LoginPageFits
  <2>5. QuietCodes /\ QuietSessions /\ QuietPages
    BY <2>1, <2>3, <2>4, Unmoved, HeldFacts DEF QuietPages
  <2> QED
    BY <1>0, <1>1, <1>2, <2>1, <2>2, <2>5, EndQuiet
<1>5. CASE RevokeSession(s)
  <2>1. /\ req[s] \in LogoutRequest /\ UNCHANGED <<UserKeeps, faults>> /\ UNCHANGED loginVars
        /\ remoteSessions' \in Seq(Session) /\ Fewer(remoteSessions, remoteSessions')
        /\ \E r \in LogoutRequest : Puts(s, r) /\ r.sid = req[s].sid
    BY <1>5, SignOffShape
  <2>2. QuietCodes /\ QuietSessions /\ QuietPages /\ UNCHANGED <<raced, crossed>>
    BY <2>1, Unmoved DEF QuietSessions
  <2> QED
    BY <1>0, <1>1, <1>2, <2>1, <2>2, EndQuiet DEF RouteRequest
<1>6. CASE ReadScope(s) \/ QueryDevices(s)
  <2>1. /\ req[s] \in ViewRequest /\ UNCHANGED <<UserKeeps, faults>>
        /\ UNCHANGED <<remoteSessions, loginVars>>
        /\ \E r \in ViewRequest : Puts(s, r) /\ r.sid = req[s].sid
    BY <1>6, ReadShape, QueryShape
  <2> QED
    BY <1>0, <1>1, <1>2, <2>1, Unmoved, EndQuiet DEF RouteRequest
<1>7. CASE ReplyVerified(s)
  <2>1. /\ req[s] \in VerifyRequest /\ UNCHANGED <<UserKeeps, faults>>
        /\ UNCHANGED <<remoteSessions, codes, tab, failures, raced, crossed, left>>
        /\ cookie' = req[s].sid /\ cookie' \in 0..Len(remoteSessions)
        /\ \E r \in ViewRequest : Puts(s, r) /\ r.sid = req[s].sid
    BY <1>7, ReplyVerifiedShape
  <2>2. QuietCodes /\ QuietSessions /\ QuietPages
    BY <2>1, Unmoved, HeldFacts DEF QuietPages
  <2>3. req[s].sid <= Len(remoteSessions)
    BY <2>1, Lengths
  <2> QED
    BY <1>0, <1>1, <2>1, <2>2, <2>3, EndQuiet DEF RouteRequest
<1>8. CASE ReplyLogout(s)
  <2>1. /\ req[s] \in LogoutRequest /\ UNCHANGED <<UserKeeps, faults>>
        /\ UNCHANGED <<remoteSessions, codes, failures, raced, crossed>>
        /\ cookie' = 0 /\ Puts(s, Idle)
        /\ tab' \in [Slots -> Page] /\ \A t \in Slots : tab'[t].challenge <= Len(codes)
        /\ left' = left \cup ({req[s].sid} \ {0})
    BY <1>8, ReplyLogoutShape
  <2>2. left' \subseteq 1..Len(remoteSessions) /\ cookie' \in 0..Len(remoteSessions)
    BY <1>2, <2>1, LeftMore, Lengths DEF RouteRequest
  <2>3. QuietCodes /\ QuietSessions /\ QuietPages
    BY <2>1, <2>2, Unmoved, HeldFacts DEF QuietPages
  <2> QED
    BY <1>0, <1>1, <2>1, <2>3, EndQuiet DEF RouteRequest
<1>9. CASE ReplyView(s)
  <2>1. /\ req[s] \in ViewRequest /\ UNCHANGED <<UserKeeps, faults>>
        /\ UNCHANGED <<remoteSessions, codes, cookie, failures, raced, crossed, left>>
        /\ Puts(s, Idle)
        /\ tab' \in [Slots -> Page] /\ \A t \in Slots : tab'[t].challenge <= Len(codes)
    BY <1>9, ReplyViewShape
  <2>2. QuietCodes /\ QuietSessions /\ QuietPages
    BY <2>1, Unmoved, HeldFacts DEF QuietPages
  <2> QED
    BY <1>0, <1>1, <2>1, <2>2, EndQuiet DEF RouteRequest
<1>10. CASE DeleteCode(s)
  <2>1. /\ req[s] \in CodeRequest /\ UNCHANGED <<UserKeeps, faults>>
        /\ UNCHANGED <<remoteSessions, cookie, tab, failures, raced, crossed, left>>
        /\ Puts(s, Idle)
    BY <1>10, DeleteShape
  <2>2. QuietCodes
    BY <1>10, DeleteShape DEF QuietCodes
  <2>3. QuietSessions /\ QuietPages
    BY <2>1, Unmoved
  <2> QED
    BY <1>0, <1>1, <2>1, <2>2, <2>3, EndQuiet
<1>11. CASE UserFails(s)
  <2>1. /\ req[s] \in UserRequest /\ faults' = faults + 1 /\ faults' \in 0..MaxFaults
        /\ UNCHANGED UserKeeps /\ Puts(s, Idle)
        /\ UNCHANGED <<remoteSessions, codes, cookie, failures, raced, crossed>>
        /\ tab' \in [Slots -> Page] /\ \A t \in Slots : tab'[t].challenge <= Len(codes)
        /\ left' \subseteq 1..Len(remoteSessions)
    BY <1>11, UserFailsShape
  <2>2. QuietCodes /\ QuietSessions /\ QuietPages
    BY <2>1, Unmoved, HeldFacts DEF QuietPages
  <2>3. faults' \in {faults, faults + 1} /\ faults' <= MaxFaults
    BY <2>1, HeldFacts
  <2> QED
    BY <2>1, <2>2, <2>3, EndQuiet
<1> QED
  BY <1>3, <1>4, <1>5, <1>6, <1>7, <1>8, <1>9, <1>10, <1>11

-----------------------------------------------------------------------------
(* The steps that are not *)

LEMMA ReplaceTyped ==
  ASSUME Typed, NEW s \in Slots, ReplaceOthers(s)
  PROVE  Typed'
<1>1. /\ req[s] \in CodeRequest /\ req[s].pc = "replace" /\ req[s].code \in 1..Len(codes)
      /\ UNCHANGED <<UserKeeps, faults>>
      /\ UNCHANGED <<remoteSessions, cookie, tab, failures, raced, crossed, left>>
      /\ codes' \in Seq(Code) /\ Len(codes') = Len(codes)
  BY ReplaceShape
<1>2. PICK r \in CodeRequest : /\ Puts(s, r) /\ r.kind = req[s].kind
                               /\ r.pc = "reply" /\ r.code = req[s].code
  BY ReplaceShape
<1>3. /\ req[s] \in UserRequest /\ r \in UserRequest /\ r.kind \in {"login", "resend"}
  BY <1>1, UserRequests DEF CodeRequest
<1>4. ~Issuing(r) /\ ~Opening(r) /\ Fits(r, Len(codes), Len(remoteSessions))
  BY <1>1, <1>2, <1>3, Lengths DEF Issuing, Opening, Fits
<1> QED
  BY <1>1, <1>2, <1>3, <1>4, HeldFacts, MoveTyped

LEMMA FindTyped ==
  ASSUME Typed, NEW s \in Slots, FindCode(s)
  PROVE  Typed'
<1>1. /\ req[s] \in VerifyRequest /\ UNCHANGED <<UserKeeps, faults>>
      /\ UNCHANGED <<remoteSessions, codes, cookie, tab, failures, crossed, left>>
  BY FindShape
<1>2. req[s] \in UserRequest /\ raced \subseteq 1..Len(codes) /\ req[s].pc = "find"
      /\ req[s].kind = "verify" /\ Opening(req[s])
  BY <1>1, FindShape, UserRequests, HeldFacts DEF VerifyRequest, Opening
<1>3. CASE Puts(s, Idle) /\ raced' = raced
  BY <1>1, <1>2, <1>3, HeldFacts, MoveTyped
<1>4. ASSUME req[s].code \in 1..Len(codes),
             raced' \in {raced, raced \cup {req[s].code}},
             NEW r \in VerifyRequest, Puts(s, r), r.pc \in {"consume", "count"},
             r.code = req[s].code, r.sid = req[s].sid
      PROVE  Typed'
  <2>1. raced' \subseteq 1..Len(codes)
    BY <1>2, <1>4
  <2>2. r \in UserRequest /\ r.kind = "verify"
    BY UserRequests DEF VerifyRequest
  <2>3. ~Issuing(r) /\ Fits(r, Len(codes), Len(remoteSessions))
    BY <1>2, <1>4, <2>2, Kinds, Lengths DEF Issuing, Fits
  <2> QED
    BY <1>1, <1>2, <1>4, <2>1, <2>2, <2>3, HeldFacts, MoveTyped
<1> QED
  BY <1>3, <1>4, FindShape

LEMMA CountTyped ==
  ASSUME Typed, NEW s \in Slots, CountAttempt(s)
  PROVE  Typed'
<1>1. /\ req[s] \in VerifyRequest /\ UNCHANGED <<UserKeeps, faults>> /\ Puts(s, Idle)
      /\ UNCHANGED <<remoteSessions, cookie, tab, failures, raced, crossed, left>>
      /\ codes' \in Seq(Code) /\ Len(codes') = Len(codes)
  BY CountShape
<1>2. req[s] \in UserRequest
  BY <1>1, UserRequests
<1> QED
  BY <1>1, <1>2, HeldFacts, MoveTyped

LEMMA ConsumeTyped ==
  ASSUME Typed, NEW s \in Slots, ConsumeCode(s)
  PROVE  Typed'
<1>1. /\ req[s] \in VerifyRequest /\ req[s].pc = "consume" /\ req[s].code \in 1..Len(codes)
      /\ UNCHANGED <<UserKeeps, faults>>
      /\ UNCHANGED <<remoteSessions, cookie, tab, failures, raced, crossed, left>>
      /\ codes' \in Seq(Code) /\ Len(codes') = Len(codes)
  BY ConsumeShape
<1>2. PICK r \in VerifyRequest : /\ Puts(s, r) /\ r.pc = "user"
                                 /\ r.code = req[s].code /\ r.sid = req[s].sid
  BY ConsumeShape
<1>3. /\ req[s] \in UserRequest /\ r \in UserRequest
      /\ r.kind = "verify" /\ req[s].kind = "verify"
  BY <1>1, UserRequests DEF VerifyRequest
<1>4. /\ ~Issuing(r) /\ Opening(req[s]) /\ Fits(r, Len(codes), Len(remoteSessions))
  BY <1>1, <1>2, <1>3, Kinds, Lengths DEF Issuing, Opening, Fits
<1> QED
  BY <1>1, <1>2, <1>3, <1>4, HeldFacts, MoveTyped

LEMMA ReplyCodeTyped ==
  ASSUME Typed, NEW s \in Slots, ReplyCode(s)
  PROVE  Typed'
<1>1. /\ req[s] \in CodeRequest /\ req[s].code \in 1..Len(codes)
      /\ UNCHANGED <<UserKeeps, faults>> /\ Puts(s, Idle)
      /\ UNCHANGED <<remoteSessions, cookie, failures, raced, crossed, left>>
      /\ codes' \in Seq(Code) /\ Len(codes') = Len(codes)
      /\ tab' = [tab EXCEPT ![s] = [mode |-> "verify", challenge |-> req[s].code]]
  BY ReplyCodeShape
<1> DEFINE p == [mode |-> "verify", challenge |-> req[s].code]
<1>2. p \in Page /\ p.challenge <= Len(codes)
  BY <1>1, Lengths DEF Page
<1> HIDE DEF p
<1>3. tab' \in [Slots -> Page] /\ \A t \in Slots : tab'[t].challenge <= Len(codes)
  BY <1>1, <1>2, PageMoves DEF p
<1>4. req[s] \in UserRequest
  BY <1>1, UserRequests
<1> QED
  BY <1>1, <1>3, <1>4, HeldFacts, MoveTyped

(* The pages ask, and the desk works: nothing of that matters to the codes. *)
LEMMA StartQuiet ==
  ASSUME Typed, NEW s \in Slots, UserStarts(s)
  PROVE  Quiet
<1>1. PICK r \in UserRequest :
        /\ UserBegin(s, r) /\ Puts(s, r)
        /\ r.kind \in {"login", "resend"} => r.pc \in {"find", "user"}
        /\ r.kind = "verify" => r.pc = "find"
  BY StartShape
<1>2. /\ UNCHANGED loginVars /\ UNCHANGED remoteSessions
  BY <1>1 DEF UserBegin
<1>3. Calm(req[s], r)
  BY <1>1 DEF Calm
<1>4. req'[s] = r /\ \A t \in Slots \ {s} : req'[t] = req[t]
  BY <1>1, Kinds DEF Puts
<1> QED
  BY <1>2, <1>3, <1>4, Unmoved DEF Quiet

LEMMA DeskQuiet ==
  ASSUME Typed, NEW s \in Slots, DeskStarts(s) \/ DeskStep(s) \/ DeskFails(s),
         UNCHANGED loginVars
  PROVE  Quiet
<1>1. PICK r \in {Idle} \cup DeskRequest : Becomes(s, r)
  BY DeskEffect DEF Typed
<1>2. /\ req'[s] = r /\ \A t \in Slots \ {s} : Stays(t)
  BY <1>1, DeskOthers
<1>3. Visible' \subseteq Devices
  BY DeskTyped, VisibleDevices DEF Typed, DeskOK, Visible, UsersTypeOK
<1>4. remoteSessions' \in {remoteSessions, AllRevoked(remoteSessions)}
  BY DeskEffect DEF Typed
<1>5. QuietSessions
  BY <1>4, HeldFacts, AllRevokedRows, SameRows DEF QuietSessions
<1>6. Calm(req[s], req'[s])
  <2>1. r.kind \in {"idle", "create", "patch", "reset", "revoke"}
    BY NoMarks DEF DeskKinds
  <2> QED
    BY <1>2, <2>1 DEF Calm
<1>7. ASSUME NEW t \in Slots \ {s}
      PROVE  Calm(req[t], req'[t])
  <2>1. /\ req'[t].kind = req[t].kind
        /\ req[t] # Idle => req'[t].pc = req[t].pc
        /\ req[t].kind \in {"login", "resend", "verify"} => req'[t].code = req[t].code
    BY <1>2, <1>3, StaysSame
  <2>2. req[t].kind \in {"login", "resend", "verify"} => req[t] # Idle
    BY NoMarks
  <2> QED
    BY <2>1, <2>2 DEF Calm
<1> QED
  BY <1>5, <1>6, <1>7, Unmoved DEF Quiet

(* Nobody moves on, or everybody stops. *)
LEMMA TimeQuiet ==
  ASSUME Typed, req' = req \/ req' = [t \in Slots |-> Idle], UNCHANGED UserKeeps,
         faults' \in 0..MaxFaults, QuietCodes, QuietSessions, QuietPages,
         UNCHANGED <<raced, crossed>>
  PROVE  Typed' /\ Quiet
<1>1. /\ DOMAIN req' = Slots /\ \A t \in Slots : req'[t] \in {req[t], Idle}
      /\ req' \in [Slots -> AnyRequest] /\ AnyRequest' = AnyRequest
  BY DEF Typed, AnyRequest, Idle, DeskRequest, UserRequest
<1>2. /\ codes' \in Seq(Code) /\ Len(codes') = Len(codes)
      /\ remoteSessions' \in Seq(Session) /\ Len(remoteSessions') = Len(remoteSessions)
      /\ \A i \in 1..Len(remoteSessions) : remoteSessions'[i].from = remoteSessions[i].from
  BY DEF QuietCodes, QuietSessions, Fewer
<1>3. DeskOK'
  <2>1. /\ UNCHANGED <<user, scope, wanted, overlapped>> /\ asked' \in asked..MaxRequests
        /\ adminSessions' \in Seq(Session)
    BY Lengths DEF UserKeeps, deskVars, Typed, DeskOK, UsersTypeOK
  <2>2. \A t \in Slots : /\ "kind" \in DOMAIN req'[t]
                         /\ req'[t].kind \in DeskKinds => req'[t] = req[t]
    BY <1>1, NoMarks DEF Typed, DeskOK, Known, DeskKinds
  <2> QED
    BY <1>1, <1>2, <2>1, <2>2, OthersKeepDesk DEF Typed
<1>4. Held'
  <2>1. \A i \in 1..Len(remoteSessions) : remoteSessions[i].from \in 1..Len(codes)
    BY HeldFacts
  <2> QED
    BY <1>2, <2>1, HeldFacts DEF Held, QuietPages, Code, Page, MaxCodes
<1>5. \A t \in Slots : Fits(req[t], Len(codes), Len(remoteSessions))'
  <2>1. \A t \in Slots : Fits(req'[t], Len(codes), Len(remoteSessions))
    BY <1>1, HeldFacts DEF Typed
  <2> QED
    BY <1>2, <2>1 DEF Fits
<1>6. Counts'
  <2>1. Issuers' \subseteq Issuers /\ Openers' \subseteq Openers
    BY <1>1, HeldFacts DEF Issuers, Openers, Issuing, Opening
  <2>2. /\ Cardinality(Issuers') <= Cardinality(Issuers) /\ Cardinality(Issuers') \in Nat
        /\ Cardinality(Openers') <= Cardinality(Openers) /\ Cardinality(Openers') \in Nat
    BY <2>1, Lengths, Counted
  <2>3. /\ asked' = asked /\ Len(codes') = Len(codes)
        /\ Len(remoteSessions') = Len(remoteSessions)
        /\ Len(codes) + Cardinality(Issuers) <= asked + 1
        /\ Len(remoteSessions) + Cardinality(Openers) <= asked + 1
    BY <1>2 DEF Typed, Counts, UserKeeps
  <2> DEFINE n == Len(codes)  m == Len(remoteSessions)
             i == Cardinality(Issuers)  i1 == Cardinality(Issuers')
             o == Cardinality(Openers)  o1 == Cardinality(Openers')
  <2>4. /\ n \in Nat /\ m \in Nat /\ asked \in Nat
        /\ i \in Nat /\ i1 \in Nat /\ o \in Nat /\ o1 \in Nat /\ i1 <= i /\ o1 <= o
        /\ n + i <= asked + 1 /\ m + o <= asked + 1
    BY <2>2, <2>3, Lengths
  <2>5. Len(codes') = n /\ Len(remoteSessions') = m /\ asked' = asked
    BY <2>3
  <2> HIDE DEF n, m, i, i1, o, o1
  <2>6. n + i1 <= asked + 1 /\ m + o1 <= asked + 1
    BY <2>4
  <2> QED
    BY <2>5, <2>6 DEF Counts, i1, o1
<1>7. \A t \in Slots : Calm(req[t], req'[t])
  BY <1>1, Unmoved
<1> QED
  BY <1>1, <1>3, <1>4, <1>5, <1>6, <1>7 DEF Typed, Quiet

LEMMA OneCode ==
  ASSUME Typed, NEW c \in 1..Len(codes), NEW row \in Code, codes' = [codes EXCEPT ![c] = row],
         row.attempts = codes[c].attempts, row.told = codes[c].told,
         row.state \in {codes[c].state, "expired"}
  PROVE  QuietCodes
<1>1. /\ codes' \in Seq(Code) /\ Len(codes') = Len(codes)
      /\ codes'[c] = row /\ \A i \in 1..Len(codes) : i # c => codes'[i] = codes[i]
  BY HeldFacts, CodeChanged
<1> QED
  BY <1>1 DEF QuietCodes

LEMMA ClockQuiet ==
  ASSUME Typed,
         \/ \E c \in 1..MaxCodes : CoolsDown(c) \/ CodeExpires(c) \/ SessionExpires(c)
         \/ WindowPasses \/ Restart \/ UNCHANGED vars
  PROVE  Typed' /\ Quiet
<1>0. faults \in 0..MaxFaults
  BY HeldFacts
<1>1. ASSUME NEW c, CoolsDown(c) \/ CodeExpires(c)
      PROVE  Typed' /\ Quiet
  <2>1. /\ c \in 1..Len(codes) /\ codes[c] \in Code
        /\ UNCHANGED <<userVars, cookie, tab, failures, raced, crossed, left>>
    BY <1>1, Lengths DEF CoolsDown, CodeExpires, Open
  <2>2. \/ codes' = [codes EXCEPT ![c] = [codes[c] EXCEPT !.resendable = TRUE]]
        \/ codes' = [codes EXCEPT ![c] = [codes[c] EXCEPT !.state = "expired"]]
    BY <1>1, <2>1, HeldFacts DEF CoolsDown, CodeExpires
  <2>3. QuietCodes
    <3> DEFINE r1 == [codes[c] EXCEPT !.resendable = TRUE]
               r2 == [codes[c] EXCEPT !.state = "expired"]
    <3>1. /\ r1 \in Code /\ r1.attempts = codes[c].attempts /\ r1.told = codes[c].told
          /\ r1.state = codes[c].state
          /\ r2 \in Code /\ r2.attempts = codes[c].attempts /\ r2.told = codes[c].told
          /\ r2.state = "expired"
      BY <2>1 DEF Code
    <3>2. codes' = [codes EXCEPT ![c] = r1] \/ codes' = [codes EXCEPT ![c] = r2]
      BY <2>2
    <3> HIDE DEF r1, r2
    <3> QED
      BY <2>1, <3>1, <3>2, OneCode
  <2>4. /\ UNCHANGED UserKeeps /\ req' = req /\ remoteSessions' = remoteSessions
        /\ faults' = faults
    BY <2>1 DEF userVars, bookVars, UserKeeps
  <2> QED
    BY <1>0, <2>1, <2>3, <2>4, Unmoved, TimeQuiet
<1>2. ASSUME NEW i, SessionExpires(i)
      PROVE  Typed' /\ Quiet
  <2>1. /\ i \in 1..Len(remoteSessions)
        /\ remoteSessions' = [remoteSessions EXCEPT ![i].state = "expired"]
        /\ cookie' \in {0, cookie}
        /\ UNCHANGED <<deskVars, adminSessions, req, bookVars, codes, tab, failures, raced,
                       crossed, left>>
    BY <1>2, Lengths DEF SessionExpires, Active
  <2>2. QuietSessions
    BY <2>1, HeldFacts, OneEnded DEF QuietSessions
  <2>3. QuietPages /\ QuietCodes
    <3>1. QuietCodes
      BY <2>1, Unmoved
    <3>2. cookie' \in 0..Len(remoteSessions)
      BY <2>1, HeldFacts, Lengths
    <3> QED
      BY <2>1, <3>1, <3>2, HeldFacts DEF QuietPages
  <2>4. UNCHANGED UserKeeps /\ faults' = faults
    BY <2>1 DEF bookVars, UserKeeps
  <2> QED
    BY <1>0, <2>1, <2>2, <2>3, <2>4, TimeQuiet
<1>3. CASE WindowPasses
  <2>1. /\ failures' \in Nat
        /\ UNCHANGED <<userVars, codes, cookie, tab, raced, crossed, left>>
    BY <1>3 DEF WindowPasses, Forgotten
  <2>2. /\ UNCHANGED UserKeeps /\ req' = req /\ remoteSessions' = remoteSessions
        /\ faults' = faults
    BY <2>1 DEF userVars, bookVars, UserKeeps
  <2>3. QuietCodes /\ QuietSessions /\ QuietPages
    BY <2>1, <2>2, Unmoved, HeldFacts DEF QuietPages
  <2> QED
    BY <1>0, <2>1, <2>2, <2>3, TimeQuiet
<1>4. CASE Restart
  <2>1. /\ faults < MaxFaults /\ faults' = faults + 1 /\ req' = [t \in Slots |-> Idle]
        /\ tab' = [t \in Slots |-> Unanswered(t)] /\ failures' \in Nat
        /\ UNCHANGED <<deskVars, adminSessions, remoteSessions, asked, overlapped,
                       codes, cookie, raced, crossed, left>>
    BY <1>4 DEF Restart, Forgotten
  <2>2. \A t \in Slots : Unanswered(t) \in {tab[t], LoginPage}
    BY DEF Unanswered
  <2>3. tab' \in [Slots -> Page] /\ \A t \in Slots : tab'[t].challenge <= Len(codes)
    BY <2>1, <2>2, HeldFacts, LoginPageFits
  <2>4. QuietCodes /\ QuietSessions /\ QuietPages
    BY <2>1, <2>3, Unmoved, HeldFacts DEF QuietPages
  <2>5. UNCHANGED UserKeeps /\ faults' \in 0..MaxFaults
    BY <2>1, HeldFacts DEF UserKeeps
  <2> QED
    BY <2>1, <2>4, <2>5, TimeQuiet
<1>5. CASE UNCHANGED vars
  <2>1. /\ UNCHANGED loginVars /\ UNCHANGED UserKeeps /\ req' = req
        /\ remoteSessions' = remoteSessions /\ faults' = faults
    BY <1>5 DEF vars, userVars, bookVars, UserKeeps
  <2> QED
    BY <1>0, <2>1, Unmoved, TimeQuiet
<1> QED
  BY <1>1, <1>2, <1>3, <1>4, <1>5

-----------------------------------------------------------------------------
(* Types *)

(* A step that may matter to the codes. *)
Noisy(s) ==
  \/ InsertCode(s) \/ ReplaceOthers(s) \/ FindCode(s) \/ CountAttempt(s)
  \/ ConsumeCode(s) \/ CreateSession(s) \/ ReplyCode(s)

LEMMA TypedStep ==
  ASSUME Typed, [Next]_vars
  PROVE  Typed' /\ (Quiet \/ \E s \in Slots : Noisy(s))
<1>1. ASSUME NEW s \in Slots, DeskStarts(s) \/ DeskStep(s) \/ DeskFails(s),
             UNCHANGED loginVars
      PROVE  Typed' /\ Quiet
  BY <1>1, DeskTyped, DeskQuiet
<1>2. ASSUME NEW s \in Slots, UserStarts(s)
      PROVE  Typed' /\ Quiet
  BY <1>2, StartTyped, StartQuiet
<1>3. ASSUME NEW s \in Slots, UserFails(s)
      PROVE  Typed' /\ Quiet
  BY <1>3, RouteQuiet
<1>4. ASSUME NEW s \in Slots, UserStep(s)
      PROVE  Typed' /\ (Quiet \/ Noisy(s))
  <2>1. CASE Noisy(s)
    BY <2>1, IssueTyped, ReplaceTyped, FindTyped, CountTyped, ConsumeTyped, CreateTyped,
       ReplyCodeTyped DEF Noisy
  <2>2. CASE ~Noisy(s)
    <3>1. \/ LoginUser(s) \/ LoginHash(s) \/ ResendFind(s) \/ ResendUser(s)
          \/ MailCode(s) \/ MailFails(s)
          \/ VerifyUser(s)
          \/ CheckActive(s) \/ RouteUser(s) \/ RevokeSession(s) \/ ReadScope(s)
          \/ QueryDevices(s) \/ ReplyVerified(s) \/ ReplyLogout(s) \/ ReplyView(s)
          \/ DeleteCode(s)
      BY <1>4, <2>2 DEF UserStep, Noisy
    <3> QED
      BY <3>1, CodeQuiet, VerifyQuiet, RouteQuiet
  <2> QED
    BY <2>1, <2>2
<1>5. ASSUME \/ \E c \in 1..MaxCodes : CoolsDown(c) \/ CodeExpires(c) \/ SessionExpires(c)
             \/ WindowPasses \/ Restart \/ UNCHANGED vars
      PROVE  Typed' /\ Quiet
  BY <1>5, ClockQuiet
<1> QED
  BY <1>1, <1>2, <1>3, <1>4, <1>5 DEF Next

LEMMA InitDesk ==
  ASSUME UsersInit, adminSessions = <<>>, remoteSessions \in Seq(Session)
  PROVE  /\ DeskOK /\ DOMAIN req = Slots /\ \A s \in Slots : req[s] = Idle
         /\ ScopeKept /\ asked = 0 /\ faults = 0 /\ overlapped = FALSE
<1>1. /\ user = NoUser \/ (user \in Row /\ user.pw = 1)
      /\ scope \subseteq Devices /\ wanted = scope /\ asked = 0 /\ faults = 0
      /\ overlapped = FALSE /\ DOMAIN req = Slots /\ \A s \in Slots : req[s] = Idle
  BY DEF UsersInit, NewRow
<1>2. user \in Row /\ user.pw \in {0, 1} /\ (user.pw = 0 => user = NoUser)
  <2>1. NoUser \in Row /\ NoUser.pw = 0
    BY BoundsAssumption DEF NoUser, Row
  <2> QED
    BY <1>1, <2>1
<1>3. /\ UsersTypeOK
  <2>1. /\ asked \in 0..MaxRequests /\ faults \in 0..MaxFaults
        /\ adminSessions \in Seq(Session)
    BY <1>1, BoundsAssumption, EmptySeq
  <2> QED
    BY <1>1, <1>2, <2>1 DEF UsersTypeOK
<1>4. Known /\ \A s \in Slots : Entitled(s)
  BY <1>1, NoMarks DEF Known, Entitled, DeskKinds
<1>5. Passwords
  <2>1. Resets = {}
    BY <1>1, NoMarks DEF Resets
  <2>2. Cardinality(Resets) = 0
    BY <2>1, FS_EmptySet
  <2> QED
    BY <1>1, <1>2, <2>2 DEF Passwords
<1>6. ScopeKept
  BY <1>1, NoMarks DEF ScopeKept, Changing, Writing
<1> QED
  BY <1>1, <1>3, <1>4, <1>5, <1>6 DEF DeskOK

LEMMA InitShape ==
  ASSUME Init
  PROVE  /\ UsersInit /\ adminSessions = <<>> /\ failures = 0 /\ raced = {} /\ left = {}
         /\ crossed = FALSE
         /\ codes \in Seq(Code) /\ remoteSessions \in Seq(Session)
         /\ Len(codes) \in Nat /\ Len(codes) <= 1
         /\ Len(remoteSessions) \in Nat /\ Len(remoteSessions) <= 1
         /\ Len(remoteSessions) = 1 =>
              /\ Len(codes) = 1 /\ codes[1].state = "used"
              /\ remoteSessions[1].from = 1 /\ user.remote
         /\ Len(codes) = 1 => codes[1].attempts = 0 /\ codes[1].state # "replaced"
         /\ cookie \in 0..Len(remoteSessions) /\ tab \in [Slots -> Page]
         /\ \A s \in Slots : tab[s].challenge <= Len(codes)
<1>0. 0 \in 0..MaxCodes /\ 1 \in 0..MaxCodes
  BY BoundsAssumption DEF MaxCodes
<1>1. /\ UsersInit /\ adminSessions = <<>> /\ failures = 0 /\ raced = {} /\ left = {}
      /\ crossed = FALSE
  BY DEF Init
<1>2. CASE /\ codes = <<>> /\ remoteSessions = <<>> /\ cookie = 0
           /\ tab = [s \in Slots |-> LoginPage]
  <2>1. /\ codes \in Seq(Code) /\ remoteSessions \in Seq(Session)
        /\ Len(codes) = 0 /\ Len(remoteSessions) = 0
    BY <1>2, EmptySeq
  <2>2. LoginPage \in Page /\ LoginPage.challenge = 0
    BY <1>0 DEF LoginPage, Page
  <2> QED
    BY <1>1, <1>2, <2>1, <2>2
<1>3. ASSUME NEW r \in BOOLEAN,
             codes = <<[state |-> "open", attempts |-> 0, resendable |-> r, told |-> TRUE]>>,
             remoteSessions = <<>>, cookie = 0,
             tab = [s \in Slots |-> [mode |-> "verify", challenge |-> 1]]
      PROVE  /\ codes \in Seq(Code) /\ Len(codes) = 1 /\ codes[1].attempts = 0
             /\ codes[1].state = "open"
             /\ remoteSessions \in Seq(Session) /\ Len(remoteSessions) = 0
             /\ tab \in [Slots -> Page] /\ \A s \in Slots : tab[s].challenge = 1
  <2> DEFINE row == [state |-> "open", attempts |-> 0, resendable |-> r, told |-> TRUE]
             page == [mode |-> "verify", challenge |-> 1]
  <2>1. row \in Code /\ row.attempts = 0 /\ row.state = "open"
        /\ page \in Page /\ page.challenge = 1
    BY <1>0 DEF Code, Page
  <2>2. codes = <<row>> /\ tab = [s \in Slots |-> page]
    BY <1>3
  <2> HIDE DEF row, page
  <2>3. codes \in Seq(Code) /\ Len(codes) = 1 /\ codes[1] = row
    BY <2>1, <2>2
  <2>4. remoteSessions \in Seq(Session) /\ Len(remoteSessions) = 0
    BY <1>3, EmptySeq
  <2> QED
    BY <2>1, <2>2, <2>3, <2>4
<1>4. ASSUME user.remote,
             codes = <<[state |-> "used", attempts |-> 0, resendable |-> TRUE,
                        told |-> TRUE]>>,
             remoteSessions = <<[state |-> "active", from |-> 1, pw |-> 1, late |-> FALSE]>>,
             cookie = 1,
             tab = [s \in Slots |-> [mode |-> "dashboard", challenge |-> 0]]
      PROVE  /\ codes \in Seq(Code) /\ Len(codes) = 1 /\ codes[1].attempts = 0
             /\ codes[1].state = "used"
             /\ remoteSessions \in Seq(Session) /\ Len(remoteSessions) = 1
             /\ remoteSessions[1].from = 1
             /\ tab \in [Slots -> Page] /\ \A s \in Slots : tab[s].challenge = 0
  <2> DEFINE row == [state |-> "used", attempts |-> 0, resendable |-> TRUE, told |-> TRUE]
             session == [state |-> "active", from |-> 1, pw |-> 1, late |-> FALSE]
             page == [mode |-> "dashboard", challenge |-> 0]
  <2>1. row \in Code /\ row.attempts = 0 /\ row.state = "used"
        /\ session \in Session /\ session.from = 1
        /\ page \in Page /\ page.challenge = 0
    BY <1>0 DEF Code, Page, Session
  <2>2. codes = <<row>> /\ remoteSessions = <<session>> /\ tab = [s \in Slots |-> page]
    BY <1>4
  <2> HIDE DEF row, session, page
  <2>3. codes \in Seq(Code) /\ Len(codes) = 1 /\ codes[1] = row
    BY <2>1, <2>2
  <2>4. /\ remoteSessions \in Seq(Session) /\ Len(remoteSessions) = 1
        /\ remoteSessions[1] = session
    BY <2>1, <2>2
  <2> QED
    BY <2>1, <2>2, <2>3, <2>4
<1>5. \/ /\ codes = <<>> /\ remoteSessions = <<>> /\ cookie = 0
         /\ tab = [s \in Slots |-> LoginPage]
      \/ /\ \E r \in BOOLEAN :
              codes = <<[state |-> "open", attempts |-> 0, resendable |-> r, told |-> TRUE]>>
         /\ remoteSessions = <<>> /\ cookie = 0
         /\ tab = [s \in Slots |-> [mode |-> "verify", challenge |-> 1]]
      \/ /\ user.remote
         /\ codes = <<[state |-> "used", attempts |-> 0, resendable |-> TRUE,
                       told |-> TRUE]>>
         /\ remoteSessions = <<[state |-> "active", from |-> 1, pw |-> 1, late |-> FALSE]>>
         /\ cookie = 1
         /\ tab = [s \in Slots |-> [mode |-> "dashboard", challenge |-> 0]]
  BY DEF Init
<1> DEFINE Shape ==
      /\ codes \in Seq(Code) /\ remoteSessions \in Seq(Session)
      /\ Len(codes) \in Nat /\ Len(codes) <= 1
      /\ Len(remoteSessions) \in Nat /\ Len(remoteSessions) <= 1
      /\ Len(remoteSessions) = 1 =>
           /\ Len(codes) = 1 /\ codes[1].state = "used"
           /\ remoteSessions[1].from = 1 /\ user.remote
      /\ Len(codes) = 1 => codes[1].attempts = 0 /\ codes[1].state # "replaced"
      /\ cookie \in 0..Len(remoteSessions) /\ tab \in [Slots -> Page]
      /\ \A s \in Slots : tab[s].challenge <= Len(codes)
<1>6. Shape
  <2>1. ASSUME codes = <<>>, remoteSessions = <<>>, cookie = 0,
               tab = [s \in Slots |-> LoginPage]
        PROVE  Shape
    BY <1>2, <2>1
  <2>2. ASSUME NEW r \in BOOLEAN,
               codes = <<[state |-> "open", attempts |-> 0, resendable |-> r,
                          told |-> TRUE]>>,
               remoteSessions = <<>>, cookie = 0,
               tab = [s \in Slots |-> [mode |-> "verify", challenge |-> 1]]
        PROVE  Shape
    <3>1. /\ codes \in Seq(Code) /\ Len(codes) = 1 /\ codes[1].attempts = 0
          /\ codes[1].state = "open"
          /\ remoteSessions \in Seq(Session) /\ Len(remoteSessions) = 0
          /\ tab \in [Slots -> Page] /\ \A s \in Slots : tab[s].challenge = 1
      BY <1>3, <2>2
    <3> QED
      BY <2>2, <3>1
  <2>3. ASSUME user.remote,
               codes = <<[state |-> "used", attempts |-> 0, resendable |-> TRUE,
                          told |-> TRUE]>>,
               remoteSessions = <<[state |-> "active", from |-> 1, pw |-> 1,
                                   late |-> FALSE]>>,
               cookie = 1,
               tab = [s \in Slots |-> [mode |-> "dashboard", challenge |-> 0]]
        PROVE  Shape
    <3>1. /\ codes \in Seq(Code) /\ Len(codes) = 1 /\ codes[1].attempts = 0
          /\ codes[1].state = "used"
          /\ remoteSessions \in Seq(Session) /\ Len(remoteSessions) = 1
          /\ remoteSessions[1].from = 1
          /\ tab \in [Slots -> Page] /\ \A s \in Slots : tab[s].challenge = 0
      BY <1>4, <2>3
    <3> QED
      BY <2>3, <3>1
  <2> HIDE DEF Shape
  <2> QED
    BY <1>5, <2>1, <2>2, <2>3
<1> QED
  BY <1>1, <1>6

LEMMA InitTyped ==
  ASSUME Init
  PROVE  Typed
<1>1. /\ DeskOK /\ DOMAIN req = Slots /\ \A s \in Slots : req[s] = Idle
      /\ asked = 0
  BY InitShape, InitDesk
<1>2. req = [s \in Slots |-> Idle]
  BY InitShape DEF UsersInit
<1>3. Held
  <2>1. ASSUME NEW i \in 1..Len(remoteSessions)
        PROVE  remoteSessions[i].from \in 1..Len(codes)
    <3>1. Len(remoteSessions) \in Nat /\ Len(remoteSessions) <= 1
      BY InitShape
    <3>2. Len(remoteSessions) = 1 /\ i = 1
      BY <3>1
    <3>3. remoteSessions[i].from = 1 /\ Len(codes) = 1
      BY <3>2, InitShape
    <3> QED
      BY <3>3
  <2> QED
    BY <2>1, InitShape DEF Held
<1>4. Counts
  <2>1. Issuers = {} /\ Openers = {}
    BY <1>1, NoMarks DEF Issuers, Openers, Issuing, Opening
  <2>2. Cardinality(Issuers) = 0 /\ Cardinality(Openers) = 0
    BY <2>1, FS_EmptySet
  <2>3. /\ Len(codes) \in Nat /\ Len(codes) <= 1
        /\ Len(remoteSessions) \in Nat /\ Len(remoteSessions) <= 1
    BY InitShape
  <2>4. Len(codes) + Cardinality(Issuers) <= asked + 1
    BY <1>1, <2>2, <2>3
  <2>5. Len(remoteSessions) + Cardinality(Openers) <= asked + 1
    BY <1>1, <2>2, <2>3
  <2> QED
    BY <2>4, <2>5 DEF Counts
<1>5. Fits(Idle, Len(codes), Len(remoteSessions))
  BY NoMarks DEF Fits
<1> QED
  BY <1>1, <1>2, <1>3, <1>4, <1>5 DEF Typed, AnyRequest

(* Every variable keeps its type: no request names a code or a session that  *)
(* is not there, and there are no more of them than requests were made.      *)
THEOREM TypeCorrect == Spec => []TypeOK
<1>1. Init => Typed
  BY InitTyped
<1>2. Typed /\ [Next]_vars => Typed'
  BY TypedStep
<1>3. Typed => TypeOK
  BY TypedTypeOK
<1> QED
  BY <1>1, <1>2, <1>3, PTL DEF Spec

-----------------------------------------------------------------------------
(* Codes: what the steps keep of them *)

(* Verifications of c that have read its count and will raise it. *)
Guessing(r, c) == r.kind = "verify" /\ r.pc = "count" /\ r.code = c
Counting(c) == {s \in Slots : Guessing(req[s], c)}

(* A guess that is still to be counted counts already. *)
AttemptsKept ==
  \A c \in 1..Len(codes) :
    codes[c].attempts + Cardinality(Counting(c)) <= MaxCodeAttempts + Cardinality(Slots) - 1

(* Verifications that have found their code open and will, or did, consume it. *)
Using(r) == r.kind = "verify" /\ r.pc \in {"consume", "user", "create"}
Used(r) == r.kind = "verify" /\ r.pc \in {"user", "create"}

(* Unless a code was raced, one verification is using it, it is not open once *)
(* that one has consumed it, and none is left when it has opened a session.   *)
OneUse ==
  /\ \A s, t \in Slots : Using(req[s]) /\ Using(req[t]) /\ req[s].code = req[t].code /\ s # t
                           => req[s].code \in raced
  /\ \A s \in Slots : Used(req[s]) /\ Open(req[s].code) => req[s].code \in raced
  /\ \A i \in 1..Len(remoteSessions) :
       \/ remoteSessions[i].from \in raced
       \/ /\ ~Open(remoteSessions[i].from)
          /\ \A s \in Slots : Using(req[s]) => req[s].code # remoteSessions[i].from
  /\ OneSessionPerCode

(* An issue that is about to answer has replaced every older code. *)
Answering(r) == r.kind \in {"login", "resend"} /\ r.pc = "reply"
Older ==
  /\ OlderCodesDead
  /\ \A s \in Slots : Answering(req[s]) => \A d \in 1..Len(codes) : d < req[s].code => ~Open(d)

(* While no two issues cross, the one that is sending its code has the newest. *)
Sending(r) == r.kind \in {"login", "resend"} /\ r.pc \in {"mail", "replace"}
Newest ==
  ~crossed =>
    /\ \A s, t \in Slots : Sending(req[s]) /\ Sending(req[t]) => s = t
    /\ \A s \in Slots : Sending(req[s]) => req[s].code = Len(codes)
    /\ Len(codes) > 0 => codes[Len(codes)].state # "replaced"

-----------------------------------------------------------------------------
LEMMA Moved ==
  ASSUME Typed, NEW s \in Slots, NEW r, Puts(s, r)
  PROVE  req'[s] = r /\ \A t \in Slots \ {s} : req'[t] = req[t]
BY Kinds DEF Puts

LEMMA OpenIs ==
  ASSUME Typed, NEW c \in 1..Len(codes)
  PROVE  /\ Open(c) <=> codes[c].state = "open"
         /\ codes' \in Seq(Code) /\ Len(codes) <= Len(codes')
              => (Open(c)' <=> codes'[c].state = "open")
<1>1. Open(c) <=> codes[c].state = "open"
  BY Lengths DEF Open
<1>2. ASSUME codes' \in Seq(Code), Len(codes) <= Len(codes')
      PROVE  Open(c)' <=> codes'[c].state = "open"
  <2>1. DOMAIN codes' = 1..Len(codes') /\ Len(codes') \in Nat
    BY <1>2, LenProperties
  <2>2. c \in DOMAIN codes'
    BY <1>2, <2>1, Lengths
  <2> QED
    BY <2>2 DEF Open
<1> QED
  BY <1>1, <1>2

LEMMA VerifyNames ==
  ASSUME Typed, NEW s \in Slots
  PROVE  /\ req[s].kind = "verify" /\ req[s].pc # "find" => req[s].code \in 1..Len(codes)
         /\ Sending(req[s]) \/ Answering(req[s]) => req[s].code \in 1..Len(codes)
<1>1. ASSUME req[s].kind = "verify", req[s].pc # "find"
      PROVE  req[s].code \in 1..Len(codes)
  <2>1. req[s].code \in 0..MaxCodes /\ req[s].code <= Len(codes) /\ req[s].code # 0
    BY <1>1, Kinds DEF VerifyRequest, Fits
  <2> QED
    BY <2>1, Lengths
<1>2. ASSUME Sending(req[s]) \/ Answering(req[s])
      PROVE  req[s].code \in 1..Len(codes)
  <2>1. req[s].code \in 0..MaxCodes /\ req[s].code <= Len(codes) /\ req[s].code # 0
    BY <1>2, Kinds DEF CodeRequest, Fits, Sending, Answering
  <2> QED
    BY <2>1, Lengths
<1> QED
  BY <1>1, <1>2

-----------------------------------------------------------------------------
(* Guesses *)

LEMMA SlotsFinite ==
  /\ IsFiniteSet(Slots) /\ Cardinality(Slots) \in Nat
  /\ \A c : IsFiniteSet(Counting(c)) /\ Cardinality(Counting(c)) \in Nat
            /\ Cardinality(Counting(c)) <= Cardinality(Slots)
<1>1. IsFiniteSet(Slots)
  BY BoundsAssumption
<1>2. \A c : Counting(c) \subseteq Slots
  BY DEF Counting
<1> QED
  BY <1>1, <1>2, FS_Subset, FS_CardinalityType

(* Nobody begins to count, and the counts stay. *)
LEMMA AttemptsCalm ==
  ASSUME Typed, AttemptsKept, codes' \in Seq(Code), Len(codes') = Len(codes),
         \A i \in 1..Len(codes) : codes'[i].attempts = codes[i].attempts,
         \A t \in Slots, c \in 1..Len(codes) : Guessing(req'[t], c) => Guessing(req[t], c)
  PROVE  AttemptsKept'
<1> SUFFICES ASSUME NEW c \in 1..Len(codes)
             PROVE  codes'[c].attempts + Cardinality(Counting(c)')
                      <= MaxCodeAttempts + Cardinality(Slots) - 1
  BY DEF AttemptsKept
<1>1. Counting(c)' \subseteq Counting(c)
  BY DEF Counting, Guessing
<1>2. /\ Cardinality(Counting(c)') <= Cardinality(Counting(c))
      /\ Cardinality(Counting(c)') \in Nat
  BY <1>1, SlotsFinite, Counted
<1>3. codes[c].attempts \in Nat
  BY Lengths DEF Code
<1> QED
  BY <1>2, <1>3, SlotsFinite, CodeAttemptsAssumption DEF AttemptsKept

LEMMA AttemptsIssue ==
  ASSUME Typed, AttemptsKept, NEW s \in Slots, InsertCode(s)
  PROVE  AttemptsKept'
<1> DEFINE n == Len(codes) + 1
<1>1. /\ codes' \in Seq(Code) /\ Len(codes') = n
      /\ \A i \in 1..Len(codes) : codes'[i] = codes[i]
      /\ codes'[n].attempts = 0
  BY IssueShape
<1>2. PICK r \in CodeRequest : Puts(s, r)
  BY IssueShape
<1>3. /\ req'[s].kind # "verify" /\ \A t \in Slots \ {s} : req'[t] = req[t]
  BY <1>2, Moved DEF CodeRequest
<1>4. Len(codes) \in Nat /\ \A c \in 1..n : c = n \/ c \in 1..Len(codes)
  BY Lengths
<1> SUFFICES ASSUME NEW c \in 1..n
             PROVE  codes'[c].attempts + Cardinality(Counting(c)')
                      <= MaxCodeAttempts + Cardinality(Slots) - 1
  BY <1>1 DEF AttemptsKept
<1>5. Counting(c)' \subseteq Counting(c)
  BY <1>3 DEF Counting, Guessing
<1>6. /\ Cardinality(Counting(c)') <= Cardinality(Counting(c))
      /\ Cardinality(Counting(c)') \in Nat
  BY <1>5, SlotsFinite, Counted
<1>7. CASE c \in 1..Len(codes)
  <2>1. codes[c].attempts \in Nat /\ codes'[c].attempts = codes[c].attempts
    BY <1>1, <1>7, Lengths DEF Code
  <2> QED
    BY <1>6, <1>7, <2>1, SlotsFinite, CodeAttemptsAssumption DEF AttemptsKept
<1>8. CASE c = n
  <2>1. Counting(c) = {}
    <3>1. \A t \in Slots : req[t].kind = "verify" /\ req[t].pc = "count"
                             => req[t].code \in 1..Len(codes)
      BY VerifyNames
    <3>2. c \notin 1..Len(codes)
      BY <1>4, <1>8
    <3> QED
      BY <3>1, <3>2 DEF Counting, Guessing
  <2>2. Cardinality(Counting(c)') = 0 /\ codes'[c].attempts = 0
    BY <1>1, <1>5, <1>8, <2>1, FS_EmptySet
  <2> QED
    BY <2>2, SlotsFinite, CodeAttemptsAssumption
<1> QED
  BY <1>4, <1>7, <1>8

(* The check and the count are two steps: as many guesses are between them as *)
(* there are slots, and the check needs one more.                             *)
LEMMA AttemptsFind ==
  ASSUME Typed, AttemptsKept, NEW s \in Slots, FindCode(s)
  PROVE  AttemptsKept'
<1>1. codes' = codes /\ codes \in Seq(Code)
  BY FindShape, HeldFacts
<1>2. CASE Puts(s, Idle)
  <2>1. \A t \in Slots, c \in 1..Len(codes) : Guessing(req'[t], c) => Guessing(req[t], c)
    BY <1>2, Moved, HeldFacts DEF Guessing
  <2> QED
    BY <1>1, <2>1, AttemptsCalm
<1>3. ASSUME req[s].code \in 1..Len(codes), codes[req[s].code].attempts < MaxCodeAttempts,
             NEW r \in VerifyRequest, Puts(s, r), r.code = req[s].code
      PROVE  AttemptsKept'
  <2> SUFFICES ASSUME NEW c \in 1..Len(codes)
               PROVE  codes[c].attempts + Cardinality(Counting(c)')
                        <= MaxCodeAttempts + Cardinality(Slots) - 1
    BY <1>1 DEF AttemptsKept
  <2>1. req'[s] = r /\ \A t \in Slots \ {s} : req'[t] = req[t]
    BY <1>3, Moved
  <2>2. codes[c].attempts \in Nat
    BY Lengths DEF Code
  <2>3. CASE c = req[s].code
    <3>1. Counting(c)' \subseteq Slots
      BY DEF Counting
    <3>2. Cardinality(Counting(c)') <= Cardinality(Slots) /\ Cardinality(Counting(c)') \in Nat
      BY <3>1, SlotsFinite, Counted
    <3>3. codes[c].attempts < MaxCodeAttempts
      BY <1>3, <2>3
    <3> QED
      BY <2>2, <3>2, <3>3, SlotsFinite, CodeAttemptsAssumption
  <2>4. CASE c # req[s].code
    <3>1. Counting(c)' \subseteq Counting(c)
      BY <1>3, <2>1, <2>4 DEF Counting, Guessing
    <3>2. /\ Cardinality(Counting(c)') <= Cardinality(Counting(c))
          /\ Cardinality(Counting(c)') \in Nat
      BY <3>1, SlotsFinite, Counted
    <3> QED
      BY <2>2, <3>2, SlotsFinite, CodeAttemptsAssumption DEF AttemptsKept
  <2> QED
    BY <2>3, <2>4
<1> QED
  BY <1>2, <1>3, FindShape

LEMMA AttemptsCount ==
  ASSUME Typed, AttemptsKept, NEW s \in Slots, CountAttempt(s)
  PROVE  AttemptsKept'
<1>1. /\ req[s] \in VerifyRequest /\ req[s].pc = "count" /\ req[s].code \in 1..Len(codes)
      /\ Puts(s, Idle) /\ codes' \in Seq(Code) /\ Len(codes') = Len(codes)
      /\ \A i \in 1..Len(codes) : codes'[i].attempts = IF i = req[s].code
                                                       THEN codes[i].attempts + 1
                                                       ELSE codes[i].attempts
  BY CountShape
<1>2. req'[s] = Idle /\ \A t \in Slots \ {s} : req'[t] = req[t]
  BY <1>1, Moved
<1> SUFFICES ASSUME NEW c \in 1..Len(codes)
             PROVE  codes'[c].attempts + Cardinality(Counting(c)')
                      <= MaxCodeAttempts + Cardinality(Slots) - 1
  BY <1>1 DEF AttemptsKept
<1>3. Counting(c)' \subseteq Counting(c) \ {s} /\ (c = req[s].code => s \in Counting(c))
  BY <1>1, <1>2, HeldFacts DEF Counting, Guessing, VerifyRequest
<1>4. codes[c].attempts \in Nat
  BY Lengths DEF Code
<1>5. CASE c = req[s].code
  <2>1. /\ Cardinality(Counting(c)') <= Cardinality(Counting(c)) - 1
        /\ Cardinality(Counting(c)') \in Nat
    BY <1>3, <1>5, SlotsFinite, Counted
  <2>2. codes'[c].attempts = codes[c].attempts + 1
    BY <1>1, <1>5
  <2> DEFINE a == codes[c].attempts  n == Cardinality(Counting(c))
             n1 == Cardinality(Counting(c)')  m == Cardinality(Slots)
  <2>3. /\ a \in Nat /\ n \in Nat /\ n1 \in Nat /\ m \in Nat /\ MaxCodeAttempts \in Nat
        /\ a + n <= MaxCodeAttempts + m - 1 /\ n1 <= n - 1
    BY <1>4, <2>1, SlotsFinite, CodeAttemptsAssumption DEF AttemptsKept
  <2> HIDE DEF a, n, n1, m
  <2>4. a + 1 + n1 <= MaxCodeAttempts + m - 1
    BY <2>3
  <2> QED
    BY <2>2, <2>4 DEF a, n1, m
<1>6. CASE c # req[s].code
  <2>1. /\ Cardinality(Counting(c)') <= Cardinality(Counting(c))
        /\ Cardinality(Counting(c)') \in Nat
    BY <1>3, SlotsFinite, Counted
  <2>2. codes'[c].attempts = codes[c].attempts
    BY <1>1, <1>6
  <2> QED
    BY <1>4, <2>1, <2>2, SlotsFinite, CodeAttemptsAssumption DEF AttemptsKept
<1> QED
  BY <1>5, <1>6

LEMMA AttemptsStep ==
  ASSUME Typed, AttemptsKept, Quiet \/ \E s \in Slots : Noisy(s)
  PROVE  AttemptsKept'
<1>1. CASE Quiet
  <2>1. \A t \in Slots, c \in 1..Len(codes) : Guessing(req'[t], c) => Guessing(req[t], c)
    BY <1>1 DEF Quiet, Calm, Guessing
  <2> QED
    BY <1>1, <2>1, AttemptsCalm DEF Quiet, QuietCodes
<1>2. ASSUME NEW s \in Slots, NEW r, Puts(s, r),
             r.kind # "verify" \/ r.pc # "count",
             codes' \in Seq(Code), Len(codes') = Len(codes),
             \A i \in 1..Len(codes) : codes'[i].attempts = codes[i].attempts
      PROVE  AttemptsKept'
  <2>1. \A t \in Slots, c \in 1..Len(codes) : Guessing(req'[t], c) => Guessing(req[t], c)
    BY <1>2, Moved DEF Guessing
  <2> QED
    BY <1>2, <2>1, AttemptsCalm
<1>3. ASSUME NEW s \in Slots, ReplaceOthers(s)
      PROVE  AttemptsKept'
  <2>1. PICK r \in CodeRequest : Puts(s, r) /\ r.pc = "reply"
    BY <1>3, ReplaceShape
  <2> QED
    BY <1>2, <1>3, <2>1, ReplaceShape
<1>4. ASSUME NEW s \in Slots, ConsumeCode(s)
      PROVE  AttemptsKept'
  <2>1. PICK r \in VerifyRequest : Puts(s, r) /\ r.pc = "user"
    BY <1>4, ConsumeShape
  <2> QED
    BY <1>2, <1>4, <2>1, ConsumeShape
<1>5. ASSUME NEW s \in Slots, CreateSession(s)
      PROVE  AttemptsKept'
  <2>1. PICK r \in VerifyRequest : Puts(s, r) /\ r.pc = "reply"
    BY <1>5, CreateShape
  <2>2. codes' = codes
    BY <1>5, CreateShape DEF loginVars
  <2> QED
    BY <1>2, <2>1, <2>2, HeldFacts
<1>6. ASSUME NEW s \in Slots, ReplyCode(s)
      PROVE  AttemptsKept'
  BY <1>2, <1>6, ReplyCodeShape, HeldFacts
<1> QED
  BY <1>1, <1>3, <1>4, <1>5, <1>6, AttemptsIssue, AttemptsFind, AttemptsCount DEF Noisy

-----------------------------------------------------------------------------
(* One session per code *)

(* Nobody comes to use a code, and nobody to have used one that is open. *)
LEMMA UseCalm ==
  ASSUME Typed, OneUse, codes' \in Seq(Code), Len(codes) <= Len(codes'),
         \A c \in 1..Len(codes) : Open(c)' => Open(c),
         Fewer(remoteSessions, remoteSessions'), remoteSessions' \in Seq(Session),
         raced' = raced,
         \A t \in Slots : Using(req'[t]) => /\ Using(req[t]) /\ req'[t].code = req[t].code
                                            /\ Used(req'[t]) /\ ~Used(req[t])
                                                 => ~Open(req[t].code)'
  PROVE  OneUse'
<1>1. \A t \in Slots : Using(req'[t]) => req[t].code \in 1..Len(codes)
  BY VerifyNames DEF Using
<1>2. /\ Len(remoteSessions') = Len(remoteSessions)
      /\ DOMAIN remoteSessions' = 1..Len(remoteSessions)
      /\ DOMAIN remoteSessions = 1..Len(remoteSessions)
      /\ \A i \in 1..Len(remoteSessions) :
           /\ remoteSessions'[i].from = remoteSessions[i].from
           /\ remoteSessions[i].from \in 1..Len(codes)
  BY Lengths, HeldFacts, LenProperties DEF Fewer
<1>3. \A s, t \in Slots : Using(req[s])' /\ Using(req[t])' /\ req'[s].code = req'[t].code
                            /\ s # t => req'[s].code \in raced'
  BY DEF OneUse, Using
<1>4. \A s \in Slots : Used(req[s])' /\ Open(req[s].code)' => req'[s].code \in raced'
  <2> SUFFICES ASSUME NEW s \in Slots, Used(req'[s]), Open(req[s].code)'
               PROVE  req'[s].code \in raced
    BY DEF Used
  <2>1. Using(req'[s])
    BY DEF Used, Using
  <2>2. req'[s].code = req[s].code
    BY <2>1
  <2>3. CASE Used(req[s])
    <3>1. Open(req[s].code)' => Open(req[s].code)
      BY <1>1, <2>1
    <3>2. Open(req[s].code)
      BY <2>2, <3>1 DEF Open
    <3> QED
      BY <2>2, <2>3, <3>2 DEF OneUse
  <2>4. CASE ~Used(req[s])
    BY <2>1, <2>2, <2>4 DEF Open
  <2> QED
    BY <2>3, <2>4
<1>5. \A i \in 1..Len(remoteSessions) :
        \/ remoteSessions'[i].from \in raced'
        \/ /\ ~Open(remoteSessions[i].from)'
           /\ \A s \in Slots : Using(req[s])' => req'[s].code # remoteSessions'[i].from
  <2> SUFFICES ASSUME NEW i \in 1..Len(remoteSessions), remoteSessions'[i].from \notin raced
               PROVE  /\ ~Open(remoteSessions[i].from)'
                      /\ \A s \in Slots :
                           Using(req'[s]) => req'[s].code # remoteSessions'[i].from
    BY DEF Using
  <2>1. ~Open(remoteSessions[i].from)
    BY <1>2 DEF OneUse
  <2>2. ~Open(remoteSessions[i].from)'
    BY <1>2, <2>1 DEF Open
  <2>3. \A s \in Slots : Using(req'[s]) => req'[s].code # remoteSessions'[i].from
    BY <1>2 DEF OneUse
  <2> QED
    BY <2>2, <2>3
<1>6. OneSessionPerCode'
  BY <1>2 DEF OneUse, OneSessionPerCode
<1> QED
  BY <1>2, <1>3, <1>4, <1>5, <1>6 DEF OneUse

(* A verification finds its code open: if another one is using it, or has    *)
(* used it, the code is raced.                                               *)
LEMMA UseFind ==
  ASSUME Typed, OneUse, NEW s \in Slots, FindCode(s)
  PROVE  OneUse'
<1>1. codes' = codes /\ codes \in Seq(Code) /\ Len(codes) <= Len(codes')
      /\ remoteSessions' = remoteSessions /\ remoteSessions \in Seq(Session)
  BY FindShape, HeldFacts, Lengths
<1>2. CASE Puts(s, Idle) /\ raced' = raced
  <2>1. \A t \in Slots : Using(req'[t]) => Using(req[t]) /\ req'[t] = req[t]
    BY <1>2, Moved, HeldFacts DEF Using
  <2>2. \A c \in 1..Len(codes) : Open(c)' => Open(c)
    BY <1>1 DEF Open
  <2> QED
    BY <1>1, <1>2, <2>1, <2>2, UseCalm, SameRows
<1>3. ASSUME Open(req[s].code), NEW r \in VerifyRequest, Puts(s, r),
             r.pc \in {"consume", "count"}, r.code = req[s].code,
             raced' = IF \E t \in Slots \ {s} : At(t, {"verify"}, "consume")
                                                /\ req[t].code = req[s].code
                      THEN raced \cup {req[s].code} ELSE raced
      PROVE  OneUse'
  <2> DEFINE c == req[s].code
  <2>1. req'[s] = r /\ \A t \in Slots \ {s} : req'[t] = req[t]
    BY <1>3, Moved
  <2>2. ~Used(r) /\ ~Using(req[s])
    BY <1>3, FindShape DEF Used, Using
  <2>3. raced \subseteq raced'
    BY <1>3
  <2>4. \A t \in Slots \ {s} : Using(req[t]) /\ req[t].code = c => c \in raced'
    <3> SUFFICES ASSUME NEW t \in Slots \ {s}, Using(req[t]), req[t].code = c
                 PROVE  c \in raced'
      OBVIOUS
    <3>1. CASE req[t].pc = "consume"
      BY <1>3, <3>1 DEF At, Using
    <3>2. CASE Used(req[t])
      BY <1>3, <2>3, <3>2 DEF OneUse
    <3> QED
      BY <3>1, <3>2 DEF Using, Used
  <2>5. \A t, u \in Slots : Using(req'[t]) /\ Using(req'[u]) /\ req'[t].code = req'[u].code
                              /\ t # u => req'[t].code \in raced'
    <3> SUFFICES ASSUME NEW t \in Slots, NEW u \in Slots, Using(req'[t]), Using(req'[u]),
                        req'[t].code = req'[u].code, t # u
                 PROVE  req'[t].code \in raced'
      OBVIOUS
    <3>1. CASE t # s /\ u # s
      BY <2>1, <2>3, <3>1 DEF OneUse
    <3>2. CASE t = s
      BY <1>3, <2>1, <2>4, <3>2
    <3>3. CASE u = s
      BY <1>3, <2>1, <2>4, <3>3
    <3> QED
      BY <3>1, <3>2, <3>3
  <2>6. \A t \in Slots : Used(req'[t]) /\ Open(req'[t].code) => req'[t].code \in raced'
    BY <2>1, <2>2, <2>3 DEF OneUse
  <2>7. \A i \in 1..Len(remoteSessions) :
          \/ remoteSessions[i].from \in raced'
          \/ /\ ~Open(remoteSessions[i].from)
             /\ \A t \in Slots : Using(req'[t]) => req'[t].code # remoteSessions[i].from
    <3> SUFFICES ASSUME NEW i \in 1..Len(remoteSessions), remoteSessions[i].from \notin raced
                 PROVE  /\ ~Open(remoteSessions[i].from)
                        /\ \A t \in Slots :
                             Using(req'[t]) => req'[t].code # remoteSessions[i].from
      BY <2>3
    <3>1. /\ ~Open(remoteSessions[i].from)
          /\ \A t \in Slots : Using(req[t]) => req[t].code # remoteSessions[i].from
      BY DEF OneUse
    <3>2. c # remoteSessions[i].from
      BY <1>3, <3>1
    <3> QED
      BY <1>3, <2>1, <3>1, <3>2
  <2>8. OneSessionPerCode'
    BY <1>1, <2>3 DEF OneUse, OneSessionPerCode
  <2> HIDE DEF c
  <2> QED
    BY <1>1, <2>5, <2>6, <2>7, <2>8 DEF OneUse, Using, Used, Open
<1> QED
  BY <1>2, <1>3, FindShape

(* The one verification that used the code opens the session. *)
LEMMA UseCreate ==
  ASSUME Typed, OneUse, NEW s \in Slots, CreateSession(s)
  PROVE  OneUse'
<1> DEFINE n == Len(remoteSessions) + 1
           c == req[s].code
<1>1. /\ req[s] \in VerifyRequest /\ req[s].pc = "create"
      /\ codes' = codes /\ raced' = raced
      /\ remoteSessions' \in Seq(Session) /\ Len(remoteSessions') = n
      /\ \A i \in 1..Len(remoteSessions) : remoteSessions'[i] = remoteSessions[i]
      /\ remoteSessions'[n].from = c
  BY CreateShape DEF loginVars
<1>2. PICK r \in VerifyRequest : Puts(s, r) /\ r.pc = "reply"
  BY CreateShape
<1>3. /\ Used(req[s]) /\ Using(req[s]) /\ ~Using(r)
      /\ req'[s] = r /\ \A t \in Slots \ {s} : req'[t] = req[t]
  BY <1>1, <1>2, Moved DEF Used, Using, VerifyRequest
<1>4. /\ Len(remoteSessions) \in Nat /\ \A i \in 1..n : i = n \/ i \in 1..Len(remoteSessions)
      /\ DOMAIN remoteSessions = 1..Len(remoteSessions)
      /\ DOMAIN remoteSessions' = 1..n
  BY <1>1, Lengths, LenProperties
<1>5. \A t \in Slots : Using(req'[t]) => t # s /\ req'[t] = req[t] /\ Using(req[t])
  BY <1>3
<1>6. \/ c \in raced
      \/ ~Open(c) /\ \A t \in Slots : Using(req'[t]) => req'[t].code # c
  BY <1>3, <1>5 DEF OneUse
<1>7. \A i \in 1..Len(remoteSessions) : remoteSessions[i].from = c => c \in raced
  BY <1>3 DEF OneUse
<1> HIDE DEF n, c
<1>8. \A t, u \in Slots : Using(req'[t]) /\ Using(req'[u]) /\ req'[t].code = req'[u].code
                            /\ t # u => req'[t].code \in raced
  BY <1>5 DEF OneUse
<1>9. \A t \in Slots : Used(req'[t]) /\ Open(req'[t].code) => req'[t].code \in raced
  <2>1. \A t \in Slots : Used(req'[t]) => req'[t] = req[t]
    BY <1>5 DEF Used, Using
  <2> QED
    BY <2>1 DEF OneUse
<1>10. \A i \in 1..n :
         \/ remoteSessions'[i].from \in raced
         \/ /\ ~Open(remoteSessions'[i].from)
            /\ \A t \in Slots : Using(req'[t]) => req'[t].code # remoteSessions'[i].from
  <2> SUFFICES ASSUME NEW i \in 1..n, remoteSessions'[i].from \notin raced
               PROVE  /\ ~Open(remoteSessions'[i].from)
                      /\ \A t \in Slots :
                           Using(req'[t]) => req'[t].code # remoteSessions'[i].from
    OBVIOUS
  <2>1. CASE i = n
    BY <1>1, <1>6, <2>1
  <2>2. CASE i \in 1..Len(remoteSessions)
    <3>1. remoteSessions'[i].from = remoteSessions[i].from
      BY <1>1, <2>2
    <3>2. /\ ~Open(remoteSessions[i].from)
          /\ \A t \in Slots : Using(req[t]) => req[t].code # remoteSessions[i].from
      BY <2>2, <3>1 DEF OneUse
    <3> QED
      BY <1>5, <3>1, <3>2
  <2> QED
    BY <1>4, <2>1, <2>2
<1>11. \A i, j \in 1..n : i # j /\ remoteSessions'[i].from = remoteSessions'[j].from
                            => remoteSessions'[i].from \in raced
  <2>1. \A i, j \in 1..Len(remoteSessions) :
          i # j /\ remoteSessions[i].from = remoteSessions[j].from
            => remoteSessions[i].from \in raced
    BY <1>4 DEF OneUse, OneSessionPerCode
  <2> QED
    BY <1>1, <1>4, <1>7, <2>1
<1>12. OneSessionPerCode'
  BY <1>1, <1>4, <1>11 DEF OneSessionPerCode
<1> QED
  BY <1>1, <1>8, <1>9, <1>10, <1>12 DEF OneUse, Using, Used, Open

LEMMA UseStep ==
  ASSUME Typed, OneUse, Quiet \/ \E s \in Slots : Noisy(s)
  PROVE  OneUse'
<1>0. Len(codes) \in Nat /\ codes \in Seq(Code) /\ remoteSessions \in Seq(Session)
  BY Lengths, HeldFacts
<1>1. ASSUME codes' \in Seq(Code), Len(codes) <= Len(codes'),
             \A i \in 1..Len(codes) : codes'[i].state = "open" => codes[i].state = "open"
      PROVE  \A c \in 1..Len(codes) : Open(c)' => Open(c)
  BY <1>1, OpenIs
<1>2. CASE Quiet
  <2>1. \A t \in Slots : Using(req'[t]) => /\ Using(req[t]) /\ req'[t].code = req[t].code
                                           /\ Used(req'[t]) => Used(req[t])
    BY <1>2 DEF Quiet, Calm, Using, Used
  <2>2. \A c \in 1..Len(codes) : Open(c)' => Open(c)
    BY <1>0, <1>1, <1>2 DEF Quiet, QuietCodes
  <2> QED
    BY <1>0, <1>2, <2>1, <2>2, UseCalm DEF Quiet, QuietCodes, QuietSessions
<1>3. ASSUME NEW s \in Slots, NEW r, Puts(s, r), ~Using(r),
             codes' \in Seq(Code), Len(codes) <= Len(codes'),
             \A i \in 1..Len(codes) : codes'[i].state = "open" => codes[i].state = "open",
             remoteSessions' = remoteSessions, raced' = raced
      PROVE  OneUse'
  <2>1. \A t \in Slots : Using(req'[t]) => /\ Using(req[t]) /\ req'[t].code = req[t].code
                                           /\ Used(req'[t]) => Used(req[t])
    BY <1>3, Moved DEF Using, Used
  <2>2. \A c \in 1..Len(codes) : Open(c)' => Open(c)
    BY <1>1, <1>3
  <2> QED
    BY <1>0, <1>3, <2>1, <2>2, UseCalm, SameRows
<1>4. ASSUME NEW s \in Slots, InsertCode(s) \/ ReplaceOthers(s)
      PROVE  OneUse'
  <2>1. /\ codes' \in Seq(Code) /\ Len(codes) <= Len(codes')
        /\ \A i \in 1..Len(codes) : codes'[i].state = "open" => codes[i].state = "open"
        /\ remoteSessions' = remoteSessions /\ raced' = raced
        /\ \E r \in CodeRequest : Puts(s, r)
    <3>1. CASE InsertCode(s)
      <4>1. Len(codes') = Len(codes) + 1
        BY <3>1, IssueShape
      <4>2. Len(codes) <= Len(codes')
        BY <1>0, <4>1
      <4> QED
        BY <3>1, <4>2, IssueShape
    <3>2. CASE ReplaceOthers(s)
      BY <1>0, <3>2, ReplaceShape
    <3> QED
      BY <1>4, <3>1, <3>2
  <2>2. \A r \in CodeRequest : ~Using(r)
    BY DEF CodeRequest, Using
  <2> QED
    BY <1>3, <2>1, <2>2
<1>5. ASSUME NEW s \in Slots, CountAttempt(s) \/ ReplyCode(s)
      PROVE  OneUse'
  <2>1. /\ codes' \in Seq(Code) /\ Len(codes) <= Len(codes') /\ Puts(s, Idle)
        /\ \A i \in 1..Len(codes) : codes'[i].state = codes[i].state
        /\ remoteSessions' = remoteSessions /\ raced' = raced
    <3>1. CASE CountAttempt(s)
      <4>1. Len(codes') = Len(codes)
        BY <3>1, CountShape
      <4>2. Len(codes) <= Len(codes')
        BY <1>0, <4>1
      <4> QED
        BY <3>1, <4>2, CountShape
    <3>2. CASE ReplyCode(s)
      <4>1. Len(codes') = Len(codes)
        BY <3>2, ReplyCodeShape
      <4>2. Len(codes) <= Len(codes')
        BY <1>0, <4>1
      <4> QED
        BY <3>2, <4>2, ReplyCodeShape
    <3> QED
      BY <1>5, <3>1, <3>2
  <2>2. ~Using(Idle)
    BY HeldFacts DEF Using
  <2> QED
    BY <1>3, <2>1, <2>2
<1>6. ASSUME NEW s \in Slots, ConsumeCode(s)
      PROVE  OneUse'
  <2>1. /\ req[s] \in VerifyRequest /\ req[s].pc = "consume" /\ req[s].code \in 1..Len(codes)
        /\ codes' \in Seq(Code) /\ Len(codes') = Len(codes)
        /\ \A i \in 1..Len(codes) : i # req[s].code => codes'[i].state = codes[i].state
        /\ codes'[req[s].code].state \in {"used", "deleted"}
        /\ remoteSessions' = remoteSessions /\ raced' = raced
    BY <1>6, ConsumeShape
  <2>2. PICK r \in VerifyRequest : Puts(s, r) /\ r.code = req[s].code
    BY <1>6, ConsumeShape
  <2>3. \A c \in 1..Len(codes) : Open(c)' => c # req[s].code /\ Open(c)
    BY <1>0, <2>1, OpenIs
  <2>4. Using(req[s]) /\ req'[s] = r /\ \A t \in Slots \ {s} : req'[t] = req[t]
    BY <2>1, <2>2, Moved DEF Using, VerifyRequest
  <2>5. ~Open(req[s].code)'
    <3>1. req'[s].code = req[s].code
      BY <2>2, <2>4
    <3> QED
      BY <2>1, <2>3, <3>1 DEF Open
  <2>6. \A t \in Slots : Using(req'[t]) => /\ Using(req[t]) /\ req'[t].code = req[t].code
                                           /\ Used(req'[t]) /\ ~Used(req[t])
                                                => ~Open(req[t].code)'
    BY <2>2, <2>4, <2>5
  <2> QED
    BY <1>0, <2>1, <2>3, <2>6, UseCalm, SameRows
<1> QED
  BY <1>2, <1>4, <1>5, <1>6, UseFind, UseCreate DEF Noisy

-----------------------------------------------------------------------------
(* The newest code *)

(* No code is opened or told, and nobody comes to answer. *)
LEMMA OlderCalm ==
  ASSUME Typed, Older, codes' \in Seq(Code), Len(codes') = Len(codes),
         \A i \in 1..Len(codes) : /\ codes'[i].state = "open" => codes[i].state = "open"
                                  /\ codes'[i].told => codes[i].told,
         \A t \in Slots : Answering(req'[t]) => Answering(req[t]) /\ req'[t].code = req[t].code
  PROVE  Older'
<1>1. \A c \in 1..Len(codes) : Open(c)' => Open(c)
  <2>1. Len(codes) <= Len(codes')
    BY Lengths
  <2> QED
    BY <2>1, OpenIs
<1>2. DOMAIN codes' = 1..Len(codes) /\ DOMAIN codes = 1..Len(codes)
  BY Lengths, LenProperties
<1>3. OlderCodesDead'
  BY <1>1, <1>2 DEF Older, OlderCodesDead
<1>4. \A t \in Slots : Answering(req'[t]) =>
        \A d \in 1..Len(codes) : d < req'[t].code => ~Open(d)'
  BY <1>1 DEF Older
<1> QED
  BY <1>3, <1>4 DEF Older, Answering

LEMMA OlderIssue ==
  ASSUME Typed, Older, NEW s \in Slots, InsertCode(s)
  PROVE  Older'
<1> DEFINE n == Len(codes) + 1
<1>1. /\ codes' \in Seq(Code) /\ Len(codes') = n
      /\ \A i \in 1..Len(codes) : codes'[i] = codes[i]
      /\ codes'[n].told = FALSE
  BY IssueShape
<1>2. PICK r \in CodeRequest : Puts(s, r) /\ r.pc = "mail"
  BY IssueShape
<1>3. /\ ~Answering(req'[s]) /\ \A t \in Slots \ {s} : req'[t] = req[t]
  BY <1>2, Moved DEF Answering
<1>4. /\ Len(codes) \in Nat /\ n \in Nat
      /\ \A c \in 1..n : c = n \/ c \in 1..Len(codes)
      /\ \A c \in 1..Len(codes), d \in 1..n : d < c => d \in 1..Len(codes)
      /\ DOMAIN codes' = 1..n /\ DOMAIN codes = 1..Len(codes)
  BY <1>1, Lengths, LenProperties
<1> HIDE DEF n
<1>5. \A d \in 1..Len(codes) : Open(d)' => Open(d)
  BY <1>1, <1>4 DEF Open
<1>6. \A c \in 1..n, d \in 1..n : codes'[c].told /\ d < c => ~Open(d)'
  <2> SUFFICES ASSUME NEW c \in 1..n, NEW d \in 1..n, codes'[c].told, d < c
               PROVE  ~Open(d)'
    OBVIOUS
  <2>1. c \in 1..Len(codes)
    BY <1>1, <1>4
  <2>2. d \in 1..Len(codes) /\ codes[c].told
    BY <1>1, <1>4, <2>1
  <2>3. ~Open(d)
    BY <1>4, <2>1, <2>2 DEF Older, OlderCodesDead
  <2> QED
    BY <1>5, <2>2, <2>3
<1>7. OlderCodesDead'
  <2>1. \A c \in 1..n, d \in 1..n : d \in Nat /\ c \in Nat
    BY <1>4
  <2>2. \A c, d \in DOMAIN codes' : codes'[c].told /\ d < c => ~Open(d)'
    BY <1>4, <1>6
  <2> QED
    BY <2>2 DEF OlderCodesDead
<1>8. \A t \in Slots : Answering(req'[t]) =>
        \A d \in 1..n : d < req'[t].code => ~Open(d)'
  <2> SUFFICES ASSUME NEW t \in Slots, Answering(req'[t]), NEW d \in 1..n,
                      d < req'[t].code
               PROVE  ~Open(d)'
    OBVIOUS
  <2>1. t # s /\ req'[t] = req[t]
    BY <1>3
  <2>2. req[t].code \in 1..Len(codes)
    BY <2>1, VerifyNames
  <2>3. d \in 1..Len(codes)
    BY <1>4, <2>1, <2>2
  <2>4. ~Open(d)
    BY <2>1, <2>3 DEF Older
  <2> QED
    BY <1>5, <2>3, <2>4
<1> QED
  BY <1>1, <1>7, <1>8 DEF Older, Answering

LEMMA OlderReplace ==
  ASSUME Typed, Older, NEW s \in Slots, ReplaceOthers(s)
  PROVE  Older'
<1>1. /\ req[s].code \in 1..Len(codes)
      /\ codes' \in Seq(Code) /\ Len(codes') = Len(codes)
      /\ \A i \in 1..Len(codes) :
           /\ codes'[i].told = codes[i].told
           /\ i = req[s].code => codes'[i].state = codes[i].state
           /\ i # req[s].code =>
                codes'[i].state = IF codes[i].state = "open" THEN "replaced"
                                  ELSE codes[i].state
  BY ReplaceShape
<1>2. PICK r \in CodeRequest : Puts(s, r) /\ r.code = req[s].code
  BY ReplaceShape
<1>3. req'[s] = r /\ \A t \in Slots \ {s} : req'[t] = req[t]
  BY <1>2, Moved
<1>4. \A c \in 1..Len(codes) : Open(c)' => Open(c) /\ c = req[s].code
  <2>1. Len(codes) <= Len(codes')
    BY <1>1, Lengths
  <2> QED
    BY <1>1, <2>1, OpenIs
<1>5. DOMAIN codes' = 1..Len(codes) /\ DOMAIN codes = 1..Len(codes)
  BY <1>1, Lengths, LenProperties
<1>6. OlderCodesDead'
  BY <1>1, <1>4, <1>5 DEF Older, OlderCodesDead
<1>7. \A t \in Slots : Answering(req'[t]) =>
        \A d \in 1..Len(codes) : d < req'[t].code => ~Open(d)'
  <2>1. \A d \in 1..Len(codes) : d < req[s].code => d # req[s].code
    BY <1>1, Lengths
  <2>2. \A d \in 1..Len(codes) : d < req'[s].code => ~Open(d)'
    BY <1>2, <1>3, <1>4, <2>1
  <2> QED
    BY <1>3, <1>4, <2>2 DEF Older
<1> QED
  BY <1>1, <1>6, <1>7 DEF Older, Answering

(* The page is told of a code whose issue has replaced the older ones. *)
LEMMA OlderReply ==
  ASSUME Typed, Older, NEW s \in Slots, ReplyCode(s)
  PROVE  Older'
<1>1. /\ req[s] \in CodeRequest /\ req[s].pc = "reply" /\ req[s].code \in 1..Len(codes)
      /\ Puts(s, Idle) /\ codes' \in Seq(Code) /\ Len(codes') = Len(codes)
      /\ \A i \in 1..Len(codes) :
           /\ codes'[i].state = codes[i].state
           /\ i # req[s].code => codes'[i].told = codes[i].told
  BY ReplyCodeShape
<1>2. req'[s] = Idle /\ \A t \in Slots \ {s} : req'[t] = req[t]
  BY <1>1, Moved
<1>3. Answering(req[s]) /\ ~Answering(Idle)
  BY <1>1, HeldFacts DEF Answering, CodeRequest
<1>4. \A c \in 1..Len(codes) : Open(c)' => Open(c)
  <2>1. Len(codes) <= Len(codes')
    BY <1>1, Lengths
  <2> QED
    BY <1>1, <2>1, OpenIs
<1>5. DOMAIN codes' = 1..Len(codes) /\ DOMAIN codes = 1..Len(codes)
  BY <1>1, Lengths, LenProperties
<1>6. \A c, d \in 1..Len(codes) : codes'[c].told /\ d < c => ~Open(d)'
  BY <1>1, <1>3, <1>4, <1>5 DEF Older, OlderCodesDead
<1>7. OlderCodesDead'
  BY <1>5, <1>6 DEF OlderCodesDead
<1>8. \A t \in Slots : Answering(req'[t]) =>
        \A d \in 1..Len(codes) : d < req'[t].code => ~Open(d)'
  BY <1>2, <1>3, <1>4 DEF Older
<1> QED
  BY <1>1, <1>7, <1>8 DEF Older, Answering

LEMMA OlderStep ==
  ASSUME Typed, Older, Quiet \/ \E s \in Slots : Noisy(s)
  PROVE  Older'
<1>1. CASE Quiet
  <2>1. \A t \in Slots : Answering(req'[t])
                           => Answering(req[t]) /\ req'[t].code = req[t].code
    BY <1>1 DEF Quiet, Calm, Answering
  <2> QED
    BY <1>1, <2>1, OlderCalm DEF Quiet, QuietCodes
<1>2. ASSUME NEW s \in Slots, NEW r, Puts(s, r), ~Answering(r),
             codes' \in Seq(Code), Len(codes') = Len(codes),
             \A i \in 1..Len(codes) : /\ codes'[i].state = "open" => codes[i].state = "open"
                                      /\ codes'[i].told => codes[i].told
      PROVE  Older'
  <2>1. \A t \in Slots : Answering(req'[t])
                           => Answering(req[t]) /\ req'[t].code = req[t].code
    BY <1>2, Moved
  <2> QED
    BY <1>2, <2>1, OlderCalm
<1>3. \A r \in {Idle} \cup VerifyRequest : ~Answering(r)
  BY HeldFacts DEF Answering, VerifyRequest
<1>4. ASSUME NEW s \in Slots, FindCode(s) \/ CreateSession(s)
      PROVE  Older'
  <2>1. codes' = codes /\ codes \in Seq(Code)
    BY <1>4, FindShape, CreateShape, HeldFacts DEF loginVars
  <2>2. \E r \in {Idle} \cup VerifyRequest : Puts(s, r)
    BY <1>4, FindShape, CreateShape
  <2> QED
    BY <1>2, <1>3, <2>1, <2>2
<1>5. ASSUME NEW s \in Slots, CountAttempt(s)
      PROVE  Older'
  <2>1. /\ Puts(s, Idle) /\ codes' \in Seq(Code) /\ Len(codes') = Len(codes)
        /\ \A i \in 1..Len(codes) : /\ codes'[i].state = "open" => codes[i].state = "open"
                                    /\ codes'[i].told => codes[i].told
    BY <1>5, CountShape
  <2> QED
    BY <1>2, <1>3, <2>1
<1>6. ASSUME NEW s \in Slots, ConsumeCode(s)
      PROVE  Older'
  <2>1. /\ req[s].code \in 1..Len(codes) /\ codes' \in Seq(Code) /\ Len(codes') = Len(codes)
        /\ \A i \in 1..Len(codes) : /\ codes'[i].told = codes[i].told
                                    /\ i # req[s].code => codes'[i].state = codes[i].state
        /\ codes'[req[s].code].state # "open"
    BY <1>6, ConsumeShape
  <2>2. \A i \in 1..Len(codes) : /\ codes'[i].state = "open" => codes[i].state = "open"
                                 /\ codes'[i].told => codes[i].told
    BY <2>1
  <2>3. \E r \in VerifyRequest : Puts(s, r)
    BY <1>6, ConsumeShape
  <2> QED
    BY <1>2, <1>3, <2>1, <2>2, <2>3
<1> QED
  BY <1>1, <1>4, <1>5, <1>6, OlderIssue, OlderReplace, OlderReply DEF Noisy

LEMMA NewestCalm ==
  ASSUME Typed, Newest, Len(codes') = Len(codes), crossed' = crossed,
         Len(codes) > 0 /\ ~crossed /\ codes'[Len(codes)].state = "replaced"
           => codes[Len(codes)].state = "replaced",
         \A t \in Slots : Sending(req'[t]) => Sending(req[t]) /\ req'[t].code = req[t].code
  PROVE  Newest'
BY DEF Newest, Sending

LEMMA NewestStep ==
  ASSUME Typed, Newest, Quiet \/ \E s \in Slots : Noisy(s)
  PROVE  Newest'
<1>0. Len(codes) \in Nat /\ (Len(codes) > 0 => Len(codes) \in 1..Len(codes))
  BY Lengths
<1>1. CASE Quiet
  <2>1. \A t \in Slots : Sending(req'[t]) => Sending(req[t]) /\ req'[t].code = req[t].code
    BY <1>1 DEF Quiet, Calm, Sending
  <2> QED
    BY <1>0, <1>1, <2>1, NewestCalm DEF Quiet, QuietCodes
<1>2. ASSUME NEW s \in Slots, NEW r, Puts(s, r), ~Sending(r),
             Len(codes') = Len(codes), crossed' = crossed,
             Len(codes) > 0 /\ ~crossed /\ codes'[Len(codes)].state = "replaced"
               => codes[Len(codes)].state = "replaced"
      PROVE  Newest'
  <2>1. \A t \in Slots : Sending(req'[t]) => Sending(req[t]) /\ req'[t].code = req[t].code
    BY <1>2, Moved
  <2> QED
    BY <1>2, <2>1, NewestCalm
<1>3. \A r \in {Idle} \cup VerifyRequest : ~Sending(r)
  BY HeldFacts DEF Sending, VerifyRequest
<1>4. ASSUME NEW s \in Slots, InsertCode(s)
      PROVE  Newest'
  <2>1. /\ Len(codes') = Len(codes) + 1 /\ codes'[Len(codes) + 1].state = "open"
        /\ crossed' = (crossed \/ \E t \in Slots : Sending(req[t]))
    BY <1>4, IssueShape DEF Sending
  <2>2. PICK r \in CodeRequest : Puts(s, r) /\ r.code = Len(codes) + 1
    BY <1>4, IssueShape
  <2>3. /\ req'[s].code = Len(codes')
        /\ \A t \in Slots \ {s} : req'[t] = req[t]
    BY <2>1, <2>2, Moved
  <2>4. ~crossed' => \A t \in Slots : Sending(req'[t]) => t = s
    BY <2>1, <2>3
  <2>5. codes'[Len(codes')].state = "open"
    BY <2>1
  <2> QED
    BY <2>3, <2>4, <2>5 DEF Newest, Sending
<1>5. ASSUME NEW s \in Slots, ReplaceOthers(s)
      PROVE  Newest'
  <2>1. /\ req[s] \in CodeRequest /\ req[s].pc = "replace"
        /\ Len(codes') = Len(codes) /\ crossed' = crossed
        /\ \A i \in 1..Len(codes) : i = req[s].code => codes'[i].state = codes[i].state
    BY <1>5, ReplaceShape
  <2>2. PICK r \in CodeRequest : Puts(s, r) /\ r.pc = "reply"
    BY <1>5, ReplaceShape
  <2>3. Sending(req[s]) /\ ~Sending(r)
    BY <2>1, <2>2 DEF Sending, CodeRequest
  <2>4. ~crossed => req[s].code = Len(codes)
    BY <2>3 DEF Newest
  <2>5. Len(codes) > 0 /\ ~crossed /\ codes'[Len(codes)].state = "replaced"
          => codes[Len(codes)].state = "replaced"
    BY <1>0, <2>1, <2>4
  <2> QED
    BY <1>2, <2>1, <2>2, <2>3, <2>5
<1>6. ASSUME NEW s \in Slots, FindCode(s) \/ CreateSession(s)
      PROVE  Newest'
  <2>1. codes' = codes /\ crossed' = crossed
    BY <1>6, FindShape, CreateShape DEF loginVars
  <2>2. \E r \in {Idle} \cup VerifyRequest : Puts(s, r)
    BY <1>6, FindShape, CreateShape
  <2> QED
    BY <1>2, <1>3, <2>1, <2>2
<1>7. ASSUME NEW s \in Slots, CountAttempt(s) \/ ReplyCode(s)
      PROVE  Newest'
  <2>1. /\ Puts(s, Idle) /\ Len(codes') = Len(codes) /\ crossed' = crossed
        /\ \A i \in 1..Len(codes) : codes'[i].state = codes[i].state
    BY <1>7, CountShape, ReplyCodeShape
  <2> QED
    BY <1>0, <1>2, <1>3, <2>1
<1>8. ASSUME NEW s \in Slots, ConsumeCode(s)
      PROVE  Newest'
  <2>1. /\ Len(codes') = Len(codes) /\ crossed' = crossed
        /\ \A i \in 1..Len(codes) : i # req[s].code => codes'[i].state = codes[i].state
        /\ codes'[req[s].code].state \in {"used", "deleted"}
    BY <1>8, ConsumeShape
  <2>2. \A i \in 1..Len(codes) : codes'[i].state = "replaced" => codes[i].state = "replaced"
    BY <2>1
  <2>3. \E r \in VerifyRequest : Puts(s, r)
    BY <1>8, ConsumeShape
  <2> QED
    BY <1>0, <1>2, <1>3, <2>1, <2>2, <2>3
<1> QED
  BY <1>1, <1>4, <1>5, <1>6, <1>7, <1>8 DEF Noisy

-----------------------------------------------------------------------------
CodesInv == Typed /\ AttemptsKept /\ OneUse /\ Older /\ Newest

LEMMA InitIdle ==
  ASSUME Init
  PROVE  \A s \in Slots : req[s] = Idle /\ req[s].kind = "idle"
BY InitShape, InitDesk, NoMarks

LEMMA InitCodes ==
  ASSUME Init
  PROVE  CodesInv
<1>1. Typed
  BY InitTyped
<1>2. /\ Len(codes) \in Nat /\ Len(codes) <= 1
      /\ Len(remoteSessions) \in Nat /\ Len(remoteSessions) <= 1
      /\ DOMAIN codes = 1..Len(codes) /\ DOMAIN remoteSessions = 1..Len(remoteSessions)
  BY <1>1, InitShape, Lengths
<1>3. /\ \A c \in 1..Len(codes) : c = 1 /\ Len(codes) = 1
      /\ \A i \in 1..Len(remoteSessions) : i = 1 /\ Len(remoteSessions) = 1
  BY <1>2
<1>4. \A s \in Slots : /\ ~Sending(req[s]) /\ ~Answering(req[s]) /\ ~Using(req[s])
                       /\ ~Used(req[s]) /\ \A c : ~Guessing(req[s], c)
  BY InitIdle DEF Sending, Answering, Using, Used, Guessing
<1>5. AttemptsKept
  <2> SUFFICES ASSUME NEW c \in 1..Len(codes)
               PROVE  codes[c].attempts + Cardinality(Counting(c))
                        <= MaxCodeAttempts + Cardinality(Slots) - 1
    BY DEF AttemptsKept
  <2>1. codes[c].attempts = 0
    BY <1>3, InitShape
  <2>2. Counting(c) = {}
    BY <1>4 DEF Counting
  <2>3. Cardinality(Counting(c)) = 0
    BY <2>2, FS_EmptySet
  <2> QED
    BY <2>1, <2>3, SlotsFinite, CodeAttemptsAssumption
<1>6. OneUse
  <2>1. \A i \in 1..Len(remoteSessions) : ~Open(remoteSessions[i].from)
    BY <1>3, InitShape DEF Open
  <2>2. OneSessionPerCode
    BY <1>2, <1>3 DEF OneSessionPerCode
  <2> QED
    BY <1>4, <2>1, <2>2 DEF OneUse
<1>7. Older
  <2>1. \A c, d \in DOMAIN codes : ~(d < c)
    BY <1>2, <1>3
  <2> QED
    BY <1>4, <2>1 DEF Older, OlderCodesDead
<1>8. Newest
  BY <1>2, <1>3, <1>4, InitShape DEF Newest
<1> QED
  BY <1>1, <1>5, <1>6, <1>7, <1>8 DEF CodesInv

LEMMA CodesStep ==
  ASSUME CodesInv, [Next]_vars
  PROVE  CodesInv'
<1>1. Typed' /\ (Quiet \/ \E s \in Slots : Noisy(s))
  BY TypedStep DEF CodesInv
<1> QED
  BY <1>1, AttemptsStep, UseStep, OlderStep, NewestStep DEF CodesInv

(* A code opens one session, unless two verifications had both found it open  *)
(* before either consumed it; and no code is guessed more often than the      *)
(* maximum and the guesses under way when it was reached.                     *)
THEOREM CodesBounded == Spec => []CodesAreBounded
<1>1. Init => CodesInv
  BY InitCodes
<1>2. CodesInv /\ [Next]_vars => CodesInv'
  BY CodesStep
<1>3. CodesInv => CodesAreBounded
  <2> SUFFICES ASSUME CodesInv
               PROVE  CodesAreBounded
    OBVIOUS
  <2>1. OneSessionPerCode /\ Typed /\ AttemptsKept
    BY DEF CodesInv, OneUse
  <2>2. ASSUME NEW c \in DOMAIN codes
        PROVE  codes[c].attempts <= MaxCodeAttempts + Cardinality(Slots) - 1
    <3>1. c \in 1..Len(codes) /\ codes[c] \in Code
      BY <2>1, Lengths
    <3>2. /\ codes[c].attempts \in Nat
          /\ codes[c].attempts + Cardinality(Counting(c))
               <= MaxCodeAttempts + Cardinality(Slots) - 1
      BY <2>1, <3>1 DEF Code, AttemptsKept
    <3> QED
      BY <3>2, SlotsFinite, CodeAttemptsAssumption
  <2> QED
    BY <2>1, <2>2 DEF CodesAreBounded, AttemptsBounded
<1> QED
  BY <1>1, <1>2, <1>3, PTL DEF Spec

(* Once a page has been told of a code, no older one is open; and the newest  *)
(* code is not replaced, unless two issues were between their INSERT and      *)
(* their last UPDATE at one time.                                             *)
THEOREM NewestCounts == Spec => []NewestCodeCounts
<1>1. Init => CodesInv
  BY InitCodes
<1>2. CodesInv /\ [Next]_vars => CodesInv'
  BY CodesStep
<1>3. CodesInv => NewestCodeCounts
  BY DEF CodesInv, Older, Newest, NewestCodeCounts, NewestCodeWorks
<1> QED
  BY <1>1, <1>2, <1>3, PTL DEF Spec

-----------------------------------------------------------------------------
(* What a step of a page or of its route does to the sessions and the views *)

(* A view starts with what is visible, learns the mode of the scope, and then *)
(* what that scope shows.                                                     *)
Sees(q, r) ==
  r.kind = "view" =>
    \/ r.may = Visible /\ r.shown = {} /\ r.pc = "active"
    \/ /\ q.kind = "view" /\ r.may = q.may /\ r.shown \subseteq q.shown
       /\ r.pc = "scope" => r.selected = user.selected
    \/ /\ q.kind = "view" /\ r.may = q.may /\ q.pc = "scope" /\ r.pc # "scope"
       /\ r.shown = IF q.selected THEN scope ELSE Devices

(* A logout goes on to its answer when the session has ended, and remembers *)
(* whether it was active.                                                   *)
SignsOff(r) ==
  r.kind = "logout" =>
    /\ r.pc = "reply" => ~Active(r.sid, remoteSessions')
    /\ r.pc = "user" /\ ~r.ok => ~Active(r.sid, remoteSessions')

Creating(r) == r.kind = "verify" /\ r.pc = "create"

Added(q) ==
  /\ Creating(q)
  /\ Len(remoteSessions') = Len(remoteSessions) + 1
  /\ \A i \in 1..Len(remoteSessions) : remoteSessions'[i] = remoteSessions[i]
  /\ remoteSessions'[Len(remoteSessions) + 1].late = q.late

Told(q) ==
  /\ q.kind = "logout" /\ left' = left \cup ({q.sid} \ {0}) /\ remoteSessions' = remoteSessions
  /\ q.pc = "reply" \/ (q.pc = "user" /\ ~(q.ok /\ Enabled))

UserEffect(s, r) ==
  /\ Puts(s, r) /\ req[s] \in {Idle} \cup UserRequest
  /\ UNCHANGED <<deskVars, overlapped>> /\ (faults' = faults \/ faults' # 0)
  /\ Sees(req[s], r) /\ SignsOff(r)
  /\ Creating(r) => Enabled
  /\ remoteSessions' \in Seq(Session)
  /\ Fewer(remoteSessions, remoteSessions') \/ Added(req[s])
  /\ left' = left \/ Told(req[s]) \/ faults' # 0

(* The desk, and most routes, leave all of that alone. *)
LEMMA EffectElsewhere ==
  ASSUME Typed, NEW s \in Slots, NEW r, Puts(s, r), req[s] \in {Idle} \cup UserRequest,
         r.kind \in {"idle", "login", "resend", "verify"}, Creating(r) => Enabled,
         UNCHANGED <<deskVars, overlapped, remoteSessions>>, faults' = faults \/ faults' # 0,
         left' = left \/ Told(req[s]) \/ faults' # 0
  PROVE  UserEffect(s, r)
BY HeldFacts, SameRows DEF UserEffect, Sees, SignsOff

LEMMA StartEffect ==
  ASSUME Typed, NEW s \in Slots, UserStarts(s)
  PROVE  \E r \in {Idle} \cup UserRequest : UserEffect(s, r)
<1>1. PICK r \in UserRequest :
        /\ UserBegin(s, r) /\ Puts(s, r)
        /\ r.kind = "verify" => r.pc = "find"
        /\ r.kind \in {"logout", "view"} => r.pc = "active"
        /\ r.kind = "view" => r.may = Visible /\ r.shown = {}
  BY StartShape
<1>2. /\ UNCHANGED <<deskVars, overlapped, remoteSessions, faults>> /\ left' = left
      /\ req[s] = Idle
  BY <1>1 DEF UserBegin, Begin, loginVars
<1>3. Sees(req[s], r) /\ SignsOff(r) /\ ~Creating(r)
  BY <1>1 DEF Sees, SignsOff, Creating
<1> QED
  BY <1>1, <1>2, <1>3, HeldFacts, SameRows DEF UserEffect

LEMMA CodeEffect ==
  ASSUME Typed, NEW s \in Slots,
         \/ LoginUser(s) \/ LoginHash(s) \/ ResendFind(s) \/ ResendUser(s)
         \/ MailCode(s) \/ MailFails(s) \/ InsertCode(s) \/ DeleteCode(s)
         \/ ReplaceOthers(s) \/ ReplyCode(s)
  PROVE  \E r \in {Idle} \cup UserRequest : UserEffect(s, r)
<1>0. \A r \in CodeRequest : /\ r \in UserRequest /\ r.kind \in {"login", "resend"}
                             /\ ~Creating(r)
  BY UserRequests DEF CodeRequest, Creating
<1>1. ~Creating(Idle) /\ Idle.kind = "idle"
  BY HeldFacts DEF Creating
<1>2. /\ req[s] \in CodeRequest /\ UNCHANGED UserKeeps /\ UNCHANGED <<remoteSessions, left>>
      /\ faults' = faults \/ faults' # 0
  <2>1. /\ req[s] \in CodeRequest /\ UNCHANGED UserKeeps /\ UNCHANGED <<remoteSessions, left>>
        /\ faults' = faults \/ faults' = faults + 1
    BY CodeShape, IssueShape, DeleteShape, ReplaceShape, ReplyCodeShape
  <2>2. faults \in Nat
    BY HeldFacts
  <2> QED
    BY <2>1, <2>2
<1>3. \E r \in {Idle} \cup CodeRequest : Puts(s, r)
  BY CodeShape, IssueShape, DeleteShape, ReplaceShape, ReplyCodeShape
<1> QED
  BY <1>0, <1>1, <1>2, <1>3, EffectElsewhere DEF UserKeeps

LEMMA VerifyEffect ==
  ASSUME Typed, NEW s \in Slots,
         \/ FindCode(s) \/ CountAttempt(s) \/ ConsumeCode(s) \/ VerifyUser(s)
  PROVE  \E r \in {Idle} \cup UserRequest : UserEffect(s, r)
<1>0. \A r \in VerifyRequest : r \in UserRequest /\ r.kind = "verify"
  BY UserRequests DEF VerifyRequest
<1>1. ~Creating(Idle) /\ Idle.kind = "idle"
  BY HeldFacts DEF Creating
<1>2. /\ req[s] \in VerifyRequest /\ UNCHANGED UserKeeps /\ UNCHANGED <<remoteSessions, left>>
      /\ faults' = faults
  BY FindShape, CountShape, ConsumeShape, VerifyUserShape DEF loginVars
<1>3. \E r \in {Idle} \cup VerifyRequest : Puts(s, r) /\ (Creating(r) => Enabled)
  <2>1. CASE FindCode(s)
    BY <1>1, <2>1, FindShape DEF Creating
  <2>2. CASE CountAttempt(s)
    BY <1>1, <2>2, CountShape
  <2>3. CASE ConsumeCode(s)
    BY <1>1, <2>3, ConsumeShape DEF Creating
  <2>4. CASE VerifyUser(s)
    BY <1>1, <2>4, VerifyUserShape
  <2> QED
    BY <2>1, <2>2, <2>3, <2>4
<1> QED
  BY <1>0, <1>1, <1>2, <1>3, EffectElsewhere DEF UserKeeps

LEMMA CreateEffect ==
  ASSUME Typed, NEW s \in Slots, CreateSession(s)
  PROVE  \E r \in {Idle} \cup UserRequest : UserEffect(s, r)
<1>1. /\ req[s] \in VerifyRequest /\ req[s].pc = "create"
      /\ UNCHANGED <<UserKeeps, faults>> /\ left' = left
      /\ remoteSessions' \in Seq(Session) /\ Len(remoteSessions') = Len(remoteSessions) + 1
      /\ \A i \in 1..Len(remoteSessions) : remoteSessions'[i] = remoteSessions[i]
      /\ remoteSessions'[Len(remoteSessions) + 1].late = req[s].late
  BY CreateShape DEF loginVars
<1>2. PICK r \in VerifyRequest : Puts(s, r) /\ r.pc = "reply"
  BY CreateShape
<1>3. r.kind = "verify" /\ r \in UserRequest /\ req[s] \in UserRequest
  BY <1>1, UserRequests DEF VerifyRequest
<1>4. Added(req[s])
  BY <1>1 DEF Added, Creating, VerifyRequest
<1>5. Sees(req[s], r) /\ SignsOff(r) /\ ~Creating(r)
  BY <1>2, <1>3 DEF Sees, SignsOff, Creating
<1> QED
  BY <1>1, <1>2, <1>3, <1>4, <1>5 DEF UserEffect, UserKeeps

LEMMA RouteEffect ==
  ASSUME Typed, NEW s \in Slots,
         \/ CheckActive(s) \/ RouteUser(s) \/ RevokeSession(s) \/ ReadScope(s)
         \/ QueryDevices(s) \/ ReplyVerified(s) \/ ReplyLogout(s) \/ ReplyView(s)
         \/ UserFails(s)
  PROVE  \E r \in {Idle} \cup UserRequest : UserEffect(s, r)
<1>0. /\ \A r \in LogoutRequest : r \in UserRequest /\ r.kind = "logout"
      /\ \A r \in ViewRequest : r \in UserRequest /\ r.kind = "view"
      /\ \A r \in VerifyRequest : r \in UserRequest
      /\ RouteRequest = LogoutRequest \cup ViewRequest
  BY UserRequests DEF LogoutRequest, ViewRequest, VerifyRequest, RouteRequest
<1>1. ASSUME NEW r \in {Idle} \cup RouteRequest, Puts(s, r), req[s] \in UserRequest,
             UNCHANGED UserKeeps, faults' = faults \/ faults' # 0,
             Sees(req[s], r), SignsOff(r), remoteSessions' \in Seq(Session),
             Fewer(remoteSessions, remoteSessions'),
             left' = left \/ Told(req[s]) \/ faults' # 0
      PROVE  \E q \in {Idle} \cup UserRequest : UserEffect(s, q)
  <2>1. r \in {Idle} \cup UserRequest /\ ~Creating(r)
    BY <1>0, HeldFacts DEF Creating
  <2> QED
    BY <1>1, <2>1 DEF UserEffect, UserKeeps
<1>2. UNCHANGED remoteSessions => /\ remoteSessions' \in Seq(Session)
                                  /\ Fewer(remoteSessions, remoteSessions')
  BY HeldFacts, SameRows
<1>3. \A q : Sees(q, Idle) /\ SignsOff(Idle)
  BY HeldFacts DEF Sees, SignsOff
<1>4. CASE CheckActive(s)
  <2>1. /\ req[s] \in RouteRequest /\ UNCHANGED <<UserKeeps, faults>>
        /\ remoteSessions' = remoteSessions /\ left' = left
    BY <1>4, CheckShape DEF loginVars
  <2>2. PICK r \in RouteRequest :
          /\ Puts(s, r) /\ r.kind = req[s].kind /\ r.pc = "user" /\ r.sid = req[s].sid
          /\ r.ok = Active(req[s].sid, remoteSessions)
          /\ r.kind = "view" => r.may = req[s].may /\ r.shown = req[s].shown
    BY <1>4, CheckShape
  <2>3. Sees(req[s], r)
    BY <2>2 DEF Sees
  <2>4. SignsOff(r)
    BY <2>1, <2>2 DEF SignsOff
  <2> QED
    BY <1>0, <1>1, <1>2, <2>1, <2>2, <2>3, <2>4
<1>5. CASE RouteUser(s)
  <2>1. /\ req[s] \in RouteRequest /\ req[s].pc = "user" /\ UNCHANGED <<UserKeeps, faults>>
        /\ remoteSessions' = remoteSessions
    BY <1>5, RouteShape
  <2>2. CASE Puts(s, Idle)
    <3>1. left' = left \/ Told(req[s])
      <4>1. \/ left' = left
            \/ /\ req[s].kind = "logout" /\ ~(req[s].ok /\ Enabled)
               /\ left' = left \cup ({req[s].sid} \ {0})
        BY <1>5, RouteShape
      <4> QED
        BY <2>1, <4>1 DEF Told
    <3> QED
      BY <1>0, <1>1, <1>2, <1>3, <2>1, <2>2, <3>1
  <2>3. ASSUME left' = left, NEW r \in RouteRequest, Puts(s, r), r.kind = req[s].kind,
               r.kind = "logout" => r.pc = "revoke",
               r.kind = "view" => /\ r.pc = "scope" /\ r.may = req[s].may
                                  /\ r.shown = req[s].shown /\ r.selected = user.selected
        PROVE  \E q \in {Idle} \cup UserRequest : UserEffect(s, q)
    <3>1. Sees(req[s], r) /\ SignsOff(r)
      BY <2>3 DEF Sees, SignsOff
    <3> QED
      BY <1>0, <1>1, <1>2, <2>1, <2>3, <3>1
  <2>4. \/ Puts(s, Idle)
        \/ /\ left' = left
           /\ \E r \in RouteRequest :
                /\ Puts(s, r) /\ r.kind = req[s].kind
                /\ r.kind = "logout" => r.pc = "revoke"
                /\ r.kind = "view" => /\ r.pc = "scope" /\ r.may = req[s].may
                                      /\ r.shown = req[s].shown /\ r.selected = user.selected
    BY <1>5, RouteShape
  <2> QED
    BY <2>2, <2>3, <2>4
<1>6. CASE RevokeSession(s)
  <2>1. /\ req[s] \in LogoutRequest /\ UNCHANGED <<UserKeeps, faults>> /\ left' = left
        /\ remoteSessions' \in Seq(Session) /\ Fewer(remoteSessions, remoteSessions')
        /\ ~Active(req[s].sid, remoteSessions')
    BY <1>6, SignOffShape DEF loginVars
  <2>2. PICK r \in LogoutRequest : Puts(s, r) /\ r.pc = "reply" /\ r.sid = req[s].sid
    BY <1>6, SignOffShape
  <2>3. Sees(req[s], r) /\ SignsOff(r)
    BY <1>0, <2>1, <2>2 DEF Sees, SignsOff
  <2> QED
    BY <1>0, <1>1, <2>1, <2>2, <2>3
<1>7. CASE ReadScope(s)
  <2>1. /\ req[s] \in ViewRequest /\ req[s].pc = "scope" /\ UNCHANGED <<UserKeeps, faults>>
        /\ remoteSessions' = remoteSessions /\ left' = left
    BY <1>7, ReadShape DEF loginVars
  <2>2. PICK r \in ViewRequest :
          /\ Puts(s, r) /\ r.pc = "query" /\ r.may = req[s].may
          /\ r.shown = IF req[s].selected THEN scope ELSE Devices
    BY <1>7, ReadShape
  <2>3. Sees(req[s], r) /\ SignsOff(r)
    BY <1>0, <2>1, <2>2 DEF Sees, SignsOff
  <2> QED
    BY <1>0, <1>1, <1>2, <2>1, <2>2, <2>3
<1>8. CASE QueryDevices(s)
  <2>1. /\ req[s] \in ViewRequest /\ UNCHANGED <<UserKeeps, faults>>
        /\ remoteSessions' = remoteSessions /\ left' = left
    BY <1>8, QueryShape DEF loginVars
  <2>2. PICK r \in ViewRequest :
          /\ Puts(s, r) /\ r.pc = "reply" /\ r.may = req[s].may
          /\ r.shown \subseteq req[s].shown
    BY <1>8, QueryShape
  <2>3. Sees(req[s], r) /\ SignsOff(r)
    BY <1>0, <2>1, <2>2 DEF Sees, SignsOff
  <2> QED
    BY <1>0, <1>1, <1>2, <2>1, <2>2, <2>3
<1>9. CASE ReplyVerified(s)
  <2>1. /\ req[s] \in VerifyRequest /\ UNCHANGED <<UserKeeps, faults>>
        /\ remoteSessions' = remoteSessions /\ left' = left
    BY <1>9, ReplyVerifiedShape
  <2>2. PICK r \in ViewRequest :
          /\ Puts(s, r) /\ r.pc = "active" /\ r.may = Visible /\ r.shown = {}
    BY <1>9, ReplyVerifiedShape
  <2>3. Sees(req[s], r) /\ SignsOff(r)
    BY <1>0, <2>1, <2>2 DEF Sees, SignsOff
  <2> QED
    BY <1>0, <1>1, <1>2, <2>1, <2>2, <2>3
<1>10. CASE ReplyLogout(s)
  <2>1. /\ req[s] \in LogoutRequest /\ req[s].pc = "reply" /\ UNCHANGED <<UserKeeps, faults>>
        /\ remoteSessions' = remoteSessions /\ Puts(s, Idle)
        /\ left' = left \cup ({req[s].sid} \ {0})
    BY <1>10, ReplyLogoutShape
  <2>2. Told(req[s])
    BY <1>0, <2>1 DEF Told
  <2> QED
    BY <1>0, <1>1, <1>2, <1>3, <2>1, <2>2
<1>11. CASE ReplyView(s)
  <2>1. /\ req[s] \in ViewRequest /\ UNCHANGED <<UserKeeps, faults>>
        /\ remoteSessions' = remoteSessions /\ left' = left /\ Puts(s, Idle)
    BY <1>11, ReplyViewShape
  <2> QED
    BY <1>0, <1>1, <1>2, <1>3, <2>1
<1>12. CASE UserFails(s)
  <2>1. /\ req[s] \in UserRequest /\ UNCHANGED UserKeeps /\ faults' # 0
        /\ remoteSessions' = remoteSessions /\ Puts(s, Idle)
    BY <1>12, UserFailsShape
  <2> QED
    BY <1>1, <1>2, <1>3, <2>1
<1> QED
  BY <1>4, <1>5, <1>6, <1>7, <1>8, <1>9, <1>10, <1>11, <1>12

LEMMA UserEffects ==
  ASSUME Typed, NEW s \in Slots, UserStarts(s) \/ UserStep(s) \/ UserFails(s)
  PROVE  \E r \in {Idle} \cup UserRequest : UserEffect(s, r)
BY StartEffect, CodeEffect, VerifyEffect, CreateEffect, RouteEffect DEF UserStep

(* Time goes by, or the server restarts. *)
ClockEffect ==
  /\ UNCHANGED <<deskVars, overlapped>> /\ left' = left
  /\ remoteSessions' \in Seq(Session) /\ Fewer(remoteSessions, remoteSessions')
  /\ \/ req' = req /\ faults' = faults
     \/ (\A t \in Slots : req'[t] = Idle) /\ faults' # 0

LEMMA ClockEffects ==
  ASSUME Typed,
         \/ \E c \in 1..MaxCodes : CoolsDown(c) \/ CodeExpires(c) \/ SessionExpires(c)
         \/ WindowPasses \/ Restart \/ UNCHANGED vars
  PROVE  ClockEffect
<1>0. /\ remoteSessions \in Seq(Session) /\ Fewer(remoteSessions, remoteSessions)
      /\ faults \in Nat
  BY HeldFacts, SameRows
<1>1. ASSUME NEW c, CoolsDown(c) \/ CodeExpires(c)
      PROVE  ClockEffect
  <2>1. UNCHANGED <<userVars, left>>
    BY <1>1 DEF CoolsDown, CodeExpires
  <2> QED
    BY <1>0, <2>1 DEF ClockEffect, userVars, bookVars
<1>2. ASSUME NEW i, SessionExpires(i)
      PROVE  ClockEffect
  <2>1. /\ i \in 1..Len(remoteSessions)
        /\ remoteSessions' = [remoteSessions EXCEPT ![i].state = "expired"]
        /\ UNCHANGED <<deskVars, req, bookVars, left>>
    BY <1>2, Lengths DEF SessionExpires, Active
  <2>2. remoteSessions' \in Seq(Session) /\ Fewer(remoteSessions, remoteSessions')
    BY <1>0, <2>1, OneEnded
  <2> QED
    BY <2>1, <2>2 DEF ClockEffect, bookVars
<1>3. CASE WindowPasses \/ UNCHANGED vars
  <2>1. UNCHANGED <<userVars, left>>
    BY <1>3 DEF WindowPasses, vars, loginVars
  <2> QED
    BY <1>0, <2>1 DEF ClockEffect, userVars, bookVars
<1>4. CASE Restart
  <2>1. /\ faults' = faults + 1 /\ req' = [t \in Slots |-> Idle]
        /\ UNCHANGED <<deskVars, remoteSessions, overlapped, left>>
    BY <1>4 DEF Restart
  <2> QED
    BY <1>0, <2>1 DEF ClockEffect
<1> QED
  BY <1>1, <1>2, <1>3, <1>4

-----------------------------------------------------------------------------
(* The scope, and what the pages show of it *)

(* A view may show what the account can see now; while it reads the scope, it *)
(* may show every device if that is what it has read the mode to be.          *)
Viewed ==
  \A s \in Slots : req[s].kind = "view" =>
    /\ Visible \subseteq req[s].may
    /\ req[s].pc = "scope" /\ ~req[s].selected => Devices \subseteq req[s].may
    /\ req[s].shown \subseteq req[s].may

LEMMA UserViewed ==
  ASSUME Typed, Viewed, NEW s \in Slots, NEW r \in {Idle} \cup UserRequest, UserEffect(s, r)
  PROVE  Viewed'
<1>1. /\ req'[s] = r /\ (\A t \in Slots \ {s} : req'[t] = req[t])
      /\ UNCHANGED <<user, scope>> /\ Sees(req[s], r)
  BY Moved DEF UserEffect, deskVars
<1>2. Visible' = Visible /\ Visible \subseteq Devices /\ scope \subseteq Devices
      /\ (user.selected => Visible = scope) /\ (~user.selected => Visible = Devices)
  BY <1>1, VisibleDevices DEF Visible, Typed, DeskOK, UsersTypeOK
<1>3. r.kind = "view" => /\ Visible \subseteq r.may
                         /\ r.pc = "scope" /\ ~r.selected => Devices \subseteq r.may
                         /\ r.shown \subseteq r.may
  <2> SUFFICES ASSUME r.kind = "view"
               PROVE  /\ Visible \subseteq r.may
                      /\ r.pc = "scope" /\ ~r.selected => Devices \subseteq r.may
                      /\ r.shown \subseteq r.may
    OBVIOUS
  <2>1. CASE r.may = Visible /\ r.shown = {} /\ r.pc = "active"
    BY <2>1
  <2>2. CASE /\ req[s].kind = "view" /\ r.may = req[s].may /\ r.shown \subseteq req[s].shown
             /\ r.pc = "scope" => r.selected = user.selected
    <3>1. Visible \subseteq r.may /\ r.shown \subseteq r.may
      BY <2>2 DEF Viewed
    <3> QED
      BY <1>2, <2>2, <3>1
  <2>3. CASE /\ req[s].kind = "view" /\ r.may = req[s].may /\ req[s].pc = "scope"
             /\ r.pc # "scope" /\ r.shown = IF req[s].selected THEN scope ELSE Devices
    <3>1. /\ Visible \subseteq r.may
          /\ ~req[s].selected => Devices \subseteq r.may
      BY <2>3 DEF Viewed
    <3> QED
      BY <1>2, <2>3, <3>1
  <2> QED
    BY <1>1, <2>1, <2>2, <2>3 DEF Sees
<1> QED
  BY <1>1, <1>2, <1>3 DEF Viewed

LEMMA DeskViewed ==
  ASSUME Typed, Viewed, NEW s \in Slots, DeskStarts(s) \/ DeskStep(s) \/ DeskFails(s)
  PROVE  Viewed'
<1>1. PICK r \in {Idle} \cup DeskRequest :
        Becomes(s, r) /\ (PutsWidened(s, r) \/ Visible' \subseteq Visible)
  BY DeskEffect DEF Typed
<1>2. /\ req'[s] = r /\ \A t \in Slots \ {s} : Stays(t)
      /\ PutsWidened(s, r) =>
           \A t \in Slots : req'[t].kind = "view" => Visible' \subseteq req'[t].may
  BY <1>1, DeskOthers
<1>3. DeskOK'
  BY DeskKept DEF Typed
<1>4. Visible' \subseteq Devices
  BY <1>3, VisibleDevices DEF DeskOK, Visible, UsersTypeOK
<1>5. r.kind # "view"
  BY NoMarks DEF DeskKinds
<1>6. ASSUME NEW t \in Slots, req'[t].kind = "view"
      PROVE  /\ Visible' \subseteq req'[t].may
             /\ req'[t].pc = "scope" /\ ~req'[t].selected => Devices \subseteq req'[t].may
             /\ req'[t].shown \subseteq req'[t].may
  <2>1. t \in Slots \ {s} /\ Stays(t)
    BY <1>2, <1>5, <1>6
  <2>2. /\ req[t].kind = "view" /\ req'[t].selected = req[t].selected
        /\ req'[t].shown = req[t].shown /\ req[t].may \subseteq req'[t].may
        /\ req'[t].pc = req[t].pc
    <3>1. req'[t].kind = req[t].kind
      BY <1>4, <2>1, StaysSame
    <3>2. req[t].kind = "view" /\ req[t] # Idle
      BY <1>6, <3>1, NoMarks
    <3> QED
      BY <1>4, <2>1, <3>2, StaysSame
  <2>3. /\ Visible \subseteq req[t].may /\ req[t].shown \subseteq req[t].may
        /\ req[t].pc = "scope" /\ ~req[t].selected => Devices \subseteq req[t].may
    BY <2>2 DEF Viewed
  <2>4. Visible' \subseteq req'[t].may
    BY <1>1, <1>2, <1>6, <2>2, <2>3
  <2> QED
    BY <2>2, <2>3, <2>4
<1> QED
  BY <1>6 DEF Viewed

LEMMA ClockViewed ==
  ASSUME Viewed, ClockEffect
  PROVE  Viewed'
<1>1. Visible' = Visible
  BY DEF ClockEffect, deskVars, Visible
<1>2. \A t \in Slots : req'[t].kind = "view" => req'[t] = req[t]
  BY NoMarks DEF ClockEffect
<1> QED
  BY <1>1, <1>2 DEF Viewed

LEMMA UserScope ==
  ASSUME Typed, ScopeKept, NEW s \in Slots, NEW r \in {Idle} \cup UserRequest,
         UserEffect(s, r)
  PROVE  ScopeKept'
<1>1. /\ req'[s] = r /\ (\A t \in Slots \ {s} : req'[t] = req[t])
      /\ UNCHANGED <<scope, wanted, overlapped>> /\ req[s] \in {Idle} \cup UserRequest
      /\ faults' # 0 \/ faults' = faults
  BY Moved DEF UserEffect, deskVars
<1>2. \A q \in {Idle} \cup UserRequest : q.kind \notin DeskKinds
  BY NoMarks, UserMarks DEF DeskKinds
<1> QED
  BY <1>1, <1>2, OthersKeepScope

LEMMA ClockScope ==
  ASSUME ScopeKept, ClockEffect
  PROVE  ScopeKept'
BY OthersKeepScope DEF ClockEffect, deskVars

ScopeInv == Typed /\ ScopeKept /\ Viewed

LEMMA ScopeStep ==
  ASSUME ScopeInv, [Next]_vars
  PROVE  ScopeInv'
<1>1. Typed' /\ Typed /\ ScopeKept /\ Viewed
  BY TypedStep DEF ScopeInv
<1>2. ASSUME NEW s \in Slots, DeskStarts(s) \/ DeskStep(s) \/ DeskFails(s)
      PROVE  ScopeKept' /\ Viewed'
  BY <1>1, <1>2, DeskScope, DeskViewed DEF Typed
<1>3. ASSUME NEW s \in Slots, UserStarts(s) \/ UserStep(s) \/ UserFails(s)
      PROVE  ScopeKept' /\ Viewed'
  BY <1>1, <1>3, UserEffects, UserScope, UserViewed
<1>4. ASSUME \/ \E c \in 1..MaxCodes : CoolsDown(c) \/ CodeExpires(c) \/ SessionExpires(c)
             \/ WindowPasses \/ Restart \/ UNCHANGED vars
      PROVE  ScopeKept' /\ Viewed'
  BY <1>1, <1>4, ClockEffects, ClockScope, ClockViewed
<1> QED
  BY <1>1, <1>2, <1>3, <1>4 DEF Next, ScopeInv

LEMMA InitScope ==
  ASSUME Init
  PROVE  ScopeInv
<1>1. ScopeKept
  BY InitShape, InitDesk
<1>2. Viewed
  BY InitIdle DEF Viewed
<1> QED
  BY <1>1, <1>2, InitTyped DEF ScopeInv

(* Once no change of the account is under way, the scope is the one asked for *)
(* last, if none of them failed and no two overlapped; and a page shows no    *)
(* device that the account could not see at some time since the page asked.   *)
THEOREM ScopesHold == Spec => []ScopeHolds
<1>1. Init => ScopeInv
  BY InitScope
<1>2. ScopeInv /\ [Next]_vars => ScopeInv'
  BY ScopeStep
<1>3. ScopeInv => ScopeHolds
  BY ScopeKeptAsked DEF ScopeInv, Viewed, ScopeHolds, ShownWasVisible
<1> QED
  BY <1>1, <1>2, <1>3, PTL DEF Spec

-----------------------------------------------------------------------------
(* Sessions end *)

(* A change that may have disabled the account, and has not revoked the *)
(* sessions; and one that is certain to revoke them.                    *)
Patching(r) ==
  r.kind = "patch" /\ r.pc \in {"clear", "insert", "reread", "revokeAdmin", "revokeRemote"}
Revoking(r) == r.kind = "patch" /\ r.pc \in {"revokeAdmin", "revokeRemote"}
WillRevoke(r) == Revoking(r) \/ (Patching(r) /\ ~Enabled)

(* The sessions that are active, or will be, were overtaken by a revocation. *)
AllLate ==
  /\ \A i \in 1..Len(remoteSessions) :
       remoteSessions[i].state = "active" => remoteSessions[i].late
  /\ \A s \in Slots : Creating(req[s]) => req[s].late

Disabled == faults = 0 /\ ~Enabled => AllLate \/ \E s \in Slots : Patching(req[s])

(* A page that says a session is over is right, or a change is about to make *)
(* it right; and the logouts under way know no more than is so.              *)
Signed ==
  faults = 0 /\ ~overlapped =>
    /\ \A i \in left : remoteSessions[i].state = "active"
         => remoteSessions[i].late \/ \E s \in Slots : WillRevoke(req[s])
    /\ \A s \in Slots : req[s].kind = "logout" /\ req[s].pc = "reply"
                          => ~Active(req[s].sid, remoteSessions)
    /\ \A s \in Slots : req[s].kind = "logout" /\ req[s].pc = "user" /\ ~req[s].ok
                          => ~Active(req[s].sid, remoteSessions)

(* What a step of the desk may do to that: nothing; begin to patch; patch on; *)
(* find the account enabled; or revoke.                                       *)
SameStatus == user'.active = user.active /\ user'.remote = user.remote

DeskChange(s, r) ==
  \/ user = NoUser
  \/ req[s].kind = "patch" /\ req[s].pc = "update" /\ Patching(r)
  \/ /\ SameStatus
     /\ Patching(req[s]) => Patching(r)
     /\ Revoking(req[s]) => Revoking(r)
  \/ PutsOvertaken(s, r) /\ remoteSessions' = AllRevoked(remoteSessions)
  \/ user' = user /\ Enabled /\ ~Revoking(req[s])

LEMMA DeskChanges ==
  ASSUME DeskOK, NEW s \in Slots, DeskStarts(s) \/ DeskStep(s) \/ DeskFails(s)
  PROVE  /\ overlapped => overlapped'
         /\ \E r \in {Idle} \cup DeskRequest :
              Becomes(s, r) /\ (faults' # 0 \/ (faults' = faults /\ DeskChange(s, r)))
<1>1. CASE DeskStarts(s)
  <2>1. PICK r \in DeskRequest : DeskBegin(s, r) /\ Puts(s, r)
    BY <1>1, BeginShape
  <2>2. /\ user' = user /\ faults' = faults /\ (overlapped => overlapped') /\ req[s] = Idle
    BY <2>1 DEF DeskBegin, Begin, deskVars
  <2>3. DeskChange(s, r)
    BY <2>2, NoMarks DEF DeskChange, SameStatus, Patching, Revoking
  <2> QED
    BY <2>1, <2>2, <2>3 DEF Becomes
<1>2. CASE InsertUser(s)
  <2>1. /\ req[s].kind = "create" /\ overlapped' = overlapped /\ faults' = faults
        /\ \E r \in {Idle} \cup DeskRequest : Puts(s, r)
        /\ user' = user \/ user = NoUser
    BY <1>2, InsertShape DEF bookVars
  <2>2. \A r : DeskChange(s, r)
    BY <2>1 DEF DeskChange, SameStatus, Patching, Revoking
  <2> QED
    BY <2>1, <2>2 DEF Becomes
<1>3. CASE Merge(s)
  <2>1. /\ req[s].kind = "patch" /\ req[s].pc = "merge" /\ overlapped' = overlapped
        /\ faults' = faults /\ user' = user /\ \E r \in DeskRequest : Puts(s, r)
    BY <1>3, MergeShape DEF bookVars, deskVars
  <2>2. \A r : DeskChange(s, r)
    BY <2>1 DEF DeskChange, SameStatus, Patching, Revoking
  <2> QED
    BY <2>1, <2>2 DEF Becomes
<1>4. CASE Update(s)
  <2>1. /\ req[s].kind = "patch" /\ req[s].pc = "update" /\ overlapped' = overlapped
        /\ faults' = faults
    BY <1>4, UpdateShape DEF bookVars
  <2>2. PICK r \in DeskRequest :
          PutsWidened(s, r) /\ r.kind = "patch" /\ r.pc \in {"clear", "reread"}
    BY <1>4, UpdateShape
  <2>3. DeskChange(s, r)
    BY <2>1, <2>2 DEF DeskChange, Patching
  <2> QED
    BY <2>1, <2>2, <2>3 DEF Becomes
<1>5. CASE Clear(s) \/ \E d \in Devices : InsertScope(s, d)
  <2>1. /\ req[s].kind \in {"create", "patch"} /\ req[s].pc \in {"clear", "insert"}
        /\ user' = user /\ overlapped' = overlapped /\ faults' = faults
    BY <1>5, ScopeShape DEF bookVars
  <2>2. \/ PutsWidened(s, Idle) /\ req[s].kind = "create"
        \/ \E r \in DeskRequest : /\ PutsWidened(s, r) /\ r.kind = req[s].kind
                                  /\ r.pc \in {"insert", "reread"}
    BY <1>5, ScopeShape
  <2>3. ASSUME PutsWidened(s, Idle), req[s].kind = "create"
        PROVE  Becomes(s, Idle) /\ DeskChange(s, Idle)
    BY <2>1, <2>3 DEF DeskChange, SameStatus, Patching, Revoking, Becomes
  <2>4. ASSUME NEW r \in DeskRequest, PutsWidened(s, r), r.kind = req[s].kind,
               r.pc \in {"insert", "reread"}
        PROVE  Becomes(s, r) /\ DeskChange(s, r)
    BY <2>1, <2>4 DEF DeskChange, SameStatus, Patching, Revoking, Becomes
  <2> QED
    BY <2>1, <2>2, <2>3, <2>4
<1>6. CASE Reread(s)
  <2>1. /\ req[s].kind = "patch" /\ req[s].pc = "reread" /\ overlapped' = overlapped
        /\ faults' = faults /\ user' = user
    BY <1>6, RereadShape DEF bookVars, deskVars
  <2>2. \/ Puts(s, Idle) /\ Enabled
        \/ \E r \in DeskRequest : Puts(s, r) /\ r.kind = "patch" /\ r.pc = "revokeAdmin"
    BY <1>6, RereadShape DEF Enabled
  <2>3. ASSUME Puts(s, Idle), Enabled
        PROVE  Becomes(s, Idle) /\ DeskChange(s, Idle)
    BY <2>1, <2>3 DEF DeskChange, Revoking, Becomes
  <2>4. ASSUME NEW r \in DeskRequest, Puts(s, r), r.kind = "patch", r.pc = "revokeAdmin"
        PROVE  Becomes(s, r) /\ DeskChange(s, r)
    BY <2>1, <2>4 DEF DeskChange, SameStatus, Patching, Revoking, Becomes
  <2> QED
    BY <2>1, <2>2, <2>3, <2>4
<1>7. CASE SetPassword(s)
  <2>1. /\ req[s].kind = "reset" /\ overlapped' = overlapped /\ faults' = faults
        /\ user' = [user EXCEPT !.pw = @ + 1] /\ \E r \in DeskRequest : Puts(s, r)
    BY <1>7, PasswordShape DEF bookVars
  <2>2. user \in Row
    BY DEF DeskOK, UsersTypeOK
  <2>3. SameStatus
    BY <2>1, <2>2 DEF SameStatus, Row
  <2>4. \A r : DeskChange(s, r)
    BY <2>1, <2>3 DEF DeskChange, Patching, Revoking
  <2> QED
    BY <2>1, <2>4 DEF Becomes
<1>8. CASE RevokeAdmin(s) \/ RevokeRemote(s)
  <2>1. /\ user' = user /\ overlapped' = overlapped /\ faults' = faults
        /\ \/ PutsOvertaken(s, Idle) /\ remoteSessions' = AllRevoked(remoteSessions)
           \/ /\ req[s].pc = "revokeAdmin"
              /\ \E r \in DeskRequest :
                   PutsOvertaken(s, r) /\ r.kind = req[s].kind /\ r.pc = "revokeRemote"
    BY <1>8, RevokeShape DEF bookVars, deskVars
  <2>2. ASSUME PutsOvertaken(s, Idle), remoteSessions' = AllRevoked(remoteSessions)
        PROVE  Becomes(s, Idle) /\ DeskChange(s, Idle)
    BY <2>2 DEF DeskChange, Becomes
  <2>3. ASSUME req[s].pc = "revokeAdmin", NEW r \in DeskRequest, PutsOvertaken(s, r),
               r.kind = req[s].kind, r.pc = "revokeRemote"
        PROVE  Becomes(s, r) /\ DeskChange(s, r)
    BY <2>1, <2>3 DEF DeskChange, SameStatus, Patching, Revoking, Becomes
  <2> QED
    BY <2>1, <2>2, <2>3
<1>9. CASE DeskFails(s)
  BY <1>9, FailsShape DEF Becomes
<1> QED
  BY <1>1, <1>2, <1>3, <1>4, <1>5, <1>6, <1>7, <1>8, <1>9 DEF DeskStep

(* What was there is as late as it was, and no more active. *)
LEMMA StillEnded ==
  ASSUME Typed, remoteSessions' \in Seq(Session),
         Fewer(remoteSessions, remoteSessions') \/ \E q : Added(q)
  PROVE  /\ Len(remoteSessions) \in Nat /\ Len(remoteSessions') \in Nat
         /\ Len(remoteSessions) <= Len(remoteSessions')
         /\ \A i \in 1..Len(remoteSessions) :
              /\ remoteSessions'[i].late = remoteSessions[i].late
              /\ remoteSessions'[i].state = "active" => remoteSessions[i].state = "active"
         /\ \A i \in Nat : i <= Len(remoteSessions) /\ ~Active(i, remoteSessions)
                             => ~Active(i, remoteSessions')
<1>1. /\ Len(remoteSessions) \in Nat /\ DOMAIN remoteSessions = 1..Len(remoteSessions)
      /\ Len(remoteSessions') \in Nat /\ DOMAIN remoteSessions' = 1..Len(remoteSessions')
  BY Lengths, LenProperties
<1>2. \/ Len(remoteSessions') = Len(remoteSessions)
      \/ Len(remoteSessions') = Len(remoteSessions) + 1
  BY DEF Fewer, Added
<1>3. \A i \in 1..Len(remoteSessions) :
        /\ remoteSessions'[i].late = remoteSessions[i].late
        /\ remoteSessions'[i].state = "active" => remoteSessions[i].state = "active"
  BY DEF Fewer, Added
<1>4. ASSUME NEW i \in Nat, i <= Len(remoteSessions), ~Active(i, remoteSessions)
      PROVE  ~Active(i, remoteSessions')
  <2>1. CASE i = 0
    BY <1>1, <2>1 DEF Active
  <2>2. CASE i # 0
    <3>1. i \in 1..Len(remoteSessions)
      BY <1>1, <1>4, <2>2
    <3>2. remoteSessions[i].state # "active"
      BY <1>1, <1>4, <3>1 DEF Active
    <3> QED
      BY <1>3, <3>1, <3>2 DEF Active
  <2> QED
    BY <2>1, <2>2
<1>5. Len(remoteSessions) <= Len(remoteSessions')
  <2> DEFINE m == Len(remoteSessions)  n == Len(remoteSessions')
  <2>1. m \in Nat /\ (n = m \/ n = m + 1)
    BY <1>1, <1>2
  <2> HIDE DEF m, n
  <2>2. m <= n
    BY <2>1
  <2> QED
    BY <2>2 DEF m, n
<1> QED
  BY <1>1, <1>3, <1>4, <1>5

LEMMA UserEnds ==
  ASSUME Typed, Disabled, Signed, NEW s \in Slots, NEW r \in {Idle} \cup UserRequest,
         UserEffect(s, r)
  PROVE  Disabled' /\ Signed'
<1>1. /\ req'[s] = r /\ (\A t \in Slots \ {s} : req'[t] = req[t])
      /\ UNCHANGED <<user, overlapped>> /\ req[s] \in {Idle} \cup UserRequest
      /\ SignsOff(r) /\ (Creating(r) => Enabled) /\ remoteSessions' \in Seq(Session)
      /\ Fewer(remoteSessions, remoteSessions') \/ Added(req[s])
  BY Moved DEF UserEffect, deskVars
<1>2. Enabled' = Enabled
  BY <1>1 DEF Enabled
<1>3. /\ Len(remoteSessions) \in Nat /\ Len(remoteSessions') \in Nat
      /\ \A i \in 1..Len(remoteSessions) :
           /\ remoteSessions'[i].late = remoteSessions[i].late
           /\ remoteSessions'[i].state = "active" => remoteSessions[i].state = "active"
      /\ \A i \in Nat : i <= Len(remoteSessions) /\ ~Active(i, remoteSessions)
                          => ~Active(i, remoteSessions')
  BY <1>1, StillEnded
<1>4. \A q \in {Idle} \cup UserRequest : q.kind # "patch"
  BY NoMarks, UserMarks DEF DeskKinds
<1>5. ASSUME NEW t \in Slots
      PROVE  /\ Patching(req[t]) => Patching(req[t])'
             /\ WillRevoke(req[t]) => WillRevoke(req[t])'
  BY <1>1, <1>2, <1>4, <1>5 DEF Patching, WillRevoke, Revoking
<1>6. ASSUME faults' = 0, ~Enabled
      PROVE  AllLate' \/ \E t \in Slots : Patching(req[t])'
  <2>1. faults = 0
    BY <1>6 DEF UserEffect
  <2>2. CASE AllLate
    <3>1. ASSUME NEW i \in 1..Len(remoteSessions'), remoteSessions'[i].state = "active"
          PROVE  remoteSessions'[i].late
      <4>1. CASE i \in 1..Len(remoteSessions)
        BY <1>3, <2>2, <3>1, <4>1 DEF AllLate
      <4>2. CASE i \notin 1..Len(remoteSessions)
        <5>1. Added(req[s])
          BY <1>1, <4>2 DEF Fewer
        <5>2. i = Len(remoteSessions) + 1 /\ Creating(req[s])
          BY <1>3, <4>2, <5>1 DEF Added
        <5> QED
          BY <2>2, <5>1, <5>2 DEF Added, AllLate
      <4> QED
        BY <4>1, <4>2
    <3>2. ASSUME NEW t \in Slots, Creating(req[t])'
          PROVE  req'[t].late
      <4>1. t # s
        BY <1>1, <1>6, <3>2 DEF Creating
      <4> QED
        BY <1>1, <2>2, <3>2, <4>1 DEF Creating, AllLate
    <3> QED
      BY <3>1, <3>2 DEF AllLate
  <2>3. CASE \E t \in Slots : Patching(req[t])
    BY <1>5, <2>3
  <2> QED
    BY <1>6, <2>1, <2>2, <2>3 DEF Disabled
<1>7. ASSUME faults' = 0, ~overlapped
      PROVE  /\ \A i \in left' : remoteSessions'[i].state = "active"
                  => remoteSessions'[i].late \/ \E t \in Slots : WillRevoke(req[t])'
             /\ \A t \in Slots : req'[t].kind = "logout" /\ req'[t].pc = "reply"
                                   => ~Active(req'[t].sid, remoteSessions')
             /\ \A t \in Slots : req'[t].kind = "logout" /\ req'[t].pc = "user" /\ ~req'[t].ok
                                   => ~Active(req'[t].sid, remoteSessions')
  <2>0. faults = 0 /\ (left' = left \/ Told(req[s]))
    BY <1>7 DEF UserEffect
  <2>1. \A i \in left : i \in 1..Len(remoteSessions) /\
          (remoteSessions[i].state = "active"
             => remoteSessions[i].late \/ \E t \in Slots : WillRevoke(req[t]))
    BY <1>7, <2>0, HeldFacts DEF Signed
  <2>2. ASSUME NEW t \in Slots, req[t].kind = "logout",
               req[t].pc = "reply" \/ (req[t].pc = "user" /\ ~req[t].ok)
        PROVE  /\ ~Active(req[t].sid, remoteSessions)
               /\ ~Active(req[t].sid, remoteSessions')
    <3>1. ~Active(req[t].sid, remoteSessions)
      BY <1>7, <2>0, <2>2 DEF Signed
    <3>2. req[t].sid \in Nat /\ req[t].sid <= Len(remoteSessions)
      BY <2>2, Kinds, Lengths DEF Fits, LogoutRequest
    <3> QED
      BY <1>3, <3>1, <3>2
  <2>3. ASSUME NEW i \in left', remoteSessions'[i].state = "active"
        PROVE  remoteSessions'[i].late \/ \E t \in Slots : WillRevoke(req[t])'
    <3>1. CASE i \in left
      BY <1>3, <1>5, <2>1, <2>3, <3>1
    <3>2. CASE i \notin left
      <4>1. Told(req[s]) /\ i = req[s].sid /\ i # 0 /\ req[s].kind = "logout"
            /\ remoteSessions' = remoteSessions
        BY <2>0, <2>3, <3>2 DEF Told
      <4>2. i \in 1..Len(remoteSessions)
        BY <4>1, Kinds, Lengths DEF Fits, LogoutRequest
      <4>3. Active(i, remoteSessions)
        BY <2>3, <4>1, <4>2, Lengths DEF Active
      <4>4. ~Enabled
        BY <2>2, <4>1, <4>3 DEF Told
      <4>5. AllLate \/ \E t \in Slots : Patching(req[t])
        BY <2>0, <4>4 DEF Disabled
      <4>6. ASSUME NEW t \in Slots, Patching(req[t])
            PROVE  WillRevoke(req[t])'
        BY <1>5, <4>4, <4>6 DEF WillRevoke
      <4>7. AllLate => remoteSessions'[i].late
        BY <2>3, <4>1, <4>2 DEF AllLate
      <4> QED
        BY <4>5, <4>6, <4>7
    <3> QED
      BY <3>1, <3>2
  <2>4. ASSUME NEW t \in Slots, req'[t].kind = "logout",
               req'[t].pc = "reply" \/ (req'[t].pc = "user" /\ ~req'[t].ok)
        PROVE  ~Active(req'[t].sid, remoteSessions')
    <3>1. CASE t = s
      BY <1>1, <2>4, <3>1 DEF SignsOff
    <3>2. CASE t # s
      BY <1>1, <2>2, <2>4, <3>2
    <3> QED
      BY <3>1, <3>2
  <2> QED
    BY <2>3, <2>4
<1>8. Disabled'
  BY <1>2, <1>6 DEF Disabled
<1>9. Signed'
  BY <1>1, <1>7 DEF Signed
<1> QED
  BY <1>8, <1>9

LEMMA ClockEnds ==
  ASSUME Typed, Disabled, Signed, ClockEffect
  PROVE  Disabled' /\ Signed'
<1>1. /\ UNCHANGED <<user, overlapped>> /\ left' = left /\ remoteSessions' \in Seq(Session)
      /\ Fewer(remoteSessions, remoteSessions')
  BY DEF ClockEffect, deskVars
<1>2. /\ Len(remoteSessions') = Len(remoteSessions)
      /\ \A i \in 1..Len(remoteSessions) :
           /\ remoteSessions'[i].late = remoteSessions[i].late
           /\ remoteSessions'[i].state = "active" => remoteSessions[i].state = "active"
      /\ \A i \in Nat : i <= Len(remoteSessions) /\ ~Active(i, remoteSessions)
                          => ~Active(i, remoteSessions')
  BY <1>1, StillEnded DEF Fewer
<1>3. ASSUME faults' = 0
      PROVE  faults = 0 /\ req' = req
  BY <1>3 DEF ClockEffect
<1>4. Enabled' = Enabled
  BY <1>1 DEF Enabled
<1>5. ASSUME faults' = 0, AllLate
      PROVE  AllLate'
  BY <1>2, <1>3, <1>5 DEF AllLate, Creating
<1>6. ASSUME faults' = 0, NEW t \in Slots
      PROVE  /\ Patching(req[t]) => Patching(req[t])'
             /\ WillRevoke(req[t]) => WillRevoke(req[t])'
  BY <1>3, <1>4, <1>6 DEF Patching, WillRevoke, Revoking
<1>7. Disabled'
  BY <1>3, <1>4, <1>5, <1>6 DEF Disabled
<1>8. ASSUME faults' = 0, ~overlapped
      PROVE  /\ \A i \in left' : remoteSessions'[i].state = "active"
                  => remoteSessions'[i].late \/ \E t \in Slots : WillRevoke(req[t])'
             /\ \A t \in Slots : req'[t].kind = "logout" /\ req'[t].pc = "reply"
                                   => ~Active(req'[t].sid, remoteSessions')
             /\ \A t \in Slots : req'[t].kind = "logout" /\ req'[t].pc = "user" /\ ~req'[t].ok
                                   => ~Active(req'[t].sid, remoteSessions')
  <2>1. \A i \in left : i \in 1..Len(remoteSessions) /\
          (remoteSessions[i].state = "active"
             => remoteSessions[i].late \/ \E t \in Slots : WillRevoke(req[t]))
    BY <1>3, <1>8, HeldFacts DEF Signed
  <2>2. ASSUME NEW t \in Slots, req[t].kind = "logout",
               req[t].pc = "reply" \/ (req[t].pc = "user" /\ ~req[t].ok)
        PROVE  ~Active(req[t].sid, remoteSessions')
    <3>1. ~Active(req[t].sid, remoteSessions)
      BY <1>3, <1>8, <2>2 DEF Signed
    <3>2. req[t].sid \in Nat /\ req[t].sid <= Len(remoteSessions)
      BY <2>2, Kinds, Lengths DEF Fits, LogoutRequest
    <3> QED
      BY <1>2, <3>1, <3>2
  <2>3. \A i \in left' : remoteSessions'[i].state = "active"
          => remoteSessions'[i].late \/ \E t \in Slots : WillRevoke(req[t])'
    BY <1>1, <1>2, <1>6, <1>8, <2>1
  <2> QED
    BY <1>3, <1>8, <2>2, <2>3
<1>9. Signed'
  BY <1>1, <1>8 DEF Signed
<1> QED
  BY <1>7, <1>9

LEMMA DeskEnds ==
  ASSUME Typed, ScopeKept, Disabled, Signed, NEW s \in Slots,
         DeskStarts(s) \/ DeskStep(s) \/ DeskFails(s), left' = left
  PROVE  Disabled' /\ Signed'
<1>1. PICK r \in {Idle} \cup DeskRequest :
        Becomes(s, r) /\ (faults' # 0 \/ (faults' = faults /\ DeskChange(s, r)))
  BY DeskChanges DEF Typed
<1>2. /\ req[s] = Idle \/ req[s] \in DeskRequest
      /\ remoteSessions' \in {remoteSessions, AllRevoked(remoteSessions)}
      /\ ~overlapped' => ~overlapped
  BY DeskEffect, DeskChanges DEF Typed
<1>3. remoteSessions' \in Seq(Session) /\ Fewer(remoteSessions, remoteSessions')
  BY <1>2, HeldFacts, AllRevokedRows, SameRows
<1>4. /\ Len(remoteSessions') = Len(remoteSessions)
      /\ \A i \in 1..Len(remoteSessions) :
           /\ remoteSessions'[i].late = remoteSessions[i].late
           /\ remoteSessions'[i].state = "active" => remoteSessions[i].state = "active"
      /\ \A i \in Nat : i <= Len(remoteSessions) /\ ~Active(i, remoteSessions)
                          => ~Active(i, remoteSessions')
  BY <1>3, StillEnded DEF Fewer
<1>5. /\ req'[s] = r /\ \A t \in Slots \ {s} : Stays(t)
      /\ PutsOvertaken(s, r) => \A t \in Slots : req'[t].kind = "verify" => req'[t].late
  BY <1>1, DeskOthers
<1>6. ASSUME NEW t \in Slots \ {s}, req[t].kind = "patch"
      PROVE  req'[t] = req[t]
  BY <1>1, <1>6, Becoming DEF Typed, DeskOK, UsersTypeOK, DeskKinds
<1>7. Visible' \subseteq Devices
  <2>1. DeskOK'
    BY DeskKept DEF Typed
  <2> QED
    BY <2>1 DEF DeskOK, UsersTypeOK, Visible
<1>8. ASSUME NEW t \in Slots, req'[t].kind \in {"logout", "verify"}
      PROVE  /\ t # s /\ req[t].kind = req'[t].kind /\ req[t].pc = req'[t].pc
             /\ req[t].kind = "logout" => req'[t] = req[t]
             /\ req[t].kind = "verify" => req'[t].late = TRUE \/ req'[t].late = req[t].late
  <2>1. t # s
    BY <1>5, <1>8, NoMarks DEF DeskKinds
  <2>2. Stays(t)
    BY <1>5, <2>1
  <2>3. req'[t].kind = req[t].kind
    BY <1>7, <2>2, StaysSame
  <2>4. req[t] # Idle
    BY <1>8, <2>3, NoMarks
  <2> QED
    BY <1>7, <1>8, <2>1, <2>2, <2>3, <2>4, StaysSame
<1>9. ASSUME AllLate
      PROVE  AllLate'
  <2>1. \A i \in 1..Len(remoteSessions') :
          remoteSessions'[i].state = "active" => remoteSessions'[i].late
    BY <1>4, <1>9 DEF AllLate
  <2>2. \A t \in Slots : Creating(req[t])' => req'[t].late
    BY <1>8, <1>9 DEF AllLate, Creating
  <2> QED
    BY <2>1, <2>2 DEF AllLate
<1>10. ASSUME faults' = 0, faults = 0, ~overlapped
       PROVE  /\ \A t \in Slots : req'[t].kind = "logout" /\ req'[t].pc = "reply"
                                    => ~Active(req'[t].sid, remoteSessions')
              /\ \A t \in Slots : req'[t].kind = "logout" /\ req'[t].pc = "user" /\ ~req'[t].ok
                                    => ~Active(req'[t].sid, remoteSessions')
  <2>1. ASSUME NEW t \in Slots, req'[t].kind = "logout",
               req'[t].pc = "reply" \/ (req'[t].pc = "user" /\ ~req'[t].ok)
        PROVE  ~Active(req'[t].sid, remoteSessions')
    <3>1. req'[t] = req[t]
      BY <1>8, <2>1
    <3>2. ~Active(req[t].sid, remoteSessions)
      BY <1>10, <2>1, <3>1 DEF Signed
    <3>3. req[t].sid \in Nat /\ req[t].sid <= Len(remoteSessions)
      BY <2>1, <3>1, Kinds, Lengths DEF Fits, LogoutRequest
    <3> QED
      BY <1>4, <3>1, <3>2, <3>3
  <2> QED
    BY <2>1
<1>11. ASSUME faults' = 0, faults = 0, DeskChange(s, r)
       PROVE  /\ ~Enabled' => AllLate' \/ \E t \in Slots : Patching(req[t])'
              /\ ~overlapped => \A i \in left : remoteSessions'[i].state = "active"
                   => remoteSessions'[i].late \/ \E t \in Slots : WillRevoke(req[t])'
  <2>1. /\ ~Enabled => AllLate \/ \E t \in Slots : Patching(req[t])
        /\ left \subseteq 1..Len(remoteSessions)
        /\ ~overlapped => \A i \in left : remoteSessions[i].state = "active"
             => remoteSessions[i].late \/ \E t \in Slots : WillRevoke(req[t])
    BY <1>11, HeldFacts DEF Disabled, Signed
  <2>2. ASSUME AllLate'
        PROVE  \A i \in left : remoteSessions'[i].state = "active" => remoteSessions'[i].late
    BY <1>4, <2>1, <2>2 DEF AllLate
  <2>3. CASE user = NoUser
    <3>1. \A t \in Slots : ~Patching(req[t])
      BY <2>3 DEF Typed, DeskOK, Entitled, Patching, NoUser
    <3>2. ~Enabled
      BY <2>3 DEF Enabled, NoUser
    <3> QED
      BY <1>9, <2>1, <2>2, <3>1, <3>2
  <2>4. CASE req[s].kind = "patch" /\ req[s].pc = "update" /\ Patching(r)
    <3>1. Patching(req[s])'
      BY <1>5, <2>4 DEF Patching
    <3>2. ASSUME ~overlapped, NEW t \in Slots
          PROVE  ~WillRevoke(req[t])
      <4>1. Changing(s) /\ (WillRevoke(req[t]) => Changing(t))
        BY <2>4 DEF Changing, WillRevoke, Patching, Revoking
      <4>2. WillRevoke(req[t]) => t = s
        BY <1>11, <3>2, <4>1 DEF ScopeKept
      <4> QED
        BY <2>4, <4>2 DEF WillRevoke, Patching, Revoking
    <3> QED
      BY <1>4, <2>1, <3>1, <3>2
  <2>5. CASE /\ SameStatus /\ (Patching(req[s]) => Patching(r))
             /\ (Revoking(req[s]) => Revoking(r))
    <3>1. Enabled' = Enabled
      BY <2>5 DEF SameStatus, Enabled
    <3>2. ASSUME NEW t \in Slots
          PROVE  /\ Patching(req[t]) => Patching(req[t])'
                 /\ WillRevoke(req[t]) => WillRevoke(req[t])'
      BY <1>5, <1>6, <2>5, <3>1, <3>2 DEF Patching, WillRevoke, Revoking
    <3> QED
      BY <1>4, <1>9, <2>1, <3>1, <3>2
  <2>6. CASE PutsOvertaken(s, r) /\ remoteSessions' = AllRevoked(remoteSessions)
    <3>1. \A i \in 1..Len(remoteSessions) : remoteSessions'[i].state # "active"
      BY <2>6, HeldFacts, AllRevokedRows
    <3>2. AllLate'
      BY <1>4, <1>5, <2>6, <3>1 DEF AllLate, Creating
    <3> QED
      BY <2>2, <3>2
  <2>7. CASE user' = user /\ Enabled /\ ~Revoking(req[s])
    <3>1. Enabled'
      BY <2>7 DEF Enabled
    <3>2. ASSUME NEW t \in Slots, WillRevoke(req[t])
          PROVE  WillRevoke(req[t])'
      BY <1>6, <2>7, <3>2 DEF WillRevoke, Revoking
    <3> QED
      BY <1>4, <2>1, <3>1, <3>2
  <2> QED
    BY <1>11, <2>3, <2>4, <2>5, <2>6, <2>7 DEF DeskChange
<1>12. Disabled'
  BY <1>1, <1>11 DEF Disabled
<1>13. Signed'
  BY <1>1, <1>2, <1>10, <1>11 DEF Signed
<1> QED
  BY <1>12, <1>13

EndInv == ScopeInv /\ Disabled /\ Signed

LEMMA EndStep ==
  ASSUME EndInv, [Next]_vars
  PROVE  EndInv'
<1>1. ScopeInv' /\ Typed /\ ScopeKept /\ Disabled /\ Signed
  BY ScopeStep DEF EndInv, ScopeInv
<1>2. ASSUME NEW s \in Slots, DeskStarts(s) \/ DeskStep(s) \/ DeskFails(s), UNCHANGED loginVars
      PROVE  Disabled' /\ Signed'
  BY <1>1, <1>2, DeskEnds DEF loginVars
<1>3. ASSUME NEW s \in Slots, UserStarts(s) \/ UserStep(s) \/ UserFails(s)
      PROVE  Disabled' /\ Signed'
  BY <1>1, <1>3, UserEffects, UserEnds
<1>4. ASSUME \/ \E c \in 1..MaxCodes : CoolsDown(c) \/ CodeExpires(c) \/ SessionExpires(c)
             \/ WindowPasses \/ Restart \/ UNCHANGED vars
      PROVE  Disabled' /\ Signed'
  BY <1>1, <1>4, ClockEffects, ClockEnds
<1> QED
  BY <1>1, <1>2, <1>3, <1>4 DEF Next, EndInv

LEMMA InitEnds ==
  ASSUME Init
  PROVE  EndInv
<1>1. /\ \A s \in Slots : req[s] = Idle
      /\ left = {} /\ Len(remoteSessions) \in Nat /\ Len(remoteSessions) <= 1
      /\ Len(remoteSessions) = 1 => user.remote
  BY InitIdle, InitShape
<1>2. Signed
  BY <1>1, NoMarks DEF Signed
<1>3. user.remote => user.active
  BY DEF Init, UsersInit, NewRow, NoUser
<1>4. ASSUME ~Enabled
      PROVE  AllLate
  <2>1. ~user.remote
    BY <1>3, <1>4 DEF Enabled
  <2>2. Len(remoteSessions) # 1
    BY <1>1, <2>1
  <2>3. \A i \in 1..Len(remoteSessions) : FALSE
    <3> DEFINE n == Len(remoteSessions)
    <3>1. n \in Nat /\ n <= 1 /\ n # 1
      BY <1>1, <2>2
    <3> HIDE DEF n
    <3>2. \A i \in 1..n : FALSE
      BY <3>1
    <3> QED
      BY <3>2 DEF n
  <2>4. \A s \in Slots : ~Creating(req[s])
    BY <1>1, NoMarks DEF Creating
  <2> QED
    BY <2>3, <2>4 DEF AllLate
<1> QED
  BY <1>2, <1>4, InitScope DEF Disabled, EndInv

(* When every change of the account has run to its end and nothing failed, no *)
(* session of a disabled account is active, and no session that a page has    *)
(* said is over (unless two changes overlapped), but one that a verification  *)
(* already under way inserted after the revocation: the two UPDATEs of        *)
(* revokeUserSessions, with verifyCode and logout interleaved at each query.  *)
THEOREM EndsHold == Spec => []SessionsEnd
<1>1. Init => EndInv
  BY InitEnds
<1>2. EndInv /\ [Next]_vars => EndInv'
  BY EndStep
<1>3. EndInv => SessionsEnd
  <2> SUFFICES ASSUME EndInv
               PROVE  SessionsEnd
    OBVIOUS
  <2>1. /\ Typed /\ Disabled /\ Signed
        /\ DOMAIN remoteSessions = 1..Len(remoteSessions)
    BY Lengths DEF EndInv, ScopeInv
  <2>2. Settled => faults = 0 /\ \A s \in Slots : ~Patching(req[s]) /\ ~WillRevoke(req[s])
    BY DEF Settled, AboutToRevoke, Patching, WillRevoke, Revoking
  <2>3. DisabledHasNoSession
    BY <2>1, <2>2 DEF DisabledHasNoSession, Disabled, AllLate
  <2>4. SignedOutIsOver
    BY <2>1, <2>2 DEF SignedOutIsOver, Signed, Active
  <2> QED
    BY <2>3, <2>4 DEF SessionsEnd
<1> QED
  BY <1>1, <1>2, <1>3, PTL DEF Spec

=============================================================================
