---------------------------- MODULE AdminSessions ----------------------------
(***************************************************************************)
(* The sessions of one admin account, in one browser with two cookies:     *)
(* login, refresh and logout (server/src/auth.js), the middleware in front *)
(* of every admin route (auth/middleware.js), the rows of admin_sessions   *)
(* (auth/sessions.js) and the acknowledgement it asks for                  *)
(* (acknowledgement.js), next to the desk that changes the account.        *)
(*                                                                         *)
(* An access cookie names a session for fifteen minutes.  A request whose  *)
(* access cookie has gone is served on the refresh cookie, which replaces  *)
(* the session by a new one: a SELECT, an UPDATE and an INSERT, each       *)
(* awaited.  Tabs of the browser send requests with the same cookies at    *)
(* one time, and the answers set cookies in the order they arrive.         *)
(***************************************************************************)
EXTENDS AccessUsers, LoginRateLimiter

VARIABLES
  jar,        \* the browser's cookies: the session each one names, 0 without one
  ack,        \* the account has accepted the current acknowledgement
  failures,   \* the count of the login rate limiter
  (* bookkeeping *)
  crossed,    \* logins with a session that two handlers were replacing at a time
  outrun,     \* logins a logout did not end: their session was being replaced
  loggedOut   \* logins that a logout has ended

authVars == <<jar, ack, failures, crossed, outrun, loggedOut>>
vars == <<userVars, authVars>>

MaxSessions == MaxRequests + 1

(* access and refresh are the cookies the request came with, fresh the session *)
(* made for it, typed the password of a login (0: a wrong one).                *)
AuthRequest ==
  [kind: {"login", "refresh", "api", "accept", "logout"},
   pc: {"user", "hash", "create", "active", "find", "retire", "replace", "ack",
        "serve", "reply"},
   typed: 0..(MaxRequests + 1), access: 0..MaxSessions, refresh: 0..MaxSessions,
   fresh: 0..MaxSessions, late: BOOLEAN]

TypeOK ==
  /\ UsersTypeOK
  /\ req \in [Slots -> {Idle} \cup DeskRequest \cup AuthRequest]
  /\ Len(adminSessions) <= MaxSessions
  /\ jar \in [access: 0..Len(adminSessions), refresh: 0..Len(adminSessions)]
  /\ ack \in BOOLEAN
  /\ failures \in Nat
  /\ crossed \cup outrun \cup loggedOut \subseteq 1..MaxSessions

(* The account may have logged in before. *)
Init ==
  /\ UsersInit
  /\ \/ adminSessions = <<>> /\ jar = [access |-> 0, refresh |-> 0]
     \/ /\ user.admin
        /\ adminSessions = <<[state |-> "active", from |-> 1, pw |-> 1, late |-> FALSE]>>
        /\ jar = [access |-> 1, refresh |-> 1]
  /\ remoteSessions = <<>>
  /\ ack \in BOOLEAN
  /\ failures = 0
  /\ crossed = {} /\ outrun = {} /\ loggedOut = {}

-----------------------------------------------------------------------------
(* The browser asks. *)

Auth(kind, pc, typed) ==
  [kind |-> kind, pc |-> pc, typed |-> typed, access |-> jar.access,
   refresh |-> jar.refresh, fresh |-> 0, late |-> FALSE]

AuthBegin(s, kind, pc, typed) ==
  /\ Begin(s, Auth(kind, pc, typed))
  /\ UNCHANGED <<deskVars, adminSessions, remoteSessions, faults, overlapped, authVars>>

(* A locked login is answered 429 at once. *)
LoginBegin(s, typed) ==
  /\ Allowed(failures)
  /\ typed \in {0, user.pw}
  /\ AuthBegin(s, "login", "user", typed)

RefreshBegin(s) == AuthBegin(s, "refresh", "find", 0)

(* Any route behind authMiddleware; "accept" and "logout" need no acknowledgement. *)
RouteBegin(s, kind) == AuthBegin(s, kind, "active", 0)

-----------------------------------------------------------------------------
(* authenticateAdmin *)

Reject(s) ==
  /\ failures' = AfterFailure(failures)
  /\ Finish(s)

(* The row and the password hash are two queries, and comparing takes a while. *)
LoginUser(s) ==
  /\ At(s, {"login"}, "user")
  /\ IF user.active /\ user.admin
       THEN Goto(s, "hash") /\ UNCHANGED failures
       ELSE Reject(s)
  /\ UNCHANGED <<deskVars, adminSessions, remoteSessions, bookVars, jar, ack,
                 crossed, outrun, loggedOut>>

LoginHash(s) ==
  /\ At(s, {"login"}, "hash")
  /\ IF req[s].typed = user.pw
       THEN Goto(s, "create") /\ UNCHANGED failures
       ELSE Reject(s)
  /\ UNCHANGED <<deskVars, adminSessions, remoteSessions, bookVars, jar, ack,
                 crossed, outrun, loggedOut>>

NewSession(s, row) ==
  /\ adminSessions' = Append(adminSessions, row)
  /\ Len(adminSessions) < MaxSessions

LoginCreate_NoRow(s) ==
  /\ At(s, {"login"}, "create")
  /\ UNCHANGED adminSessions
  /\ failures' = Forgotten
  /\ req' = [req EXCEPT ![s].pc = "reply", ![s].fresh = Len(adminSessions) + 1]
  /\ UNCHANGED <<deskVars, remoteSessions, bookVars, jar, ack, crossed, outrun,
                 loggedOut>>

(* createAdminSession *)
LoginCreate(s) ==
  /\ At(s, {"login"}, "create")
  /\ NewSession(s, [state |-> "active", from |-> Len(adminSessions) + 1,
                    pw |-> req[s].typed, late |-> req[s].late])
  /\ failures' = Forgotten
  /\ req' = [req EXCEPT ![s].pc = "reply", ![s].fresh = Len(adminSessions) + 1]
  /\ UNCHANGED <<deskVars, remoteSessions, bookVars, jar, ack, crossed, outrun,
                 loggedOut>>

-----------------------------------------------------------------------------
(* authMiddleware and rotateAdminSession *)

CheckActive(s) ==
  /\ At(s, {"api", "accept", "logout"}, "active")
  /\ Goto(s, IF Active(req[s].access, adminSessions) THEN "ack" ELSE "find")
  /\ UNCHANGED <<deskVars, adminSessions, remoteSessions, bookVars, authVars>>

Replacing(s, pcs) == req[s].kind \in {"refresh", "api", "accept", "logout"} /\ req[s].pc \in pcs

(* The SELECT of the session the refresh cookie names; 401 without one. *)
FindSession(s) ==
  /\ Replacing(s, {"find"})
  /\ IF Active(req[s].refresh, adminSessions)
       THEN /\ Goto(s, "retire")
            /\ crossed' = IF \E t \in Slots \ {s} : Replacing(t, {"retire"})
                                                    /\ req[t].refresh = req[s].refresh
                          THEN crossed \cup {adminSessions[req[s].refresh].from}
                          ELSE crossed
       ELSE Finish(s) /\ UNCHANGED crossed
  /\ UNCHANGED <<deskVars, adminSessions, remoteSessions, bookVars, jar, ack,
                 failures, outrun, loggedOut>>

(* The UPDATE names the session and nothing else: it does not ask whether the *)
(* session is still there to be replaced.                                     *)
RetireSession(s) ==
  /\ Replacing(s, {"retire"})
  /\ adminSessions' = [adminSessions EXCEPT ![req[s].refresh].state = "revoked"]
  /\ Goto(s, "replace")
  /\ UNCHANGED <<deskVars, remoteSessions, bookVars, authVars>>

ReplaceSession(s) ==
  /\ Replacing(s, {"replace"})
  /\ LET old == adminSessions[req[s].refresh] IN
       NewSession(s, [old EXCEPT !.state = "active",
                                 !.late = old.late \/ req[s].late])
  /\ req' = [req EXCEPT ![s].pc = IF req[s].kind = "refresh" THEN "reply" ELSE "ack",
                        ![s].fresh = Len(adminSessions) + 1]
  /\ UNCHANGED <<deskVars, remoteSessions, bookVars, authVars>>

(* hasCurrentAcknowledgement, except on the exempt paths; 403 without one. *)
CheckAcknowledged(s) ==
  /\ At(s, {"api", "accept", "logout"}, "ack")
  /\ Goto(s, IF req[s].kind # "api" \/ ack THEN "serve" ELSE "reply")
  /\ UNCHANGED <<deskVars, adminSessions, remoteSessions, bookVars, authVars>>

-----------------------------------------------------------------------------
(* The routes *)

Serve(s) ==
  /\ At(s, {"api", "accept"}, "serve")
  /\ ack' = (ack \/ req[s].kind = "accept")
  /\ Goto(s, "reply")
  /\ UNCHANGED <<deskVars, adminSessions, remoteSessions, bookVars, jar, failures,
                 crossed, outrun, loggedOut>>

LogoutEnds(s, i) ==
  /\ adminSessions' = IF Active(i, adminSessions)
                      THEN [adminSessions EXCEPT ![i].state = "revoked"] ELSE adminSessions
  /\ loggedOut' = IF i = 0 THEN loggedOut ELSE loggedOut \cup {adminSessions[i].from}
  /\ outrun' = IF \/ i # 0 /\ req[s].fresh = 0 /\ ~Active(i, adminSessions)
                  \/ i # 0 /\ \E t \in Slots \ {s} : Replacing(t, {"retire", "replace"})
                       /\ adminSessions[req[t].refresh].from = adminSessions[i].from
               THEN outrun \cup {adminSessions[i].from} ELSE outrun
  /\ Goto(s, "reply")
  /\ UNCHANGED <<deskVars, remoteSessions, bookVars, jar, ack, failures, crossed>>

Logout_CookieOnly(s) ==
  At(s, {"logout"}, "serve") /\ LogoutEnds(s, req[s].refresh)

(* logoutAdmin ends the session the middleware has just made, if it made one, *)
(* and else the one the refresh cookie names.                                 *)
Logout(s) ==
  /\ At(s, {"logout"}, "serve")
  /\ LogoutEnds(s, IF req[s].fresh # 0 THEN req[s].fresh ELSE req[s].refresh)

(* The answer: a new session sets both cookies, a logout clears both. *)
Reply(s) ==
  /\ req[s].kind \in {"login", "refresh", "api", "accept", "logout"} /\ req[s].pc = "reply"
  /\ jar' = IF req[s].kind = "logout" THEN [access |-> 0, refresh |-> 0]
            ELSE IF req[s].fresh # 0
                 THEN [access |-> req[s].fresh, refresh |-> req[s].fresh]
            ELSE jar
  /\ Finish(s)
  /\ UNCHANGED <<deskVars, adminSessions, remoteSessions, bookVars, ack, failures,
                 crossed, outrun, loggedOut>>

-----------------------------------------------------------------------------
(* Time and faults *)

(* The access cookie lasts fifteen minutes. *)
AccessExpires ==
  /\ jar.access # 0
  /\ jar' = [jar EXCEPT !.access = 0]
  /\ UNCHANGED <<userVars, ack, failures, crossed, outrun, loggedOut>>

(* A session and its refresh cookie last seven days; no request takes as long. *)
SessionExpires(i) ==
  /\ Active(i, adminSessions) /\ Busy = {}
  /\ adminSessions' = [adminSessions EXCEPT ![i].state = "expired"]
  /\ jar' = [access |-> IF jar.access = i THEN 0 ELSE jar.access,
             refresh |-> IF jar.refresh = i THEN 0 ELSE jar.refresh]
  /\ UNCHANGED <<deskVars, remoteSessions, req, bookVars, ack, failures, crossed,
                 outrun, loggedOut>>

WindowPasses ==
  /\ failures # 0 /\ failures' = Forgotten
  /\ UNCHANGED <<userVars, jar, ack, crossed, outrun, loggedOut>>

(* A query of the request fails, or its answer is lost.  When it is the query  *)
(* of a route, the answer is a 500 with the cookies of the session the         *)
(* middleware has made, if it made one.                                        *)
AuthFails(s) ==
  /\ req[s] # Idle /\ req[s].kind \notin {"create", "patch", "reset", "revoke"}
  /\ faults < MaxFaults /\ faults' = faults + 1
  /\ \/ Finish(s)
     \/ /\ req[s].pc = "serve"
        /\ req' = [req EXCEPT ![s].kind = "api", ![s].pc = "reply"]
  /\ UNCHANGED <<deskVars, adminSessions, remoteSessions, asked, overlapped,
                 authVars>>

(* The server restarts: its handlers are gone, and so is the limiter's Map. *)
Restart ==
  /\ faults < MaxFaults /\ faults' = faults + 1
  /\ req' = [s \in Slots |-> Idle]
  /\ failures' = Forgotten
  /\ UNCHANGED <<deskVars, adminSessions, remoteSessions, asked, overlapped,
                 jar, ack, crossed, outrun, loggedOut>>

-----------------------------------------------------------------------------
AuthStep(s) ==
  \/ LoginUser(s) \/ LoginHash(s) \/ LoginCreate(s)
  \/ CheckActive(s) \/ FindSession(s) \/ RetireSession(s) \/ ReplaceSession(s)
  \/ CheckAcknowledged(s) \/ Serve(s) \/ Logout(s) \/ Reply(s)

AuthStarts(s) ==
  \/ \E typed \in 0..(MaxRequests + 1) : LoginBegin(s, typed)
  \/ RefreshBegin(s)
  \/ \E kind \in {"api", "accept", "logout"} : RouteBegin(s, kind)

Step(s) == (DeskStep(s) /\ UNCHANGED authVars) \/ AuthStep(s)

Next ==
  \/ \E s \in Slots :
       \/ DeskStarts(s) /\ UNCHANGED authVars
       \/ AuthStarts(s)
       \/ Step(s)
       \/ DeskFails(s) /\ UNCHANGED authVars
       \/ AuthFails(s)
  \/ AccessExpires \/ WindowPasses \/ Restart
  \/ \E i \in 1..MaxSessions : SessionExpires(i)

Spec == Init /\ [][Next]_vars

-----------------------------------------------------------------------------
(* Safety *)

ActiveLater(i) == Active(i, adminSessions) /\ ~adminSessions[i].late

(* When the account is disabled, no session of it is active but one that a    *)
(* request begun before the revocation inserted after it (auth/sessions.js:38 *)
(* and auth.js:33 read and insert in separate queries, and authMiddleware     *)
(* never looks at the account again).  Updates that overwrite each other's    *)
(* columns do not matter: whoever disables last revokes after.                *)
DisabledHasNoSession ==
  (Settled /\ ~user.active) => \A i \in 1..MaxSessions : ~ActiveLater(i)

(* The same of an account that is no longer an admin, if no two changes of it *)
(* overlapped: a handler that read the role before another one gave it finds  *)
(* nothing changed when it takes it away, and revokes nothing.                *)
DemotedHasNoSession ==
  (Settled /\ ~overlapped /\ ~user.admin) => \A i \in 1..MaxSessions : ~ActiveLater(i)

(* After a password reset no session of an earlier password is active, but    *)
(* such a late one: the page says "Password reset and sessions revoked."      *)
OldPasswordHasNoSession ==
  Settled => \A i \in 1..MaxSessions :
               ActiveLater(i) => adminSessions[i].pw = user.pw

(* One login has one active session, however often it is replaced, unless two *)
(* handlers had both found the same session before either retired it.         *)
OneSessionPerLogin ==
  \A i, j \in 1..MaxSessions :
    Active(i, adminSessions) /\ Active(j, adminSessions) /\ i # j
    /\ adminSessions[i].from = adminSessions[j].from
      => adminSessions[i].from \in crossed

(* After a logout its login has no active session, even when the middleware   *)
(* replaced the session on the way, unless another request was replacing, or  *)
(* had replaced, the session the logout came with.                            *)
LogoutIsFinal ==
  \A i \in 1..MaxSessions :
    Active(i, adminSessions) /\ adminSessions[i].from \in loggedOut
      => adminSessions[i].from \in crossed \cup outrun

(* The limiter is asked before the password is checked and told after: the    *)
(* failures of one window exceed the maximum by the logins that were under    *)
(* way when it was reached, and by no more.                                   *)
FailuresBounded == failures <= MaxAttempts + Cardinality(Slots) - 1

-----------------------------------------------------------------------------
(* What the run checks, part by part above. *)

(* A revocation by the desk misses only what a request under way inserts.     *)
RevokedStaysOut == DisabledHasNoSession /\ DemotedHasNoSession /\ OldPasswordHasNoSession

(* A login has one session, and after its logout none. *)
LoginHasOneSession == OneSessionPerLogin /\ LogoutIsFinal
=============================================================================
