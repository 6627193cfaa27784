----------------------------- MODULE RemoteLogin -----------------------------
(***************************************************************************)
(* A remote-access user signs in: a password, a code sent by mail, a       *)
(* session, and the devices it may look at (server/src/remoteAccess:       *)
(* handlers.js, verification.js, session.js, dashboard.js), with the pages *)
(* that ask (web/app/remoteaccess/page.tsx and devices/[id]/page.tsx),     *)
(* next to the desk that changes the account.                              *)
(*                                                                         *)
(* A slot is a tab of the user's browser as well as the handler of its one *)
(* request: the form is disabled while a request is under way.  The tabs   *)
(* share the cookie.  Every awaited query and the mail are steps.          *)
(***************************************************************************)
EXTENDS AccessUsers, LoginRateLimiter

CONSTANT MaxCodeAttempts   \* MAX_CODE_ATTEMPTS, five in the code

ASSUME CodeAttemptsAssumption == MaxCodeAttempts \in Nat \ {0}

VARIABLES
  codes,      \* rows of remote_access_verification_codes, oldest first
  cookie,     \* the browser's cookie: the session it names, 0 without one
  tab,        \* what each page shows
  failures,   \* the count of the login rate limiter
  (* bookkeeping *)
  raced,      \* codes that two verifications had found open at one time
  crossed,    \* two issues were between their INSERT and their last UPDATE at one time
  left        \* sessions of which a page has said that they are over

loginVars == <<codes, cookie, tab, failures, raced, crossed, left>>
vars == <<userVars, loginVars>>

MaxCodes == MaxRequests + 1

(* used: it opened a session.  replaced: a later issue consumed it.  deleted: *)
(* its mail was refused.  told: the page has its challenge id.                *)
Code == [state: {"open", "used", "replaced", "deleted", "expired"},
         attempts: Nat, resendable: BOOLEAN, told: BOOLEAN]

(* challenge is the code it asks for, 0 when it asks for none. *)
Page == [mode: {"login", "verify", "dashboard", "denied"}, challenge: 0..MaxCodes]

LoginPage == [mode |-> "login", challenge |-> 0]

(* code is the challenge of the request, or the code it has issued; about the  *)
(* devices a view asks for, may those it could see at some time since it began. *)
UserRequest ==
  [kind: {"login", "resend"},
   pc: {"find", "user", "hash", "insert", "mail", "unsend", "replace", "reply"},
   typed: 0..(MaxRequests + 1), code: 0..MaxCodes]
  \cup
  [kind: {"verify"}, pc: {"find", "count", "consume", "user", "create", "reply"},
   code: 0..MaxCodes, right: BOOLEAN, sid: 0..MaxCodes, late: BOOLEAN]
  \cup
  [kind: {"logout"}, pc: {"active", "user", "revoke", "reply"},
   sid: 0..MaxCodes, ok: BOOLEAN, selected: BOOLEAN]
  \cup
  [kind: {"view"}, pc: {"active", "user", "scope", "query", "reply"},
   sid: 0..MaxCodes, ok: BOOLEAN, selected: BOOLEAN,
   about: SUBSET Devices, shown: SUBSET Devices, may: SUBSET Devices]

TypeOK ==
  /\ UsersTypeOK
  /\ req \in [Slots -> {Idle} \cup DeskRequest \cup UserRequest]
  /\ codes \in Seq(Code) /\ Len(codes) <= MaxCodes
  /\ cookie \in 0..Len(remoteSessions)
  /\ tab \in [Slots -> Page]
  /\ \A s \in Slots : tab[s].challenge <= Len(codes)
  /\ failures \in Nat
  /\ raced \cup left \subseteq 1..MaxCodes
  /\ crossed \in BOOLEAN

(* The user may be in the middle of a login, or have been in for a while. *)
Init ==
  /\ UsersInit
  /\ adminSessions = <<>>
  /\ \/ /\ codes = <<>> /\ remoteSessions = <<>> /\ cookie = 0
        /\ tab = [s \in Slots |-> LoginPage]
     \/ /\ user # NoUser
        /\ \E r \in BOOLEAN :
             codes = <<[state |-> "open", attempts |-> 0, resendable |-> r, told |-> TRUE]>>
        /\ remoteSessions = <<>> /\ cookie = 0
        /\ tab = [s \in Slots |-> [mode |-> "verify", challenge |-> 1]]
     \/ /\ user.remote
        /\ codes = <<[state |-> "used", attempts |-> 0, resendable |-> TRUE, told |-> TRUE]>>
        /\ remoteSessions = <<[state |-> "active", from |-> 1, pw |-> 1, late |-> FALSE]>>
        /\ cookie = 1
        /\ tab = [s \in Slots |-> [mode |-> "dashboard", challenge |-> 0]]
  /\ failures = 0
  /\ raced = {} /\ left = {}
  /\ crossed = FALSE

-----------------------------------------------------------------------------
(* The pages ask. *)

Ask(kind, pc, typed, code) == [kind |-> kind, pc |-> pc, typed |-> typed, code |-> code]

UserBegin(s, r) ==
  /\ Begin(s, r)
  /\ UNCHANGED <<deskVars, adminSessions, remoteSessions, faults, overlapped, loginVars>>

LoginBegin(s, typed) ==
  /\ tab[s].mode = "login" /\ Allowed(failures)
  /\ typed \in {0, user.pw}
  /\ UserBegin(s, Ask("login", "user", typed, 0))

ResendBegin(s) ==
  /\ tab[s].mode = "verify"
  /\ UserBegin(s, Ask("resend", "find", 0, tab[s].challenge))

VerifyBegin(s, right) ==
  /\ tab[s].mode = "verify"
  /\ UserBegin(s, [kind |-> "verify", pc |-> "find", code |-> tab[s].challenge,
                   right |-> right, sid |-> 0, late |-> FALSE])

LogoutBegin(s) ==
  /\ tab[s].mode = "dashboard"
  /\ UserBegin(s, [kind |-> "logout", pc |-> "active", sid |-> cookie, ok |-> FALSE,
                   selected |-> FALSE])

View(sid, about) ==
  [kind |-> "view", pc |-> "active", sid |-> sid, ok |-> FALSE, selected |-> FALSE,
   about |-> about, shown |-> {}, may |-> Visible]

(* The dashboard asks for every device, the page of a device for that one. *)
ViewBegin(s, about) ==
  /\ tab[s].mode \in {"login", "dashboard"} /\ cookie # 0
  /\ UserBegin(s, View(cookie, about))

UserStarts(s) ==
  \/ \E typed \in 0..(MaxRequests + 1) : LoginBegin(s, typed)
  \/ ResendBegin(s)
  \/ \E right \in BOOLEAN : VerifyBegin(s, right)
  \/ LogoutBegin(s)
  \/ \E about \in {Devices} \cup {{d} : d \in Devices} : ViewBegin(s, about)

-----------------------------------------------------------------------------
(* verifyCredentials, and canResend with the account behind the challenge *)

StepKeeps == <<deskVars, adminSessions, bookVars>>

Enabled == user.active /\ user.remote

Reject(s) ==
  /\ failures' = AfterFailure(failures)
  /\ Finish(s)

LoginUser(s) ==
  /\ At(s, {"login"}, "user")
  /\ IF Enabled THEN Goto(s, "hash") /\ UNCHANGED failures ELSE Reject(s)
  /\ UNCHANGED <<StepKeeps, remoteSessions, codes, cookie, tab, raced, crossed, left>>

LoginHash(s) ==
  /\ At(s, {"login"}, "hash")
  /\ IF req[s].typed = user.pw
       THEN Goto(s, "insert") /\ failures' = Forgotten
       ELSE Reject(s)
  /\ UNCHANGED <<StepKeeps, remoteSessions, codes, cookie, tab, raced, crossed, left>>

Open(c) == c \in DOMAIN codes /\ codes[c].state = "open"

(* 401 without an open code, 429 while it cools down. *)
ResendFind(s) ==
  /\ At(s, {"resend"}, "find")
  /\ IF Open(req[s].code) /\ codes[req[s].code].resendable
       THEN Goto(s, "user") ELSE Finish(s)
  /\ UNCHANGED <<StepKeeps, remoteSessions, loginVars>>

ResendUser(s) ==
  /\ At(s, {"resend"}, "user")
  /\ IF Enabled THEN Goto(s, "insert") ELSE Finish(s)
  /\ UNCHANGED <<StepKeeps, remoteSessions, loginVars>>

-----------------------------------------------------------------------------
(* issueVerificationCode *)

InsertCode_NoRow(s) ==
  /\ At(s, {"login", "resend"}, "insert")
  /\ UNCHANGED <<codes, crossed>>
  /\ req' = [req EXCEPT ![s].pc = "reply", ![s].code = Len(codes) + 1]
  /\ UNCHANGED <<StepKeeps, remoteSessions, cookie, tab, failures, raced, left>>

InsertCode(s) ==
  /\ At(s, {"login", "resend"}, "insert")
  /\ codes' = Append(codes, [state |-> "open", attempts |-> 0, resendable |-> FALSE,
                             told |-> FALSE])
  /\ req' = [req EXCEPT ![s].pc = "mail", ![s].code = Len(codes) + 1]
  /\ crossed' = (crossed \/ \E t \in Slots : req[t].kind \in {"login", "resend"}
                                             /\ req[t].pc \in {"mail", "replace"})
  /\ UNCHANGED <<StepKeeps, remoteSessions, cookie, tab, failures, raced, left>>

MailCode(s) ==
  /\ At(s, {"login", "resend"}, "mail")
  /\ Goto(s, "replace")
  /\ UNCHANGED <<StepKeeps, remoteSessions, loginVars>>

(* The mail is refused: the code goes, if nobody has consumed it, and the page *)
(* gets a 500.                                                                 *)
MailFails(s) ==
  /\ At(s, {"login", "resend"}, "mail")
  /\ faults < MaxFaults /\ faults' = faults + 1
  /\ Goto(s, "unsend")
  /\ UNCHANGED <<deskVars, adminSessions, remoteSessions, asked, overlapped, loginVars>>

DeleteCode(s) ==
  /\ At(s, {"login", "resend"}, "unsend")
  /\ codes' = IF codes[req[s].code].state \in {"open", "expired"}
              THEN [codes EXCEPT ![req[s].code].state = "deleted"] ELSE codes
  /\ Finish(s)
  /\ UNCHANGED <<StepKeeps, remoteSessions, cookie, tab, failures, raced, crossed, left>>

ReplaceOthers_LoginOnly(s) ==
  /\ At(s, {"login", "resend"}, "replace")
  /\ codes' = [c \in DOMAIN codes |->
                 IF req[s].kind = "login" /\ c # req[s].code /\ codes[c].state = "open"
                 THEN [codes[c] EXCEPT !.state = "replaced"] ELSE codes[c]]
  /\ Goto(s, "reply")
  /\ UNCHANGED <<StepKeeps, remoteSessions, cookie, tab, failures, raced, crossed, left>>

(* Every other code of the account is consumed, those inserted since too. *)
ReplaceOthers(s) ==
  /\ At(s, {"login", "resend"}, "replace")
  /\ codes' = [c \in DOMAIN codes |-> IF c # req[s].code /\ codes[c].state = "open"
                 THEN [codes[c] EXCEPT !.state = "replaced"] ELSE codes[c]]
  /\ Goto(s, "reply")
  /\ UNCHANGED <<StepKeeps, remoteSessions, cookie, tab, failures, raced, crossed, left>>

-----------------------------------------------------------------------------
(* verifyCode *)

(* 401 without an open code, 429 after too many attempts. *)
FindCode(s) ==
  /\ At(s, {"verify"}, "find")
  /\ LET c == req[s].code IN
       IF Open(c) /\ codes[c].attempts < MaxCodeAttempts
       THEN /\ Goto(s, IF req[s].right THEN "consume" ELSE "count")
            /\ raced' = IF \E t \in Slots \ {s} : At(t, {"verify"}, "consume") /\ req[t].code = c
                        THEN raced \cup {c} ELSE raced
       ELSE Finish(s) /\ UNCHANGED raced
  /\ UNCHANGED <<StepKeeps, remoteSessions, codes, cookie, tab, failures, crossed, left>>

CountAttempt(s) ==
  /\ At(s, {"verify"}, "count")
  /\ codes' = [codes EXCEPT ![req[s].code].attempts = @ + 1]
  /\ Finish(s)
  /\ UNCHANGED <<StepKeeps, remoteSessions, cookie, tab, failures, raced, crossed, left>>

ConsumeCode_Keeps(s) ==
  /\ At(s, {"verify"}, "consume")
  /\ UNCHANGED codes
  /\ Goto(s, "user")
  /\ UNCHANGED <<StepKeeps, remoteSessions, cookie, tab, failures, raced, crossed, left>>

(* The UPDATE names the code and nothing else: it does not ask whether the *)
(* code is still open.                                                     *)
ConsumeCode(s) ==
  /\ At(s, {"verify"}, "consume")
  /\ codes' = [codes EXCEPT ![req[s].code].state = IF @ = "deleted" THEN @ ELSE "used"]
  /\ Goto(s, "user")
  /\ UNCHANGED <<StepKeeps, remoteSessions, cookie, tab, failures, raced, crossed, left>>

VerifyUser(s) ==
  /\ At(s, {"verify"}, "user")
  /\ IF Enabled THEN Goto(s, "create") ELSE Finish(s)
  /\ UNCHANGED <<StepKeeps, remoteSessions, loginVars>>

(* createRemoteAccessSession *)
CreateSession(s) ==
  /\ At(s, {"verify"}, "create")
  /\ remoteSessions' = Append(remoteSessions,
       [state |-> "active", from |-> req[s].code, pw |-> user.pw, late |-> req[s].late])
  /\ req' = [req EXCEPT ![s].pc = "reply", ![s].sid = Len(remoteSessions) + 1]
  /\ UNCHANGED <<StepKeeps, loginVars>>

-----------------------------------------------------------------------------
(* remoteAccessMiddleware, and the routes behind it *)

CheckActive(s) ==
  /\ At(s, {"logout", "view"}, "active")
  /\ req' = [req EXCEPT ![s].pc = "user", ![s].ok = Active(req[s].sid, remoteSessions)]
  /\ UNCHANGED <<StepKeeps, remoteSessions, loginVars>>

ToLogin(s) == tab' = [tab EXCEPT ![s] = LoginPage]

(* logout() of the page does not look at the answer: a 401 signs it out too. *)
SignedOut(s) ==
  /\ ToLogin(s)
  /\ left' = left \cup ({req[s].sid} \ {0})

(* getUser reads the row, here, and the device ids of its scope after it. *)
RouteUser(s) ==
  /\ At(s, {"logout", "view"}, "user")
  /\ IF req[s].ok /\ Enabled
       THEN /\ req' = [req EXCEPT ![s].pc = IF req[s].kind = "view" THEN "scope" ELSE "revoke",
                                  ![s].selected = user.selected]
            /\ UNCHANGED <<tab, left>>
       ELSE /\ Finish(s)
            /\ IF req[s].kind = "view" THEN ToLogin(s) /\ UNCHANGED left ELSE SignedOut(s)
  /\ UNCHANGED <<StepKeeps, remoteSessions, codes, cookie, failures, raced, crossed>>

RevokeSession(s) ==
  /\ At(s, {"logout"}, "revoke")
  /\ remoteSessions' = IF Active(req[s].sid, remoteSessions)
                       THEN [remoteSessions EXCEPT ![req[s].sid].state = "revoked"]
                       ELSE remoteSessions
  /\ Goto(s, "reply")
  /\ UNCHANGED <<StepKeeps, loginVars>>

(* remoteDeviceScope of the row read before and the ids read now. *)
ReadScope(s) ==
  /\ At(s, {"view"}, "scope")
  /\ req' = [req EXCEPT ![s].pc = "query",
                        ![s].shown = IF req[s].selected THEN scope ELSE Devices]
  /\ UNCHANGED <<StepKeeps, remoteSessions, loginVars>>

(* The query of the devices, with the filter of that scope. *)
QueryDevices(s) ==
  /\ At(s, {"view"}, "query")
  /\ req' = [req EXCEPT ![s].pc = "reply", ![s].shown = @ \cap req[s].about]
  /\ UNCHANGED <<StepKeeps, remoteSessions, loginVars>>

-----------------------------------------------------------------------------
(* The answers.  A rejected request leaves the page as it was. *)

ReplyCode(s) ==
  /\ At(s, {"login", "resend"}, "reply")
  /\ codes' = [codes EXCEPT ![req[s].code].told = TRUE]
  /\ tab' = [tab EXCEPT ![s] = [mode |-> "verify", challenge |-> req[s].code]]
  /\ Finish(s)
  /\ UNCHANGED <<StepKeeps, remoteSessions, cookie, failures, raced, crossed, left>>

(* The page loads the dashboard as soon as the code is accepted. *)
ReplyVerified(s) ==
  /\ At(s, {"verify"}, "reply")
  /\ cookie' = req[s].sid
  /\ req' = [req EXCEPT ![s] = View(req[s].sid, Devices)]
  /\ UNCHANGED <<StepKeeps, remoteSessions, codes, tab, failures, raced, crossed, left>>

ReplyLogout(s) ==
  /\ At(s, {"logout"}, "reply")
  /\ cookie' = 0
  /\ SignedOut(s)
  /\ Finish(s)
  /\ UNCHANGED <<StepKeeps, remoteSessions, codes, failures, raced, crossed>>

(* A device that the scope hides is a 404. *)
ReplyView(s) ==
  /\ At(s, {"view"}, "reply")
  /\ tab' = [tab EXCEPT ![s] =
       [mode |-> IF req[s].about # Devices /\ req[s].shown = {} THEN "denied" ELSE "dashboard",
        challenge |-> 0]]
  /\ Finish(s)
  /\ UNCHANGED <<StepKeeps, remoteSessions, codes, cookie, failures, raced, crossed, left>>

-----------------------------------------------------------------------------
(* Time and faults *)

CoolsDown(c) ==
  /\ Open(c) /\ ~codes[c].resendable
  /\ codes' = [codes EXCEPT ![c].resendable = TRUE]
  /\ UNCHANGED <<userVars, cookie, tab, failures, raced, crossed, left>>

(* A code lasts five minutes, its cooldown one. *)
CodeExpires(c) ==
  /\ Open(c) /\ codes[c].resendable
  /\ codes' = [codes EXCEPT ![c].state = "expired"]
  /\ UNCHANGED <<userVars, cookie, tab, failures, raced, crossed, left>>

(* A session and its cookie last eight hours; no request takes as long. *)
SessionExpires(i) ==
  /\ Active(i, remoteSessions) /\ Busy = {}
  /\ remoteSessions' = [remoteSessions EXCEPT ![i].state = "expired"]
  /\ cookie' = IF cookie = i THEN 0 ELSE cookie
  /\ UNCHANGED <<deskVars, adminSessions, req, bookVars, codes, tab, failures, raced,
                 crossed, left>>

WindowPasses ==
  /\ failures # 0 /\ failures' = Forgotten
  /\ UNCHANGED <<userVars, codes, cookie, tab, raced, crossed, left>>

IsUser(s) == req[s].kind \in {"login", "resend", "verify", "logout", "view"}

(* What a page does without a good answer: the dashboard asks for a login, and *)
(* so does a logout that was answered 500; after the others it stays.          *)
Unanswered(s) ==
  IF req[s].kind = "view" THEN LoginPage ELSE tab[s]

UserFails(s) ==
  /\ IsUser(s) /\ faults < MaxFaults /\ faults' = faults + 1
  /\ \/ /\ tab' = [tab EXCEPT ![s] = Unanswered(s)]
        /\ UNCHANGED left
     \/ req[s].kind = "logout" /\ SignedOut(s)
  /\ Finish(s)
  /\ UNCHANGED <<deskVars, adminSessions, remoteSessions, asked, overlapped,
                 codes, cookie, failures, raced, crossed>>

(* The server restarts: its handlers are gone, and so is the limiter's Map. *)
Restart ==
  /\ faults < MaxFaults /\ faults' = faults + 1
  /\ req' = [s \in Slots |-> Idle]
  /\ tab' = [s \in Slots |-> Unanswered(s)]
  /\ failures' = Forgotten
  /\ UNCHANGED <<deskVars, adminSessions, remoteSessions, asked, overlapped,
                 codes, cookie, raced, crossed, left>>

-----------------------------------------------------------------------------
UserStep(s) ==
  \/ LoginUser(s) \/ LoginHash(s) \/ ResendFind(s) \/ ResendUser(s)
  \/ InsertCode(s) \/ MailCode(s) \/ MailFails(s) \/ DeleteCode(s) \/ ReplaceOthers(s)
  \/ FindCode(s) \/ CountAttempt(s) \/ ConsumeCode(s) \/ VerifyUser(s) \/ CreateSession(s)
  \/ CheckActive(s) \/ RouteUser(s) \/ RevokeSession(s) \/ ReadScope(s) \/ QueryDevices(s)
  \/ ReplyCode(s) \/ ReplyVerified(s) \/ ReplyLogout(s) \/ ReplyView(s)

Next ==
  \/ \E s \in Slots :
       \/ (DeskStarts(s) \/ DeskStep(s) \/ DeskFails(s)) /\ UNCHANGED loginVars
       \/ UserStarts(s)
       \/ UserStep(s)
       \/ UserFails(s)
  \/ \E c \in 1..MaxCodes : CoolsDown(c) \/ CodeExpires(c) \/ SessionExpires(c)
  \/ WindowPasses \/ Restart

Spec == Init /\ [][Next]_vars

-----------------------------------------------------------------------------
(* Safety *)

(* A code opens one session, unless two verifications had both read it before *)
(* either consumed it (verification.js:109 reads, compares and consumes in    *)
(* separate queries).                                                         *)
OneSessionPerCode ==
  \A i, j \in DOMAIN remoteSessions :
    i # j /\ remoteSessions[i].from = remoteSessions[j].from
      => remoteSessions[i].from \in raced

(* Wrong guesses exceed the maximum by those under way when it was reached,   *)
(* and by no more: the count is read and raised in separate queries.          *)
AttemptsBounded ==
  \A c \in DOMAIN codes : codes[c].attempts <= MaxCodeAttempts + Cardinality(Slots) - 1

(* Once a page has been told of a new code, no older one opens a session any  *)
(* more: remote_access.test.js:508 "resend flow respects cooldown and         *)
(* invalidates older codes after resend", with any two issues interleaved.    *)
OlderCodesDead ==
  \A c, d \in DOMAIN codes : codes[c].told /\ d < c => ~Open(d)

(* The newest code works until it is used, deleted or expired, unless two     *)
(* issues crossed: each of those consumes the other's.                        *)
NewestCodeWorks ==
  Len(codes) > 0 /\ codes[Len(codes)].state = "replaced" => crossed

(* When the account is disabled, or its remote access is, no session of it is *)
(* active but one that a verification already under way inserted after the    *)
(* revocation.                                                                *)
DisabledHasNoSession ==
  (Settled /\ ~Enabled) =>
    \A i \in DOMAIN remoteSessions :
      remoteSessions[i].state = "active" => remoteSessions[i].late

(* A session of which a page has said that it is over is not active, though   *)
(* the page does not look at the answer of its logout, which is a 401 while   *)
(* the account is disabled; but a late one may be, and what overlapping       *)
(* changes of the account gave back.                                          *)
SignedOutIsOver ==
  (Settled /\ ~overlapped) =>
    \A i \in left : Active(i, remoteSessions) => remoteSessions[i].late

(* A page shows no device that the account could not see at any time since    *)
(* the request began: the mode of the scope and its device ids are read in    *)
(* two queries, and written in several.                                       *)
ShownWasVisible ==
  \A s \in Slots : req[s].kind = "view" => req[s].shown \subseteq req[s].may

-----------------------------------------------------------------------------
(* What the run checks, part by part above. *)

(* A code is good for one session and a bounded number of guesses. *)
CodesAreBounded == OneSessionPerCode /\ AttemptsBounded

(* Of the codes of an account the newest counts, and no other. *)
NewestCodeCounts == OlderCodesDead /\ NewestCodeWorks

(* Sessions end when the desk or the user ends them. *)
SessionsEnd == DisabledHasNoSession /\ SignedOutIsOver

(* The stored scope of an account is one that was asked for, and a page shows *)
(* what it allows.                                                            *)
ScopeHolds == ScopeAsAsked /\ ShownWasVisible
=============================================================================
