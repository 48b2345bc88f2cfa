------------------------------ MODULE Sessions ------------------------------
(***************************************************************************)
(* Who is signed in, and what a request is let through to.                 *)
(*                                                                         *)
(* Three copies of an account's rights exist: the AdminUser row, the token *)
(* in the cookie of a browser, and what a handler in flight has read.  The *)
(* AuthSession row of a token is what ends it early.  The middleware looks *)
(* at the token, at the session row and at the MFA cookie; handlers ask    *)
(* getServerSession, which reads the account first and the session second. *)
(* Codes and their verification are the subject of TotpCodes, the limit on *)
(* failed attempts that of RateLimit.                                      *)
(***************************************************************************)
EXTENDS Integers, FiniteSets

CONSTANTS
    Account,      \* email addresses
    Session,      \* ids of AuthSession rows
    Browser,      \* cookie jars
    Handler,      \* requests that may be in flight at the same time
    MaxId,        \* bound: how many rows an email may have one after the other
    MaxPassword,  \* bound: how many different passwords there are
    AutoApprove,  \* setting: are accounts made by a sign-in approved?
    Workloads,    \* the sets of operations that are used together, one per behaviour
    NoSession, NoAccount, NoBrowser

Operations == {"credentials", "directory", "refresh", "signout", "call", "adminCall",
               "verify", "enrol", "disable", "password", "setRole", "setApproved",
               "setPassword", "reset", "delete", "create", "expiry", "fault",
               "roleSync", "onboarding"}

ASSUME BoundAssumption == MaxId \in Nat \ {0} /\ MaxPassword \in Nat \ {0}
ASSUME SettingAssumption == AutoApprove \in BOOLEAN
ASSUME WorkloadAssumption == Workloads \subseteq SUBSET Operations
ASSUME NullAssumption ==
    NoSession \notin Session /\ NoAccount \notin Account /\ NoBrowser \notin Browser

VARIABLES
    workload,   \* the operations of this behaviour
    account,    \* the AdminUser row of an email
    ids,        \* how many ids of rows an email has used up
    session,    \* the AuthSession rows
    expired,    \* sessions past their expiresAt
    token,      \* the session token in a browser's cookie jar
    cookie,     \* the session a browser's MFA cookie was issued for
    view,       \* the session of the page a browser shows, none for those of signing in
    pc,         \* where each handler is
    work,       \* what each handler has read
    proved,     \* history: sessions in which a code was accepted
    raced,      \* history: sessions of a password replaced since it was checked
    unrevoked   \* history: accounts a change of which revoked no session of theirs

rows == <<account, ids, session, expired>>
jars == <<token, cookie>>
history == <<proved, raced, unrevoked>>
vars == <<workload, rows, jars, view, pc, work, history>>

\* Settings: a sign-in through a directory overwrites the role; every account
\* must have a second factor.
SyncRoles == "roleSync" \in workload
Onboarding == "onboarding" \in workload

Role == {"ADMIN", "VIEWER"}
Passwords == 1..MaxPassword   \* 0 is an account of the directory, without one
AdminUser == [id: 0..MaxId, role: Role, approved: BOOLEAN, mfa: BOOLEAN,
              password: 0..MaxPassword]
NoRow == [id |-> 0, role |-> "VIEWER", approved |-> FALSE, mfa |-> FALSE, password |-> 0]

AuthSession == [of: Account \cup {NoAccount}, id: 0..MaxId,
                state: {"none", "active", "revoked", "gone"}, password: 0..MaxPassword]
NoSessionRow == [of |-> NoAccount, id |-> 0, state |-> "none", password |-> 0]

Token == [session: Session \cup {NoSession}, of: Account \cup {NoAccount}, id: 0..MaxId,
          role: Role, approved: BOOLEAN, mfa: BOOLEAN]
NoToken == [session |-> NoSession, of |-> NoAccount, id |-> 0,
            role |-> "VIEWER", approved |-> FALSE, mfa |-> FALSE]

PC == {"idle", "provision", "issue", "account", "session", "act", "verify", "enrol", "enrolling",
       "disable", "disabling", "password", "changing", "update", "delete", "insert", "revoke",
       "answer"}
Replies == {"none", "token", "cookie", "leave", "clear"}

\* What a handler carries: whose request it is, the session it came in and the
\* user of that session, the id of the account it works on, the row it read or is
\* to write, and for an answer the token it brings.
Field == {"role", "approved", "password", "mfa"}
Work == [browser: Browser \cup {NoBrowser}, op: Operations, of: Account \cup {NoAccount},
         session: Session \cup {NoSession}, user: 0..MaxId, id: 0..MaxId, row: AdminUser,
         field: Field,
         token: Token, reply: Replies]
NoWork == [browser |-> NoBrowser, op |-> "call", of |-> NoAccount, session |-> NoSession,
           user |-> 0, id |-> 0, row |-> NoRow, field |-> "role", token |-> NoToken, reply |-> "none"]

TypeOK ==
    /\ workload \in Workloads
    /\ account \in [Account -> AdminUser]
    /\ ids \in [Account -> 0..MaxId]
    /\ session \in [Session -> AuthSession]
    /\ expired \in SUBSET Session
    /\ token \in [Browser -> Token]
    /\ cookie \in [Browser -> Session \cup {NoSession}]
    /\ view \in [Browser -> Session \cup {NoSession}]
    /\ pc \in [Handler -> PC]
    /\ work \in [Handler -> Work]
    /\ proved \in SUBSET Session
    /\ raced \in SUBSET Session
    /\ unrevoked \in SUBSET Account

Init ==
    /\ workload \in Workloads
    /\ account = [a \in Account |-> NoRow]
    /\ ids = [a \in Account |-> 0]
    /\ session = [s \in Session |-> NoSessionRow]
    /\ expired = {}
    /\ token = [b \in Browser |-> NoToken]
    /\ cookie = [b \in Browser |-> NoSession]
    /\ view = [b \in Browser |-> NoSession]
    /\ pc = [h \in Handler |-> "idle"]
    /\ work = [h \in Handler |-> NoWork]
    /\ proved = {}
    /\ raced = {}
    /\ unrevoked = {}

-----------------------------------------------------------------------------
(* How a handler moves. *)

Begin(h, label, w) ==
    /\ pc[h] = "idle"
    /\ pc' = [pc EXCEPT ![h] = label]
    /\ work' = [work EXCEPT ![h] = w]

Goto(h, label, w) ==
    /\ pc' = [pc EXCEPT ![h] = label]
    /\ work' = [work EXCEPT ![h] = w]

Finish(h) == Goto(h, "idle", NoWork)

\* Mutant of Reply: the MFA cookie is issued for the account.
ReplyForAccount(h, r) ==
    [NoWork EXCEPT !.browser = work[h].browser, !.session = work[h].of, !.reply = r]

\* What is left of a handler that only has to answer.
Reply(h, r) ==
    [NoWork EXCEPT !.browser = work[h].browser, !.session = work[h].session, !.reply = r]

Respond(h, r) == Goto(h, "answer", Reply(h, r))
RespondToken(h, t) == Goto(h, "answer", [Reply(h, "token") EXCEPT !.token = t])

Exists(a) == account[a].id # 0

\* The row this handler knows by its id is still there.
SameRow(h) == account[work[h].of].id = work[h].id

\* isAuthSessionActive: the row of this id and of this user.
Active(s, id) ==
    /\ s # NoSession
    /\ session[s].state = "active"
    /\ session[s].id = id
    /\ s \notin expired

TokenFor(s, a, row) ==
    [session |-> s, of |-> a, id |-> row.id, role |-> row.role,
     approved |-> row.approved, mfa |-> row.mfa]

-----------------------------------------------------------------------------
(* Signing in. *)

\* The password is compared with the row read; an account without one is for
\* the directory.
StartCredentials(h, b, a, p) ==
    /\ "credentials" \in workload
    /\ Exists(a)
    /\ p # 0 /\ account[a].password = p
    /\ Begin(h, "issue", [NoWork EXCEPT !.browser = b, !.op = "credentials", !.of = a,
                                        !.id = account[a].id, !.row = account[a]])
    /\ UNCHANGED <<rows, jars, view, history>>

\* Google, OIDC and LDAP vouch for the email; the row is looked up after that.
StartDirectory(h, b, a, role) ==
    /\ "directory" \in workload
    /\ Begin(h, "provision", [NoWork EXCEPT !.browser = b, !.op = "directory", !.of = a,
                    !.id = account[a].id, !.row = account[a], !.token.role = role])
    /\ UNCHANGED <<rows, jars, view, history>>

\* A sign-in that found no row makes one, which fails when another was faster.
\* Bound: MaxId.
MakeAccount(h) ==
    /\ pc[h] = "provision"
    /\ work[h].id = 0
    /\ LET a == work[h].of
           made == [NoRow EXCEPT !.id = ids[a] + 1, !.role = work[h].token.role,
                                 !.approved = AutoApprove]
       IN  IF Exists(a)
           THEN Finish(h) /\ UNCHANGED <<account, ids>>
           ELSE /\ ids[a] < MaxId
                /\ account' = [account EXCEPT ![a] = made]
                /\ ids' = [ids EXCEPT ![a] = @ + 1]
                /\ Goto(h, "issue", [work[h] EXCEPT !.id = made.id, !.row = made,
                                                    !.token = NoToken])
    /\ UNCHANGED <<session, expired, jars, view, history>>

\* One that found a row overwrites its role when roles are synchronised.  No
\* session is revoked for it.
SyncRole(h) ==
    /\ pc[h] = "provision"
    /\ work[h].id # 0
    /\ LET a == work[h].of
           role == work[h].token.role
       IN  IF SyncRoles /\ work[h].row.role # role
           THEN IF SameRow(h)
                THEN /\ account' = [account EXCEPT ![a].role = role]
                     /\ Goto(h, "issue", [work[h] EXCEPT !.row = account'[a], !.token = NoToken])
                ELSE Finish(h) /\ UNCHANGED account
           ELSE Goto(h, "issue", [work[h] EXCEPT !.token = NoToken]) /\ UNCHANGED account
    /\ UNCHANGED <<ids, session, expired, jars, view, history>>

\* createAuthSession: the row refers to the account by id.  The rights of the
\* token are those read before.
Issue(h) ==
    /\ pc[h] = "issue"
    /\ LET a == work[h].of
           checked == IF work[h].op = "credentials" THEN work[h].row.password ELSE 0
       IN  IF SameRow(h)
           THEN \E s \in Session :
                  /\ session[s].state = "none"
                  /\ session' = [session EXCEPT ![s] =
                        [of |-> a, id |-> work[h].id, state |-> "active", password |-> checked]]
                  /\ raced' = IF checked \in {0, account[a].password} THEN raced
                              ELSE raced \cup {s}
                  /\ RespondToken(h, TokenFor(s, a, work[h].row))
           ELSE Finish(h) /\ UNCHANGED <<session, raced>>
    /\ UNCHANGED <<account, ids, expired, jars, view, proved, unrevoked>>

-----------------------------------------------------------------------------
(* The middleware, which has the cookies and the session row. *)

Valid(b) == Active(token[b].session, token[b].id)
Authorized(b) == token[b] # NoToken /\ Valid(b)

\* The MFA cookie names the session it was issued for.
Verified(b) == cookie[b] = token[b].session

\* Mutant of Destination: any MFA cookie will do.
AnyCookieDestination(b) ==
    IF ~Authorized(b) THEN "login"
    ELSE IF ~token[b].approved THEN "pending"
    ELSE IF Onboarding /\ ~token[b].mfa THEN "setup"
    ELSE IF token[b].mfa /\ cookie[b] = NoSession THEN "verify"
    ELSE "page"

\* Where a request for a page ends.
Destination(b) ==
    IF ~Authorized(b) THEN "login"
    ELSE IF ~token[b].approved THEN "pending"
    ELSE IF Onboarding /\ ~token[b].mfa THEN "setup"
    ELSE IF token[b].mfa /\ ~Verified(b) THEN "verify"
    ELSE "page"

OpenPage(b) ==
    /\ view' = [view EXCEPT ![b] = IF Destination(b) = "page" THEN token[b].session
                                                              ELSE NoSession]
    /\ UNCHANGED <<rows, jars, pc, work, history>>

\* What the middleware lets through to a handler: nothing stands before
\* /api/auth, and the routes of the second factor only ask for approval.
Passes(b, op) ==
    \/ op \in {"refresh", "verify"}
    \/ op \in {"enrol", "disable"} /\ Destination(b) \in {"page", "setup", "verify"}
    \/ op \in {"call", "adminCall", "password"} /\ Destination(b) = "page"

-----------------------------------------------------------------------------
(* getServerSession: the jwt callback reads the account, then the session. *)

Calls == {"refresh", "verify", "enrol", "disable", "password", "call", "adminCall"}

StartCall(h, b, op) ==
    /\ op \in workload \cap Calls
    /\ token[b] # NoToken
    /\ Passes(b, op)
    /\ Begin(h, "account", [NoWork EXCEPT !.browser = b, !.op = op, !.of = token[b].of,
                                          !.session = token[b].session])
    /\ UNCHANGED <<rows, jars, view, history>>

\* No session: a refresh answers with an empty token, anything else with 401.
Refuse(h) ==
    IF work[h].op = "refresh" THEN RespondToken(h, NoToken) ELSE Finish(h)

ReadAccount(h) ==
    /\ pc[h] = "account"
    /\ LET row == account[work[h].of]
       IN  IF Exists(work[h].of)
           THEN Goto(h, "session", [work[h] EXCEPT !.user = row.id, !.id = row.id,
                                               !.row = row])
           ELSE Refuse(h)
    /\ UNCHANGED <<rows, jars, view, history>>

\* requireSession, with the rights read from the account.
Admits(op, row) ==
    /\ op # "verify" => row.approved
    /\ op = "adminCall" => row.role = "ADMIN"

Step(op) == CASE op \in {"call", "adminCall"} -> "act" [] OTHER -> op

\* Mutant of ReadSession: the rights are those of the token in the request.
ReadSessionOfToken(h) ==
    /\ pc[h] = "session"
    /\ IF ~Active(work[h].session, work[h].id)
       THEN Refuse(h)
       ELSE \/ /\ work[h].op = "refresh"
               /\ RespondToken(h, TokenFor(work[h].session, work[h].of, work[h].row))
            \/ /\ work[h].op # "refresh"
               /\ IF Admits(work[h].op, token[work[h].browser])
                  THEN Goto(h, Step(work[h].op), [work[h] EXCEPT !.row = NoRow])
                  ELSE Finish(h)
    /\ UNCHANGED <<rows, jars, view, history>>

ReadSession(h) ==
    /\ pc[h] = "session"
    /\ IF ~Active(work[h].session, work[h].id)
       THEN Refuse(h)
       ELSE \/ /\ work[h].op = "refresh"
               /\ RespondToken(h, TokenFor(work[h].session, work[h].of, work[h].row))
            \/ /\ work[h].op # "refresh"
               /\ IF Admits(work[h].op, work[h].row)
                  THEN Goto(h, Step(work[h].op), [work[h] EXCEPT !.row = NoRow])
                  ELSE Finish(h)
    /\ UNCHANGED <<rows, jars, view, history>>

\* A handler that was admitted does what it is for.
Act(h) ==
    /\ pc[h] = "act"
    /\ Finish(h)
    /\ UNCHANGED <<rows, jars, view, history>>

-----------------------------------------------------------------------------
(* The second factor.  That a code is accepted is decided by TotpCodes. *)

\* A code of the secret in use: the answer carries a cookie for the session.
VerifyCode(h) ==
    /\ pc[h] = "verify"
    /\ \/ /\ account[work[h].of].mfa
          /\ proved' = proved \cup {work[h].session}
          /\ Respond(h, "cookie")
       \/ Finish(h) /\ UNCHANGED proved
    /\ UNCHANGED <<rows, jars, view, raced, unrevoked>>

\* A code of the pending secret, when enabling and when reconfiguring.
EnterCode(h) ==
    /\ pc[h] = "enrol"
    /\ \/ /\ Exists(work[h].of)
          /\ proved' = proved \cup {work[h].session}
          /\ Goto(h, "enrolling", [work[h] EXCEPT !.id = account[work[h].of].id])
       \/ Finish(h) /\ UNCHANGED proved
    /\ UNCHANGED <<rows, jars, view, raced, unrevoked>>

EnableMfa(h) ==
    /\ pc[h] = "enrolling"
    /\ IF SameRow(h)
       THEN /\ account' = [account EXCEPT ![work[h].of].mfa = TRUE]
            /\ Respond(h, "cookie")
       ELSE Finish(h) /\ UNCHANGED account
    /\ UNCHANGED <<ids, session, expired, jars, view, history>>

StartDisable(h) ==
    /\ pc[h] = "disable"
    /\ \/ /\ account[work[h].of].mfa
          /\ Goto(h, "disabling", [work[h] EXCEPT !.id = account[work[h].of].id])
       \/ Finish(h)
    /\ UNCHANGED <<rows, jars, view, history>>

\* The handlers about one's own account find it by its email and revoke the
\* sessions of the user of their session.
RevokeOwn(h) ==
    /\ Goto(h, "revoke", [work[h] EXCEPT !.id = work[h].user])
    /\ unrevoked' = IF work[h].user = work[h].id THEN unrevoked
                    ELSE unrevoked \cup {work[h].of}

DisableMfa(h) ==
    /\ pc[h] = "disabling"
    /\ IF SameRow(h)
       THEN /\ account' = [account EXCEPT ![work[h].of].mfa = FALSE]
            /\ RevokeOwn(h)
       ELSE Finish(h) /\ UNCHANGED <<account, unrevoked>>
    /\ UNCHANGED <<ids, session, expired, jars, view, proved, raced>>

-----------------------------------------------------------------------------
(* Changing one's own password. *)

ComparePassword(h) ==
    /\ pc[h] = "password"
    /\ \/ /\ Exists(work[h].of)
          /\ account[work[h].of].password # 0
          /\ Goto(h, "changing", [work[h] EXCEPT !.id = account[work[h].of].id])
       \/ Finish(h)
    /\ UNCHANGED <<rows, jars, view, history>>

ChangePassword(h) ==
    /\ pc[h] = "changing"
    /\ IF SameRow(h)
       THEN /\ \E p \in Passwords : account' = [account EXCEPT ![work[h].of].password = p]
            /\ RevokeOwn(h)
       ELSE Finish(h) /\ UNCHANGED <<account, unrevoked>>
    /\ UNCHANGED <<ids, session, expired, jars, view, proved, raced>>

-----------------------------------------------------------------------------
(* Administrators, about an account that is not their own. *)

\* A password can be replaced only where there is one.
StartUpdate(h, a, op, field, row) ==
    /\ op \in workload
    /\ Exists(a)
    /\ field = "password" => account[a].password # 0
    /\ Begin(h, "update", [NoWork EXCEPT !.op = op, !.of = a, !.id = account[a].id,
                                         !.field = field, !.row = row])
    /\ UNCHANGED <<rows, jars, view, history>>

StartReset(h, a) ==
    /\ "reset" \in workload
    /\ Exists(a)
    /\ Begin(h, "update", [NoWork EXCEPT !.op = "reset", !.of = a, !.id = account[a].id,
                                         !.field = "mfa"])
    /\ UNCHANGED <<rows, jars, view, history>>

\* Mutant of WriteChange: the session rows are left alone.
WriteChangeOnly(h) ==
    /\ pc[h] = "update"
    /\ IF SameRow(h)
       THEN account' = [account EXCEPT ![work[h].of][work[h].field] =
                                           work[h].row[work[h].field]]
       ELSE UNCHANGED account
    /\ Finish(h)
    /\ UNCHANGED <<ids, session, expired, jars, view, history>>

\* The row first, its sessions after.
WriteChange(h) ==
    /\ pc[h] = "update"
    /\ IF SameRow(h)
       THEN /\ account' = [account EXCEPT ![work[h].of][work[h].field] =
                                              work[h].row[work[h].field]]
            /\ Goto(h, "revoke", work[h])
       ELSE Finish(h) /\ UNCHANGED account
    /\ UNCHANGED <<ids, session, expired, jars, view, history>>

\* Every session of the account that is active by now.
RevokeAll(h) ==
    /\ pc[h] = "revoke"
    /\ session' = [s \in Session |->
                     IF session[s].of = work[h].of /\ session[s].id = work[h].id
                        /\ session[s].state = "active"
                     THEN [session[s] EXCEPT !.state = "revoked"] ELSE session[s]]
    /\ unrevoked' = IF SameRow(h) THEN unrevoked \ {work[h].of} ELSE unrevoked
    /\ IF work[h].browser = NoBrowser THEN Finish(h) ELSE Respond(h, "clear")
    /\ UNCHANGED <<account, ids, expired, jars, view, proved, raced>>

StartDelete(h, a) ==
    /\ "delete" \in workload
    /\ Exists(a)
    /\ Begin(h, "delete", [NoWork EXCEPT !.op = "delete", !.of = a, !.id = account[a].id])
    /\ UNCHANGED <<rows, jars, view, history>>

\* The schema deletes the sessions with the account.
DeleteAccount(h) ==
    /\ pc[h] = "delete"
    /\ IF SameRow(h)
       THEN /\ account' = [account EXCEPT ![work[h].of] = NoRow]
            /\ session' = [s \in Session |->
                             IF session[s].of = work[h].of /\ session[s].id = work[h].id
                             THEN [session[s] EXCEPT !.state = "gone"] ELSE session[s]]
       ELSE UNCHANGED <<account, session>>
    /\ Finish(h)
    /\ UNCHANGED <<ids, expired, jars, view, history>>

StartCreate(h, a, role, p) ==
    /\ "create" \in workload
    /\ ~Exists(a)
    /\ Begin(h, "insert", [NoWork EXCEPT !.op = "create", !.of = a,
                             !.row = [NoRow EXCEPT !.role = role, !.password = p]])
    /\ UNCHANGED <<rows, jars, view, history>>

\* Accounts made by an administrator are approved.  Bound: MaxId.
CreateAccount(h) ==
    /\ pc[h] = "insert"
    /\ LET a == work[h].of
       IN  IF Exists(a)
           THEN UNCHANGED <<account, ids>>
           ELSE /\ ids[a] < MaxId
                /\ account' = [account EXCEPT ![a] = [work[h].row EXCEPT !.id = ids[a] + 1,
                                                                         !.approved = TRUE]]
                /\ ids' = [ids EXCEPT ![a] = @ + 1]
    /\ Finish(h)
    /\ UNCHANGED <<session, expired, jars, view, history>>

-----------------------------------------------------------------------------
(* Signing out, answers, time and faults. *)

\* The session of the token that came with the request.
SignOut(h, b) ==
    /\ "signout" \in workload
    /\ token[b].session # NoSession
    /\ Begin(h, "answer", [NoWork EXCEPT !.browser = b, !.op = "signout", !.reply = "leave"])
    /\ session' = [session EXCEPT ![token[b].session].state =
                      IF @ = "active" THEN "revoked" ELSE @]
    /\ UNCHANGED <<account, ids, expired, jars, view, history>>

\* The browser takes the cookies of the answer, whatever it holds by then.
\* Signing out leaves the MFA cookie.
Answer(h) ==
    /\ pc[h] = "answer"
    /\ LET b == work[h].browser
           r == work[h].reply
       IN  /\ token' = [token EXCEPT ![b] = CASE r = "token" -> work[h].token
                                              [] r \in {"leave", "clear"} -> NoToken
                                              [] OTHER -> @]
           /\ cookie' = [cookie EXCEPT ![b] = CASE r = "cookie" -> work[h].session
                                                [] r = "clear" -> NoSession
                                                [] OTHER -> @]
    /\ Finish(h)
    /\ UNCHANGED <<rows, view, history>>

Expire(s) ==
    /\ "expiry" \in workload
    /\ session[s].state # "none"
    /\ s \notin expired
    /\ expired' = expired \cup {s}
    /\ UNCHANGED <<account, ids, session, jars, view, pc, work, history>>

\* A statement fails, or the process stops, or the answer does not arrive: what
\* the handler had still to do is not done.
Lose(h) ==
    /\ "fault" \in workload
    /\ pc[h] # "idle"
    /\ unrevoked' = IF pc[h] = "revoke" /\ SameRow(h) THEN unrevoked \cup {work[h].of}
                    ELSE unrevoked
    /\ Finish(h)
    /\ UNCHANGED <<rows, jars, view, proved, raced>>

-----------------------------------------------------------------------------

Start(h) ==
    \/ \E b \in Browser, a \in Account :
         \/ \E p \in Passwords : StartCredentials(h, b, a, p)
         \/ \E role \in Role : StartDirectory(h, b, a, role)
    \/ \E b \in Browser : SignOut(h, b) \/ \E op \in Calls : StartCall(h, b, op)
    \/ \E a \in Account :
         \/ \E role \in Role : StartUpdate(h, a, "setRole", "role", [NoRow EXCEPT !.role = role])
         \/ \E ok \in BOOLEAN : StartUpdate(h, a, "setApproved", "approved", [NoRow EXCEPT !.approved = ok])
         \/ \E p \in Passwords : StartUpdate(h, a, "setPassword", "password", [NoRow EXCEPT !.password = p])
         \/ StartReset(h, a)
         \/ StartDelete(h, a)
         \/ \E role \in Role, p \in Passwords : StartCreate(h, a, role, p)

Continue(h) ==
    \/ MakeAccount(h) \/ SyncRole(h) \/ Issue(h)
    \/ ReadAccount(h) \/ ReadSession(h) \/ Act(h)
    \/ VerifyCode(h) \/ EnterCode(h) \/ EnableMfa(h) \/ StartDisable(h) \/ DisableMfa(h)
    \/ ComparePassword(h) \/ ChangePassword(h)
    \/ WriteChange(h) \/ RevokeAll(h) \/ DeleteAccount(h) \/ CreateAccount(h)
    \/ Answer(h) \/ Lose(h)

Next ==
    /\ \/ \E h \in Handler : Start(h) \/ Continue(h)
       \/ \E b \in Browser : OpenPage(b)
       \/ \E s \in Session : Expire(s)
    /\ UNCHANGED workload

Spec == Init /\ [][Next]_vars

-----------------------------------------------------------------------------
(* Safety. *)

\* Where every account must have a second factor, a page is only ever shown in
\* a session in which its user entered a code: tokens that are out of date, MFA
\* cookies of earlier sessions and answers that come late do not add up to more.
SecondFactor ==
    Onboarding => \A b \in Browser : view[b] # NoSession => view[b] \in proved

Changing(a) == \E h \in Handler : pc[h] = "revoke" /\ work[h].of = a /\ SameRow(h)

\* Changing a password ends the sessions the old one opened, except those whose
\* sign-in had checked it by then and had not yet inserted the session, and
\* unless the statement that revokes them was lost or was about the sessions of a
\* former account of this email.
OldPasswordOut ==
    \A s \in Session \ raced :
        LET a == session[s].of
        IN  session[s].state = "active" /\ session[s].password # 0
                /\ session[s].password # account[a].password
            => Changing(a) \/ a \in unrevoked

\* Roles that no directory overwrites: a call is admitted with rights its
\* account has at that moment, although the account was read before, unless
\* sessions are just being revoked for the change or that statement was lost.
NoStaleRights ==
    [][~SyncRoles =>
         \A h \in Handler :
            pc[h] = "session" /\ pc'[h] = "act" =>
                LET a == work[h].of
                IN  \/ account[a].id = work[h].id /\ Admits(work[h].op, account[a])
                    \/ Changing(a) \/ a \in unrevoked]_vars
=============================================================================
