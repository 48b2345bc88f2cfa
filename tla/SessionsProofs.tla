--------------------------- MODULE SessionsProofs ---------------------------
(***************************************************************************)
(* What holds of sign-ins and sessions for any number of accounts, browsers *)
(* and requests.  The properties compare an account with what was read of   *)
(* it before; what connects the two is the session, which is of the account *)
(* a token and a handler say it is of (Linked), and which every change of   *)
(* the account ends (AccountStep).                                          *)
(***************************************************************************)
EXTENDS Sessions, TLAPS

\* A token names a session, and the account the session is of.
TokenOK(t) ==
    t # NoToken => t.session \in Session /\ t.of \in Account /\ session[t.session].of = t.of

\* What a handler has read by the time it comes to a step.
PlaceOK(label, w) ==
    /\ label \notin {"idle", "answer"} => w.of \in Account
    /\ label \in {"account", "session", "verify", "enrol"} =>
            w.session \in Session /\ session[w.session].of = w.of
    /\ label \in {"account", "session"} => w.op \in Calls
    /\ label = "issue" => w.id # 0
    /\ label = "answer" /\ w.reply = "token" => TokenOK(w.token)
    /\ label = "enrolling" \/ (label = "answer" /\ w.reply = "cookie") => w.session \in proved

\* An active session is of the row its account has now.
SessionsOK ==
    \A s \in Session :
        /\ session[s].state = "none" => session[s].of = NoAccount
        /\ session[s].state # "none" => session[s].of \in Account
        /\ session[s].state = "active" => session[s].id # 0 /\ account[session[s].of].id = session[s].id
TokensOK == \A b \in Browser : TokenOK(token[b])
PlacesOK == \A h \in Handler : PlaceOK(pc[h], work[h])

DataOK ==
    /\ workload \in Workloads
    /\ account \in [Account -> AdminUser] /\ ids \in [Account -> 0..MaxId]
    /\ session \in [Session -> AuthSession] /\ expired \in SUBSET Session
    /\ token \in [Browser -> Token] /\ cookie \in [Browser -> Session \cup {NoSession}]
    /\ view \in [Browser -> Session \cup {NoSession}]
    /\ proved \in SUBSET Session /\ raced \in SUBSET Session /\ unrevoked \in SUBSET Account
HandlersOK == pc \in [Handler -> PC] /\ work \in [Handler -> Work]

TypeInv == DataOK /\ HandlersOK /\ SessionsOK /\ TokensOK /\ PlacesOK

-----------------------------------------------------------------------------

USE BoundAssumption, SettingAssumption, NullAssumption

LEMMA Nulls ==
    /\ NoRow \in AdminUser /\ NoToken \in Token /\ NoWork \in Work /\ NoSessionRow \in AuthSession
    /\ NoRow.id = 0 /\ NoRow.password = 0
    /\ NoToken.session = NoSession /\ NoWork.reply = "none" /\ NoWork.token = NoToken
<1>1. NoRow \in AdminUser /\ NoRow.id = 0 /\ NoRow.password = 0
    BY DEF NoRow, AdminUser, Role
<1>2. NoToken \in Token /\ NoToken.session = NoSession
    BY DEF NoToken, Token, Role
<1>3. NoSessionRow \in AuthSession
    BY DEF NoSessionRow, AuthSession
<1>4. NoWork \in Work /\ NoWork.reply = "none" /\ NoWork.token = NoToken
    BY <1>1, <1>2 DEF NoWork, Work, Operations, Field, Replies
<1> QED BY <1>1, <1>2, <1>3, <1>4

\* The rows a handler writes.
LEMMA RowType ==
    ASSUME NEW row \in AdminUser
    PROVE  /\ \A role \in Role : [row EXCEPT !.role = role] \in AdminUser
           /\ \A ok \in BOOLEAN : [row EXCEPT !.approved = ok] \in AdminUser /\ [row EXCEPT !.mfa = ok] \in AdminUser
           /\ \A p \in 0..MaxPassword : [row EXCEPT !.password = p] \in AdminUser
           /\ \A n \in 0..MaxId, ok \in BOOLEAN : [row EXCEPT !.id = n, !.approved = ok] \in AdminUser
           /\ row.id \in 0..MaxId /\ row.role \in Role /\ row.approved \in BOOLEAN /\ row.mfa \in BOOLEAN
           /\ row.password \in 0..MaxPassword
BY DEF AdminUser

LEMMA FieldType ==
    ASSUME NEW row \in AdminUser, NEW new \in AdminUser, NEW f \in Field
    PROVE  [row EXCEPT ![f] = new[f]] \in AdminUser /\ [row EXCEPT ![f] = new[f]].id = row.id
<1>1. CASE f = "role"
    BY <1>1 DEF AdminUser
<1>2. CASE f = "approved"
    BY <1>2 DEF AdminUser
<1>3. CASE f = "password"
    BY <1>3 DEF AdminUser
<1>4. CASE f = "mfa"
    BY <1>4 DEF AdminUser
<1> QED BY <1>1, <1>2, <1>3, <1>4 DEF Field

LEMMA TokenForType ==
    ASSUME NEW s \in Session, NEW a \in Account, NEW row \in AdminUser
    PROVE  TokenFor(s, a, row) \in Token /\ TokenFor(s, a, row).session = s /\ TokenFor(s, a, row).of = a
BY RowType DEF TokenFor, Token

\* An answer carries the session of the handler, and a token only if it says so.
LEMMA ReplyType ==
    ASSUME HandlersOK, NEW h \in Handler, NEW r \in Replies, NEW t \in Token
    PROVE  /\ Reply(h, r) \in Work /\ Reply(h, r).reply = r /\ Reply(h, r).session = work[h].session
           /\ [Reply(h, r) EXCEPT !.token = t] \in Work
           /\ [Reply(h, r) EXCEPT !.token = t].reply = r /\ [Reply(h, r) EXCEPT !.token = t].token = t
<1>1. work[h].browser \in Browser \cup {NoBrowser} /\ work[h].session \in Session \cup {NoSession}
    BY DEF HandlersOK, Work
<1>2. PICK w : w = Reply(h, r)
    OBVIOUS
<1>3. w \in Work /\ w.reply = r /\ w.session = work[h].session
    BY <1>1, <1>2, Nulls DEF Reply, Work
<1>4. [w EXCEPT !.token = t] \in Work /\ [w EXCEPT !.token = t].reply = r /\ [w EXCEPT !.token = t].token = t
    BY <1>3 DEF Work
<1> QED BY <1>2, <1>3, <1>4

\* A handler goes on, and the others stay where they are.
LEMMA GotoOnly ==
    ASSUME HandlersOK, NEW h \in Handler, NEW label \in PC, NEW w \in Work, Goto(h, label, w)
    PROVE  /\ HandlersOK' /\ pc'[h] = label /\ work'[h] = w
           /\ \A g \in Handler \ {h} : pc'[g] = pc[g] /\ work'[g] = work[g]
BY DEF HandlersOK, Goto

\* While sessions are not given to other accounts and codes stay accepted, what a
\* token says and what a handler has read remain so.
OfStays ==
    /\ \A s \in Session : session[s].of \in Account => session'[s].of = session[s].of
    /\ proved \subseteq proved'

LEMMA TokenStays == ASSUME OfStays, NEW t, TokenOK(t) PROVE TokenOK(t)'
BY DEF OfStays, TokenOK

LEMMA PlaceStays == ASSUME OfStays, NEW label, NEW w, PlaceOK(label, w) PROVE PlaceOK(label, w)'
BY TokenStays DEF OfStays, PlaceOK

\* A handler goes to a step with what it should have read by then.
GoesOn(h) == \E label \in PC, w \in Work : Goto(h, label, w) /\ PlaceOK(label, w)'

\* What remains to be shown of a step of one handler.
LEMMA HandlerStep ==
    ASSUME TypeInv, DataOK', OfStays, SessionsOK', TokensOK', NEW h \in Handler, GoesOn(h)
    PROVE  TypeInv'
<1>w. PICK label \in PC, w \in Work : Goto(h, label, w) /\ PlaceOK(label, w)'
    BY DEF GoesOn
<1>1. /\ HandlersOK' /\ pc'[h] = label /\ work'[h] = w
      /\ \A g \in Handler \ {h} : pc'[g] = pc[g] /\ work'[g] = work[g]
    BY <1>w, GotoOnly DEF TypeInv
<1>2. \A g \in Handler \ {h} : PlaceOK(pc[g], work[g])'
  <2> SUFFICES ASSUME NEW g \in Handler \ {h} PROVE PlaceOK(pc[g], work[g])'
      OBVIOUS
  <2>1. PICK l, v : l = pc[g] /\ v = work[g]
    OBVIOUS
  <2>2. PlaceOK(l, v)'
    BY <2>1, PlaceStays DEF TypeInv, PlacesOK
  <2>3. l = pc'[g] /\ v = work'[g]
    BY <1>1, <2>1
  <2> QED BY <2>2, <2>3
<1>3. PlaceOK(pc[h], work[h])'
    BY <1>w, <1>1
<1> QED BY <1>1, <1>2, <1>3 DEF TypeInv, PlacesOK

\* A step that only reads.
LEMMA ReadStep ==
    ASSUME TypeInv, UNCHANGED <<workload, rows, jars, view>>, proved' \in SUBSET Session, proved \subseteq proved',
           UNCHANGED raced, unrevoked' \in SUBSET Account,
           NEW h \in Handler, GoesOn(h)
    PROVE  TypeInv'
<1>1. DataOK' /\ OfStays
    BY DEF TypeInv, DataOK, OfStays, rows, jars
<1>2. SessionsOK'
    BY DEF TypeInv, SessionsOK, rows
<1>3. TokensOK'
  <2>1. \A b \in Browser : TokenOK(token[b])'
    <3> SUFFICES ASSUME NEW b \in Browser PROVE TokenOK(token[b])'
        OBVIOUS
    <3>1. PICK t : t = token[b]
      OBVIOUS
    <3>2. TokenOK(t)'
      BY <1>1, <3>1, TokenStays DEF TypeInv, TokensOK
    <3> QED BY <3>1, <3>2 DEF jars
  <2> QED BY <2>1 DEF TokensOK
<1> QED BY <1>1, <1>2, <1>3, HandlerStep

\* The start of a request about an account.
LEMMA StartStep ==
    ASSUME TypeInv, UNCHANGED <<workload, rows, jars, view, history>>,
           NEW h \in Handler, NEW label \in {"issue", "provision", "update", "delete", "insert"}, NEW w \in Work,
           w.of \in Account, label = "issue" => w.id # 0, Begin(h, label, w)
    PROVE  TypeInv'
<1>1. label \in PC /\ Goto(h, label, w) /\ PlaceOK(label, w)'
    BY DEF PC, Begin, Goto, PlaceOK
<1>2. GoesOn(h)
    BY <1>1 DEF GoesOn
<1> QED BY <1>2, ReadStep DEF TypeInv, DataOK, history

LEMMA TypeOfStart == ASSUME TypeInv, UNCHANGED workload, NEW h \in Handler, Start(h) PROVE TypeInv'
<1>t. \A a \in Account : account[a] \in AdminUser /\ account[a].id \in 0..MaxId
    BY RowType DEF TypeInv, DataOK
<1>1. ASSUME NEW b \in Browser, NEW a \in Account, NEW p \in Passwords, StartCredentials(h, b, a, p) PROVE TypeInv'
  <2>1. PICK w : w = [NoWork EXCEPT !.browser = b, !.op = "credentials", !.of = a,
                                    !.id = account[a].id, !.row = account[a]]
    OBVIOUS
  <2>2. w \in Work /\ w.of = a /\ w.id = account[a].id
    BY <1>t, <2>1, Nulls, ZenonT(30) DEF Work, Operations
  <2>3. w.id # 0 /\ Begin(h, "issue", w) /\ UNCHANGED <<rows, jars, view, history>>
    BY <1>1, <2>1, <2>2 DEF StartCredentials, Exists
  <2> QED BY <2>2, <2>3, StartStep
<1>2. ASSUME NEW b \in Browser, NEW a \in Account, NEW role \in Role, StartDirectory(h, b, a, role) PROVE TypeInv'
  <2>1. PICK w : w = [NoWork EXCEPT !.browser = b, !.op = "directory", !.of = a,
                            !.id = account[a].id, !.row = account[a], !.token.role = role]
    OBVIOUS
  <2>2. [NoToken EXCEPT !.role = role] \in Token
    BY Nulls DEF Token
  <2>3. w \in Work /\ w.of = a
    BY <1>t, <2>1, <2>2, Nulls, ZenonT(30) DEF Work, Operations
  <2>4. Begin(h, "provision", w) /\ UNCHANGED <<rows, jars, view, history>>
    BY <1>2, <2>1 DEF StartDirectory
  <2> QED BY <2>3, <2>4, StartStep
<1>3. ASSUME NEW b \in Browser, SignOut(h, b) PROVE TypeInv'
  <2>1. PICK w : w = [NoWork EXCEPT !.browser = b, !.op = "signout", !.reply = "leave"]
    OBVIOUS
  <2>2. w \in Work /\ w.reply = "leave"
    BY <2>1, Nulls DEF Work, Operations, Replies
  <2>3. "answer" \in PC /\ Goto(h, "answer", w) /\ PlaceOK("answer", w)'
    BY <1>3, <2>1, <2>2 DEF SignOut, PC, Begin, Goto, PlaceOK
  <2>4. PICK i : i = token[b].session
    OBVIOUS
  <2>5. /\ session' = [session EXCEPT ![i].state = IF @ = "active" THEN "revoked" ELSE @]
        /\ UNCHANGED <<account, ids, expired, jars, view, history>> /\ i # NoSession
    BY <1>3, <2>4 DEF SignOut
  <2>6. i \in Session
    BY <2>4, <2>5 DEF TypeInv, DataOK, Token
  <2>7. \A s \in Session : session'[s].of = session[s].of
    BY <2>5, <2>6 DEF TypeInv, DataOK, AuthSession
  <2>8. DataOK'
    BY <2>5, <2>6 DEF TypeInv, DataOK, AuthSession, jars, history
  <2>9. OfStays
    BY <2>5, <2>7 DEF OfStays, history
  <2>10. SessionsOK'
    BY <2>5, <2>6 DEF TypeInv, SessionsOK, DataOK, AuthSession
  <2>11. TokensOK'
    BY <2>5, <2>9, TokenStays DEF TypeInv, TokensOK, jars
  <2>12. GoesOn(h)
    BY <2>2, <2>3 DEF GoesOn
  <2> QED BY <2>8, <2>9, <2>10, <2>11, <2>12, HandlerStep
<1>4. ASSUME NEW b \in Browser, NEW op \in Calls, StartCall(h, b, op) PROVE TypeInv'
  <2>1. PICK w : w = [NoWork EXCEPT !.browser = b, !.op = op, !.of = token[b].of, !.session = token[b].session]
    OBVIOUS
  <2>2. token[b] \in Token /\ token[b] # NoToken /\ TokenOK(token[b])
    BY <1>4 DEF StartCall, TypeInv, DataOK, TokensOK
  <2>3. w \in Work /\ w.of = token[b].of /\ w.session = token[b].session /\ w.op \in Calls
    BY <2>1, <2>2, Nulls, ZenonT(30) DEF Work, Operations, Calls, Token
  <2>4. Goto(h, "account", w) /\ UNCHANGED <<rows, jars, view, history>>
    BY <1>4, <2>1 DEF StartCall, Begin, Goto
  <2>5. PlaceOK("account", w)'
    BY <2>2, <2>3, <2>4 DEF PlaceOK, TokenOK, rows
  <2>6. GoesOn(h)
    BY <2>3, <2>4, <2>5 DEF GoesOn, PC
  <2> QED BY <2>4, <2>6, ReadStep DEF TypeInv, DataOK, history
<1>5. ASSUME NEW a \in Account, NEW op \in {"setRole", "setApproved", "setPassword"}, NEW field \in Field,
             NEW row \in AdminUser, StartUpdate(h, a, op, field, row)
      PROVE  TypeInv'
  <2>1. PICK w : w = [NoWork EXCEPT !.op = op, !.of = a, !.id = account[a].id, !.field = field, !.row = row]
    OBVIOUS
  <2>2. w \in Work /\ w.of = a
    BY <1>t, <2>1, Nulls, ZenonT(30) DEF Work, Operations
  <2>3. Begin(h, "update", w) /\ UNCHANGED <<rows, jars, view, history>>
    BY <1>5, <2>1 DEF StartUpdate
  <2> QED BY <2>2, <2>3, StartStep
<1>6. ASSUME NEW a \in Account, StartReset(h, a) \/ StartDelete(h, a) PROVE TypeInv'
  <2>1. PICK w : w = [NoWork EXCEPT !.op = "reset", !.of = a, !.id = account[a].id, !.field = "mfa"]
    OBVIOUS
  <2>2. PICK v : v = [NoWork EXCEPT !.op = "delete", !.of = a, !.id = account[a].id]
    OBVIOUS
  <2>3. w \in Work /\ w.of = a /\ v \in Work /\ v.of = a
    BY <1>t, <2>1, <2>2, Nulls, ZenonT(30) DEF Work, Operations, Field
  <2>4. Begin(h, "update", w) \/ Begin(h, "delete", v)
    BY <1>6, <2>1, <2>2 DEF StartReset, StartDelete
  <2>5. UNCHANGED <<rows, jars, view, history>>
    BY <1>6 DEF StartReset, StartDelete
  <2> QED BY <2>3, <2>4, <2>5, StartStep
<1>7. ASSUME NEW a \in Account, NEW role \in Role, NEW p \in Passwords, StartCreate(h, a, role, p) PROVE TypeInv'
  <2>1. PICK row : row = [NoRow EXCEPT !.role = role, !.password = p]
    OBVIOUS
  <2>2. row \in AdminUser
    <3>1. p \in 0..MaxPassword
      BY DEF Passwords
    <3> QED BY <2>1, <3>1, Nulls DEF AdminUser
  <2>3. PICK w : w = [NoWork EXCEPT !.op = "create", !.of = a, !.row = row]
    OBVIOUS
  <2>4. w \in Work /\ w.of = a
    BY <2>2, <2>3, Nulls, ZenonT(30) DEF Work, Operations
  <2>5. Begin(h, "insert", w) /\ UNCHANGED <<rows, jars, view, history>>
    BY <1>7, <2>1, <2>3 DEF StartCreate
  <2> QED BY <2>4, <2>5, StartStep
<1>8. /\ \A role \in Role : [NoRow EXCEPT !.role = role] \in AdminUser
      /\ \A ok \in BOOLEAN : [NoRow EXCEPT !.approved = ok] \in AdminUser
      /\ \A p \in Passwords : [NoRow EXCEPT !.password = p] \in AdminUser
      /\ {"role", "approved", "password"} \subseteq Field
  <2>1. Passwords \subseteq 0..MaxPassword
    BY DEF Passwords
  <2>2. {"role", "approved", "password"} \subseteq Field
    BY DEF Field
  <2>3. \A p \in Passwords : [NoRow EXCEPT !.password = p] \in AdminUser
    BY <2>1, Nulls, RowType
  <2>4. /\ \A role \in Role : [NoRow EXCEPT !.role = role] \in AdminUser
        /\ \A ok \in BOOLEAN : [NoRow EXCEPT !.approved = ok] \in AdminUser
    BY Nulls, RowType
  <2> QED BY <2>2, <2>3, <2>4
<1> QED BY <1>1, <1>2, <1>3, <1>4, <1>5, <1>6, <1>7, <1>8 DEF Start

\* The ways a handler goes on.
LEMMA GoesTo ==
    ASSUME NEW h \in Handler, NEW label \in PC \ {"idle", "answer"}, NEW w \in Work, Goto(h, label, w),
           w.of \in Account, label = "issue" => w.id # 0,
           label \in {"account", "session"} => w.op \in Calls,
           label \in {"account", "session", "verify", "enrol"} => w.session \in Session /\ session'[w.session].of = w.of,
           label = "enrolling" => w.session \in proved'
    PROVE  GoesOn(h)
BY DEF GoesOn, PlaceOK

LEMMA Finishes == ASSUME NEW h \in Handler, Finish(h) PROVE GoesOn(h)
<1>1. PlaceOK("idle", NoWork)'
    BY DEF PlaceOK, NoWork
<1>2. "idle" \in PC
    BY DEF PC
<1> QED BY <1>1, <1>2, Nulls DEF Finish, GoesOn

LEMMA Responds ==
    ASSUME HandlersOK, NEW h \in Handler, NEW r \in Replies \ {"token"}, Respond(h, r),
           r = "cookie" => work[h].session \in proved'
    PROVE  GoesOn(h)
<1>1. PICK w : w = Reply(h, r)
    OBVIOUS
<1>2. w \in Work /\ w.reply = r /\ w.session = work[h].session /\ Goto(h, "answer", w)
    BY <1>1, ReplyType, Nulls, ZenonT(30) DEF Respond
<1>3. PlaceOK("answer", w)' /\ "answer" \in PC
    BY <1>2 DEF PlaceOK, PC
<1> QED BY <1>2, <1>3 DEF GoesOn

LEMMA RespondsToken ==
    ASSUME HandlersOK, NEW h \in Handler, NEW t \in Token, RespondToken(h, t), TokenOK(t)'
    PROVE  GoesOn(h)
<1>1. PICK w : w = [Reply(h, "token") EXCEPT !.token = t]
    OBVIOUS
<1>2. w \in Work /\ w.reply = "token" /\ w.token = t /\ Goto(h, "answer", w)
    BY <1>1, ReplyType DEF RespondToken, Replies
<1>3. PlaceOK("answer", w)' /\ "answer" \in PC
    BY <1>2 DEF PlaceOK, PC
<1> QED BY <1>2, <1>3 DEF GoesOn

LEMMA Refuses == ASSUME HandlersOK, NEW h \in Handler, Refuse(h) PROVE GoesOn(h)
<1>1. TokenOK(NoToken)'
    BY DEF TokenOK, NoToken
<1> QED BY <1>1, Nulls, Finishes, RespondsToken DEF Refuse

\* A step that writes a row: one that keeps its id, or the first of an email.
LEMMA WriteStep ==
    ASSUME TypeInv, UNCHANGED <<workload, session, expired, jars, view, proved, raced>>,
           NEW a \in Account, NEW row \in AdminUser, account' = [account EXCEPT ![a] = row],
           row.id = account[a].id \/ account[a].id = 0,
           ids' \in [Account -> 0..MaxId], unrevoked' \in SUBSET Account,
           NEW h \in Handler, GoesOn(h)
    PROVE  TypeInv'
<1>1. DataOK' /\ OfStays
    BY DEF TypeInv, DataOK, OfStays, jars
<1>2. \A s \in Session : session[s].state = "active" =>
          session[s].of \in Account /\ account'[session[s].of].id = session[s].id
    BY DEF TypeInv, DataOK, SessionsOK
<1>3. SessionsOK'
    BY <1>2 DEF TypeInv, SessionsOK
<1>4. TokensOK'
    BY <1>1, TokenStays DEF TypeInv, TokensOK, jars
<1> QED BY <1>1, <1>3, <1>4, HandlerStep

\* What a handler at a step has.
LEMMA Held ==
    ASSUME TypeInv, NEW h \in Handler
    PROVE  /\ work[h] \in Work /\ PlaceOK(pc[h], work[h])
           /\ pc[h] \notin {"idle", "answer"} => work[h].of \in Account /\ account[work[h].of] \in AdminUser
BY DEF TypeInv, HandlersOK, PlacesOK, DataOK, PlaceOK

\* Steps that only read, of a handler that goes on or ends.
LEMMA TypeOfRead ==
    ASSUME TypeInv, UNCHANGED workload, NEW h \in Handler,
           \/ ReadAccount(h) \/ ReadSession(h) \/ Act(h) \/ VerifyCode(h) \/ EnterCode(h)
           \/ StartDisable(h) \/ ComparePassword(h) \/ Lose(h)
    PROVE  TypeInv'
<1>1. PICK w : w = work[h]
    OBVIOUS
<1>2. w \in Work /\ PlaceOK(pc[h], w) /\ HandlersOK
    BY <1>1, Held DEF TypeInv
<1>3. pc[h] \notin {"idle", "answer"} => w.of \in Account /\ account[w.of] \in AdminUser /\ account[w.of].id \in 0..MaxId
    BY <1>1, Held, RowType
<1>q. ASSUME UNCHANGED <<rows, jars, view, history>>, GoesOn(h) PROVE TypeInv'
    BY <1>q, ReadStep DEF TypeInv, DataOK, history
<1>4. CASE ReadAccount(h)
  <2>1. UNCHANGED <<rows, jars, view, history>> /\ pc[h] = "account"
    BY <1>4 DEF ReadAccount
  <2>2. PICK row : row = account[w.of]
    OBVIOUS
  <2>3. PICK v : v = [w EXCEPT !.user = row.id, !.id = row.id, !.row = row]
    OBVIOUS
  <2>4. v \in Work /\ v.of = w.of /\ v.session = w.session /\ v.op = w.op
    BY <1>2, <1>3, <2>1, <2>2, <2>3 DEF Work
  <2>5. Refuse(h) \/ Goto(h, "session", v)
    BY <1>1, <1>4, <2>2, <2>3 DEF ReadAccount
  <2>6. w.of \in Account /\ w.session \in Session /\ session'[w.session].of = w.of /\ w.op \in Calls
    BY <1>2, <2>1 DEF PlaceOK, rows
  <2>7. Goto(h, "session", v) => GoesOn(h)
    BY <2>4, <2>6, GoesTo DEF PC
  <2> QED BY <1>q, <1>2, <2>1, <2>5, <2>7, Refuses
<1>5. CASE ReadSession(h)
  <2>1. UNCHANGED <<rows, jars, view, history>> /\ pc[h] = "session"
    BY <1>5 DEF ReadSession
  <2>2. w.of \in Account /\ w.session \in Session /\ session[w.session].of = w.of /\ session'[w.session].of = w.of
    BY <1>2, <2>1 DEF PlaceOK, rows
  <2>3. PICK t : t = TokenFor(w.session, w.of, w.row)
    OBVIOUS
  <2>4. t \in Token /\ TokenOK(t)'
    BY <1>2, <2>2, <2>3, TokenForType DEF TokenOK, Work
  <2>5. PICK v : v = [w EXCEPT !.row = NoRow]
    OBVIOUS
  <2>6. v \in Work /\ v.of = w.of /\ v.session = w.session
    BY <1>2, <2>5, Nulls DEF Work
  <2>7. \/ Refuse(h) \/ Finish(h)
        \/ w.op = "refresh" /\ RespondToken(h, t)
        \/ w.op # "refresh" /\ Goto(h, Step(w.op), v)
    BY <1>1, <1>5, <2>3, <2>5 DEF ReadSession
  <2>8. ASSUME w.op # "refresh", Goto(h, Step(w.op), v) PROVE GoesOn(h)
    <3>1. PICK label : label = Step(w.op)
      OBVIOUS
    <3>2. w.op \in Calls
      BY <1>2, <2>1 DEF PlaceOK
    <3>3. label \in {"act", "verify", "enrol", "disable", "password"}
      BY <2>8, <3>1, <3>2 DEF Step, Calls
    <3> QED BY <2>2, <2>6, <2>8, <3>1, <3>3, GoesTo DEF PC
  <2> QED BY <1>q, <1>2, <2>1, <2>4, <2>7, <2>8, Refuses, Finishes, RespondsToken
<1>6. CASE Act(h)
    BY <1>q, <1>6, Finishes DEF Act
<1>7. CASE VerifyCode(h)
  <2>1. pc[h] = "verify" /\ UNCHANGED <<rows, jars, view, raced, unrevoked>>
    BY <1>7 DEF VerifyCode
  <2>2. w.session \in Session
    BY <1>2, <2>1 DEF PlaceOK
  <2>3. \/ proved' = proved \cup {w.session} /\ Respond(h, "cookie")
        \/ proved' = proved /\ Finish(h)
    BY <1>1, <1>7 DEF VerifyCode
  <2>4. GoesOn(h)
    BY <1>1, <1>2, <2>3, Responds, Finishes DEF Replies
  <2> QED BY <2>1, <2>2, <2>3, <2>4, ReadStep DEF TypeInv, DataOK
<1>8. CASE EnterCode(h)
  <2>1. pc[h] = "enrol" /\ UNCHANGED <<rows, jars, view, raced, unrevoked>>
    BY <1>8 DEF EnterCode
  <2>2. w.session \in Session /\ w.of \in Account
    BY <1>2, <2>1 DEF PlaceOK
  <2>3. PICK v : v = [w EXCEPT !.id = account[w.of].id]
    OBVIOUS
  <2>4. v \in Work /\ v.of = w.of /\ v.session = w.session
    BY <1>2, <1>3, <2>1, <2>3 DEF Work
  <2>5. \/ proved' = proved \cup {w.session} /\ Goto(h, "enrolling", v)
        \/ proved' = proved /\ Finish(h)
    BY <1>1, <1>8, <2>3 DEF EnterCode
  <2>6. GoesOn(h)
    BY <2>2, <2>4, <2>5, GoesTo, Finishes DEF PC
  <2> QED BY <2>1, <2>2, <2>5, <2>6, ReadStep DEF TypeInv, DataOK
<1>9. CASE StartDisable(h) \/ ComparePassword(h)
  <2>1. pc[h] \in {"disable", "password"} /\ UNCHANGED <<rows, jars, view, history>>
    BY <1>9 DEF StartDisable, ComparePassword
  <2>2. PICK v : v = [w EXCEPT !.id = account[w.of].id]
    OBVIOUS
  <2>3. v \in Work /\ v.of = w.of /\ w.of \in Account
    BY <1>2, <1>3, <2>1, <2>2 DEF Work
  <2>4. Finish(h) \/ Goto(h, "disabling", v) \/ Goto(h, "changing", v)
    BY <1>1, <1>9, <2>2 DEF StartDisable, ComparePassword
  <2>5. GoesOn(h)
    BY <2>3, <2>4, GoesTo, Finishes DEF PC
  <2> QED BY <1>q, <2>1, <2>5
<1>10. CASE Lose(h)
  <2>1. unrevoked' \in SUBSET Account /\ UNCHANGED <<rows, jars, view, proved, raced>>
    BY <1>1, <1>3, <1>10 DEF Lose, TypeInv, DataOK
  <2>2. GoesOn(h)
    BY <1>10, Finishes DEF Lose
  <2> QED BY <2>1, <2>2, ReadStep DEF TypeInv, DataOK
<1> QED BY <1>4, <1>5, <1>6, <1>7, <1>8, <1>9, <1>10

\* Steps that write a row.
LEMMA TypeOfWrite ==
    ASSUME TypeInv, UNCHANGED workload, NEW h \in Handler,
           \/ MakeAccount(h) \/ SyncRole(h) \/ EnableMfa(h) \/ DisableMfa(h) \/ ChangePassword(h)
           \/ WriteChange(h) \/ CreateAccount(h)
    PROVE  TypeInv'
<1>1. PICK w : w = work[h]
    OBVIOUS
<1>2. w \in Work /\ PlaceOK(pc[h], w) /\ HandlersOK
    BY <1>1, Held DEF TypeInv
<1>3. pc[h] \in PC \ {"idle", "answer"}
    BY DEF MakeAccount, SyncRole, EnableMfa, DisableMfa, ChangePassword, WriteChange, CreateAccount, PC
<1>4. PICK a : a = w.of
    OBVIOUS
<1>5. PICK old : old = account[a]
    OBVIOUS
<1>6. a \in Account /\ old \in AdminUser /\ old.id \in 0..MaxId /\ ids[a] \in 0..MaxId
    BY <1>1, <1>3, <1>4, <1>5, Held, RowType DEF TypeInv, DataOK
<1>q. ASSUME UNCHANGED <<rows, jars, view, history>>, GoesOn(h) PROVE TypeInv'
    BY <1>q, ReadStep DEF TypeInv, DataOK, history
<1>w. ASSUME NEW row \in AdminUser, account' = [account EXCEPT ![a] = row], row.id = old.id \/ old.id = 0,
             UNCHANGED <<session, expired, jars, view, proved, raced>>,
             ids' = ids \/ (ids[a] < MaxId /\ ids' = [ids EXCEPT ![a] = @ + 1]),
             unrevoked' \in SUBSET Account, GoesOn(h)
      PROVE  TypeInv'
  <2>1. ids[a] < MaxId => ids[a] + 1 \in 0..MaxId
    BY <1>6
  <2>2. ids' \in [Account -> 0..MaxId]
    BY <1>6, <1>w, <2>1 DEF TypeInv, DataOK
  <2> QED BY <1>5, <1>6, <1>w, <2>2, WriteStep
<1>7. CASE MakeAccount(h)
  <2>1. PICK made : made = [NoRow EXCEPT !.id = ids[a] + 1, !.role = w.token.role, !.approved = AutoApprove]
    OBVIOUS
  <2>2. PICK v : v = [w EXCEPT !.id = made.id, !.row = made, !.token = NoToken]
    OBVIOUS
  <2>3. UNCHANGED <<session, expired, jars, view, history>> /\ pc[h] = "provision"
    BY <1>7 DEF MakeAccount
  <2>4. CASE Exists(a)
    <3>1. Finish(h) /\ UNCHANGED <<account, ids>>
      BY <1>1, <1>4, <1>7, <2>4 DEF MakeAccount
    <3> QED BY <1>q, <2>3, <3>1, Finishes DEF rows
  <2>5. CASE ~Exists(a)
    <3>1. /\ ids[a] < MaxId /\ account' = [account EXCEPT ![a] = made] /\ ids' = [ids EXCEPT ![a] = @ + 1]
          /\ Goto(h, "issue", v)
      BY <1>1, <1>4, <1>7, <2>1, <2>2, <2>5 DEF MakeAccount
    <3>2. ids[a] + 1 \in 0..MaxId /\ ids[a] + 1 # 0
      BY <1>6, <3>1
    <3>3. w.token.role \in Role
      BY <1>2 DEF Work, Token
    <3>4. made \in AdminUser /\ made.id = ids[a] + 1
      BY <2>1, <3>2, <3>3, Nulls DEF AdminUser
    <3>5. v \in Work /\ v.of = a /\ v.id # 0
      BY <1>2, <1>4, <2>2, <3>2, <3>4, Nulls DEF Work
    <3>6. GoesOn(h)
      BY <1>6, <3>1, <3>5, GoesTo DEF PC
    <3>7. old.id = 0
      BY <1>5, <2>5 DEF Exists
    <3> QED BY <1>w, <2>3, <3>1, <3>4, <3>6, <3>7 DEF history, TypeInv, DataOK
  <2> QED BY <2>4, <2>5
<1>8. CASE SyncRole(h)
  <2>1. UNCHANGED <<ids, session, expired, jars, view, history>> /\ w.id # 0
    BY <1>1, <1>8 DEF SyncRole
  <2>2. PICK new : new = [old EXCEPT !.role = w.token.role]
    OBVIOUS
  <2>3. w.token.role \in Role
    BY <1>2 DEF Work, Token
  <2>4. new \in AdminUser /\ new.id = old.id
    BY <1>6, <2>2, <2>3 DEF AdminUser
  <2>5. PICK v : v = [w EXCEPT !.token = NoToken]
    OBVIOUS
  <2>6. v \in Work /\ v.of = a /\ v.id # 0
    BY <1>2, <1>4, <2>1, <2>5, Nulls DEF Work
  <2>7. PICK u : u = [w EXCEPT !.row = new, !.token = NoToken]
    OBVIOUS
  <2>8. u \in Work /\ u.of = a /\ u.id # 0
    BY <1>2, <1>4, <2>1, <2>4, <2>7, Nulls DEF Work
  <2>9. account' = [account EXCEPT ![a].role = w.token.role] => account' = [account EXCEPT ![a] = new] /\ account'[a] = new
    BY <1>5, <1>6, <2>2 DEF TypeInv, DataOK
  <2>10. \/ UNCHANGED account /\ (Finish(h) \/ Goto(h, "issue", v))
         \/ account' = [account EXCEPT ![a] = new] /\ Goto(h, "issue", u)
    BY <1>1, <1>4, <1>8, <2>5, <2>7, <2>9 DEF SyncRole
  <2>11. GoesOn(h)
    BY <1>6, <2>6, <2>8, <2>10, GoesTo, Finishes DEF PC
  <2> QED BY <1>q, <1>w, <2>1, <2>4, <2>10, <2>11 DEF rows, history, TypeInv, DataOK
<1>9. CASE EnableMfa(h)
  <2>1. UNCHANGED <<ids, session, expired, jars, view, history>> /\ pc[h] = "enrolling"
    BY <1>9 DEF EnableMfa
  <2>2. PICK new : new = [old EXCEPT !.mfa = TRUE]
    OBVIOUS
  <2>3. new \in AdminUser /\ new.id = old.id
    BY <1>6, <2>2 DEF AdminUser
  <2>4. \/ Finish(h) /\ UNCHANGED account
        \/ Respond(h, "cookie") /\ account' = [account EXCEPT ![a] = new]
    BY <1>1, <1>4, <1>5, <1>6, <1>9, <2>2 DEF EnableMfa, TypeInv, DataOK
  <2>5. w.session \in proved'
    BY <1>2, <2>1 DEF PlaceOK, history
  <2>6. GoesOn(h)
    BY <1>1, <1>2, <2>4, <2>5, Responds, Finishes DEF Replies
  <2> QED BY <1>q, <1>w, <2>1, <2>3, <2>4, <2>6 DEF rows, history, TypeInv, DataOK
<1>10. CASE DisableMfa(h) \/ ChangePassword(h)
  <2>1. UNCHANGED <<ids, session, expired, jars, view, proved, raced>>
    BY <1>10 DEF DisableMfa, ChangePassword
  <2>2. PICK v : v = [w EXCEPT !.id = w.user]
    OBVIOUS
  <2>3. v \in Work /\ v.of = a
    BY <1>2, <1>4, <2>2 DEF Work
  <2>4. RevokeOwn(h) => Goto(h, "revoke", v) /\ unrevoked' \in SUBSET Account
    BY <1>1, <1>4, <1>6, <2>2 DEF RevokeOwn, TypeInv, DataOK
  <2>5. ASSUME NEW p \in Passwords
        PROVE  /\ [old EXCEPT !.password = p] \in AdminUser /\ [old EXCEPT !.password = p].id = old.id
               /\ [old EXCEPT !.mfa = FALSE] \in AdminUser /\ [old EXCEPT !.mfa = FALSE].id = old.id
    <3>1. p \in 0..MaxPassword
      BY DEF Passwords
    <3> QED BY <1>6, <3>1 DEF AdminUser
  <2>6. \/ Finish(h) /\ UNCHANGED <<account, unrevoked>>
        \/ \E new \in AdminUser : new.id = old.id /\ account' = [account EXCEPT ![a] = new] /\ RevokeOwn(h)
    <3>1. CASE DisableMfa(h)
      <4>1. 1 \in Passwords
        BY DEF Passwords
      <4> QED BY <1>1, <1>4, <1>5, <1>6, <2>5, <3>1, <4>1 DEF DisableMfa, TypeInv, DataOK
    <3>2. CASE ChangePassword(h)
      <4>1. CASE SameRow(h)
        <5>1. PICK p \in Passwords : account' = [account EXCEPT ![a].password = p] /\ RevokeOwn(h)
          BY <1>1, <1>4, <3>2, <4>1 DEF ChangePassword
        <5>2. account' = [account EXCEPT ![a] = [old EXCEPT !.password = p]]
          BY <1>5, <1>6, <5>1 DEF TypeInv, DataOK
        <5> QED BY <2>5, <5>1, <5>2
      <4>2. CASE ~SameRow(h)
        BY <3>2, <4>2 DEF ChangePassword
      <4> QED BY <4>1, <4>2
    <3> QED BY <1>10, <3>1, <3>2
  <2>7. RevokeOwn(h) => GoesOn(h)
    BY <1>6, <2>3, <2>4, GoesTo DEF PC
  <2> QED BY <1>q, <1>w, <2>1, <2>4, <2>6, <2>7, Finishes DEF rows, history
<1>11. CASE WriteChange(h)
  <2>1. UNCHANGED <<ids, session, expired, jars, view, history>>
    BY <1>11 DEF WriteChange
  <2>2. PICK new : new = [old EXCEPT ![w.field] = w.row[w.field]]
    OBVIOUS
  <2>3. new \in AdminUser /\ new.id = old.id
    BY <1>2, <1>6, <2>2, FieldType, ZenonT(30) DEF Work
  <2>4. \/ Finish(h) /\ UNCHANGED account
        \/ Goto(h, "revoke", w) /\ account' = [account EXCEPT ![a] = new]
    BY <1>1, <1>4, <1>5, <1>6, <1>11, <2>2 DEF WriteChange, TypeInv, DataOK
  <2>5. GoesOn(h)
    BY <1>2, <1>4, <1>6, <2>4, GoesTo, Finishes DEF PC
  <2> QED BY <1>q, <1>w, <2>1, <2>3, <2>4, <2>5 DEF rows, history, TypeInv, DataOK
<1>12. CASE CreateAccount(h)
  <2>1. UNCHANGED <<session, expired, jars, view, history>> /\ GoesOn(h)
    BY <1>12, Finishes DEF CreateAccount
  <2>2. PICK new : new = [w.row EXCEPT !.id = ids[a] + 1, !.approved = TRUE]
    OBVIOUS
  <2>3. \/ UNCHANGED <<account, ids>>
        \/ /\ ~Exists(a) /\ ids[a] < MaxId /\ account' = [account EXCEPT ![a] = new]
           /\ ids' = [ids EXCEPT ![a] = @ + 1]
    BY <1>1, <1>4, <1>12, <2>2 DEF CreateAccount
  <2>4. ids[a] < MaxId => ids[a] + 1 \in 0..MaxId
    BY <1>6
  <2>5. ids[a] < MaxId => new \in AdminUser
    BY <1>2, <2>2, <2>4, RowType DEF Work
  <2>6. ~Exists(a) => old.id = 0
    BY <1>5 DEF Exists
  <2> QED BY <1>q, <1>w, <2>1, <2>3, <2>5, <2>6 DEF rows, history, TypeInv, DataOK
<1> QED BY <1>7, <1>8, <1>9, <1>10, <1>11, <1>12

\* Steps that open or end sessions, and those of browsers and time.
LEMMA TypeOfSession ==
    ASSUME TypeInv, UNCHANGED workload, NEW h \in Handler,
           Issue(h) \/ RevokeAll(h) \/ DeleteAccount(h)
    PROVE  TypeInv'
<1>1. PICK w : w = work[h]
    OBVIOUS
<1>2. w \in Work /\ PlaceOK(pc[h], w) /\ HandlersOK
    BY <1>1, Held DEF TypeInv
<1>3. pc[h] \in PC \ {"idle", "answer"}
    BY DEF Issue, RevokeAll, DeleteAccount, PC
<1>4. PICK a : a = w.of
    OBVIOUS
<1>5. a \in Account /\ account[a] \in AdminUser
    BY <1>1, <1>3, <1>4, Held
<1>6. CASE Issue(h)
  <2>1. /\ UNCHANGED <<account, ids, expired, jars, view, proved, unrevoked>> /\ pc[h] = "issue"
        /\ w.id # 0
    BY <1>2, <1>6 DEF Issue, PlaceOK
  <2>2. CASE ~SameRow(h)
    <3>1. Finish(h) /\ UNCHANGED <<session, raced>>
      BY <1>6, <2>2 DEF Issue
    <3> QED BY <2>1, <3>1, Finishes, ReadStep DEF TypeInv, DataOK, rows
  <2>3. CASE SameRow(h)
    <3>1. PICK checked : checked = IF w.op = "credentials" THEN w.row.password ELSE 0
      OBVIOUS
    <3>2. PICK t, s : /\ t = TokenFor(s, a, w.row) /\ s \in Session /\ session[s].state = "none"
                      /\ session' = [session EXCEPT ![s] = [of |-> a, id |-> w.id, state |-> "active", password |-> checked]]
                      /\ raced' \in {raced, raced \cup {s}}
                      /\ RespondToken(h, t)
      BY <1>1, <1>4, <1>6, <2>3, <3>1 DEF Issue
    <3>3. checked \in 0..MaxPassword /\ w.id \in 0..MaxId /\ w.row \in AdminUser
      <4>1. w.id \in 0..MaxId /\ w.row \in AdminUser
        BY <1>2 DEF Work
      <4>2. PICK row : row = w.row
        OBVIOUS
      <4>3. row.password \in 0..MaxPassword
        BY <4>1, <4>2, RowType
      <4>4. 0 \in 0..MaxPassword
        OBVIOUS
      <4> QED BY <3>1, <4>1, <4>2, <4>3, <4>4
    <3>4. PICK row : row = [of |-> a, id |-> w.id, state |-> "active", password |-> checked]
      OBVIOUS
    <3>5. row \in AuthSession
      BY <1>5, <3>3, <3>4 DEF AuthSession
    <3>6. DataOK'
      BY <2>1, <3>2, <3>4, <3>5 DEF TypeInv, DataOK, jars
    <3>7. session[s].of \notin Account
      BY <3>2 DEF TypeInv, SessionsOK
    <3>8. OfStays
      BY <2>1, <3>2, <3>7 DEF TypeInv, DataOK, OfStays
    <3>9. account[a].id = w.id
      BY <1>1, <1>4, <2>3 DEF SameRow
    <3>10. SessionsOK'
      BY <1>5, <2>1, <3>2, <3>9 DEF TypeInv, DataOK, SessionsOK
    <3>11. TokensOK'
      BY <2>1, <3>8, TokenStays DEF TypeInv, TokensOK, jars
    <3>12. t \in Token /\ TokenOK(t)'
      <4>1. t \in Token /\ t.session = s /\ t.of = a
        BY <1>5, <3>2, <3>3, TokenForType
      <4>2. session'[s].of = a
        BY <3>2 DEF TypeInv, DataOK
      <4> QED BY <1>5, <3>2, <4>1, <4>2 DEF TokenOK
    <3> QED BY <1>2, <3>2, <3>6, <3>8, <3>10, <3>11, <3>12, RespondsToken, HandlerStep
  <2> QED BY <2>2, <2>3
<1>7. CASE RevokeAll(h) \/ DeleteAccount(h)
  <2>1. UNCHANGED <<ids, expired, jars, view, proved, raced>> /\ unrevoked' \in SUBSET Account
    BY <1>7 DEF RevokeAll, DeleteAccount, history, TypeInv, DataOK
  <2>2. \A s \in Session :
           \/ session'[s] = session[s]
           \/ session[s].of = a /\ session'[s] = [session[s] EXCEPT !.state = "revoked"]
           \/ session[s].of = a /\ session'[s] = [session[s] EXCEPT !.state = "gone"]
    BY <1>1, <1>4, <1>7 DEF RevokeAll, DeleteAccount
  <2>3. \A s \in Session :
           /\ session'[s] \in AuthSession
           /\ session'[s].of = session[s].of /\ session'[s].id = session[s].id
           /\ \/ session'[s].state = session[s].state
              \/ session[s].of = a /\ session'[s].state \in {"revoked", "gone"}
    <3> SUFFICES ASSUME NEW s \in Session
                 PROVE  /\ session'[s] \in AuthSession
                        /\ session'[s].of = session[s].of /\ session'[s].id = session[s].id
                        /\ \/ session'[s].state = session[s].state
                           \/ session[s].of = a /\ session'[s].state \in {"revoked", "gone"}
        OBVIOUS
    <3>1. PICK old : old = session[s]
      OBVIOUS
    <3>2. old \in AuthSession
      BY <3>1 DEF TypeInv, DataOK
    <3>3. ASSUME NEW new, NEW state \in {"revoked", "gone"}, new = [old EXCEPT !.state = state]
          PROVE  new \in AuthSession /\ new.of = old.of /\ new.id = old.id /\ new.state = state
      BY <3>2, <3>3 DEF AuthSession
    <3> QED BY <2>2, <3>1, <3>2, <3>3
  <2>4. session' \in [Session -> AuthSession]
    <3>1. session' = session \/ \E f : session' = [s \in Session |-> f[s]]
      <4>1. CASE RevokeAll(h)
        <5> DEFINE f == [s \in Session |->
                     IF session[s].of = work[h].of /\ session[s].id = work[h].id
                        /\ session[s].state = "active"
                     THEN [session[s] EXCEPT !.state = "revoked"] ELSE session[s]]
        <5>1. session' = f
          BY <4>1 DEF RevokeAll
        <5>2. session' = [s \in Session |-> f[s]]
          BY <5>1
        <5> QED BY <5>2, ZenonT(30)
      <4>2. CASE DeleteAccount(h)
        <5> DEFINE f == [s \in Session |->
                     IF session[s].of = work[h].of /\ session[s].id = work[h].id
                     THEN [session[s] EXCEPT !.state = "gone"] ELSE session[s]]
        <5>1. session' = f \/ session' = session
          BY <4>2 DEF DeleteAccount
        <5>2. session' = f => session' = [s \in Session |-> f[s]]
          OBVIOUS
        <5> QED BY <5>1, <5>2
      <4> QED BY <1>7, <4>1, <4>2
    <3> QED BY <2>3, <3>1 DEF TypeInv, DataOK
  <2>5. account' \in [Account -> AdminUser]
    BY <1>7, Nulls DEF RevokeAll, DeleteAccount, TypeInv, DataOK
  <2>6. DataOK' /\ OfStays
    BY <2>1, <2>3, <2>4, <2>5 DEF TypeInv, DataOK, OfStays, jars
  <2>7. \A s \in Session : session'[s].state = "active" => account'[session[s].of].id = account[session[s].of].id
    <3>1. CASE account' = account
      BY <3>1
    <3>2. CASE account' # account
      <4>1. /\ DeleteAccount(h) /\ account[a].id = w.id
            /\ account' = [account EXCEPT ![a] = NoRow]
        BY <1>1, <1>4, <1>7, <3>2 DEF RevokeAll, DeleteAccount, SameRow
      <4>2. \A s \in Session : session[s].of = a /\ session[s].id = w.id =>
                session'[s] = [session[s] EXCEPT !.state = "gone"]
        BY <1>1, <1>4, <4>1 DEF DeleteAccount, SameRow
      <4>3. \A s \in Session : session[s].of = a /\ session[s].id = w.id => session'[s].state # "active"
        <5> SUFFICES ASSUME NEW s \in Session, session[s].of = a, session[s].id = w.id
                     PROVE  session'[s].state # "active"
            OBVIOUS
        <5>1. PICK old : old = session[s]
          OBVIOUS
        <5>2. old \in AuthSession /\ session'[s] = [old EXCEPT !.state = "gone"]
          BY <4>2, <5>1 DEF TypeInv, DataOK
        <5> QED BY <5>2 DEF AuthSession
      <4>4. \A s \in Session : session'[s].state = "active" =>
                /\ session[s].state = "active" /\ session[s].of \in Account
                /\ account[session[s].of].id = session[s].id
        BY <2>3 DEF TypeInv, SessionsOK
      <4>5. \A s \in Session : session'[s].state = "active" => session[s].of # a
        BY <4>1, <4>3, <4>4
      <4> QED BY <4>1, <4>4, <4>5 DEF TypeInv, DataOK
    <3> QED BY <3>1, <3>2
  <2>8. SessionsOK'
    <3> SUFFICES ASSUME NEW s \in Session
                 PROVE  /\ session'[s].state = "none" => session'[s].of = NoAccount
                        /\ session'[s].state # "none" => session'[s].of \in Account
                        /\ session'[s].state = "active" =>
                               session'[s].id # 0 /\ account'[session'[s].of].id = session'[s].id
        BY DEF SessionsOK
    <3>1. /\ session[s].state = "none" => session[s].of = NoAccount
          /\ session[s].state # "none" => session[s].of \in Account
          /\ session[s].state = "active" => session[s].id # 0 /\ account[session[s].of].id = session[s].id
      BY DEF TypeInv, SessionsOK
    <3> QED BY <1>5, <2>3, <2>7, <3>1
  <2>9. TokensOK'
    BY <2>1, <2>6, TokenStays DEF TypeInv, TokensOK, jars
  <2>10. GoesOn(h)
    BY <1>2, <1>7, Finishes, Responds DEF RevokeAll, DeleteAccount, Replies
  <2> QED BY <2>6, <2>8, <2>9, <2>10, HandlerStep
<1> QED BY <1>6, <1>7

\* The browser has what the answer brought, or what it had.
LEMMA TypeOfAnswer ==
    ASSUME TypeInv, UNCHANGED workload, NEW h \in Handler, Answer(h)
    PROVE  TypeInv'
<1>1. PICK w : w = work[h]
    OBVIOUS
<1>2. w \in Work /\ PlaceOK("answer", w) /\ UNCHANGED <<rows, view, history>>
    BY <1>1, Held DEF Answer
<1>3. \A b \in Browser :
         /\ token'[b] \in {token[b], NoToken} \/ (w.reply = "token" /\ token'[b] = w.token)
         /\ cookie'[b] \in {cookie[b], NoSession, w.session}
    BY <1>1 DEF Answer, TypeInv, DataOK
<1>4. w.token \in Token /\ w.session \in Session \cup {NoSession}
    BY <1>2 DEF Work
<1>5. token' \in [Browser -> Token] /\ cookie' \in [Browser -> Session \cup {NoSession}]
  <2>1. (\E t : token' = [token EXCEPT ![w.browser] = t]) /\ (\E c : cookie' = [cookie EXCEPT ![w.browser] = c])
    BY <1>1 DEF Answer
  <2>2. \A b \in Browser : token'[b] \in Token /\ cookie'[b] \in Session \cup {NoSession}
    BY <1>3, <1>4, Nulls DEF TypeInv, DataOK
  <2> QED BY <2>1, <2>2 DEF TypeInv, DataOK
<1>6. DataOK' /\ OfStays
    BY <1>2, <1>5 DEF TypeInv, DataOK, OfStays, rows, history
<1>7. SessionsOK'
    BY <1>2 DEF TypeInv, SessionsOK, rows
<1>8. TokensOK'
  <2> SUFFICES ASSUME NEW b \in Browser PROVE TokenOK(token[b])'
      BY DEF TokensOK
  <2>1. PICK new : new = token'[b]
    OBVIOUS
  <2>2. TokenOK(new)
    BY <1>2, <1>3, <2>1 DEF TypeInv, TokensOK, PlaceOK, TokenOK
  <2>3. TokenOK(new)'
    BY <1>6, <2>2, TokenStays
  <2> QED BY <2>1, <2>3
<1> QED BY <1>6, <1>7, <1>8, Finishes, HandlerStep DEF Answer

LEMMA TypeInitially == Init => TypeInv
<1> SUFFICES ASSUME Init PROVE TypeInv
    OBVIOUS
<1>1. DataOK
    BY Nulls DEF Init, DataOK
<1>2. HandlersOK
    BY Nulls DEF Init, HandlersOK, PC
<1>3. SessionsOK /\ TokensOK
    BY DEF Init, SessionsOK, NoSessionRow, TokensOK, TokenOK
<1>4. PlacesOK
    BY DEF Init, PlacesOK, PlaceOK, NoWork
<1> QED BY <1>1, <1>2, <1>3, <1>4 DEF TypeInv

LEMMA TypeStep == TypeInv /\ [Next]_vars => TypeInv'
<1> SUFFICES ASSUME TypeInv, [Next]_vars PROVE TypeInv'
    OBVIOUS
<1>q. ASSUME UNCHANGED <<workload, account, ids, session, jars, pc, work, history>>,
             expired' \in SUBSET Session, view' \in [Browser -> Session \cup {NoSession}]
      PROVE  TypeInv'
  <2>1. DataOK' /\ HandlersOK'
    BY <1>q DEF TypeInv, DataOK, HandlersOK, jars, history
  <2>2. SessionsOK'
    BY <1>q DEF TypeInv, SessionsOK
  <2>3. TokensOK' /\ PlacesOK'
    BY <1>q DEF TypeInv, TokensOK, PlacesOK, PlaceOK, TokenOK, jars, history
  <2> QED BY <2>1, <2>2, <2>3 DEF TypeInv
<1>1. CASE UNCHANGED vars
  <2>1. UNCHANGED <<workload, account, ids, session, jars, pc, work, history, expired, view>>
    BY <1>1 DEF vars, rows
  <2> QED BY <1>q, <2>1 DEF TypeInv, DataOK
<1>2. ASSUME NEW b \in Browser, OpenPage(b), UNCHANGED workload PROVE TypeInv'
  <2>1. UNCHANGED <<rows, jars, pc, work, history>> /\ view' \in [Browser -> Session \cup {NoSession}]
    BY <1>2 DEF OpenPage, TypeInv, DataOK, Token
  <2> QED BY <1>2, <1>q, <2>1 DEF rows, TypeInv, DataOK
<1>3. ASSUME NEW s \in Session, Expire(s), UNCHANGED workload PROVE TypeInv'
    BY <1>3, <1>q DEF Expire, TypeInv, DataOK
<1>4. ASSUME NEW h \in Handler, Start(h) \/ Continue(h), UNCHANGED workload PROVE TypeInv'
    BY <1>4, TypeOfStart, TypeOfRead, TypeOfWrite, TypeOfSession, TypeOfAnswer DEF Continue
<1> QED BY <1>1, <1>2, <1>3, <1>4 DEF Next

LEMMA TypeInvariant == Spec => []TypeInv
BY TypeInitially, TypeStep, PTL DEF Spec

\* Account rows, sessions, cookies and what handlers have read always have their
\* types, whatever requests meet: the sign-ins of src/lib/auth.ts, the routes of
\* the account, of its second factor and of the administrators.
THEOREM SessionTypeCorrect == Spec => []TypeOK
<1>1. TypeInv => TypeOK
    BY DEF TypeInv, DataOK, HandlersOK, TypeOK
<1> QED BY <1>1, TypeInvariant, PTL

-----------------------------------------------------------------------------

\* An MFA cookie is of a session in which a code was accepted, and so is a page
\* where there must be a second factor.
CodeInv ==
    /\ \A b \in Browser : cookie[b] \in proved \cup {NoSession}
    /\ Onboarding => \A b \in Browser : view[b] \in proved \cup {NoSession}

\* Only an answer changes cookies, and only a request for a page the page.
LEMMA JarsStay ==
    ASSUME NEW h \in Handler, Start(h) \/ Continue(h)
    PROVE  UNCHANGED view /\ proved \subseteq proved' /\ (UNCHANGED cookie \/ Answer(h))
<1>1. CASE Start(h)
    BY <1>1 DEF Start, StartCredentials, StartDirectory, SignOut, StartCall, StartUpdate, StartReset,
                StartDelete, StartCreate, jars, history
<1>2. CASE Continue(h)
    BY <1>2 DEF Continue, MakeAccount, SyncRole, Issue, ReadAccount, ReadSession, Act, VerifyCode, EnterCode,
                EnableMfa, StartDisable, DisableMfa, ComparePassword, ChangePassword, WriteChange, RevokeAll,
                DeleteAccount, CreateAccount, Lose, Answer, jars, history
<1> QED BY <1>1, <1>2

LEMMA CodeStep == TypeInv /\ CodeInv /\ [Next]_vars => CodeInv'
<1> SUFFICES ASSUME TypeInv, CodeInv, [Next]_vars PROVE CodeInv'
    OBVIOUS
<1>1. CASE UNCHANGED vars
    BY <1>1 DEF CodeInv, vars, jars, history, Onboarding
<1>2. ASSUME NEW b \in Browser, OpenPage(b), UNCHANGED workload PROVE CodeInv'
  <2>1. UNCHANGED <<cookie, proved>> /\ view \in [Browser -> Session \cup {NoSession}]
    BY <1>2 DEF OpenPage, jars, history, TypeInv, DataOK
  <2>2. ASSUME Onboarding, Destination(b) = "page" PROVE token[b].session \in proved
    <3>1. Authorized(b) /\ token[b].mfa /\ Verified(b)
      BY <2>2 DEF Destination
    <3>2. token[b].session # NoSession /\ cookie[b] = token[b].session
      BY <3>1 DEF Authorized, Valid, Active, Verified
    <3> QED BY <3>2 DEF CodeInv
  <2>3. \A c \in Browser : view'[c] \in {view[c], NoSession} \/ (Destination(b) = "page" /\ view'[c] = token[b].session)
    BY <1>2, <2>1 DEF OpenPage
  <2> QED BY <1>2, <2>1, <2>2, <2>3 DEF CodeInv, Onboarding
<1>3. ASSUME NEW s \in Session, Expire(s), UNCHANGED workload PROVE CodeInv'
    BY <1>3 DEF Expire, CodeInv, jars, history, Onboarding
<1>4. ASSUME NEW h \in Handler, Start(h) \/ Continue(h), UNCHANGED workload PROVE CodeInv'
  <2>1. UNCHANGED view /\ proved \subseteq proved' /\ (UNCHANGED cookie \/ Answer(h))
    BY <1>4, JarsStay
  <2>2. ASSUME Answer(h) PROVE \A b \in Browser : cookie'[b] \in proved \cup {NoSession}
    <3>1. PICK w : w = work[h]
      OBVIOUS
    <3>2. PlaceOK("answer", w)
      BY <2>2, <3>1, Held DEF Answer
    <3>3. \A b \in Browser : cookie'[b] \in {cookie[b], NoSession} \/ (w.reply = "cookie" /\ cookie'[b] = w.session)
      BY <2>2, <3>1 DEF Answer, TypeInv, DataOK
    <3> QED BY <3>2, <3>3 DEF PlaceOK, CodeInv
  <2> QED BY <1>4, <2>1, <2>2 DEF CodeInv, Onboarding
<1> QED BY <1>1, <1>2, <1>3, <1>4 DEF Next

\* Where every account must have a second factor, a page is only shown in a
\* session in which a code was accepted: what the middleware makes of token and
\* MFA cookie, whatever was answered late or is of an earlier session.
THEOREM PagesNeedCodes == Spec => []SecondFactor
<1>1. Init => CodeInv
    BY DEF Init, CodeInv
<1>2. CodeInv => SecondFactor
    BY DEF CodeInv, SecondFactor
<1> QED BY <1>1, <1>2, CodeStep, TypeInvariant, PTL DEF Spec

-----------------------------------------------------------------------------

\* The sessions of the account are being revoked, or that was lost.
Excused(a) == Changing(a) \/ a \in unrevoked

\* What a step does to the row of an account which has one and keeps it.
LEMMA Writes ==
    ASSUME TypeInv, NEW h \in Handler, Start(h) \/ Continue(h), NEW a \in Account,
           account[a].id # 0, account'[a].id # 0
    PROVE  \/ account'[a] = account[a]
           \/ SyncRoles /\ account'[a].approved = account[a].approved /\ account'[a].password = account[a].password
           \/ /\ account'[a].role = account[a].role /\ account'[a].approved = account[a].approved
              /\ account'[a].password = account[a].password
           \/ /\ account'[a].id = account[a].id /\ pc'[h] = "revoke" /\ work'[h].of = a
              /\ work'[h].id = account[a].id \/ a \in unrevoked'
<1>1. PICK w : w = work[h]
    OBVIOUS
<1>2. w \in Work
    BY <1>1, Held
<1>3. PICK old : old = account[a]
    OBVIOUS
<1>4. old \in AdminUser /\ account \in [Account -> AdminUser] /\ HandlersOK
    BY <1>3 DEF TypeInv, DataOK
<1>5. CASE Start(h)
    BY <1>5 DEF Start, StartCredentials, StartDirectory, SignOut, StartCall, StartUpdate, StartReset,
                StartDelete, StartCreate, rows
<1>6. CASE UNCHANGED account
    BY <1>6
<1>7. CASE MakeAccount(h) \/ CreateAccount(h)
  <2>1. \/ UNCHANGED account
        \/ ~Exists(w.of) /\ \E row : account' = [account EXCEPT ![w.of] = row]
    BY <1>1, <1>7 DEF MakeAccount, CreateAccount
  <2> QED BY <1>4, <2>1 DEF Exists
<1>8. CASE SyncRole(h)
  <2>1. UNCHANGED account \/ (SyncRoles /\ account' = [account EXCEPT ![w.of].role = w.token.role])
    BY <1>1, <1>8 DEF SyncRole
  <2>2. [old EXCEPT !.role = w.token.role].approved = old.approved /\ [old EXCEPT !.role = w.token.role].password = old.password
    BY <1>4 DEF AdminUser
  <2> QED BY <1>3, <1>4, <2>1, <2>2
<1>9. CASE EnableMfa(h)
  <2>1. UNCHANGED account \/ account' = [account EXCEPT ![w.of].mfa = TRUE]
    BY <1>1, <1>9 DEF EnableMfa
  <2>2. PICK new : new = [old EXCEPT !.mfa = TRUE]
    OBVIOUS
  <2>3. new.approved = old.approved /\ new.password = old.password /\ new.role = old.role
    BY <1>4, <2>2 DEF AdminUser
  <2> QED BY <1>3, <1>4, <2>1, <2>2, <2>3
<1>10. CASE DisableMfa(h)
  <2>1. UNCHANGED account \/ account' = [account EXCEPT ![w.of].mfa = FALSE]
    BY <1>1, <1>10 DEF DisableMfa
  <2>2. PICK new : new = [old EXCEPT !.mfa = FALSE]
    OBVIOUS
  <2>3. new.approved = old.approved /\ new.password = old.password /\ new.role = old.role
    BY <1>4, <2>2 DEF AdminUser
  <2> QED BY <1>3, <1>4, <2>1, <2>2, <2>3
<1>11. CASE ChangePassword(h)
  <2>1. UNCHANGED account \/ (SameRow(h) /\ RevokeOwn(h) /\ \E p \in Passwords : account' = [account EXCEPT ![w.of].password = p])
    BY <1>1, <1>11 DEF ChangePassword
  <2>2. \A p : [old EXCEPT !.password = p].id = old.id
    BY <1>4 DEF AdminUser
  <2>3. PICK v : v = [w EXCEPT !.id = w.user]
    OBVIOUS
  <2>4. v \in Work /\ v.of = w.of /\ v.id = w.user
    BY <1>2, <2>3 DEF Work
  <2>5. RevokeOwn(h) => /\ Goto(h, "revoke", v)
                        /\ w.user = w.id \/ unrevoked' = unrevoked \cup {w.of}
    BY <1>1, <2>3 DEF RevokeOwn
  <2>6. "revoke" \in PC
    BY DEF PC
  <2>7. RevokeOwn(h) => pc'[h] = "revoke" /\ work'[h] = v
    BY <1>4, <2>4, <2>5, <2>6, GotoOnly
  <2>8. CASE UNCHANGED account \/ a # w.of
    BY <1>4, <2>1, <2>8
  <2>9. CASE ~UNCHANGED account /\ a = w.of
    <3>1. SameRow(h) /\ RevokeOwn(h) /\ account'[a].id = old.id
      BY <1>3, <1>4, <2>1, <2>2, <2>9, ZenonT(30)
    <3>2. w.id = old.id
      BY <1>1, <1>3, <2>9, <3>1 DEF SameRow
    <3>3. w.user = w.id \/ a \in unrevoked'
      BY <2>5, <2>9, <3>1
    <3> QED BY <1>3, <2>4, <2>7, <2>9, <3>1, <3>2, <3>3
  <2> QED BY <2>8, <2>9
<1>12. CASE WriteChange(h)
  <2>1. \/ UNCHANGED account
        \/ SameRow(h) /\ Goto(h, "revoke", w) /\ account' = [account EXCEPT ![w.of][w.field] = w.row[w.field]]
    BY <1>1, <1>12 DEF WriteChange
  <2>2. [old EXCEPT ![w.field] = w.row[w.field]].id = old.id
    <3>1. w.row \in AdminUser /\ w.field \in Field
      BY <1>2 DEF Work
    <3> QED BY <1>4, <3>1, FieldType
  <2>3. "revoke" \in PC
    BY DEF PC
  <2>4. Goto(h, "revoke", w) => pc'[h] = "revoke" /\ work'[h] = w
    BY <1>2, <1>4, <2>3, GotoOnly
  <2> QED BY <1>1, <1>3, <1>4, <2>1, <2>2, <2>4, ZenonT(30) DEF SameRow
<1>13. CASE DeleteAccount(h)
  <2>1. UNCHANGED account \/ account' = [account EXCEPT ![w.of] = NoRow]
    BY <1>1, <1>13 DEF DeleteAccount
  <2> QED BY <1>4, <2>1, Nulls
<1> QED BY <1>5, <1>6, <1>7, <1>8, <1>9, <1>10, <1>11, <1>12, <1>13
        DEF Continue, Issue, ReadAccount, ReadSession, Act, VerifyCode, EnterCode, StartDisable, ComparePassword,
            RevokeAll, Answer, Lose, rows

\* An excuse lasts while a session of the account does: the statement that
\* revokes has to be lost, or ends the session.
LEMMA ExcuseStays ==
    ASSUME TypeInv, TypeInv', NEW h \in Handler, Start(h) \/ Continue(h), NEW s \in Session, NEW a \in Account,
           session[s].of = a, session[s].state = "active", session'[s] = session[s], Excused(a)
    PROVE  Excused(a)'
<1>1. account[a].id = session[s].id /\ account'[a].id = account[a].id
    BY DEF TypeInv, SessionsOK
<1>2. ASSUME SameRow(h), work[h].of = a PROVE ~RevokeAll(h)
  <2>1. session[s].id = work[h].id
    BY <1>1, <1>2 DEF SameRow
  <2>2. RevokeAll(h) => session'[s] = [session[s] EXCEPT !.state = "revoked"]
    BY <1>2, <2>1 DEF RevokeAll
  <2>3. session[s] \in AuthSession
    BY DEF TypeInv, DataOK
  <2> QED BY <2>2, <2>3 DEF AuthSession
<1>3. CASE a \in unrevoked
  <2>1. a \in unrevoked' \/ (RevokeAll(h) /\ SameRow(h) /\ work[h].of = a)
    <3>1. CASE Start(h)
      BY <1>3, <3>1 DEF Start, StartCredentials, StartDirectory, SignOut, StartCall, StartUpdate, StartReset,
                        StartDelete, StartCreate, history
    <3>2. CASE Continue(h)
      BY <1>3, <3>2 DEF Continue, MakeAccount, SyncRole, Issue, ReadAccount, ReadSession, Act, VerifyCode, EnterCode,
                EnableMfa, StartDisable, DisableMfa, ComparePassword, ChangePassword, WriteChange, RevokeAll,
                DeleteAccount, CreateAccount, Lose, Answer, history, RevokeOwn
    <3> QED BY <3>1, <3>2
  <2> QED BY <1>2, <2>1 DEF Excused
<1>4. CASE Changing(a)
  <2>1. PICK g \in Handler : pc[g] = "revoke" /\ work[g].of = a /\ SameRow(g)
    BY <1>4 DEF Changing
  <2>2. CASE g = h
    <3>1. RevokeAll(h) \/ Lose(h)
      <4>1. CASE Start(h)
        BY <2>1, <2>2, <4>1 DEF Start, StartCredentials, StartDirectory, SignOut, StartCall, StartUpdate, StartReset,
                        StartDelete, StartCreate, Begin
      <4>2. CASE Continue(h)
        BY <2>1, <2>2, <4>2 DEF Continue, MakeAccount, SyncRole, Issue, ReadAccount, ReadSession, Act, VerifyCode,
                EnterCode, EnableMfa, StartDisable, DisableMfa, ComparePassword, ChangePassword, WriteChange,
                DeleteAccount, CreateAccount, Answer
      <4> QED BY <4>1, <4>2
    <3>2. Lose(h)
      BY <1>2, <2>1, <2>2, <3>1
    <3>3. a \in unrevoked'
      BY <2>1, <2>2, <3>2 DEF Lose
    <3> QED BY <3>3 DEF Excused
  <2>3. CASE g # h
    <3>1. PICK l, w : Goto(h, l, w)
      <4>1. CASE Start(h)
        BY <4>1 DEF Start, StartCredentials, StartDirectory, SignOut, StartCall, StartUpdate, StartReset,
                        StartDelete, StartCreate, Begin, Goto
      <4>2. CASE Continue(h)
        BY <4>2 DEF Continue, MakeAccount, SyncRole, Issue, ReadAccount, ReadSession, Act, VerifyCode,
                EnterCode, EnableMfa, StartDisable, DisableMfa, ComparePassword, ChangePassword, WriteChange,
                DeleteAccount, CreateAccount, Answer, Lose, RevokeAll, Refuse, Respond, RespondToken, Finish, RevokeOwn
      <4> QED BY <4>1, <4>2
    <3>2. pc'[g] = pc[g] /\ work'[g] = work[g]
      BY <2>3, <3>1 DEF Goto, TypeInv, HandlersOK
    <3>3. SameRow(g)'
      BY <1>1, <2>1, <3>2 DEF SameRow
    <3> QED BY <2>1, <3>2, <3>3 DEF Excused, Changing
  <2> QED BY <2>2, <2>3
<1> QED BY <1>3, <1>4 DEF Excused

\* A session that is active after a step was so before, or is the one a sign-in
\* opened with what is the account's password, unless it was raced.
LEMMA Opened ==
    ASSUME TypeInv, NEW h \in Handler, Start(h) \/ Continue(h), NEW s \in Session, session'[s].state = "active"
    PROVE  /\ raced \subseteq raced'
           /\ \/ session'[s] = session[s]
              \/ /\ session[s].state = "none" /\ UNCHANGED account
                 /\ session'[s].password \in {0, account[session'[s].of].password} \/ s \in raced'
<1>1. PICK old : old = session[s]
    OBVIOUS
<1>2. old \in AuthSession /\ session \in [Session -> AuthSession]
    BY <1>1 DEF TypeInv, DataOK
<1>3. \A state : [old EXCEPT !.state = state].state = state
    BY <1>2 DEF AuthSession
<1>4. CASE Start(h)
  <2>1. UNCHANGED session \/ \E b \in Browser : SignOut(h, b)
    BY <1>4 DEF Start, StartCredentials, StartDirectory, StartCall, StartUpdate, StartReset,
                StartDelete, StartCreate, rows
  <2>2. ASSUME NEW b \in Browser, SignOut(h, b) PROVE session'[s] = session[s]
    <3>1. PICK i : i = token[b].session
      OBVIOUS
    <3>2. session' = [session EXCEPT ![i].state = IF @ = "active" THEN "revoked" ELSE @]
      BY <2>2, <3>1 DEF SignOut
    <3>3. i = s => session'[s] = [old EXCEPT !.state = IF old.state = "active" THEN "revoked" ELSE old.state]
      BY <1>1, <1>2, <3>2
    <3>4. i # s
      BY <1>3, <3>3, ZenonT(30)
    <3> QED BY <1>2, <3>2, <3>4
  <2>3. UNCHANGED raced
    BY <1>4 DEF Start, StartCredentials, StartDirectory, SignOut, StartCall, StartUpdate, StartReset,
                StartDelete, StartCreate, history
  <2> QED BY <2>1, <2>2, <2>3
<1>5. CASE Issue(h)
  <2>1. PICK w : w = work[h]
    OBVIOUS
  <2>2. PICK checked : checked = IF w.op = "credentials" THEN w.row.password ELSE 0
    OBVIOUS
  <2>3. UNCHANGED account /\ raced \subseteq raced'
    BY <1>5 DEF Issue
  <2>4. CASE UNCHANGED session
    BY <2>3, <2>4
  <2>5. CASE ~UNCHANGED session
    <3>1. PICK t \in Session :
             /\ session[t].state = "none"
             /\ session' = [session EXCEPT ![t] =
                        [of |-> w.of, id |-> w.id, state |-> "active", password |-> checked]]
             /\ raced' = IF checked \in {0, account[w.of].password} THEN raced ELSE raced \cup {t}
      BY <1>5, <2>1, <2>2, <2>5 DEF Issue
    <3>2. CASE s # t
      BY <1>2, <2>3, <3>1, <3>2
    <3>3. CASE s = t
      BY <1>2, <2>3, <3>1, <3>3
    <3> QED BY <3>2, <3>3
  <2> QED BY <2>4, <2>5
<1>6. CASE RevokeAll(h) \/ DeleteAccount(h)
  <2>1. raced' = raced
    BY <1>6 DEF RevokeAll, DeleteAccount, history
  <2>2. \/ session'[s] = session[s] \/ session'[s] = [old EXCEPT !.state = "revoked"]
        \/ session'[s] = [old EXCEPT !.state = "gone"]
    BY <1>1, <1>6 DEF RevokeAll, DeleteAccount
  <2> QED BY <1>3, <2>1, <2>2
<1>7. CASE UNCHANGED <<session, raced>>
    BY <1>7
<1> QED BY <1>4, <1>5, <1>6, <1>7
        DEF Continue, MakeAccount, SyncRole, ReadAccount, ReadSession, Act, VerifyCode, EnterCode, EnableMfa,
            StartDisable, DisableMfa, ComparePassword, ChangePassword, WriteChange, CreateAccount, Answer, Lose,
            rows, history

\* While a session of an account lasts, the account is as it was, or its sessions
\* are being revoked for the change, or that was lost.
LEMMA AccountHolds ==
    ASSUME TypeInv, TypeInv', NEW h \in Handler, Start(h) \/ Continue(h), NEW s \in Session, NEW a \in Account,
           session[s].of = a, session[s].state = "active", session'[s] = session[s]
    PROVE  \/ Excused(a)'
           \/ /\ ~Excused(a) /\ account'[a].password = account[a].password
              /\ account'[a].approved = account[a].approved
              /\ SyncRoles \/ account'[a].role = account[a].role
<1>1. account[a].id # 0 /\ account'[a].id # 0
    BY DEF TypeInv, SessionsOK
<1>2. ASSUME account'[a].id = account[a].id, pc'[h] = "revoke", work'[h].of = a, work'[h].id = account[a].id
      PROVE  Excused(a)'
    BY <1>2 DEF Excused, Changing, SameRow
<1>3. a \in unrevoked' => Excused(a)'
    BY DEF Excused
<1> QED BY <1>1, <1>2, <1>3, ExcuseStays, Writes

\* What of the state the following depends on.
Still == UNCHANGED <<workload, account, session, pc, work, raced, unrevoked>>

LEMMA StillOr == [Next]_vars => UNCHANGED workload /\ (Still \/ \E h \in Handler : Start(h) \/ Continue(h))
BY DEF Next, OpenPage, Expire, Still, vars, rows, history

LEMMA PasswordStep == TypeInv /\ TypeInv' /\ OldPasswordOut /\ [Next]_vars => OldPasswordOut'
<1> SUFFICES ASSUME TypeInv, TypeInv', OldPasswordOut, [Next]_vars PROVE OldPasswordOut'
    OBVIOUS
<1>1. CASE Still
    BY <1>1 DEF Still, OldPasswordOut, Changing, SameRow
<1>2. ASSUME NEW h \in Handler, Start(h) \/ Continue(h) PROVE OldPasswordOut'
  <2> SUFFICES ASSUME NEW s \in Session, s \notin raced', session'[s].state = "active", session'[s].password # 0,
                      session'[s].password # account'[session'[s].of].password
               PROVE  Excused(session[s].of)'
      BY DEF OldPasswordOut, Excused
  <2>1. s \notin raced /\ session'[s] = session[s]
    BY <1>2, Opened
  <2>2. PICK a : a = session[s].of
    OBVIOUS
  <2>3. a \in Account
    BY <2>1, <2>2 DEF TypeInv, SessionsOK
  <2>4. session[s].password = account[a].password \/ Excused(a)
    BY <2>1, <2>2 DEF OldPasswordOut, Excused
  <2>5. Excused(a)'
    BY <1>2, <2>1, <2>2, <2>3, <2>4, AccountHolds
  <2> QED BY <2>1, <2>2, <2>5
<1> QED BY <1>1, <1>2, StillOr

\* Changing a password ends the sessions the old one opened: PUT /api/profile/password
\* and PUT /api/admin/users/[id], against sign-ins that checked the password before and
\* against requests that are lost between the row and its sessions.
THEOREM OldPasswordEnds == Spec => []OldPasswordOut
<1>1. Init => OldPasswordOut
    BY DEF Init, OldPasswordOut, NoSessionRow
<1> QED BY <1>1, PasswordStep, TypeInvariant, PTL DEF Spec

-----------------------------------------------------------------------------

\* A handler that has read the account and not yet the session has what the
\* account holds now, if the session is still active.
RightsInv ==
    ~SyncRoles =>
        \A h \in Handler :
            LET w == work[h]
            IN  pc[h] = "session" /\ session[w.session].state = "active" /\ session[w.session].id = w.id =>
                    \/ w.row.role = account[w.of].role /\ w.row.approved = account[w.of].approved
                    \/ Excused(w.of)

\* The session is read right after the account.
LEMMA Reads ==
    ASSUME TypeInv, NEW h \in Handler, Start(h) \/ Continue(h), NEW g \in Handler, pc'[g] = "session"
    PROVE  \/ pc[g] = "session" /\ work'[g] = work[g]
           \/ work'[g].row = account[work'[g].of] /\ UNCHANGED account
<1>1. PICK w : w = work[h]
    OBVIOUS
<1>2. w \in Work /\ HandlersOK
    BY <1>1, Held DEF TypeInv
<1>3. CASE g # h
  <2>1. PICK l, v : Goto(h, l, v)
    <3>1. CASE Start(h)
      BY <3>1 DEF Start, StartCredentials, StartDirectory, SignOut, StartCall, StartUpdate, StartReset,
                      StartDelete, StartCreate, Begin, Goto
    <3>2. CASE Continue(h)
      BY <3>2 DEF Continue, MakeAccount, SyncRole, Issue, ReadAccount, ReadSession, Act, VerifyCode,
              EnterCode, EnableMfa, StartDisable, DisableMfa, ComparePassword, ChangePassword, WriteChange,
              DeleteAccount, CreateAccount, Answer, Lose, RevokeAll, Refuse, Respond, RespondToken, Finish, RevokeOwn
    <3> QED BY <3>1, <3>2
  <2> QED BY <1>2, <1>3, <2>1 DEF Goto, HandlersOK
<1>4. CASE g = h
  <2>1. ASSUME NEW l, NEW v, Goto(h, l, v) PROVE l = "session" /\ work'[h] = v
    BY <1>2, <1>4, <2>1 DEF Goto, HandlersOK
  <2>2. CASE ReadAccount(h)
    <3>1. PICK row : row = account[w.of]
      OBVIOUS
    <3>2. PICK v : v = [w EXCEPT !.user = row.id, !.id = row.id, !.row = row]
      OBVIOUS
    <3>3. v.row = row /\ v.of = w.of
      BY <1>2, <3>2 DEF Work
    <3>4. Goto(h, "session", v) \/ Refuse(h)
      BY <1>1, <2>2, <3>1, <3>2 DEF ReadAccount
    <3>5. ~Refuse(h)
      BY <2>1 DEF Refuse, RespondToken, Finish
    <3> QED BY <1>4, <2>1, <2>2, <3>1, <3>3, <3>4, <3>5 DEF ReadAccount, rows
  <2>3. CASE ReadSession(h)
    <3>1. ~Refuse(h) /\ \A t : ~RespondToken(h, t)
      BY <2>1 DEF Refuse, RespondToken, Finish
    <3>2. ~Finish(h)
      BY <2>1 DEF Finish
    <3>3. pc[h] = "session" /\ w.op # "refresh" /\ \E v : Goto(h, Step(w.op), v)
      BY <1>1, <2>3, <3>1, <3>2 DEF ReadSession
    <3>4. w.op \in Calls
      BY <1>1, <3>3, Held DEF PlaceOK
    <3>5. Step(w.op) # "session"
      BY <3>3, <3>4 DEF Step, Calls
    <3> QED BY <2>1, <3>3, <3>5
  <2>4. CASE Start(h)
    BY <1>2, <1>4, <2>4 DEF Start, StartCredentials, StartDirectory, SignOut, StartCall, StartUpdate, StartReset,
                  StartDelete, StartCreate, Begin, HandlersOK
  <2>5. CASE MakeAccount(h) \/ SyncRole(h) \/ Issue(h) \/ Act(h) \/ EnterCode(h) \/ VerifyCode(h) \/ EnableMfa(h)
    <3>1. \E l, v : l \in {"idle", "issue", "answer", "enrolling"} /\ Goto(h, l, v)
      <4>1. CASE MakeAccount(h)
        BY <4>1 DEF MakeAccount, Finish
      <4>2. CASE SyncRole(h)
        BY <4>2 DEF SyncRole, Finish
      <4>3. CASE Issue(h)
        <5>1. Finish(h) \/ \E t : RespondToken(h, t)
          <6>1. CASE SameRow(h)
            <7>1. \E s \in Session : RespondToken(h, TokenFor(s, work[h].of, work[h].row))
              BY <4>3, <6>1 DEF Issue
            <7> QED BY <7>1
          <6>2. CASE ~SameRow(h)
            BY <4>3, <6>2 DEF Issue
          <6> QED BY <6>1, <6>2
        <5>2. ASSUME NEW t, RespondToken(h, t) PROVE \E v : Goto(h, "answer", v)
          <6>1. PICK v : v = [Reply(h, "token") EXCEPT !.token = t]
            OBVIOUS
          <6>2. Goto(h, "answer", v)
            BY <5>2, <6>1 DEF RespondToken
          <6> QED BY <6>2
        <5>3. Finish(h) => \E v : Goto(h, "idle", v)
          BY DEF Finish
        <5> QED BY <5>1, <5>2, <5>3
      <4>4. CASE Act(h) \/ EnterCode(h) \/ VerifyCode(h) \/ EnableMfa(h)
        BY <4>4 DEF Act, EnterCode, VerifyCode, EnableMfa, Respond, Finish
      <4> QED BY <2>5, <4>1, <4>2, <4>3, <4>4
    <3> QED BY <2>1, <3>1
  <2>6. CASE \/ StartDisable(h) \/ DisableMfa(h) \/ ComparePassword(h) \/ ChangePassword(h) \/ WriteChange(h)
             \/ DeleteAccount(h) \/ CreateAccount(h) \/ Answer(h) \/ Lose(h) \/ RevokeAll(h)
    <3>1. \E l, v : l \in {"idle", "disabling", "changing", "revoke", "answer"} /\ Goto(h, l, v)
      BY <2>6 DEF StartDisable, DisableMfa, ComparePassword, ChangePassword, WriteChange, DeleteAccount,
                  CreateAccount, Answer, Lose, RevokeAll, Respond, Finish, RevokeOwn
    <3> QED BY <2>1, <3>1
  <2> QED BY <2>2, <2>3, <2>4, <2>5, <2>6 DEF Continue
<1> QED BY <1>3, <1>4

LEMMA RightsStep == TypeInv /\ TypeInv' /\ RightsInv /\ [Next]_vars => RightsInv'
<1> SUFFICES ASSUME TypeInv, TypeInv', RightsInv, [Next]_vars PROVE RightsInv'
    OBVIOUS
<1>1. CASE Still
    BY <1>1 DEF Still, RightsInv, Excused, Changing, SameRow, SyncRoles
<1>2. ASSUME NEW h \in Handler, Start(h) \/ Continue(h), UNCHANGED workload PROVE RightsInv'
  <2> SUFFICES ASSUME ~SyncRoles, NEW g \in Handler, NEW w, w = work'[g], pc'[g] = "session",
                      session'[w.session].state = "active", session'[w.session].id = w.id
               PROVE  \/ w.row.role = account'[w.of].role /\ w.row.approved = account'[w.of].approved
                      \/ Excused(w.of)'
      BY <1>2 DEF RightsInv, SyncRoles
  <2>1. CASE w.row = account[w.of] /\ UNCHANGED account
    BY <2>1
  <2>2. CASE pc[g] = "session" /\ w = work[g]
    <3>1. w.session \in Session /\ session[w.session].of = w.of /\ w.of \in Account
      BY <2>2, Held DEF PlaceOK
    <3>2. session[w.session].state # "none"
      BY <3>1 DEF TypeInv, SessionsOK
    <3>3. session'[w.session] = session[w.session]
      BY <1>2, <3>1, <3>2, Opened
    <3>4. (w.row.role = account[w.of].role /\ w.row.approved = account[w.of].approved) \/ Excused(w.of)
      BY <2>2, <3>3 DEF RightsInv
    <3>5. \/ Excused(w.of)'
          \/ ~Excused(w.of) /\ account'[w.of].approved = account[w.of].approved /\ account'[w.of].role = account[w.of].role
      <4>1. PICK a : a = w.of
        OBVIOUS
      <4>2. Excused(a)' \/ (~Excused(a) /\ account'[a].approved = account[a].approved /\ account'[a].role = account[a].role)
        BY <1>2, <3>1, <3>3, <4>1, AccountHolds
      <4>3. w.of = a /\ (Excused(a)' <=> Excused(w.of)')
        BY <4>1
      <4> QED BY <4>1, <4>2, <4>3
    <3> QED BY <3>4, <3>5
  <2> QED BY <1>2, <2>1, <2>2, Reads
<1> QED BY <1>1, <1>2, StillOr

\* One admission: the session is active, so the account is the row that was read.
LEMMA AdmissionStep ==
    ASSUME TypeInv, RightsInv, [Next]_vars, ~SyncRoles, NEW h \in Handler, pc[h] = "session", pc'[h] = "act"
    PROVE  LET a == work[h].of
           IN  \/ account[a].id = work[h].id /\ Admits(work[h].op, account[a])
               \/ Changing(a) \/ a \in unrevoked
<1>1. PICK w : w = work[h]
    OBVIOUS
<1>2. HandlersOK /\ w.session \in Session /\ session[w.session].of = w.of /\ w.of \in Account
    BY <1>1, Held DEF PlaceOK, TypeInv
<1>3. PICK g \in Handler : Start(g) \/ Continue(g)
    BY StillOr DEF Still
<1>4. ReadSession(h)
  <2>1. g = h
    <3>1. PICK l, v : Goto(g, l, v)
      <4>1. CASE Start(g)
        BY <4>1 DEF Start, StartCredentials, StartDirectory, SignOut, StartCall, StartUpdate, StartReset,
                      StartDelete, StartCreate, Begin, Goto
      <4>2. CASE Continue(g)
        BY <4>2 DEF Continue, MakeAccount, SyncRole, Issue, ReadAccount, ReadSession, Act, VerifyCode,
              EnterCode, EnableMfa, StartDisable, DisableMfa, ComparePassword, ChangePassword, WriteChange,
              DeleteAccount, CreateAccount, Answer, Lose, RevokeAll, Refuse, Respond, RespondToken, Finish, RevokeOwn
      <4> QED BY <1>3, <4>1, <4>2
    <3> QED BY <1>2, <3>1 DEF Goto, HandlersOK
  <2>2. ~Start(h)
    BY DEF Start, StartCredentials, StartDirectory, SignOut, StartCall, StartUpdate, StartReset,
                      StartDelete, StartCreate, Begin
  <2>3. ~Lose(h)
    BY <1>2 DEF Lose, Finish, Goto, HandlersOK
  <2> QED BY <1>3, <2>1, <2>2, <2>3
          DEF Continue, MakeAccount, SyncRole, Issue, ReadAccount, Act, VerifyCode, EnterCode, EnableMfa,
              StartDisable, DisableMfa, ComparePassword, ChangePassword, WriteChange, DeleteAccount, CreateAccount,
              Answer, RevokeAll
<1>5. Active(w.session, w.id) /\ Admits(w.op, w.row)
  <2>1. ASSUME NEW l, NEW v, Goto(h, l, v) PROVE l = "act"
    BY <1>2, <2>1 DEF Goto, HandlersOK
  <2>2. ~Refuse(h) /\ ~Finish(h) /\ \A t : ~RespondToken(h, t)
    BY <2>1 DEF Refuse, Finish, RespondToken
  <2> QED BY <1>1, <1>4, <2>2 DEF ReadSession
<1>6. account[w.of].id = w.id
    BY <1>2, <1>5 DEF Active, TypeInv, SessionsOK
<1>7. \/ w.row.role = account[w.of].role /\ w.row.approved = account[w.of].approved
      \/ Excused(w.of)
    BY <1>1, <1>5 DEF RightsInv, Active
<1> QED BY <1>1, <1>5, <1>6, <1>7 DEF Admits, Excused

\* A call is admitted with rights its account has at that moment, unless its
\* sessions are just being revoked or that was lost: getServerSession, which reads
\* the account first and the session second, against every change of the account.
THEOREM RightsAreCurrent == Spec => NoStaleRights
<1>1. Init => RightsInv
    BY DEF Init, RightsInv
<1>2. TypeInv /\ RightsInv /\ [Next]_vars =>
        [~SyncRoles =>
         \A h \in Handler :
            pc[h] = "session" /\ pc'[h] = "act" =>
                LET a == work[h].of
                IN  \/ account[a].id = work[h].id /\ Admits(work[h].op, account[a])
                    \/ Changing(a) \/ a \in unrevoked]_vars
    BY AdmissionStep
<1>3. Spec => []RightsInv
    BY <1>1, RightsStep, TypeInvariant, PTL DEF Spec
<1> QED BY <1>2, <1>3, TypeInvariant, PTL DEF Spec, NoStaleRights
=============================================================================
