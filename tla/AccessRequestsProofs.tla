----------------------- MODULE AccessRequestsProofs -----------------------
(***************************************************************************)
(* Invariants of AccessRequests for every set of requests, emails, servers *)
(* and handlers, every limit and every choice of operations and faults.    *)
(***************************************************************************)
EXTENDS AccessRequests, TLAPS

(* What a handler was given is what its step needs. *)
WorkOK ==
    /\ \A r \in Request : status[r] # "none" => target[r] \in Account
    /\ \A h \in Handler : Reviewing(h) =>
            /\ work[h].req \in Request
            /\ status[work[h].req] # "none"
            /\ work[h].acct = target[work[h].req]
    /\ \A h \in Handler : pc[h] = "delete" => work[h].req \in Request
    /\ \A h \in Handler : pc[h] \in {"check", "insert"} => work[h].acct \in Account

TypeInv == TypeOK /\ WorkOK

USE DEF PC, Status, Row, Open, ReviewStep, Provisioning, FollowUp, PassStep

LEMMA NoWorkType == NoWork \in Work
BY DEF NoWork, Work, NoUser, VpnUser, CertStatus

LEMMA GotoType ==
    ASSUME TypeOK, NEW h \in Handler, NEW l \in PC, NEW w \in Work, Goto(h, l, w)
    PROVE  /\ pc' \in [Handler -> PC] /\ work' \in [Handler -> Work]
           /\ pc'[h] = l /\ work'[h] = w
           /\ \A g \in Handler \ {h} : pc'[g] = pc[g] /\ work'[g] = work[g]
BY DEF TypeOK, Goto

LEMMA BeginType ==
    ASSUME TypeOK, NEW h \in Handler, NEW l \in PC, NEW w \in Work, Begin(h, l, w)
    PROVE  /\ pc' \in [Handler -> PC] /\ work' \in [Handler -> Work]
           /\ pc[h] = "idle" /\ pc'[h] = l /\ work'[h] = w
           /\ \A g \in Handler \ {h} : pc'[g] = pc[g] /\ work'[g] = work[g]
BY DEF TypeOK, Begin

LEMMA SetStatusType ==
    ASSUME TypeOK, NEW r \in Request, NEW s \in Row, SetStatus(r, s)
    PROVE  /\ status' \in [Request -> Status] /\ stale' \in SUBSET Request
           /\ status'[r] = s
           /\ \A q \in Request \ {r} : status'[q] = status[q]
BY DEF TypeOK, SetStatus

LEMMA TypeInit == Init => TypeInv
BY NoWorkType DEF Init, TypeInv, TypeOK, WorkOK, NoUser, VpnUser, CertStatus, Reviewing

LEMMA TypeStart ==
    ASSUME TypeInv, NEW h \in Handler, Start(h)
    PROVE  TypeInv'
<1> USE DEF TypeInv
<1>1. ASSUME NEW r \in Request, NEW d \in {"claim", "reject"}, StartReview(h, r, d)
      PROVE  TypeInv'
  <2> DEFINE w == [NoWork EXCEPT !.req = r, !.acct = target[r]]
  <2>1. w \in Work /\ w.req = r /\ w.acct = target[r]
    BY <1>1, NoWorkType DEF StartReview, TypeOK, Work, NoWork
  <2>2. Begin(h, d, w) /\ UNCHANGED <<dbVars, pkiVars, history>> /\ status[r] # "none"
    BY <1>1 DEF StartReview
  <2> HIDE DEF w
  <2>3. TypeOK'
    BY <2>1, <2>2, BeginType DEF TypeOK, dbVars, pkiVars, history
  <2>4. WorkOK'
    BY <2>1, <2>2, BeginType DEF WorkOK, Reviewing, dbVars
  <2>5. QED
    BY <2>3, <2>4
<1>2. ASSUME NEW r \in Request, StartCancel(h, r)
      PROVE  TypeInv'
  <2> DEFINE w == [NoWork EXCEPT !.req = r]
  <2>1. w \in Work /\ w.req = r
    BY NoWorkType DEF Work, NoWork
  <2>2. Begin(h, "delete", w) /\ UNCHANGED <<dbVars, pkiVars, history>>
    BY <1>2 DEF StartCancel
  <2> HIDE DEF w
  <2>3. TypeOK'
    BY <2>1, <2>2, BeginType DEF TypeOK, dbVars, pkiVars, history
  <2>4. WorkOK'
    BY <2>1, <2>2, BeginType DEF WorkOK, Reviewing, dbVars
  <2>5. QED
    BY <2>3, <2>4
<1>3. ASSUME NEW a \in Account, StartPost(h, a)
      PROVE  TypeInv'
  <2> DEFINE w == [NoWork EXCEPT !.acct = a, !.todo = Scans]
  <2>1. w \in Work
    BY NoWorkType DEF Work, NoWork, Scans
  <2>2. Begin(h, "scan", w) /\ UNCHANGED <<dbVars, pkiVars, history>>
    BY <1>3 DEF StartPost
  <2> HIDE DEF w
  <2>3. TypeOK'
    BY <2>1, <2>2, BeginType DEF TypeOK, dbVars, pkiVars, history
  <2>4. WorkOK'
    BY <2>1, <2>2, BeginType DEF WorkOK, Reviewing, dbVars
  <2>5. QED
    BY <2>3, <2>4
<1>4. ASSUME StartLifecycle(h)
      PROVE  TypeInv'
  <2> DEFINE w == [NoWork EXCEPT !.todo = Scans]
  <2>1. w \in Work
    BY NoWorkType DEF Work, NoWork, Scans
  <2>2. Begin(h, "scan", w) /\ UNCHANGED <<dbVars, pkiVars, history>>
    BY <1>4 DEF StartLifecycle
  <2> HIDE DEF w
  <2>3. TypeOK'
    BY <2>1, <2>2, BeginType DEF TypeOK, dbVars, pkiVars, history
  <2>4. WorkOK'
    BY <2>1, <2>2, BeginType DEF WorkOK, Reviewing, dbVars
  <2>5. QED
    BY <2>3, <2>4
<1>5. QED
  BY <1>1, <1>2, <1>3, <1>4 DEF Start

(* The part of TypeOK that is not about handlers. *)
DataType ==
    /\ status \in [Request -> Status]
    /\ target \in [Request -> Account \cup {NoAccount}]
    /\ stale \in SUBSET Request
    /\ user \in [Account -> VpnUser]
    /\ member \in SUBSET Account
    /\ portal \in SUBSET Email
    /\ issued \in SUBSET Account
    /\ stray \in SUBSET Account
    /\ abandoned \in SUBSET Request
    /\ leaked \in SUBSET Account

(* A step in which one handler moves and no row is inserted. *)
LEMMA GotoInv ==
    ASSUME TypeInv, NEW h \in Handler, NEW l \in PC, NEW w \in Work, Goto(h, l, w),
           DataType', UNCHANGED target,
           \A r \in Request : status[r] # "none" <=> status'[r] # "none",
           l \in ReviewStep => /\ w.req \in Request
                               /\ status[w.req] # "none"
                               /\ w.acct = target[w.req],
           l = "delete" => w.req \in Request,
           l \in {"check", "insert"} => w.acct \in Account
    PROVE  TypeInv'
<1>1. TypeOK'
  BY GotoType DEF TypeInv, TypeOK, DataType
<1>2. WorkOK'
  <2>1. /\ pc'[h] = l /\ work'[h] = w
        /\ \A g \in Handler \ {h} : pc'[g] = pc[g] /\ work'[g] = work[g]
    BY GotoType DEF TypeInv
  <2>2. \A r \in Request : status'[r] # "none" => target'[r] \in Account
    BY DEF TypeInv, WorkOK
  <2>3. ASSUME NEW g \in Handler, Reviewing(g)'
        PROVE  work'[g].req \in Request /\ status'[work'[g].req] # "none"
               /\ work'[g].acct = target'[work'[g].req]
    BY <2>1, <2>3 DEF TypeInv, WorkOK, Reviewing
  <2>4. QED
    BY <2>1, <2>2, <2>3 DEF TypeInv, WorkOK
<1>3. QED
  BY <1>1, <1>2 DEF TypeInv

(* ... and of those, the ones after which the handler is idle. *)
LEMMA FinishInv ==
    ASSUME TypeInv, NEW h \in Handler, Finish(h), DataType', UNCHANGED target,
           \A r \in Request : status[r] # "none" <=> status'[r] # "none"
    PROVE  TypeInv'
BY GotoInv, NoWorkType DEF Finish

(* A review goes on, possibly to its catch block. *)
LEMMA ReviewInv ==
    ASSUME TypeInv, NEW h \in Handler, Reviewing(h), NEW l \in ReviewStep,
           NEW w \in Work, Goto(h, l, w),
           w.req = work[h].req, w.acct = work[h].acct,
           DataType', UNCHANGED target,
           \A r \in Request : status[r] # "none" <=> status'[r] # "none"
    PROVE  TypeInv'
BY GotoInv DEF TypeInv, WorkOK

LEMMA ReviewType ==
    ASSUME TypeInv, NEW h \in Handler, Reviewing(h)
    PROVE  /\ work[h] \in Work /\ work[h].req \in Request
           /\ work[h].acct \in Account /\ work[h].seen \in VpnUser
           /\ DataType
BY DEF TypeInv, TypeOK, WorkOK, DataType, Work

LEMMA ThrowInv ==
    ASSUME TypeInv, NEW h \in Handler, Reviewing(h), Throw(h), DataType',
           UNCHANGED target,
           \A r \in Request : status[r] # "none" <=> status'[r] # "none"
    PROVE  TypeInv'
BY ReviewInv, ReviewType DEF Throw

(* A write of a row that is there. *)
LEMMA SetStatusInv ==
    ASSUME DataType, NEW r \in Request, RowExists(r), NEW s \in Row \cup {"gone"},
           SetStatus(r, s)
    PROVE  /\ status' \in [Request -> Status] /\ stale' \in SUBSET Request
           /\ status'[r] = s
           /\ \A q \in Request \ {r} : status'[q] = status[q]
           /\ \A q \in Request : status[q] # "none" <=> status'[q] # "none"
BY DEF DataType, SetStatus, RowExists

LEMMA TypeReview ==
    ASSUME TypeInv, NEW h \in Handler, ReviewNext(h)
    PROVE  TypeInv'
<1> USE DEF dbVars, pkiVars, history
<1>1. CASE Reject(h)
  <2>1. Reviewing(h) /\ DataType /\ work[h].req \in Request
    BY <1>1, ReviewType DEF Reject, Reviewing
  <2>2. DataType' /\ \A r \in Request : status[r] # "none" <=> status'[r] # "none"
    BY <1>1, <2>1, SetStatusInv DEF Reject, DataType
  <2>3. QED
    BY <1>1, <2>2, FinishInv DEF Reject
<1>2. CASE Claim(h)
  <2>1. Reviewing(h) /\ DataType /\ work[h].req \in Request /\ work[h] \in Work
    BY <1>2, ReviewType DEF Claim, Reviewing
  <2>2. DataType' /\ \A r \in Request : status[r] # "none" <=> status'[r] # "none"
    BY <1>2, <2>1, SetStatusInv DEF Claim, DataType
  <2>3. QED
    BY <1>2, <2>1, <2>2, FinishInv, ReviewInv DEF Claim
<1>3. CASE Lookup(h)
  <2>1. Reviewing(h) /\ DataType /\ work[h] \in Work /\ work[h].acct \in Account
    BY <1>3, ReviewType DEF Lookup, Reviewing
  <2> DEFINE w == [work[h] EXCEPT !.seen = user[work[h].acct]]
             l == IF user[work[h].acct].exists THEN "groups" ELSE "create"
  <2>2. w \in Work /\ w.req = work[h].req /\ w.acct = work[h].acct /\ l \in ReviewStep
    BY <2>1 DEF Work, DataType
  <2>3. Goto(h, l, w) /\ DataType' /\ UNCHANGED <<target, status>>
    BY <1>3, <2>1 DEF Lookup, DataType
  <2> HIDE DEF w, l
  <2>4. QED
    BY <2>1, <2>2, <2>3, ReviewInv
<1>4. CASE CreateUser(h)
  <2>1. Reviewing(h) /\ DataType /\ work[h] \in Work /\ work[h].acct \in Account
    BY <1>4, ReviewType DEF CreateUser, Reviewing
  <2> DEFINE w == [work[h] EXCEPT !.seen = NewUser]
  <2>2. NewUser \in VpnUser
    BY DEF NewUser, NoUser, VpnUser, CertStatus
  <2>3. w \in Work /\ w.req = work[h].req /\ w.acct = work[h].acct
    BY <2>1, <2>2 DEF Work
  <2>4. DataType' /\ UNCHANGED <<target, status>>
    BY <1>4, <2>1, <2>2 DEF CreateUser, DataType
  <2>5. Throw(h) \/ Goto(h, "groups", w)
    BY <1>4 DEF CreateUser
  <2> HIDE DEF w
  <2>6. QED
    BY <2>1, <2>3, <2>4, <2>5, ReviewInv, ThrowInv
<1>5. CASE AddGroups(h)
  <2>1. Reviewing(h) /\ DataType /\ work[h] \in Work /\ work[h].acct \in Account
    BY <1>5, ReviewType DEF AddGroups, Reviewing
  <2>2. DataType' /\ UNCHANGED <<target, status>>
    BY <1>5, <2>1 DEF AddGroups, DataType
  <2>3. QED
    BY <1>5, <2>1, <2>2, ReviewInv DEF AddGroups
<1>6. CASE GenerateCert(h) \/ GenerateCertFails(h) \/ ReadExpiryFails(h)
           \/ RevokeFresh(h) \/ RevokeFreshFails(h)
  <2>1. Reviewing(h) /\ DataType /\ work[h] \in Work /\ work[h].acct \in Account
    BY <1>6, ReviewType DEF GenerateCert, GenerateCertFails, ReadExpiryFails, RevokeFresh,
       RevokeFreshFails, Reviewing
  <2>2. DataType' /\ UNCHANGED <<target, status>>
    BY <1>6, <2>1 DEF GenerateCert, GenerateCertFails, ReadExpiryFails, RevokeFresh,
       RevokeFreshFails, DataType, Forgotten
  <2>3. Throw(h) \/ Goto(h, "expiry", work[h]) \/ Goto(h, "fail", work[h])
    BY <1>6 DEF GenerateCert, GenerateCertFails, ReadExpiryFails, RevokeFresh,
       RevokeFreshFails
  <2>4. QED
    BY <2>1, <2>2, <2>3, ReviewInv, ThrowInv
<1>7. CASE ReadExpiry(h)
  <2>1. Reviewing(h) /\ DataType /\ work[h] \in Work
    BY <1>7, ReviewType DEF ReadExpiry, Reviewing
  <2> DEFINE w == [work[h] EXCEPT !.fresh = TRUE]
  <2>2. w \in Work /\ w.req = work[h].req /\ w.acct = work[h].acct
    BY <2>1 DEF Work
  <2>3. Goto(h, "commit", w) /\ DataType' /\ UNCHANGED <<target, status>>
    BY <1>7, <2>1 DEF ReadExpiry, DataType
  <2> HIDE DEF w
  <2>4. QED
    BY <2>1, <2>2, <2>3, ReviewInv
<1>8. CASE Commit(h)
  <2>1. /\ Reviewing(h) /\ DataType /\ work[h] \in Work
        /\ work[h].acct \in Account /\ work[h].req \in Request
    BY <1>8, ReviewType DEF Commit, Reviewing
  <2>2. work[h].acct[1] \in Email
    BY <2>1 DEF Account
  <2>3. user' \in [Account -> VpnUser]
    <3> DEFINE row == [user[work[h].acct] EXCEPT !.enabled = TRUE, !.cert = "ACTIVE"]
    <3>1. row \in VpnUser
      BY <2>1, ZenonT(30) DEF DataType, VpnUser, CertStatus
    <3>2. user' = user \/ user' = [user EXCEPT ![work[h].acct] = row]
      BY <1>8, <2>1 DEF Commit, DataType
    <3> HIDE DEF row
    <3>3. QED
      BY <2>1, <3>1, <3>2 DEF DataType
  <2>4. /\ status' \in [Request -> Status] /\ stale' \in SUBSET Request
        /\ \A r \in Request : status[r] # "none" <=> status'[r] # "none"
    <3>1. CASE RowExists(work[h].req) /\ SetStatus(work[h].req, "APPROVED")
      BY <2>1, <3>1, SetStatusInv
    <3>2. CASE UNCHANGED <<status, stale>>
      BY <2>1, <3>2 DEF DataType
    <3>3. QED
      BY <1>8, <3>1, <3>2 DEF Commit
  <2>5. portal' \in SUBSET Email
    BY <1>8, <2>1, <2>2 DEF Commit, DataType
  <2>6. DataType'
    BY <1>8, <2>1, <2>3, <2>4, <2>5 DEF Commit, DataType
  <2>7. QED
    BY <2>6, <2>4, <1>8, <2>1, <2>4, ReviewInv, ThrowInv DEF Commit
<1>9. CASE WriteAudit(h)
  BY <1>9, FinishInv DEF WriteAudit, DataType, TypeInv, TypeOK
<1>10. CASE MarkFailed(h)
  <2>1. Reviewing(h) /\ DataType /\ work[h] \in Work /\ work[h].req \in Request
    BY <1>10, ReviewType DEF MarkFailed, Reviewing
  <2>2. DataType' /\ \A r \in Request : status[r] # "none" <=> status'[r] # "none"
    BY <1>10, <2>1, SetStatusInv DEF MarkFailed, DataType
  <2>3. QED
    BY <1>10, <2>1, <2>2, FinishInv, ReviewInv DEF MarkFailed
<1>11. CASE DisableUser(h)
  <2>1. Reviewing(h) /\ DataType /\ work[h].acct \in Account
    BY <1>11, ReviewType DEF DisableUser, Reviewing
  <2>2. user' \in [Account -> VpnUser]
    BY <1>11, <2>1 DEF DisableUser, DataType, VpnUser
  <2>3. DataType'
    BY <1>11, <2>1, <2>2 DEF DisableUser, DataType
  <2>4. QED
    BY <1>11, <2>3, FinishInv DEF DisableUser
<1>12. QED
  BY <1>1, <1>2, <1>3, <1>4, <1>5, <1>6, <1>7, <1>8, <1>9, <1>10, <1>11 DEF ReviewNext

LEMMA TypePass ==
    ASSUME TypeInv, NEW h \in Handler, PassNext(h)
    PROVE  TypeInv'
<1> USE DEF dbVars, pkiVars, history
<1>1. DataType /\ work[h] \in Work
  BY DEF TypeInv, TypeOK, DataType
<1>2. ASSUME NEW s \in Scans, ScanRequests(h, s)
      PROVE  TypeInv'
  <2>1. PICK l \in PassStep, todo \in SUBSET (Scans \cup Checks \cup {"users"}),
             found \in SUBSET (Request \X Scans) :
                Goto(h, l, [work[h] EXCEPT !.found = found, !.todo = todo])
    <3> DEFINE hits == {r \in Request : /\ status[r] = s
                                        /\ InScope(h, r)
                                        /\ (s = "APPROVED" \/ r \in stale)}
               todo == (work[h].todo \ {s})
                         \cup (IF s = "APPROVED" /\ hits # {} THEN {"users"} ELSE {})
               found == work[h].found \cup (hits \X {s})
    <3>1. Goto(h, AfterScan(todo), [work[h] EXCEPT !.found = found, !.todo = todo])
      BY <1>2 DEF ScanRequests
    <3>2. todo \in SUBSET (Scans \cup Checks \cup {"users"})
      BY <1>1 DEF Work
    <3>3. found \in SUBSET (Request \X Scans)
      BY <1>1 DEF Work
    <3>4. AfterScan(todo) \in PassStep
      BY DEF AfterScan
    <3> HIDE DEF todo, found
    <3>5. QED
      BY <3>1, <3>2, <3>3, <3>4
  <2> DEFINE w == [work[h] EXCEPT !.found = found, !.todo = todo]
  <2>2. w \in Work
    BY <1>1 DEF Work
  <2> HIDE DEF w
  <2>3. Goto(h, l, w) /\ DataType' /\ UNCHANGED <<target, status>>
    BY <1>1, <1>2, <2>1 DEF ScanRequests, DataType, w
  <2>4. QED
    BY <2>2, <2>3, GotoInv
<1>3. CASE ScanUsers(h)
  <2>1. PICK l \in PassStep, todo \in SUBSET (Scans \cup Checks \cup {"users"}),
             found \in SUBSET (Request \X Scans) :
                Goto(h, l, [work[h] EXCEPT !.found = found, !.todo = todo])
    <3> DEFINE todo == work[h].todo \ {"users"}
               found == {f \in work[h].found :
                            f[2] = "APPROVED" => ~user[target[f[1]]].enabled}
    <3>1. Goto(h, AfterScan(todo), [work[h] EXCEPT !.found = found, !.todo = todo])
      BY <1>3, <1>1 DEF ScanUsers, Work
    <3>2. todo \in SUBSET (Scans \cup Checks \cup {"users"})
      BY <1>1 DEF Work
    <3>3. found \in SUBSET (Request \X Scans)
      BY <1>1 DEF Work
    <3>4. AfterScan(todo) \in PassStep
      BY DEF AfterScan
    <3> HIDE DEF todo, found
    <3>5. QED
      BY <3>1, <3>2, <3>3, <3>4
  <2> DEFINE w == [work[h] EXCEPT !.found = found, !.todo = todo]
  <2>2. w \in Work
    BY <1>1 DEF Work
  <2> HIDE DEF w
  <2>3. Goto(h, l, w) /\ DataType' /\ UNCHANGED <<target, status>>
    BY <1>1, <1>3, <2>1 DEF ScanUsers, DataType, w
  <2>4. QED
    BY <2>2, <2>3, GotoInv
<1>4. ASSUME NEW f \in work[h].found, Expire(h, f)
      PROVE  TypeInv'
  <2>1. f[1] \in Request /\ f[2] \in Scans
    BY <1>1 DEF Work
  <2>2. /\ status' \in [Request -> Status] /\ stale' \in SUBSET Request
        /\ \A r \in Request : status[r] # "none" <=> status'[r] # "none"
    <3>1. CASE RowExists(f[1]) /\ SetStatus(f[1], "EXPIRED")
      BY <1>1, <2>1, <3>1, SetStatusInv
    <3>2. CASE UNCHANGED <<status, stale>>
      BY <1>1, <3>2 DEF DataType
    <3>3. QED
      BY <1>4, <2>1, <3>1, <3>2 DEF Expire, RowExists, Scans
  <2>3. DataType' /\ UNCHANGED target
    BY <1>1, <1>4, <2>2 DEF Expire, DataType
  <2> DEFINE w == [work[h] EXCEPT !.found = @ \ {f}]
  <2>4. w \in Work
    BY <1>1 DEF Work
  <2>5. Goto(h, "expire", w) \/ Finish(h)
    BY <1>4 DEF Expire
  <2> HIDE DEF w
  <2>6. QED
    BY <2>2, <2>3, <2>4, <2>5, GotoInv, FinishInv
<1>5. CASE ExpireDone(h)
  <2>1. DataType' /\ UNCHANGED <<target, status>>
    BY <1>1, <1>5 DEF ExpireDone, DataType
  <2>2. CASE Finish(h)
    BY <2>1, <2>2, FinishInv
  <2>3. CASE Posting(h) /\ Goto(h, "check", [work[h] EXCEPT !.todo = Checks])
    <3> DEFINE w == [work[h] EXCEPT !.todo = Checks]
    <3>1. w \in Work /\ w.acct = work[h].acct
      BY <1>1 DEF Work
    <3>2. w.acct \in Account
      BY <1>1, <2>3, <3>1 DEF Posting, Work
    <3> HIDE DEF w
    <3>3. Goto(h, "check", w)
      BY <2>3 DEF w
    <3>4. QED
      BY <2>1, <3>1, <3>2, <3>3, GotoInv
  <2>4. QED
    BY <1>5, <2>2, <2>3 DEF ExpireDone
<1>6. QED
  BY <1>2, <1>3, <1>4, <1>5 DEF PassNext

LEMMA TypePost ==
    ASSUME TypeInv, NEW h \in Handler, PostNext(h)
    PROVE  TypeInv'
<1> USE DEF dbVars, pkiVars, history
<1>1. DataType /\ work[h] \in Work
  BY DEF TypeInv, TypeOK, DataType
<1>2. ASSUME NEW q \in Checks, Check(h, q)
      PROVE  TypeInv'
  <2>1. DataType' /\ UNCHANGED <<target, status>> /\ work[h].acct \in Account
    BY <1>1, <1>2 DEF Check, DataType, TypeInv, WorkOK
  <2> DEFINE b == work[h].blocked \/ Refuses(h, q)
             t == work[h].todo \ {q}
             w == [work[h] EXCEPT !.todo = t, !.blocked = b]
             v == [work[h] EXCEPT !.todo = {}]
  <2>2. b \in BOOLEAN
    OBVIOUS
  <2>3. t \in SUBSET (Scans \cup Checks \cup {"users"})
    BY <1>1 DEF Work
  <2>4. Goto(h, "check", w) \/ Goto(h, "insert", v) \/ Finish(h)
    <3>1. t # {} \/ (t = {} /\ b) \/ (t = {} /\ ~b)
      OBVIOUS
    <3>2. QED
      BY <1>2, <3>1 DEF Check
  <2> HIDE DEF b, t
  <2>5. w \in Work /\ v \in Work /\ w.acct = work[h].acct /\ v.acct = work[h].acct
    BY <1>1, <2>2, <2>3 DEF Work
  <2> HIDE DEF w, v
  <2>6. QED
    BY <2>1, <2>4, <2>5, GotoInv, FinishInv
<1>3. CASE Insert(h)
  <2>1. work[h].acct \in Account
    BY <1>3 DEF Insert, TypeInv, WorkOK
  <2>2. PICK r \in Unborn : /\ status' = [status EXCEPT ![r] = "PENDING"]
                            /\ target' = [target EXCEPT ![r] = work[h].acct]
    BY <1>3 DEF Insert
  <2>3. r \in Request /\ status[r] = "none"
    BY DEF Unborn
  <2>4. Goto(h, "idle", NoWork)
    BY <1>3 DEF Insert, Finish
  <2>5. TypeOK'
    BY <1>1, <1>3, <2>1, <2>2, <2>3, <2>4, NoWorkType, GotoType
    DEF Insert, TypeInv, TypeOK, DataType
  <2>6. /\ pc'[h] = "idle"
        /\ \A g \in Handler \ {h} : pc'[g] = pc[g] /\ work'[g] = work[g]
    BY <2>4, NoWorkType, GotoType DEF TypeInv
  <2>7. \A s \in Request : status[s] # "none" => /\ status'[s] = status[s]
                                               /\ target'[s] = target[s]
    BY <1>1, <2>2, <2>3 DEF DataType
  <2>8. \A s \in Request : status'[s] # "none" => target'[s] \in Account
    BY <1>1, <2>1, <2>2, <2>3 DEF DataType, TypeInv, WorkOK
  <2>9. WorkOK'
    BY <2>6, <2>7, <2>8 DEF TypeInv, WorkOK, Reviewing
  <2>10. QED
    BY <2>5, <2>9 DEF TypeInv
<1>4. QED
  BY <1>2, <1>3 DEF PostNext

LEMMA TypeOther ==
    ASSUME TypeInv, NEW h \in Handler, Delete(h) \/ DatabaseError(h)
    PROVE  TypeInv'
<1> USE DEF dbVars, pkiVars, history
<1>1. DataType /\ work[h] \in Work
  BY DEF TypeInv, TypeOK, DataType
<1>2. CASE Delete(h)
  <2>1. work[h].req \in Request
    BY <1>2 DEF Delete, TypeInv, WorkOK
  <2>2. DataType' /\ \A r \in Request : status[r] # "none" <=> status'[r] # "none"
    BY <1>1, <1>2, <2>1, SetStatusInv DEF Delete, DataType
  <2>3. QED
    BY <1>2, <2>2, FinishInv DEF Delete
<1>3. CASE DatabaseError(h)
  <2>1. CASE pc[h] \in {"create", "groups", "commit", "audit"} /\ Throw(h) /\ UNCHANGED abandoned
    <3>1. DataType' /\ UNCHANGED <<target, status>> /\ Reviewing(h)
      BY <1>1, <1>3, <2>1 DEF DatabaseError, DataType, Reviewing
    <3>2. QED
      BY <2>1, <3>1, ThrowInv
  <2>2. CASE Finish(h) /\ (pc[h] \in {"lookup", "fail"} \/ UNCHANGED abandoned)
    <3>1. pc[h] \in {"lookup", "fail"} => work[h].req \in Request
      BY ReviewType DEF Reviewing
    <3>2. DataType' /\ UNCHANGED <<target, status>>
      BY <1>1, <1>3, <2>2, <3>1 DEF DatabaseError, DataType
    <3>3. QED
      BY <2>2, <3>2, FinishInv
  <2>3. QED
    BY <1>3, <2>1, <2>2 DEF DatabaseError
<1>4. QED
  BY <1>2, <1>3

LEMMA TypeStep == TypeInv /\ [Next]_vars => TypeInv'
<1> SUFFICES ASSUME TypeInv, [Next]_vars
             PROVE  TypeInv'
  OBVIOUS
<1> USE DEF dbVars, pkiVars, history
<1>1. ASSUME NEW h \in Handler, Start(h) \/ Continue(h)
      PROVE  TypeInv'
  BY <1>1, TypeStart, TypeReview, TypePass, TypePost, TypeOther DEF Continue
<1>2. ASSUME NEW r \in Request, Age(r)
      PROVE  TypeInv'
  BY <1>2 DEF Age, TypeInv, TypeOK, WorkOK, Reviewing
<1>3. ASSUME NEW a \in Account, ToggleUser(a) \/ RevokeUser(a)
      PROVE  TypeInv'
  <2>1. user' \in [Account -> VpnUser]
    <3> DEFINE toggled == [user[a] EXCEPT !.enabled = ~user[a].enabled]
               revoked == [user[a] EXCEPT !.cert = "REVOKED"]
    <3>1. user \in [Account -> VpnUser] /\ user[a] \in VpnUser
      BY DEF TypeInv, TypeOK
    <3>2. toggled \in VpnUser
      BY <3>1 DEF VpnUser
    <3>3. revoked \in VpnUser
      BY <3>1 DEF VpnUser, CertStatus
    <3>4. user' = [user EXCEPT ![a] = toggled] \/ user' = [user EXCEPT ![a] = revoked]
      BY <1>3, <3>1 DEF ToggleUser, RevokeUser
    <3> HIDE DEF toggled, revoked
    <3>5. QED
      BY <3>1, <3>2, <3>3, <3>4
  <2>2. TypeOK'
    BY <1>3, <2>1 DEF ToggleUser, RevokeUser, TypeInv, TypeOK
  <2>3. WorkOK'
    BY <1>3 DEF ToggleUser, RevokeUser, TypeInv, WorkOK, Reviewing
  <2>4. QED
    BY <2>2, <2>3 DEF TypeInv
<1>4. CASE Crash
  <2>1. TypeOK'
    BY <1>4, NoWorkType DEF Crash, TypeInv, TypeOK
  <2>2. WorkOK'
    BY <1>4 DEF Crash, TypeInv, WorkOK, Reviewing
  <2>3. QED
    BY <2>1, <2>2 DEF TypeInv
<1>5. CASE UNCHANGED vars
  BY <1>5 DEF vars, TypeInv, TypeOK, WorkOK, Reviewing
<1>6. QED
  BY <1>1, <1>2, <1>3, <1>4, <1>5 DEF Next

(* Every variable keeps its type, and every handler was given what its next *)
(* step uses: the request it reviews had a row when it started and asks for *)
(* the account it provisions.                                               *)
LEMMA TypeInvariant == Spec => []TypeInv
BY TypeInit, TypeStep, PTL DEF Spec

(* Every variable keeps its type: rows, certificates and what the handlers *)
(* of the routes and of the lifecycle pass carry between their awaits.     *)
THEOREM TypeCorrect == Spec => []TypeOK
BY TypeInvariant, PTL DEF TypeInv

-----------------------------------------------------------------------------
(* The other handlers do not notice a handler's step. *)

LEMMA ReviewMoves ==
    ASSUME NEW h, ReviewNext(h)
    PROVE  \E l, w : Goto(h, l, w)
<1>1. CASE Reject(h) \/ Claim(h) \/ Lookup(h) \/ CreateUser(h) \/ AddGroups(h)
  BY <1>1 DEF Reject, Claim, Lookup, CreateUser, AddGroups, Finish, Throw
<1>2. CASE GenerateCert(h) \/ GenerateCertFails(h) \/ ReadExpiry(h) \/ ReadExpiryFails(h)
  BY <1>2 DEF GenerateCert, GenerateCertFails, ReadExpiry, ReadExpiryFails, Throw
<1>3. CASE Commit(h) \/ WriteAudit(h) \/ RevokeFresh(h) \/ RevokeFreshFails(h)
  BY <1>3 DEF Commit, WriteAudit, RevokeFresh, RevokeFreshFails, Finish, Throw
<1>4. CASE MarkFailed(h) \/ DisableUser(h)
  BY <1>4 DEF MarkFailed, DisableUser, Finish
<1>5. QED
  BY <1>1, <1>2, <1>3, <1>4 DEF ReviewNext

LEMMA HandlerFrame ==
    ASSUME TypeInv, NEW h \in Handler, Start(h) \/ Continue(h),
           NEW g \in Handler, g # h
    PROVE  pc'[g] = pc[g] /\ work'[g] = work[g]
<1>1. \E l, w : Goto(h, l, w)
  <2>1. CASE Start(h)
    BY <2>1 DEF Start, StartReview, StartCancel, StartPost, StartLifecycle, Begin, Goto
  <2>2. CASE ReviewNext(h)
    BY <2>2, ReviewMoves
  <2>3. CASE PassNext(h)
    <3>1. ASSUME NEW s \in Scans, ScanRequests(h, s)
          PROVE  \E l, w : Goto(h, l, w)
      BY <3>1 DEF ScanRequests
    <3>2. CASE ScanUsers(h)
      BY <3>2 DEF ScanUsers
    <3>3. ASSUME NEW f \in work[h].found, Expire(h, f)
          PROVE  \E l, w : Goto(h, l, w)
      BY <3>3 DEF Expire, Finish
    <3>4. CASE ExpireDone(h)
      BY <3>4 DEF ExpireDone, Finish
    <3>5. QED
      BY <2>3, <3>1, <3>2, <3>3, <3>4 DEF PassNext
  <2>4. CASE PostNext(h)
    <3>1. ASSUME NEW q \in Checks, Check(h, q)
          PROVE  \E l, w : Goto(h, l, w)
      <4> DEFINE b == work[h].blocked \/ Refuses(h, q)
                 t == work[h].todo \ {q}
      <4>1. t # {} \/ (t = {} /\ b) \/ (t = {} /\ ~b)
        OBVIOUS
      <4>2. \/ Goto(h, "check", [work[h] EXCEPT !.todo = t, !.blocked = b])
            \/ Finish(h)
            \/ Goto(h, "insert", [work[h] EXCEPT !.todo = {}])
        BY <3>1, <4>1 DEF Check
      <4> HIDE DEF b, t
      <4>3. QED
        BY <4>2 DEF Finish
    <3>2. CASE Insert(h)
      BY <3>2 DEF Insert, Finish
    <3>3. QED
      BY <2>4, <3>1, <3>2 DEF PostNext
  <2>5. CASE Delete(h) \/ DatabaseError(h)
    BY <2>5 DEF Delete, DatabaseError, Finish, Throw
  <2>6. QED
    BY <2>1, <2>2, <2>3, <2>4, <2>5 DEF Continue
<1>2. QED
  BY <1>1 DEF Goto, TypeInv, TypeOK

-----------------------------------------------------------------------------
(* A claimed request has an owner. *)

(* The reviewer that owes a status keeps owing it, pays it, or dies. *)
LEMMA OwnerPays ==
    ASSUME TypeInv, NEW h \in Handler, Continue(h), NEW r \in Request,
           Owner(h, r), status[r] = "PROCESSING", status'[r] = "PROCESSING"
    PROVE  Owner(h, r)' \/ r \in abandoned'
<1> USE DEF Owner
<1>1. /\ pc \in [Handler -> PC] /\ work \in [Handler -> Work]
      /\ status \in [Request -> Status] /\ Reviewing(h)
      /\ work[h].req = r /\ RowExists(r)
  BY DEF TypeInv, TypeOK, Reviewing, RowExists
<1>2. ASSUME NEW l \in Provisioning, NEW w, w.req = r, Goto(h, l, w)
      PROVE  Owner(h, r)'
  BY <1>1, <1>2 DEF Goto
<1>3. ASSUME Throw(h)
      PROVE  Owner(h, r)'
  BY <1>1, <1>2, <1>3 DEF Throw
<1>4. CASE Lookup(h)
  <2> DEFINE w == [work[h] EXCEPT !.seen = user[work[h].acct]]
             l == IF user[work[h].acct].exists THEN "groups" ELSE "create"
  <2>1. Goto(h, l, w) /\ l \in Provisioning
    BY <1>4 DEF Lookup
  <2>2. w.req = r
    BY <1>1 DEF Work
  <2> HIDE DEF w, l
  <2>3. QED
    BY <2>1, <2>2, <1>2
<1>5. CASE CreateUser(h)
  <2> DEFINE w == [work[h] EXCEPT !.seen = NewUser]
  <2>1. Throw(h) \/ Goto(h, "groups", w)
    BY <1>5 DEF CreateUser
  <2>2. w.req = r
    BY <1>1 DEF Work
  <2> HIDE DEF w
  <2>3. QED
    BY <2>1, <2>2, <1>2, <1>3
<1>6. CASE AddGroups(h) \/ GenerateCert(h) \/ RevokeFresh(h) \/ RevokeFreshFails(h)
           \/ GenerateCertFails(h) \/ ReadExpiryFails(h)
  BY <1>6, <1>1, <1>2, <1>3 DEF AddGroups, GenerateCert, RevokeFresh, RevokeFreshFails,
     GenerateCertFails, ReadExpiryFails
<1>7. CASE ReadExpiry(h)
  <2> DEFINE w == [work[h] EXCEPT !.fresh = TRUE]
  <2>1. Goto(h, "commit", w)
    BY <1>7 DEF ReadExpiry
  <2>2. w.req = r
    BY <1>1 DEF Work
  <2> HIDE DEF w
  <2>3. QED
    BY <2>1, <2>2, <1>2
<1>8. CASE Commit(h)
  BY <1>8, <1>1, <1>3 DEF Commit, SetStatus
<1>9. CASE MarkFailed(h)
  BY <1>9, <1>1 DEF MarkFailed, SetStatus
<1>10. CASE DatabaseError(h)
  <2>1. CASE Throw(h)
    BY <2>1, <1>3
  <2>2. CASE pc[h] \in {"lookup", "fail"} /\ abandoned' = abandoned \cup {work[h].req}
    BY <2>2, <1>1
  <2>3. QED
    BY <1>10, <2>1, <2>2 DEF DatabaseError
<1>11. QED
  <2>1. pc[h] \in Provisioning
    OBVIOUS
  <2>2. ~(\/ Reject(h) \/ Claim(h) \/ WriteAudit(h) \/ DisableUser(h) \/ Delete(h)
          \/ PassNext(h) \/ PostNext(h))
    BY <2>1 DEF Reject, Claim, WriteAudit, DisableUser, Delete, PassNext, ScanRequests,
       ScanUsers, Expire, ExpireDone, PostNext, Check, Insert
  <2>3. QED
    BY <2>2, <1>4, <1>5, <1>6, <1>7, <1>8, <1>9, <1>10 DEF Continue, ReviewNext

(* What a step may write to a status: the table of the handlers. *)
LEMMA StatusWrites ==
    ASSUME TypeInv, NEW h \in Handler, Start(h) \/ Continue(h),
           NEW r \in Request, status'[r] # status[r]
    PROVE  \/ Reject(h) /\ work[h].req = r /\ status'[r] = "REJECTED"
           \/ Claim(h) /\ work[h].req = r /\ status'[r] = "PROCESSING"
                       /\ Goto(h, "lookup", work[h])
           \/ Commit(h) /\ work[h].req = r /\ status'[r] = "APPROVED"
           \/ MarkFailed(h) /\ work[h].req = r /\ status'[r] = "FAILED"
           \/ Delete(h) /\ work[h].req = r /\ status'[r] = "gone"
           \/ Insert(h) /\ status[r] = "none" /\ status'[r] = "PENDING"
           \/ PassNext(h) /\ status[r] \in Scans /\ status'[r] = "EXPIRED"
<1> USE DEF dbVars
<1>1. status \in [Request -> Status]
  BY DEF TypeInv, TypeOK
<1>2. ~Start(h)
  BY DEF Start, StartReview, StartCancel, StartPost, StartLifecycle
<1>3. CASE ReviewNext(h)
  <2>1. \/ Reject(h) \/ Claim(h) \/ Commit(h) \/ MarkFailed(h)
    BY <1>3 DEF ReviewNext, Lookup, CreateUser, AddGroups, GenerateCert, GenerateCertFails,
       ReadExpiry, ReadExpiryFails, WriteAudit, RevokeFresh, RevokeFreshFails, DisableUser
  <2>2. CASE Reject(h)
    BY <2>2, <1>1 DEF Reject, SetStatus
  <2>3. CASE Claim(h)
    BY <2>3, <1>1 DEF Claim, SetStatus
  <2>4. CASE Commit(h)
    BY <2>4, <1>1 DEF Commit, SetStatus
  <2>5. CASE MarkFailed(h)
    BY <2>5, <1>1 DEF MarkFailed, SetStatus
  <2>6. QED
    BY <2>1, <2>2, <2>3, <2>4, <2>5
<1>4. CASE PassNext(h)
  <2>1. PICK f \in work[h].found : Expire(h, f)
    BY <1>4 DEF PassNext, ScanRequests, ScanUsers, ExpireDone
  <2>2. f[1] \in Request /\ f[2] \in Scans
    BY DEF TypeInv, TypeOK, Work
  <2>3. status[f[1]] = f[2] /\ status' = [status EXCEPT ![f[1]] = "EXPIRED"]
    BY <2>1 DEF Expire, SetStatus
  <2>4. r = f[1] /\ status'[r] = "EXPIRED"
    BY <1>1, <2>2, <2>3
  <2>5. QED
    BY <1>4, <2>2, <2>3, <2>4
<1>5. CASE PostNext(h)
  <2>1. Insert(h)
    BY <1>5 DEF PostNext, Check
  <2>2. PICK q \in Unborn : status' = [status EXCEPT ![q] = "PENDING"]
    BY <2>1 DEF Insert
  <2>3. QED
    BY <1>1, <2>1, <2>2 DEF Unborn
<1>6. CASE Delete(h)
  BY <1>6, <1>1 DEF Delete, SetStatus
<1>7. CASE DatabaseError(h)
  BY <1>7 DEF DatabaseError
<1>8. QED
  BY <1>2, <1>3, <1>4, <1>5, <1>6, <1>7 DEF Continue

(* Nothing but a handler's step writes a status. *)
LEMMA OnlyHandlersWrite ==
    ASSUME [Next]_vars, status' # status
    PROVE  \E h \in Handler : Start(h) \/ Continue(h)
BY DEF Next, vars, dbVars, Age, ToggleUser, RevokeUser, Crash

LEMMA OwnedStep == TypeInv /\ ProcessingOwned /\ [Next]_vars => ProcessingOwned'
<1> SUFFICES ASSUME TypeInv, ProcessingOwned, [Next]_vars,
                    NEW r \in Request, status'[r] = "PROCESSING"
             PROVE  r \in abandoned' \/ \E h \in Handler : Owner(h, r)'
  BY DEF ProcessingOwned
<1>1. ASSUME NEW h \in Handler, Start(h) \/ Continue(h)
      PROVE  r \in abandoned' \/ \E g \in Handler : Owner(g, r)'
  <2>1. CASE status[r] # "PROCESSING"
    <3>1. Claim(h) /\ work[h].req = r /\ Goto(h, "lookup", work[h])
      BY <1>1, <2>1, StatusWrites
    <3>2. Owner(h, r)'
      BY <3>1 DEF Owner, Goto, TypeInv, TypeOK
    <3>3. QED
      BY <3>2
  <2>2. CASE status[r] = "PROCESSING" /\ r \in abandoned
    <3>1. abandoned \subseteq abandoned'
      <4>1. CASE Start(h)
        BY <4>1 DEF Start, StartReview, StartCancel, StartPost, StartLifecycle, history
      <4>2. CASE ReviewNext(h)
        BY <4>2 DEF ReviewNext, Reject, Claim, Lookup, CreateUser, AddGroups, GenerateCert,
           GenerateCertFails, ReadExpiry, ReadExpiryFails, Commit, WriteAudit,
           RevokeFresh, RevokeFreshFails, MarkFailed, DisableUser, history
      <4>3. CASE PassNext(h) \/ PostNext(h) \/ Delete(h) \/ DatabaseError(h)
        BY <4>3 DEF PassNext, ScanRequests, ScanUsers, Expire, ExpireDone, PostNext, Check,
           Insert, Delete, DatabaseError, history
      <4>4. QED
        BY <1>1, <4>1, <4>2, <4>3 DEF Continue
    <3>2. QED
      BY <2>2, <3>1
  <2>3. CASE status[r] = "PROCESSING" /\ \E g \in Handler : Owner(g, r)
    <3>1. PICK g \in Handler : Owner(g, r)
      BY <2>3
    <3>2. CASE g # h
      BY <1>1, <3>1, <3>2, HandlerFrame DEF Owner
    <3>3. CASE g = h
      <4>1. Continue(h)
        BY <1>1, <3>1, <3>3 DEF Owner, Start, StartReview, StartCancel, StartPost,
           StartLifecycle, Begin
      <4>2. QED
        BY <2>3, <3>1, <3>3, <4>1, OwnerPays
    <3>4. QED
      BY <3>2, <3>3
  <2>4. QED
    BY <2>1, <2>2, <2>3 DEF ProcessingOwned
<1>2. CASE Crash
  BY <1>2 DEF Crash, ProcessingOwned, dbVars
<1>3. CASE UNCHANGED vars \/ (\E q \in Request : Age(q))
           \/ (\E a \in Account : ToggleUser(a) \/ RevokeUser(a))
  <2>1. UNCHANGED <<status, pc, work>> /\ UNCHANGED abandoned
    BY <1>3 DEF vars, dbVars, history, Age, ToggleUser, RevokeUser
  <2>2. QED
    BY <2>1 DEF ProcessingOwned, Owner
<1>4. QED
  BY <1>1, <1>2, <1>3 DEF Next

(* For any number of handlers in any interleaving and whatever fails: a    *)
(* request is in PROCESSING only while a handler that will still write its *)
(* outcome is in flight, or after such a handler died.                     *)
THEOREM ProcessingIsOwned == Spec => []ProcessingOwned
<1>1. Init => ProcessingOwned
  BY DEF Init, ProcessingOwned
<1>2. QED
  BY <1>1, OwnedStep, TypeInvariant, PTL DEF Spec

-----------------------------------------------------------------------------
(* Reviews of one account that do not overlap. *)

(* A reviewer keeps its request and account until it is done, and is       *)
(* engaged only by claiming.                                               *)
LEMMA ReviewerKeeps ==
    ASSUME TypeInv, NEW h \in Handler, Reviewing(h), Continue(h), Reviewing(h)'
    PROVE  /\ work'[h].req = work[h].req /\ work'[h].acct = work[h].acct
           /\ \/ pc[h] \in Provisioning \cup FollowUp
              \/ Claim(h) /\ status'[work[h].req] = "PROCESSING"
<1>1. /\ pc \in [Handler -> PC] /\ work \in [Handler -> Work]
      /\ status \in [Request -> Status] /\ work[h].req \in Request
      /\ pc'[h] # "idle"
  BY DEF TypeInv, TypeOK, WorkOK, Reviewing
<1>2. ~Finish(h)
  BY <1>1 DEF Finish, Goto
<1>3. ASSUME NEW l, NEW w, w.req = work[h].req, w.acct = work[h].acct, Goto(h, l, w)
      PROVE  work'[h].req = work[h].req /\ work'[h].acct = work[h].acct
  BY <1>1, <1>3 DEF Goto
<1>4. Throw(h) => work'[h].req = work[h].req /\ work'[h].acct = work[h].acct
  BY <1>3 DEF Throw
<1>5. CASE Claim(h)
  BY <1>1, <1>2, <1>3, <1>5 DEF Claim, SetStatus
<1>6. CASE Lookup(h) \/ CreateUser(h) \/ ReadExpiry(h)
  <2>1. PICK l, w : /\ Goto(h, l, w)
                    /\ w.req = work[h].req /\ w.acct = work[h].acct
    <3>1. \A x : LET w == [work[h] EXCEPT !.seen = x]
                 IN  w.req = work[h].req /\ w.acct = work[h].acct
      BY <1>1 DEF Work
    <3>2. LET w == [work[h] EXCEPT !.fresh = TRUE]
          IN  w.req = work[h].req /\ w.acct = work[h].acct
      BY <1>1 DEF Work
    <3>3. CASE Lookup(h)
      BY <3>1, <3>3, ZenonT(30) DEF Lookup
    <3>4. CASE CreateUser(h)
      BY <3>1, <3>4, ZenonT(30) DEF CreateUser, Throw
    <3>5. CASE ReadExpiry(h)
      BY <3>2, <3>5 DEF ReadExpiry
    <3>6. QED
      BY <1>6, <3>3, <3>4, <3>5
  <2>2. pc[h] \in Provisioning
    BY <1>6 DEF Lookup, CreateUser, ReadExpiry
  <2>3. QED
    BY <2>1, <2>2, <1>3
<1>7. CASE AddGroups(h) \/ GenerateCert(h) \/ GenerateCertFails(h) \/ ReadExpiryFails(h)
           \/ Commit(h) \/ RevokeFresh(h) \/ RevokeFreshFails(h) \/ MarkFailed(h)
  BY <1>7, <1>2, <1>3, <1>4 DEF AddGroups, GenerateCert, GenerateCertFails, ReadExpiryFails,
     Commit, RevokeFresh, RevokeFreshFails, MarkFailed
<1>8. CASE DatabaseError(h)
  BY <1>8, <1>2, <1>4 DEF DatabaseError
<1>9. ~(\/ Reject(h) \/ WriteAudit(h) \/ DisableUser(h) \/ Delete(h)
        \/ PassNext(h) \/ PostNext(h))
  BY <1>2 DEF Reviewing, Reject, WriteAudit, DisableUser, Delete, PassNext, ScanRequests,
     ScanUsers, Expire, ExpireDone, PostNext, Check, Insert
<1>10. QED
  BY <1>5, <1>6, <1>7, <1>8, <1>9 DEF Continue, ReviewNext

(* No handler starts a review but from idle. *)
LEMMA ReviewerStarts ==
    ASSUME TypeInv, NEW h \in Handler, Start(h) \/ Continue(h), Reviewing(h)', ~Reviewing(h)
    PROVE  \E r \in Request, d \in {"claim", "reject"} :
                /\ StartReview(h, r, d) /\ pc'[h] = d
                /\ work'[h].req = r /\ work'[h].acct = target[r]
<1>1. pc \in [Handler -> PC] /\ work \in [Handler -> Work]
  BY DEF TypeInv, TypeOK
<1>2. CASE Start(h)
  <2>1. PICK r \in Request, d \in {"claim", "reject"} : StartReview(h, r, d)
    BY <1>1, <1>2 DEF Start, StartCancel, StartPost, StartLifecycle, Begin, Reviewing
  <2> DEFINE w == [NoWork EXCEPT !.req = r, !.acct = target[r]]
  <2>2. Begin(h, d, w)
    BY <2>1 DEF StartReview
  <2>3. w.req = r /\ w.acct = target[r]
    BY DEF NoWork
  <2> HIDE DEF w
  <2>4. pc'[h] = d /\ work'[h] = w
    BY <1>1, <2>2 DEF Begin
  <2>5. QED
    BY <2>1, <2>3, <2>4
<1>3. CASE Continue(h)
  <2>1. ~ReviewNext(h)
    BY DEF Reviewing, ReviewNext, Reject, Claim, Lookup, CreateUser, AddGroups, GenerateCert,
       GenerateCertFails, ReadExpiry, ReadExpiryFails, Commit, WriteAudit, RevokeFresh,
       RevokeFreshFails, MarkFailed, DisableUser
  <2>2. \E l \in PassStep \cup {"check", "insert", "idle"} : pc' = [pc EXCEPT ![h] = l]
    <3>1. CASE PassNext(h)
      BY <3>1 DEF PassNext, ScanRequests, ScanUsers, Expire, ExpireDone, Finish, Goto, AfterScan
    <3>2. CASE PostNext(h)
      <4>1. ASSUME NEW q \in Checks, Check(h, q)
            PROVE  \E l \in PassStep \cup {"check", "insert", "idle"} : pc' = [pc EXCEPT ![h] = l]
        <5> DEFINE b == work[h].blocked \/ Refuses(h, q)
                   t == work[h].todo \ {q}
        <5>1. t # {} \/ (t = {} /\ b) \/ (t = {} /\ ~b)
          OBVIOUS
        <5>2. \/ Goto(h, "check", [work[h] EXCEPT !.todo = t, !.blocked = b])
              \/ Finish(h)
              \/ Goto(h, "insert", [work[h] EXCEPT !.todo = {}])
          BY <4>1, <5>1 DEF Check
        <5> HIDE DEF b, t
        <5>3. QED
          BY <5>2 DEF Finish, Goto
      <4>2. QED
        BY <3>2, <4>1 DEF PostNext, Insert, Finish, Goto
    <3>3. CASE Delete(h)
      BY <3>3 DEF Delete, Finish, Goto
    <3>4. CASE DatabaseError(h)
      BY <3>4 DEF DatabaseError, Finish, Goto, Reviewing
    <3>5. QED
      BY <1>3, <2>1, <3>1, <3>2, <3>3, <3>4 DEF Continue
  <2>3. QED
    BY <1>1, <2>2 DEF Reviewing
<1>4. QED
  BY <1>2, <1>3

(* Two handlers that review the same account are one. *)
OneReviewer ==
    ~ReviewersRace =>
        \A g, h \in Handler :
            Reviewing(g) /\ Reviewing(h) /\ work[g].acct = work[h].acct => g = h

SerialInv == TypeInv /\ OneReviewer /\ RejectedIsQuiet

LEMMA OneReviewerStep == TypeInv /\ OneReviewer /\ [Next]_vars => OneReviewer'
<1> SUFFICES ASSUME TypeInv, OneReviewer, [Next]_vars, ~ReviewersRace,
                    NEW g \in Handler, NEW h \in Handler, g # h,
                    Reviewing(g)', Reviewing(h)', work'[g].acct = work'[h].acct
             PROVE  FALSE
  BY DEF OneReviewer
<1>1. ASSUME NEW k \in Handler, Start(k) \/ Continue(k),
             NEW i \in Handler, i # k, Reviewing(i)', Reviewing(k)',
             work'[i].acct = work'[k].acct
      PROVE  FALSE
  <2>1. Reviewing(i) /\ work[i].acct = work'[k].acct
    BY <1>1, HandlerFrame DEF Reviewing
  <2>2. CASE Reviewing(k)
    <3>1. Continue(k)
      BY <1>1, <2>2 DEF Start, StartReview, StartCancel, StartPost, StartLifecycle, Begin,
         Reviewing
    <3>2. work'[k].acct = work[k].acct
      BY <1>1, <2>2, <3>1, ReviewerKeeps
    <3>3. QED
      BY <1>1, <2>1, <2>2, <3>2 DEF OneReviewer
  <2>3. CASE ~Reviewing(k)
    <3>1. PICK r \in Request, d \in {"claim", "reject"} :
             StartReview(k, r, d) /\ work'[k].acct = target[r]
      BY <1>1, <2>3, ReviewerStarts
    <3>2. QED
      BY <2>1, <3>1 DEF StartReview
  <2>4. QED
    BY <2>2, <2>3
<1>2. ASSUME NEW k \in Handler, Start(k) \/ Continue(k)
      PROVE  FALSE
  <2>1. CASE k = g
    BY <1>1, <1>2, <2>1
  <2>2. CASE k = h
    BY <1>1, <1>2, <2>2
  <2>3. CASE k # g /\ k # h
    BY <1>2, <2>3, HandlerFrame DEF OneReviewer, Reviewing
  <2>4. QED
    BY <2>1, <2>2, <2>3
<1>3. CASE Crash
  BY <1>3 DEF Crash, Reviewing
<1>4. CASE UNCHANGED <<pc, work>>
  BY <1>4 DEF OneReviewer, Reviewing
<1>5. QED
  BY <1>2, <1>3, <1>4 DEF Next, vars, Age, ToggleUser, RevokeUser

(* A reviewer that was on r before the step, or the step that put it there. *)
LEMMA ReviewerFrom ==
    ASSUME TypeInv, NEW k \in Handler, Start(k) \/ Continue(k),
           NEW h \in Handler, NEW r \in Request, Reviewing(h)', work'[h].req = r
    PROVE  \/ /\ Reviewing(h) /\ work[h].req = r
              /\ \/ pc'[h] = pc[h]
                 \/ pc[h] \in Provisioning \cup FollowUp
                 \/ status'[r] = "PROCESSING"
           \/ /\ status[r] \in {"PENDING", "FAILED"} /\ UNCHANGED status
              /\ pc'[h] \in {"claim", "reject"}
<1>1. CASE h # k
  BY <1>1, HandlerFrame DEF Reviewing
<1>2. CASE h = k /\ Reviewing(h)
  <2>1. Continue(h)
    BY <1>2 DEF Start, StartReview, StartCancel, StartPost, StartLifecycle, Begin, Reviewing
  <2>2. QED
    BY <1>2, <2>1, ReviewerKeeps
<1>3. CASE h = k /\ ~Reviewing(h)
  <2>1. PICK q \in Request, d \in {"claim", "reject"} :
           StartReview(h, q, d) /\ pc'[h] = d /\ work'[h].req = q
    BY <1>3, ReviewerStarts
  <2>2. QED
    BY <2>1 DEF StartReview, dbVars
<1>4. QED
  BY <1>1, <1>2, <1>3

LEMMA QuietStep == SerialInv /\ [Next]_vars => RejectedIsQuiet'
<1> SUFFICES ASSUME SerialInv, [Next]_vars, ~ReviewersRace,
                    NEW r \in Request, NEW h \in Handler
             PROVE  /\ ~(status'[r] = "PENDING" /\ Engaged(h, r)')
                    /\ ~(status'[r] = "REJECTED" /\ Reviewing(h)' /\ work'[h].req = r)
  BY DEF RejectedIsQuiet
<1> USE DEF SerialInv
<1>0. /\ ~(status[r] = "PENDING" /\ Engaged(h, r))
      /\ ~(status[r] = "REJECTED" /\ Reviewing(h) /\ work[h].req = r)
  BY DEF RejectedIsQuiet
<1>1. ASSUME NEW k \in Handler, Start(k) \/ Continue(k)
      PROVE  /\ ~(status'[r] = "PENDING" /\ Engaged(h, r)')
             /\ ~(status'[r] = "REJECTED" /\ Reviewing(h)' /\ work'[h].req = r)
  <2>1. ASSUME status'[r] = "PENDING", Engaged(h, r)'
        PROVE  FALSE
    <3>1. Reviewing(h)' /\ work'[h].req = r /\ pc'[h] \in Provisioning \cup FollowUp
      BY <2>1 DEF Engaged, Reviewing
    <3>2. Reviewing(h) /\ work[h].req = r /\ pc[h] \in Provisioning \cup FollowUp
      BY <1>1, <2>1, <3>1, ReviewerFrom
    <3>3. CASE status[r] = "PENDING"
      BY <1>0, <3>2, <3>3 DEF Engaged
    <3>4. CASE status[r] # "PENDING"
      <4>1. status[r] = "none"
        BY <1>1, <2>1, <3>4, StatusWrites
      <4>2. QED
        BY <3>2, <4>1 DEF TypeInv, WorkOK
    <3>5. QED
      BY <3>3, <3>4
  <2>2. ASSUME status'[r] = "REJECTED", Reviewing(h)', work'[h].req = r
        PROVE  FALSE
    <3>1. Reviewing(h) /\ work[h].req = r
      BY <1>0, <1>1, <2>2, ReviewerFrom
    <3>2. status[r] # status'[r]
      BY <1>0, <2>2, <3>1
    <3>3. Reject(k) /\ work[k].req = r /\ Reviewing(k)
      BY <1>1, <2>2, <3>2, StatusWrites DEF Reject, Reviewing
    <3>4. k = h
      BY <3>1, <3>3 DEF OneReviewer, TypeInv, WorkOK
    <3>5. ~Reviewing(h)'
      BY <3>3, <3>4 DEF Reject, Finish, Goto, Reviewing, TypeInv, TypeOK
    <3>6. QED
      BY <2>2, <3>5
  <2>3. QED
    BY <2>1, <2>2
<1>2. CASE Crash
  BY <1>2 DEF Crash, Reviewing, Engaged
<1>3. CASE UNCHANGED <<status, pc, work>>
  BY <1>0, <1>3 DEF Reviewing, Engaged
<1>4. QED
  BY <1>1, <1>2, <1>3 DEF Next, vars, dbVars, Age, ToggleUser, RevokeUser

LEMMA SerialCorrect == Spec => []SerialInv
<1>1. Init => OneReviewer /\ RejectedIsQuiet
  BY DEF Init, OneReviewer, RejectedIsQuiet, Reviewing, Engaged
<1>2. SerialInv /\ [Next]_vars => SerialInv'
  BY TypeStep, OneReviewerStep, QuietStep DEF SerialInv
<1>3. QED
  BY <1>1, <1>2, TypeInit, PTL DEF Spec, SerialInv

(* Whatever cancels, expires, fails or crashes around it: as long as two   *)
(* reviews of one account are never in flight together, no reviewer works  *)
(* on a request that is pending again or rejected.                         *)
THEOREM RejectedStaysQuiet == Spec => []RejectedIsQuiet
BY SerialCorrect, PTL DEF SerialInv

(* ... and so a rejected request is never approved, expired or failed      *)
(* afterwards.                                                             *)
THEOREM RejectionStays == Spec => RejectionIsFinal
<1> DEFINE Final == ~ReviewersRace => \A r \in Request :
              status[r] = "REJECTED" => status'[r] \in {"REJECTED", "gone"}
<1>1. SerialInv /\ [Next]_vars => [Final]_vars
  <2> SUFFICES ASSUME SerialInv, [Next]_vars, ~ReviewersRace, NEW r \in Request,
                      status[r] = "REJECTED", status'[r] # "REJECTED"
               PROVE  status'[r] = "gone"
    OBVIOUS
  <2>1. PICK h \in Handler : Start(h) \/ Continue(h)
    BY OnlyHandlersWrite
  <2>2. ~(Reviewing(h) /\ work[h].req = r)
    BY DEF SerialInv, RejectedIsQuiet
  <2>3. ~(work[h].req = r /\ (Reject(h) \/ Claim(h) \/ Commit(h) \/ MarkFailed(h)))
    BY <2>2 DEF Reject, Claim, Commit, MarkFailed, Reviewing
  <2>4. QED
    BY <2>1, <2>3, StatusWrites DEF SerialInv, Scans
<1>2. QED
  BY <1>1, SerialCorrect, PTL DEF Spec, RejectionIsFinal

-----------------------------------------------------------------------------
(* The handlers keep the promises of RequestLifecycle. *)

(* What a reviewer's request can be, given where the reviewer is: it has   *)
(* been claimed by nobody else, and all that others do is cancel or expire *)
(* it.                                                                     *)
Possible(l) ==
    CASE l \in {"claim", "reject"} -> {"PENDING", "FAILED", "EXPIRED", "gone"}
      [] l = "audit" -> {"APPROVED", "EXPIRED", "gone"}
      [] l \in {"cleanup", "fail"} -> {"PROCESSING", "APPROVED", "EXPIRED", "gone"}
      [] l = "disable" -> Row \cup {"gone"}
      [] OTHER -> {"PROCESSING", "gone"}

InStep == \A h \in Handler : Reviewing(h) => status[work[h].req] \in Possible(pc[h])
CertHasRow == \A a \in Account : user[a].cert = "ACTIVE" => user[a].exists

LifeInv == SerialInv /\ InStep /\ CertHasRow

(* A reviewer's own step. *)
LEMMA InStepOwn ==
    ASSUME LifeInv, NEW h \in Handler, Continue(h), Reviewing(h), Reviewing(h)'
    PROVE  status'[work[h].req] \in Possible(pc'[h])
<1> USE DEF LifeInv, SerialInv, Possible
<1>1. /\ pc \in [Handler -> PC] /\ status \in [Request -> Status]
      /\ work[h].req \in Request /\ status[work[h].req] \in Possible(pc[h])
      /\ pc'[h] # "idle"
  BY DEF TypeInv, TypeOK, WorkOK, InStep, Reviewing
<1>2. ~Finish(h)
  BY <1>1 DEF Finish, Goto
<1>3. Throw(h) => pc'[h] \in {"cleanup", "fail"}
  BY <1>1 DEF Throw, Goto
<1>4. CASE Claim(h) \/ Commit(h) \/ MarkFailed(h)
  BY <1>1, <1>2, <1>3, <1>4 DEF Claim, Commit, MarkFailed, SetStatus, Goto, RowExists
<1>5. CASE \/ Lookup(h) \/ CreateUser(h) \/ AddGroups(h) \/ GenerateCert(h)
           \/ GenerateCertFails(h) \/ ReadExpiry(h) \/ ReadExpiryFails(h)
           \/ RevokeFresh(h) \/ RevokeFreshFails(h)
  BY <1>1, <1>3, <1>5 DEF Lookup, CreateUser, AddGroups, GenerateCert, GenerateCertFails,
     ReadExpiry, ReadExpiryFails, RevokeFresh, RevokeFreshFails, Goto, dbVars
<1>6. CASE DatabaseError(h)
  BY <1>1, <1>2, <1>3, <1>6 DEF DatabaseError, dbVars
<1>7. ~(\/ Reject(h) \/ WriteAudit(h) \/ DisableUser(h) \/ Delete(h)
        \/ PassNext(h) \/ PostNext(h))
  BY <1>2 DEF Reviewing, Reject, WriteAudit, DisableUser, Delete, PassNext, ScanRequests,
     ScanUsers, Expire, ExpireDone, PostNext, Check, Insert
<1>8. QED
  BY <1>4, <1>5, <1>6, <1>7 DEF Continue, ReviewNext

(* Another handler's step under a reviewer. *)
LEMMA InStepOther ==
    ASSUME LifeInv, ~ReviewersRace, NEW k \in Handler, Start(k) \/ Continue(k),
           NEW h \in Handler, h # k, Reviewing(h)
    PROVE  status'[work[h].req] \in Possible(pc[h])
<1> USE DEF LifeInv, SerialInv
<1> DEFINE r == work[h].req
<1>1. r \in Request /\ status[r] # "none" /\ status[r] \in Possible(pc[h])
  BY DEF TypeInv, WorkOK, InStep
<1>2. ASSUME status'[r] # status[r]
      PROVE  status'[r] \in Possible(pc[h])
  <2>1. ~(Reviewing(k) /\ work[k].req = r)
    BY DEF TypeInv, WorkOK, OneReviewer
  <2>2. ~(work[k].req = r /\ (Reject(k) \/ Claim(k) \/ Commit(k) \/ MarkFailed(k)))
    BY <2>1 DEF Reject, Claim, Commit, MarkFailed, Reviewing
  <2>3. \/ status'[r] = "gone"
        \/ status[r] \in Scans /\ status'[r] = "EXPIRED"
    BY <1>1, <1>2, <2>2, StatusWrites
  <2>4. QED
    BY <1>1, <2>3 DEF Possible, Scans
<1>3. QED
  BY <1>1, <1>2

LEMMA InStepStep == ~ReviewersRace /\ LifeInv /\ [Next]_vars => InStep'
<1> SUFFICES ASSUME ~ReviewersRace, LifeInv, [Next]_vars, NEW h \in Handler, Reviewing(h)'
             PROVE  status'[work'[h].req] \in Possible(pc'[h])
  BY DEF InStep
<1>1. ASSUME NEW k \in Handler, Start(k) \/ Continue(k)
      PROVE  status'[work'[h].req] \in Possible(pc'[h])
  <2>1. CASE h # k
    BY <1>1, <2>1, HandlerFrame, InStepOther DEF Reviewing, LifeInv, SerialInv
  <2>2. CASE h = k /\ Reviewing(h)
    <3>1. Continue(h)
      BY <1>1, <2>2 DEF Start, StartReview, StartCancel, StartPost, StartLifecycle, Begin,
         Reviewing
    <3>2. QED
      BY <2>2, <3>1, InStepOwn, ReviewerKeeps DEF LifeInv, SerialInv
  <2>3. CASE h = k /\ ~Reviewing(h)
    <3>1. PICK r \in Request, d \in {"claim", "reject"} :
             StartReview(h, r, d) /\ pc'[h] = d /\ work'[h].req = r
      BY <1>1, <2>3, ReviewerStarts DEF LifeInv, SerialInv
    <3>2. QED
      BY <3>1 DEF StartReview, dbVars, Possible
  <2>4. QED
    BY <2>1, <2>2, <2>3
<1>2. CASE Crash
  BY <1>2 DEF Crash, Reviewing
<1>3. CASE UNCHANGED <<status, pc, work>>
  BY <1>3 DEF LifeInv, InStep, Reviewing
<1>4. QED
  BY <1>1, <1>2, <1>3 DEF Next, vars, dbVars, Age, ToggleUser, RevokeUser

(* How a step changes the VpnUser rows. *)
LEMMA UserWrites ==
    ASSUME TypeInv, [Next]_vars, user' # user
    PROVE  \/ \E h \in Handler, a \in Account :
                \/ ~user[a].exists /\ user' = [user EXCEPT ![a] = NewUser] /\ UNCHANGED status
                \/ user' = [user EXCEPT ![a].enabled = FALSE] /\ UNCHANGED status
                \/ /\ Commit(h) /\ a = work[h].acct /\ user[a].exists
                   /\ RowExists(work[h].req) /\ SetStatus(work[h].req, "APPROVED")
                   /\ user' = [user EXCEPT ![a] = [@ EXCEPT !.enabled = TRUE, !.cert = "ACTIVE"]]
           \/ \E a \in Account :
                /\ \/ user' = [user EXCEPT ![a] = [@ EXCEPT !.enabled = ~user[a].enabled]]
                   \/ /\ user' = [user EXCEPT ![a] = [@ EXCEPT !.cert = "REVOKED"]]
                      /\ RevokeUser(a)
                /\ UNCHANGED status
<1>1. ASSUME NEW h \in Handler, Start(h) \/ Continue(h)
      PROVE  CreateUser(h) \/ DisableUser(h) \/ Commit(h)
  <2>1. ~Start(h)
    BY DEF Start, StartReview, StartCancel, StartPost, StartLifecycle, dbVars
  <2>2. ~(PassNext(h) \/ PostNext(h) \/ Delete(h) \/ DatabaseError(h))
    BY DEF PassNext, ScanRequests, ScanUsers, Expire, ExpireDone, PostNext, Check, Insert,
       Delete, DatabaseError, dbVars
  <2>3. QED
    BY <1>1, <2>1, <2>2 DEF Continue, ReviewNext, Reject, Claim, Lookup, AddGroups,
       GenerateCert, GenerateCertFails, ReadExpiry, ReadExpiryFails, WriteAudit,
       RevokeFresh, RevokeFreshFails, MarkFailed, dbVars
<1>2. ASSUME NEW h \in Handler, CreateUser(h) \/ DisableUser(h) \/ Commit(h)
      PROVE  work[h].acct \in Account
  BY <1>2, ReviewType DEF CreateUser, DisableUser, Commit, Reviewing
<1>3. ASSUME NEW h \in Handler, CreateUser(h)
      PROVE  /\ ~user[work[h].acct].exists /\ UNCHANGED status
             /\ user' = [user EXCEPT ![work[h].acct] = NewUser]
  BY <1>3 DEF CreateUser
<1>4. ASSUME NEW h \in Handler, DisableUser(h)
      PROVE  user' = [user EXCEPT ![work[h].acct].enabled = FALSE] /\ UNCHANGED status
  BY <1>4 DEF DisableUser
<1>5. ASSUME NEW h \in Handler, Commit(h)
      PROVE  /\ RowExists(work[h].req) /\ SetStatus(work[h].req, "APPROVED")
             /\ user[work[h].acct].exists
             /\ user' = [user EXCEPT ![work[h].acct] =
                            [@ EXCEPT !.enabled = TRUE, !.cert = "ACTIVE"]]
  BY <1>5 DEF Commit
<1>6. CASE \E h \in Handler : Start(h) \/ Continue(h)
  BY <1>1, <1>2, <1>3, <1>4, <1>5, <1>6
<1>7. CASE \E a \in Account : ToggleUser(a) \/ RevokeUser(a)
  BY <1>7 DEF ToggleUser, RevokeUser, dbVars
<1>8. QED
  BY <1>6, <1>7 DEF Next, vars, dbVars, Age, Crash

Access == {a \in Account : user[a].cert = "ACTIVE"}

(* What the approval's transaction does to the record of certificates. *)
LEMMA ApprovalGrants ==
    ASSUME TypeInv, CertHasRow, NEW a \in Account, user[a].exists,
           user' = [user EXCEPT ![a] = [@ EXCEPT !.enabled = TRUE, !.cert = "ACTIVE"]]
    PROVE  CertHasRow' /\ Access' = Access \cup {a}
<1>1. user \in [Account -> VpnUser]
  BY DEF TypeInv, TypeOK
<1>2. /\ \A c \in Account \ {a} : user'[c] = user[c]
      /\ user'[a].cert = "ACTIVE" /\ user'[a].exists = user[a].exists
  BY <1>1 DEF VpnUser
<1>3. QED
  BY <1>2 DEF CertHasRow, Access

(* A certificate becomes active on record by an approval only. *)
LEMMA AccessWrites ==
    ASSUME TypeInv, CertHasRow, [Next]_vars
    PROVE  /\ CertHasRow'
           /\ \/ Access' = Access
              \/ \E a \in Account : Access' = Access \ {a} /\ UNCHANGED status
              \/ \E h \in Handler :
                    /\ Commit(h) /\ Access' = Access \cup {work[h].acct}
                    /\ RowExists(work[h].req) /\ SetStatus(work[h].req, "APPROVED")
<1>1. user \in [Account -> VpnUser]
  BY DEF TypeInv, TypeOK
<1>2. CASE UNCHANGED user
  BY <1>2 DEF CertHasRow, Access
<1>3. ASSUME NEW a \in Account, ~user[a].exists, user' = [user EXCEPT ![a] = NewUser]
      PROVE  CertHasRow' /\ Access' = Access
  <2>1. NewUser.exists /\ NewUser.cert = "NONE"
    BY DEF NewUser, NoUser
  <2>2. QED
    BY <1>1, <1>3, <2>1 DEF CertHasRow, Access
<1>4. ASSUME NEW a \in Account, NEW b, user' = [user EXCEPT ![a].enabled = b]
      PROVE  CertHasRow' /\ Access' = Access
  <2>1. \A c \in Account : user'[c].cert = user[c].cert /\ user'[c].exists = user[c].exists
    BY <1>1, <1>4 DEF VpnUser
  <2>2. QED
    BY <2>1 DEF CertHasRow, Access
<1>5. ASSUME NEW a \in Account,
             user' = [user EXCEPT ![a] = [@ EXCEPT !.enabled = ~user[a].enabled]]
      PROVE  CertHasRow' /\ Access' = Access
  <2>1. \A c \in Account : user'[c].cert = user[c].cert /\ user'[c].exists = user[c].exists
    BY <1>1, <1>5 DEF VpnUser
  <2>2. QED
    BY <2>1 DEF CertHasRow, Access
<1>6. ASSUME NEW a \in Account, user' = [user EXCEPT ![a] = [@ EXCEPT !.cert = "REVOKED"]]
      PROVE  CertHasRow' /\ Access' = Access \ {a}
  <2>1. /\ \A c \in Account \ {a} : user'[c] = user[c]
        /\ user'[a].cert = "REVOKED"
    BY <1>1, <1>6 DEF VpnUser
  <2>2. QED
    BY <2>1 DEF CertHasRow, Access
<1>7. QED
  BY <1>2, <1>3, <1>4, <1>5, <1>6, ApprovalGrants, UserWrites

LEMMA LifeInvariant == ASSUME ~ReviewersRace PROVE Spec => []LifeInv
<1>1. Init => InStep /\ CertHasRow
  BY DEF Init, InStep, CertHasRow, NoUser, Reviewing
<1>2. LifeInv /\ [Next]_vars => InStep' /\ CertHasRow'
  BY InStepStep, AccessWrites DEF LifeInv, SerialInv
<1>3. QED
  BY <1>1, <1>2, SerialCorrect, PTL DEF Spec, LifeInv

(* Every step of a handler, a crash or an administrator is a step of the   *)
(* abstract life cycle or leaves it alone.                                 *)
LEMMA LifecycleStep ==
    ASSUME LifeInv, [Next]_vars
    PROVE  [Lifecycle!Next]_(Lifecycle!vars)
<1> USE DEF LifeInv, SerialInv
<1>1. /\ status \in [Request -> Status] /\ status' \in [Request -> Status]
      /\ target \in [Request -> Account \cup {NoAccount}]
  BY TypeStep DEF TypeInv, TypeOK
<1>2. ASSUME NEW h \in Handler, Reviewing(h)
      PROVE  /\ work[h].req \in Request /\ work[h].acct = target[work[h].req]
             /\ status[work[h].req] \in Possible(pc[h])
  BY <1>2 DEF TypeInv, WorkOK, InStep
<1>3. ASSUME status' # status, NEW h \in Handler, Start(h) \/ Continue(h)
      PROVE  Lifecycle!Next
  <2>1. PICK r \in Request : status'[r] # status[r]
    BY <1>1, <1>3
  <2>2. ASSUME NEW s, SetStatus(work[h].req, s), work[h].req = r
        PROVE  Lifecycle!Become(r, s)
    BY <2>2 DEF SetStatus, Lifecycle!Become
  <2>3. CASE Reject(h) /\ work[h].req = r /\ status'[r] = "REJECTED"
    <3>1. Lifecycle!Reject(r)
      BY <2>1, <2>2, <2>3, <1>2 DEF Reject, Lifecycle!Reject, Possible, Reviewing, RowExists,
         Access
    <3>2. QED
      BY <3>1 DEF Lifecycle!Next
  <2>4. CASE Claim(h) /\ work[h].req = r
    <3>1. Lifecycle!Claim(r)
      BY <2>1, <2>2, <2>4, <1>2 DEF Claim, Lifecycle!Claim, Possible, Reviewing, RowExists
    <3>2. QED
      BY <3>1 DEF Lifecycle!Next
  <2>5. CASE Commit(h) /\ work[h].req = r /\ status'[r] = "APPROVED"
    <3>1. status[r] = "PROCESSING" /\ work[h].acct = target[r] /\ UNCHANGED target
      BY <1>2, <2>1, <2>5 DEF Commit, Reviewing, Possible, RowExists
    <3>2. SetStatus(r, "APPROVED") /\ Access' = Access \cup {target[r]}
      BY <1>2, <2>1, <2>5, <3>1, ReviewType, ApprovalGrants DEF Commit, Reviewing
    <3>3. Lifecycle!Approve(r)
      BY <2>2, <2>5, <3>1, <3>2 DEF Lifecycle!Approve, Access
    <3>4. QED
      BY <3>3 DEF Lifecycle!Next
  <2>6. CASE MarkFailed(h) /\ work[h].req = r
    <3>1. Lifecycle!Fail(r)
      BY <2>1, <2>2, <2>6, <1>2 DEF MarkFailed, Lifecycle!Fail, Possible, Reviewing, RowExists
    <3>2. QED
      BY <3>1 DEF Lifecycle!Next
  <2>7. CASE Delete(h) /\ work[h].req = r
    <3>1. Lifecycle!Cancel(r)
      BY <2>1, <2>2, <2>7 DEF Delete, Lifecycle!Cancel, RowExists
    <3>2. QED
      BY <3>1 DEF Lifecycle!Next
  <2>8. CASE Insert(h)
    <3>1. PICK q \in Unborn : /\ status' = [status EXCEPT ![q] = "PENDING"]
                              /\ target' = [target EXCEPT ![q] = work[h].acct]
      BY <2>8 DEF Insert
    <3>2. q \in Request /\ status[q] = "none" /\ work[h].acct \in Account
      BY <2>8, <3>1 DEF Unborn, Insert, TypeInv, WorkOK
    <3>3. Lifecycle!Create(q, work[h].acct)
      BY <2>8, <3>1, <3>2 DEF Insert, Lifecycle!Create, Lifecycle!Become
    <3>4. QED
      BY <3>2, <3>3 DEF Lifecycle!Next
  <2>9. CASE PassNext(h)
    <3>1. PICK f \in work[h].found : Expire(h, f)
      BY <2>1, <2>9 DEF PassNext, ScanRequests, ScanUsers, ExpireDone, dbVars
    <3>2. f[1] \in Request /\ f[2] \in Scans
      BY DEF TypeInv, TypeOK, Work
    <3>3. Lifecycle!Expire(f[1])
      BY <2>1, <3>1, <3>2 DEF Expire, SetStatus, Lifecycle!Expire, Lifecycle!Become, Scans
    <3>4. QED
      BY <3>2, <3>3 DEF Lifecycle!Next
  <2>10. QED
    BY <1>3, <2>1, <2>3, <2>4, <2>5, <2>6, <2>7, <2>8, <2>9, StatusWrites
<1>4. CASE status' = status
  <2>1. UNCHANGED target
    <3>1. ASSUME NEW h \in Handler, Insert(h)
          PROVE  FALSE
      BY <1>1, <1>4, <3>1 DEF Insert, Unborn
    <3>2. ASSUME NEW h \in Handler, Start(h) \/ Continue(h)
          PROVE  UNCHANGED target
      <4>1. CASE Start(h)
        BY <4>1 DEF Start, StartReview, StartCancel, StartPost, StartLifecycle, dbVars
      <4>2. CASE ReviewNext(h)
        BY <4>2 DEF ReviewNext, Reject, Claim, Lookup, CreateUser, AddGroups, GenerateCert,
           GenerateCertFails, ReadExpiry, ReadExpiryFails, Commit, WriteAudit,
           RevokeFresh, RevokeFreshFails, MarkFailed, DisableUser, dbVars
      <4>3. CASE PassNext(h) \/ PostNext(h) \/ Delete(h) \/ DatabaseError(h)
        BY <4>3, <3>1 DEF PassNext, ScanRequests, ScanUsers, Expire, ExpireDone, PostNext,
           Check, Delete, DatabaseError, dbVars
      <4>4. QED
        BY <3>2, <4>1, <4>2, <4>3 DEF Continue
    <3>3. QED
      BY <3>2 DEF Next, vars, dbVars, Age, ToggleUser, RevokeUser, Crash
  <2>2. ASSUME NEW h \in Handler, Commit(h), RowExists(work[h].req),
               SetStatus(work[h].req, "APPROVED")
        PROVE  FALSE
    BY <1>1, <1>2, <1>4, <2>2 DEF Commit, Reviewing, Possible, RowExists, SetStatus
  <2>3. CASE Access' = Access
    BY <1>4, <2>1, <2>3 DEF Lifecycle!vars, Access
  <2>4. ASSUME NEW a \in Account, Access' = Access \ {a}
        PROVE  Lifecycle!Next
    <3>1. Lifecycle!Withdraw(a)
      BY <1>4, <2>1, <2>4 DEF Lifecycle!Withdraw, Access
    <3>2. QED
      BY <3>1 DEF Lifecycle!Next
  <2>5. QED
    BY <2>2, <2>3, <2>4, AccessWrites
<1>5. QED
  BY <1>3, <1>4, OnlyHandlersWrite

(* With reviews of one account that do not overlap, the routes and the     *)
(* lifecycle pass implement RequestLifecycle, for any number of requests,  *)
(* accounts and handlers and under every fault.                            *)
THEOREM Implements == ASSUME ~ReviewersRace PROVE Spec => LifecycleSpec
<1>1. Init => Lifecycle!Init
  BY DEF Init, Lifecycle!Init, NoUser
<1>2. LifeInv /\ [Next]_vars => [Lifecycle!Next]_(Lifecycle!vars)
  BY LifecycleStep
<1>3. QED
  BY <1>1, <1>2, LifeInvariant, PTL DEF Spec, LifecycleSpec, Lifecycle!Spec

-----------------------------------------------------------------------------
(* Certificates and their record. *)

(* A reviewer that may generate a certificate knows whether there is one   *)
(* on record: only another reviewer of the account could have put it there.*)
SeenInv ==
    \A h \in Handler : pc[h] \in {"groups", "generate"} =>
        /\ work[h].acct \in Access => work[h].seen.cert = "ACTIVE"
        /\ pc[h] = "generate" => work[h].seen.cert # "ACTIVE"

(* The steps that lead there. *)
LEMMA IntoGroups ==
    ASSUME TypeInv, NEW h \in Handler, Start(h) \/ Continue(h), pc'[h] \in {"groups", "generate"}
    PROVE  Lookup(h) \/ AddGroups(h) \/ (CreateUser(h) /\ ~user[work[h].acct].exists)
<1>1. pc \in [Handler -> PC] /\ Reviewing(h)'
  BY DEF TypeInv, TypeOK, Reviewing
<1>2. Reviewing(h)
  BY <1>1, ReviewerStarts
<1>3. Continue(h)
  BY <1>2 DEF Start, StartReview, StartCancel, StartPost, StartLifecycle, Begin, Reviewing
<1>4. ~Finish(h) /\ ~Throw(h)
  BY <1>1 DEF Finish, Throw, Goto
<1>5. ~(PassNext(h) \/ PostNext(h) \/ Delete(h))
  BY <1>2 DEF Reviewing, Delete, PassNext, ScanRequests, ScanUsers, Expire, ExpireDone, PostNext, Check, Insert
<1>6. ~(\/ Reject(h) \/ Claim(h) \/ GenerateCert(h) \/ GenerateCertFails(h) \/ ReadExpiry(h) \/ ReadExpiryFails(h)
        \/ Commit(h) \/ WriteAudit(h) \/ RevokeFresh(h) \/ RevokeFreshFails(h) \/ MarkFailed(h) \/ DisableUser(h))
  BY <1>1, <1>4 DEF Reject, Claim, GenerateCert, GenerateCertFails, ReadExpiry, ReadExpiryFails, Commit, WriteAudit,
     RevokeFresh, RevokeFreshFails, MarkFailed, DisableUser, Goto
<1>7. ~DatabaseError(h)
  BY <1>4 DEF DatabaseError
<1>8. QED
  BY <1>3, <1>4, <1>5, <1>6, <1>7 DEF Continue, ReviewNext, CreateUser

(* A handler moves by a step of its own, or stops with the process. *)
LEMMA Moves ==
    ASSUME TypeInv, [Next]_vars, NEW h \in Handler
    PROVE  \/ Start(h) \/ Continue(h)
           \/ pc'[h] = "idle" /\ Crash
           \/ pc'[h] = pc[h] /\ work'[h] = work[h]
<1>1. CASE \E k \in Handler : Start(k) \/ Continue(k)
  BY <1>1, HandlerFrame
<1>2. CASE UNCHANGED <<pc, work>>
  BY <1>2
<1>3. CASE Crash
  BY <1>3 DEF Crash
<1>4. QED
  BY <1>1, <1>2, <1>3 DEF Next, vars, Age, ToggleUser, RevokeUser

LEMMA SeenStep == ~ReviewersRace /\ LifeInv /\ SeenInv /\ [Next]_vars => SeenInv'
<1> SUFFICES ASSUME ~ReviewersRace, LifeInv, SeenInv, [Next]_vars, NEW h \in Handler,
                    pc'[h] \in {"groups", "generate"}
             PROVE  /\ work'[h].acct \in Access' => work'[h].seen.cert = "ACTIVE"
                    /\ pc'[h] = "generate" => work'[h].seen.cert # "ACTIVE"
  BY DEF SeenInv
<1> USE DEF LifeInv, SerialInv
<1>1. CASE pc'[h] = pc[h] /\ work'[h] = work[h]
  <2>1. work[h].acct \in Access' => work[h].acct \in Access
    <3>1. ASSUME NEW k \in Handler, Commit(k), work[k].acct = work[h].acct
          PROVE  FALSE
      <4>1. Reviewing(k) /\ Reviewing(h) /\ k # h
        BY <1>1, <3>1 DEF Commit, Reviewing
      <4>2. QED
        BY <3>1, <4>1 DEF OneReviewer
    <3>2. QED
      BY <3>1, AccessWrites
  <2>2. QED
    BY <1>1, <2>1 DEF SeenInv
<1>2. CASE Start(h) \/ Continue(h)
  <2>1. PICK w : w = work[h]
    OBVIOUS
  <2>2. Reviewing(h)
    BY <1>2, IntoGroups DEF Lookup, AddGroups, CreateUser, Reviewing
  <2>3. w \in Work /\ w.acct \in Account /\ user \in [Account -> VpnUser] /\ pc \in [Handler -> PC]
        /\ work \in [Handler -> Work]
    BY <2>1, <2>2, ReviewType DEF TypeInv, TypeOK
  <2>4. CASE Lookup(h)
    <3>1. PICK v : v = [w EXCEPT !.seen = user[w.acct]]
      OBVIOUS
    <3>2. v.seen = user[w.acct] /\ v.acct = w.acct
      BY <2>3, <3>1 DEF Work
    <3>3. work'[h] = v /\ pc'[h] # "generate" /\ user' = user
      BY <2>1, <2>3, <2>4, <3>1 DEF Lookup, Goto, dbVars
    <3>4. QED
      BY <3>2, <3>3 DEF Access
  <2>5. CASE AddGroups(h)
    <3>1. pc[h] = "groups" /\ work'[h] = w /\ user' = user
      BY <2>1, <2>3, <2>5 DEF AddGroups, Goto
    <3>2. pc'[h] = "generate" => w.seen.cert # "ACTIVE"
      BY <2>1, <2>3, <2>5 DEF AddGroups, Goto
    <3>3. QED
      BY <2>1, <3>1, <3>2 DEF SeenInv, Access
  <2>6. CASE CreateUser(h) /\ ~user[w.acct].exists
    <3>1. user'[w.acct] = NewUser /\ NewUser.cert = "NONE"
      BY <2>1, <2>3, <2>6 DEF CreateUser, NewUser, NoUser
    <3>2. PICK v : v = [w EXCEPT !.seen = NewUser]
      OBVIOUS
    <3>3. v.acct = w.acct
      BY <2>3, <3>2 DEF Work
    <3>4. work'[h] = v /\ pc'[h] = "groups"
      BY <2>1, <2>3, <2>6, <3>2 DEF CreateUser, Goto
    <3>5. QED
      BY <3>1, <3>3, <3>4 DEF Access
  <2>7. QED
    BY <1>2, <2>1, <2>4, <2>5, <2>6, IntoGroups
<1>3. QED
  BY <1>1, <1>2, Moves

(* A record is withdrawn by revoking the certificate.                      *)
LEMMA AccessLost ==
    ASSUME TypeInv, CertHasRow, [Next]_vars, NEW a \in Access, a \notin Access'
    PROVE  RevokeUser(a)
<1>1. a \in Account /\ user \in [Account -> VpnUser] /\ user[a].cert = "ACTIVE" /\ user[a].exists
  BY DEF Access, TypeInv, TypeOK, CertHasRow
<1>2. user' # user /\ user'[a].cert # "ACTIVE"
  BY <1>1 DEF Access
<1>3. ASSUME NEW b \in Account, ~user[b].exists, user' = [user EXCEPT ![b] = NewUser]
      PROVE  FALSE
  BY <1>1, <1>2, <1>3
<1>4. ASSUME NEW b \in Account, NEW x, user' = [user EXCEPT ![b].enabled = x]
      PROVE  FALSE
  BY <1>1, <1>2, <1>4 DEF VpnUser
<1>5. ASSUME NEW b \in Account, user' = [user EXCEPT ![b] = [@ EXCEPT !.enabled = ~user[b].enabled]]
      PROVE  FALSE
  BY <1>1, <1>2, <1>5 DEF VpnUser
<1>6. ASSUME NEW b \in Account, user' = [user EXCEPT ![b] = [@ EXCEPT !.enabled = TRUE, !.cert = "ACTIVE"]]
      PROVE  FALSE
  BY <1>1, <1>2, <1>6 DEF VpnUser
<1>7. ASSUME NEW b \in Account, user' = [user EXCEPT ![b] = [@ EXCEPT !.cert = "REVOKED"]]
      PROVE  a = b
  BY <1>1, <1>2, <1>7 DEF VpnUser
<1>8. QED
  BY <1>2, <1>3, <1>4, <1>5, <1>6, <1>7, UserWrites

(* Which steps move certificates.                                          *)
LEMMA CertWrites ==
    ASSUME TypeInv, [Next]_vars, NEW a \in Account, a \notin leaked'
    PROVE  /\ a \notin leaked
           /\ \/ a \in stray' => a \in stray
              \/ \E h \in Handler : pc[h] = "generate" /\ work[h].acct = a /\ a \in issued
           /\ \/ a \in issued' => a \in issued
              \/ \E h \in Handler : GenerateCert(h) /\ work[h].acct = a
<1>1. CASE UNCHANGED <<pkiVars, leaked>>
  BY <1>1 DEF pkiVars
<1>2. ASSUME NEW h \in Handler, Start(h) \/ Continue(h)
      PROVE  \/ UNCHANGED <<pkiVars, leaked>>
             \/ GenerateCert(h) \/ GenerateCertFails(h) \/ ReadExpiryFails(h) \/ RevokeFresh(h) \/ RevokeFreshFails(h)
  <2> DEFINE Same == UNCHANGED <<pkiVars, leaked>>
             Made == GenerateCert(h) \/ GenerateCertFails(h) \/ ReadExpiryFails(h) \/ RevokeFresh(h) \/ RevokeFreshFails(h)
  <2>1. Start(h) \/ PassNext(h) \/ PostNext(h) \/ Delete(h) \/ DatabaseError(h) => Same
    BY DEF Start, StartReview, StartCancel, StartPost, StartLifecycle, PassNext, ScanRequests, ScanUsers, Expire,
       ExpireDone, PostNext, Check, Insert, Delete, DatabaseError, history
  <2>2. Reject(h) \/ Claim(h) \/ Lookup(h) \/ CreateUser(h) \/ AddGroups(h) => Same
    BY DEF Reject, Claim, Lookup, CreateUser, AddGroups, history
  <2>3. ReadExpiry(h) \/ Commit(h) \/ WriteAudit(h) \/ MarkFailed(h) \/ DisableUser(h) => Same
    BY DEF ReadExpiry, Commit, WriteAudit, MarkFailed, DisableUser, history
  <2> HIDE DEF Same
  <2>4. ReviewNext(h) => Same \/ Made
    BY <2>2, <2>3 DEF ReviewNext
  <2>5. Same \/ Made
    BY <1>2, <2>1, <2>4 DEF Continue
  <2>6. QED
    BY <2>5 DEF Same
<1>3. ASSUME NEW h \in Handler,
             GenerateCert(h) \/ GenerateCertFails(h) \/ ReadExpiryFails(h) \/ RevokeFresh(h) \/ RevokeFreshFails(h)
      PROVE  /\ a \notin leaked
             /\ \/ a \in stray' => a \in stray
                \/ pc[h] = "generate" /\ work[h].acct = a /\ a \in issued
             /\ \/ a \in issued' => a \in issued
                \/ GenerateCert(h) /\ work[h].acct = a
  BY <1>3 DEF GenerateCert, GenerateCertFails, ReadExpiryFails, RevokeFresh, RevokeFreshFails, Forgotten, history,
     pkiVars
<1>4. CASE Crash
  BY <1>4 DEF Crash, pkiVars
<1>5. ASSUME NEW b \in Account, RevokeUser(b)
      PROVE  UNCHANGED <<stray, leaked>> /\ issued' \subseteq issued
  BY <1>5 DEF RevokeUser, history
<1>6. QED
  BY <1>1, <1>2, <1>3, <1>4, <1>5 DEF Next, vars, history, Age, ToggleUser

(* A handler that has a certificate in hand keeps it, records it, revokes  *)
(* it, or leaves it behind.                                                *)
LEMMA HolderPays ==
    ASSUME TypeInv, CertHasRow, [Next]_vars, NEW h \in Handler, NEW a \in Account, Holds(h, a), a \in issued',
           a \notin leaked'
    PROVE  Holds(h, a)' \/ a \in Access'
<1>1. PICK w : w = work[h]
  OBVIOUS
<1>2. w \in Work /\ w.acct = a /\ pc \in [Handler -> PC] /\ work \in [Handler -> Work] /\ user \in [Account -> VpnUser]
  BY <1>1 DEF TypeInv, TypeOK, Holds
<1>3. CASE pc'[h] = pc[h] /\ work'[h] = work[h]
  BY <1>3 DEF Holds
<1>4. CASE Crash
  BY <1>4 DEF Crash, Holds
<1>t. ASSUME Throw(h), w.fresh
      PROVE  Holds(h, a)'
  BY <1>1, <1>2, <1>t DEF Throw, Goto, Holds
<1>5. CASE Start(h) \/ Continue(h)
  <2>1. \/ ReadExpiry(h) \/ ReadExpiryFails(h) \/ Commit(h) \/ RevokeFresh(h) \/ RevokeFreshFails(h)
        \/ (DatabaseError(h) /\ pc[h] = "commit" /\ Throw(h))
    <3>1. pc[h] \in {"expiry", "commit", "cleanup"}
      BY DEF Holds
    <3>2. ~Start(h) /\ ~PassNext(h) /\ ~PostNext(h) /\ ~Delete(h)
      BY <3>1 DEF Start, StartReview, StartCancel, StartPost, StartLifecycle, Begin, PassNext, ScanRequests, ScanUsers,
         Expire, ExpireDone, PostNext, Check, Insert, Delete
    <3>3. DatabaseError(h) => pc[h] = "commit" /\ Throw(h)
      BY <3>1 DEF DatabaseError
    <3>4. QED
      BY <1>5, <3>1, <3>2, <3>3 DEF Continue, ReviewNext, Reject, Claim, Lookup, CreateUser, AddGroups, GenerateCert,
         GenerateCertFails, WriteAudit, MarkFailed, DisableUser
  <2>2. CASE ReadExpiry(h)
    <3>1. PICK v : v = [w EXCEPT !.fresh = TRUE]
      OBVIOUS
    <3>2. v.fresh /\ v.acct = a
      BY <1>2, <3>1 DEF Work
    <3>3. pc'[h] = "commit" /\ work'[h] = v
      BY <1>1, <1>2, <2>2, <3>1 DEF ReadExpiry, Goto
    <3>4. QED
      BY <3>2, <3>3 DEF Holds
  <2>3. CASE ReadExpiryFails(h) \/ RevokeFresh(h) \/ RevokeFreshFails(h)
    BY <1>1, <1>2, <2>3 DEF ReadExpiryFails, RevokeFresh, RevokeFreshFails
  <2>4. CASE Commit(h)
    <3>1. w.fresh
      BY <1>1, <2>4 DEF Commit, Holds
    <3>2. CASE Throw(h)
      BY <1>t, <3>1, <3>2
    <3>3. CASE ~Throw(h)
      <4>1. user[a].exists /\ user' = [user EXCEPT ![a] = [@ EXCEPT !.enabled = TRUE, !.cert = "ACTIVE"]]
        BY <1>1, <1>2, <2>4, <3>3 DEF Commit
      <4>2. QED
        BY <4>1, ApprovalGrants
    <3>4. QED
      BY <3>2, <3>3
  <2>5. CASE DatabaseError(h) /\ pc[h] = "commit" /\ Throw(h)
    BY <1>1, <1>t, <2>5 DEF Holds
  <2>6. QED
    BY <2>1, <2>2, <2>3, <2>4, <2>5
<1>6. QED
  BY <1>3, <1>4, <1>5, Moves

Known(a) == a \notin stray /\ (a \in issued => a \in Access \/ \E h \in Handler : Holds(h, a))

LEMMA KnownStep ==
    ASSUME ~ReviewersRace, LifeInv, SeenInv, [Next]_vars, NEW a \in Account, a \notin leaked', Known(a)
    PROVE  Known(a)'
<1> USE DEF LifeInv, SerialInv
<1>1. ASSUME NEW h \in Handler, pc[h] = "generate", work[h].acct = a
      PROVE  a \notin issued
  <2>1. a \notin Access
    BY <1>1 DEF SeenInv
  <2>2. ASSUME NEW k \in Handler, Holds(k, a)
        PROVE  FALSE
    <3>1. Reviewing(k) /\ Reviewing(h) /\ work[k].acct = work[h].acct /\ k # h
      BY <1>1, <2>2 DEF Holds, Reviewing
    <3>2. QED
      BY <3>1 DEF OneReviewer
  <2>3. QED
    BY <2>1, <2>2 DEF Known
<1>2. a \notin stray'
  BY <1>1, CertWrites DEF Known
<1>3. ASSUME a \in issued', NEW h \in Handler, GenerateCert(h), work[h].acct = a
      PROVE  Holds(h, a)'
  BY <1>3 DEF GenerateCert, Goto, Holds, TypeInv, TypeOK
<1>4. ASSUME a \in issued', a \in issued
      PROVE  a \in Access' \/ \E h \in Handler : Holds(h, a)'
  <2>1. CASE a \in Access
    <3>1. ~RevokeUser(a)
      BY <1>4 DEF RevokeUser
    <3>2. QED
      BY <2>1, <3>1, AccessLost
  <2>2. CASE \E h \in Handler : Holds(h, a)
    BY <1>4, <2>2, HolderPays
  <2>3. QED
    BY <1>4, <2>1, <2>2 DEF Known
<1>5. QED
  BY <1>2, <1>3, <1>4, CertWrites DEF Known

(* While reviews of an account do not overlap, every certificate the VPN   *)
(* server accepts is on record, or in the hands of the PATCH handler that  *)
(* will record or revoke it, unless a failed command or a stop left it     *)
(* behind, and none is valid and beyond revocation.                        *)
THEOREM CertificatesAreKnown == Spec => []LiveCertAccounted
<1>1. CASE ReviewersRace
  <2>1. LiveCertAccounted
    BY <1>1 DEF LiveCertAccounted
  <2>2. QED
    BY <2>1, PTL
<1>2. CASE ~ReviewersRace
  <2> DEFINE CertInv == SeenInv /\ \A a \in Account \ leaked : Known(a)
  <2>1. Init => CertInv
    BY DEF Init, SeenInv, Known
  <2>2. LifeInv /\ CertInv /\ [Next]_vars => CertInv'
    <3> SUFFICES ASSUME LifeInv, CertInv, [Next]_vars
                 PROVE  SeenInv' /\ \A a \in Account \ leaked' : Known(a)'
      OBVIOUS
    <3>1. SeenInv'
      BY <1>2, SeenStep
    <3>2. \A a \in Account \ leaked' : a \notin leaked
      BY CertWrites DEF LifeInv, SerialInv
    <3>3. QED
      BY <1>2, <3>1, <3>2, KnownStep
  <2>3. CertInv => LiveCertAccounted
    BY DEF LiveCertAccounted, Known, Access
  <2>4. Spec => []LifeInv
    BY <1>2, LifeInvariant
  <2>5. QED
    BY <2>1, <2>2, <2>3, <2>4, PTL DEF Spec
<1>3. QED
  BY <1>1, <1>2
=============================================================================
