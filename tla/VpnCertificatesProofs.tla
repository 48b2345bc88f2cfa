----------------------- MODULE VpnCertificatesProofs -----------------------
(***************************************************************************)
(* What holds of certificates for any number of requests, rows and          *)
(* certificates.  The properties speak of moments at which nobody works on  *)
(* the certificate; the invariant says what each handler may rely on at     *)
(* each of its steps, and that only one of them is at such a step.          *)
(***************************************************************************)
EXTENDS VpnCertificates, TLAPS

\* Between making a certificate and recording it.
Recording == \E h \in Handler : pc[h] \in {"expiry", "record"}

\* Where the operations on a certificate are found, and that there is one.
Labels ==
    \A h \in Handler :
        /\ pc[h] \in Command \cup {"record", "withdraw", "resolve", "drop"} => work[h].op \in CertOp
        /\ pc[h] = "revoke" => work[h].op \in {"revoke", "regenerate", "resolve", "delete"}
        /\ pc[h] = "inspect" => work[h].op = "delete"
        /\ pc[h] = "clean" => work[h].op \in {"resolve", "delete"}
        /\ pc[h] = "resolve" => work[h].op = "resolve"
        /\ pc[h] \in {"revoke", "inspect"} => work[h].cert = 0
        /\ pc[h] \notin {"idle", "import"} => work[h].id # 0
Exclusive == \A h, g \in Handler : work[h].op \in CertOp /\ work[g].op \in CertOp => h = g

\* The two halves of the type invariant: the data, and where handlers are.
DataOK ==
    /\ mode \in Modes
    /\ user \in VpnUser /\ (user.id = 0 => user = NoUser)
    /\ rows \in 0..MaxRow /\ made \in 0..MaxCert
    /\ {good, listed, prior, stray} \subseteq SUBSET (1..made)
    /\ good \intersect listed = {} /\ issued \in good \union {0}
    /\ ccd \in BOOLEAN
Places ==
    /\ pc \in [Handler -> {"idle"} \union Command \union Statement]
    /\ work \in [Handler -> Work]
    /\ Labels /\ Exclusive
TypeInv == DataOK /\ Places

\* The certificate whose files are there is one nobody accounts for.
Unheld == issued \in stray \cup {0}
Out == Accepted \subseteq stray

\* What a handler that clears away knows of it: that it is such a one, or that it
\* is the one that could not be shown, which the deletion takes for missing.
Known(h) ==
    Unheld \/ (pc[h] \in {"clean", "drop"} /\ work[h].op = "delete" /\ work[h].cert = issued)

CertInv ==
    /\ good \subseteq stray \cup {issued}
    /\ user.certStatus # "ACTIVE" => Unheld \/ Recording
    /\ user.certStatus = "REVOKED" => Accepted \subseteq stray \cup (IF Recording THEN {issued} ELSE {})
    /\ \A h \in Handler :
         /\ pc[h] \in {"withdraw", "clean", "drop", "resolve"} => Known(h)
         /\ pc[h] \in {"clean", "drop"} => work[h].cert \in {0, issued}
         /\ pc[h] = "withdraw" => Out
         /\ pc[h] \in {"clean", "resolve"} /\ work[h].op = "resolve" /\ work[h].certStatus # "NONE" => Out

\* A handler is at a step of an operation on the certificate.
AtWork(h) == pc[h] \in Command \cup {"record", "withdraw", "resolve", "drop"}

\* The certificates of the portal that the authority holds, by what the row says.
AsRecorded == good \ prior = IF user.certStatus = "ACTIVE" THEN {issued} ELSE {}

\* What each step of a handler finds when nothing fails.
CalmStage(h) ==
    /\ AtWork(h) => work[h].id = user.id
    /\ pc[h] = "revoke" => user.certStatus = "ACTIVE" /\ AsRecorded
    /\ pc[h] \in {"generate", "withdraw", "clean", "resolve", "drop"} => good \subseteq prior
    /\ pc[h] \in {"expiry", "record"} => good \ prior = {issued}
    /\ pc[h] # "inspect"

Calm ==
    /\ Accepted = good
    /\ (\A h \in Handler : ~AtWork(h)) => AsRecorded
    /\ \A h \in Handler : CalmStage(h)
CalmInv == mode = "calm" => Calm

-----------------------------------------------------------------------------

USE BoundAssumption, ModeAssumption

\* A handler that ends, or goes from one step of its operation to the next,
\* leaves the others where they are.
LEMMA PlacesFinish ==
    ASSUME Places, NEW h \in Handler, Finish(h) PROVE Places'
BY DEF Places, Labels, Exclusive, Finish, NoWork, Work, CertStatus, Command, Statement, Op, CertOp

LEMMA PlacesGoto ==
    ASSUME Places, NEW h \in Handler, NEW label \in Command \cup {"record", "withdraw", "resolve", "drop"},
           pc[h] \in Command, pc' = [pc EXCEPT ![h] = label],
           \/ UNCHANGED work
           \/ \E cert \in 0..MaxCert : work' = [work EXCEPT ![h].cert = cert],
           label # "revoke",
           label = "inspect" => work[h].op = "delete" /\ work[h].cert = 0 /\ UNCHANGED work,
           label = "clean" => work[h].op \in {"resolve", "delete"},
           label = "resolve" => work[h].op = "resolve"
    PROVE  Places'
BY DEF Places, Labels, Exclusive, Work, Command, Statement

LEMMA InsertType ==
    ASSUME DataOK, Insert
    PROVE  rows' \in 0..MaxRow /\ user' \in VpnUser /\ user'.id # 0 /\ user'.certStatus = "NONE"
<1>1. rows \in Nat /\ rows + 1 \in 0..MaxRow /\ rows + 1 # 0
    BY DEF Insert, DataOK
<1>2. user' = [id |-> rows + 1, certStatus |-> "NONE", enabled |-> TRUE, flagged |-> FALSE, expires |-> 0]
    BY DEF Insert, NoUser
<1>3. rows' \in 0..MaxRow
    BY <1>1 DEF Insert
<1>4. user' \in VpnUser
    BY <1>1, <1>2 DEF VpnUser, CertStatus
<1> QED BY <1>1, <1>2, <1>3, <1>4

\* Every variable keeps its type, and operations their places.
LEMMA TypeStep == TypeInv /\ CertInv /\ [Next]_vars => TypeInv'
<1> DEFINE Goal == DataOK' /\ Places'
<1> SUFFICES ASSUME DataOK, Places, CertInv, [Next]_vars PROVE Goal
    BY DEF TypeInv
<1>1. CASE UNCHANGED vars
    BY <1>1 DEF vars, authority, DataOK, Places, Labels, Exclusive
<1>2. CASE CreateUser \/ PushCcd
  <2>1. DataOK'
    BY <1>2, InsertType DEF CreateUser, PushCcd, DataOK, authority
  <2> QED BY <1>2, <2>1 DEF CreateUser, PushCcd, Places, Labels, Exclusive
<1>3. ASSUME NEW h \in Handler, NEW op \in Op \ {"import"}, Begin(h, op) PROVE Goal
  <2>1. DataOK'
    BY <1>3 DEF Begin, DataOK, authority
  <2>2. user.id \in 0..MaxRow /\ user.id # 0 /\ user.certStatus \in CertStatus
    BY <1>3 DEF Begin, DataOK, VpnUser
  <2>3. PICK first : first = FirstStep(op)
    OBVIOUS
  <2>4. /\ first \in Command \cup {"dismiss", "clear", "update"}
        /\ first \in Command => op \in CertOp
        /\ first # "inspect"
        /\ first = "revoke" => op \in {"revoke", "regenerate", "resolve", "delete"}
        /\ first = "clean" => op \in {"resolve", "delete"}
    BY <2>3 DEF FirstStep, Op, CertOp, Command
  <2>6. PICK w : w = [NoWork EXCEPT !.op = op, !.id = user.id, !.certStatus = user.certStatus]
    OBVIOUS
  <2>7. w \in Work /\ w.op = op /\ w.id # 0 /\ w.cert = 0
    <3>1. w \in [op : {op}, id : {user.id}, certStatus : {user.certStatus}, cert : {0}]
      BY <2>6 DEF NoWork
    <3>2. op \in Op /\ 0 \in 0..MaxCert
      OBVIOUS
    <3> QED BY <2>2, <3>1, <3>2 DEF Work
  <2>8. pc[h] = "idle" /\ pc' = [pc EXCEPT ![h] = first] /\ work' = [work EXCEPT ![h] = w]
    BY <1>3, <2>3, <2>6 DEF Begin
  <2>9. op \in CertOp => \A g \in Handler : work[g].op \notin CertOp
    BY <1>3 DEF Begin
  <2>10. pc' \in [Handler -> {"idle"} \union Command \union Statement] /\ work' \in [Handler -> Work]
    BY <2>4, <2>7, <2>8 DEF Places, Command, Statement
  <2>11. Labels'
    BY <2>4, <2>7, <2>8 DEF Places, Labels, Command
  <2>12. Exclusive'
    BY <2>7, <2>8, <2>9 DEF Places, Exclusive
  <2>5. Places'
    BY <2>10, <2>11, <2>12 DEF Places
  <2> QED BY <2>1, <2>5
<1>4. ASSUME NEW h \in Handler, Discover(h) PROVE Goal
  <2>1. DataOK'
    BY <1>4 DEF Discover, DataOK, authority
  <2>2. Places'
    BY <1>4 DEF Discover, Places, Labels, Exclusive, Work, NoWork, Op, CertOp, Command, Statement
  <2> QED BY <2>1, <2>2
<1>5. ASSUME NEW h \in Handler, Import(h) PROVE Goal
  <2>1. DataOK'
    BY <1>5, InsertType DEF Import, DataOK, authority
  <2> QED BY <1>5, <2>1, PlacesFinish DEF Import
<1>6. ASSUME NEW h \in Handler, Fail(h) PROVE Places' /\ stray' = stray \cup Unrecorded(h)
    BY <1>6, PlacesFinish DEF Fail
<1>7. ASSUME NEW h \in Handler, RevokeCert(h) \/ RevokeCertFails(h) PROVE Goal
  <2>1. stray' = stray
    BY <1>7 DEF RevokeCert, RevokeCertFails, AfterFailure, Fail, Unrecorded, Goto
  <2>2. DataOK'
    BY <1>7, <2>1 DEF RevokeCert, RevokeCertFails, Revoke, RevokeInIndex, PublishList, DataOK, authority
  <2>3. pc[h] = "revoke" /\ work[h].op \in {"revoke", "regenerate", "resolve", "delete"} /\ work[h].cert = 0
    BY <1>7 DEF RevokeCert, RevokeCertFails, Places, Labels
  <2>4. AfterFailure(h) => Places'
    <3>1. CASE work[h].op = "delete"
      BY <2>3, <3>1, PlacesGoto DEF AfterFailure, Goto, Command
    <3> QED BY <1>6, <3>1 DEF AfterFailure
  <2>5. ASSUME NEW label \in {"withdraw", "generate", "clean"}, Goto(h, label),
               label = "clean" => work[h].op \in {"resolve", "delete"}
        PROVE  Places'
    BY <2>3, <2>5, PlacesGoto DEF Goto, Command
  <2>6. PICK next : next = AfterRevoke(work[h].op)
    OBVIOUS
  <2>7. next \in {"withdraw", "generate", "clean"} /\ (next = "clean" => work[h].op \in {"resolve", "delete"})
    BY <2>3, <2>6 DEF AfterRevoke
  <2>8. Goto(h, AfterRevoke(work[h].op)) => Places'
    BY <2>5, <2>6, <2>7
  <2> QED BY <1>7, <2>2, <2>4, <2>5, <2>8 DEF RevokeCert, RevokeCertFails
<1>8. ASSUME NEW h \in Handler, Inspect(h) \/ Clean(h) PROVE Goal
  <2>1. DataOK'
    BY <1>8 DEF Inspect, Clean, DataOK, authority
  <2>2. ASSUME NEW label \in {"clean", "drop", "resolve"}, Goto(h, label), pc[h] \in {"inspect", "clean"},
               label = "clean" => work[h].op = "delete",
               label = "resolve" => work[h].op = "resolve"
        PROVE  Places'
    BY <2>2, PlacesGoto DEF Goto, Command
  <2>3. CASE Clean(h)
    <3>1. work[h].op \in {"resolve", "delete"}
      BY <2>3 DEF Clean, Places, Labels
    <3> QED BY <2>1, <2>2, <2>3, <3>1, PlacesFinish DEF Clean
  <2>4. CASE Inspect(h)
    <3>1. pc[h] = "inspect" /\ work[h].op = "delete" /\ issued \in 0..MaxCert
      BY <2>4 DEF Inspect, Places, Labels, DataOK
    <3>2. ASSUME pc' = [pc EXCEPT ![h] = "clean"], work' = [work EXCEPT ![h].cert = issued] PROVE Places'
      BY <3>1, <3>2, PlacesGoto DEF Command
    <3>3. Places'
      BY <2>2, <2>4, <3>1, <3>2, PlacesFinish DEF Inspect
    <3> QED BY <2>1, <3>3
  <2> QED BY <1>8, <2>3, <2>4
<1>9. ASSUME NEW h \in Handler, GenerateCert(h) \/ GenerateCertFails(h) PROVE Goal
  <2>1. DataOK'
    BY <1>9 DEF GenerateCert, GenerateCertFails, Make, DataOK, VpnUser, authority
  <2>2. Goto(h, "expiry") /\ pc[h] = "generate" => Places'
    BY PlacesGoto DEF Goto, Command
  <2> QED BY <1>9, <2>1, <2>2, PlacesFinish DEF GenerateCert, GenerateCertFails
<1>10. ASSUME NEW h \in Handler, ReadExpiry(h) PROVE Goal
  <2>1. DataOK'
    BY <1>10 DEF ReadExpiry, DataOK, authority
  <2>2. \A c \in {issued, 0} : c \in 0..MaxCert
    BY DEF DataOK
  <2>3. PICK cert \in 0..MaxCert : work' = [work EXCEPT ![h].cert = cert]
    BY <1>10, <2>2 DEF ReadExpiry
  <2> QED BY <1>10, <2>1, <2>3, PlacesGoto DEF ReadExpiry, Command
<1>11. ASSUME NEW h \in Handler, CommandThrows(h) \/ DatabaseError(h) PROVE Goal
  <2>1. DataOK'
    BY <1>11 DEF CommandThrows, DatabaseError, Fail, Unrecorded, DataOK, authority
  <2> QED BY <1>6, <1>11, <2>1 DEF CommandThrows, DatabaseError
<1>12. ASSUME NEW h \in Handler, NEW row \in VpnUser, NEW label, pc[h] = label => work[h].id # 0,
              row.id = user.id \/ row = NoUser, Write(h, label, row)
       PROVE  Goal
  <2>1. DataOK'
    BY <1>12 DEF Write, Fail, Unrecorded, DataOK, authority
  <2> QED BY <1>6, <1>12, <2>1, PlacesFinish DEF Write
<1> DEFINE At(h) == user \in VpnUser /\ user.id \in 0..MaxRow /\ work[h] \in Work
<1>h. ASSUME NEW h \in Handler PROVE At(h) /\ (pc[h] \notin {"idle", "import"} => work[h].id # 0)
    BY DEF DataOK, Places, Labels, VpnUser
<1>n. NoUser \in VpnUser
    BY DEF NoUser, VpnUser, CertStatus
<1>13. ASSUME NEW h \in Handler, NEW row \in VpnUser, NEW label \in Statement \ {"import"},
              row.id = user.id \/ row = NoUser, Write(h, label, row)
       PROVE  Goal
  <2> HIDE DEF Goal
  <2> QED BY <1>12, <1>13, <1>h DEF Statement
<1>14. ASSUME NEW h \in Handler, Record(h) PROVE Goal
  <2> DEFINE new == [user EXCEPT !.certStatus = "ACTIVE", !.expires = work[h].cert]
  <2>1. new \in VpnUser /\ new.id = user.id
    BY <1>h DEF VpnUser, Work, CertStatus
  <2> HIDE DEF Goal
  <2> QED BY <1>13, <1>14, <2>1 DEF Record, Statement
<1>15. ASSUME NEW h \in Handler, Withdraw(h) \/ Resolve(h) PROVE Goal
  <2>1. ASSUME NEW s \in CertStatus
        PROVE  /\ [user EXCEPT !.certStatus = s] \in VpnUser
               /\ [user EXCEPT !.flagged = FALSE, !.enabled = FALSE, !.certStatus = s] \in VpnUser
               /\ [user EXCEPT !.certStatus = s].id = user.id
               /\ [user EXCEPT !.flagged = FALSE, !.enabled = FALSE, !.certStatus = s].id = user.id
    BY <1>h DEF VpnUser, CertStatus
  <2>2. (IF work[h].certStatus = "ACTIVE" THEN "REVOKED" ELSE work[h].certStatus) \in CertStatus
    BY <1>h DEF Work, CertStatus
  <2> HIDE DEF Goal
  <2>3. CASE Withdraw(h)
    BY <1>13, <2>1, <2>3 DEF Withdraw, Statement, CertStatus
  <2>4. CASE Resolve(h)
    BY <1>13, <2>1, <2>2, <2>4 DEF Resolve, Statement
  <2> QED BY <1>15, <2>3, <2>4
<1>18. ASSUME NEW h \in Handler, Drop(h) PROVE Goal
  <2>1. work[h].cert \in {0, issued}
    BY <1>18 DEF Drop, CertInv
  <2>2. DataOK'
    BY <1>n, <1>18, <2>1 DEF Drop, Fail, Unrecorded, DataOK, authority
  <2> QED BY <1>6, <1>18, <2>2, PlacesFinish DEF Drop
<1>16. ASSUME NEW h \in Handler, Dismiss(h) \/ ClearFlag(h) \/ Update(h) PROVE Goal
  <2>1. ASSUME NEW e \in BOOLEAN, NEW f \in BOOLEAN
        PROVE  /\ [user EXCEPT !.flagged = f] \in VpnUser
               /\ [user EXCEPT !.enabled = e, !.flagged = f] \in VpnUser
               /\ [user EXCEPT !.flagged = f].id = user.id
               /\ [user EXCEPT !.enabled = e, !.flagged = f].id = user.id
    BY <1>h DEF VpnUser
  <2> HIDE DEF Goal
  <2>2. CASE Dismiss(h) \/ ClearFlag(h)
    BY <1>13, <2>1, <2>2 DEF Dismiss, ClearFlag, Statement
  <2>3. CASE Update(h)
    BY <1>13, <2>1, <2>3 DEF Update, Statement
  <2> QED BY <1>16, <2>2, <2>3
<1>17. ASSUME NEW h \in Handler, StartCert(h) \/ StartBulk(h) \/ StartFlag(h) \/ StartOther(h) PROVE Goal
    BY <1>3, <1>17 DEF StartCert, StartBulk, StartFlag, StartOther, Op, CertOp
<1> HIDE DEF Goal
<1> QED BY <1>1, <1>2, <1>4, <1>5, <1>7, <1>8, <1>9, <1>10, <1>11, <1>14, <1>15, <1>16, <1>17, <1>18 DEF Next

\* An invariant of the handlers and the authority, kept by every step.
LEMMA CertStep == TypeInv /\ TypeInv' /\ CertInv /\ [Next]_vars => CertInv'
<1> SUFFICES ASSUME DataOK, Places, DataOK', Places', CertInv, [Next]_vars PROVE CertInv'
    BY DEF TypeInv
<1> DEFINE Sure == {"withdraw", "clean", "drop", "resolve"}
           Working == Command \cup {"record", "withdraw", "resolve", "drop"}
<1>t. good \subseteq 1..made /\ listed \subseteq 1..made /\ made \in Nat
    BY DEF DataOK
<1>e. ASSUME NEW h \in Handler, pc[h] \in Working
      PROVE  /\ \A g \in Handler \ {h} : pc[g] \notin Working
             /\ Recording <=> pc[h] \in {"expiry", "record"}
  <2>1. \A g \in Handler \ {h} : pc[g] \notin Working
    BY <1>e DEF Places, Labels, Exclusive
  <2> QED BY <2>1 DEF Recording, Command
\* A step that leaves certificates alone.
<1>1. CASE UNCHANGED vars
    BY <1>1 DEF vars, CertInv, Known, authority, Unheld, Out, Accepted, Recording
<1>2. ASSUME UNCHANGED <<authority, stray, pc, work>>, user'.certStatus \in {user.certStatus, "ACTIVE"}
      PROVE  CertInv'
    BY <1>2 DEF CertInv, Known, authority, Unheld, Out, Accepted, Recording
<1>3. CASE CreateUser \/ PushCcd
  <2>1. (user.certStatus = "NONE" /\ user'.certStatus = "NONE") \/ user' = user
    BY <1>3, InsertType DEF CreateUser, PushCcd, Insert, NoUser
  <2> QED BY <1>3, <2>1, <1>2 DEF CreateUser, PushCcd
\* A handler that is at none of its steps that matter before and after.
<1>4. ASSUME NEW h \in Handler, pc[h] \notin Working, pc'[h] \notin Working,
             \A g \in Handler \ {h} : pc'[g] = pc[g] /\ work'[g] = work[g],
             UNCHANGED <<authority, stray>>, user'.certStatus = user.certStatus
      PROVE  CertInv'
    BY <1>4 DEF CertInv, Known, authority, Unheld, Out, Accepted, Recording, Command
\* A handler at work moves on, or ends.
<1>5. ASSUME NEW h \in Handler, pc[h] \in Working,
             \A g \in Handler \ {h} : pc'[g] = pc[g],
             good' \subseteq stray' \cup {issued'},
             user'.certStatus # "ACTIVE" => Unheld' \/ pc'[h] \in {"expiry", "record"},
             user'.certStatus = "REVOKED" =>
                Accepted' \subseteq stray' \cup (IF pc'[h] \in {"expiry", "record"} THEN {issued'} ELSE {}),
             pc'[h] \in Sure => Known(h)',
             pc'[h] \in {"clean", "drop"} => work'[h].cert \in {0, issued'},
             pc'[h] = "withdraw" => Out',
             pc'[h] \in {"clean", "resolve"} /\ work'[h].op = "resolve" /\ work'[h].certStatus # "NONE" => Out'
      PROVE  CertInv'
  <2>1. \A g \in Handler \ {h} : pc'[g] \notin Working
    BY <1>e, <1>5
  <2>2. Recording' <=> pc'[h] \in {"expiry", "record"}
    BY <2>1 DEF Recording, Command
  <2>3. \A g \in Handler : pc'[g] \in Sure => g = h
    BY <2>1 DEF Command
  <2> QED BY <1>5, <2>2, <2>3 DEF CertInv
<1>6. ASSUME NEW h \in Handler, NEW op \in Op \ {"import"}, Begin(h, op) PROVE CertInv'
  <2>1. PICK first : first = FirstStep(op)
    OBVIOUS
  <2>2. PICK w : w = [NoWork EXCEPT !.op = op, !.id = user.id, !.certStatus = user.certStatus]
    OBVIOUS
  <2>3. w.op = op /\ w.certStatus = user.certStatus /\ w.cert = 0
    BY <2>2 DEF NoWork
  <2>4. pc[h] = "idle" /\ pc' = [pc EXCEPT ![h] = first] /\ work' = [work EXCEPT ![h] = w]
    BY <1>6, <2>1, <2>2 DEF Begin
  <2>5. UNCHANGED <<user, authority, stray>>
    BY <1>6 DEF Begin
  <2>6. CASE op \notin CertOp
    <3>1. first \notin Working
      BY <2>1, <2>6 DEF FirstStep, Op, CertOp, Command
    <3> QED BY <1>4, <2>4, <2>5, <2>6, <3>1 DEF Places, Command
  <2>7. CASE op \in CertOp
    <3>1. \A g \in Handler : pc[g] \notin Working
      BY <1>6, <2>7 DEF Begin, Places, Labels
    <3>2. ~Recording
      BY <3>1 DEF Recording, Command
    <3>3. first \in {"generate", "revoke", "clean"} /\ (first = "clean" => user.certStatus # "ACTIVE")
      BY <2>1, <2>7 DEF FirstStep, CertOp
    <3>4. user.certStatus \in CertStatus
      BY DEF DataOK, VpnUser
    <3>5. first = "clean" => Unheld /\ (w.certStatus # "NONE" => Out)
      BY <2>3, <3>2, <3>3, <3>4 DEF CertInv, Out, CertStatus
    <3>6. ~Recording' /\ Unheld' = Unheld /\ Out' = Out
      BY <2>4, <2>5, <3>2, <3>3 DEF Recording, Unheld, Out, Accepted, authority, Places
    <3>7. \A g \in Handler : pc'[g] \in Sure => g = h
      BY <2>4, <3>1, <3>3 DEF Command, Places
    <3>8. pc'[h] = first /\ work'[h] = w
      BY <2>4 DEF Places
    <3>9. \A g \in Handler : pc'[g] \in Sure => Known(g)' /\ work'[g].cert = 0
      BY <2>3, <3>3, <3>5, <3>6, <3>7, <3>8 DEF Known
    <3> QED BY <2>3, <2>5, <3>2, <3>3, <3>5, <3>6, <3>7, <3>8, <3>9 DEF CertInv, authority, Accepted
  <2> QED BY <2>6, <2>7
<1>7. ASSUME NEW h \in Handler, Discover(h) \/ Import(h) PROVE CertInv'
  <2>1. user'.certStatus = user.certStatus
    BY <1>7, InsertType DEF Discover, Import, Insert, NoUser
  <2> QED BY <1>4, <1>7, <2>1 DEF Discover, Import, Finish, Places, Command
<1>8. ASSUME NEW h \in Handler, RevokeCert(h) \/ RevokeCertFails(h) PROVE CertInv'
  <2>1. stray' = stray /\ user' = user /\ pc[h] = "revoke" /\ work[h].op \in {"revoke", "regenerate", "resolve", "delete"}
    BY <1>8 DEF RevokeCert, RevokeCertFails, AfterFailure, Fail, Unrecorded, Goto, Places, Labels
  <2>2. Revoke => Out' /\ issued' = 0 /\ good' \subseteq stray
    BY <2>1 DEF Revoke, RevokeInIndex, PublishList, Out, Accepted, CertInv
  <2>3. issued # 0 /\ RevokeInIndex /\ UNCHANGED <<made, listed>> => issued' = 0 /\ good' \subseteq stray /\ Accepted' = Accepted
    BY DEF RevokeInIndex, Accepted, CertInv
  <2>4. UNCHANGED authority => issued' = issued /\ good' = good /\ Accepted' = Accepted
    BY DEF authority, Accepted
  <2>5. user.certStatus # "ACTIVE" => Unheld
    BY <1>e, <2>1 DEF CertInv, Command
  <2>6. user.certStatus = "REVOKED" => Accepted \subseteq stray
    BY <1>e, <2>1 DEF CertInv, Command
  <2>7. PICK next : next = AfterRevoke(work[h].op)
    OBVIOUS
  <2>8. next \in {"withdraw", "generate", "clean"}
    BY <2>1, <2>7 DEF AfterRevoke
  <2>9. ASSUME NEW label \in {"withdraw", "generate", "clean", "inspect", "idle"}, pc' = [pc EXCEPT ![h] = label],
               (issued' = 0 /\ Out') \/ (label \in {"generate", "inspect", "idle"} /\ Accepted' = Accepted /\ issued' \in {0, issued}),
               good' \subseteq stray' \cup {issued'}, label \in {"inspect", "idle"} \/ work' = work
        PROVE  CertInv'
    <3>1. work[h].cert = 0 /\ pc'[h] = label /\ \A g \in Handler \ {h} : pc'[g] = pc[g]
      BY <2>1, <2>9 DEF Places, Labels
    <3>2. issued' = 0 => Unheld'
      BY DEF Unheld
    <3> QED BY <1>5, <2>1, <2>5, <2>6, <2>9, <3>1, <3>2 DEF Unheld, Known, Out, Command
  <2>10. AfterFailure(h) => \E label \in {"inspect", "idle"} : pc' = [pc EXCEPT ![h] = label]
    BY DEF AfterFailure, Goto, Fail, Finish
  <2>11. good \subseteq stray \cup {issued}
    BY DEF CertInv
  <2>12. CASE RevokeCert(h)
    BY <2>1, <2>2, <2>4, <2>7, <2>8, <2>9, <2>10, <2>11, <2>12 DEF RevokeCert, Goto
  <2>13. CASE RevokeCertFails(h)
    BY <2>1, <2>2, <2>3, <2>4, <2>9, <2>10, <2>11, <2>13 DEF RevokeCertFails
  <2> QED BY <1>8, <2>12, <2>13
<1>9. ASSUME NEW h \in Handler, Inspect(h) \/ Clean(h) PROVE CertInv'
  <2>1. UNCHANGED <<user, authority, stray>> /\ pc[h] \in {"inspect", "clean"}
    BY <1>9 DEF Inspect, Clean
  <2>2. user.certStatus # "ACTIVE" => Unheld
    BY <1>e, <2>1 DEF CertInv, Command
  <2>3. user.certStatus = "REVOKED" => Accepted \subseteq stray
    BY <1>e, <2>1 DEF CertInv, Command
  <2>4. Accepted' = Accepted /\ Unheld' = Unheld /\ Out' = Out /\ good' \subseteq stray' \cup {issued'}
    BY <2>1 DEF Accepted, Unheld, Out, authority, CertInv
  <2>5. ASSUME NEW label \in {"clean", "drop", "resolve", "idle"}, pc' = [pc EXCEPT ![h] = label],
               label # "idle" => Known(h)', label \in {"clean", "drop"} => work'[h].cert \in {0, issued},
               label \in {"clean", "resolve"} /\ work'[h].op = "resolve" /\ work'[h].certStatus # "NONE" => Out
        PROVE  CertInv'
    BY <1>5, <2>1, <2>2, <2>3, <2>4, <2>5 DEF Places, Command, authority
  <2>6. CASE Inspect(h)
    <3>1. work[h].op = "delete" /\ work[h].cert = 0 /\ work[h] \in Work
      BY <2>6 DEF Inspect, Places, Labels
    <3>2. CASE issued = 0 /\ Goto(h, "clean")
      BY <2>4, <2>5, <3>1, <3>2 DEF Goto, Known, Unheld
    <3>3. CASE Finish(h)
      BY <2>5, <3>3 DEF Finish
    <3>4. CASE pc' = [pc EXCEPT ![h] = "clean"] /\ work' = [work EXCEPT ![h].cert = issued]
      <4>1. pc'[h] = "clean" /\ work'[h].op = "delete" /\ work'[h].cert = issued
        BY <3>1, <3>4 DEF Places, Work
      <4> QED BY <2>1, <2>5, <3>4, <4>1 DEF Known, authority
    <3> QED BY <2>6, <3>2, <3>3, <3>4 DEF Inspect
  <2>7. CASE Clean(h)
    <3>1. /\ Known(h) /\ work[h].cert \in {0, issued} /\ pc[h] = "clean"
          /\ work[h].op = "resolve" /\ work[h].certStatus # "NONE" => Out
      BY <2>7 DEF Clean, CertInv
    <3>2. ASSUME NEW label \in {"drop", "resolve"}, Goto(h, label), label = "resolve" => work[h].op # "delete"
          PROVE  CertInv'
      <4>1. pc'[h] = label /\ work' = work
        BY <3>2 DEF Goto, Places
      <4>2. Known(h)'
        BY <2>1, <2>4, <3>1, <3>2, <4>1 DEF Known, authority
      <4> QED BY <2>5, <3>1, <3>2, <4>1, <4>2 DEF Goto
    <3> QED BY <2>5, <2>7, <3>2 DEF Clean, Finish
  <2> QED BY <1>9, <2>6, <2>7
<1>10. ASSUME NEW h \in Handler, GenerateCert(h) \/ GenerateCertFails(h) PROVE CertInv'
  <2>1. user' = user /\ pc[h] = "generate"
    BY <1>10 DEF GenerateCert, GenerateCertFails
  <2>2. user.certStatus # "ACTIVE" => Unheld
    BY <1>e, <2>1 DEF CertInv, Command
  <2>3. user.certStatus = "REVOKED" => Accepted \subseteq stray
    BY <1>e, <2>1 DEF CertInv, Command
  <2>4. good \subseteq stray \cup ({issued} \ {0}) /\ made + 1 # 0
    BY <1>t DEF CertInv, DataOK
  <2>5. Make => /\ issued' = made + 1 /\ good' = good \cup {made + 1} /\ issued' # 0
                /\ Accepted' = Accepted \cup {made + 1}
    BY <1>t DEF Make, Accepted
  <2>6. CASE GenerateCert(h)
    <3>1. pc' = [pc EXCEPT ![h] = "expiry"] /\ stray' = stray \cup ({issued} \ {0}) /\ Make
      BY <2>6 DEF GenerateCert, Goto
    <3>2. good' \subseteq stray' \cup {issued'}
      BY <1>t, <2>4, <2>5, <3>1
    <3> QED BY <1>5, <2>1, <2>3, <2>5, <3>1, <3>2 DEF Places, Command
  <2>7. CASE GenerateCertFails(h)
    <3>1. pc' = [pc EXCEPT ![h] = "idle"]
      BY <2>7 DEF GenerateCertFails, Finish
    <3> DEFINE Kept == /\ good' \subseteq stray' \cup {issued'}
                       /\ Unheld => Unheld'
                       /\ Accepted \subseteq stray => Accepted' \subseteq stray'
    <3>a. ASSUME UNCHANGED <<authority, stray>> PROVE Kept
      BY <2>4, <3>a DEF authority, Unheld, Accepted
    <3>b. ASSUME issued' = 0 /\ stray' = stray \cup ({issued} \ {0}) /\ UNCHANGED <<made, good, listed>> PROVE Kept
      BY <2>4, <3>b DEF Unheld, Accepted
    <3>c. ASSUME Make /\ stray' = stray \cup ({issued, made + 1} \ {0}) PROVE Kept
      BY <2>4, <2>5, <3>c DEF Unheld
    <3>2. Kept
      BY <2>7, <3>a, <3>b, <3>c DEF GenerateCertFails
    <3> QED BY <1>5, <2>1, <2>2, <2>3, <3>1, <3>2 DEF Places, Command
  <2> QED BY <1>10, <2>6, <2>7
<1>11. ASSUME NEW h \in Handler, ReadExpiry(h) PROVE CertInv'
  <2>1. UNCHANGED <<user, authority, stray>> /\ pc[h] = "expiry" /\ pc' = [pc EXCEPT ![h] = "record"]
    BY <1>11 DEF ReadExpiry
  <2>2. user.certStatus = "REVOKED" => Accepted \subseteq stray \cup {issued}
    BY DEF CertInv
  <2>3. Accepted' = Accepted /\ good' \subseteq stray' \cup {issued'}
    BY <2>1 DEF Accepted, authority, CertInv
  <2> QED BY <1>5, <2>1, <2>2, <2>3 DEF Places, Command, authority
\* An error ends the handler; a certificate that is not recorded is nobody's.
<1>12. ASSUME NEW h \in Handler, Fail(h), pc[h] # "idle", UNCHANGED <<user, authority>> PROVE CertInv'
  <2>1. pc' = [pc EXCEPT ![h] = "idle"] /\ stray' = stray \cup Unrecorded(h)
    BY <1>12 DEF Fail, Finish
  <2>2. CASE pc[h] \notin Working
    BY <1>4, <1>12, <2>1, <2>2 DEF Fail, Finish, Unrecorded, Places, Command
  <2>3. CASE pc[h] \in Working
    <3>1. Recording => Unheld' /\ {issued} \ {0} \subseteq stray'
      BY <1>e, <1>12, <2>1, <2>3 DEF Unrecorded, Unheld, authority
    <3>2. Accepted' = Accepted /\ issued' = issued /\ good' \subseteq stray' \cup {issued'} /\ stray \subseteq stray'
      BY <1>12, <2>1 DEF Accepted, authority, CertInv
    <3>3. 0 \notin Accepted
      BY DEF Accepted
    <3>4. user.certStatus # "ACTIVE" => Unheld'
      BY <3>1, <3>2 DEF CertInv, Unheld
    <3>5. user.certStatus = "REVOKED" => Accepted' \subseteq stray'
      BY <3>1, <3>2, <3>3 DEF CertInv
    <3> QED BY <1>5, <1>12, <2>1, <2>3, <3>2, <3>4, <3>5 DEF Places, Command
  <2> QED BY <2>2, <2>3
<1>13. ASSUME NEW h \in Handler, CommandThrows(h) \/ DatabaseError(h) PROVE CertInv'
    BY <1>12, <1>13 DEF CommandThrows, DatabaseError, Statement
\* A statement writes its row and ends the handler, or throws.
<1>14. ASSUME NEW h \in Handler, NEW row, NEW label \in Statement, Write(h, label, row),
              row.certStatus # "ACTIVE" => pc[h] \in {"withdraw", "resolve"} \/ (pc[h] \notin Working /\ row.certStatus = user.certStatus),
              row.certStatus = "REVOKED" => Out \/ pc[h] \notin Working,
              pc[h] \notin Working => row.certStatus = user.certStatus
       PROVE  CertInv'
  <2>1. CASE user' = row /\ Finish(h) /\ UNCHANGED <<authority, stray>>
    <3>1. pc[h] = label /\ pc' = [pc EXCEPT ![h] = "idle"]
      BY <1>14, <2>1 DEF Write, Finish
    <3>2. CASE pc[h] \notin Working
      BY <1>4, <1>14, <2>1, <3>1, <3>2 DEF Finish, Places, Command
    <3>3. CASE pc[h] \in Working
      <4>1. pc[h] \in {"withdraw", "resolve"} => Unheld
        BY DEF CertInv, Known
      <4>2. Accepted' = Accepted /\ Unheld' = Unheld /\ good' \subseteq stray' \cup {issued'}
        BY <2>1 DEF Accepted, Unheld, authority, CertInv
      <4> QED BY <1>5, <1>14, <2>1, <3>1, <3>3, <4>1, <4>2 DEF Places, Command, Out
    <3> QED BY <3>2, <3>3
  <2>2. CASE Fail(h) /\ UNCHANGED user
    BY <1>12, <1>14, <2>2 DEF Write, Statement
  <2> QED BY <1>14, <2>1, <2>2 DEF Write
<1>s. user \in VpnUser /\ \A h \in Handler : work[h] \in Work
    BY DEF DataOK, Places
<1>15. ASSUME NEW h \in Handler, Record(h) \/ Withdraw(h) \/ Drop(h) PROVE CertInv'
  <2>1. CASE Record(h)
    <3>1. [user EXCEPT !.certStatus = "ACTIVE", !.expires = work[h].cert].certStatus = "ACTIVE"
      BY <1>s DEF VpnUser
    <3> QED BY <1>14, <2>1, <3>1 DEF Record, Write, Statement
  <2>2. CASE Withdraw(h)
    <3>1. [user EXCEPT !.certStatus = "REVOKED"].certStatus = "REVOKED"
      BY <1>s DEF VpnUser
    <3>2. Out
      BY <2>2 DEF Withdraw, Write, CertInv
    <3> QED BY <1>14, <2>2, <3>1, <3>2 DEF Withdraw, Write, Statement
  <2>3. CASE Drop(h)
    <3>1. CASE Fail(h) /\ UNCHANGED user
      BY <1>12, <2>3, <3>1 DEF Drop
    <3>2. CASE user' = NoUser /\ Finish(h) /\ stray' = stray \cup ({work[h].cert} \ {0})
      <4>1. pc[h] = "drop" /\ Known(h) /\ UNCHANGED authority
        BY <2>3 DEF Drop, CertInv
      <4>2. Unheld' /\ good' \subseteq stray' \cup {issued'}
        BY <3>2, <4>1 DEF Known, Unheld, authority, CertInv
      <4>3. pc' = [pc EXCEPT ![h] = "idle"] /\ user'.certStatus = "NONE"
        BY <3>2 DEF Finish, NoUser
      <4> QED BY <1>5, <4>1, <4>2, <4>3 DEF Places, Command
    <3> QED BY <2>3, <3>1, <3>2 DEF Drop
  <2> QED BY <1>15, <2>1, <2>2, <2>3
<1>16. ASSUME NEW h \in Handler, Resolve(h) PROVE CertInv'
  <2> DEFINE status == IF work[h].certStatus = "ACTIVE" THEN "REVOKED" ELSE work[h].certStatus
  <2>1. [user EXCEPT !.flagged = FALSE, !.enabled = FALSE, !.certStatus = status].certStatus = status
    BY <1>s DEF VpnUser
  <2>2. pc[h] = "resolve" /\ work[h].op = "resolve"
    BY <1>16 DEF Resolve, Write, Places, Labels
  <2>3. status = "REVOKED" => Out
    BY <2>2 DEF CertInv
  <2> QED BY <1>14, <1>16, <2>1, <2>2, <2>3, ZenonT(30) DEF Resolve, Statement
<1>17. ASSUME NEW h \in Handler, Dismiss(h) \/ ClearFlag(h) \/ Update(h) PROVE CertInv'
  <2>1. ASSUME NEW e \in BOOLEAN, NEW f \in BOOLEAN
        PROVE  /\ [user EXCEPT !.flagged = f].certStatus = user.certStatus
               /\ [user EXCEPT !.enabled = e, !.flagged = f].certStatus = user.certStatus
    BY <1>s DEF VpnUser
  <2>2. pc[h] \notin Working
    BY <1>17 DEF Dismiss, ClearFlag, Update, Write, Command
  <2> QED BY <1>14, <1>17, <2>1, <2>2 DEF Dismiss, ClearFlag, Update, Statement
<1>18. ASSUME NEW h \in Handler, StartCert(h) \/ StartBulk(h) \/ StartFlag(h) \/ StartOther(h) PROVE CertInv'
    BY <1>6, <1>18 DEF StartCert, StartBulk, StartFlag, StartOther, Op, CertOp
<1> QED BY <1>1, <1>3, <1>7, <1>8, <1>9, <1>10, <1>11, <1>13, <1>15, <1>16, <1>17, <1>18 DEF Next

\* Nothing changes the mode, or what there was before the portal.
LEMMA ModeStays == [Next]_vars => mode' = mode /\ prior' = prior
<1> SUFFICES ASSUME [Next]_vars PROVE mode' = mode /\ prior' = prior
    OBVIOUS
<1>1. ASSUME NEW h \in Handler, NEW op, Begin(h, op) PROVE mode' = mode /\ prior' = prior
    BY <1>1 DEF Begin
<1>2. ASSUME NEW h \in Handler, StartCert(h) \/ StartBulk(h) \/ StartFlag(h) \/ StartOther(h)
      PROVE  mode' = mode /\ prior' = prior
    BY <1>1, <1>2 DEF StartCert, StartBulk, StartFlag, StartOther
<1>3. ASSUME NEW h \in Handler, NEW label, NEW row, Write(h, label, row) PROVE mode' = mode /\ prior' = prior
    BY <1>3 DEF Write
<1>4. ASSUME NEW h \in Handler, \/ Record(h) \/ Withdraw(h) \/ Resolve(h) \/ Drop(h)
                               \/ Dismiss(h) \/ ClearFlag(h) \/ Update(h)
      PROVE  mode' = mode /\ prior' = prior
    BY <1>3, <1>4 DEF Record, Withdraw, Resolve, Drop, Dismiss, ClearFlag, Update
<1>5. ASSUME NEW h \in Handler,
             \/ Discover(h) \/ Import(h) \/ RevokeCert(h) \/ RevokeCertFails(h) \/ Inspect(h)
             \/ GenerateCert(h) \/ GenerateCertFails(h) \/ ReadExpiry(h)
             \/ Clean(h) \/ CommandThrows(h) \/ DatabaseError(h)
      PROVE  mode' = mode /\ prior' = prior
    BY <1>5 DEF Discover, Import, RevokeCert, RevokeCertFails, Inspect, GenerateCert, GenerateCertFails,
                ReadExpiry, Clean, CommandThrows, DatabaseError
<1>6. CASE CreateUser \/ PushCcd \/ UNCHANGED vars
    BY <1>6 DEF CreateUser, PushCcd, vars
<1> QED BY <1>2, <1>4, <1>5, <1>6 DEF Next

\* When nothing fails, an operation replaces or revokes the certificate on record,
\* and the row follows before the next operation begins.
LEMMA CalmStep == TypeInv /\ TypeInv' /\ CalmInv /\ [Next]_vars => CalmInv'
<1> SUFFICES ASSUME DataOK, Places, Places', mode = "calm", Calm, [Next]_vars PROVE Calm'
    BY ModeStays DEF CalmInv, TypeInv
<1>p. mode' = mode /\ prior' = prior
    BY ModeStays
<1>t. good \subseteq 1..made /\ listed \subseteq 1..made /\ prior \subseteq 1..made /\ made \in Nat /\ issued \in good \cup {0}
    BY DEF DataOK
<1>e. ASSUME NEW h \in Handler, AtWork(h) PROVE \A g \in Handler \ {h} : ~AtWork(g)
    BY <1>e DEF AtWork, Places, Labels, Exclusive
\* A step that leaves the certificates and the operations on them alone.
<1>u. ASSUME UNCHANGED <<authority>>, user'.certStatus = user.certStatus,
             \A h \in Handler : (pc'[h] = pc[h] /\ work'[h].id = work[h].id) \/ (~AtWork(h) /\ ~AtWork(h)'),
             user'.id = user.id \/ \A h \in Handler : ~AtWork(h)
      PROVE  Calm'
  <2>1. Accepted' = good' /\ AsRecorded' = AsRecorded
    BY <1>p, <1>u DEF Calm, Accepted, AsRecorded, authority
  <2>2. \A h \in Handler : AtWork(h)' = AtWork(h)
    BY <1>u DEF AtWork
  <2>3. ASSUME NEW h \in Handler PROVE CalmStage(h)'
    <3>1. CASE pc'[h] = pc[h] /\ work'[h].id = work[h].id
      BY <1>p, <1>u, <2>1, <2>2, <3>1 DEF Calm, CalmStage, authority
    <3>2. CASE ~AtWork(h)'
      BY <3>2 DEF CalmStage, AtWork, Command
    <3> QED BY <1>u, <3>1, <3>2
  <2> QED BY <2>1, <2>2, <2>3 DEF Calm
\* A handler at work moves on, or ends.
<1>q. ASSUME NEW h \in Handler, AtWork(h), Accepted' = good',
             \A g \in Handler \ {h} : pc'[g] = pc[g],
             CalmStage(h)', ~AtWork(h)' => AsRecorded'
      PROVE  Calm'
  <2>1. \A g \in Handler \ {h} : ~AtWork(g)'
    BY <1>e, <1>q DEF AtWork
  <2>2. \A g \in Handler \ {h} : CalmStage(g)'
    BY <2>1 DEF CalmStage, AtWork, Command
  <2> QED BY <1>q, <2>2 DEF Calm
<1>i. ASSUME NEW h \in Handler, ~AtWork(h)' PROVE CalmStage(h)'
    BY <1>i DEF CalmStage, AtWork, Command
<1>1. CASE UNCHANGED vars
  <2>1. user' = user /\ UNCHANGED authority /\ pc' = pc /\ work' = work
    BY <1>1 DEF vars, authority
  <2> QED BY <1>u, <2>1
<1>r. user = NoUser => \A h \in Handler : ~AtWork(h)
    BY DEF Calm, CalmStage, NoUser, AtWork, Places, Labels, Command
<1>2. Insert => user'.certStatus = user.certStatus /\ \A h \in Handler : ~AtWork(h)
  <2> SUFFICES ASSUME Insert PROVE user'.certStatus = user.certStatus /\ \A h \in Handler : ~AtWork(h)
      OBVIOUS
  <2>1. user'.certStatus = "NONE"
    BY InsertType
  <2>2. user = NoUser /\ NoUser.certStatus = "NONE"
    BY DEF Insert, NoUser
  <2> QED BY <1>r, <2>1, <2>2
<1>3. CASE CreateUser \/ PushCcd
    BY <1>2, <1>3, <1>u DEF CreateUser, PushCcd
<1>4. ASSUME NEW h \in Handler, Discover(h) PROVE Calm'
  <2>1. pc[h] = "idle" /\ pc'[h] = "import" /\ UNCHANGED <<authority, user>>
    BY <1>4 DEF Discover, Places
  <2>2. \A g \in Handler \ {h} : pc'[g] = pc[g] /\ work'[g] = work[g]
    BY <1>4 DEF Discover, Places
  <2>3. ~AtWork(h) /\ ~AtWork(h)'
    BY <2>1 DEF AtWork, Command
  <2> QED BY <1>u, <2>1, <2>2, <2>3
<1>5. ASSUME NEW h \in Handler, Import(h) PROVE Calm'
  <2>1. pc[h] = "import" /\ pc'[h] = "idle" /\ UNCHANGED authority /\ (Insert \/ UNCHANGED user)
    BY <1>5 DEF Import, Finish, Places
  <2>2. \A g \in Handler \ {h} : pc'[g] = pc[g] /\ work'[g] = work[g]
    BY <1>5 DEF Import, Finish, Places
  <2>3. ~AtWork(h) /\ ~AtWork(h)'
    BY <2>1 DEF AtWork, Command
  <2> QED BY <1>2, <1>u, <2>1, <2>2, <2>3
<1>6. ASSUME NEW h \in Handler, NEW op \in Op \ {"import", "bulk"}, Begin(h, op),
             op = "generate" => user.certStatus # "ACTIVE", op = "revoke" => user.certStatus = "ACTIVE"
      PROVE  Calm'
  <2>1. PICK first : first = FirstStep(op)
    OBVIOUS
  <2>2. PICK w : w = [NoWork EXCEPT !.op = op, !.id = user.id, !.certStatus = user.certStatus]
    OBVIOUS
  <2>3. w.id = user.id
    BY <2>2 DEF NoWork
  <2>4. pc[h] = "idle" /\ pc' = [pc EXCEPT ![h] = first] /\ work' = [work EXCEPT ![h] = w]
    BY <1>6, <2>1, <2>2 DEF Begin
  <2>5. UNCHANGED <<user, authority>>
    BY <1>6 DEF Begin
  <2>6. pc'[h] = first /\ work'[h] = w /\ \A g \in Handler \ {h} : pc'[g] = pc[g] /\ work'[g] = work[g]
    BY <2>4 DEF Places
  <2>7. CASE op \notin CertOp
    <3>1. first \in {"dismiss", "clear", "update"}
      BY <2>1, <2>7 DEF FirstStep, Op, CertOp
    <3>2. ~AtWork(h) /\ ~AtWork(h)'
      BY <2>4, <2>6, <3>1 DEF AtWork, Command
    <3> QED BY <1>u, <2>5, <2>6, <3>2
  <2>8. CASE op \in CertOp
    <3>1. \A g \in Handler : ~AtWork(g)
      BY <1>6, <2>8 DEF Begin, Places, Labels, AtWork
    <3>2. /\ first \in {"generate", "revoke", "clean"}
          /\ first = "revoke" <=> user.certStatus = "ACTIVE"
      BY <1>6, <2>1, <2>8 DEF FirstStep, CertOp
    <3>3. Accepted' = good' /\ AsRecorded' /\ good' = good
      BY <1>p, <2>5, <3>1 DEF Calm, AsRecorded, Accepted, authority
    <3>4. CalmStage(h)'
      BY <1>p, <2>3, <2>5, <2>6, <3>2, <3>3 DEF CalmStage, AsRecorded
    <3>5. \A g \in Handler \ {h} : CalmStage(g)'
      BY <2>6, <3>1 DEF CalmStage, AtWork, Command
    <3> QED BY <3>3, <3>4, <3>5 DEF Calm
  <2> QED BY <2>7, <2>8
<1>7. ASSUME NEW h \in Handler, StartCert(h) \/ StartBulk(h) \/ StartFlag(h) \/ StartOther(h) PROVE Calm'
    BY <1>6, <1>7 DEF StartCert, StartBulk, StartFlag, StartOther, Op, CertOp
<1>8. ASSUME NEW h \in Handler, RevokeCert(h) PROVE Calm'
  <2>1. pc[h] = "revoke" /\ AtWork(h) /\ UNCHANGED user
    BY <1>8 DEF RevokeCert, AtWork, Command
  <2>2. good \ prior = {issued} /\ issued # 0 /\ work[h].id = user.id
    BY <1>t, <2>1 DEF Calm, CalmStage, AsRecorded
  <2>3. Revoke /\ Goto(h, AfterRevoke(work[h].op))
    BY <1>8, <2>2 DEF RevokeCert
  <2>4. good' \subseteq prior /\ Accepted' = good'
    BY <1>t, <2>2, <2>3 DEF Revoke, RevokeInIndex, PublishList, Accepted
  <2>5. work[h].op \in {"revoke", "regenerate", "resolve", "delete"}
    BY <2>1 DEF Places, Labels
  <2>6. PICK next : next = AfterRevoke(work[h].op)
    OBVIOUS
  <2>7. next \in {"withdraw", "generate", "clean"}
    BY <2>5, <2>6 DEF AfterRevoke
  <2>8. pc' = [pc EXCEPT ![h] = next] /\ work' = work
    BY <2>3, <2>6 DEF Goto
  <2>9. pc'[h] = next /\ \A g \in Handler \ {h} : pc'[g] = pc[g]
    BY <2>8 DEF Places
  <2>10. CalmStage(h)' /\ AtWork(h)'
    BY <1>p, <2>1, <2>2, <2>4, <2>7, <2>8, <2>9 DEF CalmStage, AtWork, Command
  <2> QED BY <1>q, <2>1, <2>4, <2>9, <2>10
<1>9. ASSUME NEW h \in Handler, Clean(h) PROVE Calm'
  <2>1. pc[h] = "clean" /\ AtWork(h) /\ UNCHANGED <<user, authority>>
    BY <1>9 DEF Clean, AtWork, Command
  <2>2. PICK next \in {"drop", "resolve"} : pc' = [pc EXCEPT ![h] = next] /\ work' = work
    BY <1>9 DEF Clean, Goto
  <2>3. pc'[h] = next /\ \A g \in Handler \ {h} : pc'[g] = pc[g]
    BY <2>2 DEF Places
  <2>4. good \subseteq prior /\ Accepted = good /\ work[h].id = user.id
    BY <2>1 DEF Calm, CalmStage
  <2>5. CalmStage(h)' /\ AtWork(h)' /\ Accepted' = good'
    BY <1>p, <2>1, <2>2, <2>3, <2>4 DEF CalmStage, AtWork, Accepted, authority
  <2> QED BY <1>q, <2>1, <2>3, <2>5
<1>10. ASSUME NEW h \in Handler, GenerateCert(h) PROVE Calm'
  <2>1. pc[h] = "generate" /\ AtWork(h) /\ UNCHANGED user /\ Make
    BY <1>10 DEF GenerateCert, AtWork, Command
  <2>2. pc' = [pc EXCEPT ![h] = "expiry"] /\ work' = work
    BY <1>10 DEF GenerateCert, Goto
  <2>3. pc'[h] = "expiry" /\ \A g \in Handler \ {h} : pc'[g] = pc[g]
    BY <2>2 DEF Places
  <2>4. good \subseteq prior /\ Accepted = good /\ work[h].id = user.id
    BY <2>1 DEF Calm, CalmStage
  <2>5. good' \ prior = {issued'} /\ Accepted' = good'
    BY <1>t, <2>1, <2>4 DEF Make, Accepted
  <2>6. CalmStage(h)' /\ AtWork(h)'
    BY <1>p, <2>1, <2>2, <2>3, <2>4, <2>5 DEF CalmStage, AtWork, Command
  <2> QED BY <1>q, <2>1, <2>3, <2>5, <2>6
<1>11. ASSUME NEW h \in Handler, ReadExpiry(h) PROVE Calm'
  <2>1. pc[h] = "expiry" /\ AtWork(h) /\ UNCHANGED <<user, authority>> /\ pc' = [pc EXCEPT ![h] = "record"]
    BY <1>11 DEF ReadExpiry, AtWork, Command
  <2>2. PICK cert : work' = [work EXCEPT ![h].cert = cert]
    BY <1>11 DEF ReadExpiry
  <2>3. pc'[h] = "record" /\ (\A g \in Handler \ {h} : pc'[g] = pc[g]) /\ work'[h].id = work[h].id
    BY <2>1, <2>2 DEF Places, Work
  <2>4. good \ prior = {issued} /\ Accepted = good /\ work[h].id = user.id
    BY <2>1 DEF Calm, CalmStage
  <2>5. CalmStage(h)' /\ AtWork(h)' /\ Accepted' = good'
    BY <1>p, <2>1, <2>3, <2>4 DEF CalmStage, AtWork, Accepted, authority
  <2> QED BY <1>q, <2>1, <2>3, <2>5
\* None of the steps of a mode in which something fails.
<1>12. ASSUME NEW h \in Handler, \/ RevokeCertFails(h) \/ Inspect(h) \/ GenerateCertFails(h)
                                \/ CommandThrows(h) \/ DatabaseError(h)
       PROVE  FALSE
    BY <1>12 DEF RevokeCertFails, Inspect, GenerateCertFails, CommandThrows, DatabaseError, Calm, CalmStage
\* A statement of an operation on the certificate.
<1>13. ASSUME NEW h \in Handler, NEW row, NEW label \in {"record", "withdraw", "resolve", "drop"}, Write(h, label, row),
              good \ prior = IF row.certStatus = "ACTIVE" THEN {issued} ELSE {}
       PROVE  Calm'
  <2>1. pc[h] = label /\ AtWork(h) /\ UNCHANGED authority
    BY <1>13 DEF Write, AtWork
  <2>2. work[h].id = user.id
    BY <2>1 DEF Calm, CalmStage
  <2>3. user' = row /\ pc' = [pc EXCEPT ![h] = "idle"]
    BY <1>13, <2>2 DEF Write, Finish
  <2>4. pc'[h] = "idle" /\ \A g \in Handler \ {h} : pc'[g] = pc[g]
    BY <2>3 DEF Places
  <2>5. ~AtWork(h)' /\ AsRecorded' /\ Accepted' = good'
    BY <1>p, <1>13, <2>1, <2>3, <2>4 DEF AtWork, Command, AsRecorded, Accepted, authority, Calm
  <2> QED BY <1>i, <1>q, <2>1, <2>4, <2>5
<1>s. user \in VpnUser /\ \A h \in Handler : work[h] \in Work
    BY DEF DataOK, Places
<1>14. ASSUME NEW h \in Handler, Record(h) PROVE Calm'
  <2>1. PICK row : row = [user EXCEPT !.certStatus = "ACTIVE", !.expires = work[h].cert]
    OBVIOUS
  <2>2. row.certStatus = "ACTIVE" /\ Write(h, "record", row)
    BY <1>14, <1>s, <2>1 DEF Record, VpnUser
  <2>3. good \ prior = {issued}
    BY <2>2 DEF Write, Calm, CalmStage
  <2> QED BY <1>13, <2>2, <2>3
<1>15. ASSUME NEW h \in Handler, Withdraw(h) \/ Resolve(h) PROVE Calm'
  <2>1. PICK label, row : /\ label \in {"withdraw", "resolve"}
                         /\ Write(h, label, row) /\ row.certStatus # "ACTIVE"
    <3>1. CASE Withdraw(h)
      <4>1. [user EXCEPT !.certStatus = "REVOKED"].certStatus = "REVOKED"
        BY <1>s DEF VpnUser
      <4> QED BY <3>1, <4>1 DEF Withdraw
    <3>2. CASE Resolve(h)
      <4> DEFINE status == IF work[h].certStatus = "ACTIVE" THEN "REVOKED" ELSE work[h].certStatus
      <4>1. [user EXCEPT !.flagged = FALSE, !.enabled = FALSE, !.certStatus = status].certStatus = status
        BY <1>s DEF VpnUser
      <4>2. status # "ACTIVE"
        OBVIOUS
      <4> QED BY <3>2, <4>1, <4>2 DEF Resolve
    <3> QED BY <1>15, <3>1, <3>2
  <2>2. good \subseteq prior
    BY <2>1 DEF Write, Calm, CalmStage
  <2> QED BY <1>13, <2>1, <2>2
<1>17. ASSUME NEW h \in Handler, Drop(h) PROVE Calm'
  <2>1. pc[h] = "drop" /\ AtWork(h) /\ UNCHANGED authority
    BY <1>17 DEF Drop, AtWork
  <2>2. work[h].id = user.id /\ good \subseteq prior
    BY <2>1 DEF Calm, CalmStage
  <2>3. user'.certStatus = "NONE" /\ pc' = [pc EXCEPT ![h] = "idle"]
    BY <1>17, <2>2 DEF Drop, Finish, NoUser
  <2>4. pc'[h] = "idle" /\ \A g \in Handler \ {h} : pc'[g] = pc[g]
    BY <2>3 DEF Places
  <2>5. ~AtWork(h)' /\ AsRecorded' /\ Accepted' = good'
    BY <1>p, <2>1, <2>2, <2>3, <2>4 DEF AtWork, Command, AsRecorded, Accepted, authority, Calm
  <2> QED BY <1>i, <1>q, <2>1, <2>4, <2>5
<1>16. ASSUME NEW h \in Handler, Dismiss(h) \/ ClearFlag(h) \/ Update(h) PROVE Calm'
  <2>1. ASSUME NEW e \in BOOLEAN, NEW f \in BOOLEAN
        PROVE  /\ [user EXCEPT !.flagged = f].certStatus = user.certStatus
               /\ [user EXCEPT !.enabled = e, !.flagged = f].certStatus = user.certStatus
               /\ [user EXCEPT !.flagged = f].id = user.id
               /\ [user EXCEPT !.enabled = e, !.flagged = f].id = user.id
    BY <1>s DEF VpnUser
  <2>2. PICK label, row : /\ label \in {"dismiss", "clear", "update"}
                         /\ Write(h, label, row) /\ row.certStatus = user.certStatus /\ row.id = user.id
    BY <1>16, <2>1 DEF Dismiss, ClearFlag, Update
  <2>3. pc[h] = label /\ UNCHANGED authority /\ user' \in {user, row} /\ Finish(h)
    BY <2>2 DEF Write, Fail
  <2>4. pc'[h] = "idle" /\ \A g \in Handler \ {h} : pc'[g] = pc[g] /\ work'[g] = work[g]
    BY <2>3 DEF Finish, Places
  <2>5. ~AtWork(h) /\ ~AtWork(h)'
    BY <2>2, <2>3, <2>4 DEF AtWork, Command
  <2> QED BY <1>u, <2>2, <2>3, <2>4, <2>5
<1> QED BY <1>1, <1>3, <1>4, <1>5, <1>7, <1>8, <1>9, <1>10, <1>11, <1>12, <1>14, <1>15, <1>16, <1>17 DEF Next

-----------------------------------------------------------------------------

\* Types, places and what the handlers rely on hold in every state.
LEMMA CertInvariant == Spec => [](TypeInv /\ CertInv /\ CalmInv)
<1>1. Init => TypeInv /\ CertInv /\ CalmInv
  <2> SUFFICES ASSUME Init PROVE TypeInv /\ CertInv /\ CalmInv
      OBVIOUS
  <2>1. DataOK
    BY DEF Init, DataOK, VpnUser, NoUser, CertStatus
  <2>2. Places
    BY DEF Init, Places, Labels, Exclusive, Work, NoWork, CertStatus, Command, CertOp
  <2>3. CertInv
    BY DEF Init, CertInv, Unheld, NoUser
  <2>4. CalmInv
    BY DEF Init, CalmInv, Calm, CalmStage, AsRecorded, Accepted, NoUser, AtWork, Command
  <2> QED BY <2>1, <2>2, <2>3, <2>4 DEF TypeInv
<1>2. TypeInv /\ CertInv /\ CalmInv /\ [Next]_vars => (TypeInv /\ CertInv /\ CalmInv)'
    BY TypeStep, CertStep, CalmStep
<1> QED BY <1>1, <1>2, PTL DEF Spec

\* Every variable keeps its type, however many handlers, rows and certificates.
THEOREM CertTypeCorrect == Spec => []TypeOK
<1>1. TypeInv => TypeOK
    BY DEF TypeInv, DataOK, Places, TypeOK
<1> QED BY <1>1, CertInvariant, PTL

\* Nobody works on the certificate: nothing is on the way to be recorded.
LEMMA RestIsQuiet == ASSUME TypeInv, AtRest PROVE ~Recording
BY DEF TypeInv, Places, Labels, AtRest, Recording, Command

\* DELETE of a user: whatever fails and whoever else is at work, once a row is
\* gone the authority holds no certificate of its name that could be found.
THEOREM DeletionRevokes == Spec => []DeletedIsRevoked
<1>1. TypeInv /\ CertInv => DeletedIsRevoked
  <2> SUFFICES ASSUME TypeInv, CertInv, AtRest, user = NoUser PROVE good \subseteq stray
      BY DEF DeletedIsRevoked
  <2>1. Unheld
    BY RestIsQuiet DEF CertInv, NoUser
  <2>2. 0 \notin good
    BY DEF TypeInv, DataOK
  <2> QED BY <2>1, <2>2 DEF CertInv, Unheld
<1> QED BY <1>1, CertInvariant, PTL

\* A name shown as REVOKED has no certificate that the server accepts, but those
\* no handler could have found: the revocation list is published before the row
\* says so, by every operation that says so.
THEOREM RevocationHolds == Spec => []RevokedIsOut
<1>1. TypeInv /\ CertInv => RevokedIsOut
    BY RestIsQuiet DEF CertInv, RevokedIsOut
<1> QED BY <1>1, CertInvariant, PTL

\* generate, revoke, regenerate, resolve-flag and DELETE, when nothing fails and
\* nothing is generated in bulk: at rest the one certificate the server accepts,
\* besides those from before the portal, is the one the row has on record.
THEOREM RecordedIsAccepted == Spec => []RecordIsTrue
<1>1. TypeInv /\ CalmInv => RecordIsTrue
  <2> SUFFICES ASSUME Places, mode = "calm", Calm, AtRest
               PROVE  Accepted \ prior = IF user.certStatus = "ACTIVE" THEN {issued} ELSE {}
      BY DEF RecordIsTrue, TypeInv, CalmInv
  <2>1. \A h \in Handler : ~AtWork(h)
    BY DEF AtRest, AtWork, Places, Labels
  <2> QED BY <2>1 DEF Calm, AsRecorded
<1> QED BY <1>1, CertInvariant, PTL
=============================================================================
