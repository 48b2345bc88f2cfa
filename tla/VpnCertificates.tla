-------------------------- MODULE VpnCertificates --------------------------
(***************************************************************************)
(* The certificate of one common name on one server: the row that says     *)
(* what it is, the files of the certificate authority, and the revocation  *)
(* list the VPN server reads.  Handlers of administrators change all three *)
(* in separate statements and commands, each of which may fail.            *)
(*                                                                         *)
(* A process that stops is a handler that fails where it is.               *)
(***************************************************************************)
EXTENDS Naturals, FiniteSets

CONSTANTS
    Handler,    \* requests that may be in flight at the same time
    Modes,      \* what may happen: a subset of {"calm", "bulk", "faulty"}
    MaxRow,     \* bound: rows created under the name
    MaxCert     \* bound: certificates made for the name

ASSUME HandlerAssumption == IsFiniteSet(Handler)
ASSUME ModeAssumption == Modes \subseteq {"calm", "bulk", "faulty"}
ASSUME BoundAssumption == MaxRow \in Nat \ {0} /\ MaxCert \in Nat \ {0}

VARIABLES
    mode,       \* of this behaviour
    user,       \* the VpnUser row of the name
    rows,       \* how many rows there were
    made,       \* how many certificates were made: they are 1..made
    good,       \* those the authority holds valid
    issued,     \* the one whose files are there, 0 if none
    listed,     \* those on the revocation list of the server
    ccd,        \* is there a client configuration file of the name?
    pc, work,   \* where each handler is, and what it has read
    prior,      \* history: certificates from before the portal
    stray       \* history: valid ones that no row will lead to

vars == <<mode, user, rows, made, good, issued, listed, ccd, pc, work, prior, stray>>
authority == <<made, good, issued, listed>>

CertStatus == {"NONE", "ACTIVE", "REVOKED"}
\* expires: the certificate that the date of expiry was read from.
VpnUser == [id: 0..MaxRow, certStatus: CertStatus, enabled: BOOLEAN, flagged: BOOLEAN,
            expires: 0..MaxCert]
NoUser == [id |-> 0, certStatus |-> "NONE", enabled |-> FALSE, flagged |-> FALSE, expires |-> 0]

CertOp == {"generate", "revoke", "regenerate", "bulk", "resolve", "delete"}
Op == CertOp \union {"dismiss", "clear", "update", "import"}
Work == [op: Op \union {"none"}, id: 0..MaxRow, certStatus: CertStatus, cert: 0..MaxCert]
NoWork == [op |-> "none", id |-> 0, certStatus |-> "NONE", cert |-> 0]

Command == {"revoke", "inspect", "generate", "expiry", "clean"}
Statement == {"record", "withdraw", "resolve", "drop", "dismiss", "clear", "update", "import"}

TypeOK ==
    /\ mode \in Modes
    /\ user \in VpnUser
    /\ user.id = 0 => user = NoUser
    /\ rows \in 0..MaxRow
    /\ made \in 0..MaxCert
    /\ {good, listed, prior, stray} \subseteq SUBSET (1..made)
    /\ good \intersect listed = {}
    /\ issued \in good \union {0}
    /\ ccd \in BOOLEAN
    /\ pc \in [Handler -> {"idle"} \union Command \union Statement]
    /\ work \in [Handler -> Work]

\* The server may have been in use before.
Init ==
    /\ mode \in Modes
    /\ user = NoUser
    /\ rows = 0
    /\ made \in {0, 1}
    /\ good = 1..made
    /\ issued = made
    /\ listed = {}
    /\ ccd \in BOOLEAN
    /\ pc = [h \in Handler |-> "idle"]
    /\ work = [h \in Handler |-> NoWork]
    /\ prior = 1..made
    /\ stray = 1..made

-----------------------------------------------------------------------------

Goto(h, label) == pc' = [pc EXCEPT ![h] = label] /\ UNCHANGED work

Finish(h) ==
    /\ pc' = [pc EXCEPT ![h] = "idle"]
    /\ work' = [work EXCEPT ![h] = NoWork]

\* Does an error here leave a new certificate without a record?
Unrecorded(h) == IF pc[h] \in {"expiry", "record"} THEN {issued} \ {0} ELSE {}

Fail(h) ==
    /\ Finish(h)
    /\ stray' = stray \union Unrecorded(h)

\* Bound: MaxRow.  A second row of the name is refused.
Insert ==
    /\ user = NoUser
    /\ rows < MaxRow
    /\ rows' = rows + 1
    /\ user' = [NoUser EXCEPT !.id = rows + 1, !.enabled = TRUE]

CreateUser ==
    /\ Insert
    /\ UNCHANGED <<mode, authority, ccd, pc, work, prior, stray>>

\* A push of the client configuration.
PushCcd ==
    /\ user # NoUser
    /\ ccd' = TRUE
    /\ UNCHANGED <<mode, user, rows, authority, pc, work, prior, stray>>

\* Mutant of FirstStep: to regenerate, files are replaced and nothing is revoked.
FirstStepOnly(op) ==
    CASE op \in {"generate", "bulk", "regenerate"} -> "generate"
      [] op \in {"resolve", "delete"} -> IF user.certStatus = "ACTIVE" THEN "revoke" ELSE "clean"
      [] OTHER -> op

FirstStep(op) ==
    CASE op \in {"generate", "bulk"} -> "generate"
      [] op = "regenerate" -> IF user.certStatus = "ACTIVE" THEN "revoke" ELSE "generate"
      [] op \in {"resolve", "delete"} -> IF user.certStatus = "ACTIVE" THEN "revoke" ELSE "clean"
      [] OTHER -> op

\* Administrators do not work on the certificate of one name at the same time.
Begin(h, op) ==
    /\ pc[h] = "idle"
    /\ user # NoUser
    /\ op \in CertOp => \A g \in Handler : work[g].op \notin CertOp
    /\ pc' = [pc EXCEPT ![h] = FirstStep(op)]
    /\ work' = [work EXCEPT ![h] =
                  [NoWork EXCEPT !.op = op, !.id = user.id, !.certStatus = user.certStatus]]
    /\ UNCHANGED <<mode, user, rows, authority, ccd, prior, stray>>

StartCert(h) ==
    \/ user.certStatus # "ACTIVE" /\ Begin(h, "generate")
    \/ user.certStatus = "ACTIVE" /\ Begin(h, "revoke")
    \/ Begin(h, "regenerate")

\* One of the users selected; their status is not looked at.
StartBulk(h) == mode # "calm" /\ Begin(h, "bulk")

StartFlag(h) == user.flagged /\ (Begin(h, "resolve") \/ Begin(h, "dismiss"))

StartOther(h) == Begin(h, "clear") \/ Begin(h, "update") \/ Begin(h, "delete")

\* Names are discovered by their files, those that have a row left out.
Discover(h) ==
    /\ pc[h] = "idle"
    /\ ccd /\ user = NoUser
    /\ pc' = [pc EXCEPT ![h] = "import"]
    /\ work' = [work EXCEPT ![h].op = "import"]
    /\ UNCHANGED <<mode, user, rows, authority, ccd, prior, stray>>

Import(h) ==
    /\ pc[h] = "import"
    /\ Insert \/ (user # NoUser /\ UNCHANGED <<user, rows>>)
    /\ Finish(h)
    /\ UNCHANGED <<mode, authority, ccd, prior, stray>>

-----------------------------------------------------------------------------
(* Commands on the server. *)

RevokeInIndex == good' = good \ {issued} /\ issued' = 0

\* Mutant of PublishList: the new list is not copied to where the server reads it.
PublishNothing == UNCHANGED listed

PublishList == listed' = (1..made) \ good'

\* The second command of a revocation lists every certificate revoked so far.
Revoke ==
    /\ issued # 0
    /\ RevokeInIndex
    /\ PublishList
    /\ UNCHANGED made

AfterRevoke(op) ==
    CASE op = "revoke" -> "withdraw"
      [] op = "regenerate" -> "generate"
      [] op \in {"resolve", "delete"} -> "clean"

\* What follows a revocation that is reported as failed.
AfterFailure(h) ==
    IF work[h].op = "delete" THEN Goto(h, "inspect") /\ UNCHANGED stray ELSE Fail(h)

RevokeCert(h) ==
    /\ pc[h] = "revoke"
    /\ \/ Revoke /\ Goto(h, AfterRevoke(work[h].op)) /\ UNCHANGED stray
       \/ /\ issued = 0      \* no certificate was found: allowMissing
          /\ IF work[h].op = "regenerate" THEN Goto(h, "generate") /\ UNCHANGED stray
             ELSE AfterFailure(h)
          /\ UNCHANGED authority
    /\ UNCHANGED <<mode, user, rows, ccd, prior>>

\* It ran in part, or not at all, or wholly and the answer was lost.
RevokeCertFails(h) ==
    /\ mode = "faulty"
    /\ pc[h] = "revoke"
    /\ \/ UNCHANGED authority
       \/ issued # 0 /\ RevokeInIndex /\ UNCHANGED <<made, listed>>
       \/ Revoke
    /\ AfterFailure(h)
    /\ UNCHANGED <<mode, user, rows, ccd, prior>>

\* Mutant of Inspect: a failed revocation does not stop a deletion.
InspectNot(h) ==
    /\ pc[h] = "inspect"
    /\ Goto(h, "clean")
    /\ UNCHANGED <<mode, user, rows, authority, ccd, prior, stray>>

\* isCertRevokedOrMissing: is it safe to continue?  Whatever keeps the command
\* from showing the certificate says NOT_FOUND, as a certificate that is not
\* there does.
Inspect(h) ==
    /\ pc[h] = "inspect"
    /\ \/ issued = 0 /\ Goto(h, "clean")
       \/ issued # 0 /\ Finish(h)
       \/ /\ issued # 0 /\ mode = "faulty"
          /\ pc' = [pc EXCEPT ![h] = "clean"]
          /\ work' = [work EXCEPT ![h].cert = issued]
    /\ UNCHANGED <<mode, user, rows, authority, ccd, prior, stray>>

\* The files of the name go, then new ones are made.  Bound: MaxCert.
Make ==
    /\ made < MaxCert
    /\ made' = made + 1
    /\ good' = good \union {made + 1}
    /\ issued' = made + 1
    /\ UNCHANGED listed

GenerateCert(h) ==
    /\ pc[h] = "generate"
    /\ Make
    /\ Goto(h, "expiry")
    /\ stray' = stray \union ({issued} \ {0})
    /\ UNCHANGED <<mode, user, rows, ccd, prior>>

GenerateCertFails(h) ==
    /\ mode = "faulty"
    /\ pc[h] = "generate"
    /\ \/ UNCHANGED <<authority, stray>>
       \/ /\ issued' = 0
          /\ stray' = stray \union ({issued} \ {0})
          /\ UNCHANGED <<made, good, listed>>
       \/ Make /\ stray' = stray \union ({issued, made + 1} \ {0})
    /\ Finish(h)
    /\ UNCHANGED <<mode, user, rows, ccd, prior>>

\* A date that cannot be read is no error.
ReadExpiry(h) ==
    /\ pc[h] = "expiry"
    /\ \E cert \in {issued, 0} : work' = [work EXCEPT ![h].cert = cert]
    /\ pc' = [pc EXCEPT ![h] = "record"]
    /\ UNCHANGED <<mode, user, rows, authority, ccd, prior, stray>>

\* The file of the name goes; only a command that throws ends the handler, and
\* for a deletion that may be the one that closes the connection.
Clean(h) ==
    /\ pc[h] = "clean"
    /\ ccd' = FALSE \/ (mode = "faulty" /\ UNCHANGED ccd)
    /\ \/ Goto(h, IF work[h].op = "delete" THEN "drop" ELSE "resolve")
       \/ mode = "faulty" /\ Finish(h)
    /\ UNCHANGED <<mode, user, rows, authority, prior, stray>>

CommandThrows(h) ==
    /\ mode = "faulty"
    /\ pc[h] \in {"inspect", "expiry"}
    /\ Fail(h)
    /\ UNCHANGED <<mode, user, rows, authority, ccd, prior>>

-----------------------------------------------------------------------------
(* Statements.  An update of a row that is gone throws. *)

Write(h, label, row) ==
    /\ pc[h] = label
    /\ \/ work[h].id = user.id /\ user' = row /\ Finish(h) /\ UNCHANGED stray
       \/ work[h].id # user.id /\ Fail(h) /\ UNCHANGED user
    /\ UNCHANGED <<mode, rows, authority, ccd, prior>>

Record(h) ==
    Write(h, "record", [user EXCEPT !.certStatus = "ACTIVE", !.expires = work[h].cert])

Withdraw(h) == Write(h, "withdraw", [user EXCEPT !.certStatus = "REVOKED"])

\* The status written is the one read at the start.
Resolve(h) ==
    Write(h, "resolve",
        [user EXCEPT !.flagged = FALSE, !.enabled = FALSE,
                     !.certStatus = IF work[h].certStatus = "ACTIVE" THEN "REVOKED"
                                    ELSE work[h].certStatus])

\* The row goes, and with it what led to a certificate taken for missing.
Drop(h) ==
    /\ pc[h] = "drop"
    /\ \/ /\ work[h].id = user.id
          /\ user' = NoUser
          /\ Finish(h)
          /\ stray' = stray \union ({work[h].cert} \ {0})
       \/ work[h].id # user.id /\ Fail(h) /\ UNCHANGED user
    /\ UNCHANGED <<mode, rows, authority, ccd, prior>>

Dismiss(h) == Write(h, "dismiss", [user EXCEPT !.flagged = FALSE])

ClearFlag(h) == Write(h, "clear", [user EXCEPT !.flagged = FALSE])

Update(h) ==
    \E enabled, flagged \in BOOLEAN :
        Write(h, "update", [user EXCEPT !.enabled = enabled, !.flagged = flagged])

DatabaseError(h) ==
    /\ mode = "faulty"
    /\ pc[h] \in Statement
    /\ Fail(h)
    /\ UNCHANGED <<mode, user, rows, authority, ccd, prior>>

Next ==
    \/ CreateUser \/ PushCcd
    \/ \E h \in Handler :
         \/ StartCert(h) \/ StartBulk(h) \/ StartFlag(h) \/ StartOther(h)
         \/ Discover(h) \/ Import(h)
         \/ RevokeCert(h) \/ RevokeCertFails(h) \/ Inspect(h)
         \/ GenerateCert(h) \/ GenerateCertFails(h) \/ ReadExpiry(h)
         \/ Clean(h) \/ CommandThrows(h)
         \/ Record(h) \/ Withdraw(h) \/ Resolve(h) \/ Drop(h) \/ Dismiss(h) \/ ClearFlag(h) \/ Update(h)
         \/ DatabaseError(h)

Spec == Init /\ [][Next]_vars

-----------------------------------------------------------------------------
(* Safety. *)

\* Nobody works on the certificate.
AtRest == \A h \in Handler : work[h].op \notin CertOp

Accepted == (1..made) \ listed

\* When nothing fails and no administrator generates in bulk: the one certificate
\* the server accepts, besides those from before the portal, is the one on record.
RecordIsTrue ==
    mode = "calm" /\ AtRest =>
        Accepted \ prior = IF user.certStatus = "ACTIVE" THEN {issued} ELSE {}

\* Whatever fails: a name shown as REVOKED has no certificate that the server
\* accepts, but those no handler could have found.
RevokedIsOut ==
    AtRest /\ user.certStatus = "REVOKED" => Accepted \subseteq stray

\* Whatever fails: a row is deleted only when the authority holds no certificate
\* of its name, but those no handler could have found.  One of these is the
\* certificate whose revocation failed and which could not be shown after that:
\* the deletion takes it for missing.
DeletedIsRevoked == AtRest /\ user = NoUser => good \subseteq stray
=============================================================================
