--------------------------- MODULE AccessRequests ---------------------------
(***************************************************************************)
(* The life of an access request, from the self-service POST to the        *)
(* certificate on the VPN server.                                          *)
(*                                                                         *)
(* One Node process serves every HTTP handler.  A handler runs until its   *)
(* next await, so the steps below are the database statements and server   *)
(* commands a handler awaits, and between two of them any other handler    *)
(* may run.  What a handler read is kept in `work' and may be stale when   *)
(* it is used.                                                             *)
(*                                                                         *)
(* Handlers: review (PATCH /api/access-requests/[id]), cancel (DELETE),    *)
(* post (POST /api/access-requests, which runs the lifecycle pass of its   *)
(* own email first) and the lifecycle pass over all emails that the        *)
(* dashboard starts.                                                       *)
(***************************************************************************)
EXTENDS Integers, FiniteSets

CONSTANTS
    Request,       \* request ids, in order of creation
    Email,         \* portal users who ask for access
    Server,        \* VPN servers
    Handler,       \* HTTP handlers that may be in flight at the same time
    MaxActive,     \* open requests one email may hold (3 in the code)
    Operations,    \* which of AllOperations a run exercises
    Faults,        \* which of AllFaults the environment may inject
    ReviewersRace  \* may two reviews of one account be in flight at once?

AllOperations == {"review", "cancel", "post", "lifecycle", "admin"}
AllFaults == {"crash", "database", "transport"}

ASSUME RequestAssumption == Request \subseteq Nat \ {0} /\ IsFiniteSet(Request)
ASSUME HandlerAssumption == IsFiniteSet(Handler)
ASSUME LimitAssumption == MaxActive \in Nat \ {0}
ASSUME ChoiceAssumption == /\ Operations \subseteq AllOperations
                           /\ Faults \subseteq AllFaults
                           /\ ReviewersRace \in BOOLEAN

VARIABLES
    status,     \* AccessRequest.status; "none" before the row, "gone" after
    target,     \* the account (email, server) a request asks for
    stale,      \* requests older than the cutoff of their status
    user,       \* the VpnUser row of an account
    member,     \* accounts that hold the groups their request names
    portal,     \* emails whose AdminUser row is approved
    issued,     \* accounts with a valid certificate that easyrsa can revoke
    stray,      \* accounts with a valid certificate easyrsa has no file of
    pc,         \* where each handler is
    work,       \* what each handler has read or been asked for
    abandoned,  \* history: requests whose reviewer died after claiming them
    leaked      \* history: accounts a failed command left a certificate to

dbVars == <<status, target, stale, user, member, portal>>
pkiVars == <<issued, stray>>
history == <<abandoned, leaked>>
vars == <<dbVars, pkiVars, pc, work, history>>

Account == Email \X Server
NoAccount == <<>>
NoRequest == 0

Open == {"PENDING", "PROCESSING", "FAILED"}
Row == Open \cup {"APPROVED", "REJECTED", "EXPIRED"}
Status == Row \cup {"none", "gone"}

CertStatus == {"NONE", "ACTIVE", "REVOKED"}
VpnUser == [exists: BOOLEAN, enabled: BOOLEAN, cert: CertStatus]
NoUser == [exists |-> FALSE, enabled |-> FALSE, cert |-> "NONE"]
NewUser == [NoUser EXCEPT !.exists = TRUE]

\* A review that claimed its request and still owes it a status, and one that
\* has written APPROVED or FAILED and has only follow-up work left.
Provisioning == {"lookup", "create", "groups", "generate", "expiry", "commit",
                 "cleanup", "fail"}
FollowUp == {"audit", "disable"}
ReviewStep == {"claim", "reject"} \cup Provisioning \cup FollowUp
PassStep == {"scan", "expire"}
PC == {"idle", "delete", "check", "insert"} \cup ReviewStep \cup PassStep

\* Queries in flight: the lists of the lifecycle pass, the checks of a POST.
Scans == {"APPROVED", "PENDING", "FAILED"}
Checks == {"request", "access", "count"}

Work == [req: Request \cup {NoRequest}, acct: Account \cup {NoAccount},
         seen: VpnUser, fresh: BOOLEAN,
         todo: SUBSET (Scans \cup Checks \cup {"users"}),
         found: SUBSET (Request \X Scans), blocked: BOOLEAN]
NoWork == [req |-> NoRequest, acct |-> NoAccount, seen |-> NoUser,
           fresh |-> FALSE, todo |-> {}, found |-> {}, blocked |-> FALSE]

TypeOK ==
    /\ status \in [Request -> Status]
    /\ target \in [Request -> Account \cup {NoAccount}]
    /\ stale \in SUBSET Request
    /\ user \in [Account -> VpnUser]
    /\ member \in SUBSET Account
    /\ portal \in SUBSET Email
    /\ issued \in SUBSET Account
    /\ stray \in SUBSET Account
    /\ pc \in [Handler -> PC]
    /\ work \in [Handler -> Work]
    /\ abandoned \in SUBSET Request
    /\ leaked \in SUBSET Account

Init ==
    /\ status = [r \in Request |-> "none"]
    /\ target = [r \in Request |-> NoAccount]
    /\ stale = {}
    /\ user = [a \in Account |-> NoUser]
    /\ member = {}
    /\ portal = {}
    /\ issued = {}
    /\ stray = {}
    /\ pc = [h \in Handler |-> "idle"]
    /\ work = [h \in Handler |-> NoWork]
    /\ abandoned = {}
    /\ leaked = {}

-----------------------------------------------------------------------------
(* How a handler moves. *)

Begin(h, label, w) ==
    /\ pc[h] = "idle"
    /\ pc' = [pc EXCEPT ![h] = label]
    /\ work' = [work EXCEPT ![h] = w]

Goto(h, label, w) ==
    /\ pc' = [pc EXCEPT ![h] = label]
    /\ work' = [work EXCEPT ![h] = w]

Finish(h) == Goto(h, "idle", NoWork)

\* Mutant of Throw: a failure before there is a certificate is only answered.
ThrowUnrecorded(h) ==
    IF work[h].fresh THEN Goto(h, "cleanup", work[h]) ELSE Finish(h)

\* The catch block: revoke the certificate this handler generated, if any,
\* then record the failure.
Throw(h) == Goto(h, IF work[h].fresh THEN "cleanup" ELSE "fail", work[h])

RowExists(r) == status[r] \in Row

\* A write of the row, which also moves updatedAt.
SetStatus(r, s) ==
    /\ status' = [status EXCEPT ![r] = s]
    /\ stale' = stale \ {r}

Reviewing(h) == pc[h] \in ReviewStep
Owner(h, r) == pc[h] \in Provisioning /\ work[h].req = r
Engaged(h, r) == pc[h] \in Provisioning \cup FollowUp /\ work[h].req = r

-----------------------------------------------------------------------------
(* PATCH /api/access-requests/[id] *)

StartReview(h, r, decision) ==
    /\ "review" \in Operations
    /\ status[r] \in {"PENDING", "FAILED"}
    /\ ReviewersRace \/ \A g \in Handler : Reviewing(g) => work[g].acct # target[r]
    /\ Begin(h, decision, [NoWork EXCEPT !.req = r, !.acct = target[r]])
    /\ UNCHANGED <<dbVars, pkiVars, history>>

\* The update is by id alone: it does not look at the status again.
Reject(h) ==
    /\ pc[h] = "reject"
    /\ IF RowExists(work[h].req)
       THEN SetStatus(work[h].req, "REJECTED")
       ELSE UNCHANGED <<status, stale>>
    /\ Finish(h)
    /\ UNCHANGED <<target, user, member, portal, pkiVars, history>>

Claim(h) ==
    /\ pc[h] = "claim"
    /\ IF RowExists(work[h].req)
       THEN /\ SetStatus(work[h].req, "PROCESSING")
            /\ Goto(h, "lookup", work[h])
       ELSE Finish(h) /\ UNCHANGED <<status, stale>>
    /\ UNCHANGED <<target, user, member, portal, pkiVars, history>>

Lookup(h) ==
    /\ pc[h] = "lookup"
    /\ LET seen == user[work[h].acct]
       IN  Goto(h, IF seen.exists THEN "groups" ELSE "create",
                [work[h] EXCEPT !.seen = seen])
    /\ UNCHANGED <<dbVars, pkiVars, history>>

\* The pair (email, server) is unique: a row made since the lookup makes the
\* insert throw.
CreateUser(h) ==
    /\ pc[h] = "create"
    /\ IF user[work[h].acct].exists
       THEN Throw(h) /\ UNCHANGED user
       ELSE /\ user' = [user EXCEPT ![work[h].acct] = NewUser]
            /\ Goto(h, "groups", [work[h] EXCEPT !.seen = NewUser])
    /\ UNCHANGED <<status, target, stale, member, portal, pkiVars, history>>

\* Whether a certificate is needed is decided from the row read earlier.
AddGroups(h) ==
    /\ pc[h] = "groups"
    /\ member' = member \cup {work[h].acct}
    /\ Goto(h, IF work[h].seen.cert = "ACTIVE" THEN "commit" ELSE "generate", work[h])
    /\ UNCHANGED <<status, target, stale, user, portal, pkiVars, history>>

\* Generation first deletes the files of the previous certificate without
\* revoking it: a certificate that was valid stays valid and out of reach.
Forgotten(a) == stray \cup ({a} \cap issued)

GenerateCert(h) ==
    /\ pc[h] = "generate"
    /\ stray' = Forgotten(work[h].acct)
    /\ issued' = issued \cup {work[h].acct}
    /\ Goto(h, "expiry", work[h])
    /\ UNCHANGED <<dbVars, history>>

\* The command fails before, between or after its two parts.
GenerateCertFails(h) ==
    /\ pc[h] = "generate"
    /\ "transport" \in Faults
    /\ \/ UNCHANGED <<pkiVars, leaked>>
       \/ /\ stray' = Forgotten(work[h].acct)
          /\ issued' = issued \ {work[h].acct}
          /\ UNCHANGED leaked
       \/ /\ stray' = Forgotten(work[h].acct)
          /\ issued' = issued \cup {work[h].acct}
          /\ leaked' = leaked \cup {work[h].acct}
    /\ Throw(h)
    /\ UNCHANGED <<dbVars, abandoned>>

\* Mutant of ReadExpiry: the flag for the catch block is not set.
ReadExpiryUnflagged(h) ==
    /\ pc[h] = "expiry"
    /\ Goto(h, "commit", work[h])
    /\ UNCHANGED <<dbVars, pkiVars, history>>

ReadExpiry(h) ==
    /\ pc[h] = "expiry"
    /\ Goto(h, "commit", [work[h] EXCEPT !.fresh = TRUE])
    /\ UNCHANGED <<dbVars, pkiVars, history>>

\* The flag that makes the catch block revoke is set after this command.
ReadExpiryFails(h) ==
    /\ pc[h] = "expiry"
    /\ "transport" \in Faults
    /\ leaked' = leaked \cup {work[h].acct}
    /\ Throw(h)
    /\ UNCHANGED <<dbVars, pkiVars, abandoned>>

\* One transaction: request, VPN user and portal user together or not at all.
Commit(h) ==
    /\ pc[h] = "commit"
    /\ IF RowExists(work[h].req) /\ user[work[h].acct].exists
       THEN /\ SetStatus(work[h].req, "APPROVED")
            /\ user' = [user EXCEPT ![work[h].acct] =
                           [@ EXCEPT !.enabled = TRUE, !.cert = "ACTIVE"]]
            /\ portal' = portal \cup {work[h].acct[1]}
            /\ Goto(h, "audit", work[h])
       ELSE Throw(h) /\ UNCHANGED <<status, stale, user, portal>>
    /\ UNCHANGED <<target, member, pkiVars, history>>

WriteAudit(h) ==
    /\ pc[h] = "audit"
    /\ Finish(h)
    /\ UNCHANGED <<dbVars, pkiVars, history>>

\* Revocation needs the issued file; its own failure is swallowed.
RevokeFresh(h) ==
    /\ pc[h] = "cleanup"
    /\ issued' = issued \ {work[h].acct}
    /\ Goto(h, "fail", work[h])
    /\ UNCHANGED <<dbVars, stray, history>>

\* The revocation fails at once, or after `easyrsa revoke' and before the
\* CRL is in place.
RevokeFreshFails(h) ==
    /\ pc[h] = "cleanup"
    /\ "transport" \in Faults
    /\ \/ UNCHANGED pkiVars
       \/ /\ stray' = Forgotten(work[h].acct)
          /\ issued' = issued \ {work[h].acct}
    /\ leaked' = leaked \cup {work[h].acct}
    /\ Goto(h, "fail", work[h])
    /\ UNCHANGED <<dbVars, abandoned>>

MarkFailed(h) ==
    /\ pc[h] = "fail"
    /\ IF RowExists(work[h].req)
       THEN /\ SetStatus(work[h].req, "FAILED")
            /\ IF work[h].seen.exists /\ work[h].seen.cert # "ACTIVE"
               THEN Goto(h, "disable", work[h])
               ELSE Finish(h)
       ELSE Finish(h) /\ UNCHANGED <<status, stale>>
    /\ UNCHANGED <<target, user, member, portal, pkiVars, history>>

DisableUser(h) ==
    /\ pc[h] = "disable"
    /\ user' = [user EXCEPT ![work[h].acct].enabled = FALSE]
    /\ Finish(h)
    /\ UNCHANGED <<status, target, stale, member, portal, pkiVars, history>>

-----------------------------------------------------------------------------
(* DELETE /api/access-requests/[id]: the owner cancels. *)

StartCancel(h, r) ==
    /\ "cancel" \in Operations
    /\ status[r] = "PENDING"
    /\ Begin(h, "delete", [NoWork EXCEPT !.req = r])
    /\ UNCHANGED <<dbVars, pkiVars, history>>

Delete(h) ==
    /\ pc[h] = "delete"
    /\ IF RowExists(work[h].req)
       THEN SetStatus(work[h].req, "gone")
       ELSE UNCHANGED <<status, stale>>
    /\ Finish(h)
    /\ UNCHANGED <<target, user, member, portal, pkiVars, history>>

-----------------------------------------------------------------------------
(* The lifecycle pass: three concurrent queries, the first of which asks a *)
(* second question, then one conditional update per request found.         *)

Posting(h) == work[h].acct # NoAccount
InScope(h, r) == Posting(h) => target[r][1] = work[h].acct[1]

StartLifecycle(h) ==
    /\ "lifecycle" \in Operations
    /\ \A g \in Handler : pc[g] \in PassStep => Posting(g)
    /\ Begin(h, "scan", [NoWork EXCEPT !.todo = Scans])
    /\ UNCHANGED <<dbVars, pkiVars, history>>

AfterScan(todo) == IF todo = {} THEN "expire" ELSE "scan"

ScanRequests(h, s) ==
    /\ pc[h] = "scan"
    /\ s \in work[h].todo \cap Scans
    /\ LET hits == {r \in Request : /\ status[r] = s
                                    /\ InScope(h, r)
                                    /\ (s = "APPROVED" \/ r \in stale)}
           more == IF s = "APPROVED" /\ hits # {} THEN {"users"} ELSE {}
           todo == (work[h].todo \ {s}) \cup more
       IN  Goto(h, AfterScan(todo), [work[h] EXCEPT !.found = @ \cup (hits \X {s}),
                                                    !.todo = todo])
    /\ UNCHANGED <<dbVars, pkiVars, history>>

\* An approved request is an orphan when its account is not enabled.
ScanUsers(h) ==
    /\ pc[h] = "scan"
    /\ "users" \in work[h].todo
    /\ LET todo == work[h].todo \ {"users"}
           orphan(f) == f[2] = "APPROVED" => ~user[target[f[1]]].enabled
       IN  Goto(h, AfterScan(todo), [work[h] EXCEPT !.found = {f \in @ : orphan(f)},
                                                    !.todo = todo])
    /\ UNCHANGED <<dbVars, pkiVars, history>>

Rank(s) == CASE s = "APPROVED" -> 1 [] s = "PENDING" -> 2 [] s = "FAILED" -> 3

\* Mutant of Expire: the update is by id alone.
ExpireById(h, f) ==
    /\ pc[h] = "expire"
    /\ f \in work[h].found
    /\ \A g \in work[h].found : Rank(f[2]) <= Rank(g[2])
    /\ IF RowExists(f[1])
       THEN SetStatus(f[1], "EXPIRED")
       ELSE UNCHANGED <<status, stale>>
    /\ \/ Goto(h, "expire", [work[h] EXCEPT !.found = @ \ {f}])
       \/ "database" \in Faults /\ Finish(h)
    /\ UNCHANGED <<target, user, member, portal, pkiVars, history>>

\* The update is conditional on the status the list was taken for; when its
\* audit record cannot be written the rest of the pass is lost.
Expire(h, f) ==
    /\ pc[h] = "expire"
    /\ f \in work[h].found
    /\ \A g \in work[h].found : Rank(f[2]) <= Rank(g[2])
    /\ IF status[f[1]] = f[2]
       THEN SetStatus(f[1], "EXPIRED")
       ELSE UNCHANGED <<status, stale>>
    /\ \/ Goto(h, "expire", [work[h] EXCEPT !.found = @ \ {f}])
       \/ "database" \in Faults /\ Finish(h)
    /\ UNCHANGED <<target, user, member, portal, pkiVars, history>>

ExpireDone(h) ==
    /\ pc[h] = "expire"
    /\ work[h].found = {}
    /\ IF Posting(h)
       THEN Goto(h, "check", [work[h] EXCEPT !.todo = Checks])
       ELSE Finish(h)
    /\ UNCHANGED <<dbVars, pkiVars, history>>

-----------------------------------------------------------------------------
(* POST /api/access-requests *)

Unborn == {r \in Request : status[r] = "none"}
Posters == {h \in Handler : pc[h] \in PassStep \cup {"check", "insert"} /\ Posting(h)}

\* Bound: a run has Cardinality(Request) request ids.
StartPost(h, a) ==
    /\ "post" \in Operations
    /\ Cardinality(Posters) < Cardinality(Unborn)
    /\ Begin(h, "scan", [NoWork EXCEPT !.acct = a, !.todo = Scans])
    /\ UNCHANGED <<dbVars, pkiVars, history>>

OpenRequests(e) == {r \in Request : status[r] \in Open /\ target[r][1] = e}

\* The newest request that is neither rejected nor expired decides.
NewestIsOpen(a) ==
    LET rows == {r \in Request : target[r] = a /\ status[r] \in Open \cup {"APPROVED"}}
    IN  \E r \in rows : status[r] \in Open /\ \A s \in rows : s <= r

Refuses(h, q) ==
    LET a == work[h].acct
    IN  \/ q = "request" /\ NewestIsOpen(a)
        \/ q = "access" /\ user[a].enabled
        \/ q = "count" /\ Cardinality(OpenRequests(a[1])) >= MaxActive

\* Three queries sent together; each has a snapshot of its own.
Check(h, q) ==
    /\ pc[h] = "check"
    /\ q \in work[h].todo
    /\ LET todo == work[h].todo \ {q}
           blocked == work[h].blocked \/ Refuses(h, q)
       IN  CASE todo # {} -> Goto(h, "check", [work[h] EXCEPT !.todo = todo,
                                                              !.blocked = blocked])
             [] todo = {} /\ blocked -> Finish(h)
             [] todo = {} /\ ~blocked -> Goto(h, "insert", [work[h] EXCEPT !.todo = {}])
    /\ UNCHANGED <<dbVars, pkiVars, history>>

Insert(h) ==
    /\ pc[h] = "insert"
    /\ \E r \in Unborn :
        /\ \A s \in Unborn : r <= s
        /\ status' = [status EXCEPT ![r] = "PENDING"]
        /\ target' = [target EXCEPT ![r] = work[h].acct]
    /\ Finish(h)
    /\ UNCHANGED <<stale, user, member, portal, pkiVars, history>>

-----------------------------------------------------------------------------
(* The rest of the system, as far as it touches this state. *)

\* Fourteen days since creation, or seven since the last write of a failed
\* request.  A reviewer is never in flight for seven days.
Age(r) ==
    /\ \/ status[r] = "PENDING"
       \/ status[r] = "FAILED" /\ \A h \in Handler : ~Engaged(h, r)
    /\ r \notin stale
    /\ stale' = stale \cup {r}
    /\ UNCHANGED <<status, target, user, member, portal, pkiVars, pc, work, history>>

\* PUT /api/users/[id] switches isEnabled.
ToggleUser(a) ==
    /\ "admin" \in Operations
    /\ user[a].exists
    /\ user' = [user EXCEPT ![a] = [@ EXCEPT !.enabled = ~user[a].enabled]]
    /\ UNCHANGED <<status, target, stale, member, portal, pkiVars, pc, work, history>>

\* POST /api/users/[id]/cert with action revoke, when it succeeds.
RevokeUser(a) ==
    /\ "admin" \in Operations
    /\ user[a].cert = "ACTIVE"
    /\ a \in issued
    /\ issued' = issued \ {a}
    /\ user' = [user EXCEPT ![a] = [@ EXCEPT !.cert = "REVOKED"]]
    /\ UNCHANGED <<status, target, stale, member, portal, stray, pc, work, history>>

\* A database call throws.  Inside the try block that is a provisioning
\* failure; anywhere else the handler answers 500 and nothing runs after it.
DatabaseError(h) ==
    /\ "database" \in Faults
    /\ \/ /\ pc[h] \in {"create", "groups", "commit", "audit"}
          /\ Throw(h)
          /\ UNCHANGED abandoned
       \/ /\ pc[h] \in {"lookup", "fail"}
          /\ abandoned' = abandoned \cup {work[h].req}
          /\ Finish(h)
       \/ /\ pc[h] \in {"reject", "claim", "disable", "delete", "scan", "expire",
                        "check", "insert"}
          /\ Finish(h)
          /\ UNCHANGED abandoned
    /\ UNCHANGED <<dbVars, pkiVars, leaked>>

\* The process stops and starts again: every handler in flight is lost.
Crash ==
    /\ "crash" \in Faults
    /\ \E h \in Handler : pc[h] # "idle"
    /\ abandoned' = abandoned \cup {r \in Request : \E h \in Handler : Owner(h, r)}
    /\ leaked' = leaked \cup {a \in Account : \E h \in Handler :
                    pc[h] \in {"expiry", "commit", "cleanup"} /\ work[h].acct = a}
    /\ pc' = [h \in Handler |-> "idle"]
    /\ work' = [h \in Handler |-> NoWork]
    /\ UNCHANGED <<dbVars, pkiVars>>

-----------------------------------------------------------------------------

ReviewNext(h) ==
    \/ Reject(h) \/ Claim(h) \/ Lookup(h) \/ CreateUser(h) \/ AddGroups(h)
    \/ GenerateCert(h) \/ GenerateCertFails(h) \/ ReadExpiry(h) \/ ReadExpiryFails(h)
    \/ Commit(h) \/ WriteAudit(h) \/ RevokeFresh(h) \/ RevokeFreshFails(h)
    \/ MarkFailed(h) \/ DisableUser(h)

PassNext(h) ==
    \/ \E s \in Scans : ScanRequests(h, s)
    \/ ScanUsers(h)
    \/ \E f \in work[h].found : Expire(h, f)
    \/ ExpireDone(h)

PostNext(h) ==
    \/ \E q \in Checks : Check(h, q)
    \/ Insert(h)

\* What a handler in flight does next, whatever the outcome.
Continue(h) ==
    ReviewNext(h) \/ PassNext(h) \/ PostNext(h) \/ Delete(h) \/ DatabaseError(h)

Start(h) ==
    \/ \E r \in Request : \E d \in {"claim", "reject"} : StartReview(h, r, d)
    \/ \E r \in Request : StartCancel(h, r)
    \/ \E a \in Account : StartPost(h, a)
    \/ StartLifecycle(h)

Next ==
    \/ \E h \in Handler : Start(h) \/ Continue(h)
    \/ \E r \in Request : Age(r)
    \/ \E a \in Account : ToggleUser(a) \/ RevokeUser(a)
    \/ Crash

Spec == Init /\ [][Next]_vars

\* A handler that was started runs on: every command has a timeout and the
\* event loop serves every settled promise.  Nobody has to start one.
FairSpec == Spec /\ \A h \in Handler : WF_vars(Continue(h))

-----------------------------------------------------------------------------
(* Safety. *)

\* A request in PROCESSING is being worked on: some handler still owes it an
\* APPROVED or FAILED, unless the handler that claimed it died.  PATCH answers
\* 409 to a PROCESSING request and the lifecycle pass skips it, so nobody else
\* would ever move it.
ProcessingOwned ==
    \A r \in Request : status[r] = "PROCESSING" =>
        r \in abandoned \/ \E h \in Handler : Owner(h, r)

\* While reviews of an account do not overlap, a pending request is not being
\* provisioned and a rejected one is in the hands of no reviewer at all.
RejectedIsQuiet ==
    ~ReviewersRace =>
        \A r \in Request, h \in Handler :
            /\ status[r] = "PENDING" => ~Engaged(h, r)
            /\ status[r] = "REJECTED" => ~(Reviewing(h) /\ work[h].req = r)

\* ... and a rejection is final: only its owner's cancellation, read before
\* the review, still removes the row.
RejectionIsFinal ==
    [][~ReviewersRace =>
        \A r \in Request : status[r] = "REJECTED" => status'[r] \in {"REJECTED", "gone"}]_vars

\* The handler has a certificate in hand that the database does not know yet.
Holds(h, a) ==
    /\ work[h].acct = a
    /\ pc[h] = "expiry" \/ (pc[h] \in {"commit", "cleanup"} /\ work[h].fresh)

\* While reviews of an account do not overlap, a certificate the VPN server
\* accepts is one the database calls ACTIVE, or one a handler is about to
\* record or revoke, unless a failed command or a crash left it behind; and
\* only then is there a valid certificate that can no longer be revoked.
LiveCertAccounted ==
    ~ReviewersRace =>
        \A a \in Account \ leaked :
            /\ a \notin stray
            /\ a \in issued => user[a].cert = "ACTIVE" \/ \E h \in Handler : Holds(h, a)

\* The last word of the approval test: a request is APPROVED only when the
\* certificate of its account is in place.
ApprovedWithLiveCert ==
    [][\A r \in Request : status[r] # "APPROVED" /\ status'[r] = "APPROVED"
            => target[r] \in issued']_vars

-----------------------------------------------------------------------------
(* Liveness. *)

\* A claimed request gets an outcome, unless its reviewer died.
ClaimedSettles ==
    \A r \in Request :
        status[r] = "PROCESSING" ~> status[r] # "PROCESSING" \/ r \in abandoned

-----------------------------------------------------------------------------
(* What the handlers promise, while reviews of an account do not overlap. *)

Lifecycle == INSTANCE RequestLifecycle
             WITH access <- {a \in Account : user[a].cert = "ACTIVE"}
LifecycleSpec == Lifecycle!Spec
=============================================================================
