------------------------------- MODULE CcdSync -------------------------------
(***************************************************************************)
(* Client configuration files (CCD) of one VPN server against the access   *)
(* the database grants: group memberships, temporary grants that expire,   *)
(* and the CIDR blocks of the groups.                                      *)
(*                                                                         *)
(* A file is a function of the database at the moment its content was      *)
(* generated.  Most changes of the database only mark a user PENDING, a    *)
(* push writes the file later; granting and revoking temporary access and  *)
(* the expiry pass write it at once (syncUserCcdAfterAccessChange), and    *)
(* take their change back when that fails.                                 *)
(*                                                                         *)
(* One action is one database statement or one server command a handler    *)
(* awaits.  Almost every handler begins with the expiry pass               *)
(* (reconcileExpiredTemporaryAccess) over its own user or over all users.  *)
(***************************************************************************)
EXTENDS Integers, FiniteSets

CONSTANTS
    User, Group,
    Grant,         \* ids of temporary grants
    Handler,       \* HTTP handlers that may be in flight at the same time
    MaxVersion,    \* bound: how often the CIDR blocks of a group change
    Management,    \* may the application run commands on the server?
    Overlap,       \* may two handlers concern the same user at once?
    Scenes,        \* what a run looks at: the groups, operations and faults of each
    NoUser, NoGroup, NoGrant

AllOperations == {"pass", "grant", "revoke", "pushUser", "pushAll", "pushGroup",
                  "bulk", "drift", "routes", "member", "toggle", "deleteGroup"}
\* A write has no effect and the transport rejects ("reject") or the command
\* ends with an exit code other than 0 ("exit"); or it takes effect and is
\* reported as failed in one of these ways all the same ("late").
AllFaults == {"crash", "database", "reject", "exit", "late"}

ASSUME FiniteAssumption == IsFiniteSet(Handler) /\ IsFiniteSet(Grant)
ASSUME VersionAssumption == MaxVersion \in Nat
ASSUME NullAssumption == NoUser \notin User /\ NoGroup \notin Group /\ NoGrant \notin Grant
ASSUME ChoiceAssumption == /\ Management \in BOOLEAN
                           /\ Overlap \in BOOLEAN
ASSUME SceneAssumption ==
    Scenes \subseteq [groups: SUBSET Group, operations: SUBSET AllOperations,
                      faults: SUBSET AllFaults]

VARIABLES
    scene,      \* the scene a behaviour belongs to
    group,      \* the groups that exist
    routes,     \* the version of the CIDR blocks of a group
    member,     \* permanent memberships
    enabled,    \* users with isEnabled
    ccd,        \* VpnUser.ccdSyncStatus
    grant,      \* the TemporaryAccess rows
    expired,    \* grants whose expiresAt has passed
    file,       \* the routes in the file of a user on the server
    pc,         \* where each handler is
    work        \* what each handler has read or been asked for

access == <<group, routes, member, enabled>>
vars == <<scene, access, ccd, grant, expired, file, pc, work>>

Route == Group \X (0..MaxVersion)
SyncStatus == {"PENDING", "SUCCESS", "FAILED"}
TemporaryAccess == [state: {"none", "active", "inactive", "gone"},
                    user: User \cup {NoUser}, group: Group \cup {NoGroup}]
NoRow == [state |-> "none", user |-> NoUser, group |-> NoGroup]

\* Handlers with a loop of their own that does not look at exit codes.  The
\* others write files with syncUserCcdAfterAccessChange.
Blind == {"pushUser", "pushAll", "bulk", "drift"}

SyncStep == {"read", "mark", "generate", "write", "failed", "success", "audit"}
PassStep == {"list", "deactivate", "restore"}
MainStep == {"account", "check", "enable", "create", "undo", "snapshot", "revoke",
             "users", "next"}
PC == {"idle"} \cup SyncStep \cup PassStep \cup MainStep

Work == [op: AllOperations \cup {"none"}, user: User \cup {NoUser},
         group: Group \cup {NoGroup}, grant: Grant \cup {NoGrant},
         inPass: BOOLEAN,                \* in the expiry pass of the handler
         found: SUBSET Grant,            \* expired grants still to be handled
         due: Grant \cup {NoGrant},      \* the expired grant being handled
         users: SUBSET User,             \* users still to be handled
         who: User \cup {NoUser},        \* whose file is written
         on: BOOLEAN,                    \* isEnabled of the user when read
         was: BOOLEAN,                   \* isActive of `grant' when read
         content: SUBSET Route]
NoWork == [op |-> "none", user |-> NoUser, group |-> NoGroup, grant |-> NoGrant,
           inPass |-> FALSE, found |-> {}, due |-> NoGrant, users |-> {},
           who |-> NoUser, on |-> FALSE, was |-> FALSE, content |-> {}]

TypeOK ==
    /\ scene \in Scenes
    /\ group \in SUBSET Group
    /\ routes \in [Group -> 0..MaxVersion]
    /\ member \in SUBSET (User \X Group)
    /\ enabled \in SUBSET User
    /\ ccd \in [User -> SyncStatus]
    /\ grant \in [Grant -> TemporaryAccess]
    /\ expired \in SUBSET Grant
    /\ file \in [User -> SUBSET Route]
    /\ pc \in [Handler -> PC]
    /\ work \in [Handler -> Work]

\* Users as they are created: enabled, PENDING, no file; groups with CIDR
\* blocks and any memberships.
Init ==
    /\ scene \in Scenes
    /\ group = scene.groups
    /\ routes = [g \in Group |-> 0]
    /\ member \in SUBSET (User \X scene.groups)
    /\ enabled = User
    /\ ccd = [u \in User |-> "PENDING"]
    /\ grant = [d \in Grant |-> NoRow]
    /\ expired = {}
    /\ file = [u \in User |-> {}]
    /\ pc = [h \in Handler |-> "idle"]
    /\ work = [h \in Handler |-> NoWork]

-----------------------------------------------------------------------------
(* What the database grants. *)

Active(d) == grant[d].state = "active"
Row(d) == grant[d].state \in {"active", "inactive"}
Valid(d) == Active(d) /\ d \notin expired

\* The groups whose routes generateCcdForUser puts into the file of a user.
GroupsOf(u) == {g \in group : \/ <<u, g>> \in member
                              \/ \E d \in Grant : Valid(d) /\ grant[d].user = u
                                                           /\ grant[d].group = g}
Routes(u) == {<<g, routes[g]>> : g \in GroupsOf(u)}

\* Mutant of Affected: users who hold the group through a grant are forgotten.
AffectedMembers(g) == {u \in User : <<u, g>> \in member}

Affected(g) == {u \in User : g \in GroupsOf(u)}

-----------------------------------------------------------------------------
(* How a handler moves. *)

Goto(h, label, w) ==
    /\ pc' = [pc EXCEPT ![h] = label]
    /\ work' = [work EXCEPT ![h] = w]

Finish(h) == Goto(h, "idle", NoWork)

\* The first step after the expiry pass.
AfterPass(op) == CASE op = "grant" -> "account"
                   [] op = "revoke" -> "snapshot"
                   [] op = "pushUser" -> "generate"
                   [] op \in {"pushAll", "pushGroup", "drift"} -> "users"

NextGrant(h, w) ==
    CASE w.found # {} -> Goto(h, "deactivate", [w EXCEPT !.due = NoGrant, !.on = FALSE])
      [] w.found = {} /\ w.op = "pass" -> Finish(h)
      [] w.found = {} /\ w.op # "pass" ->
            Goto(h, AfterPass(w.op), [w EXCEPT !.inPass = FALSE, !.due = NoGrant,
                                               !.who = w.user, !.on = FALSE])

\* The next user of a loop.
NextUser(h, w) ==
    IF w.users = {} THEN Finish(h)
    ELSE Goto(h, "next", [w EXCEPT !.who = NoUser, !.on = FALSE])

\* The file of a user is written, or need not be.
Done(h) ==
    IF work[h].inPass \/ work[h].op = "pushUser"
    THEN Goto(h, "audit", [work[h] EXCEPT !.on = FALSE])
    ELSE NextUser(h, work[h])

\* The catch block around the current step, outside the expiry pass.
Catch(h, w) ==
    CASE w.op = "grant" -> Goto(h, "undo", w)
      [] w.op = "revoke" -> Goto(h, "restore", w)
      [] w.op = "pushGroup" -> NextUser(h, w)
      [] w.op \in Blind \ {"drift"} -> Goto(h, "failed", w)
      [] OTHER -> Finish(h)

\* Mutant of Throw: the pass does not take the expiry of a grant back.
ThrowKeepingExpiry(h) ==
    LET w == [work[h] EXCEPT !.content = {}]
    IN  IF w.inPass THEN NextGrant(h, w) ELSE Catch(h, w)

Throw(h) ==
    LET w == [work[h] EXCEPT !.content = {}]
    IN  IF w.inPass THEN Goto(h, "restore", w) ELSE Catch(h, w)

\* The users a handler reads or writes.
Scope(w) == IF w.user # NoUser THEN {w.user} ELSE User
Busy(u) == \E h \in Handler : pc[h] # "idle" /\ u \in Scope(work[h])

Begin(h, label, w) ==
    /\ pc[h] = "idle"
    /\ w.op \in scene.operations
    /\ Overlap \/ \A u \in Scope(w) : ~Busy(u)
    /\ Goto(h, label, w)

-----------------------------------------------------------------------------
(* The handlers start, most of them with an expiry pass. *)

Fresh(op) == [NoWork EXCEPT !.op = op, !.inPass = TRUE]

\* A pass of its own: the dashboard, the drift report, the list of grants.
StartPass(h) ==
    /\ Begin(h, "list", Fresh("pass"))
    /\ UNCHANGED <<scene, access, ccd, grant, expired, file>>

\* Bound: a run has Cardinality(Grant) ids.
Unborn == {d \in Grant : grant[d].state = "none"}

StartGrant(h, u, g) ==
    /\ Cardinality({i \in Handler : work[i].op = "grant"}) < Cardinality(Unborn)
    /\ Begin(h, "list", [Fresh("grant") EXCEPT !.user = u, !.group = g])
    /\ UNCHANGED <<scene, access, ccd, grant, expired, file>>

StartRevoke(h, d) ==
    /\ Row(d)
    /\ Begin(h, "list", [Fresh("revoke") EXCEPT !.user = grant[d].user, !.grant = d])
    /\ UNCHANGED <<scene, access, ccd, grant, expired, file>>

StartPushUser(h, u) ==
    /\ Management
    /\ Begin(h, "list", [Fresh("pushUser") EXCEPT !.user = u])
    /\ UNCHANGED <<scene, access, ccd, grant, expired, file>>

StartPushAll(h, op) ==
    /\ Management
    /\ Begin(h, "list", Fresh(op))
    /\ UNCHANGED <<scene, access, ccd, grant, expired, file>>

StartPushGroup(h, g) ==
    /\ Management
    /\ g \in group
    /\ Begin(h, "list", [Fresh("pushGroup") EXCEPT !.group = g])
    /\ UNCHANGED <<scene, access, ccd, grant, expired, file>>

StartBulk(h, us) ==
    /\ Management
    /\ us # {}
    /\ Begin(h, "next", [NoWork EXCEPT !.op = "bulk", !.users = us])
    /\ UNCHANGED <<scene, access, ccd, grant, expired, file>>

\* The CIDR blocks of a group are replaced, added to or removed from, in one
\* statement or transaction.
ChangeRoutes(h, g) ==
    /\ g \in group
    /\ routes[g] < MaxVersion
    /\ Begin(h, "users", [NoWork EXCEPT !.op = "routes", !.group = g])
    /\ routes' = [routes EXCEPT ![g] = @ + 1]
    /\ UNCHANGED <<scene, group, member, enabled, ccd, grant, expired, file>>

-----------------------------------------------------------------------------
(* reconcileExpiredTemporaryAccess *)

ListExpired(h) ==
    /\ pc[h] = "list"
    /\ LET due == {d \in expired : /\ Active(d)
                                   /\ grant[d].user \in Scope(work[h])}
       IN  NextGrant(h, [work[h] EXCEPT !.found = due])
    /\ UNCHANGED <<scene, access, ccd, grant, expired, file>>

SetState(d, s) == grant' = [grant EXCEPT ![d].state = s]

\* By id: the grant may have been handled by another pass since.  The code
\* takes them in order of expiry, the model in any order.
Deactivate(h, d) ==
    /\ pc[h] = "deactivate"
    /\ d \in work[h].found
    /\ IF Row(d)
       THEN /\ SetState(d, "inactive")
            /\ Goto(h, "read", [work[h] EXCEPT !.found = @ \ {d}, !.due = d,
                                               !.who = grant[d].user])
       ELSE Finish(h) /\ UNCHANGED grant
    /\ UNCHANGED <<scene, access, ccd, expired, file>>

\* Mutant of Restore: a failed revocation makes the grant active, whatever it
\* was before.
RestoreActive(h) ==
    /\ pc[h] = "restore"
    /\ LET d == IF work[h].inPass THEN work[h].due ELSE work[h].grant
       IN  IF Row(d)
           THEN /\ SetState(d, "active")
                /\ IF work[h].inPass THEN NextGrant(h, work[h]) ELSE Finish(h)
           ELSE Finish(h) /\ UNCHANGED grant
    /\ UNCHANGED <<scene, access, ccd, expired, file>>

\* The pass makes its grant active again, to try again another time; a
\* revocation writes back what it read.
Restore(h) ==
    /\ pc[h] = "restore"
    /\ LET d == IF work[h].inPass THEN work[h].due ELSE work[h].grant
       IN  IF Row(d)
           THEN /\ SetState(d, IF work[h].inPass \/ work[h].was THEN "active" ELSE "inactive")
                /\ IF work[h].inPass THEN NextGrant(h, work[h]) ELSE Finish(h)
           ELSE Finish(h) /\ UNCHANGED grant
    /\ UNCHANGED <<scene, access, ccd, expired, file>>

\* After the pass an audit record per grant, after a push one for the user.
WriteAudit(h) ==
    /\ pc[h] = "audit"
    /\ IF work[h].inPass THEN NextGrant(h, work[h]) ELSE Finish(h)
    /\ UNCHANGED <<scene, access, ccd, grant, expired, file>>

-----------------------------------------------------------------------------
(* syncUserCcdAfterAccessChange, and the loops of the pushes *)

\* The users of a loop: those enabled for a push to all, those the group
\* concerns for a push or a change of the group.
ListUsers(h) ==
    /\ pc[h] = "users"
    /\ NextUser(h, [work[h] EXCEPT !.users =
           IF work[h].op \in {"pushAll", "drift"} THEN enabled
                                                  ELSE Affected(work[h].group)])
    /\ UNCHANGED <<scene, access, ccd, grant, expired, file>>

TakeUser(h, u) ==
    /\ pc[h] = "next"
    /\ work[h].op # "routes"
    /\ u \in work[h].users
    /\ Goto(h, IF work[h].op = "pushGroup" THEN "read" ELSE "generate",
            [work[h] EXCEPT !.users = @ \ {u}, !.who = u])
    /\ UNCHANGED <<scene, access, ccd, grant, expired, file>>

SetSync(u, s) == ccd' = [ccd EXCEPT ![u] = s]

\* markUsersAffectedByGroupChangePending
MarkAffected(h, u) ==
    /\ pc[h] = "next"
    /\ work[h].op = "routes"
    /\ u \in work[h].users
    /\ SetSync(u, "PENDING")
    /\ NextUser(h, [work[h] EXCEPT !.users = @ \ {u}])
    /\ UNCHANGED <<scene, access, grant, expired, file>>

ReadUser(h) ==
    /\ pc[h] = "read"
    /\ Goto(h, "mark", [work[h] EXCEPT !.on = work[h].who \in enabled])
    /\ UNCHANGED <<scene, access, ccd, grant, expired, file>>

\* A disabled user stays PENDING, and that is not a failure.
MarkPending(h) ==
    /\ pc[h] = "mark"
    /\ SetSync(work[h].who, "PENDING")
    /\ CASE ~Management -> Throw(h)
         [] Management /\ ~work[h].on -> Done(h)
         [] Management /\ work[h].on -> Goto(h, "generate", [work[h] EXCEPT !.on = FALSE])
    /\ UNCHANGED <<scene, access, grant, expired, file>>

Generate(h) ==
    /\ pc[h] = "generate"
    /\ Goto(h, "write", [work[h] EXCEPT !.content = Routes(work[h].who)])
    /\ UNCHANGED <<scene, access, ccd, grant, expired, file>>

Put(h) == file' = [file EXCEPT ![work[h].who] = work[h].content]
Written(h) == [work[h] EXCEPT !.content = {}]
IsBlind(h) == ~work[h].inPass /\ work[h].op \in Blind

\* The write, and the command that makes the client reconnect.
Write(h) ==
    /\ pc[h] = "write"
    /\ Put(h)
    /\ Goto(h, "success", Written(h))
    /\ UNCHANGED <<scene, access, ccd, grant, expired>>

\* An exit code other than 0, with or without the content in place.
WriteFails(h) ==
    /\ pc[h] = "write"
    /\ \/ "exit" \in scene.faults /\ UNCHANGED file
       \/ "late" \in scene.faults /\ Put(h)
    /\ Goto(h, IF IsBlind(h) THEN "success" ELSE "failed", Written(h))
    /\ UNCHANGED <<scene, access, ccd, grant, expired>>

\* The transport rejects, before the write took effect or after.
WriteThrows(h) ==
    /\ pc[h] = "write"
    /\ \/ "reject" \in scene.faults /\ UNCHANGED file
       \/ "late" \in scene.faults /\ Put(h)
    /\ Throw(h)
    /\ UNCHANGED <<scene, access, ccd, grant, expired>>

MarkFailed(h) ==
    /\ pc[h] = "failed"
    /\ SetSync(work[h].who, "FAILED")
    /\ IF IsBlind(h) THEN NextUser(h, work[h]) ELSE Throw(h)
    /\ UNCHANGED <<scene, access, grant, expired, file>>

MarkSuccess(h) ==
    /\ pc[h] = "success"
    /\ SetSync(work[h].who, "SUCCESS")
    /\ Done(h)
    /\ UNCHANGED <<scene, access, grant, expired, file>>

-----------------------------------------------------------------------------
(* POST /api/users/[id]/temporary-access *)

\* The user with its memberships, and the group, which may be gone.
ReadAccount(h) ==
    /\ pc[h] = "account"
    /\ LET w == work[h]
       IN  IF w.group \notin group \/ <<w.user, w.group>> \in member
           THEN Finish(h)
           ELSE Goto(h, "check", [w EXCEPT !.on = w.user \in enabled])
    /\ UNCHANGED <<scene, access, ccd, grant, expired, file>>

Holds(d, u, g) == Valid(d) /\ grant[d].user = u /\ grant[d].group = g

\* Mutant of CheckGrant: a grant is looked for only if the user is disabled.
CheckGrantOff(h) ==
    /\ pc[h] = "check"
    /\ IF ~work[h].on /\ \E d \in Grant : Holds(d, work[h].user, work[h].group)
       THEN Finish(h)
       ELSE Goto(h, IF work[h].on THEN "create" ELSE "enable",
                 [work[h] EXCEPT !.on = FALSE])
    /\ UNCHANGED <<scene, access, ccd, grant, expired, file>>

CheckGrant(h) ==
    /\ pc[h] = "check"
    /\ IF \E d \in Grant : Holds(d, work[h].user, work[h].group)
       THEN Finish(h)
       ELSE Goto(h, IF work[h].on THEN "create" ELSE "enable",
                 [work[h] EXCEPT !.on = FALSE])
    /\ UNCHANGED <<scene, access, ccd, grant, expired, file>>

EnableUser(h) ==
    /\ pc[h] = "enable"
    /\ enabled' = enabled \cup {work[h].user}
    /\ Goto(h, "create", work[h])
    /\ UNCHANGED <<scene, group, routes, member, ccd, grant, expired, file>>

\* The foreign key refuses a group deleted since it was read.
CreateGrant(h) ==
    /\ pc[h] = "create"
    /\ IF work[h].group \in group
       THEN \E d \in Unborn :
                /\ grant' = [grant EXCEPT ![d] = [state |-> "active", user |-> work[h].user,
                                                  group |-> work[h].group]]
                /\ Goto(h, "read", [work[h] EXCEPT !.grant = d])
       ELSE Finish(h) /\ UNCHANGED grant
    /\ UNCHANGED <<scene, access, ccd, expired, file>>

\* Mutant of UndoGrant: the row is kept, under a state it does not have.
UndoGrantSoftly(h) ==
    /\ pc[h] = "undo"
    /\ IF Row(work[h].grant) THEN SetState(work[h].grant, "undone") ELSE UNCHANGED grant
    /\ Finish(h)
    /\ UNCHANGED <<scene, access, ccd, expired, file>>

\* A grant that could not be applied is deleted again.
UndoGrant(h) ==
    /\ pc[h] = "undo"
    /\ IF Row(work[h].grant) THEN SetState(work[h].grant, "gone") ELSE UNCHANGED grant
    /\ Finish(h)
    /\ UNCHANGED <<scene, access, ccd, expired, file>>

-----------------------------------------------------------------------------
(* DELETE /api/users/[id]/temporary-access/[grantId] *)

ReadGrant(h) ==
    /\ pc[h] = "snapshot"
    /\ IF Row(work[h].grant)
       THEN Goto(h, "revoke", [work[h] EXCEPT !.was = Active(work[h].grant)])
       ELSE Finish(h)
    /\ UNCHANGED <<scene, access, ccd, grant, expired, file>>

Revoke(h) ==
    /\ pc[h] = "revoke"
    /\ IF Row(work[h].grant)
       THEN SetState(work[h].grant, "inactive") /\ Goto(h, "read", work[h])
       ELSE Finish(h) /\ UNCHANGED grant
    /\ UNCHANGED <<scene, access, ccd, expired, file>>

-----------------------------------------------------------------------------
(* The rest of the system: handlers of one statement, time and faults. *)

\* Added to or removed from a group, by hand, by an approval or by the Google
\* synchronisation: none of them marks the user.
ChangeMember(u, g) ==
    /\ "member" \in scene.operations
    /\ g \in group
    /\ Overlap \/ ~Busy(u)
    /\ member' = IF <<u, g>> \in member THEN member \ {<<u, g>>} ELSE member \cup {<<u, g>>}
    /\ UNCHANGED <<scene, group, routes, enabled, ccd, grant, expired, file, pc, work>>

ToggleUser(u) ==
    /\ "toggle" \in scene.operations
    /\ Overlap \/ ~Busy(u)
    /\ enabled' = IF u \in enabled THEN enabled \ {u} ELSE enabled \cup {u}
    /\ UNCHANGED <<scene, group, routes, member, ccd, grant, expired, file, pc, work>>

\* The schema deletes memberships and grants with the group.
DeleteGroup(g) ==
    /\ "deleteGroup" \in scene.operations
    /\ g \in group
    /\ Overlap \/ \A u \in User : ~Busy(u)
    /\ group' = group \ {g}
    /\ member' = {m \in member : m[2] # g}
    /\ grant' = [d \in Grant |-> IF grant[d].group = g
                                 THEN [grant[d] EXCEPT !.state = "gone"] ELSE grant[d]]
    /\ UNCHANGED <<scene, routes, enabled, ccd, expired, file, pc, work>>

\* The expiry date of a grant passes.
Expire(d) ==
    /\ Row(d)
    /\ d \notin expired
    /\ expired' = expired \cup {d}
    /\ UNCHANGED <<scene, access, ccd, grant, file, pc, work>>

\* A database call throws: in a try block that is a failure of the step,
\* anywhere else the handler answers 500 and nothing runs after it.
InTry(h) ==
    \/ pc[h] \in {"read", "mark"}
    \/ pc[h] = "failed" /\ ~IsBlind(h)
    \/ pc[h] \in {"generate", "success", "audit"}

\* A push to one user reads the user before its try block; a push to selected
\* users goes on with the next one when FAILED cannot be recorded.
DatabaseError(h) ==
    /\ "database" \in scene.faults
    /\ pc[h] \notin {"idle", "write"}
    /\ pc[h] = "next" => work[h].op = "routes"
    /\ \/ InTry(h) /\ Throw(h)
       \/ ~InTry(h) /\ work[h].op = "bulk" /\ NextUser(h, work[h])
       \/ ~InTry(h) /\ work[h].op # "bulk" /\ Finish(h)
       \/ pc[h] = "generate" /\ work[h].op = "pushUser" /\ ~work[h].inPass /\ Finish(h)
    /\ UNCHANGED <<scene, access, ccd, grant, expired, file>>

Crash ==
    /\ "crash" \in scene.faults
    /\ \E h \in Handler : pc[h] # "idle"
    /\ pc' = [h \in Handler |-> "idle"]
    /\ work' = [h \in Handler |-> NoWork]
    /\ UNCHANGED <<scene, access, ccd, grant, expired, file>>

-----------------------------------------------------------------------------

PassNext(h) ==
    \/ ListExpired(h)
    \/ \E d \in work[h].found : Deactivate(h, d)
    \/ Restore(h)
    \/ WriteAudit(h)

SyncNext(h) ==
    \/ ReadUser(h) \/ MarkPending(h) \/ Generate(h)
    \/ Write(h) \/ WriteFails(h) \/ WriteThrows(h)
    \/ MarkFailed(h) \/ MarkSuccess(h)

LoopNext(h) ==
    \/ ListUsers(h)
    \/ \E u \in work[h].users : TakeUser(h, u) \/ MarkAffected(h, u)

GrantNext(h) ==
    \/ ReadAccount(h) \/ CheckGrant(h) \/ EnableUser(h) \/ CreateGrant(h) \/ UndoGrant(h)
    \/ ReadGrant(h) \/ Revoke(h)

\* What a handler in flight does next, whatever the outcome.
Continue(h) == PassNext(h) \/ SyncNext(h) \/ LoopNext(h) \/ GrantNext(h) \/ DatabaseError(h)

Start(h) ==
    \/ StartPass(h)
    \/ \E u \in User, g \in Group : StartGrant(h, u, g)
    \/ \E d \in Grant : StartRevoke(h, d)
    \/ \E u \in User : StartPushUser(h, u)
    \/ \E op \in {"pushAll", "drift"} : StartPushAll(h, op)
    \/ \E g \in Group : StartPushGroup(h, g) \/ ChangeRoutes(h, g)
    \/ \E us \in SUBSET User : StartBulk(h, us)

Next ==
    \/ \E h \in Handler : Start(h) \/ Continue(h)
    \/ \E u \in User, g \in Group : ChangeMember(u, g)
    \/ \E u \in User : ToggleUser(u)
    \/ \E g \in Group : DeleteGroup(g)
    \/ \E d \in Grant : Expire(d)
    \/ Crash

Spec == Init /\ [][Next]_vars

\* A handler in flight runs on.  The dashboards keep asking for the pass, and
\* a server that can be reached at all sometimes lets a write through.
FairSpec ==
    /\ Spec
    /\ \A h \in Handler : WF_vars(Continue(h)) /\ SF_vars(StartPass(h))
    /\ \A h \in Handler, u \in User : SF_vars(work[h].who = u /\ Write(h))

-----------------------------------------------------------------------------
(* Safety. *)

Groups(routeSet) == {r[1] : r \in routeSet}

\* The groups a user holds on record, expired grants that no pass has ended
\* included.
Held(u) == {g \in group : <<u, g>> \in member
                          \/ \E d \in Grant : Active(d) /\ grant[d].user = u
                                                        /\ grant[d].group = g}

\* While handlers of one user do not overlap, the sync status means what it
\* says: when it is SUCCESS and no handler is at work on the user, the file has
\* the current routes of every group the database grants, and those of no
\* group it does not.
FileCurrent ==
    ~Overlap =>
        \A u \in User :
            ccd[u] = "SUCCESS" /\ ~Busy(u) =>
                /\ Routes(u) \subseteq file[u]
                /\ Groups(file[u]) \subseteq Held(u)

\* ... and a user has one valid grant of a group at a time.
NoDuplicateGrant ==
    ~Overlap =>
        \A d, e \in Grant :
            Valid(d) /\ Holds(e, grant[d].user, grant[d].group) => d = e

-----------------------------------------------------------------------------
(* Over time. *)

\* What has ended stays ended: once no handler is at work on its user, an
\* inactive grant is never active again.
EndedStaysEnded ==
    \A d \in Grant :
        [](grant[d].state = "inactive" /\ ~Busy(grant[d].user)
            => [](grant[d].state \in {"inactive", "gone"}))

\* An expired grant comes off the server for good, or the user holds its group
\* otherwise: a pass that fails leaves it for the next one.  Passes and grants
\* only, no write that is reported as failed although it took effect, no crash.
ExpiryEnforced ==
    scene.operations \subseteq {"pass", "grant"} /\ scene.faults \subseteq {"reject", "exit"} =>
    \A d \in Grant :
        Active(d) /\ d \in expired
            ~> [](\/ ~Row(d)
                  \/ grant[d].group \notin Groups(file[grant[d].user])
                  \/ grant[d].group \in GroupsOf(grant[d].user))
=============================================================================
