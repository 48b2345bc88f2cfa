---------------------------- MODULE CcdSyncProofs ----------------------------
(***************************************************************************)
(* What holds of grants and client files for any number of users, grants   *)
(* and handlers.  A handler works for one user or for all of them, and     *)
(* only on what it found: grants of those users, expired ones in a pass.   *)
(* Handlers that do not overlap work for different users (Apart), so that  *)
(* what one has read of a user stays true until it writes.                 *)
(***************************************************************************)
EXTENDS CcdSync, TLAPS

PassOps == {"pass", "grant", "revoke", "pushUser", "pushAll", "pushGroup", "drift"}

\* Operations about one user.
One(w) == w.op \in {"grant", "revoke", "pushUser"}

\* What a handler has read by the time it comes to a step.
PlaceOK(l, w) ==
    /\ w.inPass => w.op \in PassOps /\ ~w.was
    /\ l \in {"list", "deactivate"} => w.inPass
    /\ l # "idle" /\ w.inPass => w.users = {}
    /\ l # "idle" /\ One(w) => w.user \in User /\ w.users = {} /\ (~w.inPass => w.who = w.user)
    /\ l # "idle" /\ ~One(w) => w.user = NoUser
    /\ l # "idle" => w.op # "none"
    /\ l \in SyncStep \cup {"restore"} => w.who \in Scope(w) /\ w.op # "routes"
    /\ l \in SyncStep \cup {"restore"} /\ w.inPass =>
           w.due \in expired /\ w.due \in Grant /\ grant[w.due].state # "none" /\ grant[w.due].user = w.who
    /\ l \in {"account", "check", "enable", "create", "undo"} => w.op = "grant" /\ ~w.inPass
    /\ l \in SyncStep \cup {"undo"} /\ w.op = "grant" /\ ~w.inPass =>
           w.grant \in Grant /\ grant[w.grant].state # "none" /\ grant[w.grant].user = w.user
    /\ l \in {"snapshot", "revoke"} => w.op = "revoke" /\ ~w.inPass
    /\ l = "restore" /\ ~w.inPass => w.op = "revoke"
    /\ l \in {"users", "next"} => ~One(w) /\ ~w.inPass
    /\ l = "audit" /\ ~w.inPass => w.op = "pushUser"
    /\ w.op = "revoke" => w.grant \in Grant /\ grant[w.grant].state # "none" /\ grant[w.grant].user = w.user
    /\ \A d \in w.found : grant[d].state # "none" /\ grant[d].user \in Scope(w) /\ d \in expired

DataOK ==
    /\ scene \in Scenes
    /\ group \in SUBSET Group /\ routes \in [Group -> 0..MaxVersion]
    /\ member \in SUBSET (User \X Group) /\ enabled \in SUBSET User
    /\ ccd \in [User -> SyncStatus] /\ grant \in [Grant -> TemporaryAccess]
    /\ expired \in SUBSET Grant /\ file \in [User -> SUBSET Route]
RowsOK ==
    \A d \in Grant : IF grant[d].state = "none"
                     THEN grant[d].user = NoUser /\ grant[d].group = NoGroup
                     ELSE grant[d].user \in User /\ grant[d].group \in Group
HandlersOK == pc \in [Handler -> PC] /\ work \in [Handler -> Work]
PlacesOK == \A h \in Handler : PlaceOK(pc[h], work[h])

\* Handlers that do not overlap concern different users.
Apart ==
    Overlap \/ \A h, k \in Handler :
        h # k /\ pc[h] # "idle" /\ pc[k] # "idle" => Scope(work[h]) \cap Scope(work[k]) = {}

TypeInv == DataOK /\ RowsOK /\ HandlersOK /\ PlacesOK /\ Apart

-----------------------------------------------------------------------------

USE VersionAssumption, NullAssumption, ChoiceAssumption

LEMMA Nulls ==
    /\ NoRow \in TemporaryAccess /\ NoWork \in Work /\ NoRow.state = "none"
    /\ NoWork.found = {} /\ NoWork.users = {} /\ NoWork.op = "none" /\ NoWork.user = NoUser
    /\ NoWork.inPass = FALSE /\ NoWork.was = FALSE /\ "idle" \in PC
<1>1. NoRow \in TemporaryAccess /\ NoRow.state = "none" /\ "idle" \in PC
    BY DEF NoRow, TemporaryAccess, PC
<1>2. NoWork \in Work
    BY DEF NoWork, Work
<1> QED BY <1>1, <1>2 DEF NoWork

\* A request that begins with a pass.
LEMMA FreshType ==
    ASSUME NEW op \in PassOps
    PROVE  /\ Fresh(op) \in Work /\ Fresh(op).op = op /\ Fresh(op).inPass /\ ~Fresh(op).was
           /\ Fresh(op).users = {} /\ Fresh(op).found = {} /\ Fresh(op).user = NoUser
<1>1. op \in AllOperations
    BY DEF PassOps, AllOperations
<1> QED BY <1>1, Nulls DEF Fresh, Work

LEMMA GotoOnly ==
    ASSUME HandlersOK, NEW h \in Handler, NEW l \in PC, NEW w \in Work, Goto(h, l, w)
    PROVE  /\ HandlersOK' /\ pc'[h] = l /\ work'[h] = w
           /\ \A g \in Handler \ {h} : pc'[g] = pc[g] /\ work'[g] = work[g]
BY DEF HandlersOK, Goto

\* Grants are not given to other users, and what has expired has.
Grows ==
    /\ \A d \in Grant : grant[d].state # "none" =>
           grant'[d].state # "none" /\ grant'[d].user = grant[d].user /\ grant'[d].group = grant[d].group
    /\ expired \subseteq expired'

LEMMA PlaceStays == ASSUME Grows, NEW l, NEW w \in Work, PlaceOK(l, w) PROVE PlaceOK(l, w)'
<1>1. w.found \subseteq Grant
    BY DEF Work
<1> QED BY <1>1 DEF Grows, PlaceOK, One, Scope

-----------------------------------------------------------------------------

\* A handler goes on for the same users, or begins.
Goes(h) ==
    \E l \in PC, w \in Work :
        /\ Goto(h, l, w) /\ PlaceOK(l, w)'
        /\ \/ l = "idle"
           \/ pc[h] # "idle" /\ w.user = work[h].user
           \/ Overlap \/ \A u \in Scope(w) : ~Busy(u)

\* What remains to be shown of a step of one handler.
LEMMA HandlerStep ==
    ASSUME TypeInv, DataOK', RowsOK', Grows, NEW h \in Handler, Goes(h)
    PROVE  TypeInv'
<1>w. PICK l \in PC, w \in Work :
        /\ Goto(h, l, w) /\ PlaceOK(l, w)'
        /\ \/ l = "idle"
           \/ pc[h] # "idle" /\ w.user = work[h].user
           \/ Overlap \/ \A u \in Scope(w) : ~Busy(u)
    BY DEF Goes
<1>1. /\ HandlersOK' /\ pc'[h] = l /\ work'[h] = w
      /\ \A g \in Handler \ {h} : pc'[g] = pc[g] /\ work'[g] = work[g]
    BY <1>w, GotoOnly DEF TypeInv
<1>2. PlacesOK'
  <2> SUFFICES ASSUME NEW g \in Handler PROVE PlaceOK(pc[g], work[g])'
      BY DEF PlacesOK
  <2>1. CASE g = h
    BY <1>w, <1>1, <2>1
  <2>2. CASE g # h
    <3>1. PICK k, v : k = pc[g] /\ v = work[g]
      OBVIOUS
    <3>2. v \in Work /\ PlaceOK(k, v)
      BY <3>1 DEF TypeInv, PlacesOK, HandlersOK
    <3>3. PlaceOK(k, v)'
      BY <3>2, PlaceStays
    <3>4. k = pc'[g] /\ v = work'[g]
      BY <1>1, <2>2, <3>1
    <3> QED BY <3>3, <3>4
  <2> QED BY <2>1, <2>2
<1>3. Apart'
  <2>1. SUFFICES ASSUME ~Overlap, NEW g \in Handler \ {h}, l # "idle", pc[g] # "idle"
                 PROVE  Scope(w) \cap Scope(work[g]) = {}
    <3>1. ASSUME NEW g \in Handler, NEW k \in Handler, g # k, pc'[g] # "idle", pc'[k] # "idle", ~Overlap
          PROVE  Scope(work'[g]) \cap Scope(work'[k]) = {}
      <4>1. CASE g = h
        BY <1>1, <2>1, <3>1, <4>1
      <4>2. CASE k = h
        BY <1>1, <2>1, <3>1, <4>2
      <4>3. CASE g # h /\ k # h
        BY <1>1, <3>1, <4>3 DEF TypeInv, Apart
      <4> QED BY <4>1, <4>2, <4>3
    <3> QED BY <3>1 DEF Apart, Scope
  <2>2. CASE pc[h] # "idle" /\ w.user = work[h].user
    BY <2>1, <2>2 DEF TypeInv, Apart, Scope
  <2>3. CASE \A u \in Scope(w) : ~Busy(u)
    BY <2>1, <2>3 DEF Busy
  <2> QED BY <1>w, <2>1, <2>2, <2>3
<1> QED BY <1>1, <1>2, <1>3 DEF TypeInv

\* A handler goes on with what it was asked for.
Kept(w, v) ==
    v.op = w.op /\ v.user = w.user /\ v.group = w.group /\ v.grant = w.grant /\ v.was = w.was

Keeps(h) ==
    \E l \in PC \ {"enable", "create"}, w \in Work :
        /\ Goto(h, l, w) /\ PlaceOK(l, w)'
        /\ l = "idle" \/ (pc[h] # "idle" /\ Kept(work[h], w))

LEMMA KeepsGoes == ASSUME NEW h \in Handler, Keeps(h) PROVE Goes(h)
BY DEF Keeps, Goes, Kept

LEMMA Finishes == ASSUME NEW h \in Handler, Finish(h) PROVE Keeps(h)
<1>1. PlaceOK("idle", NoWork)'
    BY Nulls DEF PlaceOK, SyncStep
<1> QED BY <1>1, Nulls DEF Finish, Keeps

LEMMA NextGrantKeeps ==
    ASSUME NEW h \in Handler, NEW w \in Work, pc[h] # "idle", Kept(work[h], w), PlaceOK("list", w)', NextGrant(h, w)
    PROVE  Keeps(h)
<1>1. /\ w.inPass /\ w.op \in PassOps /\ ~w.was /\ w.users = {}
      /\ One(w) => w.user \in User
      /\ ~One(w) => w.user = NoUser
      /\ w.op = "revoke" => w.grant \in Grant /\ grant'[w.grant].state # "none" /\ grant'[w.grant].user = w.user
      /\ \A d \in w.found : grant'[d].state # "none" /\ grant'[d].user \in Scope(w) /\ d \in expired'
    BY DEF PlaceOK, One, Scope
<1>2. CASE w.found # {}
  <2>1. PICK v : v = [w EXCEPT !.due = NoGrant, !.on = FALSE]
    OBVIOUS
  <2>2. v \in Work /\ Kept(w, v) /\ v.inPass /\ v.users = {} /\ v.found = w.found
    BY <1>1, <2>1 DEF Work, Kept
  <2>3. Goto(h, "deactivate", v)
    BY <1>2, <2>1 DEF NextGrant
  <2>4. PlaceOK("deactivate", v)' /\ "deactivate" \in PC \ {"enable", "create"}
    BY <1>1, <2>2 DEF PlaceOK, Kept, SyncStep, PC, PassStep, One, Scope
  <2> QED BY <2>2, <2>3, <2>4 DEF Keeps, Kept
<1>3. CASE w.found = {} /\ w.op = "pass"
    BY <1>3, Finishes DEF NextGrant
<1>4. CASE w.found = {} /\ w.op # "pass"
  <2>1. PICK v : v = [w EXCEPT !.inPass = FALSE, !.due = NoGrant, !.who = w.user, !.on = FALSE]
    OBVIOUS
  <2>2. v \in Work /\ Kept(w, v) /\ ~v.inPass /\ v.users = {} /\ v.found = {} /\ v.who = w.user
    BY <1>1, <1>4, <2>1 DEF Work, Kept
  <2>3. PICK l : l = AfterPass(w.op)
    OBVIOUS
  <2>4. Goto(h, l, v)
    BY <1>4, <2>1, <2>3 DEF NextGrant
  <2>5. /\ w.op = "grant" => l = "account"
        /\ w.op = "revoke" => l = "snapshot"
        /\ w.op = "pushUser" => l = "generate"
        /\ w.op \notin {"grant", "revoke", "pushUser"} => l = "users"
    BY <1>1, <1>4, <2>3 DEF AfterPass, PassOps
  <2>6. l \in PC \ {"enable", "create"} /\ l \in {"account", "snapshot", "generate", "users"}
    BY <2>5 DEF PC, MainStep, SyncStep
  <2>7. PlaceOK(l, v)'
    BY <1>1, <2>2, <2>5, <2>6 DEF PlaceOK, Kept, SyncStep, One, Scope, PassOps
  <2> QED BY <2>2, <2>4, <2>6, <2>7 DEF Keeps, Kept
<1> QED BY <1>2, <1>3, <1>4

\* Where a loop may go on.
Looping(w) == (One(w) => w.users = {}) /\ (~One(w) => PlaceOK("next", w))

LEMMA NextUserKeeps ==
    ASSUME NEW h \in Handler, NEW w \in Work, pc[h] # "idle", Kept(work[h], w), Looping(w)', NextUser(h, w)
    PROVE  Keeps(h)
<1>1. CASE w.users = {}
    BY <1>1, Finishes DEF NextUser
<1>2. CASE w.users # {}
  <2>1. PICK v : v = [w EXCEPT !.who = NoUser, !.on = FALSE]
    OBVIOUS
  <2>2. v \in Work /\ Kept(w, v) /\ v.inPass = w.inPass /\ v.users = w.users /\ v.found = w.found /\ v.due = w.due
    BY <2>1 DEF Work, Kept
  <2>3. Goto(h, "next", v)
    BY <1>2, <2>1 DEF NextUser
  <2>4. ~One(w) /\ PlaceOK("next", w)'
    BY <1>2 DEF Looping, One
  <2>5. PlaceOK("next", v)' /\ "next" \in PC \ {"enable", "create"}
    BY <2>2, <2>4 DEF PlaceOK, Kept, SyncStep, PC, MainStep, One, Scope
  <2> QED BY <2>2, <2>3, <2>5 DEF Keeps, Kept
<1> QED BY <1>1, <1>2

LEMMA SyncLoops ==
    ASSUME NEW l \in SyncStep \cup {"users", "next"}, NEW w \in Work, PlaceOK(l, w)', ~w.inPass
    PROVE  Looping(w)'
BY DEF PlaceOK, Looping, SyncStep, One, Scope


\* At the steps that write a file: what follows them, and a failure.
LEMMA DoneKeeps ==
    ASSUME NEW h \in Handler, NEW w \in Work, w = work[h], pc[h] # "idle", NEW l \in SyncStep, PlaceOK(l, w)', Done(h)
    PROVE  Keeps(h)
<1>1. CASE w.inPass \/ w.op = "pushUser"
  <2>1. PICK v : v = [w EXCEPT !.on = FALSE]
    OBVIOUS
  <2>2. /\ v \in Work /\ Kept(w, v) /\ v.inPass = w.inPass /\ v.users = w.users /\ v.found = w.found
        /\ v.due = w.due /\ v.who = w.who
    BY <2>1 DEF Work, Kept
  <2>3. Goto(h, "audit", v)
    BY <1>1, <2>1 DEF Done
  <2>4. PlaceOK("audit", v)' /\ "audit" \in PC \ {"enable", "create"}
    BY <1>1, <2>2 DEF PlaceOK, Kept, SyncStep, PC, MainStep, One, Scope
  <2> QED BY <2>2, <2>3, <2>4 DEF Keeps, Kept
<1>2. CASE ~(w.inPass \/ w.op = "pushUser")
  <2>1. NextUser(h, w) /\ Looping(w)'
    BY <1>2, SyncLoops DEF Done
  <2> QED BY <2>1, NextUserKeeps DEF Kept
<1> QED BY <1>1, <1>2

LEMMA CatchKeeps ==
    ASSUME NEW h \in Handler, NEW w \in Work, pc[h] # "idle", Kept(work[h], w), ~w.inPass,
           NEW l \in SyncStep, PlaceOK(l, w)', Catch(h, w)
    PROVE  Keeps(h)
<1>1. CASE w.op = "grant"
  <2>1. Goto(h, "undo", w)
    BY <1>1 DEF Catch, Blind
  <2>2. PlaceOK("undo", w)' /\ "undo" \in PC \ {"enable", "create"}
    BY <1>1 DEF PlaceOK, PC, MainStep, SyncStep, PassStep, One, Scope
  <2> QED BY <2>1, <2>2 DEF Keeps
<1>2. CASE w.op = "revoke"
  <2>1. Goto(h, "restore", w)
    BY <1>2 DEF Catch, Blind
  <2>2. PlaceOK("restore", w)' /\ "restore" \in PC \ {"enable", "create"}
    BY <1>2 DEF PlaceOK, PC, MainStep, SyncStep, PassStep, One, Scope
  <2> QED BY <2>1, <2>2 DEF Keeps
<1>3. CASE w.op = "pushGroup"
  <2>1. NextUser(h, w) /\ Looping(w)'
    BY <1>3, SyncLoops DEF Catch, Blind
  <2> QED BY <2>1, NextUserKeeps
<1>4. CASE w.op \in Blind \ {"drift"}
  <2>1. Goto(h, "failed", w)
    BY <1>4 DEF Catch, Blind
  <2>2. PlaceOK("failed", w)' /\ "failed" \in PC \ {"enable", "create"}
    BY <1>4 DEF PlaceOK, PC, MainStep, SyncStep, PassStep, One, Scope
  <2> QED BY <2>1, <2>2 DEF Keeps
<1>5. CASE w.op \notin {"grant", "revoke", "pushGroup"} \cup (Blind \ {"drift"})
    BY <1>5, Finishes DEF Catch
<1> QED BY <1>1, <1>2, <1>3, <1>4, <1>5

LEMMA ThrowKeeps ==
    ASSUME NEW h \in Handler, NEW w \in Work, w = work[h], pc[h] # "idle", NEW l \in SyncStep, PlaceOK(l, w)', Throw(h)
    PROVE  Keeps(h)
<1>1. PICK v : v = [w EXCEPT !.content = {}]
    OBVIOUS
<1>2. /\ v \in Work /\ Kept(w, v) /\ v.inPass = w.inPass /\ v.users = w.users /\ v.found = w.found
      /\ v.due = w.due /\ v.who = w.who
    BY <1>1 DEF Work, Kept
<1>3. CASE w.inPass
  <2>1. Goto(h, "restore", v)
    BY <1>1, <1>2, <1>3 DEF Throw
  <2>2. PlaceOK("restore", v)' /\ "restore" \in PC \ {"enable", "create"}
    BY <1>2, <1>3 DEF PlaceOK, Kept, PC, MainStep, SyncStep, PassStep, One, Scope
  <2> QED BY <1>2, <2>1, <2>2 DEF Keeps
<1>4. CASE ~w.inPass
  <2>1. Catch(h, v)
    BY <1>1, <1>2, <1>4 DEF Throw
  <2>2. PlaceOK(l, v)'
    BY <1>2, <1>4 DEF PlaceOK, Kept, One, Scope
  <2> QED BY <1>2, <1>4, <2>1, <2>2, CatchKeeps
<1> QED BY <1>3, <1>4

-----------------------------------------------------------------------------

\* What a step does to the data.
LEMMA DataStep ==
    ASSUME TypeInv, [Next]_vars
    PROVE  DataOK' /\ RowsOK' /\ Grows
<1>q. ASSUME UNCHANGED <<grant, expired>> PROVE RowsOK' /\ Grows
    BY <1>q DEF TypeInv, RowsOK, Grows
<1>s. ASSUME NEW d, NEW s \in {"active", "inactive", "gone"}, SetState(d, s), Row(d),
             UNCHANGED <<scene, access, ccd, expired, file>>
      PROVE  DataOK' /\ RowsOK' /\ Grows
  <2>1. grant' = [grant EXCEPT ![d].state = s]
    BY <1>s DEF SetState
  <2>2. \A e \in Grant : /\ grant'[e] \in TemporaryAccess
                         /\ grant'[e].user = grant[e].user /\ grant'[e].group = grant[e].group
                         /\ grant[e].state # "none" => grant'[e].state # "none"
                         /\ e # d => grant'[e] = grant[e]
    BY <2>1 DEF TypeInv, DataOK, TemporaryAccess
  <2>3. \A e \in Grant : grant'[e].state # "none" <=> grant[e].state # "none"
    BY <1>s, <2>2 DEF Row
  <2>4. grant' \in [Grant -> TemporaryAccess]
    BY <2>1, <2>2 DEF TypeInv, DataOK
  <2>5. DataOK'
    BY <1>s, <2>4 DEF TypeInv, DataOK, access
  <2>6. RowsOK' /\ Grows
    BY <1>s, <2>2, <2>3 DEF TypeInv, RowsOK, Grows
  <2> QED BY <2>5, <2>6
<1>c. ASSUME UNCHANGED <<scene, access, grant, expired, file>>, NEW u, NEW s \in SyncStatus, SetSync(u, s)
      PROVE  DataOK' /\ RowsOK' /\ Grows
  <2>1. ccd' \in [User -> SyncStatus]
    BY <1>c DEF SetSync, TypeInv, DataOK
  <2> QED BY <1>c, <1>q, <2>1 DEF TypeInv, DataOK, access
<1>1. ASSUME NEW h \in Handler, Start(h) PROVE DataOK' /\ RowsOK' /\ Grows
  <2>1. CASE UNCHANGED <<scene, access, ccd, grant, expired, file>>
    BY <1>q, <2>1 DEF TypeInv, DataOK, access
  <2>2. ASSUME NEW g \in Group, ChangeRoutes(h, g) PROVE DataOK' /\ RowsOK' /\ Grows
    <3>1. routes[g] + 1 \in 0..MaxVersion
      BY <2>2 DEF ChangeRoutes, TypeInv, DataOK
    <3>2. routes' \in [Group -> 0..MaxVersion]
      BY <2>2, <3>1 DEF ChangeRoutes, TypeInv, DataOK
    <3> QED BY <1>q, <2>2, <3>2 DEF ChangeRoutes, TypeInv, DataOK
  <2> QED BY <1>1, <2>1, <2>2 DEF Start, StartPass, StartGrant, StartRevoke, StartPushUser, StartPushAll,
                                  StartPushGroup, StartBulk
<1>2. ASSUME NEW h \in Handler, Continue(h) PROVE DataOK' /\ RowsOK' /\ Grows
  <2>1. CASE UNCHANGED <<scene, access, ccd, grant, expired, file>>
    BY <1>q, <2>1 DEF TypeInv, DataOK, access
  <2>2. ASSUME NEW d \in work[h].found, Deactivate(h, d) PROVE DataOK' /\ RowsOK' /\ Grows
    BY <1>s, <2>1, <2>2 DEF Deactivate
  <2>3. CASE Restore(h)
    BY <1>s, <2>1, <2>3 DEF Restore
  <2>4. CASE Revoke(h) \/ UndoGrant(h)
    BY <1>s, <2>1, <2>4 DEF Revoke, UndoGrant
  <2>5. CASE CreateGrant(h)
    <3>1. CASE UNCHANGED grant
      BY <2>1, <2>5, <3>1 DEF CreateGrant
    <3>2. CASE ~UNCHANGED grant
      <4>1. PICK w : w = work[h]
        OBVIOUS
      <4>2. PICK d, row : /\ d \in Unborn
                          /\ row = [state |-> "active", user |-> w.user, group |-> w.group]
                          /\ grant' = [grant EXCEPT ![d] = row]
        BY <2>5, <3>2, <4>1 DEF CreateGrant
      <4>3. w \in Work /\ w.op = "grant" /\ w.user \in User /\ w.group \in Group
        <5>1. w \in Work /\ PlaceOK("create", w) /\ w.group \in group
          BY <2>5, <3>2, <4>1 DEF TypeInv, HandlersOK, PlacesOK, CreateGrant
        <5> QED BY <5>1 DEF PlaceOK, One, TypeInv, DataOK
      <4>4. row \in TemporaryAccess /\ row.state # "none" /\ row.user \in User /\ row.group \in Group
        BY <4>2, <4>3 DEF TemporaryAccess
      <4>5. d \in Grant /\ grant[d].state = "none"
        BY <4>2 DEF Unborn
      <4>6. UNCHANGED <<scene, access, ccd, expired, file>>
        BY <2>5 DEF CreateGrant
      <4>7. DataOK'
        BY <4>2, <4>4, <4>5, <4>6 DEF TypeInv, DataOK, access
      <4>8. RowsOK' /\ Grows
        BY <4>2, <4>4, <4>5, <4>6 DEF TypeInv, DataOK, RowsOK, Grows
      <4> QED BY <4>7, <4>8
    <3> QED BY <3>1, <3>2
  <2>6. CASE MarkPending(h) \/ MarkFailed(h) \/ MarkSuccess(h) \/ \E u \in work[h].users : MarkAffected(h, u)
    BY <1>c, <2>6 DEF MarkPending, MarkFailed, MarkSuccess, MarkAffected, SyncStatus
  <2>7. CASE Write(h) \/ WriteFails(h) \/ WriteThrows(h)
    <3>1. work[h].content \in SUBSET Route
      BY DEF TypeInv, HandlersOK, Work
    <3>2. UNCHANGED <<scene, access, ccd, grant, expired>> /\ (UNCHANGED file \/ Put(h))
      BY <2>7 DEF Write, WriteFails, WriteThrows
    <3>3. file' \in [User -> SUBSET Route]
      BY <3>1, <3>2 DEF Put, TypeInv, DataOK
    <3> QED BY <1>q, <3>2, <3>3 DEF TypeInv, DataOK, access
  <2>8. CASE EnableUser(h)
    <3>1. PICK w : w = work[h]
      OBVIOUS
    <3>2. PlaceOK("enable", w)
      BY <2>8, <3>1 DEF TypeInv, PlacesOK, EnableUser
    <3>3. w.user \in User /\ enabled' = enabled \cup {w.user}
      BY <2>8, <3>1, <3>2 DEF EnableUser, PlaceOK, One
    <3> QED BY <1>q, <2>8, <3>3 DEF EnableUser, TypeInv, DataOK
  <2> QED BY <1>2, <2>1, <2>2, <2>3, <2>4, <2>5, <2>6, <2>7, <2>8
          DEF Continue, PassNext, SyncNext, LoopNext, GrantNext, DatabaseError, ListExpired, WriteAudit, ReadUser,
              Generate, ListUsers, TakeUser, ReadAccount, CheckGrant, ReadGrant
<1>3. ASSUME NEW u \in User, (\E g \in Group : ChangeMember(u, g)) \/ ToggleUser(u) PROVE DataOK' /\ RowsOK' /\ Grows
  <2>1. ASSUME NEW g \in Group, ChangeMember(u, g) PROVE DataOK' /\ RowsOK' /\ Grows
    <3>1. member' \in SUBSET (User \X Group)
      BY <2>1 DEF ChangeMember, TypeInv, DataOK
    <3> QED BY <1>q, <2>1, <3>1 DEF ChangeMember, TypeInv, DataOK
  <2>2. ASSUME ToggleUser(u) PROVE DataOK' /\ RowsOK' /\ Grows
    BY <1>q, <2>2 DEF ToggleUser, TypeInv, DataOK
  <2> QED BY <1>3, <2>1, <2>2
<1>4. ASSUME NEW g \in Group, DeleteGroup(g) PROVE DataOK' /\ RowsOK' /\ Grows
  <2>1. \A d \in Grant : /\ grant'[d] \in TemporaryAccess
                         /\ grant'[d].user = grant[d].user /\ grant'[d].group = grant[d].group
                         /\ grant'[d].state = grant[d].state \/ (grant'[d].state = "gone" /\ grant[d].group = g)
    <3> SUFFICES ASSUME NEW d \in Grant
                 PROVE  /\ grant'[d] \in TemporaryAccess
                        /\ grant'[d].user = grant[d].user /\ grant'[d].group = grant[d].group
                        /\ grant'[d].state = grant[d].state \/ (grant'[d].state = "gone" /\ grant[d].group = g)
        OBVIOUS
    <3>1. PICK row : row = grant[d]
      OBVIOUS
    <3>2. row \in TemporaryAccess /\ grant'[d] = IF row.group = g THEN [row EXCEPT !.state = "gone"] ELSE row
      BY <1>4, <3>1 DEF DeleteGroup, TypeInv, DataOK
    <3> QED BY <3>1, <3>2 DEF TemporaryAccess
  <2>2. grant' \in [Grant -> TemporaryAccess]
    BY <1>4, <2>1 DEF DeleteGroup
  <2>3. group' \in SUBSET Group /\ member' \in SUBSET (User \X Group)
    BY <1>4 DEF DeleteGroup, TypeInv, DataOK
  <2>4. DataOK'
    BY <1>4, <2>2, <2>3 DEF DeleteGroup, TypeInv, DataOK
  <2>5. \A d \in Grant : grant[d].state = "none" => grant[d].group # g
    BY DEF TypeInv, RowsOK
  <2>6. RowsOK' /\ Grows
    BY <1>4, <2>1, <2>5 DEF DeleteGroup, TypeInv, RowsOK, Grows
  <2> QED BY <2>4, <2>6
<1>5. ASSUME NEW d \in Grant, Expire(d) PROVE DataOK' /\ RowsOK' /\ Grows
    BY <1>5 DEF Expire, access, TypeInv, DataOK, RowsOK, Grows
<1>6. CASE Crash \/ UNCHANGED vars
    BY <1>6, <1>q DEF Crash, vars, access, TypeInv, DataOK
<1> QED BY <1>1, <1>2, <1>3, <1>4, <1>5, <1>6 DEF Next

\* Where the handlers go: on with what they were asked for, but for the steps that
\* make a grant, or read the one to revoke.
LEMMA ControlStep ==
    ASSUME TypeInv, Grows, NEW h \in Handler, Continue(h)
    PROVE  Keeps(h) \/ (Goes(h) /\ (CheckGrant(h) \/ EnableUser(h) \/ CreateGrant(h) \/ ReadGrant(h)))
<1>1. PICK w, l : w = work[h] /\ l = pc[h]
    OBVIOUS
<1>2. w \in Work /\ PlaceOK(l, w) /\ PlaceOK(l, w)' /\ Kept(w, w)
  <2>1. w \in Work /\ PlaceOK(l, w)
    BY <1>1 DEF TypeInv, HandlersOK, PlacesOK
  <2> QED BY <2>1, PlaceStays DEF Kept
<1>f. ASSUME Finish(h) PROVE Keeps(h)
    BY <1>f, Finishes
<1>g. ASSUME NEW k \in PC \ {"enable", "create"}, NEW v \in Work, l # "idle", Kept(w, v), Goto(h, k, v), PlaceOK(k, v)'
      PROVE  Keeps(h)
    BY <1>1, <1>g DEF Keeps
<1>n. ASSUME l # "idle", PlaceOK("list", w)', NextGrant(h, w) PROVE Keeps(h)
    BY <1>1, <1>2, <1>n, NextGrantKeeps
<1>d. ASSUME l \in SyncStep, Done(h) \/ Throw(h) PROVE Keeps(h)
    BY <1>1, <1>2, <1>d, DoneKeeps, ThrowKeeps DEF SyncStep
<1>u. ASSUME l \in SyncStep \cup {"users", "next"}, ~w.inPass, NextUser(h, w) PROVE Keeps(h)
  <2>1. Looping(w)'
    BY <1>2, <1>u, SyncLoops
  <2> QED BY <1>1, <1>2, <1>u, <2>1, NextUserKeeps DEF SyncStep
<1>3. CASE ListExpired(h)
  <2>1. PICK v : v = [w EXCEPT !.found = {d \in expired : Active(d) /\ grant[d].user \in Scope(w)}]
    OBVIOUS
  <2>2. NextGrant(h, v) /\ l = "list"
    BY <1>1, <1>3, <2>1 DEF ListExpired
  <2>3. v.found = {d \in expired : Active(d) /\ grant[d].user \in Scope(w)}
    BY <1>2, <2>1 DEF Work
  <2>4. \A d \in v.found : d \in Grant /\ grant[d].state # "none" /\ grant[d].user \in Scope(w) /\ d \in expired
    BY <2>3 DEF Active, TypeInv, DataOK
  <2>5. v \in Work /\ Kept(w, v) /\ v.inPass = w.inPass /\ v.users = w.users /\ v.who = w.who
    BY <1>2, <2>1, <2>3, <2>4 DEF Work, Kept
  <2>6. Scope(v) = Scope(w)
    BY <2>5 DEF Kept, Scope
  <2>7. \A d \in v.found : grant'[d].state # "none" /\ grant'[d].user \in Scope(v) /\ d \in expired'
    BY <2>4, <2>6 DEF Grows
  <2>8. PlaceOK("list", v)'
    BY <1>2, <2>2, <2>5, <2>7 DEF PlaceOK, Kept, One, Scope, SyncStep
  <2> QED BY <1>1, <2>2, <2>5, <2>8, NextGrantKeeps
<1>4. ASSUME NEW d \in w.found, Deactivate(h, d) PROVE Keeps(h)
  <2>1. PICK v : v = [w EXCEPT !.found = @ \ {d}, !.due = d, !.who = grant[d].user]
    OBVIOUS
  <2>2. l = "deactivate" /\ (Finish(h) \/ Goto(h, "read", v))
    BY <1>1, <1>4, <2>1 DEF Deactivate
  <2>3. d \in Grant /\ grant[d].state # "none" /\ grant[d].user \in Scope(w) /\ d \in expired
    BY <1>2 DEF PlaceOK, Work
  <2>4. Scope(w) \subseteq User
    BY <1>2 DEF Scope, Work
  <2>5. /\ v \in Work /\ Kept(w, v) /\ v.inPass = w.inPass /\ v.users = w.users /\ v.who = grant[d].user /\ v.due = d
        /\ v.found = w.found \ {d}
    BY <1>2, <2>1, <2>3, <2>4 DEF Work, Kept
  <2>6. grant'[d].state # "none" /\ grant'[d].user = v.who /\ d \in expired'
    BY <2>3, <2>5 DEF Grows
  <2>7. w.inPass /\ v.who \in Scope(w) /\ Scope(v) = Scope(w)
    BY <1>2, <2>2, <2>3, <2>5 DEF PlaceOK, Kept, Scope
  <2>8. PlaceOK("read", v)' /\ "read" \in PC \ {"enable", "create"}
    BY <1>2, <2>2, <2>3, <2>5, <2>6, <2>7 DEF PlaceOK, Kept, One, Scope, PassOps, SyncStep, PC
  <2>9. l # "idle" /\ (Goto(h, "read", v) => Keeps(h))
    BY <1>g, <2>2, <2>5, <2>8
  <2> QED BY <1>f, <2>2, <2>9
<1>5. CASE Restore(h)
  <2>1. l = "restore" /\ (Finish(h) \/ (w.inPass /\ NextGrant(h, w)))
    BY <1>1, <1>5 DEF Restore
  <2>2. w.inPass => PlaceOK("list", w)'
    BY <1>2, <2>1 DEF PlaceOK, SyncStep, One, Scope
  <2> QED BY <1>f, <1>n, <2>1, <2>2
<1>6. CASE WriteAudit(h)
  <2>1. l = "audit" /\ (Finish(h) \/ (w.inPass /\ NextGrant(h, w)))
    BY <1>1, <1>6 DEF WriteAudit
  <2>2. w.inPass => PlaceOK("list", w)'
    BY <1>2, <2>1 DEF PlaceOK, SyncStep, One, Scope
  <2> QED BY <1>f, <1>n, <2>1, <2>2
<1>7. CASE ReadUser(h) \/ Generate(h)
  <2>1. PICK on, content : on = (w.who \in enabled) /\ content = Routes(w.who)
    OBVIOUS
  <2>2. on \in BOOLEAN /\ content \in SUBSET Route
    <3>1. \A g \in GroupsOf(w.who) : <<g, routes[g]>> \in Route
      BY DEF GroupsOf, Route, TypeInv, DataOK
    <3> QED BY <2>1, <3>1 DEF Routes
  <2>3. PICK v, u : v = [w EXCEPT !.on = on] /\ u = [w EXCEPT !.content = content]
    OBVIOUS
  <2>4. /\ v \in Work /\ Kept(w, v) /\ v.inPass = w.inPass /\ v.users = w.users /\ v.who = w.who
        /\ v.due = w.due /\ v.found = w.found
        /\ u \in Work /\ Kept(w, u) /\ u.inPass = w.inPass /\ u.users = w.users /\ u.who = w.who
        /\ u.due = w.due /\ u.found = w.found
    BY <1>2, <2>2, <2>3 DEF Work, Kept
  <2>5. l \in {"read", "generate"} /\ (Goto(h, "mark", v) \/ Goto(h, "write", u))
    BY <1>1, <1>7, <2>1, <2>3 DEF ReadUser, Generate
  <2>6. PlaceOK("mark", v)' /\ PlaceOK("write", u)' /\ {"mark", "write"} \subseteq PC \ {"enable", "create"}
    BY <1>2, <2>4, <2>5 DEF PlaceOK, Kept, One, Scope, PassOps, SyncStep, PC
  <2> QED BY <1>g, <2>4, <2>5, <2>6
<1>8. CASE MarkPending(h)
  <2>1. PICK v : v = [w EXCEPT !.on = FALSE]
    OBVIOUS
  <2>2. /\ v \in Work /\ Kept(w, v) /\ v.inPass = w.inPass /\ v.users = w.users /\ v.who = w.who
        /\ v.due = w.due /\ v.found = w.found
    BY <1>2, <2>1 DEF Work, Kept
  <2>3. l = "mark" /\ (Throw(h) \/ Done(h) \/ Goto(h, "generate", v))
    BY <1>1, <1>8, <2>1 DEF MarkPending
  <2>4. PlaceOK("generate", v)' /\ "generate" \in PC \ {"enable", "create"}
    BY <1>2, <2>2, <2>3 DEF PlaceOK, Kept, One, Scope, PassOps, SyncStep, PC
  <2> QED BY <1>d, <1>g, <2>2, <2>3, <2>4 DEF SyncStep
<1>9. CASE Write(h) \/ WriteFails(h) \/ WriteThrows(h)
  <2>1. PICK v : v = [w EXCEPT !.content = {}]
    OBVIOUS
  <2>2. /\ v \in Work /\ Kept(w, v) /\ v.inPass = w.inPass /\ v.users = w.users /\ v.who = w.who
        /\ v.due = w.due /\ v.found = w.found
    BY <1>2, <2>1 DEF Work, Kept
  <2>3. l = "write" /\ (Throw(h) \/ Goto(h, "success", v) \/ Goto(h, "failed", v))
    BY <1>1, <1>9, <2>1 DEF Write, WriteFails, WriteThrows, Written
  <2>4. /\ PlaceOK("success", v)' /\ PlaceOK("failed", v)'
        /\ {"success", "failed"} \subseteq PC \ {"enable", "create"}
    BY <1>2, <2>2, <2>3 DEF PlaceOK, Kept, One, Scope, PassOps, SyncStep, PC
  <2> QED BY <1>d, <1>g, <2>2, <2>3, <2>4 DEF SyncStep
<1>10. CASE MarkFailed(h) \/ MarkSuccess(h)
  <2>1. l \in {"failed", "success"} /\ (Throw(h) \/ Done(h) \/ (IsBlind(h) /\ NextUser(h, w)))
    BY <1>1, <1>10 DEF MarkFailed, MarkSuccess
  <2>2. IsBlind(h) => ~w.inPass
    BY <1>1 DEF IsBlind
  <2> QED BY <1>d, <1>u, <2>1, <2>2 DEF SyncStep
<1>11. CASE ListUsers(h)
  <2>1. PICK us : us = IF w.op \in {"pushAll", "drift"} THEN enabled ELSE Affected(w.group)
    OBVIOUS
  <2>2. us \in SUBSET User
    BY <2>1 DEF Affected, TypeInv, DataOK
  <2>3. PICK v : v = [w EXCEPT !.users = us]
    OBVIOUS
  <2>4. /\ v \in Work /\ Kept(w, v) /\ v.inPass = w.inPass /\ v.who = w.who
        /\ v.due = w.due /\ v.found = w.found
    BY <1>2, <2>2, <2>3 DEF Work, Kept
  <2>5. l = "users" /\ NextUser(h, v)
    BY <1>1, <1>11, <2>1, <2>3 DEF ListUsers
  <2>6. Looping(v)'
    BY <1>2, <2>4, <2>5 DEF PlaceOK, Looping, Kept, One, Scope, SyncStep
  <2> QED BY <1>1, <2>4, <2>5, <2>6, NextUserKeeps
<1>12. ASSUME NEW u \in w.users, TakeUser(h, u) \/ MarkAffected(h, u) PROVE Keeps(h)
  <2>1. PICK v, x : v = [w EXCEPT !.users = @ \ {u}, !.who = u] /\ x = [w EXCEPT !.users = @ \ {u}]
    OBVIOUS
  <2>2. u \in User
    BY <1>2 DEF Work
  <2>3. /\ v \in Work /\ Kept(w, v) /\ v.inPass = w.inPass /\ v.who = u /\ v.due = w.due /\ v.found = w.found
        /\ x \in Work /\ Kept(w, x) /\ x.inPass = w.inPass /\ x.who = w.who /\ x.due = w.due /\ x.found = w.found
    BY <1>2, <2>1, <2>2 DEF Work, Kept
  <2>4. l = "next" /\ \/ w.op # "routes" /\ (Goto(h, "read", v) \/ Goto(h, "generate", v))
                      \/ NextUser(h, x)
    BY <1>1, <1>12, <2>1 DEF TakeUser, MarkAffected
  <2>5. Looping(x)'
    BY <1>2, <2>3, <2>4 DEF PlaceOK, Looping, Kept, One, Scope, SyncStep
  <2>6. NextUser(h, x) => Keeps(h)
    BY <1>1, <2>3, <2>4, <2>5, NextUserKeeps
  <2>7. ASSUME w.op # "routes" PROVE PlaceOK("read", v)' /\ PlaceOK("generate", v)'
    BY <1>2, <2>2, <2>3, <2>4, <2>7 DEF PlaceOK, Kept, One, Scope, SyncStep
  <2> QED BY <1>g, <2>3, <2>4, <2>6, <2>7 DEF PC, SyncStep
<1>13. CASE ReadAccount(h)
  <2>1. PICK on, v : on = (w.user \in enabled) /\ v = [w EXCEPT !.on = on]
    OBVIOUS
  <2>2. /\ v \in Work /\ Kept(w, v) /\ v.inPass = w.inPass /\ v.users = w.users /\ v.who = w.who
        /\ v.due = w.due /\ v.found = w.found
    <3>1. on \in BOOLEAN
      BY <2>1
    <3> QED BY <1>2, <2>1, <3>1, ZenonT(30) DEF Work, Kept
  <2>3. l = "account" /\ (Finish(h) \/ Goto(h, "check", v))
    BY <1>1, <1>13, <2>1 DEF ReadAccount
  <2>4. PlaceOK("check", v)' /\ "check" \in PC \ {"enable", "create"}
    BY <1>2, <2>2, <2>3 DEF PlaceOK, Kept, One, Scope, PassOps, SyncStep, PC, MainStep
  <2> QED BY <1>f, <1>g, <2>2, <2>3, <2>4
<1>14. CASE UndoGrant(h)
    BY <1>f, <1>14 DEF UndoGrant
<1>15. CASE Revoke(h)
  <2>1. l = "revoke" /\ (Finish(h) \/ Goto(h, "read", w))
    BY <1>1, <1>15 DEF Revoke
  <2>2. PlaceOK("read", w)' /\ "read" \in PC \ {"enable", "create"}
    BY <1>2, <2>1 DEF PlaceOK, One, Scope, PassOps, SyncStep, PC
  <2> QED BY <1>2, <1>f, <1>g, <2>1, <2>2
<1>16. CASE DatabaseError(h)
  <2>1. l \notin {"idle", "write"} /\ (l = "next" => w.op = "routes")
    BY <1>1, <1>16 DEF DatabaseError
  <2>2. CASE InTry(h) /\ Throw(h)
    BY <1>1, <1>d, <2>2 DEF InTry, SyncStep
  <2>3. CASE w.op = "bulk" /\ NextUser(h, w)
    <3>1. ~w.inPass
      BY <1>2, <2>3 DEF PlaceOK, PassOps
    <3>2. l \in SyncStep \cup {"users", "next"}
      BY <1>1, <1>2, <2>1, <2>3, <3>1 DEF PlaceOK, TypeInv, HandlersOK, PC, PassStep, MainStep
    <3> QED BY <1>u, <2>3, <3>1, <3>2
  <2> QED BY <1>1, <1>16, <1>f, <2>2, <2>3 DEF DatabaseError
<1>c. ASSUME NEW k \in PC, NEW v \in Work, l # "idle", v.user = w.user, Goto(h, k, v), PlaceOK(k, v)' PROVE Goes(h)
    BY <1>1, <1>c DEF Goes
<1>17. CASE CheckGrant(h)
  <2>1. PICK v : v = [w EXCEPT !.on = FALSE]
    OBVIOUS
  <2>2. /\ v \in Work /\ Kept(w, v) /\ v.inPass = w.inPass /\ v.users = w.users /\ v.who = w.who
        /\ v.due = w.due /\ v.found = w.found
    BY <1>2, <2>1 DEF Work, Kept
  <2>3. l = "check" /\ (Finish(h) \/ Goto(h, "create", v) \/ Goto(h, "enable", v))
    BY <1>1, <1>17, <2>1 DEF CheckGrant
  <2>4. PlaceOK("create", v)' /\ PlaceOK("enable", v)' /\ {"create", "enable"} \subseteq PC
    BY <1>2, <2>2, <2>3 DEF PlaceOK, Kept, One, Scope, PassOps, SyncStep, PC, MainStep
  <2>5. v.user = w.user
    BY <2>2 DEF Kept
  <2> QED BY <1>17, <1>c, <1>f, <2>2, <2>3, <2>4, <2>5, KeepsGoes
<1>18. CASE EnableUser(h)
  <2>1. l = "enable" /\ Goto(h, "create", w)
    BY <1>1, <1>18 DEF EnableUser
  <2>2. PlaceOK("create", w)' /\ "create" \in PC
    BY <1>2, <2>1 DEF PlaceOK, One, Scope, PassOps, SyncStep, PC, MainStep
  <2> QED BY <1>2, <1>18, <1>c, <2>1, <2>2
<1>19. CASE CreateGrant(h)
  <2>1. CASE Finish(h)
    BY <1>f, <2>1
  <2>2. CASE ~Finish(h)
    <3>1. PICK d, row, v :
            /\ d \in Unborn
            /\ row = [state |-> "active", user |-> w.user, group |-> w.group]
            /\ grant' = [grant EXCEPT ![d] = row]
            /\ v = [w EXCEPT !.grant = d] /\ Goto(h, "read", v) /\ l = "create"
      BY <1>1, <1>19, <2>2 DEF CreateGrant
    <3>2. d \in Grant
      BY <3>1 DEF Unborn
    <3>3. /\ v \in Work /\ v.op = w.op /\ v.user = w.user /\ v.inPass = w.inPass /\ v.users = w.users /\ v.who = w.who
          /\ v.due = w.due /\ v.found = w.found /\ v.grant = d /\ v.was = w.was
      BY <1>2, <3>1, <3>2 DEF Work
    <3>4. grant'[d].state # "none" /\ grant'[d].user = w.user
      BY <3>1, <3>2 DEF TypeInv, DataOK
    <3>5. PlaceOK("read", v)' /\ "read" \in PC
      BY <1>2, <3>1, <3>2, <3>3, <3>4 DEF PlaceOK, One, Scope, PassOps, SyncStep, PC
    <3> QED BY <1>19, <1>c, <3>1, <3>3, <3>5
  <2> QED BY <2>1, <2>2
<1>20. CASE ReadGrant(h)
  <2>1. PICK v : v = [w EXCEPT !.was = Active(w.grant)]
    OBVIOUS
  <2>2. PICK on : on = Active(w.grant) /\ on \in BOOLEAN
    BY DEF Active
  <2>3. /\ v \in Work /\ v.op = w.op /\ v.user = w.user /\ v.inPass = w.inPass /\ v.users = w.users /\ v.who = w.who
        /\ v.due = w.due /\ v.found = w.found /\ v.grant = w.grant
    BY <1>2, <2>1, <2>2 DEF Work
  <2>4. l = "snapshot" /\ (Finish(h) \/ Goto(h, "revoke", v))
    BY <1>1, <1>20, <2>1 DEF ReadGrant
  <2>5. PlaceOK("revoke", v)' /\ "revoke" \in PC
    BY <1>2, <2>3, <2>4 DEF PlaceOK, One, Scope, PassOps, SyncStep, PC, MainStep
  <2> QED BY <1>20, <1>c, <1>f, <2>3, <2>4, <2>5
<1> QED BY <1>1, <1>3, <1>4, <1>5, <1>6, <1>7, <1>8, <1>9, <1>10, <1>11, <1>12, <1>13, <1>14, <1>15, <1>16, <1>17,
           <1>18, <1>19, <1>20 DEF Continue, PassNext, SyncNext, LoopNext, GrantNext

\* A handler that starts works for users no other is at work on, and has found
\* nothing yet.
LEMMA StartGoes == ASSUME TypeInv, Grows, NEW h \in Handler, Start(h) PROVE Goes(h)
<1>b. ASSUME NEW l \in PC, NEW w \in Work, Begin(h, l, w), PlaceOK(l, w)' PROVE Goes(h)
    BY <1>b DEF Begin, Goes
<1>f. ASSUME NEW w \in Work, NEW op \in PassOps, w.op = op, w.inPass, ~w.was, w.users = {}, w.found = {},
             IF One(w) THEN w.user \in User ELSE w.user = NoUser,
             op = "revoke" => w.grant \in Grant /\ grant[w.grant].state # "none" /\ grant[w.grant].user = w.user,
             Begin(h, "list", w)
      PROVE  Goes(h)
  <2>1. op = "revoke" => grant'[w.grant].state # "none" /\ grant'[w.grant].user = w.user
    BY <1>f DEF Grows
  <2>2. PlaceOK("list", w)' /\ "list" \in PC /\ op # "none"
    BY <1>f, <2>1 DEF PlaceOK, One, Scope, SyncStep, PC, PassStep, PassOps
  <2> QED BY <1>b, <1>f, <2>2
<1>1. CASE StartPass(h)
    BY <1>1, <1>f, FreshType DEF StartPass, PassOps, One
<1>2. ASSUME NEW u \in User, NEW g \in Group, StartGrant(h, u, g) PROVE Goes(h)
  <2>1. PICK v : v = Fresh("grant")
    OBVIOUS
  <2>2. v \in Work /\ v.op = "grant" /\ v.inPass /\ ~v.was /\ v.users = {} /\ v.found = {}
    BY <2>1, FreshType DEF PassOps
  <2>3. PICK w : w = [v EXCEPT !.user = u, !.group = g]
    OBVIOUS
  <2>4. w \in Work /\ w.op = "grant" /\ w.inPass /\ ~w.was /\ w.users = {} /\ w.found = {} /\ w.user = u
    BY <2>2, <2>3 DEF Work
  <2>5. Begin(h, "list", w)
    BY <1>2, <2>1, <2>3 DEF StartGrant
  <2> QED BY <1>f, <2>4, <2>5 DEF One, PassOps
<1>3. ASSUME NEW d \in Grant, StartRevoke(h, d) PROVE Goes(h)
  <2>1. PICK v : v = Fresh("revoke")
    OBVIOUS
  <2>2. v \in Work /\ v.op = "revoke" /\ v.inPass /\ ~v.was /\ v.users = {} /\ v.found = {}
    BY <2>1, FreshType DEF PassOps
  <2>3. PICK w : w = [v EXCEPT !.user = grant[d].user, !.grant = d]
    OBVIOUS
  <2>4. grant[d].state # "none" /\ grant[d].user \in User
    BY <1>3 DEF StartRevoke, Row, TypeInv, RowsOK
  <2>5. /\ w \in Work /\ w.op = "revoke" /\ w.inPass /\ ~w.was /\ w.users = {} /\ w.found = {}
        /\ w.user = grant[d].user /\ w.grant = d
    BY <2>2, <2>3, <2>4 DEF Work
  <2>6. Begin(h, "list", w)
    BY <1>3, <2>1, <2>3 DEF StartRevoke
  <2> QED BY <1>f, <2>4, <2>5, <2>6 DEF One, PassOps
<1>4. ASSUME NEW u \in User, StartPushUser(h, u) PROVE Goes(h)
  <2>1. PICK v : v = Fresh("pushUser")
    OBVIOUS
  <2>2. v \in Work /\ v.op = "pushUser" /\ v.inPass /\ ~v.was /\ v.users = {} /\ v.found = {}
    BY <2>1, FreshType DEF PassOps
  <2>3. PICK w : w = [v EXCEPT !.user = u]
    OBVIOUS
  <2>4. w \in Work /\ w.op = "pushUser" /\ w.inPass /\ ~w.was /\ w.users = {} /\ w.found = {} /\ w.user = u
    BY <2>2, <2>3 DEF Work
  <2>5. Begin(h, "list", w)
    BY <1>4, <2>1, <2>3 DEF StartPushUser
  <2> QED BY <1>f, <2>4, <2>5 DEF One, PassOps
<1>5. ASSUME NEW op \in {"pushAll", "drift"}, StartPushAll(h, op) PROVE Goes(h)
    BY <1>5, <1>f, FreshType DEF StartPushAll, PassOps, One
<1>6. ASSUME NEW g \in Group, StartPushGroup(h, g) PROVE Goes(h)
  <2>1. PICK v : v = Fresh("pushGroup")
    OBVIOUS
  <2>2. v \in Work /\ v.op = "pushGroup" /\ v.inPass /\ ~v.was /\ v.users = {} /\ v.found = {} /\ v.user = NoUser
    BY <2>1, FreshType DEF PassOps
  <2>3. PICK w : w = [v EXCEPT !.group = g]
    OBVIOUS
  <2>4. w \in Work /\ w.op = "pushGroup" /\ w.inPass /\ ~w.was /\ w.users = {} /\ w.found = {} /\ w.user = NoUser
    BY <2>2, <2>3 DEF Work
  <2>5. Begin(h, "list", w)
    BY <1>6, <2>1, <2>3 DEF StartPushGroup
  <2> QED BY <1>f, <2>4, <2>5 DEF One, PassOps
<1>7. ASSUME NEW g \in Group, ChangeRoutes(h, g) PROVE Goes(h)
  <2>1. PICK w : w = [NoWork EXCEPT !.op = "routes", !.group = g]
    OBVIOUS
  <2>2. w \in Work /\ w.op = "routes" /\ ~w.inPass /\ w.found = {} /\ w.user = NoUser
    BY <2>1, Nulls DEF Work, AllOperations
  <2>3. Begin(h, "users", w)
    BY <1>7, <2>1 DEF ChangeRoutes
  <2>4. PlaceOK("users", w)' /\ "users" \in PC
    BY <2>2 DEF PlaceOK, One, Scope, SyncStep, PC, MainStep
  <2> QED BY <1>b, <2>2, <2>3, <2>4
<1>8. ASSUME NEW us \in SUBSET User, StartBulk(h, us) PROVE Goes(h)
  <2>1. PICK w : w = [NoWork EXCEPT !.op = "bulk", !.users = us]
    OBVIOUS
  <2>2. w \in Work /\ w.op = "bulk" /\ ~w.inPass /\ w.found = {} /\ w.user = NoUser
    BY <2>1, Nulls DEF Work, AllOperations
  <2>3. Begin(h, "next", w)
    BY <1>8, <2>1 DEF StartBulk
  <2>4. PlaceOK("next", w)' /\ "next" \in PC
    BY <2>2 DEF PlaceOK, One, Scope, SyncStep, PC, MainStep
  <2> QED BY <1>b, <2>2, <2>3, <2>4
<1> QED BY <1>1, <1>2, <1>3, <1>4, <1>5, <1>6, <1>7, <1>8 DEF Start

LEMMA TypeInitially == Init => TypeInv
<1> SUFFICES ASSUME Init PROVE TypeInv
    OBVIOUS
<1>1. DataOK
  <2>1. scene.groups \in SUBSET Group
    BY SceneAssumption DEF Init
  <2> QED BY <2>1, Nulls DEF Init, DataOK, SyncStatus
<1>2. RowsOK
    BY Nulls DEF Init, RowsOK, NoRow
<1>3. HandlersOK /\ Apart
    BY Nulls DEF Init, HandlersOK, Apart
<1>4. PlacesOK
    BY Nulls DEF Init, PlacesOK, PlaceOK, SyncStep
<1> QED BY <1>1, <1>2, <1>3, <1>4 DEF TypeInv

LEMMA TypeStep == TypeInv /\ [Next]_vars => TypeInv'
<1> SUFFICES ASSUME TypeInv, [Next]_vars PROVE TypeInv'
    OBVIOUS
<1>d. DataOK' /\ RowsOK' /\ Grows
    BY DataStep
<1>1. ASSUME NEW h \in Handler, Start(h) \/ Continue(h) PROVE TypeInv'
    BY <1>d, <1>1, StartGoes, ControlStep, KeepsGoes, HandlerStep
<1>2. CASE UNCHANGED <<pc, work>>
  <2>1. HandlersOK' /\ Apart'
    BY <1>2 DEF TypeInv, HandlersOK, Apart, Scope
  <2>2. PlacesOK'
    <3> SUFFICES ASSUME NEW h \in Handler PROVE PlaceOK(pc[h], work[h])'
        BY DEF PlacesOK
    <3>1. PICK l, w : l = pc[h] /\ w = work[h]
      OBVIOUS
    <3>2. w \in Work /\ PlaceOK(l, w)
      BY <3>1 DEF TypeInv, PlacesOK, HandlersOK
    <3>3. PlaceOK(l, w)'
      BY <1>d, <3>2, PlaceStays
    <3> QED BY <1>2, <3>1, <3>3
  <2> QED BY <1>d, <2>1, <2>2 DEF TypeInv
<1>3. CASE Crash
  <2>1. pc' = [h \in Handler |-> "idle"] /\ work' = [h \in Handler |-> NoWork]
    BY <1>3 DEF Crash
  <2>2. HandlersOK' /\ Apart'
    BY <2>1, Nulls DEF HandlersOK, Apart
  <2>3. PlacesOK'
    BY <2>1, Nulls DEF PlacesOK, PlaceOK, SyncStep
  <2> QED BY <1>d, <2>2, <2>3 DEF TypeInv
<1> QED BY <1>1, <1>2, <1>3 DEF Next, vars, ChangeMember, ToggleUser, DeleteGroup, Expire

LEMMA TypeInvariant == Spec => []TypeInv
BY TypeInitially, TypeStep, PTL DEF Spec

\* The rows, the files and what handlers have read always have their types,
\* whether handlers of one user overlap or not: the routes of temporary access and
\* the pushes, all of which write files with src/lib/ccd-generator.ts.
THEOREM CcdTypeCorrect == Spec => []TypeOK
<1>1. TypeInv => TypeOK
    BY DEF TypeInv, DataOK, HandlersOK, TypeOK
<1> QED BY <1>1, TypeInvariant, PTL

-----------------------------------------------------------------------------

\* What keeps a user from having two grants of a group: there is none when a grant
\* is made, and no other when one that was valid is to be made active again.
Alone(l, w) ==
    /\ l \in {"enable", "create"} => \A e \in Grant : ~Holds(e, w.user, w.group)
    /\ l # "idle" /\ w.op = "revoke" /\ w.was =>
           w.grant \in expired \/ \A e \in Grant \ {w.grant} : ~Holds(e, w.user, grant[w.grant].group)

DupInv == ~Overlap => NoDuplicateGrant /\ \A h \in Handler : Alone(pc[h], work[h])

\* The only steps after which a user holds what it did not hold.
Grants(h, e, u, g) ==
    /\ pc[h] # "idle" /\ work[h].user = u
    /\ \A d \in Grant \ {e} : grant'[d] = grant[d]
    /\ \/ pc[h] = "create" /\ work[h].op = "grant" /\ work[h].group = g
       \/ /\ pc[h] = "restore" /\ work[h].op = "revoke" /\ e = work[h].grant /\ work[h].was
          /\ grant[e].group = g /\ e \notin expired /\ Restore(h) /\ ~work[h].inPass

LEMMA HoldsStep ==
    ASSUME TypeInv, [Next]_vars, NEW e \in Grant, NEW u, NEW g, Holds(e, u, g)', ~Holds(e, u, g)
    PROVE  \E h \in Handler : Grants(h, e, u, g) /\ Continue(h)
<1>1. /\ grant'[e].state = "active" /\ grant'[e].user = u /\ grant'[e].group = g /\ e \notin expired'
      /\ e \notin expired
    BY DataStep DEF Holds, Valid, Active, Grows
<1>2. ~(grant'[e] = grant[e])
    BY <1>1 DEF Holds, Valid, Active
<1>3. ASSUME NEW d, NEW s, SetState(d, s) PROVE e = d /\ s = "active" /\ \A x \in Grant \ {e} : grant'[x] = grant[x]
  <2>1. PICK row : row = grant[e]
    OBVIOUS
  <2>2. row \in TemporaryAccess /\ grant' = [grant EXCEPT ![d].state = s] /\ grant \in [Grant -> TemporaryAccess]
    BY <1>3, <2>1 DEF SetState, TypeInv, DataOK
  <2>3. e = d
    BY <1>2, <2>2
  <2>4. grant'[e] = [row EXCEPT !.state = s]
    BY <2>1, <2>2, <2>3
  <2>5. s = "active"
    BY <1>1, <2>2, <2>4 DEF TemporaryAccess
  <2> QED BY <2>2, <2>3, <2>5
<1>4. ASSUME NEW h \in Handler, Continue(h) PROVE Grants(h, e, u, g)
  <2>1. PICK w : w = work[h]
    OBVIOUS
  <2>2. w \in Work /\ PlaceOK(pc[h], w)
    BY <2>1 DEF TypeInv, HandlersOK, PlacesOK
  <2>3. CASE Restore(h)
    <3>1. CASE w.inPass
      <4>1. w.due \in expired
        BY <2>2, <2>3, <3>1 DEF Restore, PlaceOK
      <4>2. SetState(w.due, "active") \/ UNCHANGED grant
        BY <2>1, <2>3, <3>1 DEF Restore
      <4> QED BY <1>1, <1>2, <1>3, <4>1, <4>2
    <3>2. CASE ~w.inPass
      <4>1. w.op = "revoke" /\ w.grant \in Grant /\ grant[w.grant].user = w.user /\ grant[w.grant].state # "none"
        BY <2>2, <2>3, <3>2 DEF Restore, PlaceOK
      <4>2. SetState(w.grant, IF w.was THEN "active" ELSE "inactive")
        BY <1>2, <2>1, <2>3, <3>2 DEF Restore
      <4>3. e = w.grant /\ w.was /\ \A x \in Grant \ {e} : grant'[x] = grant[x]
        BY <1>3, <4>2
      <4>4. grant'[e].user = grant[e].user /\ grant'[e].group = grant[e].group
        BY <4>1, <4>3, DataStep DEF Grows
      <4>5. u = w.user /\ g = grant[e].group
        BY <1>1, <4>1, <4>3, <4>4
      <4>6. pc[h] = "restore"
        BY <2>3 DEF Restore
      <4> QED BY <1>1, <2>1, <2>3, <3>2, <4>1, <4>3, <4>5, <4>6 DEF Grants
    <3> QED BY <3>1, <3>2
  <2>4. CASE CreateGrant(h)
    <3>1. PICK d, row : /\ d \in Unborn
                        /\ row = [state |-> "active", user |-> w.user, group |-> w.group]
                        /\ grant' = [grant EXCEPT ![d] = row]
      BY <1>2, <2>1, <2>4, ZenonT(30) DEF CreateGrant
    <3>2. e = d
      BY <1>2, <3>1 DEF TypeInv, DataOK
    <3>3. grant'[e] = row /\ \A x \in Grant \ {e} : grant'[x] = grant[x]
      BY <3>1, <3>2 DEF TypeInv, DataOK
    <3>4. pc[h] = "create" /\ w.op = "grant"
      BY <2>2, <2>4 DEF CreateGrant, PlaceOK
    <3> QED BY <1>1, <2>1, <3>1, <3>3, <3>4 DEF Grants
  <2>5. UNCHANGED grant \/ Restore(h) \/ CreateGrant(h) \/ \E d, s : SetState(d, s) /\ s \in {"inactive", "gone"}
    BY <1>4 DEF Continue, PassNext, SyncNext, LoopNext, GrantNext, DatabaseError, ListExpired, WriteAudit, ReadUser,
                Generate, ListUsers, TakeUser, ReadAccount, CheckGrant, ReadGrant, MarkPending, MarkFailed, MarkSuccess,
                MarkAffected, Write, WriteFails, WriteThrows, EnableUser, UndoGrant, Revoke, Deactivate
  <2> QED BY <1>2, <1>3, <2>3, <2>4, <2>5
<1>5. ~\E h \in Handler : Start(h)
    BY <1>2 DEF Start, StartPass, StartGrant, StartRevoke, StartPushUser, StartPushAll, StartPushGroup, StartBulk,
                ChangeRoutes
<1>6. ~\E k \in Group : DeleteGroup(k)
  <2> SUFFICES ASSUME NEW k \in Group, DeleteGroup(k) PROVE FALSE
      OBVIOUS
  <2>1. PICK row : row = grant[e]
    OBVIOUS
  <2>2. row \in TemporaryAccess /\ grant'[e] = [row EXCEPT !.state = "gone"]
    BY <1>2, <2>1 DEF DeleteGroup, TypeInv, DataOK
  <2> QED BY <1>1, <2>2 DEF TemporaryAccess
<1> QED BY <1>2, <1>4, <1>5, <1>6 DEF Next, vars, ChangeMember, ToggleUser, Expire, Crash

\* A handler that gives a user something is the only one at work on it.
LEMMA GrantsAlone ==
    ASSUME TypeInv, ~Overlap, NEW h \in Handler, NEW k \in Handler, NEW e, NEW u \in User, NEW g,
           Grants(h, e, u, g), pc[k] # "idle", work[k].user = u
    PROVE  k = h
BY DEF TypeInv, Apart, Grants, Scope

LEMMA DupStep == TypeInv /\ TypeInv' /\ DupInv /\ [Next]_vars => DupInv'
<1> SUFFICES ASSUME TypeInv, TypeInv', DupInv, [Next]_vars, ~Overlap
             PROVE  NoDuplicateGrant' /\ \A h \in Handler : Alone(pc[h], work[h])'
    BY DEF DupInv
<1>g. Grows
    BY DataStep
<1>1. ASSUME NEW d \in Grant, NEW e \in Grant, NEW u, NEW g, Holds(d, u, g)', Holds(e, u, g)', d # e, ~Holds(d, u, g)
      PROVE  FALSE
  <2>1. PICK h \in Handler : Grants(h, d, u, g) /\ Continue(h)
    BY <1>1, HoldsStep
  <2>2. Holds(e, u, g)
    <3>1. grant'[e] = grant[e]
      BY <1>1, <2>1 DEF Grants
    <3> QED BY <1>1, <1>g, <3>1 DEF Holds, Valid, Active, Grows
  <2>3. Alone(pc[h], work[h])
    BY DEF DupInv
  <2> QED BY <1>1, <2>1, <2>2, <2>3 DEF Grants, Alone
<1>2. NoDuplicateGrant'
  <2> SUFFICES ASSUME NEW d \in Grant, NEW e \in Grant, NEW u, NEW g, Holds(d, u, g)', Holds(e, u, g)'
               PROVE  d = e
      BY DEF NoDuplicateGrant, Holds
  <2>1. Holds(d, u, g) /\ Holds(e, u, g) => d = e
    BY DEF DupInv, NoDuplicateGrant, Holds
  <2> QED BY <1>1, <2>1
<1>3. ASSUME NEW k \in Handler, NEW l, NEW w \in Work, PlaceOK(l, w), Alone(l, w), l = pc[k], w = work[k], ~Continue(k)
      PROVE  Alone(l, w)'
  <2>1. ASSUME NEW e \in Grant, NEW g, ~Holds(e, w.user, g), l # "idle", w.user \in User
        PROVE  ~Holds(e, w.user, g)'
    BY <1>3, <2>1, HoldsStep, GrantsAlone
  <2>2. ASSUME l \in {"enable", "create"}, NEW e \in Grant PROVE ~Holds(e, w.user, w.group)'
    <3>1. w.user \in User /\ ~Holds(e, w.user, w.group)
      BY <1>3, <2>2 DEF PlaceOK, One, Alone
    <3> QED BY <2>1, <2>2, <3>1
  <2>3. ASSUME l # "idle", w.op = "revoke", w.was, w.grant \notin expired', NEW e \in Grant \ {w.grant}
        PROVE  ~Holds(e, w.user, grant[w.grant].group)'
    <3>1. PICK g : g = grant[w.grant].group
      OBVIOUS
    <3>2. w.user \in User /\ w.grant \in Grant /\ grant[w.grant].state # "none"
      BY <1>3, <2>3 DEF PlaceOK, One
    <3>3. grant'[w.grant].group = g /\ w.grant \notin expired
      BY <1>g, <2>3, <3>1, <3>2 DEF Grows
    <3>4. ~Holds(e, w.user, g)
      BY <1>3, <2>3, <3>1, <3>3 DEF Alone
    <3>5. ~Holds(e, w.user, g)'
      BY <2>1, <2>3, <3>2, <3>4
    <3> QED BY <3>3, <3>5 DEF Holds
  <2> QED BY <2>2, <2>3 DEF Alone
<1>4. ASSUME NEW k \in Handler, Start(k) PROVE Alone(pc[k], work[k])'
  <2>1. pc'[k] \in {"list", "users", "next"}
    BY <1>4 DEF Start, StartPass, StartGrant, StartRevoke, StartPushUser, StartPushAll, StartPushGroup, StartBulk,
                ChangeRoutes, Begin, Goto, TypeInv, HandlersOK
  <2>2. PlaceOK(pc[k], work[k])'
    BY DEF TypeInv, PlacesOK
  <2> QED BY <2>1, <2>2 DEF PlaceOK, Alone, One
<1>5. ASSUME NEW k \in Handler, Continue(k) PROVE Alone(pc[k], work[k])'
  <2>1. PICK l, w : l = pc[k] /\ w = work[k]
    OBVIOUS
  <2>2. w \in Work /\ PlaceOK(l, w) /\ Alone(l, w)
    BY <2>1 DEF TypeInv, HandlersOK, PlacesOK, DupInv
  <2>g. ASSUME NEW m, NEW v, Goto(k, m, v) PROVE pc'[k] = m /\ work'[k] = v
    BY <2>g DEF Goto, TypeInv, HandlersOK
  <2>f. ASSUME Finish(k) PROVE Alone(pc[k], work[k])'
    BY <2>f, <2>g DEF Finish, Alone
  <2>h. ASSUME UNCHANGED <<grant, expired>>, NEW e, NEW u, NEW g PROVE Holds(e, u, g)' <=> Holds(e, u, g)
    BY <2>h DEF Holds, Valid, Active
  <2>3. CASE Keeps(k)
    <3>1. PICK m, v : /\ m \in PC \ {"enable", "create"} /\ v \in Work /\ Goto(k, m, v)
                      /\ m = "idle" \/ (l # "idle" /\ Kept(w, v))
      BY <2>1, <2>3 DEF Keeps
    <3>2. pc'[k] = m /\ work'[k] = v
      BY <2>g, <3>1
    <3>3. ASSUME m # "idle", w.op = "revoke", w.was, w.grant \notin expired', NEW e \in Grant \ {w.grant},
                 Holds(e, w.user, grant[w.grant].group)'
          PROVE  FALSE
      <4>1. PICK g : g = grant[w.grant].group
        OBVIOUS
      <4>2. l # "idle" /\ w.user \in User /\ w.grant \in Grant /\ grant[w.grant].state # "none"
        BY <2>2, <3>1, <3>3 DEF PlaceOK, One
      <4>3. grant'[w.grant].group = g /\ w.grant \notin expired
        BY <1>g, <3>3, <4>1, <4>2 DEF Grows
      <4>4. ~Holds(e, w.user, g) /\ Holds(e, w.user, g)'
        BY <2>2, <3>3, <4>1, <4>2, <4>3 DEF Alone, Holds
      <4>5. Grants(k, e, w.user, g)
        BY <2>1, <4>2, <4>4, HoldsStep, GrantsAlone
      <4> QED BY <2>1, <3>3, <4>5 DEF Grants
    <3> QED BY <3>1, <3>2, <3>3 DEF Alone, Kept
  <2>4. CASE CheckGrant(k)
    <3>1. PICK v : v = [w EXCEPT !.on = FALSE]
      OBVIOUS
    <3>2. v.user = w.user /\ v.group = w.group /\ v.op = w.op
      BY <2>2, <3>1 DEF Work
    <3>3. /\ Finish(k) \/ (~(\E e \in Grant : Holds(e, w.user, w.group)) /\ \E m : Goto(k, m, v))
          /\ UNCHANGED <<grant, expired>> /\ w.op = "grant"
      BY <2>1, <2>2, <2>4, <3>1 DEF CheckGrant, PlaceOK
    <3>4. ASSUME ~\E e \in Grant : Holds(e, w.user, w.group), NEW m, Goto(k, m, v) PROVE Alone(pc[k], work[k])'
      BY <2>g, <2>h, <3>2, <3>3, <3>4 DEF Alone
    <3> QED BY <2>f, <3>3, <3>4
  <2>5. CASE EnableUser(k)
    <3>1. Goto(k, "create", w) /\ UNCHANGED <<grant, expired>> /\ l = "enable" /\ w.op = "grant"
      BY <2>1, <2>2, <2>5 DEF EnableUser, PlaceOK
    <3> QED BY <2>2, <2>g, <2>h, <3>1 DEF Alone
  <2>6. CASE CreateGrant(k)
    <3>1. w.op = "grant" /\ (Finish(k) \/ \E d \in Grant : Goto(k, "read", [w EXCEPT !.grant = d]))
      BY <2>1, <2>2, <2>6 DEF CreateGrant, PlaceOK, Unborn
    <3>2. ASSUME NEW d \in Grant, NEW v, v = [w EXCEPT !.grant = d], Goto(k, "read", v) PROVE Alone(pc[k], work[k])'
      <4>1. v.op = "grant"
        BY <2>2, <3>1, <3>2 DEF Work
      <4>2. pc'[k] = "read" /\ work'[k] = v
        BY <2>g, <3>2
      <4> QED BY <4>1, <4>2 DEF Alone
    <3> QED BY <2>f, <3>1, <3>2
  <2>7. CASE ReadGrant(k)
    <3>1. PICK v : v = [w EXCEPT !.was = Active(w.grant)]
      OBVIOUS
    <3>2. v.user = w.user /\ v.grant = w.grant /\ v.was = Active(w.grant)
      BY <2>2, <3>1 DEF Work
    <3>3. (Finish(k) \/ Goto(k, "revoke", v)) /\ UNCHANGED <<grant, expired>> /\ w.op = "revoke"
      BY <2>1, <2>2, <2>7, <3>1 DEF ReadGrant, PlaceOK
    <3>4. w.grant \in Grant /\ grant[w.grant].user = w.user
      BY <2>2, <3>3 DEF PlaceOK
    <3>5. ASSUME Active(w.grant), w.grant \notin expired, NEW e \in Grant \ {w.grant}
          PROVE  ~Holds(e, w.user, grant[w.grant].group)
      BY <3>4, <3>5 DEF DupInv, NoDuplicateGrant, Valid
    <3>6. ASSUME Goto(k, "revoke", v) PROVE Alone(pc[k], work[k])'
      BY <2>g, <2>h, <3>2, <3>3, <3>5, <3>6 DEF Alone
    <3> QED BY <2>f, <3>3, <3>6
  <2> QED BY <1>5, <1>g, <2>3, <2>4, <2>5, <2>6, <2>7, ControlStep
<1>6. ASSUME NEW k \in Handler PROVE Alone(pc[k], work[k])'
  <2>1. PICK l, w : l = pc[k] /\ w = work[k]
    OBVIOUS
  <2>2. w \in Work /\ PlaceOK(l, w) /\ Alone(l, w)
    BY <2>1 DEF TypeInv, HandlersOK, PlacesOK, DupInv
  <2>3. CASE ~Start(k) /\ ~Continue(k)
    <3>1. Alone(l, w)'
      BY <1>3, <2>1, <2>2, <2>3
    <3>2. pc'[k] = "idle" \/ (pc'[k] = l /\ work'[k] = w)
      <4>1. ASSUME NEW h \in Handler \ {k}, Start(h) \/ Continue(h) PROVE pc'[k] = l /\ work'[k] = w
        <5>1. Goes(h)
          BY <1>g, <4>1, StartGoes, ControlStep, KeepsGoes
        <5> QED BY <2>1, <5>1, GotoOnly DEF Goes, TypeInv
      <4> QED BY <2>1, <2>3, <4>1 DEF Next, vars, ChangeMember, ToggleUser, DeleteGroup, Expire, Crash
    <3>3. CASE pc'[k] = "idle"
      BY <3>3 DEF Alone
    <3> QED BY <3>1, <3>2, <3>3
  <2> QED BY <1>4, <1>5, <2>3
<1> QED BY <1>2, <1>6

\* A user has one valid grant of a group at a time, while handlers of one user do
\* not overlap: POST /api/users/[id]/temporary-access looks before it creates, and a
\* revocation that fails makes the grant active again that it found so.
THEOREM OneGrant == Spec => []NoDuplicateGrant
<1>1. Init => DupInv
  <2> SUFFICES ASSUME Init PROVE NoDuplicateGrant /\ \A h \in Handler : Alone(pc[h], work[h])
      BY DEF DupInv
  <2>1. \A d \in Grant : ~Valid(d)
    BY Nulls DEF Init, Valid, Active
  <2>2. NoDuplicateGrant
    BY <2>1 DEF NoDuplicateGrant
  <2>3. \A h \in Handler : Alone(pc[h], work[h])
    BY DEF Init, Alone
  <2> QED BY <2>2, <2>3
<1>2. DupInv => NoDuplicateGrant
    BY DEF DupInv, NoDuplicateGrant
<1> QED BY <1>1, <1>2, DupStep, TypeInvariant, PTL DEF Spec

-----------------------------------------------------------------------------

\* A scene in which memberships and groups stay, and only writes fail, the
\* application noticing.
Quiet == scene.operations \cap {"member", "deleteGroup"} = {} /\ scene.faults \subseteq {"reject", "late"}

\* Content that is right for a user.
Fits(u, f) == Routes(u) \subseteq f /\ Groups(f) \subseteq Held(u)

\* A handler is about to mark the user PENDING: it has changed what the user
\* holds, or the routes of a group, which are all that is out of date then.
Owing(l, w, u) ==
    \/ l \in {"read", "mark"} /\ w.who = u
    \/ l = "next" /\ w.op = "routes" /\ u \in w.users
    \/ /\ l = "users" /\ w.op = "routes"
       /\ {r \in Routes(u) : r[1] # w.group} \subseteq file[u] /\ Groups(file[u]) \subseteq Held(u)

\* What a handler is about to write is right, and so is what it is about to record
\* as such; one that may have to take a change back has marked the user.
Marked(l, w) ==
    l \in {"generate", "write", "failed", "undo", "restore"} /\ (w.inPass \/ w.op \in {"grant", "revoke"}) =>
        ccd[w.who] # "SUCCESS"
FilePlace(l, w) ==
    /\ l = "write" => Fits(w.who, w.content)
    /\ l = "success" => Fits(w.who, file[w.who])
    /\ Marked(l, w)

Accounted(u) ==
    ccd[u] = "SUCCESS" => Fits(u, file[u]) \/ \E h \in Handler : Owing(pc[h], work[h], u)

FileInv ==
    Quiet /\ ~Overlap =>
        /\ \A u \in User : Accounted(u)
        /\ \A h \in Handler : FilePlace(pc[h], work[h])

\* What keeps content right.
Steady(u) ==
    /\ Routes(u)' \subseteq Routes(u) /\ Held(u) \subseteq Held(u)'
    /\ file'[u] = file[u] /\ (ccd'[u] = "SUCCESS" => ccd[u] = "SUCCESS")

LEMMA FitsStays == ASSUME NEW u, NEW f, Steady(u), Fits(u, f) PROVE Fits(u, f)'
BY DEF Steady, Fits, Groups

LEMMA FitsRows ==
    ASSUME NEW u, UNCHANGED <<group, routes, member>>, expired \subseteq expired',
           \A d \in Grant : (grant[d].user = u \/ grant'[d].user = u) => grant'[d] = grant[d]
    PROVE  Routes(u)' \subseteq Routes(u) /\ Held(u) \subseteq Held(u)'
<1>1. GroupsOf(u)' \subseteq GroupsOf(u)
    BY DEF GroupsOf, Valid, Active
<1>2. Held(u) \subseteq Held(u)'
    BY DEF Held, Active
<1> QED BY <1>1, <1>2 DEF Routes

\* What else a step may do: it gives to or takes from the user, writes its file,
\* or records it as written.
Touches(h, u) ==
    \/ \E g \in Group : ChangeRoutes(h, g)
    \/ (CreateGrant(h) \/ Revoke(h) \/ UndoGrant(h)) /\ work[h].user = u /\ grant' # grant
    \/ Restore(h) /\ work[h].who = u
    \/ \E d \in work[h].found : Deactivate(h, d) /\ grant' # grant /\ grant[d].user = u
    \/ (Write(h) \/ WriteFails(h) \/ WriteThrows(h)) /\ Put(h) /\ work[h].who = u
    \/ MarkSuccess(h) /\ work[h].who = u

LEMMA Untouched ==
    ASSUME TypeInv, [Next]_vars, Quiet, NEW u \in User
    PROVE  Steady(u) \/ \E h \in Handler : (Start(h) \/ Continue(h)) /\ Touches(h, u)
<1>g. Grows
    BY DataStep
<1>a. ASSUME UNCHANGED <<group, routes, member, grant, ccd, file>> PROVE Steady(u)
    BY <1>a, <1>g, FitsRows DEF Steady, Grows
<1>r. ASSUME NEW d, NEW s, SetState(d, s), grant[d].user # u, UNCHANGED <<access, ccd, file>> PROVE Steady(u)
  <2>1. grant' = [grant EXCEPT ![d].state = s]
    BY <1>r DEF SetState
  <2>2. \A e \in Grant : grant'[e].user = grant[e].user /\ (e # d => grant'[e] = grant[e])
    BY <2>1 DEF TypeInv, DataOK, TemporaryAccess
  <2>3. Routes(u)' \subseteq Routes(u) /\ Held(u) \subseteq Held(u)'
    BY <1>g, <1>r, <2>2, FitsRows DEF access, Grows
  <2> QED BY <1>r, <2>3 DEF Steady
<1>c. ASSUME NEW v, NEW s, SetSync(v, s), s # "SUCCESS" \/ v # u, UNCHANGED <<access, grant, file>> PROVE Steady(u)
  <2>1. ccd'[u] = "SUCCESS" => ccd[u] = "SUCCESS"
    BY <1>c DEF SetSync, TypeInv, DataOK
  <2> QED BY <1>c, <1>g, <2>1, FitsRows DEF Steady, access, Grows
<1>1. ASSUME NEW h \in Handler, Start(h) PROVE Steady(u) \/ Touches(h, u)
    BY <1>1, <1>a DEF Start, StartPass, StartGrant, StartRevoke, StartPushUser, StartPushAll,
                                  StartPushGroup, StartBulk, Touches, access
<1>2. ASSUME NEW h \in Handler, Continue(h) PROVE Steady(u) \/ Touches(h, u)
  <2>1. PICK w : w = work[h]
    OBVIOUS
  <2>2. w \in Work /\ PlaceOK(pc[h], w)
    BY <2>1 DEF TypeInv, HandlersOK, PlacesOK
  <2>3. CASE UNCHANGED <<access, grant, ccd, file>>
    BY <1>a, <2>3 DEF access
  <2>4. ASSUME NEW d \in work[h].found, Deactivate(h, d) PROVE Steady(u) \/ Touches(h, u)
    BY <1>r, <2>3, <2>4 DEF Deactivate, Touches
  <2>5. CASE Restore(h)
    <3>1. PICK d : d = IF w.inPass THEN w.due ELSE w.grant
      OBVIOUS
    <3>2. UNCHANGED <<access, ccd, file>> /\ (UNCHANGED grant \/ \E s : SetState(d, s)) /\ pc[h] = "restore"
      BY <2>1, <2>5, <3>1 DEF Restore
    <3>3. grant[d].user = w.who
      BY <2>2, <3>1, <3>2 DEF PlaceOK, One
    <3> QED BY <1>r, <2>1, <2>3, <2>5, <3>2, <3>3 DEF Touches
  <2>6. CASE Revoke(h) \/ UndoGrant(h)
    <3>1. grant[w.grant].user = w.user
      BY <2>1, <2>2, <2>6 DEF Revoke, UndoGrant, PlaceOK
    <3>2. UNCHANGED <<access, ccd, file>> /\ (UNCHANGED grant \/ \E s : SetState(w.grant, s))
      BY <2>1, <2>6 DEF Revoke, UndoGrant
    <3> QED BY <1>r, <2>1, <2>3, <2>6, <3>1, <3>2 DEF Touches
  <2>7. CASE CreateGrant(h)
    <3>1. CASE UNCHANGED grant
      BY <2>3, <2>7, <3>1 DEF CreateGrant
    <3>2. CASE ~UNCHANGED grant /\ w.user # u
      <4>1. PICK d, row : /\ d \in Unborn /\ row = [state |-> "active", user |-> w.user, group |-> w.group]
                          /\ grant' = [grant EXCEPT ![d] = row]
        BY <2>1, <2>7, <3>2 DEF CreateGrant
      <4>2. \A e \in Grant : grant'[e].user = u => grant'[e] = grant[e]
        BY <3>2, <4>1 DEF TypeInv, DataOK
      <4>3. \A e \in Grant : grant[e].user = u => grant'[e] = grant[e]
        <5>1. d \in Grant /\ grant[d].user # u
          BY <4>1 DEF Unborn, TypeInv, RowsOK
        <5> QED BY <4>1, <5>1 DEF TypeInv, DataOK
      <4> QED BY <1>g, <2>7, <4>2, <4>3, FitsRows DEF CreateGrant, Steady, access, Grows
    <3> QED BY <2>1, <2>7, <3>1, <3>2 DEF Touches
  <2>8. CASE MarkPending(h) \/ MarkFailed(h) \/ MarkSuccess(h) \/ \E v \in work[h].users : MarkAffected(h, v)
    BY <1>c, <2>8 DEF MarkPending, MarkFailed, MarkSuccess, MarkAffected, Touches
  <2>9. CASE Write(h) \/ WriteFails(h) \/ WriteThrows(h)
    <3>1. UNCHANGED <<access, ccd, grant>> /\ (UNCHANGED file \/ Put(h))
      BY <2>9 DEF Write, WriteFails, WriteThrows
    <3>2. Put(h) /\ w.who # u => file'[u] = file[u]
      BY <2>1 DEF Put, TypeInv, DataOK
    <3> QED BY <1>g, <2>1, <2>3, <2>9, <3>1, <3>2, FitsRows DEF Touches, Steady, access, Grows
  <2>10. CASE EnableUser(h)
    BY <1>a, <2>10 DEF EnableUser
  <2> QED BY <1>2, <2>3, <2>4, <2>5, <2>6, <2>7, <2>8, <2>9, <2>10
          DEF Continue, PassNext, SyncNext, LoopNext, GrantNext, DatabaseError, ListExpired, WriteAudit, ReadUser,
              Generate, ListUsers, TakeUser, ReadAccount, CheckGrant, ReadGrant
<1>3. ASSUME \/ \E v \in User : ToggleUser(v) \/ \E g \in Group : ChangeMember(v, g)
             \/ \E g \in Group : DeleteGroup(g)
             \/ \E d \in Grant : Expire(d)
             \/ Crash \/ UNCHANGED vars
      PROVE  Steady(u)
    BY <1>3, <1>a DEF ToggleUser, ChangeMember, DeleteGroup, Expire, Crash, vars, access, Quiet
<1> QED BY <1>1, <1>2, <1>3 DEF Next

\* A handler moves to a step, and what it brings there is right.
Fine(h) == \E l, v : Goto(h, l, v) /\ FilePlace(l, v)'

\* Steps that write nothing and take nothing back.
Idling == {"idle", "list", "deactivate", "read", "mark", "audit", "account", "check", "enable", "create", "snapshot",
           "revoke", "users", "next"}

LEMMA IdleFine == ASSUME NEW h, NEW l \in Idling, NEW v, Goto(h, l, v) PROVE Fine(h)
<1>1. FilePlace(l, v)'
    BY DEF FilePlace, Marked, Idling
<1> QED BY <1>1 DEF Fine

LEMMA NextUserFine == ASSUME NEW h, NEW w, NextUser(h, w) PROVE Fine(h)
BY IdleFine DEF NextUser, Finish, Idling

LEMMA DoneFine == ASSUME NEW h, Done(h) PROVE Fine(h)
BY IdleFine, NextUserFine DEF Done, Idling

LEMMA NextGrantFine == ASSUME NEW h, NEW w \in Work, w.op \in PassOps, NextGrant(h, w) PROVE Fine(h)
<1>1. PICK v : v = [w EXCEPT !.inPass = FALSE, !.due = NoGrant, !.who = w.user, !.on = FALSE]
    OBVIOUS
<1>2. v.op = w.op /\ ~v.inPass
    BY <1>1 DEF Work
<1>3. CASE w.found # {} \/ w.op = "pass"
    BY <1>3, IdleFine DEF NextGrant, Finish, Idling
<1>4. CASE w.found = {} /\ w.op = "pushUser"
  <2>1. Goto(h, "generate", v)
    BY <1>1, <1>4 DEF NextGrant, AfterPass
  <2>2. FilePlace("generate", v)'
    BY <1>2, <1>4 DEF FilePlace, Marked
  <2> QED BY <2>1, <2>2 DEF Fine
<1>5. CASE w.found = {} /\ w.op \notin {"pass", "pushUser"}
  <2>1. Goto(h, AfterPass(w.op), v)
    BY <1>1, <1>5 DEF NextGrant
  <2>2. AfterPass(w.op) \in {"account", "snapshot", "users"}
    BY <1>5 DEF AfterPass, PassOps
  <2> QED BY <2>1, <2>2, IdleFine DEF Idling
<1> QED BY <1>3, <1>4, <1>5

LEMMA ThrowFine ==
    ASSUME NEW h, NEW w \in Work, w = work[h], Throw(h),
           w.inPass \/ w.op \in {"grant", "revoke"} => ccd'[w.who] # "SUCCESS"
    PROVE  Fine(h)
<1>1. PICK v : v = [w EXCEPT !.content = {}]
    OBVIOUS
<1>2. v.op = w.op /\ v.inPass = w.inPass /\ v.who = w.who
    BY <1>1 DEF Work
<1>3. \A l \in {"undo", "restore", "failed"} : FilePlace(l, v)'
    BY <1>2 DEF FilePlace, Marked
<1>4. (\E l \in {"undo", "restore", "failed"} : Goto(h, l, v)) \/ NextUser(h, v) \/ Finish(h)
    BY <1>1 DEF Throw, Catch
<1> QED BY <1>3, <1>4, NextUserFine, IdleFine DEF Fine, Finish, Idling

\* What is right for a user depends on the rows alone.
LEMMA FitsSame ==
    ASSUME UNCHANGED <<access, grant, expired>>, NEW u
    PROVE  Routes(u)' = Routes(u) /\ Held(u)' = Held(u) /\ \A f : Fits(u, f)' <=> Fits(u, f)
<1>1. GroupsOf(u)' = GroupsOf(u) /\ Held(u)' = Held(u)
    BY DEF access, GroupsOf, Valid, Active, Held
<1> QED BY <1>1 DEF access, Routes, Fits, Groups

\* Content fits when it is generated.
LEMMA Generated == ASSUME NEW u PROVE Fits(u, Routes(u))
<1>1. \A g : <<g, routes[g]>>[1] = g
    OBVIOUS
<1>2. \A r \in Routes(u) : r[1] \in GroupsOf(u)
    BY <1>1 DEF Routes
<1>3. GroupsOf(u) \subseteq Held(u)
    BY DEF GroupsOf, Held, Valid
<1> QED BY <1>2, <1>3 DEF Fits, Groups

\* Nobody else is at work on a user whose rows or file a handler touches.
LEMMA TouchedAlone ==
    ASSUME TypeInv, ~Overlap, NEW h \in Handler, NEW k \in Handler, NEW u \in User, Start(h) \/ Continue(h), Touches(h, u),
           pc[k] # "idle", u \in Scope(work[k])
    PROVE  k = h
<1>1. PICK w : w = work[h]
    OBVIOUS
<1>2. w \in Work /\ PlaceOK(pc[h], w)
    BY <1>1 DEF TypeInv, HandlersOK, PlacesOK
<1>3. CASE \E g \in Group : ChangeRoutes(h, g)
  <2>2. \A g : [NoWork EXCEPT !.op = "routes", !.group = g].user = NoUser
    BY Nulls DEF NoWork
  <2>3. ~Busy(u)
    BY <1>3, <2>2 DEF ChangeRoutes, Begin, Scope
  <2> QED BY <2>3 DEF Busy
<1>4. CASE pc[h] # "idle" /\ u \in Scope(w)
    BY <1>1, <1>4 DEF TypeInv, Apart
<1>5. CASE (CreateGrant(h) \/ Revoke(h) \/ UndoGrant(h)) /\ w.user = u
    BY <1>1, <1>4, <1>5, NullAssumption DEF CreateGrant, Revoke, UndoGrant, Scope
<1>6. CASE Restore(h) /\ w.who = u
    BY <1>1, <1>2, <1>4, <1>6 DEF Restore, PlaceOK
<1>7. ASSUME NEW d \in w.found, Deactivate(h, d), grant[d].user = u PROVE k = h
    BY <1>1, <1>2, <1>4, <1>7 DEF Deactivate, PlaceOK
<1>8. CASE (Write(h) \/ WriteFails(h) \/ WriteThrows(h) \/ MarkSuccess(h)) /\ w.who = u
    BY <1>1, <1>2, <1>4, <1>8 DEF Write, WriteFails, WriteThrows, MarkSuccess, PlaceOK, SyncStep
<1> QED BY <1>1, <1>3, <1>5, <1>6, <1>7, <1>8 DEF Touches

LEMMA Tied == ASSUME Quiet, NEW h \in Handler PROVE ~DatabaseError(h) /\ ~Crash
BY DEF Quiet, DatabaseError, Crash

\* A handler in flight brings right content to its next step, and no failure finds
\* its user recorded as written.
LEMMA ContinueFine ==
    ASSUME TypeInv, Quiet, NEW h \in Handler, Continue(h), FilePlace(pc[h], work[h])
    PROVE  Fine(h)
<1>1. PICK w, l : w = work[h] /\ l = pc[h]
    OBVIOUS
<1>2. w \in Work /\ PlaceOK(l, w) /\ FilePlace(l, w)
    BY <1>1 DEF TypeInv, HandlersOK, PlacesOK
<1>n. ASSUME l \in {"restore", "audit"}, w.inPass, NextGrant(h, w) PROVE Fine(h)
    BY <1>2, <1>n, NextGrantFine DEF PlaceOK
<1>i. ASSUME NEW m \in Idling, NEW v, Goto(h, m, v) PROVE Fine(h)
    BY <1>i, IdleFine
<1>f. ASSUME Finish(h) PROVE Fine(h)
    BY <1>f, <1>i DEF Finish, Idling
<1>w. w.who \in User <=> w.who # NoUser
    BY <1>2, NullAssumption DEF Work
<1>s. l \in SyncStep => w.who \in User
    BY <1>2 DEF PlaceOK, Scope, Work
<1>3. CASE ListExpired(h)
  <2>1. PICK v : v = [w EXCEPT !.found = {d \in expired : Active(d) /\ grant[d].user \in Scope(w)}]
    OBVIOUS
  <2>2. NextGrant(h, v) /\ l = "list"
    BY <1>1, <1>3, <2>1 DEF ListExpired
  <2>3. v \in Work /\ v.op = w.op
    BY <1>2, <2>1 DEF Work, TypeInv, DataOK
  <2> QED BY <1>2, <2>2, <2>3, NextGrantFine DEF PlaceOK
<1>4. CASE Restore(h) \/ WriteAudit(h)
    BY <1>1, <1>4, <1>f, <1>n DEF Restore, WriteAudit
<1>5. CASE MarkPending(h)
  <2>1. ccd'[w.who] = "PENDING" /\ l = "mark"
    BY <1>1, <1>5, <1>s DEF MarkPending, SetSync, TypeInv, DataOK, SyncStep
  <2>2. CASE Throw(h)
    BY <1>1, <1>2, <2>1, <2>2, ThrowFine
  <2>3. CASE Done(h)
    BY <2>3, DoneFine
  <2>4. ASSUME NEW v, v = [w EXCEPT !.on = FALSE], Goto(h, "generate", v) PROVE Fine(h)
    <3>1. v.who = w.who
      BY <1>2, <2>4 DEF Work
    <3>2. FilePlace("generate", v)'
      BY <2>1, <3>1 DEF FilePlace, Marked
    <3> QED BY <2>4, <3>2 DEF Fine
  <2> QED BY <1>1, <1>5, <2>2, <2>3, <2>4 DEF MarkPending
<1>6. CASE Generate(h)
  <2>1. PICK v : v = [w EXCEPT !.content = Routes(w.who)]
    OBVIOUS
  <2>2. v.who = w.who /\ v.op = w.op /\ v.inPass = w.inPass /\ v.content = Routes(w.who)
    BY <1>2, <2>1 DEF Work
  <2>3. UNCHANGED <<access, grant, expired, ccd>> /\ l = "generate" /\ Goto(h, "write", v)
    BY <1>1, <1>6, <2>1 DEF Generate
  <2>4. Fits(w.who, Routes(w.who))'
    BY Generated, FitsSame, <2>3
  <2>5. Fits(v.who, v.content)'
    BY <2>2, <2>3, Generated, FitsSame
  <2>6. Marked("write", v)'
    BY <1>2, <2>2, <2>3 DEF FilePlace, Marked
  <2>7. FilePlace("write", v)'
    BY <2>5, <2>6 DEF FilePlace
  <2> QED BY <2>3, <2>7 DEF Fine
<1>7. CASE Write(h) \/ WriteFails(h)
  <2>1. PICK v : v = [w EXCEPT !.content = {}]
    OBVIOUS
  <2>2. v.who = w.who /\ v.op = w.op /\ v.inPass = w.inPass
    BY <1>2, <2>1 DEF Work
  <2>3. UNCHANGED <<access, grant, expired, ccd>> /\ l = "write" /\ Put(h)
    BY <1>1, <1>7 DEF Write, WriteFails, Quiet
  <2>4. Goto(h, "success", v) \/ (Goto(h, "failed", v) /\ ~(w.op \in Blind /\ ~w.inPass))
    BY <1>1, <1>7, <2>1 DEF Write, WriteFails, Written, IsBlind
  <2>5. file'[w.who] = w.content
    BY <1>1, <1>s, <2>3 DEF Put, TypeInv, DataOK, SyncStep
  <2>6. Fits(w.who, w.content)'
    BY <1>2, <2>3, FitsSame DEF FilePlace
  <2>7. FilePlace("success", v)'
    BY <2>2, <2>5, <2>6 DEF FilePlace, Marked
  <2>8. FilePlace("failed", v)'
    BY <1>2, <2>2, <2>3 DEF FilePlace, Marked
  <2> QED BY <2>4, <2>7, <2>8 DEF Fine
<1>8. CASE WriteThrows(h)
  <2>1. Throw(h) /\ l = "write" /\ UNCHANGED ccd
    BY <1>1, <1>8 DEF WriteThrows
  <2> QED BY <1>1, <1>2, <2>1, ThrowFine DEF FilePlace, Marked
<1>9. CASE MarkFailed(h)
  <2>1. ccd'[w.who] = "FAILED" /\ l = "failed"
    BY <1>1, <1>9, <1>s DEF MarkFailed, SetSync, TypeInv, DataOK, SyncStep
  <2> QED BY <1>1, <1>2, <1>9, <2>1, ThrowFine, NextUserFine DEF MarkFailed
<1>10. CASE MarkSuccess(h)
    BY <1>10, DoneFine DEF MarkSuccess
<1>11. CASE ListUsers(h) \/ \E u \in work[h].users : MarkAffected(h, u)
    BY <1>11, NextUserFine DEF ListUsers, MarkAffected
<1>12. ASSUME NEW u \in w.users, TakeUser(h, u) PROVE Fine(h)
  <2>1. PICK v : v = [w EXCEPT !.users = @ \ {u}, !.who = u]
    OBVIOUS
  <2>2. v.op = w.op /\ v.inPass = w.inPass
    BY <1>2, <2>1 DEF Work
  <2>3. l = "next" /\ (Goto(h, "read", v) \/ Goto(h, "generate", v))
    BY <1>1, <1>12, <2>1 DEF TakeUser
  <2>4. FilePlace("generate", v)'
    BY <1>2, <2>2, <2>3 DEF FilePlace, Marked, PlaceOK, One
  <2> QED BY <1>i, <2>3, <2>4 DEF Fine, Idling
<1>13. CASE ReadUser(h) \/ ReadAccount(h) \/ CheckGrant(h) \/ EnableUser(h) \/ CreateGrant(h) \/ UndoGrant(h)
            \/ ReadGrant(h) \/ Revoke(h) \/ \E d \in w.found : Deactivate(h, d)
    BY <1>13, <1>f, <1>i DEF ReadUser, ReadAccount, CheckGrant, EnableUser, CreateGrant, UndoGrant, ReadGrant, Revoke,
                             Deactivate, Idling
<1> QED BY <1>1, <1>3, <1>4, <1>5, <1>6, <1>7, <1>8, <1>9, <1>10, <1>11, <1>12, <1>13, Tied
        DEF Continue, PassNext, SyncNext, LoopNext, GrantNext

LEMMA SceneStays == [Next]_vars => scene' = scene
BY DEF Next, vars, Start, StartPass, StartGrant, StartRevoke, StartPushUser, StartPushAll, StartPushGroup, StartBulk,
       ChangeRoutes, Continue, PassNext, SyncNext, LoopNext, GrantNext, DatabaseError, ListExpired, WriteAudit, ReadUser,
       Generate, ListUsers, TakeUser, ReadAccount, CheckGrant, ReadGrant, MarkPending, MarkFailed, MarkSuccess,
       MarkAffected, Write, WriteFails, WriteThrows, EnableUser, CreateGrant, UndoGrant, Revoke, Deactivate, Restore,
       ChangeMember, ToggleUser, DeleteGroup, Expire, Crash

\* A handler that does not move stays where it was.
LEMMA Resting ==
    ASSUME TypeInv, [Next]_vars, Quiet, NEW k \in Handler, ~Start(k), ~Continue(k)
    PROVE  pc'[k] = pc[k] /\ work'[k] = work[k]
<1>g. Grows
    BY DataStep
<1>1. ASSUME NEW h \in Handler \ {k}, Start(h) \/ Continue(h) PROVE pc'[k] = pc[k] /\ work'[k] = work[k]
  <2>1. Goes(h)
    BY <1>g, <1>1, StartGoes, ControlStep, KeepsGoes
  <2> QED BY <2>1, GotoOnly DEF Goes, TypeInv
<1> QED BY <1>1, Tied DEF Next, vars, ChangeMember, ToggleUser, DeleteGroup, Expire

\* What handlers have read stays right, whatever the others do.
LEMMA PlaceStep ==
    ASSUME TypeInv, [Next]_vars, Quiet, ~Overlap, NEW k \in Handler, FilePlace(pc[k], work[k])
    PROVE  FilePlace(pc[k], work[k])'
<1>1. PICK w, l : w = work[k] /\ l = pc[k]
    OBVIOUS
<1>2. w \in Work /\ PlaceOK(l, w) /\ FilePlace(l, w)
    BY <1>1 DEF TypeInv, HandlersOK, PlacesOK
<1>3. CASE Start(k)
  <2>1. pc'[k] \in Idling
    BY <1>3 DEF Start, StartPass, StartGrant, StartRevoke, StartPushUser, StartPushAll, StartPushGroup, StartBulk,
                ChangeRoutes, Begin, Goto, TypeInv, HandlersOK, Idling
  <2> QED BY <2>1 DEF FilePlace, Marked, Idling
<1>4. CASE Continue(k)
  <2>1. PICK m, v : Goto(k, m, v) /\ FilePlace(m, v)'
    BY <1>4, ContinueFine DEF Fine
  <2>2. pc'[k] = m /\ work'[k] = v
    BY <2>1 DEF Goto, TypeInv, HandlersOK
  <2> QED BY <2>1, <2>2
<1>5. CASE ~Start(k) /\ ~Continue(k)
  <2>1. pc'[k] = l /\ work'[k] = w
    BY <1>1, <1>5, Resting
  <2>2. CASE l \in Idling
    BY <2>1, <2>2 DEF FilePlace, Marked, Idling
  <2>3. CASE l \notin Idling
    <3>1. w.who \in User /\ w.who \in Scope(w) /\ l # "idle"
      <4>1. l \in {"generate", "write", "failed", "success", "undo", "restore"}
        BY <1>1, <2>3 DEF TypeInv, HandlersOK, PC, SyncStep, PassStep, MainStep, Idling
      <4> QED BY <1>2, <4>1, NullAssumption DEF PlaceOK, Scope, One, Work, SyncStep
    <3>2. Steady(w.who)
      BY <1>1, <1>5, <3>1, Untouched, TouchedAlone
    <3>3. \A f : Fits(w.who, f) => Fits(w.who, f)'
      BY <3>2, FitsStays
    <3>4. FilePlace(l, w)'
      BY <1>2, <3>2, <3>3 DEF FilePlace, Marked, Steady
    <3> QED BY <2>1, <3>4
  <2> QED BY <2>2, <2>3
<1> QED BY <1>3, <1>4, <1>5

\* A handler that owes a mark is at work on the user.
LEMMA OwingBusy ==
    ASSUME TypeInv, NEW h \in Handler, NEW u \in User, Owing(pc[h], work[h], u)
    PROVE  pc[h] # "idle" /\ u \in Scope(work[h])
<1>1. PICK w, l : w = work[h] /\ l = pc[h]
    OBVIOUS
<1>2. w \in Work /\ PlaceOK(l, w) /\ Owing(l, w, u)
    BY <1>1 DEF TypeInv, HandlersOK, PlacesOK
<1>3. CASE l \in {"read", "mark"} /\ w.who = u
    BY <1>1, <1>2, <1>3 DEF PlaceOK, SyncStep
<1>4. CASE l \in {"users", "next"} /\ w.op = "routes"
  <2>1. w.user = NoUser
    BY <1>2, <1>4 DEF PlaceOK, One
  <2> QED BY <1>1, <1>4, <2>1 DEF Scope
<1> QED BY <1>2, <1>3, <1>4 DEF Owing

\* What is owed is paid, or stays owed, while the user is not touched.
LEMMA OwingStep ==
    ASSUME TypeInv, [Next]_vars, Quiet, NEW u \in User, Steady(u), NEW k \in Handler, Owing(pc[k], work[k], u),
           ccd'[u] = "SUCCESS"
    PROVE  Owing(pc[k], work[k], u)' \/ Fits(u, file[u])'
<1>1. PICK w, l : w = work[k] /\ l = pc[k]
    OBVIOUS
<1>2. w \in Work /\ PlaceOK(l, w) /\ Owing(l, w, u)
    BY <1>1 DEF TypeInv, HandlersOK, PlacesOK
<1>g. ASSUME NEW m, NEW v, Goto(k, m, v) PROVE pc'[k] = m /\ work'[k] = v
    BY <1>g DEF Goto, TypeInv, HandlersOK
<1>3. CASE ~Start(k) /\ ~Continue(k)
  <2>1. pc'[k] = l /\ work'[k] = w
    BY <1>1, <1>3, Resting
  <2>2. Owing(l, w, u)'
    BY <1>2 DEF Owing, Steady
  <2> QED BY <2>1, <2>2
<1>4. CASE Start(k)
    BY <1>1, <1>2, <1>4 DEF Start, StartPass, StartGrant, StartRevoke, StartPushUser, StartPushAll, StartPushGroup,
                            StartBulk, ChangeRoutes, Begin, Owing
<1>5. CASE Continue(k)
  <2>1. l \in {"read", "mark", "next", "users"}
    BY <1>2 DEF Owing
  <2>2. \/ ReadUser(k) \/ MarkPending(k) \/ ListUsers(k)
        \/ \E v \in w.users : TakeUser(k, v) \/ MarkAffected(k, v)
    BY <1>1, <1>5, <2>1, Tied
       DEF Continue, PassNext, SyncNext, LoopNext, GrantNext, ListExpired, WriteAudit, Restore, Deactivate,
           Generate, ReadAccount, CheckGrant, ReadGrant, MarkFailed, MarkSuccess,
           Write, WriteFails, WriteThrows, EnableUser, CreateGrant, UndoGrant, Revoke
  <2>3. CASE ReadUser(k)
    <3>1. PICK on : on = (w.who \in enabled)
      OBVIOUS
    <3>2. PICK v : v = [w EXCEPT !.on = on]
      OBVIOUS
    <3>3. v.who = w.who
      BY <1>2, <3>2 DEF Work
    <3>4. l = "read" /\ pc'[k] = "mark" /\ work'[k] = v
      BY <1>1, <1>g, <2>3, <3>1, <3>2 DEF ReadUser
    <3> QED BY <1>2, <3>3, <3>4 DEF Owing
  <2>4. CASE MarkPending(k)
    <3>1. w.who = u => ccd'[u] = "PENDING"
      BY <1>1, <2>4 DEF MarkPending, SetSync, TypeInv, DataOK
    <3>2. l = "mark" /\ w.who = u
      BY <1>1, <1>2, <2>4 DEF MarkPending, Owing
    <3> QED BY <3>1, <3>2
  <2>5. ASSUME NEW x \in w.users, MarkAffected(k, x) PROVE Owing(pc[k], work[k], u)'
    <3>1. l = "next" /\ w.op = "routes" /\ u \in w.users /\ u # x
      BY <1>1, <1>2, <2>5 DEF MarkAffected, SetSync, TypeInv, DataOK, Owing
    <3>2. PICK v : v = [w EXCEPT !.users = @ \ {x}]
      OBVIOUS
    <3>3. v.users = w.users \ {x} /\ v.op = "routes" /\ v \in Work /\ NextUser(k, v)
      BY <1>1, <1>2, <2>5, <3>1, <3>2 DEF Work, MarkAffected
    <3>4. PICK y : y = [v EXCEPT !.who = NoUser, !.on = FALSE]
      OBVIOUS
    <3>5. y.users = v.users /\ y.op = v.op /\ Goto(k, "next", y)
      BY <3>1, <3>3, <3>4 DEF Work, NextUser
    <3>6. pc'[k] = "next" /\ work'[k] = y
      BY <1>g, <3>5
    <3> QED BY <3>1, <3>3, <3>5, <3>6 DEF Owing
  <2>6. CASE ListUsers(k)
    <3>1. l = "users" /\ w.op = "routes"
      BY <1>1, <1>2, <2>6 DEF ListUsers, Owing
    <3>2. PICK v : v = [w EXCEPT !.users = Affected(w.group)]
      OBVIOUS
    <3>3. v.users = Affected(w.group) /\ v.op = "routes" /\ v \in Work /\ NextUser(k, v)
      BY <1>1, <1>2, <2>6, <3>1, <3>2 DEF Work, ListUsers, Affected
    <3>4. CASE u \in Affected(w.group)
      <4>1. PICK y : y = [v EXCEPT !.who = NoUser, !.on = FALSE]
        OBVIOUS
      <4>2. y.users = v.users /\ y.op = v.op /\ Goto(k, "next", y)
        BY <3>3, <3>4, <4>1 DEF Work, NextUser
      <4>3. pc'[k] = "next" /\ work'[k] = y
        BY <1>g, <4>2
      <4> QED BY <3>3, <3>4, <4>2, <4>3 DEF Owing
    <3>5. CASE u \notin Affected(w.group)
      <4>1. \A g : <<g, routes[g]>>[1] = g
        OBVIOUS
      <4>2. \A r \in Routes(u) : r[1] # w.group
        BY <3>5, <4>1 DEF Affected, Routes
      <4>3. Fits(u, file[u])
        BY <1>2, <3>1, <4>2 DEF Owing, Fits
      <4> QED BY <4>3, FitsStays DEF Steady
    <3> QED BY <3>4, <3>5
  <2>7. ASSUME NEW x \in w.users, TakeUser(k, x) PROVE FALSE
    BY <1>1, <1>2, <2>7 DEF TakeUser, Owing
  <2> QED BY <2>2, <2>3, <2>4, <2>5, <2>6, <2>7
<1> QED BY <1>3, <1>4, <1>5

\* A handler that touches a user does so to write right content, to record it, to
\* change what the user holds and owe the mark, or when the user is marked already.
LEMMA TouchStep ==
    ASSUME TypeInv, [Next]_vars, Quiet, ~Overlap, NEW u \in User, Accounted(u), NEW h \in Handler,
           FilePlace(pc[h], work[h]), Start(h) \/ Continue(h), Touches(h, u)
    PROVE  Accounted(u)'
<1>1. PICK w, l : w = work[h] /\ l = pc[h]
    OBVIOUS
<1>2. w \in Work /\ PlaceOK(l, w) /\ FilePlace(l, w)
    BY <1>1 DEF TypeInv, HandlersOK, PlacesOK
<1>g. ASSUME NEW m, NEW v, Goto(h, m, v) PROVE pc'[h] = m /\ work'[h] = v
    BY <1>g DEF Goto, TypeInv, HandlersOK
<1>o. ASSUME NEW m, NEW v, Goto(h, m, v), Owing(m, v, u)' PROVE Accounted(u)'
  <2>1. Owing(pc[h], work[h], u)'
    BY <1>g, <1>o
  <2> QED BY <2>1 DEF Accounted
<1>m. ASSUME ccd'[u] = ccd[u], ccd[u] # "SUCCESS" PROVE Accounted(u)'
    BY <1>m DEF Accounted
<1>3. ASSUME NEW g \in Group, ChangeRoutes(h, g) PROVE Accounted(u)'
  <2>1. PICK v : v = [NoWork EXCEPT !.op = "routes", !.group = g]
    OBVIOUS
  <2>2. v.op = "routes" /\ v.group = g /\ v.user = NoUser
    BY <2>1, Nulls DEF NoWork
  <2>3. Goto(h, "users", v) /\ ~Busy(u) /\ UNCHANGED <<group, member, enabled, ccd, grant, expired, file>>
    BY <1>3, <2>1, <2>2 DEF ChangeRoutes, Begin, Scope
  <2>4. CASE ccd[u] # "SUCCESS"
    BY <1>m, <2>3, <2>4
  <2>5. CASE ccd[u] = "SUCCESS"
    <3>1. Fits(u, file[u])
      BY <2>3, <2>5, OwingBusy DEF Accounted, Busy
    <3>2. Held(u)' = Held(u) /\ GroupsOf(u)' = GroupsOf(u) /\ Groups(file[u])' = Groups(file[u])
      BY <2>3 DEF Held, GroupsOf, Valid, Active, Groups
    <3>3. \A x \in GroupsOf(u) : x # g => routes'[x] = routes[x]
      BY <1>3 DEF ChangeRoutes, TypeInv, DataOK, GroupsOf
    <3>4. \A x : <<x, routes'[x]>>[1] = x
      OBVIOUS
    <3>5. {r \in Routes(u)' : r[1] # g} \subseteq Routes(u)
      <4> SUFFICES ASSUME NEW r \in Routes(u)', r[1] # g PROVE r \in Routes(u)
          OBVIOUS
      <4>1. PICK x \in GroupsOf(u) : r = <<x, routes'[x]>>
        BY <3>2 DEF Routes
      <4>2. x # g
        BY <3>4, <4>1
      <4>3. routes'[x] = routes[x]
        BY <3>3, <4>2
      <4> QED BY <4>1, <4>3 DEF Routes
    <3>6. {r \in Routes(u)' : r[1] # g} \subseteq file'[u] /\ Groups(file[u])' \subseteq Held(u)'
      BY <2>3, <3>1, <3>2, <3>5 DEF Fits
    <3>7. Owing("users", v, u)'
      BY <2>2, <2>3, <3>6 DEF Owing
    <3> QED BY <1>o, <2>3, <3>7
  <2> QED BY <2>4, <2>5
<1>4. CASE CreateGrant(h) /\ w.user = u /\ grant' # grant
  <2>1. PICK d : d \in Unborn /\ Goto(h, "read", [w EXCEPT !.grant = d]) /\ l = "create"
    BY <1>1, <1>4 DEF CreateGrant
  <2>2. PICK v : v = [w EXCEPT !.grant = d]
    OBVIOUS
  <2>3. v.who = u
    BY <1>2, <1>4, <2>1, <2>2 DEF Work, PlaceOK, One
  <2>4. Owing("read", v, u)'
    BY <2>3 DEF Owing
  <2> QED BY <1>o, <2>1, <2>2, <2>4
<1>5. CASE Revoke(h) /\ w.user = u /\ grant' # grant
  <2>1. Goto(h, "read", w) /\ l = "revoke"
    BY <1>1, <1>5 DEF Revoke
  <2>2. w.who = u
    BY <1>2, <1>5, <2>1 DEF PlaceOK, One
  <2>3. Owing("read", w, u)'
    BY <2>2 DEF Owing
  <2> QED BY <1>o, <2>1, <2>3
<1>6. CASE UndoGrant(h) /\ w.user = u
    BY <1>1, <1>2, <1>6, <1>m DEF UndoGrant, FilePlace, Marked, PlaceOK, One
<1>7. CASE Restore(h) /\ w.who = u
    BY <1>1, <1>2, <1>7, <1>m DEF Restore, FilePlace, Marked, PlaceOK
<1>8. ASSUME NEW d \in w.found, Deactivate(h, d), grant' # grant, grant[d].user = u PROVE Accounted(u)'
  <2>1. PICK v : v = [w EXCEPT !.found = @ \ {d}, !.due = d, !.who = grant[d].user]
    OBVIOUS
  <2>2. Goto(h, "read", v) /\ v.who = u
    BY <1>1, <1>2, <1>8, <2>1 DEF Deactivate, Work
  <2>3. Owing("read", v, u)'
    BY <2>2 DEF Owing
  <2> QED BY <1>o, <2>2, <2>3
<1>9. CASE (Write(h) \/ WriteFails(h) \/ WriteThrows(h)) /\ Put(h) /\ w.who = u
  <2>1. UNCHANGED <<access, grant, expired>> /\ l = "write" /\ file'[u] = w.content
    BY <1>1, <1>9 DEF Write, WriteFails, WriteThrows, Put, TypeInv, DataOK
  <2>2. Fits(u, w.content)'
    BY <1>2, <1>9, <2>1, FitsSame DEF FilePlace
  <2>3. Fits(u, file[u])'
    BY <2>1, <2>2 DEF Fits
  <2> QED BY <2>3 DEF Accounted
<1>10. CASE MarkSuccess(h) /\ w.who = u
  <2>1. UNCHANGED <<access, grant, expired, file>> /\ l = "success"
    BY <1>1, <1>10 DEF MarkSuccess
  <2>2. Fits(u, file[u])'
    BY <1>2, <1>10, <2>1, FitsSame DEF FilePlace, Fits
  <2> QED BY <2>2 DEF Accounted
<1> QED BY <1>1, <1>3, <1>4, <1>5, <1>6, <1>7, <1>8, <1>9, <1>10 DEF Touches

LEMMA FileStep == TypeInv /\ FileInv /\ [Next]_vars => FileInv'
<1> SUFFICES ASSUME TypeInv, FileInv, [Next]_vars, Quiet, ~Overlap
             PROVE  /\ \A u \in User : Accounted(u)'
                    /\ \A h \in Handler : FilePlace(pc[h], work[h])'
    BY SceneStays DEF FileInv, Quiet
<1>1. \A h \in Handler : FilePlace(pc[h], work[h])'
    BY PlaceStep DEF FileInv
<1>2. ASSUME NEW u \in User, Steady(u) PROVE Accounted(u)'
  <2> SUFFICES ASSUME ccd'[u] = "SUCCESS" PROVE Fits(u, file[u])' \/ \E h \in Handler : Owing(pc[h], work[h], u)'
      BY DEF Accounted
  <2>1. CASE Fits(u, file[u])
    <3>1. Fits(u, file[u])'
      BY <1>2, <2>1, FitsStays DEF Steady, Fits
    <3> QED BY <3>1
  <2>2. CASE \E h \in Handler : Owing(pc[h], work[h], u)
    BY <1>2, <2>2, OwingStep
  <2> QED BY <1>2, <2>1, <2>2 DEF FileInv, Accounted, Steady
<1>3. ASSUME NEW u \in User, ~Steady(u) PROVE Accounted(u)'
    BY <1>3, Untouched, TouchStep DEF FileInv
<1> QED BY <1>1, <1>2, <1>3

\* The sync status means what it says, in every scene where memberships and groups
\* stay and only writes fail (no crash, no failing database, no exit code nobody
\* looks at), while handlers of one user do not overlap: a user who is SUCCESS, and
\* whom no handler is at work on, has the file src/lib/ccd-generator.ts would write now.
THEOREM FilesAreCurrent == Spec => [](Quiet => FileCurrent)
<1>1. Init => FileInv
    BY DEF Init, FileInv, Accounted, FilePlace, Marked
<1>2. TypeInv /\ FileInv => (Quiet => FileCurrent)
  <2> SUFFICES ASSUME TypeInv, FileInv, Quiet, ~Overlap, NEW u \in User, ccd[u] = "SUCCESS", ~Busy(u)
               PROVE  Fits(u, file[u])
      BY DEF FileCurrent, Fits
  <2>1. ~\E h \in Handler : Owing(pc[h], work[h], u)
    BY OwingBusy DEF Busy
  <2> QED BY <2>1 DEF FileInv, Accounted
<1> QED BY <1>1, <1>2, FileStep, TypeInvariant, PTL DEF Spec

-----------------------------------------------------------------------------

(* What has ended stays ended, whether handlers of one user overlap or not.   *)

\* A handler that cannot make a grant active again: it has not found it expired,
\* or has gone on since, and if it revokes it, it read it inactive.
Spent(l, w, d) ==
    /\ d \notin w.found
    /\ l \in SyncStep \cup {"restore"} /\ w.inPass => w.due # d
    /\ w.op = "revoke" /\ w.grant = d => ~w.was

Over(d) ==
    /\ grant[d].state \in {"inactive", "gone"}
    /\ \A h \in Handler : pc[h] # "idle" => Spent(pc[h], work[h], d)

\* A handler moves to a step at which it still cannot.
Spends(h, d) == \E l, v : Goto(h, l, v) /\ Spent(l, v, d)

\* Steps of a handler outside the pass keep what Spent is about.
Alike(w, v) ==
    /\ v.op = w.op /\ v.grant = w.grant /\ v.was = w.was
    /\ v.found \subseteq w.found /\ v.inPass = w.inPass /\ v.due = w.due

LEMMA IdleSpends == ASSUME NEW h, NEW d, Finish(h) PROVE Spends(h, d)
<1>1. Spent("idle", NoWork, d)
    BY Nulls DEF Spent, SyncStep
<1> QED BY <1>1 DEF Spends, Finish

LEMMA AlikeSpends ==
    ASSUME NEW h, NEW d, NEW l, NEW w, Spent(l, w, d), NEW m, NEW v, Alike(w, v), Goto(h, m, v),
           m \in SyncStep \cup {"restore"} /\ w.inPass => l \in SyncStep \cup {"restore"}
    PROVE  Spends(h, d)
<1>1. Spent(m, v, d)
    BY DEF Spent, Alike
<1> QED BY <1>1 DEF Spends

LEMMA NextUserSpends ==
    ASSUME NEW h, NEW d, NEW w \in Work, ~w.inPass, NEW l, Spent(l, w, d), NextUser(h, w)
    PROVE  Spends(h, d)
<1>1. PICK v : v = [w EXCEPT !.who = NoUser, !.on = FALSE]
    OBVIOUS
<1>2. Alike(w, v)
    BY <1>1 DEF Work, Alike
<1> QED BY <1>1, <1>2, IdleSpends, AlikeSpends DEF NextUser

LEMMA NextGrantSpends ==
    ASSUME NEW h, NEW d, NEW w \in Work, d \notin w.found, w.op = "revoke" /\ w.grant = d => ~w.was, NextGrant(h, w)
    PROVE  Spends(h, d)
<1>1. CASE w.found # {}
  <2>1. PICK v : v = [w EXCEPT !.due = NoGrant, !.on = FALSE]
    OBVIOUS
  <2>2. v.found = w.found /\ v.op = w.op /\ v.grant = w.grant /\ v.was = w.was
    BY <2>1 DEF Work
  <2>3. Goto(h, "deactivate", v) /\ Spent("deactivate", v, d)
    BY <1>1, <2>1, <2>2 DEF NextGrant, Spent, SyncStep
  <2> QED BY <2>3 DEF Spends
<1>2. CASE w.found = {} /\ w.op = "pass"
    BY <1>2, IdleSpends DEF NextGrant
<1>3. CASE w.found = {} /\ w.op # "pass"
  <2>1. PICK v : v = [w EXCEPT !.inPass = FALSE, !.due = NoGrant, !.who = w.user, !.on = FALSE]
    OBVIOUS
  <2>2. v.found = w.found /\ ~v.inPass /\ v.op = w.op /\ v.grant = w.grant /\ v.was = w.was
    BY <2>1 DEF Work
  <2>3. Goto(h, AfterPass(w.op), v) /\ Spent(AfterPass(w.op), v, d)
    BY <1>3, <2>1, <2>2 DEF NextGrant, Spent
  <2> QED BY <2>3 DEF Spends
<1> QED BY <1>1, <1>2, <1>3

LEMMA DoneSpends ==
    ASSUME NEW h, NEW d, NEW w \in Work, w = work[h], NEW l \in SyncStep, Spent(l, w, d), Done(h)
    PROVE  Spends(h, d)
<1>1. CASE w.inPass \/ w.op = "pushUser"
  <2>1. PICK v : v = [w EXCEPT !.on = FALSE]
    OBVIOUS
  <2>2. Alike(w, v) /\ Goto(h, "audit", v)
    BY <1>1, <2>1 DEF Work, Alike, Done
  <2> QED BY <2>2, AlikeSpends
<1>2. CASE ~(w.inPass \/ w.op = "pushUser")
    BY <1>2, NextUserSpends DEF Done
<1> QED BY <1>1, <1>2

LEMMA ThrowSpends ==
    ASSUME NEW h, NEW d, NEW w \in Work, w = work[h], NEW l \in SyncStep, Spent(l, w, d), Throw(h)
    PROVE  Spends(h, d)
<1>1. PICK v : v = [w EXCEPT !.content = {}]
    OBVIOUS
<1>2. v \in Work /\ Alike(w, v)
    BY <1>1 DEF Work, Alike
<1>3. ASSUME NEW m, Goto(h, m, v) PROVE Spends(h, d)
    BY <1>2, <1>3, AlikeSpends
<1>4. CASE w.inPass
    BY <1>1, <1>2, <1>3, <1>4 DEF Throw, Alike
<1>5. CASE ~w.inPass
  <2>1. Catch(h, v)
    BY <1>1, <1>2, <1>5 DEF Throw, Alike
  <2>2. Spent(l, v, d) /\ ~v.inPass
    BY <1>2, <1>5 DEF Spent, Alike
  <2>3. (\E m \in {"undo", "restore", "failed"} : Goto(h, m, v)) \/ NextUser(h, v) \/ Finish(h)
    BY <2>1 DEF Catch
  <2> QED BY <1>2, <1>3, <2>2, <2>3, NextUserSpends, IdleSpends
<1> QED BY <1>4, <1>5

\* A handler in flight, whatever it does next and however that ends.
LEMMA ContinueSpends ==
    ASSUME TypeInv, NEW d \in Grant, Over(d), NEW h \in Handler, Continue(h)
    PROVE  Spends(h, d)
<1>1. PICK w, l : w = work[h] /\ l = pc[h]
    OBVIOUS
<1>0. pc[h] # "idle"
    BY DEF Continue, PassNext, SyncNext, LoopNext, GrantNext, DatabaseError, ListExpired, WriteAudit, ReadUser, Generate,
           ListUsers, TakeUser, ReadAccount, CheckGrant, ReadGrant, MarkPending, MarkFailed, MarkSuccess, MarkAffected,
           Write, WriteFails, WriteThrows, EnableUser, CreateGrant, UndoGrant, Revoke, Deactivate, Restore
<1>2. w \in Work /\ PlaceOK(l, w) /\ Spent(l, w, d)
    BY <1>0, <1>1 DEF TypeInv, HandlersOK, PlacesOK, Over
<1>n. ASSUME NextGrant(h, w) PROVE Spends(h, d)
    BY <1>2, <1>n, NextGrantSpends DEF Spent
<1>f. ASSUME Finish(h) PROVE Spends(h, d)
    BY <1>f, IdleSpends
<1>m. ASSUME NEW m, NEW v, Goto(h, m, v), Alike(w, v), l \in SyncStep \cup {"restore"} \/ ~w.inPass
      PROVE  Spends(h, d)
    BY <1>2, <1>m, AlikeSpends
<1>r. Alike(w, w)
    BY DEF Alike
<1>t. ASSUME l \in SyncStep, Throw(h) \/ Done(h) PROVE Spends(h, d)
    BY <1>1, <1>2, <1>t, ThrowSpends, DoneSpends
<1>u. ASSUME ~w.inPass, NextUser(h, w) PROVE Spends(h, d)
    BY <1>2, <1>u, NextUserSpends
<1>3. CASE ListExpired(h)
  <2>1. PICK v : v = [w EXCEPT !.found = {e \in expired : Active(e) /\ grant[e].user \in Scope(w)}]
    OBVIOUS
  <2>2. NextGrant(h, v)
    BY <1>1, <1>3, <2>1 DEF ListExpired
  <2>3. v \in Work /\ v.op = w.op /\ v.grant = w.grant /\ v.was = w.was /\ \A e \in v.found : Active(e)
    BY <1>2, <2>1 DEF Work, TypeInv, DataOK
  <2>4. d \notin v.found
    BY <2>3 DEF Over, Active
  <2> QED BY <1>2, <2>2, <2>3, <2>4, NextGrantSpends DEF Spent
<1>4. ASSUME NEW e \in w.found, Deactivate(h, e) PROVE Spends(h, d)
  <2>1. PICK v : v = [w EXCEPT !.found = @ \ {e}, !.due = e, !.who = grant[e].user]
    OBVIOUS
  <2>2. /\ v.op = w.op /\ v.grant = w.grant /\ v.was = w.was /\ v.found \subseteq w.found /\ v.due = e
    BY <1>2, <2>1 DEF Work
  <2>3. Spent("read", v, d)
    BY <1>2, <1>4, <2>2 DEF Spent
  <2>4. Goto(h, "read", v) \/ Finish(h)
    BY <1>1, <1>4, <2>1 DEF Deactivate
  <2> QED BY <1>f, <2>3, <2>4 DEF Spends
<1>5. CASE Restore(h) \/ WriteAudit(h)
    BY <1>1, <1>5, <1>f, <1>n DEF Restore, WriteAudit
<1>6. CASE ReadUser(h) \/ MarkPending(h)
  <2>1. PICK v : v = [w EXCEPT !.on = work[h].who \in enabled]
    OBVIOUS
  <2>2. PICK x : x = [w EXCEPT !.on = FALSE]
    OBVIOUS
  <2>3. Alike(w, v) /\ Alike(w, x)
    BY <1>2, <2>1, <2>2 DEF Work, Alike
  <2>4. Goto(h, "mark", v) \/ Goto(h, "generate", x) \/ Throw(h) \/ Done(h)
    BY <1>1, <1>6, <2>1, <2>2 DEF ReadUser, MarkPending
  <2>5. l \in SyncStep
    BY <1>1, <1>6 DEF ReadUser, MarkPending, SyncStep
  <2> QED BY <1>m, <1>t, <2>3, <2>4, <2>5
<1>7. CASE Generate(h) \/ Write(h) \/ WriteFails(h) \/ WriteThrows(h)
  <2>1. PICK v : v = [w EXCEPT !.content = Routes(w.who)]
    OBVIOUS
  <2>2. PICK x : x = [w EXCEPT !.content = {}]
    OBVIOUS
  <2>3. Alike(w, v) /\ Alike(w, x)
    BY <1>2, <2>1, <2>2 DEF Work, Alike
  <2>4. Goto(h, "write", v) \/ (\E m : Goto(h, m, x)) \/ Throw(h)
    BY <1>1, <1>7, <2>1, <2>2 DEF Generate, Write, WriteFails, WriteThrows, Written
  <2>5. l \in SyncStep
    BY <1>1, <1>7 DEF Generate, Write, WriteFails, WriteThrows, SyncStep
  <2> QED BY <1>m, <1>t, <2>3, <2>4, <2>5
<1>8. CASE MarkFailed(h) \/ MarkSuccess(h)
  <2>1. l \in SyncStep
    BY <1>1, <1>8 DEF MarkFailed, MarkSuccess, SyncStep
  <2> QED BY <1>1, <1>8, <1>t, <1>u, <2>1 DEF MarkFailed, MarkSuccess, IsBlind
<1>9. CASE ListUsers(h) \/ \E u \in w.users : TakeUser(h, u) \/ MarkAffected(h, u)
  <2>1. ~w.inPass
    BY <1>1, <1>2, <1>9 DEF ListUsers, TakeUser, MarkAffected, PlaceOK
  <2>2. ASSUME NEW v, NEW us, NEW u, v = [w EXCEPT !.users = us] \/ v = [w EXCEPT !.users = us, !.who = u]
        PROVE  Alike(w, v)
    BY <1>2, <2>2 DEF Work, Alike
  <2>3. ASSUME NEW us \in SUBSET User, NextUser(h, [w EXCEPT !.users = us]) PROVE Spends(h, d)
    <3>1. PICK v : v = [w EXCEPT !.users = us]
      OBVIOUS
    <3>2. v \in Work /\ Alike(w, v)
      BY <1>2, <2>2, <3>1 DEF Work
    <3>3. Spent(l, v, d) /\ ~v.inPass
      BY <1>2, <2>1, <3>2 DEF Spent, Alike
    <3> QED BY <2>3, <3>1, <3>2, <3>3, NextUserSpends
  <2>4. CASE ListUsers(h)
    <3>1. PICK us : us = IF w.op \in {"pushAll", "drift"} THEN enabled ELSE Affected(w.group)
      OBVIOUS
    <3>2. us \in SUBSET User
      BY <3>1 DEF Affected, TypeInv, DataOK
    <3>3. NextUser(h, [w EXCEPT !.users = us])
      BY <1>1, <2>4, <3>1 DEF ListUsers
    <3> QED BY <2>3, <3>2, <3>3
  <2>5. ASSUME NEW u \in w.users, TakeUser(h, u) PROVE Spends(h, d)
    <3>1. PICK v : v = [w EXCEPT !.users = @ \ {u}, !.who = u]
      OBVIOUS
    <3>2. Alike(w, v)
      BY <1>2, <3>1 DEF Work, Alike
    <3>3. \E m : Goto(h, m, v)
      BY <1>1, <2>5, <3>1 DEF TakeUser
    <3> QED BY <1>m, <2>1, <3>2, <3>3
  <2>6. ASSUME NEW u \in w.users, MarkAffected(h, u) PROVE Spends(h, d)
    <3>1. NextUser(h, [w EXCEPT !.users = w.users \ {u}])
      BY <1>1, <1>2, <2>6 DEF MarkAffected, Work
    <3>2. w.users \ {u} \in SUBSET User
      BY <1>2 DEF Work
    <3> QED BY <2>3, <3>1, <3>2
  <2> QED BY <1>9, <2>4, <2>5, <2>6
<1>10. CASE ReadAccount(h) \/ CheckGrant(h) \/ EnableUser(h)
  <2>1. ~w.inPass
    BY <1>1, <1>2, <1>10 DEF ReadAccount, CheckGrant, EnableUser, PlaceOK
  <2>2. PICK v : v = [w EXCEPT !.on = w.user \in enabled]
    OBVIOUS
  <2>3. PICK x : x = [w EXCEPT !.on = FALSE]
    OBVIOUS
  <2>4. Alike(w, v) /\ Alike(w, x)
    BY <1>2, <2>2, <2>3 DEF Work, Alike
  <2>5. Finish(h) \/ Goto(h, "check", v) \/ Goto(h, "create", x) \/ Goto(h, "enable", x) \/ Goto(h, "create", w)
    BY <1>1, <1>10, <2>2, <2>3 DEF ReadAccount, CheckGrant, EnableUser
  <2> QED BY <1>f, <1>m, <1>r, <2>1, <2>4, <2>5
<1>11. CASE CreateGrant(h) \/ UndoGrant(h)
  <2>1. ~w.inPass /\ w.op = "grant"
    BY <1>1, <1>2, <1>11 DEF CreateGrant, UndoGrant, PlaceOK
  <2>2. Finish(h) \/ \E e : Goto(h, "read", [w EXCEPT !.grant = e])
    BY <1>1, <1>11 DEF CreateGrant, UndoGrant
  <2>3. ASSUME NEW e, Goto(h, "read", [w EXCEPT !.grant = e]) PROVE Spends(h, d)
    <3>1. PICK v : v = [w EXCEPT !.grant = e]
      OBVIOUS
    <3>2. v.op = "grant" /\ ~v.inPass /\ v.found = w.found
      BY <1>2, <2>1, <3>1 DEF Work
    <3>3. Spent("read", v, d)
      BY <1>2, <3>2 DEF Spent
    <3> QED BY <2>3, <3>1, <3>3 DEF Spends
  <2> QED BY <1>f, <2>2, <2>3
<1>12. CASE ReadGrant(h) \/ Revoke(h)
  <2>1. ~w.inPass
    BY <1>1, <1>2, <1>12 DEF ReadGrant, Revoke, PlaceOK
  <2>2. PICK v : v = [w EXCEPT !.was = Active(w.grant)]
    OBVIOUS
  <2>3. v.op = w.op /\ v.grant = w.grant /\ v.found = w.found /\ v.inPass = w.inPass /\ v.was = Active(w.grant)
    BY <1>2, <2>2 DEF Work
  <2>4. Spent("revoke", v, d)
    BY <1>2, <2>1, <2>3 DEF Spent, Over, Active
  <2>5. Finish(h) \/ Goto(h, "revoke", v) \/ Goto(h, "read", w)
    BY <1>1, <1>12, <2>2 DEF ReadGrant, Revoke
  <2> QED BY <1>f, <1>m, <1>r, <2>1, <2>4, <2>5 DEF Spends
<1>13. CASE DatabaseError(h)
  <2>1. CASE InTry(h) /\ Throw(h)
    <3>1. l \in SyncStep
      BY <1>1, <2>1 DEF InTry, SyncStep
    <3> QED BY <1>t, <2>1, <3>1
  <2>2. CASE work[h].op = "bulk" /\ NextUser(h, work[h])
    BY <1>1, <1>2, <1>u, <2>2 DEF PlaceOK, PassOps
  <2> QED BY <1>13, <1>f, <2>1, <2>2 DEF DatabaseError
<1> QED BY <1>1, <1>3, <1>4, <1>5, <1>6, <1>7, <1>8, <1>9, <1>10, <1>11, <1>12, <1>13
        DEF Continue, PassNext, SyncNext, LoopNext, GrantNext

\* A request that begins has read nothing yet.
LEMMA StartSpends == ASSUME NEW d, NEW h \in Handler, Start(h) PROVE Spends(h, d)
<1>1. ASSUME NEW l, NEW w, Begin(h, l, w), w.found = {}, ~w.was, l \notin SyncStep \cup {"restore"} PROVE Spends(h, d)
    BY <1>1 DEF Begin, Spends, Spent
<1>2. ASSUME NEW op \in PassOps, NEW w,
             \E u, g, e : \/ w = Fresh(op)
                          \/ w = [Fresh(op) EXCEPT !.user = u, !.group = g]
                          \/ w = [Fresh(op) EXCEPT !.user = u, !.grant = e]
                          \/ w = [Fresh(op) EXCEPT !.user = u]
                          \/ w = [Fresh(op) EXCEPT !.group = g],
             Begin(h, "list", w)
      PROVE  Spends(h, d)
  <2>1. PICK v : v = Fresh(op)
    OBVIOUS
  <2>2. v \in Work /\ v.found = {} /\ ~v.was
    BY <2>1, FreshType
  <2>3. w.found = {} /\ ~w.was
    BY <1>2, <2>1, <2>2, ZenonT(30) DEF Work
  <2> QED BY <1>1, <1>2, <2>3 DEF SyncStep
<1>3. ASSUME NEW l \in {"next", "users"}, NEW w, Begin(h, l, w),
             \E g, us : w = [NoWork EXCEPT !.op = "bulk", !.users = us] \/ w = [NoWork EXCEPT !.op = "routes", !.group = g]
      PROVE  Spends(h, d)
  <2>1. w.found = {} /\ ~w.was
    BY <1>3, Nulls, ZenonT(30) DEF Work
  <2> QED BY <1>1, <1>3, <2>1 DEF SyncStep
<1>4. CASE StartPass(h) \/ (\E u \in User : StartPushUser(h, u)) \/ \E op \in {"pushAll", "drift"} : StartPushAll(h, op)
    BY <1>2, <1>4 DEF StartPass, StartPushUser, StartPushAll, PassOps
<1>5. CASE \E u \in User, g \in Group : StartGrant(h, u, g)
    BY <1>2, <1>5 DEF StartGrant, PassOps
<1>6. CASE \E e \in Grant : StartRevoke(h, e)
    BY <1>2, <1>6 DEF StartRevoke, PassOps
<1>7. CASE \E g \in Group : StartPushGroup(h, g)
    BY <1>2, <1>7 DEF StartPushGroup, PassOps
<1>8. CASE (\E us \in SUBSET User : StartBulk(h, us)) \/ \E g \in Group : ChangeRoutes(h, g)
    BY <1>3, <1>8 DEF StartBulk, ChangeRoutes
<1> QED BY <1>4, <1>5, <1>6, <1>7, <1>8 DEF Start

\* Only a pass that found the grant, or a revocation that read it active, makes it
\* active again.
LEMMA OverRow ==
    ASSUME TypeInv, NEW d \in Grant, Over(d), [Next]_vars
    PROVE  grant'[d].state \in {"inactive", "gone"}
<1>s. ASSUME NEW e, NEW s, SetState(e, s), e = d => s \in {"inactive", "gone"}
      PROVE  grant'[d].state \in {"inactive", "gone"}
    BY <1>s DEF SetState, TypeInv, DataOK, TemporaryAccess, Over
<1>u. ASSUME UNCHANGED grant PROVE grant'[d].state \in {"inactive", "gone"}
    BY <1>u DEF Over
<1>1. ASSUME NEW h \in Handler, Restore(h) PROVE grant'[d].state \in {"inactive", "gone"}
  <2>1. PICK w, e : w = work[h] /\ e = IF w.inPass THEN w.due ELSE w.grant
    OBVIOUS
  <2>2. PlaceOK("restore", w) /\ Spent("restore", w, d)
    BY <1>1, <2>1 DEF Restore, TypeInv, PlacesOK, Over
  <2>3. UNCHANGED grant \/ SetState(e, IF w.inPass \/ w.was THEN "active" ELSE "inactive")
    BY <1>1, <2>1 DEF Restore
  <2>4. e = d => ~w.inPass /\ ~w.was
    BY <2>1, <2>2 DEF PlaceOK, Spent
  <2> QED BY <1>s, <1>u, <2>3, <2>4
<1>2. ASSUME NEW h \in Handler, CreateGrant(h) PROVE grant'[d].state \in {"inactive", "gone"}
  <2>1. UNCHANGED grant \/ \E e \in Unborn : \E row : grant' = [grant EXCEPT ![e] = row]
    BY <1>2 DEF CreateGrant
  <2>2. d \notin Unborn
    BY DEF Unborn, Over
  <2>3. UNCHANGED grant \/ grant'[d] = grant[d]
    BY <2>1, <2>2 DEF TypeInv, DataOK
  <2> QED BY <1>u, <2>3 DEF Over
<1>3. ASSUME NEW h \in Handler,
             UndoGrant(h) \/ Revoke(h) \/ \E e \in work[h].found : Deactivate(h, e)
      PROVE  grant'[d].state \in {"inactive", "gone"}
    BY <1>3, <1>s, <1>u DEF UndoGrant, Revoke, Deactivate
<1>4. ASSUME NEW g \in Group, DeleteGroup(g) PROVE grant'[d].state \in {"inactive", "gone"}
  <2>1. PICK row : row = grant[d]
    OBVIOUS
  <2>2. row \in TemporaryAccess /\ grant'[d] = IF row.group = g THEN [row EXCEPT !.state = "gone"] ELSE row
    BY <1>4, <2>1 DEF DeleteGroup, TypeInv, DataOK
  <2> QED BY <2>1, <2>2 DEF TemporaryAccess, Over
<1>5. ASSUME NEW h \in Handler, Start(h) PROVE UNCHANGED grant
    BY <1>5 DEF Start, StartPass, StartGrant, StartRevoke, StartPushUser, StartPushAll, StartPushGroup, StartBulk,
                ChangeRoutes
<1>6. ASSUME NEW h \in Handler, Continue(h) PROVE grant'[d].state \in {"inactive", "gone"}
    BY <1>6, <1>1, <1>2, <1>3, <1>u
       DEF Continue, PassNext, SyncNext, LoopNext, GrantNext, DatabaseError, ListExpired, WriteAudit, ReadUser, Generate,
           ListUsers, TakeUser, ReadAccount, CheckGrant, ReadGrant, MarkPending, MarkFailed, MarkSuccess, MarkAffected,
           Write, WriteFails, WriteThrows, EnableUser
<1> QED BY <1>u, <1>4, <1>5, <1>6 DEF Next, vars, ChangeMember, ToggleUser, Expire, Crash

LEMMA OverStep ==
    ASSUME NEW d \in Grant
    PROVE  TypeInv /\ Over(d) /\ [Next]_vars => Over(d)'
<1> SUFFICES ASSUME TypeInv, Over(d), [Next]_vars PROVE \A h \in Handler : (pc[h] # "idle" => Spent(pc[h], work[h], d))'
    BY OverRow DEF Over
<1>1. ASSUME NEW h \in Handler, Start(h) \/ Continue(h) PROVE \A g \in Handler : (pc[g] # "idle" => Spent(pc[g], work[g], d))'
  <2>1. PICK l, v : Goto(h, l, v) /\ Spent(l, v, d)
    BY <1>1, StartSpends, ContinueSpends DEF Spends
  <2>2. /\ pc'[h] = l /\ work'[h] = v
        /\ \A g \in Handler \ {h} : pc'[g] = pc[g] /\ work'[g] = work[g]
    BY <2>1 DEF Goto, TypeInv, HandlersOK
  <2> SUFFICES ASSUME NEW g \in Handler PROVE pc'[g] # "idle" => Spent(pc'[g], work'[g], d)
      BY DEF Spent
  <2> QED BY <2>1, <2>2 DEF Over
<1>2. CASE Crash
  <2>1. Spent("idle", NoWork, d)
    BY Nulls DEF Spent, SyncStep
  <2>2. \A h \in Handler : pc'[h] = "idle" /\ work'[h] = NoWork
    BY <1>2 DEF Crash
  <2>3. \A h \in Handler : Spent(pc'[h], work'[h], d)
    BY <2>1, <2>2
  <2> QED BY <2>3 DEF Spent
<1>3. CASE UNCHANGED <<pc, work>>
    BY <1>3 DEF Over, Spent
<1> QED BY <1>1, <1>2, <1>3 DEF Next, vars, ChangeMember, ToggleUser, DeleteGroup, Expire

\* Who is at work on another user cannot have read the grant.
LEMMA OverFirst ==
    ASSUME NEW d \in Grant
    PROVE  TypeInv /\ grant[d].state = "inactive" /\ ~Busy(grant[d].user) => Over(d)
<1> SUFFICES ASSUME TypeInv, grant[d].state = "inactive", ~Busy(grant[d].user), NEW h \in Handler, pc[h] # "idle"
             PROVE  Spent(pc[h], work[h], d)
    BY DEF Over
<1>1. PICK w, l : w = work[h] /\ l = pc[h]
    OBVIOUS
<1>2. w \in Work /\ PlaceOK(l, w)
    BY <1>1 DEF TypeInv, HandlersOK, PlacesOK
<1>3. grant[d].user \notin Scope(w)
    BY <1>1 DEF Busy
<1>4. w.op = "revoke" => w.user \in Scope(w) /\ w.user \in User
    BY <1>1, <1>2, NullAssumption DEF PlaceOK, One, Scope
<1> QED BY <1>1, <1>2, <1>3, <1>4 DEF PlaceOK, Spent

LEMMA OverStays ==
    ASSUME NEW d \in Grant
    PROVE  Spec => [](grant[d].state = "inactive" /\ ~Busy(grant[d].user)
                        => [](grant[d].state \in {"inactive", "gone"}))
<1>1. TypeInv /\ grant[d].state = "inactive" /\ ~Busy(grant[d].user) => Over(d)
    BY OverFirst
<1>2. TypeInv /\ Over(d) /\ [Next]_vars => Over(d)'
    BY OverStep
<1>3. Over(d) => grant[d].state \in {"inactive", "gone"}
    BY DEF Over
<1> QED BY <1>1, <1>2, <1>3, TypeInvariant, PTL DEF Spec

\* A grant that is inactive while nobody is at work on its user never becomes active
\* again, however handlers overlap, fail and crash afterwards: the pass that failed
\* and the revocation that failed make active only what they found active
\* (src/lib/temporary-access.ts, the routes of temporary access).
THEOREM EndedIsOver == Spec => EndedStaysEnded
<1> SUFFICES ASSUME Spec PROVE EndedStaysEnded
    OBVIOUS
<1> SUFFICES ASSUME NEW d \in Grant
             PROVE  [](grant[d].state = "inactive" /\ ~Busy(grant[d].user)
                         => [](grant[d].state \in {"inactive", "gone"}))
    BY DEF EndedStaysEnded
<1> QED BY OverStays
=============================================================================
