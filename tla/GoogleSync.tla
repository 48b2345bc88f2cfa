----------------------------- MODULE GoogleSync -----------------------------
(***************************************************************************)
(* The synchronisation of the VPN users of one server with Google groups:  *)
(* runGoogleSync takes one snapshot per mapping, one after the other, and   *)
(* then adds and flags users statement by statement.  Nothing keeps two of  *)
(* them apart, and administrators and Google go on meanwhile.               *)
(*                                                                         *)
(* Users are their emails.  All emails ask for the same common name, which  *)
(* is a number here: 1 for the name, 2 for the name with suffix _1, etc.    *)
(***************************************************************************)
EXTENDS Naturals, FiniteSets, FiniteSetsExt

CONSTANTS
    Email, GoogleGroup, VpnGroup,
    Mapping,    \* the mappings there may be: [google, vpn]
    Sync,       \* calls of runGoogleSync that may be in flight
    MaxMoves,   \* bound: changes by Google and by administrators, and failures
    MaxSyncs    \* bound: calls of runGoogleSync

ASSUME EmailAssumption == IsFiniteSet(Email)
ASSUME MappingAssumption == Mapping \subseteq [google: GoogleGroup, vpn: VpnGroup]
ASSUME BoundAssumption == {MaxMoves, MaxSyncs} \subseteq Nat

VARIABLES
    directory,  \* the active members of each Google group
    mappings,   \* the GoogleGroupMapping rows
    groups,     \* the VpnGroup rows
    name,       \* the common name of a user, 0 when there is no row
    flagged,    \* the users that are flagged
    member,     \* how a user is in a VPN group
    pc, work,   \* where each sync is, and what it has read
    moves, syncs

vars == <<directory, mappings, groups, name, flagged, member, pc, work, moves, syncs>>
users == <<name, flagged, member>>

MembershipSource == {"MANUAL", "GOOGLE_SYNC"}
Membership == MembershipSource \union {"none"}
MaxName == Cardinality(Email)

\* always, ever, touched, joined: history of the Google groups, of the users that
\* administrators changed and of those another sync added, since the sync began.
Work == [list: SUBSET Mapping, todo: SUBSET Mapping, got: [Mapping -> SUBSET Email],
         unread: SUBSET Mapping, at: SUBSET Mapping, new: SUBSET Email, gone: SUBSET Email,
         email: SUBSET Email, name: 0..MaxName, stale: SUBSET Email, errors: SUBSET Email,
         always: [GoogleGroup -> SUBSET Email], ever: [GoogleGroup -> SUBSET Email],
         touched: SUBSET Email, joined: SUBSET Email]
NoWork == [list |-> {}, todo |-> {}, got |-> [m \in Mapping |-> {}],
           unread |-> {}, at |-> {}, new |-> {}, gone |-> {},
           email |-> {}, name |-> 0, stale |-> {}, errors |-> {},
           always |-> [g \in GoogleGroup |-> {}], ever |-> [g \in GoogleGroup |-> {}],
           touched |-> {}, joined |-> {}]

TypeOK ==
    /\ directory \in [GoogleGroup -> SUBSET Email]
    /\ mappings \subseteq {m \in Mapping : m.vpn \in groups}
    /\ groups \subseteq VpnGroup
    /\ name \in [Email -> 0..MaxName]
    /\ \A e, f \in Email : name[e] = name[f] => name[e] = 0 \/ e = f
    /\ flagged \subseteq {e \in Email : name[e] # 0}
    /\ member \in [Email -> [VpnGroup -> Membership]]
    /\ \A e \in Email, v \in VpnGroup : member[e][v] # "none" => name[e] # 0 /\ v \in groups
    /\ pc \in [Sync -> {"idle", "list", "fetch", "members", "lookup", "create", "upsert",
                        "flag", "end", "done"}]
    /\ work \in [Sync -> Work]
    /\ moves \in 0..MaxMoves /\ syncs \in 0..MaxSyncs

Init ==
    /\ directory \in [GoogleGroup -> SUBSET Email]
    /\ mappings = Mapping
    /\ groups = VpnGroup
    /\ name = [e \in Email |-> 0]
    /\ flagged = {}
    /\ member = [e \in Email |-> [v \in VpnGroup |-> "none"]]
    /\ pc = [s \in Sync |-> "idle"]
    /\ work = [s \in Sync |-> NoWork]
    /\ moves = 0 /\ syncs = 0

-----------------------------------------------------------------------------
(* runGoogleSync *)

Goto(s, label, w) ==
    /\ pc' = [pc EXCEPT ![s] = label]
    /\ work' = [work EXCEPT ![s] = w]
    /\ UNCHANGED <<directory, mappings, groups>>

\* Bound: MaxMoves.
Failure == moves < MaxMoves /\ moves' = moves + 1

\* Bounds: MaxSyncs, and MaxMoves when another sync is in flight.
Begin(s) ==
    /\ pc[s] = "idle"
    /\ syncs < MaxSyncs
    /\ syncs' = syncs + 1
    /\ \/ (\A t \in Sync : pc[t] = "idle") /\ UNCHANGED moves
       \/ (\E t \in Sync : pc[t] # "idle") /\ Failure
    /\ Goto(s, "list", [NoWork EXCEPT !.always = directory, !.ever = directory])
    /\ UNCHANGED users

ListMappings(s) ==
    /\ pc[s] = "list"
    /\ Goto(s, IF mappings = {} THEN "end" ELSE "fetch",
            [work[s] EXCEPT !.list = mappings, !.todo = mappings])
    /\ UNCHANGED <<users, moves, syncs>>

\* The snapshot of one mapping, empty when Google refused it.
Fetched(s, m, emails, unread) ==
    LET last == work[s].todo = {m}
    IN  Goto(s, IF last THEN "members" ELSE "fetch",
             [work[s] EXCEPT !.got[m] = emails, !.unread = @ \union unread,
                             !.todo = IF last THEN work[s].list ELSE @ \ {m}])

\* All pages of the members, of which the active users count.
Members(m) == directory[m.google]

Fetch(s) ==
    /\ pc[s] = "fetch"
    /\ \E m \in work[s].todo : Fetched(s, m, Members(m), {})
    /\ UNCHANGED <<users, moves, syncs>>

FetchFails(s) ==
    /\ Failure
    /\ pc[s] = "fetch"
    /\ \E m \in work[s].todo : Fetched(s, m, {}, {m})
    /\ UNCHANGED <<users, syncs>>

\* What comes after a user or a snapshot.
After(w) ==
    CASE w.new # {} -> "lookup"
      [] w.new = {} /\ w.gone # {} -> "flag"
      [] w.new = {} /\ w.gone = {} /\ w.todo # {} -> "members"
      [] OTHER -> "end"

Step(s, w) == Goto(s, After(w), w)

\* Mutant of Others: other mappings of the group are not looked at.
NoOthers(s, m) == {}

\* Who is in another group mapped to the same VPN group.
Others(s, m) ==
    UNION {work[s].got[o] : o \in {o \in work[s].list : o # m /\ o.vpn = m.vpn}}

ReadMembers(s) ==
    /\ pc[s] = "members"
    /\ \E m \in work[s].todo :
         LET current == {e \in Email : member[e][m.vpn] = "GOOGLE_SYNC"}
         IN  Step(s, [work[s] EXCEPT !.at = {m}, !.todo = @ \ {m}, !.stale = {},
                                     !.new = work[s].got[m] \ current,
                                     !.gone = (current \ work[s].got[m]) \ Others(s, m)])
    /\ UNCHANGED <<users, moves, syncs>>

FreeName == Min((1..MaxName + 1) \ {name[e] : e \in Email})

Lookup(s) ==
    /\ pc[s] = "lookup"
    /\ \E e \in work[s].new :
         Goto(s, IF name[e] = 0 THEN "create" ELSE "upsert",
              [work[s] EXCEPT !.new = @ \ {e}, !.email = {e}, !.stale = @ \ {e},
                              !.name = IF name[e] = 0 THEN FreeName ELSE 0])
    /\ UNCHANGED <<users, moves, syncs>>

\* Mutant of Problem: nobody is told of an error.
ProblemForgotten(s, e) ==
    Step(s, [work[s] EXCEPT !.new = @ \ {e}, !.gone = @ \ {e}, !.email = {}, !.name = 0])

\* The error about a user is kept, and the next user is looked at.
Problem(s, e) ==
    Step(s, [work[s] EXCEPT !.new = @ \ {e}, !.gone = @ \ {e}, !.email = {}, !.name = 0,
                            !.errors = @ \union {e}])

Create(s) ==
    /\ pc[s] = "create"
    /\ \E e \in work[s].email :
         \/ /\ name[e] = 0 /\ \A f \in Email : name[f] # work[s].name
            /\ name' = [name EXCEPT ![e] = work[s].name]
            /\ Goto(s, "upsert", [work[s] EXCEPT !.name = 0])
         \/ /\ name[e] # 0 \/ \E f \in Email : name[f] = work[s].name
            /\ Problem(s, e)
            /\ UNCHANGED name
    /\ UNCHANGED <<flagged, member, moves, syncs>>

\* A membership of the user that is there already becomes one of Google.
Upsert(s) ==
    /\ pc[s] = "upsert"
    /\ \E e \in work[s].email, m \in work[s].at :
         LET gone == e \in work[s].stale \/ name[e] = 0 \/ m.vpn \notin groups
         IN  IF gone THEN Problem(s, e) /\ UNCHANGED member
             ELSE /\ member' = [member EXCEPT ![e][m.vpn] = "GOOGLE_SYNC"]
                  /\ pc' = [pc EXCEPT ![s] = After(work[s])]
                  /\ work' = [t \in Sync |->
                                CASE t = s -> [work[s] EXCEPT !.email = {}]
                                  [] t # s /\ pc[t] = "idle" -> work[t]
                                  [] OTHER -> [work[t] EXCEPT !.joined = @ \union {e}]]
                  /\ UNCHANGED <<directory, mappings, groups>>
    /\ UNCHANGED <<name, flagged, moves, syncs>>

\* Mutant of Flag: the user is flagged although the row is not there any more.
FlagBlindly(s) ==
    /\ pc[s] = "flag"
    /\ \E e \in work[s].gone :
         /\ flagged' = flagged \union {e}
         /\ Step(s, [work[s] EXCEPT !.gone = @ \ {e}])
    /\ UNCHANGED <<name, member, moves, syncs>>

Flag(s) ==
    /\ pc[s] = "flag"
    /\ \E e \in work[s].gone :
         IF e \in work[s].stale \/ name[e] = 0
         THEN Problem(s, e) /\ UNCHANGED flagged
         ELSE /\ flagged' = flagged \union {e}
              /\ Step(s, [work[s] EXCEPT !.gone = @ \ {e}])
    /\ UNCHANGED <<name, member, moves, syncs>>

StatementFails(s) ==
    /\ Failure
    /\ \/ pc[s] \in {"create", "upsert"} /\ \E e \in work[s].email : Problem(s, e)
       \/ pc[s] = "lookup" /\ \E e \in work[s].new : Problem(s, e)
       \/ pc[s] = "flag" /\ \E e \in work[s].gone : Problem(s, e)
       \/ pc[s] \in {"list", "members", "end"} /\ Goto(s, "idle", NoWork)   \* FAILED
    /\ UNCHANGED <<users, syncs>>

\* SUCCESS, with the errors in the details.
Succeed(s) ==
    /\ pc[s] = "end"
    /\ Goto(s, "done", work[s])
    /\ UNCHANGED <<users, moves, syncs>>

Return(s) ==
    /\ pc[s] = "done"
    /\ Goto(s, "idle", NoWork)
    /\ UNCHANGED <<users, moves, syncs>>

-----------------------------------------------------------------------------
(* Google and administrators.  Bound: MaxMoves. *)

Move ==
    /\ moves < MaxMoves
    /\ moves' = moves + 1
    /\ UNCHANGED <<pc, syncs>>

ChangeGroup(g, e) ==
    /\ Move
    /\ directory' = [directory EXCEPT ![g] = IF e \in @ THEN @ \ {e} ELSE @ \union {e}]
    /\ work' = [s \in Sync |->
                  IF pc[s] = "idle" THEN work[s]
                  ELSE [work[s] EXCEPT !.always[g] = @ \ {e}, !.ever[g] = @ \union {e}]]
    /\ UNCHANGED <<mappings, groups, users>>

\* An administrator changes something of some users.
Touch(emails, deleted) ==
    /\ Move
    /\ work' = [s \in Sync |->
                  IF pc[s] = "idle" THEN work[s]
                  ELSE [work[s] EXCEPT !.touched = @ \union emails, !.stale = @ \union deleted]]
    /\ UNCHANGED directory

CreateUser(e) ==
    /\ name[e] = 0
    /\ name' = [name EXCEPT ![e] = FreeName]
    /\ Touch({e}, {})
    /\ UNCHANGED <<mappings, groups, flagged, member>>

NoMembership == [v \in VpnGroup |-> "none"]

DeleteUser(e) ==
    /\ name[e] # 0
    /\ name' = [name EXCEPT ![e] = 0]
    /\ flagged' = flagged \ {e}
    /\ member' = [member EXCEPT ![e] = NoMembership]
    /\ Touch({e}, {e})
    /\ UNCHANGED <<mappings, groups>>

AddToGroup(e, v) ==
    /\ name[e] # 0 /\ v \in groups /\ member[e][v] = "none"
    /\ \E source \in MembershipSource : member' = [member EXCEPT ![e][v] = source]
    /\ Touch({e}, {})
    /\ UNCHANGED <<mappings, groups, name, flagged>>

RemoveFromGroup(e, v) ==
    /\ member[e][v] # "none"
    /\ member' = [member EXCEPT ![e][v] = "none"]
    /\ Touch({e}, {})
    /\ UNCHANGED <<mappings, groups, name, flagged>>

Dismiss(e) ==
    /\ e \in flagged
    /\ flagged' = flagged \ {e}
    /\ Touch({e}, {})
    /\ UNCHANGED <<mappings, groups, name, member>>

\* Three statements, of which the last ones may fail.
Reassign(e, v) ==
    /\ e \in flagged /\ v \in groups
    /\ \/ member' = [member EXCEPT ![e] = NoMembership] /\ UNCHANGED flagged
       \/ /\ member' = [member EXCEPT ![e] = [NoMembership EXCEPT ![v] = "MANUAL"]]
          /\ flagged' \in {flagged, flagged \ {e}}
    /\ Touch({e}, {})
    /\ UNCHANGED <<mappings, groups, name>>

AddMapping(m) ==
    /\ m.vpn \in groups
    /\ m \notin mappings
    /\ Move
    /\ mappings' = mappings \union {m}
    /\ UNCHANGED <<directory, groups, users, work>>

RemoveMapping(m) ==
    /\ m \in mappings
    /\ Move
    /\ mappings' = mappings \ {m}
    /\ UNCHANGED <<directory, groups, users, work>>

\* Memberships and mappings go with the group.
DeleteGroup(v) ==
    /\ v \in groups
    /\ groups' = groups \ {v}
    /\ mappings' = {m \in mappings : m.vpn # v}
    /\ member' = [e \in Email |-> [member[e] EXCEPT ![v] = "none"]]
    /\ Touch(Email, {})
    /\ UNCHANGED <<name, flagged>>

Next ==
    \/ \E s \in Sync :
         \/ Begin(s) \/ ListMappings(s) \/ Fetch(s) \/ FetchFails(s) \/ ReadMembers(s)
         \/ Lookup(s) \/ Create(s) \/ Upsert(s) \/ Flag(s) \/ StatementFails(s)
         \/ Succeed(s) \/ Return(s)
    \/ \E g \in GoogleGroup, e \in Email : ChangeGroup(g, e)
    \/ \E e \in Email : CreateUser(e) \/ DeleteUser(e) \/ Dismiss(e)
    \/ \E e \in Email, v \in VpnGroup :
         AddToGroup(e, v) \/ RemoveFromGroup(e, v) \/ Reassign(e, v)
    \/ \E m \in Mapping : AddMapping(m) \/ RemoveMapping(m)
    \/ \E v \in VpnGroup : DeleteGroup(v)

Spec == Init /\ [][Next]_vars

-----------------------------------------------------------------------------
(* Safety. *)

Mapped(s, m) == {o \in work[s].list : o.vpn = m.vpn}

\* A sync that succeeded has every user of a mapped Google group in the VPN group,
\* or names who is missing; administrators left that user alone meanwhile.
MembersAreIn ==
    \A s \in Sync : pc[s] = "done" =>
        \A m \in work[s].list \ work[s].unread :
            \A e \in work[s].always[m.google] \ (work[s].errors \union work[s].touched) :
                name[e] # 0 /\ member[e][m.vpn] = "GOOGLE_SYNC"

\* A sync that succeeded has flagged every user who is in a VPN group because of
\* Google and was in none of the groups mapped to it, or names who is not; neither
\* an administrator nor another sync changed that user meanwhile.
LeaversAreFlagged ==
    \A s \in Sync : pc[s] = "done" =>
        \A m \in work[s].list,
           e \in Email \ (work[s].errors \union work[s].touched \union work[s].joined) :
            member[e][m.vpn] = "GOOGLE_SYNC" =>
                e \in flagged \/ \E o \in Mapped(s, m) : e \in work[s].ever[o.google]

\* Nobody is flagged who was in one of the mapped groups all the time, if that
\* group could be read.
MembersAreNotFlagged ==
    [][\A e \in flagged' \ flagged, s \in Sync :
          pc[s] = "flag" /\ work'[s] # work[s] =>
              \A m \in work[s].at, o \in work[s].list \ work[s].unread :
                  o.vpn = m.vpn => e \notin work[s].always[o.google]]_vars
=============================================================================
