------------------------------ MODULE UserPage ------------------------------
(***************************************************************************)
(* The page /users/[id] in the browser of one administrator, with the       *)
(* routes of a VPN user it calls: the user, its groups, its temporary       *)
(* access, its certificate.  The browser holds the user and the grants it   *)
(* was last given; every operation is a call of its own, several can be     *)
(* under way, and most of them fetch the user again when they have been     *)
(* answered.  Answers of fetches arrive in any order.                       *)
(*                                                                         *)
(* Nobody else changes the user, and grants do not reach their end: what    *)
(* happens then is in CcdSync.  The groups of the server stay the same and  *)
(* the list of them is at hand.                                            *)
(***************************************************************************)
EXTENDS Integers, Sequences, SequencesExt

CONSTANTS
    Group,       \* the groups of the server
    Network,     \* values of the network settings, taken together
    First,       \* those of the user at first
    MaxActs,     \* bound: what the administrator does
    MaxGrants    \* bound: temporary grants

VARIABLES
    row,       \* the user in the database
    grants,    \* its temporary grants, in the order of createdAt
    managed,   \* the feature flag serverManagement
    page,      \* what the browser holds
    fetches,   \* the fetches of the user and of the grants under way
    jobs,      \* the operations under way, and how far each is
    torn,      \* history: an older answer arrived after a newer one, or an
               \* operation changed the user and was not answered with 200
    acts

vars == <<row, grants, managed, page, fetches, jobs, torn, acts>>

Gone == [gone |-> TRUE]
NotFound == [error |-> "User not found"]
Nobody == [none |-> TRUE]
NoAnswer == [pending |-> TRUE]
NoGroup == "no group"

Grant == [group : Group, active : BOOLEAN]
Operation ==
    [kind : {"add", "remove"}, arg : Group] \cup [kind : {"grant"}, arg : Group]
    \cup [kind : {"revoke"}, arg : 1 .. MaxGrants] \cup [kind : {"save"}, arg : Network]
    \cup [kind : {"generate-cert", "revoke-cert", "regenerate-cert", "push-ccd", "delete"}, arg : {NoGroup}]

Remote == {"generate-cert", "revoke-cert", "regenerate-cert", "push-ccd"}

-----------------------------------------------------------------------------
(* The page                                                                 *)

\* fetchUser and fetchTempGrants.
Fetch(what) == [what |-> what, answer |-> NoAnswer, late |-> FALSE]

Init ==
    /\ row = [cert |-> "NONE", ccd |-> "PENDING", enabled |-> FALSE, groups |-> {}, net |-> First]
    /\ grants = <<>>
    /\ managed \in BOOLEAN
    /\ page = [user |-> Nobody, grants |-> <<>>, net |-> First, loading |-> TRUE, managed |-> TRUE, left |-> FALSE]
    /\ fetches = <<Fetch("user"), Fetch("grants")>>
    /\ jobs = [o \in {} |-> "sent"]
    /\ torn = FALSE
    /\ acts = 0

\* What is on the screen.  An answer without a user (404, 401) is taken for a
\* user, and rendering it throws.
Shows ==
    IF page.left THEN "users"
    ELSE IF page.loading THEN "loading"
    ELSE IF page.user = Nobody THEN "not found"
    ELSE IF page.user = NotFound THEN "broken"
    ELSE "user"

UnderWay(kind) == \E o \in DOMAIN jobs : o.kind = kind

\* ActionButton: one of its actions at a time.
ActionsOff == ~page.managed \/ \E k \in Remote : UnderWay(k)

\* The certificate card, the card of the configuration file and its button.
CertActions ==
    IF ActionsOff THEN {}
    ELSE IF page.user.cert = "ACTIVE" THEN {"regenerate-cert", "revoke-cert"} ELSE {"generate-cert"}
PushActions == IF ActionsOff THEN {} ELSE {"push-ccd"}

\* The card of the groups.
Unjoined == IF UnderWay("add") THEN {} ELSE Group \ page.user.groups
Removable == {g \in page.user.groups : [kind |-> "remove", arg |-> g] \notin DOMAIN jobs}

\* The card of the temporary access: the groups that can be granted, the
\* latest grant, which is the only one with a button, and the history.
Grantable ==
    IF UnderWay("grant") THEN {}
    ELSE {g \in Group \ page.user.groups :
            ~\E i \in DOMAIN page.grants : page.grants[i].group = g /\ page.grants[i].active}
Latest == IF page.grants = <<>> THEN <<>> ELSE <<Last(page.grants)>>
History == IF page.grants = <<>> THEN <<>> ELSE Front(page.grants)
Live(grant) == grant.active
Revocable == IF Latest # <<>> /\ Live(Latest[1]) THEN {Len(page.grants)} ELSE {}

\* The card of the network settings, and the button in the head of the page.
Saveable == IF UnderWay("save") THEN {} ELSE {page.net}
DeleteOffered == ~UnderWay("delete") /\ page.managed

\* The operations whose controls are there and enabled.
Offered ==
    IF Shows # "user" THEN {}
    ELSE {o \in Operation :
            \/ o.kind = "add" /\ o.arg \in Unjoined
            \/ o.kind = "remove" /\ o.arg \in Removable
            \/ o.kind = "grant" /\ o.arg \in Grantable
            \/ o.kind = "revoke" /\ o.arg \in Revocable
            \/ o.kind = "save" /\ o.arg \in Saveable
            \/ o.kind \in CertActions \cup PushActions
            \/ o.kind = "delete" /\ DeleteOffered}

Edit ==
    /\ Shows = "user"
    /\ acts < MaxActs /\ acts' = acts + 1
    /\ \E n \in Network \ {page.net} : page' = [page EXCEPT !.net = n]
    /\ UNCHANGED <<row, grants, managed, fetches, jobs, torn>>

\* The first half of a handler: the call is sent.
Start ==
    /\ acts < MaxActs /\ acts' = acts + 1
    /\ \E o \in Offered \ DOMAIN jobs : jobs' = [p \in DOMAIN jobs \cup {o} |-> IF p = o THEN "sent" ELSE jobs[p]]
    /\ UNCHANGED <<row, grants, managed, page, fetches, torn>>

\* Mutant of Refetched: the grants are not fetched when one has been revoked.
RefetchedUserOnly(kind, step) == IF step = "ok" /\ kind # "delete" THEN <<Fetch("user")>> ELSE <<>>

\* What a handler fetches when its call has been answered.
Refetched(kind, step) ==
    CASE kind \in {"add", "save"} -> IF step = "ok" THEN <<Fetch("user")>> ELSE <<>>
      [] kind = "grant" -> IF step = "ok" THEN <<Fetch("grants"), Fetch("user")>> ELSE <<>>
      [] kind = "revoke" -> <<Fetch("grants"), Fetch("user")>>
      [] kind = "delete" -> <<>>
      [] OTHER -> <<Fetch("user")>>

Forget(o) == jobs' = [p \in DOMAIN jobs \ {o} |-> jobs[p]]

\* An operation that changed the user and reports a failure, and after which
\* the page fetches nothing.
Unseen(o) == jobs[o] = "half" /\ Refetched(o.kind, "half") = <<>>

\* The second half: the user is fetched, and the screen shows nothing else
\* until some answer of it has arrived.  A deleted user sends to the list.
Answered(o) ==
    /\ jobs[o] # "sent"
    /\ fetches' = fetches \o Refetched(o.kind, jobs[o])
    /\ page' = IF o.kind = "delete" /\ jobs[o] = "ok" THEN [page EXCEPT !.left = TRUE]
               ELSE IF \E i \in DOMAIN Refetched(o.kind, jobs[o]) : Refetched(o.kind, jobs[o])[i].what = "user"
               THEN [page EXCEPT !.loading = TRUE] ELSE page
    /\ torn' = (torn \/ Unseen(o))
    /\ Forget(o)
    /\ UNCHANGED <<row, grants, managed, acts>>

\* The connection is lost: the handler throws behind its finally.
Lost(o) ==
    /\ jobs[o] # "sent"
    /\ torn' = TRUE
    /\ Forget(o)
    /\ UNCHANGED <<row, grants, managed, page, fetches, acts>>

\* The routes that give the user, and the grants newest first.
Serve(i) ==
    /\ fetches[i].answer = NoAnswer
    /\ fetches' = [fetches EXCEPT ![i].answer =
                     IF fetches[i].what = "user" THEN (IF row = Gone THEN NotFound ELSE row)
                     ELSE [list |-> IF row = Gone THEN <<>> ELSE grants]]
    /\ UNCHANGED <<row, grants, managed, page, jobs, torn, acts>>

\* Every user that arrives sets the form of the network settings anew.
Arrive(i) ==
    /\ fetches[i].answer # NoAnswer
    /\ page' = IF fetches[i].what = "grants" THEN [page EXCEPT !.grants = fetches[i].answer.list]
               ELSE [page EXCEPT !.user = fetches[i].answer, !.loading = FALSE,
                                 !.net = IF fetches[i].answer = NotFound THEN @ ELSE fetches[i].answer.net]
    /\ torn' = (torn \/ fetches[i].late)
    /\ fetches' = [k \in 1 .. Len(fetches) - 1 |->
                     IF k < i THEN [fetches[k] EXCEPT !.late = @ \/ fetches[k].what = fetches[i].what]
                     ELSE fetches[k + 1]]
    /\ UNCHANGED <<row, grants, managed, jobs, acts>>

\* A fetch that fails leaves no user, or no grants.
ArriveNot(i) ==
    /\ page' = IF fetches[i].what = "grants" THEN [page EXCEPT !.grants = <<>>]
               ELSE [page EXCEPT !.user = Nobody, !.loading = FALSE]
    /\ torn' = TRUE
    /\ fetches' = RemoveAt(fetches, i)
    /\ UNCHANGED <<row, grants, managed, jobs, acts>>

\* The answer of /api/system/status.
FlagKnown ==
    /\ page.managed # managed
    /\ page' = [page EXCEPT !.managed = managed]
    /\ UNCHANGED <<row, grants, managed, fetches, jobs, torn, acts>>

-----------------------------------------------------------------------------
(* The routes, each as one step; CcdSync, VpnCertificates and AccessRequests *)
(* take them apart.                                                         *)

End(o, step) == jobs' = [jobs EXCEPT ![o] = step]

Taken(o) == jobs[o] = "sent" /\ row # Gone

\* Nothing is changed: the user is gone, a check says no, or a call fails.
Refuse(o) ==
    /\ jobs[o] = "sent"
    /\ End(o, "refused")
    /\ UNCHANGED <<row, grants, managed, page, fetches, torn, acts>>

\* The changes are made; the last one of them, the audit record, may fail.
Commit(o) ==
    /\ \E step \in {"ok", "half"} : End(o, step)
    /\ UNCHANGED <<managed, page, fetches, torn, acts>>

Groups(o) ==
    /\ Taken(o)
    /\ \/ o.kind = "add" /\ o.arg \notin row.groups /\ row' = [row EXCEPT !.groups = @ \cup {o.arg}]
       \/ o.kind = "remove" /\ o.arg \in row.groups /\ row' = [row EXCEPT !.groups = @ \ {o.arg}]
    /\ UNCHANGED grants
    /\ Commit(o)

Save(o) ==
    /\ o.kind = "save" /\ Taken(o)
    /\ row' = [row EXCEPT !.net = o.arg]
    /\ UNCHANGED grants
    /\ Commit(o)

\* Something was changed on the way to the failure that is reported.
Fail(o) ==
    /\ End(o, "half")
    /\ UNCHANGED <<managed, page, fetches, torn, acts>>

\* What a change of the access that fails leaves of the status of the file:
\* it is PENDING before anything is tried, and FAILED when the write has been.
StatusLeft == {row.ccd, "PENDING"} \cup (IF managed THEN {"FAILED"} ELSE {})

\* A grant enables the user before the file is written.  When that fails the
\* grant is taken back, which may fail as well, and the user stays enabled.
GrantTemporary(o) ==
    /\ o.kind = "grant" /\ Taken(o)
    /\ o.arg \notin row.groups
    /\ ~\E i \in DOMAIN grants : grants[i].group = o.arg /\ grants[i].active
    /\ \/ /\ managed /\ Len(grants) < MaxGrants
          /\ row' = [row EXCEPT !.enabled = TRUE, !.ccd = "SUCCESS"]
          /\ grants' = Append(grants, [group |-> o.arg, active |-> TRUE])
          /\ Commit(o)
       \/ /\ \E s \in StatusLeft : row' = [row EXCEPT !.enabled = TRUE, !.ccd = s]
          /\ \/ UNCHANGED grants
             \/ /\ Len(grants) < MaxGrants
                /\ grants' = Append(grants, [group |-> o.arg, active |-> TRUE])
          /\ Fail(o)

\* The grant ends before the file is written, and is restored when that fails,
\* which may fail as well.  The file of a disabled user is not written.
RevokeTemporary(o) ==
    /\ o.kind = "revoke" /\ Taken(o)
    /\ \/ /\ managed
          /\ row' = [row EXCEPT !.ccd = IF row.enabled THEN "SUCCESS" ELSE "PENDING"]
          /\ grants' = [grants EXCEPT ![o.arg].active = FALSE]
          /\ Commit(o)
       \/ /\ \E s \in StatusLeft : row' = [row EXCEPT !.ccd = s]
          /\ grants' \in {grants, [grants EXCEPT ![o.arg].active = FALSE]}
          /\ Fail(o)

\* The certificate and the file, when the server is managed.  A push reports
\* success only when it recorded it.
Certificate(o) ==
    /\ managed /\ Taken(o)
    /\ UNCHANGED grants
    /\ \/ /\ o.kind = "generate-cert" => row.cert # "ACTIVE"
          /\ o.kind \in {"generate-cert", "regenerate-cert"} /\ row' = [row EXCEPT !.cert = "ACTIVE"]
          /\ Commit(o)
       \/ /\ o.kind = "revoke-cert" /\ row.cert = "ACTIVE" /\ row' = [row EXCEPT !.cert = "REVOKED"]
          /\ Commit(o)
       \/ /\ o.kind = "push-ccd" /\ row' = [row EXCEPT !.ccd = "SUCCESS"]
          /\ Commit(o)
       \/ /\ o.kind = "push-ccd" /\ row' = [row EXCEPT !.ccd = "FAILED"]
          /\ Fail(o)

Delete(o) ==
    /\ o.kind = "delete" /\ managed /\ Taken(o)
    /\ row' = Gone
    /\ grants' = <<>>
    /\ Commit(o)

Next ==
    \/ Edit \/ Start \/ FlagKnown
    \/ \E o \in DOMAIN jobs :
         \/ Answered(o) \/ Lost(o) \/ Refuse(o) \/ Groups(o) \/ Save(o)
         \/ GrantTemporary(o) \/ RevokeTemporary(o) \/ Certificate(o) \/ Delete(o)
    \/ \E i \in DOMAIN fetches : Serve(i) \/ Arrive(i) \/ ArriveNot(i)

Spec == Init /\ [][Next]_vars

-----------------------------------------------------------------------------
(* Properties                                                               *)

Quiet == fetches = <<>> /\ DOMAIN jobs = {} /\ Shows # "users"

\* What the administrator looks at is the user as it is, with all its grants,
\* once nothing is under way.  It is not when an older answer arrived last,
\* when a fetch or an operation was lost, or when an operation that reported
\* a failure had changed the user and the page fetches nothing after it: a
\* grant that could not be written, for one, leaves the status of the file
\* FAILED or PENDING and a disabled user enabled.
ShownIsCurrent ==
    Quiet /\ ~torn =>
        /\ page.user = IF row = Gone THEN NotFound ELSE row
        /\ row # Gone => History \o Latest = grants
=============================================================================
