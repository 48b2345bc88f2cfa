---------------------------- MODULE RequestPage ----------------------------
(***************************************************************************)
(* The page /request-access in the browser of one applicant, with the two   *)
(* routes it calls: GET and POST /api/access-requests.  The browser holds   *)
(* the list of requests it was last given and decides from it which servers *)
(* the form offers; the routes decide again from the rows.  A POST goes on  *)
(* in the server when the browser has left or reloaded the page.  Reviewers *)
(* and the lifecycle move requests as RequestLifecycle allows.              *)
(*                                                                         *)
(* The groups of a server never show: the page asks                         *)
(* /api/servers/[id]/groups for them, which no route answers, so the list   *)
(* of groups stays empty and every request is sent without groups.          *)
(***************************************************************************)
EXTENDS Integers, FiniteSets, Sequences, SequencesExt

CONSTANTS
    Server,      \* the active VPN servers
    OpenLimit,   \* open requests an address may have: 3 in the source
    MaxRows,     \* bound: requests of the applicant
    MaxPosts,    \* bound: POSTs
    MaxReloads   \* bound: reloads of the page

VARIABLES
    rows,        \* the requests of the applicant, in the order of createdAt
    enabled,     \* the servers on which they have an enabled VPN user
    page,        \* what the browser holds
    posts,       \* the POSTs sent so far, and where each is
    left,        \* history: the page was left while a POST was under way
    reloads

vars == <<rows, enabled, page, posts, left, reloads>>

NoServer == "no server"
Request == [server : Server, status : {"PENDING", "PROCESSING", "APPROVED", "FAILED", "REJECTED", "EXPIRED"}]
Blocking == {"PENDING", "PROCESSING", "FAILED", "APPROVED"}
Open == {"PENDING", "PROCESSING", "FAILED"}

\* A page that has just been opened.  The call is the one it waits for; post
\* is the POST it sent last, if this page sent one.
NewPage == [auth |-> "loading", loading |-> TRUE, existing |-> <<>>, selected |-> NoServer,
            submitting |-> FALSE, call |-> "none", post |-> 0, message |-> "none"]

Init ==
    /\ rows = <<>>
    /\ enabled = {}
    /\ page = NewPage
    /\ posts = <<>>
    /\ left = FALSE
    /\ reloads = 0

-----------------------------------------------------------------------------
(* GET /api/access-requests?mine=true                                       *)

\* The rows, newest first, without approvals for servers on which the access
\* is gone.  An approval listed twice tells the form nothing more, so that
\* filter is left out.
Mine(requests, servers) ==
    Reverse(SelectSeq(requests, LAMBDA r : r.status = "APPROVED" => r.server \in servers))

-----------------------------------------------------------------------------
(* The page                                                                 *)

\* Mutant of Blocks: the form forgets the requests that wait for a retry.
BlocksWithoutFailed(existing, s) ==
    \E i \in DOMAIN existing : existing[i].server = s /\ existing[i].status \in Blocking \ {"FAILED"}

\* blockedServerIds and selectedServerRequest: the requests for s that keep
\* the form from asking again.
Blocks(existing, s) ==
    \E i \in DOMAIN existing : existing[i].server = s /\ existing[i].status \in Blocking

\* What the page shows, and which of its controls can be used.
Shows ==
    IF page.auth = "loading" THEN "loading"
    ELSE IF page.auth = "unauthenticated" THEN "sign in"
    ELSE IF page.loading THEN "loading"
    ELSE "form"

Selectable == {s \in Server : ~Blocks(page.existing, s)}
Activity == SelectSeq(page.existing, LAMBDA r : r.status # "APPROVED")
Approvals == SelectSeq(page.existing, LAMBDA r : r.status = "APPROVED")

\* Mutant of SubmitEnabled: the button works while a request is being sent.
SubmitWhileSubmitting ==
    /\ Shows = "form"
    /\ page.selected # NoServer
    /\ ~Blocks(page.existing, page.selected)

SubmitEnabled ==
    /\ Shows = "form"
    /\ ~page.submitting
    /\ page.selected # NoServer
    /\ ~Blocks(page.existing, page.selected)

unseen == <<rows, enabled, posts, left, reloads>>

\* useSession finds out whether there is a session.
SessionKnown ==
    /\ page.auth = "loading"
    /\ \E a \in {"authenticated", "unauthenticated"} :
         page' = [page EXCEPT !.auth = a, !.call = IF a = "authenticated" THEN "load" ELSE "none"]
    /\ UNCHANGED unseen

\* The first lists arrive, or one of the two calls fails and both are dropped.
Loaded ==
    /\ page.call = "load"
    /\ \E list \in {Mine(rows, enabled), <<>>} :
         page' = [page EXCEPT !.existing = list, !.loading = FALSE, !.call = "none"]
    /\ UNCHANGED unseen

Select ==
    /\ Shows = "form"
    /\ \E s \in (Selectable \cup {NoServer}) \ {page.selected} : page' = [page EXCEPT !.selected = s]
    /\ UNCHANGED unseen

UnderWay(i) == posts[i].step \in {"sent", "reconciled", "checked"}

\* handleSubmit up to its first await.  Its own check of selectedServerRequest
\* never says more than the disabled button.
Submit ==
    /\ SubmitEnabled
    /\ Len(posts) < MaxPosts
    /\ page' = [page EXCEPT !.submitting = TRUE, !.call = "post", !.post = Len(posts) + 1, !.message = "none"]
    /\ posts' = Append(posts, [server |-> page.selected, step |-> "sent"])
    /\ UNCHANGED <<rows, enabled, left, reloads>>

\* The answer of the POST: an accepted one asks for the list again.
Answered ==
    /\ page.call = "post"
    /\ \/ /\ posts[page.post].step = "created"
          /\ page' = [page EXCEPT !.selected = NoServer, !.call = "list", !.message = "success"]
       \/ /\ posts[page.post].step = "refused"
          /\ page' = [page EXCEPT !.submitting = FALSE, !.call = "none", !.message = "error"]
    /\ UNCHANGED unseen

\* The list after an accepted POST.  The server answers after it created the row.
Listed ==
    /\ page.call = "list"
    /\ page' = [page EXCEPT !.existing = Mine(rows, enabled), !.submitting = FALSE, !.call = "none"]
    /\ UNCHANGED unseen

\* A fetch of handleSubmit throws: nothing catches it, and the button stays
\* disabled until the page is reloaded.
Lost ==
    /\ page.call \in {"post", "list"}
    /\ page' = [page EXCEPT !.call = "none"]
    /\ UNCHANGED unseen

Reload ==
    /\ reloads < MaxReloads
    /\ page.auth # "loading"
    /\ page' = NewPage
    /\ left' = (left \/ \E i \in DOMAIN posts : UnderWay(i))
    /\ reloads' = reloads + 1
    /\ UNCHANGED <<rows, enabled, posts>>

-----------------------------------------------------------------------------
(* POST /api/access-requests                                                *)

Step(i, s) == posts' = [posts EXCEPT ![i].step = s]

\* reconcileAccessRequestLifecycle, for the requests whose access is gone.
\* Those that have waited too long expire in Reviewed.
Reconciled(requests, servers) ==
    [i \in DOMAIN requests |->
        IF requests[i].status = "APPROVED" /\ requests[i].server \notin servers
        THEN [requests[i] EXCEPT !.status = "EXPIRED"] ELSE requests[i]]

Reconcile(i) ==
    /\ posts[i].step = "sent"
    /\ rows' = Reconciled(rows, enabled)
    /\ Step(i, "reconciled")
    /\ UNCHANGED <<enabled, page, left, reloads>>

\* existingRequest: the newest request for s in one of the four statuses.
NewestIs(requests, s, statuses) ==
    \E i \in DOMAIN requests :
        /\ requests[i].server = s /\ requests[i].status \in statuses
        /\ \A j \in DOMAIN requests :
             j > i => ~(requests[j].server = s /\ requests[j].status \in Blocking)

\* Refused because of this server, and because of the number of open requests.
Conflict(requests, servers, s) == s \in servers \/ NewestIs(requests, s, Open)
TooMany(requests) == Cardinality({i \in DOMAIN requests : requests[i].status \in Open}) >= OpenLimit

Check(i) ==
    /\ posts[i].step = "reconciled"
    /\ Step(i, IF Conflict(rows, enabled, posts[i].server) \/ TooMany(rows) THEN "refused" ELSE "checked")
    /\ UNCHANGED <<rows, enabled, page, left, reloads>>

\* The audit record is written behind the request: when that fails, the answer
\* is an error.
Insert(i) ==
    /\ posts[i].step = "checked"
    /\ Len(rows) < MaxRows
    /\ rows' = Append(rows, [server |-> posts[i].server, status |-> "PENDING"])
    /\ \E s \in {"created", "refused"} : Step(i, s)
    /\ UNCHANGED <<enabled, page, left, reloads>>

\* The body is not valid, or a statement fails, of the lifecycle pass perhaps
\* when it has moved some of the requests.
Fail(i) ==
    /\ UnderWay(i)
    /\ \E rest \in SUBSET Server :
         rows' = IF posts[i].step = "sent" THEN Reconciled(rows, enabled \cup rest) ELSE rows
    /\ Step(i, "refused")
    /\ UNCHANGED <<enabled, page, left, reloads>>

-----------------------------------------------------------------------------
(* Reviewers, the lifecycle pass and administrators                         *)

\* The moves of RequestLifecycle that other people and the pass make.  A
\* reviewer may still take up a request that expired under their eyes.
Moves ==
    {<<"PENDING", "PROCESSING">>, <<"FAILED", "PROCESSING">>, <<"EXPIRED", "PROCESSING">>,
     <<"PENDING", "REJECTED">>, <<"FAILED", "REJECTED">>, <<"PROCESSING", "FAILED">>,
     <<"PENDING", "EXPIRED">>, <<"FAILED", "EXPIRED">>}

Reviewed ==
    \E i \in DOMAIN rows :
        /\ \/ \E s \in {move[2] : move \in {m \in Moves : m[1] = rows[i].status}} :
                /\ rows' = [rows EXCEPT ![i].status = s]
                /\ UNCHANGED enabled
           \/ /\ rows[i].status = "PROCESSING"
              /\ rows' = [rows EXCEPT ![i].status = "APPROVED"]
              /\ enabled' = enabled \cup {rows[i].server}
        /\ UNCHANGED <<page, posts, left, reloads>>

\* A VPN user of the applicant is disabled or deleted, or an administrator
\* creates or enables one without a request.
Switched ==
    \E s \in Server :
        /\ enabled' = IF s \in enabled THEN enabled \ {s} ELSE enabled \cup {s}
        /\ UNCHANGED <<rows, page, posts, left, reloads>>

Next ==
    \/ SessionKnown \/ Loaded \/ Select \/ Submit \/ Answered \/ Listed \/ Lost \/ Reload
    \/ \E i \in DOMAIN posts : Reconcile(i) \/ Check(i) \/ Insert(i) \/ Fail(i)
    \/ Reviewed \/ Switched

Spec == Init /\ [][Next]_vars

-----------------------------------------------------------------------------
(* Properties                                                               *)

\* The form and the route agree.  When the list in the browser is the one the
\* route would give now, the form blocks a server exactly when the route would
\* refuse a request for it, the limit on open requests apart; it also offers
\* a server on which an administrator gave access without a request, which
\* the route refuses.  The approvals it counts, and sends to My VPN, are those
\* of servers with access, and every open request is among the activity.
FormAgrees ==
    Shows = "form" /\ page.existing = Mine(rows, enabled) =>
        /\ \A s \in Server :
             s \notin Selectable
                <=> /\ Conflict(Reconciled(rows, enabled), enabled, s)
                    /\ \E i \in DOMAIN rows : rows[i].server = s /\ rows[i].status \in Blocking
        /\ \A i \in DOMAIN Approvals : Approvals[i].server \in enabled
        /\ \A i \in DOMAIN rows : rows[i].status \in Open => rows[i] \in ToSet(Activity)

\* One request at a time.  POST looks for an open request and inserts its own
\* in two statements, but the button stays disabled while the page waits:
\* until the page is left in the middle of a POST, no server has two pending
\* requests of one applicant.
PendingOnce ==
    ~left =>
        \A i, j \in DOMAIN rows :
            rows[i].status = "PENDING" /\ rows[j].status = "PENDING" /\ rows[i].server = rows[j].server => i = j
=============================================================================
