----------------------------- MODULE UsersPage -----------------------------
(***************************************************************************)
(* The page /users in the browser of one administrator, with GET and POST   *)
(* /api/users and POST /api/users/bulk.  The query stands in the address    *)
(* bar; every change of it fetches the table again, an action on the users  *)
(* fetches it when it has worked, and answers arrive in any order.  The     *)
(* search box writes to the address bar when the typing has paused, with    *)
(* the query it saw when the key was pressed.                               *)
(*                                                                         *)
(* Of the four filters the status of the certificate stands for itself, the *)
(* server and the flag: all three are set from the address bar in the same  *)
(* way.  Nobody but this administrator changes the users.                   *)
(***************************************************************************)
EXTENDS Integers, FiniteSets, Sequences

CONSTANTS
    MaxUser,     \* users are numbered by createdAt; bound: this many
    Search,      \* texts of the search box
    Found,       \* the users whose address or common name contains a text
    PageSize,    \* rows of a page: 25 in the source
    MaxActs,     \* bound: what the administrator does
    MaxCalls     \* bound: fetches of the table under way

Everything == "everything"   \* the empty search
AnyStatus == "any"           \* no filter
Status == {"NONE", "ACTIVE"}
User == 1 .. MaxUser

VARIABLES
    cert,      \* the users there are, and the status of their certificates
    url,       \* the query in the address bar
    input,     \* the text in the search box
    timer,     \* the navigation the search box has scheduled
    table,     \* the rows and the total the page shows
    calls,     \* the fetches of the table under way, oldest first
    selected,  \* selectedIds
    bulk,      \* the bulk action under way
    form,      \* the form of a new user
    screen,    \* loading, if no answer came since the last fetch; shown; or
               \* broken, when rendering has failed
    torn,      \* history: the table was set by an answer to an earlier query,
               \* or an action was left without its answer, or answered as
               \* refused although it was done
    acts

vars == <<cert, url, input, timer, table, calls, selected, bulk, form, screen, torn, acts>>

Query == [search : Search \cup {Everything}, cert : Status \cup {AnyStatus}, page : Nat \ {0}]

NoTimer == [none |-> TRUE]
NoAnswer == [none |-> TRUE]
Idle == [step |-> "idle"]

-----------------------------------------------------------------------------
(* GET /api/users                                                           *)

Matching(q) ==
    {u \in DOMAIN cert : /\ q.search # Everything => u \in Found[q.search]
                         /\ q.cert # AnyStatus => cert[u] = q.cert}

\* Newest first, PageSize to a page, with the number of all that match.
Answer(q) ==
    LET newer(u) == Cardinality({v \in Matching(q) : v > u})
    IN [rows |-> [u \in {u \in Matching(q) : newer(u) \div PageSize = q.page - 1} |-> cert[u]],
        total |-> Cardinality(Matching(q))]

Nothing == [rows |-> [u \in {} |-> "NONE"], total |-> 0]

-----------------------------------------------------------------------------
(* The page                                                                 *)

\* fetchUsers: the query is the one of the closure that is called.
Call(q) == [query |-> q, answer |-> NoAnswer, late |-> FALSE]

\* setLoading, which a page that has failed to render does not come to.
Turns(next) == screen' = IF screen = "broken" THEN screen ELSE next

Init ==
    /\ cert = [u \in 1 .. MaxUser - 1 |-> "NONE"]
    /\ url = [search |-> Everything, cert |-> AnyStatus, page |-> 1]
    /\ input = Everything
    /\ timer = NoTimer
    /\ table = Nothing
    /\ calls = <<Call(url)>>
    /\ selected = {}
    /\ bulk = Idle
    /\ form = Idle
    /\ screen = "loading"
    /\ torn = FALSE
    /\ acts = 0

Rows == DOMAIN table.rows
TotalPages == IF table.total = 0 THEN 1 ELSE (table.total + PageSize - 1) \div PageSize

\* While the first rows are on their way the page is a skeleton.
Usable == screen # "broken" /\ ~(screen = "loading" /\ Rows = {})

Act == Usable /\ acts < MaxActs /\ acts' = acts + 1

\* Mutant of GoTo: the effect does not depend on the page.
GoToUnfetched(q) ==
    /\ Len(calls) < MaxCalls
    /\ url' = q
    /\ input' = IF q.search # url.search THEN q.search ELSE input
    /\ IF [q EXCEPT !.page = url.page] # url THEN calls' = Append(calls, Call(q)) /\ Turns("loading")
       ELSE UNCHANGED <<calls, screen>>

\* router.push, and the effects of a query that has changed: the search box
\* takes its text and the table is fetched.
GoTo(q) ==
    /\ Len(calls) < MaxCalls
    /\ url' = q
    /\ input' = IF q.search # url.search THEN q.search ELSE input
    /\ IF q # url THEN calls' = Append(calls, Call(q)) /\ Turns("loading")
       ELSE UNCHANGED <<calls, screen>>

\* What updateParams pushes for a change that does not name the page.
FirstPage(q) == [q EXCEPT !.page = 1]

Type ==
    /\ Act
    /\ \E text \in (Search \cup {Everything}) \ {input} :
         /\ input' = text
         /\ timer' = FirstPage([url EXCEPT !.search = text])
    /\ UNCHANGED <<cert, url, table, calls, selected, bulk, form, screen, torn>>

\* 300 ms after the last key.
Debounced ==
    /\ timer # NoTimer
    /\ GoTo(timer)
    /\ timer' = NoTimer
    /\ UNCHANGED <<cert, table, selected, bulk, form, torn, acts>>

\* The selects and the flag button: one filter, the search stays.
Filter ==
    /\ Act
    /\ \E c \in (Status \cup {AnyStatus}) \ {url.cert} : GoTo(FirstPage([url EXCEPT !.cert = c]))
    /\ UNCHANGED <<cert, timer, table, selected, bulk, form, torn>>

\* A saved view sets every filter and clears the search.
SavedView ==
    /\ Act
    /\ \E c \in Status \cup {AnyStatus} : GoTo([search |-> Everything, cert |-> c, page |-> 1])
    /\ UNCHANGED <<cert, timer, table, selected, bulk, form, torn>>

Turn ==
    /\ Act
    /\ \/ /\ url.page > 1
          /\ GoTo([url EXCEPT !.page = @ - 1])
       \/ /\ url.page < TotalPages
          /\ GoTo([url EXCEPT !.page = @ + 1])
    /\ UNCHANGED <<cert, timer, table, selected, bulk, form, torn>>

\* The route answers a fetch.
Serve(i) ==
    /\ calls[i].answer = NoAnswer
    /\ calls' = [calls EXCEPT ![i].answer = Answer(calls[i].query)]
    /\ UNCHANGED <<cert, url, input, timer, table, selected, bulk, form, screen, torn, acts>>

\* An answer reaches the page, which does not ask which fetch it belongs to.
\* One that is not a list of users, or none at all, empties the table.
Arrive(i) ==
    /\ \/ /\ calls[i].answer # NoAnswer
          /\ table' = calls[i].answer
       \/ table' = Nothing
    /\ torn' = (torn \/ calls[i].late)
    /\ calls' = [k \in 1 .. Len(calls) - 1 |->
                   IF k < i THEN [calls[k] EXCEPT !.late = TRUE] ELSE calls[k + 1]]
    /\ Turns("shown")
    /\ UNCHANGED <<cert, url, input, timer, selected, bulk, form, acts>>

-----------------------------------------------------------------------------
(* Selection and bulk actions                                               *)

Toggle ==
    /\ Act
    /\ \E u \in Rows : selected' = IF u \in selected THEN selected \ {u} ELSE selected \cup {u}
    /\ UNCHANGED <<cert, url, input, timer, table, calls, bulk, form, screen, torn>>

\* The box in the head of the table compares numbers, not users, and so does
\* its tick.
AllTicked == Cardinality(selected) = Cardinality(Rows)

ToggleAll ==
    /\ Act
    /\ selected' = IF AllTicked THEN {} ELSE Rows
    /\ UNCHANGED <<cert, url, input, timer, table, calls, bulk, form, screen, torn>>

Clear ==
    /\ Act
    /\ selected # {}
    /\ selected' = {}
    /\ UNCHANGED <<cert, url, input, timer, table, calls, bulk, form, screen, torn>>

\* Certificates are what the table shows of a bulk action; pushing files and
\* adding to a group take the same way and leave the table as it is.
BulkStart ==
    /\ Act
    /\ selected # {} /\ bulk = Idle
    /\ bulk' = [step |-> "sent", ids |-> selected, left |-> selected, success |-> 0, query |-> url]
    /\ UNCHANGED <<cert, url, input, timer, table, calls, selected, form, screen, torn>>

\* One user of the loop, for whom the action works or fails.
BulkUser ==
    /\ bulk.step = "sent"
    /\ \E u \in bulk.left :
         \/ /\ cert' = [cert EXCEPT ![u] = "ACTIVE"]
            /\ bulk' = [bulk EXCEPT !.left = @ \ {u}, !.success = @ + 1]
         \/ /\ bulk' = [bulk EXCEPT !.left = @ \ {u}]
            /\ UNCHANGED cert
    /\ UNCHANGED <<url, input, timer, table, calls, selected, form, screen, torn, acts>>

\* A fetch of the closure an action was started with.
Refetch(q) == calls' = Append(calls, Call(q)) /\ Turns("loading") /\ torn' = (torn \/ q # url)

\* The selection stays.
BulkAnswered ==
    /\ bulk.step = "sent" /\ bulk.left = {}
    /\ Len(calls) < MaxCalls
    /\ bulk' = Idle
    /\ IF bulk.success > 0 THEN Refetch(bulk.query) ELSE UNCHANGED <<calls, screen, torn>>
    /\ UNCHANGED <<cert, url, input, timer, table, selected, form, acts>>

\* The connection is lost while the loop runs.
BulkLost ==
    /\ bulk.step = "sent" /\ bulk.left = {}
    /\ bulk' = Idle
    /\ torn' = TRUE
    /\ UNCHANGED <<cert, url, input, timer, table, calls, selected, form, screen, acts>>

\* A refusal (401, 403, 409) has no list of errors, which the page renders.
BulkRefused ==
    /\ bulk.step = "sent" /\ bulk.left = bulk.ids /\ bulk.success = 0
    /\ bulk' = Idle
    /\ screen' = "broken"
    /\ UNCHANGED <<cert, url, input, timer, table, calls, selected, form, torn, acts>>

-----------------------------------------------------------------------------
(* The form of a new user                                                   *)

CreateStart ==
    /\ Act
    /\ form = Idle
    /\ form' = [step |-> "sent", query |-> url]
    /\ UNCHANGED <<cert, url, input, timer, table, calls, selected, bulk, screen, torn>>

\* The route inserts the user, or refuses; when the audit row cannot be written
\* it answers as if it had refused.
Create ==
    /\ form.step = "sent"
    /\ \/ /\ DOMAIN cert # User
          /\ cert' = [u \in 1 .. Cardinality(DOMAIN cert) + 1 |-> IF u \in DOMAIN cert THEN cert[u] ELSE "NONE"]
          /\ \E step \in {"created", "half"} : form' = [form EXCEPT !.step = step]
       \/ /\ form' = [form EXCEPT !.step = "refused"]
          /\ UNCHANGED cert
    /\ UNCHANGED <<url, input, timer, table, calls, selected, bulk, screen, torn, acts>>

\* Only an answer that it was created fetches the table.
CreateAnswered ==
    /\ form.step \in {"created", "half", "refused"}
    /\ Len(calls) < MaxCalls
    /\ form' = Idle
    /\ IF form.step = "created" THEN Refetch(form.query)
       ELSE torn' = (torn \/ form.step = "half") /\ UNCHANGED <<calls, screen>>
    /\ UNCHANGED <<cert, url, input, timer, table, selected, bulk, acts>>

\* The answer is lost: nothing is fetched, whatever the route did.
CreateLost ==
    /\ form.step \in {"created", "half", "refused"}
    /\ form' = Idle
    /\ torn' = TRUE
    /\ UNCHANGED <<cert, url, input, timer, table, calls, selected, bulk, screen, acts>>

Next ==
    \/ Type \/ Debounced \/ Filter \/ SavedView \/ Turn
    \/ \E i \in DOMAIN calls : Serve(i) \/ Arrive(i)
    \/ Toggle \/ ToggleAll \/ Clear
    \/ BulkStart \/ BulkUser \/ BulkAnswered \/ BulkLost \/ BulkRefused
    \/ CreateStart \/ Create \/ CreateAnswered \/ CreateLost

Spec == Init /\ [][Next]_vars

-----------------------------------------------------------------------------
(* Properties                                                               *)

Quiet == calls = <<>> /\ bulk = Idle /\ form = Idle

\* The table is the answer to the query in the address bar, or empty because
\* a fetch failed, once nothing is under way.  It is not when an older answer
\* arrived last, when the query changed while an action was under way (it
\* fetches the table for the query it began with), when the answer of an action
\* was lost, or when the route answered that it had not created the user it had
\* inserted (the audit row failed): the page fetches nothing then.
TableIsAnswer == Quiet /\ ~torn /\ screen # "broken" => table \in {Answer(url), Nothing}
=============================================================================
