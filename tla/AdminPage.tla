----------------------------- MODULE AdminPage -----------------------------
(***************************************************************************)
(* The page /admin in the browser of one administrator: the accounts that   *)
(* may sign in, those waiting for approval, and the badge of the sidebar    *)
(* that counts them; with the routes of /api/admin/users.  No button is     *)
(* disabled while its call is under way, except that of the form: the same  *)
(* call can be sent twice, and a bulk action sends one call for each ticked *)
(* account.  Answers of fetches arrive in any order.                        *)
(*                                                                         *)
(* Nobody else changes an account.  The search field and the tabs choose    *)
(* what is looked at and are left out, and so is opening the forms.  The     *)
(* gate around the page shows it when the administrator's address is known. *)
(***************************************************************************)
EXTENDS Integers, FiniteSets, Sequences, SequencesExt

CONSTANTS
    MaxAccount,   \* bound: accounts, those created by the administrator included
    Applicant,    \* the accounts that wait for approval at first
    MaxActs       \* bound: what the administrator does

VARIABLES
    accounts,   \* the table of accounts; an id is used once
    session,    \* the session of the administrator stands
    page,       \* what the browser holds
    fetches,    \* the fetches of the list and of the count under way
    calls,      \* the operations under way
    torn,       \* history: an older answer arrived after a newer one, an answer
                \* was lost, or a failed operation had changed something
    acts

vars == <<accounts, session, page, fetches, calls, torn, acts>>

Me == 1
Unborn == [born |-> FALSE]
Gone == [born |-> TRUE]
NoAnswer == [pending |-> TRUE]
NoDialog == [kind |-> "none", ids |-> {}]

Exists(i) == accounts[i] \notin {Unborn, Gone}
Waiting == {i \in 1 .. MaxAccount : Exists(i) /\ ~accounts[i].approved}

\* fetchUsers of the page, fetchCount of the sidebar.
Fetch(what) == [what |-> what, answer |-> NoAnswer, late |-> FALSE]

Init ==
    /\ accounts = [i \in 1 .. MaxAccount |->
                     IF i = Me THEN [approved |-> TRUE, role |-> "ADMIN", mfa |-> TRUE]
                     ELSE IF i \in Applicant THEN [approved |-> FALSE, role |-> "VIEWER", mfa |-> FALSE]
                     ELSE Unborn]
    /\ session = TRUE
    /\ page = [list |-> <<>>, loading |-> TRUE, picked |-> {},
               dialog |-> NoDialog, count |-> 0]
    /\ fetches = <<Fetch("list"), Fetch("count")>>
    /\ calls = <<>>
    /\ torn = FALSE
    /\ acts = 0

-----------------------------------------------------------------------------
(* What can be pressed                                                      *)

approvedUsers == {i \in DOMAIN page.list : page.list[i].approved}
pendingUsers == DOMAIN page.list \ approvedUsers
Others == approvedUsers \ {Me}
Free == ~page.loading /\ page.dialog = NoDialog
UnderWay(kind) == \E k \in DOMAIN calls : calls[k].kind = kind

\* A dialog that asks before something is removed, or done to all the ticked.
Asks ==
    [kind : {"remove"}, ids : {{i} : i \in Others}]
    \cup [kind : {"reject"}, ids : {{i} : i \in pendingUsers}]
    \cup (IF pendingUsers = {} \/ page.picked = {} THEN {}
          ELSE [kind : {"approve all", "reject all"}, ids : {page.picked}])

OpenDialog ==
    /\ Free
    /\ \E d \in Asks : page' = [page EXCEPT !.dialog = d]
    /\ UNCHANGED <<accounts, session, fetches, calls, torn, acts>>

Cancel ==
    /\ page.dialog # NoDialog
    /\ page' = [page EXCEPT !.dialog = NoDialog]
    /\ UNCHANGED <<accounts, session, fetches, calls, torn, acts>>

Tick ==
    /\ Free /\ acts < MaxActs /\ acts' = acts + 1
    /\ \E i \in pendingUsers :
         page' = [page EXCEPT !.picked = IF i \in @ THEN @ \ {i} ELSE @ \cup {i}]
    /\ UNCHANGED <<accounts, session, fetches, calls, torn>>

\* toggleAllPending looks at how many are ticked, not at which.
TickAll ==
    /\ Free /\ acts < MaxActs /\ acts' = acts + 1
    /\ page' = [page EXCEPT !.picked =
                  IF Cardinality(@) = Cardinality(pendingUsers) THEN {} ELSE pendingUsers]
    /\ UNCHANGED <<accounts, session, fetches, calls, torn>>

\* The calls that a press sends: what a dialog confirms, and what needs no
\* confirmation.  A role is sent as the opposite of the one shown.
Call(kind, ids, role) ==
    [kind |-> kind, ids |-> ids, role |-> role, left |-> ids, outcome |-> "ok", heard |-> TRUE]
Opposite(role) == IF role = "ADMIN" THEN "VIEWER" ELSE "ADMIN"
Confirmed ==
    IF page.dialog = NoDialog THEN {} ELSE {Call(page.dialog.kind, page.dialog.ids, "none")}
Unasked ==
    IF ~Free THEN {}
    ELSE {Call("role", {i}, Opposite(page.list[i].role)) : i \in Others}
         \cup {Call("mfa", {i}, "none") : i \in {j \in approvedUsers : page.list[j].mfa}}
         \cup {Call("password", {i}, "none") : i \in Others}
         \cup {Call("approve", {i}, "none") : i \in pendingUsers}
         \cup {Call("create", {0}, role) : role \in IF UnderWay("create") THEN {} ELSE {"ADMIN", "VIEWER"}}

\* The first half of a handler.
Send ==
    /\ acts < MaxActs /\ acts' = acts + 1
    /\ \E c \in Confirmed \cup Unasked : calls' = Append(calls, c)
    /\ UNCHANGED <<accounts, session, page, fetches, torn>>

-----------------------------------------------------------------------------
(* Answers                                                                  *)

\* Mutant of Refetched: an approval tells the sidebar and fetches no list.
RefetchedCountOnly(kind, outcome) ==
    IF kind = "approve" /\ outcome = "ok" THEN <<Fetch("count")>>
    ELSE IF outcome = "ok" THEN <<Fetch("list"), Fetch("count")>> ELSE <<>>

\* What a handler fetches when its call has been answered: the list, and the
\* count where the number of waiting accounts changes.  The answer to a change
\* of role is not looked at, nor are those of a bulk action one by one.
Refetched(kind, outcome) ==
    CASE kind \in {"approve all", "reject all"} -> <<Fetch("list"), Fetch("count")>>
      [] kind = "role" -> <<Fetch("list")>>
      [] kind \in {"approve", "reject"} /\ outcome = "ok" -> <<Fetch("list"), Fetch("count")>>
      [] kind \notin {"approve all", "reject all", "role"} /\ outcome # "ok" -> <<>>
      [] OTHER -> <<Fetch("list")>>

Bulk == {"approve all", "reject all"}

\* The second half: the dialog of that kind is closed, whoever is in it, though
\* not when a failure came without JSON; a bulk action clears the ticks.
Answered(k) ==
    LET c == calls[k] IN
    /\ c.left = {} /\ c.heard
    /\ fetches' = fetches \o Refetched(c.kind, c.outcome)
    /\ page' \in {[page EXCEPT !.picked = IF c.kind \in Bulk THEN {} ELSE @,
                               !.dialog = IF @.kind = c.kind \/ {@.kind, c.kind} \subseteq Bulk THEN d ELSE @] :
                    d \in {NoDialog} \cup IF c.outcome = "ok" THEN {} ELSE {page.dialog}}
    /\ torn' = (torn \/ (c.outcome = "half" /\ Refetched(c.kind, "half") = <<>>))
    /\ calls' = RemoveAt(calls, k)
    /\ UNCHANGED <<accounts, session, acts>>

\* A connection is lost: the handler throws.  The other calls of a bulk action
\* go on, and nobody waits for them.
Lost(k) ==
    /\ calls[k].heard /\ (calls[k].left = {} \/ calls[k].kind \in Bulk)
    /\ calls' = [calls EXCEPT ![k].heard = FALSE]
    /\ torn' = TRUE
    /\ UNCHANGED <<accounts, session, page, fetches, acts>>
Forgotten(k) ==
    /\ ~calls[k].heard /\ calls[k].left = {}
    /\ calls' = RemoveAt(calls, k)
    /\ UNCHANGED <<accounts, session, page, fetches, torn, acts>>

\* The routes that give the list and the count; without a session both answer
\* with an error, which the page takes for no account and the sidebar for none.
Listed == IF session THEN [i \in {j \in 1 .. MaxAccount : Exists(j)} |-> accounts[i]] ELSE <<>>
Counted == IF session THEN Cardinality(Waiting) ELSE 0
Serve(n) ==
    /\ fetches[n].answer = NoAnswer
    /\ fetches' = [fetches EXCEPT ![n].answer =
                     IF fetches[n].what = "list" THEN [list |-> Listed] ELSE [count |-> Counted]]
    /\ UNCHANGED <<accounts, session, page, calls, torn, acts>>

Arrive(n) ==
    /\ fetches[n].answer # NoAnswer
    /\ page' = IF fetches[n].what = "count" THEN [page EXCEPT !.count = fetches[n].answer.count]
               ELSE [page EXCEPT !.list = fetches[n].answer.list, !.loading = FALSE]
    /\ torn' = (torn \/ fetches[n].late)
    /\ fetches' = [m \in 1 .. Len(fetches) - 1 |->
                     IF m < n THEN [fetches[m] EXCEPT !.late = @ \/ fetches[m].what = fetches[n].what]
                     ELSE fetches[m + 1]]
    /\ UNCHANGED <<accounts, session, calls, acts>>

\* A fetch that fails leaves no account, and the count as it was.
ArriveNot(n) ==
    /\ page' = IF fetches[n].what = "count" THEN page
               ELSE [page EXCEPT !.list = <<>>, !.loading = FALSE]
    /\ torn' = TRUE
    /\ fetches' = RemoveAt(fetches, n)
    /\ UNCHANGED <<accounts, session, calls, acts>>

\* The sidebar asks every thirty seconds.
Interval ==
    /\ acts < MaxActs /\ acts' = acts + 1
    /\ fetches' = Append(fetches, Fetch("count"))
    /\ UNCHANGED <<accounts, session, page, calls, torn>>

-----------------------------------------------------------------------------
(* The routes, each call as one step; Sessions takes them apart.            *)

\* The call for i is over.  What it did stands when its last part fails: the
\* sessions of the account, or the audit record.
Over(k, i, outcome) ==
    calls' = [calls EXCEPT ![k].left = @ \ {i},
                           ![k].outcome = IF outcome = "ok" THEN @ ELSE outcome]

\* Nothing is changed: no such account, a check says no, or a call fails.
Refuse(k, i) ==
    /\ Over(k, i, "refused")
    /\ UNCHANGED <<accounts, session, page, fetches, torn, acts>>

Commit(k, i) ==
    /\ session
    /\ \E outcome \in {"ok", "half"} : Over(k, i, outcome)
    /\ UNCHANGED <<page, fetches, torn, acts>>

\* PUT: not for one's own account.  A new password shows nowhere.
Update(k, i) ==
    /\ calls[k].kind \in {"role", "approve", "approve all", "password"}
    /\ i # Me /\ Exists(i)
    /\ accounts' = CASE calls[k].kind = "role" -> [accounts EXCEPT ![i].role = calls[k].role]
                     [] calls[k].kind = "password" -> accounts
                     [] OTHER -> [accounts EXCEPT ![i].approved = TRUE]
    /\ UNCHANGED session
    /\ Commit(k, i)

\* DELETE: whether the account has been approved is not asked.
Delete(k, i) ==
    /\ calls[k].kind \in {"remove", "reject", "reject all"}
    /\ i # Me /\ Exists(i)
    /\ accounts' = [accounts EXCEPT ![i] = Gone]
    /\ UNCHANGED session
    /\ Commit(k, i)

\* Turning off one's own second factor ends one's own session.
ResetMfa(k, i) ==
    /\ calls[k].kind = "mfa" /\ Exists(i)
    /\ accounts' = [accounts EXCEPT ![i].mfa = FALSE]
    /\ session' = (i # Me)
    /\ Commit(k, i)

\* POST: a created account needs no approval.
Create(k) ==
    /\ calls[k].kind = "create"
    /\ \E i \in 1 .. MaxAccount :
         /\ accounts[i] = Unborn /\ \A j \in 1 .. i - 1 : accounts[j] # Unborn
         /\ accounts' = [accounts EXCEPT ![i] = [approved |-> TRUE, role |-> calls[k].role, mfa |-> FALSE]]
    /\ UNCHANGED session
    /\ Commit(k, 0)

Next ==
    \/ OpenDialog \/ Cancel \/ Tick \/ TickAll \/ Send \/ Interval
    \/ \E n \in DOMAIN fetches : Serve(n) \/ Arrive(n) \/ ArriveNot(n)
    \/ \E k \in DOMAIN calls :
         \/ Answered(k) \/ Lost(k) \/ Forgotten(k) \/ (0 \in calls[k].left /\ Create(k))
         \/ \E i \in calls[k].left : Refuse(k, i)
         \/ \E i \in calls[k].left \ {0} : Update(k, i) \/ Delete(k, i) \/ ResetMfa(k, i)

Spec == Init /\ [][Next]_vars

-----------------------------------------------------------------------------
(* Properties                                                               *)

Quiet == fetches = <<>> /\ calls = <<>>

\* Once nothing is under way the two lists are the accounts of the database and
\* the badge counts those that wait; or the page is empty, when its administrator
\* has turned off their own second factor.  It is not so when an older answer
\* arrived last, an answer was lost, or an operation that reported a failure had
\* changed an account.
ShownIsCurrent ==
    Quiet /\ ~torn =>
        /\ page.list = Listed
        /\ session => page.count = Cardinality(Waiting)
=============================================================================
