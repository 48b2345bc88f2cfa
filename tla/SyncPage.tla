------------------------------ MODULE SyncPage ------------------------------
(***************************************************************************)
(* The page /sync in the browser of one administrator: the mappings of      *)
(* Google groups and the history of the sync jobs of the server that is     *)
(* selected.  Selecting a server fetches both lists; adding or removing a   *)
(* mapping changes the list in the browser without fetching it; a sync      *)
(* fetches the first jobs when it has worked; further jobs are fetched by   *)
(* their offset and put behind the others.  Answers arrive in any order.    *)
(* What a sync does to users is in GoogleSync; here it is a row of the      *)
(* history.  Nobody else adds mappings or jobs.                             *)
(***************************************************************************)
EXTENDS Integers, FiniteSets, Sequences, SequencesExt, FiniteSetsExt

CONSTANTS
    Server,       \* the servers, of which one is selected at first
    First,
    Group,        \* VPN groups
    Owner,        \* the server of each group
    PageSize,     \* jobs fetched at a time: JOBS_PAGE_SIZE, 10 in the source
    Old,          \* bound: jobs the selected server has at first
    MaxActs       \* bound: what the administrator does

VARIABLES
    mappings,   \* the mappings in the database, newest first
    history,    \* the sync jobs of every server, newest first
    page,       \* what the browser holds
    fetches,    \* fetches under way, oldest first
    call,       \* the addition, removal and sync under way
    torn,       \* history: the lists were changed by what the page no longer asks for
    acts

vars == <<mappings, history, page, fetches, call, torn, acts>>

NoGroup == "no group"
NoAnswer == [pending |-> TRUE]
NoCall == [step |-> "none"]

\* fetchMappings, and fetchJobs for the first jobs or for more.
Fetch(what, server, offset) ==
    [what |-> what, server |-> server, offset |-> offset, answer |-> NoAnswer, late |-> FALSE]

\* The effect of selectedServerId.
Both(server) == <<Fetch("jobs", server, 0), Fetch("mappings", server, 0)>>

Init ==
    /\ mappings = <<>>
    /\ history = [s \in Server |-> IF s = First THEN [i \in 1 .. Old |-> [id |-> Old + 1 - i]] ELSE <<>>]
    /\ page = [server |-> First, mappings |-> <<>>, jobs |-> <<>>, total |-> 0,
               loading |-> TRUE, loadingMore |-> FALSE, group |-> NoGroup]
    /\ fetches = Both(First)
    /\ call = [k \in {"add", "remove", "sync"} |-> NoCall]
    /\ torn = FALSE
    /\ acts = 0

-----------------------------------------------------------------------------
(* The routes                                                               *)

\* GET /api/google-mappings?serverId=
MappingsOf(server) == SelectSeq(mappings, LAMBDA m : Owner[m.group] = server)

\* GET /api/sync/jobs?serverId=&limit=&offset=
JobsOf(server, offset) ==
    [jobs |-> SubSeq(history[server], offset + 1, Min({offset + PageSize, Len(history[server])})),
     total |-> Len(history[server])]

Serve(i) ==
    /\ fetches[i].answer = NoAnswer
    /\ fetches' = [fetches EXCEPT ![i].answer =
                     IF fetches[i].what = "mappings" THEN [list |-> MappingsOf(fetches[i].server)]
                     ELSE JobsOf(fetches[i].server, fetches[i].offset)]
    /\ UNCHANGED <<mappings, history, page, call, torn, acts>>

-----------------------------------------------------------------------------
(* The page                                                                 *)

\* What can be used: the groups the form offers, the mappings that can be
\* removed, and whether there are more jobs.
FilteredGroups == {g \in Group : Owner[g] = page.server}
Removable == {page.mappings[i].id : i \in DOMAIN page.mappings}
HasMoreJobs == ~page.loading /\ Len(page.jobs) < page.total
SyncOffered == call["sync"] = NoCall
AddOffered == page.group # NoGroup /\ call["add"] = NoCall

Act == acts < MaxActs /\ acts' = acts + 1

\* The group chosen in the form for a new mapping stays chosen.
Select ==
    /\ Act
    /\ \E s \in Server \ {page.server} :
         /\ page' = [page EXCEPT !.server = s, !.loading = TRUE]
         /\ fetches' = fetches \o Both(s)
    /\ torn' = (torn \/ \E k \in DOMAIN call : call[k] # NoCall)
    /\ UNCHANGED <<mappings, history, call>>

Choose ==
    /\ Act
    /\ \E g \in FilteredGroups \ {page.group} : page' = [page EXCEPT !.group = g]
    /\ UNCHANGED <<mappings, history, fetches, call, torn>>

LoadMore ==
    /\ Act
    /\ HasMoreJobs /\ ~page.loadingMore
    /\ page' = [page EXCEPT !.loadingMore = TRUE]
    /\ fetches' = Append(fetches, Fetch("more", page.server, Len(page.jobs)))
    /\ torn' = (torn \/ call["sync"] # NoCall)
    /\ UNCHANGED <<mappings, history, call>>

List(what) == IF what = "mappings" THEN "mappings" ELSE "jobs"

\* The fetches that stay, those older than i of the same list marked.
Rest(i) ==
    [k \in 1 .. Len(fetches) - 1 |->
        IF k < i THEN [fetches[k] EXCEPT !.late = @ \/ List(fetches[k].what) = List(fetches[i].what)]
        ELSE fetches[k + 1]]

\* Mutant of Appended: the answer replaces the jobs that are shown.
Replaced(jobs, more) == more

Appended(jobs, more) == jobs \o more

\* An answer of a fetch, which the page takes whatever is selected now.
Arrive(i) ==
    LET f == fetches[i] IN
    /\ f.answer # NoAnswer
    /\ page' = CASE f.what = "mappings" -> [page EXCEPT !.mappings = f.answer.list]
                 [] f.what = "jobs" -> [page EXCEPT !.jobs = f.answer.jobs, !.total = f.answer.total,
                                                    !.loading = FALSE, !.loadingMore = FALSE]
                 [] f.what = "more" -> [page EXCEPT !.jobs = Appended(@, f.answer.jobs), !.total = f.answer.total,
                                                    !.loading = FALSE, !.loadingMore = FALSE]
    /\ torn' = (torn \/ f.late \/ f.server # page.server \/ (f.what = "more" /\ f.offset # Len(page.jobs)))
    /\ fetches' = Rest(i)
    /\ UNCHANGED <<mappings, history, call, acts>>

\* A fetch fails: the list is emptied, except when more jobs were asked for,
\* and the total with it when the failure is an answer.
ArriveNot(i) ==
    LET f == fetches[i] IN
    /\ \E total \in {0, page.total} :
         page' = CASE f.what = "mappings" -> [page EXCEPT !.mappings = <<>>]
                   [] f.what = "jobs" -> [page EXCEPT !.jobs = <<>>, !.total = total,
                                                      !.loading = FALSE, !.loadingMore = FALSE]
                   [] f.what = "more" -> [page EXCEPT !.loading = FALSE, !.loadingMore = FALSE]
    /\ torn' = TRUE
    /\ fetches' = Rest(i)
    /\ UNCHANGED <<mappings, history, call, acts>>

-----------------------------------------------------------------------------
(* Mappings and syncs                                                       *)

Fetching(list) == \E i \in DOMAIN fetches : List(fetches[i].what) = list

\* A call is sent.  The lists can only be relied on when nobody fetches them
\* meanwhile, and when a mapping is added for the server that is shown.
Send(k, c) ==
    /\ Act
    /\ call[k] = NoCall
    /\ call' = [call EXCEPT ![k] = c]
    /\ UNCHANGED <<mappings, history, page, fetches>>

AddSend ==
    /\ AddOffered
    /\ torn' = (torn \/ Fetching("mappings") \/ page.group \notin FilteredGroups)
    /\ Send("add", [step |-> "sent", group |-> page.group])

RemoveSend ==
    /\ torn' = (torn \/ Fetching("mappings"))
    /\ \E id \in Removable : Send("remove", [step |-> "sent", id |-> id])

SyncSend ==
    /\ SyncOffered
    /\ torn' = (torn \/ Fetching("jobs"))
    /\ Send("sync", [step |-> "sent", server |-> page.server])

Newest == Max({0} \cup {mappings[i].id : i \in DOMAIN mappings} \cup Removable) + 1

\* POST /api/google-mappings: one mapping for each Google group and VPN group.
\* The Google group is the same throughout.  The audit record comes last: when
\* it fails, the change is made and the answer is an error.
AddServe ==
    /\ call["add"].step = "sent"
    /\ \/ /\ ~\E i \in DOMAIN mappings : mappings[i].group = call["add"].group
          /\ mappings' = <<[id |-> Newest, group |-> call["add"].group]>> \o mappings
          /\ \E step \in {"ok", "half"} : call' = [call EXCEPT !["add"] = [step |-> step, mapping |-> mappings'[1]]]
       \/ /\ call' = [call EXCEPT !["add"].step = "refused"]
          /\ UNCHANGED mappings
    /\ UNCHANGED <<history, page, fetches, torn, acts>>

\* DELETE /api/google-mappings/[id]
RemoveServe ==
    /\ call["remove"].step = "sent"
    /\ \/ /\ \E i \in DOMAIN mappings : mappings[i].id = call["remove"].id
          /\ mappings' = SelectSeq(mappings, LAMBDA m : m.id # call["remove"].id)
          /\ \E step \in {"ok", "half"} : call' = [call EXCEPT !["remove"].step = step]
       \/ /\ call' = [call EXCEPT !["remove"].step = "refused"]
          /\ UNCHANGED mappings
    /\ UNCHANGED <<history, page, fetches, torn, acts>>

\* POST /api/sync/google: the job is a row of the history whatever becomes of
\* it; a sync that is refused leaves none.
SyncServe ==
    /\ call["sync"].step = "sent"
    /\ \/ /\ history' = [history EXCEPT ![call["sync"].server] = <<[id |-> Len(@) + 1]>> \o @]
          /\ \E step \in {"ok", "failed"} : call' = [call EXCEPT !["sync"].step = step]
       \/ /\ call' = [call EXCEPT !["sync"].step = "refused"]
          /\ UNCHANGED history
    /\ UNCHANGED <<mappings, page, fetches, torn, acts>>

Forget(k) == call' = [call EXCEPT ![k] = NoCall]

Prepended(list, m) == <<m>> \o list

\* The new mapping is put in front of the list; after an error the list stays
\* as it is, also when the mapping has been added.
AddAnswered ==
    /\ call["add"].step \in {"ok", "half", "refused"}
    /\ page' = IF call["add"].step = "ok"
               THEN [page EXCEPT !.mappings = Prepended(@, call["add"].mapping), !.group = NoGroup] ELSE page
    /\ torn' = (torn \/ call["add"].step = "half")
    /\ Forget("add")
    /\ UNCHANGED <<mappings, history, fetches, acts>>

RemoveAnswered ==
    /\ call["remove"].step \in {"ok", "half", "refused"}
    /\ page' = IF call["remove"].step = "ok"
               THEN [page EXCEPT !.mappings = SelectSeq(@, LAMBDA m : m.id # call["remove"].id)] ELSE page
    /\ torn' = (torn \/ call["remove"].step = "half")
    /\ Forget("remove")
    /\ UNCHANGED <<mappings, history, fetches, acts>>

\* The first jobs are fetched for the server the sync was started for; after
\* a sync that failed, nothing is, although the history has grown.
SyncAnswered ==
    /\ call["sync"].step \in {"ok", "failed", "refused"}
    /\ IF call["sync"].step = "ok"
       THEN /\ fetches' = Append(fetches, Fetch("jobs", call["sync"].server, 0))
            /\ page' = [page EXCEPT !.loading = TRUE]
       ELSE UNCHANGED <<fetches, page>>
    /\ torn' = (torn \/ call["sync"].step = "failed")
    /\ Forget("sync")
    /\ UNCHANGED <<mappings, history, acts>>

\* The connection is lost while a call is under way.
Lost ==
    /\ \E k \in DOMAIN call : call[k].step \notin {"none", "sent"} /\ Forget(k)
    /\ torn' = TRUE
    /\ UNCHANGED <<mappings, history, page, fetches, acts>>

Next ==
    \/ Select \/ Choose \/ LoadMore
    \/ AddSend \/ RemoveSend \/ SyncSend
    \/ AddServe \/ RemoveServe \/ SyncServe
    \/ AddAnswered \/ RemoveAnswered \/ SyncAnswered \/ Lost
    \/ \E i \in DOMAIN fetches : Serve(i) \/ Arrive(i) \/ ArriveNot(i)

Spec == Init /\ [][Next]_vars

-----------------------------------------------------------------------------
(* Properties                                                               *)

Quiet == fetches = <<>> /\ \A k \in DOMAIN call : call[k] = NoCall

\* The lists are those of the selected server, once nothing is under way: its
\* mappings, each once, and its newest jobs without gap or repetition.  They
\* need not be when calls and fetches of one list overlap (selecting another
\* server while one is under way included), when one of them was lost, when a
\* sync failed or a mapping was added or removed and an error reported, or
\* when the group chosen for a new mapping is one of a server selected before.
ListsAreCurrent ==
    Quiet /\ ~torn =>
        /\ page.mappings = MappingsOf(page.server)
        /\ page.jobs = SubSeq(history[page.server], 1, Len(page.jobs))
        /\ page.total = Len(history[page.server])
=============================================================================
