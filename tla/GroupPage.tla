----------------------------- MODULE GroupPage -----------------------------
(***************************************************************************)
(* The page /groups/[id] in the browser of one administrator, with the       *)
(* routes of a group and of its CIDR blocks.  Each change is a call of its   *)
(* own and makes the page fetch the group again; while it does so the whole  *)
(* page is hidden, and every group that arrives overwrites the form in which *)
(* its name and description are edited.  Answers arrive in any order.        *)
(*                                                                         *)
(* Nobody else changes the group.  What a change means for the files of its  *)
(* members, and writing them, is in CcdSync.                                 *)
(***************************************************************************)
EXTENDS Integers, Sequences, SequencesExt

CONSTANTS
    Text,        \* values of name and description, taken together
    FirstText,   \* those of the group at first
    MaxBlocks,   \* bound: CIDR blocks ever added
    MaxActs      \* bound: what the administrator does

VARIABLES
    row,       \* the group in the database: its text and its CIDR blocks
    made,      \* the blocks 1 .. made have been added
    page,      \* what the browser holds
    fetches,   \* the answers to the fetches of the group, if given
    jobs,      \* the operations under way, and how far each is
    torn,      \* history: a newer group may have been overwritten by an older
               \* one, or a change was not answered with success
    acts

vars == <<row, made, page, fetches, jobs, torn, acts>>

Nobody == [none |-> TRUE]
ErrorAnswer == [error |-> TRUE]
NoAnswer == [pending |-> TRUE]
Fetch == [what |-> "group", answer |-> NoAnswer, late |-> FALSE]

Init ==
    /\ row = [text |-> FirstText, blocks |-> {}]
    /\ made = 0
    /\ page = [group |-> Nobody, form |-> FirstText, editing |-> FALSE, loading |-> TRUE]
    /\ fetches = <<Fetch>>
    /\ jobs = [o \in {} |-> "sent"]
    /\ torn = FALSE
    /\ acts = 0

-----------------------------------------------------------------------------
(* The page                                                                 *)

\* An answer that is an error is taken for a group, and rendering it throws.
Shows ==
    IF page.loading THEN "loading"
    ELSE IF page.group = Nobody THEN "not found"
    ELSE IF page.group = ErrorAnswer THEN "broken"
    ELSE "group"

Acts == Shows = "group" /\ acts < MaxActs /\ acts' = acts + 1

\* Edit, the two fields, and Cancel.
Open ==
    /\ Acts /\ ~page.editing
    /\ page' = [page EXCEPT !.editing = TRUE]
    /\ UNCHANGED <<row, made, fetches, jobs, torn>>

Type ==
    /\ Acts /\ page.editing
    /\ \E t \in Text \ {page.form} : page' = [page EXCEPT !.form = t]
    /\ UNCHANGED <<row, made, fetches, jobs, torn>>

Cancel ==
    /\ Acts /\ page.editing
    /\ page' = [page EXCEPT !.editing = FALSE, !.form = page.group.text]
    /\ UNCHANGED <<row, made, fetches, jobs, torn>>

\* The buttons that are there and enabled.  Remove is never disabled.
AddOffered == [kind |-> "add"] \notin DOMAIN jobs
PushOffered == ~page.editing /\ [kind |-> "push"] \notin DOMAIN jobs
SaveOffered == page.editing /\ ~\E o \in DOMAIN jobs : o.kind = "save"
Removals == {[kind |-> "remove", block |-> b] : b \in page.group.blocks}

\* The first half of a handler.  A second press of Remove for the same block
\* while the first is under way is left out.
Start ==
    /\ Acts
    /\ \E o \in (Removals \ DOMAIN jobs)
              \cup (IF AddOffered THEN {[kind |-> "add"]} ELSE {})
              \cup (IF PushOffered THEN {[kind |-> "push"]} ELSE {})
              \cup (IF SaveOffered THEN {[kind |-> "save", text |-> page.form]} ELSE {}) :
         jobs' = [p \in DOMAIN jobs \cup {o} |-> IF p = o THEN "sent" ELSE jobs[p]]
    /\ UNCHANGED <<row, made, page, fetches, torn>>

\* Mutant of Refetches: a block is added without the group being fetched.
RefetchesUnlessAdded(kind, step) == kind = "remove" \/ (kind = "save" /\ step = "ok")

\* The handlers that fetch the group when their call has been answered.
Refetches(kind, step) == kind = "remove" \/ (kind \in {"add", "save"} /\ step = "ok")

Forget(o) == jobs' = [p \in DOMAIN jobs \ {o} |-> jobs[p]]

\* The second half.
Answered(o) ==
    /\ jobs[o] # "sent"
    /\ fetches' = fetches \o (IF Refetches(o.kind, jobs[o]) THEN <<Fetch>> ELSE <<>>)
    /\ page' = [page EXCEPT !.loading = @ \/ Refetches(o.kind, jobs[o]),
                            !.editing = @ /\ ~(o.kind = "save" /\ jobs[o] = "ok")]
    /\ torn' = (torn \/ (jobs[o] = "half" /\ ~Refetches(o.kind, "half")))
    /\ Forget(o)
    /\ UNCHANGED <<row, made, acts>>

\* The connection is lost: the handler throws and fetches nothing.
Lost(o) ==
    /\ jobs[o] # "sent"
    /\ torn' = TRUE
    /\ Forget(o)
    /\ UNCHANGED <<row, made, page, fetches, acts>>

Serve(i) ==
    /\ fetches[i].answer = NoAnswer
    /\ fetches' = [fetches EXCEPT ![i].answer = row]
    /\ UNCHANGED <<row, made, page, jobs, torn, acts>>

Arrive(i) ==
    /\ fetches[i].answer # NoAnswer
    /\ page' = [page EXCEPT !.group = fetches[i].answer, !.form = fetches[i].answer.text, !.loading = FALSE]
    /\ torn' = (torn \/ fetches[i].late)
    /\ fetches' = [k \in 1 .. Len(fetches) - 1 |->
                     IF k < i THEN [fetches[k] EXCEPT !.late = TRUE] ELSE fetches[k + 1]]
    /\ UNCHANGED <<row, made, jobs, acts>>

\* The fetch fails, or is answered with an error.
ArriveNot(i) ==
    /\ \E none \in {Nobody, ErrorAnswer} : page' = [page EXCEPT !.group = none, !.loading = FALSE]
    /\ torn' = TRUE
    /\ fetches' = RemoveAt(fetches, i)
    /\ UNCHANGED <<row, made, jobs, acts>>

-----------------------------------------------------------------------------
(* The routes.  Each changes the group in one statement and does more after *)
(* it, the audit record or marking the members, which may fail.             *)

End(o, steps) == \E step \in steps : jobs' = [jobs EXCEPT ![o] = step]

\* Not valid, not there, no session, or a failure before the change.
Refuse(o) ==
    /\ jobs[o] = "sent"
    /\ End(o, {"refused"})
    /\ UNCHANGED <<row, made, page, fetches, torn, acts>>

Save(o) ==
    /\ o.kind = "save" /\ jobs[o] = "sent"
    /\ row' = [row EXCEPT !.text = o.text]
    /\ End(o, {"ok", "half"})
    /\ UNCHANGED <<made, page, fetches, torn, acts>>

AddBlock(o) ==
    /\ o.kind = "add" /\ jobs[o] = "sent"
    /\ made < MaxBlocks /\ made' = made + 1
    /\ row' = [row EXCEPT !.blocks = @ \cup {made + 1}]
    /\ End(o, {"ok", "half"})
    /\ UNCHANGED <<page, fetches, torn, acts>>

RemoveBlock(o) ==
    /\ o.kind = "remove" /\ jobs[o] = "sent" /\ o.block \in row.blocks
    /\ row' = [row EXCEPT !.blocks = @ \ {o.block}]
    /\ End(o, {"ok", "half"})
    /\ UNCHANGED <<made, page, fetches, torn, acts>>

\* Nothing of what the page shows changes.
Push(o) ==
    /\ o.kind = "push" /\ jobs[o] = "sent"
    /\ End(o, {"ok"})
    /\ UNCHANGED <<row, made, page, fetches, torn, acts>>

Next ==
    \/ Open \/ Type \/ Cancel \/ Start
    \/ \E o \in DOMAIN jobs :
         \/ Answered(o) \/ Lost(o) \/ Refuse(o) \/ Save(o) \/ AddBlock(o) \/ RemoveBlock(o) \/ Push(o)
    \/ \E i \in DOMAIN fetches : Serve(i) \/ Arrive(i) \/ ArriveNot(i)

Spec == Init /\ [][Next]_vars

-----------------------------------------------------------------------------
(* Properties                                                               *)

Quiet == fetches = <<>> /\ DOMAIN jobs = {}

\* Once nothing is under way, the group on the screen is the one in the
\* database, and so is the form unless its administrator is editing.  It is not
\* when an older answer arrived last, when an answer was lost, or when a change
\* was made and reported as a failure: adding a block, for one, can fail after
\* the block has been added.
ShownIsCurrent ==
    Quiet /\ ~torn =>
        /\ page.group = row
        /\ ~page.editing => page.form = row.text
=============================================================================
