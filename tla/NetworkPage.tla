---------------------------- MODULE NetworkPage ----------------------------
(***************************************************************************)
(* The page /servers/[id]/network in the browsers of the administrators of  *)
(* one server.  A browser fetches the settings once, when the page is       *)
(* opened, and a save sends the whole form; the page is not told what       *)
(* others have saved.  What a save does to the server is in ServerConfig;   *)
(* here it is the row of vpn_servers, which a save replaces or leaves.      *)
(*                                                                         *)
(* The nine settings are a few keys; the lists among them keep their        *)
(* values on their way through the text fields of the form.                *)
(***************************************************************************)
EXTENDS Integers

CONSTANTS
    Admin,      \* browsers with the page
    Key,        \* the settings
    Value,
    Default,    \* the form before anything has been fetched
    Saved,      \* the settings of the server at first
    Invalid,    \* settings that validation refuses
    MaxActs     \* bound: edits, saves and checks

VARIABLES
    row,      \* the settings in vpn_servers
    managed,  \* the feature flag serverManagement
    page,     \* what each browser holds
    call,     \* the call of the settings, of a save and of a check, of each
    typed,    \* history: the settings each has edited since it fetched or saved them
    alone,    \* history: nobody else has saved since, and the fetch has worked
    acts

vars == <<row, managed, page, call, typed, alone, acts>>

NoCall == [step |-> "none"]
NoCheck == [none |-> TRUE]

\* The page when it is opened: the loading screen, and under it the form with
\* the settings of a new server.
Init ==
    /\ row = Saved
    /\ managed \in BOOLEAN
    /\ page = [a \in Admin |-> [loading |-> TRUE, form |-> Default, managed |-> TRUE, check |-> NoCheck]]
    /\ call = [a \in Admin |-> [load |-> [step |-> "sent"], save |-> NoCall, check |-> NoCall]]
    /\ typed = [a \in Admin |-> {}]
    /\ alone = [a \in Admin |-> FALSE]
    /\ acts = 0

Act == acts < MaxActs /\ acts' = acts + 1
Tell(a, k, c) == call' = [call EXCEPT ![a][k] = c]

\* What can be edited and pressed.
Editable(a) == ~page[a].loading /\ page[a].managed
SaveOffered(a) == Editable(a) /\ call[a].save = NoCall
CheckOffered(a) == Editable(a) /\ call[a].check = NoCall

LoadServe(a) ==
    /\ call[a].load.step = "sent"
    /\ Tell(a, "load", [step |-> "ok", settings |-> row])
    /\ alone' = [alone EXCEPT ![a] = TRUE]
    /\ UNCHANGED <<row, managed, page, typed, acts>>

\* Mutant of Form: the settings of the server are merged into the form late.
FormOfDefaults(settings) == Default

\* The form of the settings that have been fetched.
Form(settings) == settings

Loaded(a) ==
    /\ call[a].load.step = "ok"
    /\ page' = [page EXCEPT ![a].loading = FALSE, ![a].form = Form(call[a].load.settings)]
    /\ Tell(a, "load", NoCall)
    /\ UNCHANGED <<row, managed, typed, alone, acts>>

\* An error or no answer: the form stays as it was before, and can be saved.
LoadFails(a) ==
    /\ call[a].load # NoCall
    /\ page' = [page EXCEPT ![a].loading = FALSE]
    /\ Tell(a, "load", NoCall)
    /\ alone' = [alone EXCEPT ![a] = FALSE]
    /\ UNCHANGED <<row, managed, typed, acts>>

\* The answer of /api/system/status.
FlagKnown(a) ==
    /\ page[a].managed # managed
    /\ page' = [page EXCEPT ![a].managed = managed]
    /\ UNCHANGED <<row, managed, call, typed, alone, acts>>

Edit(a) ==
    /\ Act
    /\ Editable(a)
    /\ \E k \in Key, v \in Value :
         /\ page' = [page EXCEPT ![a].form[k] = v]
         /\ typed' = [typed EXCEPT ![a] = @ \cup {k}]
    /\ UNCHANGED <<row, managed, call, alone>>

\* handleSave: the whole form as it is now; it can be edited meanwhile.
SaveSend(a) ==
    /\ Act
    /\ SaveOffered(a)
    /\ Tell(a, "save", [step |-> "sent", body |-> page[a].form, typed |-> typed[a], alone |-> alone[a]])
    /\ typed' = [typed EXCEPT ![a] = {}]
    /\ UNCHANGED <<row, managed, page, alone>>

\* PUT /api/servers/[id], as one step; the audit record, its last call, may fail
\* when the row has been changed.  Every other browser has then settings that
\* are not the saved ones.
SaveServe(a) ==
    /\ call[a].save.step = "sent"
    /\ managed /\ call[a].save.body \notin Invalid
    /\ row' = call[a].save.body
    /\ \E step \in {"ok", "refused"} : Tell(a, "save", [call[a].save EXCEPT !.step = step])
    /\ alone' = [b \in Admin |-> alone[b] /\ b = a]
    /\ UNCHANGED <<managed, page, typed, acts>>

\* The body is not valid, the server is not managed or cannot be reached, or
\* OpenVPN does not start with the settings: the row stays.
SaveRefused(a) ==
    /\ call[a].save.step = "sent"
    /\ Tell(a, "save", [call[a].save EXCEPT !.step = "refused"])
    /\ typed' = [typed EXCEPT ![a] = @ \cup call[a].save.typed]
    /\ UNCHANGED <<row, managed, page, alone, acts>>

\* The answer, or its loss, is a message; the form stays as it is.
SaveAnswered(a) ==
    /\ call[a].save.step \in {"ok", "refused"}
    /\ Tell(a, "save", NoCall)
    /\ UNCHANGED <<row, managed, page, typed, alone, acts>>

CheckSend(a) ==
    /\ Act
    /\ CheckOffered(a)
    /\ page' = [page EXCEPT ![a].check = NoCheck]
    /\ Tell(a, "check", [step |-> "sent"])
    /\ UNCHANGED <<row, managed, typed, alone>>

\* POST /api/servers/[id]/dns-health asks the resolvers of the saved settings.
CheckServe(a) ==
    /\ call[a].check.step = "sent"
    /\ \E result \in {"checked", "refused"} : Tell(a, "check", [step |-> result, settings |-> row])
    /\ UNCHANGED <<row, managed, page, typed, alone, acts>>

CheckAnswered(a) ==
    /\ call[a].check.step \in {"checked", "refused"}
    /\ page' = IF call[a].check.step = "checked"
               THEN [page EXCEPT ![a].check = [of |-> call[a].check.settings]] ELSE page
    /\ Tell(a, "check", NoCall)
    /\ UNCHANGED <<row, managed, typed, alone, acts>>

Next ==
    \E a \in Admin :
        \/ LoadServe(a) \/ Loaded(a) \/ LoadFails(a) \/ FlagKnown(a) \/ Edit(a)
        \/ SaveSend(a) \/ SaveServe(a) \/ SaveRefused(a) \/ SaveAnswered(a)
        \/ CheckSend(a) \/ CheckServe(a) \/ CheckAnswered(a)

Spec == Init /\ [][Next]_vars

-----------------------------------------------------------------------------
(* Properties                                                               *)

\* A save leaves the settings its administrator has not edited as they are in
\* the row, if the settings were fetched and nobody else has saved since.
\* Without the first it writes the settings of a new server over them, and
\* without the second it takes back what the other has saved.
UneditedStays ==
    \A a \in Admin :
        call[a].save.step = "sent" /\ call[a].save.alone /\ alone[a] =>
            \A k \in Key \ call[a].save.typed : call[a].save.body[k] = row[k]
=============================================================================
