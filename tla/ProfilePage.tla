---------------------------- MODULE ProfilePage ----------------------------
(***************************************************************************)
(* The page /profile/security in the browser of the owner of an account,    *)
(* with the routes of the second factor it calls.  A secret is made by the   *)
(* server and shown as a QR code; it is pending until a code of it has been  *)
(* confirmed.  Each button waits for its own call only, so that a new QR     *)
(* code can be asked for while the old one is being confirmed.               *)
(*                                                                         *)
(* Nobody else changes the account; the session may end elsewhere.  The      *)
(* account has a password.  TotpCodes takes the routes apart and says which  *)
(* codes are accepted.                                                       *)
(***************************************************************************)
EXTENDS Integers, Sequences, SequencesExt

CONSTANTS
    MaxSecrets,   \* bound: secrets made by the server
    MaxActs       \* bound: what the owner does

VARIABLES
    account,   \* the secret in force and the pending one; 0 is none
    made,      \* the secrets 1 .. made have been made
    policy,    \* a second factor is "unavailable", "optional" or "required"
    live,      \* the session of the browser has not ended
    page,      \* what the browser holds
    sent,      \* the requests the server has not dealt with, by their kind
    answers,   \* the answers under way, in the order they were given
    torn,      \* history, since the page was loaded: an answer overtook another
               \* or was lost, or a request had an effect and failed
    acts

vars == <<account, made, policy, live, page, sent, answers, torn, acts>>

None == 0
Kind == {"load", "setup", "start", "confirm", "disable", "password"}
NewPage == [profile |-> "none", setup |-> None, flow |-> "none", loading |-> TRUE]
Load == [k \in {"load"} |-> [code |-> None, flow |-> "none"]]

\* What the routes say of the account.
MfaOf(acct) == IF acct.secret = None THEN "off" ELSE "on"

Init ==
    /\ made \in {0, 1}
    /\ account = [secret |-> made, pending |-> None]
    /\ policy \in {"unavailable", "optional", "required"}
    /\ live = TRUE
    /\ page = NewPage
    /\ sent = Load
    /\ answers = <<>>
    /\ torn = FALSE
    /\ acts = 0

-----------------------------------------------------------------------------
(* The page                                                                 *)

\* An answer that is an error is taken for a profile, and rendering it throws.
Shows ==
    IF page.loading THEN "loading"
    ELSE CASE page.profile = "none" -> "unable" [] page.profile = "error" -> "broken" [] OTHER -> "profile"

UnderWay(kind) == kind \in DOMAIN sent \/ \E i \in DOMAIN answers : answers[i].kind = kind

\* The card with the QR code, in the branch of its flow.
SetupCard ==
    /\ page.setup # None
    /\ \/ page.profile = "on" /\ page.flow = "reconfigure"
       \/ page.profile = "off" /\ page.flow = "setup"

\* The controls that are there.
Controls ==
    {"password"} \cup
    (IF policy = "unavailable" THEN {}
     ELSE (IF SetupCard THEN {"confirm"} ELSE {})
          \cup (IF page.profile = "off" THEN {"setup"} ELSE {"start"})
          \cup (IF page.profile = "on" /\ policy = "optional" THEN {"disable"} ELSE {}))

\* The codes the owner may type: of the QR code shown, or of any made so far.
Codes(kind) ==
    CASE kind = "confirm" -> {page.setup}
      [] kind \in {"start", "disable"} -> 1 .. made
      [] OTHER -> {None}

\* The first half of a handler: the call is sent.
Send ==
    /\ Shows = "profile"
    /\ acts < MaxActs /\ acts' = acts + 1
    /\ \E kind \in Controls : \E code \in Codes(kind) :
         /\ ~UnderWay(kind)
         /\ sent' = [k \in DOMAIN sent \cup {kind} |->
                       IF k = kind THEN [code |-> code, flow |-> page.flow] ELSE sent[k]]
    /\ UNCHANGED <<account, made, policy, live, page, answers, torn>>

\* Mutant of Confirmed: the QR code stays.
ConfirmedKeepingSetup == [page EXCEPT !.profile = "on"]

\* The code of the QR code shown has been accepted.
Confirmed == [page EXCEPT !.profile = "on", !.setup = None, !.flow = "none"]

\* The second half: what the page holds after an answer.  It takes over what an
\* answer implies and does not ask for the profile again.
Updated(answer) ==
    IF ~answer.ok THEN page
    ELSE CASE answer.kind = "load" -> [page EXCEPT !.profile = answer.profile, !.loading = FALSE]
           [] answer.kind = "setup" -> [page EXCEPT !.setup = answer.secret, !.flow = "setup"]
           [] answer.kind = "start" -> [page EXCEPT !.setup = answer.secret, !.flow = "reconfigure"]
           [] answer.kind = "confirm" -> Confirmed
           [] answer.kind = "disable" -> [page EXCEPT !.profile = "off", !.setup = None, !.flow = "none"]
           [] OTHER -> page

Arrive(i) ==
    /\ page' = Updated(answers[i])
    /\ torn' = (torn \/ i # 1)
    /\ answers' = RemoveAt(answers, i)
    /\ UNCHANGED <<account, made, policy, live, sent, acts>>

\* The connection is lost.  Without an answer there is no profile to show.
Lost(i) ==
    /\ page' = IF answers[i].kind = "load" THEN [page EXCEPT !.loading = FALSE] ELSE page
    /\ torn' = TRUE
    /\ answers' = RemoveAt(answers, i)
    /\ UNCHANGED <<account, made, policy, live, sent, acts>>

\* The page is loaded anew when the server has dealt with what was sent; its
\* owner signs in again if need be.
Reload ==
    /\ acts < MaxActs /\ acts' = acts + 1
    /\ DOMAIN sent = {}
    /\ page' = NewPage /\ live' = TRUE
    /\ sent' = Load /\ answers' = <<>> /\ torn' = FALSE
    /\ UNCHANGED <<account, made, policy>>

-----------------------------------------------------------------------------
(* The routes                                                               *)

Respond(answer) ==
    /\ sent' = [k \in DOMAIN sent \ {answer.kind} |-> sent[k]]
    /\ answers' = Append(answers, answer)
    /\ UNCHANGED <<policy, page, acts>>

\* The route has changed the account; what it does after that, the audit record
\* first, may fail.
Done(kind, secret) ==
    \E ok \in BOOLEAN :
        /\ Respond([kind |-> kind, ok |-> ok, secret |-> secret])
        /\ torn' = (torn \/ ~ok)

ServeLoad ==
    /\ "load" \in DOMAIN sent
    /\ Respond([kind |-> "load", ok |-> TRUE, profile |-> IF live THEN MfaOf(account) ELSE "error"])
    /\ UNCHANGED <<account, made, live, torn>>

\* No session, a wrong or used code, a state that does not allow it, a failure.
Refuse(kind) ==
    /\ kind \in DOMAIN sent \ {"load"}
    /\ Respond([kind |-> kind, ok |-> FALSE])
    /\ UNCHANGED <<account, made, live, torn>>

\* A pending secret is shown again.
SetUp ==
    /\ "setup" \in DOMAIN sent
    /\ live /\ policy # "unavailable" /\ account.secret = None
    /\ IF account.pending # None
       THEN /\ Respond([kind |-> "setup", ok |-> TRUE, secret |-> account.pending])
            /\ UNCHANGED <<account, made, torn>>
       ELSE /\ made < MaxSecrets /\ made' = made + 1
            /\ account' = [account EXCEPT !.pending = made + 1]
            /\ Done("setup", made + 1)
    /\ UNCHANGED live

\* A pending secret is replaced.
StartReconfigure ==
    /\ "start" \in DOMAIN sent
    /\ live /\ policy # "unavailable"
    /\ account.secret # None /\ sent["start"].code = account.secret
    /\ made < MaxSecrets /\ made' = made + 1
    /\ account' = [account EXCEPT !.pending = made + 1]
    /\ Done("start", made + 1)
    /\ UNCHANGED live

\* The flow of the page says which of two routes is called; one is for accounts
\* with a second factor, the other for those without.
Confirm ==
    /\ "confirm" \in DOMAIN sent
    /\ live
    /\ account.pending # None /\ sent["confirm"].code = account.pending
    /\ (sent["confirm"].flow = "reconfigure") = (account.secret # None)
    /\ account' = [secret |-> account.pending, pending |-> None]
    /\ Done("confirm", None)
    /\ UNCHANGED <<made, live>>

\* Every session of the account ends, unless what comes before that fails.
EndSessions == live' = FALSE \/ (~Last(answers').ok /\ live' = live)

Disable ==
    /\ "disable" \in DOMAIN sent
    /\ live
    /\ account.secret # None /\ sent["disable"].code = account.secret
    /\ account' = [secret |-> None, pending |-> None]
    /\ Done("disable", None)
    /\ EndSessions
    /\ UNCHANGED made

ChangePassword ==
    /\ "password" \in DOMAIN sent
    /\ live
    /\ Done("password", None)
    /\ EndSessions
    /\ UNCHANGED <<account, made>>

\* The session is revoked elsewhere or reaches its end.
SessionEnds ==
    /\ live /\ live' = FALSE
    /\ UNCHANGED <<account, made, policy, page, sent, answers, torn, acts>>

Next ==
    \/ Send \/ Reload \/ ServeLoad \/ SetUp \/ StartReconfigure \/ Confirm \/ Disable
    \/ ChangePassword \/ SessionEnds
    \/ \E kind \in Kind : Refuse(kind)
    \/ \E i \in DOMAIN answers : Arrive(i) \/ Lost(i)

Spec == Init /\ [][Next]_vars

-----------------------------------------------------------------------------
(* Properties                                                               *)

Quiet == DOMAIN sent = {} /\ answers = <<>> /\ Shows = "profile"

\* Once nothing is under way the page says whether the second factor is on, and
\* a QR code on the screen is the one whose code would be accepted.  It is not
\* when answers overtook each other or were lost, or when a request that
\* reported a failure had an effect: a QR code that is never accepted then stays
\* on the screen until the page is loaded again.
ShownIsCurrent ==
    Quiet /\ ~torn =>
        /\ page.profile = MfaOf(account)
        /\ SetupCard => page.setup = account.pending
=============================================================================
