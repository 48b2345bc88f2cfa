------------------------------- MODULE SignIn -------------------------------
(***************************************************************************)
(* The way from /login to the dashboard in one browser: the pages of        *)
(* signing in, the effects by which they send the user on when their        *)
(* session has arrived, and the middleware, which redirects requests of     *)
(* pages by what the token in the cookie says.  The three look at different *)
(* things at different times: the token is only brought up to date when a   *)
(* page fetches its session, the MFA cookie is not in it, and /login and    *)
(* /mfa/verify never pass through the middleware.                           *)
(*                                                                         *)
(* Who may do what once there is the subject of Sessions.  A navigation     *)
(* within the application that is redirected to the page already shown      *)
(* leaves that page mounted, so that its effects do not run again.          *)
(***************************************************************************)
EXTENDS Integers

CONSTANT MaxActs   \* bound: faults, changes by others, visits and second attempts

VARIABLES
    onboarding,  \* must every account have a second factor?
    account,     \* the AdminUser row
    session,     \* the AuthSession row of the token
    token,       \* the token in the cookie
    cookie,      \* is there an MFA cookie for that session?
    page,        \* the page that is shown
    going,       \* the request of a page under way
    call,        \* the call of a button under way
    unproven,    \* history: MFA was enabled during this session, and no MFA cookie
                 \* came of it here: it was another session, or the answer was an error
    acts

vars == <<onboarding, account, session, token, cookie, page, going, call, unproven, acts>>

\* Pages are known by what they do: every page of the dashboard is "home".
Place == {"login", "pending", "setup", "verify", "home"}
Call == {"none", "signin", "start", "enable", "verify", "lost"}

NoToken == [of |-> "nobody", approved |-> FALSE, mfa |-> FALSE, verified |-> FALSE]
\* What the jwt callback leaves of the token of a session that has ended.
EmptyToken == [NoToken EXCEPT !.of = "ended"]
TokenOf(row) == [of |-> "session", approved |-> row.approved, mfa |-> row.mfa, verified |-> ~row.mfa]

\* The fields of a session's user; those of an ended session are undefined.
NoUser == [approved |-> "none", mfa |-> FALSE, verified |-> FALSE]
UserOf(t) ==
    [nobody  |-> NoUser,
     ended   |-> [approved |-> "unknown", mfa |-> FALSE, verified |-> TRUE],
     session |-> [approved |-> IF t.approved THEN "yes" ELSE "no", mfa |-> t.mfa, verified |-> t.verified]][t.of]

Fresh(place, back) ==
    [at |-> place, back |-> back, loading |-> place # "login", user |-> NoUser,
     setup |-> FALSE, error |-> FALSE]
Still == [to |-> "none", back |-> "home", hard |-> FALSE]
To(place, back, hard) == [to |-> place, back |-> back, hard |-> hard]

Init ==
    /\ onboarding \in BOOLEAN
    /\ account \in [approved : BOOLEAN, mfa : BOOLEAN]
    /\ session = "none" /\ token = NoToken /\ cookie = FALSE
    /\ page = Fresh("login", "home")
    /\ going = Still /\ call = "none"
    /\ unproven = FALSE /\ acts = 0

Act == acts < MaxActs /\ acts' = acts + 1
\* A browser that waits for nothing: the buttons of the page can be used.
Waiting == going = Still /\ call = "none" /\ ~page.loading

-----------------------------------------------------------------------------
(* The middleware and the pages.                                           *)

\* The callback authorized: the token is one of a session that is active.
Authorized == token.of = "session" /\ session = "live"

\* Mutant of AllowMfaVerification: the page of setting up needs what it sets up.
AllowVerifyOnly == {"verify"}

\* Pages that may be asked for without a second factor.
AllowMfaVerification == {"setup", "verify"}

\* Where a request of a page is sent instead, "pass" when it is let through.
Gate(place) ==
    CASE place \in {"login", "verify"} -> "pass"
      [] OTHER ->
        CASE ~Authorized -> "login"
          [] Authorized /\ ~token.approved /\ place # "pending" -> "pending"
          [] Authorized /\ token.approved /\ onboarding /\ ~token.mfa
                 /\ place \notin AllowMfaVerification -> "setup"
          [] Authorized /\ token.mfa /\ ~cookie /\ (token.approved \/ place = "pending")
                 /\ place \notin AllowMfaVerification -> "verify"
          [] OTHER -> "pass"

\* Only the page of setting up is told where to go on afterwards.
Redirect(place) ==
    To(Gate(place), IF Gate(place) = "setup" THEN place ELSE "home", going.hard)

Serve ==
    /\ going # Still
    /\ IF Gate(going.to) # "pass"
         THEN going' = Redirect(going.to) /\ UNCHANGED <<page, call>>
         ELSE /\ going' = Still
              /\ IF ~going.hard /\ page.at = going.to /\ page.back = going.back
                   THEN UNCHANGED <<page, call>>
                   ELSE page' = Fresh(going.to, going.back) /\ call' = "none"
    /\ UNCHANGED <<onboarding, account, session, token, cookie, unproven, acts>>

\* The middleware could not ask whether the session is valid.
ServeFails ==
    /\ Act
    /\ going.to \in {"pending", "setup", "home"}
    /\ going' = To("login", "home", going.hard)
    /\ UNCHANGED <<onboarding, account, session, token, cookie, page, call, unproven>>

\* The jwt callback without a sign-in: the token is read from the rows again,
\* all but whether a code was given when the session began.
Refreshed ==
    CASE token.of # "session" -> token
      [] token.of = "session" /\ session # "live" -> EmptyToken
      [] OTHER -> [token EXCEPT !.approved = account.approved, !.mfa = account.mfa,
                                !.verified = ~account.mfa \/ @]

\* Where the effects of the page p send the user u, "none" when they do not.
Effect(p, u) ==
    CASE p.at = "login" -> "none"
      [] p.at # "login" /\ u = NoUser -> "login"
      [] p.at = "home" /\ u.approved = "no" -> "pending"
      [] p.at = "pending" /\ u.approved = "yes" -> "home"
      [] p.at = "setup" /\ u # NoUser /\ u.approved # "yes" -> "pending"
      [] p.at = "setup" /\ u.approved = "yes" /\ u.mfa -> p.back
      [] p.at = "verify" /\ u.mfa /\ u.verified -> IF u.approved = "yes" THEN p.back ELSE "pending"
      [] OTHER -> "none"

\* The page has a session u, none when it could not be fetched; effects run.
Holds(u) ==
    /\ page' = [page EXCEPT !.loading = FALSE, !.user = u]
    /\ going' = IF Effect(page, u) = "none" THEN going ELSE To(Effect(page, u), "home", FALSE)

Loaded ==
    /\ page.loading
    /\ token' = Refreshed
    /\ Holds(UserOf(token'))
    /\ UNCHANGED <<onboarding, account, session, cookie, call, unproven, acts>>

LoadFails ==
    /\ Act
    /\ page.loading
    /\ Holds(NoUser)
    /\ UNCHANGED <<onboarding, account, session, token, cookie, call, unproven>>

\* The window gets the focus again: the session is fetched once more.
Focus ==
    /\ Act
    /\ Waiting /\ page.at # "login"
    /\ token' = Refreshed
    /\ Holds(UserOf(token'))
    /\ UNCHANGED <<onboarding, account, session, cookie, call, unproven>>

\* A page is asked for by its address, without a callback.
Visit(place) ==
    /\ Act
    /\ going = Still
    /\ going' = To(place, "home", TRUE)
    /\ UNCHANGED <<onboarding, account, session, token, cookie, page, call, unproven>>

-----------------------------------------------------------------------------
(* The buttons.                                                            *)

Send(name, where) ==
    /\ Waiting
    /\ page.at = where
    /\ call' = name
    /\ UNCHANGED <<onboarding, account, session, token, cookie, going, unproven>>

\* What the pages show: nothing without a session, and nothing on /mfa/verify
\* to a session that counts as verified.
StartOffered == page.at = "setup" /\ page.user # NoUser /\ ~page.setup
EnableOffered == page.at = "setup" /\ page.user # NoUser /\ page.setup
VerifyOffered == page.at = "verify" /\ page.user # NoUser /\ ~(page.user.mfa /\ page.user.verified)

Submit ==
    \/ Send("signin", "login")
    \/ StartOffered /\ Send("start", "setup")
    \/ EnableOffered /\ Send("enable", "setup")
    \/ VerifyOffered /\ Send("verify", "verify")

\* The first attempt with a form or another at signing in, and one after an error.
FirstTry == (page.error => page.at = "login") /\ Submit /\ UNCHANGED <<page, acts>>
TryAgain == page.error /\ page.at # "login" /\ Act /\ Submit /\ page' = [page EXCEPT !.error = FALSE]

Erred == page' = [page EXCEPT !.error = TRUE] /\ call' = "none"

\* A new session; the cookie of the last one is not valid for it.  The provider
\* sends the browser to / itself, the form pushes it there.
SignedIn ==
    /\ call = "signin"
    /\ session' = "live" /\ token' = TokenOf(account) /\ cookie' = FALSE
    /\ call' = "none" /\ unproven' = FALSE
    /\ \E hard \in BOOLEAN : going' = To("home", "home", hard)
    /\ UNCHANGED <<onboarding, account, page, acts>>

\* Requests of a page are answered with a session, brought up to date or not.
Live == Refreshed.of = "session"

SetupStarted ==
    /\ call = "start"
    /\ IF Live /\ account.approved /\ ~account.mfa
         THEN page' = [page EXCEPT !.setup = TRUE] /\ call' = "none"
         ELSE Erred
    /\ UNCHANGED <<onboarding, account, session, token, cookie, going, unproven, acts>>

\* The second factor is on; the page brings its session up to date, which may
\* fail, and goes on.
Enabled(updated) ==
    /\ call = "enable"
    /\ IF Live /\ account.approved /\ ~account.mfa
         THEN /\ account' = [account EXCEPT !.mfa = TRUE]
              /\ cookie' = TRUE
              /\ call' = "none"
              /\ token' = IF updated THEN [token EXCEPT !.approved = TRUE, !.mfa = TRUE] ELSE token
              /\ page' = IF updated THEN [page EXCEPT !.user = UserOf(token')] ELSE page
              /\ going' = To(page.back, "home", FALSE)
         ELSE Erred /\ UNCHANGED <<account, token, cookie, going>>
    /\ UNCHANGED <<onboarding, session, unproven>>

EnableAnswered == Enabled(TRUE) /\ UNCHANGED acts
UpdateFails == Act /\ Enabled(FALSE)

\* The code is right; the update of the session is not waited for.
VerifyAnswered ==
    /\ call = "verify"
    /\ IF Live /\ account.mfa
         THEN /\ cookie' = TRUE
              /\ call' = "none"
              /\ token' \in {token, Refreshed}
              /\ going' = To(IF page.user.approved = "yes" THEN page.back ELSE "pending", "home", TRUE)
              /\ UNCHANGED page
         ELSE Erred /\ UNCHANGED <<token, cookie, going>>
    /\ UNCHANGED <<onboarding, account, session, unproven, acts>>

\* A wrong password or code, too many of them, an error, or no answer.  An error
\* of /api/profile/mfa/enable may come after the account has been changed, and
\* so before the cookie.
Refused ==
    /\ Act
    /\ call \in {"signin", "start", "enable", "verify"}
    /\ \/ UNCHANGED <<account, unproven>>
       \/ /\ call = "enable" /\ Live /\ account.approved /\ ~account.mfa
          /\ account' = [account EXCEPT !.mfa = TRUE]
          /\ unproven' = TRUE
    /\ Erred
    /\ UNCHANGED <<onboarding, session, token, cookie, going>>

\* The sign-in gets no answer: signIn throws and the button stays disabled.
SignInLost ==
    /\ Act
    /\ call = "signin"
    /\ call' = "lost"
    /\ UNCHANGED <<onboarding, account, session, token, cookie, page, going, unproven>>

\* Check Status reloads the page.
Check ==
    /\ Waiting /\ page.at = "pending"
    /\ going' = To("pending", "home", TRUE)
    /\ UNCHANGED <<onboarding, account, session, token, cookie, page, call, unproven, acts>>

LeaveBy ==
    /\ Waiting /\ page.at \in {"pending", "setup", "verify"} /\ page.user # NoUser
    /\ page.at = "verify" => VerifyOffered
    /\ token' = NoToken
    /\ session' = IF token.of = "session" THEN "ended" ELSE session
    /\ going' = To("login", "home", TRUE)
    /\ UNCHANGED <<onboarding, account, cookie, page, call, unproven>>

\* Somebody whose attempt has failed signs out; others may as well.
GiveUp == page.error /\ LeaveBy /\ UNCHANGED acts
SignOut == ~page.error /\ Act /\ LeaveBy

-----------------------------------------------------------------------------
(* What others do.                                                         *)

Approve ==
    /\ Act
    /\ ~account.approved
    /\ account' = [account EXCEPT !.approved = TRUE]
    /\ UNCHANGED <<onboarding, session, token, cookie, page, going, call, unproven>>

\* The session expires or is revoked, alone or with what the account may do.
Revoke ==
    /\ Act
    /\ session = "live"
    /\ session' = "ended"
    /\ account' \in {account, [account EXCEPT !.approved = FALSE], [account EXCEPT !.mfa = FALSE]}
    /\ UNCHANGED <<onboarding, token, cookie, page, going, call, unproven>>

EnrolElsewhere ==
    /\ Act
    /\ account.approved /\ ~account.mfa
    /\ account' = [account EXCEPT !.mfa = TRUE]
    /\ unproven' = (unproven \/ session = "live")
    /\ UNCHANGED <<onboarding, session, token, cookie, page, going, call>>

\* What happens of itself, and what a user does who wants to get in.
Answered == SignedIn \/ SetupStarted \/ EnableAnswered \/ VerifyAnswered
Onward == FirstTry \/ GiveUp \/ Check
Disturbed ==
    \/ ServeFails \/ LoadFails \/ Focus \/ UpdateFails \/ Refused \/ SignInLost
    \/ TryAgain \/ SignOut \/ Approve \/ Revoke \/ EnrolElsewhere
    \/ \E place \in Place : Visit(place)

Next == Serve \/ Loaded \/ Answered \/ Onward \/ Disturbed

Spec == Init /\ [][Next]_vars
Fairness == WF_vars(Serve) /\ WF_vars(Loaded) /\ WF_vars(Answered) /\ WF_vars(Onward)
FairSpec == Spec /\ Fairness

-----------------------------------------------------------------------------
\* An account that may come in, whose form waits for no answer that is lost, and
\* for which MFA was not enabled during this session without a cookie for it.
MayEnter == account.approved /\ ~unproven /\ call # "lost"
AtHome == page.at = "home" /\ Waiting

\* Once an account is approved for good, somebody who fills in the forms that are
\* shown ends up on the dashboard, whatever was visited, revoked or lost on the
\* way: no redirect of the middleware and no effect of a page undoes the other
\* for ever.
GetsIn == <>[]MayEnter => <>[]AtHome
=============================================================================
