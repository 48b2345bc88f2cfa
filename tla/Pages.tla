-------------------------------- MODULE Pages --------------------------------
(***************************************************************************)
(* A browser with one of the pages of the application, or on its way in.    *)
(* Which of them it shows is chosen at first; they share no state of the    *)
(* browser, so that the same variables hold the state of the page shown, in *)
(* the order in which its module declares them, and the rest is absent.     *)
(*                                                                         *)
(* A browser runs callbacks and effects one at a time: a step of a page is  *)
(* a handler up to the fetch it sends, an effect, or the arrival of one     *)
(* answer.  The requests of a browser overlap on the server.                *)
(***************************************************************************)
EXTENDS Integers

CONSTANTS
    Tab,                                           \* the pages that may be shown
    VpnServer, OpenLimit, MaxRows, MaxPosts, MaxReloads,     \* of RequestPage
    MaxUser, Search, Found, MaxCalls,                     \* of UsersPage
    Member, Network, Settings, MaxGrants,                 \* of UserPage
    First, Group, Owner, Old,                             \* of SyncPage
    Admin, Key, Value, Default, Saved, Invalid,           \* of NetworkPage
    MaxAccount, Applicant, MaxPresses,                    \* of AdminPage
    MaxSecrets,                                           \* of ProfilePage
    MaxBlocks,                                            \* of GroupPage
    PageSize, MaxSteps, MaxActs                           \* of several

ASSUME TabAssumption == Tab \subseteq {"request", "users", "user", "sync", "network", "admin", "signin",
                               "profile", "group"}
ASSUME PagesAssumption ==
    /\ {OpenLimit, MaxRows, MaxPosts, MaxReloads, MaxCalls, MaxGrants, Old, MaxSteps, MaxPresses,
       MaxSecrets, MaxBlocks, MaxActs}
          \subseteq Nat
    /\ {MaxUser, MaxAccount, PageSize} \subseteq Nat \ {0}
ASSUME DataAssumption ==
    /\ "everything" \notin Search /\ Found \in [Search -> SUBSET (1 .. MaxUser)]
    /\ Settings \in Network
    /\ First \in VpnServer /\ Owner \in [Group -> VpnServer]
    /\ Applicant \subseteq 2 .. MaxAccount
    /\ {Default, Saved} \cup Invalid \subseteq [Key -> Value]

VARIABLES tab, x1, x2, x3, x4, x5, x6, x7, x8, x9, x10, x11, x12

pageVars == <<tab, x1, x2, x3, x4, x5, x6, x7, x8, x9, x10, x11, x12>>

RP == INSTANCE RequestPage
    WITH Server <- VpnServer,
         rows <- x1, enabled <- x2, page <- x3, posts <- x4, left <- x5, reloads <- x6
US == INSTANCE UsersPage
    WITH cert <- x1, url <- x2, input <- x3, timer <- x4, table <- x5, calls <- x6,
         selected <- x7, bulk <- x8, form <- x9, screen <- x10, torn <- x11, acts <- x12
UR == INSTANCE UserPage
    WITH Group <- Member, First <- Settings, MaxActs <- MaxSteps,
         row <- x1, grants <- x2, managed <- x3, page <- x4, fetches <- x5, jobs <- x6,
         torn <- x7, acts <- x8
SY == INSTANCE SyncPage
    WITH Server <- VpnServer, MaxActs <- MaxSteps,
         mappings <- x1, history <- x2, page <- x3, fetches <- x4, call <- x5, torn <- x6,
         acts <- x7
NP == INSTANCE NetworkPage
    WITH row <- x1, managed <- x2, page <- x3, call <- x4, typed <- x5, alone <- x6, acts <- x7
AD == INSTANCE AdminPage
    WITH MaxActs <- MaxPresses,
         accounts <- x1, session <- x2, page <- x3, fetches <- x4, calls <- x5, torn <- x6,
         acts <- x7
SI == INSTANCE SignIn
    WITH MaxActs <- MaxSteps,
         onboarding <- x1, account <- x2, session <- x3, token <- x4, cookie <- x5,
         page <- x6, going <- x7, call <- x8, unproven <- x9, acts <- x10

PF == INSTANCE ProfilePage
    WITH account <- x1, made <- x2, policy <- x3, live <- x4, page <- x5, sent <- x6,
         answers <- x7, torn <- x8, acts <- x9
GP == INSTANCE GroupPage
    WITH Text <- Network, FirstText <- Settings,
         row <- x1, made <- x2, page <- x3, fetches <- x4, jobs <- x5, torn <- x6, acts <- x7

\* The variables after the first k, which a page with k of them has not.
After6 == <<x7, x8, x9, x10, x11, x12>>
After7 == <<x8, x9, x10, x11, x12>>
After8 == <<x9, x10, x11, x12>>
After9 == <<x10, x11, x12>>
After10 == <<x11, x12>>
Absent(v) == v = "absent"

No6 == Absent(x7) /\ Absent(x8) /\ Absent(x9) /\ Absent(x10) /\ Absent(x11) /\ Absent(x12)
No7 == Absent(x8) /\ Absent(x9) /\ Absent(x10) /\ Absent(x11) /\ Absent(x12)
No8 == Absent(x9) /\ Absent(x10) /\ Absent(x11) /\ Absent(x12)
No9 == Absent(x10) /\ Absent(x11) /\ Absent(x12)
No10 == Absent(x11) /\ Absent(x12)

PagesInit ==
    /\ tab \in Tab
    /\ \/ tab = "request" /\ RP!Init /\ No6
       \/ tab = "users" /\ US!Init
       \/ tab = "user" /\ UR!Init /\ No8
       \/ tab = "sync" /\ SY!Init /\ No7
       \/ tab = "network" /\ NP!Init /\ No7
       \/ tab = "admin" /\ AD!Init /\ No7
       \/ tab = "signin" /\ SI!Init /\ No10
       \/ tab = "profile" /\ PF!Init /\ No9
       \/ tab = "group" /\ GP!Init /\ No7

RequestAccess == tab = "request" /\ RP!Next /\ UNCHANGED <<tab, After6>>
Users == tab = "users" /\ US!Next /\ UNCHANGED tab
OneUser == tab = "user" /\ UR!Next /\ UNCHANGED <<tab, After8>>
SyncJobs == tab = "sync" /\ SY!Next /\ UNCHANGED <<tab, After7>>
ServerNetwork == tab = "network" /\ NP!Next /\ UNCHANGED <<tab, After7>>
Accounts == tab = "admin" /\ AD!Next /\ UNCHANGED <<tab, After7>>
SigningIn == tab = "signin" /\ SI!Next /\ UNCHANGED <<tab, After10>>
OwnProfile == tab = "profile" /\ PF!Next /\ UNCHANGED <<tab, After9>>
OneGroup == tab = "group" /\ GP!Next /\ UNCHANGED <<tab, After7>>

PagesNext ==
    \/ RequestAccess \/ Users \/ OneUser \/ SyncJobs \/ ServerNetwork \/ Accounts \/ SigningIn
    \/ OwnProfile \/ OneGroup

PagesSpec == PagesInit /\ [][PagesNext]_pageVars

\* Requests and effects of the way in happen, and its user goes on.
Fairness ==
    /\ WF_pageVars(tab = "signin" /\ SI!Serve /\ UNCHANGED <<tab, After10>>)
    /\ WF_pageVars(tab = "signin" /\ SI!Loaded /\ UNCHANGED <<tab, After10>>)
    /\ WF_pageVars(tab = "signin" /\ SI!Answered /\ UNCHANGED <<tab, After10>>)
    /\ WF_pageVars(tab = "signin" /\ SI!Onward /\ UNCHANGED <<tab, After10>>)
FairPagesSpec == PagesSpec /\ Fairness

-----------------------------------------------------------------------------
(* The properties of the pages, each for the browsers that show it.        *)

\* /request-access: the form blocks a server exactly when the route would
\* refuse a request for it because of an earlier one.
FormAgrees == tab = "request" => RP!FormAgrees

\* /request-access: until the page is left in the middle of a POST, an applicant
\* has at most one pending request for a server.
PendingOnce == tab = "request" => RP!PendingOnce

\* /users: once nothing is under way the table is the answer to the query in the
\* address bar, unless answers came out of order, were lost or hid a change.
TableIsAnswer == tab = "users" => US!TableIsAnswer

\* /users/[id], /admin, /groups/[id] and /profile/security: once nothing is under
\* way what is shown is what is in the database (the user and the grants, the
\* accounts and the number of those that wait, the group and its blocks, the
\* second factor and the secret in the QR code), unless answers came out of order,
\* were lost or hid a change.
ShownIsCurrent ==
    /\ tab = "user" => UR!ShownIsCurrent
    /\ tab = "admin" => AD!ShownIsCurrent
    /\ tab = "profile" => PF!ShownIsCurrent
    /\ tab = "group" => GP!ShownIsCurrent

\* /sync: once nothing is under way the mappings and jobs are those of the
\* selected server, without gap or repetition, unless calls overlapped.
ListsAreCurrent == tab = "sync" => SY!ListsAreCurrent

\* /servers/[id]/network: a save leaves the settings its administrator has not
\* edited as they are, if they had been fetched and nobody else has saved since.
UneditedStays == tab = "network" => NP!UneditedStays

\* From /login to the dashboard: once an account is approved for good, somebody
\* who fills in the forms that are shown gets in, whatever happened on the way.
GetsIn ==
    <>[](tab = "signin" /\ SI!MayEnter) => <>[](tab = "signin" /\ SI!AtHome)
=============================================================================
