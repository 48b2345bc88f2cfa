----------------------------- MODULE PagesProofs -----------------------------
(***************************************************************************)
(* What four of the pages send and show.  One waits for its answer before   *)
(* it sends again, one sends a form that it has fetched before, and one     *)
(* fetches its table anew after each change of the query or of the users:   *)
(* what is proved is what that is worth while answers are under way.        *)
(*                                                                         *)
(* The fourth, /groups/[id], holds a queue of fetches whose answers arrive  *)
(* in any order.  A section of its own is about such queues, whatever is    *)
(* fetched; the other pages that hold one are in ShownPagesProofs.          *)
(***************************************************************************)
EXTENDS Pages, Sequences, SequenceTheorems, TLAPS

-----------------------------------------------------------------------------
(* The page /request-access.  Its variables are x1 for rows, x2 for enabled, *)
(* x3 for page, x4 for posts, x5 for left and x6 for reloads.                *)

\* The fields that say what the page waits for, and what it would send.
Fields == {"auth", "loading", "call", "submitting", "post", "selected"}
PageOK == Fields \subseteq DOMAIN x3 /\ x3.selected \in VpnServer \cup {RP!NoServer}
Post == [server : VpnServer, step : {"sent", "reconciled", "checked", "created", "refused"}]

RequestsOK == x1 \in Seq(RP!Request) /\ x4 \in Seq(Post) /\ PageOK

\* A POST under way keeps the button disabled, so that it is the only one, as long
\* as the page is not left.  A request that is pending is the newest of its server,
\* since nothing becomes pending again, and a POST that may insert another has seen
\* that there is none.
OnePost == \A i \in DOMAIN x4 : RP!UnderWay(i) => i = x3.post /\ x3.submitting /\ x3.call # "list"
PendingNewest ==
    \A i, j \in DOMAIN x1 : x1[i].status = "PENDING" /\ i < j => x1[j].server # x1[i].server
NonePending(s) == \A k \in DOMAIN x1 : x1[k].server = s => x1[k].status # "PENDING"
CheckedFree == \A i \in DOMAIN x4 : x4[i].step = "checked" => NonePending(x4[i].server)
RequestInv == RequestsOK /\ (~x5 => OnePost /\ PendingNewest /\ CheckedFree)

LEMMA RequestInit == RP!Init => RequestInv
BY DEF RP!Init, RequestInv, RequestsOK, OnePost, PendingNewest, CheckedFree, RP!UnderWay, RP!NewPage, PageOK, Fields, Post

\* A step of the page that sends nothing: no POST is under way once the button works.
LEMMA PageStep ==
    ASSUME RequestInv, UNCHANGED <<x1, x4, x5>>, PageOK',
           ~x5 => \/ x3'.post = x3.post /\ x3'.submitting = x3.submitting /\ x3'.call # "list"
                  \/ \A i \in DOMAIN x4 : ~RP!UnderWay(i)
    PROVE  RequestInv'
BY DEF RequestInv, RequestsOK, OnePost, PendingNewest, CheckedFree, NonePending, RP!UnderWay, PageOK

\* Requests are added to or moved, but none becomes pending.
LEMMA RowsStep ==
    ASSUME RequestInv, UNCHANGED <<x3, x4, x5>>, x1' \in Seq(RP!Request), Len(x1') = Len(x1),
           \A i \in DOMAIN x1 : /\ x1'[i].server = x1[i].server
                                /\ x1'[i].status = "PENDING" => x1[i].status = "PENDING"
    PROVE  RequestInv'
<1>1. DOMAIN x1' = DOMAIN x1
    BY LenProperties DEF RequestInv, RequestsOK
<1>2. RequestsOK' /\ (~x5 => OnePost')
    BY DEF RequestInv, RequestsOK, PageOK, OnePost, RP!UnderWay
<1>3. ~x5 => PendingNewest'
    BY <1>1 DEF RequestInv, PendingNewest
<1>4. ~x5 => CheckedFree'
    BY <1>1 DEF RequestInv, CheckedFree, NonePending
<1> QED BY <1>2, <1>3, <1>4 DEF RequestInv

\* A POST goes on.
LEMMA StepOf ==
    ASSUME RequestsOK, NEW i \in DOMAIN x4, NEW s \in {"reconciled", "checked", "created", "refused"}, RP!Step(i, s)
    PROVE  /\ x4' \in Seq(Post) /\ DOMAIN x4' = DOMAIN x4 /\ x4'[i].step = s
           /\ \A j \in DOMAIN x4 : x4'[j].server = x4[j].server /\ (j # i => x4'[j] = x4[j])
<1>1. PICK n \in Nat : n = Len(x4) /\ DOMAIN x4 = 1..n /\ \A j \in 1..n : x4[j] \in Post
    BY LenProperties, ElementOfSeq DEF RequestsOK
<1>2. x4' = [x4 EXCEPT ![i].step = s]
    BY DEF RP!Step
<1>3. x4' \in Seq(Post)
    BY <1>1, <1>2, ExceptSeq DEF RequestsOK, Post
<1> QED BY <1>1, <1>2, <1>3 DEF Post


LEMMA RequestStep == RequestInv /\ [RP!Next]_(RP!vars) => RequestInv'
<1> SUFFICES ASSUME RequestInv, [RP!Next]_(RP!vars) PROVE RequestInv'
    OBVIOUS
<1>0. PICK n \in Nat, m \in Nat : /\ n = Len(x1) /\ DOMAIN x1 = 1..n /\ m = Len(x4) /\ DOMAIN x4 = 1..m
                                  /\ \A i \in 1..n : x1[i] \in RP!Request
                                  /\ \A i \in 1..m : x4[i] \in Post
    BY LenProperties, ElementOfSeq DEF RequestInv, RequestsOK
<1> USE DEF RP!unseen
<1>1. CASE RP!SessionKnown \/ RP!Loaded \/ RP!Select \/ RP!Lost
  <2>1. /\ UNCHANGED <<x1, x4, x5>> /\ PageOK'
        /\ x3'.post = x3.post /\ x3'.submitting = x3.submitting /\ (x3'.call = "list" => x3.call = "list")
    <3>1. CASE RP!SessionKnown
      BY <3>1 DEF RP!SessionKnown, RequestInv, RequestsOK, PageOK, Fields
    <3>2. CASE RP!Loaded
      BY <3>2 DEF RP!Loaded, RequestInv, RequestsOK, PageOK, Fields
    <3>3. CASE RP!Select
      BY <3>3 DEF RP!Select, RP!Selectable, RequestInv, RequestsOK, PageOK, Fields
    <3>4. CASE RP!Lost
      BY <3>4 DEF RP!Lost, RequestInv, RequestsOK, PageOK, Fields
    <3> QED BY <1>1, <3>1, <3>2, <3>3, <3>4
  <2> QED BY <2>1, PageStep DEF RequestInv, OnePost
<1>2. CASE RP!Submit
  <2>1. PICK p : p = [server |-> x3.selected, step |-> "sent"]
    OBVIOUS
  <2>2. p \in Post /\ p.step = "sent" /\ ~x3.submitting
    BY <1>2, <2>1 DEF RP!Submit, RP!SubmitEnabled, Post, RequestInv, RequestsOK, PageOK
  <2>3. x4' = Append(x4, p) /\ UNCHANGED <<x1, x5>>
    BY <1>2, <2>1 DEF RP!Submit
  <2>4. x4' \in Seq(Post) /\ DOMAIN x4' = 1..m + 1 /\ x4'[m + 1] = p /\ \A i \in 1..m : x4'[i] = x4[i]
    BY <1>0, <2>2, <2>3, AppendProperties DEF RequestInv, RequestsOK
  <2>5. PageOK' /\ x3'.post = m + 1 /\ x3'.submitting /\ x3'.call = "post"
    BY <1>0, <1>2 DEF RP!Submit, RequestInv, RequestsOK, PageOK, Fields
  <2>6. ~x5 => \A i \in 1..m : ~RP!UnderWay(i)
    BY <1>0, <2>2 DEF RequestInv, OnePost
  <2>7. ~x5 => OnePost'
    BY <2>4, <2>5, <2>6 DEF OnePost, RP!UnderWay
  <2>8. ~x5 => CheckedFree'
    BY <1>0, <2>2, <2>3, <2>4 DEF CheckedFree, NonePending, RequestInv
  <2> QED BY <2>3, <2>4, <2>5, <2>7, <2>8 DEF RequestInv, RequestsOK, PendingNewest
<1>3. CASE RP!Answered
  <2>1. /\ UNCHANGED <<x1, x4, x5>> /\ PageOK'
        /\ x3.call = "post" /\ x4[x3.post].step \in {"created", "refused"}
    BY <1>3 DEF RP!Answered, RequestInv, RequestsOK, PageOK, Fields
  <2>2. ~x5 => \A i \in DOMAIN x4 : ~RP!UnderWay(i)
    BY <2>1 DEF RequestInv, OnePost, RP!UnderWay
  <2> QED BY <2>1, <2>2, PageStep
<1>4. CASE RP!Listed
  <2>1. /\ UNCHANGED <<x1, x4, x5>> /\ PageOK' /\ x3.call = "list"
    BY <1>4 DEF RP!Listed, RequestInv, RequestsOK, PageOK, Fields
  <2>2. ~x5 => \A i \in DOMAIN x4 : ~RP!UnderWay(i)
    BY <2>1 DEF RequestInv, OnePost
  <2> QED BY <2>1, <2>2, PageStep
<1>5. CASE RP!Reload
  <2>1. /\ UNCHANGED <<x1, x4>> /\ PageOK' /\ (~x5' => ~x5 /\ \A i \in DOMAIN x4 : ~RP!UnderWay(i))
    BY <1>5 DEF RP!Reload, RP!NewPage, PageOK, Fields
  <2> QED BY <2>1 DEF RequestInv, RequestsOK, OnePost, PendingNewest, CheckedFree, NonePending, RP!UnderWay
<1>6. ASSUME NEW i \in DOMAIN x4, NEW s \in {"reconciled", "refused"}, NEW servers,
             RP!Step(i, s), UNCHANGED <<x3, x5>>, x4[i].step = "sent", x1' = RP!Reconciled(x1, servers)
      PROVE RequestInv'
  <2>1. /\ RP!Step(i, s) /\ UNCHANGED <<x3, x5>> /\ x4[i].step = "sent"
        /\ x1' = RP!Reconciled(x1, servers)
    BY <1>6
  <2>2. /\ x4' \in Seq(Post) /\ DOMAIN x4' = DOMAIN x4 /\ x4'[i].step = s
        /\ \A j \in DOMAIN x4 : x4'[j].server = x4[j].server /\ (j # i => x4'[j] = x4[j])
    BY <2>1, StepOf DEF RequestInv
  <2>3. \A k \in 1..n : /\ x1'[k] \in RP!Request /\ x1'[k].server = x1[k].server
                        /\ x1'[k].status = "PENDING" => x1[k].status = "PENDING"
    <3>1. ASSUME NEW k \in 1..n, NEW r, r = x1[k]
          PROVE  /\ x1'[k] \in RP!Request /\ x1'[k].server = r.server
                 /\ x1'[k].status = "PENDING" => r.status = "PENDING"
      <4>1. r \in RP!Request
        BY <1>0, <3>1
      <4>2. x1'[k] = r \/ x1'[k] = [r EXCEPT !.status = "EXPIRED"]
        BY <1>0, <2>1, <3>1 DEF RP!Reconciled
      <4> QED BY <4>1, <4>2 DEF RP!Request
    <3> QED BY <3>1
  <2>4. x1' \in Seq(RP!Request) /\ DOMAIN x1' = 1..n
    <3>1. DOMAIN x1' = 1..n /\ x1' = [k \in 1..n |-> x1'[k]]
      BY <1>0, <2>1 DEF RP!Reconciled
    <3>2. [k \in 1..n |-> x1'[k]] \in Seq(RP!Request)
      <4>1. \A k \in 1..n : x1'[k] \in RP!Request
        BY <2>3
      <4> QED BY <4>1, IsASeq
    <3> QED BY <3>1, <3>2
  <2>5. ~x5 => OnePost'
    BY <2>1, <2>2 DEF RequestInv, OnePost, RP!UnderWay
  <2>8. \A k \in 1..n : x1'[k].server = x1[k].server /\ (x1'[k].status = "PENDING" => x1[k].status = "PENDING")
    BY <2>3
  <2>6. ~x5 => PendingNewest'
    BY <1>0, <2>8, <2>4 DEF RequestInv, PendingNewest
  <2>7. ~x5 => CheckedFree'
    <3> SUFFICES ASSUME ~x5, NEW j \in DOMAIN x4, x4'[j].step = "checked", NEW k \in 1..n, x1'[k].server = x4[j].server,
                        x1'[k].status = "PENDING"
                 PROVE  FALSE
      BY <2>2, <2>4 DEF CheckedFree, NonePending
    <3>1. j # i /\ x4[j].step = "checked"
      BY <2>2
    <3>2. NonePending(x4[j].server)
      BY <3>1 DEF RequestInv, CheckedFree
    <3> QED BY <1>0, <2>8, <3>2 DEF NonePending
  <2> QED BY <2>1, <2>2, <2>4, <2>5, <2>6, <2>7 DEF RequestInv, RequestsOK, PageOK
<1>7. ASSUME NEW i \in DOMAIN x4, RP!Check(i) PROVE RequestInv'
  <2>1. PICK s : /\ s = IF RP!Conflict(x1, x2, x4[i].server) \/ RP!TooMany(x1) THEN "refused" ELSE "checked"
                 /\ RP!Step(i, s) /\ UNCHANGED <<x1, x3, x5>> /\ x4[i].step = "reconciled"
    BY <1>7 DEF RP!Check
  <2>2. /\ x4' \in Seq(Post) /\ DOMAIN x4' = DOMAIN x4 /\ x4'[i].step = s
        /\ \A j \in DOMAIN x4 : x4'[j].server = x4[j].server /\ (j # i => x4'[j] = x4[j])
    BY <2>1, StepOf DEF RequestInv
  <2>3. ~x5 /\ s = "checked" => NonePending(x4[i].server)
    <3> SUFFICES ASSUME ~x5, s = "checked", NEW k \in DOMAIN x1, x1[k].server = x4[i].server, x1[k].status = "PENDING"
                 PROVE  FALSE
        BY DEF NonePending
    <3>1. \A j \in DOMAIN x1 : j > k => x1[j].server # x4[i].server
      BY <1>0 DEF RequestInv, PendingNewest
    <3>2. RP!NewestIs(x1, x4[i].server, RP!Open)
      BY <3>1 DEF RP!NewestIs, RP!Open
    <3> QED BY <2>1, <3>2 DEF RP!Conflict
  <2>4. ~x5 => OnePost'
    BY <2>1, <2>2 DEF RequestInv, OnePost, RP!UnderWay
  <2>5. ~x5 => PendingNewest'
    BY <2>1 DEF RequestInv, PendingNewest
  <2>6. ~x5 => CheckedFree'
    BY <2>1, <2>2, <2>3 DEF RequestInv, CheckedFree, NonePending
  <2> QED BY <2>1, <2>2, <2>4, <2>5, <2>6 DEF RequestInv, RequestsOK, PageOK
<1>8. ASSUME NEW i \in DOMAIN x4, RP!Insert(i) PROVE RequestInv'
  <2>1. PICK r : r = [server |-> x4[i].server, status |-> "PENDING"]
    OBVIOUS
  <2>2. PICK s \in {"created", "refused"} :
           RP!Step(i, s) /\ UNCHANGED <<x3, x5>> /\ x4[i].step = "checked" /\ x1' = Append(x1, r)
    BY <1>8, <2>1 DEF RP!Insert
  <2>3. /\ x4' \in Seq(Post) /\ DOMAIN x4' = DOMAIN x4 /\ x4'[i].step = s
        /\ \A j \in DOMAIN x4 : x4'[j].server = x4[j].server /\ (j # i => x4'[j] = x4[j])
    BY <2>2, StepOf DEF RequestInv
  <2>4. r \in RP!Request /\ r.server = x4[i].server
    BY <1>0, <2>1 DEF Post, RP!Request
  <2>5. x1' \in Seq(RP!Request) /\ DOMAIN x1' = 1..n + 1 /\ x1'[n + 1] = r /\ \A k \in 1..n : x1'[k] = x1[k]
    BY <1>0, <2>2, <2>4, AppendProperties DEF RequestInv, RequestsOK
  <2>6. ~x5 => OnePost'
    BY <1>0, <2>2, <2>3 DEF RequestInv, OnePost, RP!UnderWay
  <2>7. ~x5 => PendingNewest'
    <3>1. ~x5 => NonePending(r.server)
      BY <2>2, <2>4 DEF RequestInv, CheckedFree
    <3> QED BY <1>0, <2>5, <3>1 DEF RequestInv, PendingNewest, NonePending
  <2>8. ~x5 => CheckedFree'
    <3>1. ~x5 => \A j \in DOMAIN x4 : x4'[j].step # "checked"
      BY <1>0, <2>2, <2>3 DEF RequestInv, OnePost, RP!UnderWay
    <3> QED BY <2>3, <3>1 DEF CheckedFree
  <2> QED BY <2>2, <2>3, <2>5, <2>6, <2>7, <2>8 DEF RequestInv, RequestsOK, PageOK
<1>9. CASE RP!Reviewed
  <2>1. PICK k \in DOMAIN x1 : \/ \E s \in {move[2] : move \in {v \in RP!Moves : v[1] = x1[k].status}} :
                                    x1' = [x1 EXCEPT ![k].status = s]
                           \/ x1' = [x1 EXCEPT ![k].status = "APPROVED"]
    BY <1>9, Zenon DEF RP!Reviewed
  <2>7. {move[2] : move \in {v \in RP!Moves : v[1] = x1[k].status}} \subseteq {"PROCESSING", "REJECTED", "FAILED", "EXPIRED"}
    BY DEF RP!Moves
  <2>2. PICK s \in {"PROCESSING", "REJECTED", "FAILED", "EXPIRED", "APPROVED"} : x1' = [x1 EXCEPT ![k].status = s]
    BY <2>1, <2>7
  <2>3. PICK r : r = [x1[k] EXCEPT !.status = s]
    OBVIOUS
  <2>4. r \in RP!Request /\ r.server = x1[k].server /\ r.status = s
    BY <1>0, <2>3 DEF RP!Request
  <2>5. x1' \in Seq(RP!Request) /\ Len(x1') = Len(x1) /\ \A j \in 1..n : x1'[j] = IF j = k THEN r ELSE x1[j]
    BY <1>0, <2>2, <2>3, <2>4, ExceptSeq DEF RequestInv, RequestsOK
  <2>6. UNCHANGED <<x3, x4, x5>>
    BY <1>9 DEF RP!Reviewed
  <2> QED BY <1>0, <2>4, <2>5, <2>6, RowsStep
<1>11. ASSUME NEW i \in DOMAIN x4, RP!Reconcile(i) PROVE RequestInv'
    BY <1>6, <1>11 DEF RP!Reconcile
<1>12. ASSUME NEW i \in DOMAIN x4, RP!Fail(i) PROVE RequestInv'
  <2>1. RP!Step(i, "refused") /\ UNCHANGED <<x3, x5>>
    BY <1>12 DEF RP!Fail
  <2>2. CASE x4[i].step = "sent"
    <3>1. \E servers : x1' = RP!Reconciled(x1, servers)
      BY <1>12, <2>2 DEF RP!Fail
    <3> QED BY <1>6, <2>1, <2>2, <3>1
  <2>3. CASE x4[i].step # "sent"
    <3>1. x1' = x1
      BY <1>12, <2>3 DEF RP!Fail
    <3>2. /\ x4' \in Seq(Post) /\ DOMAIN x4' = DOMAIN x4 /\ x4'[i].step = "refused"
          /\ \A j \in DOMAIN x4 : x4'[j].server = x4[j].server /\ (j # i => x4'[j] = x4[j])
      BY <2>1, StepOf DEF RequestInv
    <3>3. ~x5 => OnePost'
      BY <2>1, <3>2 DEF RequestInv, OnePost, RP!UnderWay
    <3>4. ~x5 => PendingNewest'
      BY <3>1 DEF RequestInv, PendingNewest
    <3>5. ~x5 => CheckedFree'
      BY <3>1, <3>2 DEF RequestInv, CheckedFree, NonePending
    <3> QED BY <2>1, <3>1, <3>2, <3>3, <3>4, <3>5 DEF RequestInv, RequestsOK, PageOK
  <2> QED BY <2>2, <2>3
<1>10. CASE RP!Switched \/ UNCHANGED RP!vars
  <2>1. UNCHANGED <<x1, x3, x4, x5>>
    BY <1>10 DEF RP!Switched, RP!vars
  <2> QED BY <2>1 DEF RequestInv, RequestsOK, OnePost, PendingNewest, CheckedFree, NonePending, RP!UnderWay, PageOK
<1> QED BY <1>1, <1>2, <1>3, <1>4, <1>5, <1>11, <1>7, <1>8, <1>9, <1>12, <1>10 DEF RP!Next

LEMMA RequestProperty == RequestInv => RP!PendingOnce
<1> SUFFICES ASSUME RequestInv, ~x5, NEW i \in DOMAIN x1, NEW j \in DOMAIN x1,
                    x1[i].status = "PENDING", x1[j].status = "PENDING", x1[i].server = x1[j].server
             PROVE  i = j
    BY DEF RP!PendingOnce
<1>1. i \in Int /\ j \in Int
    BY LenProperties DEF RequestInv, RequestsOK
<1>2. ~(i < j) /\ ~(j < i)
    BY DEF RequestInv, PendingNewest
<1> QED BY <1>1, <1>2

\* What holds of one page holds of the browsers that show it.
LEMMA RequestAccessStep == (tab = "request" => RequestInv) /\ [PagesNext]_pageVars => (tab = "request" => RequestInv)'
<1> SUFFICES ASSUME tab = "request" => RequestInv, [PagesNext]_pageVars, tab' = "request"
             PROVE  RequestInv'
    OBVIOUS
<1>1. tab' = tab
    BY DEF PagesNext, RequestAccess, Users, OneUser, SyncJobs, ServerNetwork, Accounts, SigningIn, OwnProfile, OneGroup,
           pageVars
<1>2. CASE UNCHANGED pageVars
    BY <1>1, <1>2, RequestStep DEF pageVars, RP!vars
<1>3. CASE PagesNext
    BY <1>1, <1>3, RequestStep DEF PagesNext, RequestAccess, Users, OneUser, SyncJobs, ServerNetwork, Accounts, SigningIn,
                                   OwnProfile, OneGroup
<1> QED BY <1>2, <1>3

\* An applicant has at most one pending request for a server as long as the page is
\* not left in the middle of a POST: the disabled button of /request-access, and the
\* look for an open request in POST /api/access-requests before it inserts one.
THEOREM OnePending == PagesSpec => []PendingOnce
<1>1. PagesInit => (tab = "request" => RequestInv)
    BY RequestInit DEF PagesInit
<1>2. (tab = "request" => RequestInv) => PendingOnce
    BY RequestProperty DEF PendingOnce
<1> QED BY <1>1, <1>2, RequestAccessStep, PTL DEF PagesSpec

-----------------------------------------------------------------------------
(* The page /servers/[id]/network.  Its variables are x1 for row, x2 for     *)
(* managed, x3 for page, x4 for call, x5 for typed, x6 for alone and x7 for  *)
(* acts.                                                                   *)

Form == [Key -> Value]

NetworkOK ==
    /\ x1 \in Form
    /\ x3 = [a \in Admin |-> [loading |-> x3[a].loading, form |-> x3[a].form, managed |-> x3[a].managed,
                              check |-> x3[a].check]]
    /\ x4 = [a \in Admin |-> [load |-> x4[a].load, save |-> x4[a].save, check |-> x4[a].check]]
    /\ x5 = [a \in Admin |-> x5[a]]
    /\ x6 \in [Admin -> BOOLEAN]

\* The settings one has edited that are not in the row: those of a save that has not
\* been served are in its body.
Edited(a) == IF x4[a].save.step = "sent" THEN x5[a] \cup x4[a].save.typed ELSE x5[a]

\* What is known of the form of a while the settings have not arrived, while a save
\* is on its way, and as long as nobody else saves.
Loading(a) ==
    x4[a].load # NP!NoCall =>
        /\ x3[a].loading /\ x4[a].save = NP!NoCall
        /\ x4[a].load.step = "ok" => /\ x4[a].load.settings \in Form
                                     /\ x6[a] => x4[a].load.settings = x1
Sending(a) ==
    x4[a].save.step = "sent" =>
        /\ x4[a].save.body \in Form
        /\ \A k \in Key \ x5[a] : x4[a].save.body[k] = x3[a].form[k]
        /\ x4[a].save.alone /\ x6[a] => \A k \in Key \ x4[a].save.typed : x4[a].save.body[k] = x1[k]
Unedited(a) ==
    x6[a] /\ x4[a].load = NP!NoCall => \A k \in Key \ Edited(a) : x3[a].form[k] = x1[k]
FormOf(a) ==
    /\ x3[a].form \in Form /\ "step" \in DOMAIN x4[a].save
    /\ Loading(a) /\ Sending(a) /\ Unedited(a)
NetworkInv == NetworkOK /\ \A a \in Admin : FormOf(a)

LEMMA NetworkInit == NP!Init => NetworkInv
<1> SUFFICES ASSUME NP!Init PROVE NetworkInv
    OBVIOUS
<1>1. NetworkOK
    BY DataAssumption DEF NP!Init, NetworkOK, Form
<1>2. ASSUME NEW a \in Admin PROVE FormOf(a)
  <2>1. /\ x3[a] = [loading |-> TRUE, form |-> Default, managed |-> TRUE, check |-> NP!NoCheck]
        /\ x4[a] = [load |-> [step |-> "sent"], save |-> NP!NoCall, check |-> NP!NoCall]
        /\ ~x6[a] /\ NP!NoCall = [step |-> "none"]
    BY DEF NP!Init, NP!NoCall
  <2>2. x3[a].form = Default /\ x3[a].loading
    BY <2>1
  <2>3. x4[a].load = [step |-> "sent"] /\ x4[a].save = [step |-> "none"]
    BY <2>1
  <2>4. x4[a].load.step = "sent" /\ x4[a].save.step = "none" /\ "step" \in DOMAIN x4[a].save
    BY <2>3
  <2> QED BY <2>1, <2>2, <2>3, <2>4, DataAssumption DEF FormOf, Loading, Sending, Unedited, Form
<1> QED BY <1>1, <1>2 DEF NetworkInv

\* The calls of one browser change one at a time.
LEMMA TellOf ==
    ASSUME NetworkOK, NEW a \in Admin, NEW k \in {"load", "save", "check"}, NEW c, NP!Tell(a, k, c)
    PROVE  /\ x4' = [b \in Admin |-> [load |-> x4'[b].load, save |-> x4'[b].save, check |-> x4'[b].check]]
           /\ \A b \in Admin \ {a} : x4'[b] = x4[b]
           /\ x4'[a].load = IF k = "load" THEN c ELSE x4[a].load
           /\ x4'[a].save = IF k = "save" THEN c ELSE x4[a].save
<1>1. x4' = [x4 EXCEPT ![a][k] = c]
    BY DEF NP!Tell
<1>2. PICK r : r = [load |-> x4[a].load, save |-> x4[a].save, check |-> x4[a].check]
    OBVIOUS
<1>3. x4 = [b \in Admin |-> x4[b]] /\ x4[a] = r
    BY <1>2 DEF NetworkOK
<1>4. x4' = [b \in Admin |-> IF b = a THEN [r EXCEPT ![k] = c] ELSE x4[b]]
    BY <1>1, <1>3
<1>5. PICK n : n = [r EXCEPT ![k] = c]
    OBVIOUS
<1>6. /\ n = [load |-> n.load, save |-> n.save, check |-> n.check]
      /\ n.load = IF k = "load" THEN c ELSE x4[a].load
      /\ n.save = IF k = "save" THEN c ELSE x4[a].save
    BY <1>2, <1>5
<1>7. \A b \in Admin : x4'[b] = IF b = a THEN n ELSE x4[b]
    BY <1>4, <1>5
<1>8. \A b \in Admin : x4'[b] = [load |-> x4'[b].load, save |-> x4'[b].save, check |-> x4'[b].check]
    BY <1>6, <1>7, ZenonT(30) DEF NetworkOK
<1>9. x4' = [b \in Admin |-> x4'[b]]
    BY <1>4
<1> QED BY <1>6, <1>7, <1>8, <1>9

\* A step of one browser, for the others: their forms stay, and if it changes the
\* row none of them is alone any longer.
LEMMA Others ==
    ASSUME NetworkInv, NEW a \in Admin, NEW b \in Admin, b # a,
           x3'[b] = x3[b], x4'[b] = x4[b], x5'[b] = x5[b],
           x6'[b] => x6[b], x1' # x1 => ~x6'[b]
    PROVE  FormOf(b)'
<1>1. FormOf(b)
    BY DEF NetworkInv
<1>2. Loading(b)'
    BY <1>1 DEF FormOf, Loading
<1>3. Sending(b)'
    BY <1>1 DEF FormOf, Sending
<1>4. Unedited(b)'
    BY <1>1 DEF FormOf, Unedited, Edited
<1> QED BY <1>1, <1>2, <1>3, <1>4 DEF FormOf

\* The page of one browser changes.
LEMMA PageOf ==
    ASSUME NetworkOK, NEW a \in Admin, NEW r, x3' = [x3 EXCEPT ![a] = r],
           r = [loading |-> r.loading, form |-> r.form, managed |-> r.managed, check |-> r.check]
    PROVE  /\ x3' = [b \in Admin |-> [loading |-> x3'[b].loading, form |-> x3'[b].form, managed |-> x3'[b].managed,
                                     check |-> x3'[b].check]]
           /\ x3'[a] = r /\ \A b \in Admin \ {a} : x3'[b] = x3[b]
<1>1. x3 = [b \in Admin |-> x3[b]]
    BY DEF NetworkOK
<1>2. x3' = [b \in Admin |-> IF b = a THEN r ELSE x3[b]]
    BY <1>1
<1>3. \A b \in Admin : x3'[b] = IF b = a THEN r ELSE x3[b]
    BY <1>2
<1>4. \A b \in Admin : x3'[b] = [loading |-> x3'[b].loading, form |-> x3'[b].form, managed |-> x3'[b].managed,
                                check |-> x3'[b].check]
    BY <1>3 DEF NetworkOK
<1>5. x3' = [b \in Admin |-> x3'[b]]
    BY <1>2
<1> QED BY <1>3, <1>4, <1>5

\* The fields of a page are these, whichever of them changes.
LEMMA PageUpdates ==
    ASSUME NetworkOK, NEW a \in Admin, NEW p, p = x3[a], NEW v
    PROVE  /\ p = [loading |-> p.loading, form |-> p.form, managed |-> p.managed, check |-> p.check]
           /\ [p EXCEPT !.loading = v] = [loading |-> v, form |-> p.form, managed |-> p.managed, check |-> p.check]
           /\ [p EXCEPT !.form = v] = [loading |-> p.loading, form |-> v, managed |-> p.managed, check |-> p.check]
           /\ [p EXCEPT !.managed = v] = [loading |-> p.loading, form |-> p.form, managed |-> v, check |-> p.check]
           /\ [p EXCEPT !.check = v] = [loading |-> p.loading, form |-> p.form, managed |-> p.managed, check |-> v]
<1>1. p = [loading |-> p.loading, form |-> p.form, managed |-> p.managed, check |-> p.check]
    BY DEF NetworkOK
<1>2. [p EXCEPT !.loading = v] = [loading |-> v, form |-> p.form, managed |-> p.managed, check |-> p.check]
    BY <1>1
<1>3. [p EXCEPT !.form = v] = [loading |-> p.loading, form |-> v, managed |-> p.managed, check |-> p.check]
    BY <1>1
<1>4. [p EXCEPT !.managed = v] = [loading |-> p.loading, form |-> p.form, managed |-> v, check |-> p.check]
    BY <1>1
<1>5. [p EXCEPT !.check = v] = [loading |-> p.loading, form |-> p.form, managed |-> p.managed, check |-> v]
    BY <1>1
<1> QED BY <1>1, <1>2, <1>3, <1>4, <1>5

\* The steps that leave the settings, the form and its calls as they are.
LEMMA Quiet ==
    ASSUME NetworkInv, NetworkOK', NEW a \in Admin, UNCHANGED <<x1, x5, x6>>,
           x3'[a].form = x3[a].form, x3'[a].loading = x3[a].loading,
           x4'[a].load = x4[a].load, x4'[a].save = x4[a].save,
           \A b \in Admin \ {a} : x3'[b] = x3[b] /\ x4'[b] = x4[b]
    PROVE  NetworkInv'
<1>1. FormOf(a)'
    BY DEF NetworkInv, FormOf, Loading, Sending, Unedited, Edited
<1>2. \A b \in Admin \ {a} : FormOf(b)'
    BY Others
<1> QED BY <1>1, <1>2 DEF NetworkInv

LEMMA CallSteps ==
    ASSUME NetworkInv, NEW a \in Admin,
           NP!LoadServe(a) \/ NP!Loaded(a) \/ NP!LoadFails(a)
    PROVE  NetworkInv'
<1>0. NetworkOK /\ FormOf(a)
    BY DEF NetworkInv
<1>1. CASE NP!LoadServe(a)
  <2>1. PICK c : c = [step |-> "ok", settings |-> x1]
    OBVIOUS
  <2>2. c.step = "ok" /\ c.settings = x1 /\ NP!Tell(a, "load", c) /\ x4[a].load.step = "sent"
    BY <1>1, <2>1 DEF NP!LoadServe
  <2>3. UNCHANGED <<x1, x3, x5>> /\ x6' = [x6 EXCEPT ![a] = TRUE]
    BY <1>1 DEF NP!LoadServe
  <2>4. /\ x4' = [b \in Admin |-> [load |-> x4'[b].load, save |-> x4'[b].save, check |-> x4'[b].check]]
        /\ \A b \in Admin \ {a} : x4'[b] = x4[b]
        /\ x4'[a].load = c /\ x4'[a].save = x4[a].save
    BY <1>0, <2>2, TellOf
  <2>5. x4[a].load # NP!NoCall /\ c # NP!NoCall
    BY <2>2 DEF NP!NoCall
  <2>6. x3[a].loading /\ x4[a].save = NP!NoCall /\ x4[a].save.step # "sent"
    BY <1>0, <2>5 DEF FormOf, Loading, NP!NoCall
  <2>7. NetworkOK'
    BY <1>0, <2>3, <2>4 DEF NetworkOK
  <2>8. FormOf(a)'
    BY <1>0, <2>2, <2>3, <2>4, <2>5, <2>6 DEF FormOf, Loading, Sending, Unedited, NetworkOK
  <2>9. \A b \in Admin \ {a} : FormOf(b)'
    BY <1>0, <2>3, <2>4, Others DEF NetworkOK
  <2> QED BY <2>7, <2>8, <2>9 DEF NetworkInv
<1>2. CASE NP!Loaded(a)
  <2>1. PICK r : r = [x3[a] EXCEPT !.loading = FALSE, !.form = x4[a].load.settings]
    OBVIOUS
  <2>2. /\ r = [loading |-> r.loading, form |-> r.form, managed |-> r.managed, check |-> r.check]
        /\ r.form = x4[a].load.settings
    <3>1. PICK q : q = [x3[a] EXCEPT !.loading = FALSE]
      OBVIOUS
    <3>2. q = [loading |-> FALSE, form |-> x3[a].form, managed |-> x3[a].managed, check |-> x3[a].check]
      BY <1>0, <3>1, PageUpdates
    <3>3. r = [q EXCEPT !.form = x4[a].load.settings]
      BY <2>1, <3>1
    <3> QED BY <3>2, <3>3
  <2>3. /\ x3' = [x3 EXCEPT ![a] = r] /\ UNCHANGED <<x1, x5, x6>>
        /\ NP!Tell(a, "load", NP!NoCall) /\ x4[a].load.step = "ok"
    BY <1>2, <2>1 DEF NP!Loaded, NP!Form
  <2>4. /\ x4' = [b \in Admin |-> [load |-> x4'[b].load, save |-> x4'[b].save, check |-> x4'[b].check]]
        /\ \A b \in Admin \ {a} : x4'[b] = x4[b]
        /\ x4'[a].load = NP!NoCall /\ x4'[a].save = x4[a].save
    BY <1>0, <2>3, TellOf
  <2>5. /\ x3' = [b \in Admin |-> [loading |-> x3'[b].loading, form |-> x3'[b].form, managed |-> x3'[b].managed,
                                  check |-> x3'[b].check]]
        /\ x3'[a] = r /\ \A b \in Admin \ {a} : x3'[b] = x3[b]
    BY <1>0, <2>2, <2>3, PageOf
  <2>6. x4[a].load # NP!NoCall
    BY <2>3 DEF NP!NoCall
  <2>7. r.form \in Form /\ (x6[a] => r.form = x1) /\ x4[a].save.step # "sent"
    BY <1>0, <2>2, <2>3, <2>6 DEF FormOf, Loading, NP!NoCall
  <2>8. NetworkOK'
    BY <1>0, <2>3, <2>4, <2>5 DEF NetworkOK
  <2>9. FormOf(a)'
    BY <1>0, <2>3, <2>4, <2>5, <2>7 DEF FormOf, Loading, Sending, Unedited
  <2>10. \A b \in Admin \ {a} : FormOf(b)'
    BY <1>0, <2>3, <2>4, <2>5, Others DEF NetworkOK
  <2> QED BY <2>8, <2>9, <2>10 DEF NetworkInv
<1>3. CASE NP!LoadFails(a)
  <2>1. PICK r : r = [x3[a] EXCEPT !.loading = FALSE]
    OBVIOUS
  <2>2. /\ r = [loading |-> r.loading, form |-> r.form, managed |-> r.managed, check |-> r.check]
        /\ r.form = x3[a].form
    <3>1. r = [loading |-> FALSE, form |-> x3[a].form, managed |-> x3[a].managed, check |-> x3[a].check]
      BY <1>0, <2>1, PageUpdates
    <3> QED BY <3>1
  <2>3. /\ x3' = [x3 EXCEPT ![a] = r] /\ UNCHANGED <<x1, x5>> /\ x6' = [x6 EXCEPT ![a] = FALSE]
        /\ NP!Tell(a, "load", NP!NoCall) /\ x4[a].load # NP!NoCall
    BY <1>3, <2>1 DEF NP!LoadFails
  <2>4. /\ x4' = [b \in Admin |-> [load |-> x4'[b].load, save |-> x4'[b].save, check |-> x4'[b].check]]
        /\ \A b \in Admin \ {a} : x4'[b] = x4[b]
        /\ x4'[a].load = NP!NoCall /\ x4'[a].save = x4[a].save
    BY <1>0, <2>3, TellOf
  <2>5. /\ x3' = [b \in Admin |-> [loading |-> x3'[b].loading, form |-> x3'[b].form, managed |-> x3'[b].managed,
                                  check |-> x3'[b].check]]
        /\ x3'[a] = r /\ \A b \in Admin \ {a} : x3'[b] = x3[b]
    BY <1>0, <2>2, <2>3, PageOf
  <2>6. NetworkOK'
    BY <1>0, <2>3, <2>4, <2>5 DEF NetworkOK
  <2>7. ~x6'[a]
    BY <1>0, <2>3 DEF NetworkOK
  <2>8. FormOf(a)'
    BY <1>0, <2>2, <2>3, <2>4, <2>5, <2>7 DEF FormOf, Loading, Sending, Unedited
  <2>9. \A b \in Admin \ {a} : FormOf(b)'
    BY <1>0, <2>3, <2>4, <2>5, Others DEF NetworkOK
  <2> QED BY <2>6, <2>8, <2>9 DEF NetworkInv
<1> QED BY <1>1, <1>2, <1>3

LEMMA EditStep ==
    ASSUME NetworkInv, NEW a \in Admin, NP!Edit(a)
    PROVE  NetworkInv'
<1>0. NetworkOK /\ FormOf(a)
    BY DEF NetworkInv
<1>1. PICK k \in Key, v \in Value : /\ x3' = [x3 EXCEPT ![a].form[k] = v]
                                   /\ x5' = [x5 EXCEPT ![a] = @ \cup {k}]
    BY DEF NP!Edit
<1>2. UNCHANGED <<x1, x4, x6>> /\ ~x3[a].loading
    BY DEF NP!Edit, NP!Editable
<1>3. PICK r : r = [x3[a] EXCEPT !.form = [x3[a].form EXCEPT ![k] = v]]
    OBVIOUS
<1>4. /\ r = [loading |-> r.loading, form |-> r.form, managed |-> r.managed, check |-> r.check]
      /\ r.form = [x3[a].form EXCEPT ![k] = v]
    <2>1. PICK f : f = [x3[a].form EXCEPT ![k] = v]
      OBVIOUS
    <2>2. r = [x3[a] EXCEPT !.form = f]
      BY <1>3, <2>1
    <2>3. r = [loading |-> x3[a].loading, form |-> f, managed |-> x3[a].managed, check |-> x3[a].check]
      BY <1>0, <2>2, PageUpdates
    <2> QED BY <2>1, <2>3
<1>5. x3' = [x3 EXCEPT ![a] = r]
    BY <1>1, <1>3
<1>6. /\ x3' = [b \in Admin |-> [loading |-> x3'[b].loading, form |-> x3'[b].form, managed |-> x3'[b].managed,
                                check |-> x3'[b].check]]
      /\ x3'[a] = r /\ \A b \in Admin \ {a} : x3'[b] = x3[b]
    BY <1>0, <1>4, <1>5, PageOf
<1>7. r.form \in Form /\ \A l \in Key \ {k} : r.form[l] = x3[a].form[l]
    BY <1>0, <1>4 DEF FormOf, Form
<1>8. x5' = [b \in Admin |-> x5'[b]] /\ x5'[a] = x5[a] \cup {k} /\ \A b \in Admin \ {a} : x5'[b] = x5[b]
    BY <1>0, <1>1 DEF NetworkOK
<1>9. NetworkOK'
    BY <1>0, <1>2, <1>6, <1>8 DEF NetworkOK
<1>10. FormOf(a)'
  <2>1. Loading(a)'
    BY <1>0, <1>2 DEF FormOf, Loading
  <2>2. Sending(a)'
    BY <1>0, <1>2, <1>6, <1>7, <1>8 DEF FormOf, Sending
  <2>3. Unedited(a)'
    BY <1>0, <1>2, <1>6, <1>7, <1>8 DEF FormOf, Unedited, Edited
  <2> QED BY <1>0, <1>2, <1>6, <1>7, <2>1, <2>2, <2>3 DEF FormOf
<1>11. \A b \in Admin \ {a} : FormOf(b)'
    BY <1>2, <1>6, <1>8, Others
<1> QED BY <1>9, <1>10, <1>11 DEF NetworkInv

LEMMA SaveSteps ==
    ASSUME NetworkInv, NEW a \in Admin,
           NP!SaveSend(a) \/ NP!SaveServe(a) \/ NP!SaveRefused(a) \/ NP!SaveAnswered(a)
    PROVE  NetworkInv'
<1>0. NetworkOK /\ FormOf(a)
    BY DEF NetworkInv
<1>1. CASE NP!SaveSend(a)
  <2>1. PICK c : c = [step |-> "sent", body |-> x3[a].form, typed |-> x5[a], alone |-> x6[a]]
    OBVIOUS
  <2>2. /\ c.step = "sent" /\ c.body = x3[a].form /\ c.typed = x5[a] /\ c.alone = x6[a] /\ "step" \in DOMAIN c
        /\ NP!Tell(a, "save", c) /\ ~x3[a].loading /\ x4[a].save = NP!NoCall
    BY <1>1, <2>1 DEF NP!SaveSend, NP!SaveOffered, NP!Editable
  <2>3. UNCHANGED <<x1, x3, x6>> /\ x5' = [x5 EXCEPT ![a] = {}]
    BY <1>1 DEF NP!SaveSend
  <2>4. /\ x4' = [b \in Admin |-> [load |-> x4'[b].load, save |-> x4'[b].save, check |-> x4'[b].check]]
        /\ \A b \in Admin \ {a} : x4'[b] = x4[b]
        /\ x4'[a].load = x4[a].load /\ x4'[a].save = c
    BY <1>0, <2>2, TellOf
  <2>5. x5' = [b \in Admin |-> x5'[b]] /\ x5'[a] = {} /\ \A b \in Admin \ {a} : x5'[b] = x5[b]
    BY <1>0, <2>3 DEF NetworkOK
  <2>6. x4[a].load = NP!NoCall /\ x4[a].save.step # "sent"
    BY <1>0, <2>2 DEF FormOf, Loading, NP!NoCall
  <2>7. NetworkOK'
    BY <1>0, <2>3, <2>4, <2>5 DEF NetworkOK
  <2>8. FormOf(a)'
    BY <1>0, <2>2, <2>3, <2>4, <2>5, <2>6 DEF FormOf, Loading, Sending, Unedited, Edited
  <2>9. \A b \in Admin \ {a} : FormOf(b)'
    BY <2>3, <2>4, <2>5, Others
  <2> QED BY <2>7, <2>8, <2>9 DEF NetworkInv
<1>2. ASSUME NEW s \in {"ok", "refused"}, NP!Tell(a, "save", [x4[a].save EXCEPT !.step = s])
      PROVE  /\ x4' = [b \in Admin |-> [load |-> x4'[b].load, save |-> x4'[b].save, check |-> x4'[b].check]]
             /\ \A b \in Admin \ {a} : x4'[b] = x4[b]
             /\ x4'[a].load = x4[a].load
             /\ x4'[a].save.step # "sent" /\ "step" \in DOMAIN x4'[a].save /\ x4'[a].save # NP!NoCall
  <2>1. PICK c : c = [x4[a].save EXCEPT !.step = s]
    OBVIOUS
  <2>2. c.step = s /\ "step" \in DOMAIN c
    BY <1>0, <2>1 DEF FormOf
  <2>3. c # NP!NoCall
    BY <2>2 DEF NP!NoCall
  <2>4. NP!Tell(a, "save", c)
    BY <1>2, <2>1
  <2> QED BY <1>0, <2>2, <2>3, <2>4, TellOf
<1>3. x4[a].save.step = "sent" => x4[a].load = NP!NoCall
    BY <1>0 DEF FormOf, Loading, NP!NoCall
<1>4. CASE NP!SaveServe(a)
  <2>1. /\ x4[a].save.step = "sent" /\ x1' = x4[a].save.body /\ x6' = [b \in Admin |-> x6[b] /\ b = a]
        /\ UNCHANGED <<x3, x5>>
        /\ \E s \in {"ok", "refused"} : NP!Tell(a, "save", [x4[a].save EXCEPT !.step = s])
    BY <1>4 DEF NP!SaveServe
  <2>2. x1' \in Form /\ \A k \in Key \ x5[a] : x1'[k] = x3[a].form[k]
    BY <1>0, <2>1 DEF FormOf, Sending
  <2>3. NetworkOK'
    BY <1>0, <1>2, <2>1, <2>2 DEF NetworkOK
  <2>4. FormOf(a)'
    BY <1>0, <1>2, <1>3, <2>1, <2>2 DEF FormOf, Loading, Sending, Unedited, Edited
  <2>5. \A b \in Admin \ {a} : FormOf(b)'
    BY <1>2, <2>1, Others
  <2> QED BY <2>3, <2>4, <2>5 DEF NetworkInv
<1>5. CASE NP!SaveRefused(a)
  <2>1. /\ x4[a].save.step = "sent" /\ x5' = [x5 EXCEPT ![a] = @ \cup x4[a].save.typed]
        /\ NP!Tell(a, "save", [x4[a].save EXCEPT !.step = "refused"]) /\ UNCHANGED <<x1, x3, x6>>
    BY <1>5 DEF NP!SaveRefused
  <2>2. /\ x5' = [b \in Admin |-> x5'[b]] /\ x5'[a] = x5[a] \cup x4[a].save.typed
        /\ \A b \in Admin \ {a} : x5'[b] = x5[b]
    BY <1>0, <2>1, ZenonT(30) DEF NetworkOK
  <2>3. NetworkOK'
    BY <1>0, <1>2, <2>1, <2>2 DEF NetworkOK
  <2>4. FormOf(a)'
    BY <1>0, <1>2, <1>3, <2>1, <2>2 DEF FormOf, Loading, Sending, Unedited, Edited
  <2>5. \A b \in Admin \ {a} : FormOf(b)'
    BY <1>2, <2>1, <2>2, Others
  <2> QED BY <2>3, <2>4, <2>5 DEF NetworkInv
<1>6. CASE NP!SaveAnswered(a)
  <2>1. /\ x4[a].save.step \in {"ok", "refused"} /\ NP!Tell(a, "save", NP!NoCall) /\ UNCHANGED <<x1, x3, x5, x6>>
    BY <1>6 DEF NP!SaveAnswered
  <2>2. /\ x4' = [b \in Admin |-> [load |-> x4'[b].load, save |-> x4'[b].save, check |-> x4'[b].check]]
        /\ \A b \in Admin \ {a} : x4'[b] = x4[b]
        /\ x4'[a].load = x4[a].load /\ x4'[a].save = NP!NoCall
    BY <1>0, <2>1, TellOf
  <2>3. NetworkOK'
    BY <1>0, <2>1, <2>2 DEF NetworkOK
  <2>4. x4'[a].save.step = "none" /\ "step" \in DOMAIN x4'[a].save
    BY <2>2 DEF NP!NoCall
  <2>5. FormOf(a)'
    BY <1>0, <2>1, <2>2, <2>4 DEF FormOf, Loading, Sending, Unedited, Edited
  <2>6. \A b \in Admin \ {a} : FormOf(b)'
    BY <2>1, <2>2, Others
  <2> QED BY <2>3, <2>5, <2>6 DEF NetworkInv
<1> QED BY <1>1, <1>4, <1>5, <1>6

LEMMA CheckSteps ==
    ASSUME NetworkInv, NEW a \in Admin,
           NP!FlagKnown(a) \/ NP!CheckSend(a) \/ NP!CheckServe(a) \/ NP!CheckAnswered(a)
    PROVE  NetworkInv'
<1>0. NetworkOK /\ UNCHANGED <<x1, x5, x6>>
    BY DEF NetworkInv, NP!FlagKnown, NP!CheckSend, NP!CheckServe, NP!CheckAnswered
<1>1. \/ x3' = x3
      \/ \E v : x3' = [x3 EXCEPT ![a].managed = v]
      \/ \E v : x3' = [x3 EXCEPT ![a].check = v]
    BY DEF NP!FlagKnown, NP!CheckSend, NP!CheckServe, NP!CheckAnswered
<1>2. x4' = x4 \/ \E c : NP!Tell(a, "check", c)
    BY DEF NP!FlagKnown, NP!CheckSend, NP!CheckServe, NP!CheckAnswered
<1>3. /\ x3' = [b \in Admin |-> [loading |-> x3'[b].loading, form |-> x3'[b].form, managed |-> x3'[b].managed,
                                check |-> x3'[b].check]]
      /\ x3'[a].form = x3[a].form /\ x3'[a].loading = x3[a].loading /\ \A b \in Admin \ {a} : x3'[b] = x3[b]
  <2>1. CASE x3' = x3
    BY <1>0, <2>1 DEF NetworkOK
  <2>2. ASSUME NEW v, x3' = [x3 EXCEPT ![a].managed = v] \/ x3' = [x3 EXCEPT ![a].check = v] PROVE <1>3!:
    <3>1. PICK r : /\ r = [x3[a] EXCEPT !.managed = v] \/ r = [x3[a] EXCEPT !.check = v]
                   /\ x3' = [x3 EXCEPT ![a] = r]
      BY <2>2
    <3>2. \/ r = [loading |-> x3[a].loading, form |-> x3[a].form, managed |-> v, check |-> x3[a].check]
          \/ r = [loading |-> x3[a].loading, form |-> x3[a].form, managed |-> x3[a].managed, check |-> v]
      BY <1>0, <3>1, PageUpdates, ZenonT(30)
    <3>3. /\ r = [loading |-> r.loading, form |-> r.form, managed |-> r.managed, check |-> r.check]
          /\ r.form = x3[a].form /\ r.loading = x3[a].loading
      BY <3>2
    <3> QED BY <1>0, <3>1, <3>3, PageOf
  <2> QED BY <1>1, <2>1, <2>2
<1>4. /\ x4' = [b \in Admin |-> [load |-> x4'[b].load, save |-> x4'[b].save, check |-> x4'[b].check]]
      /\ x4'[a].load = x4[a].load /\ x4'[a].save = x4[a].save /\ \A b \in Admin \ {a} : x4'[b] = x4[b]
  <2>1. CASE x4' = x4
    BY <1>0, <2>1 DEF NetworkOK
  <2>2. ASSUME NEW c, NP!Tell(a, "check", c) PROVE <1>4!:
    BY <1>0, <2>2, TellOf
  <2> QED BY <1>2, <2>1, <2>2
<1>5. NetworkOK'
    BY <1>0, <1>3, <1>4 DEF NetworkOK
<1> QED BY <1>0, <1>3, <1>4, <1>5, Quiet

LEMMA NetworkStep == NetworkInv /\ [NP!Next]_(NP!vars) => NetworkInv'
<1> SUFFICES ASSUME NetworkInv, [NP!Next]_(NP!vars) PROVE NetworkInv'
    OBVIOUS
<1>1. CASE UNCHANGED NP!vars
  <2>1. UNCHANGED <<x1, x3, x4, x5, x6>>
    BY <1>1 DEF NP!vars
  <2>2. NetworkOK'
    BY <2>1 DEF NetworkInv, NetworkOK
  <2>3. ASSUME NEW a \in Admin PROVE FormOf(a)'
    <3>1. Loading(a)'
      BY <2>1 DEF NetworkInv, FormOf, Loading
    <3>2. Sending(a)'
      BY <2>1 DEF NetworkInv, FormOf, Sending
    <3>3. Unedited(a)'
      BY <2>1 DEF NetworkInv, FormOf, Unedited, Edited
    <3> QED BY <2>1, <3>1, <3>2, <3>3 DEF NetworkInv, FormOf
  <2> QED BY <2>2, <2>3 DEF NetworkInv
<1>2. CASE NP!Next
    BY <1>2, CallSteps, EditStep, SaveSteps, CheckSteps DEF NP!Next
<1> QED BY <1>1, <1>2

LEMMA NetworkProperty == NetworkInv => NP!UneditedStays
BY DEF NetworkInv, FormOf, Sending, NP!UneditedStays

LEMMA ServerNetworkStep == (tab = "network" => NetworkInv) /\ [PagesNext]_pageVars => (tab = "network" => NetworkInv)'
<1> SUFFICES ASSUME tab = "network" => NetworkInv, [PagesNext]_pageVars, tab' = "network"
             PROVE  NetworkInv'
    OBVIOUS
<1>1. tab' = tab
    BY DEF PagesNext, RequestAccess, Users, OneUser, SyncJobs, ServerNetwork, Accounts, SigningIn, OwnProfile, OneGroup,
           pageVars
<1>2. CASE UNCHANGED pageVars
    BY <1>1, <1>2, NetworkStep DEF pageVars, NP!vars
<1>3. CASE PagesNext
    BY <1>1, <1>3, NetworkStep DEF PagesNext, RequestAccess, Users, OneUser, SyncJobs, ServerNetwork, Accounts, SigningIn,
                                   OwnProfile, OneGroup
<1> QED BY <1>2, <1>3

\* A save of /servers/[id]/network leaves the settings its administrator has not
\* edited as they are in the row, if they were fetched and nobody else has saved
\* since: the form that is merged from the answer and sent as a whole, however the
\* fetch, the edits and the saves of all the browsers interleave.
THEOREM OthersSettingsStay == PagesSpec => []UneditedStays
<1>1. PagesInit => (tab = "network" => NetworkInv)
    BY NetworkInit DEF PagesInit
<1>2. (tab = "network" => NetworkInv) => UneditedStays
    BY NetworkProperty DEF UneditedStays
<1> QED BY <1>1, <1>2, ServerNetworkStep, PTL DEF PagesSpec

-----------------------------------------------------------------------------
(* The fetches of a page, in the order in which they were sent: each of a   *)
(* kind, with its answer, and late once a younger one of its kind has        *)
(* arrived.                                                                *)

SequenceOK(f) == Len(f) \in Nat /\ f = [k \in 1 .. Len(f) |-> f[k]]
QueueOK(f) ==
    /\ SequenceOK(f)
    /\ \A k \in 1 .. Len(f) :
         f[k] = [what |-> f[k].what, answer |-> f[k].answer, late |-> f[k].late] /\ f[k].late \in BOOLEAN

Kinds(f, P) == \A k \in 1 .. Len(f) : f[k].what \in P

NotServed == [pending |-> TRUE]

\* Late fetches of a kind are before those that are not.
LateAreFirst(f, w) ==
    \A j, k \in 1 .. Len(f) : f[j].what = w /\ f[k].what = w /\ f[k].late /\ j < k => f[j].late

\* The youngest fetch of a kind is to be answered with v if it is under way; if it
\* is not, s is what the page shows of that kind.
Youngest(f, w, k) == f[k].what = w /\ \A j \in 1 .. Len(f) : j > k => f[j].what # w
Current(f, w, v, s) ==
    /\ \A k \in 1 .. Len(f) : Youngest(f, w, k) /\ ~f[k].late => f[k].answer \in {NotServed, v}
    /\ (\A k \in 1 .. Len(f) : f[k].what = w => f[k].late) => s = v

LEMMA QueueLength ==
    ASSUME NEW n \in Nat, NEW f, f = [k \in 1 .. n |-> f[k]]
    PROVE  Len(f) = n /\ DOMAIN f = 1 .. n
<1>1. PICK S : S = {f[k] : k \in 1 .. n}
    OBVIOUS
<1>2. \A k \in 1 .. n : f[k] \in S
    BY <1>1
<1>3. f \in Seq(S)
    BY <1>2, IsASeq
<1> QED BY <1>3, LenProperties

LEMMA Appended ==
    ASSUME NEW f, NEW c, SequenceOK(f)
    PROVE  LET g == Append(f, c) IN
           /\ SequenceOK(g) /\ Len(g) = Len(f) + 1
           /\ g[Len(f) + 1] = c /\ \A k \in 1 .. Len(f) : g[k] = f[k]
<1>1. PICK n \in Nat : n = Len(f) /\ f = [k \in 1 .. n |-> f[k]]
    BY DEF SequenceOK
<1>2. PICK S : S = {f[k] : k \in 1 .. n} \cup {c}
    OBVIOUS
<1>3. \A k \in 1 .. n : f[k] \in S
    BY <1>2
<1>4. f \in Seq(S) /\ c \in S
  <2>1. [k \in 1 .. n |-> f[k]] \in Seq(S)
    BY <1>3, IsASeq
  <2> QED BY <1>1, <1>2, <2>1
<1>5. PICK g : g = Append(f, c)
    OBVIOUS
<1>6. g \in Seq(S) /\ Len(g) = n + 1 /\ g[n + 1] = c /\ \A k \in 1 .. n : g[k] = f[k]
    BY <1>1, <1>4, <1>5, AppendProperties
<1>7. g = [k \in 1 .. n + 1 |-> g[k]]
    BY <1>6, LenProperties
<1> QED BY <1>1, <1>5, <1>6, <1>7 DEF SequenceOK

LEMMA Pair ==
    ASSUME NEW c, NEW d
    PROVE  Append(<<c>>, d) = <<c, d>>
<1>1. PICK g : g = Append(<<c>>, d)
    OBVIOUS
<1>2. <<c>> \in Seq({c, d}) /\ d \in {c, d} /\ Len(<<c>>) = 1 /\ <<c>>[1] = c
    OBVIOUS
<1>3. g \in Seq({c, d}) /\ Len(g) = 2 /\ g[1] = c /\ g[2] = d
    BY <1>1, <1>2, AppendProperties
<1>4. g = [k \in 1 .. 2 |-> IF k = 1 THEN c ELSE d]
  <2>1. g = [k \in 1 .. 2 |-> g[k]]
    BY <1>3, LenProperties
  <2>2. \A k \in 1 .. 2 : g[k] = IF k = 1 THEN c ELSE d
    BY <1>3
  <2> QED BY <2>1, <2>2
<1>5. <<c, d>> = [k \in 1 .. 2 |-> IF k = 1 THEN c ELSE d]
    OBVIOUS
<1> QED BY <1>1, <1>4, <1>5

LEMMA Concatenated ==
    ASSUME NEW f, NEW c, NEW d, SequenceOK(f)
    PROVE  /\ f \o <<>> = f
           /\ f \o <<c>> = Append(f, c)
           /\ f \o <<c, d>> = Append(Append(f, c), d)
<1>1. PICK n \in Nat : n = Len(f) /\ f = [k \in 1 .. n |-> f[k]]
    BY DEF SequenceOK
<1>2. PICK S : S = {f[k] : k \in 1 .. n} \cup {c, d}
    OBVIOUS
<1>3. \A k \in 1 .. n : f[k] \in S
    BY <1>2
<1>4. f \in Seq(S) /\ c \in S /\ d \in S
  <2>1. [k \in 1 .. n |-> f[k]] \in Seq(S)
    BY <1>3, IsASeq
  <2> QED BY <1>1, <1>2, <2>1
<1>5. f \o <<>> = f
    BY <1>4, ConcatEmptySeq
<1>6. f \o <<c>> = Append(f, c)
    BY <1>4, AppendIsConcat
<1>7. f \o <<c, d>> = Append(Append(f, c), d)
  <2>0. Append(f, c) \in Seq(S)
    BY <1>4, AppendProperties
  <2>1. Append(Append(f, c), d) = (f \o <<c>>) \o <<d>>
    BY <1>4, <1>6, <2>0, AppendIsConcat
  <2>2. <<c>> \in Seq(S) /\ <<d>> \in Seq(S) /\ <<c>> \o <<d>> = <<c, d>>
    <3>1. <<c>> \in Seq(S) /\ <<d>> \in Seq(S)
      BY <1>4
    <3>2. Append(<<c>>, d) = <<c>> \o <<d>>
      BY <1>4, <3>1, AppendIsConcat
    <3> QED BY <3>1, <3>2, Pair
  <2>3. (f \o <<c>>) \o <<d>> = f \o (<<c>> \o <<d>>)
    BY <1>4, <2>2, ConcatAssociative
  <2> QED BY <2>1, <2>2, <2>3
<1> QED BY <1>5, <1>6, <1>7

LEMMA Removed ==
    ASSUME NEW f, SequenceOK(f), NEW i \in 1 .. Len(f)
    PROVE  LET g == SubSeq(f, 1, i - 1) \o SubSeq(f, i + 1, Len(f)) IN
           /\ SequenceOK(g) /\ Len(g) = Len(f) - 1
           /\ \A k \in 1 .. Len(f) - 1 : g[k] = IF k < i THEN f[k] ELSE f[k + 1]
<1>1. PICK n \in Nat : n = Len(f) /\ f = [k \in 1 .. n |-> f[k]] /\ i \in 1 .. n
    BY DEF SequenceOK
<1>2. PICK S : S = {f[k] : k \in 1 .. n}
    OBVIOUS
<1>3. \A k \in 1 .. n : f[k] \in S
    BY <1>2
<1>4. PICK s, t : s = SubSeq(f, 1, i - 1) /\ t = SubSeq(f, i + 1, n)
    OBVIOUS
<1>5. /\ s \in Seq(S) /\ Len(s) = i - 1 /\ \A k \in 1 .. i - 1 : s[k] = f[k]
  <2>1. PICK m \in Int : m = i - 1 /\ m >= 0
    BY <1>1
  <2>2. \A k \in 1 .. m : f[k] \in S
    <3> SUFFICES ASSUME NEW k \in 1 .. m PROVE k \in 1 .. n
      BY <1>3
    <3> QED BY <1>1, <2>1
  <2>3. /\ SubSeq(f, 1, m) \in Seq(S)
        /\ Len(SubSeq(f, 1, m)) = IF 1 <= m THEN m - 1 + 1 ELSE 0
        /\ \A k \in 1 .. m - 1 + 1 : SubSeq(f, 1, m)[k] = f[1 + k - 1]
    BY <2>2, SubSeqProperties
  <2>4. s = SubSeq(f, 1, m)
    BY <1>4, <2>1
  <2>5. Len(s) = m
    BY <2>1, <2>3, <2>4
  <2>6. ASSUME NEW k \in 1 .. m PROVE s[k] = f[k]
    <3>1. k \in 1 .. m - 1 + 1 /\ 1 + k - 1 = k
      OBVIOUS
    <3> QED BY <2>3, <2>4, <3>1
  <2> QED BY <2>1, <2>3, <2>4, <2>5, <2>6
<1>6. /\ t \in Seq(S) /\ Len(t) = n - i /\ \A k \in 1 .. n - i : t[k] = f[i + k]
  <2>1. PICK m \in Int : m = i + 1
    BY <1>1
  <2>2. \A k \in m .. n : f[k] \in S
    <3> SUFFICES ASSUME NEW k \in m .. n PROVE k \in 1 .. n
      BY <1>3
    <3> QED BY <1>1, <2>1
  <2>3. /\ SubSeq(f, m, n) \in Seq(S)
        /\ Len(SubSeq(f, m, n)) = IF m <= n THEN n - m + 1 ELSE 0
        /\ \A k \in 1 .. n - m + 1 : SubSeq(f, m, n)[k] = f[m + k - 1]
    BY <2>2, SubSeqProperties
  <2>4. t = SubSeq(f, m, n)
    BY <1>4, <2>1
  <2>5. Len(t) = n - i
    BY <1>1, <2>1, <2>3, <2>4
  <2>6. ASSUME NEW k \in 1 .. n - i PROVE t[k] = f[i + k]
    <3>1. k \in 1 .. n - m + 1 /\ m + k - 1 = i + k
      BY <1>1, <2>1
    <3> QED BY <2>3, <2>4, <3>1
  <2> QED BY <2>3, <2>4, <2>5, <2>6
<1>7. PICK g : g = s \o t
    OBVIOUS
<1>8. /\ g \in Seq(S) /\ Len(g) = n - 1
      /\ \A k \in 1 .. n - 1 : g[k] = IF k <= i - 1 THEN s[k] ELSE t[k - (i - 1)]
  <2>1. /\ s \o t \in Seq(S) /\ Len(s \o t) = Len(s) + Len(t)
        /\ \A k \in 1 .. Len(s) + Len(t) : (s \o t)[k] = IF k <= Len(s) THEN s[k] ELSE t[k - Len(s)]
    BY <1>5, <1>6, ConcatProperties
  <2>2. Len(s) = i - 1 /\ Len(s) + Len(t) = n - 1
    BY <1>1, <1>5, <1>6
  <2> QED BY <1>7, <2>1, <2>2
<1>9. ASSUME NEW k \in 1 .. n - 1 PROVE g[k] = IF k < i THEN f[k] ELSE f[k + 1]
  <2>1. CASE k < i
    <3>1. k <= i - 1 /\ k \in 1 .. i - 1
      BY <1>1, <2>1
    <3> QED BY <1>5, <1>8, <2>1, <3>1
  <2>2. CASE ~(k < i)
    <3>1. ~(k <= i - 1) /\ k - (i - 1) \in 1 .. n - i /\ i + (k - (i - 1)) = k + 1
      BY <1>1, <2>2
    <3> QED BY <1>6, <1>8, <2>2, <3>1
  <2> QED BY <2>1, <2>2
<1>10. g = [k \in 1 .. n - 1 |-> g[k]] /\ n - 1 \in Nat
    BY <1>8, LenProperties
<1> QED BY <1>1, <1>4, <1>7, <1>8, <1>9, <1>10 DEF SequenceOK

\* A fetch is sent: its answer counts from now on.
LEMMA Asked ==
    ASSUME NEW f, NEW w, QueueOK(f)
    PROVE  LET g == Append(f, [what |-> w, answer |-> NotServed, late |-> FALSE]) IN
           /\ QueueOK(g) /\ \A x : LateAreFirst(f, x) => LateAreFirst(g, x)
           /\ \A v, s : Current(g, w, v, s)
           /\ \A x, v, s : x # w /\ Current(f, x, v, s) => Current(g, x, v, s)
           /\ \A P : w \in P /\ Kinds(f, P) => Kinds(g, P)
<1>1. PICK c : c = [what |-> w, answer |-> NotServed, late |-> FALSE]
    OBVIOUS
<1>2. /\ c = [what |-> c.what, answer |-> c.answer, late |-> c.late]
      /\ c.what = w /\ c.answer = NotServed /\ ~c.late /\ c.late \in BOOLEAN
    BY <1>1
<1>3. PICK n \in Nat : n = Len(f)
    BY DEF QueueOK, SequenceOK
<1>4. PICK g : g = Append(f, c)
    OBVIOUS
<1>5. SequenceOK(g) /\ Len(g) = n + 1 /\ g[n + 1] = c /\ \A k \in 1 .. n : g[k] = f[k]
    BY <1>3, <1>4, Appended DEF QueueOK
<1>6. ASSUME NEW k \in 1 .. n + 1, k \notin 1 .. n PROVE k = n + 1
    BY <1>3, <1>6
<1>7. QueueOK(g)
    BY <1>2, <1>3, <1>5, <1>6 DEF QueueOK
<1>8. ASSUME NEW x, LateAreFirst(f, x) PROVE LateAreFirst(g, x)
  <2> SUFFICES ASSUME NEW j \in 1 .. n + 1, NEW k \in 1 .. n + 1,
                      g[j].what = x, g[k].what = x, g[k].late, j < k
               PROVE  g[j].late
    BY <1>5 DEF LateAreFirst
  <2>1. k \in 1 .. n
    BY <1>2, <1>5, <1>6
  <2>2. j \in 1 .. n
    BY <1>3, <2>1
  <2> QED BY <1>3, <1>5, <1>8, <2>1, <2>2 DEF LateAreFirst
<1>9. ASSUME NEW v, NEW s PROVE Current(g, w, v, s)
  <2>1. n + 1 \in 1 .. n + 1 /\ \A k \in 1 .. n : n + 1 > k
    BY <1>3
  <2>2. ASSUME NEW k \in 1 .. n + 1, Youngest(g, w, k) PROVE g[k].answer \in {NotServed, v}
    <3>1. k = n + 1
      BY <1>2, <1>5, <1>6, <2>1, <2>2 DEF Youngest
    <3> QED BY <1>2, <1>5, <3>1
  <2> QED BY <1>2, <1>5, <2>1, <2>2 DEF Current
<1>10. ASSUME NEW x, NEW v, NEW s, x # w, Current(f, x, v, s) PROVE Current(g, x, v, s)
  <2>0. \A k \in 1 .. n : k \in 1 .. n + 1
    BY <1>3
  <2>1. ASSUME NEW k \in 1 .. n + 1, Youngest(g, x, k), ~g[k].late PROVE g[k].answer \in {NotServed, v}
    <3>1. k \in 1 .. n
      BY <1>2, <1>5, <1>6, <1>10, <2>1 DEF Youngest
    <3>2. Youngest(f, x, k)
      BY <1>3, <1>5, <2>0, <2>1, <3>1 DEF Youngest
    <3> QED BY <1>3, <1>5, <1>10, <2>1, <3>1, <3>2 DEF Current
  <2>2. ASSUME \A k \in 1 .. n + 1 : g[k].what = x => g[k].late PROVE s = v
    <3>1. \A k \in 1 .. n : f[k].what = x => f[k].late
      BY <1>5, <2>0, <2>2
    <3> QED BY <1>3, <1>10, <3>1 DEF Current
  <2> QED BY <1>5, <2>1, <2>2 DEF Current
<1>11. \A P : w \in P /\ Kinds(f, P) => Kinds(g, P)
    BY <1>2, <1>3, <1>5, <1>6 DEF Kinds
<1> QED BY <1>1, <1>4, <1>7, <1>8, <1>9, <1>10, <1>11

\* A fetch is served.
LEMMA Served ==
    ASSUME NEW f, QueueOK(f), NEW i \in 1 .. Len(f), NEW a
    PROVE  LET g == [f EXCEPT ![i].answer = a] IN
           /\ QueueOK(g) /\ \A x : LateAreFirst(f, x) => LateAreFirst(g, x)
           /\ \A x, v, s : Current(f, x, v, s) /\ (f[i].what = x => v = a) => Current(g, x, v, s)
           /\ \A P : Kinds(f, P) => Kinds(g, P)
<1>1. PICK n \in Nat : n = Len(f) /\ f = [k \in 1 .. n |-> f[k]] /\ i \in 1 .. n
    BY DEF QueueOK, SequenceOK
<1>2. PICK c : c = [f[i] EXCEPT !.answer = a]
    OBVIOUS
<1>3. /\ c = [what |-> c.what, answer |-> c.answer, late |-> c.late]
      /\ c.what = f[i].what /\ c.answer = a /\ c.late = f[i].late
  <2>1. PICK p : p = f[i] /\ p = [what |-> p.what, answer |-> p.answer, late |-> p.late]
    BY <1>1 DEF QueueOK
  <2> QED BY <1>2, <2>1
<1>4. PICK g : g = [f EXCEPT ![i].answer = a]
    OBVIOUS
<1>5. g = [f EXCEPT ![i] = c]
    BY <1>2, <1>4
<1>6. g = [k \in 1 .. n |-> IF k = i THEN c ELSE f[k]]
    BY <1>1, <1>5
<1>7. g = [k \in 1 .. n |-> g[k]] /\ \A k \in 1 .. n : g[k] = IF k = i THEN c ELSE f[k]
    BY <1>6
<1>8. Len(g) = n
    BY <1>7, QueueLength
<1>9. QueueOK(g)
    BY <1>1, <1>3, <1>7, <1>8 DEF QueueOK, SequenceOK
<1>10. \A k \in 1 .. n : g[k].what = f[k].what /\ g[k].late = f[k].late
    BY <1>3, <1>7
<1>11. \A x : LateAreFirst(f, x) => LateAreFirst(g, x)
    BY <1>1, <1>8, <1>10 DEF LateAreFirst
<1>12. ASSUME NEW x, NEW v, NEW s, Current(f, x, v, s), f[i].what = x => v = a PROVE Current(g, x, v, s)
  <2>1. ASSUME NEW k \in 1 .. n, Youngest(g, x, k), ~g[k].late PROVE g[k].answer \in {NotServed, v}
    <3>1. Youngest(f, x, k)
      BY <1>1, <1>8, <1>10, <2>1 DEF Youngest
    <3>2. f[k].answer \in {NotServed, v}
      BY <1>1, <1>10, <1>12, <2>1, <3>1 DEF Current
    <3>3. CASE k = i
      BY <1>3, <1>7, <1>12, <3>1, <3>3 DEF Youngest
    <3>4. CASE k # i
      BY <1>7, <3>2, <3>4
    <3> QED BY <3>3, <3>4
  <2> QED BY <1>1, <1>8, <1>10, <1>12, <2>1 DEF Current
<1>13. \A P : Kinds(f, P) => Kinds(g, P)
    BY <1>1, <1>8, <1>10 DEF Kinds
<1> QED BY <1>4, <1>9, <1>11, <1>12, <1>13

\* A fetch fails.
LEMMA Failed ==
    ASSUME NEW f, QueueOK(f), NEW i \in 1 .. Len(f)
    PROVE  LET g == SubSeq(f, 1, i - 1) \o SubSeq(f, i + 1, Len(f)) IN
           /\ QueueOK(g) /\ \A x : LateAreFirst(f, x) => LateAreFirst(g, x)
           /\ \A P : Kinds(f, P) => Kinds(g, P)
<1>1. PICK n \in Nat : n = Len(f) /\ i \in 1 .. n
    BY DEF QueueOK, SequenceOK
<1>2. PICK g : g = SubSeq(f, 1, i - 1) \o SubSeq(f, i + 1, Len(f))
    OBVIOUS
<1>3. /\ SequenceOK(g) /\ Len(g) = n - 1
      /\ \A k \in 1 .. n - 1 : g[k] = IF k < i THEN f[k] ELSE f[k + 1]
    BY <1>1, <1>2, Removed DEF QueueOK
<1>4. \A k \in 1 .. n - 1 : k \in 1 .. n /\ k + 1 \in 1 .. n
    BY <1>1
<1>5. QueueOK(g)
    BY <1>1, <1>3, <1>4 DEF QueueOK
<1>6. ASSUME NEW x, LateAreFirst(f, x) PROVE LateAreFirst(g, x)
  <2> SUFFICES ASSUME NEW j \in 1 .. n - 1, NEW k \in 1 .. n - 1,
                      g[j].what = x, g[k].what = x, g[k].late, j < k
               PROVE  g[j].late
    BY <1>3 DEF LateAreFirst
  <2>1. PICK a \in 1 .. n : g[j] = f[a] /\ a = IF j < i THEN j ELSE j + 1
    BY <1>3, <1>4
  <2>2. PICK b \in 1 .. n : g[k] = f[b] /\ b = IF k < i THEN k ELSE k + 1
    BY <1>3, <1>4
  <2>3. a < b
    BY <1>1, <2>1, <2>2
  <2> QED BY <1>1, <1>6, <2>1, <2>2, <2>3 DEF LateAreFirst
<1>7. \A P : Kinds(f, P) => Kinds(g, P)
    BY <1>1, <1>3, <1>4 DEF Kinds
<1> QED BY <1>2, <1>5, <1>6, <1>7

\* An answer arrives: it is what the page shows, and older fetches of its kind are
\* late from now on.
LEMMA Arrived ==
    ASSUME NEW f, QueueOK(f), NEW i \in 1 .. Len(f)
    PROVE  LET g == [k \in 1 .. Len(f) - 1 |-> IF k < i THEN [f[k] EXCEPT !.late = @ \/ f[k].what = f[i].what]
                                                       ELSE f[k + 1]] IN
           /\ QueueOK(g) /\ \A x : LateAreFirst(f, x) => LateAreFirst(g, x)
           /\ \A x, v, s : x # f[i].what /\ LateAreFirst(f, x) /\ Current(f, x, v, s) => Current(g, x, v, s)
           /\ ~f[i].late /\ f[i].answer # NotServed /\ LateAreFirst(f, f[i].what)
                => \A v, s : Current(f, f[i].what, v, s) => Current(g, f[i].what, v, f[i].answer)
           /\ \A P : Kinds(f, P) => Kinds(g, P)
<1>1. PICK n \in Nat : n = Len(f) /\ i \in 1 .. n
    BY DEF QueueOK, SequenceOK
<1>2. PICK w : w = f[i].what
    OBVIOUS
<1>3. PICK g : g = [k \in 1 .. n - 1 |-> IF k < i THEN [f[k] EXCEPT !.late = @ \/ f[k].what = w] ELSE f[k + 1]]
    OBVIOUS
<1>4. /\ n - 1 \in Nat /\ g = [k \in 1 .. n - 1 |-> g[k]]
      /\ \A k \in 1 .. n - 1 : g[k] = IF k < i THEN [f[k] EXCEPT !.late = f[k].late \/ f[k].what = w] ELSE f[k + 1]
    BY <1>1, <1>3
<1>5. Len(g) = n - 1
    BY <1>4, QueueLength
<1>6. \A k \in 1 .. n - 1 : k \in 1 .. n /\ k + 1 \in 1 .. n
    BY <1>1
<1>7. ASSUME NEW k \in 1 .. n - 1, k < i
      PROVE  /\ g[k] = [what |-> g[k].what, answer |-> g[k].answer, late |-> g[k].late] /\ g[k].late \in BOOLEAN
             /\ g[k].what = f[k].what /\ g[k].answer = f[k].answer /\ (g[k].late <=> f[k].late \/ f[k].what = w)
  <2>1. PICK p : p = f[k] /\ p = [what |-> p.what, answer |-> p.answer, late |-> p.late]
    BY <1>1, <1>6 DEF QueueOK
  <2>2. PICK l \in BOOLEAN : l <=> f[k].late \/ f[k].what = w
    OBVIOUS
  <2>3. (f[k].late \/ f[k].what = w) = l
    BY <2>2
  <2>4. g[k] = [p EXCEPT !.late = l]
    BY <1>4, <1>7, <2>1, <2>3
  <2>5. g[k] = [what |-> p.what, answer |-> p.answer, late |-> l]
    BY <2>1, <2>4
  <2>6. g[k].what = p.what /\ g[k].answer = p.answer /\ g[k].late = l
    BY <2>5
  <2>7. g[k] = [what |-> g[k].what, answer |-> g[k].answer, late |-> g[k].late]
    BY <2>5, <2>6
  <2>8. PICK m : m = g[k].late
    OBVIOUS
  <2> QED BY <2>1, <2>2, <2>6, <2>7, <2>8
<1>8. \A k \in 1 .. n - 1 : ~(k < i) => g[k] = f[k + 1]
    BY <1>4
<1>9. QueueOK(g)
  <2> SUFFICES ASSUME NEW k \in 1 .. n - 1, ~(k < i)
               PROVE  /\ g[k] = [what |-> g[k].what, answer |-> g[k].answer, late |-> g[k].late]
                      /\ g[k].late \in BOOLEAN
    BY <1>4, <1>5, <1>7 DEF QueueOK, SequenceOK
  <2> QED BY <1>1, <1>6, <1>8 DEF QueueOK
\* What the younger fetches of a kind are is not changed.
<1>10. ASSUME NEW k \in 1 .. n - 1
       PROVE  \E a \in 1 .. n : /\ a = IF k < i THEN k ELSE k + 1
                                /\ g[k].what = f[a].what /\ g[k].answer = f[a].answer
                                /\ (g[k].late <=> f[a].late \/ (k < i /\ f[a].what = w))
    BY <1>6, <1>7, <1>8
<1>11. ASSUME NEW x, LateAreFirst(f, x) PROVE LateAreFirst(g, x)
  <2> SUFFICES ASSUME NEW j \in 1 .. n - 1, NEW k \in 1 .. n - 1,
                      g[j].what = x, g[k].what = x, g[k].late, j < k
               PROVE  g[j].late
    BY <1>5 DEF LateAreFirst
  <2>1. PICK a \in 1 .. n : /\ a = IF j < i THEN j ELSE j + 1
                            /\ g[j].what = f[a].what /\ (g[j].late <=> f[a].late \/ (j < i /\ f[a].what = w))
    BY <1>10
  <2>2. PICK b \in 1 .. n : /\ b = IF k < i THEN k ELSE k + 1
                            /\ g[k].what = f[b].what /\ (g[k].late <=> f[b].late \/ (k < i /\ f[b].what = w))
    BY <1>10
  <2>3. a < b /\ (k < i => j < i)
    BY <1>1, <2>1, <2>2
  <2>4. f[b].late => f[a].late
    BY <1>1, <1>11, <2>1, <2>2, <2>3 DEF LateAreFirst
  <2> QED BY <2>1, <2>2, <2>3, <2>4
<1>12. ASSUME NEW x, x # w, NEW v, NEW s, LateAreFirst(f, x), Current(f, x, v, s) PROVE Current(g, x, v, s)
  <2>1. ASSUME NEW b \in 1 .. n, f[b].what = x
        PROVE  \E k \in 1 .. n - 1 : b = IF k < i THEN k ELSE k + 1
    <3>1. b # i
      BY <1>2, <1>12, <2>1
    <3>2. CASE b < i
      <4>1. b \in 1 .. n - 1
        BY <1>1, <3>2
      <4> QED BY <3>2, <4>1
    <3>3. CASE b > i
      <4>1. b - 1 \in 1 .. n - 1 /\ ~(b - 1 < i) /\ (b - 1) + 1 = b
        BY <1>1, <3>3
      <4> QED BY <4>1
    <3> QED BY <1>1, <3>1, <3>2, <3>3
  <2>2. ASSUME NEW k \in 1 .. n - 1, Youngest(g, x, k), ~g[k].late PROVE g[k].answer \in {NotServed, v}
    <3>1. PICK a \in 1 .. n : /\ a = IF k < i THEN k ELSE k + 1
                              /\ g[k].what = f[a].what /\ g[k].answer = f[a].answer
                              /\ (g[k].late <=> f[a].late \/ (k < i /\ f[a].what = w))
      BY <1>10
    <3>2. Youngest(f, x, a)
      <4> SUFFICES ASSUME NEW b \in 1 .. n, b > a, f[b].what = x PROVE FALSE
        BY <1>1, <2>2, <3>1 DEF Youngest
      <4>1. PICK m \in 1 .. n - 1 : b = IF m < i THEN m ELSE m + 1
        BY <2>1
      <4>2. m > k
        BY <1>1, <3>1, <4>1
      <4>3. g[m].what = x
        BY <1>10, <4>1
      <4> QED BY <1>5, <2>2, <4>2, <4>3 DEF Youngest
    <3> QED BY <1>1, <1>12, <2>2, <3>1, <3>2 DEF Current
  <2>3. ASSUME \A k \in 1 .. n - 1 : g[k].what = x => g[k].late PROVE s = v
    <3>1. ASSUME NEW b \in 1 .. n, f[b].what = x PROVE f[b].late
      <4>1. PICK m \in 1 .. n - 1 : b = IF m < i THEN m ELSE m + 1
        BY <2>1, <3>1
      <4>2. PICK a \in 1 .. n : /\ a = IF m < i THEN m ELSE m + 1
                                /\ g[m].what = f[a].what
                                /\ (g[m].late <=> f[a].late \/ (m < i /\ f[a].what = w))
        BY <1>10
      <4> QED BY <1>12, <2>3, <3>1, <4>1, <4>2
    <3> QED BY <1>1, <1>12, <3>1 DEF Current
  <2> QED BY <1>5, <2>2, <2>3 DEF Current
<1>13. ASSUME ~f[i].late, f[i].answer # NotServed, LateAreFirst(f, w), NEW v, NEW s, Current(f, w, v, s)
       PROVE  Current(g, w, v, f[i].answer)
  <2>1. ASSUME NEW k \in 1 .. n - 1, Youngest(g, w, k), ~g[k].late PROVE g[k].answer \in {NotServed, v}
    <3>1. ~(k < i)
      BY <1>7, <2>1 DEF Youngest
    <3>2. g[k] = f[k + 1] /\ k + 1 \in 1 .. n
      BY <1>6, <1>8, <3>1
    <3>3. Youngest(f, w, k + 1)
      <4> SUFFICES ASSUME NEW b \in 1 .. n, b > k + 1, f[b].what = w PROVE FALSE
        BY <1>1, <2>1, <3>2 DEF Youngest
      <4>1. b - 1 \in 1 .. n - 1 /\ ~(b - 1 < i) /\ b - 1 > k /\ (b - 1) + 1 = b
        BY <1>1, <3>1
      <4>2. g[b - 1].what = w
        BY <1>8, <4>1
      <4> QED BY <1>5, <2>1, <4>1, <4>2 DEF Youngest
    <3> QED BY <1>1, <1>13, <2>1, <3>2, <3>3 DEF Current
  <2>2. ASSUME \A k \in 1 .. n - 1 : g[k].what = w => g[k].late PROVE f[i].answer = v
    <3>1. Youngest(f, w, i)
      <4> SUFFICES ASSUME NEW b \in 1 .. n, b > i, f[b].what = w PROVE FALSE
        BY <1>1, <1>2 DEF Youngest
      <4>1. b - 1 \in 1 .. n - 1 /\ ~(b - 1 < i) /\ (b - 1) + 1 = b
        BY <1>1
      <4>2. f[b].late
        BY <1>8, <2>2, <4>1
      <4> QED BY <1>1, <1>2, <1>13, <4>2 DEF LateAreFirst
    <3> QED BY <1>1, <1>13, <3>1 DEF Current
  <2> QED BY <1>5, <2>1, <2>2 DEF Current
<1>14. \A P : Kinds(f, P) => Kinds(g, P)
    BY <1>1, <1>5, <1>10 DEF Kinds
<1> QED BY <1>1, <1>2, <1>3, <1>9, <1>11, <1>12, <1>13, <1>14

\* The page is loaded: one fetch, or one of each of two kinds, is sent.
LEMMA AskedFirst ==
    ASSUME NEW w
    PROVE  LET g == <<[what |-> w, answer |-> NotServed, late |-> FALSE]>> IN
           QueueOK(g) /\ \A x : LateAreFirst(g, x) /\ \A v, s : Current(g, w, v, s)
<1>1. PICK c : c = [what |-> w, answer |-> NotServed, late |-> FALSE]
    OBVIOUS
<1>2. QueueOK(<<>>) /\ \A x : LateAreFirst(<<>>, x)
  <2>1. Len(<<>>) = 0 /\ <<>> = [k \in 1 .. 0 |-> <<>>[k]] /\ 1 .. 0 = {}
    OBVIOUS
  <2> QED BY <2>1 DEF QueueOK, SequenceOK, LateAreFirst
<1>3. Append(<<>>, c) = <<c>>
    OBVIOUS
<1>4. PICK f : f = <<>>
    OBVIOUS
<1>5. PICK g : g = Append(f, c)
    OBVIOUS
<1>6. QueueOK(g) /\ (\A x : LateAreFirst(g, x)) /\ \A v, s : Current(g, w, v, s)
    BY <1>1, <1>2, <1>4, <1>5, Asked
<1> QED BY <1>1, <1>3, <1>4, <1>5, <1>6

LEMMA AskedBoth ==
    ASSUME NEW w, NEW y, w # y
    PROVE  LET g == <<[what |-> w, answer |-> NotServed, late |-> FALSE],
                      [what |-> y, answer |-> NotServed, late |-> FALSE]>> IN
           /\ QueueOK(g) /\ Kinds(g, {w, y}) /\ \A x : LateAreFirst(g, x)
           /\ \A v, s : Current(g, w, v, s) /\ Current(g, y, v, s)
<1>1. PICK c, d : c = [what |-> w, answer |-> NotServed, late |-> FALSE]
                  /\ d = [what |-> y, answer |-> NotServed, late |-> FALSE]
    OBVIOUS
<1>2. QueueOK(<<c>>) /\ \A x : LateAreFirst(<<c>>, x) /\ \A v, s : Current(<<c>>, w, v, s)
    BY <1>1, AskedFirst
<1>0. Kinds(<<c>>, {w, y})
    BY <1>1 DEF Kinds
<1>3. /\ QueueOK(Append(<<c>>, d)) /\ \A x : LateAreFirst(Append(<<c>>, d), x)
      /\ \A v, s : Current(Append(<<c>>, d), y, v, s)
      /\ \A v, s : Current(Append(<<c>>, d), w, v, s)
      /\ Kinds(Append(<<c>>, d), {w, y})
    BY <1>0, <1>1, <1>2, Asked
<1>4. Append(<<c>>, d) = <<c, d>>
    BY Pair
<1> QED BY <1>1, <1>3, <1>4

\* What the page shows of a kind may be said in other words.
LEMMA ShownAs ==
    ASSUME NEW f, NEW w, NEW v, NEW s, NEW t, Current(f, w, v, s), s = v => t = v
    PROVE  Current(f, w, v, t)
BY DEF Current

LEMMA FrontAndLast ==
    ASSUME NEW f, SequenceOK(f), f # <<>>
    PROVE  SubSeq(f, 1, Len(f) - 1) \o <<f[Len(f)]>> = f
<1>1. PICK n \in Nat : n = Len(f) /\ f = [k \in 1 .. n |-> f[k]] /\ n >= 1
  <2>1. PICK n \in Nat : n = Len(f) /\ f = [k \in 1 .. n |-> f[k]]
    BY DEF SequenceOK
  <2>2. n # 0
    <3> SUFFICES ASSUME n = 0 PROVE FALSE
      OBVIOUS
    <3>1. f = [k \in {} |-> f[k]]
      BY <2>1
    <3> QED BY <3>1
  <2> QED BY <2>1, <2>2
<1>2. PICK S : S = {f[k] : k \in 1 .. n}
    OBVIOUS
<1>3. \A k \in 1 .. n : f[k] \in S
    BY <1>2
<1>4. PICK m \in Nat : m = n - 1
    BY <1>1
<1>12. PICK s : s = SubSeq(f, 1, m)
    OBVIOUS
<1>5. s \in Seq(S) /\ Len(s) = m /\ \A k \in 1 .. m : s[k] = f[k]
  <2>1. \A k \in 1 .. m : f[k] \in S
    <3> SUFFICES ASSUME NEW k \in 1 .. m PROVE k \in 1 .. n
      BY <1>3
    <3> QED BY <1>1, <1>4
  <2>2. /\ SubSeq(f, 1, m) \in Seq(S)
        /\ Len(SubSeq(f, 1, m)) = IF 1 <= m THEN m - 1 + 1 ELSE 0
        /\ \A k \in 1 .. m - 1 + 1 : SubSeq(f, 1, m)[k] = f[1 + k - 1]
    BY <2>1, SubSeqProperties
  <2>3. ASSUME NEW k \in 1 .. m PROVE s[k] = f[k]
    <3>1. k \in 1 .. m - 1 + 1 /\ 1 + k - 1 = k
      OBVIOUS
    <3> QED BY <1>12, <2>2, <3>1
  <2>4. Len(s) = m
    BY <1>12, <2>2
  <2> QED BY <1>12, <2>2, <2>3, <2>4
<1>6. f[n] \in S
  <2>1. n \in 1 .. n
    BY <1>1
  <2> QED BY <1>3, <2>1
<1>7. PICK g : g = Append(s, f[n])
    OBVIOUS
<1>8. /\ g = s \o <<f[n]>> /\ g \in Seq(S) /\ Len(g) = m + 1 /\ g[m + 1] = f[n]
      /\ \A k \in 1 .. m : g[k] = s[k]
    BY <1>5, <1>6, <1>7, AppendProperties, AppendIsConcat
<1>9. g = [k \in 1 .. n |-> g[k]]
  <2>1. m + 1 = n
    BY <1>4
  <2> QED BY <1>8, <2>1, LenProperties
<1>10. ASSUME NEW k \in 1 .. n PROVE g[k] = f[k]
  <2>1. k \in 1 .. m \/ (k = n /\ k = m + 1)
    BY <1>1, <1>4
  <2> QED BY <1>5, <1>8, <2>1
<1>11. g = f
    BY <1>1, <1>9, <1>10
<1> QED BY <1>1, <1>4, <1>8, <1>11, <1>12

-----------------------------------------------------------------------------
(* The page /users.  Its variables are x1 for cert, x2 for url, x5 for       *)
(* table, x6 for calls, x8 for bulk, x9 for form and x11 for torn.          *)

CallsOK ==
    /\ Len(x6) \in Nat /\ x6 = [k \in 1 .. Len(x6) |-> x6[k]]
    /\ \A k \in 1 .. Len(x6) :
         /\ x6[k] = [query |-> x6[k].query, answer |-> x6[k].answer, late |-> x6[k].late]
         /\ x6[k].late \in BOOLEAN
ActionsOK ==
    /\ x8.step = "sent" =>
         /\ x8 = [step |-> "sent", ids |-> x8.ids, left |-> x8.left, success |-> x8.success, query |-> x8.query]
         /\ x8.success \in Nat
    /\ x9.step = "sent" => "step" \in DOMAIN x9

\* A change of the users of which the page has no answer yet.
Owes == (x8.step = "sent" /\ x8.success > 0) \/ x9.step \in {"created", "half"}

\* The answers after which a younger one has arrived are the first of those under
\* way.  The youngest is asked for with the query of the address bar, and as long as
\* it has not arrived its answer is the one that counts; after that the table is.
Settled == \A k \in 1 .. Len(x6) : x6[k].late
LateFirst == \A j, k \in 1 .. Len(x6) : x6[k].late /\ j < k => x6[j].late
Fresh ==
    /\ ~Settled => x6[Len(x6)].query = x2
    /\ ~Settled /\ ~Owes => x6[Len(x6)].answer \in {US!NoAnswer, US!Answer(x2)}
    /\ Settled /\ ~Owes => x5 \in {US!Answer(x2), US!Nothing}
UsersInv == CallsOK /\ ActionsOK /\ LateFirst /\ (~x11 => Fresh)

LEMMA SameAnswer ==
    ASSUME UNCHANGED <<x1, x2>>
    PROVE  US!Answer(x2)' = US!Answer(x2)
BY DEF US!Answer, US!Matching, US!Everything, US!AnyStatus

LEMMA UsersInit == US!Init => UsersInv
<1> SUFFICES ASSUME US!Init PROVE UsersInv
    OBVIOUS
<1>1. PICK c : c = [query |-> x2, answer |-> US!NoAnswer, late |-> FALSE]
    OBVIOUS
<1>2. x6 = <<c>> /\ x8 = [step |-> "idle"] /\ x9 = [step |-> "idle"]
    BY <1>1 DEF US!Init, US!Call, US!Idle
<1>3. Len(x6) = 1 /\ x6 = [k \in 1 .. 1 |-> x6[k]] /\ x6[1] = c
    BY <1>2
<1>4. c = [query |-> c.query, answer |-> c.answer, late |-> c.late] /\ c.query = x2 /\ c.answer = US!NoAnswer /\ ~c.late
      /\ c.late \in BOOLEAN
    BY <1>1
<1>5. x8.step = "idle" /\ x9.step = "idle"
    BY <1>2
<1>6. CallsOK /\ ActionsOK
    BY <1>3, <1>4, <1>5 DEF CallsOK, ActionsOK
<1> QED BY <1>3, <1>4, <1>5, <1>6 DEF UsersInv, LateFirst, Fresh, Settled

\* The table and its fetches stay, and so does what the page owes to the users.
LEMMA TableStays ==
    ASSUME UsersInv, ActionsOK', UNCHANGED <<x1, x2, x5, x6>>, (~x11' => ~x11 /\ (Owes => Owes'))
    PROVE  UsersInv'
<1>1. US!Answer(x2)' = US!Answer(x2)
    BY SameAnswer
<1> QED BY <1>1 DEF UsersInv, CallsOK, LateFirst, Fresh, Settled

\* The table is fetched: the answer counts if it is for the query of the address bar.
LEMMA TableAsked ==
    ASSUME UsersInv, UNCHANGED <<x5>>, NEW q, x6' = Append(x6, US!Call(q))
    PROVE  CallsOK' /\ LateFirst' /\ (q = x2' => Fresh')
<1>1. PICK n \in Nat : n = Len(x6) /\ x6 = [k \in 1 .. n |-> x6[k]]
    BY DEF UsersInv, CallsOK
<1>2. PICK c : c = [query |-> q, answer |-> US!NoAnswer, late |-> FALSE]
    OBVIOUS
<1>3. /\ c = [query |-> c.query, answer |-> c.answer, late |-> c.late]
      /\ c.query = q /\ c.answer = US!NoAnswer /\ ~c.late /\ c.late \in BOOLEAN
    BY <1>2
<1>4. x6' = Append(x6, c)
    BY <1>2 DEF US!Call
<1>5. PICK S : S = {x6[k] : k \in 1 .. n} \cup {c}
    OBVIOUS
<1>6. \A k \in 1 .. n : x6[k] \in S
    BY <1>5
<1>7. x6 \in Seq(S) /\ c \in S
  <2>1. [k \in 1 .. n |-> x6[k]] \in Seq(S)
    BY <1>6, IsASeq
  <2> QED BY <1>1, <1>5, <2>1
<1>8. x6' \in Seq(S) /\ Len(x6') = n + 1 /\ x6'[n + 1] = c /\ \A k \in 1 .. n : x6'[k] = x6[k]
    BY <1>1, <1>4, <1>7, AppendProperties
<1>9. x6' = [k \in 1 .. n + 1 |-> x6'[k]]
    BY <1>8, LenProperties
<1>10. ASSUME NEW k \in 1 .. n + 1
       PROVE  /\ x6'[k] = [query |-> x6'[k].query, answer |-> x6'[k].answer, late |-> x6'[k].late]
              /\ x6'[k].late \in BOOLEAN
  <2>1. CASE k = n + 1
    BY <1>3, <1>8, <2>1
  <2>2. CASE k \in 1 .. n
    <3>1. x6'[k] = x6[k]
      BY <1>8, <2>2
    <3> QED BY <1>1, <2>2, <3>1 DEF UsersInv, CallsOK
  <2> QED BY <1>1, <2>1, <2>2
<1>11. LateFirst'
  <2> SUFFICES ASSUME NEW j \in 1 .. n + 1, NEW k \in 1 .. n + 1, x6'[k].late, j < k
               PROVE  x6'[j].late
    BY <1>8 DEF LateFirst
  <2>1. j \in 1 .. n /\ k \in 1 .. n
    BY <1>1, <1>3, <1>8
  <2>2. x6[k].late
    BY <1>8, <2>1
  <2> QED BY <1>1, <1>8, <2>1, <2>2 DEF UsersInv, LateFirst
<1>12. q = x2' => Fresh'
    BY <1>3, <1>8 DEF Fresh, Settled
<1> QED BY <1>8, <1>9, <1>10, <1>11, <1>12 DEF CallsOK

\* The address bar changes, and with it the table is fetched, unless the query is
\* the one it was.
LEMMA UsersGoTo ==
    ASSUME UsersInv, UNCHANGED <<x1, x5, x8, x9, x11>>, NEW q, US!GoTo(q)
    PROVE  UsersInv'
<1>1. x2' = q /\ x6' = IF q # x2 THEN Append(x6, US!Call(q)) ELSE x6
    BY DEF US!GoTo
<1>2. ActionsOK' /\ Owes' = Owes
    BY DEF UsersInv, ActionsOK, Owes
<1>3. CASE q # x2
    BY <1>1, <1>2, <1>3, TableAsked DEF UsersInv
<1>4. CASE q = x2
    BY <1>1, <1>2, <1>4, TableStays
<1> QED BY <1>3, <1>4

\* A change has worked, and the table is fetched with the query it began with.
LEMMA UsersRefetch ==
    ASSUME UsersInv, ActionsOK', UNCHANGED <<x2, x5>>, NEW q, US!Refetch(q)
    PROVE  UsersInv'
<1>1. x6' = Append(x6, US!Call(q)) /\ x11' = (x11 \/ q # x2)
    BY DEF US!Refetch
<1> QED BY <1>1, TableAsked DEF UsersInv

\* One of the calls is served.
LEMMA UsersServe ==
    ASSUME UsersInv, NEW i \in DOMAIN x6, US!Serve(i)
    PROVE  UsersInv'
<1>1. PICK n \in Nat : n = Len(x6) /\ x6 = [k \in 1 .. n |-> x6[k]] /\ i \in 1 .. n
    BY DEF UsersInv, CallsOK
<1>2. PICK c : c = [x6[i] EXCEPT !.answer = US!Answer(x6[i].query)]
    OBVIOUS
<1>3. /\ c = [query |-> c.query, answer |-> c.answer, late |-> c.late]
      /\ c.query = x6[i].query /\ c.answer = US!Answer(x6[i].query) /\ c.late = x6[i].late
  <2>1. PICK p : p = x6[i] /\ p = [query |-> p.query, answer |-> p.answer, late |-> p.late]
    BY <1>1 DEF UsersInv, CallsOK
  <2> QED BY <1>2, <2>1
<1>4. x6' = [x6 EXCEPT ![i] = c] /\ UNCHANGED <<x1, x2, x5, x8, x9, x11>>
    BY <1>2 DEF US!Serve
<1>5. x6' = [k \in 1 .. n |-> IF k = i THEN c ELSE x6[k]]
    BY <1>1, <1>4
<1>6. x6' = [k \in 1 .. n |-> x6'[k]] /\ \A k \in 1 .. n : x6'[k] = IF k = i THEN c ELSE x6[k]
    BY <1>5
<1>7. Len(x6') = n
    BY <1>6, QueueLength
<1>8. CallsOK' /\ ActionsOK' /\ (Owes' = Owes)
    BY <1>1, <1>3, <1>4, <1>6, <1>7 DEF UsersInv, CallsOK, ActionsOK, Owes
<1>9. \A k \in 1 .. n : x6'[k].late = x6[k].late /\ x6'[k].query = x6[k].query
    BY <1>3, <1>6
<1>10. LateFirst' /\ Settled' = Settled
    BY <1>1, <1>7, <1>9 DEF UsersInv, LateFirst, Settled
<1>11. US!Answer(x2)' = US!Answer(x2)
    BY <1>4, SameAnswer
<1>12. ~x11 => Fresh'
  <2> SUFFICES ASSUME ~x11 PROVE Fresh'
    OBVIOUS
  <2>1. CASE Settled
    BY <1>4, <1>8, <1>10, <1>11, <2>1 DEF UsersInv, Fresh
  <2>2. CASE ~Settled
    <3>1. n \in 1 .. n /\ x6[n].query = x2
      BY <1>1, <2>2, SMTT(30) DEF UsersInv, Fresh, Settled
    <3>2. ~Owes => x6'[n].answer \in {US!NoAnswer, US!Answer(x2)}
      BY <1>1, <1>3, <1>6, <2>2, <3>1 DEF UsersInv, Fresh
    <3> QED BY <1>4, <1>7, <1>8, <1>9, <1>10, <1>11, <2>2, <3>1, <3>2 DEF Fresh
  <2> QED BY <2>1, <2>2
<1> QED BY <1>4, <1>8, <1>10, <1>12 DEF UsersInv

\* An answer arrives.
LEMMA UsersArrive ==
    ASSUME UsersInv, NEW i \in DOMAIN x6, US!Arrive(i)
    PROVE  UsersInv'
<1>1. PICK n \in Nat : n = Len(x6) /\ x6 = [k \in 1 .. n |-> x6[k]] /\ i \in 1 .. n
    BY DEF UsersInv, CallsOK
<1>2. /\ x6' = [k \in 1 .. n - 1 |-> IF k < i THEN [x6[k] EXCEPT !.late = TRUE] ELSE x6[k + 1]]
      /\ x11' = (x11 \/ x6[i].late) /\ UNCHANGED <<x1, x2, x8, x9>>
      /\ (x6[i].answer # US!NoAnswer /\ x5' = x6[i].answer) \/ x5' = US!Nothing
    BY <1>1 DEF US!Arrive
<1>3. n - 1 \in Nat /\ x6' = [k \in 1 .. n - 1 |-> x6'[k]]
    BY <1>1, <1>2
<1>4. Len(x6') = n - 1
    BY <1>3, QueueLength
<1>5. ASSUME NEW k \in 1 .. n - 1
      PROVE  /\ x6'[k] = [query |-> x6'[k].query, answer |-> x6'[k].answer, late |-> x6'[k].late]
             /\ (x6'[k].late <=> k < i \/ x6[k + 1].late) /\ x6'[k].late \in BOOLEAN
             /\ k >= i => x6'[k] = x6[k + 1]
  <2>0. k \in 1 .. n /\ k + 1 \in 1 .. n /\ k \in Int /\ i \in Int
    BY <1>1
  <2>1. CASE k < i
    <3>1. PICK p : p = x6[k] /\ p = [query |-> p.query, answer |-> p.answer, late |-> p.late]
      BY <1>1, <2>0 DEF UsersInv, CallsOK
    <3>2. x6'[k] = [p EXCEPT !.late = TRUE]
      BY <1>2, <2>1, <3>1
    <3>3. x6'[k] = [query |-> p.query, answer |-> p.answer, late |-> TRUE]
      BY <3>1, <3>2
    <3>4. x6'[k].late = TRUE /\ x6'[k] = [query |-> x6'[k].query, answer |-> x6'[k].answer, late |-> x6'[k].late]
      BY <3>3
    <3>5. x6'[k].late /\ x6'[k].late \in BOOLEAN
      <4>1. PICK l : l = x6'[k].late
        OBVIOUS
      <4> QED BY <3>4, <4>1
    <3>6. ~(k >= i)
      BY <2>0, <2>1
    <3> QED BY <2>1, <3>4, <3>5, <3>6
  <2>2. CASE ~(k < i)
    <3>1. x6'[k] = x6[k + 1]
      BY <1>2, <2>2
    <3>2. x6[k + 1].late \in BOOLEAN
      BY <1>1, <2>0 DEF UsersInv, CallsOK
    <3>3. x6'[k] = [query |-> x6'[k].query, answer |-> x6'[k].answer, late |-> x6'[k].late]
      BY <1>1, <2>0, <3>1 DEF UsersInv, CallsOK
    <3> QED BY <2>2, <3>1, <3>2, <3>3
  <2> QED BY <2>1, <2>2
<1>6. CallsOK' /\ ActionsOK' /\ Owes' = Owes
    BY <1>2, <1>3, <1>4, <1>5, ZenonT(30) DEF UsersInv, CallsOK, ActionsOK, Owes
<1>7. LateFirst'
  <2> SUFFICES ASSUME NEW j \in 1 .. n - 1, NEW k \in 1 .. n - 1, x6'[k].late, j < k, ~(j < i)
               PROVE  x6'[j].late
    BY <1>4, <1>5 DEF LateFirst
  <2>1. j + 1 \in 1 .. n /\ k + 1 \in 1 .. n /\ j + 1 < k + 1 /\ ~(k < i)
    BY <1>1
  <2>2. x6[k + 1].late
    BY <1>5, <2>1
  <2>3. x6[j + 1].late
    BY <1>1, <2>1, <2>2 DEF UsersInv, LateFirst
  <2> QED BY <1>5, <2>3
<1>8. US!Answer(x2)' = US!Answer(x2)
    BY <1>2, SameAnswer
<1>9. ~x11' => Fresh'
  <2> SUFFICES ASSUME ~x11, ~x6[i].late PROVE Fresh'
    BY <1>2
  <2>1. ~Settled /\ n \in 1 .. n
    <3>1. ~Settled
      BY <1>1 DEF Settled
    <3> QED BY <1>1, <3>1
  <2>2. ~x6[n].late
    BY <1>1, <2>1 DEF UsersInv, LateFirst
  <2>3. x6[n].query = x2 /\ (~Owes => x6[n].answer \in {US!NoAnswer, US!Answer(x2)})
    BY <1>1, <2>1 DEF UsersInv, Fresh
  <2>4. CASE i = n
    <3>1. Settled'
      <4> SUFFICES ASSUME NEW k \in 1 .. n - 1 PROVE x6'[k].late
        BY <1>4 DEF Settled
      <4>1. k < i
        BY <1>1, <2>4
      <4> QED BY <1>5, <4>1
    <3>2. ~Owes => x5' \in {US!Answer(x2), US!Nothing}
      BY <1>2, <2>3, <2>4
    <3> QED BY <1>2, <1>6, <1>8, <3>1, <3>2 DEF Fresh
  <2>5. CASE i # n
    <3>1. n - 1 \in 1 .. n - 1 /\ n - 1 >= i /\ (n - 1) + 1 = n
      BY <1>1, <2>5
    <3>2. x6'[n - 1] = x6[n]
      BY <1>5, <3>1
    <3>3. ~Settled'
      BY <1>4, <2>2, <3>1, <3>2 DEF Settled
    <3> QED BY <1>2, <1>4, <1>6, <1>8, <2>3, <3>2, <3>3 DEF Fresh
  <2> QED BY <2>4, <2>5
<1> QED BY <1>6, <1>7, <1>9 DEF UsersInv

\* One of the actions on the users goes on.
LEMMA UsersActions ==
    ASSUME UsersInv,
           \/ US!BulkStart \/ US!BulkUser \/ US!BulkAnswered \/ US!BulkLost \/ US!BulkRefused
           \/ US!CreateStart \/ US!Create \/ US!CreateAnswered \/ US!CreateLost
    PROVE  UsersInv'
<1>0. ActionsOK /\ US!Idle.step = "idle"
    BY DEF UsersInv, US!Idle
<1>1. CASE US!BulkStart
  <2>1. PICK b : b = [step |-> "sent", ids |-> x7, left |-> x7, success |-> 0, query |-> x2]
    OBVIOUS
  <2>2. x8' = b /\ x8 = US!Idle /\ UNCHANGED <<x1, x2, x5, x6, x9, x11>>
    BY <1>1, <2>1 DEF US!BulkStart
  <2>3. ActionsOK' /\ Owes' = Owes
    BY <1>0, <2>1, <2>2 DEF ActionsOK, Owes
  <2> QED BY <2>2, <2>3, TableStays
<1>2. CASE US!BulkUser
  <2>0. /\ x8.step = "sent" /\ UNCHANGED <<x2, x5, x6, x9, x11>>
        /\ \E u : \/ x8' = [x8 EXCEPT !.left = @ \ {u}, !.success = @ + 1]
                  \/ x8' = [x8 EXCEPT !.left = @ \ {u}] /\ UNCHANGED x1
    BY <1>2 DEF US!BulkUser
  <2>1. PICK u, b : /\ b = x8
                    /\ \/ x8' = [b EXCEPT !.left = @ \ {u}, !.success = @ + 1]
                       \/ x8' = [b EXCEPT !.left = @ \ {u}] /\ UNCHANGED x1
    BY <2>0
  <2>2. b = [step |-> "sent", ids |-> b.ids, left |-> b.left, success |-> b.success, query |-> b.query]
        /\ b.success \in Nat
    BY <1>0, <2>0, <2>1 DEF ActionsOK
  <2>3. \/ x8' = [step |-> "sent", ids |-> b.ids, left |-> b.left \ {u}, success |-> b.success + 1, query |-> b.query]
        \/ /\ x8' = [step |-> "sent", ids |-> b.ids, left |-> b.left \ {u}, success |-> b.success, query |-> b.query]
           /\ UNCHANGED x1
    <3>1. PICK l : l = b.left \ {u}
      OBVIOUS
    <3>2. PICK c : c = [b EXCEPT !.left = l]
      OBVIOUS
    <3>3. c = [step |-> "sent", ids |-> b.ids, left |-> l, success |-> b.success, query |-> b.query]
      BY <2>2, <3>2
    <3>4. x8' = [c EXCEPT !.success = b.success + 1] \/ (x8' = c /\ UNCHANGED x1)
      BY <2>1, <3>1, <3>2
    <3>5. [c EXCEPT !.success = b.success + 1]
             = [step |-> "sent", ids |-> b.ids, left |-> l, success |-> b.success + 1, query |-> b.query]
      BY <3>3
    <3> QED BY <3>1, <3>3, <3>4, <3>5
  <2>4. ActionsOK'
    BY <1>0, <2>0, <2>2, <2>3 DEF ActionsOK
  <2>5. Owes' \/ (Owes' = Owes /\ UNCHANGED x1)
    BY <2>0, <2>1, <2>2, <2>3 DEF Owes
  <2>6. CASE Owes' = Owes /\ UNCHANGED x1
    BY <2>0, <2>4, <2>6, TableStays
  <2>7. CASE Owes'
    BY <2>0, <2>4, <2>7 DEF UsersInv, CallsOK, LateFirst, Fresh, Settled
  <2> QED BY <2>5, <2>6, <2>7
<1>3. CASE US!BulkAnswered
  <2>1. x8' = US!Idle /\ UNCHANGED <<x1, x2, x5, x9>> /\ x8.step = "sent"
    BY <1>3 DEF US!BulkAnswered
  <2>2. ActionsOK'
    BY <1>0, <2>1 DEF ActionsOK
  <2>3. CASE x8.success > 0
    BY <1>3, <2>1, <2>2, <2>3, UsersRefetch DEF US!BulkAnswered
  <2>4. CASE ~(x8.success > 0)
    <3>1. UNCHANGED <<x6, x11>> /\ Owes' = Owes
      BY <1>0, <1>3, <2>1, <2>4 DEF US!BulkAnswered, Owes
    <3> QED BY <2>1, <2>2, <3>1, TableStays
  <2> QED BY <2>3, <2>4
<1>4. CASE US!BulkLost \/ US!CreateLost
  <2>1. x11' /\ UNCHANGED <<x1, x2, x5, x6>> /\ (x8' = US!Idle \/ x8' = x8) /\ (x9' = US!Idle \/ x9' = x9)
    BY <1>4 DEF US!BulkLost, US!CreateLost
  <2>2. ActionsOK'
    BY <1>0, <2>1 DEF ActionsOK
  <2> QED BY <2>1, <2>2, TableStays
<1>5. CASE US!BulkRefused
  <2>1. UNCHANGED <<x1, x2, x5, x6, x9, x11>> /\ x8' = US!Idle /\ x8.success = 0
    BY <1>5 DEF US!BulkRefused
  <2>2. ActionsOK' /\ Owes' = Owes
    BY <1>0, <2>1 DEF ActionsOK, Owes
  <2> QED BY <2>1, <2>2, TableStays
<1>6. CASE US!CreateStart
  <2>1. PICK f : f = [step |-> "sent", query |-> x2]
    OBVIOUS
  <2>2. x9' = f /\ x9 = US!Idle /\ UNCHANGED <<x1, x2, x5, x6, x8, x11>>
    BY <1>6, <2>1 DEF US!CreateStart
  <2>3. ActionsOK' /\ Owes' = Owes
    BY <1>0, <2>1, <2>2 DEF ActionsOK, Owes
  <2> QED BY <2>2, <2>3, TableStays
<1>7. CASE US!Create
  <2>1. PICK s \in {"created", "half", "refused"} : x9' = [x9 EXCEPT !.step = s] /\ (s = "refused" => UNCHANGED x1)
    BY <1>7 DEF US!Create
  <2>2. x9.step = "sent" /\ UNCHANGED <<x2, x5, x6, x8, x11>>
    BY <1>7 DEF US!Create
  <2>3. x9'.step = s
    BY <1>0, <2>1, <2>2 DEF ActionsOK
  <2>4. ActionsOK'
    BY <1>0, <2>2, <2>3 DEF ActionsOK
  <2>5. CASE s # "refused"
    <3>1. Owes'
      BY <2>3, <2>5 DEF Owes
    <3> QED BY <2>2, <2>4, <3>1 DEF UsersInv, CallsOK, LateFirst, Fresh, Settled
  <2>6. CASE s = "refused"
    <3>1. Owes' = Owes
      BY <2>2, <2>3, <2>6 DEF Owes
    <3> QED BY <2>1, <2>2, <2>4, <2>6, <3>1, TableStays
  <2> QED BY <2>5, <2>6
<1>8. CASE US!CreateAnswered
  <2>1. x9' = US!Idle /\ UNCHANGED <<x1, x2, x5, x8>>
    BY <1>8 DEF US!CreateAnswered
  <2>2. ActionsOK'
    BY <1>0, <2>1 DEF ActionsOK
  <2>3. CASE x9.step = "created"
    BY <1>8, <2>1, <2>2, <2>3, UsersRefetch DEF US!CreateAnswered
  <2>4. CASE x9.step # "created"
    <3>1. UNCHANGED x6 /\ x11' = (x11 \/ x9.step = "half")
      BY <1>8, <2>4 DEF US!CreateAnswered
    <3>2. x9.step # "half" => Owes' = Owes
      BY <1>0, <2>1, <2>4 DEF Owes
    <3>3. ~x11' => ~x11 /\ x9.step # "half"
      BY <3>1
    <3>4. ~x11' => ~x11 /\ (Owes => Owes')
      BY <3>2, <3>3
    <3> QED BY <2>1, <2>2, <3>1, <3>4, TableStays
  <2> QED BY <2>3, <2>4
<1> QED BY <1>1, <1>2, <1>3, <1>4, <1>5, <1>6, <1>7, <1>8

LEMMA UsersStep == UsersInv /\ [US!Next]_(US!vars) => UsersInv'
<1> SUFFICES ASSUME UsersInv, [US!Next]_(US!vars) PROVE UsersInv'
    OBVIOUS
<1>1. CASE US!Type \/ US!Toggle \/ US!ToggleAll \/ US!Clear \/ UNCHANGED US!vars
  <2>1. UNCHANGED <<x1, x2, x5, x6, x8, x9, x11>>
    BY <1>1 DEF US!Type, US!Toggle, US!ToggleAll, US!Clear, US!vars
  <2>2. ActionsOK' /\ Owes' = Owes
    BY <2>1 DEF UsersInv, ActionsOK, Owes
  <2> QED BY <2>1, <2>2, TableStays
<1>2. CASE US!Debounced \/ US!Filter \/ US!SavedView \/ US!Turn
  <2>1. UNCHANGED <<x1, x5, x8, x9, x11>> /\ \E q : US!GoTo(q)
    BY <1>2 DEF US!Debounced, US!Filter, US!SavedView, US!Turn
  <2> QED BY <2>1, UsersGoTo
<1>3. ASSUME NEW i \in DOMAIN x6, US!Serve(i) \/ US!Arrive(i) PROVE UsersInv'
    BY <1>3, UsersServe, UsersArrive
<1> QED BY <1>1, <1>2, <1>3, UsersActions DEF US!Next

LEMMA UsersProperty == UsersInv => US!TableIsAnswer
<1> SUFFICES ASSUME UsersInv, US!Quiet, ~x11 PROVE x5 \in {US!Answer(x2), US!Nothing}
    BY DEF US!TableIsAnswer
<1>1. x6 = <<>> /\ x8.step = "idle" /\ x9.step = "idle"
    BY DEF US!Quiet, US!Idle
<1>2. Settled /\ ~Owes
    BY <1>1 DEF Settled, Owes
<1> QED BY <1>2 DEF UsersInv, Fresh

LEMMA UsersTabStep == (tab = "users" => UsersInv) /\ [PagesNext]_pageVars => (tab = "users" => UsersInv)'
<1> SUFFICES ASSUME tab = "users" => UsersInv, [PagesNext]_pageVars, tab' = "users"
             PROVE  UsersInv'
    OBVIOUS
<1>1. tab' = tab
    BY DEF PagesNext, RequestAccess, Users, OneUser, SyncJobs, ServerNetwork, Accounts, SigningIn, OwnProfile, OneGroup,
           pageVars
<1>2. CASE UNCHANGED pageVars
    BY <1>1, <1>2, UsersStep DEF pageVars, US!vars
<1>3. CASE PagesNext
    BY <1>1, <1>3, UsersStep DEF PagesNext, RequestAccess, Users, OneUser, SyncJobs, ServerNetwork, Accounts, SigningIn,
                                 OwnProfile, OneGroup
<1> QED BY <1>2, <1>3

\* The table of /users is the answer to the query in the address bar as soon as
\* nothing is under way, in whatever order the box, the selects, the bulk action
\* and the form cause fetches, unless an older answer arrived after a younger one,
\* an action fetched for the query it began with, its answer was lost, or a user
\* was created and the answer said otherwise.
THEOREM TableAnswers == PagesSpec => []TableIsAnswer
<1>1. PagesInit => (tab = "users" => UsersInv)
    BY UsersInit DEF PagesInit
<1>2. (tab = "users" => UsersInv) => TableIsAnswer
    BY UsersProperty DEF TableIsAnswer
<1> QED BY <1>1, <1>2, UsersTabStep, PTL DEF PagesSpec

-----------------------------------------------------------------------------
(* The page /groups/[id].  Its variables are x1 for row, x3 for page, x4    *)
(* for fetches, x5 for jobs and x6 for torn.                               *)

GroupOK ==
    /\ QueueOK(x4) /\ LateAreFirst(x4, "group") /\ \A k \in 1 .. Len(x4) : x4[k].what = "group"
    /\ x1 = [text |-> x1.text, blocks |-> x1.blocks]
    /\ x3 = [group |-> x3.group, form |-> x3.form, editing |-> x3.editing, loading |-> x3.loading]
    /\ x3.editing \in BOOLEAN
    /\ x5 = [o \in DOMAIN x5 |-> x5[o]]
    /\ \A o \in DOMAIN x5 : o.kind \in {"add", "remove", "save", "push"}

\* A change of the group after which the page will fetch it.
GroupOwes == \E o \in DOMAIN x5 : o.kind # "push" /\ x5[o] \in {"ok", "half"}
FormShown == (\A k \in 1 .. Len(x4) : x4[k].late) => x3.editing \/ x3.form = x3.group.text
GroupInv == GroupOK /\ (~x6 => FormShown /\ (~GroupOwes => Current(x4, "group", x1, x3.group)))

LEMMA GroupInit == GP!Init => GroupInv
<1> SUFFICES ASSUME GP!Init PROVE GroupInv
    OBVIOUS
<1>1. x4 = <<[what |-> "group", answer |-> NotServed, late |-> FALSE]>>
    BY DEF GP!Init, GP!Fetch, GP!NoAnswer, NotServed
<1>2. QueueOK(x4) /\ LateAreFirst(x4, "group") /\ Current(x4, "group", x1, x3.group)
    BY <1>1, AskedFirst
<1>3. Len(x4) = 1 /\ x4[1].what = "group" /\ x4[1].late = FALSE
    BY <1>1
<1>4. /\ x1 = [text |-> Settings, blocks |-> {}]
      /\ x3 = [group |-> GP!Nobody, form |-> Settings, editing |-> FALSE, loading |-> TRUE]
      /\ x5 = [o \in {} |-> "sent"]
    BY DEF GP!Init
<1>5. GroupOK
    BY <1>2, <1>3, <1>4 DEF GroupOK
<1>6. FormShown
    BY <1>3 DEF FormShown
<1> QED BY <1>2, <1>5, <1>6 DEF GroupInv

\* The group, what is shown of it and the fetches stay.
LEMMA GroupStays ==
    ASSUME GroupInv, UNCHANGED <<x1, x4>>, x3'.group = x3.group, GroupOK',
           ~x6' => ~x6 /\ (GroupOwes => GroupOwes')
                      /\ (x3'.editing \/ x3'.form = x3.group.text \/ UNCHANGED <<x3.editing, x3.form>>)
    PROVE  GroupInv'
<1>1. Current(x4, "group", x1, x3.group)' = Current(x4, "group", x1, x3.group)
    BY DEF Current, Youngest
<1> QED BY <1>1 DEF GroupInv, FormShown

LEMMA GroupEdits ==
    ASSUME GroupInv, GP!Open \/ GP!Type \/ GP!Cancel
    PROVE  GroupInv'
<1>1. PICK p : p = x3 /\ p = [group |-> p.group, form |-> p.form, editing |-> p.editing, loading |-> p.loading]
    BY DEF GroupInv, GroupOK
<1>2. UNCHANGED <<x1, x4, x5, x6>>
    BY DEF GP!Open, GP!Type, GP!Cancel
<1>3. GroupOwes' = GroupOwes
    BY <1>2 DEF GroupOwes
<1>4. CASE GP!Open
  <2>1. x3' = [group |-> p.group, form |-> p.form, editing |-> TRUE, loading |-> p.loading]
    BY <1>1, <1>4 DEF GP!Open
  <2>2. GroupOK'
    BY <1>2, <2>1 DEF GroupInv, GroupOK
  <2> QED BY <1>1, <1>2, <1>3, <2>1, <2>2, GroupStays
<1>5. CASE GP!Type
  <2>1. PICK t : x3' = [p EXCEPT !.form = t] /\ p.editing
    BY <1>1, <1>5 DEF GP!Type
  <2>2. x3' = [group |-> p.group, form |-> t, editing |-> p.editing, loading |-> p.loading]
    BY <1>1, <2>1
  <2>3. GroupOK'
    BY <1>1, <1>2, <2>1, <2>2 DEF GroupInv, GroupOK
  <2> QED BY <1>1, <1>2, <1>3, <2>1, <2>2, <2>3, GroupStays
<1>6. CASE GP!Cancel
  <2>1. x3' = [group |-> p.group, form |-> p.group.text, editing |-> FALSE, loading |-> p.loading]
    BY <1>1, <1>6 DEF GP!Cancel
  <2>2. GroupOK'
    BY <1>2, <2>1 DEF GroupInv, GroupOK
  <2> QED BY <1>1, <1>2, <1>3, <2>1, <2>2, GroupStays
<1> QED BY <1>4, <1>5, <1>6

\* A handler begins: nothing of the group is changed yet.
LEMMA GroupStart ==
    ASSUME GroupInv, GP!Start
    PROVE  GroupInv'
<1>1. PICK o : /\ x5' = [p \in DOMAIN x5 \cup {o} |-> IF p = o THEN "sent" ELSE x5[p]]
               /\ \/ o \in GP!Removals \ DOMAIN x5
                  \/ o = [kind |-> "add"] /\ o \notin DOMAIN x5
                  \/ o = [kind |-> "push"] /\ o \notin DOMAIN x5
                  \/ o = [kind |-> "save", text |-> x3.form] /\ ~\E q \in DOMAIN x5 : q.kind = "save"
    BY DEF GP!Start, GP!AddOffered, GP!PushOffered, GP!SaveOffered
<1>2. o.kind \in {"add", "remove", "save", "push"} /\ o \notin DOMAIN x5
    BY <1>1 DEF GP!Removals
<1>3. UNCHANGED <<x1, x3, x4, x6>>
    BY DEF GP!Start
<1>4. GroupOK'
    BY <1>1, <1>2, <1>3 DEF GroupInv, GroupOK
<1>5. GroupOwes => GroupOwes'
    BY <1>1, <1>2 DEF GroupOwes
<1> QED BY <1>3, <1>4, <1>5, GroupStays

\* A route ends; what it has changed the page owes from then on.
LEMMA GroupRoutes ==
    ASSUME GroupInv, NEW o \in DOMAIN x5,
           GP!Refuse(o) \/ GP!Save(o) \/ GP!AddBlock(o) \/ GP!RemoveBlock(o) \/ GP!Push(o)
    PROVE  GroupInv'
<1>1. UNCHANGED <<x3, x4, x6>> /\ x5[o] = "sent"
    BY DEF GP!Refuse, GP!Save, GP!AddBlock, GP!RemoveBlock, GP!Push
<1>2. \/ \E step : x5' = [x5 EXCEPT ![o] = step] /\ UNCHANGED x1
      \/ \E step \in {"ok", "half"} : x5' = [x5 EXCEPT ![o] = step] /\ o.kind # "push"
    BY DEF GP!Refuse, GP!Save, GP!AddBlock, GP!RemoveBlock, GP!Push, GP!End
<1>3. PICK step : x5' = [x5 EXCEPT ![o] = step] /\ (x1' = x1 \/ (step \in {"ok", "half"} /\ o.kind # "push"))
    BY <1>2
<1>4. x5' = [p \in DOMAIN x5 |-> x5'[p]] /\ x5'[o] = step /\ \A p \in DOMAIN x5 \ {o} : x5'[p] = x5[p]
    BY <1>3 DEF GroupInv, GroupOK
<1>5. x1' = [text |-> x1'.text, blocks |-> x1'.blocks]
  <2>1. PICK r : r = x1 /\ r = [text |-> r.text, blocks |-> r.blocks]
    BY DEF GroupInv, GroupOK
  <2>2. \/ x1' = r \/ x1' = [r EXCEPT !.text = o.text]
        \/ \E b : x1' = [r EXCEPT !.blocks = b]
    BY <2>1 DEF GP!Refuse, GP!Save, GP!AddBlock, GP!RemoveBlock, GP!Push
  <2>3. CASE x1' = [r EXCEPT !.text = o.text]
    <3>1. x1' = [text |-> o.text, blocks |-> r.blocks]
      BY <2>1, <2>3
    <3> QED BY <3>1
  <2>4. ASSUME NEW b, x1' = [r EXCEPT !.blocks = b] PROVE <1>5!:
    <3>1. x1' = [text |-> r.text, blocks |-> b]
      BY <2>1, <2>4
    <3> QED BY <3>1
  <2> QED BY <2>1, <2>2, <2>3, <2>4
<1>6. GroupOK'
    BY <1>1, <1>4, <1>5 DEF GroupInv, GroupOK
<1>7. CASE x1' = x1
  <2>1. GroupOwes => GroupOwes'
    BY <1>1, <1>4 DEF GroupOwes
  <2> QED BY <1>1, <1>6, <1>7, <2>1, GroupStays
<1>8. CASE step \in {"ok", "half"} /\ o.kind # "push"
  <2>1. GroupOwes'
    BY <1>4, <1>8 DEF GroupOwes
  <2> QED BY <1>1, <1>6, <2>1 DEF GroupInv, FormShown
<1> QED BY <1>3, <1>7, <1>8

\* A handler ends, or its answer is lost.
LEMMA GroupAnswered ==
    ASSUME GroupInv, NEW o \in DOMAIN x5, GP!Answered(o) \/ GP!Lost(o)
    PROVE  GroupInv'
<1>1. x5' = [p \in DOMAIN x5 \ {o} |-> x5[p]] /\ UNCHANGED x1
    BY DEF GP!Answered, GP!Lost, GP!Forget
<1>2. DOMAIN x5' = DOMAIN x5 \ {o} /\ \A p \in DOMAIN x5' : x5'[p] = x5[p]
    BY <1>1
<1>3. /\ x5' = [p \in DOMAIN x5' |-> x5'[p]]
      /\ \A p \in DOMAIN x5' : p.kind \in {"add", "remove", "save", "push"}
    BY <1>1, <1>2 DEF GroupInv, GroupOK
<1>4. CASE GP!Lost(o)
  <2>1. x6' /\ UNCHANGED <<x3, x4>>
    BY <1>4 DEF GP!Lost
  <2>2. GroupOK'
    BY <1>1, <1>3, <2>1 DEF GroupInv, GroupOK
  <2> QED BY <2>1, <2>2 DEF GroupInv
<1>5. CASE GP!Answered(o)
  <2>1. PICK p : p = x3 /\ p = [group |-> p.group, form |-> p.form, editing |-> p.editing, loading |-> p.loading]
                /\ p.editing \in BOOLEAN
    BY DEF GroupInv, GroupOK
  <2>2. PICK l, e : /\ l = (p.loading \/ GP!Refetches(o.kind, x5[o]))
                    /\ e = (p.editing /\ ~(o.kind = "save" /\ x5[o] = "ok"))
    OBVIOUS
  <2>3. x3' = [[p EXCEPT !.loading = l] EXCEPT !.editing = e]
    BY <1>5, <2>1, <2>2 DEF GP!Answered
  <2>4. x3' = [group |-> p.group, form |-> p.form, editing |-> e, loading |-> l]
    <3>1. PICK q : q = [p EXCEPT !.loading = l]
      OBVIOUS
    <3>2. q = [group |-> p.group, form |-> p.form, editing |-> p.editing, loading |-> l]
      BY <2>1, <3>1
    <3> QED BY <2>3, <3>1, <3>2
  <2>5. e \in BOOLEAN
    BY <2>1, <2>2
  <2>6. CASE GP!Refetches(o.kind, x5[o])
    <3>1. x4' = x4 \o <<[what |-> "group", answer |-> NotServed, late |-> FALSE]>>
      BY <1>5, <2>6 DEF GP!Answered, GP!Fetch, GP!NoAnswer, NotServed
    <3>2. PICK c : c = [what |-> "group", answer |-> NotServed, late |-> FALSE]
      OBVIOUS
    <3>3. SequenceOK(x4) /\ QueueOK(x4)
      BY DEF GroupInv, GroupOK, QueueOK
    <3>4. x4' = Append(x4, c)
      BY <3>1, <3>2, <3>3, Concatenated
    <3>5. QueueOK(x4') /\ LateAreFirst(x4', "group") /\ \A v, s : Current(x4', "group", v, s)
      BY <3>2, <3>3, <3>4, Asked DEF GroupInv, GroupOK
    <3>6. Len(x4') = Len(x4) + 1 /\ x4'[Len(x4) + 1] = c /\ \A k \in 1 .. Len(x4) : x4'[k] = x4[k]
      BY <3>3, <3>4, Appended
    <3>7. c.what = "group" /\ ~c.late /\ Len(x4) \in Nat
      BY <3>2, <3>3 DEF SequenceOK
    <3>8. \A k \in 1 .. Len(x4') : x4'[k].what = "group"
      BY <3>6, <3>7 DEF GroupInv, GroupOK
    <3>9. GroupOK'
      BY <1>1, <1>3, <2>4, <2>5, <3>5, <3>8 DEF GroupInv, GroupOK
    <3>10. FormShown'
      BY <3>6, <3>7 DEF FormShown
    <3> QED BY <3>5, <3>9, <3>10 DEF GroupInv
  <2>7. CASE ~GP!Refetches(o.kind, x5[o])
    <3>1. x4' = x4
      <4>1. x4' = x4 \o <<>>
        BY <1>5, <2>7 DEF GP!Answered
      <4> QED BY <4>1, Concatenated DEF GroupInv, GroupOK, QueueOK
    <3>2. GroupOK'
      BY <1>1, <1>3, <2>4, <2>5, <3>1 DEF GroupInv, GroupOK
    <3>3. /\ o.kind \in {"add", "remove", "save", "push"} /\ o.kind # "remove" /\ (o.kind # "push" => x5[o] # "ok")
          /\ e = p.editing
      BY <2>1, <2>2, <2>7 DEF GP!Refetches, GroupInv, GroupOK
    <3>4. ~x6' => ~x6 /\ x5[o] # "half"
      BY <1>5, <3>3 DEF GP!Answered, GP!Refetches
    <3>5. ~x6' => (GroupOwes => GroupOwes')
      BY <1>2, <3>3, <3>4 DEF GroupOwes
    <3> QED BY <1>1, <2>1, <2>4, <3>1, <3>2, <3>3, <3>4, <3>5, GroupStays
  <2> QED BY <2>6, <2>7
<1> QED BY <1>4, <1>5

\* A fetch is served, and its answer arrives, or an error.
LEMMA GroupFetches ==
    ASSUME GroupInv, NEW i \in DOMAIN x4, GP!Serve(i) \/ GP!Arrive(i) \/ GP!ArriveNot(i)
    PROVE  GroupInv'
<1>1. PICK n \in Nat : n = Len(x4) /\ i \in 1 .. n
    BY QueueLength DEF GroupInv, GroupOK, QueueOK, SequenceOK
<1>2. QueueOK(x4) /\ LateAreFirst(x4, "group") /\ \A k \in 1 .. n : x4[k].what = "group"
    BY <1>1 DEF GroupInv, GroupOK
<1>3. UNCHANGED <<x1, x5>> /\ GroupOwes' = GroupOwes
    BY DEF GP!Serve, GP!Arrive, GP!ArriveNot, GroupOwes
<1>4. PICK p : p = x3 /\ p = [group |-> p.group, form |-> p.form, editing |-> p.editing, loading |-> p.loading]
              /\ p.editing \in BOOLEAN
    BY DEF GroupInv, GroupOK
<1>5. CASE GP!Serve(i)
  <2>1. x4' = [x4 EXCEPT ![i].answer = x1] /\ UNCHANGED <<x3, x6>>
    BY <1>5 DEF GP!Serve
  <2>2. /\ QueueOK(x4') /\ LateAreFirst(x4', "group")
        /\ \A s : Current(x4, "group", x1, s) => Current(x4', "group", x1, s)
    BY <1>1, <1>2, <2>1, Served
  <2>3. x4' = [k \in 1 .. n |-> x4'[k]] /\ \A k \in 1 .. n : k # i => x4'[k] = x4[k]
    BY <1>1, <1>2, <2>1 DEF QueueOK, SequenceOK
  <2>4. x4'[i].what = x4[i].what /\ x4'[i].late = x4[i].late
    <3>1. PICK c : c = x4[i] /\ c = [what |-> c.what, answer |-> c.answer, late |-> c.late]
      BY <1>1, <1>2 DEF QueueOK
    <3>2. x4'[i] = [c EXCEPT !.answer = x1]
      BY <1>1, <1>2, <2>1, <3>1 DEF QueueOK, SequenceOK
    <3>3. x4'[i] = [what |-> c.what, answer |-> x1, late |-> c.late]
      BY <3>1, <3>2
    <3> QED BY <3>1, <3>3
  <2>5. Len(x4') = n
    BY <2>3, QueueLength
  <2>6. \A k \in 1 .. n : x4'[k].what = "group" /\ x4'[k].late = x4[k].late
    BY <1>2, <2>3, <2>4
  <2>7. GroupOK'
    BY <1>3, <2>1, <2>2, <2>5, <2>6 DEF GroupInv, GroupOK
  <2>8. FormShown' = FormShown
    BY <1>1, <2>1, <2>5, <2>6 DEF FormShown
  <2> QED BY <1>3, <2>1, <2>2, <2>7, <2>8 DEF GroupInv
<1>6. CASE GP!Arrive(i)
  <2>1. PICK a : a = x4[i].answer
    OBVIOUS
  <2>2. /\ a # NotServed /\ x6' = (x6 \/ x4[i].late)
        /\ x3' = [p EXCEPT !.group = a, !.form = a.text, !.loading = FALSE]
    BY <1>4, <1>6, <2>1 DEF GP!Arrive, GP!NoAnswer, NotServed
  <2>3. x3' = [group |-> a, form |-> a.text, editing |-> p.editing, loading |-> FALSE]
    BY <1>4, <2>2
  <2>4. x4' = [k \in 1 .. n - 1 |-> IF k < i THEN [x4[k] EXCEPT !.late = TRUE] ELSE x4[k + 1]]
    BY <1>1, <1>6 DEF GP!Arrive
  <2>5. ASSUME NEW k \in 1 .. n - 1
        PROVE  (IF k < i THEN [x4[k] EXCEPT !.late = TRUE] ELSE x4[k + 1])
                  = IF k < i THEN [x4[k] EXCEPT !.late = @ \/ x4[k].what = x4[i].what] ELSE x4[k + 1]
    <3>1. x4[k].what = x4[i].what
      BY <1>1, <1>2
    <3>2. (x4[k].late \/ x4[k].what = x4[i].what) = TRUE
      BY <3>1
    <3> QED BY <3>2
  <2>6. x4' = [k \in 1 .. n - 1 |-> IF k < i THEN [x4[k] EXCEPT !.late = @ \/ x4[k].what = x4[i].what]
                                             ELSE x4[k + 1]]
    BY <2>4, <2>5
  <2>7. /\ QueueOK(x4') /\ LateAreFirst(x4', "group")
        /\ ~x4[i].late => \A v, s : Current(x4, "group", v, s) => Current(x4', "group", v, a)
    BY <1>1, <1>2, <2>1, <2>2, <2>6, Arrived, ZenonT(30)
  <2>8. n - 1 \in Nat /\ x4' = [k \in 1 .. n - 1 |-> x4'[k]]
    BY <1>1, <2>6
  <2>9. Len(x4') = n - 1
    BY <2>8, QueueLength
  <2>10. ASSUME NEW k \in 1 .. n - 1 PROVE x4'[k].what = "group"
    <3>0. k \in 1 .. n /\ k + 1 \in 1 .. n
      BY <1>1
    <3>1. CASE k < i
      <4>1. PICK c : c = x4[k] /\ c = [what |-> c.what, answer |-> c.answer, late |-> c.late]
        BY <1>1, <1>2, <3>0 DEF QueueOK
      <4>2. x4'[k] = [c EXCEPT !.late = TRUE]
        BY <2>4, <3>1, <4>1
      <4>3. x4'[k] = [what |-> c.what, answer |-> c.answer, late |-> TRUE]
        BY <4>1, <4>2
      <4> QED BY <1>2, <3>0, <4>1, <4>3
    <3>2. CASE ~(k < i)
      BY <1>2, <2>4, <3>0, <3>2
    <3> QED BY <3>1, <3>2
  <2>11. GroupOK'
    BY <1>3, <1>4, <2>3, <2>7, <2>9, <2>10 DEF GroupInv, GroupOK
  <2>12. FormShown' /\ x3'.group = a
    BY <2>3 DEF FormShown
  <2> QED BY <1>3, <2>2, <2>7, <2>11, <2>12 DEF GroupInv
<1>7. CASE GP!ArriveNot(i)
  <2>1. x6' /\ x4' = SubSeq(x4, 1, i - 1) \o SubSeq(x4, i + 1, Len(x4))
    BY <1>7 DEF GP!ArriveNot, GP!RemoveAt
  <2>2. PICK g : x3' = [p EXCEPT !.group = g, !.loading = FALSE]
    BY <1>4, <1>7 DEF GP!ArriveNot
  <2>3. x3' = [group |-> g, form |-> p.form, editing |-> p.editing, loading |-> FALSE]
    BY <1>4, <2>2
  <2>4. QueueOK(x4') /\ LateAreFirst(x4', "group")
    BY <1>1, <1>2, <2>1, Failed
  <2>5. Len(x4') = n - 1 /\ \A k \in 1 .. n - 1 : x4'[k] = IF k < i THEN x4[k] ELSE x4[k + 1]
    BY <1>1, <1>2, <2>1, Removed DEF QueueOK
  <2>6. \A k \in 1 .. n - 1 : k \in 1 .. n /\ k + 1 \in 1 .. n
    BY <1>1
  <2>7. \A k \in 1 .. n - 1 : x4'[k].what = "group"
    BY <1>2, <2>5, <2>6
  <2>8. GroupOK'
    BY <1>3, <1>4, <2>3, <2>4, <2>5, <2>7 DEF GroupInv, GroupOK
  <2> QED BY <2>1, <2>8 DEF GroupInv
<1> QED BY <1>5, <1>6, <1>7

LEMMA GroupStep == GroupInv /\ [GP!Next]_(GP!vars) => GroupInv'
<1> SUFFICES ASSUME GroupInv, [GP!Next]_(GP!vars) PROVE GroupInv'
    OBVIOUS
<1>1. CASE UNCHANGED GP!vars
  <2>1. UNCHANGED <<x1, x3, x4, x5, x6>>
    BY <1>1 DEF GP!vars
  <2>2. GroupOK' /\ GroupOwes' = GroupOwes
    BY <2>1 DEF GroupInv, GroupOK, GroupOwes
  <2> QED BY <2>1, <2>2, GroupStays
<1>2. CASE GP!Next
  <2>1. CASE GP!Open \/ GP!Type \/ GP!Cancel \/ GP!Start
    BY <2>1, GroupEdits, GroupStart
  <2>2. ASSUME NEW o \in DOMAIN x5,
               \/ GP!Answered(o) \/ GP!Lost(o) \/ GP!Refuse(o) \/ GP!Save(o) \/ GP!AddBlock(o)
               \/ GP!RemoveBlock(o) \/ GP!Push(o)
        PROVE  GroupInv'
    BY <2>2, GroupRoutes, GroupAnswered
  <2>3. ASSUME NEW i \in DOMAIN x4, GP!Serve(i) \/ GP!Arrive(i) \/ GP!ArriveNot(i) PROVE GroupInv'
    BY <2>3, GroupFetches
  <2> QED BY <1>2, <2>1, <2>2, <2>3 DEF GP!Next
<1> QED BY <1>1, <1>2

LEMMA GroupProperty == GroupInv => GP!ShownIsCurrent
<1> SUFFICES ASSUME GroupInv, x4 = <<>>, DOMAIN x5 = {}, ~x6
             PROVE  x3.group = x1 /\ (~x3.editing => x3.form = x1.text)
    BY DEF GP!ShownIsCurrent, GP!Quiet
<1>1. Len(x4) = 0 /\ 1 .. 0 = {} /\ ~GroupOwes
    BY DEF GroupOwes
<1> QED BY <1>1 DEF GroupInv, Current, FormShown
=============================================================================
