------------------------- MODULE GuardsAndQueueProofs -------------------------
(***************************************************************************)
(* Two sets of proofs.                                                     *)
(*                                                                         *)
(* Guards: what holds of the two guards of a sign-in, for any number of     *)
(* requests that overlap in any way, whatever they have read before they    *)
(* write: of the second factor first, for any secrets and steps, then of    *)
(* the limit on wrong answers, for any keys, limits and times.              *)
(*                                                                         *)
(* OneUse is not inductive: that a code is fresh is read off the guard, and *)
(* the guard knows of one secret only.  AloneInv says why that is enough    *)
(* while the handlers that replace the secret run one at a time: the secret *)
(* in use is the one the guard knows, the pending one has not been used,    *)
(* and what a handler compares with is one of the two.                      *)
(*                                                                         *)
(* Nor are GuessBound and what LocksAreKept says of earned locks: a row     *)
(* forgets what came before its count.  CountInv relates each row to the    *)
(* wrong answers of its key (Tally), and the attempt in flight to both.     *)
(*                                                                         *)
(* OperationQueue: types, the agreement of the rows with what runs, the     *)
(* finality of outcomes and, while calls of one server do not contend, that *)
(* the queue implements one lock per server.                               *)
(***************************************************************************)
EXTENDS Guards, OperationQueue, SequenceTheorems, TLAPS

-----------------------------------------------------------------------------
(* The operation queue. *)
\* Types are preserved by every step.
LEMMA TypeInit == QueueInit => QueueTypeOK
<1> QED BY DEF QueueInit, QueueTypeOK, SyncStatus, PC

LEMMA TypeStep == QueueTypeOK /\ [QueueNext]_queue => QueueTypeOK'
<1> SUFFICES ASSUME QueueTypeOK, [QueueNext]_queue
             PROVE  QueueTypeOK'
    OBVIOUS
<1> USE DEF QueueTypeOK, SyncStatus, PC, Operation
<1>1. ASSUME NEW j \in Job, Enqueue(j) PROVE QueueTypeOK'
    BY <1>1 DEF Enqueue, New, Become, Goto
<1>2. ASSUME NEW j \in Job, Continue(j) PROVE QueueTypeOK'
    <2>1. CASE Check(j)
        BY <2>1 DEF Check, Goto
    <2>2. CASE Reject(j)
        BY <2>2 DEF Reject, Become, Goto
    <2>3. CASE Start(j)
        BY <2>3 DEF Start, Become, Goto
    <2>4. CASE Execute(j)
        BY <2>4 DEF Execute, Goto
    <2>5. CASE Succeed(j)
        BY <2>5 DEF Succeed, Become, Goto
    <2>6. CASE Fail(j)
        BY <2>6 DEF Fail, Become, Goto
    <2>7. CASE DatabaseError(j)
        BY <2>7 DEF DatabaseError, Goto
    <2> QED BY <1>2, <2>1, <2>2, <2>3, <2>4, <2>5, <2>6, <2>7 DEF Continue
<1>3. ASSUME NEW j \in Job, Age(j) PROVE QueueTypeOK'
    BY <1>3 DEF Age
<1>4. ASSUME NEW j \in Job, NEW k \in {"push", "google"}, StartDirectly(j, k) PROVE QueueTypeOK'
    BY <1>4 DEF StartDirectly, New, Become, Goto
<1>5. ASSUME NEW i \in Job, NEW j \in Job, Retry(i, j) PROVE QueueTypeOK'
    BY <1>5 DEF Retry, New, Become, Goto
<1>6. CASE ListStale
    BY <1>6 DEF ListStale, InProgress
<1>7. CASE FailStale
    BY <1>7 DEF FailStale
<1>8. CASE Crash
    BY <1>8 DEF Crash
<1>9. CASE UNCHANGED queue
    BY <1>9 DEF queue
<1> QED BY <1>1, <1>2, <1>3, <1>4, <1>5, <1>6, <1>7, <1>8, <1>9 DEF QueueNext

\* Every variable of the queue keeps its type.
THEOREM QueueTypeCorrect == QueueSpec => []QueueTypeOK
<1> QED BY TypeInit, TypeStep, PTL DEF QueueSpec

-----------------------------------------------------------------------------
(* Rows and runs. *)

\* What makes the agreement of rows and runs inductive: a row without a job
\* has no handler, only jobs in progress are old, and right after a
\* start of the process no old job runs, since the process is not old itself.
RunInv ==
    /\ StatusMatchesRun
    /\ OrphansAreDead
    /\ \A j \in Job : status[j] = "none" => ~Running(j) /\ j \notin rejected
    /\ \A j \in old : status[j] = "IN_PROGRESS"
    /\ boot = "list" => \A j \in old : ~Running(j)

LEMMA RunInit == QueueInit => RunInv
<1> QED BY DEF QueueInit, RunInv, StatusMatchesRun, OrphansAreDead, Running

LEMMA RunStep == QueueTypeOK /\ RunInv /\ [QueueNext]_queue => RunInv'
<1> SUFFICES ASSUME QueueTypeOK, RunInv, [QueueNext]_queue
             PROVE  RunInv'
    OBVIOUS
<1> USE DEF QueueTypeOK, RunInv, StatusMatchesRun, OrphansAreDead, Running, Outcome, Become, Goto
<1>1. ASSUME NEW j \in Job, Enqueue(j) PROVE RunInv'
    BY <1>1 DEF Enqueue, New
<1>2. ASSUME NEW j \in Job, Continue(j) PROVE RunInv'
    <2>1. CASE Check(j)
        BY <2>1 DEF Check
    <2>2. CASE Reject(j)
        BY <2>2 DEF Reject
    <2>3. CASE Start(j)
        BY <2>3 DEF Start
    <2>4. CASE Execute(j)
        BY <2>4 DEF Execute
    <2>5. CASE Succeed(j)
        BY <2>5 DEF Succeed
    <2>6. CASE Fail(j)
        BY <2>6 DEF Fail
    <2>7. CASE DatabaseError(j)
        BY <2>7 DEF DatabaseError
    <2> QED BY <1>2, <2>1, <2>2, <2>3, <2>4, <2>5, <2>6, <2>7 DEF Continue
<1>3. ASSUME NEW j \in Job, Age(j) PROVE RunInv'
    BY <1>3 DEF Age
<1>4. ASSUME NEW j \in Job, NEW k \in {"push", "google"}, StartDirectly(j, k) PROVE RunInv'
    BY <1>4 DEF StartDirectly, New
<1>5. ASSUME NEW i \in Job, NEW j \in Job, Retry(i, j) PROVE RunInv'
    BY <1>5 DEF Retry, New
<1>6. CASE ListStale
    BY <1>6 DEF ListStale, InProgress
<1>7. CASE FailStale
    BY <1>7 DEF FailStale
<1>8. CASE Crash
    BY <1>8 DEF Crash
<1>9. CASE UNCHANGED queue
    BY <1>9 DEF queue
<1> QED BY <1>1, <1>2, <1>3, <1>4, <1>5, <1>6, <1>7, <1>8, <1>9 DEF QueueNext

LEMMA RunInvariant == QueueSpec => [](QueueTypeOK /\ RunInv)
<1> QED BY TypeInit, TypeStep, RunInit, RunStep, PTL DEF QueueSpec

\* A job whose operation is under way is IN_PROGRESS, a job not yet started is
\* PENDING, and a rejected one never ran.
THEOREM RowsAgree == QueueSpec => []StatusMatchesRun
<1>1. RunInv => StatusMatchesRun
    BY DEF RunInv
<1> QED BY RunInvariant, <1>1, PTL

\* The reconciler only ever fails jobs that nobody runs.
THEOREM ReconcilerIsSafe == QueueSpec => []OrphansAreDead
<1>1. RunInv => OrphansAreDead
    BY DEF RunInv
<1> QED BY RunInvariant, <1>1, PTL

\* A job that succeeded or failed keeps that outcome, the reconciler's update
\* by id included.
THEOREM OutcomesStay == QueueSpec => OutcomeIsFinal
<1>1. QueueTypeOK /\ RunInv /\ [QueueNext]_queue
          => [\A j \in Job : status[j] \in Outcome => status'[j] = status[j]]_queue
    <2> SUFFICES ASSUME QueueTypeOK, RunInv, QueueNext, NEW j \in Job, status[j] \in Outcome
                 PROVE  status'[j] = status[j]
        OBVIOUS
    <2> USE DEF QueueTypeOK, RunInv, StatusMatchesRun, OrphansAreDead, Running, Outcome, Become
    <2>1. ASSUME NEW i \in Job, Enqueue(i) PROVE status'[j] = status[j]
        BY <2>1 DEF Enqueue, New
    <2>2. ASSUME NEW i \in Job, Continue(i) PROVE status'[j] = status[j]
        BY <2>2 DEF Continue, Check, Reject, Start, Execute, Succeed, Fail, DatabaseError
    <2>3. ASSUME NEW i \in Job, Age(i) PROVE status'[j] = status[j]
        BY <2>3 DEF Age
    <2>4. ASSUME NEW i \in Job, NEW k \in {"push", "google"}, StartDirectly(i, k)
          PROVE  status'[j] = status[j]
        BY <2>4 DEF StartDirectly, New
    <2>5. ASSUME NEW i \in Job, NEW m \in Job, Retry(m, i) PROVE status'[j] = status[j]
        BY <2>5 DEF Retry, New
    <2>6. CASE ListStale
        BY <2>6 DEF ListStale
    <2>7. CASE FailStale
        BY <2>7 DEF FailStale
    <2>8. CASE Crash
        BY <2>8 DEF Crash
    <2> QED BY <2>1, <2>2, <2>3, <2>4, <2>5, <2>6, <2>7, <2>8 DEF QueueNext
<1> QED BY RunInvariant, <1>1, PTL DEF QueueSpec, OutcomeIsFinal

-----------------------------------------------------------------------------
(* One lock per server. *)

\* Between the check of a job and its start nobody else of its server decides,
\* so that what it saw is still true when it starts.
LockInv ==
    /\ \A i, j \in InProgress \cap Orderly : server[i] = server[j] => i = j
    /\ \A i, j \in Orderly : Deciding(i) /\ Deciding(j) /\ server[i] = server[j] => i = j
    /\ \A i \in Orderly, j \in InProgress : phase[i] = "start" => server[i] # server[j]

LEMMA LockInit == QueueInit => LockInv
<1> QED BY DEF QueueInit, LockInv, InProgress, Deciding, Orderly

LEMMA LockInvStep ==
    ASSUME QueueTypeOK, RunInv, LockInv, [QueueNext]_queue
    PROVE  LockInv'
<1> USE DEF QueueTypeOK, LockInv, InProgress, Deciding, Orderly, Become, Goto
<1>1. ASSUME NEW j \in Job, Enqueue(j) PROVE LockInv'
    BY <1>1 DEF Enqueue, New
<1>2. ASSUME NEW j \in Job, Continue(j) PROVE LockInv'
    <2>1. CASE Check(j)
        BY <2>1 DEF Check, Busy, RunInv, StatusMatchesRun
    <2>2. CASE Reject(j)
        BY <2>2 DEF Reject
    <2>3. CASE Start(j)
        BY <2>3 DEF Start
    <2>4. CASE Execute(j)
        BY <2>4 DEF Execute
    <2>5. CASE Succeed(j)
        BY <2>5 DEF Succeed
    <2>6. CASE Fail(j)
        BY <2>6 DEF Fail
    <2>7. CASE DatabaseError(j)
        BY <2>7 DEF DatabaseError
    <2> QED BY <1>2, <2>1, <2>2, <2>3, <2>4, <2>5, <2>6, <2>7 DEF Continue
<1>3. ASSUME NEW j \in Job, Age(j) PROVE LockInv'
    BY <1>3 DEF Age
<1>4. ASSUME NEW j \in Job, NEW k \in {"push", "google"}, StartDirectly(j, k) PROVE LockInv'
    BY <1>4 DEF StartDirectly, New
<1>5. ASSUME NEW i \in Job, NEW j \in Job, Retry(i, j) PROVE LockInv'
    BY <1>5 DEF Retry, New
<1>6. CASE ListStale
    BY <1>6 DEF ListStale
<1>7. CASE FailStale
    BY <1>7 DEF FailStale
<1>8. CASE Crash
    BY <1>8 DEF Crash
<1>9. CASE UNCHANGED queue
    BY <1>9 DEF queue
<1> QED BY <1>1, <1>2, <1>3, <1>4, <1>5, <1>6, <1>7, <1>8, <1>9 DEF QueueNext

\* A server whose calls do not contend has at most one job IN_PROGRESS.
THEOREM AtMostOne == QueueSpec => []OneInProgress
<1>1. QueueSpec => []LockInv
    BY RunInvariant, LockInit, LockInvStep, PTL DEF QueueSpec
<1>2. LockInv => OneInProgress
    BY DEF LockInv, OneInProgress
<1> QED BY <1>1, <1>2, PTL

\* The jobs of the queue as the abstract lock sees them.
Waiting == {j \in Orderly : status[j] = "PENDING"}
Holder == InProgress \cap Orderly
Over == {j \in Orderly : status[j] \in Outcome}

LEMMA LockMapsInit == QueueInit => Lock!Init
<1> QED BY DEF QueueInit, Lock!Init, InProgress, Orderly, Outcome

LEMMA LockMapsStep ==
    ASSUME QueueTypeOK, RunInv, LockInv, [QueueNext]_queue
    PROVE  [Lock!Next]_(Lock!vars)
<1> USE DEF QueueTypeOK, InProgress, Outcome, Become, Goto
<1> DEFINE Same == UNCHANGED <<Waiting, Holder, Over, server>>
<1>0. Same => UNCHANGED Lock!vars
    BY DEF Lock!vars, Waiting, Holder, Over
<1>a. ASSUME NEW j \in Job, j \notin Orderly, UNCHANGED server,
             \A i \in Job \ {j} : status'[i] = status[i]
      PROVE  Same
    BY <1>a DEF Waiting, Holder, Over, Orderly
<1>b. ASSUME UNCHANGED <<status, server>> PROVE Same
    BY <1>b DEF Waiting, Holder, Over, Orderly
<1>1. ASSUME NEW j \in Job, Enqueue(j) \/ (\E i \in Job : Retry(i, j))
      PROVE  [Lock!Next]_(Lock!vars)
    <2> USE DEF Enqueue, Retry, New
    <2>1. CASE j \in Orderly
        <3>1. Lock!Arrive(j)
            BY <1>1, <2>1 DEF Lock!Arrive, Lock!Unknown, Orderly
        <3> QED BY <3>1 DEF Lock!Next
    <2>2. CASE j \notin Orderly
        <3>1. UNCHANGED server /\ \A i \in Job \ {j} : status'[i] = status[i]
            BY <1>1
        <3> QED BY <2>2, <3>1, <1>a, <1>0
    <2> QED BY <2>1, <2>2
<1>2. ASSUME NEW j \in Job, Continue(j) PROVE [Lock!Next]_(Lock!vars)
    <2>1. CASE Check(j) \/ Execute(j) \/ DatabaseError(j)
        BY <2>1, <1>b, <1>0 DEF Check, Execute, DatabaseError
    <2>2. CASE j \notin Orderly
        <3>1. UNCHANGED server /\ \A i \in Job \ {j} : status'[i] = status[i]
            BY <1>2 DEF Continue, Check, Reject, Start, Execute, Succeed, Fail, DatabaseError
        <3> QED BY <2>2, <3>1, <1>a, <1>0
    <2>3. CASE j \in Orderly /\ Reject(j)
        <3>1. Lock!Refuse(j)
            BY <2>3 DEF Reject, Lock!Refuse, RunInv, StatusMatchesRun, Orderly
        <3> QED BY <3>1 DEF Lock!Next
    <2>4. CASE j \in Orderly /\ Start(j)
        <3>1. Lock!Acquire(j)
            BY <2>4 DEF Start, Lock!Acquire, Lock!Free, RunInv, StatusMatchesRun, LockInv, Orderly
        <3> QED BY <3>1 DEF Lock!Next
    <2>5. CASE j \in Orderly /\ (Succeed(j) \/ Fail(j))
        <3>1. {j} \in SUBSET (InProgress \cap Orderly)
            BY <2>5 DEF Succeed, Fail, RunInv, StatusMatchesRun
        <3>2. Lock!Release({j})
            BY <2>5, <3>1 DEF Succeed, Fail, Lock!Release, Orderly
        <3> QED BY <3>1, <3>2 DEF Lock!Next
    <2> QED BY <1>2, <2>1, <2>2, <2>3, <2>4, <2>5 DEF Continue
<1>3. ASSUME NEW j \in Job, Age(j) PROVE Same
    BY <1>3, <1>b DEF Age
<1>4. ASSUME NEW j \in Job, NEW k \in {"push", "google"}, StartDirectly(j, k) PROVE Same
    <2>1. j \notin Orderly
        BY <1>4 DEF StartDirectly, Orderly
    <2>2. UNCHANGED server /\ \A i \in Job \ {j} : status'[i] = status[i]
        BY <1>4 DEF StartDirectly, New
    <2> QED BY <2>1, <2>2, <1>a
<1>5. CASE ListStale \/ Crash \/ UNCHANGED queue
    BY <1>5, <1>b, <1>0 DEF ListStale, Crash, queue
<1>6. CASE FailStale
    <2>1. PICK js : js = stale \cap Orderly
        OBVIOUS
    <2>2. js \in SUBSET (InProgress \cap Orderly)
        BY <2>1 DEF RunInv, OrphansAreDead
    <2>3. UNCHANGED server /\ \A i \in Job : status'[i] = IF i \in stale THEN "FAILED" ELSE status[i]
        BY <1>6 DEF FailStale
    <2>4. CASE js = {}
        <3>1. \A i \in Orderly : status'[i] = status[i]
            BY <2>1, <2>3, <2>4 DEF Orderly
        <3> QED BY <2>3, <3>1, <1>0 DEF Waiting, Holder, Over, Orderly
    <2>5. CASE js # {}
        <3>1. Lock!Release(js)
            BY <2>1, <2>2, <2>3, <2>5 DEF Lock!Release, Orderly
        <3> QED BY <2>2, <3>1 DEF Lock!Next
    <2> QED BY <2>4, <2>5
<1> QED BY <1>0, <1>1, <1>2, <1>3, <1>4, <1>5, <1>6 DEF QueueNext

\* For the servers whose calls do not contend the queue implements one lock
\* per server.
THEOREM QueueImplementsLock == QueueSpec => LockSpec
<1>1. QueueSpec => [](QueueTypeOK /\ RunInv /\ LockInv)
    BY RunInvariant, LockInit, LockInvStep, PTL DEF QueueSpec
<1>2. QueueTypeOK /\ RunInv /\ LockInv /\ [QueueNext]_queue => [Lock!Next]_(Lock!vars)
    BY LockMapsStep
<1> QED BY <1>1, <1>2, LockMapsInit, PTL DEF QueueSpec, LockSpec, Lock!Spec

-----------------------------------------------------------------------------
(* The second factor. *)

Swapping(h) == pc[h] = "write" /\ work[h].op \in {"enable", "confirm"}
Current == {"verify", "disable", "start"}

\* What a handler needs to find in its work.
WorkInv ==
    \A h \in Handler :
        /\ pc[h] = "consume" =>
             work[h].against \in minted /\ work[h].op \in Current \cup {"enable", "confirm"}
        /\ Swapping(h) => work[h].against \in minted /\ latest[work[h].against] > 0

MintInv ==
    /\ row.secret \in minted \cup {NoSecret}
    /\ row.pending \in minted \cup {NoSecret}
    /\ \A s \in Secret \ minted : latest[s] = 0

GuardInv == guard # NoGuard => guard.secret \in Secret /\ guard.step <= latest[guard.secret]

CodeInv == TypeOK /\ WorkInv /\ MintInv /\ GuardInv /\ GoodCodeWorks /\ ActiveSecretProven

Apart == \A h, k \in Handler : h # k /\ InFlight(h) /\ InFlight(k) =>
                                    work[h].op = "verify" /\ work[k].op = "verify"

AloneInv ==
    /\ Apart
    /\ guard.secret \in Secret => guard.step = latest[guard.secret]
    /\ row.pending \in Secret => row.pending # row.secret
    /\ row.pending \in Secret => latest[row.pending] = 0 \/ \E h \in Handler : Swapping(h)
    /\ row.secret \in Secret =>
         \/ latest[row.secret] = 0
         \/ row.secret = guard.secret
         \/ \E h \in Handler : Swapping(h)
    /\ \A h \in Handler :
         /\ pc[h] = "consume" =>
              work[h].against = IF work[h].op \in Current THEN row.secret ELSE row.pending
         /\ Swapping(h) => work[h].against = guard.secret
    /\ reused = {}

-----------------------------------------------------------------------------

USE StepAssumption, SecretAssumption

\* Every variable keeps its type.
LEMMA CodeTypeStep == TypeOK /\ WorkInv /\ [Next]_vars => TypeOK'
<1> SUFFICES ASSUME TypeOK, WorkInv, [Next]_vars PROVE TypeOK'
    OBVIOUS
<1> USE DEF TypeOK, AdminUser, Guard, Work, Maybe, Code, Op
<1>1. CASE UNCHANGED vars
    BY <1>1 DEF vars, history
<1>2. CASE Tick
    BY <1>2 DEF Tick, history
<1>3. ASSUME NEW h \in Handler, NEW op \in Op, NEW c \in Code, Submit(h, op, c) PROVE TypeOK'
    BY <1>3 DEF Submit, Begin, Against, history
<1>4. ASSUME NEW h \in Handler, StartSetup(h) \/ StartReset(h) PROVE TypeOK'
    BY <1>4, SMTT(30) DEF StartSetup, StartReset, Begin, NoWork, history
<1>5. ASSUME NEW h \in Handler, Consume(h) PROVE TypeOK'
  <2>1. work[h].against \in Secret /\ work[h].code \in Code
    BY <1>5 DEF Consume, WorkInv
  <2>2. guard' \in Guard /\ latest' \in [Secret -> 0..MaxStep + 1]
    BY <1>5, <2>1 DEF Consume
  <2>3. reused' \in SUBSET Secret /\ refused' \in SUBSET Secret
    BY <1>5, <2>1 DEF Consume
  <2>4. pc' \in [Handler -> {"idle", "consume", "write"}] /\ work' \in [Handler -> Work]
    BY <1>5 DEF Consume, Finish, ToWrite, NoWork
  <2> QED BY <1>5, <2>2, <2>3, <2>4 DEF Consume
<1>6. ASSUME NEW h \in Handler, WritePending(h) PROVE TypeOK'
    BY <1>6 DEF WritePending, Finish, NoWork
<1>7. ASSUME NEW h \in Handler, WriteSecret(h) PROVE TypeOK'
    BY <1>7 DEF WriteSecret, Finish, NoWork, history
<1>8. ASSUME NEW h \in Handler, WriteCleared(h) PROVE TypeOK'
    BY <1>8 DEF WriteCleared, Finish, NoWork, Fresh, NoGuard, history
<1>9. ASSUME NEW h \in Handler, Lose(h) PROVE TypeOK'
    BY <1>9 DEF Lose, Finish, NoWork, history
<1> QED BY <1>1, <1>2, <1>3, <1>4, <1>5, <1>6, <1>7, <1>8, <1>9 DEF Next

\* The invariant of all behaviours is kept by every step.
LEMMA CodeStep == CodeInv /\ [Next]_vars => CodeInv'
<1> SUFFICES ASSUME CodeInv, [Next]_vars PROVE CodeInv'
    OBVIOUS
<1>t. TypeOK'
    BY CodeTypeStep DEF CodeInv
<1> DEFINE Rest == WorkInv /\ MintInv /\ GuardInv /\ GoodCodeWorks /\ ActiveSecretProven
<1> SUFFICES Rest'
    BY <1>t DEF CodeInv
<1> USE DEF CodeInv, WorkInv, MintInv, GuardInv, GoodCodeWorks, ActiveSecretProven, Swapping,
           TypeOK, AdminUser, Guard, Work, Maybe, Code, Op, Current
<1>1. CASE UNCHANGED vars
    BY <1>1 DEF vars, history
<1>2. CASE Tick
    BY <1>2 DEF Tick, history
<1>3. ASSUME NEW h \in Handler, NEW op \in Op, NEW c \in Code, Submit(h, op, c) PROVE Rest'
    BY <1>3 DEF Submit, Begin, Accepts, Against, history
<1>4. ASSUME NEW h \in Handler, StartSetup(h) \/ StartReset(h) PROVE Rest'
    BY <1>4, SMTT(30) DEF StartSetup, StartReset, Begin, NoWork, history
<1>5. ASSUME NEW h \in Handler, Consume(h) PROVE Rest'
  <2> PICK s \in Secret : s = work[h].against
    BY <1>5 DEF Consume
  <2> PICK t \in Code : t = work[h].code
    BY <1>5
  <2>1. CASE ~Matches(t)
    BY <1>5, <2>1 DEF Consume, Finish, NoWork
  <2>2. CASE Matches(t) /\ ~Unspent(s, t)
    <3>1. t <= latest[s]
      BY <2>2 DEF Unspent
    <3> QED BY <1>5, <2>2, <3>1 DEF Consume, Finish, NoWork
  <2>3. CASE Matches(t) /\ Unspent(s, t)
    <3>0. t > 0
      BY <2>3 DEF Matches
    <3>1. /\ guard' = [secret |-> s, step |-> t]
          /\ latest' = [latest EXCEPT ![s] = IF t > @ THEN t ELSE @]
          /\ UNCHANGED <<row, minted, refused>>
      BY <1>5, <2>3 DEF Consume
    <3>2. \A r \in Secret : latest'[r] >= latest[r]
      BY <3>1
    <3>3. latest'[s] >= t
      BY <3>1
    <3>4. s \in minted
      BY <1>5 DEF Consume
    <3>5. MintInv' /\ GuardInv' /\ GoodCodeWorks' /\ ActiveSecretProven'
      BY <3>0, <3>1, <3>2, <3>3, <3>4
    <3>6. WorkInv'
      BY <1>5, <2>3, <3>0, <3>1, <3>2, <3>3 DEF Consume, Finish, ToWrite, NoWork
    <3> QED BY <3>5, <3>6
  <2> QED BY <2>1, <2>2, <2>3
<1>6. ASSUME NEW h \in Handler, WritePending(h) PROVE Rest'
    BY <1>6 DEF WritePending, Finish, NoWork
<1>7. ASSUME NEW h \in Handler, WriteSecret(h) PROVE Rest'
    BY <1>7 DEF WriteSecret, Finish, NoWork, history
<1>8. ASSUME NEW h \in Handler, WriteCleared(h) PROVE Rest'
    BY <1>8 DEF WriteCleared, Finish, NoWork, Fresh, NoGuard, history
<1>9. ASSUME NEW h \in Handler, Lose(h) PROVE Rest'
    BY <1>9 DEF Lose, Finish, NoWork, history
<1> QED BY <1>1, <1>2, <1>3, <1>4, <1>5, <1>6, <1>7, <1>8, <1>9 DEF Next

LEMMA CodeInit == Init => CodeInv
BY DEF Init, CodeInv, TypeOK, WorkInv, MintInv, GuardInv, GoodCodeWorks, ActiveSecretProven,
       Swapping, AdminUser, Guard, Work, Maybe, Code, Op, Fresh, NoGuard, NoWork

LEMMA CodeCorrect == Spec => []CodeInv
BY CodeInit, CodeStep, PTL DEF Spec

\* Every variable keeps its type, for any secrets, handlers and steps.
THEOREM CodeTypeCorrect == Spec => []TypeOK
BY CodeCorrect, PTL DEF CodeInv

\* consumeTotpCode refuses a right code only when it or a later one of the same
\* secret was accepted, whatever overlaps and fails.
THEOREM GoodCodesWork == Spec => []GoodCodeWorks
BY CodeCorrect, PTL DEF CodeInv

\* The secret that enabling and reconfiguring put in use is one of which a code
\* was accepted, whatever overlaps and fails.
THEOREM SecretsAreProven == Spec => []ActiveSecretProven
BY CodeCorrect, PTL DEF CodeInv

-----------------------------------------------------------------------------

\* In a behaviour alone, a handler that starts keeps the others apart.
LEMMA BeginApart ==
    ASSUME TypeOK, alone, Apart, NEW h \in Handler, NEW l, l # "idle", NEW w \in Work, Begin(h, l, w)
    PROVE  Apart'
BY DEF Begin, MayStart, Apart, InFlight, TypeOK

\* A handler that starts without a secret to swap leaves everybody's state alone.
LEMMA BeginKeeps ==
    ASSUME TypeOK, NEW h \in Handler, NEW l \in {"consume", "write"}, NEW w \in Work, Begin(h, l, w),
           l = "write" => w.op \notin {"enable", "confirm"}
    PROVE  /\ pc'[h] = l /\ work'[h] = w /\ ~Swapping(h)
           /\ \A k \in Handler \ {h} : pc'[k] = pc[k] /\ work'[k] = work[k]
           /\ \A k \in Handler : Swapping(k)' <=> Swapping(k)
<1>1. /\ pc[h] = "idle" /\ pc'[h] = l /\ work'[h] = w
      /\ \A k \in Handler \ {h} : pc'[k] = pc[k] /\ work'[k] = work[k]
    BY DEF Begin, InFlight, TypeOK
<1>2. ~Swapping(h) /\ ~Swapping(h)'
    BY <1>1 DEF Swapping
<1>3. \A k \in Handler \ {h} : Swapping(k)' <=> Swapping(k)
    BY <1>1 DEF Swapping
<1> QED BY <1>1, <1>2, <1>3

\* AloneInv is kept by every step of a behaviour alone.
LEMMA AloneStep == CodeInv /\ alone /\ AloneInv /\ [Next]_vars => AloneInv'
<1> SUFFICES ASSUME CodeInv, alone, AloneInv, [Next]_vars PROVE AloneInv'
    OBVIOUS
<1> USE DEF CodeInv, WorkInv, MintInv, GuardInv, Swapping, TypeOK, AdminUser, Guard, Work, Maybe,
           Code, Op, Current, AloneInv
<1>1. CASE UNCHANGED vars
    BY <1>1 DEF vars, history, Apart, InFlight
<1>2. CASE Tick
    BY <1>2 DEF Tick, history, Apart, InFlight
<1>3. ASSUME NEW h \in Handler, NEW op \in Op, NEW c \in Code, Submit(h, op, c) PROVE AloneInv'
  <2>1. [op |-> op, code |-> c, against |-> Against(op)] \in Work
    BY DEF Against
  <2>2. Apart'
    BY <1>3, <2>1, BeginApart DEF Submit
  <2>3. UNCHANGED <<row, guard, latest, reused>>
    BY <1>3 DEF Submit, history
  <2> DEFINE w == [op |-> op, code |-> c, against |-> Against(op)]
  <2>4. /\ pc'[h] = "consume" /\ work'[h] = w
        /\ \A k \in Handler \ {h} : pc'[k] = pc[k] /\ work'[k] = work[k]
        /\ ~Swapping(h) /\ \A k \in Handler : Swapping(k)' <=> Swapping(k)
    <3>1. Begin(h, "consume", w)
      BY <1>3 DEF Submit
    <3> HIDE DEF w
    <3> QED BY <2>1, <3>1, BeginKeeps DEF w
  <2>5. work'[h].against = IF work'[h].op \in Current THEN row.secret ELSE row.pending
    BY <1>3, <2>4 DEF Submit, Against
  <2> QED BY <2>2, <2>3, <2>4, <2>5
<1>4. ASSUME NEW h \in Handler, StartSetup(h) \/ StartReset(h) PROVE AloneInv'
  <2>1. [NoWork EXCEPT !.op = "setup"] \in Work /\ [NoWork EXCEPT !.op = "reset"] \in Work
    BY DEF NoWork
  <2>2. Apart'
    BY <1>4, <2>1, BeginApart DEF StartSetup, StartReset
  <2>3. UNCHANGED <<row, guard, latest, reused>>
    BY <1>4 DEF StartSetup, StartReset, history
  <2>4. /\ pc'[h] = "write"
        /\ \A k \in Handler \ {h} : pc'[k] = pc[k] /\ work'[k] = work[k]
        /\ ~Swapping(h) /\ \A k \in Handler : Swapping(k)' <=> Swapping(k)
    <3>1. PICK w \in Work : Begin(h, "write", w) /\ w.op \notin {"enable", "confirm"}
      BY <1>4, <2>1 DEF StartSetup, StartReset, NoWork
    <3> QED BY <3>1, BeginKeeps
  <2> QED BY <2>2, <2>3, <2>4
<1>5. ASSUME NEW h \in Handler, Consume(h) PROVE AloneInv'
  <2> PICK s \in Secret : s = work[h].against
    BY <1>5 DEF Consume
  <2> PICK t \in Code : t = work[h].code
    BY <1>5
  <2>a. Apart'
    BY <1>5 DEF Consume, Finish, ToWrite, Apart, InFlight
  <2>b. \A k \in Handler : ~Swapping(k)
    BY <1>5 DEF Consume, Apart, InFlight
  <2>1. CASE ~(Matches(t) /\ Unspent(s, t))
    <3>1. UNCHANGED <<row, guard, latest, reused>> /\ Finish(h)
      BY <1>5, <2>1 DEF Consume
    <3> QED BY <2>a, <2>b, <3>1 DEF Finish, NoWork
  <2>2. CASE Matches(t) /\ Unspent(s, t)
    <3>0. t > 0
      BY <2>2 DEF Matches
    <3>1. /\ guard' = [secret |-> s, step |-> t]
          /\ latest' = [latest EXCEPT ![s] = IF t > @ THEN t ELSE @]
          /\ UNCHANGED <<row, alone>>
      BY <1>5, <2>2 DEF Consume
    <3>2. t > latest[s]
      BY <1>5, <2>b, <2>2, <3>0 DEF Consume, Unspent, NoGuard
    <3>3. reused' = {}
      BY <1>5, <2>2, <3>2 DEF Consume
    <3>4. latest'[s] = t /\ \A r \in Secret \ {s} : latest'[r] = latest[r]
      BY <3>1, <3>2
    <3>5. CASE work[h].op \in Current
      <4>1. s = row.secret
        BY <1>5, <3>5 DEF Consume
      <4>2. \A k \in Handler : ~Swapping(k)'
        BY <1>5, <2>b, <2>2, <3>5 DEF Consume, Finish, ToWrite, NoWork
      <4>3. \A k \in Handler : pc'[k] = "consume" => pc[k] = "consume" /\ work'[k] = work[k]
        BY <1>5, <2>2 DEF Consume, Finish, ToWrite
      <4> QED BY <2>a, <2>b, <3>1, <3>3, <3>4, <4>1, <4>2, <4>3
    <3>6. CASE work[h].op \in {"enable", "confirm"}
      <4>1. Swapping(h)' /\ work' = work /\ pc' = [pc EXCEPT ![h] = "write"]
        BY <1>5, <2>2, <3>6 DEF Consume, ToWrite
      <4>2. \A k \in Handler \ {h} : ~InFlight(k)
        BY <1>5, <3>6 DEF Consume, Apart, InFlight
      <4>3. \A k \in Handler : pc'[k] = "consume" \/ Swapping(k)' => k = h
        BY <4>1, <4>2 DEF InFlight
      <4> QED BY <2>a, <3>1, <3>3, <3>4, <4>1, <4>3
    <3> QED BY <1>5, <3>5, <3>6 DEF Consume
  <2> QED BY <2>1, <2>2
<1> DEFINE Only(h) == \A k \in Handler \ {h} : ~InFlight(k)
<1>6. ASSUME NEW h \in Handler, WritePending(h) PROVE AloneInv'
  <2>1. Only(h)
    BY <1>6 DEF WritePending, Apart, InFlight
  <2>2. \A k \in Handler : pc'[k] = "idle"
    BY <1>6, <2>1 DEF WritePending, Finish, InFlight
  <2>3. \A k \in Handler : ~Swapping(k)
    BY <1>6, <2>1 DEF WritePending, InFlight
  <2> QED BY <1>6, <2>2, <2>3 DEF WritePending, Apart, InFlight
<1>7. ASSUME NEW h \in Handler, WriteSecret(h) PROVE AloneInv'
  <2>1. Only(h)
    BY <1>7 DEF WriteSecret, Apart, InFlight
  <2>2. \A k \in Handler : pc'[k] = "idle"
    BY <1>7, <2>1 DEF WriteSecret, Finish, InFlight
  <2> QED BY <1>7, <2>2 DEF WriteSecret, Apart, InFlight, history
<1>8. ASSUME NEW h \in Handler, WriteCleared(h) PROVE AloneInv'
  <2>1. Only(h)
    BY <1>8 DEF WriteCleared, Apart, InFlight
  <2>2. \A k \in Handler : pc'[k] = "idle"
    BY <1>8, <2>1 DEF WriteCleared, Finish, InFlight
  <2> QED BY <1>8, <2>2 DEF WriteCleared, Fresh, NoGuard, Apart, InFlight, history
<1>9. ASSUME NEW h \in Handler, Lose(h) PROVE AloneInv'
    BY <1>9 DEF Lose
<1> QED BY <1>1, <1>2, <1>3, <1>4, <1>5, <1>6, <1>7, <1>8, <1>9 DEF Next

\* alone is chosen once.
LEMMA AloneStays == [Next]_vars => alone' = alone
BY DEF Next, vars, Tick, Submit, StartSetup, StartReset, Consume, WritePending, WriteSecret,
       WriteCleared, Lose

\* While the handlers that replace the secret run one at a time and finish, no
\* code is accepted twice, nor one older than a code that was accepted, however
\* many verifications carry it at the same time.
THEOREM CodesAreUsedOnce == Spec => []OneUse
<1>1. Init => (alone => AloneInv)
    BY DEF Init, AloneInv, Apart, InFlight, Swapping, Fresh, NoGuard, NoWork
<1>2. CodeInv /\ (alone => AloneInv) /\ [Next]_vars => (alone => AloneInv)'
    BY AloneStep, AloneStays
<1>3. (alone => AloneInv) => OneUse
    BY DEF AloneInv, OneUse
<1> QED BY <1>1, <1>2, <1>3, CodeCorrect, PTL DEF Spec

-----------------------------------------------------------------------------
(* The limit on wrong answers.                                             *)

\* A key is in a sequence of keys.
Occurs(k, s) == \E i \in DOMAIN s : s[i] = k

LEMMA RemoveAtKeeps ==
    ASSUME NEW s \in Seq(Key), NEW i \in DOMAIN s, NEW k, Occurs(k, s), k # s[i]
    PROVE  Occurs(k, RL!RemoveAt(s, i))
<1>1. PICK n : n = Len(s) /\ n \in Nat
    BY LenProperties
<1>2. DOMAIN s = 1..n /\ i \in 1..n /\ \A j \in 1..n : s[j] \in Key
    BY <1>1, LenProperties
<1>i. i \in Int /\ n \in Int /\ 1 <= i /\ i <= n
    BY <1>1, <1>2
<1>3. PICK a, b : a = SubSeq(s, 1, i - 1) /\ b = SubSeq(s, i + 1, n)
    OBVIOUS
<1>4. a \in Seq(Key) /\ Len(a) = i - 1 /\ \A m \in 1..i - 1 : a[m] = s[m]
  <2>1. i - 1 \in Int /\ 1 \in Int /\ \A m \in 1..i - 1 : s[m] \in Key
    BY <1>1, <1>2, <1>i
  <2>2. /\ SubSeq(s, 1, i - 1) \in Seq(Key)
        /\ Len(SubSeq(s, 1, i - 1)) = (IF 1 <= i - 1 THEN i - 1 - 1 + 1 ELSE 0)
    BY <2>1, SubSeqProperties
  <2>e. \A m \in 1..i - 1 - 1 + 1 : SubSeq(s, 1, i - 1)[m] = s[1 + m - 1]
    BY <2>1, SubSeqProperties
  <2>3. \A m \in 1..i - 1 : m \in 1..i - 1 - 1 + 1 /\ 1 + m - 1 = m
    BY <1>1, <1>2, <1>i
  <2> QED BY <1>1, <1>2, <1>i, <1>3, <2>2, <2>3, <2>e
<1>5. b \in Seq(Key) /\ Len(b) = n - i /\ \A m \in 1..n - i : b[m] = s[i + m]
  <2>1. i + 1 \in Int /\ n \in Int /\ \A m \in i + 1..n : s[m] \in Key
    BY <1>1, <1>2, <1>i
  <2>2. /\ SubSeq(s, i + 1, n) \in Seq(Key)
        /\ Len(SubSeq(s, i + 1, n)) = (IF i + 1 <= n THEN n - (i + 1) + 1 ELSE 0)
    BY <2>1, SubSeqProperties
  <2>e. \A m \in 1..n - (i + 1) + 1 : SubSeq(s, i + 1, n)[m] = s[i + 1 + m - 1]
    BY <2>1, SubSeqProperties
  <2>3. \A m \in 1..n - i : m \in 1..n - (i + 1) + 1 /\ i + 1 + m - 1 = i + m
    BY <1>1, <1>2, <1>i
  <2> QED BY <1>1, <1>2, <1>i, <1>3, <2>2, <2>3, <2>e
<1>6. PICK c : c = a \o b
    OBVIOUS
<1>7. /\ c \in Seq(Key) /\ Len(c) = n - 1
      /\ \A m \in 1..n - 1 : c[m] = (IF m <= i - 1 THEN a[m] ELSE b[m - (i - 1)])
  <2>1. /\ c \in Seq(Key) /\ Len(c) = Len(a) + Len(b)
    BY <1>4, <1>5, <1>6, ConcatProperties
  <2>2. \A m \in 1..Len(a) + Len(b) : c[m] = (IF m <= Len(a) THEN a[m] ELSE b[m - Len(a)])
    BY <1>4, <1>5, <1>6, ConcatProperties
  <2>3. Len(a) = i - 1 /\ Len(b) = n - i
    BY <1>4, <1>5
  <2>4. Len(a) + Len(b) = n - 1
    BY <1>i, <2>3
  <2> QED BY <2>1, <2>2, <2>3, <2>4
<1>8. DOMAIN c = 1..n - 1 /\ c = RL!RemoveAt(s, i)
    BY <1>1, <1>3, <1>6, <1>7, LenProperties DEF RL!RemoveAt
<1>9. PICK j \in 1..n : s[j] = k /\ j # i
    BY <1>2 DEF Occurs
<1>10. \E m \in 1..n - 1 : c[m] = k
  <2>1. CASE j < i
    <3>1. j \in 1..n - 1 /\ j \in 1..i - 1
      BY <1>i, <1>9, <2>1
    <3> QED BY <1>4, <1>7, <1>9, <3>1
  <2>2. CASE j > i
    <3>1. /\ j - 1 \in 1..n - 1 /\ ~(j - 1 <= i - 1)
          /\ j - 1 - (i - 1) \in 1..n - i /\ i + (j - 1 - (i - 1)) = j
      BY <1>i, <1>9, <2>2
    <3>2. c[j - 1] = b[j - 1 - (i - 1)]
      BY <1>7, <3>1
    <3>3. b[j - 1 - (i - 1)] = s[j]
      BY <1>5, <3>1
    <3> QED BY <1>9, <3>1, <3>2, <3>3
  <2> QED BY <1>2, <1>9, <2>1, <2>2
<1> QED BY <1>8, <1>10 DEF Occurs

LEMMA TailOccurs ==
    ASSUME NEW s \in Seq(Key), s # <<>>, IsInjective(s)
    PROVE  /\ IsInjective(Tail(s))
           /\ Occurs(Head(s), s)
           /\ \A k : Occurs(k, Tail(s)) <=> Occurs(k, s) /\ k # Head(s)
<1>1. PICK n \in Nat : n = Len(s) /\ n # 0 /\ DOMAIN s = 1..n
    BY LenProperties, EmptySeq
<1>2. PICK t \in Seq(Key) : t = Tail(s) /\ Len(t) = n - 1 /\ \A i \in 1..n - 1 : t[i] = s[i + 1]
  <2>1. /\ Tail(s) \in Seq(Key) /\ Len(Tail(s)) = Len(s) - 1
        /\ \A i \in 1..Len(Tail(s)) : Tail(s)[i] = s[i + 1]
    BY HeadTailProperties
  <2> QED BY <1>1, <2>1
<1>3. DOMAIN t = 1..n - 1 /\ Head(s) = s[1] /\ 1 \in 1..n
    BY <1>1, <1>2, LenProperties
<1>4. \A i, j \in 1..n : s[i] = s[j] => i = j
    BY <1>1 DEF IsInjective
<1>5. \A i \in 1..n - 1 : i + 1 \in 1..n /\ i + 1 # 1
    BY <1>1
<1>6. IsInjective(t)
  <2> SUFFICES ASSUME NEW i \in 1..n - 1, NEW j \in 1..n - 1, t[i] = t[j] PROVE i = j
    BY <1>3 DEF IsInjective
  <2>1. i + 1 = j + 1
    BY <1>2, <1>4, <1>5
  <2> QED BY <2>1
<1>7. Occurs(Head(s), s)
    BY <1>1, <1>3 DEF Occurs
<1>8. ASSUME NEW k, Occurs(k, t) PROVE Occurs(k, s) /\ k # Head(s)
  <2>1. PICK i \in 1..n - 1 : t[i] = k
    BY <1>3, <1>8 DEF Occurs
  <2>2. s[i + 1] = k /\ i + 1 \in 1..n /\ i + 1 # 1
    BY <1>2, <1>5, <2>1
  <2> QED BY <1>1, <1>3, <1>4, <2>2 DEF Occurs
<1>9. ASSUME NEW k, Occurs(k, s), k # Head(s) PROVE Occurs(k, t)
  <2>1. PICK i \in 1..n : s[i] = k /\ i # 1
    BY <1>1, <1>3, <1>9 DEF Occurs
  <2>2. i - 1 \in 1..n - 1 /\ i - 1 + 1 = i
    BY <1>1, <2>1
  <2>3. t[i - 1] = k
    BY <1>2, <2>1, <2>2
  <2> QED BY <1>3, <2>2, <2>3 DEF Occurs
<1> QED BY <1>2, <1>6, <1>7, <1>8, <1>9

USE LimitAssumption, TimeAssumption, AttemptAssumption

Row == RL!AuthRateLimit

\* An attempt under way is counted for some key.
LimitTypeInv ==
    /\ RL!TypeOK
    /\ \A h \in Handler : at[h] # "idle" => held[h].keys # <<>>

\* What an attempt has read and dated is of the past.
PastInv ==
    /\ LocksEnd
    /\ \A h \in Handler : held[h].at <= clock /\ held[h].row.from <= clock

-----------------------------------------------------------------------------

\* What is left of the keys once one is dealt with.
LEMMA TailType ==
    ASSUME NEW s \in Seq(Key), s # <<>>
    PROVE  /\ Head(s) \in Key /\ Tail(s) \in Seq(Key)
           /\ Len(s) = 1 <=> Tail(s) = <<>>
<1>1. /\ Head(s) \in Key /\ Tail(s) \in Seq(Key) /\ Len(Tail(s)) = Len(s) - 1
      /\ Len(s) \in Nat /\ Len(s) # 0
    BY HeadTailProperties, EmptySeq
<1>2. PICK t \in Seq(Key) : t = Tail(s)
    BY <1>1
<1>3. Len(t) = 0 <=> t = <<>>
    BY EmptySeq
<1>4. Len(t) = Len(s) - 1
    BY <1>1, <1>2
<1>5. PICK n, m : n = Len(s) /\ m = Len(t) /\ n \in Nat /\ m = n - 1
    BY <1>1, <1>4
<1>6. n = 1 <=> m = 0
    BY <1>5
<1>7. Len(s) = 1 <=> Tail(s) = <<>>
    BY <1>2, <1>3, <1>5, <1>6
<1> QED BY <1>1, <1>7

LEMMA RemoveAtType ==
    ASSUME NEW s \in Seq(Key), NEW i \in DOMAIN s, Len(s) # 1
    PROVE  RL!RemoveAt(s, i) \in Seq(Key) /\ RL!RemoveAt(s, i) # <<>>
<1>1. Len(s) \in Nat /\ i \in 1 .. Len(s) /\ \A j \in 1 .. Len(s) : s[j] \in Key
    BY LenProperties
<1>2. PICK a, b : a = SubSeq(s, 1, i - 1) /\ b = SubSeq(s, i + 1, Len(s))
    OBVIOUS
<1>3. a \in Seq(Key) /\ Len(a) = i - 1
  <2>1. i - 1 \in Int /\ \A j \in 1 .. i - 1 : s[j] \in Key
    BY <1>1
  <2>2. a \in Seq(Key) /\ Len(a) = IF 1 <= i - 1 THEN i - 1 - 1 + 1 ELSE 0
    BY <1>2, <2>1, SubSeqProperties
  <2> QED BY <1>1, <2>2
<1>4. b \in Seq(Key) /\ Len(b) = Len(s) - i
  <2>1. \A j \in i + 1 .. Len(s) : s[j] \in Key
    BY <1>1
  <2>2. b \in Seq(Key) /\ Len(b) = IF i + 1 <= Len(s) THEN Len(s) - (i + 1) + 1 ELSE 0
    BY <1>1, <1>2, <2>1, SubSeqProperties, SMTT(30)
  <2> QED BY <1>1, <2>2
<1>5. a \o b \in Seq(Key) /\ Len(a \o b) = Len(s) - 1
    BY <1>1, <1>3, <1>4, ConcatProperties, SMTT(30)
<1>6. a \o b # <<>>
    BY <1>1, <1>5, EmptySeq
<1>7. RL!RemoveAt(s, i) = a \o b
    BY <1>2 DEF RL!RemoveAt
<1> QED BY <1>5, <1>6, <1>7

\* A counter is at its limit exactly when it is locked, whatever it was before.
LEMMA CountedRow ==
    ASSUME NEW k \in Key, NEW read \in Row, NEW t \in 0 .. MaxTime
    PROVE  /\ RL!Counted(k, read, t) \in Row
           /\ RL!Counted(k, read, t).failures >= Limit[k] <=> RL!Counted(k, read, t).until # 0
           /\ RL!Counted(k, read, t).until <= t + Lockout
           /\ RL!Counted(k, read, t).from \in {read.from, t}
BY DEF RL!Counted, Row, RL!AuthRateLimit, RL!NoRow

\* An attempt that has read nothing.
LEMMA AttemptType ==
    ASSUME NEW keys \in Seq(Key), NEW todo \in Seq(Key), NEW t \in 0 .. MaxTime
    PROVE  /\ RL!Attempt(keys, todo, t) \in RL!Work
           /\ RL!Attempt(keys, todo, t).keys = keys
           /\ RL!Attempt(keys, todo, t).todo = todo
BY DEF RL!Attempt, RL!Work, RL!NoRow, RL!AuthRateLimit

LEMMA AttemptPast ==
    ASSUME NEW keys, NEW todo, NEW t
    PROVE  /\ RL!Attempt(keys, todo, t).at = t
           /\ RL!Attempt(keys, todo, t).row.from = 0
BY DEF RL!Attempt, RL!NoRow

LEMMA InitType == RL!Init => LimitTypeInv
BY DEF RL!Init, LimitTypeInv, RL!TypeOK, RL!AuthRateLimit, RL!NoRow, RL!NoWork, RL!Attempt, RL!Work, RL!Time

-----------------------------------------------------------------------------

LEMMA LimitTypeStep == LimitTypeInv /\ RL!Next => LimitTypeInv'
<1> SUFFICES ASSUME LimitTypeInv, RL!Next PROVE LimitTypeInv'
    OBVIOUS
<1> DEFINE Wk == RL!Work
           Label == {"idle", "look", "compare", "clear", "read", "write"}
           Open(label) == label \in {"look", "read", "write"}
           Fits(label, w) == /\ label \in Label /\ w \in Wk
                             /\ Open(label) <=> w.todo # <<>>
                             /\ label # "idle" => w.keys # <<>>
<1> USE DEF LimitTypeInv, RL!TypeOK, RL!Time
<1>n. RL!NoRow \in Row
    BY DEF Row, RL!NoRow, RL!AuthRateLimit
<1>w. \A h \in Handler : held[h] \in Wk /\ Fits(at[h], held[h])
    OBVIOUS
<1>g. ASSUME NEW h \in Handler, NEW label, NEW w, RL!Goto(h, label, w), Fits(label, w)
      PROVE  /\ at' \in [Handler -> Label] /\ held' \in [Handler -> Wk]
             /\ \A g \in Handler : Open(at'[g]) <=> held'[g].todo # <<>>
             /\ \A g \in Handler : at'[g] # "idle" => held'[g].keys # <<>>
    BY <1>g DEF RL!Goto
<1>f. RL!NoWork \in Wk /\ Fits("idle", RL!NoWork)
  <2>1. <<>> \in Seq(Key) /\ 0 \in 0 .. MaxTime
    BY EmptySeq
  <2> QED BY <2>1, AttemptType DEF RL!NoWork
<1> DEFINE Goes == /\ at' \in [Handler -> Label] /\ held' \in [Handler -> Wk]
                   /\ \A g \in Handler : Open(at'[g]) <=> held'[g].todo # <<>>
                   /\ \A g \in Handler : at'[g] # "idle" => held'[g].keys # <<>>
<1>1. CASE RL!Tick
    BY <1>1 DEF RL!Tick
<1>2. ASSUME NEW keys \in SUBSET Key, RL!Cleared(keys)
      PROVE  counter' \in [Key -> Row] /\ wrong' \in [Key -> Seq(RL!Time)]
  <2>1. PICK none \in Seq(RL!Time) : none = <<>>
    BY EmptySeq
  <2> HIDE DEF RL!Time
  <2> QED BY <1>2, <1>n, <2>1 DEF RL!Cleared, Row
<1>3. ASSUME NEW k \in Forgivable, RL!Forgive(k) PROVE LimitTypeInv'
    BY <1>2, <1>3 DEF RL!Forgive, Row
<1>4. ASSUME NEW h \in Handler, NEW keys \in attempts, RL!Start(h, keys) PROVE LimitTypeInv'
  <2>1. keys \in Seq(Key) /\ keys # <<>>
    OBVIOUS
  <2>2. PICK w : w = RL!Attempt(keys, keys, clock)
    OBVIOUS
  <2>3. Fits("look", w)
    BY <2>1, <2>2, AttemptType
  <2>4. RL!Goto(h, "look", w) /\ UNCHANGED <<attempts, oneByOne, clock, counter, wrong>>
    BY <1>4, <2>2 DEF RL!Start
  <2>5. Goes
    BY <1>g, <2>3, <2>4
  <2> QED BY <2>4, <2>5
<1>5. ASSUME NEW h \in Handler, RL!Look(h) PROVE LimitTypeInv'
  <2>1. UNCHANGED <<attempts, oneByOne, clock, counter, wrong>> /\ at[h] = "look"
    BY <1>5 DEF RL!Look
  <2>2. /\ held[h].keys \in Seq(Key) /\ held[h].todo \in Seq(Key) /\ held[h].todo # <<>>
        /\ held[h].keys # <<>> /\ held[h].at \in 0 .. MaxTime
    BY <1>w, <2>1 DEF RL!Work
  <2>3. PICK label, w, i :
          /\ i \in DOMAIN held[h].todo
          /\ RL!Goto(h, label, w)
          /\ \/ label = "idle" /\ w = RL!NoWork
             \/ label = "compare" /\ w = RL!Attempt(held[h].keys, <<>>, 0)
             \/ /\ Len(held[h].todo) # 1 /\ label = "look"
                /\ w = RL!Attempt(held[h].keys, RL!RemoveAt(held[h].todo, i), held[h].at)
    BY <1>5 DEF RL!Look, RL!Finish
  <2>4. Fits(label, w)
    <3>1. CASE label = "idle" /\ w = RL!NoWork
      BY <1>f, <3>1
    <3>2. CASE label = "compare" /\ w = RL!Attempt(held[h].keys, <<>>, 0)
      <4>1. <<>> \in Seq(Key) /\ 0 \in 0 .. MaxTime
        BY EmptySeq
      <4>2. PICK e \in Seq(Key), keys \in Seq(Key) : e = <<>> /\ keys = held[h].keys
        BY <2>2, <4>1
      <4>3. w = RL!Attempt(keys, e, 0)
        BY <3>2, <4>2, Zenon
      <4>4. w \in RL!Work /\ w.keys = keys /\ w.todo = e
        BY <4>1, <4>3, AttemptType
      <4> QED BY <2>2, <3>2, <4>2, <4>4
    <3>3. CASE /\ Len(held[h].todo) # 1 /\ label = "look"
               /\ w = RL!Attempt(held[h].keys, RL!RemoveAt(held[h].todo, i), held[h].at)
      <4>1. PICK todo : todo = RL!RemoveAt(held[h].todo, i)
        OBVIOUS
      <4>2. todo \in Seq(Key) /\ todo # <<>>
        <5>1. i \in DOMAIN held[h].todo
          BY <2>3
        <5> QED BY <2>2, <3>3, <4>1, <5>1, RemoveAtType
      <4>3. PICK keys \in Seq(Key), t \in 0 .. MaxTime : keys = held[h].keys /\ t = held[h].at
        BY <2>2
      <4>4. w \in RL!Work /\ w.keys = keys /\ w.todo = todo
        BY <3>3, <4>1, <4>2, <4>3, AttemptType
      <4> QED BY <2>2, <3>3, <4>2, <4>3, <4>4
    <3> QED BY <2>3, <3>1, <3>2, <3>3
  <2>5. Goes
    BY <1>g, <2>3, <2>4
  <2> QED BY <2>1, <2>5
<1>6. ASSUME NEW h \in Handler, RL!Compare(h) PROVE LimitTypeInv'
  <2>1. UNCHANGED <<attempts, oneByOne, clock, counter>> /\ at[h] = "compare"
    BY <1>6 DEF RL!Compare
  <2>2. wrong' \in [Key -> Seq(RL!Time)]
    <3>1. \A k \in Key : Append(wrong[k], clock) \in Seq(RL!Time)
      BY AppendProperties
    <3>2. PICK K : K = {k \in Key : oneByOne /\ \E i \in DOMAIN held[h].keys : held[h].keys[i] = k}
      OBVIOUS
    <3>3. \/ wrong' = wrong
          \/ wrong' = [k \in Key |-> IF k \in K THEN Append(wrong[k], clock) ELSE wrong[k]]
      BY <1>6, <3>2 DEF RL!Compare
    <3>4. CASE wrong' = [k \in Key |-> IF k \in K THEN Append(wrong[k], clock) ELSE wrong[k]]
      <4>1. PICK more : more = [k \in Key |-> Append(wrong[k], clock)]
        OBVIOUS
      <4>2. more \in [Key -> Seq(RL!Time)]
        BY <3>1, <4>1
      <4>3. wrong' = [k \in Key |-> IF k \in K THEN more[k] ELSE wrong[k]]
        BY <3>4, <4>1
      <4> HIDE DEF RL!Time
      <4> QED BY <4>2, <4>3
    <3> QED BY <3>3, <3>4
  <2>3. PICK label, w :
          /\ RL!Goto(h, label, w)
          /\ \/ label = "clear" /\ w = held[h]
             \/ label = "read" /\ w = RL!Attempt(held[h].keys, held[h].keys, clock)
    BY <1>6 DEF RL!Compare
  <2>4. held[h] \in Wk /\ held[h].keys # <<>> /\ held[h].todo = <<>>
    BY <1>w, <2>1
  <2>5. held[h].keys \in Seq(Key) /\ clock \in 0 .. MaxTime
    BY <2>4 DEF RL!Work
  <2>6. Fits(label, w)
    BY <2>3, <2>4, <2>5, AttemptType
  <2>7. Goes
    BY <1>g, <2>3, <2>6
  <2> QED BY <2>1, <2>2, <2>7
<1>7. ASSUME NEW h \in Handler, RL!Clear(h) PROVE LimitTypeInv'
  <2>1. /\ UNCHANGED <<attempts, oneByOne, clock>> /\ RL!Goto(h, "idle", RL!NoWork)
    BY <1>7 DEF RL!Clear, RL!Finish
  <2>2. PICK keys : keys = {held[h].keys[i] : i \in DOMAIN held[h].keys}
    OBVIOUS
  <2>3. keys \in SUBSET Key
    BY <1>w, <2>2 DEF RL!Work
  <2>4. RL!Cleared(keys)
    BY <1>7, <2>2 DEF RL!Clear
  <2>5. counter' \in [Key -> Row] /\ wrong' \in [Key -> Seq(RL!Time)]
    BY <1>2, <2>3, <2>4
  <2>6. Goes
    BY <1>f, <1>g, <2>1
  <2> QED BY <2>1, <2>5, <2>6 DEF Row
<1>8. ASSUME NEW h \in Handler, RL!ReadRow(h) PROVE LimitTypeInv'
  <2>1. UNCHANGED <<attempts, oneByOne, clock, counter, wrong>> /\ at[h] = "read"
    BY <1>8 DEF RL!ReadRow
  <2>2. held[h].todo \in Seq(Key) /\ held[h].todo # <<>> /\ held[h].keys # <<>>
    BY <1>w, <2>1 DEF RL!Work
  <2>3. counter[Head(held[h].todo)] \in Row
    BY <2>2, TailType DEF Row
  <2>4. PICK w : w = [held[h] EXCEPT !.row = counter[Head(held[h].todo)]]
    OBVIOUS
  <2>5. Fits("write", w)
    BY <1>w, <2>2, <2>3, <2>4 DEF RL!Work, Row
  <2>6. Goes
    BY <1>8, <1>g, <2>4, <2>5 DEF RL!ReadRow
  <2> QED BY <2>1, <2>6
<1>9. ASSUME NEW h \in Handler, RL!WriteRow(h) PROVE LimitTypeInv'
  <2>1. UNCHANGED <<attempts, oneByOne, clock, wrong>> /\ at[h] = "write"
    BY <1>9 DEF RL!WriteRow
  <2>2. /\ held[h].keys \in Seq(Key) /\ held[h].todo \in Seq(Key)
        /\ held[h].todo # <<>> /\ held[h].keys # <<>> /\ held[h].row \in Row /\ held[h].at \in 0 .. MaxTime
    BY <1>w, <2>1 DEF RL!Work, Row
  <2>3. PICK k \in Key : k = Head(held[h].todo)
    BY <2>2, TailType
  <2>4. PICK new \in Row : new = RL!Counted(k, held[h].row, held[h].at)
    BY <2>2, CountedRow
  <2>5. PICK label, w :
          /\ RL!Goto(h, label, w)
          /\ \/ label = "idle" /\ w = RL!NoWork
             \/ /\ Len(held[h].todo) # 1 /\ label = "read"
                /\ w = RL!Attempt(held[h].keys, Tail(held[h].todo), held[h].at)
    BY <1>9 DEF RL!WriteRow, RL!Finish
  <2>6. Fits(label, w)
    <3>1. CASE label = "idle" /\ w = RL!NoWork
      BY <1>f, <3>1
    <3>2. CASE /\ Len(held[h].todo) # 1 /\ label = "read"
               /\ w = RL!Attempt(held[h].keys, Tail(held[h].todo), held[h].at)
      <4>1. PICK todo : todo = Tail(held[h].todo)
        OBVIOUS
      <4>2. todo \in Seq(Key) /\ todo # <<>>
        BY <2>2, <3>2, <4>1, TailType
      <4>3. PICK keys \in Seq(Key), t \in 0 .. MaxTime : keys = held[h].keys /\ t = held[h].at
        BY <2>2
      <4>4. w = RL!Attempt(keys, todo, t)
        BY <3>2, <4>1, <4>3, Zenon
      <4>5. w \in RL!Work /\ w.keys = keys /\ w.todo = todo
        BY <4>2, <4>4, AttemptType
      <4> QED BY <2>2, <3>2, <4>2, <4>3, <4>5
    <3> QED BY <2>5, <3>1, <3>2
  <2>7. Goes
    BY <1>g, <2>5, <2>6
  <2>8. counter' = counter \/ counter' = [counter EXCEPT ![k] = new]
    BY <1>9, <2>3, <2>4 DEF RL!WriteRow
  <2> QED BY <2>1, <2>7, <2>8, ZenonT(30) DEF Row
<1> QED BY <1>1, <1>3, <1>4, <1>5, <1>6, <1>7, <1>8, <1>9 DEF RL!Next

-----------------------------------------------------------------------------

LEMMA InitPast == RL!Init => PastInv
BY DEF RL!Init, PastInv, LocksEnd, RL!LocksEnd, RL!NoRow, RL!NoWork, RL!Attempt

LEMMA PastStep == LimitTypeInv /\ PastInv /\ RL!Next => PastInv'
<1> SUFFICES ASSUME LimitTypeInv, PastInv, RL!Next PROVE PastInv'
    OBVIOUS
<1> DEFINE Ends(k, r) == /\ r.failures >= Limit[k] <=> r.until # 0
                         /\ r.until <= clock + Lockout
                         /\ r.from <= clock
           Past(w) == w.at <= clock /\ w.row.from <= clock
<1> USE DEF RL!Time
<1>t. clock \in 1 .. MaxTime /\ counter \in [Key -> Row] /\ held \in [Handler -> RL!Work]
    BY DEF LimitTypeInv, RL!TypeOK, Row
<1>p. /\ \A k \in Key : Ends(k, counter[k])
      /\ \A h \in Handler : Past(held[h])
    BY DEF PastInv, LocksEnd, RL!LocksEnd
<1>n. \A k \in Key : Ends(k, RL!NoRow)
    BY <1>t DEF RL!NoRow
<1>w. \A keys, todo, t : t <= clock => Past(RL!Attempt(keys, todo, t))
    BY <1>t, AttemptPast
<1>o. Past(RL!NoWork)
    BY <1>t, <1>w DEF RL!NoWork
<1>q. ASSUME clock' = clock, \A k \in Key : Ends(k, counter'[k]), \A h \in Handler : Past(held'[h])
      PROVE  PastInv'
    BY <1>q DEF PastInv, LocksEnd, RL!LocksEnd
<1>g. ASSUME NEW h \in Handler, NEW label, NEW w, RL!Goto(h, label, w), Past(w)
      PROVE  \A g \in Handler : Past(held'[g])
    BY <1>g, <1>p, <1>t DEF RL!Goto
<1>1. CASE RL!Tick
  <2>1. clock' = clock + 1 /\ UNCHANGED <<counter, held>>
    BY <1>1 DEF RL!Tick
  <2> QED BY <1>p, <1>t, <2>1 DEF PastInv, LocksEnd, RL!LocksEnd, Row, RL!AuthRateLimit, RL!Work
<1>2. ASSUME NEW keys, RL!Cleared(keys) PROVE \A k \in Key : Ends(k, counter'[k])
    BY <1>2, <1>n, <1>p DEF RL!Cleared
<1>3. ASSUME NEW k \in Forgivable, RL!Forgive(k) PROVE PastInv'
    BY <1>2, <1>3, <1>p, <1>q DEF RL!Forgive
<1>4. ASSUME NEW h \in Handler, NEW keys, RL!Start(h, keys) PROVE PastInv'
  <2>1. PICK w : w = RL!Attempt(keys, keys, clock)
    OBVIOUS
  <2>2. Past(w)
    BY <1>t, <1>w, <2>1
  <2>3. RL!Goto(h, "look", w) /\ UNCHANGED <<clock, counter>>
    BY <1>4, <2>1 DEF RL!Start
  <2>4. \A g \in Handler : Past(held'[g])
    BY <1>g, <2>2, <2>3
  <2> QED BY <1>p, <1>q, <2>3, <2>4
<1>5. ASSUME NEW h \in Handler, RL!Look(h) PROVE PastInv'
  <2>1. PICK label, w :
          /\ RL!Goto(h, label, w)
          /\ \/ w = RL!NoWork
             \/ w = RL!Attempt(held[h].keys, <<>>, 0)
             \/ \E todo : w = RL!Attempt(held[h].keys, todo, held[h].at)
    BY <1>5 DEF RL!Look, RL!Finish
  <2>2. Past(w)
    <3>1. Past(held[h])
      BY <1>p
    <3> QED BY <1>o, <1>t, <1>w, <2>1, <3>1
  <2>3. \A g \in Handler : Past(held'[g])
    BY <1>g, <2>1, <2>2
  <2> QED BY <1>5, <1>p, <1>q, <2>3 DEF RL!Look
<1>6. ASSUME NEW h \in Handler, RL!Compare(h) PROVE PastInv'
  <2>1. PICK label, w :
          /\ RL!Goto(h, label, w)
          /\ \/ w = held[h]
             \/ w = RL!Attempt(held[h].keys, held[h].keys, clock)
    BY <1>6 DEF RL!Compare
  <2>2. Past(w)
    <3>1. Past(held[h])
      BY <1>p
    <3> QED BY <1>t, <1>w, <2>1, <3>1
  <2>3. \A g \in Handler : Past(held'[g])
    BY <1>g, <2>1, <2>2
  <2> QED BY <1>6, <1>p, <1>q, <2>3 DEF RL!Compare
<1>7. ASSUME NEW h \in Handler, RL!Clear(h) PROVE PastInv'
  <2>1. RL!Goto(h, "idle", RL!NoWork) /\ clock' = clock
    BY <1>7 DEF RL!Clear, RL!Finish
  <2>2. \A k \in Key : Ends(k, counter'[k])
    BY <1>2, <1>7 DEF RL!Clear
  <2>3. \A g \in Handler : Past(held'[g])
    BY <1>g, <1>o, <2>1
  <2> QED BY <1>q, <2>1, <2>2, <2>3
<1>8. ASSUME NEW h \in Handler, RL!ReadRow(h) PROVE PastInv'
  <2>1. /\ UNCHANGED <<clock, counter>> /\ at[h] = "read"
        /\ RL!Goto(h, "write", [held[h] EXCEPT !.row = counter[Head(held[h].todo)]])
    BY <1>8 DEF RL!ReadRow
  <2>2. Head(held[h].todo) \in Key
    BY <2>1, TailType DEF LimitTypeInv, RL!TypeOK, RL!Work
  <2>3. PICK w : w = [held[h] EXCEPT !.row = counter[Head(held[h].todo)]]
    OBVIOUS
  <2>4. Past(w)
    <3>1. Past(held[h]) /\ Ends(Head(held[h].todo), counter[Head(held[h].todo)])
      BY <1>p, <2>2
    <3> QED BY <1>t, <2>3, <3>1 DEF RL!Work
  <2>5. \A g \in Handler : Past(held'[g])
    BY <1>g, <2>1, <2>3, <2>4
  <2> QED BY <1>p, <1>q, <2>1, <2>5
<1>9. ASSUME NEW h \in Handler, RL!WriteRow(h) PROVE PastInv'
  <2>1. clock' = clock /\ at[h] = "write"
    BY <1>9 DEF RL!WriteRow
  <2>2. /\ Head(held[h].todo) \in Key /\ held[h].row \in Row /\ held[h].at \in 0 .. MaxTime
        /\ held[h].at <= clock /\ held[h].row.from <= clock
    BY <1>p, <2>1, TailType DEF LimitTypeInv, RL!TypeOK, RL!Work, Row
  <2>3. PICK k \in Key : k = Head(held[h].todo)
    BY <2>2
  <2>4. PICK new \in Row : new = RL!Counted(k, held[h].row, held[h].at)
    BY <2>2, CountedRow
  <2>5. Ends(k, new)
    <3>1. PICK r \in Row, t \in 0 .. MaxTime : r = held[h].row /\ t = held[h].at
      BY <2>2
    <3>2. new = RL!Counted(k, r, t) /\ t <= clock /\ r.from <= clock
      BY <2>2, <2>4, <3>1
    <3>3. /\ new.failures >= Limit[k] <=> new.until # 0
          /\ new.until <= t + Lockout
          /\ new.from \in {r.from, t}
      BY <3>2, CountedRow
    <3>4. PICK c \in Nat, n \in Nat : c = clock /\ n = Lockout
      <4>1. MaxTime \in Nat /\ Lockout \in Nat
        BY TimeAssumption
      <4>2. clock \in Nat
        BY <1>t, <4>1
      <4> QED BY <4>1, <4>2
    <3>5. new.until \in Int /\ r.from \in Int /\ t \in Int
      BY DEF Row, RL!AuthRateLimit
    <3>6. new.until <= c + n /\ new.from <= c
      BY <3>2, <3>3, <3>4, <3>5
    <3> QED BY <3>3, <3>4, <3>6
  <2>6. counter' = counter \/ counter' = [counter EXCEPT ![k] = new]
    BY <1>9, <2>3, <2>4 DEF RL!WriteRow
  <2>7. \A j \in Key : Ends(j, counter'[j])
    BY <1>p, <1>t, <2>5, <2>6
  <2>8. PICK label, w :
          /\ RL!Goto(h, label, w)
          /\ w = RL!NoWork \/ w = RL!Attempt(held[h].keys, Tail(held[h].todo), held[h].at)
    BY <1>9 DEF RL!WriteRow, RL!Finish
  <2>9. Past(w)
    BY <1>o, <1>w, <2>2, <2>8
  <2>10. \A g \in Handler : Past(held'[g])
    BY <1>g, <2>8, <2>9
  <2> QED BY <1>q, <2>1, <2>7, <2>10
<1> QED BY <1>1, <1>3, <1>4, <1>5, <1>6, <1>7, <1>8, <1>9 DEF RL!Next

-----------------------------------------------------------------------------

LEMMA GuardsTypeInv == GuardsSpec => []LimitTypeInv
<1>1. GuardsInit => LimitTypeInv
    BY InitType DEF GuardsInit
<1>2. LimitTypeInv /\ [Codes \/ Counters]_<<vars, guarded, limits>> => LimitTypeInv'
  <2>1. LimitTypeInv /\ UNCHANGED limits => LimitTypeInv'
    BY DEF limits, LimitTypeInv, RL!TypeOK
  <2> QED BY <2>1, LimitTypeStep DEF Codes, Counters
<1> QED BY <1>1, <1>2, PTL DEF GuardsSpec

\* What login-rate-limit.ts keeps of each key, and what an attempt carries from
\* one statement to the next, has its type.
THEOREM LimitTypeCorrect == GuardsSpec => []RL!TypeOK
<1>1. LimitTypeInv => RL!TypeOK
    BY DEF LimitTypeInv
<1> QED BY <1>1, GuardsTypeInv, PTL

-----------------------------------------------------------------------------
(* Attempts one at a time: what the row of a key says of the wrong answers  *)
(* since it was cleared.  They come in counts of which each is at most as   *)
(* long as the limit; the row is about the last one.  A count that locked   *)
(* is followed by the next after the lockout, another one after the window. *)

\* The row after the wrong answers at times s.
Tally(k, s, r) ==
    LET n == Len(s)
        first == n - r.failures + 1
    IN  /\ r = RL!NoRow <=> s = <<>>
        /\ r # RL!NoRow => r.failures \in 1..n /\ r.from = s[first]
        /\ r.failures <= Limit[k]
        /\ r.failures < Limit[k] => r.until = 0
        /\ r.failures = Limit[k] => r.until = s[n] + Lockout
        /\ \A i \in 1..n : first - i >= Limit[k] - 1 => r.from - s[i] >= Window[k]
        /\ \A i, j \in 1..n : j - i >= 2 * Limit[k] - 2 => s[j] - s[i] >= Window[k]

\* Times in order, until t.
Ordered(s, t) ==
    /\ \A i, j \in 1..Len(s) : i <= j => s[i] <= s[j]
    /\ \A i \in 1..Len(s) : s[i] <= t

LEMMA OrderedMore ==
    ASSUME NEW s \in Seq(RL!Time), NEW t \in RL!Time, Ordered(s, t)
    PROVE  Ordered(Append(s, t), t)
<1>1. PICK u : u = Append(s, t)
    OBVIOUS
<1>2. PICK n \in Nat : n = Len(s)
    BY LenProperties
<1>3. /\ Len(u) = n + 1 /\ u[n + 1] = t
      /\ \A i \in 1..n : u[i] = s[i]
    BY <1>1, <1>2, AppendProperties
<1>4. \A i \in 1..n + 1 : i \in 1..n \/ i = n + 1
    OBVIOUS
<1>5. t \in Int
    BY DEF RL!Time
<1>6. \A i \in 1..n + 1 : u[i] <= t
    BY <1>2, <1>3, <1>4, <1>5 DEF Ordered
<1>7. \A i, j \in 1..n + 1 : i <= j => u[i] <= u[j]
    BY <1>2, <1>3, <1>4, <1>6, SMTT(30) DEF Ordered
<1> QED BY <1>1, <1>3, <1>6, <1>7 DEF Ordered

\* upsertFailure: a failure once the lock is over is counted on, or begins a count,
\* and twice the limit, less two, are never within a window.
LEMMA TallyMore ==
    ASSUME NEW k \in Key, NEW s \in Seq(RL!Time), NEW r \in Row, NEW t \in RL!Time,
           Tally(k, s, r), Ordered(s, t), r.until <= t
    PROVE  Tally(k, Append(s, t), RL!Counted(k, r, t))
<1>1. PICK u : u = Append(s, t)
    OBVIOUS
<1>2. PICK n \in Nat : n = Len(s) /\ \A i \in 1..n : s[i] \in Nat /\ s[i] # 0
    BY LenProperties, SMTT(30) DEF RL!Time
<1>3. /\ u # <<>> /\ Len(u) = n + 1 /\ u[n + 1] = t
      /\ \A i \in 1..n : u[i] = s[i]
    BY <1>1, <1>2, AppendProperties
<1>4. PICK L \in Nat, W \in Nat, O \in Nat :
         L = Limit[k] /\ W = Window[k] /\ O = Lockout /\ L >= 2 /\ W <= O /\ W >= 1
    BY LimitAssumption, TimeAssumption
<1>5. /\ r = RL!NoRow <=> s = <<>>
      /\ r # RL!NoRow => r.failures \in 1..n /\ r.from = s[n - r.failures + 1]
      /\ r.failures <= L
      /\ r.failures < L => r.until = 0
      /\ r.failures = L => r.until = s[n] + O
      /\ \A i \in 1..n : n - r.failures + 1 - i >= L - 1 => r.from - s[i] >= W
      /\ \A i, j \in 1..n : j - i >= 2 * L - 2 => s[j] - s[i] >= W
    BY <1>2, <1>4 DEF Tally
<1>6. /\ \A i, j \in 1..n : i <= j => s[i] <= s[j]
      /\ \A i \in 1..n : s[i] <= t
      /\ t \in Nat /\ t >= 1
    BY <1>2 DEF Ordered, RL!Time
<1>7. PICK f \in Nat, from \in Nat, until \in Nat :
         f = r.failures /\ from = r.from /\ until = r.until
    BY DEF Row, RL!AuthRateLimit
<1>8. s = <<>> <=> n = 0
    BY <1>2, EmptySeq
<1>9. r = RL!NoRow => f = 0
    BY <1>7 DEF RL!NoRow
<1>a. r # RL!NoRow => f \in 1..n /\ from = s[n - f + 1] /\ n - f + 1 \in 1..n /\ n \in 1..n
  <2> SUFFICES ASSUME r # RL!NoRow PROVE f \in 1..n /\ from = s[n - f + 1] /\ n - f + 1 \in 1..n /\ n \in 1..n
    OBVIOUS
  <2>1. r.failures \in 1..n /\ r.from = s[n - r.failures + 1]
    BY <1>5
  <2>2. f \in 1..n /\ from = s[n - f + 1]
    BY <1>7, <2>1
  <2> QED BY <2>2
<1> DEFINE over == r = RL!NoRow \/ t - from > W \/ (until # 0 /\ until <= t)
<1>10. PICK new, g :
          /\ g \in Nat
          /\ new = RL!Counted(k, r, t)
          /\ g = (IF over THEN 1 ELSE f + 1)
          /\ new.failures = g
          /\ new.from = (IF over THEN t ELSE from)
          /\ new.until = (IF g >= L THEN t + O ELSE 0)
  <2>1. PICK g \in Nat : g = (IF over THEN 1 ELSE f + 1)
    BY <1>7
  <2>2. RL!Counted(k, r, t) = [failures |-> g, from |-> IF over THEN t ELSE from,
                               until |-> IF g >= L THEN t + O ELSE 0]
    BY <1>4, <1>7, <2>1 DEF RL!Counted
  <2> HIDE DEF over
  <2> QED BY <2>1, <2>2
<1>11. new # RL!NoRow
    BY <1>7, <1>10 DEF RL!NoRow
<1>12. CASE over
  <2>1. g = 1 /\ new.from = t /\ new.until = 0
    BY <1>4, <1>10, <1>12
  <2>2. ASSUME NEW i \in 1..n, n + 1 - i >= L - 1 PROVE t - s[i] >= W
    <3>1. n # 0 /\ r # RL!NoRow
      BY <1>5, <1>8
    <3>2. f \in 1..n /\ from = s[n - f + 1] /\ n - f + 1 \in 1..n /\ n \in 1..n
      BY <1>a, <3>1
    <3>3. CASE f = L
      <4>1. until = s[n] + O /\ s[i] <= s[n]
        BY <1>5, <1>6, <1>7, <3>2, <3>3
      <4>2. until <= t
        BY <1>7
      <4> QED BY <1>2, <1>4, <1>6, <3>2, <4>1, <4>2
    <3>4. CASE f # L
      <4>1. f < L /\ until = 0
        BY <1>5, <1>7, <3>4, <1>4
      <4>2. t - from > W
        BY <1>12, <3>1, <4>1
      <4>3. i <= n - f + 1
        BY <1>4, <2>2, <4>1
      <4>4. s[i] <= from
        BY <1>6, <3>2, <4>3
      <4> QED BY <1>2, <1>4, <1>6, <4>2, <4>4
    <3> QED BY <3>3, <3>4
  <2>3. \A i \in 1..n + 1 : n + 1 - i >= L - 1 => t - u[i] >= W
    <3>1. \A i \in 1..n + 1 : n + 1 - i >= L - 1 => i \in 1..n
      BY <1>4
    <3> QED BY <1>3, <2>2, <3>1
  <2>4. \A i, j \in 1..n + 1 : j - i >= 2 * L - 2 => u[j] - u[i] >= W
    <3> SUFFICES ASSUME NEW i \in 1..n + 1, NEW j \in 1..n + 1, j - i >= 2 * L - 2 PROVE u[j] - u[i] >= W
      OBVIOUS
    <3>1. i \in 1..n
      BY <1>4
    <3>2. CASE j \in 1..n
      BY <1>3, <1>5, <3>1, <3>2
    <3>3. CASE j = n + 1
      <4>1. n + 1 - i >= L - 1
        BY <1>4, <3>3
      <4> QED BY <1>3, <2>3, <3>3, <4>1
    <3> QED BY <3>2, <3>3
  <2>5. \A i \in 1..n + 1 : n + 1 - g + 1 - i >= L - 1 => new.from - u[i] >= W
    BY <2>1, <2>3
  <2>6. g \in 1..n + 1 /\ new.from = u[n + 1 - g + 1] /\ g < L
    BY <1>3, <1>4, <2>1
  <2>7. Tally(k, u, new)
    BY <1>3, <1>4, <1>10, <1>11, <2>1, <2>4, <2>5, <2>6 DEF Tally
  <2> QED BY <1>1, <1>10, <2>7
<1>13. CASE ~over
  <2>1. g = f + 1 /\ new.from = from /\ r # RL!NoRow
    BY <1>10, <1>13
  <2>2. f \in 1..n /\ from = s[n - f + 1] /\ n - f + 1 \in 1..n /\ n \in 1..n
    BY <1>a, <2>1
  <2>3. f < L
    <3>1. n \in 1..n /\ s[n] \in Nat /\ s[n] # 0
      BY <1>2, <2>2
    <3>2. f = L => until # 0
      BY <1>4, <1>5, <1>7, <3>1
    <3> QED BY <1>4, <1>5, <1>7, <1>13, <3>2
  <2>4. new.until = (IF g = L THEN u[n + 1] + O ELSE 0) /\ g <= L
    BY <1>3, <1>4, <1>10, <2>1, <2>3
  <2>5. \A i \in 1..n + 1 : n + 1 - g + 1 - i >= L - 1 => new.from - u[i] >= W
    <3> SUFFICES ASSUME NEW i \in 1..n + 1, n + 1 - g + 1 - i >= L - 1 PROVE new.from - u[i] >= W
      OBVIOUS
    <3>1. i \in 1..n /\ n - f + 1 - i >= L - 1
      BY <1>4, <2>1, <2>2
    <3> QED BY <1>3, <1>5, <1>7, <2>1, <3>1
  <2>6. \A i, j \in 1..n + 1 : j - i >= 2 * L - 2 => u[j] - u[i] >= W
    <3> SUFFICES ASSUME NEW i \in 1..n + 1, NEW j \in 1..n + 1, j - i >= 2 * L - 2 PROVE u[j] - u[i] >= W
      OBVIOUS
    <3>1. i \in 1..n
      BY <1>4
    <3>2. CASE j \in 1..n
      BY <1>3, <1>5, <3>1, <3>2
    <3>3. CASE j = n + 1
      <4>1. n - f + 1 - i >= L - 1
        BY <1>4, <2>2, <2>3, <3>3
      <4>2. from - s[i] >= W
        BY <1>5, <1>7, <3>1, <4>1
      <4>3. from <= t
        BY <1>6, <2>2
      <4>4. s[i] \in Nat /\ u[i] = s[i] /\ u[j] = t
        BY <1>2, <1>3, <3>1, <3>3
      <4> QED BY <1>4, <1>6, <4>2, <4>3, <4>4, SMTT(30)
    <3> QED BY <3>2, <3>3
  <2>7. g \in 1..n + 1 /\ new.from = u[n + 1 - g + 1]
    <3>1. n + 1 - g + 1 = n - f + 1
      BY <2>1
    <3> QED BY <1>3, <2>1, <2>2, <3>1
  <2>8. Tally(k, u, new)
    BY <1>3, <1>4, <1>10, <1>11, <2>4, <2>5, <2>6, <2>7 DEF Tally
  <2> QED BY <1>1, <1>10, <2>8
<1> QED BY <1>12, <1>13

Counting(l) == l \in {"read", "write"}
Settled(k) == Tally(k, wrong[k], counter[k]) /\ Ordered(wrong[k], clock)

\* The wrong answer in hand is in the history and not yet in the row.
Owed(k, t) ==
    /\ counter[k].until <= t
    /\ \E s \in Seq(RL!Time) : wrong[k] = Append(s, t) /\ Tally(k, s, counter[k]) /\ Ordered(s, t)

\* What the only attempt in flight knows at a step.
Stage(l, w) ==
    /\ l = "look" => \A k \in Key : Occurs(k, w.keys) => Occurs(k, w.todo) \/ counter[k].until <= w.at
    /\ l = "compare" => \A k \in Key : Occurs(k, w.keys) => counter[k].until <= clock
    /\ Counting(l) => IsInjective(w.todo) /\ \A k \in Key : Occurs(k, w.todo) => Owed(k, w.at)
    /\ l = "write" => w.row = counter[Head(w.todo)]

DistinctKeys == \A h \in Handler : at[h] # "idle" => IsInjective(held[h].keys)
Uncounted == ~oneByOne => \A k \in Key : wrong[k] = <<>>
Sole == \A h, g \in Handler : at[h] # "idle" /\ at[g] # "idle" => h = g
SettledElse ==
    \A k \in Key : (\A h \in Handler : ~(Counting(at[h]) /\ Occurs(k, held[h].todo))) => Settled(k)
CountInv ==
    /\ DistinctKeys
    /\ Uncounted
    /\ oneByOne => Sole /\ SettledElse /\ \A h \in Handler : Stage(at[h], held[h])

-----------------------------------------------------------------------------

LEMMA TallyNone == ASSUME NEW k \in Key PROVE Tally(k, <<>>, RL!NoRow)
<1>1. PICK L \in Nat : L = Limit[k] /\ L >= 2
    BY LimitAssumption
<1>2. PICK e : e = <<>> /\ Len(e) = 0
    BY EmptySeq
<1>3. Tally(k, e, RL!NoRow)
    BY <1>1, <1>2 DEF Tally, RL!NoRow
<1> QED BY <1>2, <1>3

LEMMA OrderedNone == ASSUME NEW t PROVE Ordered(<<>>, t)
<1>1. PICK e : e = <<>> /\ Len(e) = 0
    BY EmptySeq
<1>2. Ordered(e, t)
    BY <1>1 DEF Ordered
<1> QED BY <1>1, <1>2

\* Time in order, and later.
LEMMA OrderedLater ==
    ASSUME NEW s \in Seq(RL!Time), NEW t \in Int, NEW u \in Int, Ordered(s, t), t <= u
    PROVE  Ordered(s, u)
<1>1. \A i \in 1..Len(s) : s[i] \in Int
    BY LenProperties DEF RL!Time
<1> QED BY <1>1 DEF Ordered

LEMMA InitCount == RL!Init => CountInv
<1> SUFFICES ASSUME RL!Init PROVE CountInv
    OBVIOUS
<1>1. /\ at = [h \in Handler |-> "idle"]
      /\ counter = [k \in Key |-> RL!NoRow] /\ wrong = [k \in Key |-> <<>>]
    BY DEF RL!Init
<1>2. SettledElse
    BY <1>1, TallyNone, OrderedNone DEF SettledElse, Settled
<1>3. \A h \in Handler : Stage(at[h], held[h])
    BY <1>1 DEF Stage, Counting
<1> QED BY <1>1, <1>2, <1>3 DEF CountInv, DistinctKeys, Uncounted, Sole

\* The keys of an attempt are those of an attempt that may be made.
LEMMA KeysStep == LimitTypeInv /\ DistinctKeys /\ RL!Next => DistinctKeys'
<1> SUFFICES ASSUME LimitTypeInv, DistinctKeys, RL!Next PROVE DistinctKeys'
    OBVIOUS
<1>g. ASSUME NEW h \in Handler, NEW label, NEW w, RL!Goto(h, label, w),
             label = "idle" \/ (at[h] # "idle" /\ w.keys = held[h].keys) \/ IsInjective(w.keys)
      PROVE  DistinctKeys'
    BY <1>g DEF DistinctKeys, RL!Goto, LimitTypeInv, RL!TypeOK
<1>w. \A keys, todo, t : RL!Attempt(keys, todo, t).keys = keys
    BY DEF RL!Attempt
<1>1. CASE RL!Tick \/ (\E k \in Forgivable : RL!Forgive(k))
    BY <1>1 DEF RL!Tick, RL!Forgive, DistinctKeys
<1>2. ASSUME NEW h \in Handler, NEW keys \in attempts, RL!Start(h, keys) PROVE DistinctKeys'
  <2>1. IsInjective(keys)
    BY AttemptAssumption DEF LimitTypeInv, RL!TypeOK
  <2> QED BY <1>2, <1>g, <1>w, <2>1 DEF RL!Start
<1>3. ASSUME NEW h \in Handler, RL!Look(h) PROVE DistinctKeys'
  <2>1. PICK label, w :
          /\ RL!Goto(h, label, w)
          /\ \/ label = "idle"
             \/ w = RL!Attempt(held[h].keys, <<>>, 0)
             \/ \E todo : w = RL!Attempt(held[h].keys, todo, held[h].at)
    BY <1>3 DEF RL!Look, RL!Finish
  <2> QED BY <1>3, <1>g, <1>w, <2>1 DEF RL!Look
<1>4. ASSUME NEW h \in Handler, RL!Compare(h) PROVE DistinctKeys'
    BY <1>4, <1>g, <1>w DEF RL!Compare
<1>5. ASSUME NEW h \in Handler, RL!Clear(h) PROVE DistinctKeys'
    BY <1>5, <1>g DEF RL!Clear, RL!Finish
<1>6. ASSUME NEW h \in Handler, RL!ReadRow(h) PROVE DistinctKeys'
  <2>1. PICK w : w = [held[h] EXCEPT !.row = counter[Head(held[h].todo)]]
    OBVIOUS
  <2>2. w.keys = held[h].keys
    BY <2>1 DEF LimitTypeInv, RL!TypeOK, RL!Work
  <2> QED BY <1>6, <1>g, <2>1, <2>2 DEF RL!ReadRow
<1>7. ASSUME NEW h \in Handler, RL!WriteRow(h) PROVE DistinctKeys'
    BY <1>7, <1>g, <1>w DEF RL!WriteRow, RL!Finish
<1> QED BY <1>1, <1>2, <1>3, <1>4, <1>5, <1>6, <1>7 DEF RL!Next

\* Attempts that overlap keep no history.
LEMMA UncountedStep == LimitTypeInv /\ Uncounted /\ RL!Next => Uncounted'
<1> SUFFICES ASSUME LimitTypeInv, Uncounted, RL!Next PROVE Uncounted'
    OBVIOUS
<1>1. ASSUME NEW keys, RL!Cleared(keys), ~oneByOne PROVE \A k \in Key : wrong'[k] = <<>>
    BY <1>1 DEF RL!Cleared, Uncounted
<1>2. ASSUME NEW h \in Handler, RL!Compare(h), ~oneByOne PROVE wrong' = wrong
    BY <1>2 DEF RL!Compare, LimitTypeInv, RL!TypeOK
<1>3. oneByOne \/ UNCHANGED wrong \/ (\E keys : RL!Cleared(keys))
    BY <1>2, ZenonT(30) DEF RL!Next, RL!Tick, RL!Forgive, RL!Start, RL!Look, RL!Clear, RL!ReadRow, RL!WriteRow
<1>4. UNCHANGED oneByOne
    BY DEF RL!Next, RL!Tick, RL!Forgive, RL!Start, RL!Look, RL!Compare, RL!Clear, RL!ReadRow, RL!WriteRow
<1> QED BY <1>1, <1>3, <1>4 DEF Uncounted

-----------------------------------------------------------------------------
(* The steps of the only attempt in flight. *)

Only(h) == \A g \in Handler : g # h => at[g] = "idle"

\* What there is to show of a step of the only attempt.
LEMMA OneGoes ==
    ASSUME LimitTypeInv, NEW h \in Handler, NEW l, NEW w, Only(h), RL!Goto(h, l, w),
           \A k \in Key : ~(Counting(l) /\ Occurs(k, w.todo)) => Settled(k)',
           Stage(l, w)'
    PROVE  Sole' /\ SettledElse' /\ \A g \in Handler : Stage(at[g], held[g])'
<1>1. /\ at'[h] = l /\ held'[h] = w
      /\ \A g \in Handler : g # h => at'[g] = "idle"
    BY DEF RL!Goto, Only, LimitTypeInv, RL!TypeOK
<1>2. Sole'
    BY <1>1 DEF Sole
<1>3. SettledElse'
    BY <1>1 DEF SettledElse
<1>4. ASSUME NEW g \in Handler PROVE Stage(at[g], held[g])'
  <2>1. CASE g = h
    BY <1>1, <2>1
  <2>2. CASE g # h
    BY <1>1, <2>2 DEF Stage, Counting
  <2> QED BY <2>1, <2>2
<1> QED BY <1>2, <1>3, <1>4

\* While rows, history and time stay, what was settled or owed still is.
LEMMA SettledStays ==
    ASSUME NEW k, UNCHANGED <<counter[k], wrong[k], clock>> PROVE Settled(k)' <=> Settled(k)
BY DEF Settled, Tally, Ordered

LEMMA OwedStays ==
    ASSUME NEW k, NEW t, UNCHANGED <<counter[k], wrong[k]>> PROVE Owed(k, t)' <=> Owed(k, t)
BY DEF Owed, Tally, Ordered, RL!Time

\* An attempt that is not counting has nothing in hand.
LEMMA AllSettled ==
    ASSUME SettledElse, NEW h \in Handler, Only(h), ~Counting(at[h]) PROVE \A k \in Key : Settled(k)
BY DEF SettledElse, Only, Counting

LEMMA OnlyOne == ASSUME Sole, NEW h \in Handler, at[h] # "idle" PROVE Only(h)
BY DEF Sole, Only

Count == Sole /\ SettledElse /\ \A h \in Handler : Stage(at[h], held[h])

LEMMA CountTick == LimitTypeInv /\ Count /\ RL!Tick => Count'
<1> SUFFICES ASSUME LimitTypeInv, Count, RL!Tick PROVE Count'
    OBVIOUS
<1>1. UNCHANGED <<at, held, counter, wrong>> /\ clock' = clock + 1 /\ clock \in Int
    BY DEF RL!Tick, LimitTypeInv, RL!TypeOK, RL!Time
<1>2. ASSUME NEW k \in Key, Settled(k) PROVE Settled(k)'
  <2>1. wrong[k] \in Seq(RL!Time) /\ clock + 1 \in Int /\ clock <= clock + 1
    BY <1>1 DEF LimitTypeInv, RL!TypeOK
  <2>2. Ordered(wrong[k], clock + 1)
    BY <1>1, <1>2, <2>1, OrderedLater DEF Settled
  <2>3. Tally(k, wrong[k], counter[k])'
    BY <1>1, <1>2 DEF Settled, Tally
  <2>4. Ordered(wrong[k], clock)'
    BY <1>1, <2>2 DEF Ordered
  <2> QED BY <2>3, <2>4 DEF Settled
<1>3. SettledElse'
    BY <1>1, <1>2 DEF Count, SettledElse
<1>4. ASSUME NEW h \in Handler PROVE Stage(at[h], held[h])'
  <2>1. Stage(at[h], held[h])
    BY DEF Count
  <2>2. \A k \in Key : counter[k].until \in Int
    BY DEF LimitTypeInv, RL!TypeOK, RL!AuthRateLimit
  <2>3. at[h] = "compare" => \A k \in Key : Occurs(k, held[h].keys) => counter[k].until <= clock + 1
    BY <1>1, <2>1, <2>2 DEF Stage
  <2>4. \A k : Owed(k, held[h].at)' <=> Owed(k, held[h].at)
    BY <1>1 DEF Owed, Tally, Ordered, RL!Time
  <2> QED BY <1>1, <2>1, <2>3, <2>4 DEF Stage, Occurs
<1> QED BY <1>1, <1>3, <1>4 DEF Count, Sole

\* A key that is cleared has nothing to tell.
LEMMA ClearedSettled ==
    ASSUME LimitTypeInv, NEW keys \in SUBSET Key, RL!Cleared(keys), UNCHANGED clock,
           \A k \in Key : Settled(k)
    PROVE  \A k \in Key : Settled(k)'
<1> SUFFICES ASSUME NEW k \in Key PROVE Settled(k)'
    OBVIOUS
<1>1. counter \in [Key -> Row] /\ wrong \in [Key -> Seq(RL!Time)]
    BY DEF LimitTypeInv, RL!TypeOK, Row
<1>2. CASE k \in keys
  <2>1. counter'[k] = RL!NoRow /\ wrong'[k] = <<>>
    BY <1>2 DEF RL!Cleared
  <2>2. Tally(k, wrong'[k], counter'[k]) /\ Ordered(wrong'[k], clock')
    BY <2>1, TallyNone, OrderedNone
  <2> QED BY <2>2 DEF Settled, Tally, Ordered
<1>3. CASE k \notin keys
  <2>1. counter'[k] = counter[k] /\ wrong'[k] = wrong[k]
    BY <1>3 DEF RL!Cleared
  <2> QED BY <2>1, SettledStays
<1> QED BY <1>2, <1>3

LEMMA CountForgive ==
    ASSUME LimitTypeInv, Count, oneByOne, NEW k \in Forgivable, RL!Forgive(k) PROVE Count'
<1>1. /\ k \in Key /\ RL!Cleared({k}) /\ UNCHANGED <<clock, at, held>>
      /\ \A h \in Handler : at[h] = "idle"
    BY AttemptAssumption DEF RL!Forgive
<1>2. \A j \in Key : Settled(j)
    BY <1>1 DEF Count, SettledElse, Counting
<1>3. {k} \in SUBSET Key
    BY <1>1
<1>4. \A j \in Key : Settled(j)'
    BY <1>1, <1>2, <1>3, ClearedSettled
<1> QED BY <1>1, <1>4 DEF Count, Sole, SettledElse, Stage, Counting

LEMMA CountStart ==
    ASSUME LimitTypeInv, Count, oneByOne, NEW h \in Handler, NEW keys \in attempts, RL!Start(h, keys)
    PROVE  Count'
<1>1. /\ Only(h) /\ at[h] = "idle" /\ UNCHANGED <<clock, counter, wrong>>
      /\ RL!Goto(h, "look", RL!Attempt(keys, keys, clock))
    BY DEF RL!Start, Only
<1>2. \A k \in Key : Settled(k)'
    BY <1>1, AllSettled, SettledStays DEF Count, Counting
<1>3. Stage("look", RL!Attempt(keys, keys, clock))'
    BY DEF Stage, Counting, RL!Attempt
<1> QED BY <1>1, <1>2, <1>3, OneGoes DEF Count

LEMMA CountLook ==
    ASSUME LimitTypeInv, PastInv, Count, NEW h \in Handler, RL!Look(h) PROVE Count'
<1>1. at[h] = "look" /\ UNCHANGED <<clock, counter, wrong>> /\ Only(h)
    BY OnlyOne DEF RL!Look, Count
<1>2. PICK todo \in Seq(Key), keys \in Seq(Key) : todo = held[h].todo /\ keys = held[h].keys
    BY DEF LimitTypeInv, RL!TypeOK, RL!Work
<1>3. PICK t : t = held[h].at /\ t \in Int /\ t <= clock /\ clock \in Int
    BY DEF LimitTypeInv, RL!TypeOK, RL!Work, RL!Time, PastInv
<1>4. \A k \in Key : counter[k].until \in Int
    BY DEF LimitTypeInv, RL!TypeOK, RL!AuthRateLimit
<1>5. PICK l, w, i :
        /\ i \in DOMAIN todo
        /\ RL!Goto(h, l, w)
        /\ \/ l = "idle"
           \/ /\ ~(counter[todo[i]].until > t) /\ Len(todo) = 1
              /\ l = "compare" /\ w = RL!Attempt(keys, <<>>, 0)
           \/ /\ ~(counter[todo[i]].until > t)
              /\ l = "look" /\ w = RL!Attempt(keys, RL!RemoveAt(todo, i), t)
    BY <1>2, <1>3 DEF RL!Look, RL!Finish
<1>6. \A k \in Key : Occurs(k, keys) => Occurs(k, todo) \/ counter[k].until <= t
    BY <1>1, <1>2, <1>3 DEF Count, Stage
<1>7. todo[i] \in Key
    BY <1>5, LenProperties
<1>8. Stage(l, w)'
  <2>1. CASE l = "idle"
    BY <2>1 DEF Stage, Counting
  <2>2. CASE /\ ~(counter[todo[i]].until > t) /\ Len(todo) = 1
             /\ l = "compare" /\ w = RL!Attempt(keys, <<>>, 0)
    <3>1. \A k : Occurs(k, todo) => k = todo[i]
      <4>1. DOMAIN todo = 1..1
        BY <2>2, LenProperties
      <4>2. \A j \in DOMAIN todo : j = i
        BY <1>5, <4>1
      <4> QED BY <4>2 DEF Occurs
    <3>2. w.keys = keys
      BY <2>2 DEF RL!Attempt
    <3>3. \A k \in Key : Occurs(k, keys) => counter[k].until <= clock
      <4>1. counter[todo[i]].until <= t
        BY <1>3, <1>4, <1>7, <2>2
      <4>2. \A k \in Key : Occurs(k, keys) => counter[k].until <= t
        BY <1>6, <3>1, <4>1
      <4> QED BY <1>3, <1>4, <4>2
    <3> QED BY <1>1, <2>2, <3>2, <3>3 DEF Stage, Counting, Occurs
  <2>3. CASE /\ ~(counter[todo[i]].until > t)
             /\ l = "look" /\ w = RL!Attempt(keys, RL!RemoveAt(todo, i), t)
    <3>1. w.keys = keys /\ w.todo = RL!RemoveAt(todo, i) /\ w.at = t
      BY <2>3 DEF RL!Attempt
    <3>2. \A k \in Key : Occurs(k, todo) => Occurs(k, RL!RemoveAt(todo, i)) \/ k = todo[i]
      BY <1>5, RemoveAtKeeps
    <3>3. counter[todo[i]].until <= t
      BY <1>3, <1>4, <1>7, <2>3
    <3>4. \A k \in Key : Occurs(k, keys) => Occurs(k, w.todo) \/ counter[k].until <= t
      BY <1>6, <3>1, <3>2, <3>3
    <3> QED BY <1>1, <2>3, <3>1, <3>4 DEF Stage, Counting, Occurs
  <2> QED BY <1>5, <2>1, <2>2, <2>3
<1>9. \A k \in Key : Settled(k)'
    BY <1>1, AllSettled, SettledStays DEF Count, Counting
<1> QED BY <1>1, <1>5, <1>8, <1>9, OneGoes DEF Count

LEMMA CountCompare ==
    ASSUME LimitTypeInv, DistinctKeys, Count, oneByOne, NEW h \in Handler, RL!Compare(h) PROVE Count'
<1>1. at[h] = "compare" /\ UNCHANGED <<clock, counter>> /\ Only(h)
    BY OnlyOne DEF RL!Compare, Count
<1>2. \A k \in Key : Settled(k)
    BY <1>1, AllSettled DEF Count, Counting
<1>3. clock \in RL!Time /\ wrong \in [Key -> Seq(RL!Time)]
    BY DEF LimitTypeInv, RL!TypeOK
<1>4. CASE RL!Goto(h, "clear", held[h]) /\ UNCHANGED wrong
  <2>1. \A k \in Key : Settled(k)'
    BY <1>1, <1>2, <1>4, SettledStays
  <2>2. Stage("clear", held[h])'
    BY DEF Stage, Counting
  <2>3. Sole' /\ SettledElse' /\ \A g \in Handler : Stage(at[g], held[g])'
    <3>1. PICK w : w = held[h]
      OBVIOUS
    <3>2. RL!Goto(h, "clear", w)
      BY <1>4, <3>1
    <3>3. Stage("clear", w)'
      BY DEF Stage, Counting
    <3> QED BY <1>1, <2>1, <3>2, <3>3, OneGoes
  <2> QED BY <2>3 DEF Count
<1>5. CASE /\ RL!Goto(h, "read", RL!Attempt(held[h].keys, held[h].keys, clock))
           /\ wrong' = [k \in Key |-> IF oneByOne /\ \E i \in DOMAIN held[h].keys : held[h].keys[i] = k
                                     THEN Append(wrong[k], clock) ELSE wrong[k]]
  <2>1. PICK keys : keys = held[h].keys
    OBVIOUS
  <2>2. PICK w : w = RL!Attempt(keys, keys, clock)
    OBVIOUS
  <2>3. w.keys = keys /\ w.todo = keys /\ w.at = clock
    BY <2>2 DEF RL!Attempt
  <2>4. \A k \in Key : wrong'[k] = IF Occurs(k, keys) THEN Append(wrong[k], clock) ELSE wrong[k]
    BY <1>5, <2>1 DEF Occurs
  <2>5. \A k \in Key : ~Occurs(k, keys) => Settled(k)'
    BY <1>1, <1>2, <2>4, SettledStays
  <2>6. IsInjective(keys)
    BY <1>1, <2>1 DEF DistinctKeys
  <2>7. ASSUME NEW k \in Key, Occurs(k, keys) PROVE Owed(k, clock)'
    <3>1. counter[k].until <= clock
      BY <1>1, <2>1, <2>7 DEF Count, Stage
    <3>2. PICK s, r : s \in Seq(RL!Time) /\ s = wrong[k] /\ r = counter[k]
      BY <1>3
    <3>3. wrong'[k] = Append(s, clock) /\ counter'[k] = r /\ clock' = clock
      BY <1>1, <2>4, <2>7, <3>2
    <3>4. Tally(k, s, r) /\ Ordered(s, clock)
      BY <1>2, <3>2 DEF Settled
    <3> QED BY <3>1, <3>2, <3>3, <3>4 DEF Owed, RL!Time, Tally, Ordered
  <2>8. Stage("read", w)'
    BY <1>1, <2>3, <2>6, <2>7 DEF Stage, Counting, Occurs, IsInjective
  <2>9. \A k \in Key : ~(Counting("read") /\ Occurs(k, w.todo)) => Settled(k)'
    BY <2>3, <2>5 DEF Counting
  <2>10. RL!Goto(h, "read", w)
    BY <1>5, <2>1, <2>2
  <2> QED BY <1>1, <2>8, <2>9, <2>10, OneGoes DEF Count
<1> QED BY <1>4, <1>5 DEF RL!Compare

LEMMA CountClear ==
    ASSUME LimitTypeInv, Count, NEW h \in Handler, RL!Clear(h) PROVE Count'
<1>1. at[h] = "clear" /\ UNCHANGED clock /\ Only(h) /\ RL!Goto(h, "idle", RL!NoWork)
    BY OnlyOne DEF RL!Clear, RL!Finish, Count
<1>2. PICK keys : keys = {held[h].keys[i] : i \in DOMAIN held[h].keys}
    OBVIOUS
<1>3. keys \in SUBSET Key
    BY <1>2 DEF LimitTypeInv, RL!TypeOK, RL!Work
<1>4. RL!Cleared(keys)
    BY <1>2 DEF RL!Clear
<1>5. \A k \in Key : Settled(k)
    BY <1>1, AllSettled DEF Count, Counting
<1>6. \A k \in Key : Settled(k)'
    BY <1>1, <1>3, <1>4, <1>5, ClearedSettled
<1>7. Stage("idle", RL!NoWork)'
    BY DEF Stage, Counting
<1> QED BY <1>1, <1>6, <1>7, OneGoes DEF Count

LEMMA CountRead ==
    ASSUME LimitTypeInv, Count, NEW h \in Handler, RL!ReadRow(h) PROVE Count'
<1>1. at[h] = "read" /\ UNCHANGED <<clock, counter, wrong>> /\ Only(h)
    BY OnlyOne DEF RL!ReadRow, Count
<1>2. PICK w : w = [held[h] EXCEPT !.row = counter[Head(held[h].todo)]]
    OBVIOUS
<1>3. w.todo = held[h].todo /\ w.at = held[h].at /\ w.row = counter[Head(held[h].todo)]
    BY <1>2 DEF LimitTypeInv, RL!TypeOK, RL!Work
<1>4. RL!Goto(h, "write", w)
    BY <1>2 DEF RL!ReadRow
<1>5. IsInjective(w.todo) /\ \A k \in Key : Occurs(k, w.todo) => Owed(k, w.at)
    BY <1>1, <1>3 DEF Count, Stage, Counting
<1>6. \A k \in Key : Occurs(k, w.todo) => Owed(k, w.at)'
    BY <1>1, <1>5, OwedStays
<1>7. Stage("write", w)'
    BY <1>1, <1>3, <1>5, <1>6 DEF Stage, Counting, Occurs, IsInjective
<1>8. \A k \in Key : ~(Counting("write") /\ Occurs(k, w.todo)) => Settled(k)'
  <2> SUFFICES ASSUME NEW k \in Key, ~Occurs(k, w.todo) PROVE Settled(k)'
    BY DEF Counting
  <2>1. Settled(k)
    BY <1>1, <1>3 DEF Count, SettledElse, Only, Counting
  <2> QED BY <1>1, <2>1, SettledStays
<1> QED BY <1>1, <1>4, <1>7, <1>8, OneGoes DEF Count

\* The wrong answer in hand has a date.
LEMMA DateType ==
    ASSUME NEW s \in Seq(RL!Time), NEW t \in Int, Append(s, t) \in Seq(RL!Time) PROVE t \in RL!Time
<1>1. Len(Append(s, t)) = Len(s) + 1 /\ Append(s, t)[Len(s) + 1] = t /\ Len(s) \in Nat
  <2>1. s \in Seq(Int)
    BY LenProperties DEF RL!Time
  <2> QED BY <2>1, AppendProperties, LenProperties
<1>2. Len(s) + 1 \in 1..Len(Append(s, t))
    BY <1>1
<1> QED BY <1>1, <1>2, LenProperties

\* The only attempt writes what it counts onto the row as it is.
LEMMA Writes ==
    ASSUME LimitTypeInv, PastInv, Count, NEW h \in Handler, RL!WriteRow(h)
    PROVE  \E k \in Key, r \in Row, t \in RL!Time, s \in Seq(RL!Time) :
             /\ k = Head(held[h].todo) /\ r = counter[k] /\ t = held[h].at /\ t <= clock
             /\ wrong[k] = Append(s, t) /\ Tally(k, s, r) /\ Ordered(s, t) /\ r.until <= t
             /\ counter' = [counter EXCEPT ![k] = RL!Counted(k, r, t)]
             /\ \/ Len(held[h].todo) = 1 /\ RL!Goto(h, "idle", RL!NoWork)
                \/ RL!Goto(h, "read", RL!Attempt(held[h].keys, Tail(held[h].todo), t))
<1>1. at[h] = "write" /\ held[h].todo \in Seq(Key) /\ held[h].todo # <<>>
    BY DEF RL!WriteRow, LimitTypeInv, RL!TypeOK, RL!Work
<1>2. PICK k \in Key : k = Head(held[h].todo)
    BY <1>1, TailType
<1>3. PICK r \in Row : r = counter[k] /\ held[h].row = r
    BY <1>1, <1>2 DEF LimitTypeInv, RL!TypeOK, Row, Count, Stage
<1>4. Occurs(k, held[h].todo) /\ Counting(at[h])
    BY <1>1, <1>2, TailOccurs DEF Count, Stage, Counting
<1>5. PICK t : t = held[h].at /\ t <= clock
    BY DEF PastInv
<1>6. Owed(k, t)
    BY <1>4, <1>5 DEF Count, Stage
<1>7. PICK s \in Seq(RL!Time) : wrong[k] = Append(s, t) /\ Tally(k, s, r) /\ Ordered(s, t)
    BY <1>3, <1>6 DEF Owed
<1>8. t \in RL!Time
  <2>1. wrong[k] \in Seq(RL!Time) /\ t \in Int
    BY <1>5 DEF LimitTypeInv, RL!TypeOK, RL!Work
  <2> QED BY <1>7, <2>1, DateType
<1>9. /\ counter' = [counter EXCEPT ![k] = RL!Counted(k, r, t)]
      /\ IF Len(held[h].todo) = 1 THEN RL!Finish(h)
         ELSE RL!Goto(h, "read", RL!Attempt(held[h].keys, Tail(held[h].todo), t))
    BY <1>2, <1>3, <1>5 DEF RL!WriteRow
<1>10. \/ Len(held[h].todo) = 1 /\ RL!Goto(h, "idle", RL!NoWork)
       \/ RL!Goto(h, "read", RL!Attempt(held[h].keys, Tail(held[h].todo), t))
    BY <1>9 DEF RL!Finish
<1>11. r.until <= t
    BY <1>3, <1>6 DEF Owed
<1> QED BY <1>2, <1>3, <1>5, <1>7, <1>8, <1>9, <1>10, <1>11

LEMMA CountWrite ==
    ASSUME LimitTypeInv, PastInv, Count, NEW h \in Handler, RL!WriteRow(h) PROVE Count'
<1>1. /\ at[h] = "write" /\ UNCHANGED <<clock, wrong>> /\ Only(h)
      /\ held[h].todo \in Seq(Key) /\ held[h].todo # <<>>
    BY OnlyOne DEF RL!WriteRow, Count, LimitTypeInv, RL!TypeOK, RL!Work
<1>2. PICK k \in Key, r \in Row, t \in RL!Time, s \in Seq(RL!Time) :
        /\ k = Head(held[h].todo) /\ r = counter[k] /\ t = held[h].at /\ t <= clock
        /\ wrong[k] = Append(s, t) /\ Tally(k, s, r) /\ Ordered(s, t) /\ r.until <= t
        /\ counter' = [counter EXCEPT ![k] = RL!Counted(k, r, t)]
        /\ \/ Len(held[h].todo) = 1 /\ RL!Goto(h, "idle", RL!NoWork)
           \/ RL!Goto(h, "read", RL!Attempt(held[h].keys, Tail(held[h].todo), t))
    BY Writes
<1>3. PICK todo \in Seq(Key) : todo = held[h].todo /\ todo # <<>>
    BY <1>1
<1>4. IsInjective(todo) /\ \A j \in Key : Occurs(j, todo) => Owed(j, t)
    BY <1>1, <1>2, <1>3 DEF Count, Stage, Counting
<1>5. /\ IsInjective(Tail(todo))
      /\ \A j : Occurs(j, Tail(todo)) <=> Occurs(j, todo) /\ j # k
      /\ Len(todo) = 1 => Tail(todo) = <<>>
    BY <1>2, <1>3, <1>4, TailOccurs, TailType
<1>6. Settled(k)'
  <2>1. PICK new : new = RL!Counted(k, r, t)
    OBVIOUS
  <2>2. counter'[k] = new
    BY <1>2, <2>1 DEF LimitTypeInv, RL!TypeOK
  <2>3. Tally(k, wrong[k], new) /\ Ordered(wrong[k], t)
    BY <1>2, <2>1, TallyMore, OrderedMore
  <2>4. Ordered(wrong[k], clock)
    <3>1. wrong[k] \in Seq(RL!Time) /\ t \in Int /\ clock \in Int /\ t <= clock
      BY <1>2 DEF LimitTypeInv, RL!TypeOK, RL!Time
    <3> QED BY <2>3, <3>1, OrderedLater
  <2>5. wrong'[k] = wrong[k] /\ clock' = clock
    BY <1>1
  <2> QED BY <2>2, <2>3, <2>4, <2>5 DEF Settled, Tally, Ordered
<1>7. \A j \in Key : j # k => UNCHANGED <<counter[j], wrong[j], clock>>
    BY <1>1, <1>2 DEF LimitTypeInv, RL!TypeOK
<1>8. ASSUME NEW j \in Key, ~Occurs(j, Tail(todo)) PROVE Settled(j)'
  <2>1. CASE j # k
    <3>1. ~Occurs(j, todo)
      BY <1>5, <1>8, <2>1
    <3>2. Settled(j)
      BY <1>1, <1>3, <3>1 DEF Count, SettledElse, Only, Counting
    <3> QED BY <1>7, <2>1, <3>2, SettledStays
  <2> QED BY <1>6, <2>1
<1>9. CASE Len(held[h].todo) = 1 /\ RL!Goto(h, "idle", RL!NoWork)
  <2>1. \A j : ~Occurs(j, Tail(todo))
    BY <1>3, <1>5, <1>9 DEF Occurs
  <2>2. \A j \in Key : Settled(j)'
    BY <1>8, <2>1
  <2>3. Stage("idle", RL!NoWork)'
    BY DEF Stage, Counting
  <2> QED BY <1>1, <1>9, <2>2, <2>3, OneGoes DEF Count
<1>10. CASE RL!Goto(h, "read", RL!Attempt(held[h].keys, Tail(held[h].todo), t))
  <2>1. PICK w : w = RL!Attempt(held[h].keys, Tail(held[h].todo), t)
    OBVIOUS
  <2>2. w.todo = Tail(todo) /\ w.at = t
    BY <1>3, <2>1 DEF RL!Attempt
  <2>3. \A j \in Key : Occurs(j, Tail(todo)) => Owed(j, t)'
    BY <1>4, <1>5, <1>7, OwedStays
  <2>4. Stage("read", w)'
    BY <1>5, <2>2, <2>3 DEF Stage, Counting, Occurs, IsInjective
  <2>5. \A j \in Key : ~(Counting("read") /\ Occurs(j, w.todo)) => Settled(j)'
    BY <1>8, <2>2 DEF Counting
  <2>6. RL!Goto(h, "read", w)
    BY <1>10, <2>1
  <2> QED BY <1>1, <2>4, <2>5, <2>6, OneGoes DEF Count
<1> QED BY <1>2, <1>9, <1>10

LEMMA CountStep == LimitTypeInv /\ PastInv /\ CountInv /\ RL!Next => CountInv'
<1> SUFFICES ASSUME LimitTypeInv, PastInv, CountInv, RL!Next PROVE CountInv'
    OBVIOUS
<1>1. DistinctKeys' /\ Uncounted'
    BY KeysStep, UncountedStep DEF CountInv
<1>2. ASSUME oneByOne PROVE Count'
  <2>1. Count /\ DistinctKeys
    BY <1>2 DEF CountInv, Count
  <2> QED BY <1>2, <2>1, CountTick, CountForgive, CountStart, CountLook, CountCompare, CountClear, CountRead, CountWrite
          DEF RL!Next
<1>3. oneByOne' = oneByOne
    BY DEF RL!Next, RL!Tick, RL!Forgive, RL!Start, RL!Look, RL!Compare, RL!Clear, RL!ReadRow, RL!WriteRow
<1> QED BY <1>1, <1>2, <1>3 DEF CountInv, Count

LEMMA CountedWrong == LimitTypeInv /\ CountInv => GuessBound
<1> SUFFICES ASSUME LimitTypeInv, CountInv, NEW k \in Key
             PROVE  \A i, j \in DOMAIN wrong[k] :
                        j - i >= 2 * Limit[k] - 2 => wrong[k][j] - wrong[k][i] >= Window[k]
    BY DEF GuessBound, RL!GuessBound
<1>1. wrong[k] \in Seq(RL!Time) /\ DOMAIN wrong[k] = 1..Len(wrong[k])
    BY LenProperties DEF LimitTypeInv, RL!TypeOK
<1>2. ASSUME NEW r, Tally(k, wrong[k], r)
      PROVE  \A i, j \in DOMAIN wrong[k] :
                 j - i >= 2 * Limit[k] - 2 => wrong[k][j] - wrong[k][i] >= Window[k]
    BY <1>1, <1>2 DEF Tally
<1>3. CASE ~oneByOne
  <2>1. wrong[k] = <<>>
    BY <1>3 DEF CountInv, Uncounted
  <2> QED BY <2>1
<1>4. CASE oneByOne /\ Settled(k)
    BY <1>2, <1>4 DEF Settled
<1>5. CASE oneByOne /\ ~Settled(k)
  <2>1. PICK h \in Handler : Owed(k, held[h].at)
    BY <1>5 DEF CountInv, SettledElse, Stage
  <2>2. PICK t : t = held[h].at /\ t \in Int
    BY DEF LimitTypeInv, RL!TypeOK, RL!Work
  <2>3. PICK r \in Row : r = counter[k]
    BY DEF LimitTypeInv, RL!TypeOK, Row
  <2>4. PICK s \in Seq(RL!Time) : wrong[k] = Append(s, t) /\ Tally(k, s, r) /\ Ordered(s, t) /\ r.until <= t
    BY <2>1, <2>2, <2>3 DEF Owed
  <2>5. t \in RL!Time
    BY <1>1, <2>2, <2>4, DateType
  <2>6. Tally(k, wrong[k], RL!Counted(k, r, t))
    BY <2>4, <2>5, TallyMore
  <2> QED BY <1>2, <2>6
<1> QED BY <1>3, <1>4, <1>5

\* What LocksAreKept says of a step.
LockKept(k) ==
    \/ counter'[k] \in {counter[k], RL!NoRow}
    \/ ~RL!Locked(k) /\ (counter'[k].until \notin {0, counter[k].until} => RL!Earned(k))

\* The failure that locks is counted on to a key that has none, so that the whole
\* count is since the last lock.
LEMMA WriteKeepsLocks ==
    ASSUME LimitTypeInv, PastInv, Count, NEW h \in Handler, RL!WriteRow(h), NEW j \in Key PROVE LockKept(j)
<1>1. PICK k \in Key, r \in Row, t \in RL!Time, s \in Seq(RL!Time) :
        /\ r = counter[k] /\ t <= clock
        /\ wrong[k] = Append(s, t) /\ Tally(k, s, r) /\ Ordered(s, t) /\ r.until <= t
        /\ counter' = [counter EXCEPT ![k] = RL!Counted(k, r, t)]
    BY Writes, ZenonT(30)
<1>2. counter \in [Key -> Row] /\ clock \in Int /\ t \in Int
    BY DEF LimitTypeInv, RL!TypeOK, Row, RL!Time
<1>3. CASE j # k
    BY <1>1, <1>2, <1>3 DEF LockKept
<1>4. CASE j = k
  <2>1. PICK new, u : new = RL!Counted(k, r, t) /\ u = wrong[k] /\ counter'[k] = new
    BY <1>1, <1>2
  <2>2. Tally(k, u, new)
    BY <1>1, <2>1, TallyMore
  <2>3. PICK L \in Nat, n \in Nat, from \in Int, until \in Int :
          L = Limit[k] /\ L >= 2 /\ n = Len(u) /\ from = r.from /\ until = r.until
    <3>1. u \in Seq(RL!Time)
      BY <2>1 DEF LimitTypeInv, RL!TypeOK
    <3> QED BY <3>1, LimitAssumption, LenProperties DEF Row, RL!AuthRateLimit
  <2>4. ~RL!Locked(k)
    BY <1>1, <1>2, <2>3 DEF RL!Locked
  <2>5. ASSUME new.until # 0 PROVE RL!Earned(k)
    <3>1. /\ new.failures \in Int /\ new.failures <= L /\ (new.failures < L => new.until = 0)
          /\ new # RL!NoRow
      <4>1. t \in 0 .. MaxTime
        BY DEF RL!Time
      <4>2. new \in Row
        BY <2>1, <4>1, CountedRow
      <4>3. new.failures \in Int /\ new # RL!NoRow
        BY <2>5, <4>2 DEF Row, RL!AuthRateLimit, RL!NoRow
      <4> QED BY <2>2, <2>3, <4>3 DEF Tally
    <3>2. new.failures = L
      BY <2>3, <2>5, <3>1
    <3>3. L \in 1..n /\ new.from = u[n - L + 1]
      BY <2>2, <2>3, <3>1, <3>2 DEF Tally
    <3>4. r.failures = L - 1 /\ r.failures \in Int
      BY <2>1, <2>3, <3>2, SMTT(30) DEF RL!Counted, Row, RL!AuthRateLimit
    <3>5. until = 0
      BY <1>1, <2>3, <3>4 DEF Tally
    <3>6. n - L + 1 \in 1..n /\ n - (n - L + 1) >= L - 1
      BY <2>3, <3>3, SMTT(30)
    <3>7. u \in Seq(RL!Time) /\ DOMAIN u = 1..n
      BY <2>1, <2>3, LenProperties DEF LimitTypeInv, RL!TypeOK
    <3>8. u[n - L + 1] >= until
      BY <3>5, <3>6, <3>7, LenProperties DEF RL!Time
    <3> QED BY <1>1, <2>1, <2>3, <3>6, <3>7, <3>8 DEF RL!Earned
  <2> QED BY <1>4, <2>1, <2>4, <2>5 DEF LockKept
<1> QED BY <1>3, <1>4

LEMMA LockStep ==
    ASSUME LimitTypeInv, PastInv, CountInv, RL!Next, oneByOne, NEW k \in Key PROVE LockKept(k)
<1>1. Count
    BY DEF CountInv, Count
<1>2. ASSUME NEW keys, RL!Cleared(keys) PROVE LockKept(k)
    BY <1>2 DEF RL!Cleared, LockKept
<1>3. (\E keys : RL!Cleared(keys)) \/ UNCHANGED counter \/ (\E h \in Handler : RL!WriteRow(h))
    BY DEF RL!Next, RL!Tick, RL!Forgive, RL!Start, RL!Look, RL!Compare, RL!Clear, RL!ReadRow
<1>4. CASE UNCHANGED counter
    BY <1>4 DEF LockKept
<1> QED BY <1>1, <1>2, <1>3, <1>4, WriteKeepsLocks

-----------------------------------------------------------------------------

LEMMA GuardsPast == GuardsSpec => []PastInv
<1>1. GuardsInit => PastInv
    BY InitPast DEF GuardsInit
<1>2. LimitTypeInv /\ PastInv /\ [Codes \/ Counters]_<<vars, guarded, limits>> => PastInv'
  <2>1. PastInv /\ UNCHANGED limits => PastInv'
    BY DEF limits, PastInv, LocksEnd, RL!LocksEnd
  <2> QED BY <2>1, PastStep DEF Codes, Counters
<1> QED BY <1>1, <1>2, GuardsTypeInv, PTL DEF GuardsSpec

LEMMA CountStays == CountInv /\ UNCHANGED limits => CountInv'
<1> SUFFICES ASSUME CountInv, UNCHANGED limits PROVE CountInv'
    OBVIOUS
<1>1. UNCHANGED <<oneByOne, clock, counter, at, held, wrong>>
    BY DEF limits
<1>2. \A k : (Settled(k)' <=> Settled(k)) /\ \A t : Owed(k, t)' <=> Owed(k, t)
    BY <1>1, SettledStays, OwedStays
<1>3. \A h \in Handler : Stage(at[h], held[h])' <=> Stage(at[h], held[h])
    BY <1>1, <1>2, ZenonT(30) DEF Stage, Counting, Occurs
<1>4. SettledElse' <=> SettledElse
    BY <1>1, <1>2 DEF SettledElse, Counting, Occurs
<1> QED BY <1>1, <1>3, <1>4 DEF CountInv, DistinctKeys, Uncounted, Sole

LEMMA GuardsCount == GuardsSpec => []CountInv
<1>1. GuardsInit => CountInv
    BY InitCount DEF GuardsInit
<1>2. LimitTypeInv /\ PastInv /\ CountInv /\ [Codes \/ Counters]_<<vars, guarded, limits>> => CountInv'
    BY CountStep, CountStays DEF Codes, Counters
<1> QED BY <1>1, <1>2, GuardsTypeInv, GuardsPast, PTL DEF GuardsSpec

\* recordFailure: however many failures are counted at a time, a key at its limit
\* has a lock, and every lock ends within one lockout.
THEOREM EveryLockEnds == GuardsSpec => []LocksEnd
<1>1. PastInv => LocksEnd
    BY DEF PastInv
<1> QED BY <1>1, GuardsPast, PTL

\* canAttemptLogin, recordFailedLoginAttempt: while attempts come one at a time, twice
\* the limit, less one, wrong answers of a key are never looked at within a window,
\* for any limits, windows, keys and lengths of time.
THEOREM GuessesAreFew == GuardsSpec => []GuessBound
<1> QED BY CountedWrong, GuardsTypeInv, GuardsCount, PTL

\* upsertFailure: while attempts come one at a time, a lock is neither lifted nor
\* prolonged before its time, unless the key is cleared, and as many wrong answers
\* as the limit, all since the last lock was over, come before each.
THEOREM LocksAreEarned == GuardsSpec => LocksAreKept
<1>1. LimitTypeInv /\ PastInv /\ CountInv /\ [Codes \/ Counters]_<<vars, guarded, limits>> =>
        [oneByOne => \A k \in Key :
           \/ counter'[k] \in {counter[k], RL!NoRow}
           \/ /\ ~RL!Locked(k)
              /\ counter'[k].until \notin {0, counter[k].until} => RL!Earned(k)]_RL!vars
  <2> SUFFICES ASSUME LimitTypeInv, PastInv, CountInv, [Codes \/ Counters]_<<vars, guarded, limits>>
               PROVE  [oneByOne => \A k \in Key : LockKept(k)]_RL!vars
    BY DEF LockKept
  <2>1. RL!Next \/ UNCHANGED RL!vars
    BY DEF Codes, Counters, limits, RL!vars
  <2> QED BY <2>1, LockStep
<1> QED BY <1>1, GuardsTypeInv, GuardsPast, GuardsCount, PTL DEF GuardsSpec, LocksAreKept, RL!LocksAreKept

\* Beside the other guard, the second factor does what it does alone: every behaviour
\* of the two is one of TotpCodes, and what holds of a code holds in a sign-in.
THEOREM CodesBesideCounters ==
    GuardsSpec => Spec /\ [](TypeOK /\ OneUse /\ GoodCodeWorks /\ ActiveSecretProven)
<1>1. GuardsInit => Init
    BY DEF GuardsInit
<1>2. [Codes \/ Counters]_<<vars, guarded, limits>> => [Next]_vars
    BY DEF Codes, Counters
<1>3. GuardsSpec => Spec
    BY <1>1, <1>2, PTL DEF GuardsSpec, Spec
<1> QED BY <1>3, CodeTypeCorrect, CodesAreUsedOnce, GoodCodesWork, SecretsAreProven, PTL
=============================================================================
