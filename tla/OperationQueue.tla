--------------------------- MODULE OperationQueue ---------------------------
(***************************************************************************)
(* Sync jobs: rows of SyncJob that record an operation on a VPN server     *)
(* while it runs.                                                          *)
(*                                                                         *)
(* enqueueOperation refuses a job when another one of its server is in     *)
(* progress; the push to all users and the Google synchronisation insert   *)
(* their rows as IN_PROGRESS without asking; the retry route inserts a     *)
(* PENDING row that nobody runs; reconcileStaleJobs fails, when the        *)
(* process starts, what an earlier one left in progress for five minutes.  *)
(* In between the steps of one job, statements each, any other job may     *)
(* run.                                                                    *)
(***************************************************************************)
EXTENDS Integers, FiniteSets

CONSTANTS
    Job,         \* job ids
    Server,      \* VPN servers
    Contended    \* servers whose calls contend, or start jobs without asking

Operation == {"enqueue", "push", "google", "retry"}

ASSUME ContendedAssumption == Contended \subseteq Server

VARIABLES
    status,     \* SyncJob.status; "none" before the row
    server,     \* SyncJob.serverId, chosen with the id
    old,        \* jobs in progress that started more than five minutes ago
    phase,      \* where the handler of a job is; "none" without one
    kind,       \* which operation runs a job
    boot,       \* where reconcileStaleJobs is since the process started
    stale,      \* the jobs it listed
    rejected,   \* history: jobs refused because the server was busy
    lost        \* history: jobs whose handler died or could not write, without outcome

queue == <<status, server, old, phase, kind, boot, stale, rejected, lost>>

SyncStatus == {"PENDING", "IN_PROGRESS", "SUCCESS", "FAILED"}
Outcome == {"SUCCESS", "FAILED"}
PC == {"none", "check", "reject", "start", "execute", "succeed", "fail"}

QueueTypeOK ==
    /\ status \in [Job -> SyncStatus \cup {"none"}]
    /\ server \in [Job -> Server]
    /\ old \in SUBSET Job
    /\ phase \in [Job -> PC]
    /\ kind \in [Job -> Operation \cup {"none"}]
    /\ boot \in {"list", "mark", "done"}
    /\ stale \in SUBSET Job
    /\ rejected \in SUBSET Job
    /\ lost \in SUBSET Job

QueueInit ==
    /\ status = [j \in Job |-> "none"]
    /\ server \in [Job -> Server]
    /\ old = {}
    /\ phase = [j \in Job |-> "none"]
    /\ kind = [j \in Job |-> "none"]
    /\ boot = "list"
    /\ stale = {}
    /\ rejected = {}
    /\ lost = {}

-----------------------------------------------------------------------------

InProgress == {j \in Job : status[j] = "IN_PROGRESS"}
Running(j) == phase[j] # "none"
Become(j, s) == status' = [status EXCEPT ![j] = s]
Goto(j, label) == phase' = [phase EXCEPT ![j] = label]

New(j, k, s, label) ==
    /\ status[j] = "none"
    /\ Become(j, s)
    /\ kind' = [kind EXCEPT ![j] = k]
    /\ Goto(j, label)

\* Two calls contend between the insert of a job and its start or refusal.
Deciding(j) == phase[j] \in {"check", "start"}

Enqueue(j) ==
    /\ New(j, "enqueue", "PENDING", "check")
    /\ server[j] \in Contended \/ \A i \in Job : Deciding(i) => server[i] # server[j]
    /\ UNCHANGED <<server, old, boot, stale, rejected, lost>>

Busy(j) == \E i \in InProgress \ {j} : server[i] = server[j]

\* Mutant of Check: jobs of any server make the queue busy, jobs of this one
\* do not.
CheckOtherServers(j) ==
    /\ phase[j] = "check"
    /\ Goto(j, IF \E i \in InProgress : server[i] # server[j] THEN "reject" ELSE "start")
    /\ UNCHANGED <<status, server, old, kind, boot, stale, rejected, lost>>

Check(j) ==
    /\ phase[j] = "check"
    /\ Goto(j, IF Busy(j) THEN "reject" ELSE "start")
    /\ UNCHANGED <<status, server, old, kind, boot, stale, rejected, lost>>

\* Mutant of Reject: the row is left as it is.
RejectUnrecorded(j) ==
    /\ phase[j] = "reject"
    /\ Goto(j, "none")
    /\ rejected' = rejected \cup {j}
    /\ UNCHANGED <<status, server, old, kind, boot, stale, lost>>

Reject(j) ==
    /\ phase[j] = "reject"
    /\ Become(j, "FAILED")
    /\ Goto(j, "none")
    /\ rejected' = rejected \cup {j}
    /\ UNCHANGED <<server, old, kind, boot, stale, lost>>

Start(j) ==
    /\ phase[j] = "start"
    /\ Become(j, "IN_PROGRESS")
    /\ Goto(j, "execute")
    /\ UNCHANGED <<server, old, kind, boot, stale, rejected, lost>>

\* The push to all users and runGoogleSync.
StartDirectly(j, k) ==
    /\ New(j, k, "IN_PROGRESS", "execute")
    /\ server[j] \in Contended
    /\ UNCHANGED <<server, old, boot, stale, rejected, lost>>

\* Mutant of Execute: an operation that throws takes its job with it.
ExecuteUncaught(j) ==
    /\ phase[j] = "execute"
    /\ \E outcome \in {"succeed", "none"} : Goto(j, outcome)
    /\ UNCHANGED <<status, server, old, kind, boot, stale, rejected, lost>>

\* The operation returns or throws.
Execute(j) ==
    /\ phase[j] = "execute"
    /\ \E outcome \in {"succeed", "fail"} : Goto(j, outcome)
    /\ UNCHANGED <<status, server, old, kind, boot, stale, rejected, lost>>

Succeed(j) ==
    /\ phase[j] = "succeed"
    /\ Become(j, "SUCCESS")
    /\ Goto(j, "none")
    /\ old' = old \ {j}
    /\ UNCHANGED <<server, kind, boot, stale, rejected, lost>>

Fail(j) ==
    /\ phase[j] = "fail"
    /\ Become(j, "FAILED")
    /\ Goto(j, "none")
    /\ old' = old \ {j}
    /\ UNCHANGED <<server, kind, boot, stale, rejected, lost>>

\* POST /api/sync/jobs/[id]/retry: a new row for the server of a failed job.
Retry(i, j) ==
    /\ status[i] = "FAILED"
    /\ server[i] = server[j]
    /\ New(j, "retry", "PENDING", "none")
    /\ UNCHANGED <<server, old, boot, stale, rejected, lost>>

\* Five minutes pass.  The reconciler, which runs when the process starts, is
\* done by then with its two statements.
Age(j) ==
    /\ boot = "done"
    /\ status[j] = "IN_PROGRESS"
    /\ j \notin old
    /\ old' = old \cup {j}
    /\ UNCHANGED <<status, server, phase, kind, boot, stale, rejected, lost>>

\* Mutant of ListStale: the start of the job is not looked at.
ListAll ==
    /\ boot = "list"
    /\ stale' = InProgress
    /\ boot' = "mark"
    /\ UNCHANGED <<status, server, old, phase, kind, rejected, lost>>

ListStale ==
    /\ boot = "list"
    /\ stale' = InProgress \cap old
    /\ boot' = "mark"
    /\ UNCHANGED <<status, server, old, phase, kind, rejected, lost>>

\* By id, whatever the status is by now.
FailStale ==
    /\ boot = "mark"
    /\ status' = [j \in Job |-> IF j \in stale THEN "FAILED" ELSE status[j]]
    /\ stale' = {}
    /\ boot' = "done"
    /\ old' = old \ stale
    /\ lost' = lost \ stale
    /\ UNCHANGED <<server, phase, kind, rejected>>

\* A statement throws.  enqueueOperation and runGoogleSync catch a failure of
\* the outcome SUCCESS and record FAILED instead; every other failure leaves
\* the row as it is.
DatabaseError(j) ==
    /\ phase[j] \in {"check", "reject", "start", "succeed", "fail"}
    /\ IF phase[j] = "succeed" /\ kind[j] # "push"
       THEN Goto(j, "fail") /\ UNCHANGED lost
       ELSE Goto(j, "none") /\ lost' = lost \cup {j}
    /\ UNCHANGED <<status, server, old, kind, boot, stale, rejected>>

\* The process stops and starts again.
Crash ==
    /\ \E j \in Job : Running(j)
    /\ lost' = lost \cup {j \in Job : Running(j)}
    /\ phase' = [j \in Job |-> "none"]
    /\ boot' = "list"
    /\ stale' = {}
    /\ UNCHANGED <<status, server, old, kind, rejected>>

-----------------------------------------------------------------------------

Continue(j) ==
    Check(j) \/ Reject(j) \/ Start(j) \/ Execute(j) \/ Succeed(j) \/ Fail(j) \/ DatabaseError(j)

QueueNext ==
    \/ \E j \in Job : \/ Enqueue(j) \/ Continue(j) \/ Age(j)
                      \/ \E k \in {"push", "google"} : StartDirectly(j, k)
                      \/ \E i \in Job : Retry(i, j)
    \/ ListStale
    \/ FailStale
    \/ Crash

QueueSpec == QueueInit /\ [][QueueNext]_queue

\* A job that runs goes on.
QueueFairSpec ==
    /\ QueueSpec
    /\ \A j \in Job : WF_queue(Continue(j))

-----------------------------------------------------------------------------
(* Safety. *)

\* The jobs of servers on which calls do not contend.
Orderly == {j \in Job : server[j] \notin Contended}

\* While calls of a server do not contend, at most one of its jobs is recorded
\* as IN_PROGRESS, restarts and failed statements included.
OneInProgress ==
    \A i, j \in InProgress \cap Orderly : server[i] = server[j] => i = j

\* The jobs the reconciler fails are nobody's: none of them is running.
OrphansAreDead == \A j \in stale : ~Running(j) /\ status[j] = "IN_PROGRESS"

\* The bookkeeping agrees with what runs: a job whose operation is under way
\* is IN_PROGRESS, a job not yet started is PENDING, and one that was refused
\* for a busy server never ran.
StatusMatchesRun ==
    \A j \in Job :
        /\ phase[j] \in {"execute", "succeed", "fail"} => status[j] = "IN_PROGRESS"
        /\ phase[j] \in {"check", "reject", "start"} => status[j] = "PENDING"
        /\ j \in rejected => status[j] = "FAILED" /\ ~Running(j)

\* An outcome is final.
OutcomeIsFinal ==
    [][\A j \in Job : status[j] \in Outcome => status'[j] = status[j]]_queue

-----------------------------------------------------------------------------
(* Liveness. *)

\* A job gets an outcome, unless its handler dies or cannot write, or it is a
\* retry.  Nothing calls the reconciler, so those stay as they are.
JobsSettle ==
    \A j \in Job :
        status[j] \in {"PENDING", "IN_PROGRESS"} /\ kind[j] # "retry"
            ~> status[j] \in Outcome \/ j \in lost

-----------------------------------------------------------------------------
(* What the queue promises to servers on which calls do not contend. *)

Lock == INSTANCE ServerLock
        WITH waiting <- {j \in Orderly : status[j] = "PENDING"},
             holder <- InProgress \cap Orderly,
             over <- {j \in Orderly : status[j] \in Outcome}
LockSpec == Lock!Spec
=============================================================================
