----------------------------- MODULE TotpCodes -----------------------------
(***************************************************************************)
(* The second factor of one account: its secret, the one pending, and the  *)
(* guard that makes a code good for one use.                               *)
(*                                                                         *)
(* A code belongs to a secret and a step of 30 seconds; it is right one    *)
(* step early or late.  consumeTotpCode accepts it with one conditional    *)
(* update of the row, which remembers the last secret and the last step;   *)
(* the handlers that change the secret write in a later statement what     *)
(* they had read before it.                                                *)
(***************************************************************************)
EXTENDS Integers

CONSTANTS
    Secret,     \* what generateTotpSecret returns, never the same twice
    Handler,    \* requests that may be in flight at the same time
    MaxStep,    \* bound: how many steps time goes on for
    NoSecret

ASSUME StepAssumption == MaxStep \in Nat /\ MaxStep >= 2
ASSUME SecretAssumption == NoSecret \notin Secret

VARIABLES
    alone,      \* of this behaviour: do the handlers but verify run one at a time, and none fails?
    now,        \* the current step; 0 is no step, and 1 may still be used at 2
    row,        \* the columns of the AdminUser row
    guard,      \* lastTotpSecretHash and lastTotpStep
    pc, work,   \* where each handler is, and what it has read
    minted,     \* history: secrets handed out
    latest,     \* history: the latest step accepted of a secret
    reused,     \* history: secrets of which a code was accepted again, in a behaviour alone
    refused     \* history: secrets of which a code was refused that had not been accepted

history == <<minted, latest, reused, refused>>
vars == <<alone, now, row, guard, pc, work, history>>

Op == {"verify", "setup", "enable", "disable", "start", "confirm", "reset"}
Maybe == Secret \cup {NoSecret}
Code == 0..MaxStep + 1   \* the step of a code of the secret compared with, 0 for any other
AdminUser == [enabled: BOOLEAN, secret: Maybe, pending: Maybe]
Fresh == [enabled |-> FALSE, secret |-> NoSecret, pending |-> NoSecret]
Guard == [secret: Maybe, step: 0..MaxStep + 1]
NoGuard == [secret |-> NoSecret, step |-> 0]

Work == [op: Op, code: Code, against: Maybe]
NoWork == [op |-> "verify", code |-> 0, against |-> NoSecret]

TypeOK ==
    /\ alone \in BOOLEAN
    /\ now \in 2..MaxStep
    /\ row \in AdminUser
    /\ guard \in Guard
    /\ pc \in [Handler -> {"idle", "consume", "write"}]
    /\ work \in [Handler -> Work]
    /\ minted \in SUBSET Secret
    /\ latest \in [Secret -> 0..MaxStep + 1]
    /\ reused \in SUBSET Secret
    /\ refused \in SUBSET Secret

Init ==
    /\ alone \in BOOLEAN
    /\ now = 2
    /\ row = Fresh
    /\ guard = NoGuard
    /\ pc = [h \in Handler |-> "idle"]
    /\ work = [h \in Handler |-> NoWork]
    /\ minted = {}
    /\ latest = [s \in Secret |-> 0]
    /\ reused = {}
    /\ refused = {}

-----------------------------------------------------------------------------

InFlight(h) == pc[h] # "idle"

\* People who change the second factor do so one request at a time.
MayStart(op) ==
    alone => \A h \in Handler : InFlight(h) => op = "verify" /\ work[h].op = "verify"

Begin(h, label, w) ==
    /\ ~InFlight(h)
    /\ MayStart(w.op)
    /\ pc' = [pc EXCEPT ![h] = label]
    /\ work' = [work EXCEPT ![h] = w]

Finish(h) ==
    /\ pc' = [pc EXCEPT ![h] = "idle"]
    /\ work' = [work EXCEPT ![h] = NoWork]

ToWrite(h) ==
    /\ pc' = [pc EXCEPT ![h] = "write"]
    /\ UNCHANGED work

\* The secret a code is compared with, from the row read.
Against(op) == IF op \in {"enable", "confirm"} THEN row.pending ELSE row.secret

\* findValidTotpStep: a code of the step before, of this one or of the next.
Matches(c) == c \in (now - 1)..(now + 1)

\* The conditions under which the code of a request is looked at.
Accepts(op) ==
    /\ Against(op) # NoSecret
    /\ op = "enable" <=> ~row.enabled

\* Verifying, enabling, disabling, and both steps of reconfiguring, up to the
\* code, which time may pass by before it is looked at.
Submit(h, op, c) ==
    /\ c = 0 \/ Matches(c)
    /\ op \in {"verify", "enable", "disable", "start", "confirm"}
    /\ Accepts(op)
    /\ Begin(h, "consume", [op |-> op, code |-> c, against |-> Against(op)])
    /\ UNCHANGED <<alone, now, row, guard, history>>

\* A setup without a pending secret makes one; with one it only shows it.
StartSetup(h) ==
    /\ ~row.enabled
    /\ row.pending = NoSecret
    /\ Begin(h, "write", [NoWork EXCEPT !.op = "setup"])
    /\ UNCHANGED <<alone, now, row, guard, history>>

StartReset(h) ==
    /\ Begin(h, "write", [NoWork EXCEPT !.op = "reset"])
    /\ UNCHANGED <<alone, now, row, guard, history>>

\* Mutant of Unspent: the step alone is compared.
UnspentStep(s, t) == guard = NoGuard \/ guard.step < t

\* Mutant of Unspent: another secret or the same step.
UnspentOrEqual(s, t) == guard = NoGuard \/ guard.secret # s \/ guard.step <= t

\* The condition of the update in consumeTotpCode.
Unspent(s, t) == guard = NoGuard \/ guard.secret # s \/ guard.step < t

\* What the database answers to the update, for every handler.  A code that was
\* accepted ends a verification and lets the others go on to write.
Consume(h) ==
    /\ pc[h] = "consume"
    /\ LET s == work[h].against
           t == work[h].code
       IN  IF Matches(t)
           THEN IF Unspent(s, t)
                THEN /\ guard' = [secret |-> s, step |-> t]
                     /\ latest' = [latest EXCEPT ![s] = IF t > @ THEN t ELSE @]
                     /\ reused' = IF ~alone \/ t > latest[s] THEN reused ELSE reused \cup {s}
                     /\ IF work[h].op = "verify" THEN Finish(h) ELSE ToWrite(h)
                     /\ UNCHANGED refused
                ELSE /\ refused' = IF t > latest[s] THEN refused \cup {s} ELSE refused
                     /\ Finish(h)
                     /\ UNCHANGED <<guard, latest, reused>>
           ELSE Finish(h) /\ UNCHANGED <<guard, latest, reused, refused>>
    /\ UNCHANGED <<alone, now, row, minted>>

\* Setting up and starting to reconfigure: a new pending secret.
WritePending(h) ==
    /\ pc[h] = "write"
    /\ work[h].op \in {"setup", "start"}
    /\ \E s \in Secret \ minted :
         /\ row' = [row EXCEPT !.pending = s]
         /\ minted' = minted \cup {s}
    /\ Finish(h)
    /\ UNCHANGED <<alone, now, guard, latest, reused, refused>>

\* Mutant of WriteSecret: the secret pending by now.
WritePendingSecret(h) ==
    /\ pc[h] = "write"
    /\ work[h].op \in {"enable", "confirm"}
    /\ row' = [enabled |-> TRUE, secret |-> row.pending, pending |-> NoSecret]
    /\ Finish(h)
    /\ UNCHANGED <<alone, now, guard, history>>

\* Enabling and confirming: the secret that was pending when the row was read.
WriteSecret(h) ==
    /\ pc[h] = "write"
    /\ work[h].op \in {"enable", "confirm"}
    /\ row' = [enabled |-> TRUE, secret |-> work[h].against, pending |-> NoSecret]
    /\ Finish(h)
    /\ UNCHANGED <<alone, now, guard, history>>

\* Disabling, and the reset by an administrator, forget everything.
WriteCleared(h) ==
    /\ pc[h] = "write"
    /\ work[h].op \in {"disable", "reset"}
    /\ row' = Fresh
    /\ guard' = NoGuard
    /\ Finish(h)
    /\ UNCHANGED <<alone, now, history>>

\* Bound: MaxStep.
Tick ==
    /\ now < MaxStep
    /\ now' = now + 1
    /\ UNCHANGED <<alone, row, guard, pc, work, history>>

\* A statement fails or the process stops.
Lose(h) ==
    /\ ~alone
    /\ InFlight(h)
    /\ Finish(h)
    /\ UNCHANGED <<alone, now, row, guard, history>>

Next ==
    \/ Tick
    \/ \E h \in Handler :
         \/ \E op \in Op, c \in Code : Submit(h, op, c)
         \/ StartSetup(h) \/ StartReset(h)
         \/ Consume(h)
         \/ WritePending(h) \/ WriteSecret(h) \/ WriteCleared(h)
         \/ Lose(h)

Spec == Init /\ [][Next]_vars

-----------------------------------------------------------------------------
(* Safety. *)

\* A code is accepted once, and never after a later one of its secret, however
\* verifications overlap and secrets are replaced, as long as the handlers that
\* replace them do not overlap others and none fails between its statements.
OneUse == alone => reused = {}

\* Whatever overlaps or fails, a code is refused only when it or a later one of
\* the same secret was accepted before: a new secret works in the step in which
\* the old one was used last.
GoodCodeWorks == refused = {}

\* Whatever overlaps or fails, a second factor that is asked for has a secret of
\* which a code was accepted: nobody is locked out by a secret that never
\* reached an authenticator.
ActiveSecretProven == row.enabled => row.secret # NoSecret /\ latest[row.secret] > 0
=============================================================================
