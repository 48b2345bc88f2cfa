----------------------------- MODULE RateLimit -----------------------------
(***************************************************************************)
(* How many wrong passwords and codes are looked at: one row per email,    *)
(* per IP address and per user of a second factor, with a window, a        *)
(* counter and the date until which the key is locked.                     *)
(*                                                                         *)
(* The row is read in one statement and written in another, by every       *)
(* attempt that fails; the date it writes was taken before it read.        *)
(***************************************************************************)
EXTENDS Integers, Sequences, SequencesExt

CONSTANTS
    Key,        \* scopes and keys
    Limit,      \* failures that lock a key
    Window,     \* how long failures of a key are added up
    Lockout,    \* how long a lock lasts
    Workloads,  \* sets of attempts, each the sequence of keys it is counted for
    Forgivable, \* keys that a change of the password clears
    Handler,    \* attempts that may be in flight at the same time
    MaxTime,    \* bound: how long time goes on for
    MaxOver     \* bound: how far over its limit a counter may go

VARIABLES
    attempts,   \* of this behaviour: what is attempted
    alone,      \* of this behaviour: do attempts come one at a time?
    now,        \* the clock
    row,        \* the AuthRateLimit row of a key
    pc, work,   \* where each attempt is, and what it has read
    wrong       \* history: when wrong answers were looked at since the key was cleared

vars == <<attempts, alone, now, row, pc, work, wrong>>

Time == 1..MaxTime
AuthRateLimit == [failures: Nat, from: 0..MaxTime, until: 0..MaxTime + Lockout]
NoRow == [failures |-> 0, from |-> 0, until |-> 0]   \* until 0: never locked

\* The keys still to be looked at or counted, the date taken, the row read.
Work == [keys: Seq(Key), todo: Seq(Key), at: 0..MaxTime, row: AuthRateLimit]
Attempt(keys, todo, at) == [keys |-> keys, todo |-> todo, at |-> at, row |-> NoRow]
NoWork == Attempt(<<>>, <<>>, 0)

TypeOK ==
    /\ attempts \in Workloads
    /\ alone \in BOOLEAN
    /\ now \in Time
    /\ row \in [Key -> AuthRateLimit]
    /\ pc \in [Handler -> {"idle", "look", "compare", "clear", "read", "write"}]
    /\ work \in [Handler -> Work]
    /\ wrong \in [Key -> Seq(Time)]
    /\ \A h \in Handler : pc[h] \in {"look", "read", "write"} <=> work[h].todo # <<>>

Init ==
    /\ attempts \in Workloads
    /\ alone \in BOOLEAN
    /\ now = 1
    /\ row = [k \in Key |-> NoRow]
    /\ pc = [h \in Handler |-> "idle"]
    /\ work = [h \in Handler |-> NoWork]
    /\ wrong = [k \in Key |-> <<>>]

-----------------------------------------------------------------------------

Goto(h, label, w) ==
    /\ pc' = [pc EXCEPT ![h] = label]
    /\ work' = [work EXCEPT ![h] = w]

Finish(h) == Goto(h, "idle", NoWork)

Start(h, keys) ==
    /\ pc[h] = "idle"
    /\ alone => \A g \in Handler : pc[g] = "idle"
    /\ Goto(h, "look", Attempt(keys, keys, now))
    /\ UNCHANGED <<attempts, alone, now, row, wrong>>

\* canAttemptLogin and canAttemptMfaVerify: a locked key ends the attempt.  The
\* rows are read together, in any order.
Look(h) ==
    /\ pc[h] = "look"
    /\ \E i \in DOMAIN work[h].todo :
         LET w == work[h]
         IN  IF row[w.todo[i]].until > w.at THEN Finish(h)
             ELSE IF Len(w.todo) = 1 THEN Goto(h, "compare", Attempt(w.keys, <<>>, 0))
             ELSE Goto(h, "look", Attempt(w.keys, RemoveAt(w.todo, i), w.at))
    /\ UNCHANGED <<attempts, alone, now, row, wrong>>

\* The password or the code is compared.  The date of a failure is taken here.
Compare(h) ==
    /\ pc[h] = "compare"
    /\ \/ /\ Goto(h, "clear", work[h])
          /\ UNCHANGED wrong
       \/ /\ Goto(h, "read", Attempt(work[h].keys, work[h].keys, now))
          /\ wrong' = [k \in Key |->
                         IF alone /\ \E i \in DOMAIN work[h].keys : work[h].keys[i] = k
                         THEN Append(wrong[k], now) ELSE wrong[k]]
    /\ UNCHANGED <<attempts, alone, now, row>>

Cleared(keys) ==
    /\ row' = [k \in Key |-> IF k \in keys THEN NoRow ELSE row[k]]
    /\ wrong' = [k \in Key |-> IF k \in keys THEN <<>> ELSE wrong[k]]

\* One statement for all keys.
Clear(h) ==
    /\ pc[h] = "clear"
    /\ Cleared({work[h].keys[i] : i \in DOMAIN work[h].keys})
    /\ Finish(h)
    /\ UNCHANGED <<attempts, alone, now>>

\* Another handler replaced the password.
Forgive(k) ==
    /\ alone => \A h \in Handler : pc[h] = "idle"
    /\ row[k] # NoRow
    /\ Cleared({k})
    /\ UNCHANGED <<attempts, alone, now, pc, work>>

ReadRow(h) ==
    /\ pc[h] = "read"
    /\ Goto(h, "write", [work[h] EXCEPT !.row = row[Head(work[h].todo)]])
    /\ UNCHANGED <<attempts, alone, now, row, wrong>>

\* Mutant of Counted: a lock that ended does not start a new count.
CountedOn(k, read, at) ==
    LET over == read = NoRow \/ at - read.from > Window[k]
        failures == IF over THEN 1 ELSE read.failures + 1
    IN  [failures |-> failures, from |-> IF over THEN at ELSE read.from,
         until |-> IF failures >= Limit[k] THEN at + Lockout ELSE 0]

\* Mutant of Counted: a failure during a lock is added to the lock.
CountedLonger(k, read, at) ==
    LET over == \/ read = NoRow
                \/ at - read.from > Window[k]
                \/ read.until # 0 /\ read.until <= at
        failures == IF over THEN 1 ELSE read.failures + 1
    IN  [failures |-> failures, from |-> IF over THEN at ELSE read.from,
         until |-> IF failures < Limit[k] THEN 0
                   ELSE Lockout + (IF read.until > at THEN read.until ELSE at)]

\* Mutant of Counted: the limit is the first number of failures that is too many.
CountedBeyond(k, read, at) ==
    LET over == \/ read = NoRow
                \/ at - read.from > Window[k]
                \/ read.until # 0 /\ read.until <= at
        failures == IF over THEN 1 ELSE read.failures + 1
    IN  [failures |-> failures, from |-> IF over THEN at ELSE read.from,
         until |-> IF failures > Limit[k] THEN at + Lockout ELSE 0]

\* The row after one more failure at a date.
Counted(k, read, at) ==
    LET over == \/ read = NoRow
                \/ at - read.from > Window[k]
                \/ read.until # 0 /\ read.until <= at
        failures == IF over THEN 1 ELSE read.failures + 1
    IN  [failures |-> failures, from |-> IF over THEN at ELSE read.from,
         until |-> IF failures >= Limit[k] THEN at + Lockout ELSE 0]

\* Creating a row that exists by now throws, and so does updating one that was
\* cleared: the rest of the attempt is not counted.  Bound: MaxOver, for attempts
\* that overlap can push a counter as far as they like.
WriteRow(h) ==
    /\ pc[h] = "write"
    /\ LET k == Head(work[h].todo)
       IN  IF (work[h].row = NoRow) = (row[k] = NoRow)
           THEN /\ work[h].row.failures < Limit[k] + MaxOver
                /\ row' = [row EXCEPT ![k] = Counted(k, work[h].row, work[h].at)]
                /\ IF Len(work[h].todo) = 1 THEN Finish(h)
                   ELSE Goto(h, "read", Attempt(work[h].keys, Tail(work[h].todo), work[h].at))
           ELSE Finish(h) /\ UNCHANGED row
    /\ UNCHANGED <<attempts, alone, now, wrong>>

\* Bound: MaxTime.
Tick ==
    /\ now < MaxTime
    /\ now' = now + 1
    /\ UNCHANGED <<attempts, alone, row, pc, work, wrong>>

Next ==
    \/ Tick
    \/ \E k \in Forgivable : Forgive(k)
    \/ \E h \in Handler :
         \/ \E keys \in attempts : Start(h, keys)
         \/ Look(h) \/ Compare(h) \/ Clear(h) \/ ReadRow(h) \/ WriteRow(h)

Spec == Init /\ [][Next]_vars

-----------------------------------------------------------------------------
(* Safety. *)

Locked(k) == row[k].until > now

\* Attempts that come one at a time: within the length of a window, wherever it
\* starts, fewer wrong answers are looked at than twice the limit allows, for the
\* second count needs the first failure of the first one to be out of it.
GuessBound ==
    \A k \in Key : \A i, j \in DOMAIN wrong[k] :
        j - i >= 2 * Limit[k] - 2 => wrong[k][j] - wrong[k][i] >= Window[k]

\* As many wrong answers as the limit of a key, all since its last lock was over.
Earned(k) ==
    \E i \in DOMAIN wrong[k] :
        /\ Len(wrong[k]) - i >= Limit[k] - 1
        /\ wrong[k][i] >= row[k].until

\* Attempts that come one at a time: a lock is neither lifted nor prolonged before
\* its time, unless a success or a new password clears the key; and a key is
\* locked, and locked again, only once that is earned.
LocksAreKept ==
    [][alone => \A k \in Key :
         \/ row'[k] \in {row[k], NoRow}
         \/ /\ ~Locked(k)
            /\ row'[k].until \notin {0, row[k].until} => Earned(k)]_vars

\* However attempts overlap, and whatever they read before they write: a key whose
\* counter is at its limit has a lock, that lock ends at most one lockout from now,
\* and the failures it counts began before now.
LocksEnd ==
    \A k \in Key : /\ row[k].failures >= Limit[k] <=> row[k].until # 0
                   /\ row[k].until <= now + Lockout
                   /\ row[k].from <= now
=============================================================================
