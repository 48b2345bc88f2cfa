------------------------------- MODULE Guards --------------------------------
(***************************************************************************)
(* The two guards of a sign-in side by side: codes that are good for one    *)
(* use, and the limit on wrong answers.  They keep separate rows and have   *)
(* no statement in common, so that a behaviour is one of the first guard or *)
(* one of the second, while the other stays as it began.                    *)
(***************************************************************************)
EXTENDS TotpCodes, Sequences, FiniteSets, Functions

CONSTANTS
    Key, Limit, Window, Lockout, Workloads, Forgivable, MaxTime, MaxOver   \* of RateLimit

ASSUME LimitAssumption == Limit \in [Key -> Nat \ {0, 1}]
ASSUME TimeAssumption == /\ {Lockout, MaxTime, MaxOver} \subseteq Nat \ {0}
                         /\ Window \in [Key -> 1..Lockout]
ASSUME AttemptAssumption == /\ \A a \in UNION Workloads : a \in Seq(Key) /\ a # <<>> /\ IsInjective(a)
                            /\ Forgivable \subseteq Key
ASSUME HandlerAssumption == IsFiniteSet(Handler)

VARIABLES
    guarded,    \* of this behaviour: codes or counters?
    attempts, oneByOne, clock, counter, at, held, wrong   \* of RateLimit

limits == <<attempts, oneByOne, clock, counter, at, held, wrong>>

RL == INSTANCE RateLimit
    WITH alone <- oneByOne, now <- clock, row <- counter, pc <- at, work <- held

GuardsInit ==
    /\ Init /\ RL!Init
    /\ \/ guarded = "codes" /\ attempts = {} /\ oneByOne
       \/ guarded = "counters" /\ alone

Codes == guarded = "codes" /\ Next /\ UNCHANGED <<guarded, limits>>
Counters == guarded = "counters" /\ RL!Next /\ UNCHANGED <<guarded, vars>>

GuardsSpec ==
    GuardsInit /\ [][Codes \/ Counters]_<<vars, guarded, limits>>

-----------------------------------------------------------------------------
(* What RateLimit promises of login-rate-limit.ts.                          *)

\* Attempts one at a time: within the length of a window, wherever it starts,
\* fewer wrong answers are looked at than twice the limit allows.
GuessBound == RL!GuessBound

\* However attempts overlap: a key at its limit has a lock, and every lock ends.
LocksEnd == RL!LocksEnd

\* Attempts one at a time: locks stand for their time, and are earned.
LocksAreKept == RL!LocksAreKept
=============================================================================
