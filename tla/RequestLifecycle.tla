-------------------------- MODULE RequestLifecycle --------------------------
(***************************************************************************)
(* What an access request promises its owner and its reviewers, without    *)
(* handlers, certificates files or time: which status may follow which,    *)
(* and that database access (a certificate recorded as ACTIVE) is only     *)
(* ever gained by an approval.                                             *)
(*                                                                         *)
(* The statuses are those of the enum AccessRequestStatus; "none" and      *)
(* "gone" are a row not yet inserted and a row deleted.                    *)
(***************************************************************************)

CONSTANTS Request, Account, NoAccount

VARIABLES
    status,     \* the status of every request
    target,     \* the account it asks for
    access      \* the accounts with an active certificate on record

vars == <<status, target, access>>

Init ==
    /\ status = [r \in Request |-> "none"]
    /\ target = [r \in Request |-> NoAccount]
    /\ access = {}

Become(r, s) == status' = [status EXCEPT ![r] = s]

Create(r, a) ==
    /\ status[r] = "none"
    /\ Become(r, "PENDING")
    /\ target' = [target EXCEPT ![r] = a]
    /\ UNCHANGED access

\* A request that expired under the eyes of its reviewer can still be taken
\* up: the reviewer read it while it was open.
Claim(r) ==
    /\ status[r] \in {"PENDING", "FAILED", "EXPIRED"}
    /\ Become(r, "PROCESSING")
    /\ UNCHANGED <<target, access>>

Reject(r) ==
    /\ status[r] \in {"PENDING", "FAILED", "EXPIRED"}
    /\ Become(r, "REJECTED")
    /\ UNCHANGED <<target, access>>

Approve(r) ==
    /\ status[r] = "PROCESSING"
    /\ Become(r, "APPROVED")
    /\ access' = access \cup {target[r]}
    /\ UNCHANGED target

\* A failure may be noticed after the approval, which it then takes back on
\* the request, but not in the database record of the certificate.
Fail(r) ==
    /\ status[r] \in {"PROCESSING", "APPROVED", "EXPIRED"}
    /\ Become(r, "FAILED")
    /\ UNCHANGED <<target, access>>

Expire(r) ==
    /\ status[r] \in {"PENDING", "FAILED", "APPROVED"}
    /\ Become(r, "EXPIRED")
    /\ UNCHANGED <<target, access>>

Cancel(r) ==
    /\ status[r] \notin {"none", "gone"}
    /\ Become(r, "gone")
    /\ UNCHANGED <<target, access>>

Withdraw(a) ==
    /\ access' = access \ {a}
    /\ UNCHANGED <<status, target>>

Next ==
    \/ \E r \in Request : \/ Claim(r) \/ Reject(r) \/ Approve(r)
                          \/ Fail(r) \/ Expire(r) \/ Cancel(r)
    \/ \E r \in Request, a \in Account : Create(r, a)
    \/ \E a \in Account : Withdraw(a)

Spec == Init /\ [][Next]_vars
=============================================================================
