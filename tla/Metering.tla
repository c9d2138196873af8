------------------------------ MODULE Metering ------------------------------
(***************************************************************************)
(* What the DeepSeek proxy promises of its users' accounts, without rows,  *)
(* streams or jobs: a request is counted once, on the day it is answered;  *)
(* what it used is charged once, to the same user, on the day it is over:  *)
(* never more than the provider counted, and exactly that if the           *)
(* provider's answer was whole.                                            *)
(* Nothing else moves an account but a restore, and of that user only.     *)
(***************************************************************************)
EXTENDS Naturals

CONSTANTS Users, Calls, Nobody,
          Days,         \* bound: days are 1..Days
          Most          \* bound: what one request can use

VARIABLES
    charged,   \* what each user has been charged, day by day
    saved,     \* the same, in the backup
    open,      \* the requests the provider is answering
    day        \* today
vars == <<charged, saved, open, day>>

Closed == [user |-> Nobody, used |-> 0, whole |-> FALSE]
NoCharge == [u \in Users |-> [d \in 1..Days |-> [requests |-> 0, tokens |-> 0]]]

Init ==
    /\ charged = NoCharge
    /\ saved = NoCharge
    /\ open = [r \in Calls |-> Closed]
    /\ day = 1

Answer(r) ==
    /\ open[r] = Closed
    /\ \E u \in Users, n \in 0..Most :
         /\ open' = [open EXCEPT ![r] = [user |-> u, used |-> n, whole |-> FALSE]]
         /\ charged' = [charged EXCEPT ![u][day].requests = @ + 1]
    /\ UNCHANGED <<saved, day>>

Use(r) ==
    /\ open[r] # Closed /\ ~open[r].whole
    /\ \E n \in open[r].used..Most, last \in BOOLEAN :
         open' = [open EXCEPT ![r] = [user |-> @.user, used |-> n, whole |-> last]]
    /\ UNCHANGED <<charged, saved, day>>

Charge(r) ==
    /\ open[r] # Closed
    /\ open' = [open EXCEPT ![r] = Closed]
    /\ \E n \in 0..open[r].used :
         /\ open[r].whole => n = open[r].used
         /\ charged' = [charged EXCEPT ![open[r].user][day].tokens = @ + n]
    /\ UNCHANGED <<saved, day>>

\* The service dies: what was open is charged to nobody.
Forget ==
    /\ open' = [r \in Calls |-> Closed]
    /\ UNCHANGED <<charged, saved, day>>

Midnight == day < Days /\ day' = day + 1 /\ UNCHANGED <<charged, saved, open>>

Backup == saved' = charged /\ UNCHANGED <<charged, open, day>>

Restore(u) ==
    /\ open = [r \in Calls |-> Closed]
    /\ charged' = [charged EXCEPT ![u] = saved[u]]
    /\ UNCHANGED <<saved, open, day>>

Next ==
    \/ \E r \in Calls : Answer(r) \/ Use(r) \/ Charge(r)
    \/ Forget \/ Midnight
    \/ Backup
    \/ \E u \in Users : Restore(u)

Spec == Init /\ [][Next]_vars
=============================================================================
