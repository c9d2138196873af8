------------------------------ MODULE Accounts ------------------------------
(***************************************************************************)
(* One account: its password, its logins and its Web sessions              *)
(* (webapp/auth.py, webapp/dependencies.py), with the administrator's      *)
(* reset, disable and enable (webapp/admin.py) and the command line's      *)
(* bootstrap-admin (webapp/cli.py).  Accounts share no row, so one says    *)
(* it all.                                                                 *)
(*                                                                         *)
(* login, change_password and reset_password are sync handlers: FastAPI    *)
(* runs each in a thread of its own, so two handlers interleave between    *)
(* any two statements to the database.  A handler loads the user's row,    *)
(* hashes for a while, and commits; SQLAlchemy then writes the columns     *)
(* whose new value differs from the loaded one, and no others.             *)
(*                                                                         *)
(* A password is the number of the change that set it.                     *)
(***************************************************************************)
EXTENDS Naturals, FiniteSets

CONSTANTS Requests,      \* handlers that can be in flight at once
          Sessions,      \* ids of web_sessions rows
          MaxFailures,   \* failed logins in 15 minutes until 429
          MaxPasswords   \* bound: passwords the account is given

ASSUME AccountBounds == MaxFailures \in Nat \ {0} /\ MaxPasswords \in Nat \ {0}
ASSUME RequestsFinite == IsFiniteSet(Requests)

VARIABLES
    role,      \* users.role
    user,      \* users: password_hash, is_active
    failures,  \* login_attempts: failures of this name and address, 15 minutes
    sessions,  \* web_sessions: the password each was opened with
    request,   \* the handlers in flight
    made,      \* how many passwords there have been
    spared     \* sessions that the last change of the password left alive

accountVars == <<role, user, failures, sessions, request, made, spared>>

Closed == [open |-> FALSE, key |-> 0, late |-> FALSE]
NoRequest == [pc |-> "idle", key |-> 0, seen |-> FALSE, session |-> {},
              late |-> FALSE]

AccountsInit ==
    /\ role \in {"user", "admin"}
    /\ user = [hash |-> 1, active |-> TRUE]
    /\ failures = 0
    /\ sessions = [s \in Sessions |-> Closed]
    /\ request = [r \in Requests |-> NoRequest]
    /\ made = 1
    /\ spared = {}

Idle(r) == request' = [request EXCEPT ![r] = NoRequest]

\* A commit that touches the password or the account overtakes every login that
\* has verified what it will not look at again.
Overtaken(r) == request' = [q \in Requests |->
    IF q = r THEN NoRequest
    ELSE [request[q] EXCEPT !.late = @ \/ request[q].pc = "valid"]]

\* login: five failures and the answer is 429; else a password is looked at.
LoginBegin_Unlimited(r, key) ==  \* mutant: the count is not compared
    /\ request[r] = NoRequest
    /\ request' = [request EXCEPT ![r].pc = "counted", ![r].key = key]
    /\ UNCHANGED <<role, user, failures, sessions, made, spared>>
LoginBegin(r, key) ==
    /\ request[r] = NoRequest
    /\ failures < MaxFailures
    /\ request' = [request EXCEPT ![r].pc = "counted", ![r].key = key]
    /\ UNCHANGED <<role, user, failures, sessions, made, spared>>

\* login: the row is loaded and the password verified against it.
LoginVerify(r) ==
    /\ request[r].pc = "counted"
    /\ request' = [request EXCEPT ![r].pc =
            IF user.active /\ user.hash = request[r].key THEN "valid" ELSE "invalid"]
    /\ UNCHANGED <<role, user, failures, sessions, made, spared>>

LoginFails(r) ==
    /\ request[r].pc = "invalid"
    /\ failures' = failures + 1
    /\ Idle(r)
    /\ UNCHANGED <<role, user, sessions, made, spared>>

LoginOpens(r, s) ==
    /\ request[r].pc = "valid"
    /\ ~sessions[s].open
    /\ sessions' = [sessions EXCEPT ![s] =
            [open |-> TRUE, key |-> request[r].key, late |-> request[r].late]]
    /\ Idle(r)
    /\ UNCHANGED <<role, user, failures, made, spared>>

\* logout, or session_days are over.
SessionCloses(s) ==
    /\ sessions[s].open
    /\ sessions' = [sessions EXCEPT ![s] = Closed]
    /\ UNCHANGED <<role, user, failures, request, made, spared>>

\* The oldest failure is more than 15 minutes old.
FailureExpires ==
    /\ failures > 0
    /\ failures' = failures - 1
    /\ UNCHANGED <<role, user, sessions, request, made, spared>>

\* A handler ends without a commit: the current password is wrong, the database
\* refuses, or the process dies.
GivesUp(r) ==
    /\ request[r] # NoRequest
    /\ Idle(r)
    /\ UNCHANGED <<role, user, failures, sessions, made, spared>>

-----------------------------------------------------------------------------
(* What writes the user's row: each loads it first.                        *)

\* get_principal: a live session of an active user.
MayChange(s) == sessions[s].open /\ user.active

Loads(r, pc, own) ==
    /\ request[r] = NoRequest
    /\ request' = [request EXCEPT ![r] = [NoRequest EXCEPT
            !.pc = pc, !.session = own, !.seen = user.active]]
    /\ UNCHANGED <<role, user, failures, sessions, made, spared>>

\* The UPDATE of is_active: a value that equals the loaded one is not written.
Written(r, value) == IF request[r].seen = value THEN user.active ELSE value

Kept(ids) == [s \in Sessions |-> IF s \in ids THEN sessions[s] ELSE Closed]
OpenSessions == {s \in Sessions : sessions[s].open}

\* A new password and the sessions that stay, in one commit.
Sets(r, active, ids) ==
    /\ made < MaxPasswords
    /\ made' = made + 1
    /\ user' = [hash |-> made + 1, active |-> active]
    /\ sessions' = Kept(ids)
    /\ spared' = ids
    /\ Overtaken(r)
    /\ UNCHANGED <<role, failures>>

\* change_password: the current password is verified against the loaded hash;
\* the user's other sessions go.
ChangeLoad(r) == \E s \in Sessions : MayChange(s) /\ Loads(r, "change", {s})
ChangePassword(r) ==
    /\ request[r].pc = "change"
    /\ Sets(r, user.active, request[r].session)

\* reset_password: a temporary password; every session goes.
ResetLoad(r) == Loads(r, "reset", {})
ResetPassword(r) ==
    /\ request[r].pc = "reset"
    /\ Sets(r, user.active, {})

\* bootstrap-admin on an administrator who exists; the sessions stay.
BootstrapLoad(r) == role = "admin" /\ Loads(r, "bootstrap", {})
BootstrapAdmin(r) ==
    /\ request[r].pc = "bootstrap"
    /\ Sets(r, Written(r, TRUE), OpenSessions)

\* disable_user and enable_user after their awaits; disable deletes the
\* sessions.  Administrators are refused.
SwitchLoad(r) == role # "admin" /\ \E pc \in {"disable", "enable"} : Loads(r, pc, {})
DisableUser_KeepsSessions(r) ==  \* mutant: the sessions stay
    /\ request[r].pc = "disable"
    /\ user' = [user EXCEPT !.active = Written(r, FALSE)]
    /\ Overtaken(r)
    /\ UNCHANGED <<role, failures, sessions, made, spared>>
DisableUser(r) ==
    /\ request[r].pc = "disable"
    /\ user' = [user EXCEPT !.active = Written(r, FALSE)]
    /\ sessions' = Kept({})
    /\ Overtaken(r)
    /\ UNCHANGED <<role, failures, made, spared>>
EnableUser(r) ==
    /\ request[r].pc = "enable"
    /\ user' = [user EXCEPT !.active = Written(r, TRUE)]
    /\ Idle(r)
    /\ UNCHANGED <<role, failures, sessions, made, spared>>

AccountsNext ==
    \/ \E r \in Requests :
         \/ \E key \in {0, made} : LoginBegin(r, key)
         \/ LoginVerify(r)
         \/ LoginFails(r)
         \/ \E s \in Sessions : LoginOpens(r, s)
         \/ ChangeLoad(r) \/ ChangePassword(r) \/ GivesUp(r)
         \/ ResetLoad(r) \/ ResetPassword(r)
         \/ BootstrapLoad(r) \/ BootstrapAdmin(r)
         \/ SwitchLoad(r) \/ DisableUser(r) \/ EnableUser(r)
    \/ \E s \in Sessions : SessionCloses(s)
    \/ FailureExpires

AccountsSpec == AccountsInit /\ [][AccountsNext]_accountVars
-----------------------------------------------------------------------------
(* Properties.                                                             *)

\* Logins that have passed the count and may still record a failure.
Guessing == {r \in Requests : request[r].pc \in {"counted", "valid", "invalid"}}

\* login counts, verifies and records in steps that threads interleave, so the
\* limit can be exceeded, but only by the handlers that run at once: the last of
\* them had passed the count before the others failed.
FailuresBounded == failures + Cardinality(Guessing) < MaxFailures + Cardinality(Requests)

\* What docs/web/security.md says of login: at most five failures of one name
\* and address in 15 minutes.  Two logins at once exceed it.
LoginLimit == failures <= MaxFailures

\* A session opened before the password was changed or reset, or the account
\* disabled, is gone with that commit, whatever reset, change, disable, enable
\* and login interleave: an open session belongs to an active user and was
\* opened with the password in force, or was spared (the one that changed it;
\* all of them in bootstrap-admin).  The one exception, `late`, is a login that
\* had verified the old row and inserts its session after that commit.
SessionsAreCurrent ==
    \A s \in Sessions : sessions[s].open /\ ~sessions[s].late =>
        user.active /\ (sessions[s].key = user.hash \/ s \in spared)
=============================================================================
