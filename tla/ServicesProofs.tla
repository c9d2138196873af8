--------------------------- MODULE ServicesProofs ---------------------------
(***************************************************************************)
(* What three of the application's services promise, for all sizes.        *)
(*                                                                         *)
(* Accounts: the limit of failed logins can be exceeded only by what runs  *)
(* at once, and no session outlives the password or the account it was     *)
(* opened with, late logins and spared sessions excepted.  StreamParser:   *)
(* the page has every text once.  ResumeLint: one pass over a file finds   *)
(* what the rules say of the whole file.                                   *)
(***************************************************************************)
EXTENDS Accounts, StreamParser, ResumeLint, FiniteSetTheorems, TLAPS

(***************************************************************************)
(* The shape of the state.                                                 *)
(***************************************************************************)
RequestPcs == {"idle", "counted", "valid", "invalid", "change", "reset",
               "bootstrap", "disable", "enable"}
SessionRows == [open : BOOLEAN, key : Nat, late : BOOLEAN]
RequestRows == [pc : RequestPcs, key : Nat, seen : BOOLEAN,
                session : SUBSET Sessions, late : BOOLEAN]

Shape ==
    /\ user \in [hash : Nat, active : BOOLEAN]
    /\ failures \in Nat
    /\ sessions \in [Sessions -> SessionRows]
    /\ request \in [Requests -> RequestRows]
    /\ made \in Nat
    /\ spared \subseteq Sessions

LEMMA InitShape == AccountsInit => Shape
<1> SUFFICES ASSUME AccountsInit PROVE Shape
  OBVIOUS
<1>1. Closed \in SessionRows
  BY DEF Closed, SessionRows
<1>2. NoRequest \in RequestRows
  BY DEF NoRequest, RequestRows, RequestPcs
<1> QED
  BY <1>1, <1>2 DEF AccountsInit, Shape

\* What Overtaken does to each request.
LEMMA OvertakenShape ==
  ASSUME Shape, NEW r \in Requests, Overtaken(r)
  PROVE  /\ request' \in [Requests -> RequestRows]
         /\ \A q \in Requests :
              IF q = r THEN request'[q] = NoRequest
              ELSE /\ request'[q].pc = request[q].pc
                   /\ request'[q].key = request[q].key
                   /\ request'[q].late = (request[q].late \/ request[q].pc = "valid")
<1>1. NoRequest \in RequestRows
  BY DEF NoRequest, RequestRows, RequestPcs
<1>2. ASSUME NEW q \in Requests
      PROVE  /\ request[q] \in RequestRows
             /\ [request[q] EXCEPT !.late = @ \/ request[q].pc = "valid"] \in RequestRows
  BY DEF Shape, RequestRows
<1>3. request' \in [Requests -> RequestRows]
  BY <1>1, <1>2 DEF Overtaken
<1>4. ASSUME NEW q \in Requests, q # r
      PROVE  /\ request'[q].pc = request[q].pc
             /\ request'[q].key = request[q].key
             /\ request'[q].late = (request[q].late \/ request[q].pc = "valid")
  BY <1>2, <1>4 DEF Overtaken, RequestRows
<1>5. request'[r] = NoRequest
  BY DEF Overtaken
<1> QED
  BY <1>3, <1>4, <1>5

\* What Idle does to each request.
LEMMA IdleShape ==
  ASSUME Shape, NEW r \in Requests, Idle(r)
  PROVE  /\ request' \in [Requests -> RequestRows]
         /\ \A q \in Requests : request'[q] = IF q = r THEN NoRequest ELSE request[q]
<1>1. NoRequest \in RequestRows
  BY DEF NoRequest, RequestRows, RequestPcs
<1> QED
  BY <1>1 DEF Shape, Idle

\* One request is replaced by another row.
LEMMA ReplaceShape ==
  ASSUME Shape, NEW r \in Requests, NEW row \in RequestRows,
         request' = [request EXCEPT ![r] = row]
  PROVE  /\ request' \in [Requests -> RequestRows]
         /\ \A q \in Requests : request'[q] = IF q = r THEN row ELSE request[q]
  BY DEF Shape

\* Loads puts a row that is none of a login's.
LEMMA LoadsShape ==
  ASSUME Shape, NEW r \in Requests, NEW pc \in {"change", "reset", "bootstrap",
                                               "disable", "enable"},
         NEW own \in SUBSET Sessions, Loads(r, pc, own)
  PROVE  /\ request' \in [Requests -> RequestRows]
         /\ request'[r].pc = pc
         /\ \A q \in Requests \ {r} : request'[q] = request[q]
<1> DEFINE row == [NoRequest EXCEPT !.pc = pc, !.session = own, !.seen = user.active]
<1>1. row \in RequestRows /\ row.pc = pc
  BY DEF NoRequest, RequestRows, RequestPcs, Shape
<1>2. request' = [request EXCEPT ![r] = row]
  BY DEF Loads
<1> QED
  BY <1>1, <1>2, ReplaceShape

\* The steps of a login before its commit.
LEMMA BeginShape ==
  ASSUME Shape, NEW r \in Requests, NEW key \in Nat, LoginBegin(r, key)
  PROVE  /\ request' \in [Requests -> RequestRows]
         /\ request'[r].pc = "counted" /\ request[r].pc = "idle"
         /\ \A q \in Requests \ {r} : request'[q] = request[q]
<1> DEFINE row == [request[r] EXCEPT !.pc = "counted", !.key = key]
<1>1. request[r] \in RequestRows
  BY DEF Shape
<1>2. row \in RequestRows /\ row.pc = "counted"
  BY <1>1 DEF RequestRows, RequestPcs
<1>3. request' = [request EXCEPT ![r] = row]
  BY DEF LoginBegin, Shape
<1>4. request[r].pc = "idle"
  BY DEF LoginBegin, NoRequest
<1> QED
  BY <1>2, <1>3, <1>4, ReplaceShape

LEMMA VerifyShape ==
  ASSUME Shape, NEW r \in Requests, LoginVerify(r)
  PROVE  /\ request' \in [Requests -> RequestRows]
         /\ request[r].pc = "counted"
         /\ request'[r].pc \in {"valid", "invalid"}
         /\ request'[r].pc = "valid" => user.active /\ request'[r].key = user.hash
         /\ \A q \in Requests \ {r} : request'[q] = request[q]
<1> DEFINE verdict == IF user.active /\ user.hash = request[r].key
                      THEN "valid" ELSE "invalid"
           row == [request[r] EXCEPT !.pc = verdict]
<1>1. request[r] \in RequestRows
  BY DEF Shape
<1>2. row \in RequestRows /\ row.pc = verdict /\ row.key = request[r].key
  BY <1>1 DEF RequestRows, RequestPcs
<1>3. request' = [request EXCEPT ![r] = row]
  BY DEF LoginVerify, Shape
<1>4. request' \in [Requests -> RequestRows] /\ request'[r] = row
  BY <1>2, <1>3, ReplaceShape
<1>5. verdict = "valid" => user.active /\ request[r].key = user.hash
  OBVIOUS
<1> QED
  BY <1>2, <1>3, <1>4, <1>5, ReplaceShape DEF LoginVerify

\* The sessions that stay.
LEMMA KeptShape ==
  ASSUME Shape, NEW ids \in SUBSET Sessions, sessions' = Kept(ids)
  PROVE  /\ sessions' \in [Sessions -> SessionRows]
         /\ \A s \in Sessions : sessions'[s].open => s \in ids /\ sessions'[s] = sessions[s]
<1>1. Closed \in SessionRows /\ ~Closed.open
  BY DEF Closed, SessionRows
<1> QED
  BY <1>1 DEF Kept, Shape

\* What Sets writes.
LEMMA SetsShape ==
  ASSUME Shape, NEW r \in Requests, NEW on \in BOOLEAN, NEW ids \in SUBSET Sessions,
         Sets(r, on, ids)
  PROVE  Shape' /\ user'.active = on
<1>1. user' \in [hash : Nat, active : BOOLEAN] /\ user'.active = on /\ made' \in Nat
  BY DEF Sets, Shape
<1>2. request' \in [Requests -> RequestRows]
  BY OvertakenShape DEF Sets
<1>3. sessions' \in [Sessions -> SessionRows] /\ spared' \subseteq Sessions
  BY KeptShape DEF Sets
<1> QED
  BY <1>1, <1>2, <1>3 DEF Sets, Shape

(***************************************************************************)
(* A handler's loading steps, and its committing ones.                     *)
(***************************************************************************)
Loading(r) == ChangeLoad(r) \/ ResetLoad(r) \/ BootstrapLoad(r) \/ SwitchLoad(r)
Setting(r) == ChangePassword(r) \/ ResetPassword(r) \/ BootstrapAdmin(r)

LEMMA Loads1 ==
  ASSUME Shape, NEW r \in Requests, Loading(r)
  PROVE  \E pc \in {"change", "reset", "bootstrap", "disable", "enable"},
            own \in SUBSET Sessions : Loads(r, pc, own)
<1>1. CASE ChangeLoad(r)
  BY <1>1 DEF ChangeLoad
<1>2. CASE ResetLoad(r)
  BY <1>2 DEF ResetLoad
<1>3. CASE BootstrapLoad(r)
  BY <1>3 DEF BootstrapLoad
<1>4. CASE SwitchLoad(r)
  BY <1>4 DEF SwitchLoad
<1> QED
  BY <1>1, <1>2, <1>3, <1>4 DEF Loading

\* A change of the password leaves an active account active, unless a disable
\* has not: it may make it active, never inactive.
LEMMA Sets1 ==
  ASSUME Shape, NEW r \in Requests, Setting(r)
  PROVE  /\ request[r].pc \in {"change", "reset", "bootstrap"}
         /\ \E on \in BOOLEAN, ids \in SUBSET Sessions :
              Sets(r, on, ids) /\ (user.active => on)
<1>0. request[r] \in RequestRows /\ user.active \in BOOLEAN
  BY DEF Shape
<1>1. CASE ChangePassword(r)
  <2>1. request[r].session \in SUBSET Sessions
    BY <1>0 DEF RequestRows
  <2> QED
    BY <1>0, <1>1, <2>1 DEF ChangePassword
<1>2. CASE ResetPassword(r)
  BY <1>0, <1>2 DEF ResetPassword
<1>3. CASE BootstrapAdmin(r)
  <2>1. Written(r, TRUE) \in BOOLEAN /\ (user.active => Written(r, TRUE))
    BY <1>0 DEF Written
  <2>2. OpenSessions \in SUBSET Sessions
    BY DEF OpenSessions
  <2> QED
    BY <1>3, <2>1, <2>2 DEF BootstrapAdmin
<1> QED
  BY <1>1, <1>2, <1>3 DEF Setting

LEMMA NextShape == Shape /\ [AccountsNext]_accountVars => Shape'
<1> SUFFICES ASSUME Shape, [AccountsNext]_accountVars PROVE Shape'
  OBVIOUS
<1>1. ASSUME NEW r \in Requests, NEW key \in {0, made}, LoginBegin(r, key) PROVE Shape'
  <2>1. key \in Nat
    BY DEF Shape
  <2> QED
    BY <1>1, <2>1, BeginShape DEF LoginBegin, Shape
<1>2. ASSUME NEW r \in Requests, LoginVerify(r) PROVE Shape'
  BY <1>2, VerifyShape DEF LoginVerify, Shape
<1>3. ASSUME NEW r \in Requests, LoginFails(r) PROVE Shape'
  BY <1>3, IdleShape DEF LoginFails, Shape
<1>4. ASSUME NEW r \in Requests, NEW s \in Sessions, LoginOpens(r, s) PROVE Shape'
  <2>1. request[r] \in RequestRows
    BY DEF Shape
  <2>2. [open |-> TRUE, key |-> request[r].key, late |-> request[r].late] \in SessionRows
    BY <2>1 DEF RequestRows, SessionRows
  <2>3. sessions' \in [Sessions -> SessionRows]
    BY <1>4, <2>2 DEF LoginOpens, Shape
  <2> QED
    BY <1>4, <2>3, IdleShape DEF LoginOpens, Shape
<1>5. ASSUME NEW r \in Requests, Loading(r) PROVE Shape'
  <2> PICK pc \in {"change", "reset", "bootstrap", "disable", "enable"},
           own \in SUBSET Sessions : Loads(r, pc, own)
    BY <1>5, Loads1
  <2>1. request' \in [Requests -> RequestRows]
    BY LoadsShape
  <2> QED
    BY <2>1 DEF Loads, Shape
<1>6. ASSUME NEW r \in Requests, Setting(r) PROVE Shape'
  BY <1>6, Sets1, SetsShape
<1>7. ASSUME NEW r \in Requests, DisableUser(r) \/ EnableUser(r) PROVE Shape'
  <2>1. request[r] \in RequestRows
    BY DEF Shape
  <2>2. \A b \in BOOLEAN : Written(r, b) \in BOOLEAN
    BY <2>1 DEF Written, Shape, RequestRows
  <2>3. user' \in [hash : Nat, active : BOOLEAN]
    BY <1>7, <2>2 DEF DisableUser, EnableUser, Shape
  <2>4. CASE DisableUser(r)
    <3>1. request' \in [Requests -> RequestRows]
      BY <2>4, OvertakenShape DEF DisableUser
    <3>2. sessions' \in [Sessions -> SessionRows]
      BY <2>4, KeptShape DEF DisableUser
    <3> QED
      BY <2>3, <2>4, <3>1, <3>2 DEF DisableUser, Shape
  <2>5. CASE EnableUser(r)
    BY <2>3, <2>5, IdleShape DEF EnableUser, Shape
  <2> QED
    BY <1>7, <2>4, <2>5
<1>8. ASSUME NEW r \in Requests, GivesUp(r) PROVE Shape'
  BY <1>8, IdleShape DEF GivesUp, Shape
<1>9. ASSUME NEW s \in Sessions, SessionCloses(s) PROVE Shape'
  <2>1. Closed \in SessionRows
    BY DEF Closed, SessionRows
  <2> QED
    BY <1>9, <2>1 DEF SessionCloses, Shape
<1>10. CASE FailureExpires
  BY <1>10 DEF FailureExpires, Shape
<1>11. CASE UNCHANGED accountVars
  BY <1>11 DEF accountVars, Shape
<1> QED
  BY <1>1, <1>2, <1>3, <1>4, <1>5, <1>6, <1>7, <1>8, <1>9, <1>10, <1>11
     DEF AccountsNext, Loading, Setting

LEMMA ShapeAlways == AccountsSpec => []Shape
  BY InitShape, NextShape, PTL DEF AccountsSpec

(***************************************************************************)
(* The limit of failed logins.  A login that has passed the count is one   *)
(* of Guessing until it has recorded its failure or opened its session, so *)
(* the sum of the two grows only where the count was below the limit.      *)
(***************************************************************************)
GuessPcs == {"counted", "valid", "invalid"}

LEMMA GuessingFinite ==
  ASSUME NEW G \in SUBSET Requests
  PROVE  /\ IsFiniteSet(G) /\ Cardinality(G) \in Nat
         /\ Cardinality(G) <= Cardinality(Requests) /\ Cardinality(Requests) \in Nat
  BY RequestsFinite, FS_Subset, FS_CardinalityType

\* A login that ends leaves one fewer.
LEMMA GuessingLess ==
  ASSUME NEW r \in Guessing, Guessing' = Guessing \ {r}
  PROVE  Cardinality(Guessing') = Cardinality(Guessing) - 1
  BY GuessingFinite, FS_RemoveElement DEF Guessing

\* Where no request enters Guessing there are no more than before.
LEMMA GuessingShrinks ==
  ASSUME Guessing' \subseteq Guessing, failures' <= failures, Shape, Shape',
         FailuresBounded, MaxFailures \in Nat
  PROVE  FailuresBounded'
<1>1. Guessing \subseteq Requests
  BY DEF Guessing
<1>2. Cardinality(Guessing') <= Cardinality(Guessing)
  BY <1>1, GuessingFinite, FS_Subset
<1>3. /\ Cardinality(Guessing) \in Nat /\ Cardinality(Guessing') \in Nat
      /\ Cardinality(Requests) \in Nat
  BY <1>1, GuessingFinite
<1> QED
  BY <1>2, <1>3 DEF FailuresBounded, Shape

LEMMA FailuresInit == AccountsInit => FailuresBounded
<1> SUFFICES ASSUME AccountsInit PROVE FailuresBounded
  OBVIOUS
<1>1. Guessing = {}
  BY DEF AccountsInit, Guessing, NoRequest
<1>2. Cardinality(Guessing) = 0
  BY <1>1, FS_EmptySet
<1>3. Cardinality(Requests) \in Nat
  BY GuessingFinite
<1> QED
  BY <1>2, <1>3, AccountBounds DEF AccountsInit, FailuresBounded

LEMMA FailuresStep ==
  Shape /\ Shape' /\ FailuresBounded /\ [AccountsNext]_accountVars => FailuresBounded'
<1> SUFFICES ASSUME Shape, Shape', FailuresBounded, [AccountsNext]_accountVars
             PROVE  FailuresBounded'
  OBVIOUS
<1>0. MaxFailures \in Nat /\ failures \in Nat
  BY AccountBounds DEF Shape
<1>1. ASSUME NEW r \in Requests, NEW key \in {0, made}, LoginBegin(r, key)
      PROVE  FailuresBounded'
  <2>1. Guessing' \subseteq Requests
    BY DEF Guessing
  <2>2. failures' = failures /\ failures < MaxFailures
    BY <1>1 DEF LoginBegin
  <2> QED
    BY <1>0, <2>1, <2>2, GuessingFinite DEF FailuresBounded
<1>2. ASSUME NEW r \in Requests, LoginVerify(r) PROVE FailuresBounded'
  <2>1. Guessing' \subseteq Guessing
    BY <1>2, VerifyShape DEF Guessing
  <2> QED
    BY <1>0, <1>2, <2>1, GuessingShrinks DEF LoginVerify
<1>3. ASSUME NEW r \in Requests, LoginFails(r) PROVE FailuresBounded'
  <2>1. \A q \in Requests : request'[q] = IF q = r THEN NoRequest ELSE request[q]
    BY <1>3, IdleShape DEF LoginFails
  <2>2. r \in Guessing /\ Guessing' = Guessing \ {r}
    BY <1>3, <2>1 DEF LoginFails, Guessing, NoRequest
  <2>3. Cardinality(Guessing') = Cardinality(Guessing) - 1
    BY <2>2, GuessingLess
  <2>4. Guessing \subseteq Requests
    BY DEF Guessing
  <2> QED
    BY <1>0, <1>3, <2>3, <2>4, GuessingFinite DEF LoginFails, FailuresBounded
<1>4. ASSUME NEW r \in Requests, Idle(r), failures' = failures PROVE FailuresBounded'
  <2>1. Guessing' \subseteq Guessing
    BY <1>4, IdleShape DEF Guessing, NoRequest
  <2> QED
    BY <1>0, <1>4, <2>1, GuessingShrinks
<1>5. ASSUME NEW r \in Requests, Loading(r) PROVE FailuresBounded'
  <2> PICK pc \in {"change", "reset", "bootstrap", "disable", "enable"},
           own \in SUBSET Sessions : Loads(r, pc, own)
    BY <1>5, Loads1
  <2>1. Guessing' \subseteq Guessing
    BY LoadsShape DEF Guessing
  <2> QED
    BY <1>0, <2>1, GuessingShrinks DEF Loads
<1>6. ASSUME NEW r \in Requests, Overtaken(r), failures' = failures
      PROVE  FailuresBounded'
  <2>1. Guessing' \subseteq Guessing
    BY <1>6, OvertakenShape DEF Guessing, NoRequest
  <2> QED
    BY <1>0, <1>6, <2>1, GuessingShrinks
<1>7. ASSUME NEW r \in Requests, Setting(r) PROVE FailuresBounded'
  BY <1>6, <1>7, Sets1 DEF Sets
<1>8. ASSUME request' = request, failures' <= failures PROVE FailuresBounded'
  <2>1. Guessing' = Guessing
    BY <1>8 DEF Guessing
  <2> QED
    BY <1>0, <1>8, <2>1, GuessingShrinks
<1>9. ASSUME NEW r \in Requests, NEW s \in Sessions, LoginOpens(r, s) PROVE FailuresBounded'
  BY <1>4, <1>9 DEF LoginOpens
<1>10. ASSUME NEW r \in Requests, GivesUp(r) \/ EnableUser(r) PROVE FailuresBounded'
  BY <1>4, <1>10 DEF GivesUp, EnableUser
<1>11. ASSUME NEW r \in Requests, DisableUser(r) PROVE FailuresBounded'
  BY <1>6, <1>11 DEF DisableUser
<1>12. ASSUME NEW s \in Sessions, SessionCloses(s) PROVE FailuresBounded'
  BY <1>0, <1>8, <1>12 DEF SessionCloses
<1>13. CASE FailureExpires
  BY <1>0, <1>8, <1>13 DEF FailureExpires
<1>14. CASE UNCHANGED accountVars
  BY <1>0, <1>8, <1>14 DEF accountVars
<1> QED
  BY <1>1, <1>2, <1>3, <1>5, <1>7, <1>9, <1>10, <1>11, <1>12, <1>13, <1>14
     DEF AccountsNext, Loading, Setting

\* Five failures in 15 minutes, and no more than one for each other handler that
\* had passed the count: for every limit and every number of handlers.
THEOREM FailuresStayBounded == AccountsSpec => []FailuresBounded
<1>1. AccountsInit => Shape /\ FailuresBounded
  BY InitShape, FailuresInit
<1>2. Shape /\ FailuresBounded /\ [AccountsNext]_accountVars => (Shape /\ FailuresBounded)'
  BY NextShape, FailuresStep
<1> QED
  BY <1>1, <1>2, PTL DEF AccountsSpec

(***************************************************************************)
(* The sessions.  What a login has verified and is about to insert must be *)
(* as current as the sessions are, unless a commit has overtaken it.       *)
(***************************************************************************)
Promise(r) == request[r].pc = "valid" /\ ~request[r].late =>
                 user.active /\ request[r].key = user.hash
Current == SessionsAreCurrent /\ \A r \in Requests : Promise(r)

LEMMA CurrentInit == AccountsInit => Current
  BY DEF AccountsInit, Current, SessionsAreCurrent, Promise, Closed, NoRequest

\* A commit of the password or the account: all it spares is open, every other
\* session is closed and every login under way is late.
LEMMA CurrentCommit ==
  ASSUME Shape, Current, NEW r \in Requests, NEW ids \in SUBSET Sessions,
         Overtaken(r), sessions' = Kept(ids), ids \subseteq spared' \/ ids = {},
         user.active => user'.active \/ ids = {}
  PROVE  Current'
<1>1. ASSUME NEW q \in Requests PROVE Promise(q)'
  <2>1. CASE q = r
    BY <2>1, OvertakenShape DEF Promise, NoRequest
  <2>2. CASE q # r
    BY <2>2, OvertakenShape DEF Promise
  <2> QED
    BY <2>1, <2>2
<1>2. ASSUME NEW s \in Sessions, sessions'[s].open, ~sessions'[s].late
      PROVE  user'.active /\ s \in spared'
  <2>1. s \in ids /\ sessions'[s] = sessions[s]
    BY <1>2, KeptShape
  <2>2. user.active
    BY <1>2, <2>1 DEF Current, SessionsAreCurrent
  <2> QED
    BY <2>1, <2>2
<1> QED
  BY <1>1, <1>2 DEF Current, SessionsAreCurrent

LEMMA CurrentStep == Shape /\ Current /\ [AccountsNext]_accountVars => Current'
<1> SUFFICES ASSUME Shape, Current, [AccountsNext]_accountVars PROVE Current'
  OBVIOUS
<1>1. ASSUME NEW r \in Requests, NEW key \in {0, made}, LoginBegin(r, key) PROVE Current'
  <2>1. key \in Nat
    BY DEF Shape
  <2>2. \A q \in Requests : Promise(q)'
    BY <1>1, <2>1, BeginShape DEF Current, Promise, LoginBegin
  <2> QED
    BY <1>1, <2>2 DEF LoginBegin, Current, SessionsAreCurrent
<1>2. ASSUME NEW r \in Requests, LoginVerify(r) PROVE Current'
  <2>1. \A q \in Requests : Promise(q)'
    BY <1>2, VerifyShape DEF Current, Promise, LoginVerify
  <2> QED
    BY <1>2, <2>1 DEF LoginVerify, Current, SessionsAreCurrent
<1>3. ASSUME NEW r \in Requests, Idle(r), UNCHANGED user PROVE \A q \in Requests : Promise(q)'
  BY <1>3, IdleShape DEF Current, Promise, NoRequest
<1>4. ASSUME NEW r \in Requests, LoginFails(r) \/ GivesUp(r) PROVE Current'
  BY <1>3, <1>4 DEF LoginFails, GivesUp, Current, SessionsAreCurrent
<1>5. ASSUME NEW r \in Requests, NEW s \in Sessions, LoginOpens(r, s) PROVE Current'
  <2>1. sessions'[s] = [open |-> TRUE, key |-> request[r].key, late |-> request[r].late]
    BY <1>5 DEF LoginOpens, Shape
  <2>2. \A z \in Sessions \ {s} : sessions'[z] = sessions[z]
    BY <1>5 DEF LoginOpens, Shape
  <2>3. ~request[r].late => user.active /\ request[r].key = user.hash
    BY <1>5 DEF LoginOpens, Current, Promise
  <2>4. UNCHANGED <<user, spared>>
    BY <1>5 DEF LoginOpens
  <2>5. SessionsAreCurrent'
    BY <2>1, <2>2, <2>3, <2>4 DEF Current, SessionsAreCurrent
  <2> QED
    BY <1>3, <1>5, <2>5 DEF LoginOpens, Current
<1>6. ASSUME NEW r \in Requests, Loading(r) PROVE Current'
  <2> PICK pc \in {"change", "reset", "bootstrap", "disable", "enable"},
           own \in SUBSET Sessions : Loads(r, pc, own)
    BY <1>6, Loads1
  <2>1. \A q \in Requests : Promise(q)'
    BY LoadsShape DEF Current, Promise, Loads
  <2> QED
    BY <2>1 DEF Loads, Current, SessionsAreCurrent
<1>7. ASSUME NEW r \in Requests, Setting(r) PROVE Current'
  <2> PICK on \in BOOLEAN, ids \in SUBSET Sessions :
           Sets(r, on, ids) /\ (user.active => on)
    BY <1>7, Sets1
  <2>1. user'.active = on
    BY SetsShape
  <2>2. Overtaken(r) /\ sessions' = Kept(ids) /\ spared' = ids
    BY DEF Sets
  <2> QED
    BY <2>1, <2>2, CurrentCommit
<1>8. ASSUME NEW r \in Requests, DisableUser(r) PROVE Current'
  <2>1. Overtaken(r) /\ sessions' = Kept({})
    BY <1>8 DEF DisableUser
  <2> QED
    BY <2>1, CurrentCommit
<1>9. ASSUME NEW r \in Requests, EnableUser(r) PROVE Current'
  <2>1. request[r] \in RequestRows /\ user.active \in BOOLEAN
    BY DEF Shape
  <2>2. user'.hash = user.hash /\ (user.active => user'.active)
    BY <1>9, <2>1 DEF EnableUser, Written, Shape
  <2>3. \A q \in Requests : request'[q] = IF q = r THEN NoRequest ELSE request[q]
    BY <1>9, IdleShape DEF EnableUser
  <2>4. \A q \in Requests : Promise(q)'
    BY <2>2, <2>3 DEF Current, Promise, NoRequest
  <2>5. UNCHANGED <<sessions, spared>>
    BY <1>9 DEF EnableUser
  <2> QED
    BY <2>2, <2>4, <2>5 DEF Current, SessionsAreCurrent
<1>10. ASSUME NEW s \in Sessions, SessionCloses(s) PROVE Current'
  <2>1. \A z \in Sessions : sessions'[z] = IF z = s THEN Closed ELSE sessions[z]
    BY <1>10 DEF SessionCloses, Shape
  <2>2. UNCHANGED <<user, spared, request>>
    BY <1>10 DEF SessionCloses
  <2> QED
    BY <2>1, <2>2 DEF Current, SessionsAreCurrent, Promise, Closed
<1>11. CASE FailureExpires
  BY <1>11 DEF FailureExpires, Current, SessionsAreCurrent, Promise
<1>12. CASE UNCHANGED accountVars
  BY <1>12 DEF accountVars, Current, SessionsAreCurrent, Promise
<1> QED
  BY <1>1, <1>2, <1>4, <1>5, <1>6, <1>7, <1>8, <1>9, <1>10, <1>11, <1>12
     DEF AccountsNext, Loading, Setting

\* No session outlives the password it was opened with or its account, for any
\* number of handlers and sessions in any order.
THEOREM SessionsStayCurrent == AccountsSpec => []SessionsAreCurrent
<1>1. AccountsInit => Shape /\ Current
  BY InitShape, CurrentInit
<1>2. Shape /\ Current /\ [AccountsNext]_accountVars => (Shape /\ Current)'
  BY NextShape, CurrentStep
<1>3. Current => SessionsAreCurrent
  BY DEF Current
<1> QED
  BY <1>1, <1>2, <1>3, PTL DEF AccountsSpec

-----------------------------------------------------------------------------
(***************************************************************************)
(* The texts of a sequence of events are the pieces a + 1 to b, in order.  *)
(***************************************************************************)
Events == [kind : {"text", "tool"}, n : Nat]
TextsIn(s) == {i \in DOMAIN s : s[i].kind = "text"}
Carries(s, a, b) ==
    /\ {s[i].n : i \in TextsIn(s)} = a + 1..b
    /\ \A i, k \in TextsIn(s) : i < k => s[i].n < s[k].n

LEMMA NothingCarried ==
  ASSUME NEW a \in Nat, NEW s \in Seq(Events), TextsIn(s) = {}
  PROVE  Carries(s, a, a)
  BY DEF Carries

LEMMA JoinedEvents ==
  ASSUME NEW s \in Seq(Events), NEW t \in Seq(Events)
  PROVE  /\ s \o t \in Seq(Events)
         /\ Len(s) \in Nat /\ Len(t) \in Nat
         /\ DOMAIN s = 1..Len(s) /\ DOMAIN t = 1..Len(t)
         /\ DOMAIN (s \o t) = 1..Len(s) + Len(t)
         /\ \A i \in 1..Len(s) : (s \o t)[i] = s[i] /\ s[i] \in Events
         /\ \A i \in 1..Len(t) : (s \o t)[Len(s) + i] = t[i] /\ t[i] \in Events
  OBVIOUS

\* One sequence after the other carries what both carry.
LEMMA Carried ==
  ASSUME NEW s \in Seq(Events), NEW t \in Seq(Events),
         NEW a \in Nat, NEW b \in Nat, NEW c \in Nat, a <= b, b <= c,
         Carries(s, a, b), Carries(t, b, c)
  PROVE  Carries(s \o t, a, c)
<1> DEFINE l == Len(s)
           r == s \o t
<1>1. /\ l \in Nat /\ Len(t) \in Nat
      /\ DOMAIN s = 1..l /\ DOMAIN t = 1..Len(t) /\ DOMAIN r = 1..l + Len(t)
      /\ \A i \in 1..l : r[i] = s[i] /\ s[i] \in Events
      /\ \A i \in 1..Len(t) : r[l + i] = t[i] /\ t[i] \in Events
  BY JoinedEvents
<1> HIDE DEF l, r
<1>2. ASSUME NEW i \in TextsIn(r)
      PROVE  \/ i \in TextsIn(s) /\ r[i] = s[i]
             \/ i \notin 1..l /\ i - l \in TextsIn(t) /\ r[i] = t[i - l]
  <2>1. CASE i \in 1..l
    BY <1>1, <1>2, <2>1 DEF TextsIn
  <2>2. CASE i \notin 1..l
    <3>1. i - l \in 1..Len(t) /\ l + (i - l) = i
      BY <1>1, <1>2, <2>2 DEF TextsIn
    <3>2. r[i] = t[i - l]
      BY <1>1, <3>1
    <3> QED
      BY <1>1, <1>2, <2>2, <3>1, <3>2 DEF TextsIn
  <2> QED
    BY <2>1, <2>2
<1>3. \A i \in TextsIn(s) : i \in TextsIn(r) /\ r[i] = s[i]
  BY <1>1 DEF TextsIn
<1>4. ASSUME NEW i \in TextsIn(t) PROVE l + i \in TextsIn(r) /\ r[l + i] = t[i]
  <2>1. i \in 1..Len(t) /\ l + i \in 1..l + Len(t)
    BY <1>1, <1>4 DEF TextsIn
  <2> QED
    BY <1>1, <1>4, <2>1 DEF TextsIn
<1>5. \A i \in TextsIn(s) : s[i].n \in a + 1..b
  BY DEF Carries
<1>6. \A i \in TextsIn(t) : t[i].n \in b + 1..c
  BY DEF Carries
<1>7. {r[i].n : i \in TextsIn(r)} \subseteq a + 1..c
  BY <1>2, <1>5, <1>6
<1>8. ASSUME NEW n \in a + 1..c PROVE \E i \in TextsIn(r) : r[i].n = n
  <2>1. CASE n \in a + 1..b
    <3>1. PICK i \in TextsIn(s) : s[i].n = n
      BY <2>1 DEF Carries
    <3> QED
      BY <1>3, <3>1
  <2>2. CASE n \notin a + 1..b
    <3>1. n \in b + 1..c
      BY <2>2
    <3>2. PICK i \in TextsIn(t) : t[i].n = n
      BY <3>1 DEF Carries
    <3> QED
      BY <1>4, <3>2
  <2> QED
    BY <2>1, <2>2
<1>9. ASSUME NEW i \in TextsIn(r), NEW k \in TextsIn(r), i < k PROVE r[i].n < r[k].n
  <2>0. i \in Nat /\ k \in Nat /\ TextsIn(s) \subseteq 1..l /\ TextsIn(t) \subseteq 1..Len(t)
    BY <1>1 DEF TextsIn
  <2>1. CASE i \in TextsIn(s) /\ r[i] = s[i] /\ k \in TextsIn(s) /\ r[k] = s[k]
    BY <1>9, <2>1 DEF Carries
  <2>2. CASE i \in TextsIn(s) /\ r[i] = s[i] /\ k \notin 1..l /\ k - l \in TextsIn(t) /\ r[k] = t[k - l]
    BY <1>5, <1>6, <2>2
  <2>3. CASE i \notin 1..l /\ i - l \in TextsIn(t) /\ r[i] = t[i - l] /\ k \in TextsIn(s)
    BY <1>1, <1>9, <2>0, <2>3
  <2>4. CASE i \notin 1..l /\ i - l \in TextsIn(t) /\ r[i] = t[i - l]
             /\ k \notin 1..l /\ k - l \in TextsIn(t) /\ r[k] = t[k - l]
    <3>1. i - l < k - l
      BY <1>1, <1>9, <2>0
    <3> QED
      BY <2>4, <3>1 DEF Carries
  <2> QED
    BY <1>2, <2>1, <2>2, <2>3, <2>4
<1>10. Carries(r, a, c)
  BY <1>7, <1>8, <1>9 DEF Carries
<1> QED
  BY <1>10 DEF r

\* One more event.
LEMMA OneMore ==
  ASSUME NEW s \in Seq(Events), NEW e \in Events, NEW a \in Nat, NEW b \in Nat, a <= b,
         Carries(s, a, b)
  PROVE  /\ e.kind # "text" => Carries(Append(s, e), a, b)
         /\ e.kind = "text" /\ e.n = b + 1 => Carries(Append(s, e), a, b + 1)
         /\ Append(s, e) \in Seq(Events)
         /\ e.kind # "text" /\ TextsIn(s) = {} => TextsIn(Append(s, e)) = {}
<1>1. /\ <<e>> \in Seq(Events) /\ Append(s, e) = s \o <<e>>
      /\ Append(s, e) \in Seq(Events) /\ DOMAIN <<e>> = {1}
      /\ <<e>>[1] = e
  OBVIOUS
<1>2. CASE e.kind # "text"
  <2>1. Carries(<<e>>, b, b)
    BY <1>1, <1>2 DEF Carries, TextsIn
  <2>0. b <= b
    OBVIOUS
  <2>2. Carries(s \o <<e>>, a, b)
    BY <1>1, <2>0, <2>1, Carried
  <2>3. TextsIn(s) = {} => TextsIn(Append(s, e)) = {}
    BY <1>2 DEF TextsIn
  <2> QED
    BY <1>1, <1>2, <2>2, <2>3
<1>3. CASE e.kind = "text" /\ e.n = b + 1
  <2>1. TextsIn(<<e>>) = {1}
    BY <1>1, <1>3 DEF TextsIn
  <2>2. {b + 1} = b + 1..b + 1
    OBVIOUS
  <2>3. Carries(<<e>>, b, b + 1)
    BY <1>1, <1>3, <2>1, <2>2 DEF Carries
  <2>0. b + 1 \in Nat /\ b <= b + 1
    OBVIOUS
  <2>4. Carries(s \o <<e>>, a, b + 1)
    BY <1>1, <2>0, <2>3, Carried
  <2> QED
    BY <1>1, <1>3, <2>4
<1> QED
  BY <1>1, <1>2, <1>3

(***************************************************************************)
(* What the bit stands for.  While a message is streamed, the page has     *)
(* every text written; if no delta came, the message has no text, and the  *)
(* assistant line may be shown as it is.  While a message is collected,    *)
(* the bit is unset, and page and message share the texts between them.    *)
(***************************************************************************)
ParserTypeOK ==
    /\ message \in [streamed : BOOLEAN, blocks : Seq(Events), tools : Seq(Events)]
    /\ written \in [text : Nat, tool : Nat]
    /\ saw \in BOOLEAN
    /\ shown \in Seq(Events)
    /\ TextsIn(message.tools) = {}

Pending(m, n) ==
    IF m.streamed
    THEN /\ Carries(shown, 0, n)
         /\ ~saw => TextsIn(m.blocks) = {}
    ELSE /\ ~saw
         /\ \E k \in 0..n : Carries(shown, 0, k) /\ Carries(m.blocks, k, n)

Streaming == ParserTypeOK /\ Pending(message, written.text)

\* Nothing collected means that the page has it all.
LEMMA AllShown ==
  ASSUME Streaming, message = NoMessage
  PROVE  Carries(shown, 0, written.text)
<1>1. /\ ~message.streamed /\ message.blocks = <<>>
      /\ written.text \in Nat
  BY DEF Streaming, ParserTypeOK, NoMessage
<1>2. PICK k \in 0..written.text : /\ Carries(shown, 0, k)
                                   /\ Carries(message.blocks, k, written.text)
  BY <1>1 DEF Streaming, Pending
<1>3. TextsIn(message.blocks) = {}
  BY <1>1 DEF TextsIn
<1>4. k + 1..written.text = {}
  BY <1>2, <1>3 DEF Carries
<1>5. k = written.text
  BY <1>1, <1>2, <1>4
<1> QED
  BY <1>2, <1>5

LEMMA StreamingInit == ParserInit => Streaming
<1> SUFFICES ASSUME ParserInit PROVE Streaming
  OBVIOUS
<1>1. <<>> \in Seq(Events) /\ TextsIn(<<>>) = {}
  BY DEF TextsIn
<1>2. ParserTypeOK
  BY <1>1 DEF ParserTypeOK, ParserInit, NoMessage
<1>3. Carries(<<>>, 0, 0)
  BY <1>1, NothingCarried
<1>4. /\ message.streamed = FALSE /\ message.blocks = <<>> /\ shown = <<>>
      /\ written.text = 0 /\ saw = FALSE
  BY DEF ParserInit, NoMessage
<1>5. Pending(message, written.text)
  BY <1>3, <1>4 DEF Pending
<1> QED
  BY <1>2, <1>5 DEF Streaming

\* What a new block does to the message and to the count of texts.
LEMMA Produced ==
  ASSUME Streaming, NEW block \in Blocks, NEW streamed \in BOOLEAN,
         Produces(block, streamed)
  PROVE  /\ block \in Events
         /\ message' \in [streamed : BOOLEAN, blocks : Seq(Events), tools : Seq(Events)]
         /\ message'.streamed = streamed
         /\ message'.blocks = Append(message.blocks, block)
         /\ TextsIn(message'.tools) = {}
         /\ written' \in [text : Nat, tool : Nat]
         /\ \/ block.kind = "text" /\ block.n = written.text + 1
               /\ written'.text = written.text + 1
            \/ block.kind # "text" /\ written'.text = written.text
<1>1. ParserTypeOK
  BY DEF Streaming
<1>2. /\ block \in Events
      /\ \/ block.kind = "text" /\ block.n = written.text + 1
         \/ block.kind = "tool" /\ block.n = written.tool + 1
  BY <1>1 DEF Produces, Blocks, Text, Tool, Events, ParserTypeOK
<1>3. /\ message.blocks \in Seq(Events) /\ message.tools \in Seq(Events)
      /\ TextsIn(message.tools) = {}
  BY <1>1 DEF ParserTypeOK
<1>4. Append(message.blocks, block) \in Seq(Events)
  BY <1>2, <1>3
<1>5. block.kind # "text" => /\ Append(message.tools, block) \in Seq(Events)
                             /\ TextsIn(Append(message.tools, block)) = {}
  BY <1>2, <1>3 DEF TextsIn
<1>6. message'.tools = IF block.kind = "text" THEN message.tools
                       ELSE Append(message.tools, block)
  BY DEF Produces
<1>7. message'.tools \in Seq(Events) /\ TextsIn(message'.tools) = {}
  BY <1>3, <1>5, <1>6
<1>8. message' \in [streamed : BOOLEAN, blocks : Seq(Events), tools : Seq(Events)]
  BY <1>4, <1>6, <1>7 DEF Produces
<1>9. /\ message'.streamed = streamed
      /\ message'.blocks = Append(message.blocks, block)
  BY DEF Produces
<1>10. CASE block.kind = "text" /\ block.n = written.text + 1
  <2>1. written' = [written EXCEPT !["text"] = @ + 1]
    BY <1>10 DEF Produces
  <2>2. written' \in [text : Nat, tool : Nat] /\ written'.text = written.text + 1
    BY <1>1, <2>1 DEF ParserTypeOK
  <2> QED
    BY <1>2, <1>7, <1>8, <1>9, <1>10, <2>2
<1>11. CASE block.kind = "tool" /\ block.n = written.tool + 1
  <2>1. written' = [written EXCEPT !["tool"] = @ + 1]
    BY <1>11 DEF Produces
  <2>2. written' \in [text : Nat, tool : Nat] /\ written'.text = written.text
    BY <1>1, <2>1 DEF ParserTypeOK
  <2> QED
    BY <1>2, <1>7, <1>8, <1>9, <1>11, <2>2
<1> QED
  BY <1>2, <1>10, <1>11

LEMMA StreamEventKeeps ==
  ASSUME Streaming, NEW block \in Blocks, StreamEvent(block)
  PROVE  Streaming'
<1> DEFINE n == written.text
<1>1. Produces(block, TRUE)
  BY DEF StreamEvent
<1>2. /\ block \in Events
      /\ message' \in [streamed : BOOLEAN, blocks : Seq(Events), tools : Seq(Events)]
      /\ message'.streamed = TRUE
      /\ message'.blocks = Append(message.blocks, block)
      /\ TextsIn(message'.tools) = {}
      /\ written' \in [text : Nat, tool : Nat]
      /\ \/ block.kind = "text" /\ block.n = n + 1 /\ written'.text = n + 1
         \/ block.kind # "text" /\ written'.text = n
  BY <1>1, Produced
<1>3. /\ n \in Nat /\ saw \in BOOLEAN /\ shown \in Seq(Events)
      /\ message.blocks \in Seq(Events)
  BY DEF Streaming, ParserTypeOK
<1>4. Carries(shown, 0, n)
  <2>1. CASE message = NoMessage
    BY <2>1, AllShown
  <2>2. CASE message.streamed
    BY <2>2 DEF Streaming, Pending
  <2> QED
    BY <2>1, <2>2 DEF StreamEvent
<1>5. ~saw => TextsIn(message.blocks) = {}
  <2>1. CASE message = NoMessage
    BY <2>1 DEF NoMessage, TextsIn
  <2>2. CASE message.streamed
    BY <2>2 DEF Streaming, Pending
  <2> QED
    BY <2>1, <2>2 DEF StreamEvent
<1>6. 0 \in Nat /\ 0 <= n
  BY <1>3
<1>7. /\ block.kind # "text" => Carries(Append(shown, block), 0, n)
      /\ block.kind = "text" /\ block.n = n + 1 => Carries(Append(shown, block), 0, n + 1)
      /\ Append(shown, block) \in Seq(Events)
  BY <1>2, <1>3, <1>4, <1>6, OneMore
<1>8. Carries(shown', 0, written'.text) /\ shown' \in Seq(Events)
  BY <1>2, <1>7 DEF StreamEvent
<1>9. saw' = (saw \/ block.kind = "text") /\ saw' \in BOOLEAN
  BY <1>3 DEF StreamEvent, Delta
<1>10. ~saw' => TextsIn(message'.blocks) = {}
  BY <1>2, <1>3, <1>5, <1>9 DEF TextsIn
<1>11. ParserTypeOK'
  BY <1>2, <1>8, <1>9 DEF ParserTypeOK
<1>12. Pending(message, written.text)'
  BY <1>2, <1>8, <1>10 DEF Pending
<1> QED
  BY <1>11, <1>12 DEF Streaming

LEMMA CollectKeeps ==
  ASSUME Streaming, NEW block \in Blocks, Collect(block)
  PROVE  Streaming'
<1> DEFINE n == written.text
<1>1. Produces(block, FALSE) /\ ~message.streamed /\ saw' = saw /\ shown' = shown
  BY DEF Collect
<1>2. /\ block \in Events
      /\ message' \in [streamed : BOOLEAN, blocks : Seq(Events), tools : Seq(Events)]
      /\ message'.streamed = FALSE
      /\ message'.blocks = Append(message.blocks, block)
      /\ TextsIn(message'.tools) = {}
      /\ written' \in [text : Nat, tool : Nat]
      /\ \/ block.kind = "text" /\ block.n = n + 1 /\ written'.text = n + 1
         \/ block.kind # "text" /\ written'.text = n
  BY <1>1, Produced
<1>3. /\ n \in Nat /\ saw \in BOOLEAN /\ shown \in Seq(Events)
      /\ message.blocks \in Seq(Events)
  BY DEF Streaming, ParserTypeOK
<1>4. /\ ~saw
      /\ \E k \in 0..n : Carries(shown, 0, k) /\ Carries(message.blocks, k, n)
  BY <1>1 DEF Streaming, Pending
<1>5. PICK k \in 0..n : Carries(shown, 0, k) /\ Carries(message.blocks, k, n)
  BY <1>4
<1>6. k \in Nat /\ k <= n /\ n + 1 \in Nat /\ k \in 0..n + 1
  BY <1>3, <1>5
<1>7. /\ block.kind # "text" => Carries(message'.blocks, k, n)
      /\ block.kind = "text" /\ block.n = n + 1 => Carries(message'.blocks, k, n + 1)
  BY <1>2, <1>3, <1>5, <1>6, OneMore
<1>8. k \in 0..written'.text /\ Carries(message'.blocks, k, written'.text)
  BY <1>2, <1>5, <1>6, <1>7
<1>9. ParserTypeOK'
  BY <1>1, <1>2, <1>3 DEF ParserTypeOK
<1>10. Pending(message, written.text)'
  BY <1>1, <1>2, <1>4, <1>5, <1>8 DEF Pending
<1> QED
  BY <1>9, <1>10 DEF Streaming

LEMMA AssistantKeeps ==
  ASSUME Streaming, Assistant
  PROVE  Streaming'
<1> DEFINE n == written.text
<1>1. /\ n \in Nat /\ written \in [text : Nat, tool : Nat]
      /\ saw \in BOOLEAN /\ shown \in Seq(Events)
      /\ message.blocks \in Seq(Events) /\ message.tools \in Seq(Events)
      /\ TextsIn(message.tools) = {}
  BY DEF Streaming, ParserTypeOK
<1>2. Visible \in Seq(Events)
  BY <1>1 DEF Visible
<1>3. PICK k \in 0..n : Carries(shown, 0, k) /\ Carries(Visible, k, n)
  <2>0. n \in 0..n
    BY <1>1
  <2>1. CASE ~message.streamed
    BY <2>1 DEF Streaming, Pending, Visible
  <2>2. CASE message.streamed
    <3>1. Carries(shown, 0, n) /\ TextsIn(Visible) = {}
      BY <1>1, <2>2 DEF Streaming, Pending, Visible
    <3>2. Carries(Visible, n, n)
      BY <1>1, <1>2, <3>1, NothingCarried
    <3> QED
      BY <2>0, <3>1, <3>2
  <2> QED
    BY <2>1, <2>2
<1>4. k \in Nat /\ 0 \in Nat /\ 0 <= k /\ k <= n
  BY <1>1, <1>3
<1>5. Carries(shown \o Visible, 0, n)
  BY <1>1, <1>2, <1>3, <1>4, Carried
<1>6. shown \o Visible \in Seq(Events)
  BY <1>1, <1>2
<1>7. /\ shown' = shown \o Visible /\ written' = written
      /\ message' = NoMessage /\ saw' = FALSE
  BY DEF Assistant
<1>8. <<>> \in Seq(Events) /\ TextsIn(<<>>) = {}
  BY DEF TextsIn
<1>9. Carries(<<>>, n, n)
  BY <1>1, <1>8, NothingCarried
<1>10. /\ message'.streamed = FALSE /\ message'.blocks = <<>>
       /\ message'.tools = <<>>
       /\ message' \in [streamed : BOOLEAN, blocks : Seq(Events), tools : Seq(Events)]
  BY <1>7, <1>8 DEF NoMessage
<1>11. ParserTypeOK'
  BY <1>1, <1>6, <1>7, <1>8, <1>10 DEF ParserTypeOK
<1>12. n \in 0..n
  BY <1>1
<1>13. Pending(message, written.text)'
  BY <1>5, <1>7, <1>9, <1>10, <1>12 DEF Pending
<1> QED
  BY <1>11, <1>13 DEF Streaming

LEMMA StreamingStep == Streaming /\ [ParserNext]_parserVars => Streaming'
<1> SUFFICES ASSUME Streaming, [ParserNext]_parserVars PROVE Streaming'
  OBVIOUS
<1>1. CASE UNCHANGED parserVars
  <2>1. message' = message /\ written' = written /\ saw' = saw /\ shown' = shown
    BY <1>1 DEF parserVars
  <2> QED
    BY <2>1 DEF Streaming, ParserTypeOK, Pending
<1>2. ASSUME NEW block \in Blocks, StreamEvent(block) PROVE Streaming'
  BY <1>2, StreamEventKeeps
<1>3. ASSUME NEW block \in Blocks, Collect(block) PROVE Streaming'
  BY <1>3, CollectKeeps
<1>4. CASE Assistant
  BY <1>4, AssistantKeeps
<1> QED
  BY <1>1, <1>2, <1>3, <1>4 DEF ParserNext

\* However Claude Code cuts and streams its messages, between two of them the
\* page has every text once and in order (ClaudeStreamParser.feed).
THEOREM ShownOnce == ParserSpec => []TextShownOnce
<1>1. Streaming => TextShownOnce
  <2> SUFFICES ASSUME Streaming, message = NoMessage
               PROVE  Carries(shown, 0, written.text)
    BY DEF TextShownOnce, Carries, TextsIn
  <2> QED
    BY AllShown
<1> QED
  BY <1>1, StreamingInit, StreamingStep, PTL DEF ParserSpec

-----------------------------------------------------------------------------
(***************************************************************************)
(* The rules as operators of the file, and how one more line changes what  *)
(* each of them finds.                                                     *)
(***************************************************************************)
Headers == {"entry", "title"}
Ended(f, e) == \E h \in e + 1..Len(f) : f[h].kind \in Headers
Below(f, e) == {k \in DOMAIN f : f[k].kind = "bullet" /\ e < k
                  /\ \A h \in e + 1..k : f[h].kind \notin Headers}
\* The entries with too many bullets, but for the one still open.
Crowded(f, open) == {e \in DOMAIN f : /\ f[e].kind = "entry" /\ e # open
                                      /\ Cardinality(Below(f, e)) > MaxBullets}
BlankAt(f, i) == i \in DOMAIN f /\ f[i].kind = "blank"
Spaced(f) == {b \in DOMAIN f : BlankAt(f, b) /\ BlankAt(f, b - 1) /\ ~BlankAt(f, b - 2)}
BadGlyphs(f) == {b \in DOMAIN f : f[b].glyph}
TooLong(f) == {b \in DOMAIN f : f[b].long}
Trailing(f) == {b \in DOMAIN f : f[b].trail}
Pairs(S, rule) == {<<i, rule>> : i \in S}

LEMMA PairsJoin ==
  ASSUME NEW S, NEW T, NEW rule
  PROVE  Pairs(S \cup T, rule) = Pairs(S, rule) \cup Pairs(T, rule)
  BY DEF Pairs

LEMMA PairsMore ==
  ASSUME NEW S, NEW T, NEW U, NEW rule, U = S \cup T
  PROVE  Pairs(U, rule) = Pairs(S, rule) \cup Pairs(T, rule)
  BY PairsJoin

LEMMA PairsOne ==
  ASSUME NEW here \in BOOLEAN, NEW i, NEW rule
  PROVE  Pairs(IF here THEN {i} ELSE {}, rule) = IF here THEN {<<i, rule>>} ELSE {}
  BY DEF Pairs

LEMMA PairsNone ==
  ASSUME NEW rule
  PROVE  Pairs({}, rule) = {}
  BY DEF Pairs

LEMMA LineFields ==
  ASSUME NEW l \in Lines
  PROVE  /\ l.kind \in {"blank", "title", "text", "bullet", "entry"}
         /\ l.glyph \in BOOLEAN /\ l.long \in BOOLEAN /\ l.trail \in BOOLEAN
         /\ l.style \in SUBSET Styles
<1>1. CASE l \in Plain
  <2>1. PICK k \in {"blank", "title", "text"}, t \in BOOLEAN :
          l = LineOf(k, FALSE, FALSE, {}, t)
    BY <1>1 DEF Plain, LineOf
  <2> QED
    BY <2>1 DEF LineOf
<1>2. CASE l \in Bullets
  <2>1. PICK g, b, t \in BOOLEAN : l = LineOf("bullet", g, b, {}, t)
    BY <1>2 DEF Bullets
  <2> QED
    BY <2>1 DEF LineOf
<1>3. CASE l \in Entries
  <2>1. PICK s \in SUBSET Styles, t \in BOOLEAN : l = LineOf("entry", FALSE, FALSE, s, t)
    BY <1>3 DEF Entries, LineOf
  <2> QED
    BY <2>1 DEF LineOf
<1> QED
  BY <1>1, <1>2, <1>3 DEF Lines

LEMMA MoreLines ==
  ASSUME NEW f \in Seq(Lines), NEW l \in Lines
  PROVE  /\ Append(f, l) \in Seq(Lines)
         /\ Len(f) \in Nat /\ Len(Append(f, l)) = Len(f) + 1
         /\ DOMAIN f = 1..Len(f)
         /\ DOMAIN Append(f, l) = 1..Len(f) + 1
         /\ \A i \in 1..Len(f) : Append(f, l)[i] = f[i] /\ f[i] \in Lines
         /\ Append(f, l)[Len(f) + 1] = l
  OBVIOUS

LEMMA BelowGrows ==
  ASSUME NEW f \in Seq(Lines), NEW l \in Lines, NEW e \in 1..Len(f)
  PROVE  /\ l.kind = "bullet" /\ ~Ended(f, e) =>
               Below(Append(f, l), e) = Below(f, e) \cup {Len(f) + 1}
         /\ l.kind # "bullet" \/ Ended(f, e) =>
               Below(Append(f, l), e) = Below(f, e)
         /\ l.kind \notin Headers => Ended(Append(f, l), e) = Ended(f, e)
         /\ l.kind \in Headers \/ Ended(f, e) => Ended(Append(f, l), e)
<1> DEFINE n == Len(f)
           g == Append(f, l)
<1>1. /\ n \in Nat /\ Len(g) = n + 1 /\ DOMAIN f = 1..n /\ DOMAIN g = 1..n + 1
      /\ \A i \in 1..n : g[i] = f[i]
      /\ g[n + 1] = l
  BY MoreLines
<1>2. e \in 1..n
  OBVIOUS
<1>3. Ended(f, e) <=> \E h \in e + 1..n : f[h].kind \in Headers
  BY DEF Ended
<1>4. Ended(g, e) <=> \E h \in e + 1..n + 1 : g[h].kind \in Headers
  BY <1>1 DEF Ended
<1> HIDE DEF n, g
<1>5. Ended(g, e) <=> Ended(f, e) \/ l.kind \in Headers
  <2>1. ASSUME NEW h \in e + 1..n + 1, g[h].kind \in Headers
        PROVE  Ended(f, e) \/ l.kind \in Headers
    <3>1. CASE h = n + 1
      BY <1>1, <2>1, <3>1
    <3>2. CASE h # n + 1
      <4>1. h \in e + 1..n /\ h \in 1..n
        BY <1>1, <1>2, <3>2
      <4> QED
        BY <1>1, <1>3, <2>1, <4>1
    <3> QED
      BY <3>1, <3>2
  <2>2. ASSUME NEW h \in e + 1..n, f[h].kind \in Headers
        PROVE  Ended(g, e)
    <3>1. h \in e + 1..n + 1 /\ h \in 1..n
      BY <1>1, <1>2
    <3> QED
      BY <1>1, <1>4, <2>2, <3>1
  <2>3. ASSUME l.kind \in Headers PROVE Ended(g, e)
    <3>1. n + 1 \in e + 1..n + 1
      BY <1>1, <1>2
    <3> QED
      BY <1>1, <1>4, <2>3, <3>1
  <2> QED
    BY <1>3, <1>4, <2>1, <2>2, <2>3
<1>6. ASSUME NEW k \in 1..n PROVE k \in Below(g, e) <=> k \in Below(f, e)
  <2>1. k \in 1..n + 1 /\ \A h \in e + 1..k : h \in 1..n
    BY <1>1, <1>2
  <2>2. \A h \in e + 1..k : g[h] = f[h]
    BY <1>1, <2>1
  <2> QED
    BY <1>1, <2>1, <2>2 DEF Below
<1>7. n + 1 \in Below(g, e) <=> l.kind = "bullet" /\ ~Ended(f, e)
  <2>1. n + 1 \in 1..n + 1 /\ e < n + 1
    BY <1>1, <1>2
  <2>2. n + 1 \in Below(g, e) <=> l.kind = "bullet" /\ ~Ended(g, e)
    BY <1>1, <1>4, <2>1 DEF Below
  <2>3. l.kind = "bullet" => l.kind \notin Headers
    BY DEF Headers
  <2> QED
    BY <1>5, <2>2, <2>3
<1>8. Below(g, e) \subseteq 1..n + 1 /\ Below(f, e) \subseteq 1..n
  BY <1>1 DEF Below
<1>9. 1..n + 1 = 1..n \cup {n + 1} /\ n + 1 \notin 1..n
  BY <1>1
<1>10. l.kind = "bullet" /\ ~Ended(f, e) => Below(g, e) = Below(f, e) \cup {n + 1}
  BY <1>6, <1>7, <1>8, <1>9
<1>11. l.kind # "bullet" \/ Ended(f, e) => Below(g, e) = Below(f, e)
  BY <1>6, <1>7, <1>8, <1>9
<1>12. l.kind \notin Headers => Ended(g, e) = Ended(f, e)
  BY <1>5 DEF Ended
<1>13. l.kind \in Headers \/ Ended(f, e) => Ended(g, e)
  BY <1>5
<1> QED
  BY <1>10, <1>11, <1>12, <1>13 DEF n, g

LEMMA BelowFinite ==
  ASSUME NEW f \in Seq(Lines), NEW e \in 1..Len(f)
  PROVE  /\ IsFiniteSet(Below(f, e)) /\ Cardinality(Below(f, e)) \in Nat
         /\ Cardinality(Below(f, e) \cup {Len(f) + 1}) = Cardinality(Below(f, e)) + 1
<1>1. Len(f) \in Nat /\ DOMAIN f = 1..Len(f)
  OBVIOUS
<1>2. IsFiniteSet(1..Len(f))
  BY <1>1, FS_Interval
<1>3. Below(f, e) \subseteq 1..Len(f)
  BY <1>1 DEF Below
<1>4. IsFiniteSet(Below(f, e))
  BY <1>2, <1>3, FS_Subset
<1>5. Len(f) + 1 \notin Below(f, e)
  BY <1>1, <1>3
<1>6. Cardinality(Below(f, e)) \in Nat
  BY <1>4, FS_CardinalityType
<1> QED
  BY <1>4, <1>5, <1>6, FS_AddElement

\* The header just read has no bullets yet.
LEMMA NewHeader ==
  ASSUME NEW f \in Seq(Lines), NEW l \in Lines
  PROVE  /\ Cardinality(Below(Append(f, l), Len(f) + 1)) = 0
         /\ ~Ended(Append(f, l), Len(f) + 1)
<1> DEFINE n == Len(f)
           g == Append(f, l)
<1>1. n \in Nat /\ Len(g) = n + 1 /\ DOMAIN g = 1..n + 1
  BY MoreLines
<1> HIDE DEF n, g
<1>2. Below(g, n + 1) = {}
  BY <1>1 DEF Below
<1>3. ~Ended(g, n + 1)
  BY <1>1 DEF Ended
<1>4. Cardinality(Below(g, n + 1)) = 0
  BY <1>2, FS_EmptySet
<1> QED
  BY <1>3, <1>4 DEF n, g

\* The rules that look at a line and its neighbours.
LEMMA LocalRules ==
  ASSUME NEW f \in Seq(Lines), NEW l \in Lines
  PROVE  /\ BadGlyphs(Append(f, l)) = BadGlyphs(f) \cup (IF l.glyph THEN {Len(f) + 1} ELSE {})
         /\ TooLong(Append(f, l)) = TooLong(f) \cup (IF l.long THEN {Len(f) + 1} ELSE {})
         /\ Trailing(Append(f, l)) = Trailing(f) \cup (IF l.trail THEN {Len(f) + 1} ELSE {})
         /\ Spaced(Append(f, l)) = Spaced(f) \cup
              (IF l.kind = "blank" /\ BlankAt(f, Len(f)) /\ ~BlankAt(f, Len(f) - 1)
               THEN {Len(f) + 1} ELSE {})
         /\ BlankAt(Append(f, l), Len(f) + 1) <=> l.kind = "blank"
         /\ BlankAt(Append(f, l), Len(f)) <=> BlankAt(f, Len(f))
<1> DEFINE n == Len(f)
           g == Append(f, l)
<1>1. /\ n \in Nat /\ DOMAIN f = 1..n /\ DOMAIN g = 1..n + 1
      /\ \A i \in 1..n : g[i] = f[i]
      /\ g[n + 1] = l
  BY MoreLines
<1> HIDE DEF n, g
<1>2. 1..n + 1 = 1..n \cup {n + 1} /\ n + 1 \notin 1..n /\ n \in 0..n /\ 0..n \subseteq Int
  BY <1>1
<1>3. BadGlyphs(g) = BadGlyphs(f) \cup (IF l.glyph THEN {n + 1} ELSE {})
  BY <1>1, <1>2 DEF BadGlyphs
<1>4. TooLong(g) = TooLong(f) \cup (IF l.long THEN {n + 1} ELSE {})
  BY <1>1, <1>2 DEF TooLong
<1>12. Trailing(g) = Trailing(f) \cup (IF l.trail THEN {n + 1} ELSE {})
  BY <1>1, <1>2 DEF Trailing
<1>5. ASSUME NEW i \in Int, i # n + 1 PROVE BlankAt(g, i) <=> BlankAt(f, i)
  BY <1>1, <1>2, <1>5 DEF BlankAt
<1>6. BlankAt(g, n + 1) <=> l.kind = "blank"
  BY <1>1, <1>2 DEF BlankAt
<1>7. BlankAt(g, n) <=> BlankAt(f, n)
  BY <1>1, <1>5
<1>8. ASSUME NEW b \in 1..n PROVE b \in Spaced(g) <=> b \in Spaced(f)
  <2>1. /\ b \in Int /\ b # n + 1 /\ b - 1 \in Int /\ b - 1 # n + 1
        /\ b - 2 \in Int /\ b - 2 # n + 1 /\ b \in 1..n + 1
    BY <1>1
  <2> QED
    BY <1>1, <1>5, <2>1 DEF Spaced
<1>9. n + 1 \in Spaced(g) <=> l.kind = "blank" /\ BlankAt(f, n) /\ ~BlankAt(f, n - 1)
  <2>1. /\ n + 1 - 1 = n /\ n + 1 - 2 = n - 1 /\ n - 1 \in Int /\ n - 1 # n + 1
        /\ n + 1 \in 1..n + 1
    BY <1>1
  <2>2. n + 1 \in Spaced(g) <=> BlankAt(g, n + 1) /\ BlankAt(g, n) /\ ~BlankAt(g, n - 1)
    BY <1>1, <2>1 DEF Spaced
  <2> QED
    BY <1>5, <1>6, <1>7, <2>1, <2>2
<1>10. Spaced(g) \subseteq 1..n + 1 /\ Spaced(f) \subseteq 1..n
  BY <1>1 DEF Spaced
<1>11. Spaced(g) = Spaced(f) \cup
         (IF l.kind = "blank" /\ BlankAt(f, n) /\ ~BlankAt(f, n - 1) THEN {n + 1} ELSE {})
  BY <1>2, <1>8, <1>9, <1>10
<1> QED
  BY <1>3, <1>4, <1>6, <1>7, <1>11, <1>12 DEF n, g

LEMMA TwoMembers ==
  ASSUME NEW S, IsFiniteSet(S)
  PROVE  Cardinality(S) > 1 <=> \E x, y \in S : x # y
<1>1. Cardinality(S) \in Nat
  BY FS_CardinalityType
<1>2. ASSUME Cardinality(S) > 1 PROVE \E x, y \in S : x # y
  <2>1. S # {}
    BY <1>2, FS_EmptySet
  <2>2. PICK x : x \in S
    BY <2>1
  <2>3. IsFiniteSet(S \ {x}) /\ Cardinality(S \ {x}) = Cardinality(S) - 1
    BY <2>2, FS_RemoveElement
  <2>4. S \ {x} # {}
    <3>1. Cardinality(S \ {x}) # 0
      BY <1>1, <1>2, <2>3
    <3> QED
      BY <3>1, FS_EmptySet
  <2> QED
    BY <2>2, <2>4
<1>3. ASSUME NEW x \in S, NEW y \in S, x # y PROVE Cardinality(S) > 1
  <2>1. IsFiniteSet({x}) /\ Cardinality({x}) = 1
    BY FS_Singleton
  <2>2. y \notin {x}
    BY <1>3
  <2>3. /\ IsFiniteSet({x} \cup {y})
        /\ Cardinality({x} \cup {y}) = Cardinality({x}) + 1
    BY <2>1, <2>2, FS_AddElement
  <2>4. {x} \cup {y} \subseteq S
    OBVIOUS
  <2>5. Cardinality({x} \cup {y}) <= Cardinality(S)
    BY <2>4, FS_Subset
  <2> QED
    BY <1>1, <2>1, <2>3, <2>5
<1> QED
  BY <1>2, <1>3

(***************************************************************************)
(* What the pass has in memory after each line.                            *)
(***************************************************************************)
LintTypeOK ==
    /\ file \in Seq(Lines)
    /\ entry \in [line : Nat, bullets : Nat]
    /\ blanks \in Nat
    /\ ending \in {"ahead", "newline", "cut"}
    /\ styles \in SUBSET Styles

\* The entry in memory is the only one no header follows.
OpenEntry ==
    /\ entry.line \in 0..Len(file)
    /\ entry.line # 0 =>
         /\ file[entry.line].kind = "entry"
         /\ ~Ended(file, entry.line)
         /\ entry.bullets = Cardinality(Below(file, entry.line))
    /\ \A e \in 1..Len(file) :
         file[e].kind = "entry" /\ e # entry.line => Ended(file, e)

BlankRun ==
    /\ blanks = 0 <=> ~BlankAt(file, Len(file))
    /\ blanks = 1 <=> BlankAt(file, Len(file)) /\ ~BlankAt(file, Len(file) - 1)

StylesSeen == styles = Dated

FoundSoFar ==
    findings = Pairs(Crowded(file, entry.line), "bullets/role")
               \cup Pairs(Spaced(file), "blank-lines")
               \cup Pairs(BadGlyphs(file), "bullet-glyph")
               \cup Pairs(TooLong(file), "bullet-length")
               \cup Pairs(Trailing(file), "trailing-whitespace")

Linted ==
    /\ LintTypeOK
    /\ IF ending # "ahead" THEN FindingsAreRight
       ELSE OpenEntry /\ BlankRun /\ StylesSeen /\ FoundSoFar

LEMMA LintedInit == LintInit => Linted
<1> SUFFICES ASSUME LintInit PROVE Linted
  OBVIOUS
<1>1. /\ file = <<>> /\ Len(file) = 0 /\ DOMAIN file = {} /\ file \in Seq(Lines)
      /\ entry.line = 0 /\ entry.bullets = 0 /\ entry \in [line : Nat, bullets : Nat]
      /\ styles = {} /\ blanks = 0 /\ findings = {} /\ ending = "ahead"
  BY DEF LintInit
<1>2. LintTypeOK
  BY <1>1 DEF LintTypeOK
<1>3. OpenEntry
  BY <1>1 DEF OpenEntry
<1>4. BlankRun
  BY <1>1 DEF BlankRun, BlankAt
<1>5. StylesSeen
  BY <1>1 DEF StylesSeen, Dated
<1>6. /\ Crowded(file, entry.line) = {} /\ Spaced(file) = {}
      /\ BadGlyphs(file) = {} /\ TooLong(file) = {} /\ Trailing(file) = {}
  BY <1>1 DEF Crowded, Spaced, BadGlyphs, TooLong, Trailing
<1>7. FoundSoFar
  BY <1>1, <1>6, PairsNone DEF FoundSoFar
<1> QED
  BY <1>1, <1>2, <1>3, <1>4, <1>5, <1>7 DEF Linted

\* The entry that is open, if it has too many bullets.
LEMMA Flushes ==
  ASSUME LintTypeOK, OpenEntry
  PROVE  /\ Flushed = Pairs({e \in {entry.line} : /\ e # 0
                                /\ Cardinality(Below(file, e)) > MaxBullets}, "bullets/role")
         /\ Crowded(file, entry.line) \cup
              {e \in {entry.line} : e # 0 /\ Cardinality(Below(file, e)) > MaxBullets}
            = Crowded(file, 0)
<1> DEFINE last == entry.line
           late == {e \in {last} : e # 0 /\ Cardinality(Below(file, e)) > MaxBullets}
<1>1. Flushed = Pairs(late, "bullets/role")
  <2>1. CASE last # 0 /\ entry.bullets > MaxBullets
    <3>1. late = {last}
      BY <2>1 DEF OpenEntry
    <3>2. Flushed = {<<last, "bullets/role">>}
      BY <2>1 DEF Flushed
    <3>3. Pairs({last}, "bullets/role") = {<<last, "bullets/role">>}
      BY DEF Pairs
    <3> QED
      BY <3>1, <3>2, <3>3
  <2>2. CASE ~(last # 0 /\ entry.bullets > MaxBullets)
    <3>1. late = {}
      BY <2>2 DEF OpenEntry
    <3>2. Flushed = {}
      BY <2>2 DEF Flushed
    <3> QED
      BY <3>1, <3>2, PairsNone
  <2> QED
    BY <2>1, <2>2
<1>2. DOMAIN file = 1..Len(file) /\ Len(file) \in Nat
  BY DEF LintTypeOK
<1>3. Crowded(file, last) \cup late \subseteq Crowded(file, 0)
  <2>1. ASSUME NEW e \in late PROVE e \in Crowded(file, 0)
    <3>1. e = last /\ e # 0 /\ Cardinality(Below(file, e)) > MaxBullets
      OBVIOUS
    <3>2. e \in DOMAIN file /\ file[e].kind = "entry"
      BY <1>2, <3>1 DEF OpenEntry
    <3> QED
      BY <3>1, <3>2 DEF Crowded
  <2>2. ASSUME NEW e \in Crowded(file, last) PROVE e \in Crowded(file, 0)
    <3>1. e # 0
      BY <1>2 DEF Crowded
    <3> QED
      BY <3>1 DEF Crowded
  <2> QED
    BY <2>1, <2>2
<1>4. Crowded(file, 0) \subseteq Crowded(file, last) \cup late
  BY DEF Crowded
<1> QED
  BY <1>1, <1>3, <1>4

\* The dates are mixed exactly if the headers have two styles.
LEMMA MixedDates ==
  ASSUME LintTypeOK, StylesSeen
  PROVE  Cardinality(styles) > 1 <=> \E x, y \in Dated : x # y
<1>1. IsFiniteSet(styles)
  BY StylesFinite, FS_Subset DEF LintTypeOK
<1> QED
  BY <1>1, TwoMembers DEF StylesSeen

\* What the end of the file adds, as rules of the file.
LEMMA EndRules ==
  ASSUME LintTypeOK, NEW end \in {"newline", "cut"},
         end = "cut" => file # <<>> /\ ~Empty(file[Len(file)])
  PROVE  AtEnd(end) = {<<i, "no-final-newline">> : i \in {n \in DOMAIN file :
                          n = Len(file) /\ end = "cut"}}
                      \cup {<<i, "blank-lines-at-end">> : i \in {n \in 2..Len(file) :
                          n = Len(file) /\ Kind(n) = "blank" /\ ~file[n].trail}}
<1> DEFINE last == Len(file)
           cut == {n \in DOMAIN file : n = last /\ end = "cut"}
           extra == {n \in 2..last : n = last /\ Kind(n) = "blank" /\ ~file[n].trail}
<1>1. last \in Nat /\ DOMAIN file = 1..last /\ (file # <<>> => last > 0)
  BY DEF LintTypeOK
<1>2. CASE end = "cut"
  <2>1. cut = {last} /\ extra = {}
    BY <1>1, <1>2 DEF Empty, Kind
  <2>2. AtEnd(end) = {<<last, "no-final-newline">>}
    BY <1>2 DEF AtEnd
  <2> HIDE DEF cut, extra
  <2>3. AtEnd(end) = {<<i, "no-final-newline">> : i \in cut}
                     \cup {<<i, "blank-lines-at-end">> : i \in extra}
    BY <2>1, <2>2
  <2> QED
    BY <2>3 DEF cut, extra
<1>3. CASE end # "cut"
  <2>1. cut = {}
    BY <1>3
  <2>2. extra = IF last > 1 /\ Empty(file[last]) THEN {last} ELSE {}
    BY <1>1 DEF Empty, Kind
  <2>3. AtEnd(end) = IF last > 1 /\ Empty(file[last])
                     THEN {<<last, "blank-lines-at-end">>} ELSE {}
    BY <1>3 DEF AtEnd
  <2> HIDE DEF cut, extra
  <2>4. AtEnd(end) = {<<i, "no-final-newline">> : i \in cut}
                     \cup {<<i, "blank-lines-at-end">> : i \in extra}
    BY <2>1, <2>2, <2>3
  <2> QED
    BY <2>4 DEF cut, extra
<1> QED
  BY <1>2, <1>3

LEMMA EndOfFileKeeps ==
  ASSUME Linted, NEW end \in {"newline", "cut"}, EndOfFile(end)
  PROVE  Linted'
<1>1. /\ ending = "ahead" /\ LintTypeOK /\ OpenEntry /\ BlankRun /\ StylesSeen /\ FoundSoFar
      /\ end = "cut" => file # <<>> /\ ~Empty(file[Len(file)])
  BY DEF Linted, EndOfFile
<1>2. /\ ending' = end /\ file' = file /\ entry' = entry /\ styles' = styles
      /\ blanks' = blanks
  BY DEF EndOfFile
<1>3. LintTypeOK'
  BY <1>1, <1>2 DEF LintTypeOK
<1> DEFINE dates == IF Cardinality(styles) > 1 THEN {<<0, "date-format">>} ELSE {}
           late == {e \in {entry.line} : e # 0 /\ Cardinality(Below(file, e)) > MaxBullets}
<1>4. findings' = findings \cup Flushed \cup AtEnd(end) \cup dates
  BY DEF EndOfFile
<1>5. Flushed = Pairs(late, "bullets/role")
      /\ Crowded(file, entry.line) \cup late = Crowded(file, 0)
  BY <1>1, Flushes
<1>6. Pairs(Crowded(file, 0), "bullets/role")
        = Pairs(Crowded(file, entry.line), "bullets/role") \cup Flushed
  <2> HIDE DEF late
  <2> QED
    BY <1>5, PairsJoin
<1>7. findings' = Pairs(Crowded(file, 0), "bullets/role")
                  \cup Pairs(Spaced(file), "blank-lines")
                  \cup Pairs(BadGlyphs(file), "bullet-glyph")
                  \cup Pairs(TooLong(file), "bullet-length")
                  \cup Pairs(Trailing(file), "trailing-whitespace")
                  \cup dates \cup AtEnd(end)
  <2> HIDE DEF dates, late
  <2> QED
    BY <1>1, <1>4, <1>6 DEF FoundSoFar
<1>8. file \in Seq(Lines) /\ DOMAIN file = 1..Len(file) /\ Len(file) \in Nat
  BY <1>1 DEF LintTypeOK
<1>9. Crowded(file, 0) = {e \in DOMAIN file :
         Kind(e) = "entry" /\ Cardinality(Under(e)) > MaxBullets}
  <2>1. \A e : Below(file, e) = Under(e)
    BY DEF Below, Under, Kind, Headers
  <2> QED
    BY <1>8, <2>1 DEF Crowded, Kind
<1>10. Spaced(file) = {b \in 2..Len(file) :
         /\ Kind(b) = "blank" /\ Kind(b - 1) = "blank"
         /\ b > 2 => Kind(b - 2) # "blank"}
  BY <1>8 DEF Spaced, BlankAt, Kind
<1>11. dates = {<<0, "date-format">> : p \in {q \in Dated \X Dated : q[1] # q[2]}}
  <2> DEFINE mixed == {q \in Dated \X Dated : q[1] # q[2]}
  <2>1. mixed # {} <=> \E x, y \in Dated : x # y
    <3>1. ASSUME NEW q \in mixed PROVE \E x, y \in Dated : x # y
      <4>1. q[1] \in Dated /\ q[2] \in Dated /\ q[1] # q[2]
        OBVIOUS
      <4> QED
        BY <4>1
    <3>2. ASSUME NEW x \in Dated, NEW y \in Dated, x # y PROVE <<x, y>> \in mixed
      BY <3>2
    <3> QED
      BY <3>1, <3>2
  <2>2. mixed # {} <=> Cardinality(styles) > 1
    BY <1>1, <2>1, MixedDates
  <2> HIDE DEF mixed
  <2>3. dates = {<<0, "date-format">> : p \in mixed}
    BY <2>2
  <2> QED
    BY <2>3 DEF mixed
<1>12. AtEnd(end) = {<<i, "no-final-newline">> : i \in {n \in DOMAIN file :
                        n = Len(file) /\ ending' = "cut"}}
                    \cup {<<i, "blank-lines-at-end">> : i \in {n \in 2..Len(file) :
                        n = Len(file) /\ Kind(n) = "blank" /\ ~file[n].trail}}
  BY <1>1, <1>2, EndRules
<1>13. FindingsAreRight'
  <2> HIDE DEF dates
  <2>1. findings' =
         {<<i, "bullets/role">> : i \in {e \in DOMAIN file :
           Kind(e) = "entry" /\ Cardinality(Under(e)) > MaxBullets}}
         \cup {<<i, "blank-lines">> : i \in {b \in 2..Len(file) :
           /\ Kind(b) = "blank" /\ Kind(b - 1) = "blank"
           /\ b > 2 => Kind(b - 2) # "blank"}}
         \cup {<<i, "bullet-glyph">> : i \in {b \in DOMAIN file : file[b].glyph}}
         \cup {<<i, "bullet-length">> : i \in {b \in DOMAIN file : file[b].long}}
         \cup {<<i, "trailing-whitespace">> : i \in {b \in DOMAIN file : file[b].trail}}
         \cup {<<0, "date-format">> : p \in {q \in Dated \X Dated : q[1] # q[2]}}
         \cup AtEnd(end)
    BY <1>7, <1>9, <1>10, <1>11 DEF Pairs, BadGlyphs, TooLong, Trailing
  <2>2. findings' =
         {<<i, "bullets/role">> : i \in {e \in DOMAIN file' :
           Kind(e)' = "entry" /\ Cardinality(Under(e)') > MaxBullets}}
         \cup {<<i, "blank-lines">> : i \in {b \in 2..Len(file') :
           /\ Kind(b)' = "blank" /\ Kind(b - 1)' = "blank"
           /\ b > 2 => Kind(b - 2)' # "blank"}}
         \cup {<<i, "bullet-glyph">> : i \in {b \in DOMAIN file' : file'[b].glyph}}
         \cup {<<i, "bullet-length">> : i \in {b \in DOMAIN file' : file'[b].long}}
         \cup {<<i, "trailing-whitespace">> : i \in {b \in DOMAIN file' : file'[b].trail}}
         \cup {<<0, "date-format">> : p \in {q \in Dated' \X Dated' : q[1] # q[2]}}
         \cup AtEnd(end)
    BY <1>2, <2>1 DEF Kind, Under, Dated
  <2>3. AtEnd(end) = {<<i, "no-final-newline">> : i \in {n \in DOMAIN file' :
                          n = Len(file') /\ ending' = "cut"}}
                     \cup {<<i, "blank-lines-at-end">> : i \in {n \in 2..Len(file') :
                          n = Len(file') /\ Kind(n)' = "blank" /\ ~file'[n].trail}}
    BY <1>2, <1>12 DEF Kind
  <2> QED
    BY <2>2, <2>3 DEF FindingsAreRight
<1> QED
  BY <1>2, <1>3, <1>13 DEF Linted

\* A header or title ends the entry that was open; any other line leaves it.
LEMMA EntryMoves ==
  ASSUME LintTypeOK, OpenEntry, NEW l \in Lines, entry' = EntryAfter(l, Len(file) + 1),
         file' = Append(file, l)
  PROVE  /\ entry' \in [line : Nat, bullets : Nat]
         /\ l.kind = "entry" => entry'.line = Len(file) + 1 /\ entry'.bullets = 0
         /\ l.kind = "title" => entry'.line = 0
         /\ l.kind \notin Headers => entry'.line = entry.line
         /\ l.kind = "bullet" => entry'.bullets = entry.bullets + 1
         /\ l.kind \notin Headers /\ l.kind # "bullet" => entry'.bullets = entry.bullets
<1>1. Len(file) \in Nat /\ entry \in [line : Nat, bullets : Nat]
  BY DEF LintTypeOK
<1>2. l.kind \in {"blank", "title", "text", "bullet", "entry"}
  BY LineFields
<1>3. CASE l.kind = "title"
  BY <1>3 DEF EntryAfter, Headers
<1>4. CASE l.kind = "entry"
  BY <1>1, <1>4 DEF EntryAfter, Headers
<1>5. CASE l.kind = "bullet"
  <2>1. entry' = [entry EXCEPT !.bullets = @ + 1]
    BY <1>5 DEF EntryAfter
  <2> QED
    BY <1>1, <1>5, <2>1
<1>6. CASE l.kind \in {"blank", "text"}
  <2>1. entry' = entry
    BY <1>6 DEF EntryAfter
  <2> QED
    BY <1>1, <1>6, <2>1 DEF Headers
<1> QED
  BY <1>2, <1>3, <1>4, <1>5, <1>6

LEMMA OpenEntryKept ==
  ASSUME LintTypeOK, OpenEntry, NEW l \in Lines, entry' = EntryAfter(l, Len(file) + 1),
         file' = Append(file, l)
  PROVE  OpenEntry'
<1> DEFINE n == Len(file)
           last == entry.line
<1>1. /\ n \in Nat /\ Len(file') = n + 1 /\ file \in Seq(Lines)
      /\ \A i \in 1..n : file'[i] = file[i]
      /\ file'[n + 1] = l
  BY MoreLines DEF LintTypeOK
<1>2. /\ last \in 0..n
      /\ last # 0 => /\ file[last].kind = "entry" /\ ~Ended(file, last)
                     /\ entry.bullets = Cardinality(Below(file, last))
      /\ \A e \in 1..n : file[e].kind = "entry" /\ e # last => Ended(file, e)
  BY DEF OpenEntry
<1>3. /\ l.kind = "entry" => entry'.line = n + 1 /\ entry'.bullets = 0
      /\ l.kind = "title" => entry'.line = 0
      /\ l.kind \notin Headers => entry'.line = last
      /\ l.kind = "bullet" => entry'.bullets = entry.bullets + 1
      /\ l.kind \notin Headers /\ l.kind # "bullet" => entry'.bullets = entry.bullets
  BY EntryMoves
<1>4. l.kind \in Headers <=> l.kind = "entry" \/ l.kind = "title"
  BY DEF Headers
<1>5. \A e \in 1..n :
        /\ l.kind = "bullet" /\ ~Ended(file, e) =>
             Below(file', e) = Below(file, e) \cup {n + 1}
        /\ l.kind # "bullet" \/ Ended(file, e) => Below(file', e) = Below(file, e)
        /\ l.kind \notin Headers => Ended(file', e) = Ended(file, e)
        /\ l.kind \in Headers \/ Ended(file, e) => Ended(file', e)
  BY <1>1, BelowGrows
<1>6. /\ Cardinality(Below(file', n + 1)) = 0 /\ ~Ended(file', n + 1)
  BY <1>1, NewHeader
<1>7. entry'.line \in 0..n + 1
  BY <1>1, <1>2, <1>3, <1>4
<1>8. ASSUME entry'.line # 0
      PROVE  /\ file'[entry'.line].kind = "entry" /\ ~Ended(file', entry'.line)
             /\ entry'.bullets = Cardinality(Below(file', entry'.line))
  <2>1. CASE l.kind = "entry"
    BY <1>1, <1>3, <1>6, <2>1
  <2>2. CASE l.kind \notin Headers
    <3>1. entry'.line = last /\ last \in 1..n /\ last # 0
      BY <1>1, <1>2, <1>3, <1>8, <2>2
    <3>2. /\ file[last].kind = "entry" /\ ~Ended(file, last)
          /\ entry.bullets = Cardinality(Below(file, last))
      BY <1>2, <3>1
    <3>3. file'[last].kind = "entry" /\ ~Ended(file', last)
      BY <1>1, <1>5, <2>2, <3>1, <3>2
    <3>4. entry'.bullets = Cardinality(Below(file', last))
      <4>1. CASE l.kind = "bullet"
        <5>1. Below(file', last) = Below(file, last) \cup {n + 1}
          BY <1>5, <3>1, <3>2, <4>1
        <5>2. Cardinality(Below(file, last) \cup {n + 1}) = Cardinality(Below(file, last)) + 1
          BY <1>1, <3>1, BelowFinite
        <5> QED
          BY <1>3, <3>2, <4>1, <5>1, <5>2
      <4>2. CASE l.kind # "bullet"
        BY <1>3, <1>5, <2>2, <3>1, <3>2, <4>2
      <4> QED
        BY <4>1, <4>2
    <3> QED
      BY <3>1, <3>3, <3>4
  <2> QED
    BY <1>3, <1>4, <1>8, <2>1, <2>2
<1>9. ASSUME NEW e \in 1..n + 1, file'[e].kind = "entry", e # entry'.line
      PROVE  Ended(file', e)
  <2>1. CASE e = n + 1
    BY <1>1, <1>3, <1>9, <2>1
  <2>2. CASE e # n + 1
    <3>1. e \in 1..n /\ file[e].kind = "entry"
      BY <1>1, <1>9, <2>2
    <3>2. CASE l.kind \in Headers
      BY <1>5, <3>1, <3>2
    <3>3. CASE l.kind \notin Headers
      <4>1. Ended(file, e)
        BY <1>2, <1>3, <1>9, <3>1, <3>3
      <4> QED
        BY <1>5, <3>1, <4>1
    <3> QED
      BY <3>2, <3>3
  <2> QED
    BY <2>1, <2>2
<1> QED
  BY <1>1, <1>7, <1>8, <1>9 DEF OpenEntry

\* What is flushed is what the rule on bullets gains by the line.
LEMMA CrowdedGrows ==
  ASSUME LintTypeOK, OpenEntry, NEW l \in Lines, entry' = EntryAfter(l, Len(file) + 1),
         file' = Append(file, l)
  PROVE  Pairs(Crowded(file', entry'.line), "bullets/role")
           = Pairs(Crowded(file, entry.line), "bullets/role")
             \cup (IF l.kind \in Headers THEN Flushed ELSE {})
<1> DEFINE n == Len(file)
           last == entry.line
           late == {e \in {entry.line} : e # 0 /\ Cardinality(Below(file, e)) > MaxBullets}
<1>1. /\ n \in Nat /\ file \in Seq(Lines)
      /\ DOMAIN file = 1..n /\ DOMAIN file' = 1..n + 1
      /\ \A i \in 1..n : file'[i] = file[i]
      /\ file'[n + 1] = l
  BY MoreLines DEF LintTypeOK
<1>2. \A e \in 1..n : file[e].kind = "entry" /\ e # last => Ended(file, e)
  BY DEF OpenEntry
<1>3. /\ l.kind = "entry" => entry'.line = n + 1
      /\ l.kind = "title" => entry'.line = 0
      /\ l.kind \notin Headers => entry'.line = last
  BY EntryMoves
<1>4. /\ l.kind \in Headers <=> l.kind = "entry" \/ l.kind = "title"
      /\ l.kind = "bullet" => l.kind \notin Headers
  BY DEF Headers
<1>5. \A e \in 1..n :
        l.kind # "bullet" \/ Ended(file, e) => Below(file', e) = Below(file, e)
  BY <1>1, BelowGrows
<1>6. 1..n + 1 = 1..n \cup {n + 1} /\ n + 1 \notin 1..n /\ 0 \notin 1..n /\ last \in 0..n
  BY <1>1 DEF OpenEntry
<1>7. CASE l.kind \notin Headers
  <2>1. Crowded(file', last) = Crowded(file, last)
    <3>1. ASSUME NEW e \in 1..n, e # last, file[e].kind = "entry"
          PROVE  Below(file', e) = Below(file, e)
      BY <1>2, <1>5, <3>1
    <3>2. l.kind # "entry"
      BY <1>4, <1>7
    <3> QED
      BY <1>1, <1>6, <3>1, <3>2 DEF Crowded
  <2> QED
    BY <1>3, <1>7, <2>1
<1>8. CASE l.kind \in Headers
  <2>1. \A e \in 1..n : Below(file', e) = Below(file, e)
    BY <1>4, <1>5, <1>8
  <2>2. Crowded(file', entry'.line) = Crowded(file, 0)
    <3>1. ASSUME NEW e \in 1..n PROVE e \in Crowded(file', entry'.line) <=> e \in Crowded(file, 0)
      <4>1. e # entry'.line /\ e # 0 /\ e \in 1..n + 1
        BY <1>1, <1>3, <1>4, <1>6, <1>8
      <4> QED
        BY <1>1, <2>1, <4>1 DEF Crowded
    <3>2. n + 1 \notin Crowded(file', entry'.line)
      BY <1>1, <1>3, <1>4, <1>8 DEF Crowded
    <3> QED
      BY <1>1, <1>6, <3>1, <3>2 DEF Crowded
  <2>3. /\ Flushed = Pairs(late, "bullets/role")
        /\ Crowded(file, last) \cup late = Crowded(file, 0)
    BY Flushes
  <2> HIDE DEF late
  <2>4. Pairs(Crowded(file, 0), "bullets/role") = Pairs(Crowded(file, last), "bullets/role") \cup Flushed
    BY <2>3, PairsJoin
  <2> QED
    BY <1>8, <2>2, <2>4
<1> QED
  BY <1>7, <1>8

LEMMA ReadLineKeeps ==
  ASSUME Linted, NEW l \in Lines, ReadLine(l)
  PROVE  Linted'
<1> DEFINE n == Len(file)
           finds(rule, here) == IF here THEN {<<n + 1, rule>>} ELSE {}
<1>1. /\ ending = "ahead" /\ LintTypeOK /\ OpenEntry /\ BlankRun /\ StylesSeen /\ FoundSoFar
  BY DEF Linted, ReadLine
<1>2. /\ file' = Append(file, l)
      /\ entry' = EntryAfter(l, n + 1)
      /\ blanks' = IF l.kind = "blank" THEN blanks + 1 ELSE 0
      /\ styles' = styles \cup l.style
      /\ ending' = ending
  BY DEF ReadLine
<1>3. findings' = findings
         \cup finds("trailing-whitespace", l.trail)
         \cup finds("blank-lines", blanks' = 2)
         \cup finds("bullet-glyph", l.glyph)
         \cup finds("bullet-length", l.long)
         \cup (IF l.kind \in {"title", "entry"} THEN Flushed ELSE {})
  BY DEF ReadLine
<1>4. /\ n \in Nat /\ file \in Seq(Lines) /\ file' \in Seq(Lines)
      /\ Len(file') = n + 1
      /\ DOMAIN file = 1..n /\ DOMAIN file' = 1..n + 1
      /\ \A i \in 1..n : file'[i] = file[i]
      /\ file'[n + 1] = l
      /\ 1..n + 1 = 1..n \cup {n + 1}
  BY <1>1, <1>2, MoreLines DEF LintTypeOK
<1>6. styles' \in SUBSET Styles
  BY <1>1, <1>2, LineFields DEF LintTypeOK
<1>7. LintTypeOK'
  <2>1. blanks' \in Nat
    BY <1>1, <1>2 DEF LintTypeOK
  <2>2. entry' \in [line : Nat, bullets : Nat]
    BY <1>1, <1>2, EntryMoves
  <2> QED
    BY <1>1, <1>2, <1>4, <1>6, <2>1, <2>2 DEF LintTypeOK
<1>8. OpenEntry'
  BY <1>1, <1>2, OpenEntryKept
<1>9. /\ BlankAt(file', n + 1) <=> l.kind = "blank"
      /\ BlankAt(file', n) <=> BlankAt(file, n)
      /\ BadGlyphs(file') = BadGlyphs(file) \cup (IF l.glyph THEN {n + 1} ELSE {})
      /\ TooLong(file') = TooLong(file) \cup (IF l.long THEN {n + 1} ELSE {})
      /\ Trailing(file') = Trailing(file) \cup (IF l.trail THEN {n + 1} ELSE {})
      /\ Spaced(file') = Spaced(file) \cup
           (IF l.kind = "blank" /\ BlankAt(file, n) /\ ~BlankAt(file, n - 1)
            THEN {n + 1} ELSE {})
  BY <1>2, <1>4, LocalRules
<1>10. /\ blanks \in Nat
       /\ blanks = 0 <=> ~BlankAt(file, n)
       /\ blanks = 1 <=> BlankAt(file, n) /\ ~BlankAt(file, n - 1)
  BY <1>1 DEF LintTypeOK, BlankRun
<1>11. BlankRun'
  <2>1. n + 1 - 1 = n
    BY <1>4
  <2>2. /\ blanks' = 0 <=> l.kind # "blank"
        /\ blanks' = 1 <=> l.kind = "blank" /\ blanks = 0
    BY <1>2, <1>10
  <2> QED
    BY <1>4, <1>9, <1>10, <2>1, <2>2 DEF BlankRun
<1>12. StylesSeen'
  <2>1. ASSUME NEW t PROVE t \in styles' <=> \E i \in DOMAIN file' : t \in file'[i].style
    <3>1. t \in styles <=> \E i \in 1..n : t \in file[i].style
      BY <1>1, <1>4 DEF StylesSeen, Dated
    <3> QED
      BY <1>2, <1>4, <3>1
  <2> QED
    BY <2>1 DEF StylesSeen, Dated
<1>13. Pairs(Spaced(file'), "blank-lines") = Pairs(Spaced(file), "blank-lines") \cup finds("blank-lines", blanks' = 2)
  <2>1. blanks' = 2 <=> l.kind = "blank" /\ BlankAt(file, n) /\ ~BlankAt(file, n - 1)
    BY <1>2, <1>10
  <2>2. Spaced(file') = Spaced(file) \cup (IF blanks' = 2 THEN {n + 1} ELSE {})
    BY <1>9, <2>1
  <2>3. Pairs(IF blanks' = 2 THEN {n + 1} ELSE {}, "blank-lines") = finds("blank-lines", blanks' = 2)
    BY PairsOne
  <2> HIDE DEF finds
  <2>4. Pairs(Spaced(file'), "blank-lines") = Pairs(Spaced(file), "blank-lines")
          \cup Pairs(IF blanks' = 2 THEN {n + 1} ELSE {}, "blank-lines")
    BY <2>2, PairsMore
  <2> QED
    BY <2>3, <2>4
<1>14. Pairs(BadGlyphs(file'), "bullet-glyph")
         = Pairs(BadGlyphs(file), "bullet-glyph") \cup finds("bullet-glyph", l.glyph)
  <2>1. Pairs(IF l.glyph THEN {n + 1} ELSE {}, "bullet-glyph") = finds("bullet-glyph", l.glyph)
    BY LineFields, PairsOne
  <2>2. BadGlyphs(file') = BadGlyphs(file) \cup (IF l.glyph THEN {n + 1} ELSE {})
    BY <1>9
  <2> HIDE DEF finds
  <2>3. Pairs(BadGlyphs(file'), "bullet-glyph") = Pairs(BadGlyphs(file), "bullet-glyph")
          \cup Pairs(IF l.glyph THEN {n + 1} ELSE {}, "bullet-glyph")
    BY <2>2, PairsMore
  <2> QED
    BY <2>1, <2>3
<1>15. Pairs(TooLong(file'), "bullet-length")
         = Pairs(TooLong(file), "bullet-length") \cup finds("bullet-length", l.long)
  <2>1. Pairs(IF l.long THEN {n + 1} ELSE {}, "bullet-length") = finds("bullet-length", l.long)
    BY LineFields, PairsOne
  <2>2. TooLong(file') = TooLong(file) \cup (IF l.long THEN {n + 1} ELSE {})
    BY <1>9
  <2> HIDE DEF finds
  <2>3. Pairs(TooLong(file'), "bullet-length") = Pairs(TooLong(file), "bullet-length")
          \cup Pairs(IF l.long THEN {n + 1} ELSE {}, "bullet-length")
    BY <2>2, PairsMore
  <2> QED
    BY <2>1, <2>3
<1>16. Pairs(Crowded(file', entry'.line), "bullets/role")
         = Pairs(Crowded(file, entry.line), "bullets/role")
           \cup (IF l.kind \in {"title", "entry"} THEN Flushed ELSE {})
  <2>1. l.kind \in Headers <=> l.kind \in {"title", "entry"}
    BY DEF Headers
  <2> QED
    BY <1>1, <1>2, <2>1, CrowdedGrows
<1>17. Pairs(Trailing(file'), "trailing-whitespace")
         = Pairs(Trailing(file), "trailing-whitespace") \cup finds("trailing-whitespace", l.trail)
  <2>1. Pairs(IF l.trail THEN {n + 1} ELSE {}, "trailing-whitespace")
          = finds("trailing-whitespace", l.trail)
    BY LineFields, PairsOne
  <2>2. Trailing(file') = Trailing(file) \cup (IF l.trail THEN {n + 1} ELSE {})
    BY <1>9
  <2> HIDE DEF finds
  <2>3. Pairs(Trailing(file'), "trailing-whitespace") = Pairs(Trailing(file), "trailing-whitespace")
          \cup Pairs(IF l.trail THEN {n + 1} ELSE {}, "trailing-whitespace")
    BY <2>2, PairsMore
  <2> QED
    BY <2>1, <2>3
<1>18. FoundSoFar'
  <2> HIDE DEF finds
  <2> QED
    BY <1>1, <1>3, <1>13, <1>14, <1>15, <1>16, <1>17 DEF FoundSoFar
<1> QED
  BY <1>1, <1>2, <1>7, <1>8, <1>11, <1>12, <1>18 DEF Linted

LEMMA LintedStep == Linted /\ [LintNext]_lintVars => Linted'
<1> SUFFICES ASSUME Linted, [LintNext]_lintVars PROVE Linted'
  OBVIOUS
<1>1. CASE UNCHANGED lintVars
  <2>1. /\ file' = file /\ entry' = entry /\ styles' = styles
        /\ blanks' = blanks /\ findings' = findings /\ ending' = ending
    BY <1>1 DEF lintVars
  <2>2. FindingsAreRight' <=> FindingsAreRight
    BY <2>1 DEF FindingsAreRight, Kind, Under, Dated
  <2> QED
    BY <2>1, <2>2 DEF Linted, LintTypeOK, OpenEntry, BlankRun, StylesSeen, Dated, FoundSoFar
<1>2. ASSUME NEW end \in {"newline", "cut"}, EndOfFile(end) PROVE Linted'
  BY <1>2, EndOfFileKeeps
<1>3. ASSUME NEW l \in Lines, ReadLine(l) PROVE Linted'
  BY <1>3, ReadLineKeeps
<1> QED
  BY <1>1, <1>2, <1>3 DEF LintNext

\* For every file, whatever its length, its limit of bullets, its styles of
\* dates and its end: one pass finds what the rules say of the whole file (resume_lint.py).
THEOREM LintRight == LintSpec => []FindingsAreRight
<1>1. Linted => FindingsAreRight
  BY DEF Linted, FindingsAreRight
<1> QED
  BY <1>1, LintedInit, LintedStep, PTL DEF LintSpec
=============================================================================
