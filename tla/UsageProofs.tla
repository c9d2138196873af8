----------------------------- MODULE UsageProofs -----------------------------
(***************************************************************************)
(* What Usage promises, for any number of users, jobs, requests and days:  *)
(* it charges as Metering says, the counts that limit a user's jobs are    *)
(* the numbers of their jobs, and a restore leaves nothing to run behind   *)
(* the back of a disabled user.                                            *)
(***************************************************************************)
EXTENDS Usage, FiniteSetTheorems, TLAPS

(***************************************************************************)
(* The shape of the state.                                                 *)
(***************************************************************************)
Rows == [jobs : Nat, requests : Nat, tokens : Nat]
UsageTables == [Users -> [1..Days -> Rows]]
States == {"none", "queued", "running", "completed", "failed", "cancelled", "interrupted"}
Amounts == [in : 0..MaxTokens, out : 0..MaxTokens]
ProxyPcs == {"idle", "sent", "answered", "streaming", "ended"}
ProxyRows == [pc : ProxyPcs, job : Jobs \cup {Nobody}, used : Amounts, seen : Amounts]

\* What a request of the proxy has used and seen, at each of its steps.
Sane(q) ==
    /\ q.pc = "idle" => q = NoProxied
    /\ q.pc # "idle" => q.job \in Jobs
    /\ q.pc \in {"sent", "answered"} => q.seen = Zero
    /\ q.seen.in <= q.used.in /\ q.seen.out <= q.used.out
    /\ q.pc \in {"streaming", "ended"} => q.seen.in = q.used.in
    /\ q.pc = "ended" => q.seen.out = q.used.out

UsageShape ==
    /\ jobState \in [Jobs -> States]
    /\ userActive \in [Users -> BOOLEAN]
    /\ created \in [Jobs -> 0..Days]
    /\ usage \in UsageTables
    /\ today \in 1..Days
    /\ served \in BOOLEAN
    /\ proxied \in [Calls -> ProxyRows]
    /\ \A r \in Calls : Sane(proxied[r])
    /\ ~served => \A r \in Calls : proxied[r].pc = "idle"
    /\ snapshot \in [jobState : [Jobs -> States], created : [Jobs -> 0..Days],
                     usage : UsageTables]

LEMMA ZeroRow == Zero \in Amounts /\ NoProxied \in ProxyRows /\ Sane(NoProxied)
  BY UsageBounds DEF Zero, Amounts, NoProxied, ProxyRows, ProxyPcs, Sane

LEMMA ShapeInit == UsageInit => UsageShape
<1> SUFFICES ASSUME UsageInit PROVE UsageShape
  OBVIOUS
<1>1. NoUsage \in UsageTables
  BY DEF NoUsage, UsageTables, Rows
<1>2. jobState \in [Jobs -> States] /\ userActive \in [Users -> BOOLEAN]
  BY DEF UsageInit, Life!Init, States
<1>3. created \in [Jobs -> 0..Days] /\ today \in 1..Days /\ served \in BOOLEAN
  BY UsageBounds DEF UsageInit
<1>4. proxied \in [Calls -> ProxyRows] /\ \A r \in Calls : Sane(proxied[r])
  BY ZeroRow DEF UsageInit
<1>5. usage \in UsageTables /\ served
  BY <1>1 DEF UsageInit
<1>6. snapshot \in [jobState : [Jobs -> States], created : [Jobs -> 0..Days],
                    usage : UsageTables]
  BY <1>2, <1>3, <1>5 DEF UsageInit, Tables
<1> QED
  BY <1>2, <1>3, <1>4, <1>5, <1>6 DEF UsageShape

\* The larger of two numbers is one of them.
LEMMA MaxOfTwo ==
  ASSUME NEW a \in Nat, NEW b \in Nat
  PROVE  Max({a, b}) \in {a, b} /\ Max({a, b}) >= a /\ Max({a, b}) >= b
<1>1. \E x \in {a, b} : \A y \in {a, b} : x >= y
  <2>1. CASE a >= b
    BY <2>1
  <2>2. CASE b >= a
    BY <2>2
  <2> QED
    BY <2>1, <2>2
<1> DEFINE m == CHOOSE x \in {a, b} : \A y \in {a, b} : x >= y
<1>2. m \in {a, b} /\ \A y \in {a, b} : m >= y
  BY <1>1
<1> QED
  BY <1>2 DEF Max

LEMMA SeenLarger ==
  ASSUME NEW s \in Amounts, NEW l \in Amounts
  PROVE  /\ Seen(s, l) \in Amounts
         /\ Seen(s, l).in = Max({s.in, l.in}) /\ Seen(s, l).out = Max({s.out, l.out})
<1>1. DOMAIN Zero = {"in", "out"}
  BY DEF Zero
<1> DEFINE m == [c \in {"in", "out"} |-> Max({s[c], l[c]})]
<1>2. Seen(s, l) = m
  BY <1>1 DEF Seen
<1>3. s.in \in 0..MaxTokens /\ s.out \in 0..MaxTokens /\ l.in \in 0..MaxTokens
      /\ l.out \in 0..MaxTokens
  BY DEF Amounts
<1>4. Max({s.in, l.in}) \in 0..MaxTokens /\ Max({s.out, l.out}) \in 0..MaxTokens
  BY <1>3, MaxOfTwo, UsageBounds
<1>5. m.in = Max({s.in, l.in}) /\ m.out = Max({s.out, l.out})
  OBVIOUS
<1>6. m = [in |-> Max({s.in, l.in}), out |-> Max({s.out, l.out})]
  OBVIOUS
<1> QED
  BY <1>2, <1>4, <1>5, <1>6 DEF Amounts

(***************************************************************************)
(* Each kind of step keeps the shape.                                      *)
(***************************************************************************)

\* One request of the proxy moves on to a row of its kind.
LEMMA TurnsShape ==
  ASSUME UsageShape, NEW r \in Calls, NEW q \in ProxyRows, Sane(q), Turns(r, q),
         usage' \in UsageTables
  PROVE  UsageShape'
<1>1. served /\ served'
  BY DEF Turns
<1>2. proxied' \in [Calls -> ProxyRows] /\ \A c \in Calls : Sane(proxied'[c])
  BY DEF Turns, UsageShape
<1> QED
  BY <1>1, <1>2 DEF Turns, UsageShape

\* A number added to a column of today's row.
LEMMA AddedTables ==
  ASSUME UsageShape, NEW u \in Users, NEW n \in Nat,
         NEW column \in {"jobs", "requests", "tokens"}, Added(u, column, n)
  PROVE  /\ usage' \in UsageTables
         /\ \A v \in Users, d \in 1..Days, c \in {"jobs", "requests", "tokens"} :
              usage'[v][d][c] = IF v = u /\ d = today /\ c = column
                                THEN usage[v][d][c] + n ELSE usage[v][d][c]
<1>1. usage[u] \in [1..Days -> Rows] /\ today \in 1..Days /\ usage[u][today] \in Rows
  BY DEF UsageShape, UsageTables
<1> DEFINE row == [usage[u][today] EXCEPT ![column] = usage[u][today][column] + n]
           days == [usage[u] EXCEPT ![today] = row]
<1>2. row \in Rows
  BY <1>1 DEF Rows
<1>3. usage' = [usage EXCEPT ![u] = days]
  BY DEF Added
<1>4. \A c \in {"jobs", "requests", "tokens"} :
        row[c] = IF c = column THEN usage[u][today][c] + n ELSE usage[u][today][c]
  BY <1>1 DEF Rows
<1>5. days \in [1..Days -> Rows] /\ days[today] = row
      /\ \A d \in 1..Days : d # today => days[d] = usage[u][d]
  BY <1>1, <1>2
<1>6. usage' \in UsageTables /\ usage'[u] = days
      /\ \A v \in Users : v # u => usage'[v] = usage[v]
  BY <1>3, <1>5 DEF UsageShape, UsageTables
<1>7. ASSUME NEW v \in Users, NEW d \in 1..Days, NEW c \in {"jobs", "requests", "tokens"}
      PROVE usage'[v][d][c] = IF v = u /\ d = today /\ c = column
                              THEN usage[v][d][c] + n ELSE usage[v][d][c]
  <2>1. CASE v = u /\ d = today
    BY <1>4, <1>5, <1>6, <2>1
  <2>2. CASE ~(v = u /\ d = today)
    BY <1>5, <1>6, <2>2
  <2> QED
    BY <2>1, <2>2
<1> QED
  BY <1>6, <1>7

LEMMA StatesMove ==
  ASSUME UsageShape, NEW j \in Jobs, NEW from, NEW to \in States, Life!Moves(j, from, to)
  PROVE  /\ jobState' \in [Jobs -> States] /\ userActive' \in [Users -> BOOLEAN]
         /\ jobState[j] = from /\ jobState'[j] = to
         /\ \A k \in Jobs \ {j} : jobState'[k] = jobState[k]
  BY DEF UsageShape, Life!Moves

\* What the scheduler does with the rows of jobs and accounts, beside making jobs.
LEMMA JobMovesRows ==
  ASSUME UsageShape, RestoredIsIdle, JobMoves
  PROVE  /\ jobState' \in [Jobs -> States] /\ userActive' \in [Users -> BOOLEAN]
         /\ \A j \in Jobs : jobState'[j] = "none" => jobState[j] = "none"
         /\ RestoredIsIdle'
<1> DEFINE Kept ==
      /\ jobState' \in [Jobs -> States] /\ userActive' \in [Users -> BOOLEAN]
      /\ \A j \in Jobs : jobState'[j] = "none" => jobState[j] = "none"
      /\ RestoredIsIdle'
<1>0. Owner \in [Jobs -> Users]
  BY UsageOwners
<1>1. ASSUME NEW j \in Jobs, NEW from \in {"queued", "running"}, NEW to \in States \ {"none"},
             Life!Moves(j, from, to), to = "running" => userActive[Owner[j]]
      PROVE  Kept
  <2>1. /\ jobState' \in [Jobs -> States] /\ userActive' \in [Users -> BOOLEAN]
        /\ jobState[j] = from /\ jobState'[j] = to
        /\ \A k \in Jobs \ {j} : jobState'[k] = jobState[k]
    BY <1>1, StatesMove
  <2>2. userActive' = userActive
    BY <1>1 DEF Life!Moves
  <2>3. RestoredIsIdle'
    BY <1>0, <1>1, <2>1, <2>2 DEF RestoredIsIdle, Life!Idle
  <2> QED
    BY <1>1, <2>1, <2>3
<1>2. ASSUME NEW j \in Jobs, Life!Begin(j) PROVE Kept
  BY <1>1, <1>2 DEF Life!Begin, States
<1>3. ASSUME NEW j \in Jobs, Life!Cancel(j) PROVE Kept
  BY <1>1, <1>3 DEF Life!Cancel, States
<1>4. ASSUME NEW j \in Jobs, Life!End(j, "completed") PROVE Kept
  BY <1>1, <1>4 DEF Life!End, States
<1>5. ASSUME NEW u \in Users, NEW on \in BOOLEAN, Life!SetActive(u, on) PROVE Kept
  <2>1. jobState' = jobState /\ userActive' = [userActive EXCEPT ![u] = on]
        /\ (on \/ Life!Idle(u))
    BY <1>5 DEF Life!SetActive
  <2>2. RestoredIsIdle'
    BY <2>1 DEF RestoredIsIdle, Life!Idle, UsageShape
  <2> QED
    BY <2>1, <2>2 DEF UsageShape
<1> QED
  BY <1>2, <1>3, <1>4, <1>5 DEF JobMoves

(***************************************************************************)
(* The steps of one request.                                               *)
(***************************************************************************)
LEMMA RowParts ==
  ASSUME UsageShape, NEW r \in Calls
  PROVE  /\ proxied[r] \in ProxyRows /\ Sane(proxied[r])
         /\ proxied[r].used \in Amounts /\ proxied[r].seen \in Amounts
         /\ proxied[r].used.in \in 0..MaxTokens /\ proxied[r].used.out \in 0..MaxTokens
         /\ proxied[r].seen.in \in 0..MaxTokens /\ proxied[r].seen.out \in 0..MaxTokens
<1>1. proxied[r] \in ProxyRows /\ Sane(proxied[r])
  BY DEF UsageShape
<1>2. proxied[r].used \in Amounts /\ proxied[r].seen \in Amounts
  BY <1>1 DEF ProxyRows
<1> QED
  BY <1>1, <1>2 DEF Amounts

LEMMA AuthorizeRow ==
  ASSUME UsageShape, NEW r \in Calls, NEW j \in Jobs, Authorize(r, j)
  PROVE  \E q \in ProxyRows : Sane(q) /\ Turns(r, q) /\ q.pc = "sent"
<1> DEFINE q == [NoProxied EXCEPT !.pc = "sent", !.job = j]
<1>1. q \in ProxyRows /\ q.pc = "sent" /\ q.job = j /\ q.used = NoProxied.used
      /\ q.seen = NoProxied.seen
  BY ZeroRow DEF ProxyRows, ProxyPcs
<1>2. Turns(r, q)
  BY DEF Authorize
<1>3. Sane(q)
  <2> HIDE DEF q
  <2> QED
    BY <1>1 DEF Sane, NoProxied, Zero
<1> QED
  BY <1>1, <1>2, <1>3

LEMMA AnsweredRow ==
  ASSUME UsageShape, NEW r \in Calls, NEW n \in 0..MaxTokens, Answered(r, n)
  PROVE  \E q \in ProxyRows :
           /\ Sane(q) /\ Turns(r, q)
           /\ q.pc = "answered" /\ q.job = proxied[r].job /\ q.job \in Jobs
<1> DEFINE o == proxied[r]
           q == [o EXCEPT !.pc = "answered", !.used.in = n]
<1>1. o \in ProxyRows /\ Sane(o) /\ o.pc = "sent" /\ o.used.out \in 0..MaxTokens
  BY RowParts DEF Answered
<1>2. o.job \in Jobs /\ o.seen = Zero
  BY <1>1 DEF Sane
<1>3. /\ q \in ProxyRows /\ q.pc = "answered" /\ q.job = o.job /\ q.seen = o.seen
      /\ q.used.in = n /\ q.used.out = o.used.out
  BY <1>1 DEF ProxyRows, ProxyPcs, Amounts
<1>4. Turns(r, q)
  BY DEF Answered
<1>5. Sane(q)
  <2> HIDE DEF q
  <2> QED
    BY <1>1, <1>2, <1>3, UsageBounds DEF Sane, Zero
<1> QED
  BY <1>2, <1>3, <1>4, <1>5

\* A line of the stream: what was used may grow, what was seen comes closer.
LEMMA LineRow ==
  ASSUME UsageShape, NEW r \in Calls, Line(r)
  PROVE  \E q \in ProxyRows :
           /\ Sane(q) /\ Turns(r, q)
           /\ proxied[r].pc \in {"answered", "streaming"}
           /\ q.pc \in {"streaming", "ended"}
           /\ q.job = proxied[r].job /\ q.used.in = proxied[r].used.in
           /\ q.used.out >= proxied[r].used.out
<1> DEFINE o == proxied[r]
<1>0. /\ o \in ProxyRows /\ Sane(o) /\ o.used \in Amounts /\ o.seen \in Amounts
      /\ o.used.in \in 0..MaxTokens /\ o.used.out \in 0..MaxTokens
      /\ o.seen.in \in 0..MaxTokens /\ o.seen.out \in 0..MaxTokens
  BY RowParts
<1>1. ASSUME o.pc = "answered",
             Turns(r, [o EXCEPT !.pc = "streaming",
                                !.seen = Seen(@, [o.used EXCEPT !.out = 0])])
      PROVE  \E q \in ProxyRows :
               /\ Sane(q) /\ Turns(r, q) /\ q.pc = "streaming"
               /\ q.job = o.job /\ q.used = o.used
  <2> DEFINE line == [o.used EXCEPT !.out = 0]
             seen == Seen(o.seen, line)
             q == [o EXCEPT !.pc = "streaming", !.seen = seen]
  <2>1. line \in Amounts /\ line.in = o.used.in /\ line.out = 0
    BY <1>0, UsageBounds DEF Amounts
  <2>2. o.seen.in = 0 /\ o.seen.out = 0 /\ o.job \in Jobs
    BY <1>0, <1>1 DEF Sane, Zero
  <2>3. seen \in Amounts /\ seen.in = o.used.in /\ seen.out = 0
    <3>1. /\ seen \in Amounts
          /\ seen.in = Max({o.seen.in, line.in}) /\ seen.out = Max({o.seen.out, line.out})
      BY <1>0, <2>1, SeenLarger
    <3>2. o.used.in \in Nat /\ Max({0, o.used.in}) = o.used.in /\ Max({0, 0}) = 0
      BY <1>0, UsageBounds, MaxOfTwo
    <3> QED
      BY <2>1, <2>2, <3>1, <3>2
  <2>4. /\ q \in ProxyRows /\ q.pc = "streaming" /\ q.job = o.job /\ q.used = o.used
        /\ q.seen = seen
    BY <1>0, <2>3 DEF ProxyRows, ProxyPcs
  <2>5. Sane(q)
    <3> HIDE DEF q, seen
    <3> QED
      BY <1>0, <2>2, <2>3, <2>4 DEF Sane
  <2> QED
    BY <1>1, <2>4, <2>5
<1>2. ASSUME o.pc = "streaming", o.used.out < MaxTokens,
             Turns(r, [o EXCEPT !.used.out = @ + 1])
      PROVE  \E q \in ProxyRows :
               /\ Sane(q) /\ Turns(r, q) /\ q.pc = "streaming"
               /\ q.job = o.job /\ q.used.in = o.used.in /\ q.used.out >= o.used.out
  <2> DEFINE used == [in |-> o.used.in, out |-> o.used.out + 1]
             q == [pc |-> o.pc, job |-> o.job, used |-> used, seen |-> o.seen]
  <2>1. used \in Amounts
    BY <1>0, <1>2, UsageBounds DEF Amounts
  <2>2. q \in ProxyRows /\ Sane(q)
    BY <1>0, <1>2, <2>1 DEF ProxyRows, ProxyPcs, Sane
  <2>3. [o EXCEPT !.used.out = @ + 1] = q
    BY <1>0 DEF ProxyRows, Amounts
  <2> QED
    BY <1>0, <1>2, <2>2, <2>3
<1>3. ASSUME o.pc = "streaming", NEW in \in {0, o.used.in}, NEW pc \in {"streaming", "ended"},
             Turns(r, [o EXCEPT !.pc = pc,
                                !.seen = Seen(@, [in |-> in, out |-> o.used.out])])
      PROVE  \E q \in ProxyRows :
               /\ Sane(q) /\ Turns(r, q) /\ q.pc = pc
               /\ q.job = o.job /\ q.used = o.used
  <2> DEFINE line == [in |-> in, out |-> o.used.out]
             seen == Seen(o.seen, line)
             q == [o EXCEPT !.pc = pc, !.seen = seen]
  <2>1. line \in Amounts /\ line.in = in /\ line.out = o.used.out
    BY <1>0, UsageBounds DEF Amounts
  <2>2. o.seen.in = o.used.in /\ o.seen.out <= o.used.out /\ o.job \in Jobs
    BY <1>0, <1>3 DEF Sane
  <2>3. seen \in Amounts /\ seen.in = o.used.in /\ seen.out = o.used.out
    <3>1. /\ seen \in Amounts
          /\ seen.in = Max({o.seen.in, line.in}) /\ seen.out = Max({o.seen.out, line.out})
      BY <1>0, <2>1, SeenLarger
    <3>2. /\ Max({o.used.in, line.in}) = o.used.in
          /\ Max({o.seen.out, o.used.out}) = o.used.out
      BY <1>0, <2>1, <2>2, UsageBounds, MaxOfTwo
    <3> QED
      BY <2>1, <2>2, <3>1, <3>2
  <2>4. /\ q \in ProxyRows /\ q.pc = pc /\ q.job = o.job /\ q.used = o.used
        /\ q.seen = seen
    BY <1>0, <2>3 DEF ProxyRows, ProxyPcs
  <2>5. Sane(q)
    <3> HIDE DEF q, seen
    <3> QED
      BY <1>0, <2>2, <2>3, <2>4 DEF Sane
  <2> QED
    BY <1>3, <2>4, <2>5
<1> QED
  BY <1>0, <1>1, <1>2, <1>3 DEF Line

(***************************************************************************)
(* What is left: creating jobs, and what is not a job's doing.             *)
(***************************************************************************)
LEMMA CreateRows ==
  ASSUME UsageShape, RestoredIsIdle, NEW j \in Jobs, CreateJob(j)
  PROVE  UsageShape' /\ RestoredIsIdle'
<1>0. Owner[j] \in Users /\ Owner \in [Jobs -> Users]
  BY UsageOwners
<1>1. Life!Moves(j, "none", "queued") /\ userActive[Owner[j]]
  BY DEF CreateJob, Life!Submit
<1>2. /\ jobState' \in [Jobs -> States] /\ userActive' \in [Users -> BOOLEAN]
      /\ jobState'[j] = "queued" /\ \A k \in Jobs \ {j} : jobState'[k] = jobState[k]
  BY <1>1, StatesMove DEF States
<1>3. usage' \in UsageTables
  BY <1>0, AddedTables DEF CreateJob
<1>4. created' \in [Jobs -> 0..Days]
  BY UsageBounds DEF CreateJob, UsageShape
<1>5. userActive' = userActive
  BY <1>1 DEF Life!Moves
<1>6. UsageShape'
  BY <1>2, <1>3, <1>4 DEF CreateJob, UsageShape
<1>7. RestoredIsIdle'
  BY <1>0, <1>1, <1>2, <1>5 DEF RestoredIsIdle, Life!Idle
<1> QED
  BY <1>6, <1>7

\* The rows of one user are the snapshot's, everybody else's are as they were.
LEMMA RestoreRows ==
  ASSUME UsageShape, NEW u \in Users, RestoreUser(u)
  PROVE  /\ \A j \in Jobs : Owner[j] = u =>
              jobState'[j] = RestoredState(snapshot.jobState[j]) /\ created'[j] = snapshot.created[j]
         /\ \A j \in Jobs : Owner[j] # u => jobState'[j] = jobState[j] /\ created'[j] = created[j]
         /\ usage'[u] = snapshot.usage[u]
         /\ \A v \in Users \ {u} : usage'[v] = usage[v]
         /\ UsageShape'
<1> DEFINE snap == [jobState : [Jobs -> States], created : [Jobs -> 0..Days], usage : UsageTables]
<1>1. /\ snapshot.jobState \in [Jobs -> States] /\ snapshot.created \in [Jobs -> 0..Days]
      /\ snapshot.usage \in UsageTables
  BY DEF UsageShape
<1>2. \A j \in Jobs : jobState'[j] = IF Owner[j] = u THEN RestoredState(snapshot.jobState[j])
                                     ELSE jobState[j]
  BY DEF RestoreUser
<1>3. \A j \in Jobs : created'[j] = IF Owner[j] = u THEN snapshot.created[j] ELSE created[j]
  BY DEF RestoreUser
<1>4. jobState' \in [Jobs -> States]
  <2>1. \A x \in States : RestoredState(x) \in States
    BY DEF RestoredState, States
  <2>2. jobState' = [j \in Jobs |-> IF Owner[j] = u THEN RestoredState(snapshot.jobState[j])
                                    ELSE jobState[j]]
    BY DEF RestoreUser
  <2> QED
    BY <1>1, <2>1, <2>2 DEF UsageShape
<1>5. created' \in [Jobs -> 0..Days]
  <2>1. created' = [j \in Jobs |-> IF Owner[j] = u THEN snapshot.created[j] ELSE created[j]]
    BY DEF RestoreUser
  <2> QED
    BY <1>1, <2>1 DEF UsageShape
<1>6. usage' \in UsageTables /\ usage'[u] = snapshot.usage[u]
      /\ \A v \in Users \ {u} : usage'[v] = usage[v]
  BY <1>1 DEF RestoreUser, UsageShape, UsageTables
<1>7. UsageShape'
  BY <1>4, <1>5, <1>6 DEF RestoreUser, UsageShape
<1> QED
  BY <1>2, <1>3, <1>6, <1>7

LEMMA OtherRows ==
  ASSUME UsageShape, RestoredIsIdle,
         \/ \E u \in Users, n \in JobLimits : UpdateQuota(u, n)
         \/ NewDay \/ WebStops \/ WebStarts \/ TakeSnapshot
         \/ UNCHANGED usageVars
  PROVE  UsageShape' /\ RestoredIsIdle'
<1>1. CASE \E u \in Users, n \in JobLimits : UpdateQuota(u, n)
  BY <1>1 DEF UpdateQuota, UsageShape, RestoredIsIdle, Life!Idle
<1>2. CASE NewDay
  <2>1. today' \in 1..Days
    BY <1>2, UsageBounds DEF NewDay, UsageShape
  <2> QED
    BY <1>2, <2>1 DEF NewDay, UsageShape, RestoredIsIdle, Life!Idle
<1>3. CASE WebStops
  <2>1. proxied' \in [Calls -> ProxyRows]
        /\ \A r \in Calls : Sane(proxied'[r]) /\ proxied'[r].pc = "idle"
    BY <1>3, ZeroRow DEF WebStops, NoProxied
  <2> QED
    BY <1>3, <2>1 DEF WebStops, UsageShape, RestoredIsIdle, Life!Idle
<1>4. CASE WebStarts
  <2>1. jobState' \in [Jobs -> States]
    BY <1>4 DEF WebStarts, Life!Restart, UsageShape, States
  <2>2. \A j \in Jobs : jobState'[j] \in {jobState[j], "interrupted"}
    BY <1>4 DEF WebStarts, Life!Restart, UsageShape
  <2>3. RestoredIsIdle'
    BY <1>4, <2>2 DEF WebStarts, Life!Restart, RestoredIsIdle, Life!Idle
  <2> QED
    BY <1>4, <2>1, <2>3 DEF WebStarts, Life!Restart, UsageShape
<1>5. CASE TakeSnapshot
  <2>1. snapshot' \in [jobState : [Jobs -> States], created : [Jobs -> 0..Days],
                       usage : UsageTables]
    BY <1>5 DEF TakeSnapshot, Tables, UsageShape
  <2> QED
    BY <1>5, <2>1 DEF TakeSnapshot, UsageShape, RestoredIsIdle, Life!Idle
<1>6. CASE UNCHANGED usageVars
  BY <1>6 DEF usageVars, UsageShape, RestoredIsIdle, Life!Idle
<1> QED
  BY <1>1, <1>2, <1>3, <1>4, <1>5, <1>6

LEMMA ProxyStep ==
  ASSUME UsageShape, RestoredIsIdle, NEW r \in Calls,
         \/ \E j \in Jobs : Authorize(r, j)
         \/ Refuse(r)
         \/ \E n \in 0..MaxTokens : Answered(r, n)
         \/ Line(r)
         \/ Record(r)
  PROVE  UsageShape' /\ RestoredIsIdle'
<1>1. \E q \in ProxyRows : Sane(q) /\ Turns(r, q)
  BY ZeroRow, AuthorizeRow, AnsweredRow, LineRow DEF Refuse, Record
<1>2. usage' \in UsageTables
  <2>0. /\ Owner \in [Jobs -> Users]
        /\ proxied[r].pc # "idle" => proxied[r].job \in Jobs
        /\ proxied[r].seen.in \in Nat /\ proxied[r].seen.out \in Nat
    BY UsageOwners, UsageBounds, RowParts DEF Sane
  <2>1. ASSUME NEW n \in 0..MaxTokens, Answered(r, n) PROVE usage' \in UsageTables
    BY <2>0, <2>1, AddedTables DEF Answered
  <2>2. CASE Record(r)
    BY <2>0, <2>2, AddedTables DEF Record
  <2> QED
    BY <2>1, <2>2 DEF Authorize, Refuse, Line, UsageShape
<1>3. UsageShape'
  BY <1>1, <1>2, TurnsShape
<1>4. UNCHANGED <<jobState, userActive>>
  BY <1>1 DEF Turns
<1> QED
  BY <1>3, <1>4 DEF RestoredIsIdle, Life!Idle

LEMMA UsageStep ==
  UsageShape /\ RestoredIsIdle /\ [UsageNext]_usageVars => (UsageShape /\ RestoredIsIdle)'
<1> SUFFICES ASSUME UsageShape, RestoredIsIdle, [UsageNext]_usageVars
             PROVE  UsageShape' /\ RestoredIsIdle'
  OBVIOUS
<1>1. ASSUME NEW j \in Jobs, CreateJob(j) PROVE UsageShape' /\ RestoredIsIdle'
  BY <1>1, CreateRows
<1>2. CASE JobMoves
  BY <1>2, JobMovesRows DEF JobMoves, UsageShape
<1>3. ASSUME NEW u \in Users, RestoreUser(u) PROVE UsageShape' /\ RestoredIsIdle'
  <2>1. userActive' = userActive /\ ~userActive[u]
    BY <1>3 DEF RestoreUser
  <2>2. \A j \in Jobs : Owner[j] = u => jobState'[j] \notin {"queued", "running"}
    BY <1>3, RestoreRows DEF RestoredState
  <2>3. \A j \in Jobs : Owner[j] # u => jobState'[j] = jobState[j]
    BY <1>3, RestoreRows
  <2> QED
    BY <1>3, <2>1, <2>2, <2>3, RestoreRows DEF RestoredIsIdle, Life!Idle
<1>4. ASSUME NEW r \in Calls,
             \/ \E j \in Jobs : Authorize(r, j)
             \/ Refuse(r)
             \/ \E n \in 0..MaxTokens : Answered(r, n)
             \/ Line(r)
             \/ Record(r)
      PROVE  UsageShape' /\ RestoredIsIdle'
  BY <1>4, ProxyStep
<1> QED
  BY <1>1, <1>2, <1>3, <1>4, OtherRows DEF UsageNext

\* An inactive user has nothing that the next start would run, even after a
\* restore of a snapshot in which there was something.
THEOREM RestoredStaysIdle == UsageSpec => []RestoredIsIdle
<1>1. UsageInit => UsageShape /\ RestoredIsIdle
  BY ShapeInit DEF UsageInit, Life!Init, RestoredIsIdle, Life!Idle
<1> QED
  BY <1>1, UsageStep, PTL DEF UsageSpec

(***************************************************************************)
(* The counts of jobs, in the database and in the backup.                  *)
(***************************************************************************)
OfDay(u, d, days) == {j \in Jobs : Owner[j] = u /\ days[j] = d}

CountedIn(states, days, table) ==
    /\ \A j \in Jobs : states[j] = "none" => days[j] = 0
    /\ \A u \in Users, d \in 1..Days : table[u][d].jobs = Cardinality(OfDay(u, d, days))

Counted == /\ CountedIn(jobState, created, usage)
           /\ CountedIn(snapshot.jobState, snapshot.created, snapshot.usage)

\* A job more on one day.
LEMMA OfDayGrows ==
  ASSUME UsageShape, NEW j \in Jobs, created[j] = 0, created' = [created EXCEPT ![j] = today],
         NEW u \in Users, NEW d \in 1..Days
  PROVE  /\ IsFiniteSet(OfDay(u, d, created))
         /\ Cardinality(OfDay(u, d, created)) \in Nat
         /\ Cardinality(OfDay(u, d, created')) =
              IF u = Owner[j] /\ d = today THEN Cardinality(OfDay(u, d, created)) + 1
              ELSE Cardinality(OfDay(u, d, created))
<1>1. IsFiniteSet(OfDay(u, d, created)) /\ Cardinality(OfDay(u, d, created)) \in Nat
  <2>1. OfDay(u, d, created) \subseteq Jobs
    BY DEF OfDay
  <2> QED
    BY <2>1, JobsFinite, FS_Subset, FS_CardinalityType
<1>2. j \notin OfDay(u, d, created)
  BY DEF OfDay
<1>3. \A k \in Jobs : created'[k] = IF k = j THEN today ELSE created[k]
  BY DEF UsageShape
<1>4. CASE u = Owner[j] /\ d = today
  <2>1. OfDay(u, d, created') = OfDay(u, d, created) \cup {j}
    BY <1>3, <1>4 DEF OfDay
  <2>2. Cardinality(OfDay(u, d, created) \cup {j}) = Cardinality(OfDay(u, d, created)) + 1
    BY <1>1, <1>2, FS_AddElement
  <2> QED
    BY <1>1, <1>4, <2>1, <2>2
<1>5. CASE ~(u = Owner[j] /\ d = today)
  <2>1. OfDay(u, d, created') = OfDay(u, d, created)
    BY <1>2, <1>3, <1>5 DEF OfDay
  <2> QED
    BY <1>1, <1>5, <2>1
<1> QED
  BY <1>1, <1>4, <1>5

LEMMA CountedCreate ==
  ASSUME UsageShape, RestoredIsIdle, Counted, NEW j \in Jobs, CreateJob(j)
  PROVE  CountedIn(jobState', created', usage') /\ snapshot' = snapshot
<1>0. Owner[j] \in Users
  BY UsageOwners
<1>1. /\ jobState[j] = "none" /\ jobState'[j] = "queued"
      /\ \A k \in Jobs \ {j} : jobState'[k] = jobState[k]
  BY StatesMove DEF CreateJob, Life!Submit, States
<1>2. created[j] = 0 /\ created' = [created EXCEPT ![j] = today]
  BY <1>1 DEF Counted, CountedIn, CreateJob
<1>3. \A k \in Jobs : jobState'[k] = "none" => created'[k] = 0
  BY <1>1, <1>2 DEF Counted, CountedIn, UsageShape
<1>4. ASSUME NEW u \in Users, NEW d \in 1..Days
      PROVE  usage'[u][d].jobs = Cardinality(OfDay(u, d, created'))
  <2>1. usage'[u][d].jobs = IF u = Owner[j] /\ d = today THEN usage[u][d].jobs + 1
                            ELSE usage[u][d].jobs
    <3>1. Added(Owner[j], "jobs", 1)
      BY DEF CreateJob
    <3>2. usage'[u][d]["jobs"] = IF u = Owner[j] /\ d = today /\ "jobs" = "jobs"
                                 THEN usage[u][d]["jobs"] + 1 ELSE usage[u][d]["jobs"]
      BY <1>0, <3>1, AddedTables
    <3> QED
      BY <3>2
  <2>2. usage[u][d].jobs = Cardinality(OfDay(u, d, created))
    BY DEF Counted, CountedIn
  <2>3. Cardinality(OfDay(u, d, created')) =
          IF u = Owner[j] /\ d = today THEN Cardinality(OfDay(u, d, created)) + 1
          ELSE Cardinality(OfDay(u, d, created))
    BY <1>2, OfDayGrows
  <2> QED
    BY <2>1, <2>2, <2>3
<1> QED
  BY <1>3, <1>4 DEF CountedIn, CreateJob

\* A step that makes no job, and counts none.
LEMMA CountedFrame ==
  ASSUME Counted, created' = created,
         \A j \in Jobs : jobState'[j] = "none" => jobState[j] = "none",
         \A u \in Users, d \in 1..Days : usage'[u][d].jobs = usage[u][d].jobs
  PROVE  CountedIn(jobState', created', usage')
  BY DEF Counted, CountedIn

LEMMA CountedRestore ==
  ASSUME UsageShape, Counted, NEW u \in Users, RestoreUser(u)
  PROVE  CountedIn(jobState', created', usage') /\ snapshot' = snapshot
<1>1. \A j \in Jobs : jobState'[j] = "none" => created'[j] = 0
  <2>1. ASSUME NEW j \in Jobs, Owner[j] = u, jobState'[j] = "none" PROVE created'[j] = 0
    <3>1. snapshot.jobState[j] = "none"
      BY <2>1, RestoreRows DEF RestoredState
    <3> QED
      BY <2>1, <3>1, RestoreRows DEF Counted, CountedIn
  <2>2. ASSUME NEW j \in Jobs, Owner[j] # u, jobState'[j] = "none" PROVE created'[j] = 0
    BY <2>2, RestoreRows DEF Counted, CountedIn
  <2> QED
    BY <2>1, <2>2
<1>2. ASSUME NEW v \in Users, NEW d \in 1..Days
      PROVE  usage'[v][d].jobs = Cardinality(OfDay(v, d, created'))
  <2>1. CASE v = u
    <3>1. OfDay(v, d, created') = OfDay(v, d, snapshot.created)
      BY <2>1, RestoreRows DEF OfDay
    <3>2. usage'[v] = snapshot.usage[v]
      BY <2>1, RestoreRows
    <3> QED
      BY <3>1, <3>2 DEF Counted, CountedIn
  <2>2. CASE v # u
    <3>1. OfDay(v, d, created') = OfDay(v, d, created)
      BY <2>2, RestoreRows DEF OfDay
    <3>2. usage'[v] = usage[v]
      BY <2>2, RestoreRows
    <3> QED
      BY <3>1, <3>2 DEF Counted, CountedIn
  <2> QED
    BY <2>1, <2>2
<1> QED
  BY <1>1, <1>2 DEF CountedIn, RestoreUser

LEMMA CountedProxy ==
  ASSUME UsageShape, RestoredIsIdle, Counted, NEW r \in Calls,
         \/ \E j \in Jobs : Authorize(r, j)
         \/ Refuse(r)
         \/ \E n \in 0..MaxTokens : Answered(r, n)
         \/ Line(r)
         \/ Record(r)
  PROVE  CountedIn(jobState', created', usage') /\ snapshot' = snapshot
<1>1. UNCHANGED <<jobState, created, snapshot>>
  BY DEF Authorize, Refuse, Answered, Line, Record, Turns
<1> DEFINE Same == \A u \in Users, d \in 1..Days : usage'[u][d].jobs = usage[u][d].jobs
<1>2. Same
  <2>0. /\ Owner \in [Jobs -> Users]
        /\ proxied[r].pc # "idle" => proxied[r].job \in Jobs
        /\ proxied[r].seen.in \in Nat /\ proxied[r].seen.out \in Nat
    BY UsageOwners, UsageBounds, RowParts DEF Sane
  <2>1. ASSUME NEW u \in Users, NEW n \in Nat, NEW column \in {"requests", "tokens"},
               Added(u, column, n)
        PROVE  Same
    <3>1. \A v \in Users, d \in 1..Days, c \in {"jobs", "requests", "tokens"} :
              usage'[v][d][c] = IF v = u /\ d = today /\ c = column
                                THEN usage[v][d][c] + n ELSE usage[v][d][c]
      BY <2>1, AddedTables
    <3>2. \A v \in Users, d \in 1..Days : usage'[v][d]["jobs"] = usage[v][d]["jobs"]
      BY <2>1, <3>1
    <3> QED
      BY <3>2
  <2>2. ASSUME NEW n \in 0..MaxTokens, Answered(r, n) PROVE Same
    BY <2>0, <2>1, <2>2 DEF Answered
  <2>3. CASE Record(r)
    BY <2>0, <2>1, <2>3 DEF Record
  <2> QED
    BY <2>2, <2>3 DEF Authorize, Refuse, Line
<1> QED
  BY <1>1, <1>2, CountedFrame

LEMMA CountedStep ==
  UsageShape /\ RestoredIsIdle /\ Counted /\ [UsageNext]_usageVars => Counted'
<1> SUFFICES ASSUME UsageShape, RestoredIsIdle, Counted, [UsageNext]_usageVars
             PROVE  Counted'
  OBVIOUS
<1>1. ASSUME CountedIn(jobState', created', usage'), snapshot' = snapshot PROVE Counted'
  BY <1>1 DEF Counted, CountedIn, OfDay
<1>2. ASSUME NEW j \in Jobs, CreateJob(j) PROVE Counted'
  BY <1>1, <1>2, CountedCreate
<1>3. CASE JobMoves
  BY <1>1, <1>3, JobMovesRows, CountedFrame DEF JobMoves
<1>4. ASSUME NEW u \in Users, RestoreUser(u) PROVE Counted'
  BY <1>1, <1>4, CountedRestore
<1>5. ASSUME NEW r \in Calls,
             \/ \E j \in Jobs : Authorize(r, j)
             \/ Refuse(r)
             \/ \E n \in 0..MaxTokens : Answered(r, n)
             \/ Line(r)
             \/ Record(r)
      PROVE  Counted'
  BY <1>1, <1>5, CountedProxy
<1>6. CASE WebStarts
  <2>1. \A j \in Jobs : jobState'[j] = "none" => jobState[j] = "none"
    BY <1>6 DEF WebStarts, Life!Restart
  <2> QED
    BY <1>1, <1>6, <2>1, CountedFrame DEF WebStarts
<1>7. CASE TakeSnapshot
  <2>1. snapshot'.jobState = jobState /\ snapshot'.created = created /\ snapshot'.usage = usage
        /\ UNCHANGED <<jobState, created, usage>>
    BY <1>7 DEF TakeSnapshot, Tables
  <2> QED
    BY <2>1 DEF Counted, CountedIn, OfDay
<1>8. CASE \/ \E u \in Users, n \in JobLimits : UpdateQuota(u, n)
           \/ NewDay \/ WebStops \/ UNCHANGED usageVars
  BY <1>1, <1>8, CountedFrame DEF UpdateQuota, NewDay, WebStops, usageVars
<1> QED
  BY <1>2, <1>3, <1>4, <1>5, <1>6, <1>7, <1>8 DEF UsageNext

LEMMA CountedInit == UsageInit => Counted
<1> SUFFICES ASSUME UsageInit PROVE Counted
  OBVIOUS
<1>1. ASSUME NEW u \in Users, NEW d \in 1..Days
      PROVE  usage[u][d].jobs = 0 /\ Cardinality(OfDay(u, d, created)) = 0
  <2>1. OfDay(u, d, created) = {}
    BY DEF UsageInit, OfDay
  <2> QED
    BY <2>1, FS_EmptySet DEF UsageInit, NoUsage
<1>2. CountedIn(jobState, created, usage)
  BY <1>1 DEF UsageInit, CountedIn
<1>3. /\ snapshot.jobState = jobState /\ snapshot.created = created
      /\ snapshot.usage = usage
  BY DEF UsageInit, Tables
<1> QED
  BY <1>2, <1>3 DEF Counted

\* The count that create_job limits is the number of the user's jobs of the day,
\* whatever is restored from whichever backup.
THEOREM JobsStayCounted == UsageSpec => []JobsCounted
<1>1. UsageInit => UsageShape /\ RestoredIsIdle /\ Counted
  BY ShapeInit, CountedInit DEF UsageInit, Life!Init, RestoredIsIdle, Life!Idle
<1>2. Counted => JobsCounted
  BY DEF Counted, CountedIn, OfDay, JobsCounted
<1> QED
  BY <1>1, <1>2, UsageStep, CountedStep, PTL DEF UsageSpec

(***************************************************************************)
(* The refinement: each step is one of Metering or changes nothing there.  *)
(***************************************************************************)
Open == [r \in Calls |-> Answering(proxied[r])]
Same == UNCHANGED <<Account(usage), Account(snapshot.usage), Open, today>>
Meters == Meter!Next \/ Same

LEMMA OpenMoves ==
  ASSUME UsageShape, NEW r \in Calls, NEW q \in ProxyRows, Turns(r, q)
  PROVE  /\ Open' = [Open EXCEPT ![r] = Answering(q)]
         /\ UNCHANGED <<Account(snapshot.usage), today>>
<1>1. proxied' = [proxied EXCEPT ![r] = q] /\ UNCHANGED <<snapshot, today>>
  BY DEF Turns
<1> QED
  BY <1>1 DEF UsageShape, Open

LEMMA RequestAdded ==
  ASSUME UsageShape, NEW u \in Users, NEW n \in Nat, Added(u, "requests", n)
  PROVE  Account(usage)' = [Account(usage) EXCEPT ![u][today].requests = @ + n]
<1> DEFINE row == [requests |-> usage[u][today].requests + n, tokens |-> usage[u][today].tokens]
           line(table, v, d) == [requests |-> table[v][d].requests, tokens |-> table[v][d].tokens]
<1>0. today \in 1..Days
  BY DEF UsageShape
<1>1. \A v \in Users, d \in 1..Days, c \in {"jobs", "requests", "tokens"} :
        usage'[v][d][c] = IF v = u /\ d = today /\ c = "requests"
                          THEN usage[v][d][c] + n ELSE usage[v][d][c]
  BY AddedTables
<1>2. ASSUME NEW v \in Users, NEW d \in 1..Days
      PROVE  line(usage', v, d) = IF v = u /\ d = today THEN row ELSE line(usage, v, d)
  <2>1. /\ usage'[v][d]["requests"] = IF v = u /\ d = today THEN usage[v][d]["requests"] + n
                                    ELSE usage[v][d]["requests"]
        /\ usage'[v][d]["tokens"] = usage[v][d]["tokens"]
    BY <1>1
  <2> QED
    BY <2>1
<1>3. Account(usage)' = [v \in Users |-> [d \in 1..Days |-> line(usage', v, d)]]
  BY DEF Account
<1>4. Account(usage) = [v \in Users |-> [d \in 1..Days |-> line(usage, v, d)]]
  BY DEF Account
<1>5. [line(usage, u, today) EXCEPT !.requests = @ + n] = row
  OBVIOUS
<1> HIDE DEF line, row
<1> DEFINE days == [Account(usage)[u] EXCEPT ![today] = row]
<1>6. [Account(usage) EXCEPT ![u][today].requests = @ + n] = [Account(usage) EXCEPT ![u] = days]
  <2>1. Account(usage)[u][today] = line(usage, u, today)
    BY <1>0, <1>4
  <2> QED
    BY <1>5, <2>1
<1>7. days = [d \in 1..Days |-> line(usage', u, d)]
  <2>1. Account(usage)[u] = [d \in 1..Days |-> line(usage, u, d)]
    BY <1>4
  <2>2. \A d \in 1..Days : line(usage', u, d) = IF d = today THEN row ELSE line(usage, u, d)
    BY <1>2
  <2> QED
    BY <1>0, <2>1, <2>2
<1>8. \A v \in Users \ {u} : [d \in 1..Days |-> line(usage', v, d)] = Account(usage)[v]
  BY <1>2, <1>4
<1> HIDE DEF days
<1>9. [Account(usage) EXCEPT ![u] = days] = [v \in Users |-> [d \in 1..Days |-> line(usage', v, d)]]
  BY <1>4, <1>7, <1>8
<1> QED
  BY <1>3, <1>6, <1>9

LEMMA TokensAdded ==
  ASSUME UsageShape, NEW u \in Users, NEW n \in Nat, Added(u, "tokens", n)
  PROVE  Account(usage)' = [Account(usage) EXCEPT ![u][today].tokens = @ + n]
<1> DEFINE row == [requests |-> usage[u][today].requests, tokens |-> usage[u][today].tokens + n]
           line(table, v, d) == [requests |-> table[v][d].requests, tokens |-> table[v][d].tokens]
<1>0. today \in 1..Days
  BY DEF UsageShape
<1>1. \A v \in Users, d \in 1..Days, c \in {"jobs", "requests", "tokens"} :
        usage'[v][d][c] = IF v = u /\ d = today /\ c = "tokens"
                          THEN usage[v][d][c] + n ELSE usage[v][d][c]
  BY AddedTables
<1>2. ASSUME NEW v \in Users, NEW d \in 1..Days
      PROVE  line(usage', v, d) = IF v = u /\ d = today THEN row ELSE line(usage, v, d)
  <2>1. /\ usage'[v][d]["tokens"] = IF v = u /\ d = today THEN usage[v][d]["tokens"] + n
                                    ELSE usage[v][d]["tokens"]
        /\ usage'[v][d]["requests"] = usage[v][d]["requests"]
    BY <1>1
  <2> QED
    BY <2>1
<1>3. Account(usage)' = [v \in Users |-> [d \in 1..Days |-> line(usage', v, d)]]
  BY DEF Account
<1>4. Account(usage) = [v \in Users |-> [d \in 1..Days |-> line(usage, v, d)]]
  BY DEF Account
<1>5. [line(usage, u, today) EXCEPT !.tokens = @ + n] = row
  OBVIOUS
<1> HIDE DEF line, row
<1> DEFINE days == [Account(usage)[u] EXCEPT ![today] = row]
<1>6. [Account(usage) EXCEPT ![u][today].tokens = @ + n] = [Account(usage) EXCEPT ![u] = days]
  <2>1. Account(usage)[u][today] = line(usage, u, today)
    BY <1>0, <1>4
  <2> QED
    BY <1>5, <2>1
<1>7. days = [d \in 1..Days |-> line(usage', u, d)]
  <2>1. Account(usage)[u] = [d \in 1..Days |-> line(usage, u, d)]
    BY <1>4
  <2>2. \A d \in 1..Days : line(usage', u, d) = IF d = today THEN row ELSE line(usage, u, d)
    BY <1>2
  <2> QED
    BY <1>0, <2>1, <2>2
<1>8. \A v \in Users \ {u} : [d \in 1..Days |-> line(usage', v, d)] = Account(usage)[v]
  BY <1>2, <1>4
<1> HIDE DEF days
<1>9. [Account(usage) EXCEPT ![u] = days] = [v \in Users |-> [d \in 1..Days |-> line(usage', v, d)]]
  BY <1>4, <1>7, <1>8
<1> QED
  BY <1>3, <1>6, <1>9

LEMMA JobAdded ==
  ASSUME UsageShape, NEW u \in Users, Added(u, "jobs", 1)
  PROVE  Account(usage)' = Account(usage)
<1>1. \A v \in Users, d \in 1..Days, c \in {"jobs", "requests", "tokens"} :
        usage'[v][d][c] = IF v = u /\ d = today /\ c = "jobs"
                          THEN usage[v][d][c] + 1 ELSE usage[v][d][c]
  BY AddedTables
<1>2. \A v \in Users, d \in 1..Days : /\ usage'[v][d]["requests"] = usage[v][d]["requests"]
                                       /\ usage'[v][d]["tokens"] = usage[v][d]["tokens"]
  BY <1>1
<1> QED
  BY <1>2 DEF Account

LEMMA MeterInit == UsageInit => Meter!Init
  BY DEF UsageInit, Meter!Init, Meter!NoCharge, Meter!Closed, Account, NoUsage, Tables,
         Answering, NoProxied

\* The provider answers: a request is counted, and open.
LEMMA AnswerMeters ==
  ASSUME UsageShape, NEW r \in Calls, NEW n \in 0..MaxTokens, Answered(r, n)
  PROVE  Meters
<1>1. PICK q \in ProxyRows : /\ Sane(q) /\ Turns(r, q)
                             /\ q.pc = "answered" /\ q.job = proxied[r].job /\ q.job \in Jobs
  BY AnsweredRow
<1> DEFINE u == Owner[q.job]
           m == q.used.in + q.used.out
<1>2. u \in Users /\ m \in 0..(2 * MaxTokens)
  BY <1>1, UsageOwners, UsageBounds DEF ProxyRows, Amounts
<1>3. Open[r] = Meter!Closed
  BY DEF Answered, Open, Answering, Meter!Closed
<1>4. /\ Open' = [Open EXCEPT ![r] = [user |-> u, used |-> m, whole |-> FALSE]]
      /\ UNCHANGED <<Account(snapshot.usage), today>>
  BY <1>1, OpenMoves DEF Answering
<1>5. Account(usage)' = [Account(usage) EXCEPT ![u][today].requests = @ + 1]
  BY <1>1, <1>2, RequestAdded DEF Answered
<1> HIDE DEF u, m
<1>6. Meter!Answer(r)
  BY <1>2, <1>3, <1>4, <1>5 DEF Meter!Answer, Open
<1> QED
  BY <1>6 DEF Meters, Meter!Next

\* A line of its stream: it has used more, or all it will.
LEMMA LineMeters ==
  ASSUME UsageShape, NEW r \in Calls, Line(r)
  PROVE  Meters
<1> DEFINE o == proxied[r]
<1>1. PICK q \in ProxyRows :
        /\ Sane(q) /\ Turns(r, q)
        /\ o.pc \in {"answered", "streaming"} /\ q.pc \in {"streaming", "ended"}
        /\ q.job = o.job /\ q.used.in = o.used.in /\ q.used.out >= o.used.out
  BY LineRow
<1> DEFINE u == Owner[o.job]
           m == q.used.in + q.used.out
           k == o.used.in + o.used.out
<1>2. u \in Users /\ o.job \in Jobs
  BY <1>1, RowParts, UsageOwners DEF Sane
<1>3. m \in k..(2 * MaxTokens)
  BY <1>1, RowParts, UsageBounds DEF ProxyRows, Amounts
<1>4. Open[r] = [user |-> u, used |-> k, whole |-> FALSE] /\ Open[r] # Meter!Closed
  BY <1>1, <1>2, UsageOwners DEF Open, Answering, Meter!Closed
<1>5. /\ Open' = [Open EXCEPT ![r] = [user |-> u, used |-> m, whole |-> q.pc = "ended"]]
      /\ UNCHANGED <<Account(snapshot.usage), today>>
  BY <1>1, OpenMoves DEF Answering
<1>6. Account(usage)' = Account(usage)
  BY DEF Line
<1> DEFINE last == q.pc = "ended"
<1>7. last \in BOOLEAN
  OBVIOUS
<1> HIDE DEF u, m, k, last
<1>8. Open[r].user = u /\ Open[r].used = k /\ Open[r].whole = FALSE
  BY <1>4
<1>9. Open' = [Open EXCEPT ![r] = [user |-> @.user, used |-> m, whole |-> last]]
  BY <1>5, <1>8 DEF last
<1>10. Meter!Use(r)
  BY <1>3, <1>4, <1>5, <1>6, <1>7, <1>8, <1>9 DEF Meter!Use, Open
<1> QED
  BY <1>10 DEF Meters, Meter!Next

\* Its end: what was seen is charged, which is all if the stream was whole.
LEMMA RecordMeters ==
  ASSUME UsageShape, NEW r \in Calls, Record(r)
  PROVE  Meters
<1> DEFINE o == proxied[r]
           u == Owner[o.job]
           n == o.seen.in + o.seen.out
           k == o.used.in + o.used.out
<1>1. u \in Users /\ o.job \in Jobs /\ o.pc \in {"answered", "streaming", "ended"}
  BY RowParts, UsageOwners DEF Sane, Record
<1>2. n \in 0..k /\ n \in Nat /\ (o.pc = "ended" => n = k)
  BY RowParts, UsageBounds DEF Sane
<1>3. Open[r] = [user |-> u, used |-> k, whole |-> o.pc = "ended"] /\ Open[r] # Meter!Closed
  BY <1>1, UsageOwners DEF Open, Answering, Meter!Closed
<1>4. /\ Open' = [Open EXCEPT ![r] = Meter!Closed]
      /\ UNCHANGED <<Account(snapshot.usage), today>>
  BY ZeroRow, OpenMoves DEF Record, Answering, NoProxied, Meter!Closed
<1>5. Account(usage)' = [Account(usage) EXCEPT ![u][today].tokens = @ + n]
  BY <1>1, <1>2, TokensAdded DEF Record
<1> DEFINE whole == o.pc = "ended"
<1> HIDE DEF u, n, k, whole
<1>6. Open[r].user = u /\ Open[r].used = k /\ (Open[r].whole => n = k)
  <2>1. Open[r] = [user |-> u, used |-> k, whole |-> whole] /\ (whole => n = k)
    BY <1>2, <1>3 DEF whole
  <2> QED
    BY <2>1
<1>7. Meter!Charge(r)
  BY <1>2, <1>3, <1>4, <1>5, <1>6 DEF Meter!Charge, Open
<1> QED
  BY <1>7 DEF Meters, Meter!Next

\* A request that the provider does not answer.
LEMMA UnansweredMeters ==
  ASSUME UsageShape, NEW r \in Calls, (\E j \in Jobs : Authorize(r, j)) \/ Refuse(r)
  PROVE  Meters
<1>1. PICK q \in ProxyRows : Turns(r, q) /\ q.pc \in {"idle", "sent"}
  BY ZeroRow, AuthorizeRow DEF Refuse, NoProxied
<1>2. proxied[r].pc \in {"idle", "sent"}
  <2>1. NoProxied.pc = "idle"
    BY DEF NoProxied
  <2> QED
    BY <2>1 DEF Authorize, Refuse
<1>3. Open' = [Open EXCEPT ![r] = Answering(q)] /\ UNCHANGED <<Account(snapshot.usage), today>>
  BY <1>1, OpenMoves
<1>4. Answering(q) = Open[r]
  BY <1>1, <1>2 DEF Open, Answering
<1>5. Open' = Open
  BY <1>3, <1>4 DEF Open
<1>6. Account(usage)' = Account(usage)
  BY DEF Authorize, Refuse
<1> QED
  BY <1>3, <1>5, <1>6 DEF Meters, Same

LEMMA RestoreMeters ==
  ASSUME UsageShape, NEW u \in Users, RestoreUser(u)
  PROVE  Meters
<1>1. Open = [r \in Calls |-> Meter!Closed] /\ UNCHANGED <<Open, Account(snapshot.usage), today>>
  BY DEF RestoreUser, UsageShape, Open, Answering, Meter!Closed
<1>2. usage'[u] = snapshot.usage[u] /\ \A v \in Users \ {u} : usage'[v] = usage[v]
  BY RestoreRows
<1>3. Account(usage)' = [Account(usage) EXCEPT ![u] = Account(snapshot.usage)[u]]
  BY <1>2 DEF Account
<1>4. Meter!Restore(u)
  BY <1>1, <1>3 DEF Meter!Restore, Open
<1> QED
  BY <1>4 DEF Meters, Meter!Next

LEMMA OtherMeters ==
  ASSUME UsageShape,
         \/ JobMoves \/ \E u \in Users, n \in JobLimits : UpdateQuota(u, n)
         \/ NewDay \/ WebStops \/ WebStarts \/ TakeSnapshot
         \/ UNCHANGED usageVars
  PROVE  Meters
<1>1. CASE NewDay
  BY <1>1 DEF NewDay, Meters, Meter!Next, Meter!Midnight
<1>2. CASE WebStops
  <2>1. Open' = [r \in Calls |-> Meter!Closed]
    BY <1>2 DEF WebStops, Open, Answering, NoProxied, Meter!Closed
  <2>2. Meter!Forget
    BY <1>2, <2>1 DEF WebStops, Meter!Forget, Open
  <2> QED
    BY <2>2 DEF Meters, Meter!Next
<1>3. CASE TakeSnapshot
  <2>1. Account(snapshot.usage)' = Account(usage)
    BY <1>3 DEF TakeSnapshot, Tables
  <2>2. Meter!Backup
    BY <1>3, <2>1 DEF TakeSnapshot, Meter!Backup
  <2> QED
    BY <2>2 DEF Meters, Meter!Next
<1>4. CASE \/ JobMoves \/ \E u \in Users, n \in JobLimits : UpdateQuota(u, n)
           \/ WebStarts \/ UNCHANGED usageVars
  BY <1>4 DEF JobMoves, UpdateQuota, WebStarts, usageVars, Meters, Same, Open
<1> QED
  BY <1>1, <1>2, <1>3, <1>4

LEMMA CreateMeters ==
  ASSUME UsageShape, NEW j \in Jobs, CreateJob(j)
  PROVE  Meters
<1>1. Account(usage)' = Account(usage)
  BY UsageOwners, JobAdded DEF CreateJob
<1> QED
  BY <1>1 DEF CreateJob, Meters, Same, Open

\* daily_usage charges as Metering says, for any number of users, jobs, requests
\* and days: through stops, midnight, crashes and restores.
THEOREM MeteringImplemented == UsageSpec => ImplementsMetering
<1>1. UsageInit => UsageShape /\ RestoredIsIdle
  BY ShapeInit DEF UsageInit, Life!Init, RestoredIsIdle, Life!Idle
<1>2. UsageShape /\ [UsageNext]_usageVars => Meters
  <2> SUFFICES ASSUME UsageShape, [UsageNext]_usageVars PROVE Meters
    OBVIOUS
  <2> QED
    BY CreateMeters, AnswerMeters, LineMeters, RecordMeters, UnansweredMeters, RestoreMeters,
       OtherMeters DEF UsageNext
<1>3. Meters => [Meter!Next]_(Meter!vars)
  BY DEF Meters, Same, Meter!vars, Open
<1> QED
  BY <1>1, <1>2, <1>3, MeterInit, UsageStep, PTL
     DEF UsageSpec, ImplementsMetering, Meter!Spec
=============================================================================
