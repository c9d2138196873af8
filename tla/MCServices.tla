----------------------------- MODULE MCServices -----------------------------
(* Six components that share no state, checked in one run: in every        *)
(* behaviour one of them, `part`, moves.                                   *)
EXTENDS Accounts, Usage, StreamParser, ResumeLint, LiveView, SqliteWriter

CONSTANTS u1, u2

VARIABLE part

OneOwner == [j \in Jobs |-> u1]

servicesVars == <<part, accountVars, usageVars, parserVars, lintVars,
                  liveVars, writerVars>>

ServicesInit ==
    /\ part \in {"accounts", "usage", "parser", "lint", "live", "writer"}
    /\ AccountsInit /\ (part = "accounts" \/ role = "user")
    /\ UsageInit
    /\ ParserInit
    /\ LintInit
    /\ LiveInit /\ (part = "live" \/ tool = "dashboard")
    /\ WriterInit

Accounting == part = "accounts" /\ AccountsNext
    /\ UNCHANGED <<part, usageVars, parserVars, lintVars, liveVars, writerVars>>
Using == part = "usage" /\ UsageNext
    /\ UNCHANGED <<part, accountVars, parserVars, lintVars, liveVars, writerVars>>
Parsing == part = "parser" /\ ParserNext
    /\ UNCHANGED <<part, accountVars, usageVars, lintVars, liveVars, writerVars>>
Linting == part = "lint" /\ LintNext
    /\ UNCHANGED <<part, accountVars, usageVars, parserVars, liveVars, writerVars>>
Viewing == part = "live" /\ LiveNext
    /\ UNCHANGED <<part, accountVars, usageVars, parserVars, lintVars, writerVars>>
Writing == part = "writer" /\ WriterNext
    /\ UNCHANGED <<part, accountVars, usageVars, parserVars, lintVars, liveVars>>

ServicesNext == Accounting \/ Using \/ Parsing \/ Linting \/ Viewing \/ Writing

ServicesSpec == /\ ServicesInit /\ [][ServicesNext]_servicesVars
                /\ LiveFairness /\ WriterFairness
=============================================================================
