------------------------------ MODULE LiveView ------------------------------
(***************************************************************************)
(* The two live previews: `build_dashboard.py --serve` and                 *)
(* `build_resumes.py --watch`.  A browser tab shows a page built from a    *)
(* data file; a script in the page asks again and again for the version of *)
(* the data and reloads the tab when it is not the page's own.             *)
(*                                                                         *)
(* The dashboard's server reads the data for every request, and then takes *)
(* the stamp the page carries.  The resume watcher takes the stamp, reads  *)
(* the data and writes an HTML file (emptied first, then filled) that a    *)
(* plain file server of the same process sends.  An editor saves at any    *)
(* moment; what it saves may be one that build refuses (a [VERIFY] tag), or *)
(* one it breaks on: a bold that is not closed yet, half of a character    *)
(* (a file half written); or the file may be gone for a while.             *)
(*                                                                         *)
(* Every save has a later modification time than the last one, so a        *)
(* version of the file is its stamp.                                       *)
(***************************************************************************)
EXTENDS Naturals

CONSTANT MaxSaves   \* bound: versions of the data

ASSUME LiveBounds == MaxSaves \in Nat \ {0}

VARIABLES
    tool,     \* which of the two programs runs
    data,     \* the data file: its version, and what is in it
    builder,  \* watch's loop: its step, `last`, and the version it has read
    html,     \* the file watch writes: version, id, and whether it is empty
    tab       \* the browser's tab: the page's version and id, whether it has
              \* the script, and whether it is being loaded
liveVars == <<tool, data, builder, html, tab>>

Readable == data.there /\ data.text = "fine"
Ended == builder.pc = "ended"   \* watch has ended
Stamp == IF data.there THEN data.n ELSE 0

LiveInit ==
    /\ tool \in {"dashboard", "resumes"}
    /\ data = [n |-> 1, text |-> "fine", there |-> TRUE]
    /\ builder = [pc |-> "sleep", last |-> 1, n |-> 1]
    /\ html = [n |-> 1, id |-> 1, whole |-> TRUE]
    /\ tab = [n |-> 1, id |-> 1, script |-> TRUE, pc |-> "shown"]

Save ==
    /\ data.n < MaxSaves
    /\ \E text \in {"fine", "refused", "broken"}, there \in BOOLEAN :
         data' = [n |-> data.n + 1, text |-> text, there |-> there]
    /\ UNCHANGED <<tool, builder, html, tab>>

-----------------------------------------------------------------------------
(* build_resumes.py --watch: stamp, rebuild, build.                        *)

\* The loop: a stamp that is not the last one is remembered before the rebuild.
WatchLook ==
    /\ builder.pc = "sleep"
    /\ data.there /\ Stamp # builder.last
    /\ builder' = [builder EXCEPT !.pc = "read", !.last = Stamp]

\* build reads and renders the file.  rebuild catches BuildError and
\* FileNotFoundError and is over; any other exception (the AttributeError of
\* h3_line and skill_li, a UnicodeDecodeError) ends the loop and the program.
WatchRead ==
    /\ builder.pc = "read"
    /\ builder' =
         IF Readable THEN [builder EXCEPT !.pc = "empty", !.n = data.n]
         ELSE [builder EXCEPT !.pc =
                  IF data.there /\ data.text = "broken" THEN "ended" ELSE "sleep"]

\* out.write_text: the file is emptied, then written.
WatchEmpty ==
    /\ builder.pc = "empty"
    /\ html' = [html EXCEPT !.whole = FALSE]
    /\ builder' = [builder EXCEPT !.pc = "write"]
WatchWrite_Late ==  \* mutant: the page carries the stamp of the time it is written
    /\ builder.pc = "write"
    /\ html' = [n |-> builder.n, id |-> Stamp, whole |-> TRUE]
    /\ builder' = [builder EXCEPT !.pc = "sleep", !.last = Stamp]
WatchWrite ==
    /\ builder.pc = "write"
    /\ html' = [n |-> builder.n, id |-> builder.last, whole |-> TRUE]
    /\ builder' = [builder EXCEPT !.pc = "sleep"]

Watch ==
    /\ tool = "resumes"
    /\ \/ (WatchLook \/ WatchRead) /\ UNCHANGED html
       \/ WatchEmpty
       \/ WatchWrite
    /\ UNCHANGED <<tool, data, tab>>

\* The page's script fetches the page and compares its id with its own; an empty
\* page says nothing.
WatchPoll ==
    /\ tool = "resumes" /\ ~Ended
    /\ tab.pc = "shown" /\ tab.script
    /\ html.whole /\ html.id # tab.id
    /\ tab' = [tab EXCEPT !.pc = "loading"]

\* The tab loads what the file has: an empty page has no script, and neither has
\* the browser's own page when the program has ended, its file server with it.
WatchLoad ==
    /\ tool = "resumes"
    /\ tab.pc = "loading"
    /\ tab' = [n |-> html.n, id |-> html.id, pc |-> "shown",
               script |-> html.whole /\ ~Ended]

-----------------------------------------------------------------------------
(* build_dashboard.py --serve: data_stamp, render_current, do_GET.         *)

ServePoll ==
    /\ tool = "dashboard"
    /\ tab.pc = "shown" /\ tab.script
    /\ Stamp # tab.id
    /\ tab' = [tab EXCEPT !.pc = "loading"]

\* do_GET: the data are read; on an exception the page is its message, without
\* the script.
ServeRead ==
    /\ tool = "dashboard"
    /\ tab.pc = "loading"
    /\ tab' = IF Readable THEN [tab EXCEPT !.pc = "render", !.n = data.n]
              ELSE [tab EXCEPT !.pc = "shown", !.script = FALSE]

\* render: the id is the stamp of now.
ServeRender ==
    /\ tool = "dashboard"
    /\ tab.pc = "render"
    /\ tab' = [tab EXCEPT !.pc = "shown", !.id = Stamp]

Tab ==
    /\ WatchPoll \/ WatchLoad \/ ServePoll \/ ServeRead \/ ServeRender
    /\ UNCHANGED <<tool, data, builder, html>>

LiveNext == Save \/ Watch \/ Tab

(***************************************************************************)
(* Fairness.  The loop wakes every 400 ms, the scripts' timers fire every  *)
(* 700 and 1200 ms, and both servers answer.                               *)
(***************************************************************************)
LiveFairness == WF_liveVars(Watch) /\ WF_liveVars(Tab)
LiveSpec == LiveInit /\ [][LiveNext]_liveVars /\ LiveFairness
-----------------------------------------------------------------------------
(* Properties.                                                             *)

\* When the saving is over, the tab comes to show the last version, if that can
\* be rendered, however saves, rebuilds, polls and reloads interleave: a build
\* that is refused, or finds no file, does not hide the next one.  Three cases
\* excepted, in which the tab stays as it is for good: it was loaded without the
\* script (an error page, a file caught empty), it is a dashboard that was
\* changed between the reading of the data and the stamp, or a build broke and
\* the watch is over.
Raced == tool = "dashboard" /\ tab.pc = "shown" /\ tab.id > tab.n
PageFollows ==
    <>[](Readable /\ tab.script /\ ~Raced /\ ~Ended => tab.n = data.n)
=============================================================================
