----------------------------- MODULE ResumeLint -----------------------------
(***************************************************************************)
(* resume_lint.py's pass over a resume: one line at a time, with the       *)
(* bullets of the current entry, the run of blank lines and the styles of  *)
(* dates in memory.  Its findings are compared with what each rule says of *)
(* the whole file.  A line is what the patterns make of it.                *)
(***************************************************************************)
EXTENDS Naturals, Sequences, FiniteSets

CONSTANTS MaxLines,    \* bound: lines of a file
          MaxBullets,  \* --max-bullets
          Styles       \* styles of dates

ASSUME LintBounds == MaxLines \in Nat /\ MaxBullets \in Nat
ASSUME StylesFinite == IsFiniteSet(Styles)

VARIABLES
    file,      \* the lines read so far
    entry,     \* the line of the current entry header, 0 for none, and the
               \* bullets counted since
    styles,    \* date_styles_seen
    blanks,    \* blank_run
    findings,  \* pairs of line and what is wrong there
    ending     \* "ahead" while lines are read, then how the file ends
lintVars == <<file, entry, styles, blanks, findings, ending>>

\* A line's kind; for a bullet whether its glyph is bad and whether it is too
\* long and not exempt; for an entry header the styles that its date slot
\* matches, which can be several ("Mar 2022 - Present"); for any line whether it
\* ends in spaces.
LineOf(kind, glyph, long, style, trail) ==
    [kind |-> kind, glyph |-> glyph, long |-> long, style |-> style, trail |-> trail]
Plain == {LineOf(k, FALSE, FALSE, {}, t) : k \in {"blank", "title", "text"}, t \in BOOLEAN}
Bullets == {LineOf("bullet", g, l, {}, t) : g, l, t \in BOOLEAN}
Entries == {LineOf("entry", FALSE, FALSE, s, t) : s \in SUBSET Styles, t \in BOOLEAN}
Lines == Plain \cup Bullets \cup Entries

LintInit ==
    /\ file = <<>>
    /\ entry = [line |-> 0, bullets |-> 0]
    /\ styles = {}
    /\ blanks = 0
    /\ findings = {}
    /\ ending = "ahead"

\* flush_entry, and where the next entry begins.
Flushed == IF entry.line # 0 /\ entry.bullets > MaxBullets
           THEN {<<entry.line, "bullets/role">>} ELSE {}
EntryAfter_Kept(line, i) ==  \* mutant: a section title does not end the entry
    IF line.kind = "entry" THEN [line |-> i, bullets |-> 0]
    ELSE IF line.kind = "bullet" THEN [entry EXCEPT !.bullets = @ + 1] ELSE entry
EntryAfter(line, i) ==
    CASE line.kind = "title" -> [line |-> 0, bullets |-> 0]
      [] line.kind = "entry" -> [line |-> i, bullets |-> 0]
      [] line.kind = "bullet" -> [entry EXCEPT !.bullets = @ + 1]
      [] OTHER -> entry

\* One line of the loop.
ReadLine(line) ==
    LET i == Len(file) + 1
        finds(rule, here) == IF here THEN {<<i, rule>>} ELSE {} IN
    /\ ending = "ahead" /\ Len(file) < MaxLines
    /\ file' = Append(file, line)
    /\ blanks' = IF line.kind = "blank" THEN blanks + 1 ELSE 0
    /\ entry' = EntryAfter(line, i)
    /\ styles' = styles \cup line.style
    /\ findings' = findings
         \cup finds("trailing-whitespace", line.trail)
         \cup finds("blank-lines", blanks' = 2)
         \cup finds("bullet-glyph", line.glyph)
         \cup finds("bullet-length", line.long)
         \cup (IF line.kind \in {"title", "entry"} THEN Flushed ELSE {})
    /\ UNCHANGED ending

\* A line that is the empty string.
Empty(line) == line.kind = "blank" /\ ~line.trail

\* What is found at the file's end: a newline or, if it is cut, none.
AtEnd(end) ==
    IF end = "cut" THEN {<<Len(file), "no-final-newline">>}
    ELSE IF Len(file) > 1 /\ Empty(file[Len(file)])
         THEN {<<Len(file), "blank-lines-at-end">>}
    ELSE {}

\* The end of the file: the last entry, the styles, the final newline.  A line
\* that is empty is there by its newline only.
EndOfFile(end) ==
    /\ ending = "ahead"
    /\ end = "cut" => file # <<>> /\ ~Empty(file[Len(file)])
    /\ ending' = end
    /\ findings' = findings \cup Flushed \cup AtEnd(end)
         \cup (IF Cardinality(styles) > 1 THEN {<<0, "date-format">>} ELSE {})
    /\ UNCHANGED <<file, entry, styles, blanks>>

LintNext ==
    \/ \E line \in Lines : ReadLine(line)
    \/ \E end \in {"newline", "cut"} : EndOfFile(end)
LintSpec == LintInit /\ [][LintNext]_lintVars
-----------------------------------------------------------------------------
(* Properties.                                                             *)

Kind(i) == file[i].kind
\* The bullets below the entry header in line i, up to the next header or title.
Under(i) == {k \in DOMAIN file : Kind(k) = "bullet" /\ i < k
               /\ \A h \in i + 1..k : Kind(h) \notin {"entry", "title"}}

\* The styles of dates in the headers.
Dated == UNION {file[i].style : i \in DOMAIN file}

\* The findings are those of the rules in resume_lint.py's docstring, for every
\* file: a heading with too many bullets below it wherever the next one comes,
\* one finding per run of blank lines, two styles of dates in any headers (one
\* header is enough), spaces at the end of any line, and a file that does not
\* end with one newline.
FindingsAreRight == ending # "ahead" => findings =
    {<<i, "bullets/role">> : i \in {e \in DOMAIN file :
        Kind(e) = "entry" /\ Cardinality(Under(e)) > MaxBullets}}
    \cup {<<i, "blank-lines">> : i \in {b \in 2..Len(file) :
        /\ Kind(b) = "blank" /\ Kind(b - 1) = "blank"
        /\ b > 2 => Kind(b - 2) # "blank"}}
    \cup {<<i, "bullet-glyph">> : i \in {b \in DOMAIN file : file[b].glyph}}
    \cup {<<i, "bullet-length">> : i \in {b \in DOMAIN file : file[b].long}}
    \cup {<<i, "trailing-whitespace">> : i \in {b \in DOMAIN file : file[b].trail}}
    \cup {<<0, "date-format">> : p \in {q \in Dated \X Dated : q[1] # q[2]}}
    \cup {<<i, "no-final-newline">> : i \in {n \in DOMAIN file :
        n = Len(file) /\ ending = "cut"}}
    \cup {<<i, "blank-lines-at-end">> : i \in {n \in 2..Len(file) :
        n = Len(file) /\ Kind(n) = "blank" /\ ~file[n].trail}}
=============================================================================
