---------------------------- MODULE StreamParser ----------------------------
(***************************************************************************)
(* Claude Code's output on its way to the page: ClaudeStreamParser and     *)
(* parse_stream_line (webapp/stream_parser.py).                            *)
(*                                                                         *)
(* Claude Code writes a message as one assistant line with its blocks, or, *)
(* when it streams, first as stream_event lines (a text in pieces, the     *)
(* start of a tool) and then as the same assistant line.  The parser must  *)
(* show each text once.  It remembers one bit.  Between the lines of a     *)
(* message others may come: system, thinking deltas, what is not JSON.     *)
(*                                                                         *)
(* A piece of text and a use of a tool are known by their numbers.         *)
(***************************************************************************)
EXTENDS Naturals, Sequences, FiniteSets

CONSTANTS MaxPieces,  \* bound: pieces of text in the whole output
          MaxTools    \* bound: uses of tools in the whole output

ASSUME StreamBounds == MaxPieces \in Nat /\ MaxTools \in Nat

VARIABLES
    message,   \* what of the current message has been written: whether it is
               \* streamed, its blocks, and those of them that are not text
    written,   \* the pieces and tools Claude Code has produced so far
    saw,       \* _saw_partial_text
    shown      \* the text_delta and tool events, in order
parserVars == <<message, written, saw, shown>>

NoMessage == [streamed |-> FALSE, blocks |-> <<>>, tools |-> <<>>]
Text(n) == [kind |-> "text", n |-> n]
Tool(n) == [kind |-> "tool", n |-> n]
Blocks == {Text(n) : n \in 1..MaxPieces} \cup {Tool(n) : n \in 1..MaxTools}

ParserInit ==
    /\ message = NoMessage
    /\ written = [text |-> 0, tool |-> 0]
    /\ saw = FALSE
    /\ shown = <<>>

\* The next block Claude Code has: the next piece of text or use of a tool.
Produces(block, streamed) ==
    /\ block \in {Text(written.text + 1), Tool(written.tool + 1)} \cap Blocks
    /\ written' = [written EXCEPT ![block.kind] = @ + 1]
    /\ message' = [streamed |-> streamed,
                   blocks |-> Append(message.blocks, block),
                   tools |-> IF block.kind = "text" THEN message.tools
                             ELSE Append(message.tools, block)]

\* feed, a stream_event line: a text delta sets the bit; both are shown.
Delta(block) == block.kind = "text"
StreamEvent(block) ==
    /\ message = NoMessage \/ message.streamed
    /\ Produces(block, TRUE)
    /\ saw' = (saw \/ Delta(block))
    /\ shown' = Append(shown, block)

\* A block of a message that is not streamed; nothing is written yet.
Collect(block) ==
    /\ ~message.streamed
    /\ Produces(block, FALSE)
    /\ UNCHANGED <<saw, shown>>

\* feed, the assistant line with all blocks of the message: after a text delta
\* its texts are not shown again.  (_assistant_blocks never yields thinking.)
Visible == IF saw THEN message.tools ELSE message.blocks
Assistant_Sticky ==  \* mutant: the bit is not reset
    /\ message # NoMessage
    /\ shown' = shown \o Visible
    /\ message' = NoMessage
    /\ UNCHANGED <<saw, written>>
Assistant ==
    /\ message # NoMessage
    /\ shown' = shown \o Visible
    /\ saw' = FALSE
    /\ message' = NoMessage
    /\ UNCHANGED written

ParserNext ==
    \/ \E block \in Blocks : StreamEvent(block) \/ Collect(block)
    \/ Assistant

ParserSpec == ParserInit /\ [][ParserNext]_parserVars
-----------------------------------------------------------------------------
(* Properties.                                                             *)

\* Whatever messages are streamed and in whatever pieces, between two messages
\* the page has every text Claude Code wrote, once and in order (feed).
TextShownOnce ==
    message = NoMessage =>
        LET texts == {i \in DOMAIN shown : shown[i].kind = "text"}
        IN  /\ {shown[i].n : i \in texts} = 1..written.text
            /\ \A i, k \in texts : i < k => shown[i].n < shown[k].n
=============================================================================
