----------------------------- MODULE LineEditor -----------------------------
(***************************************************************************)
(* The line editor of the shell (src/shell/task.rs): a fixed array, the    *)
(* length of the text in it and the cursor.  Indices count from 0 as in    *)
(* the code.  What the array holds from len on is left over from earlier   *)
(* lines.  The terminal output is left out.                                *)
(*                                                                         *)
(* A byte of the UART is an action.  An arrow key is an escape byte and    *)
(* two more, which are read together with whatever has arrived: when only  *)
(* one has, it is dropped, and the other one is read later as a character. *)
(***************************************************************************)
EXTENDS Integers, Sequences

CONSTANTS Chars,          \* the printable characters
          CMD_BUF_SIZE

\* The initial content of the array.
NUL == "NUL"

ASSUME BufferAssumption == CMD_BUF_SIZE \in Nat \ {0}
ASSUME CharAssumption == NUL \notin Chars

VARIABLES buf, len, pos,
          escape,         \* an escape byte has been read, two more are awaited
          parsed          \* the last line handed to parse_cmd

editor_vars == <<buf, len, pos, escape, parsed>>

Cells == 0..(CMD_BUF_SIZE - 1)

\* The cells from i on, up to but without j, as a sequence.
Cut(i, j) == [k \in 1..(j - i) |-> buf[i + k - 1]]

EditorTypeOK ==
  /\ buf \in [Cells -> Chars \cup {NUL}]
  /\ len \in 0..CMD_BUF_SIZE
  /\ pos \in 0..len
  /\ escape \in BOOLEAN
  /\ parsed \in Seq(Chars)
  /\ Cut(0, len) \in Seq(Chars)

EditorInit ==
  /\ buf = [i \in Cells |-> NUL]
  /\ len = 0
  /\ pos = 0
  /\ escape = FALSE
  /\ parsed = <<>>

\* Enter: an empty line is not parsed.
Return ==
  /\ ~escape
  /\ len > 0
  /\ parsed' = Cut(0, len)
  /\ len' = 0
  /\ pos' = 0
  /\ UNCHANGED <<buf, escape>>

\* Backspace or DEL: what follows the cursor moves left by one.
Backspace ==
  /\ ~escape
  /\ pos > 0
  /\ pos' = pos - 1
  /\ len' = len - 1
  /\ buf' = [i \in Cells |-> IF pos - 1 <= i /\ i < len - 1 THEN buf[i + 1] ELSE buf[i]]
  /\ UNCHANGED <<escape, parsed>>

\* Fault: the cells are moved from left to right, each onto the next.
CharacterSmeared(c) ==
  /\ ~escape
  /\ len < CMD_BUF_SIZE
  /\ len' = len + 1
  /\ pos' = pos + 1
  /\ buf' = [i \in Cells |-> IF i = pos THEN c
                             ELSE IF pos < i /\ i <= len THEN buf[pos] ELSE buf[i]]
  /\ UNCHANGED <<escape, parsed>>

\* A character is inserted at the cursor; into a full line it is not.
Character(c) ==
  /\ ~escape
  /\ len < CMD_BUF_SIZE
  /\ len' = len + 1
  /\ pos' = pos + 1
  /\ buf' = [i \in Cells |-> IF i = pos THEN c
                             ELSE IF pos < i /\ i <= len THEN buf[i - 1] ELSE buf[i]]
  /\ UNCHANGED <<escape, parsed>>

Escape ==
  /\ ~escape
  /\ escape' = TRUE
  /\ UNCHANGED <<buf, len, pos, parsed>>

\* Both bytes of an arrow key have arrived.
LeftArrow ==
  /\ escape
  /\ escape' = FALSE
  /\ pos' = IF pos > 0 THEN pos - 1 ELSE pos
  /\ UNCHANGED <<buf, len, parsed>>

RightArrow ==
  /\ escape
  /\ escape' = FALSE
  /\ pos' = IF pos < len THEN pos + 1 ELSE pos
  /\ UNCHANGED <<buf, len, parsed>>

\* A single byte, no byte because of an error, or another sequence.
OtherSequence ==
  /\ escape
  /\ escape' = FALSE
  /\ UNCHANGED <<buf, len, pos, parsed>>

EditorNext ==
  \/ Return \/ Backspace \/ Escape \/ LeftArrow \/ RightArrow \/ OtherSequence
  \/ \E c \in Chars : Character(c)

EditorSpec == EditorInit /\ [][EditorNext]_editor_vars

-----------------------------------------------------------------------------
(***************************************************************************)
(* The array and its two counters are a text with a cursor: no sequence of *)
(* insertions in the middle, deletions and reused cells loses, doubles or  *)
(* moves a character, and the line that is parsed is that text.            *)
(***************************************************************************)
Text == INSTANCE TextLine WITH
  Size <- CMD_BUF_SIZE,
  left <- Cut(0, pos),
  right <- Cut(pos, len),
  entered <- parsed

ImplementsText == Text!Spec

=============================================================================
