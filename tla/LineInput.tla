----------------------------- MODULE LineInput -----------------------------
(***************************************************************************)
(* PromptInput, as ClientLoop calls it: the line being typed, while        *)
(* another thread may stop the client at any moment.                       *)
(*                                                                         *)
(* wget_wch returns a code, and KEY_CODE_YES beside it if the code is that *)
(* of a function key: KEY_BACKSPACE and the letter with the code point 263 *)
(* differ in nothing else.                                                 *)
(***************************************************************************)
EXTENDS Integers, Sequences, SequencesExt

CONSTANTS
    Strokes,    \* what the user may strike: records with key and code
    ExitLine,   \* the code points of /exit
    MaxStrokes  \* bound: strokes

Key(c)  == [key |-> TRUE, code |-> c]
Char(c) == [key |-> FALSE, code |-> c]

\* The codes PromptInput compares with: ASCII, and those of ncurses.h.
Backspace == 8
Newline   == 10
Delete    == 127
KEY_DOWN      == 258
KEY_UP        == 259
KEY_LEFT      == 260
KEY_RIGHT     == 261
KEY_HOME      == 262
KEY_BACKSPACE == 263
KEY_DC        == 330
KEY_END       == 360
KEY_RESIZE    == 410

\* The keys and characters the switch has a case for.
CaseLabels == {KEY_BACKSPACE, Delete, Backspace, KEY_LEFT, KEY_RIGHT, KEY_UP, KEY_DOWN,
               KEY_DC, KEY_HOME, KEY_END}

\* iswprint() of a code point, in a UTF-8 locale.
iswprint(c) == c \in 32 .. 126 \/ c > 159

\* The keys have the codes above KEY_MIN.
ASSUME InputAssumption ==
    /\ \A s \in Strokes : s \in [key : BOOLEAN, code : Nat] /\ (s.key => s.code > 256)
    /\ MaxStrokes \in Nat

VARIABLES
    input, cursorPos,  \* PromptInput's line, and where the cursor is
    stroke,            \* the last stroke
    strokes,           \* how many there were
    returned,          \* what PromptInput returned
    running,           \* NcursesUI::running
    pc                 \* where ClientLoop is

vars == <<input, cursorPos, stroke, strokes, returned, running, pc>>

Init ==
    /\ input = <<>> /\ cursorPos = 0
    /\ stroke = Char(Newline) /\ strokes = 0 /\ returned = <<>>
    /\ running = TRUE /\ pc = "while"
-----------------------------------------------------------------------------
(* PromptInput.                                                            *)

Edit(text, cursor) == input' = text /\ cursorPos' = cursor

\* Mutants: the arrow keys have no case, and Backspace forgets the cursor.
SwitchInsertsArrows(c) ==
    IF c \in {KEY_UP, KEY_DOWN} \cup 32 .. 126
    THEN Edit(InsertAt(input, cursorPos + 1, c), cursorPos + 1)
    ELSE Edit(input, cursorPos)
SwitchKeepsCursor(c) ==
    IF c = Delete /\ cursorPos > 0 THEN Edit(RemoveAt(input, cursorPos), cursorPos)
    ELSE IF c \in 32 .. 126 THEN Edit(InsertAt(input, cursorPos + 1, c), cursorPos + 1)
    ELSE Edit(input, cursorPos)

\* The switch over the code, which does not look at KEY_CODE_YES.
Switch(c) ==
    CASE c \in {KEY_BACKSPACE, Delete, Backspace} /\ cursorPos > 0 ->
            Edit(RemoveAt(input, cursorPos), cursorPos - 1)
      [] c = KEY_LEFT /\ cursorPos > 0          -> Edit(input, cursorPos - 1)
      [] c = KEY_RIGHT /\ cursorPos < Len(input) -> Edit(input, cursorPos + 1)
      [] c = KEY_DC /\ cursorPos < Len(input)    -> Edit(RemoveAt(input, cursorPos + 1), cursorPos)
      [] c = KEY_HOME -> Edit(input, 0)
      [] c = KEY_END  -> Edit(input, Len(input))
      [] c \notin CaseLabels /\ iswprint(c) ->
            Edit(InsertAt(input, cursorPos + 1, c), cursorPos + 1)
      [] OTHER -> Edit(input, cursorPos)

\* The text goes to ClientLoop, which goes on for an empty line, sends any
\* other, and stops for /exit.
ReturnInput ==
    /\ returned' = Append(returned, input)
    /\ input' = <<>> /\ cursorPos' = 0
    /\ pc' = IF input = ExitLine THEN "stop" ELSE "while"

\* The while loop: a stroke that arrives after the test of running still counts.
TestRunning ==
    /\ pc = "test"
    /\ IF running THEN pc' = "getch" /\ UNCHANGED <<input, cursorPos, returned>>
                  ELSE ReturnInput
    /\ UNCHANGED <<stroke, strokes, running>>

\* wget_wch returns ERR.
NoStroke ==
    /\ pc = "getch" /\ pc' = "test"
    /\ UNCHANGED <<input, cursorPos, stroke, strokes, returned, running>>

GetStroke ==
    /\ pc = "getch" /\ strokes < MaxStrokes
    /\ strokes' = strokes + 1
    /\ stroke' \in Strokes
    /\ IF stroke'.code = Newline THEN ReturnInput
       ELSE Switch(stroke'.code) /\ pc' = "test" /\ UNCHANGED returned
    /\ UNCHANGED running

\* The loop of ClientLoop; PromptInput returns nothing without running.
CallPrompt ==
    /\ pc = "while"
    /\ pc' = IF running THEN "test" ELSE "stop"
    /\ UNCHANGED <<input, cursorPos, stroke, strokes, returned, running>>

\* Stop on another thread.
StopElsewhere ==
    /\ running' = FALSE
    /\ UNCHANGED <<input, cursorPos, stroke, strokes, returned, pc>>

Next == CallPrompt \/ TestRunning \/ NoStroke \/ GetStroke \/ StopElsewhere

Spec == Init /\ [][Next]_vars
-----------------------------------------------------------------------------
(* Properties.                                                             *)

TypeOK ==
    /\ input \in Seq(Nat) /\ cursorPos \in 0 .. Len(input)
    /\ stroke \in Strokes \cup {Char(Newline)} /\ strokes \in Nat
    /\ returned \in Seq(Seq(Nat))
    /\ running \in BOOLEAN
    /\ pc \in {"while", "test", "getch", "stop"}

\* What each stroke means to the user.
Meaning(s) ==
    CASE s = Key(KEY_BACKSPACE) \/ s \in {Char(Delete), Char(Backspace)} -> "erase"
      [] s = Key(KEY_LEFT)  -> "left"
      [] s = Key(KEY_RIGHT) -> "right"
      [] s = Key(KEY_DC)    -> "delete"
      [] s = Key(KEY_HOME)  -> "home"
      [] s = Key(KEY_END)   -> "end"
      [] s = Char(Newline)  -> "enter"
      [] ~s.key /\ iswprint(s.code) -> "insert"
      [] OTHER -> "nothing"

\* What it may be taken for: a letter for the key with its code, and a key
\* that the switch does not name for the letter with its code.
TakenFor(s) ==
    IF s.code > 256 /\ (s.code \in CaseLabels) # s.key
    THEN {Key(s.code), Char(s.code)} ELSE {s}

Editor ==
    INSTANCE LineEdit WITH
        before <- SubSeq(input, 1, cursorPos),
        after <- SubSeq(input, cursorPos + 1, Len(input)),
        lines <- returned, closing <- ~running

\* The string and the index that PromptInput keeps are the line and the
\* cursor the user edits, over all sequences of strokes: nothing is inserted,
\* erased or taken but what a stroke asks for, and the index stays within the
\* string.  The exceptions are those of TakenFor.
ImplementsEditor == Editor!Spec
=============================================================================
