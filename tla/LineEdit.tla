------------------------------ MODULE LineEdit ------------------------------
(***************************************************************************)
(* What PromptInput promises the user: a line with a cursor, edited by the *)
(* keys and letters that are struck, and taken when Enter is.              *)
(*                                                                         *)
(* A stroke has a code and may be a key or a character.  Each does what it *)
(* means, or what a stroke means that it may be taken for.                 *)
(***************************************************************************)
EXTENDS Sequences, SequencesExt

CONSTANTS
    Strokes,     \* what the user may strike
    Meaning(_),  \* "insert", "left", ..., "enter" or "nothing"
    TakenFor(_)  \* the strokes, itself among them, a stroke may be taken for

VARIABLES before, after,  \* the text to the left and right of the cursor
          lines,          \* the lines taken
          stroke,         \* the last stroke
          closing         \* the client is being stopped

editVars == <<before, after, lines, stroke, closing>>

Init == before = <<>> /\ after = <<>> /\ lines = <<>> /\ closing = FALSE

Text(b, a) == before' = b /\ after' = a /\ UNCHANGED lines

Take == /\ lines' = Append(lines, before \o after)
        /\ before' = <<>> /\ after' = <<>>

Does(s) ==
    CASE Meaning(s) = "insert" -> Text(Append(before, s.code), after)
      [] Meaning(s) = "erase"  -> Text(IF before = <<>> THEN <<>> ELSE Front(before), after)
      [] Meaning(s) = "delete" -> Text(before, IF after = <<>> THEN <<>> ELSE Tail(after))
      [] Meaning(s) = "left"   -> IF before = <<>> THEN Text(before, after)
                                  ELSE Text(Front(before), <<Last(before)>> \o after)
      [] Meaning(s) = "right"  -> IF after = <<>> THEN Text(before, after)
                                  ELSE Text(Append(before, Head(after)), Tail(after))
      [] Meaning(s) = "home"   -> Text(<<>>, before \o after)
      [] Meaning(s) = "end"    -> Text(before \o after, <<>>)
      [] Meaning(s) = "enter"  -> Take
      [] OTHER                 -> Text(before, after)

Strike ==
    \E s \in Strokes :
        /\ stroke' = s
        /\ \E r \in TakenFor(s) : Does(r)
        /\ UNCHANGED closing

\* When the client stops, what was typed so far is taken as it is.
Abandon == closing /\ Take /\ UNCHANGED <<stroke, closing>>

Close == closing' = TRUE /\ UNCHANGED <<before, after, lines, stroke>>

Next == Strike \/ Abandon \/ Close

Spec == Init /\ [][Next]_editVars
=============================================================================
