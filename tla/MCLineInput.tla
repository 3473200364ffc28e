---------------------------- MODULE MCLineInput ----------------------------
(***************************************************************************)
(* Two letters, the keys that edit, and both strokes of the codes 263      *)
(* (KEY_BACKSPACE, c with acute) and 410 (KEY_RESIZE, l with bar).         *)
(***************************************************************************)
EXTENDS LineInput

MCStrokes ==
    {Key(c) : c \in {KEY_LEFT, KEY_RIGHT, KEY_HOME, KEY_END, KEY_DC, KEY_UP,
                     KEY_BACKSPACE, KEY_RESIZE}}
    \cup {Char(c) : c \in {120, 121, Newline, Delete, 27, KEY_BACKSPACE, KEY_RESIZE}}

MCExitLine == <<121>>
=============================================================================
