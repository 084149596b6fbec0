-------------------------- MODULE MCKeyboardFocus --------------------------
(* Two windows, of which one may be activated while the thread of the other *)
(* is behind, a keyboard and a text input; a left shift, a right alt that   *)
(* is the option key, and a letter.                                         *)
EXTENDS KeyboardFocus, TLC

CONSTANTS a, b, keyboard, text

Windows == {a, b}
AnyWindow == Permutations(Windows)
Keys == {75, 95, 60}
ModifierKeys == 75 :> "B_SHIFT_KEY" @@ 95 :> "B_OPTION_KEY"
=============================================================================
