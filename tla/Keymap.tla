------------------------------- MODULE Keymap -------------------------------
(***************************************************************************)
(* What a key means to Haiku and to a client: the Linux code of a key, the *)
(* mask of the modifiers, the keymap text, and the symbol a client finds   *)
(* in it (HaikuSeat.cpp, WaylandKeycodes.h, XkbKeymap.cpp).                *)
(*                                                                         *)
(* The text is a function from XKB codes to the type of a key and its      *)
(* symbols; a symbol is the name a key has of its own, or an entry of      *)
(* Haiku's tables.  A mask is the set of its bits.  The second group, dead *)
(* keys and the spelling of symbols are left out.                          *)
(***************************************************************************)
EXTENDS Naturals, Sequences

HaikuKey == 1 .. 107

(* The codes of the keys 0x01 to 0x6b. *)
KeyCodes ==
    <<1, 59, 60, 61, 62, 63, 64, 65, 66, 67, 68, 87, 88, 99, 70, 119, 41, 2,
      3, 4, 5, 6, 7, 8, 9, 10, 11, 12, 13, 14, 110, 102, 104, 69, 98, 55,
      74, 15, 16, 17, 18, 19, 20, 21, 22, 23, 24, 25, 26, 27, 43, 111, 107, 109,
      71, 72, 73, 78, 58, 30, 31, 32, 33, 34, 35, 36, 37, 38, 39, 40, 28, 75,
      76, 77, 42, 44, 45, 46, 47, 48, 49, 50, 51, 52, 53, 54, 103, 79, 80, 81,
      96, 29, 56, 57, 100, 97, 105, 108, 106, 82, 83, 125, 126, 127, 86, 124, 89>>

FromHaikuKeyCode(key) == IF key \in HaikuKey THEN KeyCodes[key] ELSE 0

(* Scroll, num and caps lock, shift, control, alt and meta, and compose. *)
ModifierCodes == {70, 69, 58, 42, 54, 29, 97, 56, 100, 125, 126, 127}

IsModifierKey(key) == FromHaikuKeyCode(key) \in ModifierCodes

(* The bits of XKB: Shift 0, Lock 1, Control 2, Mod1 3, Mod2 4, Mod5 7. *)
BitsOf ==
    [B_SHIFT_KEY |-> {0}, B_CAPS_LOCK |-> {1}, B_COMMAND_KEY |-> {2}, B_CONTROL_KEY |-> {3, 18},
     B_NUM_LOCK |-> {4}, B_OPTION_KEY |-> {7}]

FromHaikuModifiers(modifiers) == UNION {BitsOf[m] : m \in modifiers}
-----------------------------------------------------------------------------
(* The text of the keymap *)

(* The modifiers of Haiku's eight tables. *)
TableOf ==
    <<{}, {"B_SHIFT_KEY"}, {"B_CAPS_LOCK"}, {"B_CAPS_LOCK", "B_SHIFT_KEY"}, {"B_OPTION_KEY"},
      {"B_OPTION_KEY", "B_SHIFT_KEY"}, {"B_OPTION_KEY", "B_CAPS_LOCK"},
      {"B_OPTION_KEY", "B_CAPS_LOCK", "B_SHIFT_KEY"}>>

GetOffsetForLevel(key, level) == <<key, TableOf[level + 1]>>

(* Function, modifier and lock keys, and Menu. *)
NamedKeys == 2 .. 16 \cup {34, 59, 75, 86, 92, 93, 95, 96, 102, 103, 104}

WriteSymbol(key, entry) == IF key \in NamedKeys THEN <<key>> ELSE entry

IsNumpadDigitKey(key) == key \in 55 .. 57 \cup 72 .. 74 \cup 88 .. 90 \cup {100, 101}

IsNumpadOperatorKey(key) == key \in 35 .. 37 \cup {58, 91}

(* Cursor and digit of the key. *)
WriteNumpadDigitSymbol(key) == <<<<key, "cursor">>, <<key, "digit">>>>

WriteNumpadOperatorSymbol(key) == [i \in 1 .. 4 |-> <<key>>]

(* Faulty: the tables of caps lock instead of those of option. *)
FirstLevels == <<0, 1, 2, 3>>

(* The tables that become the four levels of a key. *)
Levels == <<0, 1, 4, 5>>

Statement(key) ==
    IF IsNumpadDigitKey(key) THEN [type |-> "KEYPAD", symbols |-> WriteNumpadDigitSymbol(key)]
    ELSE [type |-> "FOUR_LEVEL",
          symbols |-> IF IsNumpadOperatorKey(key) THEN WriteNumpadOperatorSymbol(key)
                      ELSE [i \in 1 .. 4 |->
                              WriteSymbol(key, GetOffsetForLevel(key, Levels[i]))]]

(* GenerateSymbols: of two statements about one code the later one counts. *)
Symbols ==
    [code \in {FromHaikuKeyCode(key) + 8 : key \in HaikuKey} |->
        Statement(CHOOSE key \in HaikuKey :
            /\ FromHaikuKeyCode(key) + 8 = code
            /\ \A other \in HaikuKey : FromHaikuKeyCode(other) + 8 = code => other <= key)]

(* GenerateTypes: the level a mask selects. *)
Level(type, mask) ==
    CASE type = "KEYPAD" -> IF 4 \in mask THEN 2 ELSE 1
      [] 0 \in mask /\ 7 \in mask -> 4
      [] 0 \notin mask /\ 7 \in mask -> 3
      [] 0 \in mask /\ 7 \notin mask -> 2
      [] OTHER -> 1
-----------------------------------------------------------------------------
(* Both sides *)

(* What a client finds for a key it was sent. *)
ClientSymbol(code, mask) ==
    LET statement == Symbols[code + 8] IN statement.symbols[Level(statement.type, mask)]

(* What Haiku's tables have for the key. *)
HaikuSymbol(key, modifiers) ==
    IF key \in NamedKeys THEN <<key>>
    ELSE <<key, modifiers \cap {"B_SHIFT_KEY", "B_CAPS_LOCK", "B_OPTION_KEY"}>>
=============================================================================
