------------------------------ MODULE MC_Prompt ------------------------------
(***************************************************************************)
(* Glyphs and characters for model checking PasswordPrompt.               *)
(***************************************************************************)
EXTENDS PasswordPrompt

(* 'W' is two pixels wide, every other glyph one.                          *)
MCGlyphWidth(b) == IF b = 87 THEN 2 ELSE 1

(* 'A' and 'W'.                                                            *)
AsciiChars == {<<65>>, <<87>>}

(* 'A', 'W' and 'é' (0xC3 0xA9).                                          *)
MultibyteChars == AsciiChars \cup {<<195, 169>>}
=============================================================================
