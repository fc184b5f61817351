--------------------------- MODULE MCTypingSession ---------------------------
(* TypingSession on a word of three letters, a space and a word of one, with  *)
(* one wrong letter in a row fewer than the first word is long.              *)
EXTENDS TypingSession

MCSpaces == {4}
=============================================================================
