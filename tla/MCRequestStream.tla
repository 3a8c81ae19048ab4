--------------------------- MODULE MCRequestStream ---------------------------
(***************************************************************************)
(* Instances of RequestStream for TLC.                                     *)
(***************************************************************************)
EXTENDS RequestStream

SomeCharacters == {"x", "y", "z", NL}

\* Lines that fill the line buffer of four bytes not at all, just, and too much.
SomeContents == {<<"y">>, <<"y", "z", "y">>, <<"y", "z", "y", "z">>}

\* All short files: empty, with blank lines, without a last newline.
AllTexts == UNION {[1 .. n -> {"x", NL}] : n \in 0 .. 5}

=============================================================================
