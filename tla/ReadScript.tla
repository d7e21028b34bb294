----------------------------- MODULE ReadScript -----------------------------
(***************************************************************************)
(* The tokens CReadScript finds in a text (src/src/ReadScript.cpp).         *)
(*                                                                         *)
(* A text is a sequence of characters.  The words SHOW and end, which the   *)
(* program compares with, are one character each; the lengths of the C      *)
(* buffers, m_line and the characters - and * of numbers are left out.      *)
(***************************************************************************)
EXTENDS Integers, Sequences, FiniteSetsExt

Blank == "blank"
Newline == "newline"
Space == {Blank, Newline}
Slash == "/"
Quote == "quote"
Digit == {"0", "1", "2", "3", "4", "5", "6", "7", "8", "9"}
NumberChar == Digit \cup {"."}
Letter == {"a", "SHOW", "end"}
WordChar == NumberChar \cup Letter
EOF == "EOF"

\* The character at a position of the text s.
CharAt(s, p) == IF p <= Len(s) THEN s[p] ELSE EOF

\* The first position from p on with a character that is, or is not, in C.
FirstIn(s, p, C) == Min({i \in p .. Len(s) : s[i] \in C} \cup {Len(s) + 1})
FirstNotIn(s, p, C) == Min({i \in p .. Len(s) : s[i] \notin C} \cup {Len(s) + 1})

\* Past a comment, which ends at its newline, or a single slash, which is lost.
PastSlash(s, p) ==
  CASE CharAt(s, p) # Slash -> p
    [] CharAt(s, p) = Slash /\ CharAt(s, p + 1) = Slash -> FirstIn(s, p + 2, {Newline})
    [] OTHER -> p + 1

\* The do-while loop of GetToken: where it stops, at the start of a token or,
\* if the caller asked for line ends, at a newline.
Skip(s, from, endLine) ==
  LET skip[p \in 1 .. Len(s) + 1] ==
        LET q == PastSlash(s, p)
        IN  IF CharAt(s, q) \notin Space \/ (endLine /\ CharAt(s, q) = Newline)
            THEN q ELSE skip[q + 1]
  IN  skip[from]

Token(kind, value, next) == [kind |-> kind, value |-> value, next |-> next]

\* The character that ends a number is not put back.
NumberToken(s, q) ==
  LET e == FirstNotIn(s, q, NumberChar)
  IN  Token("number", SubSeq(s, q, e - 1), Min({e, Len(s)}) + 1)

\* A string must close on its line; the newline is put back.
QuotedToken(s, q) ==
  LET e == FirstIn(s, q + 1, {Quote, Newline})
      value == SubSeq(s, q + 1, e - 1)
  IN  CASE CharAt(s, e) = Quote   -> Token("string", value, e + 1)
        [] CharAt(s, e) = Newline -> Token("endLine", value, e)
        [] CharAt(s, e) = EOF     -> Token("end", value, e)

\* A word that the end of the file cuts off is no string, unless it is end.
WordToken(s, q) ==
  LET e == FirstNotIn(s, q, WordChar)
      value == SubSeq(s, q, e - 1)
  IN  CASE value = <<"end">>                        -> Token("endSection", value, e)
        [] value # <<"end">> /\ CharAt(s, e) = EOF  -> Token("end", value, e)
        [] OTHER                                    -> Token("string", value, e)

\* A single slash at the end of the file is a TOKEN_ERROR in the code; Load
\* ends with either.
GetToken(s, p, endLine) ==
  LET q == Skip(s, p, endLine)
      ch == CharAt(s, q)
  IN  CASE ch = EOF          -> Token("end", <<>>, q)
        [] ch = Newline      -> Token("endLine", <<>>, q + 1)
        [] ch \in NumberChar -> NumberToken(s, q)
        [] ch = Quote        -> QuotedToken(s, q)
        [] ch \in Letter     -> WordToken(s, q)
        [] OTHER             -> Token("error", <<>>, q + 1)

=============================================================================
