----------------------------- MODULE Dictionary -----------------------------
(***************************************************************************)
(* The tokens of a dictionary (dictionary.rs): what the lexer lets through *)
(* while it keeps the delimiters that are open, how far apart tokens are,  *)
(* and how a cursor over a batch of tokens skips an entry it does not      *)
(* know.  The reader of a stream, which skips in its own way, is           *)
(* FieldFile.                                                              *)
(*                                                                         *)
(* A token is its text.  "quoted" is one in quotes, whatever they hold.    *)
(* "fault" stands where the lexer fails: at a byte that is no UTF-8, at a  *)
(* directive or a comment that is not closed, at a read that fails, or     *)
(* where the file is shorter or longer than its declared length.           *)
(***************************************************************************)
EXTENDS Naturals, Sequences, FiniteSets

CONSTANT MaxNesting       \* MAX_DICTIONARY_NESTING

\* The tokens of one byte, by name.
BraceOpen == "{"
BraceClose == "}"
ParenOpen == "("
ParenClose == ")"
BracketOpen == "["
BracketClose == "]"
Semicolon == ";"

Openers == {BraceOpen, ParenOpen, BracketOpen}
Closers == {BraceClose, ParenClose, BracketClose}
Structural == Openers \cup Closers \cup {Semicolon}
Matching == {<<BraceOpen, BraceClose>>, <<ParenOpen, ParenClose>>, <<BracketOpen, BracketClose>>}

\* The token of a file at a place; after the last one there is the end.
TokenAt(text, i) == IF i <= Len(text) THEN text[i] ELSE "end"

\* Whether a delimiter can follow those that are open, and which are open after it.
Tracks(open, t) == /\ t \in Openers => Len(open) < MaxNesting
                   /\ t \in Closers => open # <<>> /\ <<open[Len(open)], t>> \in Matching
Track(open, t) == CASE t \in Openers -> Append(open, t)
                    [] t \in Closers -> SubSeq(open, 1, Len(open) - 1)
                    [] OTHER -> open

\* Whether the lexer yields a token, or the end, with these delimiters open.
Lexes(open, t) == t # "fault" /\ Tracks(open, t) /\ (t = "end" => open = <<>>)

\* Two tokens need a byte between them if the lexer would take the second for a part of the
\* first: an ordinary token goes on over quotes and opening delimiters.
Apart(a, b) == a \notin Structural \cup {"quoted"} /\ b \notin Closers \cup {Semicolon}

\* The bytes from the end of the token at place i on, if every token is one byte long and
\* nothing is between two tokens that need not be apart: no file has fewer.
BytesAfter(text, i) ==
  Len(text) - i + Cardinality({j \in i .. Len(text) - 1 : Apart(text[j], text[j + 1])})
-----------------------------------------------------------------------------
(***************************************************************************)
(* A cursor skips the value of an entry.  Each operator yields the place   *)
(* after what is skipped, 0 for an error.                                  *)
(***************************************************************************)

\* The end of the group of delimiters that starts at i.
GroupEnd(text, i) ==
  LET end[j \in Nat] == [open \in Seq(Openers) |->
        IF j > Len(text) \/ ~Tracks(open, text[j]) THEN 0
        ELSE IF Track(open, text[j]) = <<>> THEN j ELSE end[j + 1][Track(open, text[j])]]
  IN  end[i][<<>>]

\* A group in parentheses needs no semicolon.
SkipExactLoosely(text, i) ==
  LET last == IF TokenAt(text, i) \in Openers THEN GroupEnd(text, i) ELSE i
      ends == TokenAt(text, last + 1) = Semicolon
  IN  IF \/ TokenAt(text, i) \in Closers \cup {Semicolon, "end"}
         \/ last = 0
         \/ TokenAt(text, i) \notin Openers /\ ~ends
      THEN 0 ELSE IF ends THEN last + 2 ELSE last + 1

\* skip_exact_value_or_block looks at all of the value before it takes the first token.
SkipExact(text, i) ==
  LET last == IF TokenAt(text, i) \in Openers THEN GroupEnd(text, i) ELSE i
      ends == TokenAt(text, last + 1) = Semicolon
  IN  IF \/ TokenAt(text, i) \in Closers \cup {Semicolon, "end"}
         \/ last = 0
         \/ TokenAt(text, i) # BraceOpen /\ ~ends
      THEN 0 ELSE IF ends THEN last + 2 ELSE last + 1

\* The first semicolon outside of all delimiters.
LineEnd(text, i) ==
  LET end[j \in Nat] == [open \in Seq(Openers) |->
        IF j > Len(text) \/ ~Tracks(open, text[j]) THEN 0
        ELSE IF open = <<>> /\ text[j] = Semicolon THEN j ELSE end[j + 1][Track(open, text[j])]]
  IN  end[i][<<>>]

\* skip_value_or_block.
SkipLine(text, i) ==
  LET block == TokenAt(text, i) = BraceOpen
      last  == IF block THEN GroupEnd(text, i) ELSE LineEnd(text, i)
  IN  IF TokenAt(text, i) \in Closers \cup {Semicolon, "end"} \/ last = 0 THEN 0
      ELSE IF block /\ TokenAt(text, last + 1) = Semicolon THEN last + 2 ELSE last + 1
=============================================================================
