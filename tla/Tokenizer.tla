------------------------------ MODULE Tokenizer ------------------------------
(***************************************************************************)
(* The tokenizer (parser/tokenizer.cpp, parser/lexer.hpp) on sequences of  *)
(* characters, and the search of repl.cpp for the end of a statement.      *)
(* Characters that the code treats alike are one: "x" is any letter or     *)
(* underscore, "1" any digit.  Whether a word is a keyword is left to the  *)
(* parser.                                                                 *)
(***************************************************************************)
EXTENDS Integers, Sequences, SequencesExt

Whitespace == {" ", "\n"}
Digit == {"1"}
AlphaNumeric == {"x", "1"}
Quote == "'"

\* PeekNext: there is nothing behind the end.
HasNext(cs, c) == Len(cs) >= 2 /\ cs[2] = c
NextIn(cs, S) == Len(cs) >= 2 /\ cs[2] \in S

\* How many characters a loop over a class takes.
Span(cs, S) == LET out == SelectInSeq(cs, LAMBDA c : c \notin S) IN IF out = 0 THEN Len(cs) ELSE out - 1
Drop(cs, n) == SubSeq(cs, n + 1, Len(cs))

Token(type, lexeme) == [type |-> type, lexeme |-> lexeme]
Scanned(tok, rest) == [ok |-> TRUE, token |-> tok, rest |-> rest]
NotScanned == [ok |-> FALSE, token |-> Token("invalid", <<>>), rest |-> <<>>]

ScanNumber(cs) ==
  LET n == Span(cs, Digit)
      rest == Drop(cs, n)
      fraction == IF rest # <<>> /\ Head(rest) = "." /\ NextIn(rest, Digit) THEN 1 + Span(Tail(rest), Digit) ELSE 0
  IN  Scanned(Token(IF fraction > 0 THEN "float" ELSE "int", SubSeq(cs, 1, n + fraction)), Drop(cs, n + fraction))

ScanIdentifierOrKeyword(cs) ==
  LET n == Span(cs, AlphaNumeric) IN Scanned(Token("word", SubSeq(cs, 1, n)), Drop(cs, n))

\* The loop of ScanString, behind the opening quote.
RECURSIVE ScanString(_, _)

\* Mutant: both quotes of a doubled one are kept.
ScanStringKeepsBoth(cs, value) ==
  IF cs = <<>> THEN NotScanned
  ELSE IF Head(cs) # Quote THEN ScanString(Tail(cs), Append(value, Head(cs)))
  ELSE IF HasNext(cs, Quote) THEN ScanString(Drop(cs, 2), value \o <<Quote, Quote>>)
  ELSE Scanned(Token("string", value), Tail(cs))

ScanString(cs, value) ==
  IF cs = <<>> THEN NotScanned
  ELSE IF Head(cs) # Quote THEN ScanString(Tail(cs), Append(value, Head(cs)))
  ELSE IF HasNext(cs, Quote) THEN ScanString(Drop(cs, 2), Append(value, Quote))
  ELSE Scanned(Token("string", value), Tail(cs))

TwoCharacterOperators == {<<"!", "=">>, <<"<", "=">>, <<"<", ">">>, <<">", "=">>}
OneCharacterOperators == {"*", ",", "(", ")", ";", ".", "=", "<", ">"}

ScanOperatorOrPunctuation(cs) ==
  IF Len(cs) >= 2 /\ SubSeq(cs, 1, 2) \in TwoCharacterOperators
  THEN Scanned(Token("operator", SubSeq(cs, 1, 2)), Drop(cs, 2))
  ELSE IF Head(cs) \in OneCharacterOperators THEN Scanned(Token("operator", <<Head(cs)>>), Tail(cs))
  ELSE NotScanned

ScanToken(cs) ==
  IF Head(cs) \in Digit THEN ScanNumber(cs)
  ELSE IF Head(cs) \in AlphaNumeric THEN ScanIdentifierOrKeyword(cs)
  ELSE IF Head(cs) = Quote THEN ScanString(Tail(cs), <<>>)
  ELSE ScanOperatorOrPunctuation(cs)

RECURSIVE SkipWhitespaceAndComments(_)
SkipWhitespaceAndComments(cs) ==
  IF cs = <<>> THEN cs
  ELSE IF Head(cs) \in Whitespace THEN SkipWhitespaceAndComments(Tail(cs))
  ELSE IF Head(cs) = "-" /\ HasNext(cs, "-")
  THEN LET eol == SelectInSeq(cs, LAMBDA c : c = "\n")
       IN  IF eol = 0 THEN <<>> ELSE SkipWhitespaceAndComments(Drop(cs, eol - 1))
  ELSE cs

RECURSIVE TokenizeFrom(_, _)
TokenizeFrom(cs, tokens) ==
  LET at == SkipWhitespaceAndComments(cs)
      scan == ScanToken(at)
  IN  IF at = <<>> THEN [ok |-> TRUE, tokens |-> tokens]
      ELSE IF ~scan.ok THEN [ok |-> FALSE, tokens |-> tokens]
      ELSE TokenizeFrom(scan.rest, Append(tokens, scan.token))

TokenizeAll(cs) == TokenizeFrom(cs, <<>>)

\* Mutant: strings are not minded.
FoundSemicolon(line) == \E i \in DOMAIN line : line[i] = ";"

\* Repl::Run's loop over a line: a semicolon with an even number of quotes
\* before it.
FoundTerminator(line) ==
  \E i \in DOMAIN line :
    /\ line[i] = ";"
    /\ Len(SelectSeq(SubSeq(line, 1, i - 1), LAMBDA c : c = Quote)) % 2 = 0
-----------------------------------------------------------------------------
\* A token as it may be written.
Spelled(tok) ==
  IF tok.type = "string"
  THEN <<Quote>> \o FlattenSeq([i \in DOMAIN tok.lexeme |->
         IF tok.lexeme[i] = Quote THEN <<Quote, Quote>> ELSE <<tok.lexeme[i]>>]) \o <<Quote>>
  ELSE tok.lexeme

Respelled(tokens) == FlattenSeq([i \in DOMAIN tokens |-> Spelled(tokens[i]) \o <<" ">>])
=============================================================================
