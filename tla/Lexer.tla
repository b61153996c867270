--------------------------------- MODULE Lexer ---------------------------------
(***************************************************************************)
(* The lexer (crates/hl-lexer): one step is one call of next_token.  It    *)
(* scans the whole text, errors or not, and only a text without errors is  *)
(* parsed.  A letter may stand for a whole word, a digit for a number; a   *)
(* character of Wide takes two bytes of the source and one column.         *)
(***************************************************************************)
EXTENDS Integers, Sequences, FiniteSets, SequencesExt

CONSTANTS
  Digits,  \* the digits
  Strays,  \* characters no token begins with
  Wide     \* characters of more than one byte

(* The quote is one byte long.                                             *)
ASSUME WideAssumption == "\"" \notin Wide

Newline     == "\n"
Spaces      == {" ", "\t", "\r", Newline}
Punctuation == {"{", "}", "[", "]", "(", ")", ":", ",", "=", ".", "$"}
Escapes     == [c \in {"\"", "\\", "n", "t", "r"} |->
                  CASE c = "n" -> Newline [] c = "t" -> "\t" [] c = "r" -> "\r" [] OTHER -> c]

VARIABLES
  text,    \* the source, a sequence of characters
  cursor,  \* where the next token is looked for
  items,   \* the tokens so far
  errors,  \* the errors so far
  lexed    \* whether the end has been reached

lexVars == <<text, cursor, items, errors, lexed>>

Width(c) == IF c \in Wide THEN 2 ELSE 1

(* A place in the source: the index of its character, its byte offset, its *)
(* line and its column.                                                    *)
Origin == [at |-> 1, byte |-> 0, line |-> 1, col |-> 1]

(* Mutant: the column counts bytes.                                        *)
BumpByBytes(place, c) ==
  [place EXCEPT !.at = @ + 1, !.byte = @ + Width(c),
                !.line = IF c = Newline THEN @ + 1 ELSE @,
                !.col = IF c = Newline THEN 1 ELSE @ + Width(c)]

Bump(place, c) ==
  [place EXCEPT !.at = @ + 1, !.byte = @ + Width(c),
                !.line = IF c = Newline THEN @ + 1 ELSE @,
                !.col = IF c = Newline THEN 1 ELSE @ + 1]

LexInit ==
  /\ cursor = Origin
  /\ items = <<>> /\ errors = <<>>
  /\ lexed = FALSE

-------------------------------------------------------------------------------
Past     == Len(text) + 1
Until(i, Stops(_)) ==
  CHOOSE j \in i..Past : (j = Past \/ Stops(j)) /\ \A k \in i..(j - 1) : ~Stops(k)

MoveTo(place, j) ==
  LET at[i \in place.at..j] == IF i = place.at THEN place ELSE Bump(at[i - 1], text[i - 1]) IN at[j]

(* skip_trivia: the first character that is neither space nor comment.     *)
TriviaEnd(i) ==
  Until(i, LAMBDA j : /\ text[j] \notin Spaces
                      /\ ~\E h \in i..j : text[h] = "#" /\ \A k \in h..j : text[k] # Newline)

Start == MoveTo(cursor, TriviaEnd(cursor.at))
First == text[Start.at]

IsWord(c) ==
  c \notin Spaces \cup Punctuation \cup Strays \cup Digits \cup {"#", "\"", "\\", "-", ">"}

NumberEnd(i) == Until(i, LAMBDA j : text[j] \notin Digits)
WordEnd(i)   == Until(i, LAMBDA j : ~IsWord(text[j]) /\ text[j] \notin Digits /\ text[j] # "-")

(* Whether each character of a string is taken by a backslash before it.   *)
Taken(content) ==
  LET taken[j \in 0..Len(content)] == j > 1 /\ content[j - 1] = "\\" /\ ~taken[j - 1]
  IN  taken

(* Where a string's content stops: at its quote, at a newline or at the    *)
(* end, which no backslash takes.                                          *)
StringEnd(content) ==
  LET taken == Taken(SubSeq(text, content, Len(text)))
  IN  Until(content, LAMBDA j : text[j] = Newline \/ (text[j] = "\"" /\ ~taken[j - content + 1]))

Span(from, to) == [start |-> from.byte, end |-> to.byte, line |-> from.line, col |-> from.col]

(* unescape: a backslash takes a character that is in the table.           *)
BadEscapes(content) ==
  {j \in 1..(Len(content) - 1) :
     content[j] = "\\" /\ ~Taken(content)[j] /\ content[j + 1] \notin DOMAIN Escapes}

Unescaped(content) ==
  LET taken    == Taken(content)
      piece(j) == IF taken[j] THEN <<Escapes[content[j]]>>
                  ELSE IF content[j] = "\\" THEN <<>> ELSE <<content[j]>>
  IN  FlattenSeq([j \in DOMAIN content |-> piece(j)])

(* The error's span is counted from the literal's, over its content.       *)
EscapeSpan(from, content, j) ==
  LET start == from.byte + j + Cardinality({i \in 1..(j - 1) : content[i] \in Wide})
  IN  [start |-> start, end |-> start + 1 + Width(content[j + 1]),
       line |-> from.line, col |-> from.col + j]

-------------------------------------------------------------------------------
Emit(kind, lexeme, to) ==
  /\ items' = Append(items, [kind |-> kind, lexeme |-> lexeme, span |-> Span(Start, to)])
  /\ cursor' = to
  /\ UNCHANGED <<text, errors, lexed>>

Report(error, span, to) ==
  /\ errors' = Append(errors, [error |-> error, span |-> span])
  /\ cursor' = to
  /\ UNCHANGED <<text, items, lexed>>

AtCharacter == ~lexed /\ Start.at < Past
Next1       == Bump(Start, First)

ScanPunctuation ==
  AtCharacter /\ First \in Punctuation /\ Emit(First, <<First>>, Next1)

ScanArrow ==
  /\ AtCharacter /\ First = "-"
  /\ IF Next1.at < Past /\ text[Next1.at] = ">"
     THEN Emit("->", <<"-", ">">>, Bump(Next1, ">"))
     ELSE Report("DanglingDash", Span(Start, Next1), Next1)

ScanNumber ==
  /\ AtCharacter /\ First \in Digits
  /\ LET to == NumberEnd(Start.at)
     IN  Emit("Number", SubSeq(text, Start.at, to - 1), MoveTo(Start, to))

ScanIdent ==
  /\ AtCharacter /\ IsWord(First)
  /\ LET to == WordEnd(Start.at)
     IN  Emit("Ident", SubSeq(text, Start.at, to - 1), MoveTo(Start, to))

ScanString ==
  /\ AtCharacter /\ First = "\""
  /\ LET to      == StringEnd(Next1.at)
         content == SubSeq(text, Next1.at, to - 1)
         stop    == MoveTo(Start, to)
         bad     == BadEscapes(content)
         j       == CHOOSE k \in bad : \A m \in bad : k <= m
     IN  IF to = Past \/ text[to] = Newline THEN Report("UnterminatedString", Span(Start, stop), stop)
         ELSE IF bad # {} THEN Report("UnknownEscape", EscapeSpan(Start, content, j), Bump(stop, "\""))
         ELSE Emit("Str", content, Bump(stop, "\""))

(* Mutant: the character is looked at but not taken.                       *)
RefuseInPlace ==
  /\ AtCharacter /\ First \in Strays \cup {"\\", ">"}
  /\ errors' = IF errors = <<>> THEN <<[error |-> "UnexpectedChar", span |-> Span(Start, Next1)]>> ELSE errors
  /\ UNCHANGED <<text, cursor, items, lexed>>

RefuseCharacter ==
  /\ AtCharacter /\ First \in Strays \cup {"\\", ">"}
  /\ Report("UnexpectedChar", Span(Start, Next1), Next1)

EndOfFile ==
  /\ ~lexed /\ Start.at = Past
  /\ items' = Append(items, [kind |-> "Eof", lexeme |-> <<>>, span |-> Span(Start, Start)])
  /\ cursor' = Start
  /\ lexed' = TRUE
  /\ UNCHANGED <<text, errors>>

NextToken ==
  \/ ScanPunctuation
  \/ ScanArrow
  \/ ScanNumber
  \/ ScanIdent
  \/ ScanString
  \/ RefuseCharacter
  \/ EndOfFile
===============================================================================
