-------------------------------- MODULE FrontEnd --------------------------------
(***************************************************************************)
(* From the text of a file to its declarations: Lexer, then Parser.        *)
(***************************************************************************)
EXTENDS Parser

CONSTANT Sources  \* each a text and the program it was written to say, <<>> when it was not

(* A text is a sequence of characters.                                     *)
ASSUME SourcesAssumption == \A source \in Sources : source.text \in Seq(ToSet(source.text))

VARIABLE written  \* the program the text spells

vars == <<lexVars, parserVars, written>>

-------------------------------------------------------------------------------
Init ==
  /\ LexInit /\ ParserInit
  /\ \E source \in Sources : text = source.text /\ written = source.program

Next ==
  \/ NextToken /\ UNCHANGED <<parserVars, written>>
  \/ Parse /\ UNCHANGED <<lexVars, written>>

Spec == Init /\ [][Next]_vars /\ WF_vars(Next)

-------------------------------------------------------------------------------
(* Properties.                                                             *)

(* How many of the values built a call takes, or adds to.                 *)
Takes(goal) ==
  CASE goal[1] \in {"add", "pair", "raw pair", "insert"} -> 2
    [] goal[1] = "declare" -> IF goal[2] = "template" THEN 3 ELSE 2
    [] goal[1] \in {"access", "no access", "first", "more", "rest", "condition", "entries", "read only", "raw map",
                    "fields", "statement", "secondary", "param", "scope"} -> 1
    [] OTHER -> 0

(* The parser looks at a token the lexer made, is never past the end, and  *)
(* each call finds the values it takes, of which none is left in the end.  *)
TypeOK ==
  /\ lexed => items[Len(items)].kind = "Eof"
  /\ lexed /\ errors = <<>> => pos \in 1..Len(items)
  /\ outcome = "running" => Len(built) >= Takes(todo[1])
  /\ outcome = "ok" => Len(todo) = 1 /\ built = <<>> /\ ~scope.open

(* The place an item says it has is where it is: its bytes, its line and   *)
(* its column are three counts of the same characters, through comments,   *)
(* wide characters and the escapes inside a string.  Tokens do not         *)
(* overlap, and only spaces and comments are left out between them.        *)
ByteAt(k)   == k - 1 + Cardinality({i \in 1..(k - 1) : text[i] \in Wide})
LineAt(k)   == 1 + Cardinality({i \in 1..(k - 1) : text[i] = Newline})
ColumnAt(k) == k - Max({0} \cup {i \in 1..(k - 1) : text[i] = Newline})

IsTrivia(k, h) ==
  text[k] \in Spaces \/ (text[h] = "#" /\ \A i \in h..k : text[i] # Newline)

ItemsLocated ==
  outcome # "running" =>
    LET places == {[start |-> ByteAt(k), line |-> LineAt(k), col |-> ColumnAt(k)] : k \in 1..(Len(text) + 1)}
        bytes  == [k \in DOMAIN text |-> ByteAt(k)]
        gap(from, to) == {k \in DOMAIN text : from <= bytes[k] /\ bytes[k] < to}
    IN  /\ \A item \in ToSet(items) \cup ToSet(errors) :
             /\ [start |-> item.span.start, line |-> item.span.line, col |-> item.span.col] \in places
             /\ item.span.start <= item.span.end
        /\ errors = <<>> =>
             \A n \in DOMAIN items :
               LET before == IF n = 1 THEN 0 ELSE items[n - 1].span.end
                   left   == gap(before, items[n].span.start)
               IN  before <= items[n].span.start /\ \A k \in left : \E h \in left : h <= k /\ IsTrivia(k, h)

(* Every text is accepted or refused in the end: each call of next_token   *)
(* and each turn of a loop of the parser takes something.                  *)
Terminates == <>(outcome # "running")
===============================================================================
