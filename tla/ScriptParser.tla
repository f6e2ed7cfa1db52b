---------------------------- MODULE ScriptParser ----------------------------
(***************************************************************************)
(* The parser of linker scripts, over tokens: a script is a sequence of    *)
(* strings and white space, comments and quotes are gone.  A parser takes  *)
(* the tokens that are left and answers with what it read and the tokens   *)
(* after it; NoParse stands for an error, which fails the whole link.      *)
(*                                                                         *)
(* An expression is a tuple whose head is its operator: <<"num", n>>,      *)
(* <<"sym", name>>, <<".">>, <<"+", l, r>>, <<"?", c, t, e>>,              *)
(* <<"SIZEOF", name>>, <<"ALIGN", a>> and so on.                           *)
(*                                                                         *)
(* Left out: OUTPUT_ARCH, which is read and ignored, and the spelling of   *)
(* attributes of sections.                                                 *)
(***************************************************************************)
EXTENDS Integers, Sequences, SequencesExt

CONSTANTS
    Word,       \* 2^width of the values of expressions
    Kilo,       \* what the suffix K stands for
    Numerals    \* [token -> [digits: its number, suffix: "", "K" or "M"]]

NoParse == [ok |-> FALSE, what |-> <<"error">>, rest |-> <<>>]
Parsed(what, rest) == [ok |-> TRUE, what |-> what, rest |-> rest]
At(t, token) == t # <<>> /\ Head(t) = token
OneOf(t, tokens) == t # <<>> /\ Head(t) \in tokens
Skip(t, token) == IF At(t, token) THEN Tail(t) ELSE t
Nth(t, i) == IF i \in DOMAIN t THEN t[i] ELSE "end"
Drop(t, n) == SubSeq(t, n + 1, Len(t))

(* What follows p must be a token.                                         *)
Then(p, token) == IF p.ok /\ At(p.rest, token) THEN [p EXCEPT !.rest = Tail(@)] ELSE NoParse

(* Go on with what was read, if it was; map what was read.                 *)
Bind(p, Use(_)) == IF p.ok THEN Use(p) ELSE NoParse
As(p, Make(_)) == Bind(p, LAMBDA q : Parsed(Make(q.what), q.rest))
MaySkip(p, token) == Bind(p, LAMBDA q : Parsed(q.what, Skip(q.rest, token)))

(* As many of Item as there are before the closing token, which is read.   *)
RepeatTill(Item(_), close, t) ==
    LET RECURSIVE more(_, _)
        more(read, rest) ==
            IF rest = <<>> THEN NoParse
            ELSE IF Head(rest) = close THEN Parsed(read, Tail(rest))
            ELSE Bind(Item(rest), LAMBDA p : more(Append(read, p.what), p.rest))
    IN  more(<<>>, t)

(***************************************************************************)
(* Expressions, from the operators that bind least to those that bind      *)
(* most.                                                                   *)
(***************************************************************************)
Comparisons == {"<", ">", "<=", ">=", "==", "!="}

(* The operators of each level, those that bind least first.               *)
Levels == <<{"||"}, {"&&"}, Comparisons, {"|"}, {"^"}, {"&"}, {"<<", ">>"}, {"+", "-"},
            {"*", "/", "%"}>>

RECURSIVE ParseTernary(_)
RECURSIVE ParseUnary(_)
RECURSIVE ParseLevel(_, _)

ParseNumber(t) ==
    LET n == Numerals[Head(t)]
        scale == CASE n.suffix = "K" -> Kilo
                   [] n.suffix = "M" -> Kilo * Kilo
                   [] OTHER -> 1
    IN  Parsed(<<"num", (n.digits * scale) % Word>>, Tail(t))

(* A name in parentheses.                                                  *)
ParseFunctionArg(t) ==
    IF At(t, "(") /\ Nth(t, 3) = ")" THEN Parsed(Nth(t, 2), Drop(t, 3)) ELSE NoParse

(* ASSERT(expression, message).                                            *)
ParseAssert(t) ==
    IF ~At(t, "(") THEN NoParse
    ELSE Bind(Then(ParseTernary(Tail(t)), ","), LAMBDA e :
            IF Nth(e.rest, 2) = ")" THEN Parsed(<<"ASSERT", e.what>>, Drop(e.rest, 2)) ELSE NoParse)

TakesName == {"SIZEOF", "ALIGNOF", "ADDR", "LOADADDR", "ORIGIN", "LENGTH", "DEFINED"}

(* The arguments of MIN, MAX and ALIGN; the second of ALIGN is optional.   *)
ParseArguments(name, first) ==
    IF name = "ALIGN" /\ At(first.rest, ")") THEN Parsed(<<"ALIGN", first.what>>, Tail(first.rest))
    ELSE IF ~At(first.rest, ",") THEN NoParse
    ELSE As(Then(ParseTernary(Tail(first.rest)), ")"), LAMBDA second :
            IF name = "ALIGN" THEN <<"ALIGN", second, first.what>>
            ELSE <<name, first.what, second>>)

(* A call: t starts after the name of the function.                        *)
ParseFunction(name, t) ==
    CASE name \in TakesName -> As(ParseFunctionArg(t), LAMBDA arg : <<name, arg>>)
      [] name \in {"MIN", "MAX", "ALIGN"} ->
            Bind(ParseTernary(Tail(t)), LAMBDA first : ParseArguments(name, first))
      [] name = "SEGMENT_START" ->
            IF Nth(t, 3) # "," THEN NoParse
            ELSE As(Then(ParseTernary(Drop(t, 3)), ")"), LAMBDA e : <<name, Nth(t, 2), e>>)
      [] name = "ASSERT" -> ParseAssert(t)
      [] OTHER -> NoParse

Punctuation == {"(", ")", "{", "}", ";", ",", ":", "?", "=", "||", "&&", "|", "^", "&", "<<",
                ">>", "+", "-", "*", "/", "%", "!", "~", "+=", "-=", "*=", "/=", "<<=", ">>=",
                "&=", "|=", "^="} \cup Comparisons

ParseIdentifierOrFunction(t) ==
    CASE At(t, ".") -> Parsed(<<".">>, Tail(t))
      [] t # <<>> /\ Nth(t, 2) = "(" /\ Head(t) \notin Punctuation \cup {"."} ->
            ParseFunction(Head(t), Tail(t))
      [] At(t, "SIZEOF_HEADERS") /\ Nth(t, 2) # "(" -> Parsed(<<"SIZEOF_HEADERS">>, Tail(t))
      [] t # <<>> /\ Nth(t, 2) # "(" /\ Head(t) \notin Punctuation \cup {".", "SIZEOF_HEADERS"} ->
            Parsed(<<"sym", Head(t)>>, Tail(t))
      [] OTHER -> NoParse

ParsePrimary(t) ==
    IF At(t, "(") THEN Then(ParseTernary(Tail(t)), ")")
    ELSE IF OneOf(t, DOMAIN Numerals) THEN ParseNumber(t)
    ELSE ParseIdentifierOrFunction(t)

UnaryOps == [u \in {"!", "~", "-"} |->
                CASE u = "!" -> "not" [] u = "~" -> "com" [] OTHER -> "neg"]
ParseUnary(t) ==
    IF OneOf(t, DOMAIN UnaryOps)
    THEN As(ParseUnary(Tail(t)), LAMBDA e : <<UnaryOps[Head(t)], e>>)
    ELSE ParsePrimary(t)

(* Operands of the next level, grouped from the left; at most one          *)
(* comparison.                                                             *)
ParseLevel(k, t) ==
    LET operand(u) == IF k = Len(Levels) THEN ParseUnary(u) ELSE ParseLevel(k + 1, u)
        RECURSIVE more(_)
        more(left) ==
            IF ~OneOf(left.rest, Levels[k]) THEN left
            ELSE Bind(operand(Tail(left.rest)), LAMBDA right :
                    LET both == Parsed(<<Head(left.rest), left.what, right.what>>, right.rest)
                    IN  IF Levels[k] = Comparisons THEN both ELSE more(both))
    IN  Bind(operand(t), more)

ParseTernary(t) ==
    Bind(ParseLevel(1, t), LAMBDA cond :
        IF ~At(cond.rest, "?") THEN cond
        ELSE Bind(Then(ParseTernary(Tail(cond.rest)), ":"), LAMBDA yes :
                As(ParseTernary(yes.rest), LAMBDA no : <<"?", cond.what, yes.what, no>>)))

(***************************************************************************)
(* Statements.                                                             *)
(***************************************************************************)
AssignmentTokens == {"+=", "-=", "*=", "/=", "<<=", ">>=", "&=", "|=", "^="}
AssignmentOps == [a \in AssignmentTokens |->
                    CASE a = "+=" -> "+" [] a = "-=" -> "-" [] a = "*=" -> "*" [] a = "/=" -> "/"
                      [] a = "<<=" -> "<<" [] a = ">>=" -> ">>" [] a = "&=" -> "&"
                      [] a = "|=" -> "|" [] OTHER -> "^"]

(* name op= e stands for name = name op e.                                 *)
Expand(op, name, e) ==
    IF op = "=" THEN e
    ELSE <<AssignmentOps[op], IF name = "." THEN <<".">> ELSE <<"sym", name>>, e>>

IsAssignment(t) == Len(t) > 1 /\ t[2] \in {"="} \cup DOMAIN AssignmentOps

Assignment(name, e) ==
    IF name = "." THEN [kind |-> "location", expr |-> e]
    ELSE [kind |-> "assign", name |-> name, expr |-> e]

(* The semicolon is needed between sections, elsewhere it may be missing.  *)
ParseAssignment(t, semicolon) ==
    Bind(ParseTernary(Drop(t, 2)), LAMBDA e :
        IF semicolon /\ ~At(e.rest, ";") THEN NoParse
        ELSE Parsed(Assignment(Head(t), Expand(t[2], Head(t), e.what)), Skip(e.rest, ";")))

ParseProvide(t) ==
    IF Nth(t, 2) # "(" \/ Nth(t, 4) # "=" THEN NoParse
    ELSE MaySkip(As(Then(ParseTernary(Drop(t, 4)), ")"), LAMBDA e :
            [kind |-> "provide", name |-> Nth(t, 3), expr |-> e,
             hidden |-> Head(t) = "PROVIDE_HIDDEN"]), ";")

(* A semicolon may follow, but not between sections.                       *)
AssertOnly(t) == As(ParseAssert(Tail(t)), LAMBDA e : [kind |-> "assert", expr |-> e])
AssertCommand(t) == MaySkip(AssertOnly(t), ";")

ParsePattern(t) ==
    LET sorts == OneOf(t, {"SORT", "SORT_BY_NAME", "SORT_BY_ALIGNMENT"})
        name == IF sorts THEN Nth(t, 3) ELSE Head(t)
    IN  IF sorts /\ (Nth(t, 2) # "(" \/ Nth(t, 4) # ")"
                     \/ name \in {"SORT", "SORT_BY_NAME", "SORT_BY_ALIGNMENT"})
        THEN NoParse
        ELSE Parsed([name |-> name, sorted |-> sorts /\ Head(t) # "SORT_BY_ALIGNMENT"],
                    Drop(t, IF sorts THEN 4 ELSE 1))

(* file(patterns); a bare star is every file.                              *)
ParseMatcherPattern(t, keep) ==
    IF Nth(t, 2) # "(" THEN NoParse
    ELSE As(RepeatTill(ParsePattern, ")", Drop(t, 2)), LAMBDA patterns :
            [kind |-> "matcher", file |-> IF Head(t) = "*" THEN "any" ELSE Head(t),
             patterns |-> patterns, keep |-> keep])

ParseMatcher(t) ==
    MaySkip(IF At(t, "KEEP") THEN Then(ParseMatcherPattern(Drop(t, 2), TRUE), ")")
            ELSE ParseMatcherPattern(t, FALSE), ";")

ParseContentsCommand(t) ==
    CASE OneOf(t, {"PROVIDE", "PROVIDE_HIDDEN"}) -> ParseProvide(t)
      [] At(t, "ASSERT") -> AssertCommand(t)
      [] At(t, "CONSTRUCTORS") -> Parsed([kind |-> "constructors"], Tail(t))
      [] OTHER -> IF IsAssignment(t) THEN ParseAssignment(t, FALSE) ELSE ParseMatcher(t)

(* What follows the contents: segments, a region and a filling.            *)
ParseSectionSuffix(s, t) ==
    LET RECURSIVE more(_, _)
        more(acc, rest) ==
            CASE At(rest, ":") ->
                    more([acc EXCEPT !.phdrs = Append(@, Nth(rest, 2))], Drop(rest, 2))
              [] At(rest, ">") -> more([acc EXCEPT !.region = Nth(rest, 2)], Drop(rest, 2))
              [] At(rest, "=") ->
                    Bind(ParseTernary(Tail(rest)),
                         LAMBDA e : more([acc EXCEPT !.fill = e.what], e.rest))
              [] OTHER -> Parsed(acc, rest)
    IN  more(s, t)

(* name [address] : [ALIGN(n)] { contents } suffix                         *)
ParseSectionBody(name, address, t) ==
    LET aligned == At(t, "ALIGN")
        open == IF aligned THEN Drop(t, 4) ELSE t
        alignment == IF aligned THEN Numerals[Nth(t, 3)].digits ELSE 1
    IN  IF ~At(open, "{") THEN NoParse
        ELSE Bind(RepeatTill(ParseContentsCommand, "}", Tail(open)), LAMBDA contents :
                ParseSectionSuffix([kind |-> "section", name |-> name, address |-> address,
                                    alignment |-> alignment, contents |-> contents.what,
                                    phdrs |-> <<>>, region |-> "none", fill |-> <<"none">>],
                                   contents.rest))
ParseSection(t) ==
    Bind(Then(IF Nth(t, 2) = ":" THEN Parsed(<<"none">>, Tail(t)) ELSE ParseTernary(Tail(t)), ":"),
         LAMBDA address : ParseSectionBody(Head(t), address.what, address.rest))

ParseSectionCommand(t) ==
    CASE At(t, "ASSERT") -> AssertOnly(t)
      [] OneOf(t, {"PROVIDE", "PROVIDE_HIDDEN"}) -> ParseProvide(t)
      [] OneOf(t, {"(", ")", "{", "}", ";", ","}) -> NoParse
      [] OTHER -> IF IsAssignment(t) THEN ParseAssignment(t, TRUE) ELSE ParseSection(t)

ParseMemoryRegion(t) ==
    IF Nth(t, 2) # ":" \/ Nth(t, 3) # "ORIGIN" \/ Nth(t, 4) # "=" THEN NoParse
    ELSE Bind(Then(ParseTernary(Drop(t, 4)), ","), LAMBDA origin :
            IF Nth(origin.rest, 1) # "LENGTH" \/ Nth(origin.rest, 2) # "=" THEN NoParse
            ELSE As(ParseTernary(Drop(origin.rest, 2)), LAMBDA length :
                    [name |-> Head(t), origin |-> origin.what, length |-> length]))

(* name type [FILEHDR] [PHDRS] [FLAGS(n)] ;                                *)
ParsePhdr(t) ==
    LET RECURSIVE more(_, _)
        more(acc, rest) ==
            CASE OneOf(rest, {"FILEHDR", "PHDRS"}) ->
                    more([acc EXCEPT !.headers = @ \cup {Head(rest)}], Tail(rest))
              [] At(rest, "FLAGS") -> more(acc, Drop(rest, 4))
              [] OTHER -> Parsed(acc, Skip(rest, ";"))
    IN  more([name |-> Head(t), type |-> Nth(t, 2), headers |-> {}], Drop(t, 2))

Block(Item(_), kind, t) ==
    IF ~At(t, "{") THEN NoParse
    ELSE As(RepeatTill(Item, "}", Tail(t)), LAMBDA items : [kind |-> kind, items |-> items])

(* The text of a version script, up to the brace that closes it.           *)
ParseVersion(t) ==
    LET depth(n) == Len(SelectSeq(SubSeq(t, 1, n), LAMBDA x : x = "{"))
                    - Len(SelectSeq(SubSeq(t, 1, n), LAMBDA x : x = "}"))
        closes == {n \in DOMAIN t : depth(n) = 0}
        close == CHOOSE n \in closes : \A k \in closes : n <= k
    IN  IF At(t, "{") /\ closes # {}
        THEN Parsed([kind |-> "version", text |-> SubSeq(t, 2, close - 1)],
                    Skip(Drop(t, close), ";"))
        ELSE NoParse

RECURSIVE ParseCommand(_)

ParseGroup(kind, t) ==
    IF ~At(t, "(") THEN NoParse
    ELSE As(RepeatTill(ParseCommand, ")", Tail(t)), LAMBDA items : [kind |-> kind, items |-> items])

ParseEntry(t) == As(ParseFunctionArg(t), LAMBDA n : [kind |-> "entry", name |-> n])

(* OUTPUT_FORMAT(default [, big, little]).                                 *)
ParseOutputFormat(t) ==
    IF Nth(t, 3) = ")" THEN Parsed([kind |-> "format", default |-> Nth(t, 2),
                                    little |-> "none", big |-> "none"], Drop(t, 3))
    ELSE IF Nth(t, 3) = "," /\ Nth(t, 5) = "," /\ Nth(t, 7) = ")"
    THEN Parsed([kind |-> "format", default |-> Nth(t, 2), big |-> Nth(t, 4),
                 little |-> Nth(t, 6)], Drop(t, 7))
    ELSE NoParse

ParseCommand(t) ==
    LET after == Tail(t)
    IN  CASE OneOf(t, {"GROUP", "INPUT"}) -> ParseGroup("group", after)
          [] At(t, "AS_NEEDED") -> ParseGroup("as_needed", after)
          [] At(t, "SECTIONS") -> Block(ParseSectionCommand, "sections", after)
          [] At(t, "MEMORY") -> Block(ParseMemoryRegion, "memory", after)
          [] At(t, "PHDRS") -> Block(ParsePhdr, "phdrs", after)
          [] At(t, "ENTRY") -> ParseEntry(after)
          [] At(t, "OUTPUT_FORMAT") -> ParseOutputFormat(after)
          [] At(t, "VERSION") -> ParseVersion(after)
          [] OneOf(t, {"PROVIDE", "PROVIDE_HIDDEN"}) -> ParseProvide(t)
          [] At(t, "ASSERT") -> AssertCommand(t)
          [] OTHER -> IF IsAssignment(t) THEN ParseAssignment(t, FALSE)
                      ELSE IF Head(t) \in {"(", ")", "{", "}", ";", ","} THEN NoParse
                      ELSE Parsed([kind |-> "arg", name |-> Head(t)], after)

(* All commands of a script.                                               *)
ParseCommands(t) == RepeatTill(ParseCommand, "end of file", t \o <<"end of file">>)

(***************************************************************************)
(* Reading expressions back: how tightly an operator binds, and the tokens *)
(* of a tree without any parentheses.                                      *)
(***************************************************************************)
Binds(op) ==
    CASE op = "?" -> 0
      [] op = "||" -> 1
      [] op = "&&" -> 2
      [] op \in Comparisons -> 3
      [] op = "|" -> 4
      [] op = "^" -> 5
      [] op = "&" -> 6
      [] op \in {"<<", ">>"} -> 7
      [] op \in {"+", "-"} -> 8
      [] op \in {"*", "/", "%"} -> 9
      [] op \in {"not", "com", "neg"} -> 10
      [] OTHER -> 11

Binary == {"||", "&&", "|", "^", "&", "<<", ">>", "+", "-", "*", "/", "%"} \cup Comparisons
Unary == [not |-> "!", com |-> "~", neg |-> "-"]

RECURSIVE Unparse(_)
Unparse(e) ==
    CASE e[1] \in Binary -> Unparse(e[2]) \o <<e[1]>> \o Unparse(e[3])
      [] e[1] = "?" -> Unparse(e[2]) \o <<"?">> \o Unparse(e[3]) \o <<":">> \o Unparse(e[4])
      [] e[1] \in DOMAIN Unary -> <<Unary[e[1]]>> \o Unparse(e[2])
      [] e[1] = "num" -> <<CHOOSE x \in DOMAIN Numerals : Numerals[x].digits = e[2]>>
      [] e[1] = "sym" -> <<e[2]>>
      [] OTHER -> <<e[1]>>

RECURSIVE Grouped(_)
Grouped(e) ==
    CASE e[1] \in Binary ->
            /\ Grouped(e[2]) /\ Grouped(e[3])
            /\ Binds(e[3][1]) > Binds(e[1])
            /\ IF e[1] \in Comparisons THEN Binds(e[2][1]) > Binds(e[1])
               ELSE Binds(e[2][1]) >= Binds(e[1])
      [] e[1] = "?" -> Binds(e[2][1]) > 0 /\ \A i \in 2 .. 4 : Grouped(e[i])
      [] e[1] \in DOMAIN Unary -> Binds(e[2][1]) >= 10 /\ Grouped(e[2])
      [] OTHER -> TRUE

=============================================================================
