---------------------------- MODULE LinkerScripts ----------------------------
(***************************************************************************)
(* What linker scripts do to the output: the rules that send input         *)
(* sections to output sections, the location counters and section          *)
(* addresses, and the symbols.  Expressions are evaluated twice: early,    *)
(* while sections are being laid out, when a location counter or address   *)
(* needs them, and late, when every section has its address and the        *)
(* symbols get their values.                                               *)
(*                                                                         *)
(* An output section is an index into sections; contents that follow a     *)
(* first group of inputs or a location counter go to secondary sections of *)
(* their own, laid out after their primary.                                *)
(*                                                                         *)
(* A section is laid out as parts, one for every alignment of its inputs.  *)
(*                                                                         *)
(* Left out: segments and file offsets (SectionLayout) but for the address *)
(* that a segment takes over, load addresses (AT), PHDRS, --sort-section.  *)
(***************************************************************************)
EXTENDS ScriptParser, GlobPatterns, FiniteSets, Bitwise

CONSTANTS
    Scripts,        \* the links to try: sequences of [tokens, parsed: ParseCommands(tokens)]
    DefSyms,        \* --defsym: sequence of [name, expr]
    BuiltIn,        \* names of the built-in output sections
    DefaultPlacement,   \* built-in rules: sequence of <<pattern, index into BuiltIn>>
    Rank,           \* [name of an output section -> its place in the output]
    InputSections,  \* sequence of [name, order: of the name, file, size, alignment, flags]
    ObjectSymbols,  \* [symbol of an object -> [input: its section or 0, offset]]
    KeyLength,      \* characters of a name that the rules are hashed by
    Base,           \* base address
    HeaderSize      \* SIZEOF_HEADERS

VARIABLES
    scripts,    \* the scripts of this link
    phase,      \* the phase that comes next
    todo,       \* commands of the current script still to process
    nth,        \* index of the current script
    rules,      \* section rules, in the order they were added
    counters,   \* location counters: [expr, loc, section (0: absolute)]
    sections,   \* output sections
    defs,       \* symbols and assertions of the scripts, in order
    regions,    \* [name -> [origin, length]]
    cursor,     \* where the processing of the current script is
    events,     \* events of the output order still to come
    walk,       \* memory address, pending location, results so far
    values,     \* [symbol -> its final value]
    failure     \* the error that ended the link, or "none"

vars == <<scripts, phase, todo, nth, rules, counters, sections, defs, regions, cursor,
          events, walk, values, failure>>

AlignUp(a, v) == ((v + a - 1) \div a) * a
MaxOf(S) == CHOOSE x \in S : \A y \in S : y <= x

Fail(message) ==
    /\ failure' = message
    /\ phase' = "failed"
    /\ UNCHANGED <<scripts, todo, nth, rules, counters, sections, defs, regions, cursor,
                   events, walk, values>>

(***************************************************************************)
(* Section rules.                                                          *)
(***************************************************************************)
SectionRule(pattern, file, outcome) ==
    LET type == PatternType(Chars(pattern))
    IN  [matcher |-> IF type \in {"star", "nonstar"} THEN "glob" ELSE "exact",
         name |-> IF type = "escaped" THEN Unescape(Chars(pattern)) ELSE Chars(pattern),
         file |-> file, outcome |-> outcome]

Matches(rule, name, file) ==
    /\ IF rule.matcher = "exact" THEN rule.name = name ELSE GlobMatches(rule.name, name)
    /\ rule.file = "any" \/ GlobMatches(Chars(rule.file), Chars(file))

(* What the table of the rules is keyed by: the first characters, filled   *)
(* up when there are fewer.                                                *)
PrefixHash(name) == [i \in 1 .. KeyLength |-> IF i \in DOMAIN name THEN name[i] ELSE "pad"]

(* Inputs without a name go by their flags (W: writable, X: executable,    *)
(* T: thread local) and their type (N: NOBITS, O: neither that nor bits of *)
(* the program); a format need not have every section.                     *)
RegularSectionOrDiscard(name) ==
    IF name \notin Range(BuiltIn) THEN <<"discard">>
    ELSE <<"section", CHOOSE i \in DOMAIN BuiltIn : BuiltIn[i] = name, FALSE, FALSE>>
ProgBitsOutput(flags) ==
    CASE "X" \in flags -> ".text"
      [] "X" \notin flags /\ "T" \in flags -> ".tdata"
      [] {"X", "T"} \cap flags = {} /\ "W" \in flags -> ".data"
      [] OTHER -> ".rodata"
UnnamedSectionOutput(flags) ==
    CASE "A" \notin flags \/ "O" \in flags -> <<"discard">>
      [] "A" \in flags /\ "N" \in flags ->
            RegularSectionOrDiscard(IF "T" \in flags THEN ".tbss" ELSE ".bss")
      [] OTHER -> RegularSectionOrDiscard(ProgBitsOutput(flags))

(* Mutant: the rule that was added last wins.                              *)
LookupLast(name, file, flags) ==
    LET found == {i \in DOMAIN rules :
                    /\ PrefixHash(rules[i].name) = PrefixHash(name)
                    /\ Matches(rules[i], name, file)}
    IN  CASE "E" \in flags -> <<"discard">>
          [] "E" \notin flags /\ name # <<>> /\ found # {} -> rules[MaxOf(found)].outcome
          [] "E" \notin flags /\ name = <<>> -> UnnamedSectionOutput(flags)
          [] OTHER -> <<"custom">>

Lookup(name, file, flags) ==
    LET found == {i \in DOMAIN rules :
                    /\ PrefixHash(rules[i].name) = PrefixHash(name)
                    /\ Matches(rules[i], name, file)}
        first == CHOOSE i \in found : \A j \in found : i <= j
    IN  CASE "E" \in flags -> <<"discard">>
          [] "E" \notin flags /\ name # <<>> /\ found # {} -> rules[first].outcome
          [] "E" \notin flags /\ name = <<>> -> UnnamedSectionOutput(flags)
          [] OTHER -> <<"custom">>

(* Rules that hold whatever the scripts say; without any section rule in a *)
(* script the built-in rules are used instead.                             *)
DefaultLayoutRules ==
    [i \in DOMAIN DefaultPlacement |->
        SectionRule(DefaultPlacement[i][1], "any", <<"section", DefaultPlacement[i][2], FALSE, FALSE>>)]
LinkerManaged(rs) ==
    IF rs = <<>> THEN DefaultLayoutRules
    ELSE Append(rs, SectionRule(".comment", "any",
                        <<"section", CHOOSE i \in DOMAIN BuiltIn : BuiltIn[i] = ".comment", TRUE, FALSE>>))

(***************************************************************************)
(* Values of expressions.                                                  *)
(***************************************************************************)
Signed(v) == IF v >= Word \div 2 THEN v - Word ELSE v
Unsigned(v) == v % Word
Truth(b) == IF b THEN 1 ELSE 0

(* Quotient and remainder of signed numbers, towards zero.                 *)
Abs(n) == IF n < 0 THEN -n ELSE n
Quotient(a, b) == IF (a < 0) = (b < 0) THEN Abs(a) \div Abs(b) ELSE -(Abs(a) \div Abs(b))
Remainder(a, b) == a - b * Quotient(a, b)

(* Bits of a value; shift counts are taken modulo the width.               *)
Width == CHOOSE w \in 0 .. 30 : 2 ^ w = Word
Apply(op, l, r) ==
    CASE op = "+" -> Unsigned(l + r)
      [] op = "-" -> Unsigned(l - r)
      [] op = "*" -> Unsigned(l * r)
      [] op = "/" -> Unsigned(Quotient(Signed(l), Signed(r)))
      [] op = "%" -> Unsigned(Remainder(Signed(l), Signed(r)))
      [] op = "<<" -> Unsigned(l * 2 ^ (r % Width))
      [] op = ">>" -> l \div 2 ^ (r % Width)
      [] op = "&" -> l & r
      [] op = "|" -> l | r
      [] op = "^" -> l ^^ r
      [] op = "<" -> Truth(l < r)
      [] op = ">" -> Truth(l > r)
      [] op = "<=" -> Truth(l <= r)
      [] op = ">=" -> Truth(l >= r)
      [] op = "==" -> Truth(l = r)
      [] op = "!=" -> Truth(l # r)
      [] op = "&&" -> Truth(l # 0 /\ r # 0)
      [] op = "||" -> Truth(l # 0 \/ r # 0)
      [] op = "MIN" -> IF l < r THEN l ELSE r
      [] OTHER -> IF l > r THEN l ELSE r

ApplyUnary(op, v) ==
    CASE op = "not" -> Truth(v = 0) [] op = "com" -> Word - 1 - v [] OTHER -> Unsigned(-v)

(* A value, whether it has an absolute part and a part that is relative to *)
(* the current section, or an error.                                       *)
Value(v) == [error |-> "none", v |-> v, abs |-> FALSE, rel |-> FALSE]
Absolute(v) == [Value(v) EXCEPT !.abs = TRUE]
Relative(v) == [Value(v) EXCEPT !.rel = TRUE]
Error(message) == [Value(0) EXCEPT !.error = message]
Ok(x) == x.error = "none"

(* The first error among operands, or what is made of them.                *)
OnOk(x, Use(_)) == IF Ok(x) THEN Use(x) ELSE x
OnBoth(l, r, Use(_, _)) == IF ~Ok(l) THEN l ELSE IF ~Ok(r) THEN r ELSE Use(l, r)

(* Constants only, for the filling of a section.                           *)
ConstBinary(op, l, r) ==
    IF op \in {"/", "%"} /\ r.v = 0 THEN Error("division by zero") ELSE Value(Apply(op, l.v, r.v))
RECURSIVE EvaluateConst(_)
EvaluateConst(e) ==
    CASE e[1] = "num" -> Value(e[2])
      [] e[1] \in Binary \cup {"MIN", "MAX"} ->
            OnBoth(EvaluateConst(e[2]), EvaluateConst(e[3]), LAMBDA l, r : ConstBinary(e[1], l, r))
      [] e[1] \in DOMAIN Unary ->
            OnOk(EvaluateConst(e[2]), LAMBDA x : Value(ApplyUnary(e[1], x.v)))
      [] e[1] = "?" ->
            OnOk(EvaluateConst(e[2]), LAMBDA x : EvaluateConst(IF x.v # 0 THEN e[3] ELSE e[4]))
      [] OTHER -> Error("not constant")

(* Where an expression stands: a context holds the place loc, the layouts  *)
(* of sections laid out so far, the location counters resolved so far and  *)
(* the values of symbols ([kind, section, v]).                             *)
PrimaryOf(s) == IF sections[s].primary = 0 THEN s ELSE sections[s].primary
RelativeSection(loc) ==
    CASE loc[1] \in {"start", "endrel"} -> PrimaryOf(loc[2])
      [] loc[1] = "lc" /\ loc[3] # 0 -> PrimaryOf(loc[3])
      [] OTHER -> 0

OutOfRange(c) == c.loc[1] = "lc" /\ c.loc[2] \notin DOMAIN c.lcs
EvaluateLocation(c) ==
    LET at(s) == c.layouts[s].mem
        end(s) == c.layouts[s].mem + c.layouts[s].size
    IN  CASE c.loc[1] = "endrel" -> end(c.loc[2]) - at(PrimaryOf(c.loc[2]))
          [] c.loc[1] = "end" -> end(c.loc[2])
          [] c.loc[1] = "lc" -> IF c.loc[3] = 0 THEN c.lcs[c.loc[2]].value
                                ELSE c.lcs[c.loc[2]].offset
          [] OTHER -> 0

(* A symbol of the section the expression stands in counts as an offset; a *)
(* symbol of another section gets the base of this one added.              *)
EvaluateSymbolValue(sv, c) ==
    LET here == RelativeSection(c.loc)
    IN  CASE sv.kind = "error" -> Error(sv.v)
          [] sv.kind = "absolute" -> Absolute(sv.v)
          [] sv.kind \in {"section", "part"} /\ here # 0 /\ here = PrimaryOf(sv.section) ->
                IF sv.v < c.layouts[here].mem THEN Error("before its section")
                ELSE Relative(sv.v - c.layouts[here].mem)
          [] sv.kind = "section" /\ here # 0 /\ here # PrimaryOf(sv.section) ->
                Absolute(Unsigned(sv.v + c.layouts[here].mem))
          [] OTHER -> Absolute(sv.v)

NeedsSectionBase(x) == x.rel \/ ~x.abs

(* The value as an address.                                                *)
WithBase(x, c) ==
    IF ~Ok(x) \/ ~NeedsSectionBase(x) \/ RelativeSection(c.loc) = 0 THEN x
    ELSE [x EXCEPT !.v = Unsigned(@ + c.layouts[RelativeSection(c.loc)].mem)]

SectionNamed(name) ==
    LET found == {s \in DOMAIN sections : sections[s].primary = 0 /\ sections[s].name = name}
    IN  IF found = {} THEN 0 ELSE CHOOSE s \in found : TRUE

Both(l, r, v) == [error |-> "none", v |-> v, abs |-> l.abs \/ r.abs, rel |-> l.rel \/ r.rel]

(* Questions about sections and regions.                                   *)
EvaluateName(e, c) ==
    LET s == SectionNamed(e[2])
        of(field) == IF s = 0 THEN 0 ELSE c.layouts[s][field]
        region == e[2] \in DOMAIN regions
    IN  CASE e[1] = "SIZEOF" -> Value(of("size"))
          [] e[1] = "ALIGNOF" -> Value(of("alignment"))
          [] e[1] \in {"ADDR", "LOADADDR"} ->
                IF s = 0 THEN Error("no such section") ELSE Absolute(of("mem"))
          [] e[1] = "ORIGIN" ->
                IF region THEN Absolute(regions[e[2]].origin) ELSE Error("no such region")
          [] e[1] = "LENGTH" ->
                IF region THEN Value(regions[e[2]].length) ELSE Error("no such region")
          [] OTHER -> Value(Truth(e[2] \in c.known))

RECURSIVE EvaluateValue(_, _)

(* A comparison is one of addresses.                                       *)
EvaluateBinary(op, l, r, c) ==
    CASE op \in {"/", "%"} /\ r.v = 0 -> Error("division by zero")
      [] op \in Comparisons -> Value(Apply(op, WithBase(l, c).v, WithBase(r, c).v))
      [] OTHER -> Both(l, r, Apply(op, l.v, r.v))

(* The second operand of a logical operator may go unread.                 *)
Decides(op, l) == Ok(l) /\ ((op = "&&" /\ l.v = 0) \/ (op = "||" /\ l.v # 0))
EvaluateOperands(op, l, r, c) ==
    IF Decides(op, l) THEN [l EXCEPT !.v = Truth(op = "||")]
    ELSE OnBoth(l, r, LAMBDA x, y : EvaluateBinary(op, x, y, c))

EvaluateAlign(a, x) ==
    IF Ok(a) /\ a.v = 0 THEN Error("ALIGN(0)")
    ELSE OnBoth(a, x, LAMBDA n, y : Both(n, y, Unsigned(AlignUp(n.v, y.v))))

EvaluateValue(e, c) ==
    CASE e[1] = "num" -> Value(e[2])
      [] e[1] \in {".", "here"} /\ OutOfRange(c) -> Error("location counter out of range")
      [] e[1] = "." /\ ~OutOfRange(c) ->
            IF RelativeSection(c.loc) # 0 THEN Relative(EvaluateLocation(c))
            ELSE Absolute(EvaluateLocation(c))
      [] e[1] = "sym" -> IF e[2] \in DOMAIN c.symbols
                         THEN EvaluateSymbolValue(c.symbols[e[2]], c) ELSE Error("undefined")
      [] e[1] \in Binary \cup {"MIN", "MAX"} ->
            EvaluateOperands(e[1], EvaluateValue(e[2], c), EvaluateValue(e[3], c), c)
      [] e[1] \in DOMAIN Unary ->
            OnOk(EvaluateValue(e[2], c), LAMBDA x : [x EXCEPT !.v = ApplyUnary(e[1], @)])
      [] e[1] = "?" ->
            OnOk(EvaluateValue(e[2], c), LAMBDA cond :
                OnOk(EvaluateValue(IF cond.v # 0 THEN e[3] ELSE e[4], c),
                     LAMBDA x : Both(cond, x, x.v)))
      [] e[1] = "ALIGN" ->
            EvaluateAlign(EvaluateValue(e[2], c),
                          EvaluateValue(IF Len(e) = 3 THEN e[3] ELSE <<"here">>, c))
      [] e[1] = "here" /\ ~OutOfRange(c) -> Value(EvaluateLocation(c))
      [] e[1] = "SEGMENT_START" ->
            OnOk(EvaluateValue(e[3], c), LAMBDA x : [x EXCEPT !.abs = TRUE])
      [] e[1] = "SIZEOF_HEADERS" -> Value(HeaderSize)
      [] e[1] = "ASSERT" ->
            OnOk(EvaluateValue(e[2], c),
                 LAMBDA x : IF x.v = 0 THEN Error("assertion failed") ELSE x)
      [] OTHER -> EvaluateName(e, c)

EvaluateExpression(e, c) == WithBase(EvaluateValue(e, c), c)

(***************************************************************************)
(* Processing the commands of a script.                                    *)
(***************************************************************************)
NewSection(name, primary) ==
    [name |-> name, primary |-> primary, lc |-> <<1, 0>>, address |-> <<"none">>,
     alignment |-> 1, region |-> "none", top |-> TRUE]

NewCursor(start) ==
    [section |-> 0, loc |-> <<"first">>, last |-> start, start |-> start, before |-> start]

Init ==
    /\ scripts \in Scripts
    /\ phase = "parse"
    /\ todo = <<>>
    /\ nth = 1
    /\ rules = <<>>
    /\ counters = <<>>
    /\ sections = [i \in DOMAIN BuiltIn |-> NewSection(BuiltIn[i], 0)]
    /\ defs = <<>>
    /\ regions = <<>>
    /\ cursor = NewCursor(0)
    /\ events = <<>>
    /\ walk = <<>>
    /\ values = <<>>
    /\ failure = "none"

(* The commands one after another; those of SECTIONS follow a mark.        *)
Flatten(commands) ==
    FlattenSeq([i \in DOMAIN commands |->
        IF commands[i].kind = "sections"
        THEN <<[kind |-> "begin"]>>
             \o [j \in DOMAIN commands[i].items |->
                    [kind |-> "inside", of |-> commands[i].items[j]]]
        ELSE <<commands[i]>>])

ParseScript ==
    /\ phase = "parse"
    /\ nth <= Len(scripts)
    /\ LET p == scripts[nth].parsed
       IN  IF p.ok
           THEN /\ todo' = Flatten(p.what)
                /\ phase' = "process"
                /\ cursor' = NewCursor(Len(counters))
                /\ UNCHANGED <<scripts, nth, rules, counters, sections, defs, regions, events,
                               walk, values, failure>>
           ELSE Fail("parse error")

RECURSIVE HasSegmentStart(_)
HasSegmentStart(e) ==
    CASE e[1] = "SEGMENT_START" -> TRUE
      [] e[1] \in Binary \cup DOMAIN Unary \cup {"?", "MIN", "MAX", "ALIGN", "ASSERT"} ->
            \E i \in 2 .. Len(e) : HasSegmentStart(e[i])
      [] OTHER -> FALSE

LocForGlobalExpr(e, s) ==
    CASE ~HasSegmentStart(e) -> <<"none">>
      [] HasSegmentStart(e) /\ s # 0 -> <<"end", s>>
      [] OTHER -> <<"first">>

(* Assertions and location counters outside SECTIONS are symbols without a *)
(* name.                                                                   *)
Redirect(cmd, loc) ==
    [name |-> IF cmd.kind \in {"assign", "provide"} THEN cmd.name ELSE "",
     hidden |-> cmd.kind = "provide" /\ cmd.hidden,
     expr |-> cmd.expr, loc |-> loc]

IsDefinition(cmd) == cmd.kind \in {"assign", "provide", "assert", "location"}

ProcessGlobal ==
    /\ phase = "process" /\ todo # <<>>
    /\ IsDefinition(Head(todo))
    /\ defs' = Append(defs, Redirect(Head(todo),
                  LocForGlobalExpr(Head(todo).expr,
                      IF Head(todo).kind = "assert" THEN 0 ELSE cursor.section)))
    /\ todo' = Tail(todo)
    /\ UNCHANGED <<scripts, phase, nth, rules, counters, sections, regions, cursor, events,
                   walk, values, failure>>

ProcessBegin ==
    /\ phase = "process" /\ todo # <<>>
    /\ Head(todo).kind = "begin"
    /\ cursor' = [cursor EXCEPT !.start = cursor.last]
    /\ todo' = Tail(todo)
    /\ UNCHANGED <<scripts, phase, nth, rules, counters, sections, defs, regions, events,
                   walk, values, failure>>

Inside == Head(todo).of
AtInside(kinds) ==
    phase = "process" /\ todo # <<>> /\ Head(todo).kind = "inside" /\ Inside.kind \in kinds

ProcessBetweenSections ==
    /\ AtInside({"assign", "provide", "assert"})
    /\ defs' = Append(defs, Redirect(Inside, cursor.loc))
    /\ todo' = Tail(todo)
    /\ UNCHANGED <<scripts, phase, nth, rules, counters, sections, regions, cursor, events,
                   walk, values, failure>>

(* A location before the first section, when no earlier script has set     *)
(* one, is the base address; it is not emitted again with the section.     *)
ProcessSetLocation ==
    /\ AtInside({"location"})
    /\ LET isBase == cursor.section = 0 /\ cursor.before = 0
       IN  /\ cursor' = [cursor EXCEPT !.loc = <<"lc", cursor.last + 1, 0>>,
                                       !.last = @ + 1,
                                       !.start = IF isBase THEN Len(counters) + 1 ELSE @]
           /\ counters' = Append(counters, [expr |-> Inside.expr, loc |-> cursor.loc,
                                            section |-> 0, base |-> isBase])
    /\ todo' = Tail(todo)
    /\ UNCHANGED <<scripts, phase, nth, rules, sections, defs, regions, events, walk, values,
                   failure>>

(* The rules of /DISCARD/ come first; anything but patterns is an error.   *)
Patterns(cmd, outcome(_)) ==
    [i \in DOMAIN cmd.patterns |->
        SectionRule(cmd.patterns[i].name, cmd.file, outcome(cmd.patterns[i]))]
DiscardRules(sec) ==
    FlattenSeq([i \in DOMAIN sec.contents |->
        Patterns(sec.contents[i], LAMBDA p : <<"discard">>)])
DiscardFails(sec) ==
    /\ sec.name = "/DISCARD/"
    /\ \E i \in DOMAIN sec.contents : sec.contents[i].kind # "matcher"

(* acc: [secs, rules, counters, defs, last, sym, lc, start]                *)
ContentsMatcher(acc, cmd, p) ==
    LET own == acc.last # 0 \/ acc.lc # acc.start
        s == IF own THEN Len(acc.secs) + 1 ELSE p
    IN  [acc EXCEPT
          !.secs = IF own
                   THEN Append(@, [NewSection(acc.secs[p].name, p) EXCEPT
                                    !.lc = <<acc.start + 1, acc.lc>>, !.top = FALSE,
                                    !.region = acc.secs[p].region])
                   ELSE @,
          !.start = IF own THEN acc.lc ELSE @,
          !.rules = @ \o Patterns(cmd, LAMBDA q : <<"section", s, cmd.keep, q.sorted>>),
          !.last = s,
          !.sym = <<"endrel", s>>]

ContentsSetLocation(acc, cmd, p) ==
    [acc EXCEPT !.counters = Append(@, [expr |-> cmd.expr, loc |-> acc.sym, section |-> p,
                                        base |-> FALSE]),
                !.sym = <<"lc", acc.lc + 1, p>>,
                !.lc = @ + 1]

ContentsCommand(acc, cmd, p) ==
    CASE cmd.kind = "matcher" -> ContentsMatcher(acc, cmd, p)
      [] cmd.kind = "location" -> ContentsSetLocation(acc, cmd, p)
      [] cmd.kind \in {"assign", "provide", "assert"} ->
            [acc EXCEPT !.defs = Append(@, Redirect(cmd, acc.sym))]
      [] OTHER -> acc

(* Location counters at the end get a section of their own.                *)
TrailingCounters(acc, p) ==
    IF acc.lc = acc.start THEN acc
    ELSE [acc EXCEPT !.secs = Append(@, [NewSection(acc.secs[p].name, p) EXCEPT
                                           !.lc = <<acc.start + 1, acc.lc>>, !.top = FALSE,
                                           !.region = acc.secs[p].region])]

(* The section that a name stands for, with what the script says of it.    *)
AddNamedSection(sec) ==
    LET found == SectionNamed(sec.name)
        old == IF found = 0 THEN NewSection(sec.name, 0) ELSE sections[found]
        new == [old EXCEPT !.lc = <<cursor.start + 1, cursor.last>>, !.address = sec.address,
                           !.alignment = MaxOf({@, sec.alignment}),
                           !.region = IF sec.region = "none" THEN @ ELSE sec.region]
    IN  IF found = 0 THEN [id |-> Len(sections) + 1, secs |-> Append(sections, new)]
        ELSE [id |-> found, secs |-> [sections EXCEPT ![found] = new]]

ProcessSection ==
    /\ AtInside({"section"})
    /\ LET sec == Inside
           fill == EvaluateConst(sec.fill)
           named == AddNamedSection(sec)
           p == named.id
           start == [secs |-> named.secs, counters |-> counters, defs |-> defs, last |-> 0,
                     rules |-> IF sec.name = "/DISCARD/" THEN rules \o DiscardRules(sec) ELSE rules,
                     sym |-> <<"start", p>>, lc |-> cursor.last, start |-> cursor.last]
           all == TrailingCounters(FoldLeft(LAMBDA acc, cmd : ContentsCommand(acc, cmd, p),
                                            start, sec.contents), p)
       IN  IF DiscardFails(sec) THEN Fail("illegal use of /DISCARD/")
           ELSE IF sec.fill # <<"none">> /\ ~Ok(fill) THEN Fail("fill is not constant")
           ELSE /\ sections' = all.secs
                /\ rules' = all.rules
                /\ counters' = all.counters
                /\ defs' = all.defs
                /\ cursor' = [cursor EXCEPT !.section = p, !.loc = <<"end", p>>, !.last = all.lc,
                                           !.start = all.lc]
                /\ todo' = Tail(todo)
                /\ UNCHANGED <<scripts, phase, nth, regions, events, walk, values, failure>>

(* MEMORY: a script's last one counts; a name that two scripts define is   *)
(* an error, found when the layout begins.                                 *)
RegionValue(e) == EvaluateConst(e).v
ProcessMemory ==
    /\ phase = "process" /\ todo # <<>>
    /\ Head(todo).kind = "memory"
    /\ LET items == Head(todo).items
           names == {items[i].name : i \in DOMAIN items}
           named(n) == CHOOSE i \in DOMAIN items : items[i].name = n
           kept == {n \in DOMAIN regions : regions[n].script # nth}
           new(n) == [origin |-> RegionValue(items[named(n)].origin), script |-> nth,
                      length |-> RegionValue(items[named(n)].length), used |-> 0]
       IN  IF names \cap kept # {} \/ Cardinality(names) # Len(items)
           THEN Fail("region already defined")
           ELSE /\ regions' = [n \in names \cup kept |->
                                 IF n \in names THEN new(n) ELSE regions[n]]
                /\ todo' = Tail(todo)
                /\ UNCHANGED <<scripts, phase, nth, rules, counters, sections, defs, cursor,
                               events, walk, values, failure>>

(* ENTRY, VERSION, GROUP, PHDRS and arguments have no effect here.         *)
ProcessOther ==
    /\ phase = "process" /\ todo # <<>>
    /\ Head(todo).kind \in {"entry", "version", "group", "as_needed", "arg", "format", "phdrs"}
    /\ IF Head(todo).kind = "format" /\ Head(todo).default # "native"
       THEN Fail("output format")
       ELSE /\ todo' = Tail(todo)
            /\ UNCHANGED <<scripts, phase, nth, rules, counters, sections, defs, regions, cursor,
                           events, walk, values, failure>>

ScriptDone ==
    /\ phase = "process" /\ todo = <<>>
    /\ nth' = nth + 1
    /\ phase' = "parse"
    /\ UNCHANGED <<scripts, todo, rules, counters, sections, defs, regions, cursor, events, walk,
                   values, failure>>

(***************************************************************************)
(* The layout: inputs go to their sections, then the events of the output  *)
(* order are walked.                                                       *)
(***************************************************************************)

(* Inputs that no rule names get an output section with their own name.    *)
Place(acc, input) ==
    LET outcome == Lookup(Chars(input.name), input.file, input.flags)
        named == {s \in DOMAIN acc.secs : acc.secs[s].primary = 0 /\ acc.secs[s].name = input.name}
        custom == IF named = {} THEN Len(acc.secs) + 1 ELSE CHOOSE s \in named : TRUE
    IN  CASE outcome[1] = "discard" -> [acc EXCEPT !.place = Append(@, 0)]
          [] outcome[1] = "section" ->
                [acc EXCEPT !.place = Append(@, outcome[2]),
                            !.sorted = IF outcome[4] THEN @ \cup {Len(acc.place) + 1} ELSE @]
          [] OTHER -> [sorted |-> acc.sorted, secs |-> IF named = {} THEN Append(acc.secs, NewSection(input.name, 0))
                                ELSE acc.secs,
                       place |-> Append(acc.place, custom)]

BuildRules ==
    /\ phase = "parse"
    /\ nth > Len(scripts)
    /\ rules' = LinkerManaged(rules)
    /\ phase' = "place"
    /\ UNCHANGED <<scripts, todo, nth, counters, sections, defs, regions, cursor, events, walk,
                   values, failure>>

InputsOf(s) == {i \in DOMAIN InputSections : walk.place[i] = s}
IsAlloc(s) ==
    \/ sections[s].name \in {".text", ".data", ".bss"}
    \/ \E i \in DOMAIN InputSections :
         "A" \in InputSections[i].flags /\ walk.place[i] # 0 /\ PrimaryOf(walk.place[i]) = s

(* One NOBITS input makes its section, and the primary of that, NOBITS.    *)
HasDataInFile(s) ==
    /\ sections[s].name # ".bss"
    /\ \A i \in DOMAIN InputSections :
          ("N" \in InputSections[i].flags /\ walk.place[i] # 0) => PrimaryOf(walk.place[i]) # s

(* Location counters of a range, then the section.                         *)
EmitCounters(range) == [k \in 1 .. range[2] - range[1] + 1 |-> <<"counter", range[1] + k - 1>>]
AddSection(s) ==
    LET secondaries == SetToSortSeq({x \in DOMAIN sections : sections[x].primary = s}, <)
        one(x) == EmitCounters(sections[x].lc) \o <<<<"section", x>>>>
    IN  (IF sections[s].address # <<"none">> /\ IsAlloc(s) THEN <<<<"address", s>>>> ELSE <<>>)
        \o one(s) \o FlattenSeq([k \in DOMAIN secondaries |-> one(secondaries[k])])

(* Without PHDRS the order is the built-in one, whatever the order of the  *)
(* script; counters after the last emitted one come last.                  *)
OutputOrder ==
    LET primaries == SetToSortSeq({s \in DOMAIN sections : sections[s].primary = 0},
                         LAMBDA a, b : Rank[sections[a].name] < Rank[sections[b].name])
        all == FlattenSeq([k \in DOMAIN primaries |-> AddSection(primaries[k])])
        ends == {sections[s].lc[2] : s \in DOMAIN sections} \cup {0}
    IN  all \o EmitCounters(<<MaxOf(ends) + 1, Len(counters)>>)

PlaceInputs ==
    /\ phase = "place"
    /\ LET placed == FoldLeft(Place, [secs |-> sections, place |-> <<>>, sorted |-> {}],
                             InputSections)
       IN  /\ sections' = placed.secs
           /\ walk' = [place |-> placed.place, sorted |-> placed.sorted]
    /\ phase' = "order"
    /\ UNCHANGED <<scripts, todo, nth, rules, counters, defs, regions, cursor, events, values,
                   failure>>

(* Symbols while the layout is in progress: those of objects by the place  *)
(* of their section, if it is laid out, those of scripts by evaluating     *)
(* their expression, a cycle as 0.                                         *)
ScriptNames == {defs[i].name : i \in DOMAIN defs} \ {""}
DefSymNames == {DefSyms[i].name : i \in DOMAIN DefSyms}
Names == DOMAIN ObjectSymbols \cup ScriptNames \cup DefSymNames
FirstDef(n) == CHOOSE i \in DOMAIN defs : defs[i].name = n /\ \A j \in 1 .. i - 1 : defs[j].name # n
DefSymExpr(n) == (CHOOSE d \in Range(DefSyms) : d.name = n).expr

(* What an input takes of its part, the inputs of its alignment.           *)
Padded(i) == AlignUp(InputSections[i].alignment, InputSections[i].size)
PartOf(i) == <<walk.place[i], InputSections[i].alignment>>
PartAlignments(s) ==
    SetToSortSeq({InputSections[i].alignment : i \in InputsOf(s)}, LAMBDA a, b : a > b)

(* Mutant: sorted inputs are counted like the others.                      *)
EarlyPositionOfAll(i) ==
    FoldLeft(LAMBDA acc, j : IF PartOf(j) = PartOf(i) THEN acc + Padded(j) ELSE acc,
             0, [j \in 1 .. i - 1 |-> j])

(* The position of an input in its part while sections are being laid out: *)
(* sorted inputs have none yet, nor do they take room before the others.   *)
EarlyPosition(i) ==
    FoldLeft(LAMBDA acc, j : IF PartOf(j) = PartOf(i) /\ j \notin walk.sorted
                             THEN acc + Padded(j) ELSE acc,
             0, [j \in 1 .. i - 1 |-> j])

(* The symbol of an object then: relative to the part of its section.      *)
ResolveEarlyObjectSymbol(n, layouts) ==
    LET o == ObjectSymbols[n]
        s == walk.place[o.input]
        a == InputSections[o.input].alignment
        error(message) == [kind |-> "error", section |-> 0, v |-> message]
    IN  CASE o.input = 0 -> [kind |-> "absolute", section |-> 0, v |-> o.offset]
          [] o.input # 0 /\ s = 0 -> error("no early layout")
          [] o.input # 0 /\ s # 0 /\ o.input \in walk.sorted -> error("sorted section")
          [] o.input # 0 /\ s # 0 /\ o.input \notin walk.sorted /\ ~layouts[s].done ->
                error("part not laid out")
          [] OTHER -> [kind |-> "part", section |-> s,
                       v |-> layouts[s].parts[a] + EarlyPosition(o.input) + o.offset]

(* The addresses of the inputs in the end: file by file through the parts, *)
(* then the sorted inputs, by name, behind the others of their part.       *)
TakeAddress(acc, i) ==
    LET s == walk.place[i]
        a == InputSections[i].alignment
        at == AlignUp(a, acc.offsets[s][a])
    IN  [offsets |-> [acc.offsets EXCEPT ![s][a] = at + Padded(i)],
         address |-> [acc.address EXCEPT ![i] = at]]
FinaliseSections ==
    LET inputs == [i \in DOMAIN InputSections |-> i]
        unsorted == SelectSeq(inputs, LAMBDA i : walk.place[i] # 0 /\ i \notin walk.sorted)
        harvested == SetToSortSeq(walk.sorted, LAMBDA i, j :
                        \/ InputSections[i].order < InputSections[j].order
                        \/ InputSections[i].order = InputSections[j].order /\ i < j)
        start == [offsets |-> [s \in DOMAIN sections |-> walk.layouts[s].parts],
                  address |-> [i \in DOMAIN InputSections |-> 0]]
    IN  FoldLeft(TakeAddress, start, unsorted \o harvested).address

RECURSIVE SymbolsIn(_)
SymbolsIn(e) ==
    CASE e[1] = "sym" -> {e[2]}
      [] e[1] = "SEGMENT_START" -> SymbolsIn(e[3])
      [] e[1] \in Binary \cup DOMAIN Unary \cup {"?", "MIN", "MAX", "ALIGN", "ASSERT"} ->
            UNION {SymbolsIn(e[i]) : i \in 2 .. Len(e)}
      [] OTHER -> {}

SymbolValue(x, here) ==
    IF ~Ok(x) THEN [kind |-> "error", section |-> 0, v |-> x.error]
    ELSE [kind |-> IF here # 0 THEN "section" ELSE "absolute", section |-> here, v |-> x.v]

RECURSIVE EarlySymbols(_, _, _)
EarlySymbol(n, loc, expr, c, visited) ==
    IF n \in DOMAIN ObjectSymbols THEN ResolveEarlyObjectSymbol(n, c.layouts)
    ELSE IF n \in visited THEN [kind |-> "absolute", section |-> 0, v |-> 0]
    ELSE SymbolValue(
            EvaluateExpression(expr,
                [c EXCEPT !.loc = loc, !.symbols = EarlySymbols(expr, c, visited \cup {n})]),
            RelativeSection(loc))

(* The symbols of an expression.                                           *)
EarlySymbols(e, c, visited) ==
    [n \in SymbolsIn(e) \cap Names |->
        EarlySymbol(n, IF n \in ScriptNames THEN defs[FirstDef(n)].loc ELSE <<"none">>,
                    IF n \in ScriptNames THEN defs[FirstDef(n)].expr
                    ELSE IF n \in DefSymNames THEN DefSymExpr(n) ELSE <<"num", 0>>,
                    c, visited)]

WithSymbols(e, c) == [c EXCEPT !.symbols = EarlySymbols(e, c, {})]
EarlyContextWith(loc, e, lcs) ==
    WithSymbols(e, [loc |-> loc, layouts |-> walk.layouts, lcs |-> lcs, known |-> Names,
                    symbols |-> <<>>])
EarlyContext(loc, e) == EarlyContextWith(loc, e, walk.lcs)

(* What an expression used of the symbols, and what was still to be laid   *)
(* out, for the comparison with their final values.                        *)
UsedEarly(c, left) ==
    {[name |-> n, v |-> c.symbols[n].v, left |-> left] : n \in {m \in DOMAIN c.symbols : c.symbols[m].kind # "error"}}

EmptyLayout == [mem |-> 0, size |-> 0, alignment |-> 1, parts |-> <<>>, done |-> FALSE]

(* The base address comes first: no section is laid out and there are no   *)
(* location counters to go by.                                             *)
StartLayout ==
    /\ phase = "order"
    /\ LET bases == {i \in DOMAIN counters : counters[i].base}
           expr == IF bases = {} THEN <<"num", Base>> ELSE counters[MaxOf(bases)].expr
           blank == [place |-> walk.place, sorted |-> walk.sorted, address |-> <<>>,
                     layouts |-> [s \in DOMAIN sections |-> EmptyLayout],
                     lcs |-> [i \in DOMAIN counters |-> [value |-> 0, offset |-> 0]],
                     mem |-> 0, pending |-> <<>>, early |-> {}]
           none == WithSymbols(expr, [loc |-> <<"none">>, layouts |-> blank.layouts, lcs |-> <<>>,
                                      known |-> Names, symbols |-> <<>>])
           base == EvaluateExpression(expr, none)
       IN  IF ~Ok(base) THEN Fail(base.error)
           ELSE /\ events' = OutputOrder
                /\ walk' = [blank EXCEPT !.mem = base.v + HeaderSize,
                                         !.early = UsedEarly(none, Range(events')),
                                         !.lcs = [i \in DOMAIN @ |->
                                                    IF i = 1 THEN [value |-> base.v, offset |-> 0]
                                                    ELSE @[i]]]
                /\ phase' = "layout"
                /\ UNCHANGED <<scripts, todo, nth, rules, counters, sections, defs, regions,
                               cursor, values, failure>>

AtEvent(kind) == phase = "layout" /\ events # <<>> /\ Head(events)[1] = kind
Subject == Head(events)[2]

(* The layout goes on from a new location.                                 *)
GoTo(x, here, after) ==
    IF ~Ok(x) THEN Fail(x.error)
    ELSE /\ walk' = [after EXCEPT !.pending = <<x.v>>, !.early = @ \cup UsedEarly(here, Range(events))]
         /\ events' = Tail(events)
         /\ UNCHANGED <<scripts, phase, todo, nth, rules, counters, sections, defs, regions,
                        cursor, values, failure>>

(* A location between sections; after a section it stands where the layout *)
(* has got to.                                                             *)
Located(i, x) == [walk EXCEPT !.lcs[i] = [value |-> x.v, offset |-> 0]]
AbsoluteContext(lc) ==
    IF lc.loc[1] # "end" THEN EarlyContext(lc.loc, lc.expr)
    ELSE EarlyContextWith(<<"lc", Subject, 0>>, lc.expr,
                          [walk.lcs EXCEPT ![Subject] = [value |-> walk.mem, offset |-> 0]])
SetLocationAt(lc, here) ==
    LET x == EvaluateExpression(lc.expr, here) IN GoTo(x, here, Located(Subject, x))
SetLocation ==
    /\ AtEvent("counter") /\ counters[Subject].section = 0
    /\ SetLocationAt(counters[Subject], AbsoluteContext(counters[Subject]))

LocatedIn(i, x, base) == [walk EXCEPT !.lcs[i] = [value |-> x.v, offset |-> x.v - base]]
SetLocationIn(lc, here) ==
    LET x == EvaluateExpression(lc.expr, here)
    IN  GoTo(x, here, LocatedIn(Subject, x, walk.layouts[PrimaryOf(lc.section)].mem))
SetLocationRelative ==
    /\ AtEvent("counter") /\ counters[Subject].section # 0
    /\ SetLocationIn(counters[Subject],
                     EarlyContext(counters[Subject].loc, counters[Subject].expr))

(* A section with an address of its own starts a segment, which takes the  *)
(* layout to that address, back too.                                       *)
SetAddress(e, here) ==
    LET x == EvaluateExpression(e, here) IN GoTo(x, here, [walk EXCEPT !.mem = x.v])
SetSectionAddress ==
    /\ AtEvent("address")
    /\ SetAddress(sections[Subject].address,
                  EarlyContext(<<"none">>, sections[Subject].address))

SectionAlignment(s) == MaxOf({sections[s].alignment} \cup {InputSections[i].alignment : i \in InputsOf(s)})
PartSize(s, a) ==
    FoldLeft(LAMBDA acc, i : IF PartOf(i) = <<s, a>> THEN acc + Padded(i) ELSE acc,
             0, [i \in DOMAIN InputSections |-> i])

(* The parts of a section one after another; the first one has the         *)
(* alignment of the section.                                               *)
LayOutParts(s, from) ==
    LET start == AlignUp(SectionAlignment(s), from)
        add(acc, a) == [end |-> AlignUp(a, acc.end) + PartSize(s, a),
                        parts |-> [b \in DOMAIN acc.parts \cup {a} |->
                                    IF b = a THEN AlignUp(a, acc.end) ELSE acc.parts[b]]]
        all == FoldLeft(add, [end |-> start, parts |-> <<>>], PartAlignments(s))
    IN  [mem |-> start, size |-> all.end - start, alignment |-> SectionAlignment(s),
         parts |-> all.parts, done |-> TRUE]

(* A section takes the pending location, which may not lie outside its     *)
(* region nor, with data in the file, before what is already laid out.     *)
LayOutSection ==
    /\ AtEvent("section")
    /\ LET s == Subject
           p == PrimaryOf(s)
           r == sections[s].region
           unknown == r # "none" /\ r \notin DOMAIN regions
           inRegion == r # "none" /\ ~unknown
           mem == IF inRegion THEN regions[r].origin + regions[r].used ELSE walk.mem
           asked == walk.pending # <<>>
           at == IF asked THEN Head(walk.pending) ELSE mem
           alloc == IsAlloc(p)
           moves == (s = p \/ ~sections[s].top) /\ alloc /\ HasDataInFile(p)
           laid == LayOutParts(s, IF alloc THEN at ELSE 0)
           end == IF alloc THEN laid.mem + laid.size ELSE at
       IN  IF unknown THEN Fail("region not declared")
           ELSE IF asked /\ inRegion /\ (at < mem \/ at > mem + regions[r].length)
           THEN Fail("not within region")
           ELSE IF asked /\ moves /\ at < mem THEN Fail("location moves backwards")
           ELSE IF inRegion /\ end > regions[r].origin + regions[r].length
           THEN Fail("region overflowed")
           ELSE /\ walk' = [walk EXCEPT !.pending = <<>>, !.mem = end, !.layouts[s] = laid]
                /\ regions' = IF inRegion
                              THEN [regions EXCEPT ![r].used = end - regions[r].origin]
                              ELSE regions
                /\ events' = Tail(events)
                /\ UNCHANGED <<scripts, phase, todo, nth, rules, counters, sections, defs, cursor,
                               values, failure>>

LayoutDone ==
    /\ phase = "layout" /\ events = <<>>
    /\ phase' = "late"
    /\ nth' = 1
    /\ walk' = [walk EXCEPT !.address = FinaliseSections]
    /\ values' = [n \in ScriptNames \cup DefSymNames |-> 0]
    /\ UNCHANGED <<scripts, todo, rules, counters, sections, defs, regions, cursor, events,
                   failure>>

(***************************************************************************)
(* The final values, --defsym first, then the scripts in order.            *)
(***************************************************************************)

(* A section and its secondaries as one.                                   *)
MergeSecondaryParts ==
    [s \in DOMAIN sections |->
        LET all == {s} \cup {x \in DOMAIN sections : sections[x].primary = s}
            end == MaxOf({walk.layouts[x].mem + walk.layouts[x].size : x \in all})
        IN  IF sections[s].primary # 0 THEN EmptyLayout
            ELSE [walk.layouts[s] EXCEPT !.size = end - walk.layouts[s].mem,
                                         !.alignment = MaxOf({walk.layouts[x].alignment : x \in all})]]

FinalObjectSymbol(n) ==
    LET o == ObjectSymbols[n]
        s == walk.place[o.input]
    IN  CASE o.input = 0 -> [kind |-> "absolute", section |-> 0, v |-> o.offset]
          [] o.input # 0 /\ s = 0 -> [kind |-> "error", section |-> 0, v |-> "no resolution"]
          [] OTHER -> [kind |-> "section", section |-> s, v |-> walk.address[o.input] + o.offset]

LateSymbol(n) ==
    LET here == RelativeSection(defs[FirstDef(n)].loc)
    IN  IF n \in DOMAIN ObjectSymbols THEN FinalObjectSymbol(n)
        ELSE IF n \in ScriptNames /\ here # 0
        THEN [kind |-> "section", section |-> here, v |-> values[n]]
        ELSE [kind |-> "absolute", section |-> 0, v |-> values[n]]

LateContext(loc, lcs) ==
    [loc |-> loc, lcs |-> lcs, known |-> Names, symbols |-> [n \in Names |-> LateSymbol(n)],
     layouts |-> IF loc[1] \in {"start", "endrel", "lc"} THEN walk.layouts ELSE MergeSecondaryParts]

(* An assertion that does not hold, like any error, ends the link.         *)
UpdateSymbol(name, x) ==
    IF ~Ok(x) THEN Fail(x.error)
    ELSE /\ values' = IF name = "" THEN values ELSE [values EXCEPT ![name] = x.v]
         /\ nth' = nth + 1
         /\ UNCHANGED <<scripts, phase, todo, rules, counters, sections, defs, regions, cursor,
                        events, walk, failure>>

UpdateDefSym ==
    /\ phase = "late" /\ nth <= Len(DefSyms)
    /\ UpdateSymbol(DefSyms[nth].name,
                    EvaluateExpression(DefSymExpr(DefSyms[nth].name), LateContext(<<"none">>, <<>>)))

UpdateRedirect ==
    /\ phase = "late" /\ nth > Len(DefSyms) /\ nth <= Len(DefSyms) + Len(defs)
    /\ LET d == defs[nth - Len(DefSyms)]
       IN  UpdateSymbol(d.name, EvaluateExpression(d.expr, LateContext(d.loc, walk.lcs)))

LateDone ==
    /\ phase = "late" /\ nth > Len(DefSyms) + Len(defs)
    /\ phase' = "done"
    /\ UNCHANGED <<scripts, todo, nth, rules, counters, sections, defs, regions, cursor, events,
                   walk, values, failure>>

Stopped == phase \in {"done", "failed"} /\ UNCHANGED vars

Next ==
    \/ ParseScript \/ ProcessGlobal \/ ProcessBegin \/ ProcessBetweenSections
    \/ ProcessSetLocation \/ ProcessSection \/ ProcessMemory \/ ProcessOther \/ ScriptDone
    \/ BuildRules \/ PlaceInputs \/ StartLayout
    \/ SetLocation \/ SetLocationRelative \/ SetSectionAddress \/ LayOutSection \/ LayoutDone
    \/ UpdateDefSym \/ UpdateRedirect \/ LateDone
    \/ Stopped

Spec == Init /\ [][Next]_vars

(***************************************************************************)
(* Properties.                                                             *)
(***************************************************************************)

(* An assignment of these tokens is in some script.                        *)
WrittenAs(name, tokens) ==
    \E k \in DOMAIN scripts : \E i \in 1 .. Len(scripts[k].tokens) - Len(tokens) - 2 :
        SubSeq(scripts[k].tokens, i, i + Len(tokens) + 2) = <<name, "=">> \o tokens \o <<";">>

(* The parser groups an expression by the precedence of its operators and  *)
(* from the left: without parentheses, the tree of an assigned expression  *)
(* reads back as the tokens of the script, and no operator is the operand  *)
(* of one that binds more tightly (linker_script.rs, parse_ternary to      *)
(* parse_unary).                                                           *)
ParsesByPrecedence ==
    \A i \in DOMAIN defs :
        defs[i].name \in {"p", "q"} =>
            WrittenAs(defs[i].name, Unparse(defs[i].expr)) /\ Grouped(defs[i].expr)

(* What the scripts say, item by item: input patterns and places of dot.   *)
DotItem(cmd) ==
    IF cmd.kind = "assign" /\ cmd.expr = <<".">> THEN <<[kind |-> "dot", name |-> cmd.name]>> ELSE <<>>
ContentsItems(sec) ==
    FlattenSeq([j \in DOMAIN sec.contents |->
        LET cmd == sec.contents[j]
        IN  IF cmd.kind # "matcher" THEN DotItem(cmd)
            ELSE [q \in DOMAIN cmd.patterns |->
                    [kind |-> "inputs", section |-> sec.name, file |-> cmd.file,
                     pattern |-> cmd.patterns[q].name]]])
SectionCommands ==
    LET parsed == [k \in DOMAIN scripts |-> scripts[k].parsed.what]
        all == FlattenSeq(parsed)
    IN  FlattenSeq([k \in DOMAIN all |-> IF all[k].kind = "sections" THEN all[k].items ELSE <<>>])
Items(commands) ==
    FlattenSeq([j \in DOMAIN commands |->
        IF commands[j].kind = "section" THEN ContentsItems(commands[j]) ELSE DotItem(commands[j])])
Selects(item, i) ==
    LET in == InputSections[i]
        p == Chars(item.pattern)
    IN  /\ item.kind = "inputs"
        /\ item.file = "any" \/ item.file = in.file
        /\ IF PatternType(p) \in {"star", "nonstar"} THEN GlobMatches(p, Chars(in.name))
           ELSE Unescape(p) = Chars(in.name)
(* [input -> the first item that selects it, or 0]                         *)
Selected(items) ==
    [i \in DOMAIN InputSections |->
        LET found == {k \in DOMAIN items : Selects(items[k], i)}
        IN  IF found = {} THEN 0 ELSE CHOOSE k \in found : \A j \in found : k <= j]

(* Patterns with a wildcard among the characters that the rules are hashed *)
(* by are never found (README, observations).                              *)
Hashable(items) ==
    \A k \in DOMAIN items :
        items[k].kind = "inputs" =>
            \A c \in 1 .. KeyLength :
                c \in DOMAIN Chars(items[k].pattern) =>
                    Chars(items[k].pattern)[c] \notin {"*", "?", "[", "\\"}

(* An input goes where the first statement of the scripts that names it    *)
(* sends it, although the rules are found through a hash table keyed by    *)
(* the first characters and every file match is a rule of its own          *)
(* (layout_rules.rs, lookup).                                              *)
RulesFollowTheScript ==
    phase = "order" =>
        LET items == Items(SectionCommands)
            selected == Selected(items)
            ok(i, item) == IF item.section = "/DISCARD/" THEN walk.place[i] = 0
                           ELSE walk.place[i] # 0
                                /\ sections[PrimaryOf(walk.place[i])].name = item.section
        IN  Hashable(items) =>
                \A i \in DOMAIN InputSections :
                    (selected[i] # 0 /\ "E" \notin InputSections[i].flags) =>
                        ok(i, items[selected[i]])

(* Scripts that name their sections in the order of the output, each once, *)
(* without addresses, and with at most one location before the first.      *)
InOutputOrder(commands) ==
    LET secs == SelectSeq(commands, LAMBDA c : c.kind = "section")
        early == {j \in DOMAIN commands :
                    /\ commands[j].kind = "location"
                    /\ \A m \in 1 .. j : commands[m].kind # "section"}
    IN  /\ \A a, b \in DOMAIN secs : a < b => Rank[secs[a].name] < Rank[secs[b].name]
        /\ \A a \in DOMAIN secs :
              /\ secs[a].name = "/DISCARD/" \/ IsAlloc(SectionNamed(secs[a].name))
              /\ secs[a].region = "none" /\ secs[a].address = <<"none">>
        /\ Cardinality(early) <= 1
DefinedOnce(n) == Cardinality({i \in DOMAIN defs : defs[i].name = n}) = 1

(* The addresses that an item stands for: [from, to].                      *)
Spans(k, items, selected) ==
    IF items[k].kind = "dot"
    THEN IF DefinedOnce(items[k].name)
         THEN {[from |-> values[items[k].name], to |-> values[items[k].name]]} ELSE {}
    ELSE {[from |-> walk.address[i], to |-> walk.address[i] + InputSections[i].size] :
            i \in {j \in DOMAIN InputSections : selected[j] = k /\ walk.place[j] # 0}}

(* Dot is where the script has got to: a symbol that is set to it between  *)
(* two groups of inputs lies after the first and before the second, and    *)
(* the values of such symbols never go down, whatever the location         *)
(* counters, alignments and secondary sections between them                *)
(* (layout_rules.rs, process_linker_script; expression_eval.rs,            *)
(* evaluate_location).                                                     *)
DotFollowsTheScript ==
    phase = "done" =>
        LET commands == SectionCommands
            items == Items(commands)
            selected == Selected(items)
            spans == [k \in DOMAIN items |-> Spans(k, items, selected)]
            apart(k, m) == \E j \in k .. m : items[j].kind = "dot"
        IN  (Hashable(items) /\ InOutputOrder(commands)) =>
                \A k, m \in DOMAIN items :
                    (k < m /\ apart(k, m)) =>
                        \A e \in spans[k], s \in spans[m] : e.to <= s.from

(* Symbols whose value does not depend on how far the evaluation is, at a  *)
(* use when the events left were still to come.  Each name in their        *)
(* expression is one of an object, in the same section if the expression   *)
(* is relative to one, or is defined earlier; none is assigned twice.  The *)
(* place where they stand, and each section they ask about, is laid out    *)
(* already (a location counter or section that is still to come counts as  *)
(* 0) and, if its end or size matters, has no secondaries, which are added *)
(* to it in the end (README, observations).                                *)
HasSecondaries(s) == \E x \in DOMAIN sections : sections[x].primary = s
LaidOut(s, left) == <<"section", s>> \notin left
PlaceSettled(loc, left) ==
    CASE loc[1] = "start" -> LaidOut(loc[2], left)
      [] loc[1] = "endrel" -> LaidOut(loc[2], left) /\ LaidOut(PrimaryOf(loc[2]), left)
      [] loc[1] = "end" -> LaidOut(loc[2], left) /\ ~HasSecondaries(loc[2])
      [] loc[1] = "lc" -> <<"counter", loc[2]>> \notin left
      [] OTHER -> TRUE
RECURSIVE SectionsIn(_)
SectionsIn(e) ==
    CASE e[1] \in {"SIZEOF", "ALIGNOF", "ADDR", "LOADADDR"} -> {SectionNamed(e[2])} \ {0}
      [] e[1] = "SEGMENT_START" -> SectionsIn(e[3])
      [] e[1] \in Binary \cup DOMAIN Unary \cup {"?", "MIN", "MAX", "ALIGN", "ASSERT"} ->
            UNION {SectionsIn(e[i]) : i \in 2 .. Len(e)}
      [] OTHER -> {}
InSameSection(m, loc) ==
    \/ RelativeSection(loc) = 0
    \/ ObjectSymbols[m].input = 0
    \/ PrimaryOf(walk.place[ObjectSymbols[m].input]) = RelativeSection(loc)
RECURSIVE Settled(_, _)
Settled(n, left) ==
    \/ n \in DOMAIN ObjectSymbols
    \/ /\ n \in ScriptNames \ DefSymNames
       /\ DefinedOnce(n)
       /\ LET d == defs[FirstDef(n)]
          IN  /\ PlaceSettled(d.loc, left)
              /\ \A s \in SectionsIn(d.expr) : LaidOut(s, left) /\ ~HasSecondaries(s)
              /\ \A m \in SymbolsIn(d.expr) :
                    /\ Settled(m, left)
                    /\ m \in ScriptNames => FirstDef(m) < FirstDef(n)
                    /\ m \in DOMAIN ObjectSymbols => InSameSection(m, d.loc)

(* The value of a symbol that a location counter or an address was         *)
(* computed from, while sections were being laid out, is the value that    *)
(* the symbol has in the end: a symbol of an object although it was found  *)
(* by its position in a part then and by walking all files in the end, a   *)
(* symbol of a script although sections and counters after the use were    *)
(* unknown then (layout.rs, resolve_early_object_symbol, finalise_layout;  *)
(* expression_eval.rs, evaluate_early_expression; layout.rs,               *)
(* update_redirect_resolutions).                                           *)
EarlyIsFinal ==
    phase = "done" =>
        \A u \in walk.early :
            Settled(u.name, u.left) =>
                u.v = IF u.name \in DOMAIN ObjectSymbols THEN FinalObjectSymbol(u.name).v
                      ELSE values[u.name]

(* The output is placed as the script says: expressions mean what they     *)
(* say, inputs go where the first matching statement sends them, and dot   *)
(* is where the script has got to.                                         *)
PlacedByTheScript == ParsesByPrecedence /\ RulesFollowTheScript /\ DotFollowsTheScript
=============================================================================
