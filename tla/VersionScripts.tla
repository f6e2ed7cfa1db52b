--------------------------- MODULE VersionScripts ---------------------------
(***************************************************************************)
(* Version scripts and export lists, over tokens: which names stay local,  *)
(* which version a name gets, and which names are exported.                *)
(*                                                                         *)
(* A body has lists of entries, globals and locals; an entry has the       *)
(* matchers of one statement and the language of the extern block it came  *)
(* from ("" outside of one).  A script without version names is kept in a  *)
(* special form, "rust", when it names its globals and makes everything    *)
(* else local.  Versions are numbered from 0, the unnamed base version.    *)
(*                                                                         *)
(* Where a script ends inside an extern block the parser reads the same    *)
(* text again and again; the model treats that as an error.                *)
(***************************************************************************)
EXTENDS ScriptParser, GlobPatterns

CONSTANT Demangled      \* [name -> characters of its demangled form]

(***************************************************************************)
(* The parser.                                                             *)
(***************************************************************************)
SymbolMatcher(text) ==
    LET quoted == Len(text) > 1 /\ text[1] = "\"" /\ text[Len(text)] = "\""
        kind == IF text = <<"*">> THEN "all" ELSE PatternType(text)
    IN  CASE quoted -> [kind |-> "exact", name |-> SubSeq(text, 2, Len(text) - 1)]
          [] ~quoted /\ kind = "escaped" -> [kind |-> kind, name |-> Unescape(text)]
          [] OTHER -> [kind |-> kind, name |-> text]

(* The text up to a token; text of several words matches no name.          *)
TextOf(tokens) == IF Len(tokens) = 1 THEN Chars(tokens[1]) ELSE <<"several", "words">>
Positions(t, token) == {i \in DOMAIN t : t[i] = token}
FirstOf(S) == CHOOSE i \in S : \A j \in S : i <= j
LastOf(S) == CHOOSE i \in S : \A j \in S : j <= i

ParseName(t, stop) ==
    LET n == FirstOf(Positions(t, stop)) - 1
    IN  IF Positions(t, stop) = {} \/ n = 0 THEN NoParse
        ELSE Parsed([extern |-> "", matchers |-> <<SymbolMatcher(TextOf(SubSeq(t, 1, n)))>>],
                    Skip(Drop(t, n), ";"))

(* In an extern block the last name may come without a semicolon.          *)
ExternItem(t) ==
    LET closes == {i \in DOMAIN t : t[i] = "}" /\ Nth(t, i + 1) = ";"}
        expectSemicolon == closes # {} /\ \E i \in Positions(t, ";") : i < FirstOf(closes)
    IN  IF At(t, "extern") THEN NoParse
        ELSE As(ParseName(t, IF expectSemicolon THEN ";" ELSE "}"), LAMBDA e : e.matchers[1])

ParseSymbolMatcher(t) ==
    IF ~At(t, "extern") THEN ParseName(t, ";")
    ELSE IF Nth(t, 2) \notin {"C", "C++"} \/ Nth(t, 3) # "{" THEN NoParse
    ELSE As(Then(RepeatTill(ExternItem, "}", Drop(t, 3)), ";"),
            LAMBDA ms : [extern |-> Nth(t, 2), matchers |-> ms])

(* The statements between braces.                                          *)
ParseVersionSection(t) ==
    LET RECURSIVE more(_, _, _)
        more(section, body, rest) ==
            CASE At(rest, "}") -> Parsed(body, Tail(rest))
              [] At(rest, "global:") -> more("globals", body, Tail(rest))
              [] At(rest, "local:") -> more("locals", body, Tail(rest))
              [] OTHER -> Bind(ParseSymbolMatcher(rest), LAMBDA p :
                            more(section, [body EXCEPT ![section] = Append(@, p.what)], p.rest))
    IN  IF At(t, "{") THEN more("globals", [globals |-> <<>>, locals |-> <<>>], Tail(t))
        ELSE NoParse

Version(name, parent, body) == [name |-> name, parent |-> parent, body |-> body]
EmptyBody == [globals |-> <<>>, locals |-> <<>>]
Regular(versions) == [form |-> "regular", global |-> {}, versions |-> versions]
NoScript == Regular(<<>>)

(* Only names among the globals, and everything else local.                *)
IsSingle(entry, kind) == entry.extern = "" /\ entry.matchers[1].kind = kind
RustLike(body) ==
    /\ \E i \in DOMAIN body.locals : IsSingle(body.locals[i], "all")
    /\ \A i \in DOMAIN body.globals : IsSingle(body.globals[i], "exact")

SimpleScript(body) ==
    IF RustLike(body)
    THEN [form |-> "rust", versions |-> <<>>,
          global |-> {body.globals[i].matchers[1].name : i \in DOMAIN body.globals}]
    ELSE Regular(<<Version("", 0, body)>>)

(* name { body } parent ; The parent is an earlier version.                *)
ParseVersions(t) ==
    LET RECURSIVE more(_, _)
        more(read, rest) ==
            IF rest = <<>> THEN Parsed(read, <<>>)
            ELSE Bind(ParseVersionSection(Tail(rest)), LAMBDA p :
                    LET named == IF At(p.rest, ";") THEN {1}
                                 ELSE {i \in DOMAIN read : read[i].name = Head(p.rest)}
                        v == Version(Head(rest), FirstOf(named) - 1, p.what)
                    IN  IF Positions(p.rest, ";") = {} \/ named = {} THEN NoParse
                        ELSE IF At(p.rest, ";") THEN more(Append(read, v), Tail(p.rest))
                        ELSE IF Nth(p.rest, 2) = ";" THEN more(Append(read, v), Drop(p.rest, 2))
                        ELSE NoParse)
    IN  more(<<Version("", 0, EmptyBody)>>, t)

ParseVersionScript(t) ==
    IF At(t, "{")
    THEN Bind(Then(ParseVersionSection(t), ";"), LAMBDA p :
            IF p.rest = <<>> THEN Parsed(SimpleScript(p.what), <<>>) ELSE NoParse)
    ELSE As(ParseVersions(t), Regular)

ParseExportList(t) ==
    IF ~At(t, "{") THEN NoParse
    ELSE Then(RepeatTill(ParseSymbolMatcher, "}", Tail(t)), ";")

(***************************************************************************)
(* Matching.                                                               *)
(***************************************************************************)
Hits(entry, kinds, name) ==
    LET text == IF entry.extern = "C++" THEN Demangled[name] ELSE Chars(name)
    IN  \E i \in DOMAIN entry.matchers :
            LET m == entry.matchers[i]
            IN  /\ m.kind \in kinds
                /\ CASE m.kind \in {"exact", "escaped"} -> m.name = text
                     [] m.kind \in {"star", "nonstar"} -> GlobMatches(m.name, text)
                     [] OTHER -> TRUE
AnyHits(list, kinds, name) == \E i \in DOMAIN list : Hits(list[i], kinds, name)
Cxx(list) == SelectSeq(list, LAMBDA e : e.extern = "C++")
NotCxx(list) == SelectSeq(list, LAMBDA e : e.extern # "C++")

(* In one version, names in their own form come before demangled ones.     *)
ExactIn(body, name) ==
    LET order == << <<NotCxx(body.globals), "global">>, <<NotCxx(body.locals), "local">>,
                    <<Cxx(body.globals), "global">>, <<Cxx(body.locals), "local">> >>
        hits == {i \in 1 .. 4 : AnyHits(order[i][1], {"exact", "escaped"}, name)}
    IN  IF hits = {} THEN "none" ELSE order[FirstOf(hits)][2]

PatternIn(body, kind, name) ==
    CASE AnyHits(body.globals, {kind}, name) -> "global"
      [] ~AnyHits(body.globals, {kind}, name) /\ AnyHits(body.locals, {kind}, name) -> "local"
      [] OTHER -> "none"

(* The first version with the exact name; otherwise the last one with a    *)
(* pattern, those without a star before those with one.                    *)
FindMatch(versions, name) ==
    LET exact == {i \in DOMAIN versions : ExactIn(versions[i].body, name) # "none"}
        with(kind) == {i \in DOMAIN versions : PatternIn(versions[i].body, kind, name) # "none"}
        last(kind) == LET i == LastOf(with(kind))
                      IN  <<i - 1, PatternIn(versions[i].body, kind, name)>>
    IN  CASE exact # {} -> <<FirstOf(exact) - 1, ExactIn(versions[FirstOf(exact)].body, name)>>
          [] exact = {} /\ with("nonstar") # {} -> last("nonstar")
          [] exact \cup with("nonstar") = {} /\ with("star") # {} -> last("star")
          [] exact \cup with("nonstar") \cup with("star") = {} /\ with("all") # {} -> last("all")
          [] OTHER -> <<0, "none">>

IsLocal(script, name) == FindMatch(script.versions, name)[2] = "local"

(* Versions that are written, the base version included.                   *)
VersionCount(script) == IF Len(script.versions) = 1 THEN 0 ELSE Len(script.versions)
ParentCount(script) == Len(SelectSeq(script.versions, LAMBDA v : v.parent > 0))

(* The version index of a definition: 1 is global, 0 is an error.          *)
VersionForSymbol(script, name, version) ==
    LET named == {i \in DOMAIN script.versions : i > 1 /\ script.versions[i].name = version}
        number == FindMatch(script.versions, name)[1]
    IN  CASE script.form = "rust" -> 1
          [] script.form # "rust" /\ version = "none" -> 1 + number
          [] script.form # "rust" /\ version = "" -> 1
          [] OTHER -> IF named = {} THEN 0 ELSE LastOf(named)

ExportListContains(list, name) ==
    AnyHits(list, {"exact", "escaped", "nonstar", "star", "all"}, name)
=============================================================================
