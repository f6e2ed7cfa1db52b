---------------------------- MODULE GlobPatterns ----------------------------
(***************************************************************************)
(* The patterns that section rules, version scripts and export lists       *)
(* share.  A pattern and a name are sequences of characters.               *)
(*                                                                         *)
(* Left out: sets of characters in brackets.                               *)
(***************************************************************************)
EXTENDS Integers, Sequences

CONSTANT Spelling       \* [name or pattern -> its characters]

Chars(name) == Spelling[name]

(* The backslashes that escape the character after them.                   *)
Escapes(p) ==
    LET escapes[i \in 0 .. Len(p)] == i > 0 /\ p[i] = "\\" /\ ~escapes[i - 1]
    IN  {i \in DOMAIN p : escapes[i]}

(* What kind of pattern p is; escaped characters are plain.                *)
PatternType(p) ==
    LET special == {p[i] : i \in {j \in DOMAIN p : j - 1 \notin Escapes(p)}}
    IN  CASE "*" \in special -> "star"
          [] "*" \notin special /\ special \cap {"[", "]", "?"} # {} -> "nonstar"
          [] special \cap {"*", "[", "]", "?"} = {} /\ "\\" \in special -> "escaped"
          [] OTHER -> "exact"

(* A backslash at the end has nothing to escape and stays.                 *)
Unescape(p) ==
    LET kept == SelectSeq([i \in DOMAIN p |-> i], LAMBDA i : i \notin Escapes(p) \/ i = Len(p))
    IN  [k \in DOMAIN kept |-> p[kept[k]]]

RECURSIVE GlobMatches(_, _)
GlobMatches(p, s) ==
    IF p = <<>> THEN s = <<>>
    ELSE IF Head(p) = "*"
    THEN \E n \in 0 .. Len(s) : GlobMatches(Tail(p), SubSeq(s, n + 1, Len(s)))
    ELSE s # <<>> /\ (Head(p) = "?" \/ Head(p) = Head(s)) /\ GlobMatches(Tail(p), Tail(s))
=============================================================================
