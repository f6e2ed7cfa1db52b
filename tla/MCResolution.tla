---------------------------- MODULE MCResolution ----------------------------
(* Small sets of input files for Resolution. *)
EXTENDS Resolution

CONSTANTS pre, oa, ob, m1, m2, m3, sh,
          bmain, bfoo, bbar, bund, bstart, bcom, v1

main == <<bmain, NoVersion>>
foo == <<bfoo, NoVersion>>
bar == <<bbar, NoVersion>>
und == <<bund, NoVersion>>
sstart == <<bstart, NoVersion>>
com == <<bcom, NoVersion>>
foo_v == <<bfoo, v1>>
com_v == <<bcom, v1>>

Def(f, ns, b, z, v, c) ==
  [file |-> f, names |-> ns, def |-> TRUE, binding |-> b, size |-> z, vis |-> v, comdat |-> c,
   readable |-> TRUE]
Ref(f, n, b, v) ==
  [file |-> f, names |-> {n}, def |-> FALSE, binding |-> b, size |-> 0, vis |-> v,
   comdat |-> FALSE, readable |-> TRUE]
Unreadable(f, n) == [Ref(f, n, "Strong", Default) EXCEPT !.readable = FALSE]

MCFiles == {pre, oa, ob, m1, m2, m3, sh}
MCStartStop == {sstart}

(* The prelude looks up main.  The shared object sh comes first and        *)
(* defines foo and bar.  m1 is asked for by oa and ob.  foo is weak in m1  *)
(* and strong, in COMDAT groups, in m2 and ob; the common com has its      *)
(* largest size twice; bar of ob is hidden, so it leads to m2 past sh.     *)
(* m3 is only asked for weakly.                                            *)
MCSym ==
  << Ref(pre, main, "Strong", Default),
     Def(sh, {foo}, "Strong", 0, Default, FALSE),
     Def(sh, {bar}, "Strong", 0, Default, FALSE),
     Ref(sh, com, "Strong", Default),
     Def(oa, {main}, "Strong", 0, Default, FALSE),
     Ref(oa, com, "Strong", Default),
     Ref(oa, und, "Weak", Default),
     Def(m1, {com}, "Common", 2, Default, FALSE),
     Def(m1, {foo}, "Weak", 0, Default, FALSE),
     Ref(m1, foo_v, "Strong", Default),
     Def(m2, {bar}, "Strong", 0, Protected, FALSE),
     Def(m2, {foo}, "Strong", 0, Default, TRUE),
     Def(m2, {com}, "Common", 2, Default, FALSE),
     Ref(m2, main, "Weak", Default),
     Ref(m2, foo, "Strong", Default),
     Ref(ob, com, "Strong", Default),
     Def(ob, {foo}, "Strong", 0, Default, TRUE),
     Ref(ob, bar, "Strong", Hidden),
     Def(m3, {und}, "Strong", 0, Default, FALSE) >>

(* References that may stay undefined, in files that two tasks walk over   *)
(* and in a member that oa pulls in: und and the version of foo have two   *)
(* references each and no definition, the start symbol of a section has    *)
(* two, and com is defined by a member nobody asks for.                    *)
UndefinedSym ==
  << Ref(pre, main, "Strong", Default),
     Def(oa, {main}, "Strong", 0, Default, FALSE),
     Ref(oa, foo, "Strong", Default),
     Ref(oa, und, "Weak", Default),
     Ref(oa, foo_v, "Strong", Default),
     Def(m1, {foo}, "Strong", 0, Default, FALSE),
     Ref(m1, und, "Strong", Default),
     Ref(m1, sstart, "Strong", Default),
     Ref(m1, com, "Weak", Default),
     Def(m2, {com}, "Strong", 0, Default, FALSE),
     Ref(ob, foo, "Weak", Default),
     Ref(ob, sstart, "Weak", Hidden),
     Ref(ob, foo_v, "Strong", Default) >>

(* Here two members with an unreadable symbol are asked for. *)
FailingSym ==
  << Ref(pre, main, "Strong", Default),
     Def(oa, {main}, "Strong", 0, Default, FALSE),
     Ref(oa, foo, "Strong", Default),
     Ref(oa, bar, "Strong", Default),
     Def(m1, {foo}, "Strong", 0, Default, FALSE),
     Unreadable(m1, und),
     Ref(m1, com, "Strong", Default),
     Def(m2, {bar}, "Strong", 0, Default, FALSE),
     Unreadable(m2, und),
     Ref(m2, foo, "Strong", Default),
     Ref(ob, foo, "Strong", Default),
     Ref(ob, bar, "Weak", Default) >>

(* foo is strong in oa and in the archive member m1, which bar pulls in;   *)
(* com is strong twice, but one of them is in a member that stays out.     *)
DuplicateSym ==
  << Ref(pre, main, "Strong", Default),
     Def(oa, {main}, "Strong", 0, Default, FALSE),
     Def(oa, {foo}, "Strong", 0, Default, TRUE),
     Ref(oa, bar, "Strong", Default),
     Def(m1, {bar}, "Strong", 0, Default, FALSE),
     Def(m1, {foo}, "Strong", 0, Default, FALSE),
     Def(m2, {com}, "Strong", 0, Default, FALSE),
     Def(ob, {com}, "Strong", 0, Default, FALSE),
     Ref(ob, foo, "Strong", Default),
     Ref(ob, und, "Strong", Default) >>

(* foo is defined by a member that nobody asks for and by the object ob;   *)
(* oa refers to it weakly.                                                 *)
WeakSym ==
  << Ref(pre, main, "Strong", Default),
     Def(oa, {main}, "Strong", 0, Default, FALSE),
     Ref(oa, foo, "Weak", Default),
     Def(m1, {foo}, "Strong", 0, Default, FALSE),
     Def(ob, {foo}, "Strong", 0, Default, FALSE) >>

(* A shared object with two chunks.  Its reference to com has no version,  *)
(* but in the second chunk it gets the one of foo_v, which has the same    *)
(* place in the first: m1, which defines com, is not loaded for it.  The   *)
(* reference to com_v gets no version, and leads to m1 for that reason.    *)
VersionSym(last) ==
  << Ref(pre, main, "Strong", Default),
     Ref(sh, foo_v, "Strong", Default),
     Def(sh, {bar}, "Strong", 0, Default, FALSE),
     Def(sh, {foo, foo_v}, "Weak", 0, Default, FALSE) >> \o last \o
  << Def(oa, {main}, "Strong", 0, Default, FALSE),
     Ref(oa, bar, "Strong", Default),
     Def(m1, {com}, "Strong", 0, Default, FALSE),
     Def(m2, {com_v}, "Strong", 0, Default, FALSE),
     Def(ob, {foo}, "Strong", 0, Default, FALSE) >>
LosesVersion == VersionSym(<<Ref(sh, com, "Strong", Default)>>)
GainsVersion == VersionSym(<<Def(sh, {und}, "Weak", 0, Default, FALSE),
                             Ref(sh, com_v, "Strong", Default)>>)

MCPrograms == {LosesVersion, GainsVersion, MCSym, UndefinedSym, FailingSym, DuplicateSym}
WeakPrograms == {WeakSym}
=============================================================================
