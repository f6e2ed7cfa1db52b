-------------------------- MODULE MCReferenceGraph --------------------------
(* Small reference graphs for ReferenceGraph. *)
EXTENDS ReferenceGraph, TLC

CONSTANTS g0, g1, g2, s1, s2, s3, s4, s5, u1, u2, u3, u4, scn

Req(k, t, a) == [kind |-> k, target |-> t, add |-> a]

(* Three groups.  g0 holds the prelude, the synthetic symbols and a shared *)
(* object: it refers to the entry s1, asks for exports of s1 and s2, and   *)
(* owns the __start_ symbol s3 and the shared object's s5.  u1 refers to   *)
(* s2 and to s3; u2 refers back to s1, and to the common symbol s4 without *)
(* adding a flag; u3, the candidate of the start/stop section, refers to   *)
(* s4 and takes the address of s5 (a copy relocation); u4 is garbage.      *)
(* Loading u1 or u2 may fail, and so may activating a file of g0.                *)
MCGroups == {g0, g1, g2}
MCSymbols == {s1, s2, s3, s4, s5}
MCUnits == {u1, u2, u3, u4}
MCSections == {scn}
MCFlags == {DIRECT, EXPORT_DYNAMIC, COPY_RELOCATION}
MCGroupOfSymbol == (s1 :> g1) @@ (s2 :> g2) @@ (s3 :> g0) @@ (s4 :> g1) @@ (s5 :> g0)
MCGroupOfUnit == (u1 :> g1) @@ (u2 :> g2) @@ (u3 :> g2) @@ (u4 :> g2)
MCSymbolUnit == (s1 :> u1) @@ (s2 :> u2) @@ (s3 :> NoUnit) @@ (s4 :> NoUnit) @@ (s5 :> NoUnit)
MCStartStopSection == [s \in MCSymbols |-> IF s = s3 THEN scn ELSE NoSection]
MCCandidates == scn :> {u3}
MCRefs == (u1 :> {Req("ref", s2, {DIRECT}), Req("ref", s3, {DIRECT})})
       @@ (u2 :> {Req("ref", s1, {DIRECT}), Req("ref", s4, {})})
       @@ (u3 :> {Req("ref", s4, {DIRECT}), Req("ref", s5, {DIRECT, COPY_RELOCATION})})
       @@ (u4 :> {Req("ref", s5, {DIRECT})})
MCRoots == (g0 :> {Req("ref", s1, {DIRECT}), Req("exportreq", s1, {}), Req("exportreq", s2, {})})
        @@ (g1 :> {Req("exportreq", s5, {})})
        @@ (g2 :> {Req("export", s2, {})})
=============================================================================
