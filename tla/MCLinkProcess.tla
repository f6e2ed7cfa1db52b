--------------------------- MODULE MCLinkProcess ---------------------------
(* Small sets of links for LinkProcess. *)
EXTENDS LinkProcess, TLC

CONSTANTS a, b, c, tmp

(* a, b and c differ only in their extensions: they have the same          *)
(* temporary name.                                                         *)
MCPaths == {a, b, c, tmp}
MCWithDelete == [p \in MCPaths |-> tmp]

(* Links 1 and 2 replace a, link 3 writes b; any step may fail. *)
Replacing ==
  [links |-> 1 .. 3, output |-> (1 :> a) @@ (2 :> a) @@ (3 :> b),
   existing |-> {a}, busy |-> {}, read_only |-> {},
   mode |-> [l \in 1 .. 3 |-> "UnlinkAndReplace"], write_mode |-> [l \in 1 .. 3 |-> "Mmap"],
   threads |-> [l \in 1 .. 3 |-> 2], forking |-> {1, 2}, killable |-> {},
   failures |-> {"load", "layout", "layout_file", "create", "write", "flush", "verify", "depfile"}]

(* Links 1 and 2 replace a, link 3 replaces b with one thread, but the     *)
(* directory may refuse.                                                   *)
Refusing ==
  [Replacing EXCEPT !.existing = {a, b}, !.threads = [l \in 1 .. 3 |-> IF l = 3 THEN 1 ELSE 2],
                    !.failures = {"rename", "remove"}]

(* Links 1 and 2 update a in place, link 3 has one thread and writes b,    *)
(* link 4 updates c, which it may not.                                     *)
Updating ==
  [links |-> 1 .. 4, output |-> (1 :> a) @@ (2 :> a) @@ (3 :> b) @@ (4 :> c),
   existing |-> {a, b, c}, busy |-> {a}, read_only |-> {c},
   mode |-> [l \in 1 .. 4 |-> IF l = 4 THEN "UpdateInPlace" ELSE "UpdateInPlaceWithFallback"],
   write_mode |-> [l \in 1 .. 4 |-> IF l = 2 THEN "Mmap" ELSE "BufferThenWrite"],
   threads |-> [l \in 1 .. 4 |-> IF l = 3 THEN 1 ELSE 2], forking |-> {1, 2}, killable |-> {3},
   failures |-> {"create", "flush", "verify", "remove"}]

MCSetups == {Replacing, Refusing, Updating}

(* The child of a link is killed. *)
Killing == {[Replacing EXCEPT !.links = {1}, !.output = (1 :> a), !.mode = (1 :> "UnlinkAndReplace"),
                              !.write_mode = (1 :> "Mmap"), !.threads = (1 :> 2), !.forking = {1},
                              !.failures = {}, !.killable = {1}]}
=============================================================================
