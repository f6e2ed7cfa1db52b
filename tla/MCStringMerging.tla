-------------------------- MODULE MCStringMerging --------------------------
(* Small sections for StringMerging. *)
EXTENDS StringMerging

CONSTANTS sx, sy, sz

MCStrings == {sx, sy, sz}
MCLength == (sx :> 1) @@ (sy :> 2) @@ (sz :> 3)
MCBucketOf == (sx :> 0) @@ (sy :> 1) @@ (sz :> 0)

OfStrings(ss) == [strings |-> ss, tail |-> 0, is_string |-> TRUE]
NotStrings(s) == [strings |-> <<s>>, tail |-> 0, is_string |-> FALSE]
CutShort(ss, n) == [strings |-> ss, tail |-> n, is_string |-> TRUE]

(* Groups of four bytes.  A boundary falls inside sz or just after a       *)
(* terminator, equal strings are in groups that are split at the same      *)
(* time, a group has no strings of its own, a section is cut short in the  *)
(* first or in the second group, the offsets of a bucket are used up.      *)
(* No list has sx before the first sz of its bucket, where sz begins below *)
(* the limit of an offset and ends above it, and references into it are    *)
(* lost (see the README).                                                  *)
MCSectionLists ==
  {<<OfStrings(<<sx>>)>>,
   <<OfStrings(<<sy, sy, sx>>)>>,
   <<OfStrings(<<sz, sy, sz>>)>>,
   <<OfStrings(<<sy, sx>>), NotStrings(sy)>>,
   <<OfStrings(<<sy, sy>>), NotStrings(sz), OfStrings(<<sz, sy>>)>>,
   <<OfStrings(<<sy, sz, sy, sx>>), OfStrings(<<sz, sy>>)>>,
   <<OfStrings(<<sy>>), CutShort(<<sz>>, 2)>>,
   <<CutShort(<<sy>>, 2), NotStrings(sz)>>}
=============================================================================
