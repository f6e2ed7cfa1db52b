------------------------------ MODULE MCThunks ------------------------------
(* Small programs for Thunks. *)
EXTENDS Thunks

CONSTANTS MaxObjects, ObjectSizes, NonPrimarySizes

(* All code, or the code outside of the primary part, calls one or two     *)
(* definitions: in the first or the last object that has code, or          *)
(* elsewhere.                                                              *)
Definitions(sizes) ==
  LET code == {k \in DOMAIN sizes : sizes[k] > 0}
      ends == IF code = {} THEN {} ELSE {Min(code), Max(code)}
  IN {[object |-> j, plt |-> p] : j \in ends \cup {0}, p \in BOOLEAN}
Calls(sizes) == {{d, [object |-> 0, plt |-> FALSE]} : d \in Definitions(sizes)}

Callers(sizes) == {{0}, {0} \cup {i \in DOMAIN sizes : sizes[i] > 0}}

CodeBytes(sizes) == MapThenSumSet(LAMBDA k : sizes[k], DOMAIN sizes)

MCPrograms ==
  UNION {UNION {{[sizes |-> sizes, non_primary |-> n, called |-> c, callers |-> w,
                  executable_bytes |-> CodeBytes(sizes) + n] :
                   c \in Calls(sizes), w \in Callers(sizes),
                   n \in NonPrimarySizes} :
                sizes \in [1 .. k -> ObjectSizes]} :
         k \in 1 .. MaxObjects}
=============================================================================
