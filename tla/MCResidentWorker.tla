-------------------------- MODULE MCResidentWorker --------------------------
(* A few requests to the worker. *)
EXTENDS ResidentWorker, TLC

CONSTANTS f, g, c1, c2, out

OneOutput == [c \in Clients |-> <<out>>]

Setup(first, second, max_edits) ==
  [inputs |-> (1 :> first) @@ (2 :> second),
   auxiliary |-> (1 :> first \cap {g}) @@ (2 :> second \cap {g}),
   structure |-> [c \in Clients |-> "default"], state_root |-> TRUE, helper |-> FALSE,
   can_restore |-> FALSE, failures |-> {"link", "state"}, stops |-> {},
   max_edits |-> max_edits, max_sessions |-> 1]

(* Two links that share an input, edited twice, or an object f and a       *)
(* version script g of which one is edited; and two sessions in which      *)
(* everything may fail or stop.                                            *)
Edited == {Setup({f}, {f}, 2), Setup({f, g}, {f, g}, 1)}
Stopped == {[Setup({f}, {f}, 1) EXCEPT
                !.structure[2] = "strip", !.helper = TRUE, !.can_restore = TRUE,
                !.max_sessions = 2, !.stops = {"worker", "machine"},
                !.failures = {"request", "arguments", "link", "helper", "state"}]}
MCSetups == Edited \cup Stopped
=============================================================================
