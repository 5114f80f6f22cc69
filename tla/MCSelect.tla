------------------------------ MODULE MCSelect ------------------------------
(* Model values, bounds and scenarios for Select.                          *)
EXTENDS Select, TLC

CONSTANTS a, b, c

Each(x, y, z) == (a :> x) @@ (b :> y) @@ (c :> z)
Case(mode, kind, order, ops, msgs, most) ==
  [mode |-> mode, kind |-> kind, order |-> order, ops |-> ops, msgs |-> msgs,
   calls |-> most, shared |-> {}, closes |-> ToSet(order), more |-> {},
   weight |-> Each(2, 1, 1), edits |-> 0]
Muxes == Each("mux", "mux", "mux")

(* A mpmc and a mpsc receiver, one of them removed or added again: a       *)
(* message each for one call, or one message for two.                      *)
Mixed(msgs, most) ==
  [Case("Rand", Each("multi", "single", "multi"), <<a, b>>, {"select"}, msgs, most)
   EXCEPT !.shared = {a}, !.more = {a}, !.edits = 1]
(* Round robin and bias with more messages than channels.                  *)
Busy(mode, ops) ==
  [Case(mode, Each("multi", "multi", "single"), <<a, b>>, ops, Each(2, 1, 0), 2)
   EXCEPT !.closes = {a}]
(* A removal that moves two registered handlers.                           *)
Shifted ==
  [Case("RR", Each("multi", "multi", "multi"), <<a, b, c>>,
        {"select_timeout"}, Each(0, 0, 1), 2)
   EXCEPT !.closes = {a}, !.edits = 1]
(* Two channels with weights.                                              *)
Weighted ==
  [Case("mux", Muxes, <<a, b>>, {"recv"}, Each(3, 1, 0), 3)
   EXCEPT !.closes = {}]
(* A channel added on the fly, and a Multiplex that changes threads: one   *)
(* of them in the course of two calls, or both for one.                    *)
Growing(ops, most, changes) ==
  [Case("mux", Muxes, <<a>>, ops, Each(1, 1, 0), most)
   EXCEPT !.closes = {a, b}, !.more = {b}, !.edits = changes]

MCScenarios ==
  {Mixed(Each(1, 1, 0), 1), Mixed(Each(1, 0, 0), 2),
   Busy("RR", {"select"}), Busy("Bias", {"select", "try_select"}),
   Shifted, Weighted,
   Growing({"recv"}, 2, 1), Growing({"try_recv", "recv_timeout"}, 1, 2)}
=============================================================================
