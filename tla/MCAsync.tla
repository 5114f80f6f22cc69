------------------------------ MODULE MCAsync ------------------------------
(* Model values, bounds and scenarios for AsyncChannel.                    *)
EXTENDS AsyncChannel, TLC

CONSTANTS s1, s2, r1, r2

MCMaxOps == [t \in Threads |-> 3]

(* The calls that are left to each thread, and what they are.              *)
Left(calls) == [t \in Threads |-> 3 - calls[t]]
Case(tasks, single, calls, spare, ops) ==
  [tasks |-> tasks, single |-> single, nops |-> Left(calls), polls |-> spare,
   ops |-> ops]
Each(a, b, c, d) == (s1 :> a) @@ (s2 :> b) @@ (r1 :> c) @@ (r2 :> d)

(* Two receivers, a future that may be dropped and a thread.               *)
FutureAndThread ==
  Case({r1}, {}, Each(1, 0, 1, 1), Each(0, 0, 0, 0),
       Each({"send"}, {}, {"recv_future"}, {"recv"}))
(* A future that moves between tasks.                                      *)
FutureMoves ==
  Case({r1}, {}, Each(1, 0, 1, 0), Each(0, 0, 2, 0),
       Each({"send"}, {}, {"recv_future"}, {}))
(* A stream nobody has to poll, and a future with a timer.                 *)
StreamAndFuture ==
  Case({r1, r2, s1}, {}, Each(1, 0, 1, 1), Each(0, 0, 0, 0),
       Each({"send_future"}, {}, {"stream"}, {"recv_timer"}))
(* A sink and a future, of which one fills the queue and one waits ...     *)
SinkAndFuture ==
  Case({s1, s2}, {}, Each(1, 1, 1, 0), Each(0, 0, 0, 0),
       Each({"sink"}, {"send_future"}, {"try_recv"}, {}))
(* ... or both wait for a receiver that only goes.                         *)
SinkAndFutureClosed ==
  Case({s1, s2}, {}, Each(2, 1, 1, 0), Each(0, 0, 0, 0),
       Each({"sink"}, {"send_future"}, {}, {}))
(* A sink that moves between tasks while it holds a waker, and a thread    *)
(* that may run out of time.                                               *)
SinkMoves ==
  Case({s1}, {}, Each(3, 0, 1, 0), Each(2, 0, 0, 0),
       Each({"sink"}, {}, {"recv", "recv_timeout"}, {}))
(* One sender, one receiver: spsc.                                         *)
SingleFutures ==
  Case({s1, r1}, {"tx", "rx"}, Each(2, 0, 1, 0), Each(1, 0, 0, 0),
       Each({"send_future"}, {}, {"recv_future"}, {}))
SingleMoves ==
  Case({s1, r1}, {"tx", "rx"}, Each(1, 0, 1, 0), Each(0, 0, 2, 0),
       Each({"send_future"}, {}, {"recv_future"}, {}))
SingleBlocking ==
  Case({}, {"tx", "rx"}, Each(2, 0, 1, 0), Each(0, 0, 0, 0),
       Each({"send", "send_timeout"}, {}, {"recv", "recv_timeout"}, {}))

MCScenarios == {FutureAndThread, FutureMoves, StreamAndFuture, SinkAndFuture,
                SinkAndFutureClosed, SinkMoves, SingleFutures, SingleMoves,
                SingleBlocking}
MCStarts == {x.nops : x \in MCScenarios}
=============================================================================
