------------------------ MODULE MCConcurrentScenario ------------------------
(* Small scenarios for TLC: one per shape of request_batches that the code *)
(* distinguishes (no batch, an empty, a single and a threaded batch, and   *)
(* the orders of a single and a threaded one).                             *)
EXTENDS ConcurrentScenario

MCMaxBatches == 2
MCMaxWidth   == 3

Shape(width, delayed, asserting) ==
  [width |-> width, delayed |-> delayed, asserting |-> asserting]

AllRequests == (1 .. MCMaxBatches) \X (1 .. MCMaxWidth)

MCScenarios ==
  {Shape(<<>>, {}, {}),
   Shape(<<0, 1>>, {}, AllRequests),
   Shape(<<1>>, {}, {}),
   Shape(<<1, 1>>, {}, {<<2, 1>>}),
   Shape(<<2>>, {<<1, 1>>}, AllRequests),
   Shape(<<1, 2>>, {<<2, 2>>}, AllRequests),
   Shape(<<2, 1>>, {}, AllRequests),
   Shape(<<3>>, {<<1, 3>>}, AllRequests),
   Shape(<<2, 2>>, {<<1, 2>>, <<2, 1>>}, {<<1, 1>>, <<2, 1>>, <<2, 2>>})}

(* The scenarios of the run about delays: a delayed request on its own. *)
MCDelayScenarios == {Shape(<<1, 2>>, {<<1, 1>>, <<2, 2>>}, AllRequests)}
=============================================================================
