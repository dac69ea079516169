---------------------------- MODULE MCCoordinator ----------------------------
(* Three subtasks, and the shapes of plan that take different paths. *)
EXTENDS Coordinator

Shape(one, two, three) == [i \in 1 .. 3 |-> IF i = 1 THEN one ELSE IF i = 2 THEN two ELSE three]

MCItems == 1 .. 3
\* Dependencies are listed from the last to the first.
MCPlace == [i \in 1 .. 3 |-> [d \in 1 .. 3 |-> 3 - d]]
MCPlans ==
    { Shape({3}, {}, {2}),          \* a chain, against the execution order
      Shape({}, {0, 3}, {1, 2}) }   \* a dependency that is not there, and a cycle
==============================================================================
