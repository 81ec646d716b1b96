------------------------ MODULE MCOperationDispatch ------------------------
EXTENDS OperationDispatch, TLC

CONSTANTS parent, child, stop, undo, task1, task2, k1, k2, k3, k4, k5

Kind3 == (parent :> "llm") @@ (stop :> "llm_cancellation") @@ (undo :> "withdraw")
Ref3 == (parent :> NoOp) @@ (stop :> parent) @@ (undo :> parent)

Kind2 == (parent :> "llm") @@ (child :> "llm")
Ref2 == (parent :> NoOp) @@ (child :> parent)

Kind4 == (parent :> "llm") @@ (child :> "llm") @@ (stop :> "llm_cancellation")
Ref4 == (parent :> NoOp) @@ (child :> parent) @@ (stop :> parent)

Symmetry == Permutations(Tasks)

\* Idle tasks are interchangeable: of two that could claim, the first one does.
TasksInOrder ==
    task[task2].pc = "idle" /\ task'[task2].pc # "idle" => task[task1].pc # "idle"
============================================================================
