----------------------- MODULE MCSupervisorHierarchy ------------------------
(***************************************************************************)
(* Instances of SupervisorHierarchy for TLC: a parent and a child that     *)
(* have a UUID, and two runs whose ids callers choose.                     *)
(***************************************************************************)
EXTENDS SupervisorHierarchy, TLC

CONSTANTS
    par, kid, a, b,     \* runs
    tp, tc, ta, tb      \* a task of each

Runs   == {par, kid, a, b}
Tasks  == {tp, tc, ta, tb}
Places == tp :> par @@ tc :> kid @@ ta :> a @@ tb :> b
Named  == {a, b}

\* Moves: each state that makes a difference to a roll-up.
Outcomes ==
    {<<ta, "queued">>, <<tb, "queued">>, <<tp, "queued">>, <<tp, "completed">>,
     <<tc, "waiting">>, <<tc, "running">>, <<tc, "failed">>}

\* Fragile
Isolated == {tc}

\* Requests
Mutual  == {<<kid, par>>, <<a, b>>, <<b, a>>}
Nested  == {<<a, par>>, <<b, a>>}
Unnamed == {<<a, par>>, <<kid, par>>, <<a, kid>>}
Selfish == Mutual \cup {<<a, a>>}

\* No definition names a handler.
Interchangeable == Permutations(Handler)
=============================================================================
