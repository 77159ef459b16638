------------------------------- MODULE MCWorkspace -------------------------------
(***************************************************************************)
(* Three processes over one workspace, two at a time: among the instances  *)
(* every tool runs, each with another one that shares a circuit with it.   *)
(***************************************************************************)
EXTENDS Workspace

CONSTANTS j1, j2, j3

Trio(a, b, c) == [j \in Jobs |-> CASE j = j1 -> a [] j = j2 -> b [] j = j3 -> c]
Trios == {Trio("mutate", "batch", "sealed"), Trio("insert", "transfer", "solve"),
          Trio("inbox", "sealed", "solve")}
================================================================================
