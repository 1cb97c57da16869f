-------------------------- MODULE MCSourcePipeline --------------------------
(***************************************************************************)
(* Small instances of SourcePipeline for TLC.                              *)
(***************************************************************************)
EXTENDS SourcePipeline, TLC

CONSTANTS a, b, c, none, r1, r2

\* Source a suggests a version, b does not, c suggests an old one.
MCBaseVersion == [s \in Source |-> IF s = a THEN 3 ELSE IF s = b THEN 0 ELSE 1]

MCRelease == [s \in Source |-> IF s = a THEN 1 ELSE IF s = b THEN 2 ELSE 1]

\* Sources a and c are two revisions of the same tag.
MCTag == [s \in Source |-> IF s = b THEN "v2" ELSE "v1"]

Untagged == [s \in Source |-> NoTag]

\* Recipes are only compared for equality.
RecipeSymmetry == Permutations(Recipe)

Bound(push, failure, retry, manual, rerun) ==
  [d \in Disturbance |-> CASE d = "push" -> push [] d = "failure" -> failure
                           [] d = "retry" -> retry [] d = "manual" -> manual
                           [] d = "rerun" -> rerun]

\* One push by the developer, one failed step and one retry.
FailureBudget == Bound(1, 1, 1, 0, 0)

ManualBudget == Bound(0, 1, 0, 1, 1)

RerunBudget == Bound(0, 1, 0, 0, 1)

RaceBudget == Bound(0, 0, 0, 1, 0)

NoBudget == Bound(0, 0, 0, 0, 0)
=============================================================================
