----------------------------- MODULE MCGridRunner -----------------------------
(***************************************************************************)
(* Instances of GridRunner for TLC.                                        *)
(***************************************************************************)
EXTENDS GridRunner

\* Answers: "key" matches the answer key, "prose" has no answer block.  A
\* second edition of the scorer rescues prose (the ADR-0014 repair).
MCAnswers == {"key", "prose"}
MCScores == {"right", "wrong", "unparseable"}

MCVerdict ==
  [e \in {1, 2}, a \in MCAnswers |->
     IF a = "key" THEN "right" ELSE IF e = 1 THEN "unparseable" ELSE "wrong"]
MCVerdict1 == [e \in {1}, a \in MCAnswers |-> MCVerdict[e, a]]

\* The second edition of the pack has dropped task 2.
MCTasksOf == <<{1, 2}, {1}>>
MCTasksOf1 == <<Tasks>>

Real(n, over, thr) == [only |-> Tasks, n |-> n, mock |-> FALSE, model |-> "m",
                       overwrite |-> over, threshold |-> thr]
Mock(n) == [only |-> Tasks, n |-> n, mock |-> TRUE, model |-> "mock-model",
            overwrite |-> FALSE, threshold |-> 100]
OneTask == [Real(1, FALSE, 100) EXCEPT !.only = {2}]

\* Dry runs and real runs of the same grid on the same day, with a resume, an
\* --overwrite and a --tasks restriction.
MixedInvocations == {Mock(1), Real(1, FALSE, 100), Real(1, TRUE, 100), OneTask}

\* Real grids under the breaker, at two thresholds.
BreakerInvocations == {Real(3, FALSE, 20), Real(3, FALSE, 50)}
=============================================================================
