----------------------------- MODULE MCResultsDir -----------------------------
(***************************************************************************)
(* Instances of ResultsDir for TLC.                                        *)
(***************************************************************************)
EXTENDS ResultsDir, MCGridRunner

\* A dry run and a resumable real run of the same grid.
DirInvocations == {Mock(1), Real(1, FALSE, 100)}
=============================================================================
