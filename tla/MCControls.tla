------------------------------ MODULE MCControls ------------------------------
(***************************************************************************)
(* Instances of Controls for TLC.                                          *)
(***************************************************************************)
EXTENDS Controls

Answered(status, signature, marked) ==
  [status |-> status, signature |-> signature, marked |-> marked, error |-> FALSE]

\* A shell and an API description, served with success or refused; an honest
\* 404; a host that fails, with a status or without one.
MCResponses ==
  {Answered(s, "shell", FALSE) : s \in {200, 302, 404, 503}}
  \cup {Answered(s, "api", TRUE) : s \in {200, 403}}
  \cup {[Refused EXCEPT !.signature = "shell"]}

\* Robots.txt files that permit everything at no pace, at a pace within the
\* budget of a run and over it, forbid one place of each kind, or cannot be had.
Allows(delay) == [unreachable |-> FALSE, forbids |-> {}, delay |-> delay]
MCPolicies ==
  {Allows(d) : d \in {NoDelay, 0, 2, 3}}
  \cup {[Allows(2) EXCEPT !.forbids = {p}] : p \in {0, 1, 3}}
  \cup {[Allows(NoDelay) EXCEPT !.unreachable = TRUE]}

MCCalls ==
  [kind: {"run"}, delay: {NoDelay}, unrelated: BOOLEAN]
  \cup [kind: {"baseline", "sweep"}, delay: {NoDelay}, unrelated: {FALSE}]
  \cup [kind: {"run"}, delay: {1}, unrelated: {FALSE}]
=============================================================================
