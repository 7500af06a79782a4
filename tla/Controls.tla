------------------------------- MODULE Controls -------------------------------
(***************************************************************************)
(* The recon controls (core/controls.py): what a host does with paths that *)
(* cannot exist, whether an unrelated host can be read at all, and what    *)
(* the well-known specification paths of the host turn out to be; asked at *)
(* the pace the host's robots.txt declares, and only where it permits.     *)
(*                                                                         *)
(* A caller issues run_controls, or soft_404_baseline and                  *)
(* well_known_spec_probe by themselves, each with its own policy and       *)
(* pacer, one at a time.  A response keeps its status, the signature of    *)
(* its text, whether its body carries a spec marker, and whether it is an  *)
(* error.  Seconds are natural numbers.                                    *)
(***************************************************************************)
EXTENDS Naturals

CONSTANTS
  NumNonsense,  \* NONSENSE_PATHS
  NumPaths,     \* WELL_KNOWN_SPEC_PATHS
  Budget,       \* MAX_TOTAL_WAIT_SECONDS
  Policies,     \* what robots.txt files say to this agent
  Signatures,   \* hashes of extracted texts
  Responses,    \* what a host may answer
  Calls,        \* the calls a caller issues
  NoDelay,      \* no Crawl-delay; no delay_seconds
  NoStatus,     \* the request failed before there was a status
  NoAnswer,     \* nothing has been asked
  NoText,       \* the signature of an empty text
  Unread        \* a robots.txt this process has not read

\* Everything run_controls requests, in its order: the nonsense paths, then
\* the well-known ones.  Place 0 is unrelated_url, on a host of its own.
Nonsense == 1 .. NumNonsense
WellKnown == NumNonsense + 1 .. NumNonsense + NumPaths
Places == 0 .. NumNonsense + NumPaths
Hosts == {"target", "unrelated"}

Delays == Nat \cup {NoDelay}

\* A policy, as it applies to this agent; an unreachable one states no delay.
Policy == [unreachable: BOOLEAN, forbids: SUBSET Places, delay: Delays]

Response == [status: (100 .. 599) \cup {NoStatus},
             signature: Signatures \cup {NoText},
             marked: BOOLEAN, error: BOOLEAN]

Call == [kind: {"run", "baseline", "sweep"}, delay: Delays, unrelated: BOOLEAN]

Verdicts == {"spec", "spec-unverified", "not-a-spec", "shell-indistinguishable",
             "honest-404", "disallowed", "unreachable"}

Finding == [verdict: Verdicts, response: Response]

ASSUME ControlsAssumption ==
  /\ NumNonsense \in Nat \ {0} /\ NumPaths \in Nat \ {0}
  /\ Budget \in Nat
  /\ Policies \subseteq Policy
  /\ Responses \subseteq Response
  /\ \A r \in Responses : r.status = NoStatus => r.error
  /\ Calls \subseteq Call
  /\ NoDelay \notin Nat
  /\ NoStatus \notin 100 .. 599
  /\ NoAnswer \notin Response \cup Finding \cup Nat
  /\ Unread \notin Policy

VARIABLES
  pc,        \* where the call is
  call,      \* its arguments
  policies,  \* robots._CACHE for this agent
  at,        \* the place it has reached
  seconds,   \* of the pacer
  issued,    \* of the pacer
  waited,    \* of the pacer
  baseline,  \* the probes of the latest Baseline
  findings,  \* the findings of the sweep
  reach,     \* what the unrelated host answered
  gap,       \* history: at least so many seconds since the target's last request
  exit       \* how the latest call ended

pacer == <<seconds, issued, waited>>
controlsVars ==
  <<pc, call, policies, at, pacer, baseline, findings, reach, gap, exit>>

NoBaseline == [p \in Nonsense |-> NoAnswer]
NoFindings == [p \in WellKnown |-> NoAnswer]

Init ==
  /\ pc = "idle"
  /\ call = NoAnswer
  /\ policies = [h \in Hosts |-> Unread]
  /\ at = 0
  /\ seconds = 0 /\ issued = 0 /\ waited = 0
  /\ baseline = NoBaseline
  /\ findings = NoFindings
  /\ reach = NoAnswer
  /\ gap = NoAnswer
  /\ exit = "none"

-----------------------------------------------------------------------------
(***************************************************************************)
(* Pacing                                                                  *)
(***************************************************************************)

FirstPlace(c) == IF c.kind = "sweep" THEN NumNonsense + 1 ELSE 1
LastPlace(c) == IF c.kind = "baseline" THEN NumNonsense ELSE NumNonsense + NumPaths

\* make_pacer: the caller's delay, or else the host's, or else none.
Pace(c, policy) ==
  IF c.delay # NoDelay THEN c.delay
  ELSE IF policy.delay # NoDelay THEN policy.delay ELSE 0

\* Mutant: the retrieval of robots.txt is not counted.
NoneIssued == 0
\* The retrieval of robots.txt was a request to the same host.
AlreadyIssued == 1

\* check_budget, of a pacer that has waited w and issued i requests, for n more.
WithinBudget(s, w, i, n) == w + s * (IF i > 0 THEN n ELSE n - 1) <= Budget

\* What a call may need, checked before its first request.  Mutant: the
\* nonsense paths are forgotten.
DemandOfSweep(c) == NumPaths
Demand(c) == LastPlace(c) - FirstPlace(c) + 1

-----------------------------------------------------------------------------
(***************************************************************************)
(* Starting                                                                *)
(***************************************************************************)

Begin(c) ==
  /\ pc = "idle"
  /\ pc' = IF policies["target"] = Unread THEN "robots" ELSE "admit"
  /\ call' = c
  /\ exit' = "none"
  /\ UNCHANGED <<policies, at, pacer, baseline, findings, reach, gap>>

\* fetch_policy of the target.
ReadRobots(policy) ==
  /\ pc = "robots"
  /\ policies' = [policies EXCEPT !["target"] = policy]
  /\ gap' = 0
  /\ pc' = "admit"
  /\ UNCHANGED <<call, at, pacer, baseline, findings, reach, exit>>

\* PacingRefused.
RefusePace ==
  /\ pc = "admit"
  /\ ~WithinBudget(Pace(call, policies["target"]), 0, AlreadyIssued, Demand(call))
  /\ pc' = "idle"
  /\ exit' = "refused"
  /\ UNCHANGED <<call, policies, at, pacer, baseline, findings, reach, gap>>

Admit ==
  /\ pc = "admit"
  /\ WithinBudget(Pace(call, policies["target"]), 0, AlreadyIssued, Demand(call))
  /\ pc' = "probe"
  /\ at' = FirstPlace(call)
  /\ seconds' = Pace(call, policies["target"])
  /\ issued' = AlreadyIssued
  /\ waited' = 0
  /\ baseline' = IF call.kind = "sweep" THEN baseline ELSE NoBaseline
  /\ findings' = NoFindings
  /\ reach' = NoAnswer
  /\ UNCHANGED <<call, policies, gap, exit>>

-----------------------------------------------------------------------------
(***************************************************************************)
(* Judging a response                                                      *)
(***************************************************************************)

Success(status) == status \in 200 .. 299

\* Mutant: the probes need not agree.
EstablishedByAny ==
  \A p \in Nonsense : baseline[p] \in Response /\ ~baseline[p].error

\* Baseline.established: every probe answered, and they agree.
Established ==
  /\ \A p \in Nonsense : baseline[p] \in Response /\ ~baseline[p].error
  /\ \A p, q \in Nonsense :
       /\ baseline[p].status = baseline[q].status
       /\ baseline[p].signature = baseline[q].signature

\* Baseline.soft_404.
Soft404 == Established /\ Success(baseline[1].status)

Verdict(r) ==
  IF r.error THEN "unreachable"
  ELSE IF r.status = 404 THEN "honest-404"
  ELSE IF r.status >= 500 \/ r.status < 200 THEN "unreachable"
  ELSE IF r.status \in 300 .. 399 THEN "not-a-spec"
  ELSE IF Soft404 /\ r.signature = baseline[1].signature
       THEN "shell-indistinguishable"
  ELSE IF ~r.marked THEN "not-a-spec"
  ELSE IF ~Established THEN "spec-unverified" ELSE "spec"

\* The Response that stands for a request robots.txt refused.
Refused == [status |-> NoStatus, signature |-> NoText, marked |-> FALSE,
            error |-> TRUE]

\* What the loop over nonsense paths, or over well-known ones, keeps of place at.
Noted(response, verdict) ==
  IF at \in Nonsense
  THEN /\ baseline' = [baseline EXCEPT ![at] = response]
       /\ UNCHANGED findings
  ELSE /\ findings' = [findings EXCEPT ![at] =
                         [verdict |-> verdict, response |-> response]]
       /\ UNCHANGED baseline

\* After place at the call returns, or (run_controls) turns to the unrelated
\* host, or goes on.
Onward ==
  /\ at' = at + 1
  /\ pc' = IF at = LastPlace(call) THEN "idle"
           ELSE IF at = NumNonsense THEN "reach" ELSE "probe"
  /\ exit' = IF at = LastPlace(call) THEN "ok" ELSE exit

-----------------------------------------------------------------------------
(***************************************************************************)
(* Asking                                                                  *)
(***************************************************************************)

Permits(policy, place) == ~policy.unreachable /\ place \notin policy.forbids

\* A refused path is recorded, and neither requested nor waited for.
Skip ==
  /\ pc = "probe"
  /\ ~Permits(policies["target"], at)
  /\ Noted(Refused, "disallowed")
  /\ Onward
  /\ UNCHANGED <<call, policies, pacer, reach, gap>>

\* Pacer.before_request, which raises PacingRefused when it would wait past the
\* budget.
Wait ==
  /\ pc = "probe"
  /\ Permits(policies["target"], at)
  /\ IF issued > 0 /\ waited + seconds > Budget
     THEN /\ pc' = "idle"
          /\ exit' = "refused"
          /\ UNCHANGED <<issued, waited, gap>>
     ELSE /\ pc' = "ask"
          /\ issued' = issued + 1
          /\ IF issued > 0
             THEN waited' = waited + seconds /\ gap' = gap + seconds
             ELSE UNCHANGED <<waited, gap>>
          /\ UNCHANGED exit
  /\ UNCHANGED <<call, policies, at, seconds, baseline, findings, reach>>

\* _probe.
Ask(r) ==
  /\ pc = "ask"
  /\ gap' = 0
  /\ Noted(r, Verdict(r))
  /\ Onward
  /\ UNCHANGED <<call, policies, pacer, reach>>

-----------------------------------------------------------------------------
(***************************************************************************)
(* The reachability control, between the baseline and the sweep            *)
(***************************************************************************)

\* The unrelated host owes its own robots.txt.
ReadOtherRobots(policy) ==
  /\ pc = "reach"
  /\ call.unrelated
  /\ reach = NoAnswer
  /\ policies["unrelated"] = Unread
  /\ policies' = [policies EXCEPT !["unrelated"] = policy]
  /\ UNCHANGED <<pc, call, at, pacer, baseline, findings, reach, gap, exit>>

\* Mutant of MayReach: the robots.txt of the target decides.
MayReachByTarget == Permits(policies["target"], 1)
MayReach == Permits(policies["unrelated"], 0)

AskOther ==
  /\ pc = "reach"
  /\ call.unrelated
  /\ reach = NoAnswer
  /\ policies["unrelated"] # Unread
  /\ MayReach
  /\ pc' = "askother"
  /\ UNCHANGED <<call, policies, at, pacer, baseline, findings, reach, gap, exit>>

SkipOther ==
  /\ pc = "reach"
  /\ call.unrelated
  /\ reach = NoAnswer
  /\ policies["unrelated"] # Unread
  /\ ~MayReach
  /\ reach' = Refused
  /\ UNCHANGED <<pc, call, policies, at, pacer, baseline, findings, gap, exit>>

OtherAnswers(r) ==
  /\ pc = "askother"
  /\ reach' = r
  /\ pc' = "reach"
  /\ UNCHANGED <<call, policies, at, pacer, baseline, findings, gap, exit>>

\* well_known_spec_probe checks the budget again, with what was waited so far.
EnterSweep ==
  /\ pc = "reach"
  /\ ~call.unrelated \/ reach # NoAnswer
  /\ IF WithinBudget(seconds, waited, issued, NumPaths)
     THEN pc' = "probe" /\ UNCHANGED exit
     ELSE pc' = "idle" /\ exit' = "refused"
  /\ UNCHANGED <<call, policies, at, pacer, baseline, findings, reach, gap>>

\* The process ends, between calls or in one; the host has still been asked.
Restart ==
  /\ pc' = "idle"
  /\ call' = NoAnswer
  /\ policies' = [h \in Hosts |-> Unread]
  /\ at' = 0
  /\ seconds' = 0 /\ issued' = 0 /\ waited' = 0
  /\ baseline' = NoBaseline
  /\ findings' = NoFindings
  /\ reach' = NoAnswer
  /\ exit' = "none"
  /\ UNCHANGED gap

-----------------------------------------------------------------------------

Next ==
  \/ \E c \in Calls : Begin(c)
  \/ \E policy \in Policies : ReadRobots(policy) \/ ReadOtherRobots(policy)
  \/ RefusePace \/ Admit
  \/ Skip \/ Wait
  \/ \E r \in Responses : Ask(r) \/ OtherAnswers(r)
  \/ AskOther \/ SkipOther
  \/ EnterSweep
  \/ Restart

Spec == Init /\ [][Next]_controlsVars

-----------------------------------------------------------------------------

TypeOK ==
  /\ pc \in {"idle", "robots", "admit", "probe", "ask", "reach", "askother"}
  /\ call \in Calls \cup {NoAnswer}
  /\ pc # "idle" => call \in Calls
  /\ policies \in [Hosts -> Policies \cup {Unread}]
  /\ pc \notin {"idle", "robots"} => policies["target"] # Unread
  /\ at \in 0 .. NumNonsense + NumPaths + 1
  /\ pc \in {"probe", "ask"} => at \in FirstPlace(call) .. LastPlace(call)
  /\ seconds \in Nat /\ issued \in Nat /\ waited \in 0 .. Budget
  /\ baseline \in [Nonsense -> Response \cup {NoAnswer}]
  /\ findings \in [WellKnown -> Finding \cup {NoAnswer}]
  /\ reach \in Response \cup {NoAnswer}
  /\ gap \in Nat \cup {NoAnswer}
  /\ exit \in {"none", "ok", "refused"}

\* No probe follows another request to the same host, for its robots.txt
\* included, sooner than the host declared or the caller decided, across the
\* seams between controls, refused paths and calls (ADR-0048).
PaceKept ==
  pc = "ask" => gap # NoAnswer /\ gap >= Pace(call, policies["target"])

\* A host that asks for more waiting than the budget is refused up front, never
\* halfway through a sweep (core/controls.py:531).
RefusedUpFront ==
  [][pc # "idle" /\ exit' = "refused" => pc = "admit"]_controlsVars

\* A path is reported as a specification only against a baseline whose probes
\* all answered, and never when a path that cannot exist was answered by success
\* with the same text (ADR-0047).
SpecNeedsBaseline ==
  \A p \in WellKnown :
    findings[p] \in Finding /\ findings[p].verdict = "spec" =>
      \A q \in Nonsense :
        /\ baseline[q] \in Response /\ ~baseline[q].error
        /\ Success(baseline[q].status) =>
             baseline[q].signature # findings[p].response.signature

\* Each host is only asked for what its own robots.txt permits: the paths that
\* cannot exist, and the unrelated host, included (ADR-0047, ADR-0048).
OpenedOnlyIfPermitted ==
  /\ pc = "ask" => Permits(policies["target"], at)
  /\ pc = "askother" => /\ policies["unrelated"] # Unread
                        /\ Permits(policies["unrelated"], 0)
=============================================================================
