---------------------------- MODULE ControlsProofs ----------------------------
(***************************************************************************)
(* Theorems about Controls, for every number of paths, every budget, every *)
(* robots.txt and every host: requests are paced and permitted, a budget   *)
(* is refused before it is touched, and a specification is only reported   *)
(* against a baseline.                                                     *)
(***************************************************************************)
EXTENDS Controls, TLAPS

-----------------------------------------------------------------------------
(***************************************************************************)
(* The inductive invariant                                                 *)
(***************************************************************************)

Probing == pc \in {"probe", "ask", "reach", "askother"}

\* The places the call has still to request.
Left == IF pc = "ask" THEN LastPlace(call) - at ELSE LastPlace(call) - at + 1

\* The pacer keeps the pace of the call, and has room for what is left of it.
Paced ==
  Probing => /\ seconds = Pace(call, policies["target"])
             /\ issued > 0
             /\ waited + seconds * Left <= Budget

\* The target has been asked for its robots.txt before anything is decided.
Asked == policies["target"] # Unread => gap \in Nat

\* The unrelated host is asked between baseline and sweep; nothing has been
\* found while the baseline is still being probed.
Ordered ==
  /\ pc \in {"reach", "askother"} => at = NumNonsense + 1 /\ call.kind = "run"
  /\ pc \in {"probe", "ask"} /\ at \in Nonsense => findings = NoFindings
  /\ pc = "robots" => policies["target"] = Unread
  /\ pc # "idle" => exit = "none"

IInv ==
  /\ TypeOK /\ Paced /\ Asked /\ Ordered
  /\ PaceKept /\ SpecNeedsBaseline /\ OpenedOnlyIfPermitted

-----------------------------------------------------------------------------
(***************************************************************************)
(* Facts about the parameters                                              *)
(***************************************************************************)

LEMMA Numbers ==
  /\ NumNonsense \in Nat /\ NumNonsense > 0
  /\ NumPaths \in Nat /\ NumPaths > 0
  /\ Budget \in Nat
BY ControlsAssumption

LEMMA Markers ==
  /\ NoAnswer \notin Response /\ NoAnswer \notin Finding /\ NoAnswer \notin Nat
  /\ Unread \notin Policies /\ NoDelay \notin Nat
  /\ Policies \subseteq Policy /\ Responses \subseteq Response /\ Calls \subseteq Call
BY ControlsAssumption

LEMMA PaceIsNat ==
  ASSUME NEW c \in Calls, NEW policy \in Policies
  PROVE  Pace(c, policy) \in Nat
BY Markers DEF Pace, Call, Policy, Delays

\* A call covers places from the first to the last of the plan.
LEMMA PlacesOfCall ==
  ASSUME NEW c \in Calls
  PROVE  /\ FirstPlace(c) \in 1 .. NumNonsense + NumPaths
         /\ LastPlace(c) \in FirstPlace(c) .. NumNonsense + NumPaths
         /\ FirstPlace(c) \in Nat /\ LastPlace(c) \in Nat
         /\ LastPlace(c) > NumNonsense => LastPlace(c) = NumNonsense + NumPaths
         /\ c.kind = "baseline" <=> LastPlace(c) = NumNonsense
         /\ c.kind = "sweep" <=> FirstPlace(c) # 1
BY Numbers, Markers DEF FirstPlace, LastPlace, Call

\* A response that is judged a specification has a baseline to differ from.
LEMMA SpecVerdict ==
  ASSUME NEW r \in Response, Verdict(r) = "spec", NEW q \in Nonsense
  PROVE  /\ baseline[q] \in Response /\ ~baseline[q].error
         /\ Success(baseline[q].status) => baseline[q].signature # r.signature
<1>1. Established /\ ~(Soft404 /\ r.signature = baseline[1].signature)
  BY DEF Verdict
<1>2. 1 \in Nonsense
  BY Numbers DEF Nonsense
<1>3. baseline[q].status = baseline[1].status
      /\ baseline[q].signature = baseline[1].signature
  BY <1>1, <1>2 DEF Established
<1>. QED
  BY <1>1, <1>3 DEF Established, Soft404

-----------------------------------------------------------------------------
(***************************************************************************)
(* The steps                                                               *)
(***************************************************************************)

LEMMA InitHolds == Init => IInv
BY Numbers, Markers
DEF Init, IInv, TypeOK, Paced, Asked, Ordered, Probing, PaceKept, SpecNeedsBaseline,
    OpenedOnlyIfPermitted, Hosts, NoBaseline, NoFindings

LEMMA BeginHolds ==
  ASSUME IInv, NEW c \in Calls, Begin(c)
  PROVE  IInv'
BY DEF Begin, IInv, TypeOK, Paced, Asked, Ordered, Probing, PaceKept, SpecNeedsBaseline,
       OpenedOnlyIfPermitted, pacer

LEMMA ReadRobotsHolds ==
  ASSUME IInv, NEW policy \in Policies, ReadRobots(policy)
  PROVE  IInv'
BY Markers
DEF ReadRobots, IInv, TypeOK, Paced, Asked, Ordered, Probing, PaceKept,
    SpecNeedsBaseline, OpenedOnlyIfPermitted, pacer, Hosts

LEMMA RefusePaceHolds ==
  ASSUME IInv, RefusePace
  PROVE  IInv'
BY DEF RefusePace, IInv, TypeOK, Paced, Asked, Ordered, Probing, PaceKept,
       SpecNeedsBaseline, OpenedOnlyIfPermitted, pacer

LEMMA AdmitHolds ==
  ASSUME IInv, Admit
  PROVE  IInv'
<1>. DEFINE pace == Pace(call, policies["target"])
<1>1. call \in Calls /\ policies["target"] \in Policies /\ pc' = "probe"
  BY DEF Admit, IInv, TypeOK, Hosts
<1>2. pace \in Nat
  BY <1>1, PaceIsNat
<1>3. 0 + pace * Demand(call) <= Budget
  BY DEF Admit, WithinBudget, AlreadyIssued
<1>4. TypeOK'
  BY <1>1, <1>2, Numbers, PlacesOfCall
  DEF Admit, IInv, TypeOK, NoBaseline, NoFindings, AlreadyIssued
<1>5. Paced'
  BY <1>1, <1>2, <1>3, PlacesOfCall, Numbers
  DEF Admit, Paced, Left, Demand, AlreadyIssued
<1>6. SpecNeedsBaseline'
  BY Markers DEF Admit, SpecNeedsBaseline, NoFindings
<1>. QED
  BY <1>1, <1>4, <1>5, <1>6 DEF Admit, IInv, Asked, Ordered, PaceKept, OpenedOnlyIfPermitted

\* What a place leaves behind when it is passed, refused or answered.
LEMMA OnwardHolds ==
  ASSUME IInv, pc \in {"probe", "ask"}, Onward, NEW r \in Response,
         NEW verdict \in Verdicts, Noted(r, verdict),
         verdict = "spec" => verdict = Verdict(r),
         gap' \in Nat,
         waited + seconds * (LastPlace(call) - at) <= Budget,
         UNCHANGED <<call, policies, pacer, reach>>
  PROVE  IInv'
<1>1. /\ call \in Calls /\ at \in FirstPlace(call) .. LastPlace(call)
      /\ at' = at + 1 /\ pc' \in {"idle", "reach", "probe"}
      /\ pc' # "idle" => at # LastPlace(call)
      /\ pc' = "reach" => at = NumNonsense /\ at # LastPlace(call)
      /\ pc' = "probe" => at # NumNonsense
  BY DEF Onward, IInv, TypeOK
<1>2. at \in Nat /\ LastPlace(call) \in Nat /\ at <= NumNonsense + NumPaths
      /\ at >= 1
  BY <1>1, PlacesOfCall, Numbers
<1>3. at \in Nonsense \/ at \in WellKnown
  BY <1>2, Numbers DEF Nonsense, WellKnown
<1>4. baseline' \in [Nonsense -> Response \cup {NoAnswer}]
      /\ findings' \in [WellKnown -> Finding \cup {NoAnswer}]
  BY <1>3 DEF IInv, TypeOK, Noted, Finding
<1>5. TypeOK'
  BY <1>1, <1>2, <1>4, Numbers, PlacesOfCall DEF IInv, TypeOK, Onward, pacer
<1>6. Paced'
  <2>1. SUFFICES ASSUME pc' # "idle" PROVE waited' + seconds' * Left' <= Budget
    BY <1>1 DEF IInv, Paced, Probing, pacer
  <2>2. Left' = LastPlace(call) - at
    BY <2>1, <1>1, <1>2 DEF Left
  <2>. QED
    BY <2>2 DEF pacer
<1>7. Ordered'
  <2>1. pc' = "reach" => at' = NumNonsense + 1 /\ call'.kind = "run"
    <3>1. SUFFICES ASSUME pc' = "reach" PROVE call.kind = "run"
      BY <1>1
    <3>2. FirstPlace(call) <= NumNonsense /\ LastPlace(call) # NumNonsense
      BY <3>1, <1>1, <1>2, PlacesOfCall, Numbers
    <3>. QED
      BY <3>2, <1>1, Numbers, Markers DEF FirstPlace, LastPlace, Call
  <2>2. pc' = "probe" /\ at' \in Nonsense => findings' = NoFindings
    <3>1. SUFFICES ASSUME pc' = "probe", at' \in Nonsense PROVE findings' = NoFindings
      OBVIOUS
    <3>2. at \in Nonsense
      BY <3>1, <1>1, <1>2, Numbers DEF Nonsense
    <3>. QED
      BY <3>2 DEF IInv, Ordered, Noted
  <2>3. pc' # "idle" => exit' = "none"
    BY <1>1 DEF Onward, IInv, Ordered
  <2>. QED
    BY <2>1, <2>2, <2>3, <1>1 DEF Ordered
<1>8. SpecNeedsBaseline'
  <2>1. CASE at \in Nonsense
    BY <2>1, Markers DEF IInv, Ordered, Noted, SpecNeedsBaseline, NoFindings
  <2>2. CASE at \notin Nonsense
    <3>1. baseline' = baseline
          /\ findings' = [findings EXCEPT ![at] = [verdict |-> verdict, response |-> r]]
      BY <2>2 DEF Noted
    <3>2. SUFFICES ASSUME NEW p \in WellKnown, findings'[p] \in Finding,
                          findings'[p].verdict = "spec", NEW q \in Nonsense
                   PROVE  /\ baseline[q] \in Response /\ ~baseline[q].error
                          /\ Success(baseline[q].status) =>
                               baseline[q].signature # findings'[p].response.signature
      BY <3>1 DEF SpecNeedsBaseline
    <3>3. CASE p = at
      <4>1. findings'[p] = [verdict |-> verdict, response |-> r]
        BY <3>1, <3>3, <1>3, <2>2 DEF IInv, TypeOK
      <4>2. findings'[p].verdict = verdict /\ findings'[p].response = r
        BY <4>1
      <4>3. Verdict(r) = "spec"
        BY <4>2, <3>2
      <4>4. /\ baseline[q] \in Response /\ ~baseline[q].error
            /\ Success(baseline[q].status) => baseline[q].signature # r.signature
        BY <4>3, SpecVerdict
      <4>. QED
        BY <4>2, <4>4
    <3>4. CASE p # at
      <4>1. findings'[p] = findings[p]
        BY <3>1, <3>4 DEF IInv, TypeOK
      <4>. QED
        BY <4>1, <3>2 DEF IInv, SpecNeedsBaseline
    <3>. QED
      BY <3>3, <3>4
  <2>. QED
    BY <2>1, <2>2
<1>. QED
  BY <1>1, <1>5, <1>6, <1>7, <1>8 DEF IInv, Asked, PaceKept, OpenedOnlyIfPermitted

\* A product grows with its factor.
LEMMA OneFactorLess ==
  ASSUME NEW s \in Nat, NEW n \in Nat
  PROVE  s * (n + 1) = s * n + s /\ s * (n + 1) >= s * n
OBVIOUS

LEMMA SkipHolds ==
  ASSUME IInv, Skip
  PROVE  IInv'
<1>1. call \in Calls /\ at \in FirstPlace(call) .. LastPlace(call)
      /\ seconds \in Nat /\ waited \in Nat /\ gap \in Nat /\ pc = "probe"
  BY Numbers DEF Skip, IInv, TypeOK, Asked
<1>2. at \in Nat /\ LastPlace(call) \in Nat
  BY <1>1, PlacesOfCall, Numbers
<1>3. waited + seconds * (LastPlace(call) - at + 1) <= Budget
  BY <1>1 DEF IInv, Paced, Probing, Left
<1>4. LastPlace(call) - at \in Nat
  BY <1>1, <1>2
<1>5. seconds * (LastPlace(call) - at + 1) >= seconds * (LastPlace(call) - at)
  BY <1>1, <1>4, OneFactorLess
<1>6. waited + seconds * (LastPlace(call) - at) <= Budget
  <2>. DEFINE a == seconds * (LastPlace(call) - at)
              b == seconds * (LastPlace(call) - at + 1)
  <2>1. a \in Nat /\ b \in Nat
    BY <1>1, <1>4
  <2>. HIDE DEF a, b
  <2>2. waited + b <= Budget /\ b >= a
    BY <1>3, <1>5 DEF a, b
  <2>3. waited + a <= Budget
    BY <2>1, <2>2, <1>1, Numbers
  <2>. QED
    BY <2>3 DEF a
<1>7. Refused \in Response
  BY DEF Refused, Response
<1>. QED
  BY <1>1, <1>6, <1>7, OnwardHolds DEF Skip, Verdicts, pacer

LEMMA WaitHolds ==
  ASSUME IInv, Wait
  PROVE  IInv' /\ pc' = "ask"
<1>1. call \in Calls /\ at \in FirstPlace(call) .. LastPlace(call)
      /\ seconds \in Nat /\ waited \in Nat /\ gap \in Nat /\ issued \in Nat /\ issued > 0
      /\ pc = "probe" /\ seconds = Pace(call, policies["target"])
  BY Numbers DEF Wait, IInv, TypeOK, Asked, Paced, Probing
<1>2. at \in Nat /\ LastPlace(call) \in Nat /\ at <= LastPlace(call)
  BY <1>1, PlacesOfCall, Numbers
<1>. DEFINE n == LastPlace(call) - at
<1>3. n \in Nat
  BY <1>2
<1>4. waited + seconds * (n + 1) <= Budget
  BY <1>1 DEF IInv, Paced, Probing, Left
<1>5. seconds * (n + 1) = seconds * n + seconds /\ seconds * n \in Nat
  BY <1>1, <1>3, OneFactorLess
<1>6. waited + seconds + seconds * n <= Budget /\ waited + seconds <= Budget
  <2>. DEFINE a == seconds * n
              b == seconds * (n + 1)
  <2>1. a \in Nat /\ b = a + seconds /\ waited + b <= Budget
    BY <1>4, <1>5
  <2>. HIDE DEF a, b
  <2>2. waited + seconds + a <= Budget /\ waited + seconds <= Budget
    BY <2>1, <1>1, Numbers
  <2>. QED
    BY <2>2 DEF a
<1>7. /\ pc' = "ask" /\ issued' = issued + 1
      /\ waited' = waited + seconds /\ gap' = gap + seconds
      /\ UNCHANGED <<call, policies, at, seconds, baseline, findings, reach, exit>>
  BY <1>1, <1>6, Numbers DEF Wait
<1>8. TypeOK'
  BY <1>1, <1>6, <1>7, Numbers DEF IInv, TypeOK
<1>9. Paced'
  <2>1. Left' = n
    BY <1>7 DEF Left
  <2>2. waited' + seconds' * Left' <= Budget
    BY <2>1, <1>6, <1>7
  <2>. QED
    BY <2>2, <1>1, <1>7 DEF Paced
<1>10. PaceKept'
  BY <1>1, <1>7, Markers DEF PaceKept
<1>11. OpenedOnlyIfPermitted'
  BY <1>7 DEF Wait, OpenedOnlyIfPermitted
<1>. QED
  BY <1>1, <1>7, <1>8, <1>9, <1>10, <1>11 DEF IInv, Asked, Ordered, SpecNeedsBaseline

LEMMA AskHolds ==
  ASSUME IInv, NEW r \in Responses, Ask(r)
  PROVE  IInv'
<1>1. r \in Response /\ Verdict(r) \in Verdicts
  BY Markers DEF Verdict, Verdicts
<1>2. waited + seconds * (LastPlace(call) - at) <= Budget
  BY DEF Ask, IInv, Paced, Probing, Left
<1>. QED
  BY <1>1, <1>2, OnwardHolds DEF Ask

LEMMA ReachHolds ==
  ASSUME IInv,
         \/ \E policy \in Policies : ReadOtherRobots(policy)
         \/ AskOther \/ SkipOther
         \/ \E r \in Responses : OtherAnswers(r)
  PROVE  IInv'
<1>1. ASSUME NEW policy \in Policies, ReadOtherRobots(policy) PROVE IInv'
  BY <1>1, Markers
  DEF ReadOtherRobots, IInv, TypeOK, Paced, Left, Asked, Ordered, Probing, PaceKept,
      SpecNeedsBaseline, OpenedOnlyIfPermitted, pacer, Hosts
<1>2. CASE AskOther
  BY <1>2
  DEF AskOther, MayReach, IInv, TypeOK, Paced, Left, Asked, Ordered, Probing, PaceKept,
      SpecNeedsBaseline, OpenedOnlyIfPermitted, pacer
<1>3. Refused \in Response
  BY DEF Refused, Response
<1>4. CASE SkipOther
  BY <1>3, <1>4
  DEF SkipOther, IInv, TypeOK, Paced, Left, Asked, Ordered, Probing, PaceKept,
      SpecNeedsBaseline, OpenedOnlyIfPermitted, pacer
<1>5. ASSUME NEW r \in Responses, OtherAnswers(r) PROVE IInv'
  BY <1>5, Markers
  DEF OtherAnswers, IInv, TypeOK, Paced, Left, Asked, Ordered, Probing, PaceKept,
      SpecNeedsBaseline, OpenedOnlyIfPermitted, pacer
<1>. QED
  BY <1>1, <1>2, <1>4, <1>5

\* The second check of the budget passes.
LEMMA EnterSweepHolds ==
  ASSUME IInv, EnterSweep
  PROVE  IInv' /\ pc' = "probe"
<1>1. call \in Calls /\ call.kind = "run" /\ at = NumNonsense + 1 /\ pc = "reach"
      /\ issued > 0 /\ seconds \in Nat /\ waited \in Nat
  BY Numbers DEF EnterSweep, IInv, TypeOK, Paced, Probing, Ordered
<1>2. LastPlace(call) = NumNonsense + NumPaths
  BY <1>1 DEF LastPlace
<1>3. LastPlace(call) - at + 1 = NumPaths
  BY <1>1, <1>2, Numbers
<1>4. Left = NumPaths
  BY <1>1, <1>3 DEF Left
<1>5. waited + seconds * NumPaths <= Budget
  BY <1>1, <1>4 DEF IInv, Paced, Probing
<1>6. /\ pc' = "probe"
      /\ UNCHANGED <<call, policies, at, pacer, baseline, findings, reach, gap, exit>>
  BY <1>1, <1>5 DEF EnterSweep, WithinBudget
<1>7. at \in FirstPlace(call) .. LastPlace(call) /\ at \notin Nonsense
  BY <1>1, <1>2, Numbers DEF FirstPlace, Nonsense
<1>8. Left' = NumPaths
  BY <1>3, <1>6 DEF Left
<1>. QED
  BY <1>1, <1>5, <1>6, <1>7, <1>8
  DEF IInv, TypeOK, Paced, Probing, Asked, Ordered, PaceKept, SpecNeedsBaseline,
      OpenedOnlyIfPermitted, pacer

LEMMA RestartHolds ==
  ASSUME IInv, Restart
  PROVE  IInv'
BY Numbers, Markers
DEF Restart, IInv, TypeOK, Paced, Asked, Ordered, Probing, PaceKept, SpecNeedsBaseline,
    OpenedOnlyIfPermitted, Hosts, NoBaseline, NoFindings

LEMMA StutterHolds ==
  ASSUME IInv, UNCHANGED controlsVars
  PROVE  IInv'
BY DEF controlsVars, pacer, IInv, TypeOK, Paced, Left, Asked, Ordered, Probing, PaceKept,
       SpecNeedsBaseline, OpenedOnlyIfPermitted

-----------------------------------------------------------------------------
(***************************************************************************)
(* Theorems                                                                *)
(***************************************************************************)

\* The inductive invariant behind every theorem below.
THEOREM ControlsInvariance == Spec => []IInv
<1>1. IInv /\ [Next]_controlsVars => IInv'
  <2>. SUFFICES ASSUME IInv, [Next]_controlsVars PROVE IInv'
    OBVIOUS
  <2>. QED
    BY BeginHolds, ReadRobotsHolds, RefusePaceHolds, AdmitHolds, SkipHolds, WaitHolds,
       AskHolds, ReachHolds, EnterSweepHolds, RestartHolds, StutterHolds DEF Next
<1>. QED
  BY InitHolds, <1>1, PTL DEF Spec

\* The state of the controls is well typed; the pacer never waits past its budget.
THEOREM ControlsTypeCorrect == Spec => []TypeOK
<1>1. IInv => TypeOK
  BY DEF IInv
<1>. QED
  BY <1>1, ControlsInvariance, PTL

\* No request to a host comes sooner after the last one than the host declared
\* or the caller decided (Pacer, make_pacer).
THEOREM RequestsArePaced == Spec => []PaceKept
<1>1. IInv => PaceKept
  BY DEF IInv
<1>. QED
  BY <1>1, ControlsInvariance, PTL

\* A specification is never reported without a baseline, nor with the text of a
\* successful nonsense path (well_known_spec_probe).
THEOREM SpecsHaveBaseline == Spec => []SpecNeedsBaseline
<1>1. IInv => SpecNeedsBaseline
  BY DEF IInv
<1>. QED
  BY <1>1, ControlsInvariance, PTL

\* Both hosts are asked only for what their own robots.txt permits.
THEOREM ControlsArePermitted == Spec => []OpenedOnlyIfPermitted
<1>1. IInv => OpenedOnlyIfPermitted
  BY DEF IInv
<1>. QED
  BY <1>1, ControlsInvariance, PTL

\* PacingRefused is raised before the first request of a call, or not at all:
\* neither the second check_budget nor the one in before_request can fail.
THEOREM RefusalsComeFirst == Spec => RefusedUpFront
<1>1. IInv /\ [Next]_controlsVars =>
        [pc # "idle" /\ exit' = "refused" => pc = "admit"]_controlsVars
  <2>. SUFFICES ASSUME IInv, Next, pc # "idle", exit' = "refused", pc # "admit"
                PROVE  FALSE
    OBVIOUS
  <2>1. exit = "none"
    BY DEF IInv, Ordered
  <2>3. ASSUME Skip \/ \E r \in Responses : Ask(r) PROVE FALSE
    BY <2>1, <2>3 DEF Skip, Ask, Onward
  <2>4. ASSUME Wait PROVE FALSE
    BY <2>1, <2>4, WaitHolds DEF Wait
  <2>5. ASSUME EnterSweep PROVE FALSE
    BY <2>1, <2>5, EnterSweepHolds DEF EnterSweep
  <2>. QED
    BY <2>1, <2>3, <2>4, <2>5
    DEF Next, Begin, ReadRobots, ReadOtherRobots, RefusePace, Admit, OtherAnswers,
        AskOther, SkipOther, Restart
<1>. QED
  BY <1>1, ControlsInvariance, PTL DEF Spec, RefusedUpFront
=============================================================================
