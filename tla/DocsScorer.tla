------------------------------ MODULE DocsScorer ------------------------------
(***************************************************************************)
(* The scorer of the docs cohort (core/docs_scorer.py): a catalog number   *)
(* by overlap, two versions by prefix, and an exhibit of what is recorded  *)
(* and never scored.                                                       *)
(*                                                                         *)
(* A version field is the sequence of the versions its text names, each a  *)
(* sequence of numbers (version_tuples), or NotDeclared; a catalog field   *)
(* the set of the numbers it names, upper-cased and with single blanks.    *)
(***************************************************************************)
EXTENDS ApiScorer

DocsDimensions == {"catalog_number", "firmware_version", "software_version"}

Named(text) == IF text = NotDeclared THEN <<>> ELSE text

\* Some named version is at least as precise as the first one required.
VersionSatisfies(required, text) ==
  /\ Named(required) # <<>>
  /\ \E i \in DOMAIN Named(text) : IsPrefix(required[1], text[i])

\* Mutant: revisions of one major version count once.
HedgeCountMajor(text) == Cardinality({v[1] : v \in ToSet(Named(text))})

HedgeCount(text) == Cardinality(ToSet(Named(text)))

VersionScore(required, text) ==
  IF required = NotDeclared THEN NotApplicable
  ELSE Whole(VersionSatisfies(required, text))

DocsScores(key, answer) ==
  [catalog_number |-> IF key.catalog = {} THEN NotApplicable
                      ELSE Whole(key.catalog \cap answer.catalog # {}),
   firmware_version |-> VersionScore(key.firmware, answer.firmware),
   software_version |-> VersionScore(key.software, answer.software)]

PairingApplies(key) == key.firmware # NotDeclared /\ key.software # NotDeclared

\* pairing is meaningful only where it applies.
DocsExhibit(key, answer) ==
  [pairing |-> /\ PairingApplies(key)
               /\ VersionSatisfies(key.firmware, answer.firmware)
               /\ VersionSatisfies(key.software, answer.software),
   firmwareHedge |-> HedgeCount(answer.firmware),
   softwareHedge |-> HedgeCount(answer.software)]

DocsAnswerFromKey(key) ==
  [catalog |-> key.catalog, firmware |-> key.firmware, software |-> key.software]

\* The fields of a block, in the order in which it is rendered.
DocsFields == <<"catalog", "firmware", "software">>

\* An observation of the key that is called like a field takes its place.
DocsDumped(key, says) ==
  [f \in DOMAIN says |-> IF f \in DOMAIN key.observations THEN key.observations[f] ELSE says[f]]

DocsRoundTripProblems(key) ==
  IF key.catalog = {} /\ key.firmware = NotDeclared /\ key.software = NotDeclared
  THEN {"vacuous"} ELSE {}
=============================================================================
