----------------------------- MODULE FactoryProofs -----------------------------
(***************************************************************************)
(* What Factory promises for every queue, every list of gates and every    *)
(* number of conditions, and why a command ends; and, while nobody edits   *)
(* the queue under a running command, that it implements Worklist.         *)
(***************************************************************************)
EXTENDS Factory, FiniteSetTheorems, TLAPS

NoEntries == [t \in {} |-> Queued]

-----------------------------------------------------------------------------
(***************************************************************************)
(* The pipeline.                                                           *)
(***************************************************************************)

GridStage == Len(Gates) + 3
CardStage == Len(Gates) + 5

\* What the concatenation of two sequences is.
LEMMA Concat ==
  ASSUME NEW S, NEW s \in Seq(S), NEW t \in Seq(S)
  PROVE  /\ s \o t \in Seq(S)
         /\ Len(s \o t) = Len(s) + Len(t)
         /\ \A i \in 1 .. Len(s) : (s \o t)[i] = s[i]
         /\ \A i \in 1 .. Len(t) : (s \o t)[Len(s) + i] = t[i]
OBVIOUS

\* The stages before and after the gates, and a set of all stage names.
Opening == <<"pack">>
Closing == <<"mock", "grid", "compare", "card">>
Names == {"pack", "mock", "grid", "compare", "card"} \cup {Gates[i] : i \in DOMAIN Gates}

LEMMA OpeningStage ==
  Opening \in Seq(Names) /\ Len(Opening) = 1 /\ Opening[1] = "pack"
<1>1. Opening = [i \in 1 .. 1 |-> Opening[i]] /\ Len(Opening) = 1 /\ Opening[1] = "pack"
  BY DEF Opening
<1>2. \A i \in 1 .. 1 : Opening[i] \in Names
  BY <1>1 DEF Names
<1>3. Opening \in [1 .. 1 -> Names]
  BY <1>1, <1>2
<1> QED BY <1>1, <1>3

LEMMA ClosingStages ==
  /\ Closing \in Seq(Names)
  /\ Len(Closing) = 4
  /\ Closing[1] = "mock" /\ Closing[2] = "grid"
  /\ Closing[3] = "compare" /\ Closing[4] = "card"
<1>1. Closing = [i \in 1 .. 4 |-> Closing[i]] /\ Len(Closing) = 4
  BY DEF Closing
<1>2. /\ Closing[1] = "mock" /\ Closing[2] = "grid"
      /\ Closing[3] = "compare" /\ Closing[4] = "card"
  BY DEF Closing
<1>3. \A i \in 1 .. 4 : Closing[i] \in Names
  <2>1. \A i \in 1 .. 4 : i = 1 \/ i = 2 \/ i = 3 \/ i = 4
    OBVIOUS
  <2> QED BY <1>2, <2>1 DEF Names
<1>4. Closing \in [1 .. 4 -> Names]
  BY <1>1, <1>3
<1> QED BY <1>1, <1>2, <1>4

LEMMA GateNames == Gates \in Seq(Names)
<1>1. Gates \in Seq({Gates[i] : i \in DOMAIN Gates})
  BY FactoryAssumption
<1>2. Gates \in [1 .. Len(Gates) -> {Gates[i] : i \in DOMAIN Gates}] /\ Len(Gates) \in Nat
  BY <1>1
<1>3. Gates \in [1 .. Len(Gates) -> Names]
  BY <1>2 DEF Names
<1> QED BY <1>2, <1>3

LEMMA StageNames ==
  /\ Len(Gates) \in Nat
  /\ DOMAIN Stages = 1 .. CardStage
  /\ \A i \in 1 .. CardStage : /\ Stages[i] = "grid" <=> i = GridStage
                               /\ Stages[i] = "card" <=> i = CardStage
<1> DEFINE n == Len(Gates)
           opening == Opening \o Gates
<1>1. n \in Nat /\ Gates \in Seq(Names) /\ DOMAIN Gates = 1 .. n
  BY GateNames
<1>2. Opening \in Seq(Names) /\ Len(Opening) = 1 /\ Opening[1] = "pack"
  BY OpeningStage
<1>3. /\ opening \in Seq(Names)
      /\ Len(opening) = n + 1
      /\ opening[1] = "pack"
      /\ \A i \in 1 .. n : opening[1 + i] = Gates[i]
  <2>1. /\ opening \in Seq(Names)
        /\ Len(opening) = Len(Opening) + Len(Gates)
        /\ \A i \in 1 .. Len(Opening) : opening[i] = Opening[i]
        /\ \A i \in 1 .. Len(Gates) : opening[Len(Opening) + i] = Gates[i]
    <3> HIDE DEF n
    <3>1. Opening \in Seq(Names) /\ Gates \in Seq(Names)
      BY <1>1, <1>2
    <3> QED BY <3>1, Concat
  <2> HIDE DEF opening
  <2> QED BY <1>1, <1>2, <2>1
<1>4. Stages = opening \o Closing
  BY DEF Stages, Opening, Closing
<1> HIDE DEF opening
<1>5. /\ Stages \in Seq(Names)
      /\ Len(Stages) = n + 5
      /\ \A i \in 1 .. n + 1 : Stages[i] = opening[i]
      /\ \A i \in 1 .. 4 : Stages[n + 1 + i] = Closing[i]
  <2>1. /\ Stages \in Seq(Names)
        /\ Len(Stages) = Len(opening) + Len(Closing)
        /\ \A i \in 1 .. Len(opening) : Stages[i] = opening[i]
        /\ \A i \in 1 .. Len(Closing) : Stages[Len(opening) + i] = Closing[i]
    <3> HIDE DEF n
    <3>1. opening \in Seq(Names) /\ Closing \in Seq(Names)
      BY <1>3, ClosingStages
    <3> QED BY <1>4, <3>1, Concat
  <2> QED BY <1>1, <1>3, <2>1, ClosingStages
<1> HIDE DEF n
<1>6. /\ Stages[n + 2] = "mock" /\ Stages[n + 3] = "grid"
      /\ Stages[n + 4] = "compare" /\ Stages[n + 5] = "card"
  <2>1. /\ n + 1 + 1 = n + 2 /\ n + 1 + 2 = n + 3
        /\ n + 1 + 3 = n + 4 /\ n + 1 + 4 = n + 5
    BY <1>1 DEF n
  <2>2. /\ Stages[n + 1 + 1] = Closing[1] /\ Stages[n + 1 + 2] = Closing[2]
        /\ Stages[n + 1 + 3] = Closing[3] /\ Stages[n + 1 + 4] = Closing[4]
    BY <1>5
  <2> QED BY <2>1, <2>2, ClosingStages
<1>7. \A i \in 1 .. n + 1 : Stages[i] \notin {"grid", "card"}
  <2> SUFFICES ASSUME NEW i \in 1 .. n + 1 PROVE Stages[i] \notin {"grid", "card"}
    OBVIOUS
  <2>1. n \in Nat
    BY <1>1 DEF n
  <2>2. CASE i = 1
    BY <1>3, <1>5, <2>1, <2>2
  <2>3. CASE i # 1
    <3>1. i - 1 \in 1 .. n /\ i = 1 + (i - 1)
      BY <2>1, <2>3
    <3>2. Stages[i] = Gates[i - 1]
      BY <1>3, <1>5, <3>1
    <3>3. Gates[i - 1] \notin {"pack", "mock", "grid", "compare", "card"}
      BY <1>1, <3>1, FactoryAssumption DEF n
    <3> QED BY <3>2, <3>3
  <2> QED BY <2>2, <2>3
<1>8. n \in Nat /\ \A i \in 1 .. n + 5 : i \in 1 .. n + 1 \/ i \in {n + 2, n + 3, n + 4, n + 5}
  BY <1>1 DEF n
<1>9. \A i \in 1 .. n + 5 : /\ Stages[i] = "grid" <=> i = n + 3
                            /\ Stages[i] = "card" <=> i = n + 5
  <2> SUFFICES ASSUME NEW i \in 1 .. n + 5
               PROVE  /\ Stages[i] = "grid" <=> i = n + 3
                      /\ Stages[i] = "card" <=> i = n + 5
    OBVIOUS
  <2>1. CASE i \in 1 .. n + 1
    BY <1>7, <1>8, <2>1
  <2>2. CASE i \in {n + 2, n + 3, n + 4, n + 5}
    BY <1>6, <1>8, <2>2
  <2> QED BY <1>8, <2>1, <2>2
<1>10. DOMAIN Stages = 1 .. n + 5
  BY <1>5, <1>8
<1> QED BY <1>1, <1>9, <1>10 DEF n, GridStage, CardStage

-----------------------------------------------------------------------------
(***************************************************************************)
(* The invariant.                                                          *)
(***************************************************************************)

Busy == pc \in {"drive", "card", "save", "saving"}

\* What a command in flight knows of itself.
CommandInv ==
  /\ pc = "idle" <=> mode = "none"
  /\ pc # "idle" => provider \in Providers /\ exit = "none"

\* How much of the grid is graded, stage by stage.
GradedByStage ==
  /\ pc \in {"drive", "card"} =>
       /\ stage < GridStage => graded = 0
       /\ stage = GridStage => graded < NumConditions
       /\ stage > GridStage => graded = NumConditions
  /\ pc = "card" => stage = CardStage

HasCard(t) == Whole(card[t]) /\ card[t].conditions = NumConditions

\* The copy the command works on: the target it drives is the first that was
\* open in it.
EntriesInv ==
  /\ \A t \in DOMAIN entries :
       /\ entries[t].status \in Statuses
       /\ entries[t].status = "carded" => HasCard(t)
  /\ pc \in {"drive", "card"} => entries[at].status \in Statuses \ Decided
  /\ pc \in {"save", "saving"} => entries[at].status \in {"carded", "blocked"}
  /\ Busy => \A u \in Targets : u < at => entries[u].status \in Decided

\* The file: what is carded there has its card, and is carded in the copy.
QueueInv ==
  queue # Torn =>
    /\ \A t \in Targets : queue[t].status = "carded" => HasCard(t)
    /\ \A t \in DOMAIN entries :
         queue[t].status = "carded" => entries[t].status = "carded"

\* The file and the copy, while nobody edits the file under the command: they
\* differ at most in the target being driven, which is still open in the file.
OwnedInv ==
  /\ pc = "pick" => queue = entries \/ (queue = Torn /\ entries = NoEntries)
  /\ pc \in {"drive", "card", "save"} =>
       /\ queue # Torn
       /\ queue[at].status \notin Decided
       /\ \A t \in Targets \ {at} : queue[t] = entries[t]

FactoryInv ==
  /\ TypeOK
  /\ DOMAIN card = Targets
  /\ pc = "saving" => queue = Torn
  /\ CommandInv
  /\ GradedByStage
  /\ EntriesInv
  /\ QueueInv
  /\ ~LiveEditing => OwnedInv

-----------------------------------------------------------------------------
(***************************************************************************)
(* Entries.                                                                *)
(***************************************************************************)

Entry ==
  [status: Statuses \cup AuthorStatuses,
   reason: [stage: {"none", "author"} \cup {Stages[i] : i \in DOMAIN Stages},
            raised: BOOLEAN]]

LEMMA EntriesAre == Entries = [Targets -> Entry]
BY DEF Entries, Entry

LEMMA SomeEntries ==
  /\ Queued \in Entry
  /\ \A s \in AuthorStatuses :
       [status |-> s, reason |-> Reason("author", FALSE)] \in Entry
  /\ \A i \in DOMAIN Stages :
       /\ [status |-> "blocked", reason |-> Reason(Stages[i], FALSE)] \in Entry
       /\ [status |-> "blocked", reason |-> Reason(Stages[i], TRUE)] \in Entry
BY DEF Entry, Queued, Reason, Statuses, Decided

LEMMA Replaced ==
  ASSUME NEW q \in Entries, NEW t \in Targets, NEW e \in Entry
  PROVE  /\ [q EXCEPT ![t] = e] \in Entries
         /\ [q EXCEPT ![t] = e] # Torn
         /\ [q EXCEPT ![t] = e][t] = e
         /\ \A u \in Targets \ {t} : [q EXCEPT ![t] = e][u] = q[u]
<1>1. [q EXCEPT ![t] = e] \in Entries
  BY EntriesAre
<1> QED BY <1>1, EntriesAre, TornAssumption

LEMMA Carded ==
  ASSUME NEW q \in Entries, NEW t \in Targets
  PROVE  /\ [q EXCEPT ![t].status = "carded"] \in Entries
         /\ [q EXCEPT ![t].status = "carded"][t].status = "carded"
         /\ \A u \in Targets \ {t} : [q EXCEPT ![t].status = "carded"][u] = q[u]
<1>1. q[t] \in Entry /\ q \in [Targets -> Entry]
  BY EntriesAre
<1>2. [q[t] EXCEPT !.status = "carded"] \in Entry
  BY <1>1 DEF Entry, Statuses, Decided
<1>3. [q[t] EXCEPT !.status = "carded"].status = "carded"
  BY <1>1 DEF Entry
<1> DEFINE e == [q[t] EXCEPT !.status = "carded"]
<1>4. [q EXCEPT ![t].status = "carded"] = [q EXCEPT ![t] = e]
  OBVIOUS
<1>5. e \in Entry /\ e.status = "carded"
  BY <1>2, <1>3
<1> HIDE DEF e
<1>6. /\ [q EXCEPT ![t] = e] \in Entries
      /\ [q EXCEPT ![t] = e][t] = e
      /\ \A u \in Targets \ {t} : [q EXCEPT ![t] = e][u] = q[u]
  BY <1>5, Replaced
<1> QED BY <1>4, <1>5, <1>6

LEMMA EntryTypes ==
  /\ Torn \notin Entries
  /\ \A q \in Entries : DOMAIN q = Targets
  /\ DOMAIN NoEntries = {}
BY EntriesAre, TornAssumption DEF NoEntries

-----------------------------------------------------------------------------
(***************************************************************************)
(* Every step keeps it.                                                    *)
(***************************************************************************)

LEMMA InitInv == Init => FactoryInv
<1> SUFFICES ASSUME Init PROVE FactoryInv
  OBVIOUS
<1> USE DEF Init
<1>1. TypeOK
  <2>1. queue \in Entries
    BY EntriesAre, SomeEntries
  <2>2. stage \in DOMAIN Stages
    BY StageNames DEF CardStage
  <2>3. \A t \in Targets : ~Whole(card[t])
    BY DEF Whole
  <2>4. graded \in 0 .. NumConditions
    BY FactoryAssumption
  <2> QED BY <2>1, <2>2, <2>3, <2>4 DEF TypeOK
<1>2. CommandInv /\ GradedByStage /\ DOMAIN card = Targets /\ pc # "saving"
  BY DEF CommandInv, GradedByStage
<1>3. EntriesInv /\ QueueInv /\ OwnedInv
  BY DEF EntriesInv, QueueInv, OwnedInv, Busy, Queued
<1> QED BY <1>1, <1>2, <1>3 DEF FactoryInv

\* A command that ends leaves an invariant that speaks of files only.
LEMMA EndedInv ==
  ASSUME FactoryInv, NEW how \in {"ok", "blocked", "raised", "crashed"}, Ended(how),
         UNCHANGED <<pack, card>>,
         queue' = queue \/ (queue' = entries /\ entries \in Entries)
  PROVE  FactoryInv'
<1>1. queue' = Torn \/ queue' \in Entries
  BY DEF FactoryInv, TypeOK
<1>2. TypeOK'
  <2>1. stage' \in DOMAIN Stages
    BY StageNames DEF CardStage, Ended
  <2>2. graded' \in 0 .. NumConditions
    BY FactoryAssumption DEF Ended
  <2>3. \A t \in Targets : Whole(card[t])' =>
           card[t]' \in [by: Providers, conditions: 1 .. NumConditions]
    BY DEF FactoryInv, TypeOK, Whole
  <2> QED BY <1>1, <2>1, <2>2, <2>3 DEF FactoryInv, TypeOK, Ended
<1>3. DOMAIN card' = Targets /\ pc' # "saving" /\ CommandInv' /\ GradedByStage' /\ OwnedInv'
  BY DEF FactoryInv, Ended, CommandInv, GradedByStage, OwnedInv
<1>4. EntriesInv'
  BY DEF Ended, EntriesInv, Busy
<1>5. QueueInv'
  <2>1. DOMAIN entries' = {}
    BY DEF Ended
  <2>2. ASSUME queue' # Torn, NEW t \in Targets, queue'[t].status = "carded"
        PROVE  HasCard(t)'
    <3>1. HasCard(t)
      BY <2>2, EntryTypes DEF FactoryInv, QueueInv, EntriesInv
    <3> QED BY <3>1 DEF HasCard, Whole
  <2> QED BY <2>1, <2>2 DEF QueueInv
<1> QED BY <1>2, <1>3, <1>4, <1>5 DEF FactoryInv

\* A step that touches neither the files, nor the copy, nor which target is
\* driven, keeps everything but what is said of the place in the pipeline.
LEMMA SameFiles ==
  ASSUME FactoryInv, UNCHANGED <<queue, card, entries>>
  PROVE  /\ DOMAIN card' = Targets
         /\ QueueInv'
         /\ queue' = Torn \/ queue' \in Entries
         /\ entries' \in Entries \cup {NoEntries}
         /\ \A t \in Targets : Whole(card[t])' =>
              card[t]' \in [by: Providers, conditions: 1 .. NumConditions]
         /\ \A t \in DOMAIN entries' :
              /\ entries[t].status' \in Statuses
              /\ entries[t].status' = "carded" => HasCard(t)'
BY DEF FactoryInv, TypeOK, QueueInv, EntriesInv, HasCard, Whole, NoEntries

LEMMA StartInv ==
  ASSUME FactoryInv, NEW m \in {"next", "run"}, NEW p \in Providers, Start(m, p)
  PROVE  FactoryInv'
<1> USE DEF Start
<1>1. Loaded \in Entries \cup {NoEntries}
  BY DEF Loaded, FactoryInv, TypeOK, NoEntries
<1>2. TypeOK'
  BY <1>1 DEF FactoryInv, TypeOK, onDisk, Whole, NoEntries
<1>3. DOMAIN card' = Targets /\ pc' # "saving" /\ CommandInv' /\ GradedByStage'
  BY DEF FactoryInv, CommandInv, GradedByStage, onDisk
<1>4. EntriesInv'
  <2>1. CASE queue = Torn
    BY <2>1, EntryTypes DEF EntriesInv, Busy, Loaded, NoEntries
  <2>2. CASE queue # Torn
    <3>1. queue \in Entries /\ entries' = queue
      BY <2>2 DEF FactoryInv, TypeOK, Loaded
    <3>2. \A t \in Targets : queue[t].status \in Statuses
      BY <2>2 DEF Loadable
    <3>3. \A t \in Targets : queue[t].status = "carded" => HasCard(t)'
      BY <2>2 DEF FactoryInv, QueueInv, HasCard, Whole, onDisk
    <3> QED BY <3>1, <3>2, <3>3, EntryTypes DEF EntriesInv, Busy
  <2> QED BY <2>1, <2>2
<1>5. QueueInv' /\ OwnedInv'
  <2>1. \A t \in Targets : HasCard(t) => HasCard(t)'
    BY DEF HasCard, Whole, onDisk
  <2>2. CASE queue = Torn
    BY <2>2, EntryTypes DEF QueueInv, OwnedInv, Loaded, NoEntries, onDisk
  <2>3. CASE queue # Torn
    BY <2>1, <2>3 DEF FactoryInv, QueueInv, OwnedInv, Loaded, onDisk
  <2> QED BY <2>2, <2>3
<1> QED BY <1>2, <1>3, <1>4, <1>5 DEF FactoryInv

\* The stage a drive is in, by its number.
LEMMA StageIs ==
  ASSUME TypeOK
  PROVE  /\ stage \in 1 .. CardStage /\ GridStage \in Nat /\ GridStage + 2 = CardStage
         /\ Stages[stage] = "grid" <=> stage = GridStage
         /\ Stages[stage] = "card" <=> stage = CardStage
<1>1. stage \in DOMAIN Stages
  BY DEF TypeOK
<1>2. stage \in 1 .. CardStage
  BY <1>1, StageNames
<1>3. GridStage \in Nat /\ GridStage + 2 = CardStage
  BY StageNames DEF GridStage, CardStage
<1>4. /\ Stages[stage] = "grid" <=> stage = GridStage
      /\ Stages[stage] = "card" <=> stage = CardStage
  <2>1. \A i \in 1 .. CardStage : (Stages[i] = "grid") <=> (i = GridStage)
    BY StageNames
  <2>2. \A i \in 1 .. CardStage : (Stages[i] = "card") <=> (i = CardStage)
    BY StageNames
  <2>3. Stages[stage] = "grid" <=> stage = GridStage
    BY <1>2, <2>1
  <2>4. Stages[stage] = "card" <=> stage = CardStage
    BY <1>2, <2>2
  <2> QED BY <2>3, <2>4
<1> QED BY <1>2, <1>3, <1>4

LEMMA PickInv ==
  ASSUME FactoryInv, NEW t \in Targets, Pick(t)
  PROVE  FactoryInv'
<1> USE DEF Pick, NextTarget, Open, onDisk
<1>1. entries \in Entries /\ entries[t].status \in Statuses \ Decided
      /\ \A u \in Targets : u < t => entries[u].status \in Decided
  <2>1. t \in DOMAIN entries /\ entries \in Entries
    BY EntryTypes DEF FactoryInv, TypeOK, NoEntries
  <2>2. \A u \in Targets : entries[u].status \in Statuses
    BY <2>1, EntryTypes DEF FactoryInv, EntriesInv
  <2>3. \A u \in Targets : entries[u].status \in Decided \/ t <= u
    BY <2>1, EntryTypes DEF DoneStatuses
  <2>4. \A u \in Targets : u < t => ~(t <= u)
    BY FactoryAssumption
  <2> QED BY <2>1, <2>2, <2>3, <2>4 DEF DoneStatuses
<1>2. /\ 1 \in DOMAIN Stages /\ 0 \in 0 .. NumConditions
      /\ 1 < GridStage /\ 1 # GridStage /\ ~(1 > GridStage)
  BY StageNames, FactoryAssumption DEF GridStage, CardStage
<1>3. TypeOK'
  BY <1>1, <1>2, EntryTypes, SameFiles DEF FactoryInv, TypeOK, NoEntries
<1>4. CommandInv' /\ GradedByStage' /\ pc' # "saving"
  BY <1>2 DEF FactoryInv, CommandInv, GradedByStage
<1>5. EntriesInv'
  BY <1>1, SameFiles DEF EntriesInv, Busy
<1>6. ~LiveEditing => OwnedInv'
  <2>1. ~LiveEditing => queue # Torn /\ queue = entries
    BY <1>1, EntryTypes DEF FactoryInv, OwnedInv
  <2> QED BY <1>1, <2>1 DEF OwnedInv
<1> QED BY <1>3, <1>4, <1>5, <1>6, SameFiles DEF FactoryInv

\* A drive works on a target of the file it was started on.
LEMMA BusyTypes ==
  ASSUME FactoryInv, Busy
  PROVE  at \in Targets /\ entries \in Entries /\ pc # "idle" /\ mode # "none"
BY EntryTypes DEF FactoryInv, TypeOK, Busy, NoEntries, CommandInv

LEMMA BlockInv ==
  ASSUME FactoryInv, Block
  PROVE  FactoryInv'
<1> USE DEF Block, onDisk
<1>1. at \in Targets /\ entries \in Entries
  BY BusyTypes DEF Busy
<1>2. PICK e \in Entry : e.status = "blocked" /\ entries' = [entries EXCEPT ![at] = e]
  <2>1. Stages[stage] \in {Stages[i] : i \in DOMAIN Stages} /\ stage \in DOMAIN Stages
    BY DEF FactoryInv, TypeOK
  <2>2. Blocked(FALSE) \in Entry /\ Blocked(TRUE) \in Entry
    BY <2>1, SomeEntries DEF Blocked
  <2>3. Blocked(FALSE).status = "blocked" /\ Blocked(TRUE).status = "blocked"
    BY DEF Blocked
  <2> QED BY <2>2, <2>3
<1>3. /\ entries' \in Entries
      /\ entries'[at].status = "blocked"
      /\ \A u \in Targets \ {at} : entries'[u] = entries[u]
  <2>1. /\ [entries EXCEPT ![at] = e] \in Entries
        /\ [entries EXCEPT ![at] = e][at] = e
        /\ \A u \in Targets \ {at} : [entries EXCEPT ![at] = e][u] = entries[u]
    BY <1>1, Replaced
  <2> HIDE DEF Block
  <2> QED BY <1>2, <2>1
<1>4. \A t \in Targets : HasCard(t) => HasCard(t)'
  BY DEF HasCard, Whole
<1>5. TypeOK'
  BY <1>1, <1>3, EntryTypes DEF FactoryInv, TypeOK, Whole, NoEntries
<1>6. CommandInv' /\ GradedByStage' /\ pc' # "saving" /\ DOMAIN card' = Targets
  BY DEF FactoryInv, CommandInv, GradedByStage
<1>7. EntriesInv'
  <2>1. \A t \in Targets : entries'[t].status \in Statuses
          /\ (entries'[t].status = "carded" => HasCard(t)')
    BY <1>1, <1>3, <1>4, EntryTypes DEF FactoryInv, EntriesInv, Statuses, Decided
  <2>2. \A u \in Targets : u < at => entries'[u].status \in Decided
    <3>1. \A u \in Targets : u < at => u # at
      BY <1>1, FactoryAssumption
    <3> QED BY <1>3, <3>1 DEF FactoryInv, EntriesInv, Busy
  <2> QED BY <1>3, <2>1, <2>2, EntryTypes DEF EntriesInv, Busy
<1>8. QueueInv'
  <2> SUFFICES ASSUME queue # Torn PROVE QueueInv'
    BY DEF QueueInv
  <2>1. queue[at].status # "carded"
    BY <1>1, EntryTypes DEF FactoryInv, QueueInv, EntriesInv, Decided
  <2> QED BY <1>1, <1>3, <1>4, <2>1, EntryTypes DEF FactoryInv, QueueInv
<1>9. ~LiveEditing => OwnedInv'
  BY <1>3 DEF FactoryInv, OwnedInv
<1> QED BY <1>5, <1>6, <1>7, <1>8, <1>9 DEF FactoryInv

\* A step inside the drive that changes only the place in the pipeline.
LEMMA DriveOnInv ==
  ASSUME FactoryInv, pc = "drive", pc' = "drive",
         UNCHANGED <<onDisk, mode, provider, entries, at, exit>>,
         stage' \in DOMAIN Stages, graded' \in 0 .. NumConditions, GradedByStage'
  PROVE  FactoryInv'
<1> USE DEF onDisk
<1>1. TypeOK'
  BY SameFiles DEF FactoryInv, TypeOK, NoEntries
<1>2. CommandInv' /\ pc' # "saving"
  BY DEF FactoryInv, CommandInv
<1>3. EntriesInv'
  BY SameFiles DEF FactoryInv, EntriesInv, Busy
<1>4. ~LiveEditing => OwnedInv'
  BY DEF FactoryInv, OwnedInv
<1> QED BY <1>1, <1>2, <1>3, <1>4, SameFiles DEF FactoryInv

LEMMA PassInv ==
  ASSUME FactoryInv, Pass
  PROVE  FactoryInv'
<1>1. stage \in 1 .. CardStage /\ stage # GridStage /\ stage # CardStage
  BY StageIs DEF Pass, FactoryInv
<1>2. stage' \in DOMAIN Stages /\ stage' = stage + 1
  BY <1>1, StageNames DEF Pass, CardStage
<1>3. graded' \in 0 .. NumConditions
  BY DEF Pass, FactoryInv, TypeOK
<1>4. GradedByStage'
  <2>1. /\ stage < GridStage => graded = 0
        /\ stage > GridStage => graded = NumConditions
    BY DEF FactoryInv, GradedByStage, Pass
  <2>2. /\ stage' < GridStage => stage < GridStage
        /\ stage' = GridStage => stage < GridStage
        /\ stage' > GridStage => stage > GridStage
    BY <1>1, <1>2, StageNames DEF GridStage, CardStage
  <2>3. graded' = graded /\ pc' = "drive" /\ 0 < NumConditions
    BY FactoryAssumption DEF Pass
  <2> QED BY <2>1, <2>2, <2>3 DEF GradedByStage
<1> QED BY <1>2, <1>3, <1>4, DriveOnInv DEF Pass

LEMMA GradeInv ==
  ASSUME FactoryInv, GradeCondition
  PROVE  FactoryInv'
<1>1. stage \in DOMAIN Stages /\ stage = GridStage /\ graded \in 0 .. NumConditions
      /\ pc = "drive"
  <2>1. stage = GridStage /\ pc = "drive"
    BY StageIs DEF GradeCondition, In, FactoryInv
  <2> QED BY <2>1 DEF FactoryInv, TypeOK
<1>2. graded < NumConditions
  BY <1>1 DEF FactoryInv, GradedByStage
<1>3. graded' = graded + 1 /\ graded' \in 0 .. NumConditions
  BY <1>1, <1>2, FactoryAssumption DEF GradeCondition
<1>4. stage' \in DOMAIN Stages /\ GradedByStage'
  BY <1>1, <1>2, <1>3, StageNames, FactoryAssumption
  DEF GradeCondition, GradedByStage, GridStage, CardStage
<1> QED BY <1>1, <1>3, <1>4, DriveOnInv DEF GradeCondition

LEMMA OpenCardInv ==
  ASSUME FactoryInv, OpenCard
  PROVE  FactoryInv'
<1> USE DEF OpenCard
<1>1. at \in Targets /\ entries \in Entries /\ pc = "drive"
  BY BusyTypes DEF Busy, In
<1>2. /\ DOMAIN card' = Targets
      /\ card'[at] = Torn
      /\ \A t \in Targets \ {at} : card'[t] = card[t]
  BY <1>1 DEF FactoryInv
<1>3. \A t \in Targets \ {at} : HasCard(t) => HasCard(t)'
  BY <1>2 DEF HasCard, Whole
<1>4. TypeOK'
  BY <1>1, <1>2, EntryTypes DEF FactoryInv, TypeOK, Whole, NoEntries
<1>5. CommandInv' /\ pc' # "saving"
  BY <1>1 DEF FactoryInv, CommandInv
<1>6. GradedByStage'
  <2>1. stage = CardStage
    BY StageIs DEF In, FactoryInv
  <2> QED BY <1>1, <2>1 DEF FactoryInv, GradedByStage
<1>7. EntriesInv'
  <2>1. entries[at].status # "carded" /\ entries' = entries
    BY <1>1 DEF FactoryInv, EntriesInv, Decided
  <2>2. \A t \in DOMAIN entries : entries[t].status = "carded" => HasCard(t)'
    BY <1>1, <1>3, <2>1, EntryTypes DEF FactoryInv, EntriesInv
  <2> QED BY <1>1, <2>1, <2>2, EntryTypes DEF FactoryInv, EntriesInv, Busy
<1>8. QueueInv'
  <2>1. queue # Torn => queue[at].status # "carded"
    BY <1>1, EntryTypes DEF FactoryInv, QueueInv, EntriesInv, Decided
  <2> QED BY <1>3, <2>1 DEF FactoryInv, QueueInv
<1>9. ~LiveEditing => OwnedInv'
  BY <1>1 DEF FactoryInv, OwnedInv
<1> QED BY <1>2, <1>4, <1>5, <1>6, <1>7, <1>8, <1>9 DEF FactoryInv

LEMMA WriteCardInv ==
  ASSUME FactoryInv, WriteCard
  PROVE  FactoryInv'
<1> USE DEF WriteCard
<1>1. at \in Targets /\ entries \in Entries /\ provider \in Providers
  BY BusyTypes DEF Busy, FactoryInv, CommandInv
<1>2. graded = NumConditions
  BY StageNames DEF FactoryInv, GradedByStage, GridStage, CardStage
<1>3. /\ DOMAIN card' = Targets
      /\ card'[at] = [by |-> provider, conditions |-> NumConditions]
      /\ \A t \in Targets \ {at} : card'[t] = card[t]
  BY <1>1, <1>2 DEF FactoryInv
<1>4. [by |-> provider, conditions |-> NumConditions]
        \in [by: Providers, conditions: 1 .. NumConditions]
  BY <1>1, FactoryAssumption
<1>5. Whole(card[at])' /\ HasCard(at)'
  <2>1. \A c \in [by: Providers, conditions: 1 .. NumConditions] : c # NoFile /\ c # Torn
    BY FactoryAssumption
  <2> QED BY <1>3, <1>4, <2>1 DEF HasCard, Whole
<1>6. \A t \in Targets : HasCard(t) => HasCard(t)'
  BY <1>3, <1>5 DEF HasCard, Whole
<1>7. /\ entries' \in Entries
      /\ entries'[at].status = "carded"
      /\ \A u \in Targets \ {at} : entries'[u] = entries[u]
  BY <1>1, Carded
<1>8. TypeOK'
  <2>1. \A t \in Targets : Whole(card[t])' =>
           card[t]' \in [by: Providers, conditions: 1 .. NumConditions]
    BY <1>3, <1>4 DEF FactoryInv, TypeOK, Whole
  <2> QED BY <1>1, <1>7, <2>1, EntryTypes DEF FactoryInv, TypeOK
<1>9. CommandInv' /\ GradedByStage' /\ pc' # "saving"
  BY DEF FactoryInv, CommandInv, GradedByStage
<1>10. EntriesInv'
  <2>1. \A t \in Targets : entries'[t].status \in Statuses
          /\ (entries'[t].status = "carded" => HasCard(t)')
    BY <1>1, <1>5, <1>6, <1>7, EntryTypes DEF FactoryInv, EntriesInv, Statuses, Decided
  <2>2. \A u \in Targets : u < at => entries'[u].status \in Decided
    <3>1. \A u \in Targets : u < at => u # at
      BY <1>1, FactoryAssumption
    <3> QED BY <1>7, <3>1 DEF FactoryInv, EntriesInv, Busy
  <2> QED BY <1>7, <2>1, <2>2, EntryTypes DEF EntriesInv, Busy
<1>11. QueueInv'
  BY <1>1, <1>6, <1>7, EntryTypes DEF FactoryInv, QueueInv
<1>12. ~LiveEditing => OwnedInv'
  BY <1>7 DEF FactoryInv, OwnedInv
<1> QED BY <1>3, <1>8, <1>9, <1>10, <1>11, <1>12 DEF FactoryInv

LEMMA OpenQueueInv ==
  ASSUME FactoryInv, OpenQueue
  PROVE  FactoryInv'
<1> USE DEF OpenQueue
<1>1. TypeOK'
  BY DEF FactoryInv, TypeOK, Whole
<1>2. CommandInv' /\ GradedByStage' /\ DOMAIN card' = Targets /\ QueueInv' /\ OwnedInv'
  BY DEF FactoryInv, CommandInv, GradedByStage, QueueInv, OwnedInv
<1>3. EntriesInv'
  BY DEF FactoryInv, EntriesInv, Busy, HasCard, Whole
<1> QED BY <1>1, <1>2, <1>3 DEF FactoryInv

LEMMA WriteQueueInv ==
  ASSUME FactoryInv, WriteQueue
  PROVE  FactoryInv'
<1> USE DEF WriteQueue
<1>1. at \in Targets /\ entries \in Entries /\ mode # "none"
  BY BusyTypes DEF Busy
<1>2. CASE mode = "run"
  <2> USE <1>2
  <2>1. TypeOK'
    BY <1>1 DEF FactoryInv, TypeOK, Whole
  <2>2. /\ CommandInv' /\ GradedByStage' /\ DOMAIN card' = Targets /\ OwnedInv'
        /\ pc' # "saving"
    BY DEF FactoryInv, CommandInv, GradedByStage, OwnedInv
  <2>3. \A t \in Targets : HasCard(t) => HasCard(t)'
    BY DEF HasCard, Whole
  <2>4. EntriesInv'
    BY <2>3, <1>1, EntryTypes DEF FactoryInv, EntriesInv, Busy
  <2>5. QueueInv'
    BY <2>3, <1>1, EntryTypes DEF FactoryInv, EntriesInv, QueueInv
  <2> QED BY <2>1, <2>2, <2>4, <2>5 DEF FactoryInv
<1>3. CASE mode # "run"
  <2>1. PICK how \in {"ok", "blocked"} : Ended(how)
    BY <1>3
  <2> QED BY <1>1, <2>1, EndedInv
<1> QED BY <1>2, <1>3

\* An author edits the queue file, which nobody is rewriting.
LEMMA AuthorQueueInv ==
  ASSUME FactoryInv, NEW t \in Targets, NEW s \in AuthorStatuses, AuthorQueue(t, s)
  PROVE  FactoryInv'
<1> USE DEF AuthorQueue, dispatch
<1> DEFINE e == [status |-> s, reason |-> Reason("author", FALSE)]
<1>1. queue \in Entries /\ e \in Entry /\ e.status = s /\ s # "carded"
  BY SomeEntries, FactoryAssumption DEF FactoryInv, TypeOK
<1>2. queue' = [queue EXCEPT ![t] = e]
  OBVIOUS
<1> HIDE DEF e
<1>3. /\ queue' \in Entries /\ queue' # Torn
      /\ queue'[t] = e
      /\ \A u \in Targets \ {t} : queue'[u] = queue[u]
  <2> HIDE DEF AuthorQueue, dispatch
  <2>0. queue \in Entries /\ e \in Entry
    BY <1>1
  <2>1. /\ [queue EXCEPT ![t] = e] \in Entries
        /\ [queue EXCEPT ![t] = e] # Torn
        /\ [queue EXCEPT ![t] = e][t] = e
        /\ \A u \in Targets \ {t} : [queue EXCEPT ![t] = e][u] = queue[u]
    BY <2>0, Replaced
  <2> QED BY <1>2, <2>1
<1>4. \A u \in Targets : HasCard(u) => HasCard(u)'
  BY DEF HasCard, Whole
<1>5. TypeOK'
  BY <1>3 DEF FactoryInv, TypeOK, Whole
<1>6. CommandInv' /\ GradedByStage' /\ pc' # "saving" /\ DOMAIN card' = Targets
  BY DEF FactoryInv, CommandInv, GradedByStage
<1>7. EntriesInv'
  <2>1. DOMAIN entries \subseteq Targets /\ entries' = entries
    BY EntryTypes DEF FactoryInv, TypeOK, NoEntries
  <2> QED BY <1>4, <2>1 DEF FactoryInv, EntriesInv, Busy
<1>8. QueueInv'
  <2>1. \A u \in Targets : queue'[u].status = "carded" =>
          u # t /\ queue[u].status = "carded"
    BY <1>1, <1>3
  <2>2. DOMAIN entries \subseteq Targets
    BY EntryTypes DEF FactoryInv, TypeOK, NoEntries
  <2> QED BY <1>3, <1>4, <2>1, <2>2 DEF FactoryInv, QueueInv
<1>9. ~LiveEditing => OwnedInv'
  BY DEF Idle, OwnedInv
<1> QED BY <1>5, <1>6, <1>7, <1>8, <1>9 DEF FactoryInv

LEMMA AuthorPackInv ==
  ASSUME FactoryInv, NEW t \in Targets, AuthorPack(t)
  PROVE  FactoryInv'
<1> USE DEF AuthorPack, dispatch
<1>1. pack' \in [Targets -> Obstacles \cup {NoObstacle}]
  BY DEF FactoryInv, TypeOK
<1>2. TypeOK'
  BY <1>1 DEF FactoryInv, TypeOK, Whole
<1>3. /\ CommandInv' /\ GradedByStage' /\ DOMAIN card' = Targets
      /\ EntriesInv' /\ QueueInv' /\ (OwnedInv => OwnedInv')
      /\ (pc' = "saving" => queue' = Torn)
  BY DEF FactoryInv, CommandInv, GradedByStage, EntriesInv, QueueInv, OwnedInv,
         Busy, HasCard, Whole
<1> QED BY <1>2, <1>3 DEF FactoryInv

\* A command that ends before it loads, or a step that changes nothing.
LEMMA StillInv ==
  ASSUME FactoryInv, UNCHANGED <<onDisk, dispatch>>,
         exit' = exit \/ (Idle /\ exit' \in {"raised", "blocked"})
  PROVE  FactoryInv'
<1> USE DEF onDisk, dispatch
<1>1. TypeOK'
  BY DEF FactoryInv, TypeOK, Whole
<1>2. /\ CommandInv' /\ GradedByStage' /\ DOMAIN card' = Targets
      /\ EntriesInv' /\ QueueInv' /\ (OwnedInv => OwnedInv')
      /\ (pc' = "saving" => queue' = Torn)
  BY DEF FactoryInv, CommandInv, GradedByStage, EntriesInv, QueueInv, OwnedInv,
         Busy, HasCard, Whole, Idle
<1> QED BY <1>1, <1>2 DEF FactoryInv

LEMMA StepInv == FactoryInv /\ [Next]_factoryVars => FactoryInv'
<1> SUFFICES ASSUME FactoryInv, [Next]_factoryVars PROVE FactoryInv'
  OBVIOUS
<1>1. CASE LoadRaises \/ NoModel
  BY <1>1, StillInv DEF LoadRaises, NoModel
<1>2. CASE \E m \in {"next", "run"}, p \in Providers : Start(m, p)
  BY <1>2, StartInv
<1>3. CASE \E t \in Targets : Pick(t)
  BY <1>3, PickInv
<1>4. CASE NothingToDo
  BY <1>4, EndedInv DEF NothingToDo, onDisk
<1>5. CASE Block
  BY <1>5, BlockInv
<1>6. CASE Raise
  BY <1>6, EndedInv DEF Raise, onDisk
<1>7. CASE Pass
  BY <1>7, PassInv
<1>8. CASE GradeCondition
  BY <1>8, GradeInv
<1>9. CASE OpenCard
  BY <1>9, OpenCardInv
<1>10. CASE WriteCard
  BY <1>10, WriteCardInv
<1>11. CASE OpenQueue
  BY <1>11, OpenQueueInv
<1>12. CASE WriteQueue
  BY <1>12, WriteQueueInv
<1>13. CASE Crash
  BY <1>13, EndedInv DEF Crash, onDisk
<1>14. CASE \E t \in Targets : AuthorPack(t)
  BY <1>14, AuthorPackInv
<1>15. CASE \E t \in Targets, s \in AuthorStatuses : AuthorQueue(t, s)
  BY <1>15, AuthorQueueInv
<1>16. CASE UNCHANGED factoryVars
  BY <1>16, StillInv DEF factoryVars
<1> QED
  BY <1>1, <1>2, <1>3, <1>4, <1>5, <1>6, <1>7, <1>8, <1>9, <1>10, <1>11, <1>12,
     <1>13, <1>14, <1>15, <1>16 DEF Next, FactoryStep
LEMMA Invariance == Spec => []FactoryInv
BY InitInv, StepInv, PTL DEF Spec

-----------------------------------------------------------------------------
(***************************************************************************)
(* Safety.                                                                 *)
(***************************************************************************)

\* The variables keep their types.
THEOREM DispatcherIsTyped == Spec => []TypeOK
<1>1. FactoryInv => TypeOK
  BY DEF FactoryInv
<1> QED BY Invariance, <1>1, PTL

\* Money is spent only on a target that is open in a word the code knows, with
\* every target ahead of it decided, whatever authors write into the queue and
\* whenever a command is killed; and, while nobody edits the file under the
\* command, only on one that is open in the file.
THEOREM SpendsOnlyOnUndecided == Spec => []WorksOnlyUndecided
<1>1. FactoryInv => WorksOnlyUndecided
  BY DEF FactoryInv, EntriesInv, OwnedInv, Busy, WorksOnlyUndecided
<1> QED BY Invariance, <1>1, PTL

\* A target reads carded only when a whole card of all conditions is on file.
THEOREM CardedIsBacked == Spec => []CardedHasWholeCard
<1>1. FactoryInv => CardedHasWholeCard
  BY DEF FactoryInv, QueueInv, HasCard, CardedHasWholeCard
<1> QED BY Invariance, <1>1, PTL

\* A `run` that nobody edits under and that ends well has decided every target
\* of the file.
THEOREM RunDecidesAll == ASSUME ~LiveEditing PROVE Spec => RunDrainsQueue
<1> DEFINE Drained ==
             mode = "run" /\ exit' = "ok" /\ queue # Torn =>
               \A t \in Targets : queue[t].status \in Decided
<1>1. FactoryInv /\ Next => Drained
  <2> SUFFICES ASSUME FactoryInv, Next, mode = "run", exit' = "ok", queue # Torn
               PROVE  \A t \in Targets : queue[t].status \in Decided
    OBVIOUS
  <2>1. pc # "idle" /\ exit = "none"
    BY DEF FactoryInv, CommandInv
  <2>2. exit' # exit
    BY <2>1
  <2>3. NothingToDo
    BY <2>1, <2>2
    DEF Next, FactoryStep, LoadRaises, NoModel, Start, Idle, Pick, Block, Raise, Pass,
        GradeCondition, OpenCard, WriteCard, OpenQueue, WriteQueue, Crash, Ended,
        AuthorPack, AuthorQueue
  <2>4. queue = entries /\ queue \in Entries
    BY <2>3 DEF FactoryInv, TypeOK, OwnedInv, NothingToDo
  <2> QED
    BY <2>3, <2>4, EntryTypes
    DEF NothingToDo, Open, FactoryInv, EntriesInv, Statuses, Decided, DoneStatuses
<1>2. FactoryInv /\ [Next]_factoryVars => [Drained]_factoryVars
  BY <1>1
<1> QED BY Invariance, <1>2, PTL DEF Spec, RunDrainsQueue

-----------------------------------------------------------------------------
(***************************************************************************)
(* The refinement of Worklist.                                             *)
(***************************************************************************)

Cards == {t \in Targets : Whole(card[t])}

LEMMA CalledIs ==
  ASSUME NEW q, NEW t \in Targets
  PROVE  /\ Called(q, t) \in WL!Calls
         /\ q[t].status \in Decided => Called(q, t) = q[t].status /\ Called(q, t) # "open"
         /\ q[t].status \notin Decided => Called(q, t) = "open"
BY DEF Called, WL!Calls, Decided

\* Away from the rewriting of the queue file, the board is the file.
LEMMA BoardIs ==
  ASSUME pc # "saving"
  PROVE  Board = IF queue = Torn THEN Torn ELSE [t \in Targets |-> Called(queue, t)]
BY DEF Board

LEMMA SameBoard ==
  ASSUME pc # "saving", pc' # "saving", UNCHANGED queue
  PROVE  UNCHANGED Board
<1>1. \A t \in Targets : Called(queue, t)' = Called(queue, t)
  BY DEF Called
<1> QED BY <1>1 DEF Board

LEMMA SameCards ==
  ASSUME UNCHANGED card
  PROVE  UNCHANGED Cards
BY DEF Cards, Whole
\* The board while a target is driven: the target is its head.
LEMMA DrivenIsHead ==
  ASSUME FactoryInv, ~LiveEditing, pc \in {"drive", "card", "save"}
  PROVE  /\ at \in Targets
         /\ Board = [t \in Targets |-> IF t = at THEN "open" ELSE Called(entries, t)]
         /\ WL!Head(at)
<1>1. /\ at \in Targets /\ entries \in Entries
      /\ queue # Torn
      /\ queue[at].status \notin Decided
      /\ \A t \in Targets \ {at} : queue[t] = entries[t]
  BY BusyTypes DEF Busy, FactoryInv, OwnedInv
<1>2. Board = [t \in Targets |-> Called(queue, t)]
  BY <1>1, BoardIs
<1>3. \A t \in Targets : Called(queue, t) = IF t = at THEN "open" ELSE Called(entries, t)
  <2>1. Called(queue, at) = "open"
    BY <1>1, CalledIs
  <2>2. \A t \in Targets \ {at} : Called(queue, t) = Called(entries, t)
    BY <1>1 DEF Called
  <2> QED BY <2>1, <2>2
<1>4. Board = [t \in Targets |-> IF t = at THEN "open" ELSE Called(entries, t)]
  BY <1>2, <1>3
<1>5. \A u \in Targets : u < at => Called(entries, u) # "open" /\ u # at
  BY <1>1, CalledIs, FactoryAssumption DEF FactoryInv, EntriesInv, Busy
<1>6. Board # Torn
  BY <1>2, CalledIs, TornAssumption DEF WL!Calls, Decided
<1> QED BY <1>1, <1>4, <1>5, <1>6 DEF WL!Head

\* And while its decision is written.
LEMMA SavedIsHead ==
  ASSUME FactoryInv, pc = "saving"
  PROVE  /\ at \in Targets /\ entries \in Entries
         /\ Board = [t \in Targets |-> IF t = at THEN "open" ELSE Called(entries, t)]
         /\ WL!Head(at)
<1>1. at \in Targets /\ entries \in Entries
  BY BusyTypes DEF Busy
<1>2. Board = [t \in Targets |-> IF t = at THEN "open" ELSE Called(entries, t)]
  BY DEF Board
<1>3. \A u \in Targets : u < at => Called(entries, u) # "open" /\ u # at
  BY <1>1, CalledIs, FactoryAssumption DEF FactoryInv, EntriesInv, Busy
<1>4. Board # Torn
  BY <1>2, CalledIs, TornAssumption DEF WL!Calls, Decided
<1> QED BY <1>1, <1>2, <1>3, <1>4 DEF WL!Head

LEMMA RefineInit == Init => WL!WLInit
<1> SUFFICES ASSUME Init PROVE WL!WLInit
  OBVIOUS
<1>1. queue \in Entries /\ pc # "saving" /\ \A t \in Targets : queue[t].status \notin Decided
  BY EntriesAre, SomeEntries DEF Init, Queued, Decided
<1>2. Board = [t \in Targets |-> "open"]
  BY <1>1, BoardIs, CalledIs, TornAssumption
<1>3. Cards = {}
  BY DEF Init, Cards, Whole
<1> QED BY <1>2, <1>3 DEF WL!WLInit, Cards

\* Opening the card of a target withdraws the one it had.
LEMMA OpenCardRefines ==
  ASSUME FactoryInv, ~LiveEditing, OpenCard
  PROVE  WL!Withdraw(at)
<1>1. at \in Targets /\ WL!Head(at)
  BY DrivenIsHead DEF OpenCard, In
<1>2. UNCHANGED Board
  BY SameBoard DEF OpenCard, In
<1>3. Cards' = Cards \ {at}
  BY <1>1 DEF OpenCard, Cards, Whole, FactoryInv
<1> QED BY <1>1, <1>2, <1>3 DEF WL!Withdraw, Cards

\* Writing it publishes the new one.
LEMMA WriteCardRefines ==
  ASSUME FactoryInv, ~LiveEditing, WriteCard
  PROVE  WL!Publish(at)
<1>1. at \in Targets /\ WL!Head(at)
  BY DrivenIsHead DEF WriteCard
<1>2. UNCHANGED Board
  BY SameBoard DEF WriteCard
<1>3. FactoryInv' /\ at' = at /\ entries'[at].status = "carded"
  <2>1. entries \in Entries
    BY BusyTypes DEF WriteCard, Busy
  <2> QED BY <1>1, <2>1, WriteCardInv, Carded DEF WriteCard
<1>4. Whole(card[at])'
  <2>1. at \in DOMAIN entries'
    BY <1>1, <1>3 DEF FactoryInv, TypeOK, WriteCard
  <2> QED BY <1>3, <2>1 DEF FactoryInv, EntriesInv, HasCard
<1>5. \A t \in Targets \ {at} : card'[t] = card[t]
  BY <1>1 DEF FactoryInv, WriteCard
<1>6. Cards' = Cards \cup {at}
  BY <1>1, <1>3, <1>4, <1>5 DEF Cards, Whole
<1> QED BY <1>1, <1>2, <1>6 DEF WL!Publish, Cards

\* Truncating the queue file changes nothing an operator counts on yet.
LEMMA OpenQueueRefines ==
  ASSUME FactoryInv, ~LiveEditing, OpenQueue
  PROVE  UNCHANGED <<Board, Cards>>
<1>1. Board = [t \in Targets |-> IF t = at THEN "open" ELSE Called(entries, t)]
  BY DrivenIsHead DEF OpenQueue
<1>2. Board' = [t \in Targets |-> IF t = at THEN "open" ELSE Called(entries, t)]
  BY DEF OpenQueue, Board, Called
<1> QED BY <1>1, <1>2, SameCards DEF OpenQueue

\* Writing it decides the target.
LEMMA WriteQueueRefines ==
  ASSUME FactoryInv, WriteQueue
  PROVE  WL!Decide(at)
<1>1. /\ at \in Targets /\ entries \in Entries
      /\ Board = [t \in Targets |-> IF t = at THEN "open" ELSE Called(entries, t)]
      /\ WL!Head(at)
  BY SavedIsHead DEF WriteQueue
<1>2. queue' = entries /\ queue' # Torn /\ pc' # "saving" /\ UNCHANGED card
  BY <1>1, TornAssumption DEF WriteQueue, Ended
<1>3. Board' = [t \in Targets |-> Called(entries, t)]
  BY <1>2 DEF Board, Called
<1>4. entries[at].status \in {"carded", "blocked"}
  BY DEF FactoryInv, EntriesInv, WriteQueue
<1>5. Called(entries, at) = entries[at].status
  BY <1>1, <1>4, CalledIs DEF Decided
<1>6. Board' = [Board EXCEPT ![at] = entries[at].status]
  BY <1>1, <1>3, <1>5
<1>7. entries[at].status = "carded" => at \in Cards
  BY <1>1, EntryTypes DEF FactoryInv, EntriesInv, HasCard, Cards
<1>8. UNCHANGED Cards
  BY <1>2, SameCards
<1> QED BY <1>1, <1>4, <1>6, <1>7, <1>8 DEF WL!Decide, Cards

\* A kill in the middle of the rewriting loses the board.
LEMMA CrashRefines ==
  ASSUME FactoryInv, Crash
  PROVE  UNCHANGED <<Board, Cards>> \/ WL!Lose(at)
<1>1. pc' # "saving" /\ UNCHANGED <<queue, card>>
  BY DEF Crash, Ended, onDisk
<1>2. UNCHANGED Cards
  BY <1>1, SameCards
<1>3. CASE pc # "saving"
  BY <1>1, <1>2, <1>3, SameBoard
<1>4. CASE pc = "saving"
  <2>1. WL!Head(at)
    BY <1>4, SavedIsHead
  <2>2. Board' = Torn
    BY <1>1, <1>4 DEF FactoryInv, Board
  <2> QED BY <1>2, <2>1, <2>2 DEF WL!Lose, Cards
<1> QED BY <1>3, <1>4

\* An author moves a target, and never to carded.
LEMMA AuthorQueueRefines ==
  ASSUME FactoryInv, ~LiveEditing, NEW t \in Targets, NEW s \in AuthorStatuses,
         AuthorQueue(t, s)
  PROVE  WL!Move(t)
<1> DEFINE e == [status |-> s, reason |-> Reason("author", FALSE)]
<1>1. /\ pc # "saving" /\ pc' # "saving" /\ queue # Torn /\ UNCHANGED card
      /\ queue' = [queue EXCEPT ![t] = e]
  BY DEF AuthorQueue, dispatch
<1>2. queue \in Entries /\ e \in Entry /\ e.status = s /\ s # "carded"
  BY <1>1, SomeEntries, FactoryAssumption DEF FactoryInv, TypeOK
<1> HIDE DEF e
<1>3. /\ [queue EXCEPT ![t] = e] \in Entries
      /\ [queue EXCEPT ![t] = e] # Torn
      /\ [queue EXCEPT ![t] = e][t] = e
      /\ \A u \in Targets \ {t} : [queue EXCEPT ![t] = e][u] = queue[u]
  BY <1>2, Replaced
<1>4. /\ queue' # Torn /\ queue'[t] = e
      /\ \A u \in Targets \ {t} : queue'[u] = queue[u]
  BY <1>1, <1>3
<1> DEFINE call == Called(queue', t)
<1>5. Board = [u \in Targets |-> Called(queue, u)]
  BY <1>1, BoardIs
<1>6. Board' = [u \in Targets |-> Called(queue', u)]
  BY <1>1, <1>4 DEF Board, Called
<1>7. \A u \in Targets \ {t} : Called(queue', u) = Called(queue, u)
  BY <1>4 DEF Called
<1>8. call \in WL!Calls \ {"carded"}
  BY <1>2, <1>4 DEF Called, WL!Calls, Decided
<1> HIDE DEF call
<1>9. Board' = [Board EXCEPT ![t] = call]
  BY <1>5, <1>6, <1>7 DEF call
<1>10. Board # Torn
  BY <1>5, CalledIs, TornAssumption DEF WL!Calls, Decided
<1>11. UNCHANGED Cards
  BY <1>1, SameCards
<1> QED BY <1>8, <1>9, <1>10, <1>11 DEF WL!Move, Cards

LEMMA RefineStep ==
  ASSUME ~LiveEditing, FactoryInv, [Next]_factoryVars
  PROVE  [WL!WLNext]_<<Board, Cards>>
<1>1. CASE LoadRaises \/ NoModel \/ UNCHANGED factoryVars
  <2>1. CASE pc = "saving"
    <3>1. UNCHANGED <<onDisk, dispatch, exit>>
      BY <1>1, <2>1 DEF LoadRaises, NoModel, Idle, factoryVars
    <3> QED BY <3>1, SameCards DEF Board, Called, onDisk, dispatch
  <2>2. CASE pc # "saving"
    BY <1>1, <2>2, SameBoard, SameCards
    DEF LoadRaises, NoModel, factoryVars, onDisk, dispatch
  <2> QED BY <2>1, <2>2
<1>2. CASE \E m \in {"next", "run"}, p \in Providers : Start(m, p)
  BY <1>2, SameBoard, SameCards DEF Start, Idle, onDisk
<1>3. CASE (\E t \in Targets : Pick(t)) \/ NothingToDo
  BY <1>3, SameBoard, SameCards DEF Pick, NothingToDo, Ended, onDisk
<1>4. CASE Block \/ Raise \/ Pass \/ GradeCondition
  BY <1>4, SameBoard, SameCards DEF Block, Raise, Pass, GradeCondition, In, Ended, onDisk
<1>5. CASE OpenCard
  <2>1. at \in Targets
    BY <1>5, DrivenIsHead DEF OpenCard, In
  <2> QED BY <1>5, <2>1, OpenCardRefines DEF WL!WLNext
<1>6. CASE WriteCard
  <2>1. at \in Targets
    BY <1>6, DrivenIsHead DEF WriteCard
  <2> QED BY <1>6, <2>1, WriteCardRefines DEF WL!WLNext
<1>7. CASE OpenQueue
  BY <1>7, OpenQueueRefines
<1>8. CASE WriteQueue
  <2>1. at \in Targets
    BY <1>8, SavedIsHead DEF WriteQueue
  <2> QED BY <1>8, <2>1, WriteQueueRefines DEF WL!WLNext
<1>9. CASE Crash
  <2>1. WL!Lose(at) => pc = "saving" \/ at \in Targets \/ UNCHANGED <<Board, Cards>>
    BY <1>9, SameBoard, SameCards DEF Crash, Ended, onDisk
  <2>2. pc = "saving" => at \in Targets
    BY SavedIsHead
  <2> QED BY <1>9, <2>1, <2>2, CrashRefines DEF WL!WLNext
<1>10. CASE \E t \in Targets : AuthorPack(t)
  <2>1. UNCHANGED <<queue, card, dispatch>>
    BY <1>10 DEF AuthorPack
  <2> QED BY <2>1, SameCards DEF Board, Called, dispatch
<1>11. CASE \E t \in Targets, s \in AuthorStatuses : AuthorQueue(t, s)
  BY <1>11, AuthorQueueRefines DEF WL!WLNext
<1> QED
  BY <1>1, <1>2, <1>3, <1>4, <1>5, <1>6, <1>7, <1>8, <1>9, <1>10, <1>11
  DEF Next, FactoryStep

\* While nobody edits the queue under a running command, the dispatcher
\* implements the worklist an operator sees: targets are decided one at a
\* time and in rank order, carded only with their card, and stay decided.
THEOREM DispatcherRefines == ASSUME ~LiveEditing PROVE Spec => ImplementsWorklist
<1>1. FactoryInv /\ [Next]_factoryVars =>
        [WL!WLNext]_<<Board, {t \in Targets : Whole(card[t])}>>
  BY RefineStep DEF Cards
<1> QED BY <1>1, RefineInit, Invariance, PTL DEF Spec, ImplementsWorklist, WL!WLSpec

-----------------------------------------------------------------------------
(***************************************************************************)
(* Why a command ends.                                                     *)
(***************************************************************************)

\* The open targets the command has not reached; the steps one target takes at
\* most; and those the command has left at its place.
Pending == IF pc = "pick" THEN Open ELSE Open \ {at}
StepsOfTarget == CardStage + NumConditions + 4
StepsHere ==
  CASE pc = "drive"  -> (CardStage - stage) + (NumConditions - graded) + 4
    [] pc = "card"   -> 3
    [] pc = "save"   -> 2
    [] pc = "saving" -> 1
    [] OTHER         -> 0
StepsLeft == Cardinality(Pending) * StepsOfTarget + StepsHere

LEMMA PendingIsFinite ==
  ASSUME IsFiniteSet(Targets), FactoryInv
  PROVE  /\ Open \subseteq Targets /\ Pending \subseteq Targets
         /\ IsFiniteSet(Pending) /\ Cardinality(Pending) \in Nat
         /\ Cardinality(Targets) \in Nat /\ Cardinality(Pending) <= Cardinality(Targets)
<1>1. DOMAIN entries \subseteq Targets
  BY EntryTypes DEF FactoryInv, TypeOK, NoEntries
<1>2. Open \subseteq Targets /\ Pending \subseteq Targets
  BY <1>1 DEF Open, Pending
<1> QED BY <1>2, FS_Subset, FS_CardinalityType

LEMMA StepsHereBound ==
  ASSUME FactoryInv
  PROVE  StepsHere \in Nat /\ StepsHere <= StepsOfTarget - 1 /\ StepsOfTarget \in Nat
<1>1. /\ stage \in 1 .. CardStage /\ CardStage \in Nat
      /\ graded \in 0 .. NumConditions /\ NumConditions \in Nat
  BY StageIs, FactoryAssumption DEF FactoryInv, TypeOK
<1> HIDE DEF CardStage
<1> QED BY <1>1 DEF StepsHere, StepsOfTarget

\* With the same targets pending, a place further on leaves less to do.
LEMMA WithinATarget ==
  ASSUME IsFiniteSet(Targets), FactoryInv, Pending' = Pending,
         StepsHere' \in Nat, StepsHere' < StepsHere
  PROVE  StepsLeft' < StepsLeft
<1> DEFINE n == Cardinality(Pending) * StepsOfTarget
           here == StepsHere
           then == StepsHere'
<1>1. StepsOfTarget' = StepsOfTarget
  BY DEF StepsOfTarget, CardStage
<1>2. n \in Nat
  BY PendingIsFinite, StepsHereBound
<1>3. StepsLeft = n + here /\ StepsLeft' = n + then
  BY <1>1 DEF StepsLeft
<1>4. here \in Nat /\ then \in Nat /\ then < here
  BY StepsHereBound
<1> HIDE DEF n, here, then
<1> QED BY <1>2, <1>3, <1>4

\* To take up a target leaves one fewer pending.
LEMMA PickLeavesLess ==
  ASSUME IsFiniteSet(Targets), FactoryInv, FactoryInv', NEW t \in Targets, Pick(t)
  PROVE  StepsLeft' < StepsLeft
<1> DEFINE n == Cardinality(Pending')
           then == StepsHere'
<1>1. t \in Pending /\ Pending' = Pending \ {t} /\ StepsHere = 0
  BY DEF Pick, NextTarget, Pending, Open, StepsHere
<1>2. n \in Nat /\ Cardinality(Pending) = n + 1
  <2>1. IsFiniteSet(Pending) /\ Cardinality(Pending) \in Nat
    BY PendingIsFinite
  <2>2. Cardinality(Pending \ {t}) = Cardinality(Pending) - 1
    BY <1>1, <2>1, FS_RemoveElement
  <2>3. Cardinality(Pending \ {t}) \in Nat
    BY <2>1, FS_Subset, FS_CardinalityType
  <2> QED BY <1>1, <2>1, <2>2, <2>3
<1>3. StepsOfTarget' = StepsOfTarget
  BY DEF StepsOfTarget, CardStage
<1>4. then \in Nat /\ then <= StepsOfTarget - 1 /\ StepsOfTarget \in Nat
  <2>1. /\ stage' = 1 /\ graded' = 0 /\ pc' = "drive"
        /\ CardStage \in Nat /\ CardStage >= 1 /\ NumConditions \in Nat
    BY StageNames, FactoryAssumption DEF Pick, CardStage
  <2>2. CardStage' = CardStage
    BY DEF CardStage
  <2>3. then = (CardStage - 1) + (NumConditions - 0) + 4
    BY <2>1, <2>2 DEF StepsHere
  <2> HIDE DEF then, CardStage
  <2> QED BY <2>1, <2>3 DEF StepsOfTarget
<1>5. StepsLeft = (n + 1) * StepsOfTarget
  <2>1. StepsLeft = Cardinality(Pending) * StepsOfTarget + 0
    BY <1>1 DEF StepsLeft
  <2>2. (n + 1) * StepsOfTarget \in Nat
    BY <1>2, <1>4
  <2> QED BY <1>2, <2>1, <2>2
<1>6. StepsLeft' = n * StepsOfTarget + then
  BY <1>3 DEF StepsLeft
<1> HIDE DEF n, then
<1>7. (n + 1) * StepsOfTarget = n * StepsOfTarget + StepsOfTarget /\ n * StepsOfTarget \in Nat
  BY <1>2, <1>4
<1> QED BY <1>4, <1>5, <1>6, <1>7

\* What is done to the target being driven concerns no other.
LEMMA OthersStayPending ==
  ASSUME FactoryInv, Busy, at' = at, pc' # "pick", DOMAIN entries' = DOMAIN entries,
         \A u \in Targets \ {at} : entries'[u] = entries[u]
  PROVE  Pending' = Pending
<1>1. DOMAIN entries = Targets
  BY BusyTypes, EntryTypes
<1> QED BY <1>1 DEF Pending, Open, Busy

LEMMA DriveOn ==
  ASSUME FactoryInv, FactoryInv', Pass \/ GradeCondition \/ OpenCard
  PROVE  StepsHere' \in Nat /\ StepsHere' < StepsHere /\ Pending' = Pending
<1>1. /\ stage \in 1 .. CardStage /\ CardStage \in Nat /\ stage' \in 1 .. CardStage
      /\ graded \in 0 .. NumConditions /\ NumConditions \in Nat
      /\ graded' \in 0 .. NumConditions
  <2>1. stage' \in 1 .. CardStage
    BY StageNames DEF FactoryInv, TypeOK, CardStage
  <2> QED BY <2>1, StageIs, FactoryAssumption DEF FactoryInv, TypeOK
<1>2. Pending' = Pending
  BY DEF Pass, GradeCondition, OpenCard, In, Pending, Open
<1>3. CASE Pass
  <2>1. pc = "drive" /\ pc' = "drive" /\ stage' = stage + 1 /\ graded' = graded
    BY <1>3 DEF Pass
  <2> HIDE DEF CardStage
  <2> QED BY <1>1, <1>2, <2>1 DEF StepsHere
<1>4. CASE GradeCondition
  <2>1. pc = "drive" /\ pc' = "drive" /\ stage' \in {stage, stage + 1} /\ graded' = graded + 1
    BY <1>4 DEF GradeCondition, In
  <2> HIDE DEF CardStage
  <2> QED BY <1>1, <1>2, <2>1 DEF StepsHere
<1>5. CASE OpenCard
  <2>1. pc = "drive" /\ pc' = "card"
    BY <1>5 DEF OpenCard, In
  <2> HIDE DEF CardStage
  <2> QED BY <1>1, <1>2, <2>1 DEF StepsHere
<1> QED BY <1>3, <1>4, <1>5

LEMMA BlockMovesOn ==
  ASSUME FactoryInv, Block
  PROVE  StepsHere' \in Nat /\ StepsHere' < StepsHere /\ Pending' = Pending
<1>1. /\ stage \in 1 .. CardStage /\ CardStage \in Nat
      /\ graded \in 0 .. NumConditions /\ NumConditions \in Nat
  BY StageIs, FactoryAssumption DEF FactoryInv, TypeOK
<1>2. pc = "drive" /\ pc' = "save" /\ at' = at
  BY DEF Block
<1>3. StepsHere' \in Nat /\ StepsHere' < StepsHere
  <2> HIDE DEF CardStage
  <2> QED BY <1>1, <1>2 DEF StepsHere
<1>4. Pending' = Pending
  <2>1. entries \in Entries /\ DOMAIN entries = Targets /\ Busy
    BY <1>2, BusyTypes, EntryTypes DEF Busy
  <2>2. \E e : entries' = [entries EXCEPT ![at] = e]
    BY DEF Block
  <2>3. /\ DOMAIN entries' = DOMAIN entries
        /\ \A u \in Targets \ {at} : entries'[u] = entries[u]
    BY <2>1, <2>2, EntriesAre
  <2> QED BY <1>2, <2>1, <2>3, OthersStayPending
<1> QED BY <1>3, <1>4

LEMMA WriteCardMovesOn ==
  ASSUME FactoryInv, WriteCard
  PROVE  StepsHere' \in Nat /\ StepsHere' < StepsHere /\ Pending' = Pending
<1>1. pc = "card" /\ pc' = "save" /\ at' = at
  BY DEF WriteCard
<1>2. StepsHere = 3 /\ StepsHere' = 2
  BY <1>1 DEF StepsHere
<1>3. Pending' = Pending
  <2>1. entries \in Entries /\ at \in Targets /\ DOMAIN entries = Targets /\ Busy
    BY <1>1, BusyTypes, EntryTypes DEF Busy
  <2>2. /\ entries' \in Entries
        /\ \A u \in Targets \ {at} : entries'[u] = entries[u]
    BY <2>1, Carded DEF WriteCard
  <2> QED BY <1>1, <2>1, <2>2, EntryTypes, OthersStayPending
<1> QED BY <1>2, <1>3

\* A target is decided when it is saved, so the next look at the queue does not
\* find it open.
LEMMA SavingMovesOn ==
  ASSUME FactoryInv, OpenQueue \/ WriteQueue
  PROVE  pc' = "idle" \/ (StepsHere' \in Nat /\ StepsHere' < StepsHere /\ Pending' = Pending)
<1>1. CASE OpenQueue
  <2>1. pc = "save" /\ pc' = "saving"
    BY <1>1 DEF OpenQueue
  <2>2. Pending' = Pending
    BY <1>1 DEF OpenQueue, Pending, Open
  <2> QED BY <2>1, <2>2 DEF StepsHere
<1>2. CASE WriteQueue /\ mode = "run"
  <2>1. pc = "saving" /\ pc' = "pick" /\ entries' = entries
    BY <1>2 DEF WriteQueue
  <2>2. at \notin Open
    BY <2>1 DEF FactoryInv, EntriesInv, Open, DoneStatuses, Decided
  <2>3. Pending' = Pending
    BY <2>1, <2>2 DEF Pending, Open
  <2> QED BY <2>1, <2>3 DEF StepsHere
<1>3. CASE WriteQueue /\ mode # "run"
  BY <1>3 DEF WriteQueue, Ended
<1> QED BY <1>1, <1>2, <1>3

\* Each step of a running command ends it or uses up a step; only authors act
\* meanwhile.
LEMMA StepUsesAStep ==
  ASSUME IsFiniteSet(Targets), FactoryInv, FactoryInv', Next, ~Idle
  PROVE  Idle' \/ StepsLeft' < StepsLeft \/ UNCHANGED dispatch
<1>1. CASE \E t \in Targets : Pick(t)
  BY <1>1, PickLeavesLess
<1>2. CASE NothingToDo \/ Raise \/ Crash
  BY <1>2 DEF NothingToDo, Raise, Crash, Ended, Idle
<1>3. CASE Block
  BY <1>3, BlockMovesOn, WithinATarget
<1>4. CASE Pass \/ GradeCondition \/ OpenCard
  BY <1>4, DriveOn, WithinATarget
<1>5. CASE WriteCard
  BY <1>5, WriteCardMovesOn, WithinATarget
<1>6. CASE OpenQueue \/ WriteQueue
  BY <1>6, SavingMovesOn, WithinATarget DEF Idle
<1>7. CASE \E t \in Targets : AuthorPack(t) \/ \E s \in AuthorStatuses : AuthorQueue(t, s)
  BY <1>7 DEF AuthorPack, AuthorQueue
<1>8. ~LoadRaises /\ ~NoModel /\ \A m \in {"next", "run"}, p \in Providers : ~Start(m, p)
  BY DEF LoadRaises, NoModel, Start
<1> QED
  BY <1>1, <1>2, <1>3, <1>4, <1>5, <1>6, <1>7, <1>8 DEF Next, FactoryStep

LEMMA StepsAreBounded ==
  ASSUME IsFiniteSet(Targets), FactoryInv
  PROVE  StepsLeft \in 0 .. (Cardinality(Targets) + 1) * StepsOfTarget
<1> DEFINE n == Cardinality(Pending)
           m == Cardinality(Targets)
<1>1. n \in Nat /\ m \in Nat /\ n <= m
  BY PendingIsFinite
<1>2. StepsHere \in Nat /\ StepsHere <= StepsOfTarget /\ StepsOfTarget \in Nat
  BY StepsHereBound
<1>3. StepsLeft = n * StepsOfTarget + StepsHere
  BY DEF StepsLeft
<1> HIDE DEF n, m
<1>4. /\ n * StepsOfTarget \in Nat /\ m * StepsOfTarget \in Nat
      /\ n * StepsOfTarget <= m * StepsOfTarget
      /\ (m + 1) * StepsOfTarget = m * StepsOfTarget + StepsOfTarget
  BY <1>1, <1>2
<1>5. StepsLeft \in 0 .. (m + 1) * StepsOfTarget
  BY <1>2, <1>3, <1>4
<1> QED BY <1>5 DEF m

\* The dispatcher cannot go on for ever: of a number of steps that the targets,
\* the gates and the conditions bound in advance, each of its steps uses up one
\* or ends it, whatever authors do to the file and the packs meanwhile (the loop
\* of core/__main__.py:1061).
THEOREM DispatchIsFinite ==
  ASSUME IsFiniteSet(Targets)
  PROVE  Spec => /\ [](StepsLeft \in 0 .. (Cardinality(Targets) + 1) * StepsOfTarget)
                 /\ [][~Idle => Idle' \/ StepsLeft' < StepsLeft \/ UNCHANGED dispatch]_factoryVars
<1>1. FactoryInv => StepsLeft \in 0 .. (Cardinality(Targets) + 1) * StepsOfTarget
  BY StepsAreBounded
<1>2. FactoryInv /\ FactoryInv' /\ [Next]_factoryVars =>
        [~Idle => Idle' \/ StepsLeft' < StepsLeft \/ UNCHANGED dispatch]_factoryVars
  BY StepUsesAStep
<1> QED BY <1>1, <1>2, Invariance, PTL DEF Spec
=============================================================================
