------------------------------- MODULE DocsFetch -------------------------------
(***************************************************************************)
(* `fetch-docs` (core/docs_fetch.py) and `annotate-robots` (core/robots.py)*)
(* over one pack: the committed manifest, the gitignored cache of page     *)
(* texts, and what a condition injects from the two (core/conditions.py).  *)
(* Both commands load the manifest once, walk its entries in order, and    *)
(* write it back once, at the end; fetch-docs writes or deletes a cache    *)
(* file per entry on the way.                                              *)
(*                                                                         *)
(* A robots.txt is abstracted to the URLs it forbids one agent, a document *)
(* to what tells two retrievals apart.  content_hash and byte_size, always *)
(* written together, are the field text.                                   *)
(***************************************************************************)
EXTENDS Naturals

CONSTANTS
  NumPages,     \* entries of the manifest, in the order _entry_items yields them
  TaskOf,       \* TaskOf[p]: the task entry p belongs to
  KeyOf,        \* KeyOf[p]: the list it is in
  UrlOf,        \* UrlOf[p]: its url
  SlugOf,       \* SlugOf[u]: slug_for, which drops query, fragment and case
  HostOf,       \* HostOf[u]: the host of a url
  Agents,       \* the agents a pack may declare
  Plain,        \* docs_fetch.USER_AGENT, the agent of a pack that declares none
  GatedAgent,   \* gated_docs.user_agent of the pack
  Invocations,  \* the commands an operator issues
  Retries,      \* DEFAULT_RETRIES
  Editions,     \* what a page may say over time
  NoFile,       \* no such file
  Torn,         \* a file truncated for writing and not yet written
  NoText,       \* content_hash null, byte_size 0
  NeverTried,   \* neither key is there
  Unread,       \* a robots.txt this process has not read
  Unreachable   \* a robots.txt answered with a 5xx, a timeout or an error

Pages == 1 .. NumPages
Keys == {"pages", "anchors", "spec_documents", "gated_pages"}
Urls == {UrlOf[p] : p \in Pages}
Hosts == {HostOf[u] : u \in Urls}
Readers == Agents \cup {Plain}

\* The commands as the command line issues them, with the one agent of the pack
\* for every list; only a caller of fetch_all itself can pass key_user_agents.
CommandLine(command, agent) ==
  [command |-> command, agents |-> [k \in Keys |-> agent]]

\* A retrieved text: what was asked for, for which list, as whom, and what the
\* page said then.
Text == [url: Urls, key: Keys, agent: Readers, edition: Editions]

\* A robots.txt as it addresses one agent: the URLs it forbids.
Policies == [forbids: SUBSET Urls] \cup {Unreachable}

\* A cache path.
Paths == {TaskOf[p] : p \in Pages} \X Keys \X {SlugOf[u] : u \in Urls}

\* A manifest entry: the robots_* annotation, fetch_date, fetch_error, the
\* content, cache_file and fetched_with_user_agent.
Entry ==
  [ruling: {"unset", "allowed", "disallowed", "unreachable"},
   dated: BOOLEAN, failed: BOOLEAN, text: Text \cup {NoText, NeverTried},
   cached: BOOLEAN, agent: Agents \cup {Plain}]

ASSUME DocsFetchAssumption ==
  /\ NumPages \in Nat \ {0}
  /\ KeyOf \in [Pages -> Keys]
  /\ Plain \notin Agents
  /\ Retries \in Nat \ {0}
  /\ Invocations \subseteq
       [command: {"fetch", "annotate", "check"}, agents: [Keys -> Readers]]
  /\ \A c \in Invocations : c.command # "fetch" =>
       \A k, l \in Keys : c.agents[k] = c.agents[l]
  /\ NoFile \notin Text /\ Torn \notin Text /\ NoFile # Torn
  /\ NoText \notin Text /\ NeverTried \notin Text /\ NoText # NeverTried
  /\ Torn \notin [Pages -> Entry]
  /\ Unread \notin Policies /\ Unreachable \notin [forbids: SUBSET Urls]

VARIABLES
  manifest,  \* docs-manifest.yaml: an entry per page, or Torn
  cache,     \* the cache directory: a text per path
  pc,        \* where the command is
  call,      \* the command and the agent of each list
  entries,   \* the manifest the command has in memory
  at,        \* the entry it has reached
  policies,  \* robots._CACHE, per host and agent
  attempt,   \* of _fetch_with_retry
  text,      \* the document just retrieved
  exit       \* how the last command ended

onDisk == <<manifest, cache>>
memory == <<call, entries, at, policies, attempt, text>>
fetchVars == <<onDisk, pc, memory, exit>>

NoPolicies == [q \in Hosts \X Readers |-> Unread]

Authored == [p \in Pages |->
  [ruling |-> "unset", dated |-> FALSE, failed |-> FALSE, text |-> NeverTried,
   cached |-> FALSE, agent |-> Plain]]

Init ==
  /\ manifest = Authored
  /\ cache = [d \in Paths |-> NoFile]
  /\ pc = "idle"
  /\ call = NoFile
  /\ entries = Authored
  /\ at = 1
  /\ policies = NoPolicies
  /\ attempt = 0
  /\ text = NoText
  /\ exit = "none"

Running == pc # "idle"

\* The process is gone, and its memory with it.
Ended(how) ==
  /\ pc' = "idle"
  /\ call' = NoFile
  /\ entries' = Authored
  /\ at' = 1
  /\ policies' = NoPolicies
  /\ attempt' = 0
  /\ text' = NoText
  /\ exit' = how

-----------------------------------------------------------------------------
(***************************************************************************)
(* Cache paths                                                             *)
(***************************************************************************)

\* Mutant: one file per task and url, as before ADR-0051.
PathShared(p) == <<TaskOf[p], "pages", SlugOf[UrlOf[p]]>>

\* cache_path_for: every list has a directory of its own.
Path(p) == <<TaskOf[p], KeyOf[p], SlugOf[UrlOf[p]]>>

\* agent_for: the agent is chosen by list.
AgentFor(p) == call.agents[KeyOf[p]]

-----------------------------------------------------------------------------
(***************************************************************************)
(* Permission                                                              *)
(***************************************************************************)

\* A truncated manifest is an empty document: both commands end at once.
ManifestUnreadable ==
  /\ ~Running
  /\ manifest = Torn
  /\ exit' = "error"
  /\ UNCHANGED <<onDisk, pc, memory>>

Start(c) ==
  /\ ~Running
  /\ manifest # Torn
  /\ pc' = "judge"
  /\ call' = c
  /\ entries' = manifest
  /\ exit' = "none"
  /\ UNCHANGED <<onDisk, at, policies, attempt, text>>

\* Mutant: the policy of the plain agent decides for every list.
PolicyKeyPlain(p) == <<HostOf[UrlOf[p]], Plain>>

PolicyKey(p) == <<HostOf[UrlOf[p]], AgentFor(p)>>

\* fetch_policy: each robots.txt is read once per process and agent.
ReadRobots(policy) ==
  /\ pc = "judge"
  /\ at \in Pages
  /\ policies[PolicyKey(at)] = Unread
  /\ policies' = [policies EXCEPT ![PolicyKey(at)] = policy]
  /\ UNCHANGED <<onDisk, pc, call, entries, at, attempt, text, exit>>

Judged == pc = "judge" /\ at \in Pages /\ policies[PolicyKey(at)] # Unread

\* RobotsPolicy.verdict: an unreachable policy forbids the whole host.
Ruling(policy, url) ==
  IF policy = Unreachable THEN "unreachable"
  ELSE IF url \in policy.forbids THEN "disallowed" ELSE "allowed"

Verdict(p) == Ruling(policies[PolicyKey(p)], UrlOf[p])

Annotated(p) == [entries[p] EXCEPT !.ruling = Verdict(p)]

\* annotate_manifest: nothing but the annotation is written, and with --check
\* not even that.
Annotate ==
  /\ Judged
  /\ call.command # "fetch"
  /\ entries' = IF call.command = "check" THEN entries
                ELSE [entries EXCEPT ![at] = Annotated(at)]
  /\ at' = at + 1
  /\ UNCHANGED <<onDisk, pc, call, policies, attempt, text, exit>>

\* Mutant: the content of an earlier attempt stays.
FailedKeepingText(entry) == [entry EXCEPT !.dated = TRUE, !.failed = TRUE]

\* The outcome of an entry that attests no content.
Failed(entry) ==
  [entry EXCEPT !.dated = TRUE, !.failed = TRUE, !.text = NoText,
                !.cached = FALSE]

\* Mutant of Refuse: the earlier snapshot stays.
RefuseKeeping ==
  /\ Judged /\ call.command = "fetch" /\ Verdict(at) # "allowed"
  /\ entries' = [entries EXCEPT ![at] = Failed(Annotated(at))]
  /\ at' = at + 1
  /\ UNCHANGED <<onDisk, pc, call, policies, attempt, text, exit>>

\* A forbidden URL is never opened, and an earlier snapshot of it is deleted.
Refuse ==
  /\ Judged
  /\ call.command = "fetch"
  /\ Verdict(at) # "allowed"
  /\ entries' = [entries EXCEPT ![at] = Failed(Annotated(at))]
  /\ cache' = [cache EXCEPT ![Path(at)] = NoFile]
  /\ at' = at + 1
  /\ UNCHANGED <<manifest, pc, call, policies, attempt, text, exit>>

Permit ==
  /\ Judged
  /\ call.command = "fetch"
  /\ Verdict(at) = "allowed"
  /\ entries' = [entries EXCEPT ![at] = Annotated(at)]
  /\ pc' = "fetch"
  /\ attempt' = 1
  /\ UNCHANGED <<onDisk, call, at, policies, text, exit>>

-----------------------------------------------------------------------------
(***************************************************************************)
(* Retrieval                                                               *)
(***************************************************************************)

\* Mutant: the count starts again.
ThrottledAround ==
  /\ pc = "fetch"
  /\ attempt' = IF attempt < Retries THEN attempt + 1 ELSE 1
  /\ UNCHANGED <<onDisk, pc, call, entries, at, policies, text, exit>>

\* An empty body is a throttle: wait, and ask again.
Throttled ==
  /\ pc = "fetch"
  /\ attempt < Retries
  /\ attempt' = attempt + 1
  /\ UNCHANGED <<onDisk, pc, call, entries, at, policies, text, exit>>

\* A document arrived, and its cache file is opened, which truncates it ...
Arrive(edition) ==
  /\ pc = "fetch"
  /\ text' = [url |-> UrlOf[at], key |-> KeyOf[at], agent |-> AgentFor(at),
              edition |-> edition]
  /\ cache' = [cache EXCEPT ![Path(at)] = Torn]
  /\ pc' = "write"
  /\ UNCHANGED <<manifest, call, entries, at, policies, attempt, exit>>

\* Mutant: the error of an earlier attempt is not dropped (before ADR-0056).
RetrievedKeepingError(entry) ==
  [entry EXCEPT !.dated = TRUE, !.text = text, !.cached = TRUE,
                !.agent = IF AgentFor(at) = Plain THEN @ ELSE AgentFor(at)]

\* The outcome of an entry whose content arrived.  fetched_with_user_agent is
\* written when an agent was declared and otherwise left as it was.
Retrieved(entry) ==
  [entry EXCEPT !.dated = TRUE, !.failed = FALSE, !.text = text,
                !.cached = TRUE,
                !.agent = IF AgentFor(at) = Plain THEN @ ELSE AgentFor(at)]

Passed(how) ==
  /\ pc' = "judge"
  /\ at' = at + 1
  /\ attempt' = 0
  /\ text' = NoText
  /\ entries' = [entries EXCEPT ![at] = how]

\* ... and written.
WriteCache ==
  /\ pc = "write"
  /\ cache' = [cache EXCEPT ![Path(at)] = text]
  /\ Passed(Retrieved(entries[at]))
  /\ UNCHANGED <<manifest, call, policies, exit>>

\* Any exception: a 404, a last empty body, an undecodable or empty render, a
\* full disk.  The cache file stays as it is.
Fail ==
  /\ pc \in {"fetch", "write"}
  /\ Passed(Failed(entries[at]))
  /\ UNCHANGED <<onDisk, call, policies, exit>>

-----------------------------------------------------------------------------
(***************************************************************************)
(* The end of a command                                                    *)
(***************************************************************************)

Walked == pc = "judge" /\ at \notin Pages

CheckDone ==
  /\ Walked
  /\ call.command = "check"
  /\ Ended(IF \E p \in Pages : Verdict(p) # "allowed" THEN "blocked"
           ELSE IF \E p \in Pages :
                     manifest[p].ruling \in {"disallowed", "unreachable"}
           THEN "error" ELSE "ok")
  /\ UNCHANGED onDisk

\* write_manifest opens the manifest, which truncates it ...
OpenManifest ==
  /\ Walked
  /\ call.command # "check"
  /\ manifest' = Torn
  /\ pc' = "save"
  /\ UNCHANGED <<cache, memory, exit>>

\* fetch-docs reports an error when not one page arrived, annotate-robots a
\* block when a page is forbidden.
ExitCode ==
  IF call.command = "fetch"
  THEN IF \A p \in Pages : entries[p].text = NoText THEN "error" ELSE "ok"
  ELSE IF \E p \in Pages : Verdict(p) # "allowed" THEN "blocked" ELSE "ok"

\* ... and writes it.
WriteManifest ==
  /\ pc = "save"
  /\ manifest' = entries
  /\ Ended(ExitCode)
  /\ UNCHANGED cache

Crash ==
  /\ Running
  /\ Ended("crashed")
  /\ UNCHANGED onDisk

\* The cache is gitignored and regenerable: a fresh clone has none.
Clone ==
  /\ ~Running
  /\ cache' = [d \in Paths |-> NoFile]
  /\ UNCHANGED <<manifest, pc, memory, exit>>

-----------------------------------------------------------------------------

Step ==
  \/ \E policy \in Policies : ReadRobots(policy)
  \/ Annotate \/ Refuse \/ Permit
  \/ Throttled \/ \E e \in Editions : Arrive(e)
  \/ WriteCache \/ Fail
  \/ CheckDone \/ OpenManifest \/ WriteManifest

Next ==
  \/ ManifestUnreadable
  \/ \E c \in Invocations : Start(c)
  \/ Step
  \/ Crash
  \/ Clone

Spec == Init /\ [][Next]_fetchVars

\* Every request has a timeout (30 s for a page, 25 s for a robots.txt).
FairSpec == Spec /\ WF_fetchVars(Step)

-----------------------------------------------------------------------------
(***************************************************************************)
(* What a condition injects                                                *)
(***************************************************************************)

\* _load_text, of a page and its entry: a text, nothing (NoText), or
\* FileNotFoundError (NoFile).  A truncated file reads as an empty text.
Suppressed(entry) ==
  \/ entry.ruling \in {"disallowed", "unreachable"}
  \/ entry.failed
  \/ entry.text = NoText

Injected(p, entry) ==
  IF Suppressed(entry) \/ cache[Path(p)] = Torn THEN NoText ELSE cache[Path(p)]

LoadText(p) == Injected(p, manifest[p])

TypeOK ==
  /\ manifest \in [Pages -> Entry] \cup {Torn}
  /\ cache \in [Paths -> Text \cup {NoFile, Torn}]
  /\ pc \in {"idle", "judge", "fetch", "write", "save"}
  /\ call \in Invocations \cup {NoFile}
  /\ Running => call \in Invocations
  /\ entries \in [Pages -> Entry]
  /\ at \in 1 .. NumPages + 1
  /\ pc \in {"fetch", "write"} => at \in Pages
  /\ policies \in [Hosts \X Readers -> Policies \cup {Unread}]
  /\ attempt \in 0 .. Retries
  /\ text \in Text \cup {NoText}
  /\ pc = "write" => text \in Text
  /\ exit \in {"none", "ok", "error", "blocked", "crashed"}

\* No page ever injects bytes that were retrieved for another list, nor those
\* of a disallowed or failed entry: the answer key's own source, fetched as an
\* anchor, cannot reach a prompt (ADR-0034, ADR-0051, ADR-0054), in whatever
\* state a killed fetch has left manifest and cache.
ListsKeptApart ==
  manifest # Torn =>
    \A p \in Pages : LoadText(p) \in Text => LoadText(p).key = KeyOf[p]

\* A page is requested only after the robots.txt of its host was read as the
\* agent that makes the request, and permits it (ADR-0036, ADR-0051).
OpenedOnlyIfPermitted ==
  pc \in {"fetch", "write"} =>
    LET policy == policies[<<HostOf[UrlOf[at]], AgentFor(at)>>]
    IN  policy # Unread /\ Ruling(policy, UrlOf[at]) = "allowed"

\* validate_docs_manifest accepts every manifest the two commands leave on
\* disk (core/validate.py:332).
ValidateAccepts ==
  manifest # Torn =>
    \A p \in Pages :
      LET e == manifest[p]
          recorded == e.text # NeverTried \/ e.cached \/ e.failed
      IN  /\ ~(e.failed /\ (e.text \in Text \/ e.cached))
          /\ e.cached => e.text \in Text
          /\ recorded <=> e.dated

\* When a fetch ends, whatever was killed before it, each page injects exactly
\* the text its entry attests, or nothing when it attests none.
FetchSettles ==
  [][pc = "save" /\ call.command = "fetch" /\ exit' # "crashed" =>
       \A p \in Pages : LoadText(p)' = manifest'[p].text]_fetchVars

\* When a fetch ends, no text is left on disk of a URL that the host forbade
\* it (ADR-0036).
ForbiddenIsGone ==
  [][pc = "save" /\ call.command = "fetch" /\ exit' # "crashed" =>
       \A p \in Pages :
         manifest'[p].ruling # "allowed" => cache'[Path(p)] = NoFile]_fetchVars

\* Every command ends: throttling is retried a bounded number of times.
CommandEnds == Running ~> ~Running

-----------------------------------------------------------------------------
(***************************************************************************)
(* What the documentation says and the code does not do                    *)
(***************************************************************************)

\* "The rule this enforces is one retrieval, one file"
\* (core/docs_fetch.py:120): after a fetch that was not killed, no page injects
\* the text of another URL.
OneRetrievalOneFile ==
  exit = "ok" =>
    \A p \in Pages : LoadText(p) \in Text => LoadText(p).url = UrlOf[p]

\* gated-docs asks the same URLs with the agent the pack declares for it
\* (core/conditions.py:270).
GatedAsDeclared ==
  exit = "ok" =>
    \A p \in Pages : KeyOf[p] = "gated_pages" /\ manifest[p].text \in Text
      => manifest[p].text.agent = GatedAgent
=============================================================================
