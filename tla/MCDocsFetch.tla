------------------------------ MODULE MCDocsFetch ------------------------------
(***************************************************************************)
(* Instances of DocsFetch for TLC.                                         *)
(***************************************************************************)
EXTENDS DocsFetch

OneTask == [p \in Pages |-> "task"]
OneHost == [u \in {"u1", "u2"} |-> "host"]

\* The same address in two lists, as on a host that filters by agent, or as a
\* page that is also the anchor of the answer key.
TwoListsKeys == <<"pages", "gated_pages">>
TwoListsUrls == <<"u1", "u1">>

\* Two addresses in one list; their slugs differ, or do not because the urls
\* differ in their query.
OneListKeys == <<"pages", "pages">>
OneListUrls == <<"u1", "u2">>
TwoSlugs == [u \in {"u1", "u2"} |-> u]
OneSlug == [u \in {"u1", "u2"} |-> "slug"]

Gated == [k \in Keys |-> IF k = "gated_pages" THEN "conventional" ELSE "plain"]

\* Every command of the command line, and a fetch_all with key_user_agents.
AllInvocations ==
  {CommandLine(c, "plain") : c \in {"fetch", "annotate", "check"}}
  \cup {[command |-> "fetch", agents |-> Gated]}

PlainInvocations == {CommandLine(c, "plain") : c \in {"fetch", "annotate"}}
=============================================================================
