----------------------------- MODULE MCFrontEnd -----------------------------
(***************************************************************************)
(* The instance of FrontEnd that TLC checks.                               *)
(***************************************************************************)
EXTENDS FrontEnd

CONSTANTS c1, c2

AllPages == {"rows", "viewers", "events", "settings", "app", "catalog",
             "providers", "session", "monitors", "stream"}

\* One app with a talkative and a silent container, and one with the latter.
Apps == {{c1, c2}, {c2}}
Talker == {c1}
Pair == {c1, c2}

\* The second app is found without a filter only, and supports one provider.
AppFilters == <<{"all", "search"}, {"all"}>>
AppSupports == <<{1, 2}, {2}>>

\* Two providers are there, a third may be created.
StoredTypes == <<"openrouter", "openai", "free">>
=============================================================================
