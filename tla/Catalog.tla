------------------------------- MODULE Catalog -------------------------------
(***************************************************************************)
(* The deployment catalog (apps/api/src/agent/catalog.ts): which target a  *)
(* public request text names, and which one the references of a model's    *)
(* tool call name.  A text is a sequence of words, so an alias may itself  *)
(* contain the words that separate aliases in the approved forms; a word   *)
(* in Dotted ends with the full stop or exclamation mark that a request    *)
(* loses at its end.                                                       *)
(***************************************************************************)
EXTENDS Naturals, Sequences, FiniteSets, SequencesExt

CONSTANTS
    Keys,        \* catalog keys
    AliasLists,  \* the alias lists an entry may have, each a set of texts
    Dotted,      \* words that end with . or !
    Undot(_)     \* the same word without it

ASSUME CatalogAssumption == \A list \in AliasLists : Cardinality(list) \in 1..12

Aliases == [site : AliasLists, robot : AliasLists, build : AliasLists]

\* A catalog maps keys to entries; of an entry only the aliases are kept.
Catalogs == [Keys -> Aliases]

-----------------------------------------------------------------------------
DeployFor(s, r, b) == <<"deploy">> \o b \o <<"for">> \o r \o <<"to">> \o s

\* publicRequestForms, for one choice of aliases.
Forms(s, r, b) ==
    { <<"deploy", "robot">> \o r \o <<"using", "build">> \o b \o <<"to">> \o s,
      DeployFor(s, r, b),
      <<"deploy">> \o r \o b \o <<"to">> \o s,
      <<"prepare">> \o r \o b \o <<"for">> \o s,
      <<"please", "prepare">> \o r \o <<"build">> \o b \o <<"for">> \o s }

PublicRequestForms(entry) ==
    UNION {Forms(s, r, b) : s \in entry.site, r \in entry.robot, b \in entry.build}

\* normalizePublicDeploymentRequest: one final . or ! is dropped.
Normalize(text) ==
    IF Last(text) \in Dotted THEN Front(text) \o <<Undot(Last(text))>> ELSE text

\* Mutant: the first entry that matches wins.
TheOnlyFirst(matches) == IF matches = {} THEN "NOT_FOUND" ELSE CHOOSE k \in matches : TRUE

TheOnly(matches) ==
    IF matches = {} THEN "NOT_FOUND"
    ELSE IF Cardinality(matches) # 1 THEN "AMBIGUOUS"
    ELSE CHOOSE k \in matches : TRUE

ResolvePublicRequest(catalog, text) ==
    TheOnly({k \in Keys : Normalize(text) \in PublicRequestForms(catalog[k])})

Names(entry, s, r, b) == s \in entry.site /\ r \in entry.robot /\ b \in entry.build

\* resolve, for the references of a tool call.
Resolve(catalog, s, r, b) == TheOnly({k \in Keys : Names(catalog[k], s, r, b)})
=============================================================================
