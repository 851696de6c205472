------------------------------ MODULE Settings ------------------------------
(***************************************************************************)
(* The settings with their cached debug flag, and the source profiles,     *)
(* which are completed from built-in defaults whenever they are loaded.    *)
(***************************************************************************)
EXTENDS Naturals, Sequences, SequencesExt, FiniteSets

CONSTANTS
  SeededNames,    \* source profiles of a new installation, in their order
  EnsuredNames,   \* those of them that every start brings back
  UserNames,
  MaxRows,        \* bound on the source profiles
  Handlers

VARIABLES
  sources,   \* names of the source profiles, a sequence; saved at every change
  stored,    \* the value of debug_enabled in the store
  debug,     \* the flag that is_debug answers from
  setter,    \* goroutine -> the value it has stored and not yet applied, or ""
  apart,     \* two requests set the flag at once, or the settings were cleared
  renamed    \* a source profile was renamed

settingVars == <<sources, stored, debug, setter, apart, renamed>>

ensureProfile(names, name) == IF Contains(names, name) THEN names ELSE Append(names, name)

\* A list that is empty after the defaults were ensured cannot be: the seeds
\* are for an installation without a file, for which nothing is ensured.
LoadSources(hasFile, names) ==
  IF hasFile THEN FoldLeft(ensureProfile, names, EnsuredNames) ELSE SeededNames

SettingsInit ==
  /\ sources = LoadSources(FALSE, <<>>)
  /\ stored = "" /\ debug = FALSE
  /\ setter = [h \in Handlers |-> ""] /\ apart = FALSE /\ renamed = FALSE

-----------------------------------------------------------------------------
(* Source profiles *)

CreateSource(name) ==
  /\ Len(sources) < MaxRows /\ ~ Contains(sources, name)
  /\ sources' = Append(sources, name)
  /\ UNCHANGED <<stored, debug, setter, apart, renamed>>

\* The new name is not looked for.
UpdateSource(i, name) ==
  /\ sources' = [sources EXCEPT ![i] = name]
  /\ renamed' = (renamed \/ sources[i] # name)
  /\ UNCHANGED <<stored, debug, setter, apart>>

DeleteSource(i) ==
  /\ sources' = RemoveAt(sources, i)
  /\ UNCHANGED <<stored, debug, setter, apart, renamed>>

-----------------------------------------------------------------------------
(* The debug flag *)

Set(h, value) ==
  /\ setter[h] = ""
  /\ stored' = value
  /\ setter' = [setter EXCEPT ![h] = value]
  /\ apart' = (apart \/ \E k \in Handlers : setter[k] # "")
  /\ UNCHANGED <<sources, debug, renamed>>

setDebug(h) ==
  /\ setter[h] # ""
  /\ debug' = (setter[h] = "true")
  /\ setter' = [setter EXCEPT ![h] = ""]
  /\ UNCHANGED <<sources, stored, apart, renamed>>

\* A hard reset clears the stored value and leaves the flag.
ClearSettings ==
  /\ stored' = "" /\ apart' = TRUE
  /\ UNCHANGED <<sources, debug, setter, renamed>>

LoadDebugFlag(value) == value = "true"

SettingsRestart ==
  /\ sources' = LoadSources(TRUE, sources)
  /\ debug' = LoadDebugFlag(stored)
  /\ setter' = [h \in Handlers |-> ""] /\ apart' = FALSE
  /\ UNCHANGED <<stored, renamed>>

SettingsSteps == \E h \in Handlers : setDebug(h)
SettingsRequests ==
  \/ SettingsRestart \/ ClearSettings
  \/ \E name \in UserNames : CreateSource(name)
  \/ \E i \in DOMAIN sources : DeleteSource(i) \/ \E name \in UserNames : UpdateSource(i, name)
  \/ \E h \in Handlers, value \in {"true", "false"} : Set(h, value)

-----------------------------------------------------------------------------
(* Properties *)

\* Source profiles are found by name, and however often the program starts,
\* each name is there once, unless an edit used it twice.
SourceNamesUnique == ~ renamed => IsInjective(sources)

\* The cached flag is the stored one whenever no request is between the two,
\* unless two requests crossed or the settings were cleared in this run.
DebugFlagFollows ==
  ~ apart /\ (\A h \in Handlers : setter[h] = "") => debug = (stored = "true")

=============================================================================
