------------------------------ MODULE Settings ------------------------------
(***************************************************************************)
(* app/config.py and PUT /admin/api/settings.  The settings are a file; a  *)
(* save truncates it and then writes it, and there is no lock.  Handlers   *)
(* run on pool threads, and the process may die between two steps.         *)
(***************************************************************************)
EXTENDS Naturals, FiniteSets

CONSTANTS
  Savers,      \* pool threads that serve PUT requests
  Values,      \* valid settings a PUT may send: [port, format, version]
  Invalid,     \* settings that Settings() refuses
  Default,     \* Settings(), used while there is no file
  Length(_),   \* how many characters json.dumps makes of settings
  Empty,       \* no text
  Absent,      \* no file
  Idle,        \* a thread that serves no request
  MaxSaves,    \* bounds the PUT requests
  MaxCrashes   \* bounds the crashes

ASSUME SettingsAssumption ==
  /\ Default \in Values
  /\ Invalid \notin Values /\ Empty \notin Values
  /\ \A v \in Values : /\ v.format \in {"xml", "json"} /\ v.version \in {"legacy", "modern"}
                       /\ Length(v) \in Nat \ {0}
  /\ MaxSaves \in Nat /\ MaxCrashes \in Nat

\* The file as far as loading it tells texts apart, and the PUT requests.
Files == [text : Values \cup {Empty}, length : Nat]
Requests == [pc : {"load", "open", "write"}, value : Values \cup {Invalid}]

ASSUME MarkerAssumption == Absent \notin Files /\ Idle \notin Requests

VARIABLES
  file,       \* settings.json: Absent, or the text written last and how long the file is
  saver,      \* what each thread is doing
  saves,      \* PUT requests so far
  crashes,    \* crashes so far
  disturbed,  \* history: the last save overlapped another, or a crash came within it
  kept        \* history: the settings of the last save

settingsVars == <<file, saver, saves, crashes, disturbed, kept>>

SettingsInit ==
  /\ file = Absent
  /\ saver = [s \in Savers |-> Idle]
  /\ saves = 0
  /\ crashes = 0
  /\ disturbed = FALSE
  /\ kept = Default

\* json.loads accepts a text if nothing follows it, and refuses no text at all.
Readable == \/ file = Absent
            \/ file # Absent /\ file.text \in Values /\ file.length = Length(file.text)

\* load_settings, when it does not raise
Loaded == IF file = Absent THEN Default ELSE file.text

At(s, step) == saver[s] # Idle /\ saver[s].pc = step

\* Threads that have truncated the file and not written it.
Saving == {s \in Savers : At(s, "write")}

PutSettings(s, v) ==
  /\ saver[s] = Idle
  /\ saves < MaxSaves
  /\ saves' = saves + 1
  /\ saver' = [saver EXCEPT ![s] = [pc |-> "load", value |-> v]]
  /\ UNCHANGED <<file, crashes, disturbed, kept>>

\* The previous port is loaded first: a file that cannot be read is answered
\* with 500 here too, and settings that are not valid with 400.
LoadPrevious(s) ==
  /\ At(s, "load")
  /\ saver' = [saver EXCEPT ![s] =
       IF Readable /\ @.value \in Values THEN [@ EXCEPT !.pc = "open"] ELSE Idle]
  /\ UNCHANGED <<file, saves, crashes, disturbed, kept>>

\* A variant: the file is opened without truncating it.
OpenFile_Keep(s) ==
  /\ At(s, "open")
  /\ saver' = [saver EXCEPT ![s].pc = "write"]
  /\ file' = IF file = Absent THEN [text |-> Empty, length |-> 0] ELSE file
  /\ disturbed' = (Saving # {})
  /\ UNCHANGED <<saves, crashes, kept>>

\* write_text opens the file, which truncates it.
OpenFile(s) ==
  /\ At(s, "open")
  /\ saver' = [saver EXCEPT ![s].pc = "write"]
  /\ file' = [text |-> Empty, length |-> 0]
  /\ disturbed' = (Saving # {})
  /\ UNCHANGED <<saves, crashes, kept>>

\* It writes at its own position, the start: what another save wrote there
\* since is overwritten, and sticks out if it was longer.
WriteText(s) ==
  /\ At(s, "write")
  /\ LET v == saver[s].value
     IN  /\ file' = [text |-> v,
                     length |-> IF file.length > Length(v) THEN file.length ELSE Length(v)]
         /\ kept' = v
  /\ saver' = [saver EXCEPT ![s] = Idle]
  /\ UNCHANGED <<saves, crashes, disturbed>>

\* The process dies and is started again.
Die ==
  /\ crashes < MaxCrashes
  /\ crashes' = crashes + 1
  /\ disturbed' = (disturbed \/ Saving # {})
  /\ saver' = [s \in Savers |-> Idle]
  /\ UNCHANGED <<file, saves, kept>>

SettingsNext ==
  \/ \E s \in Savers, v \in Values \cup {Invalid} : PutSettings(s, v)
  \/ \E s \in Savers : LoadPrevious(s) \/ OpenFile(s) \/ WriteText(s)

SettingsTypeOK ==
  /\ file \in Files \cup {Absent}
  /\ saver \in [Savers -> Requests \cup {Idle}]
  /\ \A s \in Savers : At(s, "open") \/ At(s, "write") => saver[s].value \in Values
  /\ saves \in 0..MaxSaves
  /\ crashes \in 0..MaxCrashes
  /\ kept \in Values

\* Unless two saves overlap or the process dies within one, a load gives the
\* defaults or the settings of the last save, whole, also after a restart.
\* The one time it cannot is between the two steps of save_settings.
SavesHold ==
  disturbed \/ Saving # {} \/ (Readable /\ Loaded = kept)
=============================================================================
