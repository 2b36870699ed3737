--------------------------- MODULE SnapshotReplay ---------------------------
(***************************************************************************)
(* routers/snapshots.py together with the overrides: answers of the        *)
(* endpoints are saved to files, and the files are uploaded again as       *)
(* overrides, of this run of the server or of a later one.                 *)
(*                                                                         *)
(* A snapshot asks the server itself, without an Accept header of its own: *)
(* the answer is the endpoint's override, or else its own data in the      *)
(* format that the settings choose where the endpoint has two.             *)
(***************************************************************************)
EXTENDS Overrides, ServedFormats

VARIABLES
  format, \* the setting default_accounting_format
  saved,  \* the snapshots: the endpoint asked, and the body it answered with
  answer  \* what the last upload of a snapshot was answered, or Absent

replayVars == <<vars, format, saved, answer>>

ReplayInit ==
  /\ Init
  /\ format = "xml"
  /\ saved = {}
  /\ answer = Absent

\* get_active_override
Active(key) == overrides[key] # Absent /\ object[overrides[key]].enabled

\* The bodies an endpoint may answer with.
Bodies(key) ==
  IF Active(key) THEN {object[overrides[key]].file}
  ELSE IF JsonBodies(key) = {} \/ (format = "xml" /\ XmlBodies(key) # {})
  THEN XmlBodies(key)
  ELSE JsonBodies(key)

\* save_snapshots, for one endpoint of those it finds in the log.
Save(key) ==
  /\ \E file \in Bodies(key) : saved' = saved \cup {[key |-> key, file |-> file]}
  /\ answer' = Absent
  /\ UNCHANGED <<vars, format>>

\* post_override with a saved file; without candidates it is answered 422.
Replay(snapshot) ==
  /\ \/ PostMatched(snapshot.file)
     \/ PostAmbiguous(snapshot.file)
     \/ Candidates(snapshot.file) = {} /\ UNCHANGED vars
  /\ answer' = [key |-> snapshot.key, endpoints |-> Candidates(snapshot.file)]
  /\ UNCHANGED <<format, saved>>

\* put_settings
ChooseFormat ==
  /\ format' \in {"xml", "json"} \ {format}
  /\ answer' = Absent
  /\ UNCHANGED <<vars, saved>>

AdminCall ==
  /\ \/ \E t \in Threads : ThreadStep(t)
     \/ \E key \in Keys : DeleteOverride(key)
  /\ answer' = Absent
  /\ UNCHANGED <<format, saved>>

ReplayNext ==
  \/ \E key \in Keys : Save(key)
  \/ \E snapshot \in saved : Replay(snapshot)
  \/ ChooseFormat
  \/ AdminCall

ReplaySpec == ReplayInit /\ [][ReplayNext]_replayVars

\* A snapshot that is uploaded is offered to, or served by, the endpoint it was
\* taken from ("a saved snapshot is immediately re-usable via the existing
\* overrides UI").
SnapshotsReusable == answer # Absent => answer.key \in answer.endpoints
=============================================================================
