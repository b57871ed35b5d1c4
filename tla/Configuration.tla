--------------------------- MODULE Configuration ---------------------------
(***************************************************************************)
(* Configuration: core::Config, its map of texts (m_config), the structures*)
(* it parses from the map (m_databaseConfig, m_networkConfig,              *)
(* m_serverConfig) and the file it loads and saves.  The map is changed    *)
(* first and parsed afterwards, field by field, and parsing a number may   *)
(* throw: what the structures hold then, and after the next calls, after a *)
(* save that did not get far, and after a restart, is what is asked here.  *)
(*                                                                         *)
(* A field is a section and a key that parseConfig() reads; other keys are *)
(* left out, and so are keys that look like a comment or a section, which  *)
(* are saved but not loaded again.  setDefaults() enters every field in    *)
(* the map, so that the defaults parseConfig() gives to getValue() are     *)
(* never used after it.                                                    *)
(***************************************************************************)
EXTENDS Naturals, FiniteSets

CONSTANTS
  Fields,
  Numbers,   \* the fields parsed by std::stoi
  Flags,     \* the fields compared with "true"
  Place,     \* Place[f]: where in parseConfig() f is parsed
  Texts,     \* what a field can be set to
  Yes, No,   \* the text "true", and one for the value of other flags
  Stoi,      \* Stoi[v]: the number that v starts with; other texts make std::stoi throw
  Trim,      \* Trim[v]: v without the white space around it
  Cuts,      \* Cuts[v]: what a line is read as that was cut short within v
  Default,   \* Default[f]: the text setDefaults() sets f to
  Offered,   \* bound: Offered[f], the texts f is set to by a call or in the file
  Missing    \* no file; also: no complete save

ASSUME FieldsAssumption ==
  /\ Numbers \subseteq Fields /\ Flags \subseteq Fields \ Numbers
  /\ Place \in [Fields -> Nat]
ASSUME TextsAssumption ==
  /\ {Yes, No} \subseteq Texts
  /\ DOMAIN Stoi \subseteq Texts /\ Stoi \in [DOMAIN Stoi -> Texts]
  /\ Trim \in [Texts -> Texts] /\ Cuts \in [Texts -> SUBSET Texts]
  /\ Offered \in [Fields -> SUBSET Texts]
(* std::stoi skips the white space in front, and what follows the number.  *)
ASSUME StoiAssumption ==
  \A v \in DOMAIN Stoi : Trim[v] \in DOMAIN Stoi /\ Stoi[Trim[v]] = Stoi[v]

VARIABLES
  phase,     \* "down", "started", "up", or "saving": saveToFile() has opened the file
  config,    \* m_config
  parsed,    \* the structures
  result,    \* how the last setValue() or loadFromFile() ended: "ok" or "failed"
  file,      \* the lines of the file: a text for each of some fields
  left,      \* the fields saveToFile() has not written yet
  saved      \* history: the map of the last save, while the file holds all of it

vars == <<phase, config, parsed, result, file, left, saved>>

Lines == UNION {[D -> Texts] : D \in SUBSET Fields}
Parses(f, v) == f \in Numbers => v \in DOMAIN Stoi

ASSUME DefaultAssumption ==
  Default \in [Fields -> Texts] /\ \A f \in Fields : Parses(f, Default[f])
ASSUME MissingAssumption == Missing \notin Lines

TypeOK ==
  /\ phase \in {"down", "started", "up", "saving"}
  /\ config \in [Fields -> Texts]
  /\ parsed \in [Fields -> Texts]
  /\ \A f \in Numbers : parsed[f] \in {Stoi[v] : v \in DOMAIN Stoi}
  /\ result \in {"ok", "failed"}
  /\ file \in Lines \union {Missing}
  /\ left \subseteq Fields
  /\ saved \in [Fields -> Texts] \union {Missing}

-----------------------------------------------------------------------------
(* The value a field gets from its text.                                   *)
Convert(f, v) ==
  CASE f \in Numbers -> Stoi[v]
    [] f \in Flags -> IF v = Yes THEN Yes ELSE No
    [] OTHER -> v

(* The fields parseConfig() gets to: those before the first number that    *)
(* makes std::stoi throw.                                                  *)
Reached(map) ==
  {f \in Fields : \A g \in Fields : Place[g] <= Place[f] => Parses(g, map[g])}

(* Deviants of Parse: no field is assigned unless all can be parsed; a    *)
(* text that is no number is left in the field.                            *)
ParseAllOrNothing(old, map) ==
  [f \in Fields |-> IF Reached(map) = Fields THEN Convert(f, map[f]) ELSE old[f]]
ParseLoosely(old, map) ==
  [f \in Fields |-> IF Parses(f, map[f]) THEN Convert(f, map[f]) ELSE map[f]]

(* parseConfig(): the structures, old before, after map has been parsed as *)
(* far as it goes.                                                         *)
Parse(old, map) ==
  [f \in Fields |-> IF f \in Reached(map) THEN Convert(f, map[f]) ELSE old[f]]

(* Deviant of Outcome: what std::stoi throws is logged and forgotten.      *)
OutcomeSwallowed(map) == "ok"

Outcome(map) == IF Reached(map) = Fields THEN "ok" ELSE "failed"

(* Deviant of Merge: a line does not replace what the map holds.           *)
MergeOnlyNew(map, lines) ==
  [f \in Fields |-> IF f \in DOMAIN lines \ DOMAIN map THEN Trim[lines[f]] ELSE map[f]]

(* The map after the lines of f have been read into it.                    *)
Merge(map, lines) == [f \in Fields |-> IF f \in DOMAIN lines THEN Trim[lines[f]] ELSE map[f]]

(* setValue(): the text is stored, and stays stored when parsing throws.   *)
SetValue(f, v) ==
  /\ phase \in {"started", "up"}
  /\ config' = [config EXCEPT ![f] = v]
  /\ parsed' = Parse(parsed, config')
  /\ result' = Outcome(config')
  /\ phase' = "up"
  /\ UNCHANGED <<file, left, saved>>

(* loadFromFile(), map and structures being what they are before: without  *)
(* a file nothing changes.                                                 *)
LoadInto(map, structures) ==
  IF file = Missing
  THEN /\ config' = map /\ parsed' = structures
       /\ result' = "failed"
  ELSE /\ config' = Merge(map, file)
       /\ parsed' = Parse(structures, config')
       /\ result' = Outcome(config')

LoadFromFile ==
  /\ phase \in {"started", "up"}
  /\ LoadInto(config, parsed)
  /\ phase' = "up"
  /\ UNCHANGED <<file, left, saved>>

(* Deviant of Start: the Config of before is loaded again.                 *)
StartReusingConfig ==
  /\ phase = "down"
  /\ LoadInto(config, parsed)
  /\ phase' = "started"
  /\ UNCHANGED <<file, left, saved>>

(* main(): the constructor sets the defaults, the file is loaded, and the  *)
(* server starts whatever loadFromFile() returned.                         *)
Start ==
  /\ phase = "down"
  /\ LoadInto(Default, [f \in Fields |-> Convert(f, Default[f])])
  /\ phase' = "started"
  /\ UNCHANGED <<file, left, saved>>

(* saveToFile(): opening the file empties it.                              *)
SaveToFile ==
  /\ phase \in {"started", "up"}
  /\ file' = [f \in {} |-> No]
  /\ left' = Fields
  /\ saved' = Missing
  /\ phase' = "saving"
  /\ UNCHANGED <<config, parsed, result>>

(* A line, in the order the hash tables happen to have.                    *)
WriteLine(f) ==
  /\ phase = "saving" /\ f \in left
  /\ file' = [g \in DOMAIN file \union {f} |-> IF g = f THEN config[f] ELSE file[g]]
  /\ left' = left \ {f}
  /\ UNCHANGED <<phase, config, parsed, result, saved>>

(* A write that fails leaves no line or one cut short, and the stream      *)
(* drops everything after it, which saveToFile() does not look at.         *)
WriteFails(f) ==
  /\ phase = "saving" /\ f \in left
  /\ \/ UNCHANGED file
     \/ \E v \in Cuts[config[f]] :
          file' = [g \in DOMAIN file \union {f} |-> IF g = f THEN v ELSE file[g]]
  /\ left' = {}
  /\ phase' = "up"
  /\ UNCHANGED <<config, parsed, result, saved>>

SaveReturns ==
  /\ phase = "saving" /\ left = {}
  /\ saved' = config
  /\ phase' = "up"
  /\ UNCHANGED <<config, parsed, result, file, left>>

(* The process ends, or dies, in the middle of a save too.                 *)
Stop ==
  /\ phase # "down"
  /\ left' = {}
  /\ phase' = "down"
  /\ UNCHANGED <<config, parsed, result, file, saved>>

(* The operator enters a line in the file.                                 *)
Edit(f, v) ==
  /\ phase = "down"
  /\ file' = [g \in (IF file = Missing THEN {} ELSE DOMAIN file) \union {f} |->
               IF g = f THEN v ELSE file[g]]
  /\ saved' = Missing
  /\ UNCHANGED <<phase, config, parsed, result, left>>

Init ==
  /\ phase = "down"
  /\ config = Default
  /\ parsed = [f \in Fields |-> Convert(f, Default[f])]
  /\ result = "ok"
  /\ file = Missing
  /\ left = {}
  /\ saved = Missing

Next ==
  \/ \E f \in Fields, v \in Texts :
       v \in Offered[f] /\ (SetValue(f, v) \/ Edit(f, v))
  \/ \E f \in Fields : WriteLine(f) \/ WriteFails(f)
  \/ LoadFromFile \/ Start \/ SaveToFile \/ SaveReturns \/ Stop

Spec == Init /\ [][Next]_vars
-----------------------------------------------------------------------------
(* Properties                                                              *)

(* After any calls, failed ones included, every field that comes before    *)
(* the first bad number of the map has the value of its text there: a bad  *)
(* text is never the reason that an earlier field is out of date.          *)
FreshUpToFirstBad == \A f \in Reached(config) : parsed[f] = Convert(f, config[f])

(* A call that reports success leaves no field out of date, those included *)
(* that earlier calls failed to set.                                       *)
SuccessIsCoherent ==
  result = "ok" => \A f \in Fields : Parses(f, config[f]) /\ parsed[f] = Convert(f, config[f])

(* What a save has written out, a restart brings back: every number, and   *)
(* every other field whose text has no white space around it.              *)
RestoredAfterSave ==
  phase = "started" /\ saved # Missing /\ Reached(saved) = Fields =>
    \A f \in Fields :
      f \in Numbers \/ Trim[saved[f]] = saved[f] => parsed[f] = Convert(f, saved[f])

(* Whatever became of the file - it is not there, torn, or has a number in *)
(* it that is none - a start gives each field the value of its line or its *)
(* default, never a mixture and never one of the run before.               *)
StartsFromFileOrDefault ==
  phase = "started" =>
    \A f \in Fields :
      \/ parsed[f] = Convert(f, Default[f])
      \/ file # Missing /\ f \in DOMAIN file /\ parsed[f] = Convert(f, Trim[file[f]])
=============================================================================
