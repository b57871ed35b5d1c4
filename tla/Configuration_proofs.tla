------------------------ MODULE Configuration_proofs ------------------------
(* The theorems of Configuration, whatever the fields, their order and the *)
(* texts, and wherever a save stops.                                       *)
EXTENDS Configuration, TLAPS

FileOK ==
  file # Missing =>
    /\ DOMAIN file \subseteq Fields
    /\ file \in [DOMAIN file -> Texts]

Types ==
  /\ phase \in {"down", "started", "up", "saving"}
  /\ config \in [Fields -> Texts]
  /\ parsed \in [Fields -> Texts]
  /\ \A f \in Numbers : parsed[f] \in {Stoi[v] : v \in DOMAIN Stoi}
  /\ result \in {"ok", "failed"}
  /\ FileOK
  /\ left \subseteq Fields
  /\ saved \in [Fields -> Texts] \union {Missing}

Defaults == [f \in Fields |-> Convert(f, Default[f])]

(* What a start has made of the file.                                      *)
Started ==
  phase = "started" =>
    IF file = Missing THEN parsed = Defaults ELSE parsed = Parse(Defaults, Merge(Default, file))

(* What a save has written so far, and what it leaves behind.              *)
Saving ==
  phase = "saving" =>
    /\ file # Missing /\ saved = Missing
    /\ \A f \in Fields \ left : f \in DOMAIN file /\ file[f] = config[f]
Kept == saved # Missing => file = saved

CInv == Types /\ FreshUpToFirstBad /\ SuccessIsCoherent /\ Started /\ Saving /\ Kept

-----------------------------------------------------------------------------
LEMMA ConvertType ==
  ASSUME NEW f \in Fields, NEW v \in Texts, Parses(f, v)
  PROVE  Convert(f, v) \in Texts /\ (f \in Numbers => Convert(f, v) \in {Stoi[w] : w \in DOMAIN Stoi})
<1>1. CASE f \in Numbers
  <2>1. f \notin Flags /\ v \in DOMAIN Stoi
    BY <1>1, FieldsAssumption DEF Parses
  <2>2. Convert(f, v) = Stoi[v]
    BY <1>1, <2>1 DEF Convert
  <2> QED BY <2>1, <2>2, TextsAssumption
<1>2. CASE f \in Flags
  <2>1. f \notin Numbers
    BY <1>2, FieldsAssumption
  <2> QED BY <1>2, <2>1, TextsAssumption DEF Convert
<1>3. CASE f \notin Numbers /\ f \notin Flags
  BY <1>3 DEF Convert
<1> QED BY <1>1, <1>2, <1>3

(* A field that parsing gets to can be parsed.                             *)
LEMMA ReachedParses ==
  ASSUME NEW map, NEW f \in Reached(map)
  PROVE  f \in Fields /\ Parses(f, map[f])
<1>1. f \in Fields
  BY DEF Reached
<1>2. Place[f] <= Place[f]
  BY <1>1, FieldsAssumption
<1> QED BY <1>1, <1>2 DEF Reached

LEMMA AllParseReached ==
  ASSUME NEW map, \A f \in Fields : Parses(f, map[f])
  PROVE  Reached(map) = Fields
BY DEF Reached

(* Parsing leaves the structures well typed, fresh and, if it returns,     *)
(* coherent with the map.                                                  *)
LEMMA ParseKeeps ==
  ASSUME NEW old \in [Fields -> Texts], NEW map \in [Fields -> Texts],
         \A f \in Numbers : old[f] \in {Stoi[v] : v \in DOMAIN Stoi}
  PROVE  /\ Parse(old, map) \in [Fields -> Texts]
         /\ \A f \in Numbers : Parse(old, map)[f] \in {Stoi[v] : v \in DOMAIN Stoi}
         /\ \A f \in Reached(map) : Parse(old, map)[f] = Convert(f, map[f])
         /\ Outcome(map) \in {"ok", "failed"}
         /\ Outcome(map) = "ok" =>
              \A f \in Fields : Parses(f, map[f]) /\ Parse(old, map)[f] = Convert(f, map[f])
<1>1. \A f \in Reached(map) : f \in Fields /\ Parses(f, map[f])
  BY ReachedParses
<1>2. ASSUME NEW f \in Fields
      PROVE  /\ Parse(old, map)[f] \in Texts
             /\ f \in Numbers => Parse(old, map)[f] \in {Stoi[v] : v \in DOMAIN Stoi}
  <2>1. CASE f \in Reached(map)
    BY <1>1, <2>1, ConvertType DEF Parse
  <2>2. CASE f \notin Reached(map)
    BY <2>2 DEF Parse
  <2> QED BY <2>1, <2>2
<1>3. Parse(old, map) \in [Fields -> Texts]
  BY <1>2 DEF Parse
<1>4. \A f \in Reached(map) : Parse(old, map)[f] = Convert(f, map[f])
  BY <1>1 DEF Parse
<1> QED BY <1>1, <1>2, <1>3, <1>4, FieldsAssumption DEF Outcome

LEMMA DefaultsType ==
  /\ Defaults \in [Fields -> Texts]
  /\ \A f \in Numbers : Defaults[f] \in {Stoi[v] : v \in DOMAIN Stoi}
<1>1. \A f \in Fields : Default[f] \in Texts /\ Parses(f, Default[f])
  BY DefaultAssumption
<1> QED BY <1>1, ConvertType, FieldsAssumption DEF Defaults

LEMMA MergeType ==
  ASSUME NEW map \in [Fields -> Texts], NEW lines, DOMAIN lines \subseteq Fields,
         lines \in [DOMAIN lines -> Texts]
  PROVE  Merge(map, lines) \in [Fields -> Texts]
BY TextsAssumption DEF Merge

(* What loading the file into map and structures comes to.                 *)
LEMMA LoadKeeps ==
  ASSUME FileOK,
         NEW map \in [Fields -> Texts], NEW old \in [Fields -> Texts],
         \A f \in Numbers : old[f] \in {Stoi[v] : v \in DOMAIN Stoi},
         \A f \in Reached(map) : old[f] = Convert(f, map[f]),
         LoadInto(map, old)
  PROVE  /\ config' \in [Fields -> Texts]
         /\ parsed' \in [Fields -> Texts]
         /\ \A f \in Numbers : parsed'[f] \in {Stoi[v] : v \in DOMAIN Stoi}
         /\ result' \in {"ok", "failed"}
         /\ FreshUpToFirstBad'
         /\ SuccessIsCoherent'
<1>1. CASE file = Missing
  BY <1>1 DEF LoadInto, FreshUpToFirstBad, SuccessIsCoherent
<1>2. CASE file # Missing
  <2>1. config' \in [Fields -> Texts]
    BY <1>2, MergeType DEF LoadInto, FileOK
  <2>2. parsed' = Parse(old, config') /\ result' = Outcome(config')
    BY <1>2 DEF LoadInto
  <2> QED BY <2>1, <2>2, ParseKeeps DEF FreshUpToFirstBad, SuccessIsCoherent
<1> QED BY <1>1, <1>2

-----------------------------------------------------------------------------
LEMMA InitCInv == Init => CInv
<1> SUFFICES ASSUME Init PROVE CInv
  OBVIOUS
<1>1. parsed = Defaults
  BY DEF Init, Defaults
<1>2. \A f \in Fields : parsed[f] = Convert(f, config[f]) /\ Parses(f, config[f])
  BY DefaultAssumption DEF Init
<1>3. FreshUpToFirstBad /\ SuccessIsCoherent
  BY <1>2, ReachedParses DEF FreshUpToFirstBad, SuccessIsCoherent
<1> QED BY <1>1, <1>3, DefaultsType, DefaultAssumption
        DEF Init, CInv, Types, FileOK, Started, Saving, Kept

LEMMA SetValueCInv ==
  ASSUME CInv, NEW f \in Fields, NEW v \in Texts, SetValue(f, v)
  PROVE  CInv'
<1> USE DEF CInv, Types
<1>1. config' \in [Fields -> Texts]
  BY DEF SetValue
<1>2. parsed' = Parse(parsed, config') /\ result' = Outcome(config')
  BY DEF SetValue
<1>3. Types'
  <2>1. /\ parsed' \in [Fields -> Texts] /\ result' \in {"ok", "failed"}
        /\ \A g \in Numbers : parsed'[g] \in {Stoi[w] : w \in DOMAIN Stoi}
    BY <1>1, <1>2, ParseKeeps
  <2>2. phase' = "up" /\ UNCHANGED <<file, left, saved>>
    BY DEF SetValue
  <2> QED BY <1>1, <2>1, <2>2 DEF FileOK
<1>4. FreshUpToFirstBad' /\ SuccessIsCoherent'
  BY <1>1, <1>2, ParseKeeps DEF FreshUpToFirstBad, SuccessIsCoherent
<1>5. Started' /\ Saving' /\ Kept'
  BY DEF SetValue, Started, Saving, Kept
<1> QED BY <1>3, <1>4, <1>5

LEMMA LoadFromFileCInv ==
  ASSUME CInv, LoadFromFile
  PROVE  CInv'
<1> USE DEF CInv, Types
<1>1. LoadInto(config, parsed)
  BY DEF LoadFromFile
<1>2. \A f \in Reached(config) : parsed[f] = Convert(f, config[f])
  BY DEF FreshUpToFirstBad
<1>3. FreshUpToFirstBad' /\ SuccessIsCoherent'
  BY <1>1, <1>2, LoadKeeps
<1>4. /\ config' \in [Fields -> Texts] /\ parsed' \in [Fields -> Texts]
      /\ \A f \in Numbers : parsed'[f] \in {Stoi[v] : v \in DOMAIN Stoi}
      /\ result' \in {"ok", "failed"}
  BY <1>1, <1>2, LoadKeeps
<1>5. Types'
  BY <1>4 DEF LoadFromFile, FileOK
<1>6. Started' /\ Saving' /\ Kept'
  BY DEF LoadFromFile, Started, Saving, Kept
<1> QED BY <1>3, <1>5, <1>6

LEMMA StartCInv ==
  ASSUME CInv, Start
  PROVE  CInv'
<1> USE DEF CInv, Types
<1>1. LoadInto(Default, Defaults)
  BY DEF Start, Defaults
<1>2. \A f \in Reached(Default) : Defaults[f] = Convert(f, Default[f])
  BY ReachedParses DEF Defaults
<1>3. Default \in [Fields -> Texts]
  BY DefaultAssumption
<1>4. FreshUpToFirstBad' /\ SuccessIsCoherent'
  BY <1>1, <1>2, <1>3, DefaultsType, LoadKeeps
<1>5. /\ config' \in [Fields -> Texts] /\ parsed' \in [Fields -> Texts]
      /\ \A f \in Numbers : parsed'[f] \in {Stoi[v] : v \in DOMAIN Stoi}
      /\ result' \in {"ok", "failed"}
  BY <1>1, <1>2, <1>3, DefaultsType, LoadKeeps
<1>6. Types'
  BY <1>5 DEF Start, FileOK
<1>7. Started'
  BY <1>1 DEF Start, LoadInto, Started
<1>8. Saving' /\ Kept'
  BY DEF Start, Saving, Kept
<1> QED BY <1>4, <1>6, <1>7, <1>8

(* A step that leaves map, structures and result alone keeps what is said  *)
(* of them.                                                                *)
LEMMA SameConfig ==
  ASSUME CInv, UNCHANGED <<config, parsed, result>>
  PROVE  /\ config' \in [Fields -> Texts] /\ parsed' \in [Fields -> Texts]
         /\ \A f \in Numbers : parsed'[f] \in {Stoi[v] : v \in DOMAIN Stoi}
         /\ result' \in {"ok", "failed"}
         /\ FreshUpToFirstBad' /\ SuccessIsCoherent'
BY DEF CInv, Types, FreshUpToFirstBad, SuccessIsCoherent

(* No file is taken for Missing.                                           *)
LEMMA NotMissing ==
  ASSUME NEW lines, DOMAIN lines \subseteq Fields, lines \in [DOMAIN lines -> Texts]
  PROVE  lines # Missing
BY MissingAssumption DEF Lines

LEMMA SaveToFileCInv ==
  ASSUME CInv, SaveToFile
  PROVE  CInv'
<1>1. file' = [f \in {} |-> No]
  BY DEF SaveToFile
<1>2. DOMAIN file' = {} /\ file' \in [{} -> Texts]
  BY <1>1
<1>3. file' # Missing
  BY <1>2, NotMissing
<1>4. Types' /\ FreshUpToFirstBad' /\ SuccessIsCoherent'
  BY <1>2, SameConfig DEF SaveToFile, Types, FileOK
<1> QED BY <1>3, <1>4 DEF SaveToFile, CInv, Started, Saving, Kept

(* A line that is added to a file.                                         *)
LEMMA AddLine ==
  ASSUME NEW lines, DOMAIN lines \subseteq Fields, lines \in [DOMAIN lines -> Texts],
         NEW f \in Fields, NEW v \in Texts,
         NEW new, new = [g \in DOMAIN lines \union {f} |-> IF g = f THEN v ELSE lines[g]]
  PROVE  /\ DOMAIN new \subseteq Fields /\ new \in [DOMAIN new -> Texts] /\ new # Missing
         /\ new[f] = v
         /\ \A g \in DOMAIN lines \ {f} : g \in DOMAIN new /\ new[g] = lines[g]
<1>1. DOMAIN new \subseteq Fields /\ new \in [DOMAIN new -> Texts]
  OBVIOUS
<1> QED BY <1>1, NotMissing

LEMMA WriteLineCInv ==
  ASSUME CInv, NEW f \in Fields, WriteLine(f)
  PROVE  CInv'
<1> USE DEF CInv
<1>1. phase = "saving" /\ file # Missing /\ saved = Missing /\ DOMAIN file \subseteq Fields
      /\ file \in [DOMAIN file -> Texts] /\ config[f] \in Texts
  BY DEF WriteLine, Saving, Types, FileOK
<1>2. file' = [g \in DOMAIN file \union {f} |-> IF g = f THEN config[f] ELSE file[g]]
  BY DEF WriteLine
<1>3. /\ DOMAIN file' \subseteq Fields /\ file' \in [DOMAIN file' -> Texts] /\ file' # Missing
      /\ file'[f] = config[f]
      /\ \A g \in DOMAIN file \ {f} : g \in DOMAIN file' /\ file'[g] = file[g]
  BY <1>1, <1>2, AddLine
<1>4. Types' /\ FreshUpToFirstBad' /\ SuccessIsCoherent'
  BY <1>3, SameConfig DEF WriteLine, Types, FileOK
<1>5. Saving'
  <2>1. ASSUME NEW g \in Fields \ left'
        PROVE  g \in DOMAIN file' /\ file'[g] = config'[g]
    BY <1>2, <1>3, <1>1 DEF WriteLine, Saving
  <2> QED BY <1>1, <1>3, <2>1 DEF WriteLine, Saving
<1>6. Kept'
  BY <1>1 DEF WriteLine, Saving, Kept
<1> QED BY <1>1, <1>4, <1>5, <1>6 DEF WriteLine, Started

LEMMA WriteFailsCInv ==
  ASSUME CInv, NEW f \in Fields, WriteFails(f)
  PROVE  CInv'
<1>1. phase = "saving" /\ file # Missing /\ saved = Missing /\ DOMAIN file \subseteq Fields
      /\ file \in [DOMAIN file -> Texts] /\ config[f] \in Texts
  BY DEF WriteFails, CInv, Saving, Types, FileOK
<1>2. DOMAIN file' \subseteq Fields /\ file' \in [DOMAIN file' -> Texts]
  <2>1. CASE UNCHANGED file
    BY <1>1, <2>1
  <2>2. CASE \E v \in Cuts[config[f]] :
               file' = [g \in DOMAIN file \union {f} |-> IF g = f THEN v ELSE file[g]]
    <3>1. PICK v \in Cuts[config[f]] :
            file' = [g \in DOMAIN file \union {f} |-> IF g = f THEN v ELSE file[g]]
      BY <2>2
    <3>2. v \in Texts
      BY <1>1, TextsAssumption
    <3> QED BY <1>1, <3>1, <3>2, AddLine
  <2> QED BY <2>1, <2>2 DEF WriteFails
<1>3. Types' /\ FreshUpToFirstBad' /\ SuccessIsCoherent'
  BY <1>2, SameConfig DEF WriteFails, CInv, Types, FileOK
<1> QED BY <1>1, <1>3 DEF WriteFails, CInv, Started, Saving, Kept

LEMMA SaveReturnsCInv ==
  ASSUME CInv, SaveReturns
  PROVE  CInv'
<1>1. phase = "saving" /\ left = {} /\ file # Missing /\ DOMAIN file \subseteq Fields
      /\ file \in [DOMAIN file -> Texts] /\ config \in [Fields -> Texts]
  BY DEF SaveReturns, CInv, Saving, Types, FileOK
<1>2. \A f \in Fields : f \in DOMAIN file /\ file[f] = config[f]
  BY <1>1 DEF CInv, Saving
<1>3. DOMAIN file = Fields
  BY <1>1, <1>2
<1>4. file = config
  BY <1>1, <1>2, <1>3
<1>5. Types' /\ FreshUpToFirstBad' /\ SuccessIsCoherent'
  BY SameConfig DEF SaveReturns, CInv, Types, FileOK
<1> QED BY <1>4, <1>5 DEF SaveReturns, CInv, Started, Saving, Kept

LEMMA StopCInv ==
  ASSUME CInv, Stop
  PROVE  CInv'
<1>1. Types' /\ FreshUpToFirstBad' /\ SuccessIsCoherent'
  BY SameConfig DEF Stop, CInv, Types, FileOK
<1> QED BY <1>1 DEF Stop, CInv, Started, Saving, Kept

LEMMA EditCInv ==
  ASSUME CInv, NEW f \in Fields, NEW v \in Texts, Edit(f, v)
  PROVE  CInv'
<1>1. DOMAIN file' \subseteq Fields /\ file' \in [DOMAIN file' -> Texts]
  <2>1. CASE file = Missing
    <3>1. file' = [g \in {f} |-> v]
      BY <2>1 DEF Edit
    <3> QED BY <3>1
  <2>2. CASE file # Missing
    <3>1. file' = [g \in DOMAIN file \union {f} |-> IF g = f THEN v ELSE file[g]]
      BY <2>2 DEF Edit
    <3> QED BY <2>2, <3>1, AddLine DEF CInv, Types, FileOK
  <2> QED BY <2>1, <2>2
<1>2. Types' /\ FreshUpToFirstBad' /\ SuccessIsCoherent'
  BY <1>1, SameConfig DEF Edit, CInv, Types, FileOK
<1> QED BY <1>2 DEF Edit, CInv, Started, Saving, Kept

LEMMA StutterCInv == CInv /\ UNCHANGED vars => CInv'
BY DEF vars, CInv, Types, FileOK, FreshUpToFirstBad, SuccessIsCoherent, Started, Saving, Kept

LEMMA NextCInv == CInv /\ [Next]_vars => CInv'
BY SetValueCInv, EditCInv, WriteLineCInv, WriteFailsCInv, LoadFromFileCInv, StartCInv,
   SaveToFileCInv, SaveReturnsCInv, StopCInv, StutterCInv DEF Next

LEMMA Invariance == Spec => []CInv
BY InitCInv, NextCInv, PTL DEF Spec

-----------------------------------------------------------------------------
(* Map, structures, file and what is left of a save have their types after *)
(* any calls; a field that holds a number holds what std::stoi returned.   *)
THEOREM TypeCorrect == Spec => []TypeOK
<1>1. CInv => TypeOK
  <2> SUFFICES ASSUME CInv PROVE TypeOK
    OBVIOUS
  <2>1. file \in Lines \union {Missing}
    BY DEF CInv, Types, FileOK, Lines
  <2> QED BY <2>1 DEF CInv, Types, TypeOK
<1> QED BY <1>1, Invariance, PTL

(* The fields before the first bad number are never out of date.           *)
THEOREM FreshUpToFirstBadHolds == Spec => []FreshUpToFirstBad
<1>1. CInv => FreshUpToFirstBad
  BY DEF CInv
<1> QED BY <1>1, Invariance, PTL

(* A setValue() that returns, or a loadFromFile() that returns true, leaves*)
(* no field out of date.                                                   *)
THEOREM SuccessIsCoherentHolds == Spec => []SuccessIsCoherent
<1>1. CInv => SuccessIsCoherent
  BY DEF CInv
<1> QED BY <1>1, Invariance, PTL

(* A restart after a complete save brings the saved values back.           *)
THEOREM RestoredAfterSaveHolds == Spec => []RestoredAfterSave
<1>1. CInv => RestoredAfterSave
  <2> SUFFICES ASSUME CInv, phase = "started", saved # Missing, Reached(saved) = Fields,
                      NEW f \in Fields, f \in Numbers \/ Trim[saved[f]] = saved[f]
               PROVE  parsed[f] = Convert(f, saved[f])
    BY DEF RestoredAfterSave
  <2> DEFINE read == Merge(Default, file)
  <2>1. file = saved /\ file # Missing /\ saved \in [Fields -> Texts]
    BY DEF CInv, Kept, Types
  <2>2. \A g \in Fields : read[g] = Trim[saved[g]]
    BY <2>1 DEF Merge
  <2>3. \A g \in Fields : Parses(g, saved[g])
    BY ReachedParses
  <2>4. \A g \in Fields : Parses(g, read[g])
    BY <2>2, <2>3, StoiAssumption DEF Parses
  <2>5. Reached(read) = Fields
    BY <2>4, AllParseReached
  <2>6. parsed = Parse(Defaults, read)
    BY <2>1 DEF CInv, Started
  <2>7. parsed[f] = Convert(f, Trim[saved[f]])
    BY <2>2, <2>5, <2>6 DEF Parse
  <2>8. CASE f \in Numbers
    <3>1. saved[f] \in DOMAIN Stoi /\ f \notin Flags
      BY <2>3, <2>8, FieldsAssumption DEF Parses
    <3> QED BY <2>7, <2>8, <3>1, StoiAssumption DEF Convert
  <2> QED BY <2>7, <2>8
<1> QED BY <1>1, Invariance, PTL

(* A start gives each field its line's value or its default.               *)
THEOREM StartsFromFileOrDefaultHolds == Spec => []StartsFromFileOrDefault
<1>1. CInv => StartsFromFileOrDefault
  <2> SUFFICES ASSUME CInv, phase = "started", NEW f \in Fields
               PROVE  \/ parsed[f] = Convert(f, Default[f])
                      \/ /\ file # Missing /\ f \in DOMAIN file
                         /\ parsed[f] = Convert(f, Trim[file[f]])
    BY DEF StartsFromFileOrDefault
  <2>1. CASE file = Missing
    BY <2>1 DEF CInv, Started, Defaults
  <2>2. CASE file # Missing
    BY <2>2 DEF CInv, Started, Defaults, Parse, Merge
  <2> QED BY <2>1, <2>2
<1> QED BY <1>1, Invariance, PTL
=============================================================================
