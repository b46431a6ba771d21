------------------------ MODULE EvidenceStore_proofs ------------------------
(***************************************************************************)
(* Proofs about EvidenceStore for every number of runs, size and limit.    *)
(* The argument for runs one after the other: a run that works is the only *)
(* one that does, so what it wrote, digested and packed so far is its own, *)
(* step by step, whatever its predecessors left behind.                    *)
(***************************************************************************)
EXTENDS EvidenceStore, TLAPS

\* No file is torn, nor is anything a run has read.
WholePart ==
  /\ NoFileIsTorn
  /\ \A run \in Runs : digest[run] # Torn

\* Runs that do not overlap take turns.
TurnsPart ==
  ~schedule.overlapping =>
    \A one, other \in Runs : Working(one) /\ Working(other) => one = other

\* The manifest of a run whose reports are all its own.
OwnManifest(run) == [identity |-> run, digests |-> [file \in Reports |-> run]]

\* What a run that works alone has done, step by step.
Own(run) ==
  /\ pc[run] > 1  => disk["json"] = run
  /\ pc[run] > 2  => disk["markdown"] = run
  /\ pc[run] > 3  => disk["sarif"] = run
  /\ pc[run] > 4  => seen[run]["json"] = run /\ SizeOf[run]["json"] <= MemberLimit
  /\ pc[run] > 5  => seen[run]["markdown"] = run /\ SizeOf[run]["markdown"] <= MemberLimit
  /\ pc[run] > 6  => seen[run]["sarif"] = run /\ SizeOf[run]["sarif"] <= MemberLimit
  /\ pc[run] > 7  => disk["passport"] = OwnManifest(run)
  /\ pc[run] > 8  => packed[run]["passport"] = OwnManifest(run)
  /\ pc[run] > 9  => packed[run]["json"] = run
  /\ pc[run] > 10 => packed[run]["markdown"] = run
  /\ pc[run] > 11 => packed[run]["sarif"] = run
  /\ pc[run] > 12 => disk["bundle"] = packed[run]
  /\ pc[run] > 13 => digest[run] = disk["bundle"]
  /\ pc[run] > 14 => disk["sidecar"] = disk["bundle"]

OwnPart == ~schedule.overlapping => \A run \in Runs : Working(run) => Own(run)

IInv == TypeOK /\ WholePart /\ TurnsPart /\ OwnPart

-----------------------------------------------------------------------------
(* The sixteen steps                                                       *)

\* The table of the steps, read by number.
LEMMA StepTable ==
  /\ DOMAIN Steps = 1..16 /\ Len(Steps) = 16 /\ Crashed = 19 /\ Failed = 18 /\ Done = 17
  /\ Steps[1] = <<"write", "json">> /\ Steps[2] = <<"write", "markdown">>
  /\ Steps[3] = <<"write", "sarif">> /\ Steps[4] = <<"collect", "json">>
  /\ Steps[5] = <<"collect", "markdown">> /\ Steps[6] = <<"collect", "sarif">>
  /\ Steps[7] = <<"write", "passport">> /\ Steps[8] = <<"pack", "passport">>
  /\ Steps[9] = <<"pack", "json">> /\ Steps[10] = <<"pack", "markdown">>
  /\ Steps[11] = <<"pack", "sarif">> /\ Steps[12] = <<"write", "bundle">>
  /\ Steps[13] = <<"digest", "bundle">> /\ Steps[14] = <<"write", "sidecar">>
  /\ Steps[15] = <<"verify", "bundle">> /\ Steps[16] = <<"confirm", "bundle">>
BY DEF Steps, Crashed, Failed, Done

\* A run that works is at one of the sixteen steps.
LEMMA WorkingMeaning ==
  ASSUME NEW run \in Runs, pc \in [Runs -> 0..Crashed]
  PROVE  Working(run) <=> pc[run] \in 1..16
BY StepTable DEF Working

\* Which file is written, read or checked at which step.
LEMMA WhichStep ==
  ASSUME NEW run \in Runs, NEW file \in Files, pc \in [Runs -> 0..Crashed]
  PROVE  /\ At(run, "write", file) =>
              \/ pc[run] = 1 /\ file = "json"
              \/ pc[run] = 2 /\ file = "markdown"
              \/ pc[run] = 3 /\ file = "sarif"
              \/ pc[run] = 7 /\ file = "passport"
              \/ pc[run] = 12 /\ file = "bundle"
              \/ pc[run] = 14 /\ file = "sidecar"
         /\ At(run, "collect", file) =>
              \/ pc[run] = 4 /\ file = "json"
              \/ pc[run] = 5 /\ file = "markdown"
              \/ pc[run] = 6 /\ file = "sarif"
         /\ At(run, "pack", file) =>
              \/ pc[run] = 8 /\ file = "passport"
              \/ pc[run] = 9 /\ file = "json"
              \/ pc[run] = 10 /\ file = "markdown"
              \/ pc[run] = 11 /\ file = "sarif"
         /\ At(run, "digest", "bundle") => pc[run] = 13
         /\ At(run, "verify", "bundle") => pc[run] = 15
         /\ At(run, "confirm", "bundle") => pc[run] = 16
<1>1. CASE pc[run] \in 1..16
  <2>1. \/ pc[run] = 1 \/ pc[run] = 2 \/ pc[run] = 3 \/ pc[run] = 4
        \/ pc[run] = 5 \/ pc[run] = 6 \/ pc[run] = 7 \/ pc[run] = 8
        \/ pc[run] = 9 \/ pc[run] = 10 \/ pc[run] = 11 \/ pc[run] = 12
        \/ pc[run] = 13 \/ pc[run] = 14 \/ pc[run] = 15 \/ pc[run] = 16
    BY <1>1
  <2> QED BY <2>1, StepTable DEF At
<1>2. CASE pc[run] \notin 1..16
  BY <1>2, WorkingMeaning DEF At
<1> QED BY <1>1, <1>2

\* Only the steps of a write own a temporary file.
LEMMA TempMeaning ==
  ASSUME TypeOK, NEW run \in Runs
  PROVE  temp[run] => pc[run] \in {1, 2, 3, 7, 12, 14}
<1> SUFFICES ASSUME temp[run] PROVE pc[run] \in {1, 2, 3, 7, 12, 14}
  OBVIOUS
<1>1. Working(run) /\ Steps[pc[run]][1] = "write"
  BY DEF TypeOK
<1>2. pc[run] \in 1..16
  BY <1>1, WorkingMeaning DEF TypeOK
<1>3. \/ pc[run] = 1 \/ pc[run] = 2 \/ pc[run] = 3 \/ pc[run] = 4
      \/ pc[run] = 5 \/ pc[run] = 6 \/ pc[run] = 7 \/ pc[run] = 8
      \/ pc[run] = 9 \/ pc[run] = 10 \/ pc[run] = 11 \/ pc[run] = 12
      \/ pc[run] = 13 \/ pc[run] = 14 \/ pc[run] = 15 \/ pc[run] = 16
  BY <1>2
<1> QED BY <1>1, <1>3, StepTable

-----------------------------------------------------------------------------
(* Initial states and what every step of a working run has in common        *)

\* The inductive invariant holds before any run has started.
LEMMA InitIInv == Init => IInv
<1> SUFFICES ASSUME Init PROVE IInv
  OBVIOUS
<1>1. pc = [run \in Runs |-> 0] /\ pc \in [Runs -> 0..Crashed]
  BY StepTable DEF Init, Waiting
<1>2. \A run \in Runs : ~Working(run)
  BY <1>1, WorkingMeaning
<1>3. TypeOK
  <2>1. schedule \in Schedules /\ DOMAIN disk = Files
    BY DEF Init
  <2>2. \A file \in Files : disk[file] = NoFile
    BY DEF Init
  <2>3. /\ \A file \in Reports : disk[file] \in Runs \cup {NoFile, Torn}
        /\ disk["passport"] \in Manifests \cup {NoFile, Torn}
        /\ {disk["bundle"], disk["sidecar"]} \subseteq Bundles \cup {NoFile, Torn}
    BY <2>2 DEF Files, Members
  <2>4. litter \subseteq Runs \X Files /\ temp \in [Runs -> BOOLEAN]
    BY DEF Init
  <2>5. \A run \in Runs : temp[run] => Working(run) /\ Steps[pc[run]][1] = "write"
    BY DEF Init
  <2>6. seen \in [Runs -> [Reports -> Runs \cup {NoFile, Torn}]]
    BY DEF Init
  <2>7. packed \in [Runs -> Bundles]
    BY DEF Init, Bundles
  <2>8. {digest, emitted} \subseteq [Runs -> Bundles \cup {NoFile, Torn}]
    BY DEF Init
  <2> QED BY <1>1, <2>1, <2>3, <2>4, <2>5, <2>6, <2>7, <2>8 DEF TypeOK
<1>4. WholePart
  BY StoreAssumption DEF Init, WholePart, NoFileIsTorn
<1>5. TurnsPart /\ OwnPart
  BY <1>2 DEF TurnsPart, OwnPart
<1> QED BY <1>3, <1>4, <1>5 DEF IInv

\* A step of a run that works: the program counters and temporary files are
\* typed, and of runs that take turns no other one works.
LEMMA StepFrame ==
  ASSUME IInv, NEW run \in Runs, NEW step \in 1..Crashed, Working(run),
         schedule' = schedule, pc' = [pc EXCEPT ![run] = step],
         NEW value \in BOOLEAN, temp' = [temp EXCEPT ![run] = value],
         value => step \in 1..16 /\ Steps[step][1] = "write"
  PROVE  /\ schedule' \in Schedules
         /\ pc' \in [Runs -> 0..Crashed]
         /\ pc'[run] = step
         /\ temp' \in [Runs -> BOOLEAN]
         /\ (\A other \in Runs : temp[other] => Working(other) /\ Steps[pc[other]][1] = "write")'
         /\ TurnsPart'
         /\ Own(run)' => OwnPart'
<1>1. /\ schedule' \in Schedules /\ pc \in [Runs -> 0..Crashed]
      /\ pc' \in [Runs -> 0..Crashed] /\ pc'[run] = step
      /\ temp' \in [Runs -> BOOLEAN] /\ temp'[run] = value
  BY StepTable DEF IInv, TypeOK
<1>2. \A other \in Runs : other # run => pc'[other] = pc[other] /\ temp'[other] = temp[other]
  BY DEF IInv, TypeOK
<1>3. \A other \in Runs : other # run => (Working(other)' <=> Working(other))
  BY <1>2 DEF Working
<1>4. (\A other \in Runs : temp[other] => Working(other) /\ Steps[pc[other]][1] = "write")'
  <2> SUFFICES ASSUME NEW other \in Runs, temp'[other]
               PROVE  Working(other)' /\ Steps[pc'[other]][1] = "write"
    OBVIOUS
  <2>1. CASE other = run
    BY <2>1, <1>1, StepTable DEF Working
  <2>2. CASE other # run
    BY <2>2, <1>2, <1>3 DEF IInv, TypeOK
  <2> QED BY <2>1, <2>2
<1>5. ~schedule.overlapping => \A other \in Runs : Working(other)' => other = run
  BY <1>3 DEF IInv, TurnsPart
<1>6. TurnsPart'
  BY <1>5 DEF TurnsPart
<1>7. Own(run)' => OwnPart'
  BY <1>5 DEF OwnPart
<1> QED BY <1>1, <1>4, <1>6, <1>7

\* The same when the step is the next one and leaves the temporary files alone.
LEMMA AdvanceFrame ==
  ASSUME IInv, NEW run \in Runs, pc[run] \in 1..16, ~temp[run],
         schedule' = schedule, Advance(run), temp' = temp
  PROVE  /\ schedule' \in Schedules
         /\ pc' \in [Runs -> 0..Crashed]
         /\ pc'[run] = pc[run] + 1
         /\ temp' \in [Runs -> BOOLEAN]
         /\ (\A other \in Runs : temp[other] => Working(other) /\ Steps[pc[other]][1] = "write")'
         /\ TurnsPart'
         /\ Own(run)' => OwnPart'
<1>1. pc \in [Runs -> 0..Crashed] /\ temp \in [Runs -> BOOLEAN]
  BY DEF IInv, TypeOK
<1>2. Working(run)
  BY <1>1, WorkingMeaning
<1>3. pc[run] + 1 \in 1..Crashed /\ pc' = [pc EXCEPT ![run] = pc[run] + 1]
  BY <1>1, StepTable DEF Advance
<1>4. temp' = [temp EXCEPT ![run] = FALSE]
  BY <1>1
<1> HIDE DEF IInv, TypeOK
<1> DEFINE step == pc[run] + 1
<1>5. step \in 1..Crashed /\ pc' = [pc EXCEPT ![run] = step]
  BY <1>3
<1>6. step = pc[run] + 1
  OBVIOUS
<1> HIDE DEF step
<1>7. /\ schedule' \in Schedules
      /\ pc' \in [Runs -> 0..Crashed]
      /\ pc'[run] = step
      /\ temp' \in [Runs -> BOOLEAN]
      /\ (\A other \in Runs : temp[other] => Working(other) /\ Steps[pc[other]][1] = "write")'
      /\ TurnsPart'
      /\ Own(run)' => OwnPart'
  BY <1>2, <1>4, <1>5, StepFrame
<1> QED BY <1>6, <1>7

\* What a run that works alone has done is its own.
LEMMA AloneIsOwn ==
  ASSUME IInv, NEW run \in Runs, pc[run] \in 1..16, ~schedule.overlapping
  PROVE  Own(run)
<1>1. Working(run)
  BY WorkingMeaning DEF IInv, TypeOK
<1> QED BY <1>1 DEF IInv, OwnPart

-----------------------------------------------------------------------------
(* Every action preserves the inductive invariant                           *)

LEMMA StartIInv ==
  ASSUME IInv, NEW run \in Runs, Start(run)
  PROVE  IInv'
<1>1. /\ pc \in [Runs -> 0..Crashed] /\ temp \in [Runs -> BOOLEAN]
      /\ \A other \in Runs : temp[other] => Working(other) /\ Steps[pc[other]][1] = "write"
  BY DEF IInv, TypeOK
<1>2. /\ pc[run] = 0 /\ pc' = [pc EXCEPT ![run] = 1]
      /\ schedule.overlapping \/ \A other \in Runs : ~Working(other)
      /\ UNCHANGED <<schedule, disk, litter, temp, seen, packed, digest, accepted, emitted>>
  BY <1>1 DEF Start, Advance, Waiting, locals
<1>3. pc' \in [Runs -> 0..Crashed] /\ pc'[run] = 1
  BY <1>1, <1>2, StepTable
<1>4. \A other \in Runs : other # run => pc'[other] = pc[other]
  BY <1>1, <1>2
<1>5. ~Working(run) /\ ~temp[run]
  BY <1>1, <1>2, WorkingMeaning
<1>6. \A other \in Runs : other # run => (Working(other)' <=> Working(other))
  BY <1>4 DEF Working
<1>7. (\A other \in Runs : temp[other] => Working(other) /\ Steps[pc[other]][1] = "write")'
  <2> SUFFICES ASSUME NEW other \in Runs, temp'[other]
               PROVE  Working(other)' /\ Steps[pc'[other]][1] = "write"
    OBVIOUS
  <2>1. temp[other] /\ other # run
    BY <1>2, <1>5
  <2> QED BY <2>1, <1>1, <1>4, <1>6
<1>8. TypeOK'
  <2>1. UNCHANGED <<schedule, disk, litter, temp, seen, packed, digest, emitted>>
    BY <1>2
  <2> QED BY <1>3, <1>7, <2>1 DEF IInv, TypeOK
<1>9. WholePart'
  BY <1>2 DEF IInv, WholePart, NoFileIsTorn
<1>10. ~schedule'.overlapping => \A other \in Runs : Working(other)' => other = run
  BY <1>2, <1>6
<1>11. TurnsPart'
  BY <1>10 DEF TurnsPart
<1>12. Own(run)'
  BY <1>3 DEF Own
<1>13. OwnPart'
  BY <1>10, <1>12 DEF OwnPart
<1> QED BY <1>8, <1>9, <1>11, <1>13 DEF IInv

LEMMA BeginWriteIInv ==
  ASSUME IInv, NEW run \in Runs, NEW file \in Files, BeginWrite(run, file)
  PROVE  IInv'
<1>1. pc \in [Runs -> 0..Crashed] /\ temp \in [Runs -> BOOLEAN]
  BY DEF IInv, TypeOK
<1>2. /\ At(run, "write", file) /\ temp' = [temp EXCEPT ![run] = TRUE]
      /\ UNCHANGED <<schedule, disk, litter, pc, seen, packed, digest, accepted, emitted>>
  BY DEF BeginWrite, locals
<1>3. Working(run) /\ Steps[pc[run]] = <<"write", file>> /\ pc[run] \in 1..16
  BY <1>1, <1>2, WorkingMeaning DEF At
<1>4. temp' \in [Runs -> BOOLEAN]
  BY <1>1, <1>2
<1>5. (\A other \in Runs : temp[other] => Working(other) /\ Steps[pc[other]][1] = "write")'
  <2> SUFFICES ASSUME NEW other \in Runs, temp'[other]
               PROVE  Working(other)' /\ Steps[pc'[other]][1] = "write"
    OBVIOUS
  <2>1. CASE other = run
    BY <2>1, <1>2, <1>3 DEF Working
  <2>2. CASE other # run
    <3>1. temp[other]
      BY <2>2, <1>1, <1>2
    <3>2. Working(other) /\ Steps[pc[other]][1] = "write"
      BY <3>1 DEF IInv, TypeOK
    <3> QED BY <3>2, <1>2 DEF Working
  <2> QED BY <2>1, <2>2
<1>6. TypeOK'
  <2>1. UNCHANGED <<schedule, disk, litter, pc, seen, packed, digest, emitted>>
    BY <1>2
  <2> QED BY <1>4, <1>5, <2>1 DEF IInv, TypeOK
<1>7. WholePart'
  BY <1>2 DEF IInv, WholePart, NoFileIsTorn
<1>8. TurnsPart'
  BY <1>2 DEF IInv, TurnsPart, Working
<1>9. OwnPart'
  BY <1>2 DEF IInv, OwnPart, Own, Working
<1> QED BY <1>6, <1>7, <1>8, <1>9 DEF IInv

\* What a run installs under a name is content of that file's kind, and whole.
LEMMA ContentTyped ==
  ASSUME IInv, NEW run \in Runs
  PROVE  /\ \A file \in Reports : ContentOf(run, file) = run
         /\ ContentOf(run, "passport") = [identity |-> run, digests |-> seen[run]]
         /\ ContentOf(run, "passport") \in Manifests
         /\ ContentOf(run, "bundle") = packed[run] /\ packed[run] \in Bundles
         /\ ContentOf(run, "sidecar") = digest[run]
         /\ digest[run] \in Bundles \cup {NoFile}
         /\ \A file \in Files : ContentOf(run, file) # Torn
<1>1. \A file \in Reports : ContentOf(run, file) = run
  BY DEF ContentOf, Reports
<1>2. ContentOf(run, "passport") = [identity |-> run, digests |-> seen[run]]
  BY DEF ContentOf, Reports
<1>3. ContentOf(run, "bundle") = packed[run] /\ ContentOf(run, "sidecar") = digest[run]
  BY DEF ContentOf, Reports
<1>4. /\ seen[run] \in [Reports -> Runs \cup {NoFile, Torn}] /\ packed[run] \in Bundles
      /\ digest[run] \in Bundles \cup {NoFile, Torn} /\ digest[run] # Torn
  BY DEF IInv, TypeOK, WholePart
<1>5. ContentOf(run, "passport") \in Manifests
  BY <1>2, <1>4 DEF Manifests
<1>6. \A file \in Files : ContentOf(run, file) # Torn
  <2>1. Torn \notin Runs \cup Manifests \cup Bundles
    BY StoreAssumption
  <2> QED BY <2>1, <1>1, <1>3, <1>4, <1>5 DEF Files, Members
<1> QED BY <1>1, <1>2, <1>3, <1>4, <1>5, <1>6

\* The step of Own that a write adds, file by file.
LEMMA InstallOwn ==
  ASSUME IInv, NEW run \in Runs, NEW file \in Files, At(run, "write", file),
         Own(run), pc' \in [Runs -> 0..Crashed], pc'[run] = pc[run] + 1,
         disk' = [disk EXCEPT ![file] = ContentOf(run, file)],
         UNCHANGED <<seen, packed, digest>>
  PROVE  Own(run)'
<1>1. pc \in [Runs -> 0..Crashed] /\ DOMAIN disk = Files
  BY DEF IInv, TypeOK
<1>2. /\ disk'[file] = ContentOf(run, file)
      /\ \A other \in Files : other # file => disk'[other] = disk[other]
  BY <1>1
<1>3. /\ "json" \in Files /\ "markdown" \in Files /\ "sarif" \in Files
      /\ "passport" \in Files /\ "bundle" \in Files /\ "sidecar" \in Files
      /\ "json" \in Reports /\ "markdown" \in Reports /\ "sarif" \in Reports
  BY DEF Files, Members, Reports
<1>4. CASE pc[run] = 1 /\ file = "json"
  BY <1>2, <1>3, <1>4, ContentTyped DEF Own
<1>5. CASE pc[run] = 2 /\ file = "markdown"
  BY <1>2, <1>3, <1>5, ContentTyped DEF Own
<1>6. CASE pc[run] = 3 /\ file = "sarif"
  BY <1>2, <1>3, <1>6, ContentTyped DEF Own
<1>7. CASE pc[run] = 7 /\ file = "passport"
  <2>1. /\ seen[run] \in [Reports -> Runs \cup {NoFile, Torn}]
        /\ seen[run]["json"] = run /\ seen[run]["markdown"] = run /\ seen[run]["sarif"] = run
    BY <1>7 DEF IInv, TypeOK, Own
  <2>2. \A report \in Reports : seen[run][report] = run
    BY <2>1 DEF Reports
  <2>3. seen[run] = [report \in Reports |-> run]
    BY <2>1, <2>2
  <2>4. disk'["passport"] = OwnManifest(run)
    BY <1>2, <1>7, <2>3, ContentTyped DEF OwnManifest
  <2> QED BY <1>2, <1>3, <1>7, <2>4 DEF Own, OwnManifest
<1>8. CASE pc[run] = 12 /\ file = "bundle"
  BY <1>2, <1>3, <1>8, ContentTyped DEF Own, OwnManifest
<1>9. CASE pc[run] = 14 /\ file = "sidecar"
  BY <1>2, <1>3, <1>9, ContentTyped DEF Own, OwnManifest
<1> QED BY <1>1, <1>4, <1>5, <1>6, <1>7, <1>8, <1>9, WhichStep

LEMMA InstallIInv ==
  ASSUME IInv, NEW run \in Runs, NEW file \in Files, Install(run, file)
  PROVE  IInv'
<1>1. /\ At(run, "write", file)
      /\ temp' = [temp EXCEPT ![run] = FALSE] /\ pc' = [pc EXCEPT ![run] = @ + 1]
      /\ disk' = [disk EXCEPT ![file] = ContentOf(run, file)]
      /\ schedule' = schedule
      /\ UNCHANGED <<litter, accepted, emitted>>
      /\ UNCHANGED <<seen, packed, digest>>
  BY DEF Install, Advance, locals
<1>2. pc \in [Runs -> 0..Crashed] /\ DOMAIN disk = Files
  BY DEF IInv, TypeOK
<1>3. Working(run) /\ pc[run] \in 1..16
  BY <1>1, <1>2, WorkingMeaning DEF At
<1> DEFINE step == pc[run] + 1
<1>4. step \in 1..Crashed /\ pc' = [pc EXCEPT ![run] = step]
  BY <1>1, <1>2, <1>3, StepTable
<1>5. step = pc[run] + 1
  OBVIOUS
<1> HIDE DEF step
<1>6. /\ schedule' \in Schedules
      /\ pc' \in [Runs -> 0..Crashed]
      /\ pc'[run] = step
      /\ temp' \in [Runs -> BOOLEAN]
      /\ (\A other \in Runs : temp[other] => Working(other) /\ Steps[pc[other]][1] = "write")'
      /\ TurnsPart'
      /\ Own(run)' => OwnPart'
  BY <1>1, <1>3, <1>4, StepFrame
<1>7. /\ DOMAIN disk' = Files
      /\ disk'[file] = ContentOf(run, file)
      /\ \A other \in Files : other # file => disk'[other] = disk[other]
  BY <1>1, <1>2
<1>8. TypeOK'
  <2>1. \A report \in Reports : disk'[report] \in Runs \cup {NoFile, Torn}
    <3> SUFFICES ASSUME NEW report \in Reports
                 PROVE  disk'[report] \in Runs \cup {NoFile, Torn}
      OBVIOUS
    <3>1. report \in Files
      BY DEF Files, Members
    <3>2. CASE report = file
      BY <3>2, <1>7, ContentTyped
    <3>3. CASE report # file
      BY <3>1, <3>3, <1>7 DEF IInv, TypeOK
    <3> QED BY <3>2, <3>3
  <2>2. disk'["passport"] \in Manifests \cup {NoFile, Torn}
    <3>1. "passport" \in Files
      BY DEF Files, Members
    <3>2. CASE file = "passport"
      BY <3>2, <1>7, ContentTyped
    <3>3. CASE file # "passport"
      BY <3>1, <3>3, <1>7 DEF IInv, TypeOK
    <3> QED BY <3>2, <3>3
  <2>3. disk'["bundle"] \in Bundles \cup {NoFile, Torn}
    <3>1. "bundle" \in Files
      BY DEF Files
    <3>2. CASE file = "bundle"
      BY <3>2, <1>7, ContentTyped
    <3>3. CASE file # "bundle"
      BY <3>1, <3>3, <1>7 DEF IInv, TypeOK
    <3> QED BY <3>2, <3>3
  <2>4. disk'["sidecar"] \in Bundles \cup {NoFile, Torn}
    <3>1. "sidecar" \in Files
      BY DEF Files
    <3>2. CASE file = "sidecar"
      BY <3>2, <1>7, ContentTyped
    <3>3. CASE file # "sidecar"
      BY <3>1, <3>3, <1>7 DEF IInv, TypeOK
    <3> QED BY <3>2, <3>3
  <2>5. UNCHANGED <<litter, seen, packed, digest, emitted>>
    BY <1>1
  <2> QED BY <1>6, <1>7, <2>1, <2>2, <2>3, <2>4, <2>5 DEF IInv, TypeOK
<1>9. WholePart'
  <2>1. \A other \in Files : disk'[other] # Torn
    BY <1>7, ContentTyped DEF IInv, WholePart, NoFileIsTorn
  <2> QED BY <2>1, <1>1 DEF IInv, WholePart, NoFileIsTorn
<1>10. OwnPart'
  <2>1. CASE schedule.overlapping
    BY <2>1, <1>1 DEF OwnPart
  <2>2. CASE ~schedule.overlapping
    <3>1. Own(run)
      BY <2>2, <1>3, AloneIsOwn
    <3>2. Own(run)'
      BY <3>1, <1>1, <1>5, <1>6, InstallOwn
    <3> QED BY <3>2, <1>6
  <2> QED BY <2>1, <2>2
<1> QED BY <1>6, <1>8, <1>9, <1>10 DEF IInv

LEMMA CollectIInv ==
  ASSUME IInv, NEW run \in Runs, NEW file \in Files, Collect(run, file)
  PROVE  IInv'
<1>1. /\ At(run, "collect", file) /\ SizeIn(file, disk[file]) <= MemberLimit
      /\ seen' = [seen EXCEPT ![run][file] = disk[file]]
      /\ Advance(run)
      /\ schedule' = schedule /\ temp' = temp
      /\ UNCHANGED <<disk, litter, packed, digest, accepted, emitted>>
  BY DEF Collect
<1>2. /\ pc \in [Runs -> 0..Crashed]
      /\ seen \in [Runs -> [Reports -> Runs \cup {NoFile, Torn}]]
  BY DEF IInv, TypeOK
<1>3. \/ pc[run] = 4 /\ file = "json"
      \/ pc[run] = 5 /\ file = "markdown"
      \/ pc[run] = 6 /\ file = "sarif"
  BY <1>1, <1>2, WhichStep
<1>4. file \in Reports /\ pc[run] \in 1..16
  BY <1>3 DEF Reports
<1>5. ~temp[run]
  BY <1>3, TempMeaning DEF IInv
<1>6. /\ schedule' \in Schedules
      /\ pc' \in [Runs -> 0..Crashed]
      /\ pc'[run] = pc[run] + 1
      /\ temp' \in [Runs -> BOOLEAN]
      /\ (\A other \in Runs : temp[other] => Working(other) /\ Steps[pc[other]][1] = "write")'
      /\ TurnsPart'
      /\ Own(run)' => OwnPart'
  BY <1>1, <1>4, <1>5, AdvanceFrame
<1>7. disk[file] \in Runs \cup {NoFile, Torn}
  BY <1>4 DEF IInv, TypeOK
<1>8. /\ seen' \in [Runs -> [Reports -> Runs \cup {NoFile, Torn}]]
      /\ seen'[run] = [seen[run] EXCEPT ![file] = disk[file]]
  BY <1>1, <1>2, <1>4, <1>7
<1>9. TypeOK'
  BY <1>1, <1>6, <1>8 DEF IInv, TypeOK
<1>10. WholePart'
  BY <1>1 DEF IInv, WholePart, NoFileIsTorn
<1>11. OwnPart'
  <2>1. CASE schedule.overlapping
    BY <2>1, <1>1 DEF OwnPart
  <2>2. CASE ~schedule.overlapping
    <3>1. Own(run)
      BY <2>2, <1>4, AloneIsOwn
    <3>2. disk[file] = run
      BY <1>3, <3>1 DEF Own
    <3>3. SizeOf[run][file] <= MemberLimit
      BY <1>1, <3>2 DEF SizeIn
    <3>4. /\ seen'[run][file] = run
          /\ \A other \in Reports : other # file => seen'[run][other] = seen[run][other]
      BY <1>2, <1>4, <1>8, <3>2
    <3>5. "json" \in Reports /\ "markdown" \in Reports /\ "sarif" \in Reports
      BY DEF Reports
    <3>6. Own(run)'
      BY <1>1, <1>3, <1>6, <3>1, <3>3, <3>4, <3>5 DEF Own
    <3> QED BY <3>6, <1>6
  <2> QED BY <2>1, <2>2
<1> QED BY <1>6, <1>9, <1>10, <1>11 DEF IInv

LEMMA PackIInv ==
  ASSUME IInv, NEW run \in Runs, NEW file \in Files, Pack(run, file)
  PROVE  IInv'
<1>1. /\ At(run, "pack", file)
      /\ packed' = [packed EXCEPT ![run][file] = disk[file]]
      /\ Advance(run)
      /\ schedule' = schedule /\ temp' = temp
      /\ UNCHANGED <<disk, litter, seen, digest, accepted, emitted>>
  BY DEF Pack
<1>2. pc \in [Runs -> 0..Crashed] /\ packed \in [Runs -> Bundles]
  BY DEF IInv, TypeOK
<1>3. \/ pc[run] = 8 /\ file = "passport"
      \/ pc[run] = 9 /\ file = "json"
      \/ pc[run] = 10 /\ file = "markdown"
      \/ pc[run] = 11 /\ file = "sarif"
  BY <1>1, <1>2, WhichStep
<1>4. file \in Members /\ pc[run] \in 1..16
  BY <1>3 DEF Members, Reports
<1>5. ~temp[run]
  BY <1>3, TempMeaning DEF IInv
<1>6. /\ schedule' \in Schedules
      /\ pc' \in [Runs -> 0..Crashed]
      /\ pc'[run] = pc[run] + 1
      /\ temp' \in [Runs -> BOOLEAN]
      /\ (\A other \in Runs : temp[other] => Working(other) /\ Steps[pc[other]][1] = "write")'
      /\ TurnsPart'
      /\ Own(run)' => OwnPart'
  BY <1>1, <1>4, <1>5, AdvanceFrame
<1>7. disk[file] \in Runs \cup Manifests \cup {NoFile, Torn}
  BY <1>4 DEF IInv, TypeOK, Members
<1>8. packed' \in [Runs -> Bundles] /\ packed'[run] = [packed[run] EXCEPT ![file] = disk[file]]
  BY <1>1, <1>2, <1>4, <1>7 DEF Bundles
<1>9. TypeOK'
  BY <1>1, <1>6, <1>8 DEF IInv, TypeOK
<1>10. WholePart'
  BY <1>1 DEF IInv, WholePart, NoFileIsTorn
<1>11. OwnPart'
  <2>1. CASE schedule.overlapping
    BY <2>1, <1>1 DEF OwnPart
  <2>2. CASE ~schedule.overlapping
    <3>1. Own(run)
      BY <2>2, <1>4, AloneIsOwn
    <3>2. packed[run] \in [Members -> Runs \cup Manifests \cup {NoFile, Torn}]
      BY <1>2 DEF Bundles
    <3>3. /\ packed'[run][file] = disk[file]
          /\ \A other \in Members : other # file => packed'[run][other] = packed[run][other]
      BY <3>2, <1>4, <1>8
    <3>4. /\ "json" \in Members /\ "markdown" \in Members
          /\ "sarif" \in Members /\ "passport" \in Members
      BY DEF Members, Reports
    <3>5. Own(run)'
      BY <1>1, <1>3, <1>6, <3>1, <3>3, <3>4 DEF Own, OwnManifest
    <3> QED BY <3>5, <1>6
  <2> QED BY <2>1, <2>2
<1> QED BY <1>6, <1>9, <1>10, <1>11 DEF IInv

LEMMA DigestIInv ==
  ASSUME IInv, NEW run \in Runs, Digest(run)
  PROVE  IInv'
<1>1. /\ At(run, "digest", "bundle")
      /\ digest' = [digest EXCEPT ![run] = disk["bundle"]]
      /\ Advance(run)
      /\ schedule' = schedule /\ temp' = temp
      /\ UNCHANGED <<disk, litter, seen, packed, accepted, emitted>>
  BY DEF Digest
<1>2. /\ pc \in [Runs -> 0..Crashed] /\ digest \in [Runs -> Bundles \cup {NoFile, Torn}]
      /\ disk["bundle"] \in Bundles \cup {NoFile, Torn} /\ disk["bundle"] # Torn
  BY DEF IInv, TypeOK, WholePart, NoFileIsTorn, Files
<1>3. pc[run] = 13 /\ pc[run] \in 1..16
  BY <1>1, <1>2, WhichStep DEF Files
<1>4. ~temp[run]
  BY <1>3, TempMeaning DEF IInv
<1>5. /\ schedule' \in Schedules
      /\ pc' \in [Runs -> 0..Crashed]
      /\ pc'[run] = pc[run] + 1
      /\ temp' \in [Runs -> BOOLEAN]
      /\ (\A other \in Runs : temp[other] => Working(other) /\ Steps[pc[other]][1] = "write")'
      /\ TurnsPart'
      /\ Own(run)' => OwnPart'
  BY <1>1, <1>3, <1>4, AdvanceFrame
<1>6. /\ digest' \in [Runs -> Bundles \cup {NoFile, Torn}]
      /\ digest'[run] = disk["bundle"]
      /\ \A other \in Runs : digest'[other] # Torn
  BY <1>1, <1>2 DEF IInv, WholePart
<1>7. TypeOK'
  BY <1>1, <1>5, <1>6 DEF IInv, TypeOK
<1>8. WholePart'
  BY <1>1, <1>6 DEF IInv, WholePart, NoFileIsTorn
<1>9. OwnPart'
  <2>1. CASE schedule.overlapping
    BY <2>1, <1>1 DEF OwnPart
  <2>2. CASE ~schedule.overlapping
    <3>1. Own(run)
      BY <2>2, <1>3, AloneIsOwn
    <3>2. Own(run)'
      BY <1>1, <1>3, <1>5, <1>6, <3>1 DEF Own, OwnManifest
    <3> QED BY <3>2, <1>5
  <2> QED BY <2>1, <2>2
<1> QED BY <1>5, <1>7, <1>8, <1>9 DEF IInv

\* The check of the action changes neither the directory nor what a run knows.
LEMMA VerifyIInv ==
  ASSUME IInv, NEW run \in Runs, Verify(run)
  PROVE  IInv'
<1>1. /\ At(run, "verify", "bundle")
      /\ Advance(run)
      /\ schedule' = schedule /\ temp' = temp
      /\ UNCHANGED <<disk, litter, seen, packed, digest, emitted>>
  BY DEF Verify, locals
<1>2. pc \in [Runs -> 0..Crashed]
  BY DEF IInv, TypeOK
<1>3. pc[run] = 15 /\ pc[run] \in 1..16
  BY <1>1, <1>2, WhichStep DEF Files
<1>4. ~temp[run]
  BY <1>3, TempMeaning DEF IInv
<1>5. /\ schedule' \in Schedules
      /\ pc' \in [Runs -> 0..Crashed]
      /\ pc'[run] = pc[run] + 1
      /\ temp' \in [Runs -> BOOLEAN]
      /\ (\A other \in Runs : temp[other] => Working(other) /\ Steps[pc[other]][1] = "write")'
      /\ TurnsPart'
      /\ Own(run)' => OwnPart'
  BY <1>1, <1>3, <1>4, AdvanceFrame
<1>6. TypeOK'
  BY <1>1, <1>5 DEF IInv, TypeOK
<1>7. WholePart'
  BY <1>1 DEF IInv, WholePart, NoFileIsTorn
<1>8. OwnPart'
  <2>1. CASE schedule.overlapping
    BY <2>1, <1>1 DEF OwnPart
  <2>2. CASE ~schedule.overlapping
    <3>1. Own(run)
      BY <2>2, <1>3, AloneIsOwn
    <3>2. Own(run)'
      BY <1>1, <1>3, <1>5, <3>1 DEF Own, OwnManifest
    <3> QED BY <3>2, <1>5
  <2> QED BY <2>1, <2>2
<1> QED BY <1>5, <1>6, <1>7, <1>8 DEF IInv

LEMMA ConfirmIInv ==
  ASSUME IInv, NEW run \in Runs, Confirm(run)
  PROVE  IInv'
<1>1. /\ At(run, "confirm", "bundle")
      /\ emitted' = [emitted EXCEPT ![run] = disk["bundle"]]
      /\ Advance(run)
      /\ schedule' = schedule /\ temp' = temp
      /\ UNCHANGED <<disk, litter, seen, packed, digest>>
  BY DEF Confirm, locals
<1>2. /\ pc \in [Runs -> 0..Crashed] /\ emitted \in [Runs -> Bundles \cup {NoFile, Torn}]
      /\ disk["bundle"] \in Bundles \cup {NoFile, Torn}
  BY DEF IInv, TypeOK
<1>3. pc[run] = 16 /\ pc[run] \in 1..16
  BY <1>1, <1>2, WhichStep DEF Files
<1>4. ~temp[run]
  BY <1>3, TempMeaning DEF IInv
<1>5. /\ schedule' \in Schedules
      /\ pc' \in [Runs -> 0..Crashed]
      /\ pc'[run] = pc[run] + 1
      /\ temp' \in [Runs -> BOOLEAN]
      /\ (\A other \in Runs : temp[other] => Working(other) /\ Steps[pc[other]][1] = "write")'
      /\ TurnsPart'
      /\ Own(run)' => OwnPart'
  BY <1>1, <1>3, <1>4, AdvanceFrame
<1>6. emitted' \in [Runs -> Bundles \cup {NoFile, Torn}]
  BY <1>1, <1>2
<1>7. TypeOK'
  BY <1>1, <1>5, <1>6 DEF IInv, TypeOK
<1>8. WholePart'
  BY <1>1 DEF IInv, WholePart, NoFileIsTorn
<1>9. OwnPart'
  <2>1. CASE schedule.overlapping
    BY <2>1, <1>1 DEF OwnPart
  <2>2. CASE ~schedule.overlapping
    <3>1. Own(run)
      BY <2>2, <1>3, AloneIsOwn
    <3>2. Own(run)'
      BY <1>1, <1>3, <1>5, <3>1 DEF Own, OwnManifest
    <3> QED BY <3>2, <1>5
  <2> QED BY <2>1, <2>2
<1> QED BY <1>5, <1>7, <1>8, <1>9 DEF IInv

\* A run that fails or is killed leaves the directory as it is.
LEMMA EndIInv ==
  ASSUME IInv, NEW run \in Runs, Fail(run) \/ Crash(run)
  PROVE  IInv'
<1>1. PICK step \in {Failed, Crashed} :
        /\ Working(run) /\ pc' = [pc EXCEPT ![run] = step]
        /\ temp' = [temp EXCEPT ![run] = FALSE]
        /\ schedule' = schedule
        /\ UNCHANGED <<disk, seen, packed, digest, emitted>>
  BY DEF Fail, Crash, locals
<1>2. pc \in [Runs -> 0..Crashed] /\ pc[run] \in 1..16
  BY <1>1, WorkingMeaning DEF IInv, TypeOK
<1>3. step \in 1..Crashed /\ step > 16
  BY StepTable
<1>4. /\ schedule' \in Schedules
      /\ pc' \in [Runs -> 0..Crashed]
      /\ pc'[run] = step
      /\ temp' \in [Runs -> BOOLEAN]
      /\ (\A other \in Runs : temp[other] => Working(other) /\ Steps[pc[other]][1] = "write")'
      /\ TurnsPart'
  BY <1>1, <1>3, StepFrame
<1>5. litter' \subseteq Runs \X Files
  <2>1. Steps[pc[run]][2] \in Files
    <3>1. \/ pc[run] = 1 \/ pc[run] = 2 \/ pc[run] = 3 \/ pc[run] = 4
          \/ pc[run] = 5 \/ pc[run] = 6 \/ pc[run] = 7 \/ pc[run] = 8
          \/ pc[run] = 9 \/ pc[run] = 10 \/ pc[run] = 11 \/ pc[run] = 12
          \/ pc[run] = 13 \/ pc[run] = 14 \/ pc[run] = 15 \/ pc[run] = 16
      BY <1>2
    <3> QED BY <3>1, StepTable DEF Files, Members, Reports
  <2>2. litter \subseteq Runs \X Files
    BY DEF IInv, TypeOK
  <2>3. litter' = litter \/ litter' = litter \cup {<<run, Steps[pc[run]][2]>>}
    BY DEF Fail, Crash
  <2> QED BY <2>1, <2>2, <2>3
<1>6. TypeOK'
  BY <1>1, <1>4, <1>5 DEF IInv, TypeOK
<1>7. WholePart'
  BY <1>1 DEF IInv, WholePart, NoFileIsTorn
<1>8. ~Working(run)'
  BY <1>3, <1>4, StepTable DEF Working
<1>9. OwnPart'
  <2> SUFFICES ASSUME ~schedule.overlapping, NEW other \in Runs, Working(other)'
               PROVE  Own(other)'
    BY <1>1 DEF OwnPart
  <2>1. other # run /\ pc'[other] = pc[other]
    BY <1>1, <1>2, <1>8
  <2>2. Working(other)
    BY <2>1 DEF Working
  <2> QED BY <1>1, <2>1, <2>2 DEF IInv, TurnsPart
<1> QED BY <1>4, <1>6, <1>7, <1>9 DEF IInv

\* Every step preserves the inductive invariant.
LEMMA NextIInv ==
  ASSUME IInv, [Next]_vars
  PROVE  IInv'
<1>1. ASSUME NEW run \in Runs, Start(run) PROVE IInv'
  BY <1>1, StartIInv
<1>2. ASSUME NEW run \in Runs, Digest(run) PROVE IInv'
  BY <1>2, DigestIInv
<1>3. ASSUME NEW run \in Runs, Verify(run) PROVE IInv'
  BY <1>3, VerifyIInv
<1>4. ASSUME NEW run \in Runs, Confirm(run) PROVE IInv'
  BY <1>4, ConfirmIInv
<1>5. ASSUME NEW run \in Runs, Fail(run) \/ Crash(run) PROVE IInv'
  BY <1>5, EndIInv
<1>6. ASSUME NEW run \in Runs, NEW file \in Files, BeginWrite(run, file) PROVE IInv'
  BY <1>6, BeginWriteIInv
<1>7. ASSUME NEW run \in Runs, NEW file \in Files, Install(run, file) PROVE IInv'
  BY <1>7, InstallIInv
<1>8. ASSUME NEW run \in Runs, NEW file \in Files, Collect(run, file) PROVE IInv'
  BY <1>8, CollectIInv
<1>9. ASSUME NEW run \in Runs, NEW file \in Files, Pack(run, file) PROVE IInv'
  BY <1>9, PackIInv
<1>10. CASE UNCHANGED vars
  <2>1. UNCHANGED <<schedule, disk, litter, pc, temp, seen, packed, digest, emitted>>
    BY <1>10 DEF vars, locals
  <2>2. TypeOK'
    BY <2>1 DEF IInv, TypeOK, Working
  <2>3. WholePart'
    BY <2>1 DEF IInv, WholePart, NoFileIsTorn
  <2>4. TurnsPart'
    BY <2>1 DEF IInv, TurnsPart, Working
  <2>5. OwnPart'
    BY <2>1 DEF IInv, OwnPart, Own, Working
  <2> QED BY <2>2, <2>3, <2>4, <2>5 DEF IInv
<1> QED BY <1>1, <1>2, <1>3, <1>4, <1>5, <1>6, <1>7, <1>8, <1>9, <1>10 DEF Next

-----------------------------------------------------------------------------
(* Theorems                                                                 *)

\* The inductive invariant holds in every reachable state of any number of
\* runs, one after the other or at the same time (reporting.py, passport.py,
\* safeio.py, action_entry.py).
THEOREM StoreInvariant == Spec => []IInv
<1>1. Init => IInv
  BY InitIInv
<1>2. IInv /\ [Next]_vars => IInv'
  BY NextIInv
<1> QED BY <1>1, <1>2, PTL DEF Spec

\* Files, archives and digests are values the program can store, and a run that
\* has ended owns no temporary file (safeio.py atomic_write_bytes).
THEOREM StoreTypes == Spec => []TypeOK
<1>1. IInv => TypeOK
  BY DEF IInv
<1> QED BY <1>1, StoreInvariant, PTL

\* No reader finds half a file under one of the six names (safeio.py, the
\* rename of a flushed temporary file).
THEOREM WholeFilesTheorem == Spec => []NoFileIsTorn
<1>1. IInv => NoFileIsTorn
  BY DEF IInv, WholePart
<1> QED BY <1>1, StoreInvariant, PTL

\* A run's own bundle, as the reader of the directory sees it.
LEMMA OwnBundle ==
  ASSUME NEW run \in Runs, NEW bundle \in Bundles,
         \A file \in Reports : bundle[file] = run, bundle["passport"] = OwnManifest(run)
  PROVE  PublishedBy(bundle) = run
<1>1. bundle # NoFile /\ bundle # Torn
  BY StoreAssumption
<1>2. OneRun(bundle)
  BY DEF OneRun, OwnManifest
<1>3. bundle["json"] = run
  BY DEF Reports
<1> QED BY <1>1, <1>2, <1>3 DEF PublishedBy

\* The verifier accepts a run's own bundle, but for the size of the manifest.
LEMMA OwnBundleAccepted ==
  ASSUME NEW run \in Runs, NEW bundle \in Bundles,
         \A file \in Reports : bundle[file] = run /\ SizeOf[run][file] <= MemberLimit,
         bundle["passport"] = OwnManifest(run)
  PROVE  Accepts(bundle) = ~Overfull([file \in Reports |-> run])
<1>1. bundle \notin {NoFile, Torn}
  BY StoreAssumption
<1>2. OwnManifest(run) \in Manifests
  BY DEF OwnManifest, Manifests
<1>3. bundle["passport"] \notin {NoFile, Torn}
  BY <1>2, StoreAssumption
<1>4. \A file \in Reports : SizeIn(file, bundle[file]) <= MemberLimit
  BY DEF SizeIn
<1>5. \A file \in Reports : bundle["passport"].digests[file] = bundle[file]
  BY DEF OwnManifest
<1>6. Overfull(bundle) = Overfull([file \in Reports |-> run])
  <2>1. /\ bundle["json"] = run /\ bundle["markdown"] = run /\ bundle["sarif"] = run
        /\ "json" \in Reports /\ "markdown" \in Reports /\ "sarif" \in Reports
    BY DEF Reports
  <2>2. TotalSize(bundle) = TotalSize([file \in Reports |-> run])
    BY <2>1 DEF TotalSize
  <2> QED BY <2>2 DEF Overfull
<1> QED BY <1>1, <1>3, <1>4, <1>5, <1>6 DEF Accepts

\* When the engine returns to a caller that runs alone, the directory holds this
\* run's own bundle with its digest, whatever earlier runs left there, and only
\* the size of the manifest can make the verifier refuse it (engine.py, from
\* the reports to the result; passport.py create and verify).
THEOREM OwnEvidenceTheorem == Spec => []ReturnedEvidenceIsOwn
<1>1. ASSUME IInv PROVE ReturnedEvidenceIsOwn
  <2> SUFFICES ASSUME NEW run \in Runs, ~schedule.overlapping, At(run, "verify", "bundle")
               PROVE  /\ PublishedBy(disk["bundle"]) = run
                      /\ Accepts(disk["bundle"]) = ~Overfull([file \in Reports |-> run])
                      /\ disk["sidecar"] = disk["bundle"] /\ digest[run] = disk["bundle"]
    BY DEF ReturnedEvidenceIsOwn
  <2>0. pc \in [Runs -> 0..Crashed] /\ "bundle" \in Files
    BY <1>1 DEF Files, IInv, TypeOK
  <2>1. pc[run] = 15 /\ pc[run] \in 1..16
    BY <2>0, WhichStep
  <2>2. Own(run)
    BY <1>1, <2>1, AloneIsOwn
  <2>3. /\ packed[run] \in Bundles /\ disk["bundle"] = packed[run]
        /\ disk["sidecar"] = disk["bundle"] /\ digest[run] = disk["bundle"]
    BY <1>1, <2>1, <2>2 DEF Own, IInv, TypeOK
  <2>4. \A file \in Reports : packed[run][file] = run /\ SizeOf[run][file] <= MemberLimit
    BY <2>1, <2>2 DEF Own, Reports
  <2>5. packed[run]["passport"] = OwnManifest(run)
    BY <2>1, <2>2 DEF Own
  <2>6. PublishedBy(packed[run]) = run
    BY <2>3, <2>4, <2>5, OwnBundle
  <2>7. Accepts(packed[run]) = ~Overfull([file \in Reports |-> run])
    BY <2>3, <2>4, <2>5, OwnBundleAccepted
  <2> QED BY <2>3, <2>6, <2>7
<1>2. IInv => ReturnedEvidenceIsOwn
  BY <1>1
<1> QED BY <1>2, StoreInvariant, PTL

\* Whatever is in place, the reader sees one run's bundle, none or a mixture.
LEMMA PublishedTyped ==
  ASSUME NEW bundle \in Bundles
  PROVE  \/ PublishedBy(bundle) \in Runs /\ OneRun(bundle)
         \/ PublishedBy(bundle) = Torn /\ ~OneRun(bundle)
<1>1. bundle # NoFile /\ bundle # Torn
  BY StoreAssumption
<1>2. CASE OneRun(bundle)
  BY <1>1, <1>2 DEF OneRun, PublishedBy, Reports
<1>3. CASE ~OneRun(bundle)
  BY <1>1, <1>3 DEF PublishedBy
<1> QED BY <1>2, <1>3

\* Only the rename of a bundle is a step of the register.
LEMMA RegisterStep ==
  ASSUME IInv, [Next]_vars
  PROVE  [Register!Next]_<<PublishedBy(disk["bundle"]), schedule.overlapping>>
<1>1. CASE disk'["bundle"] = disk["bundle"] /\ schedule' = schedule
  BY <1>1 DEF PublishedBy, OneRun
<1>2. ASSUME NEW run \in Runs, Install(run, "bundle")
      PROVE  [Register!Next]_<<PublishedBy(disk["bundle"]), schedule.overlapping>>
  <2>1. /\ At(run, "write", "bundle") /\ schedule' = schedule
        /\ disk'["bundle"] = packed[run] /\ packed[run] \in Bundles
    BY <1>2, ContentTyped DEF Install, IInv, TypeOK, Files
  <2>2. PublishedBy(disk["bundle"])' = PublishedBy(packed[run])
    BY <2>1 DEF PublishedBy, OneRun
  <2>3. CASE PublishedBy(packed[run]) \in Runs
    <3>1. CASE PublishedBy(disk["bundle"]) = PublishedBy(packed[run])
      BY <3>1, <2>1, <2>2
    <3>2. CASE PublishedBy(disk["bundle"]) # PublishedBy(packed[run])
      BY <3>2, <2>1, <2>2, <2>3 DEF Register!Next, Register!Publish
    <3> QED BY <3>1, <3>2
  <2>4. CASE PublishedBy(packed[run]) = Torn /\ ~OneRun(packed[run])
    <3>1. schedule.overlapping
      <4> SUFFICES ASSUME ~schedule.overlapping PROVE FALSE
        OBVIOUS
      <4>1. pc[run] = 12 /\ pc[run] \in 1..16
        BY <2>1, WhichStep DEF Files, IInv, TypeOK
      <4>2. Own(run)
        BY <4>1, AloneIsOwn
      <4>3. \A file \in Reports : packed[run][file] = run
        BY <4>1, <4>2 DEF Own, Reports
      <4>4. packed[run]["passport"] = OwnManifest(run)
        BY <4>1, <4>2 DEF Own
      <4> QED BY <2>4, <4>3, <4>4 DEF OneRun, OwnManifest
    <3> QED BY <3>1, <2>1, <2>2, <2>4 DEF Register!Next, Register!Mix
  <2> QED BY <2>1, <2>3, <2>4, PublishedTyped
<1>3. ASSUME NEW run \in Runs, NEW file \in Files, Install(run, file), file # "bundle"
      PROVE  disk'["bundle"] = disk["bundle"] /\ schedule' = schedule
  BY <1>3 DEF Install, IInv, TypeOK, Files
<1>4. ASSUME NEW run \in Runs, NEW file \in Files,
             BeginWrite(run, file) \/ Collect(run, file) \/ Pack(run, file)
      PROVE  disk' = disk /\ schedule' = schedule
  BY <1>4 DEF BeginWrite, Collect, Pack
<1>5. ASSUME NEW run \in Runs,
             \/ Start(run) \/ Digest(run) \/ Verify(run) \/ Confirm(run)
             \/ Fail(run) \/ Crash(run)
      PROVE  disk' = disk /\ schedule' = schedule
  BY <1>5 DEF Start, Digest, Verify, Confirm, Fail, Crash
<1>6. CASE UNCHANGED vars
  BY <1>1, <1>6 DEF vars
<1>7. CASE Next
  BY <1>1, <1>2, <1>3, <1>4, <1>5, <1>7 DEF Next
<1> QED BY <1>6, <1>7

\* The evidence directory implements the register: the bundle is replaced in
\* one step by the complete bundle of one run, unless runs overlap (passport.py
\* create_passport_bundle over safeio.py, against EvidenceRegister).
THEOREM RegisterRefined == Spec => KeepsRegister
<1>1. Init => Register!Init
  <2> SUFFICES ASSUME Init PROVE Register!Init
    OBVIOUS
  <2>1. disk["bundle"] = NoFile
    BY DEF Init, Files
  <2>2. schedule.overlapping \in BOOLEAN
    BY StoreAssumption DEF Init
  <2> QED BY <2>1, <2>2 DEF Register!Init, PublishedBy
<1>2. IInv /\ [Next]_vars
        => [Register!Next]_<<PublishedBy(disk["bundle"]), schedule.overlapping>>
  BY RegisterStep
<1> QED BY <1>1, <1>2, StoreInvariant, PTL DEF Spec, KeepsRegister, Register!Spec

-----------------------------------------------------------------------------
(* Two runs at the same time                                                *)

\* Runs that overlap are at most two.  Three can make a run emit what it never
\* had verified: one installs bundle X and takes its digest, the second puts Y
\* in its place, Y is verified, and the third, which packed the same members as
\* the first, installs X again just before the first confirms.
AtMostTwo ==
  \A plan \in Schedules : plan.overlapping => \E one, two \in Runs : plan.runs \subseteq {one, two}

\* No other run will touch the bundle any more.
OthersSettled(run) == \A other \in Runs : other \in schedule.runs /\ other # run => pc[other] > 12

\* Before the check the digest is still that of the bundle in place, or nothing
\* will replace the bundle any more; after it the verifier has accepted the
\* bundle of the digest, or the one that stays.
CheckedPart ==
  /\ \A run \in Runs : pc[run] # Waiting => run \in schedule.runs
  /\ \A run \in Runs : pc[run] \in {14, 15} => disk["bundle"] = digest[run] \/ OthersSettled(run)
  /\ \A run \in Runs : pc[run] = 16 =>
       \/ <<run, digest[run]>> \in accepted
       \/ OthersSettled(run) /\ <<run, disk["bundle"]>> \in accepted

EmitInv == EmittedIsVerified /\ CheckedPart

\* Steps that neither replace the bundle nor take or check its digest.
LEMMA EmitFrame ==
  ASSUME EmitInv, schedule' = schedule, disk'["bundle"] = disk["bundle"],
         UNCHANGED <<digest, accepted, emitted>>,
         \A run \in Runs : /\ pc'[run] \in {14, 15} => pc[run] \in {14, 15}
                           /\ pc'[run] = 16 => pc[run] = 16
                           /\ pc[run] > 12 => pc'[run] > 12
                           /\ pc'[run] # Waiting => run \in schedule.runs
  PROVE  EmitInv'
<1>1. EmittedIsVerified'
  BY DEF EmitInv, EmittedIsVerified
<1>2. ASSUME NEW run \in Runs, OthersSettled(run) PROVE OthersSettled(run)'
  BY <1>2 DEF OthersSettled
<1>3. CheckedPart'
  BY <1>2 DEF EmitInv, CheckedPart
<1> QED BY <1>1, <1>3 DEF EmitInv

\* Two runs: the one replaces the bundle after the other took its digest, and
\* then nobody replaces it again.
LEMMA EmitInstall ==
  ASSUME AtMostTwo, IInv, EmitInv, NEW run \in Runs, Install(run, "bundle")
  PROVE  EmitInv'
<1>1. /\ At(run, "write", "bundle") /\ pc' = [pc EXCEPT ![run] = @ + 1]
      /\ schedule' = schedule /\ UNCHANGED <<digest, accepted, emitted>>
  BY DEF Install, Advance, locals
<1>2. pc \in [Runs -> 0..Crashed] /\ "bundle" \in Files /\ schedule \in Schedules
  BY DEF IInv, TypeOK, Files
<1>3. pc[run] = 12 /\ pc'[run] = 13 /\ run \in schedule.runs
  BY <1>1, <1>2, WhichStep DEF EmitInv, CheckedPart, Waiting
<1>4. \A other \in Runs : other # run => pc'[other] = pc[other]
  BY <1>1, <1>2
<1>5. ASSUME NEW other \in Runs, other # run, pc[other] \in {14, 15, 16}
      PROVE  OthersSettled(other)'
  <2>1. schedule.overlapping
    <3>1. Working(run) /\ Working(other)
      BY <1>2, <1>3, <1>5, WorkingMeaning
    <3> QED BY <1>5, <3>1 DEF IInv, TurnsPart
  <2>2. other \in schedule.runs
    BY <1>5 DEF EmitInv, CheckedPart, Waiting
  <2>3. PICK one, two \in Runs : schedule.runs \subseteq {one, two}
    BY <1>2, <2>1 DEF AtMostTwo
  <2>4. \A third \in schedule.runs : third = run \/ third = other
    BY <1>3, <1>5, <2>2, <2>3
  <2> QED BY <1>1, <1>3, <2>4 DEF OthersSettled
<1>6. EmittedIsVerified'
  BY <1>1 DEF EmitInv, EmittedIsVerified
<1>7. ASSUME NEW other \in Runs, pc'[other] = 16
      PROVE  <<other, digest[other]>> \in accepted
  <2>1. other # run /\ pc[other] = 16
    BY <1>3, <1>4, <1>7
  <2>2. ~OthersSettled(other)
    BY <1>3, <2>1 DEF OthersSettled
  <2> QED BY <2>1, <2>2 DEF EmitInv, CheckedPart
<1>8. ASSUME NEW other \in Runs, pc'[other] \in {14, 15} PROVE OthersSettled(other)'
  BY <1>3, <1>4, <1>5, <1>8
<1>9. \A other \in Runs : pc'[other] # Waiting => other \in schedule'.runs
  BY <1>1, <1>3, <1>4 DEF EmitInv, CheckedPart
<1> QED BY <1>1, <1>6, <1>7, <1>8, <1>9 DEF EmitInv, CheckedPart

LEMMA EmitNext ==
  ASSUME AtMostTwo, IInv, EmitInv, [Next]_vars
  PROVE  EmitInv'
<1>1. pc \in [Runs -> 0..Crashed] /\ Waiting = 0 /\ "bundle" \in Files
  BY DEF IInv, TypeOK, Files, Waiting
<1>2. ASSUME NEW run \in Runs, Start(run) PROVE EmitInv'
  <2>1. /\ pc[run] = 0 /\ pc' = [pc EXCEPT ![run] = 1] /\ run \in schedule.runs
        /\ schedule' = schedule /\ disk' = disk /\ UNCHANGED <<digest, accepted, emitted>>
    BY <1>1, <1>2 DEF Start, Advance, locals
  <2>2. \A other \in Runs : other # run => pc'[other] = pc[other]
    BY <1>1, <2>1
  <2>3. pc'[run] = 1
    BY <1>1, <2>1
  <2> QED BY <2>1, <2>2, <2>3, EmitFrame DEF EmitInv, CheckedPart
<1>3. ASSUME NEW run \in Runs, Fail(run) \/ Crash(run) PROVE EmitInv'
  <2>1. PICK step \in {Failed, Crashed} :
          /\ Working(run) /\ pc' = [pc EXCEPT ![run] = step]
          /\ schedule' = schedule /\ disk' = disk /\ UNCHANGED <<digest, accepted, emitted>>
    BY <1>3 DEF Fail, Crash, locals
  <2>2. \A other \in Runs : other # run => pc'[other] = pc[other]
    BY <1>1, <2>1
  <2>3. pc'[run] \in {18, 19} /\ pc[run] # Waiting
    BY <1>1, <2>1, StepTable, WorkingMeaning
  <2> QED BY <2>1, <2>2, <2>3, EmitFrame DEF EmitInv, CheckedPart
<1>4. ASSUME NEW run \in Runs, NEW file \in Files, BeginWrite(run, file) PROVE EmitInv'
  <2>1. /\ pc' = pc /\ schedule' = schedule /\ disk' = disk
        /\ UNCHANGED <<digest, accepted, emitted>>
    BY <1>4 DEF BeginWrite, locals
  <2> QED BY <2>1, EmitFrame DEF EmitInv, CheckedPart
<1>5. ASSUME NEW run \in Runs, NEW file \in Files, Install(run, file), file # "bundle"
      PROVE  EmitInv'
  <2>1. /\ At(run, "write", file) /\ pc' = [pc EXCEPT ![run] = @ + 1]
        /\ schedule' = schedule /\ disk' = [disk EXCEPT ![file] = ContentOf(run, file)]
        /\ UNCHANGED <<digest, accepted, emitted>>
    BY <1>5 DEF Install, Advance, locals
  <2>2. \A other \in Runs : other # run => pc'[other] = pc[other]
    BY <1>1, <2>1
  <2>3. pc[run] \in {1, 2, 3, 7, 14} /\ pc'[run] = pc[run] + 1
    BY <1>1, <1>5, <2>1, WhichStep
  <2>4. disk'["bundle"] = disk["bundle"]
    BY <1>1, <1>5, <2>1
  <2> QED BY <1>1, <2>1, <2>2, <2>3, <2>4, EmitFrame DEF EmitInv, CheckedPart
<1>6. ASSUME NEW run \in Runs, NEW file \in Files, Collect(run, file) \/ Pack(run, file)
      PROVE  EmitInv'
  <2>1. /\ At(run, "collect", file) \/ At(run, "pack", file)
        /\ pc' = [pc EXCEPT ![run] = @ + 1]
        /\ schedule' = schedule /\ disk' = disk /\ UNCHANGED <<digest, accepted, emitted>>
    BY <1>6 DEF Collect, Pack, Advance
  <2>2. \A other \in Runs : other # run => pc'[other] = pc[other]
    BY <1>1, <2>1
  <2>3. pc[run] \in {4, 5, 6, 8, 9, 10, 11} /\ pc'[run] = pc[run] + 1
    BY <1>1, <2>1, WhichStep
  <2> QED BY <1>1, <2>1, <2>2, <2>3, EmitFrame DEF EmitInv, CheckedPart
<1>7. ASSUME NEW run \in Runs, Digest(run) PROVE EmitInv'
  <2>1. /\ At(run, "digest", "bundle") /\ pc' = [pc EXCEPT ![run] = @ + 1]
        /\ digest' = [digest EXCEPT ![run] = disk["bundle"]]
        /\ schedule' = schedule /\ disk' = disk /\ UNCHANGED <<accepted, emitted>>
    BY <1>7 DEF Digest, Advance
  <2>2. pc[run] = 13 /\ pc'[run] = 14 /\ digest'[run] = disk["bundle"]
    BY <1>1, <2>1, WhichStep DEF IInv, TypeOK
  <2>3. \A other \in Runs : other # run => pc'[other] = pc[other] /\ digest'[other] = digest[other]
    BY <1>1, <2>1 DEF IInv, TypeOK
  <2>4. ASSUME NEW other \in Runs, OthersSettled(other) PROVE OthersSettled(other)'
    BY <2>1, <2>2, <2>3, <2>4 DEF OthersSettled
  <2>5. EmittedIsVerified'
    BY <2>1 DEF EmitInv, EmittedIsVerified
  <2> QED BY <1>1, <2>1, <2>2, <2>3, <2>4, <2>5 DEF EmitInv, CheckedPart
<1>8. ASSUME NEW run \in Runs, Verify(run) PROVE EmitInv'
  <2>1. /\ At(run, "verify", "bundle") /\ pc' = [pc EXCEPT ![run] = @ + 1]
        /\ accepted' = accepted \cup {<<run, disk["bundle"]>>}
        /\ schedule' = schedule /\ disk' = disk /\ UNCHANGED <<digest, emitted>>
    BY <1>8 DEF Verify, Advance, locals
  <2>2. pc[run] = 15 /\ pc'[run] = 16
    BY <1>1, <2>1, WhichStep
  <2>3. \A other \in Runs : other # run => pc'[other] = pc[other]
    BY <1>1, <2>1
  <2>4. ASSUME NEW other \in Runs, OthersSettled(other) PROVE OthersSettled(other)'
    BY <2>1, <2>2, <2>3, <2>4 DEF OthersSettled
  <2>5. EmittedIsVerified'
    BY <2>1 DEF EmitInv, EmittedIsVerified
  <2> QED BY <1>1, <2>1, <2>2, <2>3, <2>4, <2>5 DEF EmitInv, CheckedPart
<1>9. ASSUME NEW run \in Runs, Confirm(run) PROVE EmitInv'
  <2>1. /\ At(run, "confirm", "bundle") /\ pc' = [pc EXCEPT ![run] = @ + 1]
        /\ disk["bundle"] = digest[run]
        /\ emitted' = [emitted EXCEPT ![run] = disk["bundle"]]
        /\ schedule' = schedule /\ disk' = disk /\ UNCHANGED <<digest, accepted>>
    BY <1>9 DEF Confirm, DigestUnchanged, Advance, locals
  <2>2. pc[run] = 16 /\ pc'[run] = 17
    BY <1>1, <2>1, WhichStep
  <2>3. \A other \in Runs : other # run => pc'[other] = pc[other]
    BY <1>1, <2>1
  <2>4. ASSUME NEW other \in Runs, OthersSettled(other) PROVE OthersSettled(other)'
    BY <2>1, <2>2, <2>3, <2>4 DEF OthersSettled
  <2>5. <<run, disk["bundle"]>> \in accepted
    BY <2>1, <2>2 DEF EmitInv, CheckedPart
  <2>6. EmittedIsVerified'
    BY <2>1, <2>5 DEF EmitInv, EmittedIsVerified, IInv, TypeOK
  <2> QED BY <1>1, <2>1, <2>2, <2>3, <2>4, <2>6 DEF EmitInv, CheckedPart
<1>10. CASE UNCHANGED vars
  <2>1. UNCHANGED <<schedule, disk, pc, digest, accepted, emitted>>
    BY <1>10 DEF vars, locals
  <2> QED BY <2>1, EmitFrame DEF EmitInv, CheckedPart
<1> QED BY <1>2, <1>3, <1>4, <1>5, <1>6, <1>7, <1>8, <1>9, <1>10, EmitInstall DEF Next

\* With at most two runs at once, a digest the action emits is that of a bundle
\* the verifier accepted in this very run (action_entry.py, the verification of
\* the bundle and the second look at its digest).
THEOREM EmittedTheorem ==
  ASSUME AtMostTwo
  PROVE  Spec => []EmittedIsVerified
<1>1. Init => EmitInv
  BY DEF Init, EmitInv, EmittedIsVerified, CheckedPart, Waiting
<1>2. IInv /\ EmitInv /\ [Next]_vars => EmitInv'
  BY EmitNext
<1>3. EmitInv => EmittedIsVerified
  BY DEF EmitInv
<1> QED BY <1>1, <1>2, <1>3, StoreInvariant, PTL DEF Spec

=============================================================================
