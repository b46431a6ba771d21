--------------------------- MODULE EvidenceStore ---------------------------
(***************************************************************************)
(* The evidence directory: how verification runs write their reports,      *)
(* manifest, bundle and sidecar into it (reporting.py, passport.py,        *)
(* safeio.py), and how the action entry point checks the bundle before it  *)
(* emits its digest (scripts/action_entry.py).                             *)
(*                                                                         *)
(* Every file is written to a temporary file first and then renamed over   *)
(* its name.  A run reads files back by name: the reports for the digests  *)
(* of the manifest, all four members for the archive, the bundle for its   *)
(* digest.  A step of a run may fail (it removes its temporary file) or    *)
(* be the run's last (a crash: the temporary file stays).                  *)
(*                                                                         *)
(* A report is the run that wrote it, a digest is the digested content,    *)
(* and the identity of a manifest is the run it was made for.  Sizes count *)
(* in a unit of which the limits of passport.py are small multiples.       *)
(***************************************************************************)
EXTENDS Naturals, Sequences, FiniteSets, SequencesExt

CONSTANTS
  Runs,         \* verification runs with this output directory
  OutcomeOf,    \* [Runs -> outcomes]
  SizeOf,       \* [Runs -> [Reports -> Nat]]
  ManifestSize, MemberLimit, TotalLimit,
  Schedules,    \* which runs there are, and whether two may overlap
  NoFile, Torn

Reports == {"json", "markdown", "sarif"}
Members == Reports \cup {"passport"}
Files   == Members \cup {"bundle", "sidecar"}

\* What the manifest and the archive can hold.
Manifests == [identity : Runs, digests : [Reports -> Runs \cup {NoFile, Torn}]]
Bundles   == [Members -> Runs \cup Manifests \cup {NoFile, Torn}]

ASSUME StoreAssumption ==
  /\ \A mark \in {NoFile, Torn} : mark \notin Runs \cup Manifests \cup Bundles
  /\ NoFile # Torn
  /\ OutcomeOf \in [Runs -> {"pass", "needs_review", "fail"}]
  /\ SizeOf \in [Runs -> [Reports -> Nat]]
  /\ ManifestSize \in 1..MemberLimit
  /\ {MemberLimit, TotalLimit} \subseteq Nat
  /\ Schedules \subseteq [runs : SUBSET Runs, overlapping : BOOLEAN]

VARIABLES
  schedule,
  disk,     \* [Files -> content, NoFile or Torn (half written)]
  litter,   \* temporary files nobody will remove: <<run, file>>
  pc,       \* [Runs -> next step]
  temp,     \* [Runs -> BOOLEAN], the run has a temporary file
  seen,     \* [Runs -> [Reports -> content]], digests for the manifest
  packed,   \* [Runs -> [Members -> content]], the archive
  digest,   \* [Runs -> content of the bundle the run takes for its own]
  accepted, \* bundles the verifier accepted: <<run that asked, bundle>>
  emitted   \* [Runs -> bundle whose digest the action emitted, or NoFile]

locals == <<seen, packed, digest>>
vars   == <<schedule, disk, litter, pc, temp, locals, accepted, emitted>>

\* Mutant: the manifest in place, of an earlier run, goes into the archive.
StepsWithStaleManifest ==
  << <<"write", "json">>, <<"write", "markdown">>, <<"write", "sarif">>,
     <<"collect", "json">>, <<"collect", "markdown">>, <<"collect", "sarif">>,
     <<"pack", "passport">>, <<"write", "passport">>,
     <<"pack", "json">>, <<"pack", "markdown">>, <<"pack", "sarif">>,
     <<"write", "bundle">>, <<"digest", "bundle">>, <<"write", "sidecar">>,
     <<"verify", "bundle">>, <<"confirm", "bundle">> >>

\* Mutant: the digest is taken before the bundle is in place.
StepsWithEarlyDigest ==
  << <<"write", "json">>, <<"write", "markdown">>, <<"write", "sarif">>,
     <<"collect", "json">>, <<"collect", "markdown">>, <<"collect", "sarif">>,
     <<"write", "passport">>,
     <<"pack", "passport">>, <<"pack", "json">>, <<"pack", "markdown">>, <<"pack", "sarif">>,
     <<"digest", "bundle">>, <<"write", "bundle">>, <<"write", "sidecar">>,
     <<"verify", "bundle">>, <<"confirm", "bundle">> >>

\* The steps of a run, in the order of the code.
Steps ==
  << <<"write", "json">>, <<"write", "markdown">>, <<"write", "sarif">>,
     <<"collect", "json">>, <<"collect", "markdown">>, <<"collect", "sarif">>,
     <<"write", "passport">>,
     <<"pack", "passport">>, <<"pack", "json">>, <<"pack", "markdown">>, <<"pack", "sarif">>,
     <<"write", "bundle">>, <<"digest", "bundle">>, <<"write", "sidecar">>,
     <<"verify", "bundle">>, <<"confirm", "bundle">> >>

\* A run is waiting, at step pc[run] of Steps, or at one of these ends.
Waiting == 0
Done    == Len(Steps) + 1
Failed  == Len(Steps) + 2
Crashed == Len(Steps) + 3

Working(run)    == pc[run] \in DOMAIN Steps
At(run, action, file) == Working(run) /\ Steps[pc[run]] = <<action, file>>
Advance(run)    == pc' = [pc EXCEPT ![run] = @ + 1]

Init ==
  /\ schedule \in Schedules
  /\ disk = [file \in Files |-> NoFile]
  /\ litter = {}
  /\ pc = [run \in Runs |-> Waiting]
  /\ temp = [run \in Runs |-> FALSE]
  /\ seen = [run \in Runs |-> [file \in Reports |-> NoFile]]
  /\ packed = [run \in Runs |-> [file \in Members |-> NoFile]]
  /\ digest = [run \in Runs |-> NoFile]
  /\ accepted = {}
  /\ emitted = [run \in Runs |-> NoFile]

-----------------------------------------------------------------------------
(* A run                                                                   *)

Start(run) ==
  /\ pc[run] = Waiting
  /\ run \in schedule.runs
  /\ schedule.overlapping \/ \A other \in Runs : ~Working(other)
  /\ Advance(run)
  /\ UNCHANGED <<schedule, disk, litter, temp, locals, accepted, emitted>>

\* What a run writes under each name.
ContentOf(run, file) ==
  CASE file \in Reports   -> run
    [] file = "passport"  -> [identity |-> run, digests |-> seen[run]]
    [] file = "bundle"    -> packed[run]
    [] file = "sidecar"   -> digest[run]

\* Mutant: the file is opened under its own name and filled in place.
BeginInPlace(run, file) ==
  /\ At(run, "write", file)
  /\ ~temp[run]
  /\ temp' = [temp EXCEPT ![run] = TRUE]
  /\ disk' = [disk EXCEPT ![file] = Torn]
  /\ UNCHANGED <<schedule, litter, pc, locals, accepted, emitted>>

\* A temporary file is created next to the target and filled.
BeginWrite(run, file) ==
  /\ At(run, "write", file)
  /\ ~temp[run]
  /\ temp' = [temp EXCEPT ![run] = TRUE]
  /\ UNCHANGED <<schedule, disk, litter, pc, locals, accepted, emitted>>

\* The temporary file, flushed to the disk, replaces the target.
Install(run, file) ==
  /\ At(run, "write", file)
  /\ temp[run]
  /\ temp' = [temp EXCEPT ![run] = FALSE]
  /\ disk' = [disk EXCEPT ![file] = ContentOf(run, file)]
  /\ Advance(run)
  /\ UNCHANGED <<schedule, litter, locals, accepted, emitted>>

SizeIn(file, content) == IF content \in Runs THEN SizeOf[content][file] ELSE 0

\* The sizes of the reports, given by a function to the runs that wrote them.
TotalSize(reports) ==
  SizeIn("json", reports["json"]) + SizeIn("markdown", reports["markdown"])
    + SizeIn("sarif", reports["sarif"])

\* A report is read back for its digest and size, if it is not too large and,
\* for the last one, all are not.
Collect(run, file) ==
  /\ At(run, "collect", file)
  /\ SizeIn(file, disk[file]) <= MemberLimit
  /\ file = "sarif" => TotalSize([seen[run] EXCEPT !["sarif"] = disk["sarif"]]) <= TotalLimit
  /\ seen' = [seen EXCEPT ![run][file] = disk[file]]
  /\ Advance(run)
  /\ UNCHANGED <<schedule, disk, litter, temp, packed, digest, accepted, emitted>>

\* A member is read back for the archive.
Pack(run, file) ==
  /\ At(run, "pack", file)
  /\ packed' = [packed EXCEPT ![run][file] = disk[file]]
  /\ Advance(run)
  /\ UNCHANGED <<schedule, disk, litter, temp, seen, digest, accepted, emitted>>

\* The digest the result carries is the one of the file found under the name.
Digest(run) ==
  /\ At(run, "digest", "bundle")
  /\ digest' = [digest EXCEPT ![run] = disk["bundle"]]
  /\ Advance(run)
  /\ UNCHANGED <<schedule, disk, litter, temp, seen, packed, accepted, emitted>>

\* Is the manifest, which the limit of creation does not count, too much?
Overfull(reports) == TotalSize(reports) + ManifestSize > TotalLimit

\* verify_passport_bundle: the members are the four and within the limits, the
\* manifest is valid and each report has the digest the manifest gives it.
Accepts(bundle) ==
  /\ bundle \notin {NoFile, Torn}
  /\ bundle["passport"] \notin {NoFile, Torn}
  /\ \A file \in Reports : SizeIn(file, bundle[file]) <= MemberLimit
  /\ ~Overfull(bundle)
  /\ \A file \in Reports : bundle["passport"].digests[file] = bundle[file]

\* The verified identity is compared with the result in memory.
SameOutcome(run, bundle) == OutcomeOf[bundle["passport"].identity] = OutcomeOf[run]

Verify(run) ==
  /\ At(run, "verify", "bundle")
  /\ Accepts(disk["bundle"])
  /\ SameOutcome(run, disk["bundle"])
  /\ accepted' = accepted \cup {<<run, disk["bundle"]>>}
  /\ Advance(run)
  /\ UNCHANGED <<schedule, disk, litter, temp, locals, emitted>>

\* Mutant: the digest of the result is emitted without another look.
Unconfirmed(run) == TRUE

\* The bundle in place is the one the result speaks of.
DigestUnchanged(run) == disk["bundle"] = digest[run]

\* The digest is taken again, compared with the result's and emitted.
Confirm(run) ==
  /\ At(run, "confirm", "bundle")
  /\ DigestUnchanged(run)
  /\ emitted' = [emitted EXCEPT ![run] = disk["bundle"]]
  /\ Advance(run)
  /\ UNCHANGED <<schedule, disk, litter, temp, locals, accepted>>

\* Mutant: the temporary file is not removed on the way out.
FailLeaky(run) ==
  /\ Working(run)
  /\ pc' = [pc EXCEPT ![run] = Failed]
  /\ UNCHANGED <<schedule, disk, litter, temp, locals, accepted, emitted>>

\* An exception: the temporary file is removed on the way out.  The check of
\* the action raises one as well when the bundle is not as it should be.
Fail(run) ==
  /\ Working(run)
  /\ pc' = [pc EXCEPT ![run] = Failed]
  /\ temp' = [temp EXCEPT ![run] = FALSE]
  /\ UNCHANGED <<schedule, disk, litter, locals, accepted, emitted>>

\* The process is killed: what it had begun stays behind.
Crash(run) ==
  /\ Working(run)
  /\ pc' = [pc EXCEPT ![run] = Crashed]
  /\ litter' = IF temp[run] THEN litter \cup {<<run, Steps[pc[run]][2]>>} ELSE litter
  /\ temp' = [temp EXCEPT ![run] = FALSE]
  /\ UNCHANGED <<schedule, disk, locals, accepted, emitted>>

-----------------------------------------------------------------------------

Next ==
  \E run \in Runs :
    \/ Start(run) \/ Digest(run) \/ Verify(run) \/ Confirm(run)
    \/ Fail(run) \/ Crash(run)
    \/ \E file \in Files :
         \/ BeginWrite(run, file) \/ Install(run, file)
         \/ Collect(run, file) \/ Pack(run, file)

Spec == Init /\ [][Next]_vars

-----------------------------------------------------------------------------
(* Properties                                                              *)

\* Every variable holds a value the program can store; a run that has ended
\* owns no temporary file.
TypeOK ==
  /\ schedule \in Schedules
  /\ DOMAIN disk = Files
  /\ \A file \in Reports : disk[file] \in Runs \cup {NoFile, Torn}
  /\ disk["passport"] \in Manifests \cup {NoFile, Torn}
  /\ {disk["bundle"], disk["sidecar"]} \subseteq Bundles \cup {NoFile, Torn}
  /\ litter \subseteq Runs \X Files
  /\ pc \in [Runs -> 0..Crashed]
  /\ temp \in [Runs -> BOOLEAN]
  /\ \A run \in Runs : temp[run] => Working(run) /\ Steps[pc[run]][1] = "write"
  /\ seen \in [Runs -> [Reports -> Runs \cup {NoFile, Torn}]]
  /\ packed \in [Runs -> Bundles]
  /\ {digest, emitted} \subseteq [Runs -> Bundles \cup {NoFile, Torn}]

\* No reader of the directory ever finds half a file under one of the six
\* names, whenever a writer fails or is killed.
NoFileIsTorn == \A file \in Files : disk[file] # Torn

\* The members of a bundle all come from one run.
OneRun(bundle) ==
  \E run \in Runs :
    /\ \A file \in Reports : bundle[file] = run
    /\ bundle["passport"] = [identity |-> run, digests |-> [file \in Reports |-> run]]

PublishedBy(bundle) ==
  CASE bundle = NoFile -> NoFile
    [] bundle # NoFile /\ bundle # Torn /\ OneRun(bundle) -> bundle["json"]
    [] OTHER -> Torn

Register ==
  INSTANCE EvidenceRegister
    WITH bundle <- PublishedBy(disk["bundle"]), shared <- schedule.overlapping, Mixed <- Torn

\* Runs one after the other, each cut short at any step, keep the promise of
\* the evidence directory: the old bundle stays until a complete one replaces
\* it, in one step.  Only runs at the same time can mix theirs.
KeepsRegister == Register!Spec

\* When the engine returns to a caller that runs alone, whatever earlier runs
\* left in the directory, the bundle is this run's, sidecar and result carry
\* its digest, and the verifier accepts it unless the reports leave no room for
\* the manifest within the limit on the total.
ReturnedEvidenceIsOwn ==
  \A run \in Runs :
    ~schedule.overlapping /\ At(run, "verify", "bundle") =>
      /\ PublishedBy(disk["bundle"]) = run
      /\ Accepts(disk["bundle"]) = ~Overfull([file \in Reports |-> run])
      /\ disk["sidecar"] = disk["bundle"] /\ digest[run] = disk["bundle"]

\* With two runs at once in one directory: a digest the action emits is that
\* of a bundle the verifier accepted in this very run, with its outcome.  Three
\* can break it (AtMostTwo in EvidenceStore_proofs).
EmittedIsVerified ==
  \A run \in Runs : emitted[run] # NoFile => <<run, emitted[run]>> \in accepted

\* What docs/PATCH_PASSPORT_SPEC.md requires of a verifier: the reports of an
\* accepted bundle and its manifest speak of the same verification.
AcceptedIdentitiesAgree ==
  \A a \in accepted : a[2]["json"] = a[2]["passport"].identity

=============================================================================
