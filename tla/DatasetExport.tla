---------------------------- MODULE DatasetExport ----------------------------
(***************************************************************************)
(* dataset_service.export_dataset, next to the handlers of DetectionReview *)
(* that write and delete the labels it exports.  One detection type: the   *)
(* versions and objects of different types have nothing in common.         *)
(*                                                                         *)
(* The MinIO client blocks: from the last row read to the last object      *)
(* written no other request runs.  Nothing keeps exports apart.            *)
(*                                                                         *)
(* No export gets past its commit: each sample binds the label's float     *)
(* model_confidence to a column models/dataset.py:41 declares as String,   *)
(* and asyncpg takes no float for text.  So datasets and dataset_samples   *)
(* stay empty, the version after the last one is always 1, and what there  *)
(* is of a dataset is its objects.                                         *)
(***************************************************************************)
EXTENDS DetectionReview

CONSTANT Exporters  \* exports that may run at once

VARIABLES
  manifest,  \* the objects under {type}/v1
  export     \* what each export is doing

exportVars == <<manifest, export>>
vars == <<reviewVars, exportVars>>

\* What an export takes of the labels: the label of each labelled detection.
NoSnapshot == [d \in Detections |-> NoLabel]
Snapshots == [Detections -> Labels \union {NoLabel}]

Off == [pc |-> "off", rows |-> NoSnapshot]
ExportTypeOK ==
  /\ manifest \in Snapshots
  /\ export \in [Exporters ->
       [pc : {"off", "labels", "upload", "commit"}, rows : Snapshots]]

ExportStep(e, r) ==
  /\ export' = [export EXCEPT ![e] = r]
  /\ UNCHANGED reviewVars

-----------------------------------------------------------------------------
\* select(func.max(Dataset.version)), or 0, plus 1: version 1.
ReadVersion(e) ==
  /\ export[e].pc = "off"
  /\ ExportStep(e, [Off EXCEPT !.pc = "labels"])
  /\ UNCHANGED manifest

\* All labels of the type, whatever became of their detections; without any
\* the export is refused.
ReadLabels(e) ==
  /\ export[e].pc = "labels"
  /\ ExportStep(e, IF label = NoSnapshot THEN Off
                   ELSE [pc |-> "upload", rows |-> label])
  /\ UNCHANGED manifest

\* Crops, manifest.json and metadata.json of the version.
Upload(e) ==
  /\ export[e].pc = "upload"
  /\ manifest' = export[e].rows
  /\ ExportStep(e, [export[e] EXCEPT !.pc = "commit"])

\* MinIO raises, before the manifest or after it.
UploadFails(e) ==
  /\ export[e].pc = "upload"
  /\ manifest' \in {manifest, export[e].rows}
  /\ ExportStep(e, Off)

\* The flush of the dataset's row succeeds, the samples are refused, and the
\* transaction with them.
InsertFails(e) ==
  /\ export[e].pc = "commit"
  /\ ExportStep(e, Off)
  /\ UNCHANGED manifest

-----------------------------------------------------------------------------
Init ==
  /\ ReviewInit
  /\ manifest = NoSnapshot
  /\ export = [e \in Exporters |-> Off]

Export(e) ==
  ReadVersion(e) \/ ReadLabels(e) \/ Upload(e) \/ UploadFails(e) \/ InsertFails(e)

Next ==
  \/ ReviewNext /\ UNCHANGED exportVars
  \/ \E e \in Exporters : Export(e)

Spec == Init /\ [][Next]_vars

-----------------------------------------------------------------------------
\* What is stored for the training agrees with the labels: an export reads the
\* labels, and others write and delete them, start exports of their own and
\* overwrite the objects, before it uploads; still, as long as a detection
\* exists, the label a manifest gives it is the one its row has.
ManifestAgrees ==
  \A d \in present : manifest[d] # NoLabel => manifest[d] = label[d]

\* "an immutable versioned snapshot": the objects of a version are not written
\* again.
SnapshotsAreImmutable ==
  [][manifest # NoSnapshot => manifest' = manifest]_vars
==============================================================================
