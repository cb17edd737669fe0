------------------------- MODULE MCDocumentPipeline -------------------------
(***************************************************************************)
(* Small instances of the document modules that one run of TLC checks      *)
(* side by side: the initial state chooses a scenario, and the scenario    *)
(* is then fixed.                                                          *)
(*   "workers"    DocumentPipeline with the module's own constants: few    *)
(*                uploads, several job slots and a row that an earlier     *)
(*                release left;                                            *)
(*   "uploads"    DocumentPipeline with several uploads of one content,    *)
(*                and a single job slot;                                   *)
(*   "users"      the same with several users, and no faults;              *)
(*   "admission"  UploadAdmission: slots, quotas and free space.           *)
(***************************************************************************)
EXTENDS DocumentPipeline, TLC

CONSTANTS UploadUsers, UploadContents, UploadWorkers, UploadRequests,
          Sizes, SizedRequests, MaxFile, Slots, UserQuota, GlobalQuota, Disk, MinFree

ASSUME SizesAssumption ==
  /\ Sizes \subseteq Nat /\ Slots \in Nat
  /\ UserQuota \in Nat /\ GlobalQuota \in Nat
  /\ Disk \in Nat /\ MinFree \in Nat /\ MinFree <= Disk
  /\ None \notin SizedRequests

VARIABLES scenario, slots, stored, originals, quotaLock, up

Uploads == INSTANCE DocumentPipeline WITH
             Contents <- UploadContents, Workers <- UploadWorkers,
             Requests <- UploadRequests,
             Legacy <- {}, MaxAttempts <- 1, BatchSize <- 2

ManyUsers == INSTANCE DocumentPipeline WITH
               Users <- UploadUsers, Contents <- UploadContents, Workers <- UploadWorkers,
               Requests <- UploadRequests,
               Legacy <- {}, MaxAttempts <- 1, BatchSize <- 2, MaxFaults <- 0

Admission == INSTANCE UploadAdmission WITH
               Users <- UploadUsers, Contents <- Sizes, Requests <- SizedRequests,
               rows <- stored, admission <- quotaLock

admissionVars == <<slots, stored, originals, quotaLock, up>>

ScenarioInit == /\ Admission!Init
                /\ \/ scenario = "workers" /\ Init
                   \/ scenario \in {"uploads", "admission"} /\ Uploads!Init
                   \/ scenario = "users" /\ ManyUsers!Init

ScenarioNext == /\ \/ scenario = "workers" /\ Next /\ UNCHANGED admissionVars
                   \/ scenario = "uploads" /\ Uploads!Next /\ UNCHANGED admissionVars
                   \/ scenario = "users" /\ ManyUsers!Next /\ UNCHANGED admissionVars
                   \/ scenario = "admission" /\ Admission!Next /\ UNCHANGED vars
                /\ UNCHANGED scenario

ScenarioSpec == ScenarioInit /\ [][ScenarioNext]_<<vars, admissionVars, scenario>>

\* Workers and requests are interchangeable; documents are not (their order
\* is that of the dispatcher).
Symmetry == Permutations(Workers) \cup Permutations(UploadRequests)
              \cup Permutations(UploadUsers) \cup Permutations(Contents)
-----------------------------------------------------------------------------
\* Every upload gives its parser slot back (validate_document_content).
SlotsReturned == Admission!SlotsReturned

\* The quotas and the reserve of the disk hold for all uploads together
\* (enforce_storage_admission).
WithinQuotas == Admission!WithinQuotas
=============================================================================
