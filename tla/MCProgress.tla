------------------------------ MODULE MCProgress ------------------------------
(***************************************************************************)
(* What has to happen in the end, under the fairness of the modules.  The  *)
(* initial state chooses the part:                                         *)
(*   "documents"  DocumentPipeline with uploads and one fault;             *)
(*   "faults"     DocumentPipeline without uploads, with all the faults of *)
(*                this module's constants;                                 *)
(*   "backlog"    DocumentPipeline with a document of each of several      *)
(*                users that an earlier release left, and neither uploads  *)
(*                nor faults;                                              *)
(*   "requests"   Sessions: requests that wait for connections and locks.  *)
(* In the other parts a module has nothing to do: no row of a document, no *)
(* request; so its fairness asks for nothing.                              *)
(***************************************************************************)
EXTENDS DocumentPipeline

CONSTANTS MoreUsers, SessionRequests, Tokens, PoolSize

VARIABLES part, session, pool, op

sessionVars == <<session, pool, op>>

S == INSTANCE Sessions WITH Requests <- SessionRequests
OneFault == INSTANCE DocumentPipeline WITH MaxFaults <- 1
NoUploads == INSTANCE DocumentPipeline WITH Requests <- {}
Backlog == INSTANCE DocumentPipeline WITH
             Users <- MoreUsers, Legacy <- Docs, Requests <- {}, MaxFaults <- 0
Left == INSTANCE DocumentPipeline WITH Users <- MoreUsers, Legacy <- Docs
NoDocuments == INSTANCE DocumentPipeline WITH Legacy <- {}

PartInit == /\ S!Init
            /\ \/ part \in {"documents", "faults"} /\ Init
               \/ part = "backlog" /\ Left!Init
               \/ part = "requests" /\ NoDocuments!Init

PartNext == /\ \/ part = "documents" /\ OneFault!Next /\ UNCHANGED sessionVars
               \/ part = "faults" /\ NoUploads!Next /\ UNCHANGED sessionVars
               \/ part = "backlog" /\ Backlog!Next /\ UNCHANGED sessionVars
               \/ part = "requests" /\ S!Next /\ UNCHANGED vars
            /\ UNCHANGED part

PartSpec == PartInit /\ [][PartNext]_<<part, vars, sessionVars>> /\ Fairness /\ S!Fairness
-----------------------------------------------------------------------------
\* A request waits for no connection for ever (log_security_event).
EveryRequestAnswered == S!EveryRequestAnswered
=============================================================================
