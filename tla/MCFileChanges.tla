---------------------------- MODULE MCFileChanges ----------------------------
(***************************************************************************)
(* Changes to files: transfers, single mutations below the managed roots,  *)
(* batches of file operations, and resumable uploads whose files are       *)
(* changed from outside.  Each behaviour runs one of the four, so the      *)
(* state spaces add up instead of multiplying; the others keep one initial *)
(* state.                                                                  *)
(***************************************************************************)
EXTENDS ManagedTransfer, ManagedMutations, FileOperationBatch, UploadSessions, TLC

VARIABLE part

filesVars == <<transferVars, mutationVars, batchVars>>
changeVars == <<filesVars, vars, part>>
TwoNames == {"a", "b"}
UploadTo == [k \in Keys |-> CHOOSE t \in Targets : TRUE]
BodySymmetry == Permutations(Bodies)

TransferStill == /\ job = [style |-> "skip", move |-> FALSE, samefs |-> TRUE, eligible |-> TRUE]
                 /\ dst = [c \in Candidates |-> NoObject] /\ kind[Source] = "file"
MutationStill == named["target"] = NoInode
BatchStill == /\ fs = [p \in {Root, <<Candidate("a", 0)>>, <<Candidate("b", 0)>>} |-> <<Dir>>]
              /\ fs0 = fs /\ next = 1 /\ status = <<>>
              /\ operation = [type |-> "copy", style |-> "skip", to |-> <<Candidate("a", 0)>>, from |-> <<<<Candidate("b", 0)>>>>]

MCInit ==
  /\ part \in {"transfer", "mutation", "batch", "upload"}
  /\ Init
  /\ TransferInit /\ (part # "transfer" => TransferStill)
  /\ MutationInit /\ (part # "mutation" => MutationStill)
  /\ IF part = "batch" THEN BatchInit ELSE BatchStill

MCNext ==
  /\ UNCHANGED part
  /\ \/ part = "transfer" /\ TransferNext /\ UNCHANGED <<vars, mutationVars, batchVars>>
     \/ part = "mutation" /\ MutationNext /\ UNCHANGED <<vars, transferVars, batchVars>>
     \/ part = "batch" /\ BatchNext /\ UNCHANGED <<vars, transferVars, mutationVars>>
     \/ part = "upload" /\ Next /\ UNCHANGED filesVars

MCSpec == MCInit /\ [][MCNext]_changeVars

=============================================================================
