---------------------------- MODULE AtomicTransfer ----------------------------
(***************************************************************************)
(* What CopyInto and MoveInto (pkg/filesecurity/managed_copy.go) promise   *)
(* to somebody who lists the source and destination directories: the       *)
(* transfer is one step of the namespace or none, it publishes a whole     *)
(* copy of what the source was when the transfer began, it takes an        *)
(* occupied name only under the replace policy and a name other than the   *)
(* requested one only under the rename policy, and it answers "unchanged"  *)
(* only if it made no step.  Other programs change the names as they like. *)
(***************************************************************************)
EXTENDS Integers

CONSTANTS Candidates,  \* destination names; 0 is the requested one
          Contents,    \* what a name may hold
          Absent       \* a free name

VARIABLES policy,   \* "skip" | "rename" | "replace"
          moves,    \* MoveInto, not CopyInto
          source,   \* what the source name holds
          target,   \* what each destination name holds
          began,    \* the contents the transfer set out to transfer
          acted,    \* the transfer has changed the namespace
          answer    \* "none" | "unchanged" | "changed"

job == <<policy, moves>>
vars == <<job, source, target, began, acted, answer>>

Init ==
  /\ policy \in {"skip", "rename", "replace"} /\ moves \in BOOLEAN
  /\ source \in Contents /\ target \in [Candidates -> Contents \cup {Absent}]
  /\ began = Absent /\ acted = FALSE /\ answer = "none"

Begin ==
  /\ began = Absent /\ source # Absent /\ began' = source
  /\ UNCHANGED <<job, source, target, acted, answer>>

\* The transfer may still act, and on this name.
May(n) == /\ answer = "none" /\ ~acted /\ began # Absent
          /\ n = 0 \/ policy = "rename"

\* A copy appears under a free name.
Publish(n) ==
  /\ May(n) /\ target[n] = Absent
  /\ target' = [target EXCEPT ![n] = began] /\ acted' = TRUE
  /\ UNCHANGED <<job, source, began, answer>>

\* The source moves to a free name.
Move(n) ==
  /\ May(n) /\ moves /\ target[n] = Absent /\ source # Absent
  /\ target' = [target EXCEPT ![n] = source] /\ source' = Absent
  /\ acted' = TRUE
  /\ UNCHANGED <<job, began, answer>>

\* A copy takes the place of what the requested name held.
Replace(n) ==
  /\ May(n) /\ policy = "replace" /\ target[n] # Absent
  /\ target' = [target EXCEPT ![n] = began] /\ acted' = TRUE
  /\ UNCHANGED <<job, source, began, answer>>

\* An answer without a change is given only when there was none.
Answer ==
  /\ answer = "none"
  /\ answer' \in {"unchanged", "changed"}
  /\ answer' = "unchanged" => ~acted
  /\ UNCHANGED <<job, source, target, began, acted>>

\* Another program.
Outside ==
  /\ \/ source' \in Contents \cup {Absent} /\ UNCHANGED target
     \/ /\ UNCHANGED source
        /\ \E n \in Candidates, c \in Contents \cup {Absent} :
             target' = [target EXCEPT ![n] = c]
  /\ UNCHANGED <<job, began, acted, answer>>

Next == \/ Begin \/ Answer \/ Outside
        \/ \E n \in Candidates : Publish(n) \/ Move(n) \/ Replace(n)

Spec == Init /\ [][Next]_vars
=============================================================================
