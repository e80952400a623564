---------------------------- MODULE StepDataflow ----------------------------
(***************************************************************************)
(* What a training step of PPO promises, whoever moves the data: each      *)
(* field is computed for all rows of the batch, from fields of the same    *)
(* rows that are there already, and the batch is trained and given up only *)
(* when every row has all that training needs.                             *)
(*                                                                         *)
(* PpoStep, where the driver holds the rows and worker groups get parts of *)
(* them, and TransferQueue, where it holds names of rows kept elsewhere,   *)
(* both implement it.                                                      *)
(***************************************************************************)
EXTENDS Naturals, FiniteSets

CONSTANTS
    Needs   \* for each field of the batch, the fields it is computed from

Fields == DOMAIN Needs

VARIABLES
    computed,  \* fields every row has, computed from that row
    steps      \* training steps finished

dataflow == <<computed, steps>>

Init == computed = {} /\ steps = 0

\* Some fields are computed; several may come at once, and from each other.
Compute ==
    \E new \in SUBSET (Fields \ computed) :
      /\ new # {}
      /\ \A f \in new : Needs[f] \subseteq computed \cup new
      /\ computed' = computed \cup new
      /\ UNCHANGED steps

\* The step ends; the next one starts with a batch of its own.
Finish ==
    /\ computed = Fields
    /\ computed' = {} /\ steps' = steps + 1

Next == Compute \/ Finish

Spec == Init /\ [][Next]_dataflow
=============================================================================
