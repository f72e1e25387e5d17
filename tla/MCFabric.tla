------------------------------- MODULE MCFabric -------------------------------
(* The two halves of fabric_execution.py, for TLC.  Training and dispatch share no variable
   and no operation, so a behaviour of the instance moves one of them, beside the other as it
   started: training beside an idle backend, dispatch where there are no records. *)
EXTENDS MCFabricTraining, MCFabricDispatch

FabricInit == Init /\ DispatchInit

FabricSpec ==
  /\ FabricInit
  /\ [][ \/ DispatchInit /\ ~ fallback /\ Next /\ UNCHANGED dispatchVars
         \/ Init /\ records = {} /\ DispatchNext /\ UNCHANGED vars ]_<<vars, dispatchVars>>
=============================================================================
