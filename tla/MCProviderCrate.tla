--------------------------- MODULE MCProviderCrate ---------------------------
(* The two halves of the crate mnel-provider-host, for TLC.  Host and placement share no variable
   and no operation, so a behaviour of the instance moves one of them, beside the other as
   it started: the host beside one of the policies, placement beside a host without providers. *)
EXTENDS MCProviderHost, MCPlacement

OnePolicy == CHOOSE p \in Policies : TRUE
OneCapability == CHOOSE c \in Capabilities : TRUE

PlacementAtRest == PlacementInit /\ asked = OnePolicy /\ capabilities = OneCapability

CrateInit == Init /\ PlacementInit

CrateSpec ==
  /\ CrateInit
  /\ [][ \/ PlacementAtRest /\ Next /\ UNCHANGED placementVars
         \/ Init /\ PlacementNext /\ UNCHANGED vars ]_<<vars, placementVars>>
=============================================================================
