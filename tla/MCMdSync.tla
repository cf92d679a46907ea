------------------------------ MODULE MCMdSync ------------------------------
(***************************************************************************)
(* Small instances of MdSync for TLC.  A behaviour has one of two scenes:  *)
(* patches of other hosts, or a server that fails after it has recorded a  *)
(* patch.                                                                  *)
(***************************************************************************)
EXTENDS MdSync

VARIABLE scene

MCInit == Init /\ scene \in {"others"} \cup IF Incomplete THEN {"failing"} ELSE {}

RefusesRecorded == answer' # answer /\ answer' # NoAnswer /\ answer'[1].status = 502 /\ slog' # slog

MCNext ==
  /\ Next
  /\ IF scene = "others" THEN ~ RefusesRecorded ELSE \A v \in DOMAIN slog' : slog'[v].org <= MaxLocal
  /\ UNCHANGED scene

MCSpec     == MCInit /\ [][MCNext]_<<vars, scene>>
MCFairSpec == MCSpec /\ Fairness
=============================================================================
