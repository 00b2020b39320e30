----------------------------- MODULE MCNightly -----------------------------
(***************************************************************************)
(* Nightly for TLC: three machines of one cloud and two of the other, so   *)
(* that a fleet can fail in part and as a whole, and the retry can have    *)
(* lines of one cloud or of both.  A second night follows only a night on  *)
(* which all went well and that was published: what else a night can leave *)
(* to the next is the site as it was.                                      *)
(***************************************************************************)
EXTENDS Nightly

CONSTANTS c4, c4d, c4a, c7i, c7a, smallGcp, smallAws

MCGcpMachines == <<c4, c4d, c4a>>
MCAwsMachines == <<c7i, c7a>>
MCGcpDefault == <<smallGcp>>
MCAwsDefault == <<smallAws>>

SimplePast ==
  pushed /\ \A m \in Machines : attempts[night][m] = 1 /\ m \notin Missing

MCNext ==
  \/ Proceed \/ Cancel \/ (NextNight /\ SimplePast)
  \/ step = "done" /\ UNCHANGED vars

MCSpec == Init /\ [][MCNext]_vars
=============================================================================
