----------------------------- MODULE MCScreening -----------------------------
(* Small instances of Screening for TLC. *)
EXTENDS Screening, TLC

(* Who deploys beside the cycle and the bridge: the follow cycle, or the    *)
(* Telegram handler, which carries out /deploy and runs agent loops.        *)
MCCompanies == {{"follow"}, {"telegram", "hand"}}
=============================================================================
