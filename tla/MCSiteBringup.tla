--------------------------- MODULE MCSiteBringup ---------------------------
(* Small instances of SiteBringup for TLC; the other values are in the      *)
(* cfgs.                                                                    *)
EXTENDS SiteBringup

NoneFlawed == {}

(* Each defect where it does most harm: a restarting unit on the node whose *)
(* PostgreSQL runs before the agents do, the others where one is to join.   *)
OneFlawed == {<<1, "restarts">>, <<2, "copied id">>, <<2, "elsewhere">>, <<3, "no id file">>}
=============================================================================
