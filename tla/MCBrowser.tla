------------------------------ MODULE MCBrowser ------------------------------
(* Small instances of Browser for TLC: its constants that a .cfg cannot write. *)
EXTENDS Browser

CONSTANTS d1, d2, d3

Sizes == {[width |-> 900, height |-> 700], [width |-> 320, height |-> 300]}

Measured == {[width |-> 100, height |-> 300], [width |-> 384, height |-> 96]}

Pulls == {<<-2000, 30>>, <<50, 400>>, <<300, -2000>>}

Start == <<d1, d2>>

Layouts ==
  [presenter |-> [b \in ScrollBlocks |-> IF b = d1 THEN 2 ELSE IF b = d2 THEN 0 ELSE 3],
   follower |-> [b \in ScrollBlocks |-> IF b = d1 THEN 2 ELSE IF b = d2 THEN 1 ELSE 4]]

Scrollers == [presenter |-> 2, follower |-> 2]
=============================================================================
