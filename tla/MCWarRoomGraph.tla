---------------------------- MODULE MCWarRoomGraph ----------------------------
(* Small instances of WarRoomGraph for TLC.                                *)
EXTENDS WarRoomGraph

(* The longest and the two shortest councils, both providers.              *)
Text(f, s) == [forced |-> f, short |-> s, risky |-> FALSE]
ThreeModes ==
    {[text |-> Text(TRUE, TRUE), provider |-> "openai"],
     [text |-> Text(FALSE, TRUE), provider |-> "openai"],
     [text |-> Text(FALSE, FALSE), provider |-> "deepseek"]}

(* A draft to pass, to repair, to repair or show, to show.                 *)
Writing(s, a, f) == [sourced |-> s, actionable |-> a, flagged |-> f]
FourWritings ==
    {Writing(TRUE, TRUE, FALSE), Writing(TRUE, FALSE, FALSE),
     Writing(FALSE, FALSE, FALSE), Writing(TRUE, TRUE, TRUE)}
=============================================================================
