--------------------------- MODULE MCModelProfiles ---------------------------
(* An owner who makes three chat profiles, two of them under one name.     *)
EXTENDS ModelProfiles, TLC

CONSTANTS p1, p2, p3

MCUsage == p1 :> "chat" @@ p2 :> "chat" @@ p3 :> "chat"
MCName  == p1 :> "first" @@ p2 :> "second" @@ p3 :> "first"

=============================================================================
