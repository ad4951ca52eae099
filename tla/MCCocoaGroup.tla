---------------------------- MODULE MCCocoaGroup ----------------------------
(***************************************************************************)
(* Values of the constants of CocoaGroup that a .cfg cannot write.         *)
(***************************************************************************)
EXTENDS CocoaGroup

CONSTANTS founder1, founder2, founder3

MCFounders == <<founder1, founder2, founder3>>
MCPair == <<founder1, founder2>>
=============================================================================
