--------------------------- MODULE MCActivityFeed ---------------------------
(***************************************************************************)
(* The activity feed of a few entries, two of which may be of the same     *)
(* instant.  The configuration gives the constants their values.           *)
(***************************************************************************)
EXTENDS ActivityFeed
=============================================================================
