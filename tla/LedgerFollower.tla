--------------------------- MODULE LedgerFollower ---------------------------
(***************************************************************************)
(* What an indexer promises: a database that follows the ledgers of the    *)
(* network one by one, applying the events of each exactly once and in     *)
(* order, and that never stops following.                                  *)
(***************************************************************************)
EXTENDS Naturals

CONSTANTS
  NoRows,            \* the empty database
  Apply(_, _)        \* the rows after an event

VARIABLES
  log,               \* the events of the ledgers, one each
  height,            \* ledgers closed
  followed,          \* ledgers whose event is in the database
  rows

followerVars == <<log, height, followed, rows>>

Init == height = 0 /\ followed = 0 /\ rows = NoRows

Close == height' = height + 1 /\ UNCHANGED <<log, followed, rows>>

Follow ==
  /\ followed < height
  /\ followed' = followed + 1
  /\ rows' = Apply(rows, log[followed + 1])
  /\ UNCHANGED <<log, height>>

Next == Close \/ Follow

SafetySpec == Init /\ [][Next]_followerVars
Spec == SafetySpec /\ WF_followerVars(Follow)
=============================================================================
