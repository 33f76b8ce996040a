------------------------------ MODULE MCScreen ------------------------------
(***************************************************************************)
(* Three parts of the screen that share no state: who is signed in, which  *)
(* rows of a long table are drawn, and the tiles of a directory.  A        *)
(* behaviour is about one of them; the variables of the others stand       *)
(* still, those of the shell at a login page that offers the link.         *)
(***************************************************************************)
EXTENDS Shell, WindowedRows, Treemap

VARIABLE question

NoShell ==
    /\ setup = [mode |-> "oidc", auto |-> FALSE, storage |-> TRUE]
    /\ valid = FALSE /\ page = "app" /\ me = "out" /\ signedOut = TRUE /\ mode = "oidc"
    /\ login = Fresh /\ runningScan = FALSE /\ stamp = Cooldown /\ calls = {}
NoRows == RowsInit /\ view = Max(View) /\ anchor = Max(Anchor)
NoTiles == entries = <<>> /\ width = 0

MCInit ==
    \/ question = "shell" /\ Init    /\ NoRows  /\ NoTiles
    \/ question = "rows"  /\ NoShell /\ RowsInit  /\ NoTiles
    \/ question = "tiles" /\ NoShell /\ NoRows  /\ TilesInit

MCNext ==
    /\ UNCHANGED question
    /\ \/ question = "shell" /\ Next   /\ UNCHANGED <<rowVars, tileVars>>
       \/ question = "rows"  /\ RowsNext /\ UNCHANGED <<vars, tileVars>>
       \/ question = "tiles" /\ UNCHANGED <<vars, rowVars, tileVars>>

MCSpec == MCInit /\ [][MCNext]_<<vars, question, rowVars, tileVars>> /\ Fairness
=============================================================================
