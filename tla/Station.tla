------------------------------ MODULE Station -------------------------------
(***************************************************************************)
(* What the station promises its listeners, without leaders, versions or   *)
(* crashes: something is always on, a user's song is never cut short, a    *)
(* waiting song may cut a filler, and each song of the queue airs once.    *)
(* RadioCoordinator implements this with any number of leaders.            *)
(***************************************************************************)
CONSTANT Songs     \* the users' songs

VARIABLES
  air,       \* what is on: "silent" before the first song, "static", "generated"
  ended,     \* it has been played to its end
  line,      \* songs waiting for their turn
  aired      \* songs that have had it

stationVars == <<air, ended, line, aired>>

StationInit == air = "silent" /\ ended = FALSE /\ line = {} /\ aired = {}

Join(k) ==
  /\ k \notin line \cup aired
  /\ line' = line \cup {k}
  /\ UNCHANGED <<air, ended, aired>>

End ==
  /\ air # "silent" /\ ~ended
  /\ ended' = TRUE
  /\ UNCHANGED <<air, line, aired>>

PlayFiller ==
  /\ air = "silent" \/ ended
  /\ air' = "static" /\ ended' = FALSE
  /\ UNCHANGED <<line, aired>>

PlaySong(k) ==
  /\ k \in line
  /\ air = "static" \/ ended
  /\ air' = "generated" /\ ended' = FALSE
  /\ line' = line \ {k}
  /\ aired' = aired \cup {k}

StationNext == End \/ PlayFiller \/ \E k \in Songs : Join(k) \/ PlaySong(k)

StationSpec == StationInit /\ [][StationNext]_stationVars
=============================================================================
