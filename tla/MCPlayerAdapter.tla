--------------------------- MODULE MCPlayerAdapter ---------------------------
(* A behaviour exercises the app with its engine, the other client of the   *)
(* API or, with no fault, some of both; it has at most one fault: a lost    *)
(* call, an expired session or a failed step of the engine.                 *)
EXTENDS PlayerAdapter, TLC

VARIABLE family

MCInit == Init /\ family \in {"app", "both", "other"}

Faultless ==
  /\ \A c \in Calls : call'[c].at = "failed" => call[c].at = "failed"
  /\ \A i \in Ids : session'[i] = None => session[i] = None
  /\ \A c \in Calls : task[c].at = "load" => task'[c].at \in {"load", "playing"}
  /\ \A c \in Calls : task'[c].at = "dropping" => task[c].at = "dropping"

MCNext ==
  /\ Next
  /\ faulty => Faultless
  /\ CASE family = "app" -> /\ commands' < MaxCommands
                            /\ \A c \in Calls : call'[c].user # Other
       [] family = "both" -> /\ commands' < MaxCommands
                             /\ queue' \in {<<>>, <<1, 2>>}
                             /\ \A c \in Calls : task'[c].at # "sync"
                             /\ ~faulty' /\ index' <= Len(queue')
       [] family = "other" -> UNCHANGED queue /\ made' <= 1
  /\ UNCHANGED family

MCSpec == MCInit /\ [][MCNext]_<<vars, family>>

MCQueues == {<<1, 2>>, <<2, 1>>}
MCSymmetry == Permutations(Calls)
=============================================================================
