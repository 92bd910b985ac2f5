----------------------------- MODULE MCLibrary -----------------------------
(* Playlists and saved tracks are different tables, and no request touches *)
(* both: a behaviour exercises one family of requests or the other.        *)
EXTENDS Library, TLC

VARIABLE family

MCInit == LibraryInit /\ family \in {{"start", "end", "remove"}, {"save", "unsave"}}

MCNext ==
  /\ LibraryNext
  /\ \A r \in Requests : req'[r].at # "idle" => req'[r].kind \in family
  /\ "start" \in family => UNCHANGED <<now, listing>>
  /\ UNCHANGED family

MCSpec == MCInit /\ [][MCNext]_<<libraryVars, family>>

MCSymmetry == Permutations(Requests)
=============================================================================
