----------------------------- MODULE MCAccounts -----------------------------
(* The second factor and the ways in touch different tables: a behaviour    *)
(* exercises one of them, the factor with the account already there.        *)
EXTENDS Accounts

VARIABLE family

MCInit ==
  \/ Init /\ family = "ways"
  \/ /\ family = "factor"
     /\ account = {[id |-> u, email |-> e, password |-> CHOOSE p \in Passwords : TRUE] :
                     u \in {1}, e \in {CHOOSE x \in Emails : TRUE}}
     /\ identity = {} /\ factor = [u \in Ids |-> None] /\ secrets = 0
     /\ hits = 0 /\ armed = FALSE /\ stuck = FALSE
     /\ req = [r \in Requests |-> Nobody] /\ begun = 0
     /\ granted = {} /\ proved = {} /\ crossed = {}
MCNext ==
  /\ Next
  /\ \A r \in Requests : req'[r].at # "idle" => ((req'[r].kind = "mfa") = (family = "factor"))
  /\ UNCHANGED family

MCSpec ==
  /\ MCInit /\ [][MCNext]_<<vars, family>>
  /\ WF_vars(Window) /\ \A r \in Requests : WF_vars(Limiting(r))

MCEmailOf == [s \in Subjects |-> CHOOSE e \in Emails : TRUE]
=============================================================================
