----------------------------- MODULE MCExchange -----------------------------
(* Parts of the monitor that share no state, side by side: the message      *)
(* queues and the fake identity.  A behaviour is one of them at work.        *)
EXTENDS MCMsg, MCCred

VARIABLE part

AllInit ==
    /\ \/ part = "queues" /\ cred_scene = CHOOSE s \in CredScenes : TRUE
       \/ part = "ids" /\ script = CHOOSE s \in Programs : TRUE
    /\ Init /\ CredInit

AllNext ==
    /\ UNCHANGED part
    /\ \/ part = "queues" /\ Next /\ UNCHANGED credvars
       \/ part = "ids" /\ CredNext /\ UNCHANGED vars

AllSpec == AllInit /\ [][AllNext]_<<part, vars, credvars>>
=============================================================================
