----------------------------- MODULE MCPrograms -----------------------------
(***************************************************************************)
(* Both programs, two keygens and every kind of line of a config file.     *)
(* Beside the processes there is the server's control path (MCServer),     *)
(* which shares no variable with them: each initial state picks one of the *)
(* two, and the other rests.                                               *)
(***************************************************************************)
EXTENDS Processes, MCServer

MCConfigFiles == {<<>>, <<"keyfile", "skip">>, <<"set", "bad">>, <<"keyfile", "bad">>}

MCInit ==
    /\ ServerInit
    /\ \/ ProcessInit
       \/ part = "server" /\ FsmRests /\ LifeRests /\ Store!Init

MCNext ==
    \/ ProcessNext /\ UNCHANGED serverVars
    \/ part = "server" /\ ServerNext /\ UNCHANGED processVars

MCSpec ==
    /\ MCInit /\ [][MCNext]_<<processVars, serverVars>>
    /\ Fsm!Fairness /\ Life!Fairness
    /\ WF_serverVars(part = "server" /\ Tick) /\ WF_serverVars(part = "server" /\ Maintenance)
=============================================================================
