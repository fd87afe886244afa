------------------------------ MODULE PrintJob ------------------------------
(***************************************************************************)
(* What a run of the replacement lp command promises: the job gets at most *)
(* one verdict from the print server, the client is told that verdict, and *)
(* the spool file leaves the spool directory only after the client was     *)
(* told.  PrintSpool, with its connections, threads, timeouts and crashes, *)
(* implements this.                                                        *)
(***************************************************************************)
CONSTANTS Clients, Verdicts

VARIABLES verdict, told, place

vars == <<verdict, told, place>>

Init ==
    /\ verdict = [c \in Clients |-> "none"]
    /\ told = [c \in Clients |-> "none"]
    /\ place = [c \in Clients |-> "spool"]

\* The acks that may report a verdict.  An lp killed by a signal has neither
\* taken nor refused the job, and nothing is promised of what the client is told.
Reports(v) == CASE v \in {"exitN", "fork"} -> {"FAILURE"}
                [] v = "signal" -> {"SUCCESS", "FAILURE"}
                [] OTHER -> {"SUCCESS"}

Decide(c) ==
    /\ verdict[c] = "none"
    /\ \E v \in Verdicts : verdict' = [verdict EXCEPT ![c] = v]
    /\ UNCHANGED <<told, place>>

Tell(c) ==
    /\ verdict[c] # "none" /\ told[c] = "none"
    /\ \E m \in Reports(verdict[c]) : told' = [told EXCEPT ![c] = m]
    /\ UNCHANGED <<verdict, place>>

Move(c) ==
    /\ told[c] # "none" /\ place[c] = "spool"
    /\ place' = [place EXCEPT ![c] = "PRINTED"]
    /\ UNCHANGED <<verdict, told>>

Next == \E c \in Clients : Decide(c) \/ Tell(c) \/ Move(c)

Spec == Init /\ [][Next]_vars
=============================================================================
