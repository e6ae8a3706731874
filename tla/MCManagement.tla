---------------------------- MODULE MCManagement ----------------------------
(* TLC instance of Management. *)
EXTENDS Management

\* Bound: a second administrator reads the configuration before the first request is
\* sent, and sends the last one.
SecondIsLast ==
    \A a \in Admins \ {1} :
        /\ n_.req > 0 /\ adm[a].pc \in {"idle", "read"} /\ adm'[a].pc = "read" =>
               adm'[a] = adm[a]
        /\ adm'[a].pc \notin {"idle", "read"} => n_'.req = MaxRequests
        /\ n_'.req = MaxRequests => adm'[a].pc # "read"

MCSpec == Init /\ [][ManagementNext /\ SecondIsLast]_mvars /\ ManagementFairness
=============================================================================
