-------------------------- MODULE MCAdminSessions --------------------------
(* Two runs of the command line client, one browser and its handoff code. *)
EXTENDS AdminSessions

\* The command line clients are done and the handoff that let the browser in
\* is swept.
Settled == (\A k \in Clis : cli[k].pc = "done") /\ (\A c \in Codes : hand[c] = NoEntry)

\* Bound: the pages of the browser stream, change things and log out, and the
\* reconciler makes changes they show, only then.
OneAtATime ==
    \/ /\ stream = NoStream /\ note # "fired"
       /\ \A r \in Reqs : tab.s = 0 \/ req[r].s # tab.s \/ req[r].kind = "claim"
    \/ Settled

\* Bound: a command line client logs in once the one before it has.
LoginsApart ==
    \A k, j \in Clis : k < j /\ cli[j].pc # "new" => cli[k].pc \notin {"new", "login"}

MCSpec == Init /\ [][Next /\ (OneAtATime /\ LoginsApart)']_vars /\ Fairness
=============================================================================
