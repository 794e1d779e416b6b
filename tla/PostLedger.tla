----------------------------- MODULE PostLedger -----------------------------
(***************************************************************************)
(* What the main-server client promises about each request handed to it,    *)
(* whatever the queue inside does: a request that failed for the moment     *)
(* waits until it is acknowledged or given up in the open, with an error to *)
(* the caller or a log line, and neither verdict is taken back.             *)
(***************************************************************************)
CONSTANT Posts
VARIABLE status

States == {"unsent", "sending", "waiting", "acked", "dropped"}

\* The ways one request may go on.
Moves ==
    {<<"unsent", "sending">>, <<"unsent", "dropped">>, <<"sending", "acked">>,
     <<"sending", "waiting">>, <<"sending", "dropped">>,
     <<"waiting", "acked">>, <<"waiting", "dropped">>}

LedgerInit == status = [p \in Posts |-> "unsent"]

\* One step may move several requests: the one that enters a full queue and
\* the one it drives out.
LedgerNext ==
    /\ status' \in [Posts -> States]
    /\ \A p \in Posts :
         status'[p] = status[p] \/ <<status[p], status'[p]>> \in Moves

LedgerSpec == LedgerInit /\ [][LedgerNext]_status
=============================================================================
