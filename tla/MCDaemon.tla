------------------------------ MODULE MCDaemon ------------------------------
(* The constants of Daemon for model checking. *)
EXTENDS Daemon

MCArgs == {<<"daemon">>, <<"audit", "daemon">>}
=============================================================================
