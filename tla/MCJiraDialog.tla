---------------------------- MODULE MCJiraDialog ----------------------------
(* Instantiates JiraDialog with one user in one channel.                   *)
EXTENDS JiraDialog, TLC

CONSTANTS u1, c1
=============================================================================
