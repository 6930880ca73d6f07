------------------------------- MODULE MCSession ------------------------------
(* Instances of Session for TLC.                                             *)
EXTENDS Session

CONSTANTS api, sweeper

Boots2 == <<2, 1>>

\* One thread that starts servers, which is also how they are touched and stopped,
\* and changes adapters, and the sweeper of the control plane.
OneSaver == [c \in Client |-> IF c = api THEN {"start", "load", "unload"} ELSE {"reap"}]
=============================================================================
