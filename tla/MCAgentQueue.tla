---------------------------- MODULE MCAgentQueue ----------------------------
(* Instances of AgentQueue for TLC.                                          *)
EXTENDS AgentQueue

\* astream with the memory queue, stream with the memory queue, which is the
\* default, and stream with the Redis log.
MCSetups == {<<"astream", "memory">>, <<"stream", "memory">>, <<"stream", "redis">>}

\* The default alone.
DefaultSetup == {<<"stream", "memory">>}
=============================================================================
