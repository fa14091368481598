----------------------------- MODULE MCAgentExec -----------------------------
(* Two requests.  The jobs are those that take different paths: every mode,  *)
(* every limit and every kind of children, not each with each.              *)
EXTENDS AgentExec

Job(m, l, k) == [mode |-> m, limit |-> l, kids |-> k]

MCJobs == {Job("inline", "timeout", "pipe"), Job("exit_code", "timeout", "stubborn"),
           Job("file", "timeout", "none"), Job("inline", "none", "daemon"),
           Job("inline", "inactivity", "stubborn")}
=============================================================================
