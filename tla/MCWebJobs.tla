----------------------------- MODULE MCWebJobs -----------------------------
EXTENDS WebJobs

\* Enough data jobs for the oldest to be forgotten and for two collectors to
\* be due at once, two jobs for the worker, a grid, and both kinds side by side.
Submissions == {<<"data", "data", "data">>, <<"run", "run">>, <<"grid">>,
                <<"sweep", "data">>}
============================================================================
