---------------------------- MODULE MCEditorSession ----------------------------
EXTENDS EditorSession, TLC
CONSTANTS A, B, m1, m2, j1, j2

\* The server and the editor treat all ids alike; so do the jobs.  The run
\* checks no liveness.
IdSymmetry == Permutations({A, B}) \cup Permutations({j1, j2})

\* What tells two states apart: not a token left behind by a job that has ended
\* (tokens are compared with working jobs only), nor the revision of a scenario
\* that is not open, nor the clean mark where CleanMeansStored does not ask for it.
Compared(j, working) == IF j \in Jobs /\ working THEN j ELSE NoJob
States ==
  <<[doc EXCEPT !.rev = IF doc.id = NoId THEN 0 ELSE @], unseen,
    IF doc.id = NoId \/ unseen THEN <<>> ELSE clean,
    Compared(owner.load, jobs[owner.load].kind \in {"open", "dialog"}),
    Compared(owner.select, jobs[owner.select].kind \in {"select", "left"}),
    Compared(owner.build, jobs[owner.build].pc \in {"prepare", "settle"}),
    scene, view, cache, loading, screen, dialogBusy, jobs, op, desc, rows, ver>>
=============================================================================
