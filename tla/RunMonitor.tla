----------------------------- MODULE RunMonitor -----------------------------
(***************************************************************************)
(* The browser's picture of the runs: the status socket and its            *)
(* reconnection, the session in the store, the requests that start and     *)
(* stop a run, and the two lists of runs, while the user moves between the *)
(* editor's simulation tab, its results tab and the page of the runs.      *)
(*                                                                         *)
(* The service is here what its clients see of it: rows that change as     *)
(* RunContracts allows, one active at a time, and manifests, by which the  *)
(* results are listed.                                                     *)
(***************************************************************************)
EXTENDS RunContracts, Naturals, Sequences

CONSTANTS
  Runs, NoRun,
  Outcomes, \* the terminal statuses at which a run may end
  MaxMail,  \* bound on the messages on their way to the browser
  MaxUpsets \* bound on the breaks, failures, late stops, visits and refreshes

ASSUME RunsAssumption == NoRun \notin Runs
ASSUME OutcomesAssumption == Outcomes \subseteq TerminalStatuses
ASSUME BoundAssumption == MaxMail \in Nat \ {0} /\ MaxUpsets \in Nat

VARIABLES
  rows,    \* the status of each run, "none" before it is submitted
  noted,   \* the completed runs whose manifest says "stopping" for good
  link,    \* the socket: "connecting", "open", or "waiting" to reconnect
  delay,   \* reconnectDelay, in seconds
  mail,    \* status messages on their way
  session, \* simulationSession: [phase, run, status]
  view,    \* "simulation", "results" or "runs"
  start,   \* the start under way: "no", "saving", "posted", "answered", "refused"
  stop,    \* the stop under way: "no", "sent", "done", "failed"
  left,    \* a start whose page was left: "no", "saving" or "posted"
  list,    \* what the view's list says of each run
  fetch,   \* its request: "no", "asked", "answered"
  snap,    \* the answer on its way
  upsets

service == <<rows, noted>>
socket == <<link, delay, mail>>
requests == <<start, stop, left>>
listing == <<list, fetch, snap>>
vars == <<service, socket, session, view, requests, listing, upsets>>

Views == {"simulation", "results", "runs"}
Nothing == [r \in Runs |-> "none"]

Upset == upsets < MaxUpsets /\ upsets' = upsets + 1

-----------------------------------------------------------------------------
(* The service.                                                            *)

ActiveRuns == {r \in Runs : rows[r] \in ActiveStatuses}

\* A submitted run gets a fresh id: which one makes no difference.
Unused == {r \in Runs : rows[r] = "none"}
Submit == Unused # {} /\ rows' = [rows EXCEPT ![CHOOSE r \in Unused : TRUE] = "queued"]

\* Somebody's request to stop, which found the run running or stopping, writes
\* "stopping" to its manifest without looking at it again: after the run's end,
\* if the request is handled that late, and then nothing writes the outcome again.
Completed == {"complete", "partial"}
StopIsNoted ==
  /\ Upset
  /\ \E r \in Runs : rows[r] \in Completed /\ noted' = noted \cup {r}
  /\ UNCHANGED <<rows, socket, session, view, requests, listing>>

\* What the worker, the run's child and other users do to a row.
ServiceMoves ==
  /\ \/ Submit
     \/ \E r \in Runs \ Unused : \E s \in AllowedTransitions[rows[r]] :
          /\ s \in ActiveStatuses \cup Outcomes
          /\ s = "running" => ActiveRuns = {}
          /\ rows' = [rows EXCEPT ![r] = s]
  /\ UNCHANGED <<noted, socket, session, view, requests, listing, upsets>>

Messages ==
  [status : ActiveStatuses \cup {"idle", "finished", "error"}, run : Runs \cup {NoRun}]

\* _current_status_response: the active run, or the idle state of the
\* executor in the process, which no longer runs anything.
IdleMessage == [status |-> "idle", run |-> NoRun]
StatusMessage ==
  IF ActiveRuns = {} THEN IdleMessage
  ELSE LET r == CHOOSE x \in ActiveRuns : TRUE IN [status |-> rows[r], run |-> r]

\* _status_from_outcome, of a run that has ended.
StatusOf(outcome) == IF outcome \in {"complete", "partial"} THEN "finished" ELSE "error"

\* The active run is looked up and then read again: the run may have ended in
\* between, and its end is in the message that once.
StatusRead(message) ==
  \/ message = StatusMessage /\ UNCHANGED service
  \/ \E r \in ActiveRuns : \E s \in AllowedTransitions[rows[r]] \cap Outcomes :
       /\ rows' = [rows EXCEPT ![r] = s] /\ UNCHANGED noted
       /\ message = [status |-> StatusOf(s), run |-> r]

-----------------------------------------------------------------------------
(* The session.                                                            *)

\* The phase a message's status stands for.
PhaseOf(status) ==
  IF status \in {"running", "stopping"} THEN "running"
  ELSE IF status \in {"finished", "error"} THEN status ELSE "idle"

\* Seeded bug: the list is fetched again when the phase changes only.
RefetchedForPhase(s) == s.phase # session.phase

\* The results tab fetches its list again when the phase or the run changes.
Refetched(s) == <<s.phase, s.run>> # <<session.phase, session.run>>

\* A new fetch aborts the one under way.
FetchIf(condition) ==
  /\ fetch' = IF condition THEN "asked" ELSE fetch
  /\ snap' = IF condition THEN Nothing ELSE snap
  /\ UNCHANGED list

SessionBecomes(s) ==
  /\ session' = s
  /\ FetchIf(view = "results" /\ Refetched(s))

-----------------------------------------------------------------------------
(* The socket.                                                             *)

Connect ==
  /\ link = "connecting"
  /\ link' = "open" /\ delay' = 3
  /\ \E message \in Messages : StatusRead(message) /\ mail' = <<message>>
  /\ UNCHANGED <<session, view, requests, listing, upsets>>

\* The service sends the status each second.
Poll ==
  /\ link = "open" /\ Len(mail) < MaxMail
  /\ \E message \in Messages : StatusRead(message) /\ mail' = Append(mail, message)
  /\ UNCHANGED <<link, delay, session, view, requests, listing, upsets>>

\* A database error in the read is taken for no active run.
PollFails ==
  /\ link = "open" /\ Len(mail) < MaxMail
  /\ Upset
  /\ mail' = Append(mail, IdleMessage)
  /\ UNCHANGED <<service, link, delay, session, view, requests, listing>>

\* Seeded bug: while a run is followed, a message about none is dropped.
DeliverNamed ==
  /\ mail # <<>>
  /\ mail' = Tail(mail)
  /\ IF Head(mail).run = NoRun /\ session.run # NoRun
     THEN UNCHANGED <<session, listing>>
     ELSE SessionBecomes([phase |-> PhaseOf(Head(mail).status), run |-> Head(mail).run,
                          status |-> Head(mail).status])
  /\ UNCHANGED <<service, link, delay, view, requests, upsets>>

\* onmessage
Deliver ==
  /\ mail # <<>>
  /\ mail' = Tail(mail)
  /\ SessionBecomes([phase |-> PhaseOf(Head(mail).status), run |-> Head(mail).run,
                     status |-> Head(mail).status])
  /\ UNCHANGED <<service, link, delay, view, requests, upsets>>

\* onclose: an open connection broke, or one could not be made.
Closed ==
  /\ link \in {"connecting", "open"}
  /\ Upset
  /\ link' = "waiting"
  /\ mail' = <<>>
  /\ UNCHANGED <<service, delay, session, view, requests, listing>>

Reconnect ==
  /\ link = "waiting"
  /\ link' = "connecting"
  /\ delay' = IF 2 * delay < 30 THEN 2 * delay ELSE 30
  /\ UNCHANGED <<service, mail, session, view, requests, listing, upsets>>

-----------------------------------------------------------------------------
(* Starting a run: the scenario is saved, the payload prepared and sent.   *)

Run ==
  /\ view = "simulation" /\ start = "no"
  /\ Unused # {}
  /\ session.phase # "running"
  /\ start' = "saving"
  /\ UNCHANGED <<service, socket, session, view, stop, left, listing, upsets>>

\* handleRunSimulation, once the payload is complete.
Optimistic(s) ==
  IF s.phase = "running" THEN s
  ELSE [phase |-> "running", run |-> NoRun, status |-> "running"]
Send ==
  /\ start = "saving"
  /\ start' = "posted"
  /\ SessionBecomes(Optimistic(session))
  /\ UNCHANGED <<service, socket, view, stop, left, upsets>>

\* The save fails or the payload is not valid.
GiveUp ==
  /\ start = "saving"
  /\ Upset
  /\ start' = "no"
  /\ UNCHANGED <<service, socket, session, view, stop, left, listing>>

\* The request is always answered with a queued run, or refused.
ServiceStarts ==
  /\ start = "posted"
  /\ \/ Submit /\ start' = "answered" /\ UNCHANGED upsets
     \/ Upset /\ start' = "refused" /\ UNCHANGED rows
     \/ Unused = {} /\ start' = "refused" /\ UNCHANGED <<rows, upsets>>
  /\ UNCHANGED <<noted, socket, session, view, stop, left, listing>>

\* Seeded bug: the id of a queued run is taken over.
AnsweredWith(s, reply) == [s EXCEPT !.run = reply.run, !.status = "running"]

\* onSuccess: only a reply that is not "queued" changes the session.
Answered(s, reply) ==
  IF reply.status = "queued" THEN s
  ELSE [s EXCEPT !.run = reply.run, !.status = reply.status]

StartReplies ==
  /\ start \in {"answered", "refused"}
  /\ start' = "no"
  /\ IF start = "refused"
     THEN SessionBecomes([session EXCEPT !.phase = "error", !.status = "error"])
     ELSE \E r \in {x \in Runs : rows[x] # "none"} :
            SessionBecomes(Answered(session, [status |-> "queued", run |-> r]))
  /\ UNCHANGED <<service, socket, view, stop, left, upsets>>

\* A start whose page was left goes on; nobody hears its reply.
LeftStartGoesOn ==
  /\ \/ /\ left = "saving" /\ left' = "posted"
        /\ SessionBecomes(Optimistic(session))
        /\ UNCHANGED rows
     \/ /\ left = "posted" /\ left' = "no"
        /\ Submit \/ UNCHANGED rows
        /\ UNCHANGED <<session, listing>>
  /\ UNCHANGED <<noted, socket, view, start, stop, upsets>>

-----------------------------------------------------------------------------
(* Stopping a run: the request names none.                                 *)

Stop ==
  /\ view = "simulation" /\ stop = "no" /\ start = "no"
  /\ session.phase = "running" /\ session.status # "stopping"
  /\ stop' = "sent"
  /\ UNCHANGED <<service, socket, session, view, start, left, listing, upsets>>

ServiceStops ==
  /\ stop = "sent"
  /\ \/ /\ ActiveRuns # {}
        /\ rows' = [r \in Runs |-> IF rows[r] = "running" THEN "stopping" ELSE rows[r]]
        /\ stop' = "done"
     \/ UNCHANGED rows /\ stop' = "failed"
  /\ UNCHANGED <<noted, socket, session, view, start, left, listing, upsets>>

StopReplies ==
  /\ stop \in {"done", "failed"}
  /\ stop' = "no"
  /\ SessionBecomes(IF stop = "done"
                    THEN [session EXCEPT !.phase = "running", !.status = "stopping"]
                    ELSE session)
  /\ UNCHANGED <<service, socket, view, start, left, upsets>>

-----------------------------------------------------------------------------
(* The lists: the results of the runs that completed, and all runs with    *)
(* the button that stops or cancels one.  The results go by the manifests. *)

\* What a list says while its last request failed.
Failed == [r \in Runs |-> "unknown"]
Answer ==
  IF view = "runs" THEN rows
  ELSE [r \in Runs |->
          IF rows[r] \in Completed /\ r \notin noted THEN rows[r] ELSE "none"]

\* Seeded bug: a run that is stopping is not in progress, as on the page of
\* the details of one run.
NotYetStopping(shown) == \E r \in Runs : shown[r] \in {"queued", "running"}

\* While a run is in progress, the page of the runs asks every 3 seconds.
InProgress(shown) == \E r \in Runs : shown[r] \in {"queued", "running", "stopping"}

Refetch ==
  /\ view = "runs" /\ fetch = "no" /\ InProgress(list)
  /\ FetchIf(TRUE)
  /\ UNCHANGED <<service, socket, session, view, requests, upsets>>

Refresh ==
  /\ view \in {"results", "runs"} /\ fetch = "no"
  /\ Upset
  /\ FetchIf(TRUE)
  /\ UNCHANGED <<service, socket, session, view, requests>>

ServiceLists ==
  /\ fetch = "asked"
  /\ fetch' = "answered" /\ snap' = Answer
  /\ UNCHANGED <<service, socket, session, view, requests, list, upsets>>

ListArrives ==
  /\ fetch = "answered"
  /\ list' = snap /\ fetch' = "no" /\ snap' = Nothing
  /\ UNCHANGED <<service, socket, session, view, requests, upsets>>

\* The page of the runs keeps what it shows, the results tab shows nothing.
ListFails ==
  /\ fetch # "no"
  /\ Upset
  /\ fetch' = "no" /\ snap' = Nothing
  /\ list' = IF view = "runs" THEN list ELSE Failed
  /\ UNCHANGED <<service, socket, session, view, requests>>

\* A run is stopped or cancelled by its button: only a request that is
\* accepted has the list asked for again.
CancelFromList ==
  /\ view = "runs"
  /\ Upset
  /\ \E r \in Runs :
       /\ list[r] \in {"queued", "running"}
       /\ rows' = CASE rows[r] = "queued" -> [rows EXCEPT ![r] = "cancelled"]
                    [] rows[r] = "running" -> [rows EXCEPT ![r] = "stopping"]
                    [] OTHER -> rows
       /\ FetchIf(rows[r] \in ActiveStatuses \cup {"queued"})
  /\ UNCHANGED <<noted, socket, session, view, requests>>

-----------------------------------------------------------------------------
(* Moving between the views.  The editor's tabs share its socket and its   *)
(* start; the callbacks of a stop, and those of a start whose page was     *)
(* left, are gone.                                                         *)

Open(v) ==
  /\ view' = v
  /\ list' = Nothing /\ snap' = Nothing
  /\ fetch' = IF v = "simulation" THEN "no" ELSE "asked"

Fresh == link' = "connecting" /\ delay' = 3 /\ mail' = <<>>

\* A stop that was sent is still handled.
Unheard ==
  /\ stop' = "no" /\ UNCHANGED noted
  /\ \/ /\ stop = "sent"
        /\ rows' = [r \in Runs |-> IF rows[r] = "running" THEN "stopping" ELSE rows[r]]
     \/ UNCHANGED rows

ChangeTab ==
  /\ view # "runs"
  /\ Upset
  /\ Open(IF view = "simulation" THEN "results" ELSE "simulation")
  /\ Unheard
  /\ UNCHANGED <<socket, session, start, left>>

GoToRuns ==
  /\ view # "runs"
  /\ left = "no"
  /\ Upset
  /\ Open("runs") /\ Fresh /\ Unheard
  /\ start' = "no"
  /\ left' = IF start \in {"saving", "posted"} THEN start ELSE "no"
  /\ UNCHANGED session

GoToEditor ==
  /\ view = "runs"
  /\ Upset
  /\ \E v \in {"simulation", "results"} : Open(v)
  /\ Fresh
  /\ UNCHANGED <<service, session, requests>>

-----------------------------------------------------------------------------
Init ==
  /\ rows = Nothing /\ noted = {}
  /\ link = "connecting" /\ delay = 3 /\ mail = <<>>
  /\ session = [phase |-> "idle", run |-> NoRun, status |-> "none"]
  /\ view \in Views
  /\ start = "no" /\ stop = "no" /\ left = "no"
  /\ list = Nothing /\ snap = Nothing
  /\ fetch = IF view = "simulation" THEN "no" ELSE "asked"
  /\ upsets = 0

Connection == Connect \/ Reconnect
Starting == Send \/ ServiceStarts \/ StartReplies
Stopping == ServiceStops \/ StopReplies
Listing == Refetch \/ ServiceLists \/ ListArrives
Faults == PollFails \/ Closed \/ GiveUp \/ ListFails
UserSteps ==
  Run \/ Stop \/ Refresh \/ CancelFromList \/ ChangeTab \/ GoToRuns \/ GoToEditor
Next ==
  \/ ServiceMoves \/ StopIsNoted \/ Connection \/ Poll \/ Deliver
  \/ Starting \/ LeftStartGoesOn \/ Stopping \/ Listing
  \/ Faults \/ UserSteps

\* Timers fire, the service answers and sends, the browser handles what
\* arrives: of each group one step is enabled at a time.  Nothing is asked
\* of the runs or of the user.
Fairness ==
  /\ WF_vars(Connection) /\ WF_vars(Poll) /\ WF_vars(Deliver)
  /\ WF_vars(Starting) /\ WF_vars(LeftStartGoesOn) /\ WF_vars(Stopping)
  /\ WF_vars(Listing)

Spec == Init /\ [][Next]_vars /\ Fairness

-----------------------------------------------------------------------------
(* Properties.                                                             *)

TypeOK ==
  /\ rows \in [Runs -> RunStatus \cup {"none"}]
  /\ noted \in SUBSET Runs
  /\ link \in {"connecting", "open", "waiting"} /\ delay \in {3, 6, 12, 24, 30}
  /\ Len(mail) <= MaxMail
  /\ session.phase \in {"idle", "running", "finished", "error"}
  /\ session.run \in Runs \cup {NoRun}
  /\ view \in Views /\ upsets \in 0..MaxUpsets
  /\ start \in {"no", "saving", "posted", "answered", "refused"}
  /\ stop \in {"no", "sent", "done", "failed"} /\ left \in {"no", "saving", "posted"}
  /\ fetch \in {"no", "asked", "answered"}

\* The editor names no run as its own that is still waiting or was cancelled
\* in the queue: a reply that says "queued" leaves the session alone.
NamedRunWasClaimed ==
  session.run # NoRun => rows[session.run] \notin {"none", "queued", "cancelled"}

\* Whatever breaks, is refused or is left on the way, the session ends up at
\* what the service says: view-only exactly while a run is active, with the
\* run and the status of that run.
SessionFollowsTheService ==
  <>[](/\ session.phase = PhaseOf(StatusMessage.status)
       /\ session.run = StatusMessage.run /\ session.status = StatusMessage.status)

\* A run that ended while the page of the runs shows it in progress is
\* shown ended, with the status it ended with.
Overdue(r) ==
  /\ list[r] \in {"queued", "running", "stopping"}
  /\ rows[r] \in TerminalStatuses
RunsPageCatchesUp ==
  (view = "runs" /\ \E r \in Runs : Overdue(r))
  ~> (view # "runs" \/ \A r \in Runs : ~Overdue(r) /\ list[r] \in {rows[r], "none"})

\* A run that completes while the results tab is open and the session names
\* it appears in the tab's list, although the run's end is shown as no run;
\* unless a request to stop it was handled so late that the manifest says
\* "stopping" for good, by which the run is in no list of results.
ResultsCatchUp ==
  \A r \in Runs :
    (view = "results" /\ session.run = r /\ rows[r] \in Completed)
    ~> (view # "results" \/ list[r] = rows[r] \/ list = Failed \/ r \in noted)
=============================================================================
