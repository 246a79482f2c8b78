-------------------------- MODULE RunMonitorProofs --------------------------
(***************************************************************************)
(* What the editor says of the runs, for any number of runs, messages on   *)
(* their way, breaks of the connection and visits of the pages.            *)
(***************************************************************************)
EXTENDS RunMonitor, TLAPS

Sessions ==
  [phase : {"idle", "running", "finished", "error"}, run : Runs \cup {NoRun},
   status : ActiveStatuses \cup {"none", "idle", "finished", "error"}]

Types ==
  /\ TypeOK
  /\ mail \in Seq(Messages) /\ session \in Sessions

\* A run that a worker has claimed stays one: no status leads from there to
\* "cancelled", which a run reaches in the queue only.
Claimed(r) == rows[r] \notin {"none", "queued", "cancelled"}
RowsGrow ==
  /\ rows' \in [Runs -> RunStatus \cup {"none"}]
  /\ \A r \in Runs : Claimed(r) => Claimed(r)'

Claims(message) == message.run # NoRun => Claimed(message.run)
MailClaimed == \A i \in 1..Len(mail) : Claims(mail[i])

\* The session takes its run from messages, so the messages on their way
\* have to name claimed runs as well.
IInv == Types /\ MailClaimed /\ NamedRunWasClaimed

-----------------------------------------------------------------------------
(* The rows.                                                               *)

\* A submission changes a run that has no row.
LEMMA SubmitGrows == ASSUME Types, Submit PROVE RowsGrow
<1>1. PICK u \in Unused : rows' = [rows EXCEPT ![u] = "queued"]
  BY DEF Submit
<1> QED BY <1>1 DEF RowsGrow, Claimed, Unused, Types, TypeOK, RunStatus

\* The requests to stop change running rows only.
LEMMA StoppedGrows ==
  ASSUME Types,
         rows' = [r \in Runs |-> IF rows[r] = "running" THEN "stopping" ELSE rows[r]]
  PROVE  RowsGrow
BY DEF RowsGrow, Claimed, Types, TypeOK, RunStatus

\* What does not change the rows lets them grow.
LEMMA SameRowsGrow == ASSUME Types, UNCHANGED rows PROVE RowsGrow
BY DEF RowsGrow, Claimed, Types, TypeOK

\* A run that ends while its status is read was active before.
LEMMA ReadGrows == ASSUME Types, NEW message, StatusRead(message) PROVE RowsGrow
<1>1. CASE UNCHANGED rows BY <1>1, SameRowsGrow
<1>2. CASE ~UNCHANGED rows
  <2>1. PICK r \in ActiveRuns :
          \E s \in AllowedTransitions[rows[r]] : rows' = [rows EXCEPT ![r] = s]
    BY <1>2 DEF StatusRead, service
  <2>2. PICK s \in AllowedTransitions[rows[r]] : rows' = [rows EXCEPT ![r] = s]
    BY <2>1
  <2>3. r \in Runs /\ rows[r] \in {"running", "stopping"}
    BY DEF ActiveRuns, ActiveStatuses
  <2>4. s \in {"stopping", "complete", "partial", "failed"}
    BY <2>3 DEF AllowedTransitions
  <2> QED BY <2>2, <2>3, <2>4 DEF RowsGrow, Claimed, Types, TypeOK, RunStatus
<1> QED BY <1>1, <1>2

\* Every step keeps the runs claimed that are.
LEMMA RowsStep == ASSUME Types, [Next]_vars PROVE RowsGrow
<1>1. CASE ServiceMoves
  <2>1. CASE Submit BY <2>1, SubmitGrows
  <2>2. CASE ~Submit
    <3>0. PICK r \in Runs \ Unused :
            \E s \in AllowedTransitions[rows[r]] : rows' = [rows EXCEPT ![r] = s]
      BY <1>1, <2>2 DEF ServiceMoves
    <3>1. PICK s \in AllowedTransitions[rows[r]] : rows' = [rows EXCEPT ![r] = s]
      BY <3>0
    <3>2. rows[r] \in RunStatus
      BY DEF Unused, Types, TypeOK
    <3>3. s \in RunStatus /\ (s = "cancelled" => rows[r] = "queued") /\ s # "queued"
      BY <3>1, <3>2 DEF AllowedTransitions, RunStatus
    <3> QED BY <3>1, <3>2, <3>3 DEF RowsGrow, Claimed, Types, TypeOK, RunStatus
  <2> QED BY <2>1, <2>2
<1>2. CASE Starting
  <2>1. CASE UNCHANGED rows BY <2>1, SameRowsGrow
  <2>2. CASE Submit BY <2>2, SubmitGrows
  <2> QED BY <1>2, <2>1, <2>2 DEF Starting, Send, ServiceStarts, StartReplies, service
<1>3. CASE LeftStartGoesOn
  <2>1. CASE UNCHANGED rows BY <2>1, SameRowsGrow
  <2>2. CASE Submit BY <2>2, SubmitGrows
  <2> QED BY <1>3, <2>1, <2>2 DEF LeftStartGoesOn
<1>4. CASE Stopping
  <2>1. CASE UNCHANGED rows BY <2>1, SameRowsGrow
  <2>2. CASE rows' = [r \in Runs |-> IF rows[r] = "running" THEN "stopping" ELSE rows[r]]
    BY <2>2, StoppedGrows
  <2> QED BY <1>4, <2>1, <2>2 DEF Stopping, ServiceStops, StopReplies, service
<1>5. CASE CancelFromList
  <2>1. PICK r \in Runs :
          rows' = CASE rows[r] = "queued" -> [rows EXCEPT ![r] = "cancelled"]
                    [] rows[r] = "running" -> [rows EXCEPT ![r] = "stopping"]
                    [] OTHER -> rows
    BY <1>5 DEF CancelFromList
  <2> QED BY <2>1 DEF RowsGrow, Claimed, Types, TypeOK, RunStatus
<1>6. CASE ChangeTab \/ GoToRuns
  <2>1. CASE UNCHANGED rows BY <2>1, SameRowsGrow
  <2>2. CASE rows' = [r \in Runs |-> IF rows[r] = "running" THEN "stopping" ELSE rows[r]]
    BY <2>2, StoppedGrows
  <2> QED BY <1>6, <2>1, <2>2 DEF ChangeTab, GoToRuns, Unheard
<1>7. CASE Connect \/ Poll
  <2>1. PICK message \in Messages : StatusRead(message) BY <1>7 DEF Connect, Poll
  <2> QED BY <2>1, ReadGrows
<1>8. CASE \/ StopIsNoted \/ Reconnect \/ Deliver \/ Listing \/ Faults
           \/ Run \/ Stop \/ Refresh \/ GoToEditor \/ UNCHANGED vars
  <2>1. UNCHANGED rows
    BY <1>8 DEF service, StopIsNoted, Reconnect, Deliver, Listing, Refetch,
                ServiceLists, ListArrives, Faults, PollFails, Closed, GiveUp, ListFails,
                Run, Stop, Refresh, GoToEditor, vars
  <2> QED BY <2>1, SameRowsGrow
<1> QED BY <1>1, <1>2, <1>3, <1>4, <1>5, <1>6, <1>7, <1>8 DEF Next, UserSteps, Connection

-----------------------------------------------------------------------------
(* The messages.                                                           *)

\* The service's message names an active run, or none.
LEMMA StatusMessageClaims ==
  ASSUME Types PROVE StatusMessage \in Messages /\ Claims(StatusMessage)
<1>1. CASE ActiveRuns = {}
  BY <1>1 DEF StatusMessage, IdleMessage, Messages, Claims
<1>2. CASE ActiveRuns # {}
  <2> DEFINE r == CHOOSE x \in ActiveRuns : TRUE
  <2>1. r \in ActiveRuns BY <1>2
  <2>2. StatusMessage = [status |-> rows[r], run |-> r]
    BY <1>2 DEF StatusMessage
  <2> QED BY <2>1, <2>2 DEF ActiveRuns, ActiveStatuses, Messages, Claims, Claimed
<1> QED BY <1>1, <1>2

\* What the service reads names a run that is active, or was until then.
LEMMA ReadClaims ==
  ASSUME Types, NEW message \in Messages, StatusRead(message)
  PROVE  Claims(message)'
<1>1. CASE message = StatusMessage /\ UNCHANGED rows
  BY <1>1, StatusMessageClaims DEF Claims, Claimed
<1>2. CASE ~(message = StatusMessage /\ UNCHANGED rows)
  <2>1. PICK r \in ActiveRuns : /\ message.run = r
          /\ \E s \in AllowedTransitions[rows[r]] : rows' = [rows EXCEPT ![r] = s]
    BY <1>2 DEF StatusRead, service
  <2>2. r \in Runs /\ Claimed(r)
    BY DEF ActiveRuns, ActiveStatuses, Claimed
  <2>3. RowsGrow BY ReadGrows
  <2> QED BY <2>1, <2>2, <2>3 DEF Claims, RowsGrow
<1> QED BY <1>1, <1>2

LEMMA IdleMessageClaims == IdleMessage \in Messages /\ Claims(IdleMessage)
BY DEF IdleMessage, Messages, Claims

\* The messages on their way after a step.
MailOK == mail' \in Seq(Messages) /\ Len(mail') <= MaxMail /\ MailClaimed'

\* The messages on their way go on to name claimed runs.
LEMMA SameMailOK == ASSUME IInv, RowsGrow, UNCHANGED mail PROVE MailOK
<1>1. \A i \in 1..Len(mail) : mail[i] \in Messages
  BY DEF IInv, Types
<1> QED
  BY <1>1 DEF MailOK, MailClaimed, Claims, RowsGrow, IInv, Types, TypeOK, Messages

\* A message that names a claimed run, or none, may follow the others.
LEMMA AppendOK ==
  ASSUME IInv, RowsGrow, NEW m \in Messages, Claims(m)',
         Len(mail) < MaxMail, mail' = Append(mail, m)
  PROVE  MailOK
<1>1. mail' \in Seq(Messages) /\ Len(mail') = Len(mail) + 1
  BY DEF IInv, Types
<1>2. Len(mail') <= MaxMail
  BY <1>1, BoundAssumption DEF IInv, Types
<1>3. ASSUME NEW i \in 1..Len(mail') PROVE Claims(mail[i])'
  <2>1. mail'[i] = IF i <= Len(mail) THEN mail[i] ELSE m
    BY <1>1 DEF IInv, Types
  <2>2. CASE i <= Len(mail)
    <3>1. i \in 1..Len(mail) BY <1>1, <2>2 DEF IInv, Types
    <3>2. Claims(mail[i]) BY <3>1 DEF IInv, MailClaimed
    <3>3. mail'[i] = mail[i] BY <2>1, <2>2
    <3>4. mail[i] \in Messages BY <3>1 DEF IInv, Types
    <3> QED BY <3>2, <3>3, <3>4 DEF Claims, Messages, RowsGrow
  <2>3. CASE ~(i <= Len(mail))
    <3>1. mail'[i] = m BY <2>1, <2>3
    <3> QED BY <3>1 DEF Claims
  <2> QED BY <2>2, <2>3
<1> QED BY <1>1, <1>2, <1>3 DEF MailOK, MailClaimed

\* Every step leaves messages on their way that name claimed runs.
LEMMA MailStep == ASSUME IInv, [Next]_vars PROVE MailOK
<1>0. RowsGrow BY RowsStep DEF IInv
<1>1. CASE Connect
  <2>1. PICK message \in Messages : StatusRead(message) /\ mail' = <<message>>
    BY <1>1 DEF Connect
  <2>2. Claims(message)' BY <2>1, ReadClaims DEF IInv
  <2>3. MailClaimed' BY <2>1, <2>2 DEF MailClaimed, Claims
  <2> QED BY <2>1, <2>3, BoundAssumption DEF MailOK
<1>2. CASE Poll
  <2>1. PICK message \in Messages :
          StatusRead(message) /\ mail' = Append(mail, message)
    BY <1>2 DEF Poll
  <2>2. Claims(message)' BY <2>1, ReadClaims DEF IInv
  <2> QED BY <1>0, <1>2, <2>1, <2>2, AppendOK DEF Poll
<1>3. CASE PollFails
  BY <1>0, <1>3, IdleMessageClaims, AppendOK DEF PollFails, Claims, Claimed, service
<1>4. CASE Deliver
  <2>1. mail # <<>> /\ mail' = Tail(mail) /\ UNCHANGED rows BY <1>4 DEF Deliver, service
  <2>2. /\ mail' \in Seq(Messages) /\ Len(mail') = Len(mail) - 1
        /\ \A i \in 1..Len(mail') : mail'[i] = mail[i + 1]
    BY <2>1 DEF IInv, Types
  <2>3. Len(mail') <= MaxMail
    BY <2>2, BoundAssumption DEF IInv, Types, TypeOK
  <2>4. \A i \in 1..Len(mail') : Claims(mail[i + 1])
    BY <2>2 DEF IInv, Types, MailClaimed
  <2> QED BY <2>1, <2>2, <2>3, <2>4 DEF MailOK, MailClaimed, Claims, Claimed
<1>5. CASE mail' = <<>>
  BY <1>5, BoundAssumption DEF MailOK, MailClaimed
<1>6. CASE UNCHANGED mail
  BY <1>0, <1>6, SameMailOK
<1> QED
  BY <1>1, <1>2, <1>3, <1>4, <1>5, <1>6
  DEF Next, ServiceMoves, StopIsNoted, Connection, Reconnect, Starting, Send, ServiceStarts,
      StartReplies, LeftStartGoesOn, Stopping, ServiceStops, StopReplies, Listing,
      Refetch, ServiceLists, ListArrives, Faults, Closed, GiveUp, ListFails, UserSteps,
      Run, Stop, Refresh, CancelFromList, ChangeTab, GoToRuns, GoToEditor, Fresh,
      vars, socket, service

-----------------------------------------------------------------------------
(* The session.                                                            *)

SessionOK == session' \in Sessions /\ NamedRunWasClaimed'

\* A session that keeps its run goes on to name a claimed one.
LEMMA SameRunOK ==
  ASSUME IInv, RowsGrow, session' \in Sessions, session'.run = session.run
  PROVE  SessionOK
BY DEF SessionOK, RowsGrow, IInv, Types, Sessions, NamedRunWasClaimed, Claimed

\* The session of the optimistic start has the same run as before, or none.
LEMMA OptimisticOK ==
  ASSUME IInv, RowsGrow, session' = Optimistic(session) PROVE SessionOK
<1>1. CASE session.phase = "running"
  BY <1>1, SameRunOK DEF Optimistic, IInv, Types
<1>2. CASE session.phase # "running"
  BY <1>2 DEF Optimistic, SessionOK, Sessions, ActiveStatuses, NamedRunWasClaimed
<1> QED BY <1>1, <1>2

\* Every step leaves a session that names a claimed run or none.
LEMMA SessionStep == ASSUME IInv, [Next]_vars PROVE SessionOK
<1>0. RowsGrow BY RowsStep DEF IInv
<1>1. CASE Deliver
  <2> DEFINE m == Head(mail)
  <2>1. mail # <<>> /\ UNCHANGED rows BY <1>1 DEF Deliver, service
  <2>2. m = mail[1] /\ 1 \in 1..Len(mail) /\ m \in Messages
    BY <2>1 DEF IInv, Types
  <2>3. Claims(m) BY <2>2 DEF IInv, MailClaimed
  <2>4. session' = [phase |-> PhaseOf(m.status), run |-> m.run, status |-> m.status]
    BY <1>1 DEF Deliver, SessionBecomes
  <2>5. PhaseOf(m.status) \in {"idle", "running", "finished", "error"}
    BY DEF PhaseOf
  <2>6. session' \in Sessions BY <2>2, <2>4, <2>5 DEF Sessions, Messages
  <2> QED BY <2>1, <2>3, <2>4, <2>6
          DEF SessionOK, NamedRunWasClaimed, Claims, Claimed
<1>2. CASE Send
  BY <1>0, <1>2, OptimisticOK DEF Send, SessionBecomes
<1>3. CASE LeftStartGoesOn
  <2>1. CASE UNCHANGED session BY <1>0, <2>1, SameRunOK DEF IInv, Types
  <2>2. CASE session' = Optimistic(session) BY <1>0, <2>2, OptimisticOK
  <2> QED BY <1>3, <2>1, <2>2 DEF LeftStartGoesOn, SessionBecomes
<1>4. CASE StartReplies
  <2>1. CASE start = "refused"
    <3>1. session' = [session EXCEPT !.phase = "error", !.status = "error"]
      BY <1>4, <2>1 DEF StartReplies, SessionBecomes
    <3> QED BY <1>0, <3>1, SameRunOK DEF IInv, Types, Sessions
  <2>2. CASE start # "refused"
    <3>1. UNCHANGED session
      BY <1>4, <2>2 DEF StartReplies, SessionBecomes, Answered
    <3> QED BY <1>0, <3>1, SameRunOK DEF IInv, Types
  <2> QED BY <2>1, <2>2
<1>5. CASE StopReplies
  <2>1. \/ UNCHANGED session
        \/ session' = [session EXCEPT !.phase = "running", !.status = "stopping"]
    BY <1>5 DEF StopReplies, SessionBecomes
  <2>2. session' \in Sessions /\ session'.run = session.run
    BY <2>1 DEF IInv, Types, Sessions, ActiveStatuses
  <2> QED BY <1>0, <2>2, SameRunOK
<1>6. CASE UNCHANGED session
  BY <1>0, <1>6, SameRunOK DEF IInv, Types
<1> QED
  BY <1>1, <1>2, <1>3, <1>4, <1>5, <1>6
  DEF Next, ServiceMoves, StopIsNoted, Connection, Connect, Reconnect, Poll, Starting,
      ServiceStarts, Stopping, ServiceStops, Listing, Refetch, ServiceLists,
      ListArrives, Faults, PollFails, Closed, GiveUp, ListFails, UserSteps, Run, Stop,
      Refresh, CancelFromList, ChangeTab, GoToRuns, GoToEditor, vars

-----------------------------------------------------------------------------
(* The types.                                                              *)

\* The types of the other variables, after a step.
OtherTypes ==
  /\ link' \in {"connecting", "open", "waiting"} /\ delay' \in {3, 6, 12, 24, 30}
  /\ view' \in Views /\ upsets' \in 0..MaxUpsets
  /\ noted' \in SUBSET Runs
  /\ start' \in {"no", "saving", "posted", "answered", "refused"}
  /\ stop' \in {"no", "sent", "done", "failed"} /\ left' \in {"no", "saving", "posted"}
  /\ fetch' \in {"no", "asked", "answered"}

\* A step that counts as an upset stays within the bound.
LEMMA UpsetCounts == ASSUME TypeOK, Upset PROVE upsets' \in 0..MaxUpsets
BY BoundAssumption DEF TypeOK, Upset

LEMMA OtherStep == ASSUME TypeOK, [Next]_vars PROVE OtherTypes
<1>1. CASE ServiceMoves \/ Connection \/ Poll \/ UNCHANGED vars
  BY <1>1 DEF OtherTypes, TypeOK, ServiceMoves, Connection, Connect, Reconnect, Poll,
              StatusRead, service, socket, requests, listing, vars
<1>11. CASE StopIsNoted
  <2>1. upsets' \in 0..MaxUpsets
    BY <1>11, UpsetCounts DEF StopIsNoted
  <2> QED BY <1>11, <2>1 DEF OtherTypes, TypeOK, StopIsNoted, socket, requests, listing
<1>2. CASE Deliver
  BY <1>2 DEF OtherTypes, TypeOK, service, Deliver, SessionBecomes, FetchIf, requests
<1>3. CASE Starting
  <2>1. upsets' \in 0..MaxUpsets
    BY <1>3, UpsetCounts
    DEF Starting, Send, ServiceStarts, StartReplies, TypeOK
  <2>2. CASE Send
    BY <2>1, <2>2 DEF OtherTypes, TypeOK, service, Send, SessionBecomes, FetchIf, socket
  <2>4. CASE StartReplies
    <3>1. PICK s : SessionBecomes(s)
      BY <2>4 DEF StartReplies
    <3>2. fetch' \in {"no", "asked", "answered"}
      BY <3>1 DEF TypeOK, SessionBecomes, FetchIf
    <3> QED
      BY <2>1, <2>4, <3>2 DEF OtherTypes, TypeOK, service, StartReplies, socket
  <2>3. CASE ServiceStarts
    BY <2>1, <2>3 DEF OtherTypes, TypeOK, ServiceStarts, socket, listing
  <2> QED BY <1>3, <2>2, <2>3, <2>4 DEF Starting
<1>4. CASE LeftStartGoesOn
  BY <1>4 DEF OtherTypes, TypeOK, service, LeftStartGoesOn, SessionBecomes, FetchIf, socket,
              listing
<1>5. CASE Stopping
  BY <1>5 DEF OtherTypes, TypeOK, service, Stopping, ServiceStops, StopReplies, SessionBecomes,
              FetchIf, socket, listing
<1>6. CASE Listing
  BY <1>6 DEF OtherTypes, TypeOK, service, Listing, Refetch, ServiceLists, ListArrives, FetchIf,
              socket, requests
<1>7. CASE Faults
  <2>1. upsets' \in 0..MaxUpsets
    BY <1>7, UpsetCounts DEF Faults, PollFails, Closed, GiveUp, ListFails
  <2> QED BY <1>7, <2>1
          DEF OtherTypes, TypeOK, service, Faults, PollFails, Closed, GiveUp, ListFails, socket,
              requests, listing
<1>8. CASE Run \/ Stop
  BY <1>8 DEF OtherTypes, TypeOK, service, Run, Stop, socket, listing
<1>9. CASE Refresh \/ CancelFromList
  <2>1. upsets' \in 0..MaxUpsets
    BY <1>9, UpsetCounts DEF Refresh, CancelFromList
  <2> QED BY <1>9, <2>1
          DEF OtherTypes, TypeOK, service, Refresh, CancelFromList, FetchIf, socket, requests
<1>10. CASE ChangeTab \/ GoToRuns \/ GoToEditor
  <2>1. upsets' \in 0..MaxUpsets
    BY <1>10, UpsetCounts DEF ChangeTab, GoToRuns, GoToEditor
  <2> QED BY <1>10, <2>1
          DEF OtherTypes, TypeOK, service, ChangeTab, GoToRuns, GoToEditor, Open, Fresh, Unheard,
              Views, socket, requests
<1> QED BY <1>1, <1>2, <1>3, <1>4, <1>5, <1>6, <1>7, <1>8, <1>9, <1>10, <1>11
        DEF Next, UserSteps

-----------------------------------------------------------------------------
(* The inductive invariant.                                                *)

LEMMA InitInv == ASSUME Init PROVE IInv
<1>1. mail \in Seq(Messages) /\ Len(mail) = 0 /\ MailClaimed
  BY DEF Init, MailClaimed
<1>2. session \in Sessions /\ NamedRunWasClaimed
  BY DEF Init, Sessions, NamedRunWasClaimed
<1> QED BY <1>1, <1>2, BoundAssumption
        DEF IInv, Types, TypeOK, Init, Nothing, Views

LEMMA StepInv == ASSUME IInv, [Next]_vars PROVE IInv'
<1>1. MailOK /\ SessionOK BY MailStep, SessionStep
<1>2. RowsGrow BY RowsStep DEF IInv
<1>3. OtherTypes BY OtherStep DEF IInv, Types
<1>4. session'.phase \in {"idle", "running", "finished", "error"}
      /\ session'.run \in Runs \cup {NoRun}
  BY <1>1 DEF SessionOK, Sessions
<1>5. TypeOK' BY <1>1, <1>2, <1>3, <1>4 DEF TypeOK, MailOK, RowsGrow, OtherTypes
<1> QED BY <1>1, <1>5 DEF IInv, Types, MailOK, SessionOK

LEMMA Invariance == Spec => []IInv
<1>1. Init => IInv BY InitInv
<1>2. IInv /\ [Next]_vars => IInv' BY StepInv
<1> QED BY <1>1, <1>2, PTL DEF Spec

\* Every variable keeps its type: the delay between reconnections is at most
\* 30 seconds, whatever fails.
THEOREM MonitorTypeCorrect == Spec => []TypeOK
<1>1. IInv => TypeOK BY DEF IInv, Types
<1> QED BY <1>1, Invariance, PTL

\* The run the editor names as its own has been claimed by the worker, with
\* any number of runs, late messages, refused starts and pages left.
THEOREM EditorNamesClaimedRuns == Spec => []NamedRunWasClaimed
<1>1. IInv => NamedRunWasClaimed BY DEF IInv
<1> QED BY <1>1, Invariance, PTL
=============================================================================
