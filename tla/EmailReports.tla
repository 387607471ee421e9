---------------------------- MODULE EmailReports ----------------------------
(***************************************************************************)
(* The approval workflow of the daily report e-mails: EmailReportsService  *)
(* and the nightly report of CronTasksService.  A report is a row; every   *)
(* request reads it (mustFind), decides on what it read, and writes later, *)
(* so each request is a sequence of steps that others may come between.    *)
(* What is in a report (recipients, subject, body) is one value; the       *)
(* e-mail provider is external, and mail is what it accepted.              *)
(* EmailReportState has the variables and what is promised of the mails.   *)
(* Broken variants of an operator stand before it; no run uses them.       *)
(***************************************************************************)
EXTENDS EmailReportState

vars == <<status, content, approved, mail, request, faults>>

Statuses == {"ABSENT", "DRAFT", "PENDING_APPROVAL", "APPROVED", "SENDING", "SENT", "FAILED"}
(* Broken variant: a report that awaits approval may be sent as well. *)
SendableWhenPending == {"PENDING_APPROVAL", "APPROVED", "FAILED"}
Sendable == {"APPROVED", "FAILED"}
Frozen == {"APPROVED", "SENDING", "SENT"}
Done == [pc |-> "done", rep |-> None, content |-> None, force |-> FALSE]
Request(pc, r, value, force) == [pc |-> pc, rep |-> r, content |-> value, force |-> force]

Goto(c, pc) == request' = [request EXCEPT ![c].pc = pc]
Return(c) == request' = [request EXCEPT ![c] = Done]
SetStatus(c, st) == status' = [status EXCEPT ![request[c].rep] = st]

Init ==
    /\ status = [r \in Reports |-> "ABSENT"]
    /\ content = [r \in Reports |-> None]
    /\ approved = [r \in Reports |-> None]
    /\ mail = [r \in Reports |-> <<>>]
    /\ request = [c \in Callers |-> Done]
    /\ faults \in Environments

-----------------------------------------------------------------------------
(* generateDraft, by a mentor, *)
Create(r, value) ==
    /\ status[r] = "ABSENT"
    /\ status' = [status EXCEPT ![r] = "DRAFT"]
    /\ content' = [content EXCEPT ![r] = value]
    /\ UNCHANGED <<approved, mail>>

GenerateDraft(r, value) == Create(r, value) /\ UNCHANGED request

(* or by the nightly task, which goes on to submitForApproval.             *)
NightlyReport(c, r, value) ==
    /\ request[c].pc = "done"
    /\ Create(r, value)
    /\ request' = [request EXCEPT ![c] = Request("submit", r, None, FALSE)]

ReadForSubmit(c) ==
    /\ request[c].pc = "submit"
    /\ IF status[request[c].rep] = "DRAFT" THEN Goto(c, "pend") ELSE Return(c)
    /\ UNCHANGED <<status, content, approved, mail>>

MarkPending(c) ==
    /\ request[c].pc = "pend"
    /\ SetStatus(c, "PENDING_APPROVAL")
    /\ Return(c)
    /\ UNCHANGED <<content, approved, mail>>

(* previewOrEdit *)
Edit(c, r, value) ==
    /\ request[c].pc = "done"
    /\ status[r] \notin Frozen \cup {"ABSENT"}
    /\ request' = [request EXCEPT ![c] = Request("edit", r, value, FALSE)]
    /\ UNCHANGED <<status, content, approved, mail>>

SaveEdit(c) ==
    /\ request[c].pc = "edit"
    /\ content' = [content EXCEPT ![request[c].rep] = request[c].content]
    /\ Return(c)
    /\ UNCHANGED <<status, approved, mail>>

(* approve.  Without "reapprove" a report is approved by one request only. *)
Approve(c, r) ==
    /\ request[c].pc = "done"
    /\ status[r] \notin Frozen \cup {"ABSENT"}
    /\ \/ "reapprove" \in faults
       \/ approved[r] = None /\ \A d \in Callers : ~(request[d].pc = "approve" /\ request[d].rep = r)
    /\ request' = [request EXCEPT ![c] = Request("approve", r, None, FALSE)]
    /\ UNCHANGED <<status, content, approved, mail>>

MarkApproved(c) ==
    /\ request[c].pc = "approve"
    /\ SetStatus(c, "APPROVED")
    /\ approved' = [approved EXCEPT ![request[c].rep] = content[request[c].rep]]
    /\ Return(c)
    /\ UNCHANGED <<content, mail>>

-----------------------------------------------------------------------------
(* send: what it read is what it will send. *)
Send(c, r, force) ==
    /\ request[c].pc = "done"
    /\ status[r] \in Sendable
    /\ request' = [request EXCEPT ![c] = Request("prior", r, content[r], force)]
    /\ UNCHANGED <<status, content, approved, mail>>

SentBefore(r) == \E q \in Reports \ {r} : Audience[q] = Audience[r] /\ status[q] = "SENT"

(* Also the place of configurationProblem, which refuses in the same way.  *)
CheckPrior(c) ==
    /\ request[c].pc = "prior"
    /\ IF SentBefore(request[c].rep) /\ ~request[c].force THEN Return(c) ELSE Goto(c, "claim")
    /\ UNCHANGED <<status, content, approved, mail>>

(* Broken variant: an update by id instead of the conditional updateMany.  *)
ClaimById(c) ==
    /\ request[c].pc = "claim"
    /\ SetStatus(c, "SENDING")
    /\ Goto(c, "deliver")
    /\ UNCHANGED <<content, approved, mail>>

Claim(c) ==
    /\ request[c].pc = "claim"
    /\ IF status[request[c].rep] \in Sendable
       THEN SetStatus(c, "SENDING") /\ Goto(c, "deliver")
       ELSE Return(c) /\ UNCHANGED status
    /\ UNCHANGED <<content, approved, mail>>

MailOf(x) == [content |-> x.content, force |-> x.force]

(* Broken variant: a reply without a message id counts as a success. *)
DeliverOptimistic(c) ==
    /\ request[c].pc = "deliver"
    /\ Goto(c, "record")
    /\ \/ UNCHANGED mail
       \/ /\ Len(mail[request[c].rep]) < MaxMails
          /\ mail' = [mail EXCEPT ![request[c].rep] = Append(@, MailOf(request[c]))]
    /\ UNCHANGED <<status, content, approved>>

(* The provider refuses, or accepts; a reply lost on the way looks like a  *)
(* refusal.                                                                *)
Deliver(c) ==
    /\ request[c].pc = "deliver"
    /\ \/ Goto(c, "fail") /\ UNCHANGED mail
       \/ /\ Len(mail[request[c].rep]) < MaxMails
          /\ mail' = [mail EXCEPT ![request[c].rep] = Append(@, MailOf(request[c]))]
          /\ \/ Goto(c, "record")
             \/ "reply" \in faults /\ Goto(c, "fail")
    /\ UNCHANGED <<status, content, approved>>

MarkSent(c) ==
    /\ request[c].pc = "record"
    /\ \/ SetStatus(c, "SENT") /\ Return(c)
       \/ "db" \in faults /\ Goto(c, "fail") /\ UNCHANGED status
    /\ UNCHANGED <<content, approved, mail>>

(* Broken variant: a refusal is only reported to the caller. *)
ThrowOnly(c) ==
    /\ request[c].pc = "fail"
    /\ Return(c)
    /\ UNCHANGED <<status, content, approved, mail>>

RecordFailure(c) ==
    /\ request[c].pc = "fail"
    /\ \/ SetStatus(c, "FAILED")
       \/ "db" \in faults /\ UNCHANGED status
    /\ Return(c)
    /\ UNCHANGED <<content, approved, mail>>

Crash(c) ==
    /\ "crash" \in faults
    /\ request[c].pc # "done"
    /\ Return(c)
    /\ UNCHANGED <<status, content, approved, mail>>

-----------------------------------------------------------------------------
CallStep(c) ==
    \/ ReadForSubmit(c) \/ MarkPending(c) \/ SaveEdit(c) \/ MarkApproved(c)
    \/ CheckPrior(c) \/ Claim(c) \/ Deliver(c) \/ MarkSent(c) \/ RecordFailure(c)

Arrival(c, r) ==
    \/ Approve(c, r)
    \/ \E force \in BOOLEAN : Send(c, r, force)
    \/ \E value \in Contents : NightlyReport(c, r, value) \/ Edit(c, r, value)

Next ==
    /\ UNCHANGED faults
    /\ \/ \E r \in Reports, value \in Contents : GenerateDraft(r, value)
       \/ \E c \in Callers : \/ CallStep(c) \/ Crash(c)
                             \/ \E r \in Reports : Arrival(c, r)

Spec == Init /\ [][Next]_vars

(* A request that was accepted runs on; nobody is obliged to make one.     *)
FairSpec == Spec /\ \A c \in Callers : WF_vars(CallStep(c) /\ UNCHANGED faults)

-----------------------------------------------------------------------------
Pcs == {"done", "submit", "pend", "edit", "approve", "prior", "claim", "deliver", "record", "fail"}
Requests == [pc : Pcs, rep : Reports \cup {None}, content : Contents \cup {None}, force : BOOLEAN]
Mails == [content : Contents, force : BOOLEAN]

(* Typing of the rows, the requests and the mails; a request under way     *)
(* names a report that exists, and one that sends or edits has a content.  *)
TypeOK ==
    /\ status \in [Reports -> Statuses]
    /\ content \in [Reports -> Contents \cup {None}]
    /\ approved \in [Reports -> Contents \cup {None}]
    /\ mail \in [Reports -> Seq(Mails)]
    /\ request \in [Callers -> Requests]
    /\ faults \in Environments
    /\ \A r \in Reports : status[r] # "ABSENT" => content[r] # None
    /\ \A c \in Callers : request[c].pc # "done" =>
         /\ request[c].rep \in Reports /\ status[request[c].rep] # "ABSENT"
         /\ request[c].pc \in {"edit", "prior", "claim", "deliver"} => request[c].content # None

(* What goes out is what was approved ("Approval freezes the content: what *)
(* a mentor approved must be what goes out").                              *)
ApprovedContentMailed ==
    [][\A r \in Reports : mail'[r] # mail[r] =>
         mail'[r][Len(mail'[r])].content = approved[r]]_vars

(* A claimed report does not stay in SENDING ("A throw anywhere leaves     *)
(* FAILED with the reason recorded"), as long as processes and database    *)
(* stay up.                                                                *)
ClaimsEnd ==
    \A r \in Reports :
        status[r] = "SENDING" /\ faults \cap {"crash", "db"} = {}
            ~> status[r] # "SENDING"
=============================================================================
