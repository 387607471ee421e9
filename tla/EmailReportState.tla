-------------------------- MODULE EmailReportState ---------------------------
(***************************************************************************)
(* What EmailReports is about and what it promises of the mails: the rows, *)
(* what was approved of them and what the provider accepted.               *)
(***************************************************************************)
EXTENDS Naturals, Sequences

CONSTANTS
    Reports,        \* identifiers of emailReport rows
    Audience,       \* each report's day, campus and batch
    Contents,
    Callers,        \* requests under way
    MaxMails,       \* bound on the mails the provider accepts for a report
    Environments,   \* the sets of faults to consider
    None

AllFaults == {"crash", "db", "reply", "reapprove"}

ASSUME EmailReportsAssumption ==
    /\ None \notin Reports
    /\ None \notin Contents
    /\ MaxMails \in Nat
    /\ Environments \subseteq SUBSET AllFaults

VARIABLES
    status, content,    \* the columns of the rows
    approved,           \* what each report held when it was last approved
    mail,               \* what the provider accepted for it, and whether forced
    request,            \* the requests
    faults              \* what may go wrong, fixed from the start

-----------------------------------------------------------------------------
(* No mail leaves for a report no person approved, whatever the nightly    *)
(* task, retries and concurrent requests do ("refuses to run against       *)
(* anything but an APPROVED row").                                         *)
MailedOnlyIfApproved == \A r \in Reports : mail[r] # <<>> => approved[r] # None

(* SENT is the provider's word: a report shown as sent was accepted by it, *)
(* even when requests on one report overlap ("the provider decides SENT"). *)
SentWasMailed == \A r \in Reports : status[r] = "SENT" => mail[r] # <<>>

(* One mail per report ("Exactly one send per report"), whatever overlaps. *)
ExactlyOneSend == \A r \in Reports : Len(mail[r]) <= 1

(* It holds, through retries, crashes and edits, where a report is         *)
(* approved once and neither the provider's reply nor the write of the     *)
(* outcome is lost.                                                        *)
OneMailPerReport == faults \subseteq {"crash"} => ExactlyOneSend
=============================================================================
