--------------------------- MODULE EmailIngestion ---------------------------
(***************************************************************************)
(* Copy filed by email.  SES stores a mail in the email bucket and then    *)
(* invokes the ingestion lambda asynchronously with its verdicts.  Such an *)
(* invocation is run again when it throws or times out; unlike a batch     *)
(* from a queue, it is not run again for the batchItemFailures it returns. *)
(***************************************************************************)
EXTENDS Naturals, FiniteSets

CONSTANTS
    Emails,       \* the mails
    Failed,       \* the SES verdicts of each mail that are not PASS
    ArcValid,     \* the mails whose ARC seal vouches for SPF
    MaxAttempts,  \* how often Lambda runs an asynchronous invocation: 3
    MaxFaults     \* bound: failing calls and crashes

Verdicts == {"spam", "virus", "spf", "dkim", "dmarc"}

ASSUME EmailAssumption ==
    /\ Failed \in [Emails -> SUBSET Verdicts]
    /\ ArcValid \subseteq Emails
    /\ MaxAttempts \in Nat \ {0} /\ MaxFaults \in Nat

VARIABLES
    phase,     \* where the invocation for each mail is
    attempts,  \* how often it was started
    rows,      \* how many rows of the database are the mail's
    logged,    \* the mails with an INGESTION_FAILURE in the log
    faults

vars == <<phase, attempts, rows, logged, faults>>

Running == {"connecting", "verifying", "fetching", "parsing", "inserting", "returning"}

\* The types of the invocations, the rows and the log.
TypeOK ==
    /\ phase \in [Emails -> Running \union {"unsent", "queued", "over"}]
    /\ attempts \in [Emails -> 0..MaxAttempts]
    /\ rows \in [Emails -> Nat]
    /\ logged \subseteq Emails
    /\ faults \in 0..MaxFaults

Init ==
    /\ phase = [e \in Emails |-> "unsent"]
    /\ attempts = [e \in Emails |-> 0]
    /\ rows = [e \in Emails |-> 0]
    /\ logged = {}
    /\ faults = 0

-----------------------------------------------------------------------------
At(e, p) == phase[e] = p
GoTo(e, p) == phase' = [phase EXCEPT ![e] = p]
Fault == faults < MaxFaults /\ faults' = faults + 1

\* The rule incoming-copy-email-rule: the S3 action, then the lambda's.
Arrive(e) ==
    /\ At(e, "unsent")
    /\ GoTo(e, "queued")
    /\ UNCHANGED <<attempts, rows, logged, faults>>

Invoke(e) ==
    /\ At(e, "queued")
    /\ GoTo(e, "connecting")
    /\ attempts' = [attempts EXCEPT ![e] = @ + 1]
    /\ UNCHANGED <<rows, logged, faults>>

Connect(e) ==
    /\ At(e, "connecting")
    /\ GoTo(e, "verifying")
    /\ UNCHANGED <<attempts, rows, logged, faults>>

\* Mutant of Passes: any one verdict may fail if there is an ARC seal.
PassesArc(e) == Failed[e] = {} \/ (Cardinality(Failed[e]) = 1 /\ e \in ArcValid)

\* findVerificationFailures: if SPF alone failed, the mail is read from the
\* bucket for its ARC seal.
Passes(e) == Failed[e] = {} \/ (Failed[e] = {"spf"} /\ e \in ArcValid)

Verify(e) ==
    /\ At(e, "verifying")
    /\ IF Passes(e)
       THEN GoTo(e, "fetching") /\ UNCHANGED logged
       ELSE GoTo(e, "returning") /\ logged' = logged \union {e}
    /\ UNCHANGED <<attempts, rows, faults>>

GetObject(e) ==
    /\ At(e, "fetching")
    /\ GoTo(e, "parsing")
    /\ UNCHANGED <<attempts, rows, logged, faults>>

Parse(e) ==
    /\ At(e, "parsing")
    /\ GoTo(e, "inserting")
    /\ UNCHANGED <<attempts, rows, logged, faults>>

PutItemToDb(e) ==
    /\ At(e, "inserting")
    /\ GoTo(e, "returning")
    /\ rows' = [rows EXCEPT ![e] = 1]
    /\ UNCHANGED <<attempts, logged, faults>>

\* Mutant of FailSoftly: the failure is not logged.
FailSilently(e) ==
    /\ phase[e] \in {"fetching", "inserting"}
    /\ Fault
    /\ GoTo(e, "returning")
    /\ UNCHANGED <<attempts, rows, logged>>

\* getObject or the insertion fails: it is logged, and returned in
\* batchItemFailures.
FailSoftly(e) ==
    /\ phase[e] \in {"fetching", "inserting"}
    /\ Fault
    /\ GoTo(e, "returning")
    /\ logged' = logged \union {e}
    /\ UNCHANGED <<attempts, rows>>

Return(e) ==
    /\ At(e, "returning")
    /\ GoTo(e, "over")
    /\ UNCHANGED <<attempts, rows, logged, faults>>

\* The handler throws (connecting, reading the mail for its ARC seal, parsing,
\* closing the connection) or the lambda times out: Lambda tries again, or
\* discards the event after the last attempt.
Throw(e) ==
    /\ phase[e] \in Running
    /\ Fault
    /\ GoTo(e, IF attempts[e] < MaxAttempts THEN "queued" ELSE "over")
    /\ UNCHANGED <<attempts, rows, logged>>

Next ==
    \E e \in Emails :
        \/ Arrive(e) \/ Invoke(e) \/ Connect(e) \/ Verify(e) \/ GetObject(e) \/ Parse(e)
        \/ PutItemToDb(e) \/ FailSoftly(e) \/ Return(e) \/ Throw(e)

Spec == Init /\ [][Next]_vars

\* Beyond the checks, what passed them; and what returns is stored or logged.
Checked == \A e \in Emails : phase[e] \in {"fetching", "parsing", "inserting"} => Passes(e)
Answered == \A e \in Emails : At(e, "returning") => rows[e] = 1 \/ e \in logged
AttemptsLeft ==
    \A e \in Emails : phase[e] \in {"unsent", "queued"} => attempts[e] < MaxAttempts

-----------------------------------------------------------------------------
\* The checks a mail must pass, as the comments of findVerificationFailures
\* say it: nothing but SPF may fail, and then ARC must vouch for it.
Trusted == {e \in Emails : Failed[e] \subseteq {"spf"} /\ (Failed[e] # {} => e \in ArcValid)}

\* Only mail that passes the checks gets into the database, on any attempt.
RowsTrusted == \A e \in Emails : rows[e] > 0 => e \in Trusted

\* A mail has one row however often its invocation is repeated.
OneRowPerEmail == \A e \in Emails : rows[e] <= 1

\* No mail is dropped silently: when Lambda is done with it, it is stored, or
\* the log says why not, or Lambda has given up on the last attempt.
NoSilentLoss ==
    \A e \in Emails :
        At(e, "over") => rows[e] = 1 \/ e \in logged \/ attempts[e] = MaxAttempts

\* What need not be retried is mail that does not pass its checks: any other
\* is stored, or has been tried as often as Lambda tries.
RetriedUntilStored ==
    \A e \in Emails :
        At(e, "over") => rows[e] = 1 \/ e \notin Trusted \/ attempts[e] = MaxAttempts

\* The inductive invariant behind the three: the steps of one attempt, and
\* what they leave to the next.
IInv ==
    /\ TypeOK /\ RowsTrusted /\ OneRowPerEmail /\ NoSilentLoss
    /\ Checked /\ Answered /\ AttemptsLeft
=============================================================================
