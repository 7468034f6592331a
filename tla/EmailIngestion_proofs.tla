----------------------- MODULE EmailIngestion_proofs -----------------------
(***************************************************************************)
(* What holds of the email route for any mails and any faults.             *)
(***************************************************************************)
EXTENDS EmailIngestion, TLAPS

\* Every step concerns one mail; the arguments below are about that mail.
Step(e) ==
    \/ Arrive(e) \/ Invoke(e) \/ Connect(e) \/ Verify(e) \/ GetObject(e) \/ Parse(e)
    \/ PutItemToDb(e) \/ FailSoftly(e) \/ Return(e) \/ Throw(e)

\* findVerificationFailures passes exactly the mail its comments trust.
LEMMA PassesTrusted == ASSUME NEW e \in Emails, Passes(e) PROVE e \in Trusted
BY DEF Passes, Trusted

\* Nothing has happened yet.
LEMMA InitIInv == Init => IInv
BY EmailAssumption DEF Init, IInv, TypeOK, RowsTrusted, OneRowPerEmail, NoSilentLoss,
   Checked, Answered, AttemptsLeft, At, Running

\* Each step of a mail's invocation keeps the invariant.
LEMMA StepIInv == ASSUME IInv, NEW e \in Emails, Step(e) PROVE IInv'
<1> USE EmailAssumption DEF IInv, TypeOK, Running, At, GoTo
<1>1. CASE Arrive(e)
  BY <1>1 DEF Arrive, RowsTrusted, OneRowPerEmail, NoSilentLoss, Checked, Answered, AttemptsLeft, Passes, Trusted
<1>2. CASE Invoke(e)
  BY <1>2 DEF Invoke, RowsTrusted, OneRowPerEmail, NoSilentLoss, Checked, Answered, AttemptsLeft, Passes, Trusted
<1>3. CASE Connect(e)
  BY <1>3 DEF Connect, RowsTrusted, OneRowPerEmail, NoSilentLoss, Checked, Answered, AttemptsLeft, Passes, Trusted
<1>4. CASE Verify(e)
  BY <1>4 DEF Verify, RowsTrusted, OneRowPerEmail, NoSilentLoss, Checked, Answered, AttemptsLeft, Passes, Trusted
<1>5. CASE GetObject(e)
  BY <1>5 DEF GetObject, RowsTrusted, OneRowPerEmail, NoSilentLoss, Checked, Answered, AttemptsLeft, Passes, Trusted
<1>6. CASE Parse(e)
  BY <1>6 DEF Parse, RowsTrusted, OneRowPerEmail, NoSilentLoss, Checked, Answered, AttemptsLeft, Passes, Trusted
<1>7. CASE PutItemToDb(e)
  <2>1. e \in Trusted
    BY <1>7, PassesTrusted DEF PutItemToDb, Checked
  <2>2. RowsTrusted'
    BY <1>7, <2>1 DEF PutItemToDb, RowsTrusted, Trusted
  <2> QED
    BY <1>7, <2>2 DEF PutItemToDb, OneRowPerEmail, NoSilentLoss, Checked, Answered, AttemptsLeft, Passes
<1>8. CASE FailSoftly(e)
  BY <1>8 DEF FailSoftly, Fault, RowsTrusted, OneRowPerEmail, NoSilentLoss, Checked, Answered, AttemptsLeft, Passes, Trusted
<1>9. CASE Return(e)
  BY <1>9 DEF Return, RowsTrusted, OneRowPerEmail, NoSilentLoss, Checked, Answered, AttemptsLeft, Passes, Trusted
<1>10. CASE Throw(e)
  BY <1>10 DEF Throw, Fault, RowsTrusted, OneRowPerEmail, NoSilentLoss, Checked, Answered, AttemptsLeft, Passes, Trusted
<1> QED
  BY <1>1, <1>2, <1>3, <1>4, <1>5, <1>6, <1>7, <1>8, <1>9, <1>10 DEF Step

\* The invariant holds in every behaviour.
THEOREM EmailInvariance == Spec => []IInv
<1>1. IInv /\ [Next]_vars => IInv'
  <2> SUFFICES ASSUME IInv, [Next]_vars PROVE IInv'
    OBVIOUS
  <2>1. CASE Next
    BY <2>1, StepIInv DEF Next, Step
  <2>2. CASE UNCHANGED vars
    BY <2>2 DEF vars, IInv, TypeOK, RowsTrusted, OneRowPerEmail, NoSilentLoss,
       Checked, Answered, AttemptsLeft, At, Passes, Trusted, Running
  <2> QED
    BY <2>1, <2>2
<1> QED
  BY InitIInv, <1>1, PTL DEF Spec

\* Whatever fails and however often the lambda is run again, only mail that
\* passes the checks gets into the database.
THEOREM OnlyTrustedMail == Spec => []RowsTrusted
BY EmailInvariance, PTL DEF IInv

\* The types of a mail's state (EmailIngestion.TypeOK).
THEOREM EmailTypes == Spec => []TypeOK
BY EmailInvariance, PTL DEF IInv

\* A mail never has two rows.
THEOREM OneRowForEachMail == Spec => []OneRowPerEmail
BY EmailInvariance, PTL DEF IInv

\* When Lambda is done with a mail it is stored, logged, or out of attempts.
THEOREM NoMailDroppedSilently == Spec => []NoSilentLoss
BY EmailInvariance, PTL DEF IInv
=============================================================================
