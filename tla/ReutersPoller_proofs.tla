------------------------ MODULE ReutersPoller_proofs ------------------------
(***************************************************************************)
(* Proofs about the Reuters poller, for any feed and any faults, and for   *)
(* any frequency, timeout and window that satisfy ReutersAssumption.       *)
(***************************************************************************)
EXTENDS ReutersPoller, TLAPS


\* Every step keeps the types.
LEMMA TypeStep == IInv /\ [Next]_vars => TypeOK'
<1> SUFFICES ASSUME IInv, [Next]_vars PROVE TypeOK'
  OBVIOUS
<1> USE ReutersAssumption DEF IInv, feed, clocks, work, tokens, TypeOK, Phases,
        Tokens, Secrets, ClocksAgree, WorkAgrees, Running
<1>1. ASSUME NEW i \in Items, Publish(i) PROVE TypeOK'
  BY <1>1 DEF Publish, feed
<1>2. ASSUME NEW i \in Items, FetchItem(i) PROVE TypeOK'
  BY <1>2 DEF FetchItem, Unfetched
<1>3. ASSUME NEW i \in Items, ItemFails(i) PROVE TypeOK'
  BY <1>3 DEF ItemFails, Unfetched, FetchAgain, Lose
<1>4. ASSUME NEW i \in Items, ItemUnauthorised(i) PROVE TypeOK'
  BY <1>4 DEF ItemUnauthorised, Unfetched, FetchAgain, Lose
<1>5. ASSUME NEW i \in Items, Send(i) PROVE TypeOK'
  BY <1>5 DEF Send
<1>6. ASSUME Tick PROVE TypeOK'
  BY <1>6 DEF Tick, Smaller, Down
<1>7. ASSUME TokenExpires PROVE TypeOK'
  BY <1>7 DEF TokenExpires
<1>8. ASSUME Start PROVE TypeOK'
  BY <1>8 DEF Start, InWindow
<1>9. ASSUME Page PROVE TypeOK'
  BY <1>9 DEF Page
<1>10. ASSUME PageFails PROVE TypeOK'
  BY <1>10 DEF PageFails, Lose
<1>11. ASSUME PageUnauthorised PROVE TypeOK'
  BY <1>11 DEF PageUnauthorised, Lose
<1>12. ASSUME EndPoll PROVE TypeOK'
  BY <1>12 DEF EndPoll, Unfetched, Delay
<1>13. ASSUME QueueNext PROVE TypeOK'
  BY <1>13 DEF QueueNext
<1>14. ASSUME Return PROVE TypeOK'
  BY <1>14 DEF Return
<1>15. ASSUME ReturnFails PROVE TypeOK'
  BY <1>15 DEF ReturnFails
<1>16. ASSUME Fail PROVE TypeOK'
  BY <1>16 DEF Fail, Reappears, Lose
<1>17. ASSUME Expire PROVE TypeOK'
  BY <1>17 DEF Expire
<1>18. ASSUME UNCHANGED vars PROVE TypeOK'
  BY <1>18 DEF vars
<1> QED
  BY <1>1, <1>2, <1>3, <1>4, <1>5, <1>6, <1>7, <1>8, <1>9, <1>10, <1>11, <1>12, <1>13,
     <1>14, <1>15, <1>16, <1>17, <1>18 DEF Next

\* The clocks of an invocation and of the message agree.
LEMMA ClockStep == IInv /\ [Next]_vars => ClocksAgree'
<1> SUFFICES ASSUME IInv, [Next]_vars PROVE ClocksAgree'
  OBVIOUS
<1> USE ReutersAssumption DEF IInv, feed, clocks, work, tokens, ClocksAgree, Since,
        TypeOK, Running, Phases
<1>1. ASSUME NEW i \in Items, Publish(i) PROVE ClocksAgree'
  BY <1>1 DEF Publish, feed
<1>2. ASSUME NEW i \in Items, FetchItem(i) PROVE ClocksAgree'
  BY <1>2 DEF FetchItem, Unfetched
<1>3. ASSUME NEW i \in Items, ItemFails(i) PROVE ClocksAgree'
  BY <1>3 DEF ItemFails, Unfetched, FetchAgain, Lose
<1>4. ASSUME NEW i \in Items, ItemUnauthorised(i) PROVE ClocksAgree'
  BY <1>4 DEF ItemUnauthorised, Unfetched, FetchAgain, Lose
<1>5. ASSUME NEW i \in Items, Send(i) PROVE ClocksAgree'
  BY <1>5 DEF Send
<1>6. ASSUME Tick PROVE ClocksAgree'
  BY <1>6 DEF Tick, Smaller, Down
<1>7. ASSUME TokenExpires PROVE ClocksAgree'
  BY <1>7 DEF TokenExpires
<1>8. ASSUME Start PROVE ClocksAgree'
  BY <1>8 DEF Start, InWindow
<1>9. ASSUME Page PROVE ClocksAgree'
  BY <1>9 DEF Page
<1>10. ASSUME PageFails PROVE ClocksAgree'
  BY <1>10 DEF PageFails, Lose
<1>11. ASSUME PageUnauthorised PROVE ClocksAgree'
  BY <1>11 DEF PageUnauthorised, Lose
<1>12. ASSUME EndPoll PROVE ClocksAgree'
  BY <1>12 DEF EndPoll, Unfetched, Delay
<1>13. ASSUME QueueNext PROVE ClocksAgree'
  BY <1>13 DEF QueueNext
<1>14. ASSUME Return PROVE ClocksAgree'
  BY <1>14 DEF Return
<1>15. ASSUME ReturnFails PROVE ClocksAgree'
  BY <1>15 DEF ReturnFails
<1>16. ASSUME Fail PROVE ClocksAgree'
  BY <1>16 DEF Fail, Reappears, Lose
<1>17. ASSUME Expire PROVE ClocksAgree'
  BY <1>17 DEF Expire
<1>18. ASSUME UNCHANGED vars PROVE ClocksAgree'
  BY <1>18 DEF vars
<1> QED
  BY <1>1, <1>2, <1>3, <1>4, <1>5, <1>6, <1>7, <1>8, <1>9, <1>10, <1>11, <1>12, <1>13,
     <1>14, <1>15, <1>16, <1>17, <1>18 DEF Next

\* An invocation has in hand what its stage says.
LEMMA WorkStep == IInv /\ [Next]_vars => WorkAgrees'
<1> SUFFICES ASSUME IInv, [Next]_vars PROVE WorkAgrees'
  OBVIOUS
<1> USE ReutersAssumption DEF IInv, feed, clocks, work, tokens, WorkAgrees, TypeOK,
        Running, Phases
<1>1. ASSUME NEW i \in Items, Publish(i) PROVE WorkAgrees'
  BY <1>1 DEF Publish, feed
<1>2. ASSUME NEW i \in Items, FetchItem(i) PROVE WorkAgrees'
  BY <1>2 DEF FetchItem, Unfetched
<1>3. ASSUME NEW i \in Items, ItemFails(i) PROVE WorkAgrees'
  BY <1>3 DEF ItemFails, Unfetched, FetchAgain, Lose
<1>4. ASSUME NEW i \in Items, ItemUnauthorised(i) PROVE WorkAgrees'
  BY <1>4 DEF ItemUnauthorised, Unfetched, FetchAgain, Lose
<1>5. ASSUME NEW i \in Items, Send(i) PROVE WorkAgrees'
  BY <1>5 DEF Send
<1>6. ASSUME Tick PROVE WorkAgrees'
  BY <1>6 DEF Tick, Smaller, Down
<1>7. ASSUME TokenExpires PROVE WorkAgrees'
  BY <1>7 DEF TokenExpires
<1>8. ASSUME Start PROVE WorkAgrees'
  BY <1>8 DEF Start, InWindow
<1>9. ASSUME Page PROVE WorkAgrees'
  BY <1>9 DEF Page
<1>10. ASSUME PageFails PROVE WorkAgrees'
  BY <1>10 DEF PageFails, Lose
<1>11. ASSUME PageUnauthorised PROVE WorkAgrees'
  BY <1>11 DEF PageUnauthorised, Lose
<1>12. ASSUME EndPoll PROVE WorkAgrees'
  BY <1>12 DEF EndPoll, Unfetched, Delay
<1>13. ASSUME QueueNext PROVE WorkAgrees'
  BY <1>13 DEF QueueNext
<1>14. ASSUME Return PROVE WorkAgrees'
  BY <1>14 DEF Return
<1>15. ASSUME ReturnFails PROVE WorkAgrees'
  BY <1>15 DEF ReturnFails
<1>16. ASSUME Fail PROVE WorkAgrees'
  BY <1>16 DEF Fail, Reappears, Lose
<1>17. ASSUME Expire PROVE WorkAgrees'
  BY <1>17 DEF Expire
<1>18. ASSUME UNCHANGED vars PROVE WorkAgrees'
  BY <1>18 DEF vars
<1> QED
  BY <1>1, <1>2, <1>3, <1>4, <1>5, <1>6, <1>7, <1>8, <1>9, <1>10, <1>11, <1>12, <1>13,
     <1>14, <1>15, <1>16, <1>17, <1>18 DEF Next

\* What is ingested counts as lost by no poll.
LEMMA NoneLostStep == IInv /\ [Next]_vars => NoneLostIngested'
<1> SUFFICES ASSUME IInv, [Next]_vars PROVE NoneLostIngested'
  OBVIOUS
<1> USE ReutersAssumption DEF IInv, feed, clocks, work, tokens, NoneLostIngested,
        TypeOK, WorkAgrees, Running
<1>1. ASSUME NEW i \in Items, Publish(i) PROVE NoneLostIngested'
  BY <1>1 DEF Publish, feed
<1>2. ASSUME NEW i \in Items, FetchItem(i) PROVE NoneLostIngested'
  BY <1>2 DEF FetchItem, Unfetched
<1>3. ASSUME NEW i \in Items, ItemFails(i) PROVE NoneLostIngested'
  BY <1>3 DEF ItemFails, Unfetched, FetchAgain, Lose
<1>4. ASSUME NEW i \in Items, ItemUnauthorised(i) PROVE NoneLostIngested'
  BY <1>4 DEF ItemUnauthorised, Unfetched, FetchAgain, Lose
<1>5. ASSUME NEW i \in Items, Send(i) PROVE NoneLostIngested'
  BY <1>5 DEF Send
<1>6. ASSUME Tick PROVE NoneLostIngested'
  BY <1>6 DEF Tick, Smaller, Down
<1>7. ASSUME TokenExpires PROVE NoneLostIngested'
  BY <1>7 DEF TokenExpires
<1>8. ASSUME Start PROVE NoneLostIngested'
  BY <1>8 DEF Start, InWindow
<1>9. ASSUME Page PROVE NoneLostIngested'
  BY <1>9 DEF Page
<1>10. ASSUME PageFails PROVE NoneLostIngested'
  BY <1>10 DEF PageFails, Lose
<1>11. ASSUME PageUnauthorised PROVE NoneLostIngested'
  BY <1>11 DEF PageUnauthorised, Lose
<1>12. ASSUME EndPoll PROVE NoneLostIngested'
  BY <1>12 DEF EndPoll, Unfetched, Delay
<1>13. ASSUME QueueNext PROVE NoneLostIngested'
  BY <1>13 DEF QueueNext
<1>14. ASSUME Return PROVE NoneLostIngested'
  BY <1>14 DEF Return
<1>15. ASSUME ReturnFails PROVE NoneLostIngested'
  BY <1>15 DEF ReturnFails
<1>16. ASSUME Fail PROVE NoneLostIngested'
  BY <1>16 DEF Fail, Reappears, Lose
<1>17. ASSUME Expire PROVE NoneLostIngested'
  BY <1>17 DEF Expire
<1>18. ASSUME UNCHANGED vars PROVE NoneLostIngested'
  BY <1>18 DEF vars
<1> QED
  BY <1>1, <1>2, <1>3, <1>4, <1>5, <1>6, <1>7, <1>8, <1>9, <1>10, <1>11, <1>12, <1>13,
     <1>14, <1>15, <1>16, <1>17, <1>18 DEF Next

\* The ages of the items agree with the polls that lost them.
LEMMA LossStep == IInv /\ [Next]_vars => LossesAgree'
<1> SUFFICES ASSUME IInv, [Next]_vars PROVE LossesAgree'
  OBVIOUS
<1> USE ReutersAssumption DEF IInv, feed, clocks, work, tokens, LossesAgree,
        ClocksAgree, WorkAgrees, NoneLostIngested, TypeOK, Since, Interval, Running,
        Phases
<1>1. ASSUME NEW i \in Items, Publish(i) PROVE LossesAgree'
  BY <1>1 DEF Publish, feed
<1>2. ASSUME NEW i \in Items, FetchItem(i) PROVE LossesAgree'
  BY <1>2 DEF FetchItem, Unfetched
<1>3. ASSUME NEW i \in Items, ItemFails(i) PROVE LossesAgree'
  BY <1>3 DEF ItemFails, Unfetched, FetchAgain, Lose
<1>4. ASSUME NEW i \in Items, ItemUnauthorised(i) PROVE LossesAgree'
  BY <1>4 DEF ItemUnauthorised, Unfetched, FetchAgain, Lose
<1>5. ASSUME NEW i \in Items, Send(i) PROVE LossesAgree'
  BY <1>5 DEF Send
<1>6. ASSUME Tick PROVE LossesAgree'
  BY <1>6 DEF Tick, Smaller, Down
<1>7. ASSUME TokenExpires PROVE LossesAgree'
  BY <1>7 DEF TokenExpires
<1>8. ASSUME Start PROVE LossesAgree'
  BY <1>8 DEF Start, InWindow
<1>9. ASSUME Page PROVE LossesAgree'
  BY <1>9 DEF Page
<1>10. ASSUME PageFails PROVE LossesAgree'
  BY <1>10 DEF PageFails, Lose
<1>11. ASSUME PageUnauthorised PROVE LossesAgree'
  BY <1>11 DEF PageUnauthorised, Lose
<1>12. ASSUME EndPoll PROVE LossesAgree'
  BY <1>12 DEF EndPoll, Unfetched, Delay
<1>13. ASSUME QueueNext PROVE LossesAgree'
  BY <1>13 DEF QueueNext
<1>14. ASSUME Return PROVE LossesAgree'
  BY <1>14 DEF Return
<1>15. ASSUME ReturnFails PROVE LossesAgree'
  BY <1>15 DEF ReturnFails
<1>16. ASSUME Fail PROVE LossesAgree'
  BY <1>16 DEF Fail, Reappears, Lose
<1>17. ASSUME Expire PROVE LossesAgree'
  BY <1>17 DEF Expire
<1>18. ASSUME UNCHANGED vars PROVE LossesAgree'
  BY <1>18 DEF vars
<1> QED
  BY <1>1, <1>2, <1>3, <1>4, <1>5, <1>6, <1>7, <1>8, <1>9, <1>10, <1>11, <1>12, <1>13,
     <1>14, <1>15, <1>16, <1>17, <1>18 DEF Next

\* A message is no older than its attempts make it.
LEMMA MessageStep == IInv /\ [Next]_vars => MessageAgrees'
<1> SUFFICES ASSUME IInv, [Next]_vars PROVE MessageAgrees'
  OBVIOUS
<1> USE ReutersAssumption DEF IInv, feed, clocks, work, tokens, MessageAgrees,
        ClocksAgree, TypeOK, Since, Interval, Running, Phases
<1>1. ASSUME NEW i \in Items, Publish(i) PROVE MessageAgrees'
  BY <1>1 DEF Publish, feed
<1>2. ASSUME NEW i \in Items, FetchItem(i) PROVE MessageAgrees'
  BY <1>2 DEF FetchItem, Unfetched
<1>3. ASSUME NEW i \in Items, ItemFails(i) PROVE MessageAgrees'
  BY <1>3 DEF ItemFails, Unfetched, FetchAgain, Lose
<1>4. ASSUME NEW i \in Items, ItemUnauthorised(i) PROVE MessageAgrees'
  BY <1>4 DEF ItemUnauthorised, Unfetched, FetchAgain, Lose
<1>5. ASSUME NEW i \in Items, Send(i) PROVE MessageAgrees'
  BY <1>5 DEF Send
<1>6. ASSUME Tick PROVE MessageAgrees'
  BY <1>6 DEF Tick, Smaller, Down
<1>7. ASSUME TokenExpires PROVE MessageAgrees'
  BY <1>7 DEF TokenExpires
<1>8. ASSUME Start PROVE MessageAgrees'
  BY <1>8 DEF Start, InWindow
<1>9. ASSUME Page PROVE MessageAgrees'
  BY <1>9 DEF Page
<1>10. ASSUME PageFails PROVE MessageAgrees'
  BY <1>10 DEF PageFails, Lose
<1>11. ASSUME PageUnauthorised PROVE MessageAgrees'
  BY <1>11 DEF PageUnauthorised, Lose
<1>12. ASSUME EndPoll PROVE MessageAgrees'
  BY <1>12 DEF EndPoll, Unfetched, Delay
<1>13. ASSUME QueueNext PROVE MessageAgrees'
  BY <1>13 DEF QueueNext
<1>14. ASSUME Return PROVE MessageAgrees'
  BY <1>14 DEF Return
<1>15. ASSUME ReturnFails PROVE MessageAgrees'
  BY <1>15 DEF ReturnFails
<1>16. ASSUME Fail PROVE MessageAgrees'
  BY <1>16 DEF Fail, Reappears, Lose
<1>17. ASSUME Expire PROVE MessageAgrees'
  BY <1>17 DEF Expire
<1>18. ASSUME UNCHANGED vars PROVE MessageAgrees'
  BY <1>18 DEF vars
<1> QED
  BY <1>1, <1>2, <1>3, <1>4, <1>5, <1>6, <1>7, <1>8, <1>9, <1>10, <1>11, <1>12, <1>13,
     <1>14, <1>15, <1>16, <1>17, <1>18 DEF Next

\* Without faults, a poll that loses items leaves a live token.
LEMMA ExpiryStep == IInv /\ [Next]_vars => ExpiryAgrees'
<1> SUFFICES ASSUME IInv, [Next]_vars PROVE ExpiryAgrees'
  OBVIOUS
<1> USE ReutersAssumption DEF IInv, feed, clocks, work, tokens, ExpiryAgrees,
        LossesAgree, WorkAgrees, ClocksAgree, NoneLostIngested, TypeOK, Since,
        Interval, Running, Phases, Tokens, Secrets
<1>1. ASSUME NEW i \in Items, Publish(i) PROVE ExpiryAgrees'
  BY <1>1 DEF Publish, feed
<1>2. ASSUME NEW i \in Items, FetchItem(i) PROVE ExpiryAgrees'
  BY <1>2 DEF FetchItem, Unfetched
<1>3. ASSUME NEW i \in Items, ItemFails(i) PROVE ExpiryAgrees'
  BY <1>3 DEF ItemFails, Unfetched, FetchAgain, Lose
<1>4. ASSUME NEW i \in Items, ItemUnauthorised(i) PROVE ExpiryAgrees'
  BY <1>4 DEF ItemUnauthorised, Unfetched, FetchAgain, Lose
<1>5. ASSUME NEW i \in Items, Send(i) PROVE ExpiryAgrees'
  BY <1>5 DEF Send
<1>6. ASSUME Tick PROVE ExpiryAgrees'
  BY <1>6 DEF Tick, Smaller, Down
<1>7. ASSUME TokenExpires PROVE ExpiryAgrees'
  BY <1>7 DEF TokenExpires
<1>8. ASSUME Start PROVE ExpiryAgrees'
  BY <1>8 DEF Start, InWindow
<1>9. ASSUME Page PROVE ExpiryAgrees'
  BY <1>9 DEF Page
<1>10. ASSUME PageFails PROVE ExpiryAgrees'
  BY <1>10 DEF PageFails, Lose
<1>11. ASSUME PageUnauthorised PROVE ExpiryAgrees'
  BY <1>11 DEF PageUnauthorised, Lose
<1>12. ASSUME EndPoll PROVE ExpiryAgrees'
  BY <1>12 DEF EndPoll, Unfetched, Delay
<1>13. ASSUME QueueNext PROVE ExpiryAgrees'
  BY <1>13 DEF QueueNext
<1>14. ASSUME Return PROVE ExpiryAgrees'
  BY <1>14 DEF Return
<1>15. ASSUME ReturnFails PROVE ExpiryAgrees'
  BY <1>15 DEF ReturnFails
<1>16. ASSUME Fail PROVE ExpiryAgrees'
  BY <1>16 DEF Fail, Reappears, Lose
<1>17. ASSUME Expire PROVE ExpiryAgrees'
  BY <1>17 DEF Expire
<1>18. ASSUME UNCHANGED vars PROVE ExpiryAgrees'
  BY <1>18 DEF vars
<1> QED
  BY <1>1, <1>2, <1>3, <1>4, <1>5, <1>6, <1>7, <1>8, <1>9, <1>10, <1>11, <1>12, <1>13,
     <1>14, <1>15, <1>16, <1>17, <1>18 DEF Next

\* The initial state satisfies the invariant, and every step keeps it.
THEOREM ReutersInvariance == Spec => []IInv
<1>1. Init => IInv
  BY ReutersAssumption DEF Init, IInv, TypeOK, ClocksAgree, WorkAgrees, LossesAgree,
     MessageAgrees, ExpiryAgrees, NoneLostIngested, Since, Interval, Running, Phases,
     Tokens, Secrets
<1>2. IInv /\ [Next]_vars => IInv'
  BY TypeStep, ClockStep, WorkStep, NoneLostStep, LossStep, MessageStep, ExpiryStep
  DEF IInv
<1> QED
  BY <1>1, <1>2, PTL DEF Spec

\* The types are kept, for every feed and every frequency.
THEOREM ReutersTypes == Spec => []TypeOK
<1>1. IInv => TypeOK
  BY DEF IInv
<1> QED
  BY <1>1, ReutersInvariance, PTL

\* No more than two intervals ever pass between a search and the one after the
\* next, so that the bounds on ages leave no room for an item that is out of the
\* window and has been lost fewer than two times.
LEMMA SinceBounded == IInv => Since \in 0..Interval
  BY ReutersAssumption DEF IInv, TypeOK, ClocksAgree, Since, Interval

LEMMA MissedLostTwice == IInv => \A i \in Missed : lost[i] >= 2
<1> SUFFICES ASSUME IInv, NEW i \in Missed PROVE lost[i] >= 2
  OBVIOUS
<1>1. Since \in 0..Interval /\ 2 * Interval <= MaxAge /\ Interval \in Nat
  BY SinceBounded, ReutersAssumption DEF Interval
<1>2. /\ i \in published \ ingested /\ i \notin view /\ age[i] > MaxAge
      /\ lost[i] \in Nat /\ age[i] \in Nat
  BY ReutersAssumption DEF Missed, IInv, TypeOK
<1>3. lost[i] # 0 /\ lost[i] # 1
  BY <1>1, <1>2, ReutersAssumption DEF IInv, LossesAgree
<1> QED
  BY <1>2, <1>3

\* No item is out of the window and never handed on unless two polls had it in
\* view and lost it: for every frequency, lateness and window of at least two
\* intervals, and any number of faults.
THEOREM ReutersTwoChances == Spec => []TwoChances
<1>1. IInv => TwoChances
  BY MissedLostTwice DEF TwoChances
<1> QED
  BY <1>1, ReutersInvariance, PTL

\* The running out of access tokens alone never makes the poller miss an item.
THEOREM ReutersExpiryLosesNothing == Spec => []ExpiryLosesNothing
<1>1. IInv => ExpiryLosesNothing
  <2> SUFFICES ASSUME IInv, faults = 0, NEW i \in Missed PROVE FALSE
    BY DEF ExpiryLosesNothing
  <2>1. lost[i] >= 2
    BY MissedLostTwice
  <2>2. lost[i] <= 1 /\ lost[i] \in Nat
    BY DEF IInv, ExpiryAgrees, Missed, TypeOK
  <2> QED
    BY <2>1, <2>2
<1> QED
  BY <1>1, ReutersInvariance, PTL

\* The poller stops only when the attempts of one message have spanned the
\* retention period of its queue.
THEOREM ReutersStopsLate == Spec => []StopsLate
<1> DEFINE Spanned == phase = "stopped" => message = Retention
<1>1. Init => Spanned
  BY DEF Init
<1>2. TypeOK /\ Spanned /\ [Next]_vars => Spanned'
  BY DEF TypeOK, Next, vars, Publish, FetchItem, ItemFails, ItemUnauthorised, Send, Tick,
     TokenExpires, Start, Page, PageFails, PageUnauthorised, EndPoll, QueueNext, Return,
     ReturnFails, Fail, Expire, feed, clocks, work, tokens
<1>3. IInv /\ Spanned => StopsLate
  <2> SUFFICES ASSUME IInv, Spanned, phase = "stopped"
               PROVE (1 + attempts) * Interval >= Retention
    BY DEF StopsLate
  <2>1. Retention <= attempts * Interval + Since /\ Since <= Interval
    BY SinceBounded, ReutersAssumption DEF IInv, MessageAgrees, Interval
  <2>2. attempts \in Nat /\ Interval \in Nat /\ Retention \in Nat /\ Since \in 0..Interval
    BY SinceBounded, ReutersAssumption DEF IInv, TypeOK, Interval
  <2>3. (1 + attempts) * Interval = attempts * Interval + Interval
    BY <2>2
  <2> QED
    BY <2>1, <2>2, <2>3
<1> QED
  BY <1>1, <1>2, <1>3, ReutersInvariance, ReutersTypes, PTL DEF Spec
=============================================================================
