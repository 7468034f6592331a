-------------------------- MODULE MCFeedIngestion --------------------------
(* Instances of FeedIngestion for TLC.                                     *)
EXTENDS FeedIngestion, TLC

CONSTANTS m1, m2, m3, e1, e2

\* Which of the two stories is which makes no difference under SharedId.
Stories == Permutations({m1, m2})

\* Two stories under one external id, and a heartbeat.
SharedId == m1 :> e1 @@ m2 :> e1 @@ m3 :> e2
SharedKind == m1 :> "story" @@ m2 :> "story" @@ m3 :> "heartbeat"

\* A story and a body that does not parse under one external id, and a message
\* without an external id.
MixedId == m1 :> e1 @@ m2 :> e1 @@ m3 :> NoExternalId
MixedKind == m1 :> "story" @@ m2 :> "unparseable" @@ m3 :> "story"
=============================================================================
