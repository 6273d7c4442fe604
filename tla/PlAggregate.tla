---------------------------- MODULE PlAggregate ----------------------------
(* What PlAggregate reads from the testbed and answers: advertisements, with *)
(* the cache before them (Advertisements), and manifests (Manifest).  They   *)
(* share no state, so a behaviour is about one.                              *)
EXTENDS Advertisements, Manifest

VARIABLE wanted     \* what the requests of this behaviour want

PlAggregateInit ==
  /\ AdsInit /\ ManifestInit /\ wanted \in {"advertisement", "manifest"}
  /\ wanted = "manifest" => entries = <<>>
  /\ wanted = "advertisement" => plc = CHOOSE p \in Beginnings : TRUE

PlAggregateNext ==
  /\ UNCHANGED wanted
  /\ \/ wanted = "advertisement" /\ AdsNext /\ UNCHANGED manifestVars
     \/ wanted = "manifest" /\ ManifestNext /\ UNCHANGED adsVars

plAggregateVars == <<adsVars, manifestVars, wanted>>

\* What an aggregate answers about its testbed, from the cache or not, is made of
\* what was so lately, piece by piece (AggregateManager.ListResources and
\* PlDriver.describe; see the two parts).
AnswersFollowTestbed == AdsFollowTestbed /\ DescribedAsItWas
=============================================================================
