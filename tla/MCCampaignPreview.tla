------------------------- MODULE MCCampaignPreview -------------------------
(* A small instance of the campaign preview. *)
EXTENDS CampaignPreview, TLC

CONSTANTS q1, q2

TwoRequests == {q1, q2}
NoMetric == -1

\* The filter excludes a creator without a metric, and two can be selected.
OneMarket ==
  {[value |-> <<NoMetric, 1, 2>>, least |-> 1, direction |-> "ASC"]}

RequestSymmetry == Permutations(TwoRequests)
=============================================================================
