----------------------------- MODULE MCCrawlJobs -----------------------------
(***************************************************************************)
(* Instances of CrawlJobs for TLC.                                         *)
(***************************************************************************)
EXTENDS CrawlJobs, TLC

CONSTANTS u1, p1, p2, w1, w2

OneUser == {u1}
TwoUrls == {p1, p2}
TwoProcs == {w1, w2}

=============================================================================
