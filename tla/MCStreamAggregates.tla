------------------------- MODULE MCStreamAggregates -------------------------
(* Three streams (audio, video, text) and three quality ratings.           *)
EXTENDS StreamAggregates

MCRatings == {-1, 1, 4}
\* No stream rates its quality: the AVPF queries alone vary.
MCRatingsNone == {-1}
=============================================================================
