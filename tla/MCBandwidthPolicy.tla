------------------------- MODULE MCBandwidthPolicy -------------------------
(* Negotiated descriptions for BandwidthPolicy: payloads are records of   *)
(* number, can-send flag, telephone-event flag, explicit bitrate (0: none)*)
(* and the bandwidth the codec needs.                                      *)
EXTENDS BandwidthPolicy

PT(n, s, t, o, b) == [num |-> n, send |-> s, tel |-> t, ovr |-> o, bw |-> b]

\* opus alone; telephone-event (not sendable) before PCMU; G722 not
\* sendable, then PCMA twice under number 8, the second with an override.
MCAudioLists ==
  { << PT(111, TRUE, FALSE, 0, 40) >>,
    << PT(101, FALSE, TRUE, 0, 0), PT(0, TRUE, FALSE, 0, 64) >>,
    << PT(9, FALSE, FALSE, 0, 64), PT(8, TRUE, FALSE, 0, 80), PT(8, TRUE, FALSE, 30, 80) >> }
\* VP8 alone; H264 with an explicit bitrate, then VP8 under the same number.
MCVideoLists ==
  { << PT(96, TRUE, FALSE, 0, 0) >>,
    << PT(97, TRUE, FALSE, 200, 0), PT(97, TRUE, FALSE, 0, 0) >> }

\* Audio: b=AS per stream on and around the step thresholds; ptime and
\* maxptime both absent or both present; TMMBR negotiated or not.
MCAudioDescs ==
  {[type |-> "audio", bw |-> b, payloads |-> l, ptime |-> t[1], maxptime |-> t[2],
    tmmbr |-> f, dir |-> "sendrecv"] :
     b \in {0, 100, 256, 600}, l \in MCAudioLists, t \in {<<0, 0>>, <<20, 40>>}, f \in BOOLEAN}
\* Video: sendrecv or inactive, TMMBR negotiated or not.
MCVideoDescs ==
  [type : {"video"}, bw : {0, 300}, payloads : MCVideoLists, ptime : {0}, maxptime : {0},
   tmmbr : BOOLEAN, dir : {"sendrecv", "inactive"}]

MCKindsAudioFirst == << "audio", "video" >>
MCKindsVideoFirst == << "video", "audio" >>
\* Call parameters with no forced bandwidth or ptime: the core ptime applies.
MCParams == [upBw : {0}, upPtime : {0}]
=============================================================================
