------------------------- MODULE MCPortAllocation -------------------------
(* Two calls with an audio, a video and a text stream each.                *)
EXTENDS PortAllocation

\* Audio on the fixed port 10, video in the range [200, 204], text on
\* automatic ports.
EvenRanges == [k \in {"audio", "video", "text"} |->
                 CASE k = "audio" -> <<10, 10>>
                   [] k = "video" -> <<200, 204>>
                   [] OTHER       -> <<0, 0>>]

\* oRTP's random ports fall among the audio probes and inside the video range.
MCOsPorts == {12, 202}

\* The default jitter-buffer settings with video jittcomp off, and settings
\* with an unknown algorithm and an audio jittcomp outside [min, max].
MCJbConfigs ==
  {[min |-> 40, max |-> 500, algo |-> "rls",   audioNom |-> 60,  videoNom |-> 0],
   [min |-> 80, max |-> 500, algo |-> "bogus", audioNom |-> 600, videoNom |-> 60]}
=============================================================================
