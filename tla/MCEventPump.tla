---------------------------- MODULE MCEventPump ----------------------------
(* A main audio stream, a video stream and a second audio stream.          *)
EXTENDS EventPump

MCKinds == <<"audio", "video", "audio">>

\* No rating, a zero rating and a positive one, in either order of stop.
MCRatings == {-1, 0, 4}
=============================================================================
