--------------------------- MODULE MCStreamsGroup ---------------------------
(* Model-checking instance of StreamsGroup: two m-lines, audio and video.  *)
EXTENDS StreamsGroup

MCTypes == {Audio, Video}
\* The offers may also carry an m-line of an unknown kind (SalOther).
MCTypesWithOther == {Audio, Video, Other}
=============================================================================
