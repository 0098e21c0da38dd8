---------------------------- MODULE MCMediaPipe ----------------------------
(***************************************************************************)
(* Small files for the model checker: each position names the stream of    *)
(* the packet that av_read_frame returns there.                            *)
(***************************************************************************)
EXTENDS MediaPipe

\* Pictures only; audioq stays empty.
FileV == <<"video", "video", "video">>
\* Sound with a picture in it that nobody plays.
FileA == <<"audio", "audio", "video", "audio", "audio">>
\* Both streams, interleaved.
FileAV == <<"audio", "video", "video">>
=============================================================================
