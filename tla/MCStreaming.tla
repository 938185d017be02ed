---------------------------- MODULE MCStreaming ----------------------------
(***************************************************************************)
(* Streaming for TLC.                                                      *)
(***************************************************************************)
EXTENDS Streaming

LOCAL Streams == INSTANCE StreamScripts
AllScripts == Streams!AllScripts

=============================================================================
