----------------------------- MODULE MCExchange -----------------------------
(***************************************************************************)
(* Exchange for TLC.                                                       *)
(***************************************************************************)
EXTENDS Exchange

LOCAL Streams == INSTANCE StreamScripts
AllScripts == Streams!AllScripts

=============================================================================
