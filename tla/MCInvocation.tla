---------------------------- MODULE MCInvocation ----------------------------
(***************************************************************************)
(* All methods and servers with up to three responses.                     *)
(***************************************************************************)
EXTENDS Invocation

MaxResponses == 3

AllScripts ==
  [clientStreaming : BOOLEAN, serverStreaming : BOOLEAN,
   responses : UNION {[1..n -> Response] : n \in 0..MaxResponses},
   end : {"ok", "error", "never"}]
=============================================================================
