------------------------------- MODULE MCWatch -------------------------------
(***************************************************************************)
(* A small instance of Watch: the two jobs of the sentinel workflow in one *)
(* run, with a sentinel that has no handler, and the robots sweep of a     *)
(* host with a pinned Content-Signal.                                      *)
(***************************************************************************)
EXTENDS Watch, TLC

CONSTANTS pinned, feed

MCSourcesOn == pinned :> {feed}
MCPins == pinned :> "ai-input=yes"

Answer(status, allowed, signal) == [status |-> status, allowed |-> allowed, signal |-> signal]
MCRobotsFiles ==
    pinned :> {Answer("ok", {feed}, "ai-input=yes"), Answer("ok", {}, "ai-input=no"),
               Answer("absent", {}, None)}

MCPasses == {<<"aws-carveout", "mistral-legal-hub-watch", "xai-content-signals">>, <<pinned>>}
=============================================================================
