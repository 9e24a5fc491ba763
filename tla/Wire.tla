-------------------------------- MODULE Wire --------------------------------
(***************************************************************************)
(* The payloads of module Relay as the texts of module Codec: what the     *)
(* datagrams that are under way look like, whichever kind of station wrote *)
(* them and whichever reads them.                                          *)
(***************************************************************************)
EXTENDS Relay, Codec

\* In all the phases, a payload that craft_payload or serialize has written is
\* read as it was by load_payload and by deserialize.
PayloadsSurviveTheWire == \A m \in net : Survives(m.payload)

(***************************************************************************)
(* A payload that the receive buffer has cut off is never read as one that *)
(* differs from it in more than its start time.  Either load_payload runs  *)
(* out of words, which takes the station down (Overrun), or it takes what  *)
(* is left of the start time (Tear); deserialize never reads it at all.    *)
(***************************************************************************)
CutsTearTheTimeOnly == \A m \in net : CutTearsTheTimeOnly(m.payload, Torn)
=============================================================================
