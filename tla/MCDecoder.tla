------------------------------ MODULE MCDecoder ------------------------------
(* Instances of Decoder for TLC.                                             *)
EXTENDS Decoder

CONSTANTS v, a \* streams

VideoAndSound == {[e \in {v, a} |-> IF e = v THEN "video" ELSE "audio"]}
Video == {[e \in {v} |-> "video"]}
Anything == [{v} -> {"video", "audio", "spu"}]
=============================================================================
