---------------------------- MODULE MCFraming -----------------------------
(* RlpxFraming at scaled-down sizes: bytes of four values, two-byte blocks, *)
(* so that every split of the stream into chunks is tried.                  *)
EXTENDS RlpxFraming

AckSizesMC == {5, 6}
BodySizesMC == {1, 2, 3}
===========================================================================
