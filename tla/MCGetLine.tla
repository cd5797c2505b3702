------------------------------ MODULE MCGetLine ------------------------------
(* Bounds for GetLine: every stream of at most MaxLen bytes. *)
EXTENDS GetLine
CONSTANT MaxLen
MCStreams == UNION {[1..n -> Bytes] : n \in 0..MaxLen}
=============================================================================
