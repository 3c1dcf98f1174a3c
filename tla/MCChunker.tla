----------------------------- MODULE MCChunker -----------------------------
(***************************************************************************)
(* Every setting of up to four tokens over every text of up to MaxLength   *)
(* positions.  Counted in tokens the windows are one to four positions     *)
(* long and a text has up to nine; in characters they are four to sixteen  *)
(* long, and a text has up to six.                                         *)
(***************************************************************************)
EXTENDS Chunker

CONSTANTS MaxSize, MaxLength

UpToMaxSize == 1..MaxSize
BelowMaxSize == 0..(MaxSize - 1)
UpToMaxLength == 0..MaxLength

=============================================================================
