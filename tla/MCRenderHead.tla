---------------------------- MODULE MCRenderHead ----------------------------
(* Eight words, scanned in buffers of five that overlap by two; the render *)
(* head is in one buffer or, like the stray word, in two.  Two rounds      *)
(* decide, of at most five, one of which may show the heads inverted.      *)
(* The ring, its arming and the scan's buffer have names of their own here *)
(* so that this module can stand beside the pump's.                        *)
EXTENDS Integers

CONSTANTS
  RingSize, Buffer, Words, HeadWords, PlayWord, Strays, RoundsToLock, MaxRounds,
  MaxAttempts, MaxCands, MinLockGap, Warmup, ScanInterval, ReseedInterval, MaxLag,
  MaxInverted

VARIABLES
  ringArmed, headWord, sentinels, up, stray, clock, due, rh_cands, rh_rounds,
  rh_seed_attempts, rh_done, render_head_addr, inverted

H == INSTANCE RenderHead WITH Size <- RingSize, Chunk <- Buffer, armed <- ringArmed

ASSUME SearchAssumption == H!RenderHeadAssumption

SearchSpec == H!Spec

\* What the search locks on to is right, and it ends (RenderHead).
LockIsRight == H!LockIsRight
SearchEnds == H!SearchEnds
=============================================================================
