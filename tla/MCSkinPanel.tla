---------------------------- MODULE MCSkinPanel ----------------------------
EXTENDS SkinPanel

\* The digest tells the two contents of every overlay apart, except on the
\* main pads: there it misses every change.
MCDigest == [p \in Piece |-> [v \in Content |->
               IF p # "main" /\ v = CHOOSE w \in Content : TRUE THEN 1 ELSE 0]]

\* The refresh, beside what a behaviour is about: in audio-only mode.
SkinOff ==
  /\ source = [p \in Piece |-> CHOOSE v \in Content : TRUE] /\ screen = source
  /\ region_hashes = deluge_skin_region_hashes /\ have_region_hashes = TRUE
  /\ idle_ticks = 0 /\ dirty = FALSE /\ render_suspended = TRUE
=============================================================================
