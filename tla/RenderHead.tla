----------------------------- MODULE RenderHead -----------------------------
(***************************************************************************)
(* The search for the firmware's render head (rza1l_ssif_rh_search and its *)
(* callees in src/src/hw/ssi/rza1l_ssif.c): seed with every word of the    *)
(* SRAM that points into the transmit ring, then watch, round after round, *)
(* which of them move and which trails the others.                         *)
(*                                                                         *)
(* The firmware is external.  One of its words holds the render head,      *)
(* which trails the play head by the unrendered backlog; one holds its     *)
(* copy of the play head; others point into the ring by coincidence and do *)
(* not move in it.  Rounds are many ring laps apart, so the offsets of a   *)
(* round are inputs.  The unit is the frame; a pointer in the wrong view   *)
(* of the ring counts as outside it.                                       *)
(***************************************************************************)
EXTENDS Integers, FiniteSets

CONSTANTS
  Size,              \* frames in the transmit ring
  Words, Chunk,      \* words of the SRAM, and of one buffer of the scan
  HeadWords,         \* where the render head may be
  PlayWord,          \* where the firmware keeps its copy of the play head
  Strays,            \* words that may point into the ring by coincidence
  RoundsToLock, MaxRounds, MaxAttempts, MaxCands, MinLockGap,
  Warmup, ScanInterval, ReseedInterval,
  MaxLag,            \* bound: frames the play-head copy is old
  MaxInverted        \* bound: rounds in which the two heads are seen inverted

Address == 0 .. Words - 1
NoWord == -1

RenderHeadAssumption ==
  /\ Size \in Nat /\ Size >= 2
  /\ Words \in Nat /\ Chunk \in Nat /\ Chunk >= 3
  /\ HeadWords \subseteq Address /\ Strays \subseteq Address
  /\ PlayWord \in Address \ (HeadWords \cup Strays)
  /\ HeadWords \cap Strays = {}
  /\ RoundsToLock \in Nat \ {0} /\ MaxRounds \in Nat \ {0}
  /\ MaxAttempts \in Nat \ {0} /\ MaxCands \in Nat /\ MinLockGap \in Nat \ {0}
  /\ Warmup \in Nat /\ ScanInterval \in Nat /\ ReseedInterval \in Nat
  /\ MaxLag \in Nat /\ MaxInverted \in Nat

VARIABLES
  headWord,          \* the word that holds the render head
  sentinels,         \* the words the sentinel blocks of the firmware name
  up,                \* the words of the firmware that are live
  stray,             \* whether each stray word points into the ring, or Outside
  armed,             \* the transmit ring is armed
  clock,             \* time since rh_arm_ns, up to Warmup; -1 before it
  due,               \* time to rh_next_scan_ns
  rh_cands,          \* the candidates that are alive, empty if there are none
  rh_rounds, rh_seed_attempts, rh_done,
  render_head_addr,
  inverted           \* history: rounds that showed the heads inverted

firmware == <<headWord, sentinels, up, stray, armed>>
search == <<rh_cands, rh_rounds, rh_seed_attempts, rh_done, render_head_addr>>
vars == <<firmware, clock, due, search, inverted>>

Offsets == 0 .. Size - 1
Outside == Size                        \* not an offset of the ring

-----------------------------------------------------------------------------
(* The scan of the memory, a buffer at a time, two words of overlap.       *)

Starts == {s \in Address : s % (Chunk - 2) = 0}

Covers(s, i, n) == s <= i /\ i + n <= s + Chunk /\ i + n <= Words

\* A candidate: a word, as found in one of the buffers.
Slot == {c \in Starts \X Address : Covers(c[1], c[2], 1)}

\* first_off is kept until the candidate is seen at another offset: moved.
Moved == Size

\* The words that point into the ring, and where, when the play-head copy is at
\* p and the backlog is b.
Pointing(p, b) ==
  LET into == {w \in Strays : stray[w] # Outside}
              \cup (IF "head" \in up THEN {headWord} ELSE {})
              \cup (IF "play" \in up THEN {PlayWord} ELSE {})
  IN  [w \in into |-> IF w = headWord THEN (p + Size - b) % Size
                      ELSE IF w = PlayWord THEN p ELSE stray[w]]

-----------------------------------------------------------------------------
None == [c \in {} |-> 0]

rza1l_ssif_rh_finish(found) ==
  /\ rh_cands' = None
  /\ rh_done' = TRUE
  /\ render_head_addr' = found

\* Fault for the runs: an empty scan costs nothing.
FaultSeedEmpty ==
  /\ due' = ReseedInterval
  /\ UNCHANGED search

\* No word points into the ring: scan again later, a bounded number of times.
SeedEmpty ==
  /\ due' = ReseedInterval
  /\ rh_seed_attempts' = rh_seed_attempts + 1
  /\ IF rh_seed_attempts + 1 >= MaxAttempts
     THEN rza1l_ssif_rh_finish(NoWord)
     ELSE UNCHANGED <<rh_cands, rh_done, render_head_addr>>
  /\ UNCHANGED rh_rounds

rza1l_ssif_rh_seed(value) ==
  LET found == {c \in Slot : c[2] \in DOMAIN value}
  IN  \/ /\ Cardinality(found) > MaxCands
         /\ rza1l_ssif_rh_finish(NoWord)
         /\ due' = ReseedInterval
         /\ UNCHANGED <<rh_rounds, rh_seed_attempts>>
      \/ /\ Cardinality(found) <= MaxCands /\ Cardinality(sentinels) = 1
         /\ \E w \in sentinels : rza1l_ssif_rh_finish(w)
         /\ due' = ReseedInterval
         /\ UNCHANGED <<rh_rounds, rh_seed_attempts>>
      \/ /\ found = {} /\ Cardinality(sentinels) # 1
         /\ SeedEmpty
      \/ /\ found # {} /\ Cardinality(found) <= MaxCands
         /\ Cardinality(sentinels) # 1
         /\ rh_cands' = [c \in found |->
                           [first_off |-> value[c[2]], trailed |-> FALSE,
                            cmp_rounds |-> 0, lead_rounds |-> 0]]
         /\ due' = ScanInterval
         /\ UNCHANGED <<rh_rounds, rh_seed_attempts, rh_done, render_head_addr>>

Forward(from, to) == (to + Size - from) % Size

\* Fault for the runs: the order in the ring is read the wrong way round.
FaultBehind(a, b) == Forward(b, a) <= Size \div 2

\* Offset a trails offset b, a different one.
Behind(a, b) == Forward(b, a) > Size \div 2

Leads(c) == /\ c.cmp_rounds >= 2 * RoundsToLock
            /\ c.lead_rounds * 4 >= c.cmp_rounds * 3

\* The candidates after a round: those still in the ring, with what it showed.
Observed(value, wpos) ==
  LET alive == {c \in DOMAIN rh_cands : c[2] \in DOMAIN value}
      moved == {c \in alive : value[c[2]] # rh_cands[c].first_off}
  IN  [c \in alive |->
         LET off == value[c[2]]
             others == {value[o[2]] : o \in moved} \ {off}
             compared == c \in moved /\ others # {}
         IN  [first_off |-> IF c \in moved THEN Moved ELSE rh_cands[c].first_off,
              trailed |-> rh_cands[c].trailed
                            \/ Forward(off, wpos) \in MinLockGap .. Size \div 2,
              cmp_rounds |-> rh_cands[c].cmp_rounds + IF compared THEN 1 ELSE 0,
              lead_rounds |-> rh_cands[c].lead_rounds +
                IF compared /\ \A o \in others : Behind(off, o) THEN 1 ELSE 0]]

rza1l_ssif_rh_verify(value, wpos) ==
  LET cands  == Observed(value, wpos)
      movers == {c \in DOMAIN cands : cands[c].first_off = Moved}
      leader == {c \in movers : Leads(cands[c])}
      lone   == {c \in movers : cands[c].trailed}
      spent  == rh_rounds + 1 >= MaxRounds
  IN  /\ rh_rounds' = rh_rounds + 1
      /\ due' = ScanInterval
      /\ \/ /\ Cardinality(movers) >= 2 /\ Cardinality(leader) = 1
            /\ \E c \in leader : rza1l_ssif_rh_finish(c[2])
            /\ UNCHANGED rh_seed_attempts
         \/ /\ Cardinality(movers) = 1 /\ lone # {} /\ rh_rounds + 1 >= RoundsToLock
            /\ \E c \in lone : rza1l_ssif_rh_finish(c[2])
            /\ UNCHANGED rh_seed_attempts
         \/ /\ ~(Cardinality(movers) >= 2 /\ Cardinality(leader) = 1)
            /\ ~(Cardinality(movers) = 1 /\ lone # {} /\ rh_rounds + 1 >= RoundsToLock)
            /\ \/ /\ spent
                  /\ rza1l_ssif_rh_finish(NoWord)
                  /\ UNCHANGED rh_seed_attempts
               \/ /\ ~spent /\ DOMAIN cands = {}
                  /\ rh_seed_attempts' = rh_seed_attempts + 1
                  /\ IF rh_seed_attempts + 1 >= MaxAttempts
                     THEN rza1l_ssif_rh_finish(NoWord)
                     ELSE rh_cands' = None /\ UNCHANGED <<rh_done, render_head_addr>>
               \/ /\ ~spent /\ DOMAIN cands # {}
                  /\ rh_cands' = cands
                  /\ UNCHANGED <<rh_seed_attempts, rh_done, render_head_addr>>

Init ==
  /\ headWord \in HeadWords
  /\ sentinels \in {{}, {headWord}} \cup {{headWord, w} : w \in Strays}
  /\ up = {}
  /\ stray \in [Strays -> {0, Outside}]
  /\ armed = FALSE
  /\ clock = -1 /\ due = 0
  /\ rh_cands = None /\ rh_rounds = 0 /\ rh_seed_attempts = 0
  /\ rh_done = FALSE /\ render_head_addr = NoWord
  /\ inverted = 0

\* A pump with the search unresolved: rza1l_ssif_rh_search. Only differences of
\* offsets count, so the play-head copy of a seed is the origin.
Pump ==
  /\ armed /\ ~rh_done
  /\ UNCHANGED firmware
  /\ clock' = IF clock = -1 THEN 0 ELSE clock
  /\ \/ /\ clock' < Warmup \/ due > 0
        /\ UNCHANGED <<due, search, inverted>>
     \/ /\ clock' = Warmup /\ due = 0 /\ rh_cands = None
        /\ \E b \in Offsets : rza1l_ssif_rh_seed(Pointing(0, b))
        /\ UNCHANGED inverted
     \/ /\ clock' = Warmup /\ due = 0 /\ rh_cands # None
        /\ \E p \in Offsets, b \in Offsets, lag \in 0 .. MaxLag :
             /\ inverted' = inverted +
                  IF up = {"play", "head"} /\ b > Size \div 2 THEN 1 ELSE 0
             /\ inverted' <= MaxInverted
             /\ rza1l_ssif_rh_verify(Pointing(p, b), (p + lag) % Size)

Tick ==
  /\ clock # -1 /\ (clock < Warmup \/ due > 0)
  /\ clock' = IF clock < Warmup THEN clock + 1 ELSE clock
  /\ due' = IF due > 0 THEN due - 1 ELSE 0
  /\ UNCHANGED <<firmware, search, inverted>>

-----------------------------------------------------------------------------
(* The firmware (external).                                                *)

Arm ==
  /\ ~armed /\ armed' = TRUE
  /\ UNCHANGED <<headWord, sentinels, up, stray, clock, due, search, inverted>>

\* Its audio engine comes up; the copy of the play head may be first.
ComeUp ==
  /\ armed
  /\ up # {"play", "head"}
  /\ \E more \in {{"play"}, {"play", "head"}} : up # more /\ up' = more
  /\ UNCHANGED <<headWord, sentinels, stray, armed, clock, due, search, inverted>>

\* A word that happened to point into the ring is used for something else.
Drift(w) ==
  /\ stray[w] # Outside
  /\ stray' = [stray EXCEPT ![w] = Outside]
  /\ UNCHANGED <<headWord, sentinels, up, armed, clock, due, search, inverted>>

\* A reset of the machine: the search, its clock included, goes on as it was.
Reset ==
  /\ armed /\ armed' = FALSE
  /\ up' = {}
  /\ UNCHANGED <<headWord, sentinels, stray, clock, due, search, inverted>>

Next == Pump \/ Tick \/ Arm \/ ComeUp \/ (\E w \in Strays : Drift(w)) \/ Reset

\* Time passes and the fallback timer pumps; the firmware owes nothing.
Spec == Init /\ [][Next]_vars /\ WF_vars(Tick \/ Pump)

-----------------------------------------------------------------------------
\* The word found is the render head. It may be the copy of the play head, but
\* never while a render head that was seen moving still points into the ring;
\* it is never a coincidence.
LockIsRight ==
  [][(render_head_addr = NoWord /\ render_head_addr' # NoWord) =>
        \/ render_head_addr' = headWord
        \/ /\ render_head_addr' = PlayWord
           /\ \/ "head" \notin up
              \/ \A c \in DOMAIN rh_cands :
                   c[2] = headWord => rh_cands[c].first_off # Moved]_vars

\* The search ends, found or not: no play of resets, late engines and dying
\* candidates keeps it scanning the memory for ever.
SearchEnds == <>[]armed => <>rh_done
=============================================================================
