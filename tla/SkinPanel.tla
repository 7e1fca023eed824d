----------------------------- MODULE SkinPanel -----------------------------
(***************************************************************************)
(* The refresh of the composited front panel (src/src/hw/display/          *)
(* deluge_skin.c).  A timer digests what the overlays show, in four        *)
(* groups, and repaints only the rectangles of the groups whose digest     *)
(* moved; a change of the scattered lamps, a first tick or too many idle   *)
(* ticks repaint everything.  The window must never keep an old picture.   *)
(*                                                                         *)
(* What an overlay shows is one value.  The digest of an overlay is a      *)
(* constant function that need not tell all values apart: a value it       *)
(* confuses with another is a change the digest misses.  The handlers run  *)
(* under one lock, so each is one step; who writes the sources (display    *)
(* controller, coprocessor, GPIO, output level) is external.               *)
(***************************************************************************)
EXTENDS SkinGeometry, FiniteSets

CONSTANTS
  Content,    \* what an overlay may show
  Garbled,    \* a picture that is no content: not painted, or half painted
  Hash,       \* the values of a digest
  Digest,     \* Digest[p][v]: the digest of overlay p showing v
  RefreshMs,  \* the property "refresh-ms", as given
  MaxStale    \* bound: overlays that may be out of date at a time

ASSUME SkinAssumption ==
  /\ Content # {} /\ Garbled \notin Content
  /\ Digest \in [Piece -> [Content -> Hash]]
  /\ RefreshMs \in Nat /\ MaxStale \in Nat \ {0}

VARIABLES
  source,             \* what the devices say each overlay shows
  screen,             \* what the window shows of each overlay
  region_hashes,      \* oled_hash, pad_hash, dyn_hash, misc_hash, by overlay
  have_region_hashes,
  idle_ticks,
  dirty,
  render_suspended

skinVars == <<source, screen, region_hashes, have_region_hashes, idle_ticks, dirty,
              render_suspended>>

refresh_ms == Clamp(RefreshMs, 10, 1000)
safety_ticks == (1000 + refresh_ms - 1) \div refresh_ms

SkinTypeOK ==
  /\ source \in [Piece -> Content]
  /\ screen \in [Piece -> Content \cup {Garbled}]
  /\ region_hashes \in [Piece -> Hash]
  /\ have_region_hashes \in BOOLEAN
  /\ idle_ticks \in 0 .. safety_ticks
  /\ dirty \in BOOLEAN /\ render_suspended \in BOOLEAN

-----------------------------------------------------------------------------
deluge_skin_region_hashes == [p \in Piece |-> Digest[p][source[p]]]

\* The groups whose digest differs from the one of the last painting.
Moved == {g \in Group :
            ~have_region_hashes
            \/ \E p \in Piece : /\ GroupOf[p] = g
                                /\ deluge_skin_region_hashes[p] # region_hashes[p]}

\* The window after painting the rectangles of these groups: an overlay
\* wholly inside them is up to date, one cut by them is half old, half new.
deluge_skin_paint(groups) ==
  [p \in Piece |->
     IF \E g \in groups : p \in Repainted[g] THEN source[p]
     ELSE IF (\E g \in groups : p \in Touched[g]) /\ screen[p] # source[p]
          THEN Garbled
          ELSE screen[p]]

\* A painting of the whole panel; the rectangle of "misc" is the panel.
deluge_skin_render ==
  /\ screen' = deluge_skin_paint({"misc"})
  /\ region_hashes' = deluge_skin_region_hashes
  /\ have_region_hashes' = TRUE
  /\ idle_ticks' = 0

SkinInit ==
  /\ source \in {[p \in Piece |-> v] : v \in Content}
  /\ screen = [p \in Piece |-> Garbled]
  /\ \E h \in Hash : region_hashes = [p \in Piece |-> h]
  /\ have_region_hashes = FALSE
  /\ idle_ticks = 0
  /\ dirty = TRUE
  /\ render_suspended = FALSE

\* A device changes what an overlay shows.
Change(p) ==
  /\ Cardinality({q \in Piece : screen[q] \in Content /\ screen[q] # source[q]})
       < MaxStale
  /\ \E v \in Content \ {source[p]} : source' = [source EXCEPT ![p] = v]
  /\ UNCHANGED <<screen, region_hashes, have_region_hashes, idle_ticks, dirty,
                 render_suspended>>

\* Everything is painted: nothing is remembered, the lamps moved, or the timer
\* has found nothing to do for long enough.
RefreshAll ==
  /\ ~have_region_hashes \/ idle_ticks + 1 >= safety_ticks \/ "misc" \in Moved
  /\ deluge_skin_render

RefreshMoved ==
  /\ have_region_hashes /\ idle_ticks + 1 < safety_ticks /\ "misc" \notin Moved
  /\ Moved # {}
  /\ screen' = deluge_skin_paint(Moved)
  /\ region_hashes' = deluge_skin_region_hashes
  /\ idle_ticks' = 0
  /\ UNCHANGED have_region_hashes

\* Fault for the runs: the idle ticks are never counted.
FaultRefreshIdle ==
  /\ have_region_hashes /\ idle_ticks + 1 < safety_ticks
  /\ Moved = {}
  /\ UNCHANGED <<screen, region_hashes, have_region_hashes, idle_ticks>>

RefreshIdle ==
  /\ have_region_hashes /\ idle_ticks + 1 < safety_ticks
  /\ Moved = {}
  /\ idle_ticks' = idle_ticks + 1
  /\ UNCHANGED <<screen, region_hashes, have_region_hashes>>

\* The timer, outside audio-only mode (in it the timer is only armed again).
deluge_skin_refresh ==
  /\ ~render_suspended
  /\ RefreshAll \/ RefreshMoved \/ RefreshIdle
  /\ UNCHANGED <<source, dirty, render_suspended>>

\* The display layer asks for a full picture; a reset of the device does so too.
deluge_skin_invalidate ==
  /\ dirty' = TRUE
  /\ UNCHANGED <<source, screen, region_hashes, have_region_hashes, idle_ticks,
                 render_suspended>>

\* The display layer's own refresh.
deluge_skin_update ==
  /\ ~render_suspended /\ dirty
  /\ dirty' = FALSE
  /\ deluge_skin_render
  /\ UNCHANGED <<source, render_suspended>>

\* Audio-only mode, on and off.
deluge_skin_set_render_suspended ==
  /\ render_suspended' = ~render_suspended
  /\ IF render_suspended
     THEN dirty' = TRUE /\ deluge_skin_render
     ELSE UNCHANGED <<screen, region_hashes, have_region_hashes, idle_ticks, dirty>>
  /\ UNCHANGED source

SkinNext ==
  \/ \E p \in Piece : Change(p)
  \/ deluge_skin_refresh
  \/ deluge_skin_invalidate
  \/ deluge_skin_update
  \/ deluge_skin_set_render_suspended

\* Every path through the callback arms the timer again.
SkinSpec == SkinInit /\ [][SkinNext]_skinVars /\ WF_skinVars(deluge_skin_refresh)

-----------------------------------------------------------------------------
\* The digests kept are those of what the window shows, so equal digests mean
\* that the window shows the sources, up to what the digest confuses.
RememberedIsShown ==
  have_region_hashes =>
    \A p \in Piece : /\ screen[p] \in Content
                     /\ region_hashes[p] = Digest[p][screen[p]]

\* A tick outside audio-only mode leaves no overlay out of date, whichever
\* rectangles it chose to paint, but for a change the digest cannot see.
TickShowsChanges ==
  [][deluge_skin_refresh =>
       \A p \in Piece : \/ screen'[p] = source[p]
                        \/ /\ screen'[p] \in Content
                           /\ Digest[p][screen'[p]] = Digest[p][source[p]]]_skinVars

\* Once the sources rest and audio-only mode is off, the window shows them,
\* a missed change included: the idle count forces a full painting.
SettledPanelIsRight ==
  \/ <>[](screen = source)
  \/ []<>render_suspended
  \/ []<><<source' # source>>_skinVars

\* An overlay that rests is shown right, whatever the others do: "so a missed
\* dynamic source can never leave the panel stale for long"
\* (deluge_skin.c:42-47).  Another overlay that keeps changing starts the idle
\* count anew with every partial painting, and breaks this.
MissedIsShown ==
  \A p \in Piece :
    \/ <>[](screen[p] = source[p])
    \/ []<>render_suspended
    \/ []<><<source'[p] # source[p]>>_skinVars
=============================================================================
