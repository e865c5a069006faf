--------------------------- MODULE SurfacesProofs ---------------------------
(***************************************************************************)
(* Proofs about what is painted: the lock surfaces, where their pixels are *)
(* and what they say, the surfaces of the desktop and the images given to  *)
(* them, for any surfaces, sizes, texts, schedules and limits.             *)
(*                                                                         *)
(* A lock surface that owes no redraw shows the current frame because of   *)
(* what its buffers still hold: a buffer that a partial redraw may trust   *)
(* has the current picture outside the overlay.  What was said is what the *)
(* pages turned so far show, and they are in a row.  Overlay and wallpaper *)
(* lie where quotients put them, rounded up or down.  A playback decodes   *)
(* the selected image, or the primary one for an empty screen, and a       *)
(* dissolve is to the selected image with nothing else under way.          *)
(***************************************************************************)
EXTENDS MCSurfaces, FiniteSetTheorems, SequenceTheorems, NaturalsInduction,
        WellFoundedInduction, TLAPS

-----------------------------------------------------------------------------
(* Numbers *)

Below == {p \in Nat \X Nat : p[1] < p[2]}

\* A set of natural numbers has a least one.
LEMMA LeastNatural ==
    ASSUME NEW S \in SUBSET Nat, S # {}
    PROVE  \E x \in S : \A y \in S : x <= y
<1>1. OpToRel(<, Nat) = Below
  BY Zenon DEF Below, OpToRel
<1>2. IsWellFoundedOn(Below, Nat)
  BY <1>1, NatLessThanWellFounded, Zenon
<1>3. PICK x \in S : \A y \in S : ~(<<y, x>> \in Below)
  BY <1>2, WFMin
<1>4. ASSUME NEW y \in S
      PROVE  x <= y
  <2>1. x \in Nat /\ y \in Nat /\ ~(<<y, x>> \in Below)
    BY <1>3
  <2>2. ~(y < x)
    BY <2>1 DEF Below
  <2>3. QED
    BY <2>1, <2>2
<1>5. QED
  BY <1>4

\* A bounded set of natural numbers has a largest one.
LEMMA LargestNatural ==
    ASSUME NEW n \in Nat, NEW S \in SUBSET (0 .. n), S # {}
    PROVE  \E x \in S : \A y \in S : x >= y
<1> DEFINE T == {n - x : x \in S}
<1>1. T \in SUBSET Nat /\ T # {}
  <2>1. \A x \in S : n - x \in Nat
    OBVIOUS
  <2>2. QED
    BY <2>1
<1>2. PICK t \in T : \A y \in T : t <= y
  BY <1>1, LeastNatural
<1>3. PICK x \in S : t = n - x
  BY <1>2
<1>4. ASSUME NEW y \in S
      PROVE  x >= y
  <2>1. t <= n - y
    BY <1>2
  <2>2. x \in 0 .. n /\ y \in 0 .. n
    BY <1>3
  <2>3. QED
    BY <1>3, <2>1, <2>2
<1>5. QED
  BY <1>3, <1>4

-----------------------------------------------------------------------------
(* The lock surfaces *)

LockRests    == [size : Nat, authentication : BOOLEAN, background : Background,
                 geometry : Geometry]
LockRegions  == [rest : LockRests, overlay : SUBSET Pixels]
LockPictures == [rest : LockRests \cup {Lock!None}, region : LockRegions \cup {Lock!None}]
LockBuffers  == [size : Nat, geometry : BOOLEAN, role : BOOLEAN, background : BOOLEAN,
                 held : BOOLEAN, latest : BOOLEAN, picture : LockPictures]
LockCaches   == [source : BOOLEAN, target : {<< >>} \cup (Nat \X Geometry),
                 pixels : Pixels \cup {Lock!None}]
LockSurfaces == [size : Size \cup {Lock!None}, scale : Scale, authentication : BOOLEAN,
                 buffers : Seq(LockBuffers), cache : LockCaches, redraw : Lock!RedrawStates]
LockFrames   == [background : Background, overlay : Pixels, geometry : Geometry]

\* What a surface shows outside the overlay's region once a frame is drawn in full.
RestOf(u, f) ==
    [size |-> u.size * u.scale, authentication |-> u.authentication,
     background |-> f.background, geometry |-> f.geometry]

PictureOf(u, f) ==
    [rest |-> RestOf(u, f),
     region |-> [rest |-> RestOf(u, f),
                 overlay |-> IF u.authentication THEN {f.overlay} ELSE {}]]

\* A buffer that a partial redraw may trust.
Trusted(b) == b.geometry /\ b.role /\ b.background

BuffersInv(u, f) ==
    \A i \in 1 .. Len(u.buffers) :
        /\ u.buffers[i].geometry => u.buffers[i].size = u.size * u.scale
        /\ Trusted(u.buffers[i]) => u.buffers[i].picture.rest = RestOf(u, f)

PendingInv(u) ==
    /\ u.redraw.geometry_pending => u.redraw.redraw_pending = "Full"
    /\ u.redraw.role_pending => u.redraw.geometry_pending
    /\ u.size = Lock!None => u.redraw.redraw_pending = "Full"
    /\ u.redraw.redraw_pending = "Overlay" => u.authentication

ScreenInv(u, f, p) ==
    /\ u.redraw.redraw_pending = "None" => p = PictureOf(u, f)
    /\ u.redraw.redraw_pending = "Overlay" =>
         \A i \in 1 .. Len(u.buffers) : Trusted(u.buffers[i]) => p.rest = RestOf(u, f)

CacheInv(u, f) == u.cache.source => u.cache.pixels = f.overlay

SurfaceInv(u, f, p) ==
    /\ u \in LockSurfaces /\ Len(u.buffers) <= 2
    /\ BuffersInv(u, f) /\ PendingInv(u) /\ ScreenInv(u, f, p) /\ CacheInv(u, f)

LockInv ==
    /\ v1 = [s \in Surface |-> v1[s]]
    /\ v2 \in LockFrames /\ v3 = v2.geometry
    /\ v4 \in [at : {"dispatch", "partial", "deferred", "maintain"},
               priority : {"Unchanged", "Overlay"}, allow : BOOLEAN]
    /\ v5 \in [Surface -> LockPictures] /\ v6 \in SUBSET Surface
    /\ \A s \in Surface : SurfaceInv(v1[s], v2, v5[s])
    /\ \A s \in Surface : v1[s].redraw.frame_pending <=> s \in v6

-----------------------------------------------------------------------------

\* The names of the model are apart from the values it is given.
LEMMA LockNames ==
    ASSUME NEW u
    PROVE  /\ Lock!buffer_size(u) = u.size * u.scale
           /\ Lock!Rest(u) = RestOf(u, v2)
           /\ \A o : Lock!Picture(u, o) =
                 [rest |-> RestOf(u, v2),
                  region |-> [rest |-> RestOf(u, v2),
                              overlay |-> IF u.authentication THEN {o} ELSE {}]]
BY DEF Lock!buffer_size, Lock!Rest, RestOf, Lock!Picture, Lock!Region

\* Sizes and scales are positive numbers, and so are their products.
LEMMA LockSizes ==
    ASSUME NEW u \in LockSurfaces
    PROVE  u.size * u.scale \in Nat
<1>1. u.size \in Size \cup {Lock!None} /\ u.scale \in Scale
  BY DEF LockSurfaces
<1>2. Size \subseteq Nat /\ Scale \subseteq Nat /\ Lock!None \in Nat
  BY LockAssumption DEF Lock!RedrawAssumption, Lock!None
<1>3. u.size \in Nat /\ u.scale \in Nat
  BY <1>1, <1>2
<1>4. \A m, n \in Nat : m * n \in Nat
  OBVIOUS
<1>5. QED
  BY <1>3, <1>4

\* What a configured surface shows outside the overlay is of its type.
LEMMA RestType ==
    ASSUME NEW u \in LockSurfaces, NEW f \in LockFrames
    PROVE  RestOf(u, f) \in LockRests /\ PictureOf(u, f) \in LockPictures
<1>1. RestOf(u, f) \in LockRests
  BY LockSizes DEF LockSurfaces, LockFrames, LockRests, RestOf
<1>2. (IF u.authentication THEN {f.overlay} ELSE {}) \in SUBSET Pixels
  BY DEF LockFrames
<1>3. QED
  BY <1>1, <1>2 DEF PictureOf, LockPictures, LockRegions

\* The first of some buffers.
LEMMA FirstIsOne ==
    ASSUME NEW S \in SUBSET (1 .. 2), S # {}
    PROVE  Lock!First(S) \in S /\ \A j \in S : Lock!First(S) <= j
<1>1. \E i \in S : \A j \in S : i <= j
  <2>1. CASE 1 \in S
    BY <2>1
  <2>2. CASE 1 \notin S
    <3>1. \A i \in S : i = 2
      BY <2>2
    <3>2. PICK i : i \in S
      OBVIOUS
    <3>3. QED
      BY <3>1, <3>2
  <2>3. QED
    BY <2>1, <2>2
<1>2. QED
  BY <1>1 DEF Lock!First

\* Stale marks a surface whose frame, size or role changed, and touches nothing else.
LEMMA StaleFields ==
    ASSUME NEW u \in LockSurfaces, NEW g \in {"geometry", "role", "background"}
    PROVE  /\ Lock!Stale(u, g) \in LockSurfaces
           /\ Lock!Stale(u, g) = [u EXCEPT !.buffers = Lock!Stale(u, g).buffers]
           /\ Len(Lock!Stale(u, g).buffers) = Len(u.buffers)
           /\ \A i \in 1 .. Len(u.buffers) :
                 Lock!Stale(u, g).buffers[i] = [u.buffers[i] EXCEPT ![g] = FALSE]
<1> DEFINE b == [i \in DOMAIN u.buffers |-> [u.buffers[i] EXCEPT ![g] = FALSE]]
<1>1. u.buffers \in Seq(LockBuffers)
  BY DEF LockSurfaces
<1>2. DOMAIN u.buffers = 1 .. Len(u.buffers) /\ Len(u.buffers) \in Nat
  BY <1>1
<1>3. \A i \in 1 .. Len(u.buffers) : [u.buffers[i] EXCEPT ![g] = FALSE] \in LockBuffers
  <2> TAKE i \in 1 .. Len(u.buffers)
  <2>1. u.buffers[i] \in LockBuffers
    BY <1>1
  <2>2. QED
    BY <2>1 DEF LockBuffers
<1>4. b \in Seq(LockBuffers) /\ Len(b) = Len(u.buffers)
  BY <1>2, <1>3
<1>5. Lock!Stale(u, g) = [u EXCEPT !.buffers = b]
  BY DEF Lock!Stale
<1> HIDE DEF b
<1>6. Lock!Stale(u, g).buffers = b
  BY <1>5 DEF LockSurfaces
<1>7. Lock!Stale(u, g) \in LockSurfaces
  BY <1>4, <1>5 DEF LockSurfaces
<1>8. QED
  BY <1>2, <1>4, <1>5, <1>6, <1>7 DEF b

\* A buffer of an old generation is trusted no more.
LEMMA StaleUntrusted ==
    ASSUME NEW u \in LockSurfaces, NEW g \in {"geometry", "role", "background"}
    PROVE  \A i \in 1 .. Len(u.buffers) :
             /\ ~Trusted(Lock!Stale(u, g).buffers[i])
             /\ Lock!Stale(u, g).buffers[i].geometry => g # "geometry" /\ u.buffers[i].geometry
             /\ Lock!Stale(u, g).buffers[i].size = u.buffers[i].size
<1> TAKE i \in 1 .. Len(u.buffers)
<1>1. u.buffers[i] \in LockBuffers
  BY DEF LockSurfaces
<1>2. Lock!Stale(u, g).buffers[i] = [u.buffers[i] EXCEPT ![g] = FALSE]
  BY StaleFields
<1>3. CASE g = "geometry"
  BY <1>1, <1>2, <1>3 DEF LockBuffers, Trusted
<1>4. CASE g = "role"
  BY <1>1, <1>2, <1>4 DEF LockBuffers, Trusted
<1>5. CASE g = "background"
  BY <1>1, <1>2, <1>5 DEF LockBuffers, Trusted
<1>6. QED
  BY <1>3, <1>4, <1>5

\* The buffers render keeps are those of the current geometry and role.
LEMMA RetainedFields ==
    ASSUME NEW u \in LockSurfaces, Len(u.buffers) <= 2
    PROVE  /\ Lock!Retained(u) \in LockSurfaces
           /\ Lock!Retained(u) = [u EXCEPT !.buffers = Lock!Retained(u).buffers]
           /\ Len(Lock!Retained(u).buffers) <= 2
           /\ \A i \in 1 .. Len(Lock!Retained(u).buffers) :
                LET b == Lock!Retained(u).buffers[i] IN
                /\ b.size = u.size * u.scale /\ b.geometry /\ b.role
                /\ \E j \in 1 .. Len(u.buffers) : b = u.buffers[j]
<1> DEFINE q == u.buffers
           K == {i \in DOMAIN q : q[i].size = Lock!buffer_size(u) /\ q[i].geometry /\ q[i].role}
           b == Lock!Keep(q, K)
<1>1. q \in Seq(LockBuffers) /\ Len(q) \in Nat /\ DOMAIN q = 1 .. Len(q)
  BY DEF LockSurfaces
<1>2. Lock!Retained(u) = [u EXCEPT !.buffers = b]
  BY DEF Lock!Retained
<1>3. /\ b \in Seq(LockBuffers) /\ Len(b) <= 2
      /\ \A i \in 1 .. Len(b) : \E j \in K : b[i] = q[j]
  <2>1. CASE K = DOMAIN q
    BY <1>1, <2>1 DEF Lock!Keep
  <2>2. CASE K = {} /\ K # DOMAIN q
    BY <2>2 DEF Lock!Keep
  <2>3. CASE K # {} /\ K # DOMAIN q
    <3>1. K \in SUBSET (1 .. 2) /\ K \subseteq DOMAIN q
      BY <1>1
    <3> HIDE DEF K
    <3>2. Lock!First(K) \in K
      BY <2>3, <3>1, FirstIsOne
    <3>3. b = <<q[Lock!First(K)]>>
      BY <2>3 DEF Lock!Keep
    <3>4. q[Lock!First(K)] \in LockBuffers
      <4>1. Lock!First(K) \in 1 .. Len(q)
        BY <1>1, <3>1, <3>2
      <4>2. \A i \in 1 .. Len(q) : q[i] \in LockBuffers
        BY <1>1
      <4>3. QED
        BY <4>1, <4>2
    <3>5. QED
      BY <3>2, <3>3, <3>4
  <2>4. QED
    BY <2>1, <2>2, <2>3
<1>4. \A j \in K : j \in 1 .. Len(q) /\ q[j].size = u.size * u.scale /\ q[j].geometry /\ q[j].role
  BY <1>1, LockNames
<1> HIDE DEF b, K
<1>5. Lock!Retained(u).buffers = b /\ Lock!Retained(u) \in LockSurfaces
  BY <1>2, <1>3 DEF LockSurfaces
<1>6. QED
  BY <1>2, <1>3, <1>4, <1>5

\* The buffers that maintain retains are among those of the surface, in their order.
LEMMA RetainedKeeps ==
    ASSUME NEW u, NEW f, NEW p, SurfaceInv(u, f, p)
    PROVE  SurfaceInv(Lock!Retained(u), f, p)
<1> DEFINE w == Lock!Retained(u)
<1>1. u \in LockSurfaces /\ Len(u.buffers) <= 2
  BY DEF SurfaceInv
<1>2. /\ w \in LockSurfaces /\ Len(w.buffers) <= 2
      /\ \A i \in 1 .. Len(w.buffers) : \E j \in 1 .. Len(u.buffers) : w.buffers[i] = u.buffers[j]
  BY <1>1, RetainedFields
<1>3. /\ w.size = u.size /\ w.scale = u.scale /\ w.authentication = u.authentication
      /\ w.cache = u.cache /\ w.redraw = u.redraw
  BY <1>1, RetainedFields DEF LockSurfaces
<1> HIDE DEF w
<1>4. RestOf(w, f) = RestOf(u, f) /\ PictureOf(w, f) = PictureOf(u, f)
  BY <1>3 DEF RestOf, PictureOf
<1>5. BuffersInv(w, f)
  BY <1>2, <1>3, <1>4 DEF SurfaceInv, BuffersInv
<1>6. ScreenInv(w, f, p)
  BY <1>2, <1>3, <1>4 DEF SurfaceInv, ScreenInv
<1>7. PendingInv(w) /\ CacheInv(w, f)
  BY <1>3 DEF SurfaceInv, PendingInv, CacheInv
<1>8. QED
  BY <1>2, <1>5, <1>6, <1>7 DEF SurfaceInv, w

\* A surface that takes its role back (render without presentation feedback).
LEMMA DeniedKeeps ==
    ASSUME NEW u, NEW f, NEW p, SurfaceInv(u, f, p)
    PROVE  /\ SurfaceInv(Lock!Denied(u), f, p)
           /\ Lock!Denied(u).redraw.frame_pending = u.redraw.frame_pending
<1> DEFINE w == Lock!Denied(u)
           b == [i \in DOMAIN u.buffers |-> [u.buffers[i] EXCEPT !.role = FALSE]]
           r == [u.redraw EXCEPT !.redraw_pending = "Full", !.geometry_pending = TRUE,
                                 !.role_pending = TRUE]
<1>1. u \in LockSurfaces /\ Len(u.buffers) <= 2
  BY DEF SurfaceInv
<1>2. u.buffers \in Seq(LockBuffers) /\ Len(u.buffers) \in Nat
      /\ DOMAIN u.buffers = 1 .. Len(u.buffers) /\ u.redraw \in Lock!RedrawStates
  BY <1>1 DEF LockSurfaces
<1>3. \A i \in 1 .. Len(u.buffers) :
        /\ [u.buffers[i] EXCEPT !.role = FALSE] \in LockBuffers
        /\ ~Trusted([u.buffers[i] EXCEPT !.role = FALSE])
        /\ [u.buffers[i] EXCEPT !.role = FALSE].geometry = u.buffers[i].geometry
        /\ [u.buffers[i] EXCEPT !.role = FALSE].size = u.buffers[i].size
  <2> TAKE i \in 1 .. Len(u.buffers)
  <2>1. u.buffers[i] \in LockBuffers
    BY <1>2
  <2>2. QED
    BY <2>1 DEF LockBuffers, Trusted
<1>4. b \in Seq(LockBuffers) /\ Len(b) = Len(u.buffers)
  BY <1>2, <1>3
<1>5. /\ r \in Lock!RedrawStates /\ r.redraw_pending = "Full" /\ r.geometry_pending
      /\ r.frame_pending = u.redraw.frame_pending
  BY <1>2 DEF Lock!RedrawStates
<1>6. Lock!request_role_change(u.redraw) = r
  BY <1>2 DEF Lock!request_role_change, Lock!request_geometry, Lock!RedrawStates
<1>7. w = [u EXCEPT !.authentication = TRUE, !.cache = Lock!NoCache, !.buffers = b, !.redraw = r]
  BY <1>6 DEF Lock!Denied
<1>8. Lock!NoCache \in LockCaches /\ ~Lock!NoCache.source
  BY DEF Lock!NoCache, LockCaches
<1> HIDE DEF w, r
<1>9. /\ w \in LockSurfaces /\ w.size = u.size /\ w.scale = u.scale /\ w.authentication
      /\ w.cache = Lock!NoCache /\ w.buffers = b /\ w.redraw = r
  BY <1>1, <1>4, <1>5, <1>7, <1>8 DEF LockSurfaces
<1>10. BuffersInv(w, f)
  <2>1. ASSUME NEW i \in 1 .. Len(b)
        PROVE  (b[i].geometry => b[i].size = u.size * u.scale) /\ ~Trusted(b[i])
    BY <1>2, <1>3, <1>4, <2>1 DEF SurfaceInv, BuffersInv
  <2>2. QED
    BY <2>1, <1>9 DEF BuffersInv
<1>11. PendingInv(w) /\ ScreenInv(w, f, p) /\ CacheInv(w, f)
  BY <1>5, <1>8, <1>9 DEF PendingInv, ScreenInv, CacheInv
<1>12. QED
  BY <1>1, <1>4, <1>5, <1>9, <1>10, <1>11 DEF SurfaceInv, w

\* The cached overlay is that of the frame.
LEMMA CacheIsCurrent ==
    ASSUME NEW u \in LockSurfaces, v2 \in LockFrames, CacheInv(u, v2)
    PROVE  /\ Lock!scaled_overlay(u) \in LockCaches
           /\ Lock!scaled_overlay(u).source => Lock!scaled_overlay(u).pixels = v2.overlay
           /\ u.authentication => Lock!scaled_overlay(u).pixels = v2.overlay
<1>1. u.cache \in LockCaches /\ u.authentication \in BOOLEAN
  BY DEF LockSurfaces
<1>2. Lock!NoCache \in LockCaches /\ ~Lock!NoCache.source
  BY DEF Lock!NoCache, LockCaches
<1> DEFINE t == <<u.size * u.scale, v2.geometry>>
           c == [source |-> TRUE, target |-> t, pixels |-> v2.overlay]
<1>3. c \in LockCaches /\ c.pixels = v2.overlay
  <2>1. t \in Nat \X Geometry /\ v2.overlay \in Pixels
    BY LockSizes DEF LockFrames
  <2>2. QED
    BY <2>1 DEF LockCaches
<1>4. Lock!scaled_overlay(u) \in {Lock!NoCache, u.cache, c}
  BY LockNames DEF Lock!scaled_overlay
<1>5. u.authentication => Lock!scaled_overlay(u) = c \/ (Lock!scaled_overlay(u) = u.cache /\ u.cache.source)
  BY LockNames DEF Lock!scaled_overlay, Lock!CacheMatches
<1> HIDE DEF c
<1>6. QED
  BY <1>1, <1>2, <1>3, <1>4, <1>5 DEF CacheInv

\* A surface with nothing of an old geometry or role is drawn: what is committed is the
\* current picture (render, select_reusable_buffer).
LEMMA RenderedKeeps ==
    ASSUME NEW u, NEW p \in LockPictures, v2 \in LockFrames, SurfaceInv(u, v2, p),
           u.size # Lock!None,
           \A i \in 1 .. Len(u.buffers) :
               u.buffers[i].size = u.size * u.scale /\ u.buffers[i].geometry /\ u.buffers[i].role
    PROVE  LET r == Lock!Rendered(u, p) IN
           /\ SurfaceInv(r.surface, v2, r.screen) /\ r.screen \in LockPictures
           /\ r.done \in BOOLEAN
           /\ r.done => r.surface.redraw.frame_pending
           /\ ~r.done => r.surface.redraw = u.redraw
<1> DEFINE cache == Lock!scaled_overlay(u)
           now   == Lock!Picture(u, cache.pixels)
           fresh == Lock!Reusable(u) = {}
           i     == IF fresh THEN Len(u.buffers) + 1
                    ELSE Lock!select_reusable_buffer(u, u.redraw.redraw_pending)
           all   == IF fresh THEN Append(u.buffers, Lock!Canvas(u)) ELSE u.buffers
           part_ == ~fresh /\ Lock!Partial(u, i)
           drawn == IF part_ THEN [all[i].picture EXCEPT !.region = now.region] ELSE now
           b     == [j \in DOMAIN all |->
                        IF j = i
                        THEN [all[j] EXCEPT !.background = TRUE, !.held = TRUE,
                                            !.latest = TRUE, !.picture = drawn]
                        ELSE [all[j] EXCEPT !.latest = FALSE]]
           w     == [u EXCEPT !.cache = cache, !.redraw = Lock!committed(u.redraw), !.buffers = b]
           r     == Lock!Rendered(u, p)
           full  == fresh /\ Len(u.buffers) >= 2
<1>1. u \in LockSurfaces /\ Len(u.buffers) <= 2 /\ CacheInv(u, v2)
  BY DEF SurfaceInv
<1>2. u.buffers \in Seq(LockBuffers) /\ Len(u.buffers) \in Nat
      /\ DOMAIN u.buffers = 1 .. Len(u.buffers) /\ u.redraw \in Lock!RedrawStates
  BY <1>1 DEF LockSurfaces
<1>3. /\ cache \in LockCaches /\ (cache.source => cache.pixels = v2.overlay)
      /\ u.authentication => cache.pixels = v2.overlay
  BY <1>1, CacheIsCurrent
<1>4. r = IF full THEN [surface |-> [u EXCEPT !.cache = cache], screen |-> p, done |-> FALSE]
          ELSE [surface |-> w,
                screen |-> IF part_ THEN [p EXCEPT !.region = drawn.region] ELSE drawn,
                done |-> TRUE]
  BY DEF Lock!Rendered, Lock!BUFFER_COUNT
<1>5. now = PictureOf(u, v2) /\ now \in LockPictures
  <2>1. now = PictureOf(u, v2)
    BY <1>3, LockNames DEF PictureOf
  <2>2. QED
    BY <1>1, <2>1, RestType
<1> HIDE DEF cache, now, r
<1>6. CASE full
  <2>1. r.surface = [u EXCEPT !.cache = cache] /\ r.screen = p /\ r.done = FALSE
    BY <1>4, <1>6
  <2> DEFINE x == [u EXCEPT !.cache = cache]
  <2>2. /\ x \in LockSurfaces /\ x.size = u.size /\ x.scale = u.scale /\ x.buffers = u.buffers
        /\ x.authentication = u.authentication /\ x.redraw = u.redraw /\ x.cache = cache
    BY <1>1, <1>3 DEF LockSurfaces
  <2> HIDE DEF x
  <2>3. SurfaceInv(x, v2, p)
    BY <1>3, <2>2 DEF SurfaceInv, BuffersInv, PendingInv, ScreenInv, CacheInv, RestOf, PictureOf
  <2>4. QED
    BY <2>1, <2>2, <2>3 DEF r, x
<1>7. CASE ~full
  <2>1. /\ i \in 1 .. Len(all) /\ all \in Seq(LockBuffers) /\ Len(all) \in Nat /\ Len(all) <= 2
        /\ DOMAIN all = 1 .. Len(all)
        /\ \A j \in 1 .. Len(all) :
              all[j].size = u.size * u.scale /\ all[j].geometry /\ all[j].role
        /\ \A j \in 1 .. Len(all) :
              j # i => j \in 1 .. Len(u.buffers) /\ all[j] = u.buffers[j]
        /\ ~fresh => all = u.buffers
    <3>1. CASE fresh
      <4> DEFINE c == Lock!Canvas(u)
      <4>1. c \in LockBuffers /\ c.size = u.size * u.scale /\ c.geometry /\ c.role
        BY <1>1, LockSizes, LockNames
        DEF Lock!Canvas, LockBuffers, LockPictures, Lock!NoPicture
      <4>2. all = Append(u.buffers, c) /\ i = Len(u.buffers) + 1 /\ Len(u.buffers) < 2
        BY <1>2, <1>7, <3>1
      <4> HIDE DEF c, all, i, fresh
      <4>3. QED
        BY <1>2, <3>1, <4>1, <4>2
    <3>2. CASE ~fresh
      <4>1. all = u.buffers /\ i = Lock!select_reusable_buffer(u, u.redraw.redraw_pending)
        BY <3>2
      <4>2. /\ Lock!Reusable(u) \in SUBSET (1 .. 2) /\ Lock!CurrentReusable(u) \in SUBSET (1 .. 2)
            /\ Lock!Reusable(u) \subseteq 1 .. Len(u.buffers)
            /\ Lock!CurrentReusable(u) \subseteq 1 .. Len(u.buffers) /\ Lock!Reusable(u) # {}
        BY <1>1, <1>2, <3>2 DEF Lock!Reusable, Lock!CurrentReusable
      <4>3. i \in 1 .. Len(u.buffers)
        BY <4>1, <4>2, FirstIsOne DEF Lock!select_reusable_buffer
      <4> HIDE DEF all, i, fresh
      <4>4. QED
        BY <1>1, <1>2, <3>2, <4>1, <4>3
    <3>3. QED
      BY <3>1, <3>2
  <2>2. part_ => /\ u.redraw.redraw_pending = "Overlay" /\ i \in 1 .. Len(u.buffers)
                 /\ Trusted(u.buffers[i])
    BY <2>1 DEF Lock!Partial, Trusted
  <2>3. part_ => p.rest = RestOf(u, v2)
    BY <2>2 DEF SurfaceInv, ScreenInv
  <2>4. drawn \in LockPictures /\ drawn.rest = RestOf(u, v2) /\ drawn.region = now.region
    <3>1. CASE part_
      <4>1. all[i].picture \in LockPictures
        <5> HIDE DEF all, i
        <5>1. all[i] \in LockBuffers
          BY <2>1
        <5>2. QED
          BY <5>1 DEF LockBuffers
      <4>2. all[i].picture.rest = RestOf(u, v2)
        BY <2>1, <2>2, <3>1 DEF SurfaceInv, BuffersInv
      <4>3. drawn = [all[i].picture EXCEPT !.region = now.region]
        BY <3>1
      <4> HIDE DEF drawn, all, i
      <4>4. QED
        BY <1>5, <4>1, <4>2, <4>3 DEF LockPictures
    <3>2. CASE ~part_
      BY <1>5, <3>2 DEF PictureOf
    <3>3. QED
      BY <3>1, <3>2
  <2> DEFINE sc == IF part_ THEN [p EXCEPT !.region = drawn.region] ELSE drawn
  <2>5. sc = PictureOf(u, v2)
    <3>1. CASE part_
      <4>1. sc = [p EXCEPT !.region = now.region]
        BY <2>4, <3>1
      <4> HIDE DEF sc
      <4>2. sc = [rest |-> p.rest, region |-> now.region]
        BY <4>1 DEF LockPictures
      <4>3. QED
        BY <1>5, <2>3, <3>1, <4>2 DEF PictureOf
    <3>2. CASE ~part_
      BY <1>5, <3>2
    <3>3. QED
      BY <3>1, <3>2
  <2> HIDE DEF drawn, sc, part_, all, i
  <2>6. /\ b \in Seq(LockBuffers) /\ Len(b) = Len(all)
        /\ \A j \in 1 .. Len(all) :
             /\ b[j].size = u.size * u.scale
             /\ Trusted(b[j]) => b[j].picture.rest = RestOf(u, v2)
    <3>1. \A j \in 1 .. Len(all) :
             /\ b[j] \in LockBuffers /\ b[j].size = u.size * u.scale
             /\ Trusted(b[j]) => b[j].picture.rest = RestOf(u, v2)
      <4> TAKE j \in 1 .. Len(all)
      <4>1. all[j] \in LockBuffers /\ all[j].size = u.size * u.scale
        BY <2>1
      <4>2. CASE j = i
        <5>1. b[j] = [all[j] EXCEPT !.background = TRUE, !.held = TRUE,
                                    !.latest = TRUE, !.picture = drawn]
          BY <2>1, <4>2
        <5> HIDE DEF b
        <5>2. QED
          BY <2>4, <4>1, <5>1 DEF LockBuffers
      <4>3. CASE j # i
        <5>1. b[j] = [all[j] EXCEPT !.latest = FALSE]
          BY <2>1, <4>3
        <5>2. Trusted(all[j]) => all[j].picture.rest = RestOf(u, v2)
          BY <2>1, <4>3 DEF SurfaceInv, BuffersInv
        <5> HIDE DEF b
        <5>3. QED
          BY <4>1, <5>1, <5>2 DEF LockBuffers, Trusted
      <4>4. QED
        BY <4>2, <4>3
    <3>2. b = [j \in 1 .. Len(all) |-> b[j]]
      BY <2>1
    <3> HIDE DEF b
    <3>3. b \in [1 .. Len(all) -> LockBuffers]
      BY <3>1, <3>2
    <3>4. QED
      BY <2>1, <3>1, <3>3
  <2> HIDE DEF b
  <2>7. /\ Lock!committed(u.redraw) \in Lock!RedrawStates
        /\ Lock!committed(u.redraw).redraw_pending = "None"
        /\ Lock!committed(u.redraw).frame_pending
        /\ ~Lock!committed(u.redraw).geometry_pending /\ ~Lock!committed(u.redraw).role_pending
    BY DEF Lock!committed, Lock!Idle, Lock!RedrawStates
  <2>8. /\ w \in LockSurfaces /\ w.size = u.size /\ w.scale = u.scale /\ w.buffers = b
        /\ w.authentication = u.authentication /\ w.redraw = Lock!committed(u.redraw)
        /\ w.cache = cache
    BY <1>1, <1>3, <2>6, <2>7 DEF LockSurfaces
  <2>9. r.surface = w /\ r.screen = sc /\ r.done = TRUE
    BY <1>4, <1>7 DEF sc
  <2> HIDE DEF w
  <2>10. RestOf(w, v2) = RestOf(u, v2) /\ PictureOf(w, v2) = PictureOf(u, v2)
    BY <2>8 DEF RestOf, PictureOf
  <2>11. SurfaceInv(w, v2, sc)
    <3>1. Len(w.buffers) <= 2 /\ BuffersInv(w, v2)
      BY <2>1, <2>6, <2>8, <2>10 DEF BuffersInv
    <3>2. PendingInv(w) /\ ScreenInv(w, v2, sc) /\ CacheInv(w, v2)
      BY <1>3, <2>5, <2>7, <2>8, <2>10 DEF PendingInv, ScreenInv, CacheInv
    <3>3. QED
      BY <2>8, <3>1, <3>2 DEF SurfaceInv
  <2>12. sc \in LockPictures
    BY <1>5, <2>5
  <2>13. QED
    BY <2>7, <2>8, <2>9, <2>11, <2>12 DEF r
<1>8. QED
  BY <1>6, <1>7

\* One render of the surfaces that are ready.
LEMMA RenderKeeps ==
    ASSUME LockInv, NEW chosen \in SUBSET Lock!Configured, NEW denied,
           Lock!Render(Lock!Kept, chosen, denied), UNCHANGED <<v2, v3>>,
           v4' \in [at : {"dispatch", "partial", "deferred", "maintain"},
                    priority : {"Unchanged", "Overlay"}, allow : BOOLEAN]
    PROVE  LockInv'
<1> DEFINE kept  == Lock!Kept
           after == [s \in chosen \ denied |-> Lock!Rendered(kept[s], v5[s])]
<1>1. /\ \A s \in Surface : SurfaceInv(v1[s], v2, v5[s]) /\ v5[s] \in LockPictures
      /\ v2 \in LockFrames /\ v5 \in [Surface -> LockPictures] /\ v6 \in SUBSET Surface
      /\ \A s \in Surface : v1[s].redraw.frame_pending <=> s \in v6
      /\ chosen \subseteq Surface
  BY DEF LockInv, Lock!Configured
<1>2. /\ v1' = [s \in Surface |->
             IF s \in denied THEN Lock!Denied(kept[s])
             ELSE IF s \in chosen THEN after[s].surface ELSE kept[s]]
      /\ v5' = [s \in Surface |-> IF s \in chosen \ denied THEN after[s].screen ELSE v5[s]]
      /\ v6' = v6 \cup {s \in chosen \ denied : after[s].done /\ ~kept[s].redraw.frame_pending}
  BY DEF Lock!Render
<1>3. ASSUME NEW s \in Surface
      PROVE  /\ SurfaceInv(v1'[s], v2, v5'[s]) /\ v5'[s] \in LockPictures
             /\ v1'[s].redraw.frame_pending <=> s \in v6'
  <2>1. /\ SurfaceInv(kept[s], v2, v5[s])
        /\ kept[s].redraw.frame_pending <=> s \in v6
        /\ kept[s].size = v1[s].size
        /\ s \in chosen =>
             /\ kept[s].size # Lock!None
             /\ \A i \in 1 .. Len(kept[s].buffers) :
                  /\ kept[s].buffers[i].size = kept[s].size * kept[s].scale
                  /\ kept[s].buffers[i].geometry /\ kept[s].buffers[i].role
    <3>1. SurfaceInv(v1[s], v2, v5[s]) /\ v1[s] \in LockSurfaces /\ Len(v1[s].buffers) <= 2
      BY <1>1 DEF SurfaceInv
    <3>2. CASE s \in Lock!Configured
      <4>1. kept[s] = Lock!Retained(v1[s]) /\ v1[s].size # Lock!None
        BY <3>2 DEF Lock!Kept, Lock!Configured
      <4> DEFINE w == Lock!Retained(v1[s])
      <4>2. w.size = v1[s].size /\ w.scale = v1[s].scale /\ w.redraw = v1[s].redraw
        BY <3>1, RetainedFields DEF LockSurfaces
      <4>3. \A i \in 1 .. Len(w.buffers) :
                /\ w.buffers[i].size = v1[s].size * v1[s].scale
                /\ w.buffers[i].geometry /\ w.buffers[i].role
        BY <3>1, RetainedFields
      <4>4. SurfaceInv(w, v2, v5[s])
        BY <3>1, RetainedKeeps
      <4> HIDE DEF w, kept
      <4>5. QED
        BY <1>1, <4>1, <4>2, <4>3, <4>4 DEF w
    <3>3. CASE s \notin Lock!Configured
      <4>1. kept[s] = v1[s] /\ s \notin chosen
        BY <3>3 DEF Lock!Kept
      <4> HIDE DEF kept
      <4>2. QED
        BY <1>1, <4>1
    <3>4. QED
      BY <3>2, <3>3
  <2> HIDE DEF kept
  <2>2. CASE s \in denied
    <3>1. v1'[s] = Lock!Denied(kept[s]) /\ v5'[s] = v5[s] /\ (s \in v6' <=> s \in v6)
      BY <1>2, <2>2
    <3>2. /\ SurfaceInv(Lock!Denied(kept[s]), v2, v5[s])
          /\ Lock!Denied(kept[s]).redraw.frame_pending = kept[s].redraw.frame_pending
      BY <2>1, DeniedKeeps
    <3>3. QED
      BY <1>1, <2>1, <3>1, <3>2
  <2>3. CASE s \in chosen \ denied
    <3> DEFINE r == Lock!Rendered(kept[s], v5[s])
    <3>1. /\ v1'[s] = r.surface /\ v5'[s] = r.screen
          /\ s \in v6' <=> s \in v6 \/ (r.done /\ ~kept[s].redraw.frame_pending)
      BY <1>2, <2>3
    <3>2. /\ SurfaceInv(r.surface, v2, r.screen) /\ r.screen \in LockPictures
          /\ r.done \in BOOLEAN /\ (r.done => r.surface.redraw.frame_pending)
          /\ ~r.done => r.surface.redraw = kept[s].redraw
      BY <1>1, <2>1, <2>3, RenderedKeeps
    <3> HIDE DEF r
    <3>3. QED
      BY <1>1, <2>1, <3>1, <3>2
  <2>4. CASE s \notin denied /\ s \notin chosen
    <3>1. v1'[s] = kept[s] /\ v5'[s] = v5[s] /\ (s \in v6' <=> s \in v6)
      BY <1>2, <2>4
    <3>2. QED
      BY <1>1, <2>1, <3>1
  <2>5. QED
    BY <2>2, <2>3, <2>4
<1>4. /\ v1' = [s \in Surface |-> v1'[s]] /\ v6' \in SUBSET Surface
      /\ v5' = [s \in Surface |-> v5'[s]]
  BY <1>1, <1>2
<1>5. v5' \in [Surface -> LockPictures]
  BY <1>3, <1>4
<1>6. QED
  BY <1>3, <1>4, <1>5 DEF LockInv

\* Requests keep what is pending.
LEMMA RequestFields ==
    ASSUME NEW r \in Lock!RedrawStates, NEW kind \in {"Overlay", "Full"}
    PROVE  /\ Lock!request(r, kind) \in Lock!RedrawStates
           /\ Lock!request(r, kind).redraw_pending =
                IF r.redraw_pending = "Full" THEN "Full" ELSE kind
           /\ Lock!request(r, kind).geometry_pending = r.geometry_pending
           /\ Lock!request(r, kind).role_pending = r.role_pending
           /\ Lock!request(r, kind).frame_pending = r.frame_pending
BY DEF Lock!request, Lock!RedrawStates

\* A surface whose geometry, role or background is a new one, to be redrawn in full.
LEMMA RenewedKeeps ==
    ASSUME NEW u, NEW f, NEW p, SurfaceInv(u, f, p), NEW h \in LockFrames,
           NEW g \in {"geometry", "role", "background"},
           NEW w \in LockSurfaces, w.buffers = Lock!Stale(u, g).buffers,
           g # "geometry" => w.size = u.size /\ w.scale = u.scale,
           w.redraw.redraw_pending = "Full",
           w.redraw.role_pending => w.redraw.geometry_pending,
           CacheInv(w, h)
    PROVE  SurfaceInv(w, h, p)
<1>1. u \in LockSurfaces /\ Len(u.buffers) <= 2 /\ Len(w.buffers) = Len(u.buffers)
  BY StaleFields DEF SurfaceInv
<1>2. \A i \in 1 .. Len(w.buffers) :
         /\ ~Trusted(w.buffers[i])
         /\ w.buffers[i].geometry => w.buffers[i].size = w.size * w.scale
  BY <1>1, StaleUntrusted DEF SurfaceInv, BuffersInv
<1>3. QED
  BY <1>1, <1>2 DEF SurfaceInv, BuffersInv, PendingInv, ScreenInv

\* request_role_change and request_geometry
LEMMA GeometryRequestFields ==
    ASSUME NEW r \in Lock!RedrawStates
    PROVE  \A x \in {Lock!request_geometry(r), Lock!request_role_change(r)} :
             /\ x \in Lock!RedrawStates /\ x.redraw_pending = "Full"
             /\ x.geometry_pending /\ x.frame_pending = r.frame_pending
BY DEF Lock!request_geometry, Lock!request_role_change, Lock!RedrawStates

\* The presentation has another frame: redraw_all_surfaces(Full).
LEMMA FullRedrawKeeps ==
    ASSUME NEW u, NEW f, NEW p, SurfaceInv(u, f, p), NEW h \in LockFrames
    PROVE  LET x == Lock!Stale(Lock!Uncached(u), "background")
               w == IF x.size # Lock!None /\ ("Full" = "Full" \/ x.authentication)
                    THEN [x EXCEPT !.redraw = Lock!request(@, "Full")] ELSE x
           IN  SurfaceInv(w, h, p) /\ w.redraw.frame_pending = u.redraw.frame_pending
<1> DEFINE y == Lock!Uncached(u)
           x == Lock!Stale(y, "background")
           q == Lock!request(x.redraw, "Full")
           w == IF x.size # Lock!None /\ ("Full" = "Full" \/ x.authentication)
                THEN [x EXCEPT !.redraw = q] ELSE x
<1>1. u \in LockSurfaces /\ u.cache \in LockCaches
  BY DEF SurfaceInv, LockSurfaces
<1>2. /\ y \in LockSurfaces /\ y.buffers = u.buffers /\ y.redraw = u.redraw /\ ~y.cache.source
      /\ y.size = u.size /\ y.scale = u.scale /\ y.authentication = u.authentication
  BY <1>1 DEF Lock!Uncached, LockSurfaces, LockCaches
<1>3. SurfaceInv(y, f, p)
  BY <1>2 DEF SurfaceInv, BuffersInv, PendingInv, ScreenInv, CacheInv, RestOf, PictureOf
<1> HIDE DEF y
<1>4. /\ x \in LockSurfaces /\ x.redraw = u.redraw /\ ~x.cache.source
      /\ x.size = u.size /\ x.scale = u.scale
  BY <1>2, StaleFields DEF LockSurfaces
<1>5. q \in Lock!RedrawStates /\ q.redraw_pending = "Full" /\ q.geometry_pending = u.redraw.geometry_pending
      /\ q.role_pending = u.redraw.role_pending /\ q.frame_pending = u.redraw.frame_pending
  <2>1. x.redraw \in Lock!RedrawStates
    BY <1>4 DEF LockSurfaces
  <2> HIDE DEF x
  <2>2. QED
    BY <1>4, <2>1, RequestFields
<1>6. /\ w \in LockSurfaces /\ w.buffers = x.buffers /\ w.size = u.size /\ w.scale = u.scale
      /\ w.redraw.redraw_pending = "Full" /\ w.redraw.geometry_pending = u.redraw.geometry_pending
      /\ w.redraw.role_pending = u.redraw.role_pending /\ ~w.cache.source
      /\ w.redraw.frame_pending = u.redraw.frame_pending
  <2> HIDE DEF x, q
  <2>1. CASE u.size # Lock!None
    BY <1>4, <1>5, <2>1 DEF LockSurfaces
  <2>2. CASE u.size = Lock!None
    BY <1>4, <2>2 DEF SurfaceInv, PendingInv
  <2>3. QED
    BY <2>1, <2>2
<1>7. w.redraw.role_pending => w.redraw.geometry_pending
  BY <1>6 DEF SurfaceInv, PendingInv
<1>8. SurfaceInv(w, h, p)
  <2> HIDE DEF w
  <2>1. CacheInv(w, h)
    BY <1>6 DEF CacheInv
  <2>2. w.size = y.size /\ w.scale = y.scale
    BY <1>2, <1>6
  <2>3. QED
    BY <1>3, <1>6, <1>7, <2>1, <2>2, RenewedKeeps DEF x
<1>9. QED
  BY <1>6, <1>8 DEF y

\* The overlay has other pixels in the same bounds: redraw_all_surfaces(Overlay).
LEMMA OverlayRedrawKeeps ==
    ASSUME NEW u, NEW f \in LockFrames, NEW p, SurfaceInv(u, f, p), NEW h \in LockFrames,
           h.geometry = f.geometry, h.background = f.background
    PROVE  LET x == Lock!Uncached(u)
               w == IF x.size # Lock!None /\ ("Overlay" = "Full" \/ x.authentication)
                    THEN [x EXCEPT !.redraw = Lock!request(@, "Overlay")] ELSE x
           IN  SurfaceInv(w, h, p) /\ w.redraw.frame_pending = u.redraw.frame_pending
<1> DEFINE x == Lock!Uncached(u)
           q == Lock!request(x.redraw, "Overlay")
           w == IF x.size # Lock!None /\ ("Overlay" = "Full" \/ x.authentication)
                THEN [x EXCEPT !.redraw = q] ELSE x
<1>1. u \in LockSurfaces /\ u.cache \in LockCaches
  BY DEF SurfaceInv, LockSurfaces
<1>2. /\ x \in LockSurfaces /\ x.buffers = u.buffers /\ x.redraw = u.redraw /\ ~x.cache.source
      /\ x.size = u.size /\ x.scale = u.scale /\ x.authentication = u.authentication
  BY <1>1 DEF Lock!Uncached, LockSurfaces, LockCaches
<1> HIDE DEF x
<1>3. /\ q \in Lock!RedrawStates /\ q.geometry_pending = u.redraw.geometry_pending
      /\ q.redraw_pending = IF u.redraw.redraw_pending = "Full" THEN "Full" ELSE "Overlay"
      /\ q.role_pending = u.redraw.role_pending /\ q.frame_pending = u.redraw.frame_pending
  <2>1. x.redraw \in Lock!RedrawStates
    BY <1>2 DEF LockSurfaces
  <2>2. QED
    BY <1>2, <2>1, RequestFields
<1> HIDE DEF q
<1>4. RestOf(u, h) = RestOf(u, f) /\ (PictureOf(u, f)).rest = RestOf(u, f)
      /\ (~u.authentication => PictureOf(u, h) = PictureOf(u, f))
  BY DEF RestOf, PictureOf
<1>5. CASE u.size # Lock!None /\ u.authentication
  <2>1. w = [x EXCEPT !.redraw = q]
    BY <1>2, <1>5
  <2>2. /\ w \in LockSurfaces /\ w.buffers = u.buffers /\ w.redraw = q /\ ~w.cache.source
        /\ w.size = u.size /\ w.scale = u.scale /\ w.authentication
    BY <1>2, <1>3, <1>5, <2>1 DEF LockSurfaces
  <2> HIDE DEF w
  <2>3. RestOf(w, h) = RestOf(u, f)
    BY <2>2, <1>4, <1>5 DEF RestOf
  <2>4. BuffersInv(w, h)
    BY <2>2, <2>3 DEF SurfaceInv, BuffersInv
  <2>5. ScreenInv(w, h, p)
    BY <1>1, <1>3, <1>4, <2>2, <2>3 DEF SurfaceInv, ScreenInv, LockSurfaces, Lock!RedrawStates
  <2>6. PendingInv(w) /\ CacheInv(w, h) /\ Len(w.buffers) <= 2
    BY <1>3, <1>5, <2>2 DEF SurfaceInv, PendingInv, CacheInv
  <2>7. QED
    BY <1>3, <2>2, <2>4, <2>5, <2>6 DEF SurfaceInv, w, x, q
<1>6. CASE ~(u.size # Lock!None /\ u.authentication)
  <2>1. w = x
    BY <1>2, <1>6
  <2>2. RestOf(x, h) = RestOf(u, f) /\ RestOf(x, f) = RestOf(u, f)
        /\ (~u.authentication => PictureOf(x, h) = PictureOf(u, f))
    BY <1>2, <1>4 DEF RestOf, PictureOf
  <2>3. BuffersInv(x, h)
    BY <1>2, <2>2 DEF SurfaceInv, BuffersInv
  <2>4. ScreenInv(x, h, p)
    BY <1>2, <1>6, <2>2 DEF SurfaceInv, PendingInv, ScreenInv
  <2>5. PendingInv(x) /\ CacheInv(x, h) /\ Len(x.buffers) <= 2
    BY <1>2 DEF SurfaceInv, PendingInv, CacheInv
  <2>6. SurfaceInv(x, h, p)
    BY <1>2, <2>3, <2>4, <2>5 DEF SurfaceInv
  <2> HIDE DEF w
  <2>7. QED
    BY <1>2, <2>1, <2>6 DEF w, x, q
<1>7. QED
  BY <1>5, <1>6

\* The wallpaper has another frame: redraw_media.
LEMMA MediaRedrawKeeps ==
    ASSUME NEW u, NEW f \in LockFrames, NEW p, SurfaceInv(u, f, p), NEW h \in LockFrames,
           h.overlay = f.overlay
    PROVE  LET x == Lock!Stale(u, "background")
               w == IF x.size # Lock!None
                    THEN [x EXCEPT !.redraw = Lock!request_media(@)] ELSE x
           IN  SurfaceInv(w, h, p) /\ w.redraw.frame_pending = u.redraw.frame_pending
<1> DEFINE x == Lock!Stale(u, "background")
           q == Lock!request_media(x.redraw)
           w == IF x.size # Lock!None THEN [x EXCEPT !.redraw = q] ELSE x
<1>1. u \in LockSurfaces /\ u.redraw \in Lock!RedrawStates
  BY DEF SurfaceInv, LockSurfaces
<1>2. /\ x \in LockSurfaces /\ x.redraw = u.redraw /\ x.cache = u.cache
      /\ x.size = u.size /\ x.scale = u.scale /\ x.authentication = u.authentication
      /\ Len(x.buffers) = Len(u.buffers)
  BY <1>1, StaleFields DEF LockSurfaces
<1>3. \A i \in 1 .. Len(x.buffers) :
         ~Trusted(x.buffers[i]) /\ (x.buffers[i].geometry => x.buffers[i].size = u.size * u.scale)
  BY <1>1, <1>2, StaleUntrusted DEF SurfaceInv, BuffersInv
<1> HIDE DEF x
<1>4. /\ q \in Lock!RedrawStates /\ q.geometry_pending = u.redraw.geometry_pending
      /\ q.redraw_pending = IF u.redraw.redraw_pending = "Overlay" THEN "Overlay" ELSE "Full"
      /\ q.role_pending = u.redraw.role_pending /\ q.frame_pending = u.redraw.frame_pending
  BY <1>1, <1>2, RequestFields DEF Lock!request_media
<1> HIDE DEF q
<1>5. /\ w \in LockSurfaces /\ w.buffers = x.buffers /\ w.cache = u.cache
      /\ w.redraw = IF u.size # Lock!None THEN q ELSE u.redraw
      /\ w.size = u.size /\ w.scale = u.scale /\ w.authentication = u.authentication
  BY <1>2, <1>4 DEF LockSurfaces
<1> HIDE DEF w
<1>6. BuffersInv(w, h) /\ Len(w.buffers) <= 2
  BY <1>2, <1>3, <1>5 DEF SurfaceInv, BuffersInv
<1>7. PendingInv(w)
  BY <1>4, <1>5 DEF SurfaceInv, PendingInv
<1>8. ScreenInv(w, h, p)
  BY <1>3, <1>4, <1>5 DEF SurfaceInv, PendingInv, ScreenInv
<1>9. CacheInv(w, h)
  BY <1>5 DEF SurfaceInv, CacheInv
<1>10. QED
  BY <1>4, <1>5, <1>6, <1>7, <1>8, <1>9 DEF SurfaceInv, w, x, q

-----------------------------------------------------------------------------
(* The actions *)

\* A handler of one surface.
LEMMA OneSurfaceKeeps ==
    ASSUME LockInv, NEW s \in Surface, NEW w, v1' = [v1 EXCEPT ![s] = w],
           SurfaceInv(w, v2, v5[s]), UNCHANGED <<v2, v3, v4, v5>>, v6' \in SUBSET Surface,
           w.redraw.frame_pending <=> s \in v6',
           \A t \in Surface \ {s} : t \in v6' <=> t \in v6
    PROVE  LockInv'
<1>1. \A t \in Surface : v1'[t] = IF t = s THEN w ELSE v1[t]
  BY DEF LockInv
<1>2. v1' = [t \in Surface |-> v1'[t]]
  BY DEF LockInv
<1>3. \A t \in Surface : SurfaceInv(v1'[t], v2', v5'[t])
  BY <1>1 DEF LockInv
<1>4. \A t \in Surface : v1'[t].redraw.frame_pending <=> t \in v6'
  BY <1>1 DEF LockInv
<1>5. QED
  BY <1>2, <1>3, <1>4 DEF LockInv

\* A configure that resizes a surface keeps the invariant (Reshape).
LEMMA ReshapeKeeps ==
    ASSUME LockInv, NEW s \in Surface, NEW size \in Size, NEW scale \in Scale,
           Lock!Reshape(s, size, scale)
    PROVE  LockInv'
<1> DEFINE u == v1[s]
           x == Lock!Stale(u, "geometry")
           w == [x EXCEPT !.size = size, !.scale = scale, !.redraw = Lock!request_geometry(x.redraw)]
<1>1. SurfaceInv(u, v2, v5[s]) /\ u \in LockSurfaces /\ v2 \in LockFrames
  BY DEF LockInv, SurfaceInv
<1>2. x \in LockSurfaces /\ x.redraw = u.redraw /\ x.cache = u.cache
      /\ u.redraw \in Lock!RedrawStates
  BY <1>1, StaleFields DEF LockSurfaces
<1>3. v1' = [v1 EXCEPT ![s] = w]
  <2>1. v1' = [v1 EXCEPT ![s] = [x EXCEPT !.size = size, !.scale = scale,
                                          !.redraw = Lock!request_geometry(@)]]
    BY DEF Lock!Reshape
  <2> HIDE DEF x
  <2>2. QED
    BY <1>2, <2>1 DEF LockSurfaces
<1> HIDE DEF x
<1>4. /\ w \in LockSurfaces /\ w.buffers = x.buffers /\ w.cache = u.cache
      /\ w.redraw = Lock!request_geometry(u.redraw)
  BY <1>2, GeometryRequestFields DEF LockSurfaces
<1> HIDE DEF w, u
<1>5. w.redraw.redraw_pending = "Full" /\ w.redraw.geometry_pending
      /\ w.redraw.frame_pending = u.redraw.frame_pending
  BY <1>2, <1>4, GeometryRequestFields
<1>6. CacheInv(w, v2)
  BY <1>1, <1>4 DEF SurfaceInv, CacheInv
<1>7. SurfaceInv(w, v2, v5[s])
  BY <1>1, <1>4, <1>5, <1>6, RenewedKeeps DEF x
<1>8. UNCHANGED <<v2, v3, v4, v5, v6>>
  BY DEF Lock!Reshape
<1>9. (u.redraw.frame_pending <=> s \in v6) /\ v6 \in SUBSET Surface
  BY DEF LockInv, u
<1>10. QED
  BY <1>3, <1>5, <1>7, <1>8, <1>9, OneSurfaceKeeps

\* A surface that becomes, or ceases to be, the authentication surface (set_authentication).
LEMMA RoleKeeps ==
    ASSUME LockInv, NEW s \in Surface, Lock!set_authentication(s)
    PROVE  LockInv'
<1> DEFINE u == v1[s]
           x == Lock!Stale(u, "role")
           w == [x EXCEPT !.authentication = ~x.authentication, !.cache = Lock!NoCache,
                          !.redraw = Lock!request_role_change(x.redraw)]
<1>1. SurfaceInv(u, v2, v5[s]) /\ u \in LockSurfaces /\ v2 \in LockFrames
  BY DEF LockInv, SurfaceInv
<1>2. x \in LockSurfaces /\ x.redraw = u.redraw /\ x.size = u.size /\ x.scale = u.scale
      /\ u.redraw \in Lock!RedrawStates
  BY <1>1, StaleFields DEF LockSurfaces
<1>3. v1' = [v1 EXCEPT ![s] = w]
  <2>1. v1' = [v1 EXCEPT ![s] = [x EXCEPT !.authentication = ~@, !.cache = Lock!NoCache,
                                          !.redraw = Lock!request_role_change(@)]]
    BY DEF Lock!set_authentication
  <2> HIDE DEF x
  <2>2. QED
    BY <1>2, <2>1 DEF LockSurfaces
<1>4. Lock!NoCache \in LockCaches /\ ~Lock!NoCache.source
  BY DEF Lock!NoCache, LockCaches
<1> HIDE DEF x
<1>5. /\ w \in LockSurfaces /\ w.buffers = x.buffers /\ w.cache = Lock!NoCache
      /\ w.redraw = Lock!request_role_change(u.redraw) /\ w.size = u.size /\ w.scale = u.scale
  BY <1>2, <1>4, GeometryRequestFields DEF LockSurfaces
<1> HIDE DEF w, u
<1>6. w.redraw.redraw_pending = "Full" /\ w.redraw.geometry_pending
      /\ w.redraw.frame_pending = u.redraw.frame_pending
  BY <1>2, <1>5, GeometryRequestFields
<1>7. CacheInv(w, v2)
  BY <1>4, <1>5 DEF CacheInv
<1>8. SurfaceInv(w, v2, v5[s])
  BY <1>1, <1>5, <1>6, <1>7, RenewedKeeps DEF x
<1>9. UNCHANGED <<v2, v3, v4, v5, v6>>
  BY DEF Lock!set_authentication
<1>10. (u.redraw.frame_pending <=> s \in v6) /\ v6 \in SUBSET Surface
  BY DEF LockInv, u
<1>11. QED
  BY <1>3, <1>6, <1>8, <1>9, <1>10, OneSurfaceKeeps

\* A frame callback lets a surface redraw again.
LEMMA FrameKeeps ==
    ASSUME LockInv, NEW s \in Surface, Lock!Frame(s)
    PROVE  LockInv'
<1> DEFINE u == v1[s]
           q == Lock!frame_done(u.redraw)
           w == [u EXCEPT !.redraw = q]
<1>1. SurfaceInv(u, v2, v5[s]) /\ u \in LockSurfaces /\ u.redraw \in Lock!RedrawStates
  BY DEF LockInv, SurfaceInv, LockSurfaces
<1>2. v1' = [v1 EXCEPT ![s] = w] /\ UNCHANGED <<v2, v3, v4, v5>> /\ v6' = v6 \ {s}
  BY DEF Lock!Frame
<1>3. /\ q \in Lock!RedrawStates /\ ~q.frame_pending /\ q.redraw_pending = u.redraw.redraw_pending
      /\ q.geometry_pending = u.redraw.geometry_pending /\ q.role_pending = u.redraw.role_pending
  BY <1>1 DEF Lock!frame_done, Lock!RedrawStates
<1> HIDE DEF q
<1>4. /\ w \in LockSurfaces /\ w.buffers = u.buffers /\ w.cache = u.cache /\ w.redraw = q
      /\ w.size = u.size /\ w.scale = u.scale /\ w.authentication = u.authentication
  BY <1>1, <1>3 DEF LockSurfaces
<1> HIDE DEF w, u
<1>5. SurfaceInv(w, v2, v5[s])
  BY <1>1, <1>3, <1>4 DEF SurfaceInv, BuffersInv, PendingInv, ScreenInv, CacheInv, RestOf, PictureOf
<1>6. v6 \in SUBSET Surface
  BY DEF LockInv
<1>7. QED
  BY <1>2, <1>3, <1>4, <1>5, <1>6, OneSurfaceKeeps

\* A buffer that the compositor releases may be painted again.
LEMMA ReleaseKeeps ==
    ASSUME LockInv, NEW s \in Surface, NEW i \in 1 .. Lock!BUFFER_COUNT, Lock!Release(s, i)
    PROVE  LockInv'
<1> DEFINE u == v1[s]
           c == [u.buffers[i] EXCEPT !.held = FALSE]
           b == [u.buffers EXCEPT ![i] = c]
           w == [u EXCEPT !.buffers = b]
<1>1. SurfaceInv(u, v2, v5[s]) /\ u \in LockSurfaces /\ u.buffers \in Seq(LockBuffers)
      /\ i \in DOMAIN u.buffers /\ DOMAIN u.buffers = 1 .. Len(u.buffers)
  BY DEF LockInv, SurfaceInv, LockSurfaces, Lock!Release
<1>2. v1' = [v1 EXCEPT ![s] = w] /\ UNCHANGED <<v2, v3, v4, v5, v6>>
  BY DEF Lock!Release
<1>3. /\ c \in LockBuffers /\ c.size = u.buffers[i].size /\ c.geometry = u.buffers[i].geometry
      /\ (Trusted(c) <=> Trusted(u.buffers[i])) /\ c.picture = u.buffers[i].picture
  <2>1. u.buffers[i] \in LockBuffers
    BY <1>1
  <2>2. QED
    BY <2>1 DEF LockBuffers, Trusted
<1> HIDE DEF c
<1>4. /\ b \in Seq(LockBuffers) /\ Len(b) = Len(u.buffers)
      /\ \A j \in 1 .. Len(b) : b[j] = IF j = i THEN c ELSE u.buffers[j]
  BY <1>1, <1>3
<1> HIDE DEF b
<1>5. /\ w \in LockSurfaces /\ w.buffers = b /\ w.cache = u.cache /\ w.redraw = u.redraw
      /\ w.size = u.size /\ w.scale = u.scale /\ w.authentication = u.authentication
  BY <1>1, <1>4 DEF LockSurfaces
<1> HIDE DEF w, u
<1>6. RestOf(w, v2) = RestOf(u, v2) /\ PictureOf(w, v2) = PictureOf(u, v2)
  BY <1>5 DEF RestOf, PictureOf
<1>7. BuffersInv(w, v2) /\ Len(w.buffers) <= 2
  BY <1>1, <1>3, <1>4, <1>5, <1>6 DEF SurfaceInv, BuffersInv
<1>8. ScreenInv(w, v2, v5[s])
  BY <1>1, <1>3, <1>4, <1>5, <1>6 DEF SurfaceInv, ScreenInv
<1>9. SurfaceInv(w, v2, v5[s])
  BY <1>1, <1>5, <1>7, <1>8 DEF SurfaceInv, PendingInv, CacheInv
<1>10. (u.redraw.frame_pending <=> s \in v6) /\ v6 \in SUBSET Surface
  BY DEF LockInv, u
<1>11. QED
  BY <1>2, <1>5, <1>9, <1>10, OneSurfaceKeeps

\* A handler of every surface.
LEMMA AllSurfacesKeep ==
    ASSUME LockInv, v1' = [s \in Surface |-> v1'[s]], v2' \in LockFrames,
           v3' = v2'.geometry, UNCHANGED <<v5, v6>>,
           v4' \in [at : {"dispatch", "partial", "deferred", "maintain"},
                    priority : {"Unchanged", "Overlay"}, allow : BOOLEAN],
           \A s \in Surface : /\ SurfaceInv(v1'[s], v2', v5[s])
                              /\ v1'[s].redraw.frame_pending = v1[s].redraw.frame_pending
    PROVE  LockInv'
BY DEF LockInv

\* A new frame asks every surface for a full redraw.
LEMMA RedrawAllFull ==
    ASSUME LockInv, v2' \in LockFrames,
           v1' = Lock!RedrawAll(Lock!Bumped(Lock!OldOverlay), "Full")
    PROVE  /\ v1' = [s \in Surface |-> v1'[s]]
           /\ \A s \in Surface : /\ SurfaceInv(v1'[s], v2', v5[s])
                                 /\ v1'[s].redraw.frame_pending = v1[s].redraw.frame_pending
<1> DEFINE x(s) == Lock!Stale(Lock!Uncached(v1[s]), "background")
           w(s) == IF x(s).size # Lock!None /\ ("Full" = "Full" \/ x(s).authentication)
                   THEN [x(s) EXCEPT !.redraw = Lock!request(@, "Full")] ELSE x(s)
<1>1. v1' = [s \in Surface |-> w(s)]
  BY DEF Lock!RedrawAll, Lock!Bumped, Lock!OldOverlay
<1>2. ASSUME NEW s \in Surface
      PROVE  SurfaceInv(w(s), v2', v5[s]) /\ w(s).redraw.frame_pending = v1[s].redraw.frame_pending
  BY FullRedrawKeeps DEF LockInv
<1> HIDE DEF w
<1>3. QED
  BY <1>1, <1>2

\* A new overlay over the same background asks the authentication surfaces for a partial one.
LEMMA OverlayKeeps ==
    ASSUME LockInv, Lock!NewOverlay, Lock!classify_overlay_redraw, UNCHANGED <<v5, v6>>,
           v4' \in [at : {"dispatch", "partial", "deferred", "maintain"},
                    priority : {"Unchanged", "Overlay"}, allow : BOOLEAN]
    PROVE  LockInv'
<1>1. v2 \in LockFrames /\ v3 = v2.geometry
  BY DEF LockInv
<1>2. v2' \in LockFrames /\ v2'.background = v2.background
  BY <1>1 DEF Lock!NewOverlay, LockFrames
<1>3. CASE v2'.geometry = v3
  <2>1. v1' = Lock!RedrawAll(Lock!OldOverlay, "Overlay") /\ v3' = v3
    BY <1>3 DEF Lock!classify_overlay_redraw
  <2> DEFINE x(s) == Lock!Uncached(v1[s])
             w(s) == IF x(s).size # Lock!None /\ ("Overlay" = "Full" \/ x(s).authentication)
                     THEN [x(s) EXCEPT !.redraw = Lock!request(@, "Overlay")] ELSE x(s)
  <2>2. v1' = [s \in Surface |-> w(s)]
    BY <2>1 DEF Lock!RedrawAll, Lock!OldOverlay
  <2>3. ASSUME NEW s \in Surface
        PROVE  SurfaceInv(w(s), v2', v5[s]) /\ w(s).redraw.frame_pending = v1[s].redraw.frame_pending
    <3>1. SurfaceInv(v1[s], v2, v5[s])
      BY DEF LockInv
    <3>2. QED
      BY <1>1, <1>2, <1>3, <3>1, OverlayRedrawKeeps
  <2> HIDE DEF w
  <2>4. QED
    BY <1>1, <1>2, <1>3, <2>1, <2>2, <2>3, AllSurfacesKeep
<1>4. CASE v2'.geometry # v3
  <2>1. v1' = Lock!RedrawAll(Lock!Bumped(Lock!OldOverlay), "Full") /\ v3' = v2'.geometry
    BY <1>4 DEF Lock!classify_overlay_redraw, Lock!record_full_frame
  <2>2. QED
    BY <1>2, <2>1, RedrawAllFull, AllSurfacesKeep
<1>5. QED
  BY <1>3, <1>4

\* A background that the wallpaper player offers reaches every surface.
LEMMA DeferredKeeps ==
    ASSUME LockInv, Lock!ReceiveDeferred
    PROVE  LockInv'
<1>1. /\ v4' \in [at : {"dispatch", "partial", "deferred", "maintain"},
                  priority : {"Unchanged", "Overlay"}, allow : BOOLEAN]
      /\ UNCHANGED <<v5, v6>>
  BY DEF LockInv, Lock!ReceiveDeferred, Lock!At
<1>2. CASE Lock!Unchanged
  BY <1>1, <1>2 DEF LockInv, Lock!Unchanged
<1>3. CASE ~Lock!Unchanged
  <2>1. PICK b \in Background : v2' = [v2 EXCEPT !.background = b]
    BY <1>3 DEF Lock!ReceiveDeferred
  <2>2. v3' = v2'.geometry /\ v1' = Lock!RedrawMedia(Lock!Bumped(v1))
    BY <1>3 DEF Lock!ReceiveDeferred, Lock!MediaRefresh, Lock!record_full_frame
  <2>3. v2' \in LockFrames /\ v2'.overlay = v2.overlay /\ v2 \in LockFrames
    BY <2>1 DEF LockInv, LockFrames
  <2> DEFINE x(s) == Lock!Stale(v1[s], "background")
             w(s) == IF x(s).size # Lock!None
                     THEN [x(s) EXCEPT !.redraw = Lock!request_media(@)] ELSE x(s)
  <2>4. v1' = [s \in Surface |-> w(s)]
    BY <2>2 DEF Lock!RedrawMedia, Lock!Bumped
  <2>5. ASSUME NEW s \in Surface
        PROVE  SurfaceInv(w(s), v2', v5[s]) /\ w(s).redraw.frame_pending = v1[s].redraw.frame_pending
    <3>1. SurfaceInv(v1[s], v2, v5[s])
      BY DEF LockInv
    <3>2. QED
      BY <2>3, <3>1, MediaRedrawKeeps
  <2> HIDE DEF w
  <2>6. QED
    BY <1>1, <2>2, <2>3, <2>4, <2>5, AllSurfacesKeep
<1>4. QED
  BY <1>2, <1>3

\* Every step of the lock surfaces keeps their invariant.
LEMMA LockStep ==
    ASSUME LockInv, Lock!Next
    PROVE  LockInv'
<1>1. v4 \in [at : {"dispatch", "partial", "deferred", "maintain"},
              priority : {"Unchanged", "Overlay"}, allow : BOOLEAN]
  BY DEF LockInv
<1>2. CASE Lock!handle_key
  BY <1>1, <1>2, OverlayKeeps DEF Lock!handle_key
<1>3. CASE Lock!lock_confirmed
  <2>1. v2' \in LockFrames
    BY <1>3 DEF LockInv, Lock!lock_confirmed, Lock!NewOverlay, LockFrames
  <2>2. v1' = Lock!RedrawAll(Lock!Bumped(Lock!OldOverlay), "Full") /\ v3' = v2'.geometry
        /\ UNCHANGED <<v4, v5, v6>>
    BY <1>3 DEF Lock!lock_confirmed, Lock!record_full_frame
  <2>3. QED
    BY <1>1, <2>1, <2>2, RedrawAllFull, AllSurfacesKeep
<1>4. ASSUME NEW s \in Surface, Lock!configure(s) \/ Lock!scale_factor_changed(s)
      PROVE  LockInv'
  <2>1. SurfaceInv(v1[s], v2, v5[s])
    BY DEF LockInv
  <2>2. v1[s].size \in Size \cup {Lock!None} /\ v1[s].scale \in Scale
    BY <2>1 DEF SurfaceInv, LockSurfaces
  <2>3. PICK size \in Size, scale \in Scale : Lock!Reshape(s, size, scale)
    BY <1>4, <2>2 DEF Lock!configure, Lock!scale_factor_changed
  <2>4. QED
    BY <2>3, ReshapeKeeps
<1>5. ASSUME NEW s \in Surface, Lock!set_authentication(s)
      PROVE  LockInv'
  BY <1>5, RoleKeeps
<1>6. ASSUME NEW s \in Surface, Lock!Frame(s)
      PROVE  LockInv'
  BY <1>6, FrameKeeps
<1>7. ASSUME NEW s \in Surface, NEW i \in 1 .. Lock!BUFFER_COUNT, Lock!Release(s, i)
      PROVE  LockInv'
  BY <1>7, ReleaseKeeps
<1>8. ASSUME NEW refresh \in {"Unchanged", "Overlay"}, Lock!ReceiveLatest(refresh)
      PROVE  LockInv'
  <2>1. /\ v4' \in [at : {"dispatch", "partial", "deferred", "maintain"},
                    priority : {"Unchanged", "Overlay"}, allow : BOOLEAN]
        /\ UNCHANGED <<v5, v6>>
    BY <1>1, <1>8 DEF Lock!ReceiveLatest
  <2>2. CASE refresh = "Unchanged"
    <3>1. UNCHANGED <<v1, v2, v3>>
      BY <1>8, <2>2 DEF Lock!ReceiveLatest, Lock!Unchanged
    <3>2. QED
      BY <2>1, <3>1 DEF LockInv
  <2>3. CASE refresh = "Overlay"
    BY <1>8, <2>1, <2>3, OverlayKeeps DEF Lock!ReceiveLatest
  <2>4. QED
    BY <2>2, <2>3
<1>9. CASE Lock!commit_partial_overlays
  <2> DEFINE chosen == {s \in Lock!Configured : [t \in Lock!Configured |->
                           Lock!overlay_progress(Lock!Kept[t], TRUE)][s] = "Partial"}
  <2>1. Lock!Render(Lock!Kept, chosen, {}) /\ UNCHANGED <<v2, v3>>
    BY <1>9 DEF Lock!commit_partial_overlays
  <2>2. PICK poll, full \in BOOLEAN :
          v4' = [v4 EXCEPT !.at = IF poll THEN "deferred" ELSE "maintain", !.allow = poll \/ full]
    <3> DEFINE progress == [s \in Lock!Configured |-> Lock!overlay_progress(Lock!Kept[s], TRUE)]
               full == \E s \in Lock!Configured : progress[s] = "Full"
               poll == Lock!should_poll_deferred(v4.priority, {progress[s] : s \in Lock!Configured})
    <3>1. v4' = [v4 EXCEPT !.at = IF poll THEN "deferred" ELSE "maintain", !.allow = poll \/ full]
      BY <1>9 DEF Lock!commit_partial_overlays
    <3>2. full \in BOOLEAN /\ poll \in BOOLEAN
      BY DEF Lock!should_poll_deferred
    <3> HIDE DEF full, poll
    <3>3. QED
      BY <3>1, <3>2
  <2>3. v4' \in [at : {"dispatch", "partial", "deferred", "maintain"},
                 priority : {"Unchanged", "Overlay"}, allow : BOOLEAN]
    BY <1>1, <2>2
  <2>4. QED
    BY <2>1, <2>3, RenderKeeps
<1>10. CASE Lock!ReceiveDeferred
  BY <1>10, DeferredKeeps
<1>11. CASE Lock!maintain_surfaces
  <2>1. PICK denied : Lock!Render(Lock!Kept, Lock!ReadyToRedraw(Lock!Kept), denied)
    BY <1>11 DEF Lock!maintain_surfaces
  <2>2. /\ UNCHANGED <<v2, v3>>
        /\ v4' \in [at : {"dispatch", "partial", "deferred", "maintain"},
                    priority : {"Unchanged", "Overlay"}, allow : BOOLEAN]
    BY <1>11 DEF Lock!maintain_surfaces
  <2>3. Lock!ReadyToRedraw(Lock!Kept) \in SUBSET Lock!Configured
    BY DEF Lock!ReadyToRedraw
  <2>4. QED
    BY <2>1, <2>2, <2>3, RenderKeeps
<1>12. QED
  BY <1>2, <1>3, <1>4, <1>5, <1>6, <1>7, <1>8, <1>9, <1>10, <1>11
  DEF Lock!Next, Lock!Handlers, Lock!Turn

\* The lock surfaces start in their invariant.
LEMMA LockStart ==
    ASSUME Lock!Init
    PROVE  LockInv
<1> DEFINE u == [size |-> Lock!None, scale |-> 1, authentication |-> FALSE, buffers |-> <<>>,
                 cache |-> Lock!NoCache, redraw |-> [Lock!Idle EXCEPT !.redraw_pending = "Full"]]
           r == [Lock!Idle EXCEPT !.redraw_pending = "Full"]
<1>1. r \in Lock!RedrawStates /\ r.redraw_pending = "Full" /\ ~r.role_pending /\ ~r.frame_pending
  BY DEF Lock!Idle, Lock!RedrawStates
<1>2. Lock!NoCache \in LockCaches /\ ~Lock!NoCache.source
  BY DEF Lock!NoCache, LockCaches
<1>3. 1 \in Scale
  BY LockAssumption DEF Lock!RedrawAssumption
<1>4. u \in LockSurfaces /\ u.buffers = << >> /\ Len(u.buffers) = 0 /\ u.redraw = r /\ ~u.cache.source
  <2>1. << >> \in Seq(LockBuffers)
    OBVIOUS
  <2> HIDE DEF r
  <2>2. QED
    BY <1>1, <1>2, <1>3, <2>1 DEF LockSurfaces, r
<1>5. v2 \in LockFrames /\ v3 = v2.geometry /\ v6 = {}
      /\ v4 = [at |-> "dispatch", priority |-> "Unchanged", allow |-> FALSE]
      /\ v5 = [s \in Surface |-> Lock!NoPicture]
  BY DEF Lock!Init, LockFrames
<1>6. v1 = [s \in Surface |-> u]
  BY DEF Lock!Init
<1>7. Lock!NoPicture \in LockPictures
  BY DEF Lock!NoPicture, LockPictures
<1> HIDE DEF u, r
<1>8. SurfaceInv(u, v2, Lock!NoPicture)
  BY <1>1, <1>4 DEF SurfaceInv, BuffersInv, PendingInv, ScreenInv, CacheInv
<1>9. QED
  BY <1>1, <1>4, <1>5, <1>6, <1>7, <1>8 DEF LockInv

\* The invariant is what a reader asks for.
LEMMA LockFacts ==
    ASSUME LockInv
    PROVE  Lock!TypeOK /\ Lock!SettledScreenIsCurrent /\ Lock!CallbackIsOwed
<1>1. ASSUME NEW s \in Surface
      PROVE  SurfaceInv(v1[s], v2, v5[s]) /\ v1[s] \in LockSurfaces
  BY DEF LockInv, SurfaceInv
<1>2. Lock!TypeOK
  <2>1. ASSUME NEW s \in Surface
        PROVE  LET u == v1[s] IN
               /\ u.size \in Size \cup {Lock!None} /\ u.scale \in Scale
               /\ u.redraw \in Lock!RedrawStates
               /\ u.redraw.geometry_pending => u.redraw.redraw_pending = "Full"
               /\ u.redraw.role_pending => u.redraw.geometry_pending
               /\ Len(u.buffers) <= Lock!BUFFER_COUNT
    BY <1>1 DEF SurfaceInv, PendingInv, LockSurfaces, Lock!BUFFER_COUNT
  <2>2. v2.background \in Background /\ v3 \in Geometry
        /\ v4.at \in {"dispatch", "partial", "deferred", "maintain"}
    BY DEF LockInv, LockFrames
  <2>3. QED
    BY <2>1, <2>2 DEF Lock!TypeOK
<1>3. Lock!SettledScreenIsCurrent
  BY <1>1, LockNames DEF SurfaceInv, ScreenInv, PictureOf, Lock!SettledScreenIsCurrent
<1>4. Lock!CallbackIsOwed
  BY DEF LockInv, Lock!CallbackIsOwed
<1>5. QED
  BY <1>2, <1>3, <1>4

-----------------------------------------------------------------------------
(* The surfaces of the desktop *)

DeskSurfaces == [hints : OutputSizes \cup {0, Nothing}, size : OutputSizes \cup {Nothing},
                 scale : OutputScales, buffers : Seq(Desktop!Buffer),
                 presentation : Desktop!Presentation, callback : BOOLEAN]

\* A surface with its buffers, which waits for a callback exactly when one is due.
DeskSurfaceInv(s) ==
    /\ s \in DeskSurfaces /\ Len(s.buffers) <= 2
    /\ s.presentation.frame_pending = s.callback

DesktopInv ==
    /\ v1 \in [Outputs -> OutputSizes \cup {0, Nothing}]
    /\ v2 = [o \in Outputs |-> v2[o]]
    /\ \A o \in Outputs : v2[o] # Nothing => DeskSurfaceInv(v2[o])
    /\ v3 \in [Outputs -> Desktop!OnScreen \cup {Nothing}]
    /\ v4 \in 0 .. DissolveSteps /\ v5 \in 0 .. MaxChanges

\* A step of one surface that commits nothing.
Quiet(o) ==
    v3'[o] = Nothing \/ (v3[o] # Nothing /\ v3'[o].commit = v3[o].commit)

\* A commit of a surface.
Commit(s, old, t, new) ==
    /\ new.size = t.size * t.scale
    /\ Desktop!Held(t) = Desktop!Held(s) + 1
    /\ s.callback => s.presentation.geometry_redraw

DesktopSteps == Desktop!CommittedFits /\ Desktop!HeldBufferIsNotPainted /\ Desktop!RedrawIsPaced

\* A step in which each output commits nothing, or commits what it may, is as the property asks.
LEMMA QuietSteps ==
    ASSUME \A o \in Outputs : Quiet(o) \/ Commit(v2[o], v3[o], v2'[o], v3'[o])
    PROVE  DesktopSteps
<1>1. ASSUME NEW o \in Outputs, Quiet(o)
      PROVE  ~Desktop!Commits(o)
  BY <1>1 DEF Quiet, Desktop!Commits
<1>2. QED
  BY <1>1 DEF DesktopSteps, Desktop!CommittedFits, Desktop!HeldBufferIsNotPainted,
              Desktop!RedrawIsPaced, Commit

\* The first index of a set of indices.
LEMMA DeskFirst ==
    ASSUME NEW S \in SUBSET (1 .. 2), S # {}
    PROVE  Desktop!First(S) \in S /\ \A j \in S : Desktop!First(S) <= j
<1>1. \E i \in S : \A j \in S : i <= j
  <2>1. CASE 1 \in S
    BY <2>1
  <2>2. CASE 1 \notin S
    <3>1. \A i \in S : i = 2
      BY <2>2
    <3>2. PICK i : i \in S
      OBVIOUS
    <3>3. QED
      BY <3>1, <3>2
  <2>3. QED
    BY <2>1, <2>2
<1>2. QED
  BY <1>1 DEF Desktop!First

\* Counting one or two.
LEMMA Count ==
    ASSUME NEW S \in SUBSET (1 .. 2)
    PROVE  Desktop!Cardinality(S) = (IF 1 \in S THEN 1 ELSE 0) + (IF 2 \in S THEN 1 ELSE 0)
<1>1. \A i \in S : i = 1 \/ i = 2
  OBVIOUS
<1>2. Desktop!Cardinality(S) = Cardinality(S)
  BY Zenon DEF Desktop!Cardinality, Cardinality
<1>3. Cardinality({}) = 0 /\ Cardinality({1}) = 1 /\ Cardinality({2}) = 1 /\ IsFiniteSet({2})
  BY FS_EmptySet, FS_Singleton
<1>4. Cardinality({2} \cup {1}) = 2
  BY <1>3, FS_AddElement
<1>5. CASE 1 \in S /\ 2 \in S
  <2>1. S = {2} \cup {1}
    BY <1>1, <1>5, Zenon
  <2>2. QED
    BY <1>2, <1>4, <1>5, <2>1
<1>6. CASE 1 \in S /\ 2 \notin S
  <2>1. S = {1}
    BY <1>1, <1>6, Zenon
  <2>2. QED
    BY <1>2, <1>3, <1>6, <2>1
<1>7. CASE 1 \notin S /\ 2 \in S
  <2>1. S = {2}
    BY <1>1, <1>7, Zenon
  <2>2. QED
    BY <1>2, <1>3, <1>7, <2>1
<1>8. CASE 1 \notin S /\ 2 \notin S
  <2>1. S = {}
    BY <1>1, <1>8, Zenon
  <2>2. QED
    BY <1>2, <1>3, <1>8, <2>1
<1>9. QED
  BY <1>5, <1>6, <1>7, <1>8

HeldAt(q, i) == IF i \in 1 .. Len(q) /\ q[i].held THEN 1 ELSE 0

\* Taking a free buffer adds one to those held.
LEMMA HeldCount ==
    ASSUME NEW s, s.buffers \in Seq(Desktop!Buffer), Len(s.buffers) <= 2
    PROVE  Desktop!Held(s) = HeldAt(s.buffers, 1) + HeldAt(s.buffers, 2)
<1> DEFINE S == {i \in DOMAIN s.buffers : s.buffers[i].held}
<1>1. DOMAIN s.buffers = 1 .. Len(s.buffers) /\ Len(s.buffers) \in Nat
  OBVIOUS
<1>2. S \in SUBSET (1 .. 2)
  BY <1>1
<1>3. (1 \in S <=> HeldAt(s.buffers, 1) = 1) /\ (2 \in S <=> HeldAt(s.buffers, 2) = 1)
  BY <1>1 DEF HeldAt
<1>4. Desktop!Held(s) = Desktop!Cardinality(S)
  BY DEF Desktop!Held
<1> HIDE DEF S
<1>5. QED
  BY <1>2, <1>3, <1>4, Count DEF HeldAt

\* What render keeps: every held buffer, and of the others those of the current geometry.
LEMMA KeptBuffers ==
    ASSUME NEW s, s.buffers \in Seq(Desktop!Buffer), Len(s.buffers) <= 2, NEW size
    PROVE  LET b == Desktop!Retained(s, size) IN
           /\ b \in Seq(Desktop!Buffer) /\ Len(b) <= 2
           /\ \A i \in 1 .. Len(b) : b[i].held \/ b[i].size = size
           /\ HeldAt(b, 1) + HeldAt(b, 2) = HeldAt(s.buffers, 1) + HeldAt(s.buffers, 2)
<1> DEFINE q == s.buffers
           K == {i \in DOMAIN q : (q[i].size = size /\ q[i].current) \/ q[i].held}
           b == Desktop!Keep(q, K)
<1>1. DOMAIN q = 1 .. Len(q) /\ Len(q) \in Nat
  OBVIOUS
<1>2. Desktop!Retained(s, size) = b
  BY DEF Desktop!Retained
<1>3. K \in SUBSET (1 .. 2) /\ K \subseteq 1 .. Len(q)
      /\ (\A i \in 1 .. Len(q) : i \notin K => ~q[i].held)
      /\ (\A i \in K : q[i].held \/ q[i].size = size)
  BY <1>1
<1> HIDE DEF K
<1>4. CASE K = DOMAIN q
  <2>1. b = q
    BY <1>4 DEF Desktop!Keep
  <2>2. QED
    BY <1>1, <1>2, <1>3, <1>4, <2>1
<1>5. CASE K = {} /\ K # DOMAIN q
  <2>1. b = << >>
    BY <1>5 DEF Desktop!Keep
  <2>2. HeldAt(q, 1) = 0 /\ HeldAt(q, 2) = 0
    BY <1>3, <1>5 DEF HeldAt
  <2>3. HeldAt(<< >>, 1) = 0 /\ HeldAt(<< >>, 2) = 0
    BY DEF HeldAt
  <2>4. << >> \in Seq(Desktop!Buffer) /\ Len(<< >>) = 0
    OBVIOUS
  <2> HIDE DEF b
  <2>5. QED
    BY <1>2, <2>1, <2>2, <2>3, <2>4
<1>6. CASE K # {} /\ K # DOMAIN q
  <2> DEFINE k == Desktop!First(K)
  <2>1. k \in K
    BY <1>3, <1>6, DeskFirst
  <2>2. b = <<q[k]>>
    BY <1>6 DEF Desktop!Keep
  <2> HIDE DEF k
  <2>3. k \in 1 .. Len(q) /\ \A j \in 1 .. Len(q) : j # k => j \notin K
    <3>1. k \in {1, 2}
      BY <1>3, <2>1
    <3>2. CASE Len(q) = 2
      <4>1. 1 .. Len(q) = {1, 2}
        BY <3>2
      <4>2. QED
        BY <1>1, <1>3, <1>6, <2>1, <3>1, <4>1
    <3>3. CASE Len(q) # 2
      <4>0. \A n \in Nat : n <= 2 /\ n # 2 => \A i \in 1 .. n : i = 1
        OBVIOUS
      <4>1. \A i \in 1 .. Len(q) : i = 1
        BY <1>1, <3>3, <4>0
      <4>2. K = 1 .. Len(q)
        BY <1>3, <1>6, <4>1, <2>1
      <4>3. QED
        BY <1>1, <1>6, <4>2
    <3>4. QED
      BY <3>2, <3>3
  <2>4. q[k] \in Desktop!Buffer
    BY <2>3
  <2>5. <<q[k]>> \in Seq(Desktop!Buffer) /\ Len(<<q[k]>>) = 1 /\ <<q[k]>>[1] = q[k]
    BY <2>4
  <2>6. HeldAt(<<q[k]>>, 1) = (IF q[k].held THEN 1 ELSE 0) /\ HeldAt(<<q[k]>>, 2) = 0
    BY <2>5 DEF HeldAt
  <2>7. HeldAt(q, 1) + HeldAt(q, 2) = (IF q[k].held THEN 1 ELSE 0)
    <3>1. \A j \in {1, 2} : j # k => HeldAt(q, j) = 0
      BY <1>3, <2>3 DEF HeldAt
    <3>2. HeldAt(q, k) = (IF q[k].held THEN 1 ELSE 0)
      BY <2>3 DEF HeldAt
    <3>3. k = 1 \/ k = 2
      BY <1>3, <2>1
    <3>4. QED
      BY <3>1, <3>2, <3>3 DEF HeldAt
  <2>8. \A i \in 1 .. Len(<<q[k]>>) : i = 1
    BY <2>5
  <2> HIDE DEF b
  <2>9. QED
    BY <1>2, <1>3, <2>1, <2>2, <2>5, <2>6, <2>7, <2>8
<1>7. QED
  BY <1>4, <1>5, <1>6

\* render of one surface: a commit has the size of the surface, leaves one more buffer held.
LEMMA RenderSurface ==
    ASSUME NEW s, DeskSurfaceInv(s), s.size # Nothing, NEW p \in Desktop!Presentation,
           p.frame_pending = s.callback, NEW old \in Desktop!OnScreen \cup {Nothing},
           NEW transitioning \in BOOLEAN, NEW fails \in BOOLEAN
    PROVE  LET r == Desktop!render(s, old, p, transitioning, fails) IN
           /\ DeskSurfaceInv(r[1]) /\ r[1].size = s.size /\ r[1].scale = s.scale
           /\ r[2] \in Desktop!OnScreen \cup {Nothing}
           /\ \/ r[2] = old
              \/ /\ r[2].size = s.size * s.scale
                 /\ Desktop!Held(r[1]) = Desktop!Held(s) + 1
<1> DEFINE size == s.size * s.scale
           buffers == Desktop!Retained(s, size)
           choice == Desktop!buffer_decision(buffers)
           painted == IF choice > Len(buffers)
                      THEN Append(buffers, [size |-> size, current |-> TRUE, held |-> TRUE])
                      ELSE [buffers EXCEPT ![choice].held = TRUE]
           request == transitioning /\ ~p.frame_pending
           shot == [size |-> painted[choice].size, current |-> TRUE, latest |-> TRUE,
                    commit |-> IF old = Nothing THEN 0 ELSE 1 - old.commit]
           r == Desktop!render(s, old, p, transitioning, fails)
<1>1. s \in DeskSurfaces /\ s.buffers \in Seq(Desktop!Buffer) /\ Len(s.buffers) <= 2
  BY DEF DeskSurfaceInv, DeskSurfaces
<1>2. size \in Nat
  <2>1. s.size \in OutputSizes /\ s.scale \in OutputScales
    BY <1>1 DEF DeskSurfaces
  <2>2. OutputSizes \subseteq Nat /\ OutputScales \subseteq Nat
    BY DesktopAssumption DEF Desktop!SurfacesAssumption
  <2>3. s.size \in Nat /\ s.scale \in Nat
    BY <2>1, <2>2
  <2>4. \A m, n \in Nat : m * n \in Nat
    OBVIOUS
  <2>5. QED
    BY <2>3, <2>4
<1>3. /\ buffers \in Seq(Desktop!Buffer) /\ Len(buffers) <= 2 /\ Len(buffers) \in Nat
      /\ DOMAIN buffers = 1 .. Len(buffers)
      /\ \A i \in 1 .. Len(buffers) : buffers[i].held \/ buffers[i].size = size
      /\ HeldAt(buffers, 1) + HeldAt(buffers, 2) = HeldAt(s.buffers, 1) + HeldAt(s.buffers, 2)
  BY <1>1, KeptBuffers
<1>4. r = IF size > LargestSide
          THEN <<[s EXCEPT !.presentation = Desktop!disable(p)], old>>
          ELSE IF choice = 0 THEN <<[s EXCEPT !.presentation = p, !.buffers = buffers], old>>
          ELSE IF fails
          THEN <<[s EXCEPT !.presentation = Desktop!disable(p), !.buffers = buffers], old>>
          ELSE <<[s EXCEPT !.buffers = painted, !.presentation = Desktop!rendered(p, request),
                           !.callback = s.callback \/ request], shot>>
  BY DEF Desktop!render
<1> HIDE DEF size, buffers, r
<1>5. /\ Desktop!disable(p) \in Desktop!Presentation
      /\ Desktop!disable(p).frame_pending = p.frame_pending
  BY DEF Desktop!disable, Desktop!Presentation
<1>6. ASSUME NEW q \in Desktop!Presentation, q.frame_pending = s.callback,
             NEW c \in Seq(Desktop!Buffer), Len(c) <= 2
      PROVE  LET w == [s EXCEPT !.presentation = q, !.buffers = c] IN
             DeskSurfaceInv(w) /\ w.size = s.size /\ w.scale = s.scale
  BY <1>1, <1>6 DEF DeskSurfaceInv, DeskSurfaces
<1>7. CASE size > LargestSide
  <2>1. r = <<[s EXCEPT !.presentation = Desktop!disable(p)], old>>
    BY <1>4, <1>7
  <2>2. [s EXCEPT !.presentation = Desktop!disable(p)]
        = [s EXCEPT !.presentation = Desktop!disable(p), !.buffers = s.buffers]
    BY <1>1 DEF DeskSurfaces
  <2> DEFINE w == [s EXCEPT !.presentation = Desktop!disable(p), !.buffers = s.buffers]
  <2>3. DeskSurfaceInv(w) /\ w.size = s.size /\ w.scale = s.scale
    BY <1>1, <1>5, <1>6
  <2>4. r[1] = w /\ r[2] = old
    BY <2>1, <2>2
  <2> HIDE DEF w
  <2>5. QED
    BY <2>3, <2>4 DEF r
<1>8. CASE ~(size > LargestSide) /\ (choice = 0 \/ fails)
  <2>1. PICK q \in {p, Desktop!disable(p)} :
           r = <<[s EXCEPT !.presentation = q, !.buffers = buffers], old>>
    BY <1>4, <1>8
  <2>2. q \in Desktop!Presentation /\ q.frame_pending = s.callback
    BY <1>5, <2>1
  <2> DEFINE w == [s EXCEPT !.presentation = q, !.buffers = buffers]
  <2>3. DeskSurfaceInv(w) /\ w.size = s.size /\ w.scale = s.scale
    BY <1>3, <1>6, <2>2
  <2>4. r[1] = w /\ r[2] = old
    BY <2>1
  <2> HIDE DEF w
  <2>5. QED
    BY <2>3, <2>4 DEF r
<1>9. CASE ~(size > LargestSide) /\ choice # 0 /\ ~fails
  <2> DEFINE q == Desktop!rendered(p, request)
             w == [s EXCEPT !.buffers = painted, !.presentation = q,
                            !.callback = s.callback \/ request]
  <2>1. r = <<w, shot>>
    BY <1>4, <1>9
  <2>2. request \in BOOLEAN /\ s.callback \in BOOLEAN
    BY <1>1 DEF DeskSurfaces, Desktop!Presentation
  <2>3. q \in Desktop!Presentation /\ q.frame_pending = (p.frame_pending \/ request)
    BY <2>2 DEF Desktop!rendered, Desktop!Presentation
  <2> DEFINE free == {i \in DOMAIN buffers : ~buffers[i].held}
  <2>4. free \in SUBSET (1 .. 2) /\ free \subseteq 1 .. Len(buffers)
    BY <1>3
  <2>5. ASSUME free # {}
        PROVE  /\ painted \in Seq(Desktop!Buffer) /\ Len(painted) <= 2
               /\ painted[choice].size = size
               /\ HeldAt(painted, 1) + HeldAt(painted, 2)
                    = HeldAt(buffers, 1) + HeldAt(buffers, 2) + 1
    <3>1. choice = Desktop!First(free)
      BY <2>5 DEF Desktop!buffer_decision
    <3>2. choice \in free
      BY <2>4, <2>5, <3>1, DeskFirst
    <3> HIDE DEF choice
    <3>3. choice \in 1 .. Len(buffers) /\ ~buffers[choice].held
      BY <1>3, <2>4, <3>2
    <3>4. buffers[choice] \in Desktop!Buffer
      BY <1>3, <3>3
    <3> DEFINE c == [buffers[choice] EXCEPT !.held = TRUE]
    <3>5. c \in Desktop!Buffer /\ c.held /\ c.size = size
      BY <1>3, <3>3, <3>4 DEF Desktop!Buffer
    <3>6. painted = [buffers EXCEPT ![choice] = c]
      <4>1. ~(choice > Len(buffers))
        BY <1>3, <3>3
      <4>2. painted = [buffers EXCEPT ![choice].held = TRUE]
        BY <4>1
      <4>3. QED
        BY <4>2
    <3> HIDE DEF c, painted
    <3>7. /\ painted \in Seq(Desktop!Buffer) /\ Len(painted) = Len(buffers)
          /\ \A i \in 1 .. Len(buffers) : painted[i] = IF i = choice THEN c ELSE buffers[i]
      BY <1>3, <3>3, <3>5, <3>6
    <3>8. HeldAt(painted, 1) + HeldAt(painted, 2) = HeldAt(buffers, 1) + HeldAt(buffers, 2) + 1
      <4>1. HeldAt(painted, choice) = 1 /\ HeldAt(buffers, choice) = 0
        BY <3>3, <3>5, <3>7 DEF HeldAt
      <4>2. \A j \in {1, 2} : j # choice => HeldAt(painted, j) = HeldAt(buffers, j)
        BY <3>7 DEF HeldAt
      <4>3. choice = 1 \/ choice = 2
        BY <1>3, <3>3
      <4>4. QED
        BY <4>1, <4>2, <4>3 DEF HeldAt
    <3>9. painted[choice].size = size
      BY <3>3, <3>5, <3>7
    <3>10. QED
      BY <1>3, <3>7, <3>8, <3>9
  <2>6. ASSUME free = {}
        PROVE  /\ painted \in Seq(Desktop!Buffer) /\ Len(painted) <= 2
               /\ painted[choice].size = size
               /\ HeldAt(painted, 1) + HeldAt(painted, 2)
                    = HeldAt(buffers, 1) + HeldAt(buffers, 2) + 1
    <3>1. Len(buffers) < 2 /\ choice = Len(buffers) + 1
      BY <1>3, <1>9, <2>6 DEF Desktop!buffer_decision, Desktop!BufferCount
    <3> DEFINE c == [size |-> size, current |-> TRUE, held |-> TRUE]
    <3>2. c \in Desktop!Buffer /\ c.held /\ c.size = size
      BY <1>2 DEF Desktop!Buffer
    <3>3. painted = Append(buffers, c)
      BY <1>3, <3>1
    <3> HIDE DEF c, painted, choice
    <3>4. /\ painted \in Seq(Desktop!Buffer) /\ Len(painted) = Len(buffers) + 1
          /\ \A i \in 1 .. Len(buffers) + 1 :
                painted[i] = IF i = Len(buffers) + 1 THEN c ELSE buffers[i]
      BY <1>3, <3>2, <3>3
    <3>5. HeldAt(painted, 1) + HeldAt(painted, 2) = HeldAt(buffers, 1) + HeldAt(buffers, 2) + 1
      <4>1. HeldAt(painted, choice) = 1 /\ HeldAt(buffers, choice) = 0
        BY <1>3, <3>1, <3>2, <3>4 DEF HeldAt
      <4>2. \A j \in {1, 2} : j # choice => HeldAt(painted, j) = HeldAt(buffers, j)
        BY <1>3, <3>1, <3>4 DEF HeldAt
      <4>3. choice = 1 \/ choice = 2
        BY <1>3, <3>1
      <4>4. QED
        BY <4>1, <4>2, <4>3 DEF HeldAt
    <3>6. painted[choice].size = size
      BY <1>3, <3>1, <3>2, <3>4
    <3>7. QED
      BY <1>3, <3>1, <3>4, <3>5, <3>6
  <2>7. /\ painted \in Seq(Desktop!Buffer) /\ Len(painted) <= 2 /\ painted[choice].size = size
        /\ HeldAt(painted, 1) + HeldAt(painted, 2) = HeldAt(buffers, 1) + HeldAt(buffers, 2) + 1
    BY <2>5, <2>6
  <2> HIDE DEF free, painted, choice, request, q
  <2>8. /\ w \in DeskSurfaces /\ w.buffers = painted /\ w.presentation = q
        /\ w.callback = (s.callback \/ request) /\ w.size = s.size /\ w.scale = s.scale
    BY <1>1, <2>2, <2>3, <2>7 DEF DeskSurfaces
  <2>9. shot \in Desktop!OnScreen /\ shot.size = size
    <3>1. (IF old = Nothing THEN 0 ELSE 1 - old.commit) \in {0, 1}
      BY DEF Desktop!OnScreen
    <3>2. QED
      BY <1>2, <2>7, <3>1 DEF Desktop!OnScreen
  <2> HIDE DEF w, shot
  <2>10. DeskSurfaceInv(w)
    BY <2>3, <2>7, <2>8 DEF DeskSurfaceInv
  <2>11. Desktop!Held(w) = Desktop!Held(s) + 1
    BY <1>1, <1>3, <2>7, <2>8, HeldCount
  <2>12. QED
    BY <2>1, <2>8, <2>9, <2>10, <2>11 DEF r, size
<1>10. QED
  BY <1>7, <1>8, <1>9

\* What maintain does to one surface.
LEMMA ActSurface ==
    ASSUME NEW s, DeskSurfaceInv(s), NEW old \in Desktop!OnScreen \cup {Nothing},
           NEW transitioning \in BOOLEAN, NEW fails \in BOOLEAN
    PROVE  LET r == Desktop!Act(s, old, transitioning, fails) IN
           /\ DeskSurfaceInv(r[1]) /\ r[2] \in Desktop!OnScreen \cup {Nothing}
           /\ \/ r[2] = old
              \/ /\ r[2].size = r[1].size * r[1].scale
                 /\ Desktop!Held(r[1]) = Desktop!Held(s) + 1
                 /\ s.callback => s.presentation.geometry_redraw
<1> DEFINE taken == [s.presentation EXCEPT !.frame_ready = FALSE]
           action == Desktop!next_action(s.presentation, transitioning, s.size # Nothing)
           r == Desktop!Act(s, old, transitioning, fails)
           q == [taken EXCEPT !.frame_pending = TRUE]
<1>1. s \in DeskSurfaces /\ s.presentation \in Desktop!Presentation
      /\ s.presentation.frame_pending = s.callback /\ Len(s.buffers) <= 2
  BY DEF DeskSurfaceInv, DeskSurfaces
<1>2. taken \in Desktop!Presentation /\ taken.frame_pending = s.callback
      /\ q \in Desktop!Presentation /\ q.frame_pending = TRUE
  BY <1>1 DEF Desktop!Presentation
<1>3. CASE action = "Render"
  <2>1. r = Desktop!render(s, old, taken, transitioning, fails)
    BY <1>3 DEF Desktop!Act
  <2>2. /\ s.size # Nothing
        /\ s.presentation.frame_pending => s.presentation.geometry_redraw
    BY <1>3 DEF Desktop!next_action, Desktop!render_eligible
  <2> HIDE DEF taken, r
  <2>3. /\ DeskSurfaceInv(r[1]) /\ r[1].size = s.size /\ r[1].scale = s.scale
        /\ r[2] \in Desktop!OnScreen \cup {Nothing}
        /\ \/ r[2] = old
           \/ r[2].size = s.size * s.scale /\ Desktop!Held(r[1]) = Desktop!Held(s) + 1
    BY <1>2, <2>1, <2>2, RenderSurface
  <2>4. QED
    BY <1>1, <2>2, <2>3 DEF r
<1>4. CASE action = "Rearm"
  <2> DEFINE w == [s EXCEPT !.callback = TRUE, !.presentation = q]
  <2>1. r[1] = w /\ r[2] = old
    BY <1>4 DEF Desktop!Act
  <2> HIDE DEF q, r
  <2>2. DeskSurfaceInv(w)
    BY <1>1, <1>2 DEF DeskSurfaceInv, DeskSurfaces
  <2> HIDE DEF w
  <2>3. QED
    BY <2>1, <2>2 DEF r
<1>5. CASE action = "Idle"
  <2> DEFINE w == [s EXCEPT !.presentation = taken]
  <2>1. r[1] = w /\ r[2] = old
    BY <1>5 DEF Desktop!Act
  <2> HIDE DEF taken, r
  <2>2. DeskSurfaceInv(w)
    BY <1>1, <1>2 DEF DeskSurfaceInv, DeskSurfaces
  <2> HIDE DEF w
  <2>3. QED
    BY <2>1, <2>2 DEF r
<1>6. action \in {"Render", "Rearm", "Idle"}
  BY DEF Desktop!next_action
<1>7. QED
  BY <1>3, <1>4, <1>5, <1>6

\* A surface told of another picture.
LEMMA ToldSurface ==
    ASSUME NEW s, DeskSurfaceInv(s)
    PROVE  LET w == [s EXCEPT !.presentation = Desktop!playback_changed(@)] IN
           /\ DeskSurfaceInv(w) /\ w.callback = s.callback /\ w.buffers = s.buffers
           /\ w.presentation.geometry_redraw = s.presentation.geometry_redraw
<1> DEFINE q == Desktop!playback_changed(s.presentation)
           w == [s EXCEPT !.presentation = q]
<1>1. s \in DeskSurfaces /\ s.presentation \in Desktop!Presentation
  BY DEF DeskSurfaceInv, DeskSurfaces
<1>2. /\ q \in Desktop!Presentation /\ q.frame_pending = s.presentation.frame_pending
      /\ q.geometry_redraw = s.presentation.geometry_redraw
  BY <1>1 DEF Desktop!playback_changed, Desktop!Presentation
<1> HIDE DEF q
<1>3. w \in DeskSurfaces /\ w.callback = s.callback /\ w.buffers = s.buffers /\ w.presentation = q
  BY <1>1, <1>2 DEF DeskSurfaces
<1> HIDE DEF w
<1>4. DeskSurfaceInv(w)
  BY <1>2, <1>3 DEF DeskSurfaceInv
<1>5. QED
  BY <1>2, <1>3, <1>4 DEF w, q

\* A turn of maintain keeps the invariant, and commits as the property asks.
LEMMA MaintainKeeps ==
    ASSUME DesktopInv, NEW event \in Desktop!PlaybackEvent, NEW sample \in BOOLEAN,
           NEW failing, Desktop!maintain(event, sample, failing)
    PROVE  DesktopInv' /\ DesktopSteps
<1> DEFINE happened == event # "none"
           length == CASE event = "none" -> v4
                       [] event = "transitioning" -> DissolveSteps
                       [] OTHER -> 0
           told == Desktop!redraw_all(v2, happened)
           LeftOf(t) == IF length > 0 /\ \E o \in Desktop!Live : Desktop!Wanted(t[o])
                        THEN length - 1 ELSE length
           ChangedOf(l) == l # length /\ (sample \/ l = 0)
           OldOf(c) == [o \in Outputs |->
                          IF v3[o] # Nothing /\ (happened \/ c)
                          THEN [v3[o] EXCEPT !.latest = FALSE] ELSE v3[o]]
           ActedOf(s, w, l) == [o \in Desktop!Live |->
                                  Desktop!Act(s[o], w[o], l > 0, o \in failing)]
           Surfaces(a) == [o \in Outputs |-> IF o \in Desktop!Live THEN a[o][1] ELSE Nothing]
           Shown(a) == [o \in Outputs |-> IF o \in Desktop!Live THEN a[o][2] ELSE Nothing]
           left == LeftOf(told)
           changed == ChangedOf(left)
           sampled == Desktop!redraw_all(told, changed)
           old == OldOf(changed)
           acted == ActedOf(sampled, old, left)
<1>1. /\ v2' = Surfaces(acted) /\ v3' = Shown(acted)
      /\ v4' = left /\ v1' = v1
      /\ IF happened \/ failing # {} THEN Desktop!Outside ELSE UNCHANGED v5
  <2>1. v1' = v1 /\ IF happened \/ failing # {} THEN Desktop!Outside ELSE UNCHANGED v5
    BY DEF Desktop!maintain
  <2>2. \E t \in {told} : \E l \in {LeftOf(t)} : \E c \in {ChangedOf(l)} :
        \E s \in {Desktop!redraw_all(t, c)} : \E w \in {OldOf(c)} :
        \E a \in {ActedOf(s, w, l)} :
          /\ v2' = Surfaces(a)
          /\ v3' = Shown(a)
          /\ v4' = l
    BY Zenon DEF Desktop!maintain
  <2> HIDE DEF happened, length, told, LeftOf, ChangedOf, OldOf, ActedOf, Surfaces, Shown
  <2>3. v2' = Surfaces(acted) /\ v3' = Shown(acted) /\ v4' = left
    BY <2>2
  <2>4. QED
    BY <2>1, <2>3
<1>2. length \in 0 .. DissolveSteps /\ DissolveSteps \in Nat
  BY DesktopAssumption DEF DesktopInv, Desktop!SurfacesAssumption, Desktop!PlaybackEvent
<1> HIDE DEF length
<1>3. left \in 0 .. DissolveSteps
  BY <1>2
<1>4. v5' \in 0 .. MaxChanges
  <2>1. v5 \in 0 .. MaxChanges /\ MaxChanges \in Nat
    BY DesktopAssumption DEF DesktopInv, Desktop!SurfacesAssumption
  <2>2. v5' = v5 \/ (v5 < MaxChanges /\ v5' = v5 + 1)
    BY <1>1 DEF Desktop!Outside
  <2>3. QED
    BY <2>1, <2>2
<1> HIDE DEF left, changed, happened
<1>5. ASSUME NEW o \in Desktop!Live
      PROVE  /\ DeskSurfaceInv(v2'[o]) /\ v3'[o] \in Desktop!OnScreen \cup {Nothing}
             /\ Quiet(o) \/ Commit(v2[o], v3[o], v2'[o], v3'[o])
  <2>1. o \in Outputs /\ v2[o] # Nothing /\ DeskSurfaceInv(v2[o])
        /\ v3[o] \in Desktop!OnScreen \cup {Nothing}
    BY DEF Desktop!Live, DesktopInv
  <2>2. /\ DeskSurfaceInv(told[o]) /\ told[o].callback = v2[o].callback
        /\ told[o].buffers = v2[o].buffers
        /\ told[o].presentation.geometry_redraw = v2[o].presentation.geometry_redraw
    <3>1. told[o] = IF v2[o] # Nothing /\ happened
                    THEN [v2[o] EXCEPT !.presentation = Desktop!playback_changed(@)] ELSE v2[o]
      BY <2>1 DEF Desktop!redraw_all
    <3> HIDE DEF told
    <3>2. QED
      BY <2>1, <3>1, ToldSurface
  <2> HIDE DEF told
  <2>3. /\ DeskSurfaceInv(sampled[o]) /\ sampled[o].callback = v2[o].callback
        /\ sampled[o].buffers = v2[o].buffers
        /\ sampled[o].presentation.geometry_redraw = v2[o].presentation.geometry_redraw
    <3>1. sampled[o] = IF told[o] # Nothing /\ changed
                       THEN [told[o] EXCEPT !.presentation = Desktop!playback_changed(@)]
                       ELSE told[o]
      BY <2>1 DEF Desktop!redraw_all
    <3> HIDE DEF sampled
    <3>2. QED
      BY <2>2, <3>1, ToldSurface
  <2>4. /\ old[o] \in Desktop!OnScreen \cup {Nothing}
        /\ v3[o] = Nothing => old[o] = Nothing
        /\ v3[o] # Nothing => old[o].commit = v3[o].commit
    <3>1. old[o] = IF v3[o] # Nothing /\ (happened \/ changed)
                   THEN [v3[o] EXCEPT !.latest = FALSE] ELSE v3[o]
      BY <2>1
    <3> HIDE DEF old
    <3>2. QED
      BY <2>1, <3>1 DEF Desktop!OnScreen
  <2> DEFINE r == Desktop!Act(sampled[o], old[o], left > 0, o \in failing)
  <2>5. v2'[o] = r[1] /\ v3'[o] = r[2]
    BY <1>1, <2>1
  <2> HIDE DEF sampled, old
  <2>6. /\ DeskSurfaceInv(r[1]) /\ r[2] \in Desktop!OnScreen \cup {Nothing}
        /\ \/ r[2] = old[o]
           \/ /\ r[2].size = r[1].size * r[1].scale
              /\ Desktop!Held(r[1]) = Desktop!Held(sampled[o]) + 1
              /\ sampled[o].callback => sampled[o].presentation.geometry_redraw
    <3> DEFINE moving == left > 0
               fails  == o \in failing
    <3>1. moving \in BOOLEAN /\ fails \in BOOLEAN
      OBVIOUS
    <3>2. r = Desktop!Act(sampled[o], old[o], moving, fails)
      OBVIOUS
    <3> HIDE DEF moving, fails, r
    <3> DEFINE a == sampled[o]
               b == old[o]
    <3>3. DeskSurfaceInv(a) /\ b \in Desktop!OnScreen \cup {Nothing}
      BY <2>3, <2>4
    <3> HIDE DEF a, b
    <3>4. LET x == Desktop!Act(a, b, moving, fails) IN
          /\ DeskSurfaceInv(x[1]) /\ x[2] \in Desktop!OnScreen \cup {Nothing}
          /\ \/ x[2] = b
             \/ /\ x[2].size = x[1].size * x[1].scale
                /\ Desktop!Held(x[1]) = Desktop!Held(a) + 1
                /\ a.callback => a.presentation.geometry_redraw
      BY <3>1, <3>3, ActSurface
    <3>5. QED
      BY <3>2, <3>4 DEF a, b
  <2>7. Desktop!Held(sampled[o]) = Desktop!Held(v2[o])
    BY <2>3 DEF Desktop!Held
  <2> HIDE DEF r
  <2>8. CASE r[2] = old[o]
    BY <2>4, <2>5, <2>6, <2>8 DEF Quiet
  <2>9. CASE r[2] # old[o]
    BY <2>3, <2>5, <2>6, <2>7, <2>9 DEF Commit
  <2>10. QED
    BY <2>8, <2>9
<1>6. \A o \in Outputs \ Desktop!Live : v2'[o] = Nothing /\ v3'[o] = Nothing
  BY <1>1
<1>7. /\ v2' = [o \in Outputs |-> v2'[o]] /\ v3' = [o \in Outputs |-> v3'[o]]
  BY <1>1
<1>8. \A o \in Outputs : v3'[o] \in Desktop!OnScreen \cup {Nothing}
  BY <1>5, <1>6
<1>9. v3' \in [Outputs -> Desktop!OnScreen \cup {Nothing}]
  BY <1>7, <1>8
<1>10. \A o \in Outputs : v2'[o] # Nothing => DeskSurfaceInv(v2'[o])
  BY <1>5, <1>6
<1>11. DesktopInv'
  BY <1>1, <1>3, <1>4, <1>7, <1>9, <1>10 DEF DesktopInv
<1>12. \A o \in Outputs : Quiet(o) \/ Commit(v2[o], v3[o], v2'[o], v3'[o])
  BY <1>5, <1>6 DEF Quiet
<1>13. QED
  BY <1>11, <1>12, QuietSteps

\* A new geometry generation of a surface.
LEMMA GenerationFields ==
    ASSUME NEW s \in DeskSurfaces, Len(s.buffers) <= 2
    PROVE  LET w == Desktop!Generation(s) IN
           /\ w \in DeskSurfaces /\ Len(w.buffers) <= 2 /\ w.callback = s.callback
           /\ w.presentation = s.presentation
<1> DEFINE b == [i \in DOMAIN s.buffers |-> [s.buffers[i] EXCEPT !.current = FALSE]]
           w == [s EXCEPT !.buffers = b]
<1>1. s.buffers \in Seq(Desktop!Buffer) /\ DOMAIN s.buffers = 1 .. Len(s.buffers)
      /\ Len(s.buffers) \in Nat
  BY DEF DeskSurfaces
<1>2. \A i \in 1 .. Len(s.buffers) : [s.buffers[i] EXCEPT !.current = FALSE] \in Desktop!Buffer
  <2> TAKE i \in 1 .. Len(s.buffers)
  <2>1. s.buffers[i] \in Desktop!Buffer
    BY <1>1
  <2>2. QED
    BY <2>1 DEF Desktop!Buffer
<1>3. b \in Seq(Desktop!Buffer) /\ Len(b) = Len(s.buffers)
  BY <1>1, <1>2
<1>4. Desktop!Generation(s) = w
  BY DEF Desktop!Generation
<1> HIDE DEF b
<1>5. /\ w \in DeskSurfaces /\ w.buffers = b /\ w.callback = s.callback
      /\ w.presentation = s.presentation
  BY <1>3 DEF DeskSurfaces
<1> HIDE DEF w
<1>6. QED
  BY <1>3, <1>4, <1>5

\* The methods of PresentationState keep its type, and a callback that is due.
LEMMA GeometryPresentation ==
    ASSUME NEW p \in Desktop!Presentation
    PROVE  /\ Desktop!geometry_changed(p) \in Desktop!Presentation
           /\ Desktop!geometry_changed(p).frame_pending = p.frame_pending
           /\ Desktop!frame_arrived(p) \in Desktop!Presentation
           /\ ~Desktop!frame_arrived(p).frame_pending
BY DEF Desktop!geometry_changed, Desktop!frame_arrived, Desktop!Presentation

\* A surface with another size, scale or presentation.
LEMMA AlteredSurface ==
    ASSUME NEW s, DeskSurfaceInv(s), NEW size \in OutputSizes \cup {Nothing},
           NEW scale \in OutputScales
    PROVE  LET w == [s EXCEPT !.size = size]
               x == [s EXCEPT !.scale = scale, !.presentation = Desktop!geometry_changed(@)]
               y == [s EXCEPT !.presentation = Desktop!geometry_changed(@)]
           IN  DeskSurfaceInv(w) /\ DeskSurfaceInv(x) /\ DeskSurfaceInv(y)
<1> DEFINE q == Desktop!geometry_changed(s.presentation)
<1>1. s \in DeskSurfaces /\ s.presentation \in Desktop!Presentation
  BY DEF DeskSurfaceInv, DeskSurfaces
<1>2. q \in Desktop!Presentation /\ q.frame_pending = s.presentation.frame_pending
  BY <1>1, GeometryPresentation
<1> DEFINE w == [s EXCEPT !.size = size]
           x == [s EXCEPT !.scale = scale, !.presentation = q]
           y == [s EXCEPT !.presentation = q]
<1>3. [s EXCEPT !.scale = scale, !.presentation = Desktop!geometry_changed(@)] = x
  BY <1>1 DEF DeskSurfaces
<1> HIDE DEF q
<1>4. DeskSurfaceInv(w)
  BY <1>1 DEF DeskSurfaceInv, DeskSurfaces
<1>5. DeskSurfaceInv(x)
  BY <1>1, <1>2 DEF DeskSurfaceInv, DeskSurfaces
<1>6. DeskSurfaceInv(y)
  BY <1>1, <1>2 DEF DeskSurfaceInv, DeskSurfaces
<1>7. QED
  BY <1>3, <1>4, <1>5, <1>6 DEF q

\* A new generation of buffers keeps the invariant of a surface.
LEMMA GenerationKeeps ==
    ASSUME NEW s, DeskSurfaceInv(s)
    PROVE  DeskSurfaceInv(Desktop!Generation(s))
<1>1. s \in DeskSurfaces /\ Len(s.buffers) <= 2 /\ s.presentation.frame_pending = s.callback
  BY DEF DeskSurfaceInv
<1>2. QED
  BY <1>1, GenerationFields DEF DeskSurfaceInv

\* An event of one output commits nothing.
LEMMA OneOutputKeeps ==
    ASSUME DesktopInv, NEW o \in Outputs, NEW w, w # Nothing => DeskSurfaceInv(w),
           v2' = [v2 EXCEPT ![o] = w], v1' \in [Outputs -> OutputSizes \cup {0, Nothing}],
           v3' = v3 \/ Desktop!Stale(o) \/ v3' = [v3 EXCEPT ![o] = Nothing],
           v4' = v4, v5' \in 0 .. MaxChanges
    PROVE  DesktopInv' /\ DesktopSteps
<1>1. v2' = [t \in Outputs |-> v2'[t]] /\ \A t \in Outputs : v2'[t] = IF t = o THEN w ELSE v2[t]
  BY DEF DesktopInv
<1>2. \A t \in Outputs : v2'[t] # Nothing => DeskSurfaceInv(v2'[t])
  BY <1>1 DEF DesktopInv
<1>3. v3 \in [Outputs -> Desktop!OnScreen \cup {Nothing}]
  BY DEF DesktopInv
<1>4. v3' = [t \in Outputs |-> v3'[t]]
  BY <1>3 DEF Desktop!Stale
<1>5. ASSUME NEW t \in Outputs
      PROVE  v3'[t] \in Desktop!OnScreen \cup {Nothing} /\ Quiet(t)
  <2>1. v3[t] \in Desktop!OnScreen \cup {Nothing}
    BY <1>3
  <2>2. \/ v3'[t] = v3[t] \/ v3'[t] = Nothing
        \/ v3[t] # Nothing /\ v3'[t] = [v3[t] EXCEPT !.current = FALSE]
    BY <1>3 DEF Desktop!Stale
  <2>3. QED
    BY <2>1, <2>2 DEF Quiet, Desktop!OnScreen
<1>6. v3' \in [Outputs -> Desktop!OnScreen \cup {Nothing}]
  BY <1>4, <1>5
<1>7. DesktopInv'
  BY <1>1, <1>2, <1>6 DEF DesktopInv
<1>8. QED
  BY <1>5, <1>7, QuietSteps

\* refresh_surface_geometry
LEMMA RefreshKeeps ==
    ASSUME DesktopInv, NEW o \in Outputs, NEW s, DeskSurfaceInv(s),
           NEW output \in OutputSizes \cup {0},
           Desktop!refresh_surface_geometry(o, s, output)
    PROVE  \E w : /\ v2' = [v2 EXCEPT ![o] = w] /\ DeskSurfaceInv(w)
                  /\ v3' = v3 \/ Desktop!Stale(o)
<1> DEFINE size == IF s.hints = Nothing THEN Nothing
                   ELSE Desktop!resolve_configure_size(s.hints, s.size, output)
           sized == IF size = s.size THEN s ELSE Desktop!Generation([s EXCEPT !.size = size])
           w == [sized EXCEPT !.presentation = Desktop!geometry_changed(@)]
<1>1. v2' = [v2 EXCEPT ![o] = IF size = Nothing THEN s ELSE w]
  BY DEF Desktop!refresh_surface_geometry
<1>2. v3' = v3 \/ Desktop!Stale(o)
  BY DEF Desktop!refresh_surface_geometry
<1>3. size \in OutputSizes \cup {Nothing}
  BY DEF DeskSurfaceInv, DeskSurfaces, Desktop!resolve_configure_size
<1>4. s.scale \in OutputScales
  BY DEF DeskSurfaceInv, DeskSurfaces
<1> HIDE DEF size
<1>5. DeskSurfaceInv(sized)
  <2>1. DeskSurfaceInv([s EXCEPT !.size = size])
    BY <1>3, <1>4, AlteredSurface
  <2>2. DeskSurfaceInv(Desktop!Generation([s EXCEPT !.size = size]))
    BY <2>1, GenerationKeeps
  <2>3. QED
    BY <2>2
<1> HIDE DEF sized
<1>6. DeskSurfaceInv(w)
  BY <1>3, <1>4, <1>5, AlteredSurface
<1> HIDE DEF w
<1>7. QED
  BY <1>1, <1>2, <1>6

\* Every step of the desktop surfaces keeps their invariant and commits as the property asks.
LEMMA DesktopStep ==
    ASSUME DesktopInv, Desktop!Next
    PROVE  DesktopInv' /\ DesktopSteps
<1>1. /\ v1 \in [Outputs -> OutputSizes \cup {0, Nothing}] /\ v5 \in 0 .. MaxChanges
      /\ MaxChanges \in Nat /\ \A o \in Outputs : v2[o] # Nothing => DeskSurfaceInv(v2[o])
  BY DesktopAssumption DEF DesktopInv, Desktop!SurfacesAssumption
<1>2. Desktop!Outside => v5' \in 0 .. MaxChanges
  BY <1>1 DEF Desktop!Outside
<1>3. ASSUME NEW o \in Outputs, NEW size \in OutputSizes \cup {0}, Desktop!add_surface(o, size)
      PROVE  DesktopInv' /\ DesktopSteps
  <2>1. /\ Desktop!Outside /\ v1' \in [Outputs -> OutputSizes \cup {0, Nothing}] /\ v4' = v4
    BY <1>1, <1>3 DEF Desktop!add_surface
  <2>2. CASE v2[o] = Nothing
    <3>1. v2' = [v2 EXCEPT ![o] = Desktop!NewSurface] /\ v3' = v3
      BY <1>3, <2>2 DEF Desktop!add_surface
    <3>2. DeskSurfaceInv(Desktop!NewSurface)
      <4>1. 1 \in OutputScales
        BY DesktopAssumption DEF Desktop!SurfacesAssumption
      <4>2. Desktop!NewPresentation \in Desktop!Presentation
            /\ Desktop!NewPresentation.frame_pending = FALSE
        BY DEF Desktop!NewPresentation, Desktop!Presentation
      <4>3. << >> \in Seq(Desktop!Buffer) /\ Len(<< >>) <= 2
        OBVIOUS
      <4>4. QED
        BY <4>1, <4>2, <4>3 DEF Desktop!NewSurface, DeskSurfaceInv, DeskSurfaces
    <3>3. QED
      BY <1>2, <2>1, <3>1, <3>2, OneOutputKeeps
  <2>3. CASE v2[o] # Nothing
    <3>1. Desktop!refresh_surface_geometry(o, v2[o], size) /\ DeskSurfaceInv(v2[o])
      BY <1>1, <1>3, <2>3 DEF Desktop!add_surface
    <3>2. PICK w : /\ v2' = [v2 EXCEPT ![o] = w] /\ DeskSurfaceInv(w)
                   /\ v3' = v3 \/ Desktop!Stale(o)
      BY <3>1, RefreshKeeps
    <3>3. QED
      BY <1>2, <2>1, <3>2, OneOutputKeeps
  <2>4. QED
    BY <2>2, <2>3
<1>4. ASSUME NEW o \in Outputs, NEW hint \in OutputSizes \cup {0}, Desktop!configure(o, hint)
      PROVE  DesktopInv' /\ DesktopSteps
  <2> DEFINE s == [v2[o] EXCEPT !.hints = hint]
             output == IF v1[o] = Nothing THEN 0 ELSE v1[o]
  <2>1. Desktop!Outside /\ v1' = v1 /\ v4' = v4 /\ DeskSurfaceInv(v2[o])
        /\ Desktop!refresh_surface_geometry(o, s, output)
    BY <1>1, <1>4 DEF Desktop!configure
  <2>2. DeskSurfaceInv(s)
    BY <2>1 DEF DeskSurfaceInv, DeskSurfaces
  <2>3. output \in OutputSizes \cup {0}
    BY <1>1
  <2> HIDE DEF s, output
  <2>4. PICK w : /\ v2' = [v2 EXCEPT ![o] = w] /\ DeskSurfaceInv(w)
                 /\ v3' = v3 \/ Desktop!Stale(o)
    BY <2>1, <2>2, <2>3, RefreshKeeps
  <2>5. QED
    BY <1>1, <1>2, <2>1, <2>4, OneOutputKeeps
<1>5. ASSUME NEW o \in Outputs, NEW scale \in OutputScales, Desktop!scale_factor_changed(o, scale)
      PROVE  DesktopInv' /\ DesktopSteps
  <2> DEFINE x == [v2[o] EXCEPT !.scale = scale, !.presentation = Desktop!geometry_changed(@)]
  <2>1. /\ Desktop!Outside /\ v1' = v1 /\ v4' = v4 /\ DeskSurfaceInv(v2[o])
        /\ v2' = [v2 EXCEPT ![o] = Desktop!Generation(x)] /\ Desktop!Stale(o)
    BY <1>1, <1>5 DEF Desktop!scale_factor_changed
  <2>2. DeskSurfaceInv(x)
    BY <2>1, AlteredSurface
  <2> HIDE DEF x
  <2>3. DeskSurfaceInv(Desktop!Generation(x))
    BY <2>2, GenerationKeeps
  <2>4. QED
    BY <1>1, <1>2, <2>1, <2>3, OneOutputKeeps
<1>6. ASSUME NEW o \in Outputs, Desktop!transform_changed(o)
      PROVE  DesktopInv' /\ DesktopSteps
  <2> DEFINE x == [v2[o] EXCEPT !.presentation = Desktop!geometry_changed(@)]
  <2>1. /\ Desktop!Outside /\ v1' = v1 /\ v4' = v4 /\ DeskSurfaceInv(v2[o])
        /\ v2' = [v2 EXCEPT ![o] = Desktop!Generation(x)] /\ Desktop!Stale(o)
    BY <1>1, <1>6 DEF Desktop!transform_changed
  <2>2. v2[o].scale \in OutputScales
    BY <2>1 DEF DeskSurfaceInv, DeskSurfaces
  <2>3. DeskSurfaceInv(x)
    BY <2>1, <2>2, AlteredSurface
  <2> HIDE DEF x
  <2>4. DeskSurfaceInv(Desktop!Generation(x))
    BY <2>3, GenerationKeeps
  <2>5. QED
    BY <1>1, <1>2, <2>1, <2>4, OneOutputKeeps
<1>7. ASSUME NEW o \in Outputs, Desktop!output_destroyed(o) \/ Desktop!closed(o)
      PROVE  DesktopInv' /\ DesktopSteps
  <2>1. /\ Desktop!Outside /\ v1' \in [Outputs -> OutputSizes \cup {0, Nothing}] /\ v4' = v4
        /\ v2' = [v2 EXCEPT ![o] = Nothing] /\ v3' = [v3 EXCEPT ![o] = Nothing]
    BY <1>1, <1>7 DEF Desktop!output_destroyed, Desktop!closed, Desktop!Remove
  <2>2. QED
    BY <1>2, <2>1, OneOutputKeeps
<1>8. ASSUME NEW o \in Outputs, Desktop!frame(o)
      PROVE  DesktopInv' /\ DesktopSteps
  <2> DEFINE s == v2[o]
             q == Desktop!frame_arrived(s.presentation)
             w == [s EXCEPT !.callback = FALSE, !.presentation = q]
  <2>1. DeskSurfaceInv(s) /\ s \in DeskSurfaces /\ s.presentation \in Desktop!Presentation
    BY <1>1, <1>8 DEF Desktop!frame, DeskSurfaceInv, DeskSurfaces
  <2>2. /\ v2' = [v2 EXCEPT ![o] = [s EXCEPT !.callback = FALSE,
                                             !.presentation = Desktop!frame_arrived(@)]]
        /\ UNCHANGED <<v1, v3, v4, v5>>
    BY <1>8 DEF Desktop!frame
  <2>3. [s EXCEPT !.callback = FALSE, !.presentation = Desktop!frame_arrived(@)] = w
    BY <2>1 DEF DeskSurfaces
  <2>4. q \in Desktop!Presentation /\ q.frame_pending = FALSE
    BY <2>1, GeometryPresentation DEF Desktop!Presentation
  <2> HIDE DEF q
  <2>5. DeskSurfaceInv(w)
    BY <2>1, <2>4 DEF DeskSurfaceInv, DeskSurfaces
  <2> HIDE DEF w
  <2>6. QED
    BY <1>1, <2>2, <2>3, <2>5, OneOutputKeeps
<1>9. ASSUME NEW o \in Outputs, Desktop!Release(o)
      PROVE  DesktopInv' /\ DesktopSteps
  <2>1. PICK i \in DOMAIN v2[o].buffers : v2' = [v2 EXCEPT ![o].buffers[i].held = FALSE]
    BY <1>9 DEF Desktop!Release
  <2> DEFINE s == v2[o]
             c == [s.buffers[i] EXCEPT !.held = FALSE]
             b == [s.buffers EXCEPT ![i] = c]
             w == [s EXCEPT !.buffers = b]
  <2>2. UNCHANGED <<v1, v3, v4, v5>> /\ DeskSurfaceInv(s)
    BY <1>1, <1>9 DEF Desktop!Release
  <2>3. s \in DeskSurfaces /\ s.buffers \in Seq(Desktop!Buffer) /\ i \in 1 .. Len(s.buffers)
    BY <2>2 DEF DeskSurfaceInv, DeskSurfaces
  <2>4. c \in Desktop!Buffer
    <3>1. s.buffers[i] \in Desktop!Buffer
      BY <2>3
    <3>2. QED
      BY <3>1 DEF Desktop!Buffer
  <2>5. v2' = [v2 EXCEPT ![o] = w]
    BY <2>1
  <2> HIDE DEF c
  <2>6. b \in Seq(Desktop!Buffer) /\ Len(b) = Len(s.buffers)
    BY <2>3, <2>4
  <2> HIDE DEF b
  <2>7. DeskSurfaceInv(w)
    BY <2>2, <2>3, <2>6 DEF DeskSurfaceInv, DeskSurfaces
  <2> HIDE DEF w
  <2>8. QED
    BY <1>1, <2>2, <2>5, <2>7, OneOutputKeeps
<1>10. ASSUME NEW event \in Desktop!PlaybackEvent, NEW sample \in BOOLEAN, NEW failing,
              Desktop!maintain(event, sample, failing)
       PROVE  DesktopInv' /\ DesktopSteps
  BY <1>10, MaintainKeeps
<1>11. "none" \in Desktop!PlaybackEvent /\ TRUE \in BOOLEAN
  BY DEF Desktop!PlaybackEvent
<1>12. QED
  BY <1>3, <1>4, <1>5, <1>6, <1>7, <1>8, <1>9, <1>10, <1>11 DEF Desktop!Next, Desktop!Maintain

\* The desktop surfaces start in their invariant.
LEMMA DesktopStart ==
    ASSUME Desktop!Init
    PROVE  DesktopInv
<1>1. /\ v1 \in [Outputs -> {0, Nothing}] /\ v4 = 0 /\ v5 = 0
      /\ v2 = [o \in Outputs |-> IF v1[o] = Nothing THEN Nothing ELSE Desktop!NewSurface]
      /\ v3 = [o \in Outputs |-> Nothing]
  BY DEF Desktop!Init
<1>2. 1 \in OutputScales /\ DissolveSteps \in Nat /\ MaxChanges \in Nat
  BY DesktopAssumption DEF Desktop!SurfacesAssumption
<1>3. Desktop!NewPresentation \in Desktop!Presentation
      /\ Desktop!NewPresentation.frame_pending = FALSE
  BY DEF Desktop!NewPresentation, Desktop!Presentation
<1>4. << >> \in Seq(Desktop!Buffer) /\ Len(<< >>) <= 2
  OBVIOUS
<1>5. DeskSurfaceInv(Desktop!NewSurface)
  BY <1>2, <1>3, <1>4 DEF Desktop!NewSurface, DeskSurfaceInv, DeskSurfaces
<1>6. v1 \in [Outputs -> OutputSizes \cup {0, Nothing}]
  BY <1>1
<1>7. QED
  BY <1>1, <1>2, <1>5, <1>6 DEF DesktopInv

\* The invariant of the desktop surfaces is what a reader asks for.
LEMMA DesktopFacts ==
    ASSUME DesktopInv
    PROVE  Desktop!TypeOK /\ Desktop!CallbackIsOwed
<1>1. ASSUME NEW o \in Outputs, v2[o] # Nothing
      PROVE  DeskSurfaceInv(v2[o]) /\ v2[o] \in DeskSurfaces
  BY <1>1 DEF DesktopInv, DeskSurfaceInv
<1>2. Desktop!CallbackIsOwed
  BY <1>1 DEF Desktop!CallbackIsOwed, Desktop!Live, DeskSurfaceInv
<1>3. ASSUME NEW o \in Outputs, v2[o] # Nothing
      PROVE  /\ v2[o].hints \in OutputSizes \cup {0, Nothing}
             /\ v2[o].size \in OutputSizes \cup {Nothing} /\ v2[o].scale \in OutputScales
             /\ v2[o].presentation \in Desktop!Presentation
             /\ v2[o].callback \in BOOLEAN
             /\ v2[o].buffers \in Seq(Desktop!Buffer)
             /\ Len(v2[o].buffers) <= Desktop!BufferCount
  BY <1>1, <1>3 DEF DeskSurfaceInv, DeskSurfaces, Desktop!BufferCount
<1>4. Desktop!TypeOK
  BY <1>3 DEF DesktopInv, Desktop!TypeOK
<1>5. QED
  BY <1>2, <1>4

-----------------------------------------------------------------------------
(* The images *)

Playbacks == [mode : Images!Modes, selected : Pictures, pending : Images!Pending \cup {Nothing},
              presented : Images!Frame \cup {Nothing}, presented_image : Pictures \cup {Nothing},
              transition : Images!Transition \cup {Nothing}, retry : 0 .. RetrySeconds]

\* A decode is of the selected image, or of the primary one for a screen that shows nothing;
\* a dissolve is to the selected image, and with nothing else under way.
PlaybackInv(p) ==
    /\ p \in Playbacks
    /\ p.pending # Nothing => \/ p.pending.request.image = p.selected
                              \/ /\ p.pending.request.image = PrimaryPicture
                                 /\ p.presented = Nothing /\ p.transition = Nothing
    /\ p.transition # Nothing => /\ p.transition.to = p.selected /\ p.pending = Nothing
                                 /\ p.presented = Nothing /\ p.presented_image = Nothing
    /\ p.presented_image # Nothing =>
         p.presented = Images!Full(p.presented_image) /\ p.transition = Nothing

ImagesInv ==
    /\ PlaybackInv(v1)
    /\ v2 \in BOOLEAN /\ v5 \in BOOLEAN
    /\ v3 \in 0 .. DaySeconds - 1 /\ v6 \in 0 .. DissolveSeconds
    /\ v4 \in -(ClockTolerance + 1) .. (ClockTolerance + 1) /\ v7 \in 0 .. MaxClockJumps
    /\ v8 \in SUBSET Images!Request /\ IsFiniteSet(v8) /\ Cardinality(v8) <= MaxDecodes
    /\ v9 = Images!frame(v1)

\* What the durations and limits of the playback are.
LEMMA ImagesNumbers ==
    /\ DaySeconds \in Nat \ {0} /\ DissolveSeconds \in Nat \ {0} /\ RetrySeconds \in Nat \ {0}
    /\ ClockTolerance \in Nat /\ MaxDecodes \in Nat \ {0} /\ MaxClockJumps \in Nat
    /\ PrimaryPicture \in Pictures
    /\ Nothing \notin Images!Frame /\ Nothing \notin Images!Transition
BY ImagesAssumption DEF Images!PlaybackAssumption

\* A time of day selects a point of a schedule (selected_point, boundary_start).
LEMMA PointIsSelected ==
    ASSUME NEW points \in Seq([image : Pictures, boundary : 0 .. DaySeconds]), Len(points) > 0,
           NEW second \in 0 .. DaySeconds - 1
    PROVE  /\ Images!selected_point(points, second).image \in Pictures
           /\ Images!boundary_start(points, second) \in Nat
<1> DEFINE reached == {i \in DOMAIN points : Images!Boundary(points[i]) <= second}
           P == [image : Pictures, boundary : 0 .. DaySeconds]
<1>1. DOMAIN points = 1 .. Len(points) /\ Len(points) \in Nat
      /\ \A i \in 1 .. Len(points) : points[i] \in P
  <2>1. points \in Seq(P)
    OBVIOUS
  <2> HIDE DEF P
  <2>2. QED
    BY <2>1
<1>2. reached # {} => Images!Max(reached) \in reached
  <2>1. reached \in SUBSET (0 .. Len(points))
    BY <1>1
  <2> HIDE DEF reached
  <2>2. SUFFICES ASSUME reached # {} PROVE Images!Max(reached) \in reached
    OBVIOUS
  <2>3. \E x \in reached : \A y \in reached : x >= y
    BY <1>1, <2>1, <2>2, LargestNatural
  <2>4. QED
    BY <2>3 DEF Images!Max
<1>3. Images!selected_point(points, second)
        = IF reached = {} THEN points[Len(points)] ELSE points[Images!Max(reached)]
  BY DEF Images!selected_point
<1>4. reached \subseteq 1 .. Len(points)
  BY <1>1
<1> HIDE DEF reached
<1>5. Images!selected_point(points, second) \in P
  <2>1. CASE reached = {}
    BY <1>1, <1>3, <2>1
  <2>2. CASE reached # {}
    <3>1. Images!Max(reached) \in 1 .. Len(points)
      BY <1>2, <1>4, <2>2
    <3>2. QED
      BY <1>1, <1>3, <2>2, <3>1
  <2>3. QED
    BY <2>1, <2>2
<1>6. Images!boundary_start(points, second) \in Nat
  <2> DEFINE b == Images!selected_point(points, second).boundary
  <2>1. b \in 0 .. DaySeconds /\ DaySeconds \in Nat
    BY <1>5, ImagesNumbers
  <2>2. Images!boundary_start(points, second)
          = IF b <= second THEN second - b
            ELSE IF b = DaySeconds THEN second ELSE DaySeconds - b + second
    BY DEF Images!boundary_start, Images!Boundary
  <2> HIDE DEF b
  <2>3. QED
    BY <2>1, <2>2
<1>7. QED
  BY <1>5, <1>6

\* The schedules select an image, and how long ago, for every second of the day.
LEMMA ScheduleTypes ==
    ASSUME NEW mode \in Images!Modes, NEW second \in 0 .. DaySeconds - 1
    PROVE  Images!Selection[mode][second] \in Pictures /\ Images!Elapsed[mode][second] \in Nat
<1>1. /\ Images!Points(mode) \in Seq([image : Pictures, boundary : 0 .. DaySeconds])
      /\ Len(Images!Points(mode)) > 0
  <2> DEFINE P == Seq([image : Pictures, boundary : 0 .. DaySeconds])
  <2>1. {DayPoints, SunPoints} \subseteq P /\ Len(DayPoints) > 0 /\ Len(SunPoints) > 0
    BY ImagesAssumption DEF Images!PlaybackAssumption
  <2>2. Images!Points(mode) = DayPoints \/ Images!Points(mode) = SunPoints
    BY DEF Images!Points
  <2> HIDE DEF P
  <2>3. Images!Points(mode) \in P /\ Len(Images!Points(mode)) > 0
    BY <2>1, <2>2
  <2>4. QED
    BY <2>3 DEF P
<1>2. /\ Images!Selection[mode][second] = Images!selected_point(Images!Points(mode), second).image
      /\ Images!Elapsed[mode][second] = Images!boundary_start(Images!Points(mode), second)
  <2>1. second \in Images!Second
    BY DEF Images!Second
  <2>2. Images!Selection[mode][second] = Images!selected_point(Images!Points(mode), second).image
    BY <2>1 DEF Images!Selection
  <2>3. Images!Elapsed[mode][second] = Images!boundary_start(Images!Points(mode), second)
    BY <2>1 DEF Images!Elapsed
  <2>4. QED
    BY <2>2, <2>3
<1>3. QED
  BY <1>1, <1>2, PointIsSelected

\* There is always a generation that no request holds.
LEMMA GenerationExists ==
    ASSUME ImagesInv, NEW p, p.pending # Nothing => p.pending \in Images!Pending
    PROVE  Images!next_generation(p) \in Images!Generation
<1> DEFINE used == {r.generation : r \in v8}
           mine == IF p.pending = Nothing THEN {} ELSE {p.pending.request.generation}
<1>1. MaxDecodes \in Nat /\ IsFiniteSet(v8) /\ Cardinality(v8) <= MaxDecodes
  BY ImagesNumbers DEF ImagesInv
<1>2. IsFiniteSet(used) /\ Cardinality(used) <= Cardinality(v8)
  <2> DEFINE f == [r \in v8 |-> r.generation]
  <2>1. f \in Surjection(v8, used)
    BY DEF Surjection
  <2>2. QED
    BY <1>1, <2>1, FS_Surjection
<1>3. IsFiniteSet(mine) /\ Cardinality(mine) <= 1
  <2>1. CASE p.pending = Nothing
    BY <2>1, FS_EmptySet
  <2>2. CASE p.pending # Nothing
    <3> DEFINE x == p.pending.request.generation
    <3>1. mine = {x}
      BY <2>2
    <3> HIDE DEF x, mine
    <3>2. IsFiniteSet(mine) /\ Cardinality(mine) = 1
      BY <3>1, FS_Singleton, Zenon
    <3>3. QED
      BY <3>2
  <2>3. QED
    BY <2>1, <2>2
<1> HIDE DEF used, mine
<1>4. IsFiniteSet(used \cup mine) /\ Cardinality(used \cup mine) <= MaxDecodes + 1
  <2>1. /\ IsFiniteSet(used \cup mine)
        /\ Cardinality(used \cup mine)
             = Cardinality(used) + Cardinality(mine) - Cardinality(used \cap mine)
    BY <1>2, <1>3, FS_Union
  <2>2. IsFiniteSet(used \cap mine)
    BY <1>2, FS_Intersection
  <2>3. Cardinality(used \cap mine) \in Nat /\ Cardinality(used) \in Nat
        /\ Cardinality(mine) \in Nat /\ Cardinality(v8) \in Nat
    BY <1>1, <1>2, <1>3, <2>2, FS_CardinalityType
  <2>4. QED
    BY <1>1, <1>2, <1>3, <2>1, <2>3
<1>5. Images!Generation = 1 .. MaxDecodes + 2
  BY DEF Images!Generation
<1>6. IsFiniteSet(1 .. MaxDecodes + 2) /\ Cardinality(1 .. MaxDecodes + 2) = MaxDecodes + 2
  <2>1. 1 \in Int /\ MaxDecodes + 2 \in Int /\ ~(1 > MaxDecodes + 2)
    BY <1>1
  <2>2. QED
    BY <1>1, <2>1, FS_Interval
<1>7. ~(1 .. MaxDecodes + 2 \subseteq used \cup mine)
  <2>1. SUFFICES ASSUME 1 .. MaxDecodes + 2 \subseteq used \cup mine
                 PROVE  FALSE
    OBVIOUS
  <2>2. Cardinality(1 .. MaxDecodes + 2) <= Cardinality(used \cup mine)
    BY <1>4, <2>1, FS_Subset
  <2>3. Cardinality(used \cup mine) \in Nat
    BY <1>4, FS_CardinalityType
  <2>4. QED
    BY <1>1, <1>4, <1>6, <2>2, <2>3
<1>8. PICK g \in Images!Generation : g \notin used /\ g \notin mine
  BY <1>5, <1>7
<1>9. /\ p.pending # Nothing => g # p.pending.request.generation
      /\ \A r \in v8 : g # r.generation
  BY <1>8 DEF used, mine
<1>10. QED
  BY <1>8, <1>9 DEF Images!next_generation

\* A new request is a pending one, of the image it is made for.
LEMMA PendingDecodeType ==
    ASSUME ImagesInv, NEW p, PlaybackInv(p), NEW image \in Pictures,
           NEW started \in 0 .. DissolveSeconds + 1
    PROVE  /\ Images!PendingDecode(p, image, started) \in Images!Pending
           /\ Images!PendingDecode(p, image, started).request.image = image
<1> DEFINE g == Images!next_generation(p)
<1>1. g \in Images!Generation
  <2>1. p.pending # Nothing => p.pending \in Images!Pending
    BY DEF PlaybackInv, Playbacks
  <2>2. QED
    BY <2>1, GenerationExists
<1> HIDE DEF g
<1>2. Images!PendingDecode(p, image, started)
        = [request |-> [generation |-> g, image |-> image],
           started |-> started, dispatched |-> FALSE]
  BY DEF g, Images!PendingDecode
<1>3. QED
  BY <1>1, <1>2 DEF Images!Pending, Images!Request, Images!NotTimed

\* What a playback shows is a frame, or nothing.
LEMMA FrameType ==
    ASSUME NEW p, PlaybackInv(p)
    PROVE  Images!frame(p) \in Images!Frame \cup {Nothing}
<1>1. CASE p.transition = Nothing
  BY <1>1 DEF PlaybackInv, Playbacks, Images!frame
<1>2. CASE p.transition # Nothing
  <2>1. p.transition \in Images!Transition
    BY <1>2 DEF PlaybackInv, Playbacks
  <2>2. QED
    BY <1>2, <2>1 DEF Images!frame, Images!Frame, Images!Transition
<1>3. QED
  BY <1>1, <1>2

\* An interrupted dissolve leaves the frame as it was (Interrupted).
LEMMA InterruptedInv ==
    ASSUME NEW p, PlaybackInv(p)
    PROVE  LET q == Images!Interrupted(p) IN
           /\ q \in Playbacks /\ q.transition = Nothing
           /\ Images!frame(q) = Images!frame(p)
           /\ q.presented_image # Nothing => q.presented = Images!Full(q.presented_image)
<1>1. Images!frame(p) \in Images!Frame \cup {Nothing}
  BY FrameType
<1>2. p \in Playbacks
  BY DEF PlaybackInv
<1>3. CASE p.transition = Nothing
  <2>1. Images!Interrupted(p) = p
    BY <1>3 DEF Images!Interrupted
  <2>2. QED
    BY <1>2, <1>3, <2>1 DEF PlaybackInv
<1>4. CASE p.transition # Nothing
  <2> DEFINE f == Images!frame(p)
             q == [p EXCEPT !.presented = f, !.presented_image = Nothing, !.transition = Nothing]
  <2>1. Images!Interrupted(p) = q
    BY <1>4 DEF Images!Interrupted
  <2> HIDE DEF f
  <2>2. q \in Playbacks /\ q.transition = Nothing /\ q.presented = f /\ q.presented_image = Nothing
    BY <1>1, <1>2 DEF f, Playbacks
  <2> HIDE DEF q
  <2>3. Images!frame(q) = f
    BY <2>2 DEF Images!frame
  <2>4. QED
    BY <2>1, <2>2, <2>3 DEF f
<1>5. QED
  BY <1>3, <1>4

\* An image in full is a frame.
LEMMA FullType ==
    ASSUME NEW i \in Pictures
    PROVE  Images!Full(i) \in Images!Frame
BY ImagesNumbers DEF Images!Full, Images!Frame

\* A dissolve that is cut short ends with the selected image in full (Snapped).
LEMMA SnappedInv ==
    ASSUME NEW p, PlaybackInv(p)
    PROVE  LET q == Images!Snapped(p) IN
           /\ PlaybackInv(q) /\ q.transition = Nothing
           /\ q.selected = p.selected /\ q.mode = p.mode
           /\ p.transition = Nothing => q = p
           /\ p.transition # Nothing => Images!frame(q) = Images!Full(p.selected)
<1>1. p \in Playbacks
  BY DEF PlaybackInv
<1>2. CASE p.transition = Nothing
  BY <1>2 DEF Images!Snapped
<1>3. CASE p.transition # Nothing
  <2> DEFINE i == p.selected
             f == Images!Full(i)
             q == [p EXCEPT !.presented = f, !.presented_image = i, !.transition = Nothing]
  <2>1. p.transition.to = i /\ p.pending = Nothing
    BY <1>3 DEF PlaybackInv
  <2>2. Images!Snapped(p) = q
    BY <1>3, <2>1 DEF Images!Snapped
  <2>3. i \in Pictures
    BY <1>1 DEF Playbacks
  <2>4. f \in Images!Frame
    BY <2>3, FullType
  <2> HIDE DEF f
  <2>5. q \in Playbacks /\ q.transition = Nothing /\ q.presented = f /\ q.presented_image = i
        /\ q.pending = Nothing /\ q.selected = i /\ q.mode = p.mode
    BY <1>1, <2>1, <2>3, <2>4 DEF Playbacks
  <2> HIDE DEF q
  <2>6. PlaybackInv(q)
    BY <2>5 DEF PlaybackInv, f
  <2>7. Images!frame(q) = f
    BY <2>5 DEF Images!frame
  <2>8. QED
    BY <1>3, <2>2, <2>5, <2>6, <2>7 DEF f
<1>4. QED
  BY <1>2, <1>3

\* When a dissolve starts, or that it has no start.
LEMMA StartedType ==
    ASSUME ImagesInv, NEW p, PlaybackInv(p)
    PROVE  Images!Started(p) \in 0 .. DissolveSeconds + 1
<1> DEFINE e == Images!Elapsed[p.mode][v3]
<1>1. e \in Nat
  BY ScheduleTypes DEF ImagesInv, PlaybackInv, Playbacks
<1>2. Images!Started(p) = DissolveSeconds + 1 \/ (Images!Started(p) = e /\ ~(e >= DissolveSeconds))
  BY DEF Images!Started, Images!NotTimed
<1> HIDE DEF e
<1>3. QED
  BY <1>1, <1>2, ImagesNumbers

\* A synchronize selects another image and asks for it, ends a dissolve at once, asks for the
\* selected image, or leaves the playback alone.
LEMMA SynchronizeForms ==
    ASSUME ImagesInv, NEW p, PlaybackInv(p)
    PROVE  LET q == Images!synchronize(p) IN
           \/ \E s \in Pictures, x \in Images!Pending :
                /\ s # p.selected /\ x.request.image = s
                /\ q = [[Images!Interrupted(p) EXCEPT !.pending = x, !.retry = 0]
                           EXCEPT !.selected = s]
           \/ q = Images!Snapped(p)
           \/ \E x \in Images!Pending, r \in {0, p.retry} :
                /\ p.transition = Nothing /\ x.request.image = p.selected
                /\ q = [p EXCEPT !.pending = x, !.retry = r]
           \/ q = p
<1> DEFINE q == Images!synchronize(p)
           s == IF p.mode = "Static" THEN p.selected ELSE Images!Selection[p.mode][v3]
           z == Images!Snapped(p)
           first == Images!PendingDecode(p, s, Images!Started(p))
           late == Images!PendingDecode(p, s, Images!NotTimed)
           missing(r) == r.pending = Nothing /\ r.presented_image # s /\ r.retry = 0
<1>1. p \in Playbacks /\ p.mode \in Images!Modes /\ p.selected \in Pictures
      /\ v3 \in 0 .. DaySeconds - 1
  BY DEF PlaybackInv, Playbacks, ImagesInv
<1>2. s \in Pictures
  BY <1>1, ScheduleTypes
<1>3. Images!NotTimed = DissolveSeconds + 1 /\ Images!NotTimed \in 0 .. DissolveSeconds + 1
  BY ImagesNumbers DEF Images!NotTimed
<1>4. Images!Started(p) \in 0 .. DissolveSeconds + 1
  BY StartedType
<1> HIDE DEF s
<1>5. first \in Images!Pending /\ first.request.image = s
  BY <1>2, <1>4, PendingDecodeType
<1>6. late \in Images!Pending /\ late.request.image = s
  BY <1>2, <1>3, PendingDecodeType
<1>7. q = IF s # p.selected
          THEN [[Images!Interrupted(p) EXCEPT
                    !.pending = Images!PendingDecode(p, s, IF Images!Discontinuity
                                                            THEN Images!NotTimed
                                                            ELSE Images!Started(p)),
                    !.retry = 0] EXCEPT !.selected = s]
          ELSE IF Images!Discontinuity
          THEN IF z.pending # Nothing /\ z.pending.request.image = s
               THEN [z EXCEPT !.pending = late]
               ELSE IF missing(z) THEN [z EXCEPT !.pending = late, !.retry = 0] ELSE z
          ELSE IF p.transition = Nothing /\ missing(p)
          THEN [p EXCEPT !.pending = first, !.retry = 0] ELSE p
  BY DEF s, Images!synchronize, Images!retry_due
<1>8. /\ p.transition = Nothing => z = p
      /\ p.transition # Nothing => z.pending = Nothing /\ z.presented_image = p.selected
  <2>1. CASE p.transition = Nothing
    BY <2>1 DEF Images!Snapped
  <2>2. CASE p.transition # Nothing
    BY <1>1, <2>2 DEF Images!Snapped, PlaybackInv, Playbacks
  <2>3. QED
    BY <2>1, <2>2
<1> HIDE DEF z, q, first, late
<1>9. CASE s # p.selected
  <2> DEFINE x == Images!PendingDecode(p, s, IF Images!Discontinuity THEN Images!NotTimed
                                              ELSE Images!Started(p))
  <2>1. x = first \/ x = late
    BY DEF first, late
  <2>2. q = [[Images!Interrupted(p) EXCEPT !.pending = x, !.retry = 0] EXCEPT !.selected = s]
    BY <1>7, <1>9
  <2> HIDE DEF x
  <2>3. x \in Images!Pending /\ x.request.image = s
    BY <1>5, <1>6, <2>1
  <2>4. QED
    BY <1>2, <1>9, <2>2, <2>3 DEF q
<1>10. CASE s = p.selected
  <2>1. CASE q = z
    BY <2>1 DEF q, z
  <2>2. CASE q = p
    BY <2>2 DEF q
  <2>3. CASE q # z /\ q # p
    <3>1. \/ z.pending # Nothing /\ q = [z EXCEPT !.pending = late]
          \/ missing(z) /\ q = [z EXCEPT !.pending = late, !.retry = 0]
          \/ p.transition = Nothing /\ q = [p EXCEPT !.pending = first, !.retry = 0]
      BY <1>7, <1>10, <2>3
    <3>2. p.transition = Nothing
      BY <1>8, <1>10, <3>1
    <3>3. z = p
      BY <1>8, <3>2
    <3>4. \/ q = [p EXCEPT !.pending = late]
          \/ q = [p EXCEPT !.pending = late, !.retry = 0]
          \/ q = [p EXCEPT !.pending = first, !.retry = 0]
      BY <3>1, <3>3
    <3>5. [p EXCEPT !.pending = late] = [p EXCEPT !.pending = late, !.retry = p.retry]
      BY <1>1 DEF Playbacks
    <3>6. \E x \in Images!Pending, r \in {0, p.retry} :
             x.request.image = p.selected /\ q = [p EXCEPT !.pending = x, !.retry = r]
      BY <1>5, <1>6, <1>10, <3>4, <3>5
    <3>7. QED
      BY <3>2, <3>6 DEF q
  <2>4. QED
    BY <2>1, <2>2, <2>3
<1>11. QED
  BY <1>9, <1>10

\* A synchronize keeps the invariant, and the frame unless it ends a dissolve at once.
LEMMA SynchronizeInv ==
    ASSUME ImagesInv, NEW p, PlaybackInv(p)
    PROVE  LET q == Images!synchronize(p) IN
           /\ PlaybackInv(q)
           /\ Images!Snaps(p, q) => /\ p.transition # Nothing /\ q.selected = p.selected
                                     /\ Images!frame(q) = Images!Full(q.selected)
           /\ ~Images!Snaps(p, q) => Images!frame(q) = Images!frame(p)
<1> DEFINE q == Images!synchronize(p)
<1>1. p \in Playbacks
  BY DEF PlaybackInv
<1>2. \/ \E s \in Pictures, x \in Images!Pending :
           /\ s # p.selected /\ x.request.image = s
           /\ q = [[Images!Interrupted(p) EXCEPT !.pending = x, !.retry = 0]
                      EXCEPT !.selected = s]
      \/ q = Images!Snapped(p)
      \/ \E x \in Images!Pending, r \in {0, p.retry} :
           /\ p.transition = Nothing /\ x.request.image = p.selected
           /\ q = [p EXCEPT !.pending = x, !.retry = r]
      \/ q = p
  BY SynchronizeForms
<1> HIDE DEF q
<1>3. SUFFICES /\ PlaybackInv(q)
               /\ Images!Snaps(p, q) => Images!frame(q) = Images!Full(q.selected)
               /\ ~Images!Snaps(p, q) => Images!frame(q) = Images!frame(p)
  BY DEF q, Images!Snaps
<1>4. CASE \E s \in Pictures, x \in Images!Pending :
             /\ s # p.selected /\ x.request.image = s
             /\ q = [[Images!Interrupted(p) EXCEPT !.pending = x, !.retry = 0]
                        EXCEPT !.selected = s]
  <2> DEFINE i == Images!Interrupted(p)
  <2>1. PICK s \in Pictures, x \in Images!Pending :
             /\ s # p.selected /\ x.request.image = s
             /\ q = [[i EXCEPT !.pending = x, !.retry = 0] EXCEPT !.selected = s]
    BY <1>4
  <2>2. /\ i \in Playbacks /\ i.transition = Nothing /\ Images!frame(i) = Images!frame(p)
        /\ i.presented_image # Nothing => i.presented = Images!Full(i.presented_image)
    BY InterruptedInv
  <2> HIDE DEF i
  <2>3. /\ q \in Playbacks /\ q.transition = Nothing /\ q.pending = x /\ q.selected = s
        /\ q.presented = i.presented /\ q.presented_image = i.presented_image
    <3> DEFINE j == [i EXCEPT !.pending = x, !.retry = 0]
    <3>1. /\ j \in Playbacks /\ j.transition = Nothing /\ j.pending = x
          /\ j.presented = i.presented /\ j.presented_image = i.presented_image
      <4>1. 0 \in 0 .. RetrySeconds
        BY ImagesNumbers
      <4>2. i \in Playbacks /\ x \in Images!Pending
        BY <2>1, <2>2
      <4>3. j \in Playbacks
        BY <4>1, <4>2 DEF Playbacks
      <4>4. QED
        BY <2>2, <4>3 DEF Playbacks
    <3>2. q = [j EXCEPT !.selected = s]
      BY <2>1
    <3> HIDE DEF j
    <3>3. QED
      BY <3>1, <3>2 DEF Playbacks
  <2>4. PlaybackInv(q)
    BY <2>1, <2>2, <2>3 DEF PlaybackInv
  <2>5. ~Images!Snaps(p, q)
    BY <2>1, <2>3 DEF Images!Snaps
  <2>6. Images!frame(q) = Images!frame(p)
    BY <2>2, <2>3 DEF Images!frame
  <2>7. QED
    BY <2>4, <2>5, <2>6
<1>5. CASE q = Images!Snapped(p) /\ p.transition # Nothing
  <2>1. /\ PlaybackInv(q) /\ q.transition = Nothing /\ q.selected = p.selected
        /\ Images!frame(q) = Images!Full(p.selected)
    BY <1>5, SnappedInv
  <2>2. QED
    BY <1>5, <2>1 DEF Images!Snaps
<1>6. CASE q = p
  BY <1>6 DEF Images!Snaps
<1>7. CASE q = Images!Snapped(p) /\ p.transition = Nothing
  <2>1. q = p
    BY <1>7, SnappedInv
  <2>2. QED
    BY <1>6, <2>1
<1>8. CASE \E x \in Images!Pending, r \in {0, p.retry} :
             /\ p.transition = Nothing /\ x.request.image = p.selected
             /\ q = [p EXCEPT !.pending = x, !.retry = r]
  <2>1. PICK x \in Images!Pending, r \in {0, p.retry} :
             /\ p.transition = Nothing /\ x.request.image = p.selected
             /\ q = [p EXCEPT !.pending = x, !.retry = r]
    BY <1>8
  <2>2. r \in 0 .. RetrySeconds
    BY <1>1, ImagesNumbers DEF Playbacks
  <2>3. /\ q \in Playbacks /\ q.transition = Nothing /\ q.pending = x
        /\ q.selected = p.selected
        /\ q.presented = p.presented /\ q.presented_image = p.presented_image
    BY <1>1, <2>1, <2>2 DEF Playbacks
  <2>4. PlaybackInv(q)
    BY <2>1, <2>3 DEF PlaybackInv
  <2>5. Images!frame(q) = Images!frame(p)
    BY <2>1, <2>3 DEF Images!frame
  <2>6. QED
    BY <2>1, <2>4, <2>5 DEF Images!Snaps
<1>9. QED
  BY <1>2, <1>4, <1>5, <1>6, <1>7, <1>8

\* A dissolve that advances shows the selected image (advance_transition).
LEMMA AdvanceInv ==
    ASSUME NEW p, PlaybackInv(p)
    PROVE  LET q == Images!advance_transition(p) IN
           /\ PlaybackInv(q) /\ q.selected = p.selected
           /\ p.transition = Nothing => q = p
           /\ p.transition # Nothing =>
                /\ Images!frame(q) \in Images!Frame /\ Images!frame(q).image = p.selected
<1> DEFINE q == Images!advance_transition(p)
<1>1. p \in Playbacks /\ p.selected \in Pictures
  BY DEF PlaybackInv, Playbacks
<1>2. CASE p.transition = Nothing
  BY <1>2 DEF Images!advance_transition
<1>3. CASE p.transition # Nothing /\ p.transition.started >= DissolveSeconds
  <2>1. q = Images!Snapped(p)
    BY <1>3 DEF Images!advance_transition
  <2>2. /\ PlaybackInv(q) /\ q.selected = p.selected
        /\ Images!frame(q) = Images!Full(p.selected)
    BY <1>3, <2>1, SnappedInv
  <2>3. Images!Full(p.selected) \in Images!Frame /\ Images!Full(p.selected).image = p.selected
    BY <1>1, FullType DEF Images!Full
  <2>4. QED
    BY <1>3, <2>2, <2>3
<1>4. CASE p.transition # Nothing /\ ~(p.transition.started >= DissolveSeconds)
  <2> DEFINE t == [to |-> p.selected, started |-> p.transition.started,
                   weight |-> p.transition.started]
  <2>1. p.transition \in Images!Transition /\ p.transition.to = p.selected
        /\ p.pending = Nothing /\ p.presented = Nothing /\ p.presented_image = Nothing
    BY <1>4 DEF PlaybackInv, Playbacks
  <2>2. [p.transition EXCEPT !.weight = p.transition.started] = t
    BY <2>1 DEF Images!Transition
  <2>3. q = [p EXCEPT !.transition = t]
    BY <1>1, <1>4, <2>2 DEF Images!advance_transition, Playbacks
  <2>4. t \in Images!Transition /\ t # Nothing /\ t.to = p.selected
    BY <1>1, <2>1, ImagesNumbers DEF Images!Transition
  <2>5. [image |-> t.to, weight |-> t.weight] \in Images!Frame
    BY <2>4 DEF Images!Transition, Images!Frame
  <2> HIDE DEF t, q
  <2>6. /\ q \in Playbacks /\ q.transition = t /\ q.selected = p.selected
        /\ q.pending = Nothing /\ q.presented = Nothing /\ q.presented_image = Nothing
    BY <1>1, <2>1, <2>3, <2>4 DEF Playbacks
  <2>7. PlaybackInv(q)
    BY <2>4, <2>6 DEF PlaybackInv
  <2>8. Images!frame(q) = [image |-> t.to, weight |-> t.weight]
    BY <2>4, <2>6 DEF Images!frame
  <2>9. QED
    BY <1>4, <2>4, <2>5, <2>6, <2>7, <2>8 DEF q
<1>5. QED
  BY <1>2, <1>3, <1>4

\* A failed decode keeps the frame; a decoded image comes on screen, alone or dissolving in.
LEMMA CompleteInv ==
    ASSUME ImagesInv, NEW p, PlaybackInv(p), NEW request, NEW decoded \in BOOLEAN,
           NEW blended \in BOOLEAN, Images!Matches(p, request)
    PROVE  LET q == Images!complete_decode(p, request, decoded, blended) IN
           /\ PlaybackInv(q) /\ q.selected = p.selected
           /\ ~decoded => Images!frame(q) = Images!frame(p)
           /\ decoded => /\ Images!frame(q).image = request.image
                         /\ \/ request.image = p.selected
                            \/ Images!frame(p) = Nothing /\ request.image = PrimaryPicture
<1> DEFINE q == Images!complete_decode(p, request, decoded, blended)
           taken == [p EXCEPT !.pending = Nothing]
           r == IF request.image = p.selected THEN 0 ELSE p.retry
           settled == [taken EXCEPT !.retry = r]
<1>1. /\ p \in Playbacks /\ p.pending \in Images!Pending /\ p.pending.request = request
      /\ p.selected \in Pictures /\ p.pending # Nothing
  BY DEF PlaybackInv, Playbacks, Images!Matches
<1>2. request.image \in Pictures /\ p.pending.started \in 0 .. DissolveSeconds + 1
  BY <1>1 DEF Images!Pending, Images!Request, Images!NotTimed
<1>3. p.transition = Nothing
  BY <1>1 DEF PlaybackInv
<1>4. \/ request.image = p.selected
      \/ Images!frame(p) = Nothing /\ request.image = PrimaryPicture
  BY <1>1, <1>3 DEF PlaybackInv, Images!frame
<1>5. /\ taken \in Playbacks /\ taken.transition = Nothing /\ taken.pending = Nothing
      /\ taken.presented = p.presented /\ taken.presented_image = p.presented_image
      /\ taken.selected = p.selected /\ taken.retry = p.retry
  BY <1>1, <1>3 DEF Playbacks
<1>6. r \in 0 .. RetrySeconds
  BY <1>1, ImagesNumbers DEF Playbacks
<1>7. q = IF ~decoded
          THEN Images!queue_primary_fallback([taken EXCEPT !.retry = RetrySeconds], request.image)
          ELSE IF p.presented = Nothing \/ p.pending.started >= DissolveSeconds \/ ~blended
          THEN [settled EXCEPT !.transition = Nothing, !.presented = Images!Full(request.image),
                               !.presented_image = request.image]
          ELSE Images!advance_transition(
                 [settled EXCEPT !.presented = Nothing, !.presented_image = Nothing,
                                 !.transition = [to |-> request.image, weight |-> 0,
                                                 started |-> p.pending.started]])
  <2>1. taken.retry = p.retry
    BY <1>5
  <2>2. QED
    BY <2>1 DEF Images!complete_decode
<1> HIDE DEF taken, r
<1>8. /\ settled \in Playbacks /\ settled.transition = Nothing /\ settled.pending = Nothing
      /\ settled.presented = p.presented /\ settled.presented_image = p.presented_image
      /\ settled.selected = p.selected
  BY <1>5, <1>6 DEF Playbacks
<1> HIDE DEF settled
<1>9. CASE ~decoded
  <2> DEFINE w == [taken EXCEPT !.retry = RetrySeconds]
             x == Images!PendingDecode(w, PrimaryPicture, Images!NotTimed)
  <2>1. /\ w \in Playbacks /\ w.transition = Nothing /\ w.pending = Nothing
        /\ w.presented = p.presented /\ w.presented_image = p.presented_image
        /\ w.selected = p.selected
    BY <1>5, ImagesNumbers DEF Playbacks
  <2>2. q = Images!queue_primary_fallback(w, request.image)
    BY <1>7, <1>9
  <2> HIDE DEF w
  <2>3. PlaybackInv(w)
    BY <1>3, <2>1 DEF PlaybackInv
  <2>4. Images!NotTimed \in 0 .. DissolveSeconds + 1
    BY ImagesNumbers DEF Images!NotTimed
  <2>5. x \in Images!Pending /\ x.request.image = PrimaryPicture
    BY <2>3, <2>4, PendingDecodeType, ImagesNumbers
  <2>6. CASE q = w
    <3>1. Images!frame(q) = Images!frame(p)
      BY <1>3, <2>1, <2>6 DEF Images!frame
    <3>2. PlaybackInv(q) /\ q.selected = p.selected
      BY <2>1, <2>3, <2>6
    <3> HIDE DEF q
    <3>3. QED
      BY <1>9, <3>1, <3>2 DEF q
  <2>7. CASE q # w
    <3>1. q = [w EXCEPT !.pending = x] /\ w.presented = Nothing
      BY <2>2, <2>7 DEF Images!queue_primary_fallback
    <3> HIDE DEF x, q
    <3>2. /\ q \in Playbacks /\ q.transition = Nothing /\ q.pending = x
          /\ q.presented = Nothing /\ q.presented_image = p.presented_image
          /\ q.selected = p.selected
      BY <2>1, <2>5, <3>1 DEF Playbacks
    <3>3. PlaybackInv(q)
      BY <1>3, <2>1, <2>5, <3>1, <3>2 DEF PlaybackInv
    <3>4. Images!frame(q) = Images!frame(p)
      BY <1>3, <2>1, <3>1, <3>2 DEF Images!frame
    <3>5. QED
      BY <1>9, <3>2, <3>3, <3>4 DEF q
  <2>8. QED
    BY <2>6, <2>7
<1>10. CASE decoded /\ (p.presented = Nothing \/ p.pending.started >= DissolveSeconds \/ ~blended)
  <2> DEFINE f == Images!Full(request.image)
  <2>1. q = [settled EXCEPT !.transition = Nothing, !.presented = f,
                            !.presented_image = request.image]
    BY <1>7, <1>10
  <2>2. f \in Images!Frame /\ f.image = request.image
    BY <1>2, FullType DEF Images!Full
  <2> HIDE DEF f, q
  <2>3. /\ q \in Playbacks /\ q.transition = Nothing /\ q.pending = Nothing
        /\ q.presented = f /\ q.presented_image = request.image /\ q.selected = p.selected
    BY <1>2, <1>8, <2>1, <2>2 DEF Playbacks
  <2>4. PlaybackInv(q)
    BY <2>3 DEF PlaybackInv, f
  <2>5. Images!frame(q) = f
    BY <2>3 DEF Images!frame
  <2>6. QED
    BY <1>4, <1>10, <2>2, <2>3, <2>4, <2>5 DEF q
<1>11. CASE decoded /\ ~(p.presented = Nothing \/ p.pending.started >= DissolveSeconds \/ ~blended)
  <2> DEFINE t == [to |-> request.image, weight |-> 0, started |-> p.pending.started]
             w == [settled EXCEPT !.presented = Nothing, !.presented_image = Nothing,
                                  !.transition = t]
  <2>1. q = Images!advance_transition(w)
    BY <1>7, <1>11
  <2>2. p.pending.started \in 0 .. DissolveSeconds
    BY <1>2, <1>11, ImagesNumbers
  <2>3. t \in Images!Transition /\ t # Nothing /\ t.to = request.image
    BY <1>2, <2>2, ImagesNumbers DEF Images!Transition
  <2> HIDE DEF t
  <2>4. /\ w \in Playbacks /\ w.transition = t /\ w.pending = Nothing /\ w.presented = Nothing
        /\ w.presented_image = Nothing /\ w.selected = p.selected
    BY <1>8, <2>3 DEF Playbacks
  <2> HIDE DEF w
  <2>5. Images!frame(p) = p.presented /\ p.presented # Nothing
    BY <1>3, <1>11 DEF Images!frame
  <2>6. request.image = p.selected
    BY <1>4, <2>5
  <2>7. PlaybackInv(w)
    BY <2>3, <2>4, <2>6 DEF PlaybackInv
  <2>8. /\ PlaybackInv(q) /\ q.selected = w.selected
        /\ Images!frame(q) \in Images!Frame /\ Images!frame(q).image = w.selected
    BY <2>1, <2>3, <2>4, <2>7, AdvanceInv
  <2> HIDE DEF q
  <2>9. QED
    BY <1>4, <1>11, <2>4, <2>6, <2>8 DEF q
<1>12. QED
  BY <1>9, <1>10, <1>11

\* The action property of a step, of the frames before and after it.
Appears(f, g, selected) ==
    g # f /\ (f = Nothing \/ g.image # f.image) =>
        g.image = selected \/ (f = Nothing /\ g.image = PrimaryPicture)

ImagesStepDone == ImagesInv' /\ Images!OnlySelectedAppears

\* What is to be shown of a step.
LEMMA ImagesStepBy ==
    ASSUME ImagesInv, PlaybackInv(v1'),
           /\ v2' \in BOOLEAN /\ v5' \in BOOLEAN
           /\ v3' \in 0 .. DaySeconds - 1 /\ v6' \in 0 .. DissolveSeconds
           /\ v4' \in -(ClockTolerance + 1) .. (ClockTolerance + 1) /\ v7' \in 0 .. MaxClockJumps
           /\ v8' \in SUBSET Images!Request /\ IsFiniteSet(v8') /\ Cardinality(v8') <= MaxDecodes,
           v9' = Images!frame(v1'),
           Appears(Images!frame(v1), Images!frame(v1'), v1'.selected)
    PROVE  ImagesStepDone
<1>1. ImagesInv'
  BY DEF ImagesInv, PlaybackInv, Playbacks, Images!frame, Images!Full, Images!Modes, Images!Pending, Images!Frame, Images!Transition, Images!Request, Images!Generation, Images!NotTimed
<1>2. Images!OnlySelectedAppears
  BY DEF Images!OnlySelectedAppears, Appears
<1>3. QED
  BY <1>1, <1>2 DEF ImagesStepDone

\* A synchronize takes note of the clock and keeps the rest of it.
LEMMA ClockKept ==
    ASSUME ImagesInv, UNCHANGED <<v3, v6, v7>>, v4' = 0, v5' = FALSE, v2' = v2
    PROVE  /\ v2' \in BOOLEAN /\ v5' \in BOOLEAN
           /\ v3' \in 0 .. DaySeconds - 1 /\ v6' \in 0 .. DissolveSeconds
           /\ v4' \in -(ClockTolerance + 1) .. (ClockTolerance + 1) /\ v7' \in 0 .. MaxClockJumps
<1>1. /\ v2 \in BOOLEAN /\ v3 \in 0 .. DaySeconds - 1 /\ v6 \in 0 .. DissolveSeconds
      /\ v7 \in 0 .. MaxClockJumps
  BY DEF ImagesInv
<1>2. 0 \in -(ClockTolerance + 1) .. (ClockTolerance + 1)
  BY ImagesNumbers
<1>3. QED
  BY <1>1, <1>2

\* The timer's synchronize.
LEMMA SynchronizeStep ==
    ASSUME ImagesInv, Images!Synchronize
    PROVE  ImagesStepDone
<1> DEFINE p == Images!synchronize(v1)
<1>1. /\ v1' = p /\ v9' = IF Images!Snaps(v1, p) THEN Images!frame(p) ELSE v9
      /\ v4' = 0 /\ v5' = FALSE /\ UNCHANGED <<v3, v6, v7>> /\ v2' = v2 /\ v8' = v8
  BY DEF Images!Synchronize, Images!Publish, Images!Synchronized
<1>2. PlaybackInv(v1) /\ v9 = Images!frame(v1) /\ v8 \in SUBSET Images!Request /\ IsFiniteSet(v8)
      /\ Cardinality(v8) <= MaxDecodes
  BY DEF ImagesInv
<1>3. /\ PlaybackInv(p)
      /\ Images!Snaps(v1, p) => Images!frame(p) = Images!Full(p.selected)
      /\ ~Images!Snaps(v1, p) => Images!frame(p) = Images!frame(v1)
  BY <1>2, SynchronizeInv
<1> HIDE DEF p
<1>4. v9' = Images!frame(v1')
  BY <1>1, <1>2, <1>3
<1>5. Appears(Images!frame(v1), Images!frame(p), p.selected)
  BY <1>3 DEF Appears, Images!Full
<1>6. QED
  BY <1>1, <1>2, <1>3, <1>4, <1>5, ClockKept, ImagesStepBy

\* A step of a dissolve.
LEMMA AdvanceStep ==
    ASSUME ImagesInv, Images!Advance
    PROVE  ImagesStepDone
<1> DEFINE p == Images!advance_transition(v1)
<1>1. /\ v1.transition # Nothing /\ v1' = p /\ v9' = Images!frame(p)
      /\ UNCHANGED <<v2, v3, v4, v5, v6, v7, v8>>
  BY DEF Images!Advance, Images!Publish, Images!clockVars
<1>2. PlaybackInv(v1)
  BY DEF ImagesInv
<1>3. PlaybackInv(p) /\ p.selected = v1.selected /\ Images!frame(p).image = v1.selected
  BY <1>1, <1>2, AdvanceInv
<1> HIDE DEF p
<1>4. Appears(Images!frame(v1), Images!frame(v1'), v1'.selected)
  BY <1>1, <1>3 DEF Appears
<1>5. PlaybackInv(v1') /\ v9' = Images!frame(v1')
  BY <1>1, <1>3
<1>6. /\ v2' \in BOOLEAN /\ v5' \in BOOLEAN
      /\ v3' \in 0 .. DaySeconds - 1 /\ v6' \in 0 .. DissolveSeconds
      /\ v4' \in -(ClockTolerance + 1) .. (ClockTolerance + 1) /\ v7' \in 0 .. MaxClockJumps
      /\ v8' \in SUBSET Images!Request /\ IsFiniteSet(v8') /\ Cardinality(v8') <= MaxDecodes
  BY <1>1 DEF ImagesInv
<1>7. QED
  BY <1>4, <1>5, <1>6, ImagesStepBy

\* A request that is given to the decoder.
LEMMA TakeStep ==
    ASSUME ImagesInv, Images!TakeDecodeRequest
    PROVE  ImagesStepDone
<1> DEFINE x == [v1.pending EXCEPT !.dispatched = TRUE]
           w == v1.pending.request
<1>1. /\ v1.pending # Nothing /\ Images!Cardinality(v8) < MaxDecodes
      /\ v1' = [v1 EXCEPT !.pending = x]
      /\ v8' = v8 \cup {w} /\ UNCHANGED <<v2, v3, v4, v5, v6, v7, v9>>
  BY DEF Images!TakeDecodeRequest, Images!clockVars
<1>2. Images!Cardinality(v8) = Cardinality(v8)
  BY Zenon DEF Images!Cardinality, Cardinality
<1>3. PlaybackInv(v1) /\ v1 \in Playbacks /\ v1.pending \in Images!Pending
  BY <1>1 DEF ImagesInv, PlaybackInv, Playbacks
<1>4. x \in Images!Pending /\ x.request = w /\ w \in Images!Request
  BY <1>3 DEF Images!Pending
<1> HIDE DEF x, w
<1>5. /\ v1' \in Playbacks /\ v1'.pending = x /\ v1'.selected = v1.selected
      /\ v1'.presented = v1.presented /\ v1'.presented_image = v1.presented_image
      /\ v1'.transition = v1.transition
  BY <1>1, <1>3, <1>4 DEF Playbacks
<1>6. PlaybackInv(v1')
  BY <1>1, <1>3, <1>4, <1>5 DEF PlaybackInv, w
<1>7. Images!frame(v1') = Images!frame(v1)
  BY <1>5 DEF Images!frame
<1>8. v9' = Images!frame(v1') /\ Appears(Images!frame(v1), Images!frame(v1'), v1'.selected)
  BY <1>1, <1>7 DEF ImagesInv, Appears
<1>9. v8 \in SUBSET Images!Request /\ IsFiniteSet(v8) /\ Cardinality(v8) < MaxDecodes
  BY <1>1, <1>2 DEF ImagesInv
<1>10. v8' \in SUBSET Images!Request /\ IsFiniteSet(v8') /\ Cardinality(v8') <= MaxDecodes
  <2>1. IsFiniteSet(v8') /\ (Cardinality(v8') = Cardinality(v8) \/ Cardinality(v8') = Cardinality(v8) + 1)
    BY <1>1, <1>9, FS_AddElement
  <2>2. Cardinality(v8) \in Nat /\ MaxDecodes \in Nat
    BY <1>9, FS_CardinalityType, ImagesNumbers
  <2>3. v8' \in SUBSET Images!Request
    BY <1>1, <1>4, <1>9
  <2>4. Cardinality(v8') <= MaxDecodes
    BY <1>9, <2>1, <2>2
  <2>5. QED
    BY <2>1, <2>3, <2>4
<1>11. /\ v2' \in BOOLEAN /\ v5' \in BOOLEAN
       /\ v3' \in 0 .. DaySeconds - 1 /\ v6' \in 0 .. DissolveSeconds
       /\ v4' \in -(ClockTolerance + 1) .. (ClockTolerance + 1) /\ v7' \in 0 .. MaxClockJumps
  BY <1>1 DEF ImagesInv
<1>12. QED
  BY <1>6, <1>8, <1>10, <1>11, ImagesStepBy

\* A decode that returns: synchronized to the time it took, and completed if it is awaited.
LEMMA FinishStep ==
    ASSUME ImagesInv, Images!Finish
    PROVE  ImagesStepDone
<1>1. PICK request \in v8, decoded \in BOOLEAN, blended \in BOOLEAN :
        Images!finish_heic_decode(request, decoded, blended)
  BY DEF Images!Finish
<1> DEFINE p == Images!synchronize(v1)
           d == Images!complete_decode(p, request, decoded, blended)
           q == IF Images!Matches(p, request) THEN d ELSE p
<1>2. /\ v1' = q
      /\ v9' = IF Images!Snaps(v1, p) \/ (Images!Matches(p, request) /\ decoded)
               THEN Images!frame(q) ELSE v9
      /\ v4' = 0 /\ v5' = FALSE /\ UNCHANGED <<v3, v6, v7>> /\ v2' = v2
      /\ v8' = v8 \ {request}
  BY <1>1 DEF Images!finish_heic_decode, Images!Publish, Images!Synchronized
<1>3. PlaybackInv(v1) /\ v9 = Images!frame(v1) /\ v8 \in SUBSET Images!Request /\ IsFiniteSet(v8)
      /\ Cardinality(v8) <= MaxDecodes
  BY DEF ImagesInv
<1>4. /\ PlaybackInv(p)
      /\ Images!Snaps(v1, p) => Images!frame(p) = Images!Full(p.selected)
      /\ ~Images!Snaps(v1, p) => Images!frame(p) = Images!frame(v1)
  BY <1>3, SynchronizeInv
<1> HIDE DEF p
<1>5. ASSUME Images!Matches(p, request)
      PROVE  /\ PlaybackInv(d) /\ d.selected = p.selected
             /\ ~decoded => Images!frame(d) = Images!frame(p)
             /\ decoded => /\ Images!frame(d).image = request.image
                           /\ \/ request.image = p.selected
                              \/ Images!frame(p) = Nothing /\ request.image = PrimaryPicture
  BY <1>4, <1>5, CompleteInv
<1> HIDE DEF d
<1>6. PlaybackInv(q) /\ q.selected = p.selected
  BY <1>4, <1>5
<1>7. p.selected \in Pictures
  BY <1>4 DEF PlaybackInv, Playbacks
<1>8. Images!Full(p.selected) # Nothing /\ Images!Full(p.selected).image = p.selected
  BY <1>7, FullType, ImagesNumbers DEF Images!Full
<1>9. v9' = Images!frame(q)
  BY <1>2, <1>3, <1>4, <1>5
<1>10. Appears(Images!frame(v1), Images!frame(q), q.selected)
  <2>1. CASE Images!Matches(p, request) /\ decoded
    <3>1. CASE request.image = p.selected
      BY <1>5, <1>6, <2>1, <3>1 DEF Appears
    <3>2. CASE request.image # p.selected
      <4>1. Images!frame(p) = Nothing /\ request.image = PrimaryPicture
        BY <1>5, <2>1, <3>2
      <4>2. Images!frame(v1) = Nothing
        BY <1>4, <1>8, <4>1
      <4>3. Images!frame(q).image = PrimaryPicture
        BY <1>5, <2>1, <4>1
      <4>4. QED
        BY <4>2, <4>3 DEF Appears
    <3>3. QED
      BY <3>1, <3>2
  <2>2. CASE ~(Images!Matches(p, request) /\ decoded)
    <3>1. Images!frame(q) = Images!frame(p)
      BY <1>5, <2>2
    <3>2. QED
      BY <1>4, <1>6, <1>8, <3>1 DEF Appears
  <2>3. QED
    BY <2>1, <2>2
<1>11. v8' \in SUBSET Images!Request /\ IsFiniteSet(v8') /\ Cardinality(v8') <= MaxDecodes
  <2>1. v8' \in SUBSET v8 /\ v8' \in SUBSET Images!Request
    BY <1>2, <1>3
  <2>2. IsFiniteSet(v8') /\ Cardinality(v8') <= Cardinality(v8)
    BY <1>3, <2>1, FS_Subset
  <2>3. Cardinality(v8') \in Nat /\ Cardinality(v8) \in Nat /\ MaxDecodes \in Nat
    BY <1>3, <2>2, FS_CardinalityType, ImagesNumbers
  <2>4. QED
    BY <1>3, <2>1, <2>2, <2>3
<1> HIDE DEF q
<1>12. QED
  BY <1>2, <1>6, <1>9, <1>10, <1>11, ClockKept, ImagesStepBy

\* A schedule of the sun that replaces the one of the time.
LEMMA SolarStep ==
    ASSUME ImagesInv, Images!set_solar_schedule
    PROVE  ImagesStepDone
<1> DEFINE w == [v1 EXCEPT !.mode = "Solar"]
           p == Images!synchronize(w)
<1>1. /\ v1' = p /\ v9' = IF Images!Snaps(v1, p) THEN Images!frame(p) ELSE v9
      /\ v4' = 0 /\ v5' = FALSE /\ UNCHANGED <<v3, v6, v7>> /\ v2' = v2 /\ v8' = v8
  BY DEF Images!set_solar_schedule, Images!Publish, Images!Synchronized
<1>2. PlaybackInv(v1) /\ v9 = Images!frame(v1) /\ v8 \in SUBSET Images!Request /\ IsFiniteSet(v8)
      /\ Cardinality(v8) <= MaxDecodes
  BY DEF ImagesInv
<1>3. /\ w \in Playbacks /\ w.pending = v1.pending /\ w.selected = v1.selected
      /\ w.presented = v1.presented /\ w.presented_image = v1.presented_image
      /\ w.transition = v1.transition
  BY <1>2 DEF PlaybackInv, Playbacks, Images!Modes
<1> HIDE DEF w
<1>4. PlaybackInv(w) /\ Images!frame(w) = Images!frame(v1)
  BY <1>2, <1>3 DEF PlaybackInv, Images!frame
<1>5. /\ PlaybackInv(p)
      /\ Images!Snaps(w, p) => Images!frame(p) = Images!Full(p.selected)
      /\ ~Images!Snaps(w, p) => Images!frame(p) = Images!frame(w)
  BY <1>4, SynchronizeInv
<1> HIDE DEF p
<1>6. Images!Snaps(w, p) <=> Images!Snaps(v1, p)
  BY <1>3 DEF Images!Snaps
<1>7. v9' = Images!frame(v1')
  BY <1>1, <1>2, <1>4, <1>5, <1>6
<1>8. Appears(Images!frame(v1), Images!frame(p), p.selected)
  BY <1>4, <1>5 DEF Appears, Images!Full
<1>9. QED
  BY <1>1, <1>2, <1>5, <1>7, <1>8, ClockKept, ImagesStepBy

\* A second of the day, after any change of the clock.
LEMMA DayWraps ==
    ASSUME NEW n \in Int
    PROVE  n % DaySeconds \in 0 .. DaySeconds - 1
<1>1. DaySeconds \in Nat /\ DaySeconds > 0
  BY ImagesNumbers
<1>2. QED
  BY <1>1

\* Time passes, for the retry, the dissolve and the pending request.
LEMMA TickStep ==
    ASSUME ImagesInv, Images!Tick
    PROVE  ImagesStepDone
<1> DEFINE r == IF v1.retry = 0 THEN 0 ELSE v1.retry - 1
           t == IF v1.transition = Nothing THEN v1.transition ELSE Images!Aged(v1.transition)
           x == IF v1.pending = Nothing \/ v1.pending.started >= DissolveSeconds
                THEN v1.pending ELSE Images!Aged(v1.pending)
<1>1. /\ v3' = (v3 + 1) % DaySeconds /\ v6' = Images!Older(v6, DissolveSeconds)
      /\ v1' = [v1 EXCEPT !.retry = r, !.transition = t, !.pending = x]
      /\ UNCHANGED <<v2, v4, v5, v7, v8, v9>>
  BY DEF Images!Tick
<1>2. PlaybackInv(v1) /\ v1 \in Playbacks /\ v3 \in 0 .. DaySeconds - 1
      /\ v6 \in 0 .. DissolveSeconds /\ v9 = Images!frame(v1)
  BY DEF ImagesInv, PlaybackInv
<1>3. r \in 0 .. RetrySeconds
  BY <1>2, ImagesNumbers DEF Playbacks
<1>4. ASSUME v1.transition # Nothing
      PROVE  t \in Images!Transition /\ t.to = v1.transition.to /\ t.weight = v1.transition.weight
  <2>1. v1.transition \in Images!Transition
    BY <1>2, <1>4 DEF Playbacks
  <2>2. t = [v1.transition EXCEPT !.started = Images!Older(v1.transition.started, DissolveSeconds)]
    BY <1>4 DEF Images!Aged
  <2>3. v1.transition.started \in 0 .. DissolveSeconds
    BY <2>1 DEF Images!Transition
  <2>4. Images!Older(v1.transition.started, DissolveSeconds) \in 0 .. DissolveSeconds
    BY <2>3, ImagesNumbers DEF Images!Older
  <2>5. QED
    BY <2>1, <2>2, <2>4 DEF Images!Transition
<1>5. ASSUME v1.pending # Nothing
      PROVE  x \in Images!Pending /\ x.request = v1.pending.request
  <2>1. v1.pending \in Images!Pending
    BY <1>2, <1>5 DEF Playbacks
  <2>2. x = v1.pending \/ x = [v1.pending EXCEPT !.started =
                                  Images!Older(v1.pending.started, DissolveSeconds)]
    BY <1>5 DEF Images!Aged
  <2>3. v1.pending.started \in 0 .. Images!NotTimed
    BY <2>1 DEF Images!Pending
  <2>4. Images!Older(v1.pending.started, DissolveSeconds) \in 0 .. Images!NotTimed
    BY <2>3, ImagesNumbers DEF Images!Older, Images!NotTimed
  <2>5. QED
    BY <2>1, <2>2, <2>4 DEF Images!Pending
<1>6. v1.transition = Nothing => t = Nothing
  OBVIOUS
<1>7. v1.pending = Nothing => x = Nothing
  OBVIOUS
<1>8. v1.transition # Nothing => t # Nothing
  BY <1>4, ImagesNumbers
<1> HIDE DEF r, t, x
<1>9. t \in Images!Transition \cup {Nothing} /\ x \in Images!Pending \cup {Nothing}
  BY <1>4, <1>5, <1>6, <1>7
<1>10. /\ v1' \in Playbacks /\ v1'.pending = x /\ v1'.selected = v1.selected
       /\ v1'.presented = v1.presented /\ v1'.presented_image = v1.presented_image
       /\ v1'.transition = t
  BY <1>1, <1>2, <1>3, <1>9 DEF Playbacks
<1>11. PlaybackInv(v1')
  BY <1>2, <1>4, <1>5, <1>6, <1>7, <1>10 DEF PlaybackInv
<1>12. Images!frame(v1') = Images!frame(v1)
  <2>1. CASE v1.transition = Nothing
    BY <1>6, <1>10, <2>1 DEF Images!frame
  <2>2. CASE v1.transition # Nothing
    BY <1>4, <1>8, <1>10, <2>2 DEF Images!frame
  <2>3. QED
    BY <2>1, <2>2
<1>13. v9' = Images!frame(v1') /\ Appears(Images!frame(v1), Images!frame(v1'), v1'.selected)
  BY <1>1, <1>2, <1>12 DEF Appears
<1>14. v3' \in 0 .. DaySeconds - 1
  <2>1. v3 + 1 \in Int
    BY <1>2
  <2>2. QED
    BY <1>1, <2>1, DayWraps
<1>15. v6' \in 0 .. DissolveSeconds
  BY <1>1, <1>2, ImagesNumbers DEF Images!Older
<1>16. /\ v2' \in BOOLEAN /\ v5' \in BOOLEAN
       /\ v4' \in -(ClockTolerance + 1) .. (ClockTolerance + 1) /\ v7' \in 0 .. MaxClockJumps
       /\ v8' \in SUBSET Images!Request /\ IsFiniteSet(v8') /\ Cardinality(v8') <= MaxDecodes
  BY <1>1 DEF ImagesInv
<1>17. QED
  BY <1>11, <1>13, <1>14, <1>15, <1>16, ImagesStepBy

\* A clock that is set.
LEMMA JumpStep ==
    ASSUME ImagesInv, NEW seconds \in -(ClockTolerance + 1) .. (ClockTolerance + 1),
           NEW noticed \in BOOLEAN, Images!Jump(seconds, noticed)
    PROVE  ImagesStepDone
<1> DEFINE d == v4 + seconds
<1>1. /\ v7 < MaxClockJumps /\ v7' = v7 + 1 /\ v3' = (v3 + seconds) % DaySeconds
      /\ v4' = IF d > ClockTolerance THEN ClockTolerance + 1
               ELSE IF d < -ClockTolerance THEN -(ClockTolerance + 1) ELSE d
      /\ v5' = (v5 \/ noticed) /\ UNCHANGED <<v1, v2, v6, v8, v9>>
  BY DEF Images!Jump
<1>2. PlaybackInv(v1) /\ v3 \in 0 .. DaySeconds - 1 /\ v9 = Images!frame(v1)
      /\ v4 \in -(ClockTolerance + 1) .. (ClockTolerance + 1) /\ v7 \in 0 .. MaxClockJumps
  BY DEF ImagesInv
<1>3. ClockTolerance \in Nat /\ MaxClockJumps \in Nat /\ DaySeconds \in Nat
  BY ImagesNumbers
<1>4. v3' \in 0 .. DaySeconds - 1
  <2>1. v3 + seconds \in Int
    BY <1>2, <1>3
  <2>2. QED
    BY <1>1, <2>1, DayWraps
<1>5. v4' \in -(ClockTolerance + 1) .. (ClockTolerance + 1)
  <2>1. d \in Int
    BY <1>2, <1>3
  <2> HIDE DEF d
  <2>2. QED
    BY <1>1, <1>3, <2>1
<1>6. v7' \in 0 .. MaxClockJumps
  BY <1>1, <1>2, <1>3
<1>7. v5' \in BOOLEAN
  BY <1>1
<1>8. v9' = Images!frame(v1') /\ Appears(Images!frame(v1), Images!frame(v1'), v1'.selected)
      /\ PlaybackInv(v1')
  BY <1>1, <1>2 DEF Appears
<1>9. /\ v2' \in BOOLEAN /\ v6' \in 0 .. DissolveSeconds
      /\ v8' \in SUBSET Images!Request /\ IsFiniteSet(v8') /\ Cardinality(v8') <= MaxDecodes
  BY <1>1 DEF ImagesInv
<1>10. QED
  BY <1>4, <1>5, <1>6, <1>7, <1>8, <1>9, ImagesStepBy

\* Every step of the playback keeps its invariant, and lets only what is selected appear.
LEMMA ImagesStep ==
    ASSUME ImagesInv, Images!Next
    PROVE  ImagesStepDone
<1>1. \/ Images!Synchronize \/ Images!Advance \/ Images!TakeDecodeRequest \/ Images!Finish
      \/ Images!set_solar_schedule \/ Images!Tick
      \/ \E seconds \in -(ClockTolerance + 1) .. (ClockTolerance + 1), noticed \in BOOLEAN :
           Images!Jump(seconds, noticed)
  BY DEF Images!Next
<1>2. QED
  BY <1>1, SynchronizeStep, AdvanceStep, TakeStep, FinishStep, SolarStep, TickStep, JumpStep

\* The playback starts in its invariant.
LEMMA ImagesStart ==
    ASSUME Images!Init
    PROVE  ImagesInv
<1>1. PICK mode \in {"Static", "Time"}, static \in Pictures :
        LET image == IF mode = "Static" THEN static ELSE Images!Selection["Time"][v3]
        IN  v1 = [mode |-> mode, selected |-> image,
                  pending |-> [request |-> [generation |-> 1, image |-> image],
                               started |-> Images!NotTimed, dispatched |-> FALSE],
                  presented |-> Nothing, presented_image |-> Nothing, transition |-> Nothing,
                  retry |-> 0]
  BY DEF Images!Init
<1>2. v3 \in 0 .. DaySeconds - 1
  BY DEF Images!Init, Images!Second
<1> DEFINE image == IF mode = "Static" THEN static ELSE Images!Selection["Time"][v3]
           x == [request |-> [generation |-> 1, image |-> image],
                 started |-> Images!NotTimed, dispatched |-> FALSE]
<1>3. v1 = [mode |-> mode, selected |-> image, pending |-> x, presented |-> Nothing,
            presented_image |-> Nothing, transition |-> Nothing, retry |-> 0]
  BY <1>1
<1>4. image \in Pictures
  BY <1>2, ScheduleTypes DEF Images!Modes
<1> HIDE DEF image
<1>5. x \in Images!Pending /\ x.request.image = image
  BY <1>4, ImagesNumbers DEF Images!Pending, Images!Request, Images!Generation, Images!NotTimed
<1>6. mode \in Images!Modes /\ 0 \in 0 .. RetrySeconds
  BY ImagesNumbers DEF Images!Modes
<1> HIDE DEF x
<1>7. v1 \in Playbacks
  BY <1>3, <1>4, <1>5, <1>6 DEF Playbacks
<1>8. PlaybackInv(v1)
  BY <1>3, <1>5, <1>7 DEF PlaybackInv
<1>9. Images!frame(v1) = Nothing
  BY <1>3 DEF Images!frame
<1>10. /\ v2 \in BOOLEAN /\ v4 = 0 /\ v5 = FALSE /\ v6 = 0 /\ v7 = 0 /\ v8 = {} /\ v9 = Nothing
  BY DEF Images!Init
<1>11. IsFiniteSet(v8) /\ Cardinality(v8) = 0
  BY <1>10, FS_EmptySet
<1>12. 0 \in -(ClockTolerance + 1) .. (ClockTolerance + 1) /\ 0 \in 0 .. MaxClockJumps
       /\ 0 \in 0 .. DissolveSeconds /\ 0 <= MaxDecodes
  BY ImagesNumbers
<1>13. QED
  BY <1>2, <1>8, <1>9, <1>10, <1>11, <1>12 DEF ImagesInv

\* The invariant of the playback is what a reader asks for.
LEMMA ImagesFacts ==
    ASSUME ImagesInv
    PROVE  Images!TypeOK /\ Images!PresentedImageIsOnScreen /\ Images!ConsumerShowsFrame
<1>1. Images!Cardinality(v8) = Cardinality(v8)
  BY Zenon DEF Images!Cardinality, Cardinality
<1>2. v1 \in Playbacks /\ PlaybackInv(v1)
  BY DEF ImagesInv, PlaybackInv
<1>3. v9 \in Images!Frame \cup {Nothing}
  BY <1>2, FrameType DEF ImagesInv
<1>4. Images!TypeOK
  BY <1>1, <1>2, <1>3 DEF ImagesInv, Playbacks, Images!TypeOK, Images!Second
<1>5. QED
  BY <1>2, <1>4 DEF ImagesInv, PlaybackInv, Images!PresentedImageIsOnScreen, Images!ConsumerShowsFrame

-----------------------------------------------------------------------------
(* What the lock says *)

\* The lines that some pages in a row show of a text.
Turned(text, room, low, high) == UNION {Overlay!page_layout(text, room, k) : k \in low .. high}

\* What there is to say, and what was typed.
Conversing ==
    /\ v1 \in BOOLEAN /\ v2 \in BOOLEAN /\ v3 \in BOOLEAN
    /\ v4 \in {"Waiting", "Submitting", "Succeeded", "Failed"}
    /\ v5 \in Prompts \cup {"Password"}
    /\ v6 \in Notices \cup {"none", Overlay!Unavailable, Overlay!AuthenticationFailed}
    /\ v7 \in Seq(1 .. 4) /\ Len(v7) <= MAX_TEXT_CHARS
    /\ v3 => v2 /\ v4 = "Waiting"

\* The text came to its first page, or is the notice that has one.
FirstOrOnly == v8 = 0 \/ (v5 = "Password" /\ v6 = Overlay!Unavailable)

\* What was seen are the pages turned so far; the first of them is the first page, but for the
\* notice of a worker that can not be reached, which has one page.
OverlayInv ==
    /\ Conversing
    /\ v9 = v11 /\ v11 \in 0 .. MaxFrames
    /\ v10 = [background |-> v11, overlay |-> Overlay!render_authentication_overlay]
    /\ v8 \in Nat /\ v12 \in 0 .. v8
    /\ ~v1 => v8 = 0 /\ ~v3
    /\ v8 # v12 => v5 = "Password" /\ v6 = Overlay!Unavailable
    /\ v1 => /\ v5 # "Password" => v13.prompt = Turned(v5, PromptLines, v8 - v12, v8)
             /\ v6 # "none" => v13.notice = Turned(v6, NoticeLines, v8 - v12, v8)

\* What the limits of the overlay are.
LEMMA OverlayNumbers ==
    /\ PromptLines \in Nat \ {0} /\ NoticeLines \in Nat \ {0} /\ MAX_TEXT_CHARS \in Nat \ {0}
    /\ Inputs \subseteq Seq(1 .. 4) /\ MaxFrames \in Nat
    /\ Lines[Overlay!Unavailable] <= NoticeLines
BY OverlayAssumption DEF Overlay!LockOverlayAssumption

\* Every text that may be shown has a number of lines.
LEMMA LinesType ==
    ASSUME NEW t \in Prompts \cup Notices \cup {"Password", Overlay!Unavailable, Overlay!AuthenticationFailed}
    PROVE  Lines[t] \in Nat
BY OverlayAssumption DEF Overlay!LockOverlayAssumption, Overlay!Password

\* The maximum of two numbers.
LEMMA LargerOfTwo ==
    ASSUME NEW a \in Int, NEW b \in Int
    PROVE  Overlay!Max({a, b}) = IF a >= b THEN a ELSE b
<1> DEFINE m == IF a >= b THEN a ELSE b
<1>1. m \in {a, b} /\ \A y \in {a, b} : m >= y
  OBVIOUS
<1>2. \A x \in {a, b} : (\A y \in {a, b} : x >= y) => x = m
  OBVIOUS
<1> HIDE DEF m
<1>3. Overlay!Max({a, b}) = m
  BY <1>1, <1>2 DEF Overlay!Max
<1>4. QED
  BY <1>3 DEF m

\* The minimum of two numbers.
LEMMA SmallerOfTwo ==
    ASSUME NEW a \in Int, NEW b \in Int
    PROVE  Overlay!Min({a, b}) = IF a <= b THEN a ELSE b
<1> DEFINE m == IF a <= b THEN a ELSE b
<1>1. m \in {a, b} /\ \A y \in {a, b} : m <= y
  OBVIOUS
<1>2. \A x \in {a, b} : (\A y \in {a, b} : x <= y) => x = m
  OBVIOUS
<1> HIDE DEF m
<1>3. Overlay!Min({a, b}) = m
  BY <1>1, <1>2 DEF Overlay!Min
<1>4. QED
  BY <1>3 DEF m

\* Division with a rest, both ways round.
LEMMA Division ==
    ASSUME NEW a \in Int, NEW b \in Nat \ {0}
    PROVE  /\ a \div b \in Int /\ a % b \in 0 .. b - 1
           /\ a = b * (a \div b) + (a % b)
<1>1. a \div b \in Int
  OBVIOUS
<1>2. a % b \in 0 .. b - 1
  OBVIOUS
<1>3. a = b * (a \div b) + (a % b)
  OBVIOUS
<1>4. QED
  BY <1>1, <1>2, <1>3

\* A quotient and a rest below the divisor are the ones of the division.
LEMMA RestIsUnique ==
    ASSUME NEW b \in Nat \ {0}, NEW q \in Int, NEW r \in 0 .. b - 1
    PROVE  (b * q + r) % b = r
<1> DEFINE a == b * q + r
           p == a \div b
           s == a % b
<1>1. b * q \in Int
  OBVIOUS
<1>2. a \in Int
  BY <1>1
<1>3. p \in Int /\ s \in 0 .. b - 1 /\ a = b * p + s
  BY <1>2, Division
<1> HIDE DEF p, s
<1>4. b * (q - p) = s - r
  <2>1. b * (q - p) = b * q - b * p
    BY <1>3
  <2>2. b * p \in Int
    BY <1>3
  <2>3. QED
    BY <1>1, <1>3, <2>1, <2>2
<1>5. q = p
  <2>1. SUFFICES ASSUME q # p PROVE FALSE
    OBVIOUS
  <2>2. -b < s - r /\ s - r < b
    BY <1>3
  <2>3. CASE q - p >= 1
    <3>1. b * (q - p) >= b * 1
      BY <1>3, <2>3
    <3>2. QED
      BY <1>3, <1>4, <2>2, <3>1
  <2>4. CASE q - p <= -1
    <3>1. b * (q - p) <= b * (-1)
      BY <1>3, <2>4
    <3>2. QED
      BY <1>3, <1>4, <2>2, <3>1
  <2>5. QED
    BY <1>3, <2>1, <2>3, <2>4
<1>6. s = r
  <2>1. b * (q - p) = 0
    BY <1>5
  <2>2. QED
    BY <1>3, <1>4, <2>1
<1>7. QED
  BY <1>6 DEF s

\* The pages of a text, and the lines of one of them (page_layout).
LEMMA Pages ==
    ASSUME NEW text, Lines[text] \in Nat, NEW room \in Nat \ {0}
    PROVE  LET c == Overlay!PageCount(text, room) IN
           /\ c \in Nat \ {0}
           /\ Lines[text] <= c * room
           /\ Lines[text] <= room => c = 1
           /\ \A k \in Nat : Overlay!page_layout(text, room, k)
                 = {n \in 1 .. Lines[text] : (k % c) * room < n /\ n <= (k % c) * room + room}
<1> DEFINE l == Lines[text]
           most == IF l >= 1 THEN l ELSE 1
           c == (most + room - 1) \div room
           rest == (most + room - 1) % room
<1>1. Overlay!PageCount(text, room) = c
  BY LargerOfTwo DEF Overlay!PageCount
<1>2. most \in Nat /\ most >= 1 /\ l <= most
  OBVIOUS
<1>a. c \in Int /\ rest \in 0 .. room - 1 /\ most + room - 1 = room * c + rest
  <2>1. most + room - 1 \in Int
    BY <1>2
  <2>2. QED
    BY <2>1, Division
<1>b. l <= room => most <= room
  OBVIOUS
<1> HIDE DEF most, rest, c
<1>3. c >= 1
  <2>1. room * c >= most
    <3>1. room * c \in Int
      BY <1>a
    <3>2. QED
      BY <1>a, <1>2, <3>1
  <2>2. SUFFICES ASSUME c <= 0 PROVE FALSE
    BY <1>a
  <2>3. room * c <= 0
    BY <1>a, <2>2
  <2>4. QED
    BY <1>a, <1>2, <2>1, <2>3
<1>4. c \in Nat \ {0} /\ c * room \in Nat
  <2>1. c \in Nat \ {0}
    BY <1>a, <1>3
  <2>2. QED
    BY <2>1
<1>5. l <= c * room
  <2>1. c * room = room * c
    BY <1>4
  <2>2. QED
    BY <1>a, <1>2, <1>4, <2>1
<1>6. l <= room => c = 1
  <2>1. SUFFICES ASSUME l <= room, c >= 2 PROVE FALSE
    BY <1>4
  <2>2. room * c >= room * 2
    BY <1>4, <2>1
  <2>3. room * c \in Int
    BY <1>4
  <2>4. QED
    BY <1>a, <1>2, <1>b, <2>1, <2>2, <2>3
<1>7. ASSUME NEW k \in Nat
      PROVE  Overlay!page_layout(text, room, k)
               = {n \in 1 .. l : (k % c) * room < n /\ n <= (k % c) * room + room}
  <2> DEFINE first == (k % c) * room
             seen == IF first <= l THEN first ELSE l
             size == IF l - seen <= room THEN l - seen ELSE room
  <2>1. k % c \in Nat
    BY <1>4, Division
  <2>2. first \in Nat
    <3> DEFINE x == k % c
    <3>1. x \in Nat
      BY <2>1
    <3> HIDE DEF x
    <3>2. x * room \in Nat
      BY <3>1
    <3>3. QED
      BY <3>2 DEF x
  <2> HIDE DEF first
  <2>3. Overlay!Min({first, l}) = seen
    BY <2>2, SmallerOfTwo
  <2>4. Overlay!Min({l - seen, room}) = size
    <3>1. l - seen \in Int /\ room \in Int
      BY <2>2
    <3> HIDE DEF seen
    <3>2. QED
      BY <3>1, SmallerOfTwo
  <2>5. Overlay!page_layout(text, room, k) = {first + i : i \in 1 .. size}
    BY <1>1, <2>3, <2>4 DEF first, Overlay!page_layout
  <2>6. {first + i : i \in 1 .. size} = {n \in 1 .. l : first < n /\ n <= first + room}
    <3>1. ASSUME NEW i \in 1 .. size
          PROVE  first + i \in 1 .. l /\ first < first + i /\ first + i <= first + room
      BY <2>2
    <3>2. ASSUME NEW n \in 1 .. l, first < n, n <= first + room
          PROVE  \E i \in 1 .. size : n = first + i
      <4>1. n - first \in 1 .. size /\ n = first + (n - first)
        BY <2>2, <3>2
      <4>2. QED
        BY <4>1
    <3> HIDE DEF size
    <3>3. QED
      BY <3>1, <3>2
  <2>7. QED
    BY <2>5, <2>6 DEF first
<1>8. QED
  BY <1>1, <1>4, <1>5, <1>6, <1>7

\* As many pages in a row as a text has show every line of it, whatever the first.
LEMMA PagesCover ==
    ASSUME NEW text, Lines[text] \in Nat, NEW room \in Nat \ {0},
           NEW low \in Nat, NEW high \in Nat, high - low + 1 >= Overlay!PageCount(text, room)
    PROVE  UNION {Overlay!page_layout(text, room, k) : k \in low .. high} = 1 .. Lines[text]
<1> DEFINE l == Lines[text]
           c == Overlay!PageCount(text, room)
           on(k) == Overlay!page_layout(text, room, k)
<1>1. /\ c \in Nat \ {0} /\ l <= c * room
      /\ \A k \in Nat : on(k) = {n \in 1 .. l : (k % c) * room < n /\ n <= (k % c) * room + room}
  BY Pages
<1> HIDE DEF c
<1>2. high - low + 1 >= c
  BY DEF c
<1>3. ASSUME NEW n \in 1 .. l
      PROVE  \E k \in low .. high : n \in on(k)
  <2> DEFINE d == (n - 1) \div room
             e == (n - 1) % room
  <2>1. d \in Int /\ e \in 0 .. room - 1 /\ n - 1 = room * d + e
    <3>1. n - 1 \in Int
      OBVIOUS
    <3>2. QED
      BY <3>1, Division
  <2> HIDE DEF d, e
  <2>2. d \in 0 .. c - 1
    <3>1. room * d \in Int /\ room * d = d * room
      BY <2>1
    <3>2. d >= 0
      <4>1. SUFFICES ASSUME d <= -1 PROVE FALSE
        BY <2>1
      <4>2. room * d <= room * (-1)
        BY <2>1, <4>1
      <4>3. QED
        BY <2>1, <3>1, <4>2
    <3>3. d < c
      <4>1. SUFFICES ASSUME d >= c PROVE FALSE
        BY <1>1, <2>1
      <4>2. d * room >= c * room
        BY <1>1, <2>1, <4>1
      <4>3. c * room \in Int
        BY <1>1
      <4>4. l <= c * room /\ n <= l /\ l \in Nat /\ n \in Nat
        BY <1>1
      <4> DEFINE p == c * room
                 q == d * room
      <4>5. p \in Int /\ q \in Int /\ q >= p /\ l <= p /\ n - 1 = q + e
        BY <2>1, <3>1, <4>2, <4>3, <4>4
      <4> HIDE DEF p, q
      <4>6. QED
        BY <2>1, <4>4, <4>5
    <3>4. QED
      BY <1>1, <2>1, <3>2, <3>3
  <2> DEFINE x == (d - low) % c
             y == (d - low) \div c
  <2>3. y \in Int /\ x \in 0 .. c - 1 /\ d - low = c * y + x
    <3>1. d - low \in Int
      BY <2>1
    <3>2. QED
      BY <1>1, <3>1, Division
  <2> HIDE DEF x, y
  <2>4. low + x \in low .. high /\ low + x \in Nat
    BY <1>1, <1>2, <2>3
  <2>5. (low + x) % c = d
    <3>1. -y \in Int /\ c * (-y) = -(c * y) /\ c * y \in Int
      BY <1>1, <2>3
    <3>2. low + x = c * (-y) + d
      <4> DEFINE z == c * y
                 w == c * (-y)
      <4>1. z \in Int /\ w = -z /\ d - low = z + x
        BY <2>3, <3>1
      <4>2. x \in Int
        BY <1>1, <2>3
      <4> HIDE DEF z, w
      <4>3. low + x = w + d
        BY <2>1, <4>1, <4>2
      <4>4. QED
        BY <4>3 DEF w
    <3>3. (c * (-y) + d) % c = d
      BY <1>1, <2>2, <3>1, RestIsUnique
    <3>4. QED
      BY <3>2, <3>3
  <2>6. d * room < n /\ n <= d * room + room
    <3>1. d * room \in Int /\ d * room = room * d
      BY <2>1
    <3>2. QED
      BY <2>1, <3>1
  <2>7. n \in on(low + x)
    <3>1. on(low + x) = {m \in 1 .. l : ((low + x) % c) * room < m
                                        /\ m <= ((low + x) % c) * room + room}
      BY <1>1, <2>4
    <3> HIDE DEF on
    <3>2. QED
      BY <2>5, <2>6, <3>1
  <2>8. QED
    BY <2>4, <2>7
<1>4. ASSUME NEW k \in low .. high
      PROVE  on(k) \subseteq 1 .. l
  <2>1. k \in Nat
    OBVIOUS
  <2>2. QED
    BY <1>1, <2>1
<1> HIDE DEF on, l
<1>5. UNION {on(k) : k \in low .. high} = 1 .. l
  BY <1>3, <1>4
<1>6. QED
  BY <1>5 DEF on, l

\* The first page shows the first line.
LEMMA FirstPage ==
    ASSUME NEW text, Lines[text] \in Nat, NEW room \in Nat \ {0}, Lines[text] > 0
    PROVE  1 \in Overlay!page_layout(text, room, 0)
<1> DEFINE c == Overlay!PageCount(text, room)
           on(k) == Overlay!page_layout(text, room, k)
<1>1. /\ c \in Nat \ {0}
      /\ \A k \in Nat : on(k) = {n \in 1 .. Lines[text] : (k % c) * room < n /\ n <= (k % c) * room + room}
  BY Pages
<1> HIDE DEF c
<1>2. 0 % c = 0
  BY <1>1
<1>3. on(0) = {n \in 1 .. Lines[text] : (0 % c) * room < n /\ n <= (0 % c) * room + room}
  BY <1>1
<1> HIDE DEF on
<1>4. (0 % c) * room = 0
  BY <1>2
<1>5. 1 \in on(0)
  BY <1>3, <1>4
<1>6. QED
  BY <1>5 DEF on

\* A text is at most its bytes: four to a character.
LEMMA BytesBound ==
    ASSUME NEW s \in Seq(1 .. 4)
    PROVE  Overlay!Bytes(s) \in Nat /\ Overlay!Bytes(s) <= 4 * Len(s)
<1> DEFINE n == Len(s)
           B == UNION {{i} \X (1 .. s[i]) : i \in DOMAIN s}
           C == (1 .. n) \X (1 .. 4)
<1>1. n \in Nat /\ DOMAIN s = 1 .. n /\ \A i \in 1 .. n : s[i] \in 1 .. 4
  OBVIOUS
<1>2. B \subseteq C
  <2>1. ASSUME NEW i \in DOMAIN s, NEW x \in {i} \X (1 .. s[i])
        PROVE  x \in C
    <3>1. i \in 1 .. n /\ s[i] \in 1 .. 4
      BY <1>1
    <3>2. PICK j \in 1 .. s[i] : x = <<i, j>>
      OBVIOUS
    <3>3. j \in 1 .. 4
      BY <3>1, <3>2
    <3>4. QED
      BY <3>1, <3>2, <3>3
  <2> HIDE DEF C
  <2>2. QED
    BY <2>1
<1>3. /\ IsFiniteSet(1 .. n) /\ Cardinality(1 .. n) = n
      /\ IsFiniteSet(1 .. 4) /\ Cardinality(1 .. 4) = 4
  <2>1. ASSUME NEW k \in Nat
        PROVE  IsFiniteSet(1 .. k) /\ Cardinality(1 .. k) = k
    <3>1. IsFiniteSet(1 .. k) /\ Cardinality(1 .. k) = IF 1 > k THEN 0 ELSE k - 1 + 1
      BY FS_Interval
    <3>2. QED
      BY <3>1
  <2>2. 4 \in Nat
    OBVIOUS
  <2> HIDE DEF n
  <2>3. QED
    BY <1>1, <2>1, <2>2
<1>4. IsFiniteSet(C) /\ Cardinality(C) = n * 4
  <2>1. IsFiniteSet((1 .. n) \X (1 .. 4))
        /\ Cardinality((1 .. n) \X (1 .. 4)) = Cardinality(1 .. n) * Cardinality(1 .. 4)
    BY <1>3, FS_Product
  <2>2. QED
    BY <1>3, <2>1
<1> HIDE DEF B, C, n
<1>5. IsFiniteSet(B) /\ Cardinality(B) <= n * 4
  BY <1>2, <1>4, FS_Subset
<1>6. Cardinality(B) \in Nat
  BY <1>5, FS_CardinalityType
<1>7. Overlay!Bytes(s) = Cardinality(B)
  <2>1. Overlay!Bytes(s) = Overlay!Cardinality(B)
    BY DEF B, Overlay!Bytes
  <2>2. Overlay!Cardinality(B) = Cardinality(B)
    BY Zenon DEF Overlay!Cardinality, Cardinality
  <2>3. QED
    BY <2>1, <2>2
<1>8. QED
  BY <1>1, <1>5, <1>6, <1>7 DEF n

\* Typed characters are taken as far as the buffer has room (append_bounded).
LEMMA AppendFits ==
    ASSUME NEW s \in Seq(1 .. 4), Len(s) <= MAX_TEXT_CHARS, NEW t \in Seq(1 .. 4)
    PROVE  LET w == Overlay!append_bounded(s, t) IN
           w \in Seq(1 .. 4) /\ Len(w) <= MAX_TEXT_CHARS
<1> DEFINE fits(n) == Len(s) + n <= MAX_TEXT_CHARS
                        /\ Overlay!Bytes(s \o SubSeq(t, 1, n)) <= Overlay!MAX_INPUT_BYTES
           S == {n \in 0 .. Len(t) : fits(n)}
           m == Overlay!Max(S)
<1>1. Overlay!append_bounded(s, t) = s \o SubSeq(t, 1, m)
  BY DEF Overlay!append_bounded
<1>2. Len(s) \in Nat /\ Len(t) \in Nat /\ MAX_TEXT_CHARS \in Nat
  BY OverlayNumbers
<1>3. fits(0)
  <2>1. s \o SubSeq(t, 1, 0) = s
    OBVIOUS
  <2>2. Overlay!Bytes(s) \in Nat /\ Overlay!Bytes(s) <= 4 * Len(s)
    BY BytesBound
  <2>3. Overlay!MAX_INPUT_BYTES = 4 * MAX_TEXT_CHARS
    BY DEF Overlay!MAX_INPUT_BYTES
  <2>4. Overlay!Bytes(s \o SubSeq(t, 1, 0)) = Overlay!Bytes(s)
    BY <2>1
  <2>5. Len(s) + 0 <= MAX_TEXT_CHARS
    BY <1>2
  <2>6. Overlay!Bytes(s) <= Overlay!MAX_INPUT_BYTES
    BY <1>2, <2>2, <2>3
  <2>7. QED
    BY <2>4, <2>5, <2>6
<1> HIDE DEF fits
<1>4. S \in SUBSET (0 .. Len(t)) /\ S # {}
  BY <1>2, <1>3
<1> HIDE DEF S
<1>5. m \in S
  <2>1. \E x \in S : \A y \in S : x >= y
    BY <1>2, <1>4, LargestNatural
  <2>2. QED
    BY <2>1 DEF Overlay!Max
<1> HIDE DEF m
<1>6. m \in 0 .. Len(t) /\ Len(s) + m <= MAX_TEXT_CHARS
  BY <1>5 DEF S, fits
<1>7. SubSeq(t, 1, m) \in Seq(1 .. 4) /\ Len(SubSeq(t, 1, m)) = m
  <2>1. m \in Nat /\ m <= Len(t)
    BY <1>2, <1>6
  <2>2. QED
    BY <1>2, <2>1
<1>8. QED
  BY <1>1, <1>2, <1>6, <1>7

\* PagesCover, for every text and row of pages.
LEMMA TurnedAll ==
    \A text, room, low, high :
        /\ Lines[text] \in Nat /\ room \in Nat \ {0} /\ low \in Nat /\ high \in Nat
        /\ high - low + 1 >= Overlay!PageCount(text, room)
        => Turned(text, room, low, high) = 1 .. Lines[text]
BY PagesCover DEF Turned

\* A row of one page, the last page of a row, and a row that is one page longer.
LEMMA TurnedPages ==
    ASSUME NEW text, NEW room, NEW low \in Nat, NEW k \in Nat, low <= k
    PROVE  /\ Turned(text, room, k, k) = Overlay!page_layout(text, room, k)
           /\ Overlay!page_layout(text, room, k) \subseteq Turned(text, room, low, k)
           /\ Turned(text, room, low, k + 1)
                = Turned(text, room, low, k) \cup Overlay!page_layout(text, room, k + 1)
<1> DEFINE on(j) == Overlay!page_layout(text, room, j)
<1> HIDE DEF on
<1>1. \A i, j \in Nat : Turned(text, room, i, j) = UNION {on(h) : h \in i .. j}
  BY DEF Turned, on
<1>2. k .. k = {k} /\ k \in low .. k /\ low .. k + 1 = (low .. k) \cup {k + 1}
  OBVIOUS
<1>3. Turned(text, room, k, k) = UNION {on(h) : h \in {k}}
  BY <1>1, <1>2
<1>4. UNION {on(h) : h \in {k}} = on(k)
  OBVIOUS
<1>5. on(k) \subseteq UNION {on(h) : h \in low .. k}
  BY <1>2
<1>6. Turned(text, room, low, k + 1) = UNION {on(h) : h \in (low .. k) \cup {k + 1}}
  <2>1. k + 1 \in Nat
    OBVIOUS
  <2>2. QED
    BY <1>1, <1>2, <2>1
<1>7. UNION {on(h) : h \in (low .. k) \cup {k + 1}} = (UNION {on(h) : h \in low .. k}) \cup on(k + 1)
  <2> DEFINE S == low .. k
             x == k + 1
  <2> HIDE DEF S, x
  <2>1. UNION {on(h) : h \in S \cup {x}} = (UNION {on(h) : h \in S}) \cup on(x)
    <3>1. ASSUME NEW y \in UNION {on(h) : h \in S \cup {x}}
          PROVE  y \in (UNION {on(h) : h \in S}) \cup on(x)
      <4>1. PICK h \in S \cup {x} : y \in on(h)
        OBVIOUS
      <4>2. QED
        BY <4>1
    <3>2. ASSUME NEW y \in (UNION {on(h) : h \in S}) \cup on(x)
          PROVE  y \in UNION {on(h) : h \in S \cup {x}}
      <4>1. \E h \in S \cup {x} : y \in on(h)
        OBVIOUS
      <4>2. QED
        BY <4>1
    <3>3. QED
      BY <3>1, <3>2, Zenon
  <2>2. QED
    BY <2>1 DEF S, x
<1>8. Turned(text, room, low, k) = UNION {on(h) : h \in low .. k}
  BY <1>1
<1>9. QED
  BY <1>3, <1>4, <1>5, <1>6, <1>7, <1>8 DEF on

\* A text that just came has shown the page it came to.
LEMMA OnePage ==
    \A n \in Nat : /\ 0 \in 0 .. n
                   /\ \A text, room : Turned(text, room, n - 0, n) = Overlay!page_layout(text, room, n)
<1>1. SUFFICES ASSUME NEW n \in Nat
               PROVE  /\ 0 \in 0 .. n
                      /\ \A text, room : Turned(text, room, n - 0, n) = Overlay!page_layout(text, room, n)
  OBVIOUS
<1>2. 0 \in 0 .. n /\ n - 0 = n /\ n <= n
  OBVIOUS
<1>3. QED
  BY <1>2, TurnedPages

\* A text that came is shown, and counted as seen, at the page it came to.
LEMMA FreshOverlay ==
    ASSUME OverlayInv, Conversing', v1', v8' \in Nat,
           FirstOrOnly',
           Overlay!rebuild_overlay(TRUE)
    PROVE  OverlayInv'
<1> DEFINE r == Overlay!render_authentication_overlay'
<1>1. /\ v10' = [background |-> v9, overlay |-> r] /\ v12' = 0
      /\ v13' = [prompt |-> r.prompt, notice |-> r.notice] /\ v9' = v9 /\ v11' = v11
  BY DEF Overlay!rebuild_overlay
<1>2. /\ v5' # "Password" => r.prompt = Overlay!page_layout(v5', PromptLines, v8')
      /\ v6' # "none" => r.notice = Overlay!page_layout(v6', NoticeLines, v8')
  BY DEF Overlay!render_authentication_overlay, Overlay!PromptPage, Overlay!NoticePage,
         Overlay!persistent_prompt, Overlay!Password, Overlay!None
<1>3. /\ v13'.prompt = r.prompt /\ v13'.notice = r.notice
  BY <1>1
<1> HIDE DEF r
<1>4. v8' \in Nat /\ v12' = 0
  BY <1>1
<1>5. /\ v12' \in 0 .. v8'
      /\ v5' # "Password" => v13'.prompt = Turned(v5', PromptLines, v8' - v12', v8')
      /\ v6' # "none" => v13'.notice = Turned(v6', NoticeLines, v8' - v12', v8')
  <2>1. /\ 0 \in 0 .. v8'
        /\ Turned(v5', PromptLines, v8' - 0, v8') = Overlay!page_layout(v5', PromptLines, v8')
        /\ Turned(v6', NoticeLines, v8' - 0, v8') = Overlay!page_layout(v6', NoticeLines, v8')
    BY <1>4, OnePage, Zenon
  <2>2. QED
    BY <1>2, <1>3, <1>4, <2>1, Zenon
<1>6. v9' = v11' /\ v11' \in 0 .. MaxFrames /\ v10' = [background |-> v11', overlay |-> r]
  BY <1>1 DEF OverlayInv
<1>7. QED
  BY <1>1, <1>4, <1>5, <1>6 DEF OverlayInv, FirstOrOnly, r

\* What is shown again was seen.
LEMMA KeptOverlay ==
    ASSUME OverlayInv, Conversing', v1, v1' = v1, UNCHANGED <<v5, v6, v8>>,
           Overlay!rebuild_overlay(FALSE)
    PROVE  OverlayInv'
<1> DEFINE r == Overlay!render_authentication_overlay'
<1>1. /\ v10' = [background |-> v9, overlay |-> r] /\ v12' = v12
      /\ v13' = [prompt |-> v13.prompt \cup r.prompt, notice |-> v13.notice \cup r.notice]
      /\ v9' = v9 /\ v11' = v11
  BY DEF Overlay!rebuild_overlay
<1>2. /\ v5 # "Password" => r.prompt = Overlay!page_layout(v5, PromptLines, v8)
      /\ v6 # "none" => r.notice = Overlay!page_layout(v6, NoticeLines, v8)
  BY DEF Overlay!render_authentication_overlay, Overlay!PromptPage, Overlay!NoticePage,
         Overlay!persistent_prompt, Overlay!Password, Overlay!None
<1>3. v13'.prompt = v13.prompt \cup r.prompt /\ v13'.notice = v13.notice \cup r.notice
  BY <1>1
<1> HIDE DEF r
<1>4. v8 \in Nat /\ v12 \in 0 .. v8 /\ v8 - v12 \in Nat /\ v8 - v12 <= v8
  BY DEF OverlayInv
<1>5. /\ v5 # "Password" => v13'.prompt = Turned(v5, PromptLines, v8 - v12, v8)
      /\ v6 # "none" => v13'.notice = Turned(v6, NoticeLines, v8 - v12, v8)
  <2>1. /\ Overlay!page_layout(v5, PromptLines, v8) \subseteq Turned(v5, PromptLines, v8 - v12, v8)
        /\ Overlay!page_layout(v6, NoticeLines, v8) \subseteq Turned(v6, NoticeLines, v8 - v12, v8)
    BY <1>4, TurnedPages
  <2>2. /\ v5 # "Password" => v13.prompt = Turned(v5, PromptLines, v8 - v12, v8)
        /\ v6 # "none" => v13.notice = Turned(v6, NoticeLines, v8 - v12, v8)
    BY DEF OverlayInv
  <2>3. QED
    BY <1>2, <1>3, <2>1, <2>2
<1>6. v9' = v11' /\ v11' \in 0 .. MaxFrames /\ v10' = [background |-> v11', overlay |-> r]
  BY <1>1 DEF OverlayInv
<1>7. v8 # v12 => v5 = "Password" /\ v6 = Overlay!Unavailable
  BY DEF OverlayInv
<1>8. QED
  BY <1>1, <1>4, <1>5, <1>6, <1>7 DEF OverlayInv, r, Overlay!Unavailable

\* A turned page is seen.
LEMMA NextPageStep ==
    ASSUME OverlayInv, Overlay!NextPage
    PROVE  OverlayInv'
<1> DEFINE r == Overlay!render_authentication_overlay'
<1>1. /\ v1 /\ v8' = v8 + 1 /\ v12' = v12 + 1
      /\ UNCHANGED <<v1, v2, v3, v4, v5, v6, v7, v9, v11>>
      /\ v10' = [background |-> v9, overlay |-> r]
      /\ v13' = [prompt |-> v13.prompt \cup r.prompt, notice |-> v13.notice \cup r.notice]
  BY DEF Overlay!NextPage, Overlay!conversation
<1>2. /\ v5 # "Password" => r.prompt = Overlay!page_layout(v5, PromptLines, v8 + 1)
      /\ v6 # "none" => r.notice = Overlay!page_layout(v6, NoticeLines, v8 + 1)
  BY <1>1 DEF Overlay!render_authentication_overlay, Overlay!PromptPage, Overlay!NoticePage,
              Overlay!persistent_prompt, Overlay!Password, Overlay!None
<1>3. v13'.prompt = v13.prompt \cup r.prompt /\ v13'.notice = v13.notice \cup r.notice
  BY <1>1
<1> HIDE DEF r
<1>4. v8 \in Nat /\ v12 \in 0 .. v8 /\ v8 - v12 \in Nat /\ v8 - v12 <= v8
  BY DEF OverlayInv
<1>5. v8' \in Nat /\ v12' \in 0 .. v8' /\ v8' - v12' = v8 - v12 /\ (v8' # v12' => v8 # v12)
  BY <1>1, <1>4
<1>6. /\ v5 # "Password" => v13'.prompt = Turned(v5, PromptLines, v8 - v12, v8 + 1)
      /\ v6 # "none" => v13'.notice = Turned(v6, NoticeLines, v8 - v12, v8 + 1)
  <2>1. /\ Turned(v5, PromptLines, v8 - v12, v8 + 1)
             = Turned(v5, PromptLines, v8 - v12, v8) \cup Overlay!page_layout(v5, PromptLines, v8 + 1)
        /\ Turned(v6, NoticeLines, v8 - v12, v8 + 1)
             = Turned(v6, NoticeLines, v8 - v12, v8) \cup Overlay!page_layout(v6, NoticeLines, v8 + 1)
    BY <1>4, TurnedPages
  <2>2. /\ v5 # "Password" => v13.prompt = Turned(v5, PromptLines, v8 - v12, v8)
        /\ v6 # "none" => v13.notice = Turned(v6, NoticeLines, v8 - v12, v8)
    BY <1>1 DEF OverlayInv
  <2>3. QED
    BY <1>2, <1>3, <2>1, <2>2
<1>7. v9' = v11' /\ v11' \in 0 .. MaxFrames /\ v10' = [background |-> v11', overlay |-> r]
  BY <1>1 DEF OverlayInv
<1>8. v8' # v12' => v5 = "Password" /\ v6 = Overlay!Unavailable
  BY <1>5 DEF OverlayInv
<1>9. Conversing'
  BY <1>1 DEF OverlayInv, Conversing, Overlay!Unavailable, Overlay!AuthenticationFailed
<1>10. QED
  BY <1>1, <1>5, <1>6, <1>7, <1>8, <1>9 DEF OverlayInv, r, Overlay!Unavailable

\* An input that was wiped.
LEMMA NothingTyped ==
    << >> \in Seq(1 .. 4) /\ Len(<< >>) <= MAX_TEXT_CHARS
<1>1. << >> \in Seq(1 .. 4) /\ Len(<< >>) = 0
  OBVIOUS
<1>2. QED
  BY <1>1, OverlayNumbers

\* A failure clears what was typed and asks for the password (ReceiveFailure).
LEMMA FailureConverses ==
    ASSUME NEW text \in {Overlay!Unavailable, Overlay!AuthenticationFailed},
           Overlay!ReceiveFailure(text), v1' \in BOOLEAN, v2' \in BOOLEAN, v3' = FALSE
    PROVE  Conversing' /\ v5' = "Password" /\ v6' = text
<1>1. v7' = << >> /\ v5' = "Password" /\ v6' = text /\ v4' = "Failed"
  BY DEF Overlay!ReceiveFailure, Overlay!Password
<1>2. v7' \in Seq(1 .. 4) /\ Len(v7') <= MAX_TEXT_CHARS
  BY <1>1, NothingTyped
<1>3. v6' \in Notices \cup {"none", Overlay!Unavailable, Overlay!AuthenticationFailed}
  BY <1>1
<1>4. QED
  BY <1>1, <1>2, <1>3 DEF Conversing, Overlay!Unavailable, Overlay!AuthenticationFailed

\* The compositor confirms the lock, and the first worker runs or does not.
LEMMA ConfirmedStep ==
    ASSUME OverlayInv, Overlay!lock_confirmed
    PROVE  OverlayInv'
<1>1. /\ ~v1 /\ v1' = TRUE /\ UNCHANGED <<v2, v3, v8>> /\ Overlay!rebuild_overlay(TRUE)
      /\ UNCHANGED <<v4, v5, v6, v7>> \/ Overlay!ReceiveFailure(Overlay!Unavailable)
  BY DEF Overlay!lock_confirmed, Overlay!conversation
<1>2. v8' = 0 /\ v8' \in Nat /\ v3' = FALSE /\ v2' \in BOOLEAN /\ v1'
  BY <1>1 DEF OverlayInv, Conversing
<1>3. FirstOrOnly'
  BY <1>2 DEF FirstOrOnly
<1>4. Conversing'
  <2>1. CASE UNCHANGED <<v4, v5, v6, v7>>
    BY <1>1, <2>1 DEF OverlayInv, Conversing, Overlay!Unavailable, Overlay!AuthenticationFailed
  <2>2. CASE Overlay!ReceiveFailure(Overlay!Unavailable)
    BY <1>1, <1>2, <2>2, FailureConverses
  <2>3. QED
    BY <1>1, <2>1, <2>2
<1>5. QED
  BY <1>1, <1>2, <1>3, <1>4, FreshOverlay

\* A prompt, a notice or a verdict arrives, and is shown from its first page.
LEMMA ReceiveStep ==
    ASSUME OverlayInv, Overlay!receive_latest
    PROVE  OverlayInv'
<1>1. /\ v1 /\ v2 /\ v1' = v1 /\ v2' = v2 /\ v8' = 0 /\ Overlay!rebuild_overlay(TRUE)
      /\ Overlay!Event
  BY DEF Overlay!receive_latest
<1>2. v1 = TRUE /\ v2 = TRUE
  BY <1>1 DEF OverlayInv, Conversing
<1>3. v1' /\ v2' /\ v1' \in BOOLEAN /\ v2' \in BOOLEAN
  BY <1>1, <1>2
<1>4. FirstOrOnly' /\ v8' \in Nat
  BY <1>1 DEF FirstOrOnly
<1>5. Conversing
  BY DEF OverlayInv
<1>6. Conversing'
  <2>1. CASE /\ v4 = "Submitting" /\ UNCHANGED v6
             /\ \E text \in Prompts :
                  v5' = text /\ v4' = "Waiting" /\ v7' = << >> /\ v3' = TRUE
    BY <1>3, <1>5, <2>1, NothingTyped DEF Conversing, Overlay!Unavailable, Overlay!AuthenticationFailed
  <2>2. CASE /\ v4 = "Submitting" /\ UNCHANGED <<v4, v5, v7, v3>>
             /\ \E text \in Notices : v6' = text
    BY <1>3, <1>5, <2>2 DEF Conversing, Overlay!Unavailable, Overlay!AuthenticationFailed
  <2>3. CASE /\ v4 = "Submitting" /\ v4' = "Succeeded" /\ v7' = << >> /\ v6' = "none"
             /\ v3' = FALSE /\ UNCHANGED v5
    BY <1>3, <1>5, <2>3, NothingTyped DEF Conversing, Overlay!Unavailable, Overlay!AuthenticationFailed
  <2>4. CASE Overlay!ReceiveFailure(Overlay!AuthenticationFailed) /\ v3' = FALSE
    BY <1>3, <2>4, FailureConverses
  <2>5. QED
    BY <1>1, <2>1, <2>2, <2>3, <2>4 DEF Overlay!Event, Overlay!None
<1>7. QED
  BY <1>1, <1>3, <1>4, <1>6, FreshOverlay

\* A frame of the wallpaper comes under the overlay that is shown.
LEMMA DeferredStep ==
    ASSUME OverlayInv, Overlay!receive_deferred
    PROVE  OverlayInv'
<1>1. /\ v11 < MaxFrames /\ v11' = v11 + 1 /\ v9' = v11'
      /\ v10' = [v10 EXCEPT !.background = v9']
      /\ UNCHANGED <<v1, v2, v3, v4, v5, v6, v7, v8, v12, v13>>
  BY DEF Overlay!receive_deferred, Overlay!conversation
<1> DEFINE r == Overlay!render_authentication_overlay
<1>2. r' = r
  BY <1>1 DEF Overlay!render_authentication_overlay, Overlay!PromptPage, Overlay!NoticePage,
              Overlay!persistent_prompt, Overlay!Field
<1>3. v10 = [background |-> v11, overlay |-> r]
  BY DEF OverlayInv
<1> HIDE DEF r
<1>4. v10' = [background |-> v11', overlay |-> r]
  BY <1>1, <1>3
<1>5. v11' \in 0 .. MaxFrames
  BY <1>1, OverlayNumbers DEF OverlayInv
<1>6. Conversing'
  BY <1>1 DEF OverlayInv, Conversing, Overlay!Unavailable, Overlay!AuthenticationFailed
<1>7. v10' = [background |-> v11', overlay |-> Overlay!render_authentication_overlay']
  BY <1>2, <1>4 DEF r
<1>8. QED
  BY <1>1, <1>5, <1>6, <1>7 DEF OverlayInv, Overlay!Unavailable

\* A key adds characters to the input.
LEMMA TextStep ==
    ASSUME OverlayInv, Overlay!Text
    PROVE  OverlayInv'
<1>1. /\ v1 /\ v4 = "Waiting" /\ UNCHANGED <<v1, v2, v3, v4, v5, v6, v8>>
      /\ Overlay!rebuild_overlay(FALSE)
      /\ \E value \in Inputs : v7' = Overlay!append_bounded(v7, value)
  BY DEF Overlay!Text
<1>2. Conversing /\ v7 \in Seq(1 .. 4) /\ Len(v7) <= MAX_TEXT_CHARS
  BY DEF OverlayInv, Conversing
<1>3. v7' \in Seq(1 .. 4) /\ Len(v7') <= MAX_TEXT_CHARS
  <2>1. PICK value \in Inputs : v7' = Overlay!append_bounded(v7, value)
    BY <1>1
  <2>2. value \in Seq(1 .. 4)
    BY OverlayNumbers
  <2>3. QED
    BY <1>2, <2>1, <2>2, AppendFits
<1>4. Conversing'
  BY <1>1, <1>2, <1>3 DEF Conversing, Overlay!Unavailable, Overlay!AuthenticationFailed
<1>5. QED
  BY <1>1, <1>4, KeptOverlay

\* The last character is taken back.
LEMMA BackspaceStep ==
    ASSUME OverlayInv, Overlay!Backspace
    PROVE  OverlayInv'
<1>1. /\ v1 /\ v4 = "Waiting" /\ UNCHANGED <<v1, v2, v3, v4, v5, v6, v8>>
      /\ Overlay!rebuild_overlay(FALSE) /\ v7 # << >> /\ v7' = Overlay!Front(v7)
  BY DEF Overlay!Backspace
<1>2. Conversing /\ v7 \in Seq(1 .. 4) /\ Len(v7) <= MAX_TEXT_CHARS
  BY DEF OverlayInv, Conversing
<1>3. v7' \in Seq(1 .. 4) /\ Len(v7') <= MAX_TEXT_CHARS
  <2>1. v7' = SubSeq(v7, 1, Len(v7) - 1)
    BY <1>1 DEF Overlay!Front
  <2>2. Len(v7) \in Nat /\ Len(v7) > 0
    BY <1>1, <1>2
  <2> DEFINE m == Len(v7) - 1
  <2>3. m \in Nat /\ m <= Len(v7)
    BY <2>2
  <2> HIDE DEF m
  <2>4. SubSeq(v7, 1, m) \in Seq(1 .. 4) /\ Len(SubSeq(v7, 1, m)) = m
    BY <1>2, <2>2, <2>3
  <2>5. v7' = SubSeq(v7, 1, m)
    BY <2>1 DEF m
  <2>6. m <= MAX_TEXT_CHARS
    BY <1>2, <2>2, <2>3, OverlayNumbers
  <2>7. QED
    BY <2>4, <2>5, <2>6
<1>4. Conversing'
  BY <1>1, <1>2, <1>3 DEF Conversing, Overlay!Unavailable, Overlay!AuthenticationFailed
<1>5. QED
  BY <1>1, <1>4, KeptOverlay

\* The answer reaches the worker, or the worker is gone.
LEMMA SubmitStep ==
    ASSUME OverlayInv, Overlay!Submit
    PROVE  OverlayInv'
<1>1. /\ v1 /\ v2 /\ v3' = FALSE /\ UNCHANGED <<v1, v2, v8>>
      /\ \/ /\ v4' = "Submitting" /\ v7' = << >> /\ UNCHANGED <<v5, v6>>
            /\ Overlay!rebuild_overlay(FALSE)
         \/ Overlay!ReceiveFailure(Overlay!Unavailable) /\ Overlay!rebuild_overlay(TRUE)
  BY DEF Overlay!Submit
<1>2. Conversing /\ v8 \in Nat
  BY DEF OverlayInv
<1>3. v1 = TRUE /\ v2 \in BOOLEAN
  BY <1>1, <1>2 DEF Conversing
<1>4. v1' /\ v1' \in BOOLEAN /\ v2' \in BOOLEAN /\ v8' \in Nat
  BY <1>1, <1>2, <1>3
<1>5. CASE /\ v4' = "Submitting" /\ v7' = << >> /\ UNCHANGED <<v5, v6>>
           /\ Overlay!rebuild_overlay(FALSE)
  <2>1. Conversing'
    BY <1>1, <1>2, <1>4, <1>5, NothingTyped
       DEF Conversing, Overlay!Unavailable, Overlay!AuthenticationFailed
  <2>2. QED
    BY <1>1, <1>5, <2>1, KeptOverlay
<1>6. CASE Overlay!ReceiveFailure(Overlay!Unavailable) /\ Overlay!rebuild_overlay(TRUE)
  <2>1. Conversing' /\ v5' = "Password" /\ v6' = Overlay!Unavailable
    BY <1>1, <1>4, <1>6, FailureConverses
  <2>2. FirstOrOnly'
    BY <2>1 DEF FirstOrOnly, Overlay!Unavailable
  <2>3. QED
    BY <1>4, <1>6, <2>1, <2>2, FreshOverlay
<1>7. QED
  BY <1>1, <1>5, <1>6

\* An attempt begins again, with a worker or without (retry, cancel_attempt).
LEMMA BeginAgainStep ==
    ASSUME OverlayInv, v1, Overlay!BeginAgain
    PROVE  OverlayInv'
<1>1. /\ v3' = FALSE /\ v8' = 0 /\ UNCHANGED v1 /\ Overlay!rebuild_overlay(TRUE)
      /\ \/ /\ v7' = << >> /\ v6' = "none" /\ v4' = "Submitting" /\ UNCHANGED v5
            /\ v2' = TRUE
         \/ Overlay!ReceiveFailure(Overlay!Unavailable) /\ v2' = FALSE
  BY DEF Overlay!BeginAgain, Overlay!begin_attempt, Overlay!None
<1>2. Conversing /\ v1 = TRUE
  BY DEF OverlayInv, Conversing
<1>3. v1' /\ v1' \in BOOLEAN /\ v2' \in BOOLEAN
  BY <1>1, <1>2
<1>4. FirstOrOnly' /\ v8' \in Nat
  BY <1>1 DEF FirstOrOnly
<1>5. Conversing'
  <2>1. CASE /\ v7' = << >> /\ v6' = "none" /\ v4' = "Submitting" /\ UNCHANGED v5
             /\ v2' = TRUE
    BY <1>1, <1>2, <1>3, <2>1, NothingTyped
       DEF Conversing, Overlay!Unavailable, Overlay!AuthenticationFailed
  <2>2. CASE Overlay!ReceiveFailure(Overlay!Unavailable)
    BY <1>1, <1>3, <2>2, FailureConverses
  <2>3. QED
    BY <1>1, <2>1, <2>2
<1>6. QED
  BY <1>1, <1>3, <1>4, <1>5, FreshOverlay

\* Every step of the overlay keeps its invariant.
LEMMA OverlayStep ==
    ASSUME OverlayInv, Overlay!Next
    PROVE  OverlayInv'
<1>1. CASE Overlay!retry \/ Overlay!cancel_attempt
  BY <1>1, BeginAgainStep DEF Overlay!retry, Overlay!cancel_attempt
<1>2. QED
  BY <1>1, ConfirmedStep, ReceiveStep, DeferredStep, TextStep, BackspaceStep, SubmitStep,
     NextPageStep DEF Overlay!Next

\* The overlay starts in its invariant.
LEMMA OverlayStart ==
    ASSUME Overlay!Init
    PROVE  OverlayInv
<1>1. /\ v1 = FALSE /\ v2 = TRUE /\ v3 = FALSE /\ v4 = "Submitting" /\ v5 = "Password"
      /\ v6 = "none" /\ v7 = << >> /\ v8 = 0 /\ v11 = 0 /\ v9 = 0 /\ v12 = 0
      /\ v10 = [background |-> 0, overlay |-> Overlay!render_authentication_overlay]
  BY DEF Overlay!Init, Overlay!Password, Overlay!None
<1>2. 0 \in 0 .. MaxFrames
  BY OverlayNumbers
<1>3. Conversing
  BY <1>1, NothingTyped DEF Conversing, Overlay!Unavailable, Overlay!AuthenticationFailed
<1>4. QED
  BY <1>1, <1>2, <1>3 DEF OverlayInv

\* The invariant of the overlay is what a reader asks for.
LEMMA OverlayFacts ==
    ASSUME OverlayInv
    PROVE  /\ Overlay!TypeOK /\ Overlay!FrameIsCurrent /\ Overlay!InputStaysInItsBuffer
           /\ Overlay!TextBeginsAtItsStart /\ Overlay!EveryLineIsShown
<1>1. Conversing
  BY DEF OverlayInv
<1>2. Overlay!TypeOK
  BY <1>1 DEF OverlayInv, Conversing, Overlay!TypeOK, Overlay!Password, Overlay!None
<1>3. Overlay!FrameIsCurrent
  BY DEF OverlayInv, Overlay!FrameIsCurrent
<1>4. Overlay!InputStaysInItsBuffer
  <2>1. v7 \in Seq(1 .. 4) /\ Len(v7) <= MAX_TEXT_CHARS /\ Len(v7) \in Nat
    BY <1>1 DEF Conversing
  <2>2. Overlay!Bytes(v7) \in Nat /\ Overlay!Bytes(v7) <= 4 * Len(v7)
    BY <2>1, BytesBound
  <2>3. QED
    BY <2>1, <2>2, OverlayNumbers DEF Overlay!InputStaysInItsBuffer, Overlay!MAX_INPUT_BYTES
<1>5. v8 \in Nat /\ v12 \in 0 .. v8 /\ v8 - v12 \in Nat
  BY DEF OverlayInv
<1>6. Lines[v5] \in Nat /\ (v6 # "none" => Lines[v6] \in Nat)
  BY <1>1, LinesType DEF Conversing
<1>7. PromptLines \in Nat \ {0} /\ NoticeLines \in Nat \ {0}
  BY OverlayNumbers
<1>8. Overlay!EveryLineIsShown
  <2>1. ASSUME v1, v5 # "Password", v12 + 1 >= Overlay!PageCount(v5, PromptLines)
        PROVE  v13.prompt = 1 .. Lines[v5]
    <3>1. v13.prompt = Turned(v5, PromptLines, v8 - v12, v8)
      BY <2>1 DEF OverlayInv
    <3>2. v8 - (v8 - v12) + 1 = v12 + 1
      BY <1>5
    <3>3. v8 - (v8 - v12) + 1 >= Overlay!PageCount(v5, PromptLines)
      BY <3>2, <2>1, Zenon
    <3>4. Turned(v5, PromptLines, v8 - v12, v8) = 1 .. Lines[v5]
      BY <1>5, <1>6, <1>7, <2>1, <3>3, TurnedAll
    <3>5. QED
      BY <3>1, <3>4
  <2>2. ASSUME v1, v6 # "none", v12 + 1 >= Overlay!PageCount(v6, NoticeLines)
        PROVE  v13.notice = 1 .. Lines[v6]
    <3>1. v13.notice = Turned(v6, NoticeLines, v8 - v12, v8)
      BY <2>2 DEF OverlayInv
    <3>2. v8 - (v8 - v12) + 1 = v12 + 1
      BY <1>5
    <3>3. v8 - (v8 - v12) + 1 >= Overlay!PageCount(v6, NoticeLines)
      BY <3>2, <2>2, Zenon
    <3>4. Turned(v6, NoticeLines, v8 - v12, v8) = 1 .. Lines[v6]
      BY <1>5, <1>6, <1>7, <2>2, <3>3, TurnedAll
    <3>5. QED
      BY <3>1, <3>4
  <2>3. QED
    BY <2>1, <2>2 DEF Overlay!EveryLineIsShown, Overlay!persistent_prompt, Overlay!Password, Overlay!None
<1>9. Overlay!TextBeginsAtItsStart
  <2>1. ASSUME v1, v12 = 0, v5 # "Password", Lines[v5] > 0
        PROVE  1 \in v13.prompt
    <3>1. v8 = 0
      BY <2>1 DEF OverlayInv
    <3>2. v13.prompt = Turned(v5, PromptLines, 0, 0)
      BY <2>1, <3>1 DEF OverlayInv
    <3>3. Turned(v5, PromptLines, 0, 0) = Overlay!page_layout(v5, PromptLines, 0)
      BY TurnedPages
    <3>4. QED
      BY <1>6, <1>7, <2>1, <3>2, <3>3, FirstPage
  <2>2. ASSUME v1, v12 = 0, v6 # "none", Lines[v6] > 0
        PROVE  1 \in v13.notice
    <3>1. v13.notice = Turned(v6, NoticeLines, v8 - v12, v8)
      BY <2>2 DEF OverlayInv
    <3>2. CASE v8 = 0
      <4>1. v13.notice = Turned(v6, NoticeLines, 0, 0)
        BY <2>2, <3>1, <3>2
      <4>2. Turned(v6, NoticeLines, 0, 0) = Overlay!page_layout(v6, NoticeLines, 0)
        BY TurnedPages
      <4>3. QED
        BY <1>6, <1>7, <2>2, <4>1, <4>2, FirstPage
    <3>3. CASE v8 # 0
      <4>1. v6 = Overlay!Unavailable
        BY <2>2, <3>3 DEF OverlayInv
      <4>2. Lines[v6] <= NoticeLines
        BY <4>1, OverlayNumbers
      <4>3. Overlay!PageCount(v6, NoticeLines) = 1
        BY <1>6, <1>7, <2>2, <4>2, Pages
      <4>4. v13.notice = 1 .. Lines[v6]
        <5>1. v8 - (v8 - v12) + 1 >= Overlay!PageCount(v6, NoticeLines)
          BY <1>5, <4>3
        <5>2. Turned(v6, NoticeLines, v8 - v12, v8) = 1 .. Lines[v6]
          BY <1>5, <1>6, <1>7, <2>2, <5>1, TurnedAll
        <5>3. QED
          BY <3>1, <5>2
      <4>5. QED
        BY <1>6, <2>2, <4>4
    <3>4. QED
      BY <3>2, <3>3
  <2>3. QED
    BY <2>1, <2>2 DEF Overlay!TextBeginsAtItsStart, Overlay!persistent_prompt, Overlay!Password, Overlay!None
<1>10. QED
  BY <1>2, <1>3, <1>4, <1>8, <1>9

-----------------------------------------------------------------------------
(* The pixels: v1 to v5 are the variables of Raster. *)

\* A frame with its overlay on its canvas, and a surface within the limit on its bytes.
PaintInv ==
    /\ v1.width \in Nat \ {0} /\ v1.height \in Nat \ {0}
    /\ v1.w \in Nat \ {0} /\ v1.h \in Nat \ {0} /\ v1.x \in Nat /\ v1.y \in Nat
    /\ v1.x + v1.w <= v1.width /\ v1.y + v1.h <= v1.height
    /\ v2 = <<v1.width, v1.height>>
    /\ v3[1] \in Nat \ {0} /\ v3[2] \in Nat \ {0} /\ v3[1] * v3[2] * 4 <= LargestBuffer
    /\ v4 \in 0 .. v3[1] - 1 /\ v5 \in 0 .. v3[2] - 1

\* A quotient, rounded down.
LEMMA Quotient ==
    ASSUME NEW a \in Nat, NEW b \in Nat \ {0}
    PROVE  a \div b \in Nat /\ b * (a \div b) <= a /\ a < b * (a \div b) + b
OBVIOUS

\* A quotient is at most what its numerator is at most a multiple of.
LEMMA QuotientBelow ==
    ASSUME NEW a \in Nat, NEW b \in Nat \ {0}, NEW k \in Nat, a <= b * k
    PROVE  a \div b <= k
<1> DEFINE q == a \div b
<1>1. q \in Nat /\ b * q <= a
  BY Quotient
<1> HIDE DEF q
<1>2. CASE q >= k + 1
  <2>1. b * q >= b * (k + 1)
    BY <1>1, <1>2
  <2>2. b * (k + 1) = b * k + b
    OBVIOUS
  <2>3. QED
    BY <1>1, <2>1, <2>2
<1>3. CASE q <= k
  BY <1>3 DEF q
<1>4. QED
  BY <1>1, <1>2, <1>3

\* It is at least what its numerator is at least a multiple of.
LEMMA QuotientAbove ==
    ASSUME NEW a \in Nat, NEW b \in Nat \ {0}, NEW k \in Nat, b * k <= a
    PROVE  k <= a \div b
<1> DEFINE q == a \div b
<1>1. q \in Nat /\ a < b * q + b
  BY Quotient
<1> HIDE DEF q
<1>2. CASE q + 1 <= k
  <2>1. b * (q + 1) <= b * k
    BY <1>1, <1>2
  <2>2. b * (q + 1) = b * q + b
    BY <1>1
  <2>3. QED
    BY <1>1, <2>1, <2>2
<1>3. CASE q >= k
  BY <1>3 DEF q
<1>4. QED
  BY <1>1, <1>2, <1>3

\* A quotient, rounded up (div_ceil_u128).
LEMMA QuotientUp ==
    ASSUME NEW a \in Nat, NEW b \in Nat \ {0}
    PROVE  /\ Paint!div_ceil(a, b) \in Nat /\ a <= b * Paint!div_ceil(a, b)
           /\ \A k \in Nat : a <= b * k => Paint!div_ceil(a, b) <= k
           /\ \A k \in Nat : b * k < a => k < Paint!div_ceil(a, b)
<1> DEFINE n == a + b - 1  c == n \div b
<1>1. n \in Nat
  OBVIOUS
<1> HIDE DEF n
<1>2. c \in Nat /\ b * c <= n /\ n < b * c + b
  BY <1>1, Quotient
<1>3. Paint!div_ceil(a, b) = c
  BY DEF Paint!div_ceil, n
<1> HIDE DEF c
<1>4. a <= b * c
  BY <1>2 DEF n
<1>5. ASSUME NEW k \in Nat, a <= b * k
      PROVE  c <= k
  <2>1. CASE c >= k + 1
    <3>1. b * c >= b * (k + 1) /\ b * (k + 1) = b * k + b
      BY <1>2, <2>1
    <3>2. QED
      BY <1>2, <1>5, <3>1 DEF n
  <2>2. QED
    BY <1>2, <2>1
<1>6. ASSUME NEW k \in Nat, b * k < a
      PROVE  k < c
  <2>1. CASE c <= k
    <3>1. b * c <= b * k
      BY <1>2, <2>1
    <3>2. QED
      BY <1>2, <1>4, <1>6, <3>1
  <2>2. QED
    BY <1>2, <2>1
<1>7. QED
  BY <1>2, <1>3, <1>4, <1>5, <1>6

\* One axis of the overlay: its share of a canvas of c pixels, centred on s pixels, both ends
\* rounded outwards.
LEMMA Share ==
    ASSUME NEW s \in Nat, NEW c \in Nat, c <= s, NEW size \in Nat \ {0}, NEW at \in Nat,
           NEW share \in Nat \ {0}, at + share <= size
    PROVE  LET centre == (s - c) \div 2
               low    == centre + (at * c) \div size
               high   == centre + Paint!div_ceil((at + share) * c, size) IN
           /\ centre \in Nat /\ low \in Nat /\ high \in Nat /\ low <= high /\ high <= s
           /\ (low - centre) * size <= at * c
           /\ (at + share) * c <= (high - centre) * size
           /\ c > 0 => low < high
<1> DEFINE centre == (s - c) \div 2
           a == (at * c) \div size
           e == (at + share) * c
           b == Paint!div_ceil(e, size)
<1>1. centre \in Nat /\ centre + c <= s
  OBVIOUS
<1>2. at * c \in Nat /\ e \in Nat /\ e = at * c + share * c /\ share * c \in Nat
  OBVIOUS
<1>3. a \in Nat /\ size * a <= at * c
  BY <1>2, Quotient
<1>4. e <= size * c
  <2>1. size - (at + share) \in Nat
    OBVIOUS
  <2>2. (size - (at + share)) * c \in Nat
    BY <2>1
  <2>3. (size - (at + share)) * c = size * c - e
    OBVIOUS
  <2>4. QED
    BY <2>2, <2>3, <1>2
<1>5. b \in Nat /\ e <= size * b /\ b <= c
  BY <1>2, <1>4, QuotientUp
<1>6. a <= b
  <2>1. CASE b < a
    <3>1. size * b < size * a
      BY <1>3, <1>5, <2>1
    <3>2. QED
      BY <1>2, <1>3, <1>5, <3>1
  <2>2. QED
    BY <1>3, <1>5, <2>1
<1>7. c > 0 => a < b
  <2>1. ASSUME c > 0
        PROVE  size * a < e
    <3>1. share * c > 0
      BY <2>1
    <3>2. QED
      BY <1>2, <1>3, <3>1
  <2>2. QED
    BY <1>2, <1>3, <2>1, QuotientUp
<1> HIDE DEF a, b, centre, e
<1>8. /\ centre + a \in Nat /\ centre + b \in Nat /\ centre + a <= centre + b
      /\ centre + b <= s /\ (centre + a) - centre = a /\ (centre + b) - centre = b
      /\ c > 0 => centre + a < centre + b
  BY <1>1, <1>3, <1>5, <1>6, <1>7
<1>9. a * size = size * a /\ b * size = size * b
  BY <1>3, <1>5
<1>10. QED
  BY <1>1, <1>3, <1>5, <1>8, <1>9 DEF a, b, centre, e

\* The canvas fits the surface.
LEMMA CanvasFits ==
    ASSUME PaintInv
    PROVE  LET limited == v3[1] * v1.height <= v1.width * v3[2]
               cw == IF limited THEN v3[1] ELSE (v1.width * v3[2]) \div v1.height
               ch == IF limited THEN (v1.height * v3[1]) \div v1.width ELSE v3[2] IN
           cw \in Nat /\ cw <= v3[1] /\ ch \in Nat /\ ch <= v3[2]
<1> DEFINE W == v1.width  H == v1.height  w == v3[1]  h == v3[2]
<1>1. W \in Nat \ {0} /\ H \in Nat \ {0} /\ w \in Nat \ {0} /\ h \in Nat \ {0}
  BY DEF PaintInv
<1> HIDE DEF W, H, w, h
<1>2. W * h \in Nat /\ H * w \in Nat /\ w * H = H * w
  BY <1>1
<1>3. CASE w * H <= W * h
  <2>1. (H * w) \div W \in Nat /\ (H * w) \div W <= h
    BY <1>1, <1>2, <1>3, Quotient, QuotientBelow
  <2>2. QED
    BY <1>1, <1>3, <2>1 DEF W, H, w, h
<1>4. CASE ~(w * H <= W * h)
  <2>1. (W * h) \div H \in Nat /\ (W * h) \div H <= w
    BY <1>1, <1>2, <1>4, Quotient, QuotientBelow
  <2>2. QED
    BY <1>1, <1>4, <2>1 DEF W, H, w, h
<1>5. QED
  BY <1>3, <1>4

\* The sides of the canvas on the surface.
Canvas ==
    LET limited == v3[1] * v1.height <= v1.width * v3[2] IN
    <<IF limited THEN v3[1] ELSE (v1.width * v3[2]) \div v1.height,
      IF limited THEN (v1.height * v3[1]) \div v1.width ELSE v3[2]>>

\* The overlay has its share of the canvas, or there is no canvas.
LEMMA OverlayLies ==
    ASSUME PaintInv
    PROVE  LET t == Paint!Target
               cx == (v3[1] - Canvas[1]) \div 2 IN
           \/ t = Paint!Nowhere
           \/ /\ t = [x |-> t.x, y |-> t.y, width |-> t.width, height |-> t.height]
              /\ t.x \in Nat /\ t.y \in Nat /\ t.width \in Nat \ {0} /\ t.height \in Nat \ {0}
              /\ t.x + t.width <= v3[1] /\ t.y + t.height <= v3[2]
              /\ (t.x - cx) * v1.width <= v1.x * Canvas[1]
              /\ (v1.x + v1.w) * Canvas[1] <= (t.x + t.width - cx) * v1.width
<1> DEFINE cw == Canvas[1]  ch == Canvas[2]
           cx == (v3[1] - cw) \div 2
           cy == (v3[2] - ch) \div 2
           left == cx + (v1.x * cw) \div v1.width
           top == cy + (v1.y * ch) \div v1.height
           right == cx + Paint!div_ceil((v1.x + v1.w) * cw, v1.width)
           bottom == cy + Paint!div_ceil((v1.y + v1.h) * ch, v1.height)
<1>1. cw \in Nat /\ cw <= v3[1] /\ ch \in Nat /\ ch <= v3[2]
  BY CanvasFits DEF Canvas
<1>2. Paint!Target = IF cw = 0 \/ ch = 0 THEN Paint!Nowhere
                     ELSE [x |-> left, y |-> top,
                           width |-> Paint!Greatest(right - left, 0),
                           height |-> Paint!Greatest(bottom - top, 0)]
  BY DEF Paint!Target, Paint!overlay_geometry, Canvas
<1> HIDE DEF cw, ch
<1>3. /\ cx \in Nat /\ left \in Nat /\ right \in Nat /\ left <= right /\ right <= v3[1]
      /\ (left - cx) * v1.width <= v1.x * cw
      /\ (v1.x + v1.w) * cw <= (right - cx) * v1.width
      /\ cw > 0 => left < right
  <2>1. /\ v3[1] \in Nat /\ v1.width \in Nat \ {0} /\ v1.x \in Nat /\ v1.w \in Nat \ {0}
        /\ v1.x + v1.w <= v1.width
    BY DEF PaintInv
  <2>2. QED
    BY <1>1, <2>1, Share
<1>4. /\ top \in Nat /\ bottom \in Nat /\ top <= bottom /\ bottom <= v3[2]
      /\ ch > 0 => top < bottom
  <2>1. /\ v3[2] \in Nat /\ v1.height \in Nat \ {0} /\ v1.y \in Nat /\ v1.h \in Nat \ {0}
        /\ v1.y + v1.h <= v1.height
    BY DEF PaintInv
  <2>2. QED
    BY <1>1, <2>1, Share
<1> HIDE DEF left, right, top, bottom, cx
<1>5. CASE cw = 0 \/ ch = 0
  BY <1>2, <1>5
<1>6. CASE cw > 0 /\ ch > 0
  <2> DEFINE t == Paint!Target
  <2>1. /\ Paint!Greatest(right - left, 0) = right - left
        /\ Paint!Greatest(bottom - top, 0) = bottom - top
    BY <1>3, <1>4 DEF Paint!Greatest
  <2>2. t = [x |-> left, y |-> top, width |-> right - left, height |-> bottom - top]
    BY <1>2, <1>6, <2>1
  <2> HIDE DEF t
  <2>3. t.x = left /\ t.y = top /\ t.width = right - left /\ t.height = bottom - top
    BY <2>2
  <2>4. /\ t.x \in Nat /\ t.y \in Nat /\ t.width \in Nat \ {0} /\ t.height \in Nat \ {0}
        /\ t.x + t.width = right /\ t.y + t.height = bottom
    BY <1>3, <1>4, <1>6, <2>3
  <2>5. QED
    BY <1>3, <1>4, <2>2, <2>3, <2>4 DEF t, cx, cw
<1>7. QED
  BY <1>1, <1>5, <1>6

\* Both sides of a part are at most those of the whole.
LEMMA AreaFits ==
    ASSUME NEW a \in Nat, NEW b \in Nat, NEW c \in Nat, NEW d \in Nat, a <= c, b <= d
    PROVE  a * b <= c * d
<1>1. a * b <= c * b
  OBVIOUS
<1>2. c * b <= c * d
  OBVIOUS
<1>3. QED
  BY <1>1, <1>2

\* It lies within the surface, and covers what it has to (overlay_geometry).
LEMMA OverlayFits ==
    ASSUME PaintInv
    PROVE  Paint!OverlayFitsSurface /\ Paint!OverlayIsCovered
<1> DEFINE t == Paint!Target  w == v3[1]  h == v3[2]
<1>1. w \in Nat \ {0} /\ h \in Nat \ {0} /\ w * h * 4 <= LargestBuffer
  BY DEF PaintInv
<1>2. CASE t = Paint!Nowhere
  <2>1. t.x = 0 /\ t.y = 0 /\ t.width = 0 /\ t.height = 0
    BY <1>2 DEF Paint!Nowhere
  <2> DEFINE F == Paint!Full(w, h)
  <2>2. F.x = 0 /\ F.y = 0 /\ F.width = w /\ F.height = h
    BY DEF Paint!Full
  <2> HIDE DEF t, F, w, h
  <2>3. Paint!intersect(F, t) = Paint!Nowhere
    BY <1>1, <2>1, <2>2 DEF Paint!intersect, Paint!Greatest, Paint!Least
  <2>4. QED
    BY <1>1, <1>2, <2>1, <2>3 DEF Paint!OverlayFitsSurface, Paint!OverlayIsCovered, F, t, w, h
<1>3. CASE t # Paint!Nowhere
  <2> DEFINE cx == (w - Canvas[1]) \div 2
  <2>1. /\ t = [x |-> t.x, y |-> t.y, width |-> t.width, height |-> t.height]
        /\ t.x \in Nat /\ t.y \in Nat /\ t.width \in Nat \ {0} /\ t.height \in Nat \ {0}
        /\ t.x + t.width <= w /\ t.y + t.height <= h
        /\ (t.x - cx) * v1.width <= v1.x * Canvas[1]
        /\ (v1.x + v1.w) * Canvas[1] <= (t.x + t.width - cx) * v1.width
    BY <1>3, OverlayLies
  <2> DEFINE F == Paint!Full(w, h)
  <2>2. F.x = 0 /\ F.y = 0 /\ F.width = w /\ F.height = h
    BY DEF Paint!Full
  <2>3. Paint!intersect(F, t) = t
    <3> HIDE DEF t, F, w, h, cx
    <3>1. /\ Paint!Greatest(F.x, t.x) = t.x /\ Paint!Greatest(F.y, t.y) = t.y
          /\ Paint!Least(F.x + F.width, t.x + t.width) = t.x + t.width
          /\ Paint!Least(F.y + F.height, t.y + t.height) = t.y + t.height
      BY <1>1, <2>1, <2>2 DEF Paint!Greatest, Paint!Least
    <3>2. /\ t.x < t.x + t.width /\ t.y < t.y + t.height
          /\ t.x + t.width - t.x = t.width /\ t.y + t.height - t.y = t.height
      BY <2>1
    <3>3. QED
      BY <2>1, <3>1, <3>2 DEF Paint!intersect
  <2>4. Paint!OverlayFitsSurface
    BY <2>1, <2>3 DEF Paint!OverlayFitsSurface
  <2>5. Paint!RgbaFrame(t.width, t.height, t.width * t.height * 4)
    <3> HIDE DEF t, w, h, cx
    <3>1. t.width <= w /\ t.height <= h
      BY <1>1, <2>1
    <3>2. t.width * t.height <= w * h
      BY <1>1, <2>1, <3>1, AreaFits
    <3>3. LargestBuffer \in Nat /\ LargestInteger \in Nat /\ LargestBuffer <= LargestInteger
      BY PaintAssumption DEF Paint!RasterAssumption
    <3>4. t.width * t.height * 4 <= LargestInteger
      BY <1>1, <2>1, <3>2, <3>3
    <3>5. QED
      BY <2>1, <3>4 DEF Paint!RgbaFrame
  <2>6. Paint!redraw_region("Overlay", TRUE, v1, w, h) = t
    BY <1>3 DEF Paint!redraw_region, Paint!Target
  <2>7. Paint!OverlayIsCovered
    BY <2>1, <2>5, <2>6 DEF Paint!OverlayIsCovered, Canvas
  <2>8. QED
    BY <2>4, <2>7
<1>4. QED
  BY <1>2, <1>3

\* One axis of a pixel of the wallpaper.
LEMMA Sampled ==
    ASSUME NEW position \in Nat, NEW crop \in Nat, NEW scaled \in Nat \ {0},
           NEW source \in Nat \ {0}
    PROVE  Paint!source_coordinate(position, crop, scaled, source) \in 0 .. source - 1
<1>1. (position + crop) * source \in Nat
  OBVIOUS
<1>2. ((position + crop) * source) \div scaled \in Nat
  BY <1>1, Quotient
<1>3. QED
  BY <1>2 DEF Paint!source_coordinate, Paint!Least

\* The scaled wallpaper covers the surface (cover_geometry).
LEMMA WallpaperFills ==
    ASSUME PaintInv
    PROVE  Paint!WallpaperCovers
<1> DEFINE W == v1.width  H == v1.height  w == v3[1]  h == v3[2]
           g == Paint!cover_geometry(W, H, w, h)
<1>1. /\ W \in Nat \ {0} /\ H \in Nat \ {0} /\ w \in Nat \ {0} /\ h \in Nat \ {0}
      /\ v2[1] = W /\ v2[2] = H /\ v4 \in Nat /\ v5 \in Nat
  BY DEF PaintInv
<1> DEFINE wider == W * h > w * H
           sW == IF wider THEN (W * h) \div H ELSE w
           sH == IF wider THEN h ELSE (H * w) \div W
<1>2. g = [crop_x |-> Paint!Greatest(sW - w, 0) \div 2,
           crop_y |-> Paint!Greatest(sH - h, 0) \div 2, width |-> sW, height |-> sH]
  BY DEF Paint!cover_geometry
<1> HIDE DEF W, H, w, h, g
<1>3. sW \in Nat /\ sH \in Nat /\ sW >= w /\ sH >= h /\ (sW = w \/ sH = h)
  <2>1. W * h \in Nat /\ H * w \in Nat /\ w * H = H * w /\ h * W = W * h
    BY <1>1
  <2>2. CASE wider
    <3>1. (W * h) \div H \in Nat /\ w <= (W * h) \div H
      BY <1>1, <2>1, <2>2, Quotient, QuotientAbove
    <3>2. QED
      BY <1>1, <2>2, <3>1
  <2>3. CASE ~wider
    <3>1. (H * w) \div W \in Nat /\ h <= (H * w) \div W
      BY <1>1, <2>1, <2>3, Quotient, QuotientAbove
    <3>2. QED
      BY <1>1, <2>3, <3>1
  <2>4. QED
    BY <2>2, <2>3
<1> HIDE DEF sW, sH
<1>4. /\ Paint!Greatest(sW - w, 0) \div 2 \in Nat /\ Paint!Greatest(sH - h, 0) \div 2 \in Nat
  BY <1>1, <1>3 DEF Paint!Greatest
<1>5. /\ g.crop_x \in Nat /\ g.crop_y \in Nat /\ g.width = sW /\ g.height = sH
      /\ g.width \in Nat \ {0} /\ g.height \in Nat \ {0}
  BY <1>1, <1>2, <1>3, <1>4
<1>6. /\ Paint!source_coordinate(v4, g.crop_x, g.width, W) \in 0 .. W - 1
      /\ Paint!source_coordinate(v5, g.crop_y, g.height, H) \in 0 .. H - 1
  BY <1>1, <1>5, Sampled
<1>7. QED
  BY <1>1, <1>3, <1>5, <1>6 DEF Paint!WallpaperCovers, Paint!SourcePixel, W, H, w, h, g

\* Any frame, wallpaper and surface of the model is such.
LEMMA PaintStart ==
    ASSUME Paint!Init
    PROVE  PaintInv
<1>1. /\ v1 \in Paint!Frames /\ v2 = <<v1.width, v1.height>> /\ v4 = 0 /\ v5 = 0
      /\ Paint!BufferBytes(v3) > 0
  BY DEF Paint!Init
<1>2. PICK w \in 0 .. MaxSurfaceSide, h \in 0 .. MaxSurfaceSide, s \in 1 .. 2 :
        v3 = Paint!buffer_size(w, h, s) /\ v3 # Paint!Error
  BY DEF Paint!Init
<1>3. w * s \in Nat /\ h * s \in Nat
  BY <1>2, PaintAssumption DEF Paint!RasterAssumption
<1>4. v3 = <<w * s, h * s>> /\ w * s # 0 /\ h * s # 0
  BY <1>2 DEF Paint!buffer_size
<1>5. v3[1] \in Nat \ {0} /\ v3[2] \in Nat \ {0}
  BY <1>3, <1>4
<1>6. v3[1] * v3[2] * 4 <= LargestBuffer
  <2>1. LargestBuffer \in Nat /\ v3[1] * v3[2] * 4 \in Nat
    BY <1>5, PaintAssumption DEF Paint!RasterAssumption
  <2>2. QED
    BY <1>1, <1>2, <2>1 DEF Paint!BufferBytes
<1>7. /\ v1.width \in Nat \ {0} /\ v1.height \in Nat \ {0}
      /\ v1.w \in Nat \ {0} /\ v1.h \in Nat \ {0} /\ v1.x \in Nat /\ v1.y \in Nat
      /\ v1.x + v1.w <= v1.width /\ v1.y + v1.h <= v1.height
  BY <1>1, PaintAssumption DEF Paint!RasterAssumption, Paint!Frames, Paint!Side,
     Paint!PresentationFrame
<1>8. QED
  BY <1>1, <1>5, <1>6, <1>7 DEF PaintInv

\* The walk over the pixels stays on the surface.
LEMMA PaintStep ==
    ASSUME PaintInv, Paint!Next
    PROVE  PaintInv'
<1>1. /\ v1' = v1 /\ v2' = v2 /\ v3' = v3
      /\ v4' = Paint!Least(v4 + 1, v3[1] - 1) /\ v5' = Paint!Least(v5 + 1, v3[2] - 1)
  BY DEF Paint!Next
<1>2. v4' \in 0 .. v3[1] - 1 /\ v5' \in 0 .. v3[2] - 1
  BY <1>1 DEF PaintInv, Paint!Least
<1>3. QED
  BY <1>1, <1>2 DEF PaintInv

-----------------------------------------------------------------------------
(* The parts together *)

PartInv ==
    /\ part = "lock" => LockInv
    /\ part = "paint" => PaintInv
    /\ part = "overlay" => OverlayInv
    /\ part = "desktop" => DesktopInv
    /\ part = "images" => ImagesInv

\* A behaviour stays in its part and, in it, in the invariant of that part.
LEMMA PartStep ==
    ASSUME PartInv, Next
    PROVE  /\ PartInv'
           /\ part = "desktop" => DesktopSteps
           /\ part = "images" => Images!OnlySelectedAppears
<1>1. CASE part = "lock" /\ Lock!Next /\ part' = part
  BY <1>1, LockStep DEF PartInv
<1>2. CASE part = "paint" /\ Paint!Next /\ part' = part
  BY <1>2, PaintStep DEF PartInv
<1>3. CASE part = "overlay" /\ Overlay!Next /\ part' = part
  BY <1>3, OverlayStep DEF PartInv
<1>4. CASE part = "desktop" /\ Desktop!Next /\ part' = part
  BY <1>4, DesktopStep DEF PartInv
<1>5. CASE part = "images" /\ Images!Next /\ part' = part
  BY <1>5, ImagesStep DEF PartInv, ImagesStepDone
<1>6. QED
  BY <1>1, <1>2, <1>3, <1>4, <1>5 DEF Next

\* A step that changes nothing keeps the invariant.
LEMMA PartStutters ==
    ASSUME PartInv, UNCHANGED pool
    PROVE  PartInv'
<1>1. UNCHANGED <<part, v1, v2, v3, v4, v5, v6, v7, v8, v9, v10, v11, v12, v13>>
  BY DEF pool
<1>2. LockInv => LockInv'
  BY <1>1 DEF LockInv
<1>3. OverlayInv => OverlayInv'
  <2>1. Overlay!render_authentication_overlay' = Overlay!render_authentication_overlay
    BY <1>1 DEF Overlay!render_authentication_overlay, Overlay!PromptPage, Overlay!NoticePage,
                Overlay!persistent_prompt, Overlay!Field
  <2>2. Conversing => Conversing'
    BY <1>1 DEF Conversing, Overlay!Unavailable, Overlay!AuthenticationFailed
  <2>3. QED
    BY <1>1, <2>1, <2>2 DEF OverlayInv, Overlay!Unavailable
<1>4. DesktopInv => DesktopInv'
  BY <1>1 DEF DesktopInv
<1>5. ImagesInv => ImagesInv'
  BY <1>1 DEF ImagesInv, PlaybackInv, Playbacks, Images!frame
<1>6. PaintInv => PaintInv'
  BY <1>1 DEF PaintInv
<1>7. QED
  BY <1>1, <1>2, <1>3, <1>4, <1>5, <1>6 DEF PartInv

\* Every part starts in its invariant.
LEMMA PartStart ==
    ASSUME Init
    PROVE  PartInv
BY LockStart, PaintStart, OverlayStart, DesktopStart, ImagesStart DEF Init, PartInv

\* The invariant is inductive.
THEOREM PartsInvariant == Spec => []PartInv
<1>1. Init => PartInv
  BY PartStart
<1>2. PartInv /\ [Next]_pool => PartInv'
  BY PartStep, PartStutters
<1>3. QED
  BY <1>1, <1>2, PTL DEF Spec

\* A lock surface that owes no redraw shows the current frame, in its size and role, whatever
\* was reused to paint it; and the frame says all there is to say, from its first line on,
\* with no input beyond its buffer (render, select_reusable_buffer, rebuild_overlay,
\* page_layout, append_bounded).
THEOREM ScreenIsCurrent == Spec => []SettledScreenIsCurrent
<1>1. PartInv => SettledScreenIsCurrent
  BY LockFacts, OverlayFacts DEF PartInv, SettledScreenIsCurrent
<1>2. QED
  BY <1>1, PartsInvariant, PTL

\* The compositor owes a callback to exactly the surfaces that wait for one, and on the
\* desktop every commit fits, paints a free buffer and waits for the last one
\* (RedrawState, PresentationState, buffer_decision).
THEOREM CommitsPaced == Spec => CommitsArePaced
<1>1. PartInv => /\ part = "lock" => Lock!CallbackIsOwed
                 /\ part = "desktop" => Desktop!TypeOK /\ Desktop!CallbackIsOwed
  BY LockFacts, DesktopFacts DEF PartInv
<1>2. PartInv /\ [Next]_pool =>
        [part = "desktop" => /\ Desktop!CommittedFits /\ Desktop!HeldBufferIsNotPainted
                             /\ Desktop!RedrawIsPaced]_pool
  BY PartStep DEF DesktopSteps
<1>3. QED
  BY <1>1, <1>2, PartsInvariant, PTL DEF Spec, CommitsArePaced

\* For any frame, wallpaper and surface within the limit on bytes, the overlay lies within the
\* surface and within what a partial redraw repaints, has at least one pixel where its canvas has
\* one, and every pixel of the surface has a pixel of the wallpaper under it, although lengths
\* are rounded (overlay_geometry, redraw_region, cover_geometry, source_coordinate).
THEOREM OverlayAndWallpaperLie ==
    Spec => [](part = "paint" => /\ Paint!OverlayFitsSurface /\ Paint!OverlayIsCovered
                                 /\ Paint!WallpaperCovers)
<1>1. PartInv => (part = "paint" => /\ Paint!OverlayFitsSurface /\ Paint!OverlayIsCovered
                                    /\ Paint!WallpaperCovers)
  BY OverlayFits, WallpaperFills DEF PartInv
<1>2. QED
  BY <1>1, PartsInvariant, PTL

\* An image appears only while it is selected, and the consumer shows what the playback
\* presents (synchronize, complete_decode, advance_transition).
THEOREM SelectedAppears == Spec => OnlySelectedAppears
<1>1. PartInv => (part = "images" => /\ Images!TypeOK /\ Images!PresentedImageIsOnScreen
                                     /\ Images!ConsumerShowsFrame)
  BY ImagesFacts DEF PartInv
<1>2. PartInv /\ [Next]_pool => [part = "images" => Images!OnlySelectedAppears]_pool
  BY PartStep
<1>3. QED
  BY <1>1, <1>2, PartsInvariant, PTL DEF Spec, OnlySelectedAppears
=============================================================================
