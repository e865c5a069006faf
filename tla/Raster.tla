-------------------------------- MODULE Raster --------------------------------
(***************************************************************************)
(* The arithmetic with which lock surfaces and previews are painted        *)
(* (crates/session-lock/src/runtime.rs, lib.rs): buffer sizes, where the   *)
(* overlay lies, which pixel of the wallpaper is sampled, how the overlay  *)
(* is filtered.  One channel of a pixel stands for all of them.  The state *)
(* walks over the pixels of one surface, for every small presentation      *)
(* frame, wallpaper and surface.                                           *)
(*                                                                         *)
(* The limits are constants so that small instances reach them.            *)
(***************************************************************************)
EXTENDS Integers, SequencesExt

CONSTANTS
    MAX_SURFACE_DIMENSION,
    MAX_BUFFER_BYTES,
    MaxInteger,     \* the largest u32
    FILTER_SCALE,   \* the fixed-point one of filter weights
    Opaque,         \* the largest value of a channel
    MaxSide,        \* bound of the model on the sides of frames and wallpapers
    MaxSurface      \* bound of the model on the sides of surfaces

RasterAssumption ==
    /\ {MAX_SURFACE_DIMENSION, MAX_BUFFER_BYTES, MaxInteger, FILTER_SCALE, Opaque,
        MaxSide, MaxSurface} \subseteq Nat \ {0}
    /\ MAX_BUFFER_BYTES <= MaxInteger

VARIABLES
    frame,        \* a presentation frame: canvas, overlay size and place
    wallpaper,    \* the size of a wallpaper
    surface,      \* the size of a surface
    column, row   \* a pixel of the surface

vars == <<frame, wallpaper, surface, column, row>>

-----------------------------------------------------------------------------
(* Frames and buffers *)

\* RgbaFrame::new
RgbaFrame(width, height, bytes) ==
    /\ width > 0 /\ height > 0
    /\ width * height * 4 <= MaxInteger
    /\ bytes = width * height * 4

\* PresentationFrame::new, of a frame f with its overlay's size and place
PresentationFrame(f) ==
    /\ f.width > 0 /\ f.height > 0
    /\ f.x + f.w <= f.width
    /\ f.y + f.h <= f.height

Error == <<>>

\* buffer_size
buffer_size(width, height, scale) ==
    LET w == width * scale
        h == height * scale
    IN  IF \/ w > MaxInteger \/ h > MaxInteger
           \/ w = 0 \/ h = 0
           \/ w > MAX_SURFACE_DIMENSION \/ h > MAX_SURFACE_DIMENSION
        THEN Error ELSE <<w, h>>

\* The checks of render before it allocates, and of render_preview.
BufferBytes(size) ==
    IF size = Error \/ size[1] * size[2] * 4 > MAX_BUFFER_BYTES THEN 0
    ELSE size[1] * size[2] * 4

-----------------------------------------------------------------------------
(* Regions *)

Full(width, height) == [x |-> 0, y |-> 0, width |-> width, height |-> height]

Nowhere == [x |-> 0, y |-> 0, width |-> 0, height |-> 0]

Least(a, b) == IF a <= b THEN a ELSE b
Greatest(a, b) == IF a >= b THEN a ELSE b

intersect(a, b) ==
    LET left   == Greatest(a.x, b.x)
        top    == Greatest(a.y, b.y)
        right  == Least(a.x + a.width, b.x + b.width)
        bottom == Least(a.y + a.height, b.y + b.height)
    IN  IF left < right /\ top < bottom
        THEN [x |-> left, y |-> top, width |-> right - left, height |-> bottom - top]
        ELSE Nowhere

\* Bug: the end of the overlay is rounded down as its start is.
div_ceil_Floor(numerator, denominator) == numerator \div denominator

div_ceil(numerator, denominator) == (numerator + denominator - 1) \div denominator

\* overlay_geometry: the canvas is fitted into the surface, centred, and the
\* overlay takes its share of it, every edge rounded outwards.
overlay_geometry(f, width, height) ==
    LET limited == width * f.height <= f.width * height
        cw == IF limited THEN width ELSE (f.width * height) \div f.height
        ch == IF limited THEN (f.height * width) \div f.width ELSE height
        cx == (width - cw) \div 2
        cy == (height - ch) \div 2
        left   == cx + (f.x * cw) \div f.width
        top    == cy + (f.y * ch) \div f.height
        right  == cx + div_ceil((f.x + f.w) * cw, f.width)
        bottom == cy + div_ceil((f.y + f.h) * ch, f.height)
    IN  IF cw = 0 \/ ch = 0 THEN Nowhere
        ELSE [x |-> left, y |-> top,
              width |-> Greatest(right - left, 0), height |-> Greatest(bottom - top, 0)]

\* redraw_region: the overlay's region, or everything where it has none.
redraw_region(kind, current, f, width, height) ==
    IF kind = "Overlay" /\ current /\ overlay_geometry(f, width, height) # Nowhere
    THEN overlay_geometry(f, width, height)
    ELSE Full(width, height)

-----------------------------------------------------------------------------
(* Sampling the wallpaper *)

cover_geometry(sw, sh, width, height) ==
    LET wider == sw * height > width * sh
        scaledW == IF wider THEN (sw * height) \div sh ELSE width
        scaledH == IF wider THEN height ELSE (sh * width) \div sw
    IN  [crop_x |-> Greatest(scaledW - width, 0) \div 2,
         crop_y |-> Greatest(scaledH - height, 0) \div 2,
         width |-> scaledW, height |-> scaledH]

source_coordinate(position, crop, scaled, source) ==
    Least(((position + crop) * source) \div scaled, source - 1)

\* BackgroundSampler: the column and the row of the source for a pixel.
SourcePixel(sw, sh, width, height, x, y) ==
    LET g == cover_geometry(sw, sh, width, height) IN
    <<source_coordinate(x, g.crop_x, g.width, sw), source_coordinate(y, g.crop_y, g.height, sh)>>

-----------------------------------------------------------------------------
(* Filtering the overlay *)

Sample(index, weight) == [index |-> index, weight |-> weight]

\* Between the two nearest samples when the overlay is enlarged.
Interpolated(source, target, position) ==
    LET denominator == 2 * target
        centered == Greatest((2 * position + 1) * source - target, 0)
        lower == Least(centered \div denominator, source - 1)
        upper == Least(lower + 1, source - 1)
        weight == IF lower = upper THEN 0
                  ELSE ((centered % denominator) * FILTER_SCALE) \div denominator
    IN  <<Sample(lower, FILTER_SCALE - weight)>>
          \o (IF weight # 0 THEN <<Sample(upper, weight)>> ELSE <<>>)

\* The share of a span that reaches from `from` to `to`, both ends rounded on
\* the scale of the span.
Share(from, to, start, span) ==
    ((to - start) * FILTER_SCALE + span \div 2) \div span
      - ((from - start) * FILTER_SCALE + span \div 2) \div span

\* The samples a target pixel covers, by the share covered, when it is reduced.
Averaged(source, target, position) ==
    LET start == (position * source * FILTER_SCALE) \div target
        end   == ((position + 1) * source * FILTER_SCALE) \div target
        first == start \div FILTER_SCALE
        last  == (end - 1) \div FILTER_SCALE
        all == [k \in 1..(last - first + 1) |->
                 LET i == first + k - 1 IN
                 Sample(i, Share(Greatest(start, i * FILTER_SCALE),
                                 Least(end, (i + 1) * FILTER_SCALE), start, end - start))]
    IN  SelectSeq(all, LAMBDA s : s.weight # 0)

\* filtered_axis, at one position
filtered_axis(source, target, position) ==
    IF source <= target THEN Interpolated(source, target, position)
    ELSE Averaged(source, target, position)

SumOf(samples, Term(_)) == FoldLeft(LAMBDA sum, s : sum + Term(s), 0, samples)

\* filtered_pixel, of one line: the colours are weighted by their alpha.
filtered_pixel(line, samples) ==
    LET alpha == SumOf(samples, LAMBDA s : line[s.index].alpha * s.weight)
        color == SumOf(samples, LAMBDA s : line[s.index].color * line[s.index].alpha * s.weight)
    IN  IF alpha = 0 THEN [color |-> 0, alpha |-> 0]
        ELSE [color |-> color \div alpha,
              alpha |-> (alpha + FILTER_SCALE \div 2) \div FILTER_SCALE]

blend_rgb(background, pixel) ==
    (pixel.color * pixel.alpha + background * (Opaque - pixel.alpha)) \div Opaque

dim(value) == (value * 4) \div 5

\* draw_opaque_region_cached, at one pixel within the overlay's region
DrawPixel(background, pixel, authentication) ==
    IF ~authentication THEN background
    ELSE IF pixel.alpha = 0 THEN dim(background)
    ELSE dim(blend_rgb(background, pixel))

-----------------------------------------------------------------------------
Side == 1..MaxSide

Frames == {f \in [width : Side, height : Side, w : Side, h : Side,
                  x : 0..MaxSide - 1, y : 0..MaxSide - 1] : PresentationFrame(f)}

Init ==
    /\ frame \in Frames
    /\ wallpaper = <<frame.width, frame.height>>
    /\ surface \in {buffer_size(w, h, s) : w, h \in 0..MaxSurface, s \in 1..2} \ {Error}
    /\ BufferBytes(surface) > 0
    /\ column = 0 /\ row = 0

\* The next pixel, along the diagonal: each axis is sampled by itself.
Next ==
    /\ column < surface[1] - 1 \/ row < surface[2] - 1
    /\ column' = Least(column + 1, surface[1] - 1)
    /\ row' = Least(row + 1, surface[2] - 1)
    /\ UNCHANGED <<frame, wallpaper, surface>>

Spec == Init /\ [][Next]_vars

Target == overlay_geometry(frame, surface[1], surface[2])

-----------------------------------------------------------------------------

\* The overlay lies within the surface, so painting it never leaves the
\* buffer, although every edge is rounded outwards (overlay_geometry,
\* draw_opaque_region_cached).
OverlayFitsSurface ==
    /\ Target.x + Target.width <= surface[1]
    /\ Target.y + Target.height <= surface[2]
    /\ intersect(Full(surface[1], surface[2]), Target) \in {Target, Nowhere}

\* No pixel of the canvas that belongs to the overlay falls outside the
\* region a partial redraw repaints and damages, and an overlay with a canvas
\* to lie on is never rounded away: the scaled overlay is a valid frame, which
\* scale_overlay expects (redraw_region, div_ceil_u128).
OverlayIsCovered ==
    LET r == redraw_region("Overlay", TRUE, frame, surface[1], surface[2])
        limited == surface[1] * frame.height <= frame.width * surface[2]
        cw == IF limited THEN surface[1] ELSE (frame.width * surface[2]) \div frame.height
        cx == (surface[1] - cw) \div 2
    IN  Target # Nowhere =>
          /\ RgbaFrame(r.width, r.height, r.width * r.height * 4)
          /\ (r.x - cx) * frame.width <= frame.x * cw
          /\ (r.x + r.width - cx) * frame.width >= (frame.x + frame.w) * cw

\* Every pixel of the surface has a pixel of the wallpaper under it, and the
\* scaled wallpaper leaves at most the rounding of one row or column bare
\* (cover_geometry, source_coordinate, BackgroundSampler::pixel).
WallpaperCovers ==
    LET p == SourcePixel(wallpaper[1], wallpaper[2], surface[1], surface[2], column, row)
        g == cover_geometry(wallpaper[1], wallpaper[2], surface[1], surface[2])
    IN  /\ p[1] \in 0..wallpaper[1] - 1 /\ p[2] \in 0..wallpaper[2] - 1
        /\ g.width >= surface[1] /\ g.height >= surface[2]
        /\ g.width = surface[1] \/ g.height = surface[2]

\* The weights of a filtered position add up to one and its samples are
\* neighbours within the overlay, so a flat overlay keeps its colour and its
\* alpha at every size (filtered_axis, filtered_pixel, scale_overlay).
FilterKeepsFlatColour ==
    LET s == filtered_axis(wallpaper[1], surface[1], column)
        flat == [i \in 0..wallpaper[1] - 1 |-> [color |-> 7, alpha |-> 5]]
    IN  /\ SumOf(s, LAMBDA a : a.weight) = FILTER_SCALE
        /\ \A i \in DOMAIN s : s[i].index = s[1].index + i - 1 /\ s[i].index < wallpaper[1]
        /\ filtered_pixel(flat, s) = [color |-> 7, alpha |-> 5]

\* An overlay of the size of its region is shown as it is whether the runtime
\* takes it unscaled from its cache or a preview filters it pixel by pixel
\* (scale_overlay, draw_opaque_region_cached).
PreviewMatchesLock ==
    LET line == [i \in 0..wallpaper[1] - 1 |-> [color |-> i + 1, alpha |-> (5 * i) % (Opaque + 1)]]
        filtered == filtered_pixel(line, filtered_axis(wallpaper[1], surface[1], column))
    IN  wallpaper[1] = surface[1] =>
          \A b \in 0..Opaque : DrawPixel(b, filtered, TRUE) = DrawPixel(b, line[column], TRUE)
=============================================================================
