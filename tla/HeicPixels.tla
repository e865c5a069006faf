------------------------------ MODULE HeicPixels ------------------------------
(***************************************************************************)
(* From an image item to an opaque frame (Document::decode, validate_color *)
(* and pack_rgba in src/dynamic_wallpaper/heic.rs).  The item and what the *)
(* decoder returns for it are chosen freely; a frame is packed row by row, *)
(* its colours are converted when the item has a profile, and alpha is     *)
(* composited over black.                                                  *)
(*                                                                         *)
(* A pixel is one colour channel and its alpha: the code treats the three  *)
(* channels alike.  A row of the plane may be longer than the image.       *)
(***************************************************************************)
EXTENDS Integers, SequencesExt

CONSTANTS Channel,           \* values of a colour channel
          Alpha,             \* values of alpha
          Item,              \* items: see MCHeicPixels
          Convert(_, _),     \* the transform of a profile: external
          max_width, max_height, max_pixels, max_output, max_profile

VARIABLES item,      \* the item and what the decoder makes of it
          straight,  \* the colour of the image, before alpha is multiplied in
          alpha,     \* its alpha
          color,     \* validate_color's transform, or "none"
          pixels,    \* the frame being packed
          stage      \* progress of the decode

vars == <<item, straight, alpha, color, pixels, stage>>

-----------------------------------------------------------------------------
(* Validation *)

validate_dimensions ==
    /\ item.width \in 1..max_width /\ item.height \in 1..max_height
    /\ item.width * item.height <= max_pixels

\* Unspecified characteristics pass as sRGB.
validate_nclx(nclx) == nclx \in {"none", "srgb"}

\* IccTransform::new, with preflight_icc_profile in IccProfile.tla.
ProfileConverts(profile) == profile.bytes \in 1..max_profile /\ profile.converts

\* validate_color: an HDR depth, a profile that cannot be converted and other
\* primaries are refused before the decode.
validate_color ==
    /\ item.bits <= 8
    /\ item.profile.bytes # 0 => ProfileConverts(item.profile)
    /\ validate_nclx(item.nclx)

\* The pixels are those of the item, tagged with no profile but the one that
\* was validated.
DecodedMatches ==
    /\ color = "none" => ~item.decoded_profile
    /\ validate_nclx(item.decoded_nclx)
    /\ item.plane_width = item.width /\ item.plane_height = item.height
    /\ item.plane_is_rgba8

-----------------------------------------------------------------------------
(* Pixels *)

\* Round(s * a / 255), as decoders premultiply.
Premultiplied(s, a) == (s * a + 127) \div 255

unpremultiply(p) ==
    IF p.a = 255 THEN p
    ELSE IF p.a = 0 THEN [p EXCEPT !.c = 0]
    ELSE LET c == (p.c * 255 + p.a \div 2) \div p.a IN
         [p EXCEPT !.c = IF c > 255 THEN 255 ELSE c]

composite_over_black(p, premultiplied) ==
    [c |-> IF premultiplied THEN p.c ELSE (p.c * p.a + 127) \div 255, a |-> 255]

\* The plane: rows of the image, followed by what fills the stride.
Pixel == [c |-> IF item.premultiplied THEN Premultiplied(straight, alpha) ELSE straight,
          a |-> alpha]
Filler == [c |-> 0, a |-> 0]
Plane == [i \in 1..item.plane_length |->
             IF (i - 1) % item.stride < item.width THEN Pixel ELSE Filler]

Rows == FlattenSeq([y \in 1..item.height |->
                       SubSeq(Plane, (y - 1) * item.stride + 1, (y - 1) * item.stride + item.width)])

-----------------------------------------------------------------------------
(* Document::decode *)

Go(next) == stage' = next /\ UNCHANGED <<item, straight, alpha>>

Validate ==
    /\ stage = "handle"
    /\ IF validate_dimensions /\ validate_color
       THEN Go("decode") /\ color' = IF item.profile.bytes = 0 THEN "none" ELSE item.profile.transform
       ELSE Go("refused") /\ UNCHANGED color
    /\ UNCHANGED pixels

Decode ==
    /\ stage = "decode"
    /\ Go(IF DecodedMatches THEN "pack" ELSE "refused")
    /\ UNCHANGED <<color, pixels>>

\* pack_rgba's checks: the frame fits, the rows are long enough, the plane
\* holds all of them.
Pack ==
    /\ stage = "pack"
    /\ IF /\ item.width * item.height <= max_output
          /\ item.stride >= item.width
          /\ item.plane_length >= item.stride * item.height
       THEN Go("convert") /\ pixels' = Rows
       ELSE Go("refused") /\ UNCHANGED pixels
    /\ UNCHANGED color

\* A transform is for straight colours.
Straightened(p) == IF item.premultiplied THEN unpremultiply(p) ELSE p

convert_to_srgb ==
    /\ stage = "convert"
    /\ pixels' = IF color = "none" THEN pixels
                 ELSE [i \in DOMAIN pixels |->
                          [Straightened(pixels[i]) EXCEPT !.c = Convert(color, @)]]
    /\ Go("composite") /\ UNCHANGED color

StillPremultiplied == item.premultiplied /\ color = "none"

Composite ==
    /\ stage = "composite"
    /\ pixels' = [i \in DOMAIN pixels |-> composite_over_black(pixels[i], StillPremultiplied)]
    /\ Go("frame") /\ UNCHANGED color

\* A handle that is not there, a decoder or a transform that fails, and no memory
\* for the frame all refuse the item.
Fails ==
    /\ stage \in {"handle", "decode", "pack", "convert"}
    /\ Go("refused") /\ UNCHANGED <<color, pixels>>

Init ==
    /\ item \in Item
    /\ straight \in Channel /\ alpha \in Alpha
    /\ color = "none" /\ pixels = <<>> /\ stage = "handle"

Next == Validate \/ Decode \/ Pack \/ convert_to_srgb \/ Composite \/ Fails

Spec == Init /\ [][Next]_vars

-----------------------------------------------------------------------------
(* Properties *)

Distance(x, y) == IF x > y THEN x - y ELSE y - x

\* The colour the image should show: the straight colour, converted by the
\* profile its pixels are tagged with, over black.
Shown == alpha * (IF item.decoded_profile THEN Convert(item.profile.transform, straight) ELSE straight)

\* A frame shows the colours of the image, whether the decoder stores alpha
\* multiplied in or not, and whether a profile is converted or there is none:
\* to within the rounding of the stored value and of the result (pack_rgba).
ColourIsKept ==
    stage = "frame" => \A i \in DOMAIN pixels :
        2 * Distance(255 * pixels[i].c, Shown) <= 255 * (IF item.premultiplied THEN 3 ELSE 1)

\* An identity profile changes no pixel: dividing alpha out and multiplying it
\* in again loses nothing (unpremultiply, composite_over_black).
IdentityLosesNothing ==
    stage = "frame" /\ color = "identity" /\ item.premultiplied =>
        \A i \in DOMAIN pixels : pixels[i].c = Premultiplied(straight, alpha)

\* A frame is opaque and made of the pixels of the image, never of what fills
\* its rows or lies past the plane (pack_rgba).
FrameIsTheImage ==
    stage = "frame" =>
        /\ Len(pixels) = item.width * item.height
        /\ \A i \in DOMAIN pixels : pixels[i].a = 255 /\ pixels[i].c = pixels[1].c
=============================================================================
