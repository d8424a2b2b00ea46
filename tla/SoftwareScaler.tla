---------------------------- MODULE SoftwareScaler ----------------------------
(***************************************************************************)
(* SoftwareScaler: configure and the stages of scale, which hand on        *)
(* cv::Mat headers.  A header shares the memory of the one it was copied   *)
(* from, so a stage whose result has the same size and type writes where   *)
(* it reads: into the input frame, unless a stage before it has allocated. *)
(*                                                                         *)
(* A pixel is where it was drawn and the order of its channels.  What      *)
(* cv::resize computes is left open: the output is the picture it resized. *)
(***************************************************************************)
EXTENDS Integers

CONSTANTS
    Width, Height,  \* of the input frame
    Formats,        \* pixel formats of the frames
    Crops,          \* crop rectangles that are configured
    Rotations       \* rotations that are asked for

ASSUME ScalerAssumption ==
    /\ {Width, Height} \subseteq Nat \ {0}
    /\ Crops \subseteq [x : Int, y : Int, w : Int, h : Int]

VARIABLES
    stage,          \* where scale is
    config,         \* config_
    format,         \* the input's pixel format
    input,          \* the input's memory
    view,           \* the header the last stage has made
    output          \* the picture resized into the output frame

vars == <<stage, config, format, input, view, output>>

Unset == [to |-> "none", crop |-> [x |-> 0, y |-> 0, w |-> 0, h |-> 0], rotation |-> 0]

Positions(w, h) == (1 .. w) \X (1 .. h)

\* Channels of the formats that OpenCV can view.
Channels == [Gray8 |-> 1, Bgr24 |-> 3, Rgb24 |-> 3, Bgra32 |-> 4, Rgba32 |-> 4]

Viewable(f) == f \in DOMAIN Channels

Drawn(f) == [at \in Positions(Width, Height) |-> [at |-> at, order |-> f]]

NoPixel == [at |-> <<0, 0>>, order |-> "none"]

Empty == [size |-> <<0, 0>>, pixels |-> <<>>]

-----------------------------------------------------------------------------
(***************************************************************************)
(* Headers: a rectangle of the input, or a picture in memory of its own.   *)
(***************************************************************************)
Window(x, y, w, h) ==
    [shared |-> TRUE, x |-> x, y |-> y, size |-> <<w, h>>, pixels |-> <<>>]

Own(pic) == [shared |-> FALSE, x |-> 0, y |-> 0, size |-> pic.size, pixels |-> pic.pixels]

Pixel(x, y) == IF <<x, y>> \in DOMAIN input THEN input[x, y] ELSE NoPixel

\* The picture a header shows.
Shown(v) ==
    [size |-> v.size,
     pixels |-> IF v.shared
                THEN [at \in Positions(v.size[1], v.size[2]) |-> Pixel(v.x + at[1], v.y + at[2])]
                ELSE v.pixels]

\* The input once pic is written through a header that shares it.
WrittenThrough(v, pic) ==
    [at \in DOMAIN input |->
        LET inside == <<at[1] - v.x, at[2] - v.y>>
        IN  IF inside \in DOMAIN pic.pixels THEN pic.pixels[inside] ELSE input[at]]

\* A stage stores its result: in place when the header it is given fits.
Store(v, pic, fits) ==
    IF v.shared /\ fits
    THEN view' = v /\ input' = WrittenThrough(v, pic)
    ELSE view' = Own(pic) /\ UNCHANGED input

-----------------------------------------------------------------------------
(***************************************************************************)
(* What the stages compute.                                                *)
(***************************************************************************)
Conversions == {<<"Bgr24", "Rgb24">>, <<"Rgb24", "Bgr24">>, <<"Gray8", "Bgr24">>}

\* BGR to RGB and back exchanges the same two channels.
Reordered(order) ==
    CASE order = "Bgr24" -> "Rgb24" [] order = "Rgb24" -> "Bgr24" [] OTHER -> "Bgr24"

Convert(pic) ==
    [size |-> pic.size,
     pixels |-> [at \in DOMAIN pic.pixels |->
                    [pic.pixels[at] EXCEPT !.order = Reordered(@)]]]

\* Faulty variant: turns clockwise for counterclockwise.
SourceOfSwapped(at, w, h, rotation) ==
    CASE rotation = 0   -> at
      [] rotation \in {90, 270} -> <<at[2], h + 1 - at[1]>>
      [] rotation = 180 -> <<w + 1 - at[1], h + 1 - at[2]>>

\* Where a pixel of a picture turned clockwise comes from.
SourceOf(at, w, h, rotation) ==
    CASE rotation = 0   -> at
      [] rotation = 90  -> <<at[2], h + 1 - at[1]>>
      [] rotation = 180 -> <<w + 1 - at[1], h + 1 - at[2]>>
      [] rotation = 270 -> <<w + 1 - at[2], at[1]>>

Turned(size, rotation) == IF rotation \in {90, 270} THEN <<size[2], size[1]>> ELSE size

Rotate(pic, rotation) ==
    LET size == Turned(pic.size, rotation)
    IN  [size |-> size,
         pixels |-> [at \in Positions(size[1], size[2]) |->
                        pic.pixels[SourceOf(at, pic.size[1], pic.size[2], rotation)]]]

-----------------------------------------------------------------------------
Init ==
    /\ stage = "idle" /\ config = Unset
    /\ format \in Formats /\ input = Drawn(format)
    /\ view = Own(Empty) /\ output = Empty

\* Faulty variant: takes any rotation.
RotationSupportedAny(r) == TRUE

RotationSupported(r) == r \in {0, 90, 180, 270}

\* configure, whose size is valid: an invalid one is refused like a rotation.
Configure(to, crop, rotation) ==
    /\ stage = "idle"
    /\ RotationSupported(rotation)
    /\ config' = [to |-> to, crop |-> crop, rotation |-> rotation]
    /\ UNCHANGED <<stage, format, input, view, output>>

Throw == stage' = "refused" /\ UNCHANGED <<config, format, input, view, output>>

\* The checks before the first stage; matches tells whether the output frame
\* has the configured size and format, and both frames are mapped.
Begin(matches) ==
    /\ stage = "idle"
    /\ IF config = Unset \/ ~matches \/ ~Viewable(format) \/ ~Viewable(config.to)
       THEN Throw
       ELSE /\ stage' = "crop"
            /\ view' = Window(0, 0, Width, Height)
            /\ UNCHANGED <<config, format, input, output>>

CropInside(c) == c.x >= 0 /\ c.y >= 0 /\ c.x + c.w <= Width /\ c.y + c.h <= Height

Crop ==
    LET c == config.crop
    IN  /\ stage = "crop"
        /\ IF c.w > 0 /\ c.h > 0 /\ ~CropInside(c) THEN Throw
           ELSE /\ stage' = "convert"
                /\ view' = IF c.w > 0 /\ c.h > 0 THEN Window(c.x, c.y, c.w, c.h) ELSE view
                /\ UNCHANGED <<config, format, input, output>>

NeedsConversion == format # config.to

ConvertStage ==
    /\ stage = "convert"
    /\ IF ~NeedsConversion THEN stage' = "rotate" /\ UNCHANGED <<view, input>>
       ELSE /\ <<format, config.to>> \in Conversions
            /\ stage' = "rotate"
            /\ Store(view, Convert(Shown(view)), Channels[format] = Channels[config.to])
    /\ UNCHANGED <<config, format, output>>

NoSuchConversion ==
    /\ stage = "convert" /\ NeedsConversion /\ <<format, config.to>> \notin Conversions
    /\ Throw

\* The case of the switch that is executed.
Turn == config.rotation

\* cv::rotate is not called for 0.
RotateStage ==
    /\ stage = "rotate"
    /\ IF Turn \notin {0, 90, 180, 270} THEN Throw
       ELSE /\ stage' = "resize"
            /\ IF Turn = 0 THEN UNCHANGED <<view, input>>
               ELSE Store(view, Rotate(Shown(view), Turn),
                          Turned(view.size, Turn) = view.size)
            /\ UNCHANGED <<config, format, output>>

Resize ==
    /\ stage = "resize"
    /\ stage' = "done" /\ output' = Shown(view)
    /\ UNCHANGED <<config, format, input, view>>

\* The caller goes on to another frame.
NextFrame ==
    /\ stage \in {"done", "refused"}
    /\ stage' = "idle"
    /\ format' \in Formats /\ input' = Drawn(format')
    /\ view' = Own(Empty) /\ output' = Empty
    /\ UNCHANGED config

Stages == Crop \/ ConvertStage \/ NoSuchConversion \/ RotateStage \/ Resize

Next ==
    \/ \E to \in Formats, crop \in Crops, rotation \in Rotations :
           Configure(to, crop, rotation)
    \/ \E matches \in BOOLEAN : Begin(matches)
    \/ Stages \/ NextFrame

Spec == Init /\ [][Next]_vars

-----------------------------------------------------------------------------
(***************************************************************************)
(* Properties.                                                             *)
(***************************************************************************)

\* The region of the frame that the configuration selects, all zeros for the
\* whole frame.
Region ==
    LET c == config.crop
    IN  IF c.w > 0 /\ c.h > 0 THEN c ELSE [x |-> 0, y |-> 0, w |-> Width, h |-> Height]

Corner(x, y) == [at |-> <<x, y>>, order |-> config.to]

\* Where the region's first two corners are in a picture of it that is turned,
\* which tells the turn together with the size.
FirstCorners(w, h, rotation) ==
    CASE rotation = 0   -> <<<<1, 1>>, <<w, 1>>>>
      [] rotation = 90  -> <<<<w, 1>>, <<w, h>>>>
      [] rotation = 180 -> <<<<w, h>>, <<1, h>>>>
      [] rotation = 270 -> <<<<1, h>>, <<1, 1>>>>

ShowsRegion(pic) ==
    LET r == Region
        corners == FirstCorners(pic.size[1], pic.size[2], config.rotation)
    IN  /\ pic.size = IF config.rotation \in {0, 180} THEN <<r.w, r.h>> ELSE <<r.h, r.w>>
        /\ pic.pixels[corners[1]] = Corner(r.x + 1, r.y + 1)
        /\ pic.pixels[corners[2]] = Corner(r.x + r.w, r.y + 1)
        /\ {pic.pixels[at] : at \in DOMAIN pic.pixels} =
               {Corner(x, y) : x \in (r.x + 1) .. (r.x + r.w), y \in (r.y + 1) .. (r.y + r.h)}

\* The output is the frame's region in the configured format, turned as
\* configured, wherever the stages before wrote, and shows nothing from beyond
\* the frame.
OutputIsTransformed == stage = "done" => ShowsRegion(output)

\* The input frame is left as it was by a scale that throws, which has not
\* written the output either, and by one between equal formats without a
\* rotation, as the producer configures it.
InputKept ==
    /\ stage = "refused" => input = Drawn(format) /\ output = Empty
    /\ stage = "done" /\ format = config.to /\ config.rotation = 0 =>
           input = Drawn(format)
=============================================================================
