------------------------- MODULE SoftwareScalerProofs --------------------------
(***************************************************************************)
(* Proofs about SoftwareScaler, for frames of every size, every crop and   *)
(* every set of formats: the stages, which write where they read as often  *)
(* as a header lets them, compose to the picture that was configured.      *)
(***************************************************************************)
EXTENDS SoftwareScaler, TLAPS

-----------------------------------------------------------------------------
(***************************************************************************)
(* The inductive invariant: what is shown after each stage.                *)
(***************************************************************************)

\* The region that the configuration selects, its channels in some order.
PictureIn(order) ==
    LET r == Region
    IN  [size |-> <<r.w, r.h>>,
         pixels |-> [at \in Positions(r.w, r.h) |->
                        [at |-> <<r.x + at[1], r.y + at[2]>>, order |-> order]]]

\* What the stages after the conversion should see.
RegionPicture == PictureIn(config.to)

RegionInside ==
    LET r == Region
    IN  /\ r \in [x : Nat, y : Nat, w : Nat \ {0}, h : Nat \ {0}]
        /\ r.x + r.w <= Width /\ r.y + r.h <= Height

RegionWindow == Window(Region.x, Region.y, Region.w, Region.h)

\* A header into the frame is still the one of the crop, and the frame is
\* whole; an owner of its memory has no place in the frame.
HeaderInFrame ==
    /\ DOMAIN input = Positions(Width, Height)
    /\ view.shared \in BOOLEAN
    /\ view.shared => view = RegionWindow

Configured ==
    /\ stage \in {"idle", "crop", "convert", "rotate", "resize", "done", "refused"}
    /\ config.rotation \in {0, 90, 180, 270}
    /\ config.crop \in [x : Int, y : Int, w : Int, h : Int]
    /\ stage \in {"convert", "rotate", "resize", "done"} => RegionInside

\* The frame is as it was drawn until a stage writes it, and for good when none
\* has anything to do.
FrameAsDrawn ==
    /\ stage \in {"idle", "crop", "convert", "refused"} => input = Drawn(format)
    /\ stage = "rotate" /\ format = config.to => input = Drawn(format)
    /\ stage \in {"resize", "done"} /\ format = config.to /\ config.rotation = 0 =>
           input = Drawn(format)
    /\ stage # "done" => output = Empty

\* Every stage shows what it was to compute.
StagesCompose ==
    /\ stage = "crop" => view = Window(0, 0, Width, Height)
    /\ stage = "convert" => view = RegionWindow
    /\ stage = "rotate" => HeaderInFrame /\ Shown(view) = RegionPicture
    /\ stage = "resize" => Shown(view) = Rotate(RegionPicture, config.rotation)
    /\ stage = "done" => output = Rotate(RegionPicture, config.rotation)

ScaleInv == Configured /\ FrameAsDrawn /\ StagesCompose

-----------------------------------------------------------------------------
(***************************************************************************)
(* Headers.                                                                *)
(***************************************************************************)

\* The header of the crop shows the region of a frame that is as it was drawn.
LEMMA CropShows ==
    ASSUME RegionInside, input = Drawn(format)
    PROVE  Shown(RegionWindow) = PictureIn(format)
  <1> DEFINE r == Region
  <1>1. /\ r.x \in Nat /\ r.y \in Nat /\ r.w \in Nat /\ r.h \in Nat
        /\ r.x + r.w <= Width /\ r.y + r.h <= Height
    BY DEF RegionInside
  <1>2. Width \in Nat /\ Height \in Nat
    BY ScalerAssumption
  <1> HIDE DEF r
  <1>3. ASSUME NEW at \in Positions(r.w, r.h)
        PROVE  Pixel(r.x + at[1], r.y + at[2]) =
                   [at |-> <<r.x + at[1], r.y + at[2]>>, order |-> format]
    <2>1. <<r.x + at[1], r.y + at[2]>> \in Positions(Width, Height)
      BY <1>1, <1>2 DEF Positions
    <2> QED
      BY <2>1 DEF Pixel, Drawn
  <1>4. /\ RegionWindow.shared /\ RegionWindow.size = <<r.w, r.h>>
        /\ RegionWindow.x = r.x /\ RegionWindow.y = r.y
    BY DEF RegionWindow, Window, r
  <1>5. PictureIn(format) =
            [size |-> <<r.w, r.h>>,
             pixels |-> [at \in Positions(r.w, r.h) |->
                            [at |-> <<r.x + at[1], r.y + at[2]>>, order |-> format]]]
    BY DEF PictureIn, r
  <1>6. Shown(RegionWindow) =
            [size |-> <<r.w, r.h>>,
             pixels |-> [at \in Positions(r.w, r.h) |-> Pixel(r.x + at[1], r.y + at[2])]]
    BY <1>4 DEF Shown
  <1> QED
    BY <1>3, <1>5, <1>6

\* What is written through the header of the crop is what it shows then.
LEMMA WriteShows ==
    ASSUME RegionInside, DOMAIN input = Positions(Width, Height), view = RegionWindow,
           NEW pic, pic = [size |-> pic.size, pixels |-> pic.pixels],
           pic.size = <<Region.w, Region.h>>,
           pic.pixels = [at \in Positions(Region.w, Region.h) |-> pic.pixels[at]],
           config' = config, view' = view, input' = WrittenThrough(view, pic)
    PROVE  Shown(view)' = pic
  <1> DEFINE r == Region
  <1>0. r' = r
    BY DEF Region
  <1>1. /\ r.x \in Nat /\ r.y \in Nat /\ r.w \in Nat /\ r.h \in Nat
        /\ r.x + r.w <= Width /\ r.y + r.h <= Height
    BY DEF RegionInside
  <1>2. Width \in Nat /\ Height \in Nat
    BY ScalerAssumption
  <1>3. /\ view'.shared /\ view'.size = <<r.w, r.h>> /\ view'.x = r.x /\ view'.y = r.y
        /\ view.x = r.x /\ view.y = r.y
    BY DEF RegionWindow, Window
  <1>4. pic.size = <<r.w, r.h>> /\ DOMAIN pic.pixels = Positions(r.w, r.h)
    OBVIOUS
  <1> HIDE DEF r
  <1>5. DOMAIN input' = Positions(Width, Height)
    BY DEF WrittenThrough
  <1>6. ASSUME NEW at \in Positions(r.w, r.h)
        PROVE  Pixel(r.x + at[1], r.y + at[2])' = pic.pixels[at]
    <2> DEFINE place == <<r.x + at[1], r.y + at[2]>>
    <2>1. place \in Positions(Width, Height)
      BY <1>1, <1>2 DEF Positions
    <2>2. <<place[1] - r.x, place[2] - r.y>> = at
      BY <1>1 DEF Positions
    <2>3. input'[place] = pic.pixels[at]
      BY <2>1, <2>2, <1>3, <1>4 DEF WrittenThrough
    <2> QED
      BY <1>0, <2>1, <2>3, <1>5 DEF Pixel
  <1>7. Shown(view)' =
            [size |-> <<r.w, r.h>>,
             pixels |-> [at \in Positions(r.w, r.h) |-> Pixel(r.x + at[1], r.y + at[2])']]
    BY <1>0, <1>3 DEF Shown, Pixel
  <1>8. pic.pixels = [at \in Positions(r.w, r.h) |-> pic.pixels[at]]
    BY DEF r
  <1> QED
    BY <1>4, <1>6, <1>7, <1>8

\* A picture in memory of its own is shown, whatever is written elsewhere.
LEMMA OwnShows ==
    ASSUME NEW pic, pic = [size |-> pic.size, pixels |-> pic.pixels], view' = Own(pic)
    PROVE  Shown(view)' = pic
  <1>1. view'.shared = FALSE /\ view'.size = pic.size /\ view'.pixels = pic.pixels
    BY DEF Own
  <1> QED
    BY <1>1 DEF Shown

\* A stage shows its result, in place or not, and leaves a whole frame.
LEMMA StoreShows ==
    ASSUME RegionInside, HeaderInFrame, config' = config,
           NEW pic, pic = [size |-> pic.size, pixels |-> pic.pixels],
           pic.pixels = [at \in Positions(pic.size[1], pic.size[2]) |-> pic.pixels[at]],
           NEW fits \in BOOLEAN, fits => pic.size = <<Region.w, Region.h>>,
           Store(view, pic, fits)
    PROVE  Shown(view)' = pic /\ HeaderInFrame'
  <1>1. Region' = Region /\ RegionWindow' = RegionWindow
    BY DEF Region, RegionWindow, Window
  <1>2. CASE view.shared /\ fits
    <2>1. view' = view /\ input' = WrittenThrough(view, pic) /\ view = RegionWindow
      BY <1>2 DEF Store, HeaderInFrame
    <2>2. pic.pixels = [at \in Positions(Region.w, Region.h) |-> pic.pixels[at]]
      BY <1>2
    <2>3. Shown(view)' = pic
      BY <1>2, <2>1, <2>2, WriteShows DEF HeaderInFrame
    <2>4. DOMAIN input' = Positions(Width, Height)
      BY <2>1 DEF WrittenThrough, HeaderInFrame
    <2> QED
      BY <1>1, <2>1, <2>3, <2>4 DEF HeaderInFrame
  <1>3. CASE ~ (view.shared /\ fits)
    <2>1. view' = Own(pic) /\ input' = input
      BY <1>3 DEF Store
    <2>2. view'.shared = FALSE
      BY <2>1 DEF Own
    <2> QED
      BY <2>1, <2>2, OwnShows DEF HeaderInFrame
  <1> QED
    BY <1>2, <1>3

-----------------------------------------------------------------------------
(***************************************************************************)
(* The conversion and the turn, as pictures.                               *)
(***************************************************************************)

\* A conversion to the configured format gives the region in that format.
LEMMA ConvertGives ==
    ASSUME <<format, config.to>> \in Conversions
    PROVE  Convert(PictureIn(format)) = RegionPicture
  <1> DEFINE r == Region
             place(at) == <<r.x + at[1], r.y + at[2]>>
  <1>1. Reordered(format) = config.to
    BY DEF Conversions, Reordered
  <1>2. \A p : [[at |-> p, order |-> format] EXCEPT !.order = Reordered(@)] =
                   [at |-> p, order |-> config.to]
    BY <1>1
  <1> DEFINE pixels == [at \in Positions(r.w, r.h) |-> [at |-> place(at), order |-> format]]
             pic == [size |-> <<r.w, r.h>>, pixels |-> pixels]
             converted == [at \in DOMAIN pixels |->
                              [pixels[at] EXCEPT !.order = Reordered(@)]]
  <1>3. PictureIn(format) = pic
    BY DEF PictureIn
  <1> HIDE DEF r
  <1>4. Convert(pic) = [size |-> <<r.w, r.h>>, pixels |-> converted]
    BY DEF Convert
  <1>5. DOMAIN pixels = Positions(r.w, r.h)
    OBVIOUS
  <1>6. ASSUME NEW at \in Positions(r.w, r.h)
        PROVE  [pixels[at] EXCEPT !.order = Reordered(@)] =
                   [at |-> place(at), order |-> config.to]
    BY <1>2
  <1>7. converted = [at \in Positions(r.w, r.h) |-> [at |-> place(at), order |-> config.to]]
    BY <1>5, <1>6
  <1> QED
    BY <1>3, <1>4, <1>7 DEF RegionPicture, PictureIn, r

\* A turn of the region has its size turned and a pixel at every place.
LEMMA RotateGives ==
    ASSUME RegionInside, NEW order, NEW rotation \in {0, 90, 180, 270},
           NEW pic, pic = Rotate(PictureIn(order), rotation)
    PROVE  /\ pic = [size |-> pic.size, pixels |-> pic.pixels]
           /\ pic.size = Turned(<<Region.w, Region.h>>, rotation)
           /\ pic.pixels = [at \in Positions(pic.size[1], pic.size[2]) |-> pic.pixels[at]]
  <1>1. Turned(<<Region.w, Region.h>>, rotation) =
            <<Turned(<<Region.w, Region.h>>, rotation)[1],
              Turned(<<Region.w, Region.h>>, rotation)[2]>>
    BY DEF Turned
  <1> QED
    BY <1>1 DEF Rotate, PictureIn

\* Not to turn leaves the region as it is.
LEMMA RotateByNothing ==
    ASSUME NEW order
    PROVE  Rotate(PictureIn(order), 0) = PictureIn(order)
  <1> DEFINE r == Region
             pic == PictureIn(order)
  <1>1. /\ pic.size = <<r.w, r.h>> /\ pic = [size |-> pic.size, pixels |-> pic.pixels]
        /\ pic.pixels = [at \in Positions(r.w, r.h) |-> pic.pixels[at]]
    BY DEF PictureIn
  <1> HIDE DEF r, pic
  <1>2. Turned(pic.size, 0) = pic.size
    BY DEF Turned
  <1>3. \A at : SourceOf(at, pic.size[1], pic.size[2], 0) = at
    BY DEF SourceOf
  <1>4. Rotate(pic, 0) =
            [size |-> pic.size,
             pixels |-> [at \in Positions(pic.size[1], pic.size[2]) |-> pic.pixels[at]]]
    BY <1>2, <1>3 DEF Rotate
  <1>5. Rotate(pic, 0) = pic
    BY <1>1, <1>4
  <1> QED
    BY <1>5 DEF pic

-----------------------------------------------------------------------------
(***************************************************************************)
(* Every step keeps the invariant.                                         *)
(***************************************************************************)

\* A frame is as it was drawn before anything is configured.
LEMMA InitScaleInv == Init => ScaleInv
  BY DEF Init, Unset, ScaleInv, Configured, FrameAsDrawn, StagesCompose

\* Nothing is asked of what a scale that threw shows.
LEMMA ThrowScaleInv ==
    ASSUME ScaleInv, stage \in {"idle", "crop", "convert"}, Throw
    PROVE  ScaleInv'
  <1>1. stage' = "refused" /\ UNCHANGED <<config, format, input, view, output>>
    BY DEF Throw
  <1>2. Configured'
    BY <1>1 DEF ScaleInv, Configured
  <1>3. FrameAsDrawn'
    <2>1. input = Drawn(format) /\ output = Empty
      BY DEF ScaleInv, FrameAsDrawn
    <2>2. Drawn(format)' = Drawn(format)
      BY <1>1 DEF Drawn
    <2> QED
      BY <1>1, <2>1, <2>2 DEF FrameAsDrawn
  <1>4. StagesCompose'
    BY <1>1 DEF StagesCompose
  <1> QED
    BY <1>2, <1>3, <1>4 DEF ScaleInv

\* A rotation that configure accepts is one of the four.
LEMMA ConfigureScaleInv ==
    ASSUME ScaleInv, NEW to \in Formats, NEW crop \in Crops, NEW rotation \in Rotations,
           Configure(to, crop, rotation)
    PROVE  ScaleInv'
  <1>1. /\ stage = "idle" /\ stage' = "idle"
        /\ config' = [to |-> to, crop |-> crop, rotation |-> rotation]
        /\ rotation \in {0, 90, 180, 270}
        /\ UNCHANGED <<format, input, view, output>>
    BY DEF Configure, RotationSupported
  <1>2. config'.rotation = rotation /\ config'.crop = crop
    BY <1>1
  <1>3. crop \in [x : Int, y : Int, w : Int, h : Int]
    BY ScalerAssumption
  <1>4. Configured'
    BY <1>1, <1>2, <1>3 DEF Configured
  <1>5. FrameAsDrawn'
    BY <1>1 DEF ScaleInv, FrameAsDrawn, Drawn
  <1>6. StagesCompose'
    BY <1>1 DEF StagesCompose
  <1> QED
    BY <1>4, <1>5, <1>6 DEF ScaleInv

\* The first header is the whole frame.
LEMMA BeginScaleInv ==
    ASSUME ScaleInv, NEW matches \in BOOLEAN, Begin(matches)
    PROVE  ScaleInv'
  <1>1. CASE Throw
    BY <1>1, ThrowScaleInv DEF Begin
  <1>2. CASE ~Throw
    <2>1. /\ stage = "idle" /\ stage' = "crop" /\ view' = Window(0, 0, Width, Height)
          /\ UNCHANGED <<config, format, input, output>>
      BY <1>2 DEF Begin
    <2> QED
      BY <2>1 DEF ScaleInv, Configured, FrameAsDrawn, StagesCompose, Drawn
  <1> QED
    BY <1>1, <1>2

\* A crop that is not refused lies inside the frame.
LEMMA CropScaleInv == ScaleInv /\ Crop => ScaleInv'
  <1> SUFFICES ASSUME ScaleInv, Crop PROVE ScaleInv'
    OBVIOUS
  <1> DEFINE c == config.crop
             cropped == c.w > 0 /\ c.h > 0
  <1>1. CASE cropped /\ ~CropInside(c)
    BY <1>1, ThrowScaleInv DEF Crop
  <1>2. CASE ~ (cropped /\ ~CropInside(c))
    <2>1. /\ stage = "crop" /\ stage' = "convert"
          /\ view' = IF cropped THEN Window(c.x, c.y, c.w, c.h) ELSE view
          /\ UNCHANGED <<config, format, input, output>>
      BY <1>2 DEF Crop
    <2>2. Region' = Region /\ RegionWindow' = RegionWindow
      BY <2>1 DEF Region, RegionWindow, Window
    <2>3. /\ c \in [x : Int, y : Int, w : Int, h : Int]
          /\ Width \in Nat \ {0} /\ Height \in Nat \ {0}
      BY ScalerAssumption DEF ScaleInv, Configured
    <2>4. RegionInside /\ view' = RegionWindow
      <3>1. CASE cropped
        <4>1. Region = c
          BY <3>1 DEF Region
        <4>2. /\ c.x >= 0 /\ c.y >= 0 /\ c.w > 0 /\ c.h > 0
              /\ c.x + c.w <= Width /\ c.y + c.h <= Height
          BY <1>2, <3>1 DEF CropInside
        <4>3. c \in [x : Nat, y : Nat, w : Nat \ {0}, h : Nat \ {0}]
          BY <2>3, <4>2
        <4>4. view' = RegionWindow
          BY <2>1, <3>1, <4>1 DEF RegionWindow
        <4> QED
          BY <4>1, <4>2, <4>3, <4>4 DEF RegionInside
      <3>2. CASE ~cropped
        <4>1. Region = [x |-> 0, y |-> 0, w |-> Width, h |-> Height]
          BY <3>2 DEF Region
        <4>2. view' = Window(0, 0, Width, Height)
          BY <2>1, <3>2 DEF ScaleInv, StagesCompose
        <4>3. view' = RegionWindow
          BY <4>1, <4>2 DEF RegionWindow
        <4> QED
          BY <2>3, <4>1, <4>3 DEF RegionInside
      <3> QED
        BY <3>1, <3>2
    <2>5. Configured'
      <3>1. RegionInside'
        BY <2>2, <2>4 DEF RegionInside
      <3> QED
        BY <2>1, <3>1 DEF ScaleInv, Configured
    <2>6. FrameAsDrawn'
      BY <2>1 DEF ScaleInv, FrameAsDrawn, Drawn
    <2>7. StagesCompose'
      BY <2>1, <2>2, <2>4 DEF StagesCompose
    <2> QED
      BY <2>5, <2>6, <2>7 DEF ScaleInv
  <1> QED
    BY <1>1, <1>2

\* The conversion is of the crop of a frame that nothing has written.
LEMMA ConvertScaleInv == ScaleInv /\ ConvertStage => ScaleInv'
  <1> SUFFICES ASSUME ScaleInv, ConvertStage PROVE ScaleInv'
    OBVIOUS
  <1>1. /\ stage = "convert" /\ stage' = "rotate"
        /\ UNCHANGED <<config, format, output>>
    BY DEF ConvertStage
  <1>2. RegionInside /\ view = RegionWindow /\ input = Drawn(format)
    BY <1>1 DEF ScaleInv, Configured, FrameAsDrawn, StagesCompose
  <1>3. Region' = Region /\ RegionPicture' = RegionPicture /\ RegionWindow' = RegionWindow
    BY <1>1 DEF Region, RegionPicture, PictureIn, RegionWindow, Window
  <1>4. HeaderInFrame
    BY <1>2 DEF HeaderInFrame, Drawn, RegionWindow, Window
  <1>5. Shown(view) = PictureIn(format)
    BY <1>2, CropShows
  <1>6. Configured'
    <2>1. RegionInside'
      BY <1>2, <1>3 DEF RegionInside
    <2> QED
      BY <1>1, <2>1 DEF ScaleInv, Configured
  <1>7. CASE ~NeedsConversion
    <2>1. UNCHANGED <<view, input>> /\ format = config.to
      BY <1>7 DEF ConvertStage, NeedsConversion
    <2>2. FrameAsDrawn'
      BY <1>1, <1>2, <2>1 DEF ScaleInv, FrameAsDrawn, Drawn
    <2>3. HeaderInFrame'
      BY <1>3, <1>4, <2>1 DEF HeaderInFrame
    <2>4. Shown(view)' = Shown(view)
      BY <2>1 DEF Shown, Pixel
    <2>5. StagesCompose'
      BY <1>1, <1>3, <1>5, <2>1, <2>3, <2>4 DEF StagesCompose, RegionPicture
    <2> QED
      BY <1>6, <2>2, <2>5 DEF ScaleInv
  <1>8. CASE NeedsConversion
    <2> DEFINE fits == Channels[format] = Channels[config.to]
    <2>1. /\ <<format, config.to>> \in Conversions
          /\ Store(view, Convert(Shown(view)), fits)
      BY <1>8 DEF ConvertStage
    <2>2. Convert(Shown(view)) = RegionPicture
      BY <1>5, <2>1, ConvertGives
    <2>3. /\ RegionPicture = [size |-> RegionPicture.size, pixels |-> RegionPicture.pixels]
          /\ RegionPicture.size = <<Region.w, Region.h>>
          /\ RegionPicture.pixels = [at \in Positions(Region.w, Region.h) |->
                                         RegionPicture.pixels[at]]
      BY DEF RegionPicture, PictureIn
    <2>4. fits \in BOOLEAN
      OBVIOUS
    <2> HIDE DEF fits
    <2>5. Shown(view)' = RegionPicture /\ HeaderInFrame'
      BY <1>1, <1>2, <1>4, <2>1, <2>2, <2>3, <2>4, StoreShows
    <2>6. FrameAsDrawn'
      BY <1>1, <1>8 DEF ScaleInv, FrameAsDrawn, NeedsConversion
    <2>7. StagesCompose'
      BY <1>1, <1>3, <2>5 DEF StagesCompose
    <2> QED
      BY <1>6, <2>6, <2>7 DEF ScaleInv
  <1> QED
    BY <1>7, <1>8

\* The turn is of what the conversion shows; it is in place when it keeps the
\* size.
LEMMA RotateScaleInv == ScaleInv /\ RotateStage => ScaleInv'
  <1> SUFFICES ASSUME ScaleInv, RotateStage PROVE ScaleInv'
    OBVIOUS
  <1>1. /\ stage = "rotate" /\ stage' = "resize"
        /\ UNCHANGED <<config, format, output>>
        /\ Turn = config.rotation /\ Turn \in {0, 90, 180, 270}
    BY DEF ScaleInv, Configured, RotateStage, Turn
  <1>2. RegionInside /\ HeaderInFrame /\ Shown(view) = RegionPicture
    BY <1>1 DEF ScaleInv, Configured, StagesCompose
  <1>3. Region' = Region /\ RegionPicture' = RegionPicture
    BY <1>1 DEF Region, RegionPicture, PictureIn
  <1>4. Configured'
    <2>1. RegionInside'
      BY <1>2, <1>3 DEF RegionInside
    <2> QED
      BY <1>1, <2>1 DEF ScaleInv, Configured
  <1>5. CASE Turn = 0
    <2>1. UNCHANGED <<view, input>>
      BY <1>1, <1>5 DEF RotateStage
    <2>2. FrameAsDrawn'
      BY <1>1, <1>5, <2>1 DEF ScaleInv, FrameAsDrawn, Drawn
    <2>3. Shown(view)' = Shown(view)
      BY <2>1 DEF Shown, Pixel
    <2>4. Rotate(RegionPicture, 0) = RegionPicture
      BY RotateByNothing DEF RegionPicture
    <2>5. Shown(view)' = Rotate(RegionPicture, config.rotation)'
      <3>1. Rotate(RegionPicture, config.rotation)' = Rotate(RegionPicture, config.rotation)
        BY <1>1, <1>3 DEF Rotate
      <3> QED
        BY <1>1, <1>2, <1>5, <2>3, <2>4, <3>1
    <2>6. StagesCompose'
      BY <1>1, <2>5 DEF StagesCompose
    <2> QED
      BY <1>4, <2>2, <2>6 DEF ScaleInv
  <1>6. CASE Turn # 0
    <2> DEFINE pic == Rotate(RegionPicture, Turn)
               fits == Turned(view.size, Turn) = view.size
    <2>1. Store(view, pic, fits)
      BY <1>1, <1>2, <1>6 DEF RotateStage
    <2>2. view.size = <<Region.w, Region.h>>
      <3>1. Shown(view).size = view.size
        BY DEF Shown
      <3> QED
        BY <1>2, <3>1 DEF RegionPicture, PictureIn
    <2>3. /\ pic = [size |-> pic.size, pixels |-> pic.pixels]
          /\ pic.size = Turned(<<Region.w, Region.h>>, Turn)
          /\ pic.pixels = [at \in Positions(pic.size[1], pic.size[2]) |-> pic.pixels[at]]
      <3>1. pic = Rotate(PictureIn(config.to), Turn)
        BY DEF RegionPicture
      <3> HIDE DEF pic
      <3> QED
        BY <1>1, <1>2, <3>1, RotateGives
    <2>4. fits \in BOOLEAN /\ (fits => pic.size = <<Region.w, Region.h>>)
      BY <2>2, <2>3
    <2> HIDE DEF pic, fits
    <2>5. Shown(view)' = pic
      BY <1>1, <1>2, <2>1, <2>3, <2>4, StoreShows
    <2>6. Rotate(RegionPicture, config.rotation)' = pic
      BY <1>1, <1>3 DEF Rotate, pic
    <2>7. FrameAsDrawn'
      BY <1>1, <1>6 DEF ScaleInv, FrameAsDrawn
    <2>8. StagesCompose'
      BY <1>1, <2>5, <2>6 DEF StagesCompose
    <2> QED
      BY <1>4, <2>7, <2>8 DEF ScaleInv
  <1> QED
    BY <1>5, <1>6

\* Every step of a scale, and the steps between two.
LEMMA NextScaleInv == ScaleInv /\ [Next]_vars => ScaleInv'
  <1> SUFFICES ASSUME ScaleInv, [Next]_vars PROVE ScaleInv'
    OBVIOUS
  <1>1. CASE \E to \in Formats, crop \in Crops, rotation \in Rotations :
                 Configure(to, crop, rotation)
    BY <1>1, ConfigureScaleInv
  <1>2. CASE \E matches \in BOOLEAN : Begin(matches)
    BY <1>2, BeginScaleInv
  <1>3. CASE Crop
    BY <1>3, CropScaleInv
  <1>4. CASE ConvertStage
    BY <1>4, ConvertScaleInv
  <1>5. CASE NoSuchConversion
    BY <1>5, ThrowScaleInv DEF NoSuchConversion
  <1>6. CASE RotateStage
    BY <1>6, RotateScaleInv
  <1>7. CASE Resize
    <2>1. /\ stage = "resize" /\ stage' = "done" /\ output' = Shown(view)
          /\ UNCHANGED <<config, format, input, view>>
      BY <1>7 DEF Resize
    <2>2. Region' = Region /\ RegionPicture' = RegionPicture
      BY <2>1 DEF Region, RegionPicture, PictureIn
    <2>3. RegionInside'
      BY <2>1, <2>2 DEF RegionInside, ScaleInv, Configured
    <2>4. Configured'
      BY <2>1, <2>3 DEF ScaleInv, Configured
    <2>5. FrameAsDrawn'
      BY <2>1 DEF ScaleInv, FrameAsDrawn, Drawn
    <2>6. Rotate(RegionPicture, config.rotation)' = Rotate(RegionPicture, config.rotation)
      BY <2>1, <2>2 DEF Rotate
    <2>7. StagesCompose'
      BY <2>1, <2>6 DEF ScaleInv, StagesCompose
    <2> QED
      BY <2>4, <2>5, <2>7 DEF ScaleInv
  <1>8. CASE NextFrame
    <2>1. /\ stage' = "idle" /\ config' = config /\ output' = Empty
          /\ input' = Drawn(format')
      BY <1>8 DEF NextFrame
    <2>2. Drawn(format)' = Drawn(format')
      BY DEF Drawn
    <2> QED
      BY <2>1, <2>2 DEF ScaleInv, Configured, FrameAsDrawn, StagesCompose
  <1>9. CASE UNCHANGED vars
    <2>1. UNCHANGED <<stage, config, format, input, view, output>>
      BY <1>9 DEF vars
    <2>2. /\ Region' = Region /\ RegionPicture' = RegionPicture
          /\ RegionWindow' = RegionWindow /\ Shown(view)' = Shown(view)
          /\ Drawn(format)' = Drawn(format)
      BY <2>1 DEF Region, RegionPicture, PictureIn, RegionWindow, Window, Shown, Pixel, Drawn
    <2>3. Rotate(RegionPicture, config.rotation)' = Rotate(RegionPicture, config.rotation)
      BY <2>1, <2>2 DEF Rotate
    <2>4. Configured'
      BY <2>1, <2>2 DEF ScaleInv, Configured, RegionInside
    <2>5. FrameAsDrawn'
      BY <2>1, <2>2 DEF ScaleInv, FrameAsDrawn
    <2>6. StagesCompose'
      BY <2>1, <2>2, <2>3 DEF ScaleInv, StagesCompose, HeaderInFrame
    <2> QED
      BY <2>4, <2>5, <2>6 DEF ScaleInv
  <1> QED
    BY <1>1, <1>2, <1>3, <1>4, <1>5, <1>6, <1>7, <1>8, <1>9 DEF Next, Stages

\* Every stage hands on what it was to compute, of every frame.
THEOREM ScaleInvariant == Spec => []ScaleInv
  <1>1. Init => ScaleInv
    BY InitScaleInv
  <1>2. ScaleInv /\ [Next]_vars => ScaleInv'
    BY NextScaleInv
  <1> QED
    BY <1>1, <1>2, PTL DEF Spec

\* The producer's own frame is never written: not by a scale that throws, nor
\* by one that has nothing to convert or to turn.
THEOREM FrameKept == Spec => []InputKept
  <1>1. ScaleInv => InputKept
    BY DEF ScaleInv, FrameAsDrawn, InputKept
  <1> QED
    BY <1>1, ScaleInvariant, PTL

-----------------------------------------------------------------------------
(***************************************************************************)
(* Where a turn puts the region.                                           *)
(***************************************************************************)

\* A turned pixel comes from the region.
LEMMA SourceInside ==
    ASSUME NEW w \in Nat, NEW h \in Nat, NEW rotation \in {0, 90, 180, 270},
           NEW at \in Positions(Turned(<<w, h>>, rotation)[1], Turned(<<w, h>>, rotation)[2])
    PROVE  SourceOf(at, w, h, rotation) \in Positions(w, h)
  <1>1. CASE rotation \in {0, 180}
    <2>1. at \in (1 .. w) \X (1 .. h)
      BY <1>1 DEF Turned, Positions
    <2>2. SourceOf(at, w, h, rotation) \in {at, <<w + 1 - at[1], h + 1 - at[2]>>}
      BY <1>1 DEF SourceOf
    <2> QED
      BY <2>1, <2>2 DEF Positions
  <1>2. CASE rotation \in {90, 270}
    <2>1. at \in (1 .. h) \X (1 .. w)
      BY <1>2 DEF Turned, Positions
    <2>2. SourceOf(at, w, h, rotation) \in {<<at[2], h + 1 - at[1]>>, <<w + 1 - at[2], at[1]>>}
      BY <1>2 DEF SourceOf
    <2> QED
      BY <2>1, <2>2 DEF Positions
  <1> QED
    BY <1>1, <1>2

\* No pixel of the region is lost in a turn.
LEMMA SourceOnto ==
    ASSUME NEW w \in Nat, NEW h \in Nat, NEW rotation \in {0, 90, 180, 270},
           NEW p \in Positions(w, h)
    PROVE  \E at \in Positions(Turned(<<w, h>>, rotation)[1], Turned(<<w, h>>, rotation)[2]) :
               SourceOf(at, w, h, rotation) = p
  <1> DEFINE there == Positions(Turned(<<w, h>>, rotation)[1], Turned(<<w, h>>, rotation)[2])
  <1>1. p \in (1 .. w) \X (1 .. h)
    BY DEF Positions
  <1>2. CASE rotation = 0
    <2>1. p \in there
      BY <1>1, <1>2 DEF Turned, Positions
    <2> QED
      BY <1>2, <2>1 DEF SourceOf
  <1>3. CASE rotation = 90
    <2> DEFINE at == <<h + 1 - p[2], p[1]>>
    <2>1. at \in there
      BY <1>1, <1>3 DEF Turned, Positions
    <2>2. SourceOf(at, w, h, 90) = <<at[2], h + 1 - at[1]>>
      BY DEF SourceOf
    <2>3. <<at[2], h + 1 - at[1]>> = p
      BY <1>1
    <2> QED
      BY <1>3, <2>1, <2>2, <2>3
  <1>4. CASE rotation = 180
    <2> DEFINE at == <<w + 1 - p[1], h + 1 - p[2]>>
    <2>1. at \in there
      BY <1>1, <1>4 DEF Turned, Positions
    <2>2. SourceOf(at, w, h, 180) = <<w + 1 - at[1], h + 1 - at[2]>>
      BY DEF SourceOf
    <2>3. <<w + 1 - at[1], h + 1 - at[2]>> = p
      BY <1>1
    <2> QED
      BY <1>4, <2>1, <2>2, <2>3
  <1>5. CASE rotation = 270
    <2> DEFINE at == <<p[2], w + 1 - p[1]>>
    <2>1. at \in there
      BY <1>1, <1>5 DEF Turned, Positions
    <2>2. SourceOf(at, w, h, 270) = <<w + 1 - at[2], at[1]>>
      BY DEF SourceOf
    <2>3. <<w + 1 - at[2], at[1]>> = p
      BY <1>1
    <2> QED
      BY <1>5, <2>1, <2>2, <2>3
  <1> QED
    BY <1>2, <1>3, <1>4, <1>5

\* A pixel of the turned region is the pixel of the region it comes from.
LEMMA TurnedPixel ==
    ASSUME RegionInside, NEW rotation \in {0, 90, 180, 270},
           NEW at \in Positions(Turned(<<Region.w, Region.h>>, rotation)[1],
                                Turned(<<Region.w, Region.h>>, rotation)[2])
    PROVE  Rotate(RegionPicture, rotation).pixels[at] =
               Corner(Region.x + SourceOf(at, Region.w, Region.h, rotation)[1],
                      Region.y + SourceOf(at, Region.w, Region.h, rotation)[2])
  <1> DEFINE source == SourceOf(at, Region.w, Region.h, rotation)
  <1>1. /\ RegionPicture.size = <<Region.w, Region.h>>
        /\ RegionPicture.size[1] = Region.w /\ RegionPicture.size[2] = Region.h
    BY DEF RegionPicture, PictureIn
  <1>2. source \in Positions(Region.w, Region.h)
    BY SourceInside DEF RegionInside
  <1>3. Rotate(RegionPicture, rotation).pixels[at] = RegionPicture.pixels[source]
    BY <1>1 DEF Rotate
  <1>4. RegionPicture.pixels[source] = Corner(Region.x + source[1], Region.y + source[2])
    <2> HIDE DEF source
    <2> QED
      BY <1>2 DEF RegionPicture, PictureIn, Corner
  <1> QED
    BY <1>3, <1>4

\* The turned region shows every pixel of the region and no other.
LEMMA TurnedPixels ==
    ASSUME RegionInside, NEW rotation \in {0, 90, 180, 270},
           NEW pixels, pixels = Rotate(RegionPicture, rotation).pixels
    PROVE  {pixels[at] : at \in DOMAIN pixels} =
               {Corner(x, y) : x \in (Region.x + 1) .. (Region.x + Region.w),
                               y \in (Region.y + 1) .. (Region.y + Region.h)}
  <1> DEFINE r == Region
             there == Positions(Turned(<<r.w, r.h>>, rotation)[1],
                                Turned(<<r.w, r.h>>, rotation)[2])
             Source(at) == SourceOf(at, r.w, r.h, rotation)
             all == {Corner(x, y) : x \in (r.x + 1) .. (r.x + r.w),
                                    y \in (r.y + 1) .. (r.y + r.h)}
  <1>1. r.x \in Nat /\ r.y \in Nat /\ r.w \in Nat /\ r.h \in Nat
    BY DEF RegionInside
  <1>2. DOMAIN pixels = there
    BY DEF Rotate, RegionPicture, PictureIn
  <1>3. \A at \in there : pixels[at] = Corner(r.x + Source(at)[1], r.y + Source(at)[2])
    BY TurnedPixel
  <1>4. \A at \in there : Source(at) \in Positions(r.w, r.h)
    BY <1>1, SourceInside
  <1>5. \A p \in Positions(r.w, r.h) : \E at \in there : Source(at) = p
    BY <1>1, SourceOnto
  <1> HIDE DEF r, there, Source
  <1>6. ASSUME NEW at \in there PROVE pixels[at] \in all
    <2> DEFINE s == Source(at)
    <2>1. r.x + s[1] \in (r.x + 1) .. (r.x + r.w) /\ r.y + s[2] \in (r.y + 1) .. (r.y + r.h)
      BY <1>1, <1>4 DEF Positions
    <2> HIDE DEF s
    <2>2. Corner(r.x + s[1], r.y + s[2]) \in all
      BY <2>1
    <2> QED
      BY <1>3, <2>2 DEF s
  <1>7. ASSUME NEW x \in (r.x + 1) .. (r.x + r.w), NEW y \in (r.y + 1) .. (r.y + r.h)
        PROVE  \E at \in there : pixels[at] = Corner(x, y)
    <2> DEFINE p == <<x - r.x, y - r.y>>
    <2>1. p \in Positions(r.w, r.h) /\ r.x + p[1] = x /\ r.y + p[2] = y
      BY <1>1 DEF Positions
    <2> HIDE DEF p
    <2> QED
      BY <1>3, <1>5, <2>1
  <1>8. {pixels[at] : at \in DOMAIN pixels} = all
    BY <1>2, <1>6, <1>7
  <1> QED
    BY <1>8 DEF r

\* Where the first two corners of the region are once it is turned.
LEMMA TurnedCorners ==
    ASSUME RegionInside, NEW rotation \in {0, 90, 180, 270},
           NEW pixels, pixels = Rotate(RegionPicture, rotation).pixels,
           NEW w, NEW h, w = Region.w, h = Region.h,
           NEW first, first = Corner(Region.x + 1, Region.y + 1),
           NEW second, second = Corner(Region.x + w, Region.y + 1)
    PROVE  /\ rotation = 0 => pixels[<<1, 1>>] = first /\ pixels[<<w, 1>>] = second
           /\ rotation = 90 => pixels[<<h, 1>>] = first /\ pixels[<<h, w>>] = second
           /\ rotation = 180 => pixels[<<w, h>>] = first /\ pixels[<<1, h>>] = second
           /\ rotation = 270 => pixels[<<1, w>>] = first /\ pixels[<<1, 1>>] = second
  <1> DEFINE size == Turned(<<w, h>>, rotation)
             Source(at) == SourceOf(at, w, h, rotation)
  <1>1. w \in Nat \ {0} /\ h \in Nat \ {0}
    BY DEF RegionInside
  <1>2. \A at \in Positions(size[1], size[2]) :
            pixels[at] = Corner(Region.x + Source(at)[1], Region.y + Source(at)[2])
    BY TurnedPixel
  <1>3. size = IF rotation \in {0, 180} THEN <<w, h>> ELSE <<h, w>>
    BY DEF Turned
  <1>4. ASSUME NEW at \in Positions(size[1], size[2]) PROVE
            /\ Source(at) = <<1, 1>> => pixels[at] = first
            /\ Source(at) = <<w, 1>> => pixels[at] = second
    BY <1>2
  <1>5. /\ rotation = 0 => \A at : Source(at) = at
        /\ rotation = 90 => \A at : Source(at) = <<at[2], h + 1 - at[1]>>
        /\ rotation = 180 => \A at : Source(at) = <<w + 1 - at[1], h + 1 - at[2]>>
        /\ rotation = 270 => \A at : Source(at) = <<w + 1 - at[2], at[1]>>
    BY DEF SourceOf
  <1> HIDE DEF size, Source
  <1>6. CASE rotation = 0
    <2>1. <<1, 1>> \in Positions(size[1], size[2]) /\ <<w, 1>> \in Positions(size[1], size[2])
      BY <1>1, <1>3, <1>6 DEF Positions
    <2> QED
      BY <1>4, <1>5, <1>6, <2>1
  <1>7. CASE rotation = 90
    <2>1. <<h, 1>> \in Positions(size[1], size[2]) /\ <<h, w>> \in Positions(size[1], size[2])
      BY <1>1, <1>3, <1>7 DEF Positions
    <2>2. Source(<<h, 1>>) = <<1, 1>> /\ Source(<<h, w>>) = <<w, 1>>
      BY <1>1, <1>5, <1>7
    <2> QED
      BY <1>4, <1>7, <2>1, <2>2
  <1>8. CASE rotation = 180
    <2>1. <<w, h>> \in Positions(size[1], size[2]) /\ <<1, h>> \in Positions(size[1], size[2])
      <3>1. size[1] = w /\ size[2] = h
        BY <1>3, <1>8
      <3> QED
        BY <1>1, <3>1 DEF Positions
    <2>2. Source(<<w, h>>) = <<1, 1>> /\ Source(<<1, h>>) = <<w, 1>>
      BY <1>1, <1>5, <1>8
    <2> QED
      BY <1>4, <1>8, <2>1, <2>2
  <1>9. CASE rotation = 270
    <2>1. <<1, w>> \in Positions(size[1], size[2]) /\ <<1, 1>> \in Positions(size[1], size[2])
      BY <1>1, <1>3, <1>9 DEF Positions
    <2>2. Source(<<1, w>>) = <<w + 1 - w, 1>> /\ Source(<<1, 1>>) = <<w + 1 - 1, 1>>
      BY <1>5, <1>9
    <2>3. w + 1 - w = 1 /\ w + 1 - 1 = w
      BY <1>1
    <2> QED
      BY <1>4, <1>9, <2>1, <2>2, <2>3
  <1> QED
    BY <1>6, <1>7, <1>8, <1>9

\* The output is the region of the frame in the configured format, turned as
\* configured: of every frame, whatever was written in place on the way.
THEOREM ScaleTransforms == Spec => []OutputIsTransformed
  <1>1. ASSUME ScaleInv, stage = "done" PROVE ShowsRegion(output)
    <2> DEFINE r == Region
               w == output.size[1]
               h == output.size[2]
               first == Corner(r.x + 1, r.y + 1)
               second == Corner(r.x + r.w, r.y + 1)
               corners == FirstCorners(w, h, config.rotation)
    <2>1. /\ RegionInside /\ config.rotation \in {0, 90, 180, 270}
          /\ output = Rotate(RegionPicture, config.rotation)
      BY <1>1 DEF ScaleInv, Configured, StagesCompose
    <2>2. output.pixels = Rotate(RegionPicture, config.rotation).pixels
      BY <2>1
    <2>3. {output.pixels[at] : at \in DOMAIN output.pixels} =
              {Corner(x, y) : x \in (r.x + 1) .. (r.x + r.w),
                              y \in (r.y + 1) .. (r.y + r.h)}
      BY <2>1, <2>2, TurnedPixels
    <2>4. output.size = Turned(<<r.w, r.h>>, config.rotation)
      <3>1. RegionPicture.size = <<r.w, r.h>>
        BY DEF RegionPicture, PictureIn
      <3>2. Rotate(RegionPicture, config.rotation).size =
                Turned(RegionPicture.size, config.rotation)
        BY DEF Rotate
      <3> QED
        BY <2>1, <3>1, <3>2
    <2>5. /\ config.rotation \in {0, 180} => output.size = <<r.w, r.h>> /\ w = r.w /\ h = r.h
          /\ config.rotation \in {90, 270} => output.size = <<r.h, r.w>> /\ w = r.h /\ h = r.w
      BY <2>4 DEF Turned
    <2>6. /\ config.rotation = 0 =>
                 output.pixels[<<1, 1>>] = first /\ output.pixels[<<r.w, 1>>] = second
          /\ config.rotation = 90 =>
                 output.pixels[<<r.h, 1>>] = first /\ output.pixels[<<r.h, r.w>>] = second
          /\ config.rotation = 180 =>
                 output.pixels[<<r.w, r.h>>] = first /\ output.pixels[<<1, r.h>>] = second
          /\ config.rotation = 270 =>
                 output.pixels[<<1, r.w>>] = first /\ output.pixels[<<1, 1>>] = second
      BY <2>1, <2>2, TurnedCorners
    <2>7. output.pixels[corners[1]] = first /\ output.pixels[corners[2]] = second
      <3> HIDE DEF r, w, h, first, second
      <3>1. CASE config.rotation = 0
        BY <2>5, <2>6, <3>1 DEF FirstCorners
      <3>2. CASE config.rotation = 90
        BY <2>5, <2>6, <3>2 DEF FirstCorners
      <3>3. CASE config.rotation = 180
        BY <2>5, <2>6, <3>3 DEF FirstCorners
      <3>4. CASE config.rotation = 270
        BY <2>5, <2>6, <3>4 DEF FirstCorners
      <3> QED
        BY <2>1, <3>1, <3>2, <3>3, <3>4
    <2>8. output.size = IF config.rotation \in {0, 180} THEN <<r.w, r.h>> ELSE <<r.h, r.w>>
      BY <2>1, <2>5
    <2> QED
      BY <2>3, <2>7, <2>8 DEF ShowsRegion
  <1>2. ScaleInv => OutputIsTransformed
    BY <1>1 DEF OutputIsTransformed
  <1> QED
    BY <1>2, ScaleInvariant, PTL
=============================================================================
