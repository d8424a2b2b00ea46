------------------------------- MODULE ImageSize -------------------------------
(***************************************************************************)
(* The layouts imageSizeBytes and CpuBufferPool stand for, and what their  *)
(* sizes have to be.                                                       *)
(***************************************************************************)
EXTENDS PixelFormatMap

-----------------------------------------------------------------------------
(***************************************************************************)
(* The layouts: bytes of a pixel in the first plane, whether width, height *)
(* and stride must be even, and the planes, each with the part of the      *)
(* stride and of the height it takes.                                      *)
(***************************************************************************)
Layout(bytes, evenW, evenH, evenS, planes) ==
    [bytes |-> bytes, evenWidth |-> evenW, evenHeight |-> evenH,
     evenStride |-> evenS, planes |-> planes]

Full == <<1, 1>>

LayoutOf(f) ==
    CASE f = "Gray8" -> Layout(1, FALSE, FALSE, FALSE, <<Full>>)
      [] f \in {"Rgb24", "Bgr24"} -> Layout(3, FALSE, FALSE, FALSE, <<Full>>)
      [] f \in {"Rgba32", "Bgra32"} -> Layout(4, FALSE, FALSE, FALSE, <<Full>>)
      [] f \in {"Yuyv", "Uyvy"} -> Layout(2, TRUE, FALSE, FALSE, <<Full>>)
      [] f = "Nv12" -> Layout(1, TRUE, TRUE, FALSE, <<Full, <<1, 2>> >>)
      [] f = "Nv16" -> Layout(1, TRUE, FALSE, FALSE, <<Full, Full>>)
      [] f = "Yuv420" -> Layout(1, TRUE, TRUE, TRUE, <<Full, <<2, 2>>, <<2, 2>> >>)
      [] f = "Yuv422" -> Layout(1, TRUE, FALSE, TRUE, <<Full, <<2, 1>>, <<2, 1>> >>)

Stride(f, w, s) == IF s = 0 THEN w * LayoutOf(f).bytes ELSE s

ValidLayout(f, w, h, s) ==
    LET l == LayoutOf(f) IN
    /\ w > 0 /\ h > 0 /\ s >= 0
    /\ l.evenWidth => w % 2 = 0
    /\ l.evenHeight => h % 2 = 0
    /\ l.evenStride => Stride(f, w, s) % 2 = 0
    /\ Stride(f, w, s) >= w * l.bytes

PlaneSize(f, w, h, s, k) ==
    LET p == LayoutOf(f).planes IN
    IF k \in DOMAIN p THEN (Stride(f, w, s) \div p[k][1]) * (h \div p[k][2]) ELSE 0

LayoutSize(f, w, h, s) ==
    PlaneSize(f, w, h, s, 1) + PlaneSize(f, w, h, s, 2) + PlaneSize(f, w, h, s, 3)

-----------------------------------------------------------------------------
\* Whether imageSizeBytes answers with the size of the planes, exactly, or with
\* 0 for a layout that is invalid or that no size_t holds.
SizeRight(f, w, h, s) ==
    LET size == LayoutSize(f, w, h, s)
    IN  ImageSizeBytes(f, w, h, s)
            = IF ValidLayout(f, w, h, s) /\ size <= SizeMax THEN size ELSE 0

\* Whether the pool allocates as much for an image as imageSizeBytes measures;
\* four bytes for each pixel of a real image fit a size_t.
PoolSizeRight(f, w, h) ==
    LET size == ImageSizeBytes(f, w, h, 0)
    IN  size # 0 /\ 4 * w * h <= SizeMax => ComputeSizeBytes(f, w, h) = size

\* Whether the code of a format is read back as that format.
FourccRight(f) ==
    ToV4l2Fourcc(f) # "none" => FromV4l2Fourcc(ToV4l2Fourcc(f)) = f
================================================================================
