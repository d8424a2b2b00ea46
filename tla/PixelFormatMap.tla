----------------------------- MODULE PixelFormatMap -----------------------------
(***************************************************************************)
(* The pixel-format arithmetic of the V4L2 transport: fourcc codes, and    *)
(* imageSizeBytes with its overflow-checked size_t, beside the unchecked   *)
(* size CpuBufferPool computes for the same formats.                       *)
(***************************************************************************)
EXTENDS Integers

CONSTANTS
    SizeMax,        \* numeric_limits<size_t>::max()
    IntMax          \* numeric_limits<int>::max()

ASSUME SizeMaxAssumption == IntMax \in Nat \ {0} /\ SizeMax \in Nat /\ SizeMax >= IntMax

PixelFormat == {"Gray8", "Rgb24", "Bgr24", "Rgba32", "Bgra32", "Nv12", "Yuv420",
                "Yuv422", "Nv16", "Yuyv", "Uyvy"}

-----------------------------------------------------------------------------
(***************************************************************************)
(* The codes of videodev2.h, by name; "none" is std::nullopt.              *)
(***************************************************************************)

\* Faulty variant: Yuv422 as the planar 4:2:0 code.
ToFourccYuv420For422(f) ==
    IF f \in {"Yuv420", "Yuv422"} THEN "YUV420"
    ELSE IF f = "Gray8" THEN "GREY" ELSE "none"

ToV4l2Fourcc(f) ==
    CASE f = "Bgr24"  -> "BGR24"
      [] f = "Rgb24"  -> "RGB24"
      [] f = "Gray8"  -> "GREY"
      [] f = "Nv12"   -> "NV12"
      [] f = "Yuv420" -> "YUV420"
      [] f = "Yuv422" -> "YUV422P"
      [] f = "Nv16"   -> "NV16"
      [] f = "Yuyv"   -> "YUYV"
      [] f = "Uyvy"   -> "UYVY"
      [] f \in {"Rgba32", "Bgra32"} -> "none"

FromV4l2Fourcc(code) ==
    CASE code = "BGR24"   -> "Bgr24"
      [] code = "RGB24"   -> "Rgb24"
      [] code = "GREY"    -> "Gray8"
      [] code = "NV12"    -> "Nv12"
      [] code = "YUV420"  -> "Yuv420"
      [] code = "YUV422P" -> "Yuv422"
      [] code = "NV16"    -> "Nv16"
      [] code = "YUYV"    -> "Yuyv"
      [] code = "UYVY"    -> "Uyvy"
      [] OTHER            -> "none"

-----------------------------------------------------------------------------
(***************************************************************************)
(* checkedMultiply and checkedAdd: size_t wraps, and Overflow is their     *)
(* false.  An operand that overflowed short-circuits the &&.               *)
(***************************************************************************)
Overflow == -1

Wrapped(n) == n % (SizeMax + 1)

\* Faulty variant: lets the product wrap.
MultiplyUnchecked(a, b) == Wrapped(a * b)

CheckedMultiply(a, b) ==
    IF a = Overflow \/ b = Overflow \/ (a # 0 /\ b > SizeMax \div a) THEN Overflow
    ELSE Wrapped(a * b)

CheckedAdd(a, b) ==
    IF a = Overflow \/ b = Overflow \/ b > SizeMax - a THEN Overflow
    ELSE Wrapped(a + b)

OrZero(size) == IF size = Overflow THEN 0 ELSE size

-----------------------------------------------------------------------------
(***************************************************************************)
(* imageSizeBytes: 0 for a layout that is not one, or does not fit.        *)
(***************************************************************************)
PackedSize(w, h, bytesPerPixel, strideBytes) ==
    LET minimumStride == CheckedMultiply(w, bytesPerPixel)
        stride == IF strideBytes > 0 THEN strideBytes ELSE minimumStride
    IN  IF minimumStride = Overflow \/ stride < minimumStride THEN 0
        ELSE OrZero(CheckedMultiply(stride, h))

\* The stride of a planar format, and whether it is enough.
PlanarStride(w, strideBytes) == IF strideBytes > 0 THEN strideBytes ELSE w

StrideAccepted(stride, w, even) == stride >= w /\ (even => stride % 2 = 0)

Nv12Size(stride, h) ==
    CheckedAdd(CheckedMultiply(stride, h), CheckedMultiply(stride, h \div 2))

Yuv420Size(stride, h) ==
    CheckedAdd(CheckedMultiply(stride, h),
               CheckedMultiply(CheckedMultiply(stride \div 2, h \div 2), 2))

Nv16Size(stride, h) == CheckedMultiply(CheckedMultiply(stride, h), 2)

Yuv422Size(stride, h) ==
    CheckedAdd(CheckedMultiply(stride, h),
               CheckedMultiply(CheckedMultiply(stride \div 2, h), 2))

ImageSizeBytes(f, w, h, strideBytes) ==
    LET s == PlanarStride(w, strideBytes)
        Planar(evenStride, size) ==
            IF StrideAccepted(s, w, evenStride) THEN OrZero(size) ELSE 0
    IN  IF w <= 0 \/ h <= 0 \/ strideBytes < 0 THEN 0
        ELSE CASE f = "Gray8" -> PackedSize(w, h, 1, strideBytes)
               [] f \in {"Rgb24", "Bgr24"} -> PackedSize(w, h, 3, strideBytes)
               [] f \in {"Rgba32", "Bgra32"} -> PackedSize(w, h, 4, strideBytes)
               [] f = "Nv12" -> IF w % 2 # 0 \/ h % 2 # 0 THEN 0
                                ELSE Planar(FALSE, Nv12Size(s, h))
               [] f = "Yuv420" -> IF w % 2 # 0 \/ h % 2 # 0 THEN 0
                                  ELSE Planar(TRUE, Yuv420Size(s, h))
               [] f = "Nv16" -> IF w % 2 # 0 THEN 0 ELSE Planar(FALSE, Nv16Size(s, h))
               [] f = "Yuv422" -> IF w % 2 # 0 THEN 0 ELSE Planar(TRUE, Yuv422Size(s, h))
               [] f \in {"Yuyv", "Uyvy"} ->
                      IF w % 2 # 0 THEN 0 ELSE PackedSize(w, h, 2, strideBytes)

\* CpuBufferPool::computeSizeBytes, for positive dimensions: no stride, and
\* the size_t wraps.
ComputeSizeBytes(f, w, h) ==
    LET area == Wrapped(w * h) IN
    CASE f = "Gray8" -> area
      [] f \in {"Rgb24", "Bgr24"} -> Wrapped(area * 3)
      [] f \in {"Rgba32", "Bgra32"} -> Wrapped(area * 4)
      [] f \in {"Nv12", "Yuv420"} -> Wrapped(area * 3) \div 2
      [] f \in {"Yuv422", "Nv16", "Yuyv", "Uyvy"} -> Wrapped(area * 2)
=============================================================================
