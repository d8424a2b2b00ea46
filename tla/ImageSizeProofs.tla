--------------------------- MODULE ImageSizeProofs ---------------------------
(***************************************************************************)
(* The sizes of images, for a size_t of any width that holds an int, and   *)
(* the codes of their formats; the pipeline is where they are looked at.   *)
(***************************************************************************)
EXTENDS MCFramePipeline, TLAPS

\* What a checked operation can answer.
Checked == (0 .. SizeMax) \cup {Overflow}

Exactly(n) == IF n <= SizeMax THEN n ELSE Overflow

\* The quotient tells whether a product fits, and none of its bits is lost.
LEMMA DivisionBounds ==
    ASSUME NEW a \in Nat \ {0}, NEW b \in Nat, NEW m \in Nat
    PROVE  b > m \div a <=> a * b > m
<1> DEFINE q == m \div a
           r == m % a
<1>1. q \in Int /\ r \in 0 .. (a - 1) /\ m = a * q + r
  OBVIOUS
<1> HIDE DEF q, r
<1>2. ASSUME b > q PROVE a * b > m
  <2>1. b >= q + 1
    BY <1>1, <1>2
  <2>2. a * b >= a * (q + 1)
    BY <1>1, <2>1
  <2>3. a * (q + 1) = a * q + a
    BY <1>1
  <2> QED
    BY <1>1, <2>2, <2>3
<1>3. ASSUME ~ (b > q) PROVE ~ (a * b > m)
  <2>1. a * b <= a * q
    BY <1>1, <1>3
  <2> QED
    BY <1>1, <2>1
<1>4. b > q <=> a * b > m
  BY <1>2, <1>3
<1> QED
  BY <1>4 DEF q

LEMMA WrappedIsExact ==
    ASSUME NEW n \in 0 .. SizeMax
    PROVE  Wrapped(n) = n
  BY SizeMaxAssumption DEF Wrapped

\* checkedMultiply is the product where a size_t holds it, and false otherwise.
LEMMA MultiplyExact ==
    ASSUME NEW a \in Nat, NEW b \in Nat
    PROVE  CheckedMultiply(a, b) = Exactly(a * b)
<1>1. a * b \in Nat /\ a # Overflow /\ b # Overflow
  BY SizeMaxAssumption DEF Overflow
<1>2. CASE a = 0
  BY <1>1, <1>2, WrappedIsExact, SizeMaxAssumption DEF CheckedMultiply, Exactly
<1>3. CASE a # 0
  <2>1. b > SizeMax \div a <=> a * b > SizeMax
    BY <1>3, DivisionBounds, SizeMaxAssumption
  <2>2. a * b <= SizeMax => Wrapped(a * b) = a * b
    BY <1>1, WrappedIsExact
  <2> QED
    BY <1>1, <1>3, <2>1, <2>2, SizeMaxAssumption DEF CheckedMultiply, Exactly
<1> QED
  BY <1>2, <1>3

\* checkedAdd likewise.
LEMMA AddExact ==
    ASSUME NEW a \in 0 .. SizeMax, NEW b \in 0 .. SizeMax
    PROVE  CheckedAdd(a, b) = Exactly(a + b)
<1>1. a + b <= SizeMax => Wrapped(a + b) = a + b
  BY WrappedIsExact, SizeMaxAssumption
<1> QED
  BY <1>1, SizeMaxAssumption DEF CheckedAdd, Exactly, Overflow

\* An operand that overflowed makes the result overflow.
LEMMA OverflowSpreads ==
    \A x : /\ CheckedMultiply(Overflow, x) = Overflow /\ CheckedMultiply(x, Overflow) = Overflow
           /\ CheckedAdd(Overflow, x) = Overflow /\ CheckedAdd(x, Overflow) = Overflow
  BY DEF CheckedMultiply, CheckedAdd

\* A sum of products, and a product doubled, as the planar formats need them.
LEMMA SumExact ==
    ASSUME NEW m \in Nat, NEW n \in Nat
    PROVE  CheckedAdd(Exactly(m), Exactly(n)) = Exactly(m + n)
<1>1. CASE m <= SizeMax /\ n <= SizeMax
  BY <1>1, AddExact, SizeMaxAssumption DEF Exactly
<1>2. CASE ~ (m <= SizeMax /\ n <= SizeMax)
  BY <1>2, OverflowSpreads, SizeMaxAssumption DEF Exactly
<1> QED
  BY <1>1, <1>2

LEMMA DoubleExact ==
    ASSUME NEW m \in Nat
    PROVE  CheckedMultiply(Exactly(m), 2) = Exactly(m * 2)
<1>1. CASE m <= SizeMax
  BY <1>1, MultiplyExact, SizeMaxAssumption DEF Exactly
<1>2. CASE ~ (m <= SizeMax)
  BY <1>2, OverflowSpreads, SizeMaxAssumption DEF Exactly
<1> QED
  BY <1>1, <1>2

-----------------------------------------------------------------------------
\* An image's dimensions, and a stride or none.
Dimensions(w, h, s) == w \in Nat \ {0} /\ h \in Nat \ {0} /\ s \in Nat

\* imageSizeBytes of a packed format: the lines of the stride, if it holds one.
LEMMA PackedExact ==
    ASSUME NEW w, NEW h, NEW s, Dimensions(w, h, s), NEW b \in 1 .. 4, s <= SizeMax
    PROVE  LET stride == IF s = 0 THEN w * b ELSE s
           IN  PackedSize(w, h, b, s) =
                   IF stride >= w * b /\ stride * h <= SizeMax THEN stride * h ELSE 0
<1> DEFINE minimum == w * b
           stride == IF s = 0 THEN minimum ELSE s
<1>1. /\ w \in Nat \ {0} /\ h \in Nat \ {0} /\ s \in Nat /\ b \in Nat \ {0}
      /\ minimum \in Nat \ {0} /\ stride \in Nat \ {0}
  BY DEF Dimensions
<1>2. CheckedMultiply(w, b) = Exactly(minimum)
  BY <1>1, MultiplyExact
<1> HIDE DEF minimum, stride
<1>3. CheckedMultiply(stride, h) = Exactly(stride * h) /\ stride * h \in Nat
  BY <1>1, MultiplyExact
<1>4. stride * h >= stride
  BY <1>1
<1>5. CASE minimum > SizeMax
  <2>1. CheckedMultiply(w, b) = Overflow
    BY <1>1, <1>2, <1>5, SizeMaxAssumption DEF Exactly
  <2>2. PackedSize(w, h, b, s) = 0
    BY <2>1 DEF PackedSize
  <2>3. ~ (stride >= minimum /\ stride * h <= SizeMax)
    BY <1>1, <1>3, <1>4, <1>5, SizeMaxAssumption
  <2> QED
    BY <2>2, <2>3 DEF minimum, stride
<1>6. CASE ~ (minimum > SizeMax)
  <2>1. CheckedMultiply(w, b) = minimum /\ minimum # Overflow
    BY <1>1, <1>2, <1>6, SizeMaxAssumption DEF Exactly, Overflow
  <2>2. PackedSize(w, h, b, s) =
            IF stride < minimum THEN 0 ELSE OrZero(CheckedMultiply(stride, h))
    BY <1>1, <2>1 DEF PackedSize, stride
  <2>3. OrZero(CheckedMultiply(stride, h)) =
            IF stride * h <= SizeMax THEN stride * h ELSE 0
    BY <1>3 DEF OrZero, Exactly, Overflow
  <2>4. stride < minimum <=> ~ (stride >= minimum)
    BY <1>1
  <2> QED
    BY <2>2, <2>3, <2>4 DEF minimum, stride
<1> QED
  BY <1>5, <1>6

\* One plane: the layout's size is the stride's lines.
LEMMA PackedLayout ==
    ASSUME NEW f \in PixelFormat, NEW w, NEW h, NEW s, Dimensions(w, h, s),
           LayoutOf(f).planes = <<Full>>
    PROVE  LayoutSize(f, w, h, s) = Stride(f, w, s) * h
<1>1. Stride(f, w, s) \in Nat /\ h \in Nat
  BY DEF Dimensions, Stride, LayoutOf, Layout, PixelFormat
<1> DEFINE r == Stride(f, w, s)
<1> HIDE DEF r
<1>2. /\ PlaneSize(f, w, h, s, 1) = (r \div 1) * (h \div 1)
      /\ PlaneSize(f, w, h, s, 2) = 0 /\ PlaneSize(f, w, h, s, 3) = 0
  BY DEF PlaneSize, Full, r
<1>3. r \div 1 = r /\ h \div 1 = h
  BY <1>1 DEF r
<1>4. LayoutSize(f, w, h, s) = r * h
  BY <1>1, <1>2, <1>3 DEF LayoutSize, r
<1> QED
  BY <1>4 DEF r

PackedFormat == {"Gray8", "Rgb24", "Bgr24", "Rgba32", "Bgra32", "Yuyv", "Uyvy"}

\* A packed format has one plane of up to four bytes for a pixel, and an even
\* width where two pixels share their chroma.
LEMMA PackedPlanes ==
    ASSUME NEW f \in PackedFormat
    PROVE  /\ LayoutOf(f) = Layout(LayoutOf(f).bytes, LayoutOf(f).evenWidth,
                                   FALSE, FALSE, <<Full>>)
           /\ LayoutOf(f).bytes \in 1 .. 4 /\ LayoutOf(f).planes = <<Full>>
           /\ LayoutOf(f).evenWidth <=> f \in {"Yuyv", "Uyvy"}
<1>1. CASE f = "Gray8"
  <2>1. LayoutOf(f) = Layout(1, FALSE, FALSE, FALSE, <<Full>>)
    BY <1>1 DEF LayoutOf
  <2> QED
    BY <1>1, <2>1 DEF Layout
<1>2. CASE f \in {"Rgb24", "Bgr24"}
  <2>1. LayoutOf(f) = Layout(3, FALSE, FALSE, FALSE, <<Full>>)
    BY <1>2 DEF LayoutOf
  <2> QED
    BY <1>2, <2>1 DEF Layout
<1>3. CASE f \in {"Rgba32", "Bgra32"}
  <2>1. LayoutOf(f) = Layout(4, FALSE, FALSE, FALSE, <<Full>>)
    BY <1>3 DEF LayoutOf
  <2> QED
    BY <1>3, <2>1 DEF Layout
<1>4. CASE f \in {"Yuyv", "Uyvy"}
  <2>1. LayoutOf(f) = Layout(2, TRUE, FALSE, FALSE, <<Full>>)
    BY <1>4 DEF LayoutOf
  <2> QED
    BY <1>4, <2>1 DEF Layout
<1> QED
  BY <1>1, <1>2, <1>3, <1>4 DEF PackedFormat

LEMMA PackedRight ==
    ASSUME NEW f \in PackedFormat, NEW w, NEW h, NEW s, Dimensions(w, h, s), s <= SizeMax
    PROVE  SizeRight(f, w, h, s)
<1> DEFINE b == LayoutOf(f).bytes
           r == Stride(f, w, s)
<1>1. /\ w \in Nat \ {0} /\ h \in Nat \ {0} /\ s \in Nat
      /\ w > 0 /\ h > 0 /\ s >= 0 /\ ~ (w <= 0) /\ ~ (h <= 0) /\ ~ (s < 0)
  BY DEF Dimensions
<1>a. LayoutOf(f) = Layout(b, LayoutOf(f).evenWidth, FALSE, FALSE, <<Full>>)
      /\ b \in 1 .. 4 /\ (LayoutOf(f).evenWidth <=> f \in {"Yuyv", "Uyvy"})
  BY PackedPlanes
<1>2. b \in 1 .. 4 /\ LayoutOf(f).planes = <<Full>> /\ f \in PixelFormat
  BY <1>a DEF Layout, PackedFormat, PixelFormat
<1>3. /\ LayoutOf(f).evenHeight = FALSE /\ LayoutOf(f).evenStride = FALSE
      /\ LayoutOf(f).evenWidth <=> f \in {"Yuyv", "Uyvy"}
  BY <1>a DEF Layout
<1>4. ImageSizeBytes(f, w, h, s) =
          IF f \in {"Yuyv", "Uyvy"} /\ w % 2 # 0 THEN 0 ELSE PackedSize(w, h, b, s)
  BY <1>1 DEF ImageSizeBytes, LayoutOf, Layout, PackedFormat
<1>5. r = IF s = 0 THEN w * b ELSE s
  BY DEF Stride
<1> HIDE DEF b, r
<1>6. PackedSize(w, h, b, s) = IF r >= w * b /\ r * h <= SizeMax THEN r * h ELSE 0
  BY <1>2, <1>5, PackedExact
<1>7. LayoutSize(f, w, h, s) = r * h
  BY <1>2, PackedLayout DEF r
<1>8. ValidLayout(f, w, h, s) <=> (f \in {"Yuyv", "Uyvy"} => w % 2 = 0) /\ r >= w * b
  BY <1>1, <1>3 DEF ValidLayout, b, r
<1> QED
  BY <1>4, <1>6, <1>7, <1>8 DEF SizeRight

\* With one byte for each pixel the code's stride is the layout's.
LEMMA PlanarStrideIs ==
    ASSUME NEW f, NEW w, NEW h, NEW s, Dimensions(w, h, s), LayoutOf(f).bytes = 1
    PROVE  /\ Stride(f, w, s) = PlanarStride(w, s) /\ PlanarStride(w, s) \in Nat
           /\ Stride(f, w, s) >= w * LayoutOf(f).bytes <=> PlanarStride(w, s) >= w
  BY DEF Stride, PlanarStride, Dimensions

LEMMA OrZeroExactly ==
    ASSUME NEW n \in Nat
    PROVE  OrZero(Exactly(n)) = IF n <= SizeMax THEN n ELSE 0
  BY DEF OrZero, Exactly, Overflow

\* The sizes of the planar formats, from checked operations that are exact.
LEMMA PlanarSizes ==
    ASSUME NEW r \in Nat, NEW h \in Nat
    PROVE  /\ Nv12Size(r, h) = Exactly(r * h + r * (h \div 2))
           /\ Yuv420Size(r, h) = Exactly(r * h + ((r \div 2) * (h \div 2)) * 2)
           /\ Nv16Size(r, h) = Exactly((r * h) * 2)
           /\ Yuv422Size(r, h) = Exactly(r * h + ((r \div 2) * h) * 2)
<1>1. r \div 2 \in Nat /\ h \div 2 \in Nat
  OBVIOUS
<1> DEFINE r2 == r \div 2
           h2 == h \div 2
<1> HIDE DEF r2, h2
<1>2. r2 \in Nat /\ h2 \in Nat
  BY <1>1 DEF r2, h2
<1>3. /\ r * h \in Nat /\ r * h2 \in Nat /\ r2 * h2 \in Nat /\ r2 * h \in Nat
      /\ (r2 * h2) * 2 \in Nat /\ (r2 * h) * 2 \in Nat
  BY <1>2
<1>4. /\ CheckedMultiply(r, h) = Exactly(r * h)
      /\ CheckedMultiply(r, h2) = Exactly(r * h2)
      /\ CheckedMultiply(CheckedMultiply(r2, h2), 2) = Exactly((r2 * h2) * 2)
      /\ CheckedMultiply(CheckedMultiply(r, h), 2) = Exactly((r * h) * 2)
      /\ CheckedMultiply(CheckedMultiply(r2, h), 2) = Exactly((r2 * h) * 2)
  BY <1>2, <1>3, MultiplyExact, DoubleExact
<1>5. /\ CheckedAdd(Exactly(r * h), Exactly(r * h2)) = Exactly(r * h + r * h2)
      /\ CheckedAdd(Exactly(r * h), Exactly((r2 * h2) * 2)) = Exactly(r * h + (r2 * h2) * 2)
      /\ CheckedAdd(Exactly(r * h), Exactly((r2 * h) * 2)) = Exactly(r * h + (r2 * h) * 2)
  BY <1>3, SumExact
<1> QED
  BY <1>4, <1>5 DEF Nv12Size, Yuv420Size, Nv16Size, Yuv422Size, r2, h2

LEMMA Nv12Right ==
    ASSUME NEW w, NEW h, NEW s, Dimensions(w, h, s)
    PROVE  /\ SizeRight("Nv12", w, h, s)
           /\ LayoutSize("Nv12", w, h, s) =
                  PlanarStride(w, s) * h + PlanarStride(w, s) * (h \div 2)
<1> DEFINE r == PlanarStride(w, s)
           n == r * h + r * (h \div 2)
<1>1. /\ w \in Nat \ {0} /\ h \in Nat \ {0} /\ s \in Nat
      /\ w > 0 /\ h > 0 /\ s >= 0 /\ ~ (w <= 0) /\ ~ (h <= 0) /\ ~ (s < 0)
  BY DEF Dimensions
<1>2. LayoutOf("Nv12") = Layout(1, TRUE, TRUE, FALSE, <<Full, <<1, 2>> >>)
  BY DEF LayoutOf
<1>3. /\ Stride("Nv12", w, s) = r /\ r \in Nat
      /\ ValidLayout("Nv12", w, h, s) <=> (w % 2 = 0 /\ h % 2 = 0 /\ r >= w)
  BY <1>1, <1>2, PlanarStrideIs DEF ValidLayout, Layout
<1>4. ImageSizeBytes("Nv12", w, h, s) =
          IF (w % 2 = 0 /\ h % 2 = 0 /\ r >= w) THEN OrZero(Nv12Size(r, h)) ELSE 0
  BY <1>1 DEF ImageSizeBytes, StrideAccepted
<1>5. LayoutSize("Nv12", w, h, s) = r * h + r * (h \div 2) + 0
  <2> HIDE DEF r
  <2>1. /\ PlaneSize("Nv12", w, h, s, 1) = (r \div 1) * (h \div 1)
        /\ PlaneSize("Nv12", w, h, s, 2) = (r \div 1) * (h \div 2)
        /\ PlaneSize("Nv12", w, h, s, 3) = 0
    BY <1>2, <1>3 DEF PlaneSize, Full, Layout
  <2>2. r \div 1 = r /\ h \div 1 = h /\ r \div 2 \in Nat /\ h \div 2 \in Nat
    BY <1>1, <1>3
  <2> QED
    BY <1>1, <1>3, <2>1, <2>2 DEF LayoutSize
<1>6. n \in Nat /\ LayoutSize("Nv12", w, h, s) = n
  <2>1. r \div 2 \in Nat /\ h \div 2 \in Nat
    BY <1>1, <1>3
  <2> HIDE DEF r
  <2> QED
    BY <1>1, <1>3, <1>5, <2>1
<1>7. Nv12Size(r, h) = Exactly(n)
  BY <1>1, <1>3, PlanarSizes
<1>9. SizeRight("Nv12", w, h, s)
  <2> HIDE DEF r, n
  <2>1. OrZero(Nv12Size(r, h)) = IF n <= SizeMax THEN n ELSE 0
    BY <1>6, <1>7, OrZeroExactly
  <2> QED
    BY <1>3, <1>4, <1>6, <2>1 DEF SizeRight
<1> QED
  BY <1>6, <1>9

LEMMA Yuv420Right ==
    ASSUME NEW w, NEW h, NEW s, Dimensions(w, h, s)
    PROVE  /\ SizeRight("Yuv420", w, h, s)
           /\ LayoutSize("Yuv420", w, h, s) =
                  PlanarStride(w, s) * h + ((PlanarStride(w, s) \div 2) * (h \div 2)) * 2
<1> DEFINE r == PlanarStride(w, s)
           n == r * h + ((r \div 2) * (h \div 2)) * 2
<1>1. /\ w \in Nat \ {0} /\ h \in Nat \ {0} /\ s \in Nat
      /\ w > 0 /\ h > 0 /\ s >= 0 /\ ~ (w <= 0) /\ ~ (h <= 0) /\ ~ (s < 0)
  BY DEF Dimensions
<1>2. LayoutOf("Yuv420") = Layout(1, TRUE, TRUE, TRUE, <<Full, <<2, 2>>, <<2, 2>> >>)
  BY DEF LayoutOf
<1>3. /\ Stride("Yuv420", w, s) = r /\ r \in Nat
      /\ ValidLayout("Yuv420", w, h, s) <=> (w % 2 = 0 /\ h % 2 = 0 /\ r >= w /\ r % 2 = 0)
  BY <1>1, <1>2, PlanarStrideIs DEF ValidLayout, Layout
<1>4. ImageSizeBytes("Yuv420", w, h, s) =
          IF (w % 2 = 0 /\ h % 2 = 0 /\ r >= w /\ r % 2 = 0) THEN OrZero(Yuv420Size(r, h)) ELSE 0
  BY <1>1 DEF ImageSizeBytes, StrideAccepted
<1>5. LayoutSize("Yuv420", w, h, s) = r * h + (r \div 2) * (h \div 2) + (r \div 2) * (h \div 2)
  <2> HIDE DEF r
  <2>1. /\ PlaneSize("Yuv420", w, h, s, 1) = (r \div 1) * (h \div 1)
        /\ PlaneSize("Yuv420", w, h, s, 2) = (r \div 2) * (h \div 2)
        /\ PlaneSize("Yuv420", w, h, s, 3) = (r \div 2) * (h \div 2)
    BY <1>2, <1>3 DEF PlaneSize, Full, Layout
  <2>2. r \div 1 = r /\ h \div 1 = h /\ r \div 2 \in Nat /\ h \div 2 \in Nat
    BY <1>1, <1>3
  <2> QED
    BY <1>1, <1>3, <2>1, <2>2 DEF LayoutSize
<1>6. n \in Nat /\ LayoutSize("Yuv420", w, h, s) = n
  <2>1. r \div 2 \in Nat /\ h \div 2 \in Nat
    BY <1>1, <1>3
  <2> HIDE DEF r
  <2> QED
    BY <1>1, <1>3, <1>5, <2>1
<1>7. Yuv420Size(r, h) = Exactly(n)
  BY <1>1, <1>3, PlanarSizes
<1>9. SizeRight("Yuv420", w, h, s)
  <2> HIDE DEF r, n
  <2>1. OrZero(Yuv420Size(r, h)) = IF n <= SizeMax THEN n ELSE 0
    BY <1>6, <1>7, OrZeroExactly
  <2> QED
    BY <1>3, <1>4, <1>6, <2>1 DEF SizeRight
<1> QED
  BY <1>6, <1>9

LEMMA Nv16Right ==
    ASSUME NEW w, NEW h, NEW s, Dimensions(w, h, s)
    PROVE  /\ SizeRight("Nv16", w, h, s)
           /\ LayoutSize("Nv16", w, h, s) =
                  (PlanarStride(w, s) * h) * 2
<1> DEFINE r == PlanarStride(w, s)
           n == (r * h) * 2
<1>1. /\ w \in Nat \ {0} /\ h \in Nat \ {0} /\ s \in Nat
      /\ w > 0 /\ h > 0 /\ s >= 0 /\ ~ (w <= 0) /\ ~ (h <= 0) /\ ~ (s < 0)
  BY DEF Dimensions
<1>2. LayoutOf("Nv16") = Layout(1, TRUE, FALSE, FALSE, <<Full, Full>>)
  BY DEF LayoutOf
<1>3. /\ Stride("Nv16", w, s) = r /\ r \in Nat
      /\ ValidLayout("Nv16", w, h, s) <=> (w % 2 = 0 /\ r >= w)
  BY <1>1, <1>2, PlanarStrideIs DEF ValidLayout, Layout
<1>4. ImageSizeBytes("Nv16", w, h, s) =
          IF (w % 2 = 0 /\ r >= w) THEN OrZero(Nv16Size(r, h)) ELSE 0
  BY <1>1 DEF ImageSizeBytes, StrideAccepted
<1>5. LayoutSize("Nv16", w, h, s) = r * h + r * h + 0
  <2> HIDE DEF r
  <2>1. /\ PlaneSize("Nv16", w, h, s, 1) = (r \div 1) * (h \div 1)
        /\ PlaneSize("Nv16", w, h, s, 2) = (r \div 1) * (h \div 1)
        /\ PlaneSize("Nv16", w, h, s, 3) = 0
    BY <1>2, <1>3 DEF PlaneSize, Full, Layout
  <2>2. r \div 1 = r /\ h \div 1 = h /\ r \div 2 \in Nat /\ h \div 2 \in Nat
    BY <1>1, <1>3
  <2> QED
    BY <1>1, <1>3, <2>1, <2>2 DEF LayoutSize
<1>6. n \in Nat /\ LayoutSize("Nv16", w, h, s) = n
  <2>1. r \div 2 \in Nat /\ h \div 2 \in Nat
    BY <1>1, <1>3
  <2> HIDE DEF r
  <2> QED
    BY <1>1, <1>3, <1>5, <2>1
<1>7. Nv16Size(r, h) = Exactly(n)
  BY <1>1, <1>3, PlanarSizes
<1>9. SizeRight("Nv16", w, h, s)
  <2> HIDE DEF r, n
  <2>1. OrZero(Nv16Size(r, h)) = IF n <= SizeMax THEN n ELSE 0
    BY <1>6, <1>7, OrZeroExactly
  <2> QED
    BY <1>3, <1>4, <1>6, <2>1 DEF SizeRight
<1> QED
  BY <1>6, <1>9

LEMMA Yuv422Right ==
    ASSUME NEW w, NEW h, NEW s, Dimensions(w, h, s)
    PROVE  /\ SizeRight("Yuv422", w, h, s)
           /\ LayoutSize("Yuv422", w, h, s) =
                  PlanarStride(w, s) * h + ((PlanarStride(w, s) \div 2) * h) * 2
<1> DEFINE r == PlanarStride(w, s)
           n == r * h + ((r \div 2) * h) * 2
<1>1. /\ w \in Nat \ {0} /\ h \in Nat \ {0} /\ s \in Nat
      /\ w > 0 /\ h > 0 /\ s >= 0 /\ ~ (w <= 0) /\ ~ (h <= 0) /\ ~ (s < 0)
  BY DEF Dimensions
<1>2. LayoutOf("Yuv422") = Layout(1, TRUE, FALSE, TRUE, <<Full, <<2, 1>>, <<2, 1>> >>)
  BY DEF LayoutOf
<1>3. /\ Stride("Yuv422", w, s) = r /\ r \in Nat
      /\ ValidLayout("Yuv422", w, h, s) <=> (w % 2 = 0 /\ r >= w /\ r % 2 = 0)
  BY <1>1, <1>2, PlanarStrideIs DEF ValidLayout, Layout
<1>4. ImageSizeBytes("Yuv422", w, h, s) =
          IF (w % 2 = 0 /\ r >= w /\ r % 2 = 0) THEN OrZero(Yuv422Size(r, h)) ELSE 0
  BY <1>1 DEF ImageSizeBytes, StrideAccepted
<1>5. LayoutSize("Yuv422", w, h, s) = r * h + (r \div 2) * h + (r \div 2) * h
  <2> HIDE DEF r
  <2>1. /\ PlaneSize("Yuv422", w, h, s, 1) = (r \div 1) * (h \div 1)
        /\ PlaneSize("Yuv422", w, h, s, 2) = (r \div 2) * (h \div 1)
        /\ PlaneSize("Yuv422", w, h, s, 3) = (r \div 2) * (h \div 1)
    BY <1>2, <1>3 DEF PlaneSize, Full, Layout
  <2>2. r \div 1 = r /\ h \div 1 = h /\ r \div 2 \in Nat /\ h \div 2 \in Nat
    BY <1>1, <1>3
  <2> QED
    BY <1>1, <1>3, <2>1, <2>2 DEF LayoutSize
<1>6. n \in Nat /\ LayoutSize("Yuv422", w, h, s) = n
  <2>1. r \div 2 \in Nat /\ h \div 2 \in Nat
    BY <1>1, <1>3
  <2> HIDE DEF r
  <2> QED
    BY <1>1, <1>3, <1>5, <2>1
<1>7. Yuv422Size(r, h) = Exactly(n)
  BY <1>1, <1>3, PlanarSizes
<1>9. SizeRight("Yuv422", w, h, s)
  <2> HIDE DEF r, n
  <2>1. OrZero(Yuv422Size(r, h)) = IF n <= SizeMax THEN n ELSE 0
    BY <1>6, <1>7, OrZeroExactly
  <2> QED
    BY <1>3, <1>4, <1>6, <2>1 DEF SizeRight
<1> QED
  BY <1>6, <1>9

\* A layout that is none has no size.
LEMMA InvalidRight ==
    ASSUME NEW f \in PixelFormat, NEW w \in Int, NEW h \in Int, NEW s \in Int,
           ~ Dimensions(w, h, s)
    PROVE  SizeRight(f, w, h, s)
<1>1. w <= 0 \/ h <= 0 \/ s < 0
  BY DEF Dimensions
<1>2. ~ (w > 0 /\ h > 0 /\ s >= 0)
  BY <1>1
<1>3. ImageSizeBytes(f, w, h, s) = 0 /\ ~ ValidLayout(f, w, h, s)
  BY <1>1, <1>2 DEF ImageSizeBytes, ValidLayout
<1> QED
  BY <1>3 DEF SizeRight

\* imageSizeBytes is exact for every format, width, height and stride, as long
\* as a size_t holds the stride.
LEMMA AnySizeRight ==
    ASSUME NEW f \in PixelFormat, NEW w \in Int, NEW h \in Int, NEW s \in Int,
           s <= SizeMax
    PROVE  SizeRight(f, w, h, s)
<1>1. CASE ~ Dimensions(w, h, s)
  BY <1>1, InvalidRight
<1>2. CASE Dimensions(w, h, s) /\ f \in PackedFormat
  BY <1>2, PackedRight
<1>3. CASE Dimensions(w, h, s) /\ f \notin PackedFormat
  <2>1. f \in {"Nv12", "Yuv420", "Nv16", "Yuv422"}
    BY <1>3 DEF PixelFormat, PackedFormat
  <2> QED
    BY <1>3, <2>1, Nv12Right, Yuv420Right, Nv16Right, Yuv422Right
<1> QED
  BY <1>1, <1>2, <1>3

-----------------------------------------------------------------------------
\* A half, exactly.
LEMMA Halves ==
    ASSUME NEW n \in Nat
    PROVE  /\ (2 * n) \div 2 = n
           /\ n % 2 = 0 => \E k \in Nat : n = 2 * k /\ n \div 2 = k
<1>1. (2 * n) \div 2 = n
  OBVIOUS
<1>2. ASSUME n % 2 = 0 PROVE n \div 2 \in Nat /\ n = 2 * (n \div 2)
  BY <1>2
<1> QED
  BY <1>1, <1>2

\* computeSizeBytes allocates as much as imageSizeBytes measures.
LEMMA PoolAgrees ==
    ASSUME NEW f \in PixelFormat, NEW w \in Nat \ {0}, NEW h \in Nat \ {0}
    PROVE  PoolSizeRight(f, w, h)
<1> SUFFICES ASSUME ImageSizeBytes(f, w, h, 0) # 0, 4 * w * h <= SizeMax
             PROVE  ComputeSizeBytes(f, w, h) = LayoutSize(f, w, h, 0)
  <2>1. SizeRight(f, w, h, 0)
    BY AnySizeRight, SizeMaxAssumption
  <2>2. ImageSizeBytes(f, w, h, 0) # 0 => ImageSizeBytes(f, w, h, 0) = LayoutSize(f, w, h, 0)
    BY <2>1 DEF SizeRight
  <2> QED
    BY <2>2 DEF PoolSizeRight
<1> DEFINE a == w * h
<1>1. a \in Nat /\ 4 * a <= SizeMax
  OBVIOUS
<1>2. Dimensions(w, h, 0) /\ ValidLayout(f, w, h, 0)
  <2>1. SizeRight(f, w, h, 0)
    BY AnySizeRight, SizeMaxAssumption
  <2> QED
    BY <2>1 DEF SizeRight, Dimensions
<1> HIDE DEF a
<1>3. Wrapped(a) = a /\ Wrapped(a * 2) = a * 2 /\ Wrapped(a * 3) = a * 3 /\ Wrapped(a * 4) = a * 4
  <2>1. a \in 0 .. SizeMax /\ a * 2 \in 0 .. SizeMax /\ a * 3 \in 0 .. SizeMax
        /\ a * 4 \in 0 .. SizeMax
    BY <1>1, SizeMaxAssumption
  <2> QED
    BY <2>1, WrappedIsExact
<1>4. /\ LayoutOf(f).evenWidth => w % 2 = 0
      /\ LayoutOf(f).evenHeight => h % 2 = 0
  BY <1>2 DEF ValidLayout
<1>5. CASE f \in PackedFormat
  <2>1. LayoutSize(f, w, h, 0) = (w * LayoutOf(f).bytes) * h
    BY <1>2, <1>5, PackedLayout, PackedPlanes DEF Stride, PackedFormat, PixelFormat
  <2>2. CASE f = "Gray8"
    BY <1>3, <2>1, <2>2 DEF LayoutOf, Layout, ComputeSizeBytes, a
  <2>3. CASE f \in {"Rgb24", "Bgr24"}
    BY <1>3, <2>1, <2>3 DEF LayoutOf, Layout, ComputeSizeBytes, a
  <2>4. CASE f \in {"Rgba32", "Bgra32"}
    BY <1>3, <2>1, <2>4 DEF LayoutOf, Layout, ComputeSizeBytes, a
  <2>5. CASE f \in {"Yuyv", "Uyvy"}
    BY <1>3, <2>1, <2>5 DEF LayoutOf, Layout, ComputeSizeBytes, a
  <2> QED
    BY <1>5, <2>2, <2>3, <2>4, <2>5 DEF PackedFormat
<1>6. PlanarStride(w, 0) = w
  BY DEF PlanarStride
<1>7. CASE f = "Nv12"
  <2>1. w % 2 = 0 /\ h % 2 = 0
    BY <1>4, <1>7 DEF LayoutOf, Layout
  <2>2. PICK k \in Nat : h = 2 * k /\ h \div 2 = k
    BY <2>1, Halves
  <2>3. w * k \in Nat /\ a = 2 * (w * k) /\ a * 3 = 2 * (3 * (w * k))
    BY <2>2 DEF a
  <2>4. (a * 3) \div 2 = 3 * (w * k)
    BY <2>3, Halves
  <2>5. LayoutSize(f, w, h, 0) = a + w * k
    BY <1>2, <1>6, <1>7, <2>2, Nv12Right DEF a
  <2>6. ComputeSizeBytes(f, w, h) = (a * 3) \div 2
    BY <1>3, <1>7 DEF ComputeSizeBytes, a
  <2> QED
    BY <2>3, <2>4, <2>5, <2>6
<1>8. CASE f = "Yuv420"
  <2>1. w % 2 = 0 /\ h % 2 = 0
    BY <1>4, <1>8 DEF LayoutOf, Layout
  <2>2. PICK k \in Nat : h = 2 * k /\ h \div 2 = k
    BY <2>1, Halves
  <2>3. PICK j \in Nat : w = 2 * j /\ w \div 2 = j
    BY <2>1, Halves
  <2>4. j * k \in Nat /\ a = 4 * (j * k) /\ a * 3 = 2 * (6 * (j * k))
    BY <2>2, <2>3 DEF a
  <2>5. (a * 3) \div 2 = 6 * (j * k)
    BY <2>4, Halves
  <2>6. LayoutSize(f, w, h, 0) = a + (j * k) * 2
    BY <1>2, <1>6, <1>8, <2>2, <2>3, Yuv420Right DEF a
  <2>7. ComputeSizeBytes(f, w, h) = (a * 3) \div 2
    BY <1>3, <1>8 DEF ComputeSizeBytes, a
  <2> QED
    BY <2>4, <2>5, <2>6, <2>7
<1>9. CASE f = "Nv16"
  <2>1. LayoutSize(f, w, h, 0) = a * 2
    BY <1>2, <1>6, <1>9, Nv16Right DEF a
  <2>2. ComputeSizeBytes(f, w, h) = a * 2
    BY <1>3, <1>9 DEF ComputeSizeBytes, a
  <2> QED
    BY <2>1, <2>2
<1>10. CASE f = "Yuv422"
  <2>1. w % 2 = 0
    BY <1>4, <1>10 DEF LayoutOf, Layout
  <2>2. PICK j \in Nat : w = 2 * j /\ w \div 2 = j
    BY <2>1, Halves
  <2>3. j * h \in Nat /\ a = 2 * (j * h)
    BY <2>2 DEF a
  <2>4. LayoutSize(f, w, h, 0) = a + (j * h) * 2
    BY <1>2, <1>6, <1>10, <2>2, Yuv422Right DEF a
  <2>5. ComputeSizeBytes(f, w, h) = a * 2
    BY <1>3, <1>10 DEF ComputeSizeBytes, a
  <2> QED
    BY <2>3, <2>4, <2>5
<1> QED
  BY <1>5, <1>7, <1>8, <1>9, <1>10 DEF PixelFormat, PackedFormat

-----------------------------------------------------------------------------
\* imageSizeBytes is exact or refuses, for every format and every image an int
\* can measure: no intermediate product or sum wraps, whatever the width of a
\* size_t; and the pool's own arithmetic agrees with it where the layout is valid
\* and four bytes a pixel fit a size_t.
THEOREM SizesExact == PipelineSpec => []SizeIsExact
<1>1. SizeIsExact
  <2>1. \A f \in PixelFormat : \A w, h, s \in -1 .. IntMax : SizeRight(f, w, h, s)
    BY AnySizeRight, SizeMaxAssumption
  <2>2. \A f \in PixelFormat : \A w, h \in 1 .. IntMax : PoolSizeRight(f, w, h)
    BY PoolAgrees, SizeMaxAssumption
  <2> QED
    BY <2>1, <2>2 DEF SizeIsExact
<1> QED
  BY <1>1, PTL

\* A format that the driver echoes is read back as the format it was.
THEOREM FourccsRoundTrip == PipelineSpec => []FourccRoundTrip
<1>1. ASSUME NEW f \in PixelFormat PROVE FourccRight(f)
  <2>1. /\ ToV4l2Fourcc("Bgr24") = "BGR24" /\ ToV4l2Fourcc("Rgb24") = "RGB24"
        /\ ToV4l2Fourcc("Gray8") = "GREY" /\ ToV4l2Fourcc("Nv12") = "NV12"
        /\ ToV4l2Fourcc("Yuv420") = "YUV420" /\ ToV4l2Fourcc("Yuv422") = "YUV422P"
        /\ ToV4l2Fourcc("Nv16") = "NV16" /\ ToV4l2Fourcc("Yuyv") = "YUYV"
        /\ ToV4l2Fourcc("Uyvy") = "UYVY"
        /\ ToV4l2Fourcc("Rgba32") = "none" /\ ToV4l2Fourcc("Bgra32") = "none"
    BY DEF ToV4l2Fourcc
  <2>2. /\ FromV4l2Fourcc("BGR24") = "Bgr24" /\ FromV4l2Fourcc("RGB24") = "Rgb24"
        /\ FromV4l2Fourcc("GREY") = "Gray8" /\ FromV4l2Fourcc("NV12") = "Nv12"
        /\ FromV4l2Fourcc("YUV420") = "Yuv420" /\ FromV4l2Fourcc("YUV422P") = "Yuv422"
        /\ FromV4l2Fourcc("NV16") = "Nv16" /\ FromV4l2Fourcc("YUYV") = "Yuyv"
        /\ FromV4l2Fourcc("UYVY") = "Uyvy"
    BY DEF FromV4l2Fourcc
  <2> QED
    BY <2>1, <2>2 DEF FourccRight, PixelFormat
<1>2. FourccRoundTrip
  BY <1>1 DEF FourccRoundTrip
<1> QED
  BY <1>2, PTL
================================================================================
