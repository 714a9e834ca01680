--------------------------- MODULE PixelBuffer_proof ---------------------------
(***************************************************************************)
(* PixelBuffer draws pictures as Picture says, on either board and for any *)
(* size of the display: columns and bits of a row correspond one to one,   *)
(* and every step changes the lit pixels as the abstract step does.        *)
(***************************************************************************)
EXTENDS PixelBuffer, TLAPS

Columns == 0 .. Cols - 1
Lines == 0 .. Rows - 1
ByteIdxs == 0 .. ColBytes - 1

-----------------------------------------------------------------------------
(* Columns and bits                                                          *)

(* A column has a byte of its row and a bit of it (FrameBuffer.c:69-75).    *)
LEMMA Address ==
    \A x \in Columns : Idx(x) \in ByteIdxs /\ BitIdx(x) \in Bits
BY DisplayAssumption, SMTT(30) DEF Columns, Cols, ByteIdxs, Idx, BitIdx, Bits

(* Two columns never share one.                                             *)
LEMMA OneBitEach ==
    \A x, z \in Columns : Idx(x) = Idx(z) /\ BitIdx(x) = BitIdx(z) => x = z
BY DisplayAssumption, SMTT(30) DEF Columns, Cols, Idx, BitIdx

(* Every bit of a row is some column's.                                     *)
LEMMA EveryBit ==
    \A i \in ByteIdxs, b \in Bits : \E x \in Columns : Idx(x) = i /\ BitIdx(x) = b
<1> SUFFICES ASSUME NEW i \in ByteIdxs, NEW b \in Bits
             PROVE  \E x \in Columns : Idx(x) = i /\ BitIdx(x) = b
  OBVIOUS
<1> DEFINE x == IF DevBoard THEN 8 * ((ColBytes - 1) - i) + b ELSE 8 * i + (7 - b)
<1>1. x \in Columns
  BY DisplayAssumption, SMTT(30) DEF Columns, Cols, ByteIdxs, Bits
<1>2. Idx(x) = i /\ BitIdx(x) = b
  BY DisplayAssumption, SMTT(30) DEF ByteIdxs, Bits, Idx, BitIdx
<1> QED BY <1>1, <1>2

(* The columns of one byte are neighbours, with bits of their own by place. *)
LEMMA ByteIsBlock ==
    /\ \A x, z \in Columns : (Idx(x) = Idx(z)) <=> (x \div 8 = z \div 8)
    /\ \A x \in Columns : x % 8 \in 0 .. 7 /\ BitIdx(x % 8) = BitIdx(x)
BY DisplayAssumption, SMTT(30) DEF Columns, Cols, Idx, BitIdx

-----------------------------------------------------------------------------
(* Frames and their pictures                                                 *)

LEMMA SamePicture ==
    ASSUME NEW S \in SUBSET (Columns \X Lines), NEW T \in SUBSET (Columns \X Lines),
           \A x \in Columns, y \in Lines : <<x, y>> \in S <=> <<x, y>> \in T
    PROVE  S = T
OBVIOUS

LEMMA LitPixels ==
    ASSUME NEW f
    PROVE  /\ Lit(f) \in SUBSET (Columns \X Lines)
           /\ \A x \in Columns, y \in Lines :
                  <<x, y>> \in Lit(f) <=> IsOn(f[y][Idx(x)], BitIdx(x))
BY DEF Lit, Columns, Lines

(* Two frames with the same picture are the same, byte for byte.            *)
LEMMA LitInjective ==
    ASSUME NEW f \in Frames, NEW g \in Frames, Lit(f) = Lit(g)
    PROVE  f = g
<1>1. ASSUME NEW y \in Lines, NEW i \in ByteIdxs PROVE f[y][i] = g[y][i]
  <2>1. f[y][i] \in SUBSET Bits /\ g[y][i] \in SUBSET Bits
    BY <1>1 DEF Frames, Lines, ByteIdxs
  <2>2. ASSUME NEW b \in Bits PROVE b \in f[y][i] <=> b \in g[y][i]
    <3>1. PICK x \in Columns : Idx(x) = i /\ BitIdx(x) = b
      BY <1>1, <2>2, EveryBit
    <3>2. IsOn(f[y][i], b) <=> IsOn(g[y][i], b)
      BY <1>1, <3>1, LitPixels
    <3> QED BY <3>2 DEF IsOn
  <2> QED BY <2>1, <2>2
<1>2. ASSUME NEW y \in Lines PROVE f[y] = g[y]
  <2>1. f[y] \in [ByteIdxs -> SUBSET Bits] /\ g[y] \in [ByteIdxs -> SUBSET Bits]
    BY <1>2 DEF Frames, Lines, ByteIdxs
  <2> QED BY <2>1, <1>1, <1>2
<1>3. /\ f \in [Lines -> [ByteIdxs -> SUBSET Bits]]
      /\ g \in [Lines -> [ByteIdxs -> SUBSET Bits]]
  BY DEF Frames, Lines, ByteIdxs
<1> QED BY <1>2, <1>3

-----------------------------------------------------------------------------
(* The functions of FrameBuffer.c on a frame                                 *)

LEMMA ClearLit == ClearFrame \in Frames /\ Lit(ClearFrame) = {}
<1>1. ClearFrame \in Frames
  BY DEF ClearFrame, Frames, CLEAR_BYTE
<1>2. \A x \in Columns, y \in Lines : ~ IsOn(ClearFrame[y][Idx(x)], BitIdx(x))
  BY Address DEF ClearFrame, CLEAR_BYTE, IsOn, Lines, ByteIdxs
<1> QED BY <1>1, <1>2, SamePicture, LitPixels

Inverted(f) == [y \in 0 .. Rows - 1 |-> [i \in 0 .. ColBytes - 1 |-> Bits \ f[y][i]]]

LEMMA InvertLit ==
    ASSUME NEW f \in Frames
    PROVE  Inverted(f) \in Frames /\ Lit(Inverted(f)) = (Columns \X Lines) \ Lit(f)
<1>1. Inverted(f) \in Frames
  BY DEF Inverted, Frames
<1>2. ASSUME NEW x \in Columns, NEW y \in Lines
      PROVE  IsOn(Inverted(f)[y][Idx(x)], BitIdx(x)) <=> ~ IsOn(f[y][Idx(x)], BitIdx(x))
  <2>1. Inverted(f)[y][Idx(x)] = Bits \ f[y][Idx(x)]
    BY Address DEF Inverted, Lines, ByteIdxs
  <2> QED BY <2>1, Address DEF IsOn
<1>3. \A x \in Columns, y \in Lines :
          <<x, y>> \in Lit(Inverted(f)) <=> <<x, y>> \in (Columns \X Lines) \ Lit(f)
  BY <1>2, LitPixels
<1>4. Lit(Inverted(f)) \in SUBSET (Columns \X Lines)
  BY LitPixels
<1> QED BY <1>1, <1>3, <1>4, SamePicture

\* The frame with one byte replaced.
WithByte(f, x, y, byte) == [f EXCEPT ![y][Idx(x)] = byte]

LEMMA WithByteIs ==
    ASSUME NEW f \in Frames, NEW x \in Columns, NEW y \in Lines,
           NEW byte \in SUBSET Bits
    PROVE  /\ WithByte(f, x, y, byte) \in Frames
           /\ \A z \in Lines, i \in ByteIdxs :
                  WithByte(f, x, y, byte)[z][i] =
                      IF z = y /\ i = Idx(x) THEN byte ELSE f[z][i]
<1>1. Idx(x) \in ByteIdxs
  BY Address
<1>2. f \in [Lines -> [ByteIdxs -> SUBSET Bits]]
  BY DEF Frames, Lines, ByteIdxs
<1>3. WithByte(f, x, y, byte) \in [Lines -> [ByteIdxs -> SUBSET Bits]]
  BY <1>1, <1>2 DEF WithByte
<1>4. \A z \in Lines, i \in ByteIdxs :
          WithByte(f, x, y, byte)[z][i] = IF z = y /\ i = Idx(x) THEN byte ELSE f[z][i]
  BY <1>1, <1>2 DEF WithByte
<1> QED BY <1>3, <1>4 DEF Frames, Lines, ByteIdxs

(* A pixel that is set or cleared changes alone (57-100).                   *)
LEMMA PixelLit ==
    ASSUME NEW f \in Frames, NEW x \in Columns, NEW y \in Lines, NEW byte \in SUBSET Bits,
           \A b \in Bits \ {BitIdx(x)} : b \in byte <=> b \in f[y][Idx(x)]
    PROVE  Lit(WithByte(f, x, y, byte)) =
               IF IsOn(byte, BitIdx(x)) THEN Lit(f) \cup {<<x, y>>} ELSE Lit(f) \ {<<x, y>>}
<1> DEFINE g == WithByte(f, x, y, byte)
<1>1. ASSUME NEW u \in Columns, NEW v \in Lines, <<u, v>> # <<x, y>>
      PROVE  IsOn(g[v][Idx(u)], BitIdx(u)) <=> IsOn(f[v][Idx(u)], BitIdx(u))
  <2>1. CASE v = y /\ Idx(u) = Idx(x)
    <3>1. BitIdx(u) \in Bits \ {BitIdx(x)}
      BY <1>1, <2>1, Address, OneBitEach
    <3>2. g[v][Idx(u)] = byte
      BY <1>1, <2>1, Address, WithByteIs
    <3> QED BY <2>1, <3>1, <3>2 DEF IsOn
  <2>2. CASE ~ (v = y /\ Idx(u) = Idx(x))
    BY <1>1, <2>2, Address, WithByteIs
  <2> QED BY <2>1, <2>2
<1>2. g[y][Idx(x)] = byte
  BY Address, WithByteIs
<1>3. <<x, y>> \in Lit(g) <=> IsOn(byte, BitIdx(x))
  BY <1>2, LitPixels
<1>4. ASSUME NEW u \in Columns, NEW v \in Lines, <<u, v>> # <<x, y>>
      PROVE  <<u, v>> \in Lit(g) <=> <<u, v>> \in Lit(f)
  BY <1>1, <1>4, LitPixels
<1>5. Lit(f) \in SUBSET (Columns \X Lines) /\ Lit(g) \in SUBSET (Columns \X Lines)
  BY LitPixels
<1> HIDE DEF g
<1>6. CASE IsOn(byte, BitIdx(x))
  <2>1. Lit(g) = Lit(f) \cup {<<x, y>>}
    BY <1>3, <1>4, <1>5, <1>6, SamePicture
  <2> QED BY <2>1, <1>6 DEF g
<1>7. CASE ~ IsOn(byte, BitIdx(x))
  <2>1. Lit(g) = Lit(f) \ {<<x, y>>}
    BY <1>3, <1>4, <1>5, <1>7, SamePicture
  <2> QED BY <2>1, <1>7 DEF g
<1> QED BY <1>6, <1>7

ByteFor(b) == IF DevBoard THEN Bits \ b ELSE b

Painted(x, y, b) == {p \in P!Block(x, y) : [i \in 0 .. 7 |-> BitIdx(i)][p[1] % 8] \in b}

(* A byte paints its eight pixels and no other (101-121).                   *)
LEMMA ByteLit ==
    ASSUME NEW f \in Frames, NEW x \in Columns, NEW y \in Lines, NEW b \in SUBSET Bits
    PROVE  Lit(WithByte(f, x, y, ByteFor(b))) = (Lit(f) \ P!Block(x, y)) \cup Painted(x, y, b)
<1> DEFINE byte == ByteFor(b)
           g == WithByte(f, x, y, byte)
           painted == Painted(x, y, b)
<1> USE DEF ByteFor, Painted
<1>1. byte \in SUBSET Bits
  OBVIOUS
<1>2. ASSUME NEW u \in Columns, NEW v \in Lines
      PROVE  <<u, v>> \in P!Block(x, y) <=> (v = y /\ Idx(u) = Idx(x))
  BY <1>2, ByteIsBlock DEF P!Block, P!Pixels, Columns, Lines
<1>3. ASSUME NEW u \in Columns, NEW v \in Lines
      PROVE  <<u, v>> \in Lit(g) <=> <<u, v>> \in (Lit(f) \ P!Block(x, y)) \cup painted
  <2>1. <<u, v>> \in Lit(g) <=> IsOn(g[v][Idx(u)], BitIdx(u))
    BY <1>3, LitPixels
  <2>2. CASE v = y /\ Idx(u) = Idx(x)
    <3>1. g[v][Idx(u)] = byte
      BY <1>1, <1>3, <2>2, Address, WithByteIs
    <3>2. IsOn(byte, BitIdx(u)) <=> BitIdx(u) \in b
      BY <1>3, Address DEF IsOn
    <3>3. [i \in 0 .. 7 |-> BitIdx(i)][u % 8] = BitIdx(u)
      BY <1>3, ByteIsBlock
    <3>4. <<u, v>> \in painted <=> BitIdx(u) \in b
      BY <1>2, <1>3, <2>2, <3>3
    <3> QED BY <1>2, <1>3, <2>1, <2>2, <3>1, <3>2, <3>4
  <2>3. CASE ~ (v = y /\ Idx(u) = Idx(x))
    <3>1. g[v][Idx(u)] = f[v][Idx(u)]
      BY <1>1, <1>3, <2>3, Address, WithByteIs
    <3> QED BY <1>2, <1>3, <2>1, <2>3, <3>1, LitPixels
  <2> QED BY <2>2, <2>3
<1>4. /\ Lit(f) \in SUBSET (Columns \X Lines)
      /\ Lit(g) \in SUBSET (Columns \X Lines)
      /\ painted \in SUBSET (Columns \X Lines)
  BY LitPixels DEF P!Block, P!Pixels, Columns, Lines
<1> HIDE DEF g, painted
<1>5. Lit(g) = (Lit(f) \ P!Block(x, y)) \cup painted
  BY <1>3, <1>4, SamePicture
<1> QED BY <1>5 DEF g, painted

-----------------------------------------------------------------------------
(* The specification                                                         *)

(* Coordinates in range are those of a pixel.                               *)
LEMMA InRange ==
    ASSUME NEW x \in Xs, NEW y \in Ys
    PROVE  /\ (x < Cols /\ y < Rows) <=> (x \in Columns /\ y \in Lines)
           /\ (x >= Cols \/ y >= Rows) <=> ~ (x \in Columns /\ y \in Lines)
           /\ <<x, y>> \in P!Pixels <=> (x \in Columns /\ y \in Lines)
BY DisplayAssumption DEF Columns, Lines, Cols, P!Pixels

LEMMA OnOff ==
    ASSUME NEW byte \in SUBSET Bits, NEW bit \in Bits
    PROVE  /\ On(byte, bit) \in SUBSET Bits /\ Off(byte, bit) \in SUBSET Bits
           /\ IsOn(On(byte, bit), bit) /\ ~ IsOn(Off(byte, bit), bit)
           /\ \A c \in Bits \ {bit} : /\ c \in On(byte, bit) <=> c \in byte
                                      /\ c \in Off(byte, bit) <=> c \in byte
BY DEF On, Off, IsOn

LEMMA ByteOf ==
    ASSUME NEW f \in Frames, NEW x \in Columns, NEW y \in Lines
    PROVE  f[y][Idx(x)] \in SUBSET Bits
BY Address DEF Frames, Lines, ByteIdxs

LEMMA InitTypeOK == Init => TypeOK
BY ClearLit DEF Init, TypeOK

LEMMA NextTypeOK == TypeOK /\ [Next]_vars => TypeOK'
<1> SUFFICES ASSUME TypeOK, [Next]_vars PROVE TypeOK'
  OBVIOUS
<1> USE DEF TypeOK
<1>1. CASE buffer_clear
  BY <1>1, ClearLit DEF buffer_clear
<1>2. CASE buffer_copy
  BY <1>2 DEF buffer_copy
<1>3. CASE buffer_invert
  BY <1>3, InvertLit DEF buffer_invert, Inverted
<1>4. ASSUME NEW x \in Xs, NEW y \in Ys, NEW byte, PutByte(x, y, byte),
             x \in Columns /\ y \in Lines => byte \in SUBSET Bits
      PROVE  TypeOK'
  <2>1. CASE x < Cols /\ y < Rows
    <3>1. x \in Columns /\ y \in Lines /\ wbuf' = WithByte(wbuf, x, y, byte) /\ ret' = "ok"
      BY <1>4, <2>1, InRange, DisplayAssumption DEF PutByte, WithByte, Cols
    <3> QED BY <1>4, <3>1, WithByteIs DEF PutByte
  <2>2. CASE ~ (x < Cols /\ y < Rows)
    BY <1>4, <2>2 DEF PutByte
  <2> QED BY <2>1, <2>2
<1>5. ASSUME NEW x \in Xs, NEW y \in Ys, buffer_set_pixel(x, y) PROVE TypeOK'
  <2>1. ASSUME x \in Columns, y \in Lines
        PROVE  On(wbuf[y][Idx(x)], BitIdx(x)) \in SUBSET Bits
    <3>1. wbuf[y][Idx(x)] \in SUBSET Bits /\ BitIdx(x) \in Bits
      BY <2>1, ByteOf, Address
    <3> QED BY <3>1, OnOff
  <2> QED BY <1>4, <1>5, <2>1 DEF buffer_set_pixel
<1>6. ASSUME NEW x \in Xs, NEW y \in Ys, buffer_clear_pixel(x, y) PROVE TypeOK'
  <2>1. ASSUME x \in Columns, y \in Lines
        PROVE  Off(wbuf[y][Idx(x)], BitIdx(x)) \in SUBSET Bits
    <3>1. wbuf[y][Idx(x)] \in SUBSET Bits /\ BitIdx(x) \in Bits
      BY <2>1, ByteOf, Address
    <3> QED BY <3>1, OnOff
  <2> QED BY <1>4, <1>6, <2>1 DEF buffer_clear_pixel
<1>7. ASSUME NEW x \in Xs, NEW y \in Ys, NEW b \in Bytes, buffer_set_byte(x, y, b)
      PROVE  TypeOK'
  <2>1. b \in SUBSET Bits
    BY DisplayAssumption DEF Bits
  <2> QED BY <1>4, <1>7, <2>1 DEF buffer_set_byte
<1>8. ASSUME NEW x \in Xs, NEW y \in Ys, buffer_check_pixel(x, y) PROVE TypeOK'
  BY <1>8 DEF buffer_check_pixel
<1>9. CASE buffer_compare_match
  BY <1>9 DEF buffer_compare_match
<1>10. CASE buffer_update
  BY <1>10 DEF buffer_update
<1>11. CASE UNCHANGED vars
  BY <1>11 DEF vars
<1> QED BY <1>1, <1>2, <1>3, <1>5, <1>6, <1>7, <1>8, <1>9, <1>10, <1>11 DEF Next

(* The buffers hold frames of the board's size (FrameBuffer.h:17-19).       *)
THEOREM TypeCorrect == Spec => []TypeOK
BY InitTypeOK, NextTypeOK, PTL DEF Spec

-----------------------------------------------------------------------------
(* Every step of the frame buffer is a step of the picture                   *)

(* A function with coordinates replaces a byte, or refuses and changes      *)
(* nothing.                                                                 *)
LEMMA PutByteIs ==
    ASSUME TypeOK, NEW x \in Xs, NEW y \in Ys, NEW byte, PutByte(x, y, byte)
    PROVE  \/ /\ x \in Columns /\ y \in Lines /\ <<x, y>> \in P!Pixels
              /\ wbuf' = WithByte(wbuf, x, y, byte) /\ rbuf' = rbuf /\ ret' = "ok"
           \/ /\ <<x, y>> \notin P!Pixels
              /\ wbuf' = wbuf /\ rbuf' = rbuf /\ ret' = "error"
<1>1. CASE x < Cols /\ y < Rows
  BY <1>1, InRange, DisplayAssumption DEF PutByte, WithByte, Cols
<1>2. CASE ~ (x < Cols /\ y < Rows)
  BY <1>2, InRange DEF PutByte
<1> QED BY <1>1, <1>2

LEMMA SetPixelStep ==
    ASSUME TypeOK, NEW x \in Xs, NEW y \in Ys, buffer_set_pixel(x, y)
    PROVE  P!SetPixel(x, y)
<1> DEFINE byte == On(wbuf[y][Idx(x)], BitIdx(x))
<1>1. PutByte(x, y, byte) /\ call' = <<"set_pixel", x, y>>
  BY DEF buffer_set_pixel
<1>2. ASSUME x \in Columns, y \in Lines, wbuf' = WithByte(wbuf, x, y, byte)
      PROVE  Lit(wbuf') = Lit(wbuf) \cup {<<x, y>>}
  <2>1. wbuf \in Frames
    BY DEF TypeOK
  <2>2. /\ byte \in SUBSET Bits
        /\ IsOn(byte, BitIdx(x))
        /\ \A b \in Bits \ {BitIdx(x)} : b \in byte <=> b \in wbuf[y][Idx(x)]
    <3>1. wbuf[y][Idx(x)] \in SUBSET Bits /\ BitIdx(x) \in Bits
      BY <1>2, <2>1, ByteOf, Address
    <3> QED BY <3>1, OnOff
  <2> QED BY <1>2, <2>1, <2>2, PixelLit
<1>3. PutByte(x, y, byte) => P!SetPixel(x, y)
  BY <1>1, <1>2, PutByteIs DEF P!SetPixel, P!Draw
<1> QED BY <1>1, <1>3

LEMMA ClearPixelStep ==
    ASSUME TypeOK, NEW x \in Xs, NEW y \in Ys, buffer_clear_pixel(x, y)
    PROVE  P!ClearPixel(x, y)
<1> DEFINE byte == Off(wbuf[y][Idx(x)], BitIdx(x))
<1>1. PutByte(x, y, byte) /\ call' = <<"clear_pixel", x, y>>
  BY DEF buffer_clear_pixel
<1>2. ASSUME x \in Columns, y \in Lines, wbuf' = WithByte(wbuf, x, y, byte)
      PROVE  Lit(wbuf') = Lit(wbuf) \ {<<x, y>>}
  <2>1. wbuf \in Frames
    BY DEF TypeOK
  <2>2. /\ byte \in SUBSET Bits
        /\ ~ IsOn(byte, BitIdx(x))
        /\ \A b \in Bits \ {BitIdx(x)} : b \in byte <=> b \in wbuf[y][Idx(x)]
    <3>1. wbuf[y][Idx(x)] \in SUBSET Bits /\ BitIdx(x) \in Bits
      BY <1>2, <2>1, ByteOf, Address
    <3> QED BY <3>1, OnOff
  <2> QED BY <1>2, <2>1, <2>2, PixelLit
<1>3. PutByte(x, y, byte) => P!ClearPixel(x, y)
  BY <1>1, <1>2, PutByteIs DEF P!ClearPixel, P!Draw
<1> QED BY <1>1, <1>3

LEMMA SetByteStep ==
    ASSUME TypeOK, NEW x \in Xs, NEW y \in Ys, NEW b \in Bytes, buffer_set_byte(x, y, b)
    PROVE  P!SetByte(x, y, b)
<1>1. PutByte(x, y, ByteFor(b)) /\ call' = <<"set_byte", x, y, b>>
  BY DEF buffer_set_byte, ByteFor
<1>2. b \in SUBSET Bits /\ wbuf \in Frames
  BY DisplayAssumption DEF Bits, TypeOK
<1>3. ASSUME x \in Columns, y \in Lines, wbuf' = WithByte(wbuf, x, y, ByteFor(b))
      PROVE  Lit(wbuf') = (Lit(wbuf) \ P!Block(x, y)) \cup Painted(x, y, b)
  BY <1>2, <1>3, ByteLit
<1>4. CASE <<x, y>> \in P!Pixels
  BY <1>1, <1>3, <1>4, PutByteIs DEF P!SetByte, P!Draw, Painted
<1>5. CASE <<x, y>> \notin P!Pixels
  BY <1>1, <1>5, PutByteIs DEF P!SetByte, P!Draw
<1> QED BY <1>4, <1>5

LEMMA CheckPixelStep ==
    ASSUME TypeOK, NEW x \in Xs, NEW y \in Ys, buffer_check_pixel(x, y)
    PROVE  P!CheckPixel(x, y)
<1>1. CASE x \in Columns /\ y \in Lines
  BY <1>1, InRange, LitPixels DEF buffer_check_pixel, P!CheckPixel, P!Draw
<1>2. CASE ~ (x \in Columns /\ y \in Lines)
  <2>1. <<x, y>> \notin Lit(rbuf)
    BY <1>2, LitPixels
  <2> QED BY <1>2, <2>1, InRange DEF buffer_check_pixel, P!CheckPixel, P!Draw
<1> QED BY <1>1, <1>2

LEMMA CompareStep == TypeOK /\ buffer_compare_match => P!CompareMatch
<1>1. TypeOK => (wbuf = rbuf <=> Lit(wbuf) = Lit(rbuf))
  BY LitInjective DEF TypeOK
<1> QED BY <1>1 DEF buffer_compare_match, P!CompareMatch, P!Draw

LEMMA StepSimulation ==
    TypeOK /\ [Next]_vars => [P!Next]_(P!vars)
<1> SUFFICES ASSUME TypeOK, [Next]_vars PROVE [P!Next]_(P!vars)
  OBVIOUS
<1>1. CASE buffer_clear
  <2>1. P!Clear
    BY <1>1, ClearLit DEF buffer_clear, P!Clear, P!Draw
  <2> QED BY <2>1 DEF P!Next
<1>2. CASE buffer_copy
  <2>1. P!Copy
    BY <1>2 DEF buffer_copy, P!Copy, P!Draw
  <2> QED BY <2>1 DEF P!Next
<1>3. CASE buffer_invert
  <2>1. P!Pixels = Columns \X Lines
    BY DEF P!Pixels, Columns, Lines
  <2>2. wbuf' = Inverted(wbuf) /\ wbuf \in Frames
    BY <1>3 DEF buffer_invert, Inverted, TypeOK
  <2>3. P!Invert
    BY <1>3, <2>1, <2>2, InvertLit DEF buffer_invert, P!Invert, P!Draw
  <2> QED BY <2>3 DEF P!Next
<1>4. ASSUME NEW x \in Xs, NEW y \in Ys,
             \/ buffer_set_pixel(x, y) \/ buffer_clear_pixel(x, y)
             \/ buffer_check_pixel(x, y) \/ \E b \in Bytes : buffer_set_byte(x, y, b)
      PROVE  P!Next
  <2>1. \/ P!SetPixel(x, y) \/ P!ClearPixel(x, y) \/ P!CheckPixel(x, y)
        \/ \E b \in Bytes : P!SetByte(x, y, b)
    BY <1>4, SetPixelStep, ClearPixelStep, CheckPixelStep, SetByteStep
  <2> QED BY <2>1 DEF P!Next
<1>5. CASE buffer_compare_match
  BY <1>5, CompareStep DEF P!Next
<1>6. CASE buffer_update
  <2>1. P!Update
    BY <1>6 DEF buffer_update, P!Update
  <2> QED BY <2>1 DEF P!Next
<1>7. CASE UNCHANGED vars
  BY <1>7 DEF vars, P!vars
<1> QED BY <1>1, <1>2, <1>3, <1>4, <1>5, <1>6, <1>7 DEF Next

LEMMA InitSimulation == Init => P!Init
BY ClearLit DEF Init, P!Init

(* The frame buffer implements the picture: for both boards' layouts, any   *)
(* number of byte columns and rows, and every sequence of calls             *)
(* (FrameBuffer.c:33-158).                                                  *)
THEOREM FrameBufferDrawsPicture == Spec => DrawsPicture
<1>1. TypeOK /\ [Next]_vars => [P!Next]_(P!vars)
  BY StepSimulation
<1> QED BY <1>1, InitSimulation, TypeCorrect, PTL DEF Spec, P!Spec, DrawsPicture
=============================================================================
