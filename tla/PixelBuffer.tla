------------------------------ MODULE PixelBuffer ------------------------------
(***************************************************************************)
(* The pixels of main/FrameBuffer.c as the two displays want them: bits of *)
(* the bytes of a row.  The dev board's rows are five bytes, the last      *)
(* column byte first and the least significant bit left, and a pixel is    *)
(* lit by a 0; the form factor's are four bytes in order, the most         *)
(* significant bit left, and lit by a 1.                                   *)
(*                                                                         *)
(* One task, one write and one read buffer that change places; the three   *)
(* buffers between the tasks are in FrameBuffer.  A byte is the set of its *)
(* bits that are 1.                                                        *)
(***************************************************************************)
EXTENDS Naturals

CONSTANTS
    DevBoard,     \* CONFIG_DEV_BOARD_DISPLAY, else CONFIG_FORM_FACTOR_DISPLAY
    ColBytes,     \* FRAME_BUF_COL_BYTES
    Rows,         \* FRAME_BUF_ROWS
    Xs, Ys,       \* the coordinates callers pass
    Bytes         \* the bytes callers pass to buffer_set_byte

ASSUME DisplayAssumption ==
    /\ DevBoard \in BOOLEAN
    /\ ColBytes \in Nat \ {0} /\ Rows \in Nat \ {0}
    /\ Xs \subseteq Nat /\ Ys \subseteq Nat
    /\ Bytes \subseteq SUBSET (0 .. 7)

Bits == 0 .. 7
Cols == 8 * ColBytes
Frames == [0 .. Rows - 1 -> [0 .. ColBytes - 1 -> SUBSET Bits]]

VARIABLES
    wbuf,   \* the buffer drawn to
    rbuf,   \* the buffer shown
    call,   \* the last function called and its arguments
    ret     \* what it returned

vars == <<wbuf, rbuf, call, ret>>

CLEAR_BYTE == IF DevBoard THEN Bits ELSE {}
ClearFrame == [y \in 0 .. Rows - 1 |-> [i \in 0 .. ColBytes - 1 |-> CLEAR_BYTE]]

TypeOK ==
    /\ wbuf \in Frames
    /\ rbuf \in Frames
    /\ ret \in {"void", "ok", "error", "true", "false"}

\* buffer_reset
Init == wbuf = ClearFrame /\ rbuf = ClearFrame /\ call = <<"reset">> /\ ret = "void"

-----------------------------------------------------------------------------
\* The 4 of the code is the last of five bytes.
Idx(x) == IF DevBoard THEN (ColBytes - 1) - (x \div 8) ELSE x \div 8

\* Mutant of BitIdx: counted from 1.
BitIdxFrom1(x) == IF DevBoard THEN (x % 8) + 1 ELSE 8 - (x % 8)

BitIdx(x) == IF DevBoard THEN x % 8 ELSE 7 - (x % 8)

\* Mutant of On: a 1 on both boards.
OnHigh(byte, bit) == byte \cup {bit}

\* Bit 1 or bit 0 lights.
On(byte, bit) == IF DevBoard THEN byte \ {bit} ELSE byte \cup {bit}
Off(byte, bit) == IF DevBoard THEN byte \cup {bit} ELSE byte \ {bit}
IsOn(byte, bit) == IF DevBoard THEN bit \notin byte ELSE bit \in byte

buffer_clear ==
    /\ wbuf' = ClearFrame
    /\ call' = <<"clear">> /\ ret' = "void"
    /\ UNCHANGED rbuf

buffer_copy ==
    /\ wbuf' = rbuf
    /\ call' = <<"copy">> /\ ret' = "void"
    /\ UNCHANGED rbuf

buffer_invert ==
    /\ wbuf' = [y \in 0 .. Rows - 1 |-> [i \in 0 .. ColBytes - 1 |-> Bits \ wbuf[y][i]]]
    /\ call' = <<"invert">> /\ ret' = "void"
    /\ UNCHANGED rbuf

\* What the functions with coordinates have in common: a byte or nothing.
PutByte(x, y, byte) ==
    /\ \/ /\ x < Cols /\ y < Rows
          /\ wbuf' = [wbuf EXCEPT ![y][Idx(x)] = byte]
          /\ ret' = "ok"
       \/ /\ x >= Cols \/ y >= Rows
          /\ wbuf' = wbuf
          /\ ret' = "error"
    /\ UNCHANGED rbuf

buffer_set_pixel(x, y) ==
    /\ PutByte(x, y, On(wbuf[y][Idx(x)], BitIdx(x)))
    /\ call' = <<"set_pixel", x, y>>

buffer_clear_pixel(x, y) ==
    /\ PutByte(x, y, Off(wbuf[y][Idx(x)], BitIdx(x)))
    /\ call' = <<"clear_pixel", x, y>>

buffer_set_byte(x, y, b) ==
    /\ PutByte(x, y, IF DevBoard THEN Bits \ b ELSE b)
    /\ call' = <<"set_byte", x, y, b>>

buffer_check_pixel(x, y) ==
    /\ \/ /\ x < Cols /\ y < Rows
          /\ ret' = IF IsOn(rbuf[y][Idx(x)], BitIdx(x)) THEN "true" ELSE "false"
       \/ /\ x >= Cols \/ y >= Rows
          /\ ret' = "false"
    /\ call' = <<"check_pixel", x, y>>
    /\ UNCHANGED <<wbuf, rbuf>>

buffer_compare_match ==
    /\ ret' = IF wbuf = rbuf THEN "true" ELSE "false"
    /\ call' = <<"compare_match">>
    /\ UNCHANGED <<wbuf, rbuf>>

\* buffer_update without triple buffering
buffer_update ==
    /\ wbuf' = rbuf
    /\ rbuf' = wbuf
    /\ call' = <<"update">> /\ ret' = "void"

-----------------------------------------------------------------------------
Next ==
    \/ buffer_clear
    \/ buffer_copy
    \/ buffer_invert
    \/ \E x \in Xs, y \in Ys :
        \/ buffer_set_pixel(x, y)
        \/ buffer_clear_pixel(x, y)
        \/ buffer_check_pixel(x, y)
        \/ \E b \in Bytes : buffer_set_byte(x, y, b)
    \/ buffer_compare_match
    \/ buffer_update

Spec == Init /\ [][Next]_vars

-----------------------------------------------------------------------------
\* The pixels a frame lights.
Lit(f) ==
    {p \in (0 .. Cols - 1) \X (0 .. Rows - 1) : IsOn(f[p[2]][Idx(p[1])], BitIdx(p[1]))}

P == INSTANCE Picture WITH
    drawn <- Lit(wbuf), shown <- Lit(rbuf), BitOf <- [i \in 0 .. 7 |-> BitIdx(i)]

(* On either display the bytes are a picture: a function changes the one    *)
(* pixel it names and no other, every bit is somebody's pixel, and what is  *)
(* drawn is seen by buffer_check_pixel and buffer_compare_match once it is  *)
(* shown (33-158).                                                          *)
DrawsPicture == P!Spec
=============================================================================
