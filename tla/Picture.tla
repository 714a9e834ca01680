-------------------------------- MODULE Picture --------------------------------
(***************************************************************************)
(* What the functions of main/FrameBuffer.c promise to a task that draws:  *)
(* a picture is a set of lit pixels, there is one being drawn and one      *)
(* shown, and every function but buffer_update changes the drawn one only. *)
(***************************************************************************)
EXTENDS Naturals

CONSTANTS
    Cols, Rows,
    BitOf,          \* which bit of a byte is which of its eight pixels
    Xs, Ys, Bytes   \* the arguments of callers

Pixels == (0 .. Cols - 1) \X (0 .. Rows - 1)

VARIABLES
    drawn,   \* the lit pixels of the picture being drawn
    shown,   \* those of the picture on the display
    call,    \* the last function called, with its coordinates if it has them
    ret      \* what it returned

vars == <<drawn, shown, call, ret>>

Init == drawn = {} /\ shown = {} /\ call = <<"reset">> /\ ret = "void"

-----------------------------------------------------------------------------
Draw(picture) == drawn' = picture /\ shown' = shown

Clear == call' = <<"clear">> /\ ret' = "void" /\ Draw({})

Invert == call' = <<"invert">> /\ ret' = "void" /\ Draw(Pixels \ drawn)

Copy == call' = <<"copy">> /\ ret' = "void" /\ Draw(shown)

SetPixel(x, y) ==
    /\ call' = <<"set_pixel", x, y>>
    /\ \/ <<x, y>> \in Pixels /\ ret' = "ok" /\ Draw(drawn \cup {<<x, y>>})
       \/ <<x, y>> \notin Pixels /\ ret' = "error" /\ Draw(drawn)

ClearPixel(x, y) ==
    /\ call' = <<"clear_pixel", x, y>>
    /\ \/ <<x, y>> \in Pixels /\ ret' = "ok" /\ Draw(drawn \ {<<x, y>>})
       \/ <<x, y>> \notin Pixels /\ ret' = "error" /\ Draw(drawn)

\* The eight neighbours of one row that share a byte.
Block(x, y) == {p \in Pixels : p[1] \div 8 = x \div 8 /\ p[2] = y}

SetByte(x, y, b) ==
    /\ call' = <<"set_byte", x, y, b>>
    /\ \/ /\ <<x, y>> \in Pixels
          /\ ret' = "ok"
          /\ Draw((drawn \ Block(x, y)) \cup {p \in Block(x, y) : BitOf[p[1] % 8] \in b})
       \/ <<x, y>> \notin Pixels /\ ret' = "error" /\ Draw(drawn)

CheckPixel(x, y) ==
    /\ call' = <<"check_pixel", x, y>>
    /\ ret' = IF <<x, y>> \in shown THEN "true" ELSE "false"
    /\ Draw(drawn)

CompareMatch ==
    /\ call' = <<"compare_match">>
    /\ ret' = IF drawn = shown THEN "true" ELSE "false"
    /\ Draw(drawn)

Update == call' = <<"update">> /\ ret' = "void" /\ drawn' = shown /\ shown' = drawn

Next ==
    \/ Clear \/ Invert \/ Copy \/ CompareMatch \/ Update
    \/ \E x \in Xs, y \in Ys :
        \/ SetPixel(x, y) \/ ClearPixel(x, y) \/ CheckPixel(x, y)
        \/ \E b \in Bytes : SetByte(x, y, b)

Spec == Init /\ [][Next]_vars
=============================================================================
