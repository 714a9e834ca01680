------------------------------ MODULE MCSpectrum ------------------------------
(***************************************************************************)
(* What the FFT task computes and draws with: the transform (Fft), and the *)
(* pixels of the two boards (PixelBuffer).  They share no variable: each   *)
(* behaviour is one of one part, and the others stay in their initial      *)
(* states (Fft's arrays are empty).                                        *)
(*                                                                         *)
(* Two bytes in two rows; callers draw at the last column of the first     *)
(* byte or the first of the second, and beyond the display both ways.  The *)
(* transforms are of 32 points modulo 31, where (2, 20) is a point of      *)
(* order 32 on the circle.  The algorithm is linear: impulses and sums of  *)
(* two suffice.                                                            *)
(***************************************************************************)
EXTENDS PixelBuffer

CONSTANTS Size, Prime, Cos1, Sin1

VARIABLES
    part, form_wbuf, form_rbuf, form_call, form_ret,
    type, phase, signal, input, output

MCBytes == {{7}, {0, 1, 6}}

Impulses ==
    {<<i, i>> : i \in 0 .. 63} \cup {<<i, (5 * i + 9) % 64>> : i \in 0 .. 63}
        \cup {<<i, (5 * i + 9) % 32>> : i \in 0 .. 31}

FF == INSTANCE PixelBuffer
         WITH DevBoard <- FALSE, Xs <- {8, 16},
              wbuf <- form_wbuf, rbuf <- form_rbuf, call <- form_call, ret <- form_ret
F == INSTANCE Fft WITH Inputs <- Impulses

ASSUME TransformAssumption == F!RootAssumption

formVars == <<form_wbuf, form_rbuf, form_call, form_ret>>
fftVars == <<type, phase, signal, input, output>>

MCInit ==
    /\ part \in {"dev", "form", "fft"}
    /\ Init /\ FF!Init
    /\ IF part = "fft" THEN F!Init
       ELSE /\ type = "none" /\ phase = "none"
            /\ signal = <<>> /\ input = <<>> /\ output = <<>>

\* The two transforms end.
MCNext ==
    /\ UNCHANGED part
    /\ \/ part = "dev" /\ Next /\ UNCHANGED <<formVars, fftVars>>
       \/ part = "form" /\ FF!Next /\ UNCHANGED <<vars, fftVars>>
       \/ part = "fft" /\ F!Next /\ UNCHANGED <<vars, formVars>>
       \/ part = "fft" /\ UNCHANGED <<vars, formVars, fftVars>>

MCSpec == MCInit /\ [][MCNext]_<<part, vars, formVars, fftVars>>

-----------------------------------------------------------------------------
(* The forward transforms are the discrete transform of their input         *)
(* (FFT.c 151-174, 196-242), and the backward transform of a spectrum is    *)
(* the signal it was made of (176-194, 244-282, 511-545).                   *)
TransformsRight ==
    /\ part = "fft" => F!TypeOK
    /\ F!SpectrumIsDft /\ F!RoundTrip

(* The form factor's bytes are a picture as well, though its columns run    *)
(* the other way and a 1 lights (FrameBuffer.c 33-158).                     *)
FormDrawsPicture == FF!DrawsPicture
=============================================================================
