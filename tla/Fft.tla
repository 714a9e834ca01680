---------------------------------- MODULE Fft ----------------------------------
(***************************************************************************)
(* The Fourier transform of main/FFT/FFT.c (split radix, base cases of 8   *)
(* and 4, real transforms by one complex transform of half the size),      *)
(* checked against the definition of the transform.                        *)
(*                                                                         *)
(* The algorithm only adds, multiplies and uses that the twiddle factors   *)
(* are the powers of a root of unity, so it is evaluated exactly: floats   *)
(* are the integers modulo Prime, complex numbers pairs of them, and the  *)
(* point (Cos1, Sin1) of the circle has order Size, with j at its         *)
(* quarter.  The arrays interleave real and imaginary parts; here a        *)
(* complex array is a function of pairs.  Rounding is not modelled.        *)
(***************************************************************************)
EXTENDS Integers, FiniteSets, Functions

CONSTANTS
    Size,          \* config->size, a power of two, 8 at least
    Prime,         \* the modulus, a prime
    Cos1, Sin1,    \* cos and sin of 2 pi / Size
    Inputs         \* pairs <<i, j>>: the inputs that are 1 at i and 2 at j

Mod(a) == a % Prime
Inverse2 == (Prime + 1) \div 2

Complex == (0 .. Prime - 1) \X (0 .. Prime - 1)
Plus(a, b) == <<Mod(a[1] + b[1]), Mod(a[2] + b[2])>>
Minus(a, b) == <<Mod(a[1] - b[1]), Mod(a[2] - b[2])>>
Times(a, b) == <<Mod(a[1] * b[1] - a[2] * b[2]), Mod(a[1] * b[2] + a[2] * b[1])>>
Scale(c, a) == <<Mod(c * a[1]), Mod(c * a[2])>>
Conj(a) == <<a[1], Mod(-a[2])>>
J == <<0, 1>>

\* twiddle_factors: e^(2 pi j k / size)
twiddle_factors[k \in 0 .. Size] ==
    IF k = 0 THEN <<1, 0>>
    ELSE LET root == twiddle_factors[k \div 2]
         IN IF k % 2 = 0 THEN Times(root, root) ELSE Times(Times(root, root), <<Cos1, Sin1>>)

RootAssumption ==
    /\ Size >= 8
    /\ Prime > 2
    /\ Mod(Cos1 * Cos1 + Sin1 * Sin1) = 1
    /\ twiddle_factors[Size] = <<1, 0>>
    /\ twiddle_factors[Size \div 4] = J

\* The factor of a transform: the conjugate of the k-th of every tw-th.
Factor(k, tw) == Conj(twiddle_factors[k * tw])

-----------------------------------------------------------------------------
(* split_radix_fft                                                           *)

\* fft4: input[off], input[off + stride], ...
Fft4(x, off, stride) ==
    LET in(i) == x[off + i * stride]
        p == Plus(in(0), in(2))    q == Plus(in(1), in(3))
        r == Minus(in(0), in(2))   s == Times(J, Minus(in(1), in(3)))
    IN [k \in 0 .. 3 |->
            CASE k = 0 -> Plus(p, q)
              [] k = 1 -> Minus(r, s)
              [] k = 2 -> Minus(p, q)
              [] k = 3 -> Plus(r, s)]

\* fft8: three stages, with sin_pi_4 for the odd factors of the first.
Fft8(x, off, stride) ==
    LET in(i) == x[off + i * stride]
        sin_pi_4 == twiddle_factors[Size \div 8][2]
        sum(i) == Plus(in(i), in(i + 4))
        dif(i) == Minus(in(i), in(i + 4))
        b5 == Scale(sin_pi_4, Minus(dif(1), Times(J, dif(1))))
        b6 == Minus(<<0, 0>>, Times(J, dif(2)))
        b7 == Scale(sin_pi_4, Minus(<<0, 0>>, Plus(dif(3), Times(J, dif(3)))))
        a0 == Plus(sum(0), sum(2))   a1 == Plus(sum(1), sum(3))
        a2 == Minus(sum(0), sum(2))  a3 == Times(J, Minus(sum(3), sum(1)))
        a4 == Plus(dif(0), b6)       a5 == Plus(b5, b7)
        a6 == Minus(dif(0), b6)      a7 == Times(J, Minus(b7, b5))
    IN [k \in 0 .. 7 |->
            CASE k = 0 -> Plus(a0, a1)  [] k = 4 -> Minus(a0, a1)
              [] k = 2 -> Plus(a2, a3)  [] k = 6 -> Minus(a2, a3)
              [] k = 1 -> Plus(a4, a5)  [] k = 5 -> Minus(a4, a5)
              [] k = 3 -> Plus(a6, a7)  [] k = 7 -> Minus(a6, a7)]

\* Mutant of Stitch: the third quarter uses the factors of the second.
StitchSameFactors(even, odd1, odd3, n, tw) ==
    [i \in 0 .. n - 1 |->
        LET k == i % (n \div 4)
            x1 == Times(Factor(k, tw), odd1[k])
            x2 == Times(Factor(k, tw), odd3[k])
            jd == Times(J, Minus(x1, x2))
        IN CASE i \div (n \div 4) = 0 -> Plus(even[k], Plus(x1, x2))
             [] i \div (n \div 4) = 1 -> Minus(even[i], jd)
             [] i \div (n \div 4) = 2 -> Minus(even[k], Plus(x1, x2))
             [] i \div (n \div 4) = 3 -> Plus(even[k + n \div 4], jd)]

\* The outputs of the even half and of the two odd quarters are put together.
Stitch(even, odd1, odd3, n, tw) ==
    [i \in 0 .. n - 1 |->
        LET k == i % (n \div 4)
            x1 == Times(Factor(k, tw), odd1[k])
            x2 == Times(Factor(3 * k, tw), odd3[k])
            jd == Times(J, Minus(x1, x2))
        IN CASE i \div (n \div 4) = 0 -> Plus(even[k], Plus(x1, x2))
             [] i \div (n \div 4) = 1 -> Minus(even[i], jd)
             [] i \div (n \div 4) = 2 -> Minus(even[k], Plus(x1, x2))
             [] i \div (n \div 4) = 3 -> Plus(even[k + n \div 4], jd)]

RECURSIVE split_radix_fft(_, _, _, _, _)
split_radix_fft(x, off, n, stride, tw) ==
    IF n = 8 THEN Fft8(x, off, stride)
    ELSE IF n = 4 THEN Fft4(x, off, stride)
    ELSE Stitch(split_radix_fft(x, off, n \div 2, 2 * stride, 2 * tw),
                split_radix_fft(x, off + stride, n \div 4, 4 * stride, 4 * tw),
                split_radix_fft(x, off + 3 * stride, n \div 4, 4 * stride, 4 * tw),
                n, tw)

fft(x, n, tw) == split_radix_fft(x, 0, n, 1, tw)

\* ifft_primitive: a forward transform, its coefficients reversed and divided.
ifft(x, n, tw) ==
    LET y == split_radix_fft(x, 0, n, 1, tw)
        norm == CHOOSE c \in 0 .. Prime - 1 : Mod(c * n) = 1
    IN [k \in 0 .. n - 1 |-> Scale(norm, y[(n - k) % n])]

-----------------------------------------------------------------------------
(* rfft and irfft: n / 2 pairs of real samples as complex numbers            *)

half == Size \div 2

\* The spectra of the even and the odd samples are told apart and put
\* together; the first pair holds the two real coefficients, 0 and n / 2.
rfft(x) ==
    LET y == split_radix_fft(x, 0, half, 1, 2)
        even(k) == Scale(Inverse2, Plus(y[k], Conj(y[half - k])))
        odd(k) == Scale(Inverse2, Times(Conj(J), Minus(y[k], Conj(y[half - k]))))
        turned(k) == Times(Factor(k, 1), odd(k))
    IN [k \in 0 .. half - 1 |->
            IF k = 0 THEN <<Mod(y[0][1] + y[0][2]), Mod(y[0][1] - y[0][2])>>
            ELSE IF k = half \div 2 THEN Conj(y[k])
            ELSE IF k < half \div 2 THEN Plus(even(k), turned(k))
            ELSE Conj(Minus(even(half - k), turned(half - k)))]

\* irfft before its transform, in the place of its input.
Unpack(x) ==
    LET even(k) == Scale(Inverse2, Plus(x[k], Conj(x[half - k])))
        odd(k) == Scale(Inverse2, Minus(x[k], Conj(x[half - k])))
        turned(k) == Times(twiddle_factors[k], odd(k))
    IN [k \in 0 .. half - 1 |->
            IF k = 0 THEN Scale(Inverse2, <<x[0][1] + x[0][2], x[0][1] - x[0][2]>>)
            ELSE IF k = half \div 2 THEN Conj(x[k])
            ELSE IF k < half \div 2 THEN Plus(even(k), Times(J, turned(k)))
            ELSE Conj(Minus(even(half - k), Times(J, turned(half - k))))]

-----------------------------------------------------------------------------
(* A forward plan and a backward plan over the same two buffers              *)

VARIABLES
    type,        \* "FFT_REAL" or "FFT_COMPLEX"
    signal,      \* the non-zero floats of the input
    input,       \* its pairs of floats
    output,
    phase        \* "ready", "forward" or "backward", the last execution

vars == <<type, signal, input, output, phase>>

Length(t) == IF t = "FFT_REAL" THEN half ELSE Size

\* The array with 1 in the first of two places and 2 in the second.
Samples(t, s) ==
    LET float(m) == (IF m = s[1] THEN 1 ELSE 0) + (IF m = s[2] THEN 2 ELSE 0)
    IN [k \in 0 .. Length(t) - 1 |-> <<float(2 * k), float(2 * k + 1)>>]

TypeOK ==
    /\ type \in {"FFT_REAL", "FFT_COMPLEX"}
    /\ signal \in Inputs
    /\ input \in [0 .. Length(type) - 1 -> Complex]
    /\ output \in [0 .. Length(type) - 1 -> Complex]
    /\ phase \in {"ready", "forward", "backward"}

Init ==
    /\ type \in {"FFT_REAL", "FFT_COMPLEX"}
    /\ signal \in Inputs
    /\ \A m \in {signal[1], signal[2]} : m \in 0 .. 2 * Length(type) - 1
    /\ input = Samples(type, signal)
    /\ output = [k \in 0 .. Length(type) - 1 |-> <<0, 0>>]
    /\ phase = "ready"

\* fft_execute of a forward plan
Forward ==
    /\ phase = "ready"
    /\ phase' = "forward"
    /\ output' = IF type = "FFT_REAL" THEN rfft(input) ELSE fft(input, Size, 1)
    /\ UNCHANGED <<type, signal, input>>

\* fft_execute of a backward plan: irfft destroys the array it reads.
Backward ==
    /\ phase = "forward"
    /\ phase' = "backward"
    /\ \/ /\ type = "FFT_REAL"
          /\ output' = Unpack(output)
          /\ input' = ifft(Unpack(output), half, 2)
       \/ /\ type = "FFT_COMPLEX"
          /\ input' = ifft(output, Size, 1)
          /\ UNCHANGED output
    /\ UNCHANGED <<type, signal>>

Next == Forward \/ Backward

Spec == Init /\ [][Next]_vars

-----------------------------------------------------------------------------
\* Reference: the k-th coefficient of the discrete transform of n samples.
Dft(sample(_), n, k) ==
    FoldFunction(Plus, <<0, 0>>,
        [i \in 0 .. n - 1 |->
            Times(sample(i), Conj(twiddle_factors[((i * k) % n) * (Size \div n)]))])

(* The forward transforms are the discrete transform of their input: of a   *)
(* complex input coefficient by coefficient (151-174), of a real one the    *)
(* first half of them, the two real ones packed into the first place, as    *)
(* process_fft reads them (196-242; FFT_task.c:284-295).                    *)
SpectrumIsDft ==
    phase = "forward" =>
        LET real(i) == <<input[i \div 2][1 + (i % 2)], 0>>
            complex(i) == input[i]
        IN IF type = "FFT_REAL"
           THEN /\ \A k \in 1 .. half - 1 : output[k] = Dft(real, Size, k)
                /\ Dft(real, Size, 0) = <<output[0][1], 0>>
                /\ Dft(real, Size, half) = <<output[0][2], 0>>
           ELSE \A k \in 0 .. Size - 1 : output[k] = Dft(complex, Size, k)

(* The backward transform of a spectrum is the signal it was made of, and   *)
(* the forward one has not touched its input (176-194, 244-282, 511-545).   *)
RoundTrip == phase = "backward" => input = Samples(type, signal)
=============================================================================
