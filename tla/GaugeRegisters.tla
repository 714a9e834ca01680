---------------------------- MODULE GaugeRegisters ----------------------------
(***************************************************************************)
(* The registers of the fuel gauge as the driver packs and unpacks them    *)
(* (main/drivers/MAX17048.c).  The chip sends words most significant byte  *)
(* first; the processor is little-endian.  A setting is one field of       *)
(* CONFIG or VALRT, changed by reading the word, masking and writing it    *)
(* back; a mask is given by its lowest bit and its number of values.       *)
(*                                                                         *)
(* A register is a pair of bytes in the order of the bus.  The chip is     *)
(* external: it measures, and it sets the alert bit.  A voltage is a float *)
(* in units of 2^-22 V, which are those of a float's last bit from 2 V to  *)
(* 4 V.  Failed transfers and the two tasks are in FuelGauge.              *)
(***************************************************************************)
EXTENDS Integers

CONSTANTS
    Words,         \* the words the chip may measure
    Thresholds,    \* arguments of set_empty_alert_threshold
    Voltages       \* arguments of set_valert_min and _max

ArgumentAssumption ==
    /\ Words \subseteq (0 .. 255) \X (0 .. 255)
    /\ Thresholds \subseteq 0 .. 255
    /\ Voltages \subseteq Int

Measured == {"VCELL", "SOC", "VERSION", "CRATE", "VRESET_ID", "STATUS"}
Registers == Measured \cup {"CONFIG", "VALRT"}
Quantities == {"voltage", "soc", "version", "c_rate", "id", "status"}

Volt == 4194304   \* 2^22

VARIABLES
    reg,      \* the chip's registers
    reading,  \* the last reading: of what, its value, the register then
    wanted    \* history: the settings last accepted

vars == <<reg, reading, wanted>>

\* What the bytes of the bus mean.
Word(r) == 256 * r[1] + r[2]
Signed(w) == IF w < 32768 THEN w ELSE w - 65536

PowerUp == [r \in Registers |->
    CASE r = "CONFIG" -> <<151, 28>> [] r = "VALRT" -> <<0, 255>> [] OTHER -> <<0, 0>>]

TypeOK ==
    /\ reg \in [Registers -> (0 .. 255) \X (0 .. 255)]
    /\ reading \in [of : Quantities, value : Int, register : (0 .. 255) \X (0 .. 255)]
                 \cup {[of |-> "nothing"]}
    /\ wanted \in [threshold : 1 .. 32, soc_change : BOOLEAN, sleep : BOOLEAN,
                   max : Nat, min : Nat]

\* The chip starts with 255 steps of 20 mV as the upper limit.
Init ==
    /\ reg = PowerUp
    /\ reading = [of |-> "nothing"]
    /\ wanted = [threshold |-> 4, soc_change |-> FALSE, sleep |-> FALSE,
                 max |-> (255 * Volt) \div 50 + 1, min |-> 0]

-----------------------------------------------------------------------------
(* Access to the chip                                                        *)

\* max17048_register_read_word
ReadWord(r) == r[1] * 256 + r[2]

\* max17048_register_write_word: the bytes sent.
WordBytes(data) == <<data \div 256, data % 256>>

\* A word read straight into an uint16_t.
Native(r) == r[1] + 256 * r[2]

\* endian_swap_16bit
EndianSwap(w) == 256 * (w % 256) + w \div 256

\* word & mask
Masked(word, mask) == ((word \div mask.low) % mask.values) * mask.low

\* max17048_register_update
Update(name, data, mask) ==
    LET read_val == ReadWord(reg[name])
        val == Masked(data, mask) + (read_val - Masked(read_val, mask))
    IN reg' = [reg EXCEPT ![name] = WordBytes(val)]

-----------------------------------------------------------------------------
(* Settings                                                                  *)

\* The bits of CONFIG.
SleepBit == 128
SocChangeBit == 64
AlertBit == 32

Bit(b) == [low |-> b, values |-> 2]
Has(r, b) == (r[2] \div b) % 2 = 1

EnableSleep(enable) ==
    /\ Update("CONFIG", IF enable THEN SleepBit ELSE 0, Bit(SleepBit))
    /\ wanted' = [wanted EXCEPT !.sleep = enable]
    /\ UNCHANGED reading

EnableSocChangeAlert(enable) ==
    /\ Update("CONFIG", IF enable THEN SocChangeBit ELSE 0, Bit(SocChangeBit))
    /\ wanted' = [wanted EXCEPT !.soc_change = enable]
    /\ UNCHANGED reading

ClearAlert ==
    /\ Update("CONFIG", 0, Bit(AlertBit))
    /\ UNCHANGED <<reading, wanted>>

EmptyAlertMask == [low |-> 1, values |-> 32]

\* An argument out of range is refused.
SetEmptyAlertThreshold(alert_soc) ==
    /\ alert_soc >= 1 /\ alert_soc <= 32
    /\ Update("CONFIG", 32 - alert_soc, EmptyAlertMask)
    /\ wanted' = [wanted EXCEPT !.threshold = alert_soc]
    /\ UNCHANGED reading

\* voltage <= 5.1 && voltage >= 0; others are refused.  5.1f is the last one.
Accepted(voltage) == 10 * voltage <= 51 * Volt /\ voltage >= 0

\* (uint8_t)(voltage / 0.02) of an accepted voltage: 3.3f gives 164.
Steps(voltage) == (50 * voltage) \div Volt

SetValertMax(voltage) ==
    /\ Accepted(voltage)
    /\ Update("VALRT", Steps(voltage), [low |-> 1, values |-> 256])
    /\ wanted' = [wanted EXCEPT !.max = voltage]
    /\ UNCHANGED reading

\* Mutant of SetValertMin: the limit is not moved into its byte.
SetValertMinLow(voltage) ==
    /\ Accepted(voltage)
    /\ Update("VALRT", Steps(voltage), [low |-> 256, values |-> 256])
    /\ wanted' = [wanted EXCEPT !.min = voltage]
    /\ UNCHANGED reading

SetValertMin(voltage) ==
    /\ Accepted(voltage)
    /\ Update("VALRT", Steps(voltage) * 256, [low |-> 256, values |-> 256])
    /\ wanted' = [wanted EXCEPT !.min = voltage]
    /\ UNCHANGED reading

-----------------------------------------------------------------------------
(* Readings                                                                  *)

Source == [voltage |-> "VCELL", soc |-> "SOC", version |-> "VERSION",
           c_rate |-> "CRATE", id |-> "VRESET_ID", status |-> "STATUS"]

\* The functions max17048_get_...; voltage and c_rate without their scale.
Value(q, r) ==
    CASE q \in {"voltage", "version"} -> EndianSwap(Native(r))
      [] q = "soc" -> r[1]
      [] q = "c_rate" -> Signed(EndianSwap(ReadWord(r)))
      [] q = "id" -> ReadWord(r) % 256
      [] q = "status" -> ReadWord(r) \div 256

Get(q) ==
    LET r == reg[Source[q]]
    IN /\ reading' = [of |-> q, value |-> Value(q, r), register |-> r]
       /\ UNCHANGED <<reg, wanted>>

-----------------------------------------------------------------------------
(* The chip                                                                  *)

Measure ==
    /\ \E w \in Words : reg' = [r \in Registers |-> IF r \in Measured THEN w ELSE reg[r]]
    /\ UNCHANGED <<reading, wanted>>

RaiseAlert ==
    /\ ~ Has(reg["CONFIG"], AlertBit)
    /\ reg' = [reg EXCEPT !["CONFIG"] = <<@[1], @[2] + AlertBit>>]
    /\ UNCHANGED <<reading, wanted>>

-----------------------------------------------------------------------------
Set ==
    \/ \E enable \in BOOLEAN : EnableSleep(enable) \/ EnableSocChangeAlert(enable)
    \/ \E s \in Thresholds : SetEmptyAlertThreshold(s)
    \/ \E v \in Voltages : SetValertMax(v) \/ SetValertMin(v)

Next ==
    \/ Set
    \/ ClearAlert
    \/ \E q \in Quantities : Get(q)
    \/ Measure
    \/ RaiseAlert

Spec == Init /\ [][Next]_vars

-----------------------------------------------------------------------------
AlertSet == Has(reg["CONFIG"], AlertBit)

\* A limit of so many steps is the one asked for, rounded down to a step.
LimitIs(steps, voltage) ==
    steps * Volt <= 50 * voltage /\ 50 * voltage < (steps + 1) * Volt

(* After any sequence of settings, refused ones among them, every field     *)
(* holds the one last accepted, the voltage limits to within a step of      *)
(* 20 mV, and the compensation byte of CONFIG what the chip started with    *)
(* (278-327).                                                               *)
SettingsKept ==
    /\ reg["CONFIG"][1] = PowerUp["CONFIG"][1]
    /\ 32 - (reg["CONFIG"][2] % 32) = wanted.threshold
    /\ Has(reg["CONFIG"], SocChangeBit) <=> wanted.soc_change
    /\ Has(reg["CONFIG"], SleepBit) <=> wanted.sleep
    /\ LimitIs(reg["VALRT"][1], wanted.min)
    /\ LimitIs(reg["VALRT"][2], wanted.max)

(* No setting acknowledges an alert: the pin is released by                 *)
(* max17048_clear_alert alone (290-294).                                    *)
SettingsKeepAlert == [][Set => (AlertSet <=> AlertSet')]_vars

(* A reading is what the chip meant by the bytes it sent (248-276, 344-366).*)
ReadingsRight ==
    CASE reading.of \in {"voltage", "version"} -> reading.value = Word(reading.register)
      [] reading.of \in {"soc", "status"} -> reading.value = reading.register[1]
      [] reading.of = "id" -> reading.value = reading.register[2]
      [] OTHER -> TRUE
=============================================================================
